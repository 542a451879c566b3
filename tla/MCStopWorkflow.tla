--------------------------- MODULE MCStopWorkflow ---------------------------
(* StopWorkflow for TLC: symmetry of the calls and a view that forgets the   *)
(* local variables of calls that have returned.                              *)
EXTENDS StopWorkflow, TLC

Symmetry == Permutations(Executors) \cup Permutations(Recoverers)
              \cup Permutations(Approvers) \cup Permutations(Sessions)

Ended == {"done", "crashed", "raised", "succeeded", "failed"}
Live(f, pc, D) == [w \in {x \in D : pc[x] \notin Ended} |-> f[w]]

View == <<durable, cloud, xpc, inflight, vpc, rpc, apc, claims, vobs, robs,
          Live(xrun, xpc, Executors), Live(xfail, xpc, Executors),
          Live(vrun, vpc, Observers), Live(vattempt, vpc, Observers),
          Live(vfail, vpc, Observers),
          Live(snap, rpc, Recoverers), Live(rrun, rpc, Recoverers),
          Live(rattempt, rpc, Recoverers), Live(rend, rpc, Recoverers),
          Live(arun, apc, Approvers), Live(aprop, apc, Approvers),
          Live(ackpt, apc, Approvers), Live(areply, apc, Approvers),
          Live(afail, apc, Approvers)>>
=============================================================================
