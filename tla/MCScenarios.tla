----------------------------- MODULE MCScenarios -----------------------------
(* Several scenarios of StopWorkflow in one run.  A behaviour begins by       *)
(* choosing which calls are made, which of them may die and how many faults   *)
(* happen; every step is one of the specification's own.          *)
EXTENDS MCStopWorkflow

CONSTANTS Scenarios,   \* the names of the scenarios of the run
          e1, e2, v1, r1, a1, a2, a3

VARIABLE cast

Cast(calls, dying, fault, change) ==
    [calls |-> calls, dying |-> dying, faults |-> fault, drift |-> change]

\* decisions: requests, opposite or repeated decisions and an execution;
\* restart: a request, a decision and a recovery;
\* execute: two executions, a storage fault and a changed instance;
\* verify: an execution, a verification and a recovery;
\* remote: two executions and a recovery;
\* storage: any one call of an execution or a recovery fails.
CastOf ==
    [decisions |-> Cast({e1, a1, a2, a3}, {a1, a2, a3}, 0, 0),
     restart   |-> Cast({r1, a1, a2}, {a1, a2}, 0, 0),
     execute   |-> Cast({e1, e2}, {e1, e2}, 1, 1),
     verify    |-> Cast({e1, v1, r1}, {e1, v1, r1}, 0, 0),
     remote    |-> Cast({e1, e2, r1}, {e1, e2, r1}, 0, 0),
     storage   |-> Cast({e1, r1}, {e1}, 1, 1)]

Lives(w, pc) == w \in cast.dying \/ pc[w] # "crashed"

ScenarioInit == Init /\ cast \in {CastOf[s] : s \in Scenarios}
ScenarioNext ==
    /\ \/ \E e \in Executors \cap cast.calls : ExecutorNext(e) /\ Lives(e, xpc')
       \/ \E v \in Verifiers \cap cast.calls : VerifierNext(v) /\ Lives(v, vpc')
       \/ \E r \in Recoverers \cap cast.calls : RecovererNext(r) /\ Lives(r, rpc')
       \/ \E a \in Approvers \cap cast.calls : ApproverNext(a) /\ Lives(a, apc')
       \/ EnvironmentNext
    /\ faults' <= cast.faults /\ drift' <= cast.drift
    /\ UNCHANGED cast
ScenarioSpec == ScenarioInit /\ [][ScenarioNext]_<<vars, cast>>

ScenarioView == <<View, cast>>
=============================================================================
