----------------------------- MODULE LocalFirst -----------------------------
(***************************************************************************)
(* LocalFirstPhaseOneFlow.execute: from a new run to a proposal that waits *)
(* for approval, or to one of the terminal states that need none.  Workers *)
(* are the handler threads of the local server; each carries out one call  *)
(* at a time and may die between two steps (Crash).                        *)
(***************************************************************************)
EXTENDS LocalTruth

CONSTANT Workers

VARIABLES wpc,   \* control point of each worker
          wrun,  \* the run its call is about
          wcur,  \* `current`: the Run as it last read or wrote it
          wchk,  \* the checkpoint as it last read or wrote it
          wto,   \* state in which a failure is being stored
          winp   \* session, decision and challenge the caller sent

workers == <<wpc, wrun, wcur, wchk, wto, winp>>
vars == <<local, workers>>

NoInput == [session |-> Nobody, decision |-> "none", request |-> 0]

WorkersInit ==
    /\ wpc = [w \in Workers |-> "idle"]
    /\ wrun = [w \in Workers |-> Nobody]
    /\ wcur = [w \in Workers |-> NoRun]
    /\ wchk = [w \in Workers |-> NoCheckpoint]
    /\ wto = [w \in Workers |-> "RECEIVED"]
    /\ winp = [w \in Workers |-> NoInput]

\* The call returns (or its process dies) and everything it held is gone.
Forget(w) ==
    /\ wpc' = [wpc EXCEPT ![w] = "idle"]
    /\ wrun' = [wrun EXCEPT ![w] = Nobody]
    /\ wcur' = [wcur EXCEPT ![w] = NoRun]
    /\ wchk' = [wchk EXCEPT ![w] = NoCheckpoint]
    /\ wto' = [wto EXCEPT ![w] = "RECEIVED"]
    /\ winp' = [winp EXCEPT ![w] = NoInput]

Hold(w, next, cur, chk) ==
    /\ wpc' = [wpc EXCEPT ![w] = next]
    /\ wcur' = [wcur EXCEPT ![w] = cur]
    /\ wchk' = [wchk EXCEPT ![w] = chk]
    /\ UNCHANGED <<wrun, wto, winp>>

Keep(w, next) == Hold(w, next, wcur[w], wchk[w])

\* Store the failure state `to`; the call then returns.
FailTo(w, to) ==
    /\ wpc' = [wpc EXCEPT ![w] = "fail"]
    /\ wto' = [wto EXCEPT ![w] = to]
    /\ UNCHANGED <<wrun, wcur, wchk, winp>>

Begin(w, r, next, input) ==
    /\ wpc[w] = "idle"
    /\ wpc' = [wpc EXCEPT ![w] = next]
    /\ wrun' = [wrun EXCEPT ![w] = r]
    /\ winp' = [winp EXCEPT ![w] = input]
    /\ UNCHANGED <<local, wcur, wchk, wto>>

Moved(w, to) == [state |-> to, version |-> wcur[w].version + 1]

-----------------------------------------------------------------------------
Execute(w, r) == Begin(w, r, "f_get_run", NoInput)

\* Another caller's untouched RECEIVED run equals the one passed in.
GetRun(w) ==
    /\ wpc[w] = "f_get_run"
    /\ \E res \in Result :
         /\ ReadTruth(res)
         /\ LET found == run[wrun[w]] IN
            IF res # "ok" THEN Forget(w) ELSE
             CASE found = NoRun    -> Keep(w, "f_create")
               [] found = Received -> Hold(w, "f_investigating", Received, wchk[w])
               [] OTHER            -> Hold(w, "f_reconcile", found, wchk[w])

CreateRun(w) ==
    /\ wpc[w] = "f_create"
    /\ \E res \in Result :
         /\ create_run(wrun[w], res)
         /\ CASE res = "ok"       -> Hold(w, "f_audit_created", Received, wchk[w])
              [] res = "conflict" -> Keep(w, "f_raced")
              [] OTHER            -> Forget(w)

AuditCreated(w) ==
    /\ wpc[w] = "f_audit_created"
    /\ \E res \in Result :
         /\ append_audit_event(res)
         /\ CASE res = "ok"       -> Keep(w, "f_investigating")
              [] res = "conflict" -> Keep(w, "f_raced")
              [] OTHER            -> Forget(w)

Raced(w) ==
    /\ wpc[w] = "f_raced"
    /\ \E res \in Result :
         /\ ReadTruth(res)
         /\ IF res = "ok" /\ run[wrun[w]] # NoRun
            THEN Hold(w, "f_reconcile", run[wrun[w]], wchk[w])
            ELSE Forget(w)

\* _reconcile only reads; a run in no reconcilable state is refused unread.
Reconcile(w) ==
    /\ wpc[w] = "f_reconcile"
    /\ \/ /\ wcur[w].state \in {"AWAITING_APPROVAL", "NO_ACTION_REQUIRED", "RECOMMENDATION_ONLY"}
          /\ \E res \in Result : ReadTruth(res)
       \/ /\ wcur[w].state \notin {"AWAITING_APPROVAL", "NO_ACTION_REQUIRED",
                                   "RECOMMENDATION_ONLY"}
          /\ UNCHANGED local
    /\ Forget(w)

ToInvestigating(w) ==
    /\ wpc[w] = "f_investigating"
    /\ \E res \in Result :
         /\ transition_run(wrun[w], wcur[w], "INVESTIGATING", res)
         /\ IF res = "ok" THEN Hold(w, "f_query", Moved(w, "INVESTIGATING"), wchk[w])
            ELSE Forget(w)

\* QueryResource.execute: a malformed query, an absent resource, an unreadable
\* inventory or evidence of what is there.
Query(w) ==
    /\ wpc[w] = "f_query"
    /\ \E res \in Result :
         /\ ReadInventory(res)
         /\ \/ res # "ok" /\ FailTo(w, workflow_state_for_failure("TOOL_ADAPTER_FAILURE"))
            \/ /\ res = "ok" /\ resource = "absent"
               /\ FailTo(w, workflow_state_for_failure("NOT_FOUND"))
            \/ /\ res = "ok" /\ resource # "absent"
               /\ \/ FailTo(w, workflow_state_for_failure("VALIDATION_FAILURE"))
                  \/ Hold(w, "f_audit_query", wcur[w], [NoCheckpoint EXCEPT !.evidence = resource])

StoreFailed(w) == FailTo(w, workflow_state_for_failure("STORAGE_FAILURE"))

AuditQuery(w) ==
    /\ wpc[w] = "f_audit_query"
    /\ \E res \in Result :
         /\ append_audit_event(res)
         /\ IF res = "ok" THEN Keep(w, "f_evidence_ready") ELSE StoreFailed(w)

ToEvidenceReady(w) ==
    /\ wpc[w] = "f_evidence_ready"
    /\ \E res \in Result :
         /\ transition_run(wrun[w], wcur[w], "EVIDENCE_READY", res)
         /\ IF res = "ok" THEN Hold(w, "f_checkpoint_1", Moved(w, "EVIDENCE_READY"), wchk[w])
            ELSE StoreFailed(w)

\* A checkpoint built from the one held, with its version counted up.
SaveHeld(w, new, next, failed) ==
    \E res \in Result :
      /\ save_checkpoint(wrun[w], wchk[w], new, res)
      /\ IF res = "ok"
         THEN Hold(w, next, wcur[w], [new EXCEPT !.version = wchk[w].version + 1])
         ELSE failed

Checkpoint1(w) ==
    /\ wpc[w] = "f_checkpoint_1"
    /\ SaveHeld(w, [wchk[w] EXCEPT !.safe = "EVIDENCE_READY"], "f_plan", StoreFailed(w))

\* The plan the evidence and local policy allow; a model that says anything else
\* is refused.
canonical_model_candidate(evidence) ==
    CASE evidence = "clean" -> "NO_ACTION"
      [] evidence = "tags"  -> "RECOMMENDATION"
      [] OTHER              -> "PROPOSAL"

\* ModelProvider.create_plan and PlanRemediation.execute.
Plan(w) ==
    /\ wpc[w] = "f_plan"
    /\ UNCHANGED local
    /\ \/ FailTo(w, workflow_state_for_failure("PROVIDER_FAILURE"))
       \/ \E kind \in {"VALIDATION_FAILURE", "POLICY_DENIAL"} :
            /\ wpc' = [wpc EXCEPT ![w] = "f_audit_rejected"]
            /\ wto' = [wto EXCEPT ![w] = workflow_state_for_failure(kind)]
            /\ UNCHANGED <<wrun, wcur, wchk, winp>>
       \/ Keep(w, CASE canonical_model_candidate(wchk[w].evidence) = "NO_ACTION" -> "f_no_action"
                    [] canonical_model_candidate(wchk[w].evidence) = "RECOMMENDATION"
                         -> "f_recommend"
                    [] OTHER -> "f_proposed")

AuditRejected(w) ==
    /\ wpc[w] = "f_audit_rejected"
    /\ \E res \in Result :
         /\ append_audit_event(res)
         /\ IF res = "ok" THEN Keep(w, "fail") ELSE Forget(w)

\* _complete_safe_terminal: the run ends first, its checkpoint follows.
SafeTerminal(w) ==
    /\ wpc[w] \in {"f_no_action", "f_recommend"}
    /\ LET to == IF wpc[w] = "f_no_action" THEN "NO_ACTION_REQUIRED" ELSE "RECOMMENDATION_ONLY" IN
       \E res \in Result :
         /\ transition_run(wrun[w], wcur[w], to, res)
         /\ IF res = "ok" THEN Hold(w, "f_terminal_checkpoint", Moved(w, to), wchk[w])
            ELSE Forget(w)

TerminalCheckpoint(w) ==
    /\ wpc[w] = "f_terminal_checkpoint"
    /\ SaveHeld(w, [wchk[w] EXCEPT !.safe = wcur[w].state,
                                   !.proposal = wcur[w].state = "RECOMMENDATION_ONLY"],
                "f_audit_end", Forget(w))

\* Mutant: the run waits for its approval before the proposal is stored.
ToProposedUnstored(w) ==
    /\ wpc[w] = "f_proposed"
    /\ \E res \in Result :
         /\ transition_run(wrun[w], wcur[w], "REMEDIATION_PROPOSED", res)
         /\ IF res = "ok" THEN Hold(w, "f_awaiting", Moved(w, "REMEDIATION_PROPOSED"), wchk[w])
            ELSE Forget(w)

ToProposed(w) ==
    /\ wpc[w] = "f_proposed"
    /\ \E res \in Result :
         /\ transition_run(wrun[w], wcur[w], "REMEDIATION_PROPOSED", res)
         /\ IF res = "ok" THEN Hold(w, "f_checkpoint_2", Moved(w, "REMEDIATION_PROPOSED"), wchk[w])
            ELSE Forget(w)

\* The proposal is stored before the run that waits for it.
Checkpoint2(w) ==
    /\ wpc[w] = "f_checkpoint_2"
    /\ SaveHeld(w, [wchk[w] EXCEPT !.safe = "AWAITING_APPROVAL", !.proposal = TRUE],
                "f_awaiting", Forget(w))

ToAwaiting(w) ==
    /\ wpc[w] = "f_awaiting"
    /\ \E res \in Result :
         /\ transition_run(wrun[w], wcur[w], "AWAITING_APPROVAL", res)
         /\ IF res = "ok" THEN Hold(w, "f_audit_planned", Moved(w, "AWAITING_APPROVAL"), wchk[w])
            ELSE Forget(w)

AuditPlanned(w) ==
    /\ wpc[w] = "f_audit_planned"
    /\ \E res \in Result :
         /\ append_audit_event(res)
         /\ IF res = "ok" THEN Keep(w, "f_audit_end") ELSE Forget(w)

AuditEnd(w) ==
    /\ wpc[w] = "f_audit_end"
    /\ \E res \in Result : append_audit_event(res)
    /\ Forget(w)

-----------------------------------------------------------------------------

\* _persist_failure and _persist_execution_failure: a run that has moved on is
\* left alone; a forbidden transition raises, and nothing here catches that.
PersistFailure(w) ==
    /\ wpc[w] = "fail"
    /\ \/ wcur[w].state = wto[w] /\ UNCHANGED local /\ Forget(w)
       \/ /\ wcur[w].state # wto[w]
          /\ \E res \in Result :
               /\ transition_run(wrun[w], wcur[w], wto[w], res)
               /\ IF res = "illegal" THEN Keep(w, "raised") ELSE Forget(w)

Crash(w) ==
    /\ wpc[w] \notin {"idle", "raised"}
    /\ Forget(w)
    /\ UNCHANGED local

FirstStep(w) ==
    \/ GetRun(w) \/ CreateRun(w) \/ AuditCreated(w) \/ Raced(w) \/ Reconcile(w)
    \/ ToInvestigating(w) \/ Query(w) \/ AuditQuery(w) \/ ToEvidenceReady(w)
    \/ Checkpoint1(w) \/ Plan(w) \/ AuditRejected(w) \/ SafeTerminal(w)
    \/ TerminalCheckpoint(w) \/ ToProposed(w) \/ Checkpoint2(w) \/ ToAwaiting(w)
    \/ AuditPlanned(w) \/ AuditEnd(w) \/ PersistFailure(w)
=============================================================================
