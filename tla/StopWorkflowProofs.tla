------------------------- MODULE StopWorkflowProofs -------------------------
(***************************************************************************)
(* Theorems about StopWorkflow, for any number of calls and any bounds:    *)
(* type correctness, the one sender of the stop request, what the calls    *)
(* may ask of the durable truth, what the human decision and the claim are *)
(* worth, and how a run ends.                                              *)
(***************************************************************************)
EXTENDS StopWorkflow, ApprovalProofs

\* The transition table never leads back to a claimable state.
LEMMA NoWayBack ==
    ASSUME NEW s \in WorkflowState, s \notin Claimable,
           NEW t \in ALLOWED_WORKFLOW_TRANSITIONS[s]
    PROVE  t \notin Claimable
  BY DEF WorkflowState, TERMINAL_WORKFLOW_STATES, Claimable,
         ALLOWED_WORKFLOW_TRANSITIONS, COMMON_FAILURES

-----------------------------------------------------------------------------
(***************************************************************************)
(* Type correctness, component by component.  Each lemma also says that    *)
(* the step moves the run along the transition table, if at all.           *)
(***************************************************************************)

\* The control points execute() moves to.
LEMMA ExecutorPoints ==
    /\ "idle" \in ExecutorPc  /\ "get_idempotency" \in ExecutorPc
    /\ "get_run_ack" \in ExecutorPc  /\ "require_approved" \in ExecutorPc
    /\ "register" \in ExecutorPc  /\ "load" \in ExecutorPc
    /\ "claim" \in ExecutorPc  /\ "mark" \in ExecutorPc
    /\ "mark_transition" \in ExecutorPc  /\ "append_requested" \in ExecutorPc
    /\ "describe" \in ExecutorPc  /\ "emergency_1" \in ExecutorPc
    /\ "dry_run" \in ExecutorPc  /\ "emergency_2" \in ExecutorPc
    /\ "stop_instances" \in ExecutorPc  /\ "record_ack" \in ExecutorPc
    /\ "to_verifying" \in ExecutorPc  /\ "append_acknowledged" \in ExecutorPc
    /\ "append_denied" \in ExecutorPc  /\ "complete_failed" \in ExecutorPc
    /\ "to_failed" \in ExecutorPc  /\ "done" \in ExecutorPc
    /\ "crashed" \in ExecutorPc  /\ "raised" \in ExecutorPc
  BY DEF ExecutorPc, BeforeClaim, BeforeStop, AfterStop

\* xpc keeps its type when a call moves to a known control point.
LEMMA GotoType ==
    ASSUME RemediationTypeOK, NEW e \in Executors, NEW p \in ExecutorPc, Goto(e, p)
    PROVE  xpc' \in [Executors -> ExecutorPc]
  BY DEF Goto, RemediationTypeOK

\* xpc keeps its type when a call continues according to a repository result.
LEMMA ThenType ==
    ASSUME RemediationTypeOK, NEW e \in Executors, NEW res \in Result,
           NEW a \in ExecutorPc, NEW b \in ExecutorPc, NEW c \in ExecutorPc,
           Then(e, res, a, b, c)
    PROVE  xpc' \in [Executors -> ExecutorPc]
  <1>1. After(res, a, b, c) \in ExecutorPc
    BY ExecutorPoints, AfterType
  <1> QED
    BY <1>1, GotoType DEF Then

\* _persist_execution_failure starts with a known kind at a known point.
LEMMA FailType ==
    ASSUME RemediationTypeOK, NEW e \in Executors, NEW kind \in FailureKind, Fail(e, kind)
    PROVE  /\ xpc' \in [Executors -> ExecutorPc]
           /\ xfail' \in [Executors -> FailureKind \cup {"none"}]
  <1>1. (IF kind = "POLICY_DENIAL" THEN "append_denied" ELSE "complete_failed") \in ExecutorPc
    BY ExecutorPoints
  <1> QED
    BY <1>1, GotoType DEF Fail, RemediationTypeOK

\* A function left running behind the Lambda is a typed execution.
LEMMA LeaveBehindType ==
    ASSUME RemediationTypeOK, NEW e \in Executors, LeaveBehind(e)
    PROVE  inflight' \in [Executors -> {"none", "checking", "sending"}]
  BY DEF LeaveBehind, RemediationTypeOK

\* Reading an existing claim never leads execute() past the claiming transition.
LEMMA ClaimDisposition == claim_disposition \in ExecutorPc \ BeforeStop
  <1>1. claim_disposition \in {"require_approved", "get_run_ack", "mark", "done"}
    BY Zenon DEF claim_disposition
  <1> QED
    BY <1>1 DEF ExecutorPc, BeforeClaim, BeforeStop

\* Every step of execute() keeps the types.
LEMMA ExecutorType ==
    ASSUME DurableTypeOK, CloudTypeOK, RemediationTypeOK, NEW e \in Executors,
           ExecutorStep(e) \/ ExecutorCrash(e)
    PROVE  Step /\ CloudTypeOK' /\ RemediationTypeOK'
  <1> USE ExecutorPoints
  <1>1. CASE Execute(e)
    BY <1>1, ReadStep, ThenType
       DEF Execute, cloud, CloudTypeOK, RemediationTypeOK
  <1>2. CASE GetIdempotency(e)
    BY <1>2, ReadStep, ThenType, ClaimDisposition
       DEF GetIdempotency, cloud, CloudTypeOK, RemediationTypeOK
  <1>3. CASE GetRunAfterAck(e)
    BY <1>3, ReadStep, ThenType
       DEF GetRunAfterAck, cloud, CloudTypeOK, RemediationTypeOK
  <1>4. CASE RequireApproved(e)
    BY <1>4, ReadStep, ThenType
       DEF RequireApproved, cloud, CloudTypeOK, RemediationTypeOK
  <1>5. CASE RegisterApprovedAction(e)
    BY <1>5, RegisterIdempotency, ThenType
       DEF RegisterApprovedAction, Step, RunMoves, cloud, CloudTypeOK, RemediationTypeOK
  <1>6. CASE LoadExecutionPrerequisites(e)
    BY <1>6, ReadStep, ThenType
       DEF LoadExecutionPrerequisites, DurableTypeOK, cloud, CloudTypeOK,
           RemediationTypeOK
  <1>7. CASE ClaimExecution(e)
    <2>1. PICK res \in Result :
             /\ transition_run("APPROVED", xrun[e].version, "EXECUTING", res)
             /\ Then(e, res, "append_requested", "mark", "done")
      BY <1>7 DEF ClaimExecution
    <2>2. Step
      BY <2>1, TransitionStep DEF WorkflowState
    <2>3. [state |-> "EXECUTING", version |-> xrun[e].version + 1] \in Run
      BY DEF RemediationTypeOK, Run, WorkflowState
    <2> QED
      BY <1>7, <2>1, <2>2, <2>3, ThenType
         DEF ClaimExecution, cloud, CloudTypeOK, RemediationTypeOK
  <1>8. CASE AppendRequested(e)
    BY <1>8, AppendAuditEvent, ThenType
       DEF AppendRequested, AuditEventType, Step, RunMoves, cloud, CloudTypeOK,
           RemediationTypeOK
  <1>9. CASE InvocationLost(e)
    BY <1>9, FailType, LeaveBehindType, UnchangedStep
       DEF InvocationLost, FailureKind, cloud, CloudTypeOK, RemediationTypeOK
  <1>10. CASE Describe(e)
    <2>1. Reported("POLICY_DENIAL") \in FailureKind
      BY DEF Reported, FailureKind
    <2>2. /\ xpc' \in [Executors -> ExecutorPc]
          /\ xfail' \in [Executors -> FailureKind \cup {"none"}]
      BY <1>10, <2>1, GotoType, FailType DEF Describe, FailureKind, RemediationTypeOK
    <2> QED
      BY <1>10, <2>2, UnchangedStep DEF Describe, cloud, CloudTypeOK, RemediationTypeOK
  <1>11. CASE FirstEmergencyCheck(e)
    <2>1. /\ xpc' \in [Executors -> ExecutorPc]
          /\ xfail' \in [Executors -> FailureKind \cup {"none"}]
      BY <1>11, GotoType, FailType
         DEF FirstEmergencyCheck, AssertWritesEnabled, FailureKind, RemediationTypeOK
    <2> QED
      BY <1>11, <2>1, UnchangedStep
         DEF FirstEmergencyCheck, AssertWritesEnabled, cloud, CloudTypeOK,
             RemediationTypeOK
  <1>12. CASE DryRun(e)
    <2>1. /\ xpc' \in [Executors -> ExecutorPc]
          /\ xfail' \in [Executors -> FailureKind \cup {"none"}]
      BY <1>12, GotoType, FailType DEF DryRun, FailureKind, RemediationTypeOK
    <2> QED
      BY <1>12, <2>1, UnchangedStep DEF DryRun, cloud, CloudTypeOK, RemediationTypeOK
  <1>13. CASE SecondEmergencyCheck(e)
    <2>1. /\ xpc' \in [Executors -> ExecutorPc]
          /\ xfail' \in [Executors -> FailureKind \cup {"none"}]
      BY <1>13, GotoType, FailType
         DEF SecondEmergencyCheck, AssertWritesEnabled, FailureKind, RemediationTypeOK
    <2> QED
      BY <1>13, <2>1, UnchangedStep
         DEF SecondEmergencyCheck, AssertWritesEnabled, cloud, CloudTypeOK,
             RemediationTypeOK
  <1>14. CASE StopInstances(e)
    <2>1. /\ Reported("EXECUTION_FAILURE") \in FailureKind
          /\ Reported("RECOVERY_REQUIREMENT") \in FailureKind
      BY DEF Reported, FailureKind
    <2>2. /\ xpc' \in [Executors -> ExecutorPc]
          /\ xfail' \in [Executors -> FailureKind \cup {"none"}]
      BY <1>14, <2>1, GotoType, FailType
         DEF StopInstances, FailureKind, RemediationTypeOK
    <2>3. CloudTypeOK'
      <3>1. /\ instance' \in {"running", "stopping", "stopped"}
            /\ stopCalls' \in Nat
            /\ drift' \in 0..MaxDrift
        BY <1>14 DEF StopInstances, EffectOfStop, CloudTypeOK
      <3>2. writesEnabled' \in BOOLEAN /\ ambiguous' \in BOOLEAN
        BY <1>14, Zenon DEF StopInstances, CloudTypeOK
      <3> QED
        BY <3>1, <3>2 DEF CloudTypeOK
    <2> QED
      BY <1>14, <2>2, <2>3, UnchangedStep DEF StopInstances, RemediationTypeOK
  <1>15. CASE LateChecks(e)
    BY <1>15, UnchangedStep
       DEF LateChecks, cloud, CloudTypeOK, RemediationTypeOK
  <1>16. CASE LateStop(e)
    <2>1. CloudTypeOK'
      <3>1. /\ instance' \in {"running", "stopping", "stopped"}
            /\ stopCalls' \in Nat
            /\ drift' \in 0..MaxDrift
        BY <1>16 DEF LateStop, EffectOfStop, CloudTypeOK
      <3>2. writesEnabled' \in BOOLEAN /\ ambiguous' \in BOOLEAN
        BY <1>16, Zenon DEF LateStop, CloudTypeOK
      <3> QED
        BY <3>1, <3>2 DEF CloudTypeOK
    <2> QED
      BY <1>16, <2>1, UnchangedStep DEF LateStop, RemediationTypeOK
  <1>17. CASE RecordAcknowledgement(e)
    BY <1>17, RecordAck, ThenType
       DEF RecordAcknowledgement, Step, RunMoves, cloud, CloudTypeOK, RemediationTypeOK
  <1>18. CASE ToVerifying(e)
    <2>1. PICK res \in Result :
             /\ transition_run("EXECUTING", xrun[e].version, "VERIFYING", res)
             /\ Then(e, res, "append_acknowledged", "mark", "mark")
      BY <1>18 DEF ToVerifying
    <2>2. Step
      BY <2>1, TransitionStep DEF WorkflowState
    <2> QED
      BY <1>18, <2>1, <2>2, ThenType
         DEF ToVerifying, cloud, CloudTypeOK, RemediationTypeOK
  <1>19. CASE AppendAcknowledged(e)
    BY <1>19, AppendAuditEvent, ThenType
       DEF AppendAcknowledged, AuditEventType, Step, RunMoves, cloud, CloudTypeOK,
           RemediationTypeOK
  <1>20. CASE AppendDenied(e)
    BY <1>20, AppendAuditEvent, ThenType
       DEF AppendDenied, AuditEventType, Step, RunMoves, cloud, CloudTypeOK,
           RemediationTypeOK
  <1>21. CASE CompleteFailed(e)
    <2> DEFINE status == IF xfail[e] = "RECOVERY_REQUIREMENT"
                         THEN "RECONCILIATION_REQUIRED" ELSE "FAILED"
    <2>1. PICK res \in Result : /\ complete_idempotency(status, None, res)
                                /\ Then(e, res, "to_failed", "done", "done")
      BY <1>21 DEF CompleteFailed
    <2>2. status \in IdempotencyStatus
      BY DEF IdempotencyStatus
    <2> HIDE DEF status
    <2>3. Step
      BY <2>1, <2>2, CompleteIdempotency DEF Step, RunMoves
    <2> QED
      BY <1>21, <2>1, <2>3, ThenType
         DEF CompleteFailed, cloud, CloudTypeOK, RemediationTypeOK
  <1>22. CASE ToFailed(e)
    BY <1>22, TransitionStep, ThenType, FailureStates
       DEF ToFailed, cloud, CloudTypeOK, RemediationTypeOK
  <1>23. CASE MarkGetRun(e)
    BY <1>23, ReadStep, ThenType
       DEF MarkGetRun, DurableTypeOK, cloud, CloudTypeOK, RemediationTypeOK
  <1>24. CASE MarkTransition(e)
    BY <1>24, TransitionStep, ThenType
       DEF MarkTransition, WorkflowState, TERMINAL_WORKFLOW_STATES, cloud, CloudTypeOK,
           RemediationTypeOK
  <1>25. CASE ExecutorCrash(e)
    BY <1>25, GotoType, LeaveBehindType, UnchangedStep
       DEF ExecutorCrash, cloud, CloudTypeOK, RemediationTypeOK
  <1> QED
    BY <1>1, <1>2, <1>3, <1>4, <1>5, <1>6, <1>7, <1>8, <1>9, <1>10, <1>11, <1>12, <1>13,
       <1>14, <1>15, <1>16, <1>17, <1>18, <1>19, <1>20, <1>21, <1>22, <1>23, <1>24, <1>25
       DEF ExecutorStep

\* The same for verify().
LEMMA VerifyPoints ==
    /\ "idle" \in VerifyPc  /\ "get_run" \in VerifyPc
    /\ "get_idempotency" \in VerifyPc  /\ "append_started" \in VerifyPc
    /\ "observe" \in VerifyPc  /\ "append_observed" \in VerifyPc
    /\ "create_evidence" \in VerifyPc  /\ "complete" \in VerifyPc
    /\ "append_recorded" \in VerifyPc  /\ "to_success" \in VerifyPc
    /\ "fail_complete" \in VerifyPc  /\ "fail_transition" \in VerifyPc
    /\ "get_evidence" \in VerifyPc  /\ "reconcile" \in VerifyPc
    /\ "mark" \in VerifyPc  /\ "mark_transition" \in VerifyPc
    /\ "succeeded" \in VerifyPc  /\ "failed" \in VerifyPc
    /\ "crashed" \in VerifyPc  /\ "raised" \in VerifyPc
  BY DEF VerifyPc

\* vpc keeps its type when verify() moves to a known control point.
LEMMA VGotoType ==
    ASSUME VerificationTypeOK, NEW w \in Observers, NEW p \in VerifyPc, VGoto(w, p)
    PROVE  vpc' \in [Observers -> VerifyPc]
  BY DEF VGoto, VerificationTypeOK

\* vpc keeps its type when verify() continues according to a repository result.
LEMMA VThenType ==
    ASSUME VerificationTypeOK, NEW w \in Observers, NEW res \in Result,
           NEW a \in VerifyPc, NEW b \in VerifyPc, NEW c \in VerifyPc,
           VThen(w, res, a, b, c)
    PROVE  vpc' \in [Observers -> VerifyPc]
  <1>1. After(res, a, b, c) \in VerifyPc
    BY VerifyPoints, AfterType
  <1> QED
    BY <1>1, VGotoType DEF VThen

\* What verify() decides on the records and on an observation is a control point.
LEMMA VerifyDispositions ==
    ASSUME NEW w
    PROVE  verify_disposition(w) \in VerifyPc /\ observation_disposition(w) \in VerifyPc
  <1>1. verify_disposition(w) \in {"reconcile", "get_evidence", "append_started", "failed"}
    BY Zenon DEF verify_disposition
  <1>2. observation_disposition(w) \in {"create_evidence", "observe", "fail_complete"}
    BY Zenon DEF observation_disposition
  <1> QED
    BY <1>1, <1>2 DEF VerifyPc

\* Every step of verify() keeps the types.
LEMMA VerifyType ==
    ASSUME DurableTypeOK, CloudTypeOK, VerificationTypeOK, NEW w \in Observers,
           VerifyStep(w) \/ Verify(w) \/ VerifierCrash(w)
    PROVE  Step /\ VerificationTypeOK'
  <1> USE VerifyPoints
  <1>1. CASE VerifyGetRun(w)
    BY <1>1, ReadStep, VThenType
       DEF VerifyGetRun, DurableTypeOK, locals, VerificationTypeOK
  <1>2. CASE VerifyGetIdempotency(w)
    BY <1>2, ReadStep, VThenType, VerifyDispositions
       DEF VerifyGetIdempotency, locals, VerificationTypeOK
  <1>3. CASE VerifyAppendStarted(w)
    BY <1>3, AppendAuditEvent, VThenType
       DEF VerifyAppendStarted, AuditEventType, Step, RunMoves, locals,
           VerificationTypeOK
  <1>4. CASE Observe(w)
    <2>1. vpc' \in [Observers -> VerifyPc]
      BY <1>4, VGotoType DEF Observe
    <2>2. /\ vobs' \in [Observers -> {"none", "running", "stopping", "stopped"}]
          /\ vfail' \in [Observers -> FailureKind \cup {"none"}]
          /\ vattempt' \in [Observers -> Nat]
      BY <1>4 DEF Observe, ObserveFailure, FailureKind, CloudTypeOK, VerificationTypeOK
    <2> QED
      BY <1>4, <2>1, <2>2, UnchangedStep DEF Observe, VerificationTypeOK
  <1>5. CASE AppendObserved(w)
    <2>1. PICK res \in Result :
             /\ append_audit_event("VERIFICATION_OBSERVED", res)
             /\ VThen(w, res, observation_disposition(w), "mark", "mark")
      BY <1>5 DEF AppendObserved
    <2>2. vpc' \in [Observers -> VerifyPc]
      BY <2>1, VThenType, VerifyDispositions
    <2>3. Step
      BY <2>1, AppendAuditEvent DEF AuditEventType, Step, RunMoves
    <2> QED
      BY <1>5, <2>2, <2>3 DEF AppendObserved, FailureKind, VerificationTypeOK
  <1>6. CASE CreateEvidence(w)
    BY <1>6, CreateVerificationEvidence, VThenType
       DEF CreateEvidence, Step, RunMoves, locals, VerificationTypeOK
  <1>7. CASE CompleteSucceeded(w)
    BY <1>7, CompleteIdempotency, VThenType
       DEF CompleteSucceeded, IdempotencyStatus, Step, RunMoves, locals,
           VerificationTypeOK
  <1>8. CASE GetExistingEvidence(w)
    BY <1>8, ReadStep, VThenType
       DEF GetExistingEvidence, locals, VerificationTypeOK
  <1>9. CASE AppendRecorded(w)
    BY <1>9, AppendAuditEvent, VThenType
       DEF AppendRecorded, AuditEventType, Step, RunMoves, locals, VerificationTypeOK
  <1>10. CASE ToSuccess(w)
    BY <1>10, TransitionStep, VThenType
       DEF ToSuccess, WorkflowState, TERMINAL_WORKFLOW_STATES, locals,
           VerificationTypeOK
  <1>11. CASE ReconcileSuccess(w)
    BY <1>11, ReadStep, VThenType
       DEF ReconcileSuccess, locals, VerificationTypeOK
  <1>12. CASE FailComplete(w)
    BY <1>12, CompleteIdempotency, VThenType
       DEF FailComplete, IdempotencyStatus, Step, RunMoves, locals, VerificationTypeOK
  <1>13. CASE FailTransition(w)
    BY <1>13, TransitionStep, VThenType, FailureStates
       DEF FailTransition, locals, VerificationTypeOK
  <1>14. CASE VerifyMarkGetRun(w)
    BY <1>14, ReadStep, VThenType
       DEF VerifyMarkGetRun, DurableTypeOK, locals, VerificationTypeOK
  <1>15. CASE VerifyMarkTransition(w)
    BY <1>15, TransitionStep, VThenType
       DEF VerifyMarkTransition, WorkflowState, locals, VerificationTypeOK
  <1>16. CASE Verify(w)
    BY <1>16, ReadStep, VThenType
       DEF Verify, locals, VerificationTypeOK
  <1>17. CASE VerifierCrash(w)
    BY <1>17, VGotoType, UnchangedStep
       DEF VerifierCrash, locals, VerificationTypeOK
  <1> QED
    BY <1>1, <1>2, <1>3, <1>4, <1>5, <1>6, <1>7, <1>8, <1>9, <1>10, <1>11, <1>12, <1>13,
       <1>14, <1>15, <1>16, <1>17
       DEF VerifyStep

\* The same for recover().
LEMMA RecoverPoints ==
    /\ "load_run" \in RecoverPc  /\ "load_proposal" \in RecoverPc
    /\ "load_checkpoint" \in RecoverPc  /\ "load_approval" \in RecoverPc
    /\ "load_idempotency" \in RecoverPc  /\ "load_evidence" \in RecoverPc
    /\ "classified" \in RecoverPc  /\ "deferred" \in RecoverPc
    /\ "completed" \in RecoverPc  /\ "idle" \in RecoverPc
    /\ "dispatch" \in RecoverPc  /\ "reconstruct" \in RecoverPc
    /\ "claim" \in RecoverPc  /\ "resume_ack" \in RecoverPc
    /\ "verify" \in RecoverPc  /\ "await_verify" \in RecoverPc
    /\ "verified_to_verifying" \in RecoverPc  /\ "verified_to_success" \in RecoverPc
    /\ "readback" \in RecoverPc  /\ "append_observed" \in RecoverPc
    /\ "readback_to_verifying" \in RecoverPc  /\ "create_evidence" \in RecoverPc
    /\ "complete" \in RecoverPc  /\ "append_completed" \in RecoverPc
    /\ "to_success" \in RecoverPc  /\ "mark" \in RecoverPc
    /\ "mark_transition" \in RecoverPc  /\ "done" \in RecoverPc
    /\ "crashed" \in RecoverPc  /\ "raised" \in RecoverPc
  BY DEF RecoverPc, Loads, Audits

\* rpc keeps its type when recover() moves to a known control point.
LEMMA RGotoType ==
    ASSUME RecoveryTypeOK, NEW r \in Recoverers, NEW p \in RecoverPc, RGoto(r, p)
    PROVE  rpc' \in [Recoverers -> RecoverPc]
  BY DEF RGoto, RecoveryTypeOK

\* rpc keeps its type when recover() continues according to a repository result.
LEMMA RThenType ==
    ASSUME RecoveryTypeOK, NEW r \in Recoverers, NEW res \in Result,
           NEW a \in RecoverPc, NEW b \in RecoverPc, NEW c \in RecoverPc,
           RThen(r, res, a, b, c)
    PROVE  rpc' \in [Recoverers -> RecoverPc]
  <1>1. After(res, a, b, c) \in RecoverPc
    BY RecoverPoints, AfterType
  <1> QED
    BY <1>1, RGotoType DEF RThen

\* What recover() decides on any snapshot is a control point.
LEMMA RecoveryDispositions ==
    ASSUME NEW s
    PROVE  recovery_disposition(s) \in RecoverPc /\ continuation(s) \in RecoverPc
  <1>1. return_verified(s) \in
          {"deferred", "verified_to_verifying", "verified_to_success", "completed"}
    BY Zenon DEF return_verified
  <1>2. recover_execution(s) \in {"deferred", return_verified(s), "claim"}
    BY Zenon DEF recover_execution
  <1>3. recover_verification(s) \in {"deferred", return_verified(s), "claim"}
    BY Zenon DEF recover_verification
  <1>4. recover_awaiting_approval(s) \in {"reconstruct", "deferred"}
    BY DEF recover_awaiting_approval
  <1>5. recover_approved(s) \in {"classified", "deferred"}
    BY DEF recover_approved
  <1>6. recovery_disposition(s) \in
          {recover_awaiting_approval(s), recover_approved(s), recover_execution(s),
           recover_verification(s), return_verified(s), "classified"}
    BY Zenon DEF recovery_disposition
  <1>7. continuation(s) \in {"verify", "resume_ack", "readback"}
    BY Zenon DEF continuation
  <1> QED
    BY <1>1, <1>2, <1>3, <1>4, <1>5, <1>6, <1>7, RecoverPoints

\* What recover() makes of a verification, a read-back or an end is known.
LEMMA RecoveryOutcomes ==
    ASSUME NEW p, NEW r
    PROVE  /\ verify_outcome(p) \in RecoverPc
           /\ readback_disposition(r) \in RecoverPc
           /\ outcome_event(p) \in AuditEventType
  <1>1. verify_outcome(p) \in {"completed", "deferred", "raised"}
    BY Zenon DEF verify_outcome
  <1>2. readback_disposition(r) \in {"readback_to_verifying", "readback", "mark"}
    BY Zenon DEF readback_disposition
  <1>3. outcome_event(p) \in {"RECOVERY_CLASSIFIED", "RECOVERY_DEFERRED", "RECOVERY_COMPLETED"}
    BY Zenon DEF outcome_event
  <1>4. \A x \in {"RECOVERY_CLASSIFIED", "RECOVERY_DEFERRED", "RECOVERY_COMPLETED"} :
          x \in AuditEventType
    BY DEF AuditEventType
  <1> QED
    BY <1>1, <1>2, <1>3, <1>4, RecoverPoints

\* Each of the six reads of _load_snapshot keeps the types.
LEMMA LoadType ==
    ASSUME DurableTypeOK, RecoveryTypeOK, NEW r \in Recoverers, NEW at,
           NEW new \in Snapshot, NEW next \in RecoverPc, Load(r, at, new, next)
    PROVE  Step /\ RecoveryTypeOK' /\ UNCHANGED verification
  <1>1. PICK res \in Result : Read(res) /\ RThen(r, res, next, "done", "done")
    BY DEF Load
  <1>2. Step
    BY <1>1, ReadStep
  <1>3. rpc' \in [Recoverers -> RecoverPc]
    BY <1>1, RThenType, RecoverPoints
  <1>4. new.run \in Run
    BY DEF Snapshot
  <1> QED
    BY <1>2, <1>3, <1>4 DEF Load, RecoveryTypeOK

\* A conditional transition by recover() keeps the types.
LEMMA RecoveryTransition ==
    ASSUME DurableTypeOK, RecoveryTypeOK, NEW r \in Recoverers, NEW at,
           NEW to \in WorkflowState, NEW ok \in RecoverPc, NEW bad \in RecoverPc,
           Transition(r, at, to, ok, bad)
    PROVE  Step /\ RecoveryTypeOK' /\ UNCHANGED verification
  <1>1. PICK res \in Result :
          /\ transition_run(rrun[r].state, rrun[r].version, to, res)
          /\ RThen(r, res, ok, bad, bad)
          /\ rrun' = IF res = "ok"
                     THEN [rrun EXCEPT ![r] = [state |-> to, version |-> rrun[r].version + 1]]
                     ELSE rrun
    BY DEF Transition
  <1>2. Step
    BY <1>1, TransitionStep
  <1>3. rpc' \in [Recoverers -> RecoverPc]
    BY <1>1, RThenType
  <1>4. [state |-> to, version |-> rrun[r].version + 1] \in Run
    BY DEF RecoveryTypeOK, Run
  <1> QED
    BY <1>1, <1>2, <1>3, <1>4 DEF Transition, RecoveryTypeOK

\* Every step of recover() keeps the types.
LEMMA RecoverType ==
    ASSUME DurableTypeOK, CloudTypeOK, VerificationTypeOK, RecoveryTypeOK,
           NEW r \in Recoverers, RecoverStep(r) \/ RecovererCrash(r)
    PROVE  Step /\ VerificationTypeOK' /\ RecoveryTypeOK'
  <1> USE RecoverPoints
  <1>w. r \in Observers
    BY DEF Observers
  <1>v. UNCHANGED verification => VerificationTypeOK'
    BY DEF verification, VerificationTypeOK
  <1>1. CASE Recover(r)
    BY <1>1, <1>v, RGotoType, UnchangedStep
       DEF Recover, rlocals, RecoveryTypeOK
  <1>2. CASE LoadSnapshot(r)
    <2>1. /\ [snap[r] EXCEPT !.run = run] \in Snapshot
          /\ [snap[r] EXCEPT !.proposal = proposal] \in Snapshot
          /\ [snap[r] EXCEPT !.checkpoint = checkpoint] \in Snapshot
          /\ [snap[r] EXCEPT !.approval = approval] \in Snapshot
          /\ [snap[r] EXCEPT !.idem = idem] \in Snapshot
          /\ [snap[r] EXCEPT !.evidence = evidence] \in Snapshot
      BY DEF DurableTypeOK, RecoveryTypeOK, Snapshot
    <2> QED
      BY <1>2, <1>v, <2>1, LoadType DEF LoadSnapshot
  <1>3. CASE Dispatch(r)
    BY <1>3, <1>v, RGotoType, UnchangedStep, RecoveryDispositions
       DEF Dispatch, rlocals, RecoveryTypeOK
  <1>4. CASE ReconstructApproval(r)
    BY <1>4, <1>v, ReadStep, RThenType
       DEF ReconstructApproval, rlocals, RecoveryTypeOK
  <1>5. CASE ClaimActiveRecovery(r)
    <2>1. rpc' \in [Recoverers -> RecoverPc]
      BY <1>5, RGotoType, RThenType, RecoveryDispositions DEF ClaimActiveRecovery
    <2>2. claims' \in Nat
      BY <1>5 DEF ClaimActiveRecovery, RecoveryTypeOK
    <2>3. /\ snap[r].checkpoint \in Checkpoint
          /\ [snap[r].checkpoint EXCEPT !.lease = "live"] \in Checkpoint
      BY DEF RecoveryTypeOK, Snapshot, Checkpoint
    <2>4. Step
      BY <1>5, <2>3, SaveCheckpoint, UnchangedStep
         DEF ClaimActiveRecovery, Step, RunMoves
    <2> QED
      BY <1>5, <1>v, <2>1, <2>2, <2>4 DEF ClaimActiveRecovery, rlocals, RecoveryTypeOK
  <1>6. CASE VerifiedToVerifying(r)
    BY <1>6, <1>v, RecoveryTransition
       DEF VerifiedToVerifying, WorkflowState, TERMINAL_WORKFLOW_STATES
  <1>7. CASE VerifiedToSuccess(r)
    BY <1>7, <1>v, RecoveryTransition
       DEF VerifiedToSuccess, WorkflowState, TERMINAL_WORKFLOW_STATES
  <1>8. CASE ResumeFromDurableAck(r)
    BY <1>8, <1>v, RecoveryTransition
       DEF ResumeFromDurableAck, WorkflowState, TERMINAL_WORKFLOW_STATES
  <1>9. CASE CallVerify(r)
    <2>1. VerificationTypeOK'
      BY <1>9, <1>w, VGotoType, VerifyPoints DEF CallVerify, locals, VerificationTypeOK
    <2> QED
      BY <1>9, <2>1, RGotoType, UnchangedStep DEF CallVerify, rlocals, RecoveryTypeOK
  <1>10. CASE VerifyReturns(r)
    BY <1>10, <1>v, RGotoType, UnchangedStep, RecoveryOutcomes
       DEF VerifyReturns, rlocals, RecoveryTypeOK
  <1>11. CASE ReadBack(r)
    <2>1. rpc' \in [Recoverers -> RecoverPc]
      BY <1>11, RGotoType DEF ReadBack
    <2>2. /\ robs' \in [Recoverers -> {"none", "running", "stopping", "stopped"}]
          /\ rattempt' \in [Recoverers -> Nat]
      BY <1>11 DEF ReadBack, CloudTypeOK, RecoveryTypeOK
    <2> QED
      BY <1>11, <1>v, <2>1, <2>2, UnchangedStep DEF ReadBack, RecoveryTypeOK
  <1>12. CASE AppendReadBack(r)
    <2>1. PICK res \in Result :
             /\ append_audit_event("RECOVERY_OBSERVED", res)
             /\ RThen(r, res, readback_disposition(r), "mark", "mark")
             /\ rend' = [rend EXCEPT ![r] = IF res = "ok" THEN "deferred" ELSE "done"]
      BY <1>12 DEF AppendReadBack
    <2>2. Step
      BY <2>1, AppendAuditEvent DEF AuditEventType, Step, RunMoves
    <2>3. rpc' \in [Recoverers -> RecoverPc]
      BY <2>1, RThenType, RecoveryOutcomes
    <2> QED
      BY <1>12, <1>v, <2>1, <2>2, <2>3 DEF AppendReadBack, RecoveryTypeOK
  <1>13. CASE ReadBackToVerifying(r)
    BY <1>13, <1>v, RecoveryTransition
       DEF ReadBackToVerifying, WorkflowState, TERMINAL_WORKFLOW_STATES
  <1>14. CASE RecoveryCreateEvidence(r)
    BY <1>14, <1>v, <1>w, CreateVerificationEvidence, RThenType
       DEF RecoveryCreateEvidence, Step, RunMoves, rlocals, RecoveryTypeOK
  <1>15. CASE RecoveryComplete(r)
    BY <1>15, <1>v, <1>w, CompleteIdempotency, RThenType
       DEF RecoveryComplete, IdempotencyStatus, Step, RunMoves, rlocals, RecoveryTypeOK
  <1>16. CASE RecoveryAppendCompleted(r)
    BY <1>16, <1>v, AppendAuditEvent, RThenType
       DEF RecoveryAppendCompleted, AuditEventType, Step, RunMoves, rlocals,
           RecoveryTypeOK
  <1>17. CASE RecoveryToSuccess(r)
    BY <1>17, <1>v, RecoveryTransition
       DEF RecoveryToSuccess, WorkflowState, TERMINAL_WORKFLOW_STATES
  <1>18. CASE RecoveryMarkGetRun(r)
    <2>1. rend[r] \in RecoverPc
      BY DEF RecoveryTypeOK
    <2>2. rpc' \in [Recoverers -> RecoverPc]
      BY <1>18, <2>1, RGotoType, RThenType DEF RecoveryMarkGetRun
    <2>3. Step
      BY <1>18, ReadStep, UnchangedStep DEF RecoveryMarkGetRun
    <2>4. rrun' \in [Recoverers -> Run]
      BY <1>18 DEF RecoveryMarkGetRun, RecoveryTypeOK, DurableTypeOK
    <2> QED
      BY <1>18, <1>v, <2>2, <2>3, <2>4 DEF RecoveryMarkGetRun, RecoveryTypeOK
  <1>19. CASE RecoveryMarkTransition(r)
    <2>1. rend[r] \in RecoverPc
      BY DEF RecoveryTypeOK
    <2> QED
      BY <1>19, <1>v, <2>1, RecoveryTransition DEF RecoveryMarkTransition, WorkflowState
  <1>20. CASE Outcome(r)
    BY <1>20, <1>v, AppendAuditEvent, RThenType, RecoveryOutcomes
       DEF Outcome, Step, RunMoves, rlocals, RecoveryTypeOK
  <1>21. CASE RecovererCrash(r)
    <2>1. VerificationTypeOK'
      BY <1>21, <1>w, VGotoType, VerifyPoints
         DEF RecovererCrash, locals, VerificationTypeOK
    <2> QED
      BY <1>21, <2>1, RGotoType, UnchangedStep
         DEF RecovererCrash, rlocals, RecoveryTypeOK
  <1>22. CASE ContinuationNotConfigured(r)
    BY <1>22, <1>v, RGotoType, UnchangedStep
       DEF ContinuationNotConfigured, rlocals, RecoveryTypeOK
  <1> QED
    BY <1>1, <1>2, <1>3, <1>4, <1>5, <1>6, <1>7, <1>8, <1>9, <1>10, <1>11, <1>12, <1>13,
       <1>14, <1>15, <1>16, <1>17, <1>18, <1>19, <1>20, <1>21, <1>22
       DEF RecoverStep

\* A lease expiry only touches the checkpoint's lease.
LEMMA LeaseExpiresType ==
    ASSUME DurableTypeOK, VerificationTypeOK, RecoveryTypeOK, LeaseExpires
    PROVE  Step /\ VerificationTypeOK' /\ RecoveryTypeOK'
  <1>1. checkpoint' \in Checkpoint
    BY DEF LeaseExpires, DurableTypeOK, Checkpoint
  <1>2. Step
    BY <1>1 DEF LeaseExpires, DurableTypeOK, Step, RunMoves
  <1> QED
    BY <1>2 DEF LeaseExpires, rlocals, verification, VerificationTypeOK, RecoveryTypeOK

\* No call but execute() touches the instance, the veto or the stop history.
LEMMA VerifyCloud ==
    ASSUME NEW w, VerifyStep(w) \/ Verify(w) \/ VerifierCrash(w)
    PROVE  UNCHANGED cloud
  BY DEF VerifyStep, VerifyGetRun, VerifyGetIdempotency, VerifyAppendStarted, Observe,
         AppendObserved, CreateEvidence, CompleteSucceeded, GetExistingEvidence,
         AppendRecorded, ToSuccess, ReconcileSuccess, FailComplete, FailTransition,
         VerifyMarkGetRun, VerifyMarkTransition, Verify, VerifierCrash

\* recover() is read-only: no step of it touches the instance or the stop history.
LEMMA RecoverCloud ==
    ASSUME NEW r, RecoverStep(r) \/ RecovererCrash(r)
    PROVE  UNCHANGED cloud
  BY DEF RecoverStep, Recover, LoadSnapshot, Load, Dispatch, ReconstructApproval,
         ClaimActiveRecovery, VerifiedToVerifying, VerifiedToSuccess,
         ResumeFromDurableAck, ContinuationNotConfigured, CallVerify, VerifyReturns,
         ReadBack, AppendReadBack,
         ReadBackToVerifying, RecoveryCreateEvidence, RecoveryComplete,
         RecoveryAppendCompleted, RecoveryToSuccess, RecoveryMarkGetRun,
         RecoveryMarkTransition, Outcome, RecovererCrash, Transition

-----------------------------------------------------------------------------
(***************************************************************************)
(* The specification is type correct.                                      *)
(***************************************************************************)

\* The initial states are typed.
LEMMA InitType == Init => TypeOK
  <1> SUFFICES ASSUME Init PROVE TypeOK
    OBVIOUS
  <1> USE DEF Init, WorkflowState, TERMINAL_WORKFLOW_STATES
  <1>1. DurableTypeOK
    <2>1. run \in Run /\ proposal \in Proposal
      BY DEF Proposal, DurableInit, ApprovedInit, ProposedInit, Run
    <2>2. approval \in Approval
      BY DEF DurableInit, ApprovedInit, ProposedInit, NoApproval, Approval
    <2>3. checkpoint \in Checkpoint
      <3>1. /\ [version |-> 4, safe |-> "APPROVED", interrupt |-> TRUE,
                 lease |-> "none"] \in Checkpoint
            /\ [version |-> 2, safe |-> "REMEDIATION_PROPOSED", interrupt |-> FALSE,
                 lease |-> "none"] \in Checkpoint
        BY DEF Checkpoint
      <3>2. \/ checkpoint = [version |-> 4, safe |-> "APPROVED", interrupt |-> TRUE,
                              lease |-> "none"]
            \/ checkpoint = [version |-> 2, safe |-> "REMEDIATION_PROPOSED",
                              interrupt |-> FALSE, lease |-> "none"]
        BY DEF DurableInit, ApprovedInit, ProposedInit
      <3> QED
        BY <3>1, <3>2
    <2>5. audit \subseteq AuditEventType
      BY DEF DurableInit, ApprovedInit, ProposedInit, AuditEventType
    <2>4. idem \in Idempotency /\ evidence \in Evidence /\ faults \in 0..MaxFaults
      BY MaxFaultsAssumption
         DEF DurableInit, NoClaim, NoEvidence, Idempotency, IdempotencyStatus, Evidence
    <2> QED
      BY <2>1, <2>2, <2>3, <2>4, <2>5 DEF DurableTypeOK
  <1>2. CloudTypeOK
    <2>1. /\ instance \in {"running", "stopping", "stopped"}
          /\ stopCalls \in Nat
          /\ drift \in 0..MaxDrift
      BY MaxDriftAssumption DEF CloudInit
    <2>2. writesEnabled \in BOOLEAN /\ ambiguous \in BOOLEAN
      BY Zenon DEF CloudInit
    <2> QED
      BY <2>1, <2>2 DEF CloudTypeOK
  <1>3. RemediationTypeOK
    BY ExecutorPoints DEF RemediationInit, RemediationTypeOK, NoRun, Run
  <1>4. VerificationTypeOK
    BY VerifyPoints DEF VerificationInit, VerificationTypeOK, Run
  <1>5. EmptySnapshot \in Snapshot
    BY DEF EmptySnapshot, Snapshot, Proposal, Run, Checkpoint, NoApproval, Approval, NoClaim,
           Idempotency, IdempotencyStatus, NoEvidence, Evidence
  <1>6. EmptySnapshot.run \in Run
    BY DEF EmptySnapshot, Run
  <1>7. RecoveryTypeOK
    BY <1>5, <1>6, RecoverPoints DEF RecoveryInit, RecoveryTypeOK
  <1>8. ApprovalTypeOK
    BY ApproverPoints
       DEF ApprovalInit, ApprovalTypeOK, Proposal, Run, Checkpoint, NoApproval, Approval
  <1> QED
    BY <1>1, <1>2, <1>3, <1>4, <1>7, <1>8 DEF TypeOK

\* Every step of the workflow keeps the types and moves the run along the table.
LEMMA NextType == TypeOK /\ [Next]_vars => TypeOK' /\ RunMoves
  <1> SUFFICES ASSUME TypeOK, [Next]_vars PROVE TypeOK' /\ RunMoves
    OBVIOUS
  <1> USE DEF TypeOK
  <1>r. UNCHANGED remediation => RemediationTypeOK'
    BY DEF remediation, RemediationTypeOK
  <1>v. UNCHANGED verification => VerificationTypeOK'
    BY DEF verification, VerificationTypeOK
  <1>y. UNCHANGED recovery => RecoveryTypeOK'
    BY DEF recovery, RecoveryTypeOK
  <1>a. UNCHANGED approvals => ApprovalTypeOK'
    BY DEF approvals, ApprovalTypeOK
  <1>c. UNCHANGED cloud => CloudTypeOK'
    BY DEF cloud, CloudTypeOK
  <1>1. CASE \E e \in Executors : ExecutorNext(e)
    BY <1>1, <1>v, <1>y, <1>a, ExecutorType DEF ExecutorNext, Step
  <1>2. CASE \E v \in Verifiers : VerifierNext(v)
    BY <1>2, <1>r, <1>y, <1>a, <1>c, VerifyType, VerifyCloud
       DEF VerifierNext, Step, Observers
  <1>3. CASE \E r \in Recoverers : RecovererNext(r)
    BY <1>3, <1>r, <1>v, <1>y, <1>a, <1>c, VerifyType, VerifyCloud, RecoverType,
       RecoverCloud
       DEF RecovererNext, Step, Observers
  <1>4. CASE \E a \in Approvers : ApproverNext(a)
    BY <1>4, <1>r, <1>v, <1>y, <1>c, ApproverType, ApproverCloud DEF ApproverNext, Step
  <1>5. CASE EnvironmentNext
    <2>1. CASE CloudNext /\ UNCHANGED <<remediation, verification, recovery, approvals>>
      <3>1. UNCHANGED durable
        BY <2>1 DEF CloudNext, InstanceStops, InstanceDrifts, OperatorVeto
      <3>2. /\ instance' \in {"running", "stopping", "stopped"}
            /\ stopCalls' \in Nat
            /\ drift' \in 0..MaxDrift
        BY <2>1, MaxDriftAssumption
           DEF CloudNext, InstanceStops, InstanceDrifts, OperatorVeto, CloudTypeOK
      <3>3. writesEnabled' \in BOOLEAN /\ ambiguous' \in BOOLEAN
        BY <2>1, Zenon
           DEF CloudNext, InstanceStops, InstanceDrifts, OperatorVeto, CloudTypeOK
      <3>4. CloudTypeOK'
        BY <3>2, <3>3 DEF CloudTypeOK
      <3> QED
        BY <2>1, <3>1, <3>4, <1>r, <1>v, <1>y, <1>a, UnchangedStep DEF Step
    <2>2. CASE LeaseExpires /\ UNCHANGED <<remediation, approvals>>
      <3>1. UNCHANGED cloud
        BY <2>2 DEF LeaseExpires
      <3> QED
        BY <2>2, <3>1, <1>r, <1>a, <1>c, LeaseExpiresType DEF Step
    <2> QED
      BY <1>5, <2>1, <2>2 DEF EnvironmentNext
  <1>6. CASE UNCHANGED vars
    BY <1>6, <1>r, <1>v, <1>y, <1>a, <1>c, UnchangedStep DEF vars, Step
  <1> QED
    BY <1>1, <1>2, <1>3, <1>4, <1>5, <1>6 DEF Next

\* Every reachable state of the workflow is well typed: every control point,
\* record and snapshot keeps its domain for any number of calls and faults.
THEOREM TypeCorrect == Spec => []TypeOK
  <1>1. Init => TypeOK
    BY InitType
  <1>2. TypeOK /\ [Next]_vars => TypeOK'
    BY NextType
  <1> QED
    BY <1>1, <1>2, PTL DEF Spec

-----------------------------------------------------------------------------
(***************************************************************************)
(* At most one stop.  OneSender is inductive relative to TypeOK.           *)
(***************************************************************************)

\* A step by which no call becomes a sender and nothing is sent.
Quiet ==
    /\ stopCalls' = stopCalls
    /\ \A f \in Executors : MaySend(f)' => MaySend(f)
    /\ \A f \in Executors : inflight[f]' # "none" => xpc[f]' \notin BeforeStop

\* A claimed run stays claimed: the table has no way back.
LEMMA StaysClaimed ==
    ASSUME TypeOK, RunMoves, run.state \notin Claimable
    PROVE  run'.state \notin Claimable
  <1>1. run.state \in WorkflowState
    BY DEF TypeOK, DurableTypeOK, Run
  <1> QED
    BY <1>1, NoWayBack DEF RunMoves

\* A quiet step keeps the sender unique.
LEMMA QuietOneSender ==
    ASSUME TypeOK, RunMoves, OneSender, Quiet
    PROVE  OneSender'
  <1>1. (stopCalls > 0 \/ \E e \in Executors : MaySend(e))' => run'.state \notin Claimable
    BY StaysClaimed DEF OneSender, Quiet
  <1>2. \A e \in Executors : MaySend(e)' => stopCalls' = 0
    BY DEF OneSender, Quiet
  <1>3. \A e, f \in Executors : MaySend(e)' /\ MaySend(f)' => e = f
    BY DEF OneSender, Quiet
  <1>4. \A e \in Executors : inflight[e]' # "none" => xpc[e]' \notin BeforeStop
    BY DEF Quiet
  <1> QED
    BY <1>1, <1>2, <1>3, <1>4 DEF OneSender

\* Moving a call to a point outside BeforeStop, or from one point inside it to
\* another, is quiet.
LEMMA QuietGoto ==
    ASSUME RemediationTypeOK, OneSender, NEW e \in Executors, NEW p, Goto(e, p),
           p \notin BeforeStop \/ xpc[e] \in BeforeStop,
           UNCHANGED <<inflight, stopCalls>>
    PROVE  Quiet
  BY DEF RemediationTypeOK, OneSender, Goto, MaySend, Quiet

\* Continuing according to a repository result is quiet under the same condition.
LEMMA QuietThen ==
    ASSUME RemediationTypeOK, OneSender, NEW e \in Executors, NEW res \in Result,
           NEW a, NEW b, NEW c, Then(e, res, a, b, c),
           xpc[e] \in BeforeStop \/ {a, b, c} \cap BeforeStop = {},
           UNCHANGED <<inflight, stopCalls>>
    PROVE  Quiet
  <1>1. CASE xpc[e] \in BeforeStop
    BY <1>1, QuietGoto DEF Then
  <1>2. CASE {a, b, c} \cap BeforeStop = {}
    <2>1. After(res, a, b, c) \in {a, b, c, "raised"}
      BY Zenon DEF After
    <2>2. "raised" \notin BeforeStop
      BY DEF BeforeStop
    <2>3. After(res, a, b, c) \notin BeforeStop
      BY <1>2, <2>1, <2>2
    <2> QED
      BY <2>3, QuietGoto DEF Then
  <1> QED
    BY <1>1, <1>2

\* Starting to persist a failure is quiet.
LEMMA QuietFail ==
    ASSUME RemediationTypeOK, OneSender, NEW e \in Executors, NEW kind, Fail(e, kind),
           UNCHANGED <<inflight, stopCalls>>
    PROVE  Quiet
  <1>1. (IF kind = "POLICY_DENIAL" THEN "append_denied" ELSE "complete_failed") \notin BeforeStop
    BY DEF BeforeStop
  <1> QED
    BY <1>1, QuietGoto DEF Fail

\* Only ClaimExecution makes a sender, and only StopInstances and LateStop send.
LEMMA ExecutorQuiet ==
    ASSUME TypeOK, OneSender, NEW e \in Executors,
           ExecutorStep(e) \/ ExecutorCrash(e),
           ~ClaimExecution(e), ~StopInstances(e), ~LateStop(e)
    PROVE  Quiet
  <1> USE DEF TypeOK
  <1>b. /\ {"get_idempotency", "get_run_ack", "require_approved", "register", "load",
            "claim", "mark", "mark_transition", "to_verifying", "append_acknowledged",
            "complete_failed", "to_failed", "done", "crashed"} \cap BeforeStop = {}
        /\ claim_disposition \notin BeforeStop
        /\ {"append_requested", "describe", "emergency_1", "dry_run", "emergency_2",
            "stop_instances"} \subseteq BeforeStop
    BY ClaimDisposition DEF BeforeStop
  <1>1. CASE Execute(e)
    BY <1>1, <1>b, QuietThen DEF Execute, cloud
  <1>2. CASE GetIdempotency(e)
    BY <1>2, <1>b, QuietThen DEF GetIdempotency, cloud
  <1>3. CASE GetRunAfterAck(e)
    BY <1>3, <1>b, QuietThen DEF GetRunAfterAck, cloud
  <1>4. CASE RequireApproved(e)
    BY <1>4, <1>b, QuietThen DEF RequireApproved, cloud
  <1>5. CASE RegisterApprovedAction(e)
    BY <1>5, <1>b, QuietThen DEF RegisterApprovedAction, cloud
  <1>6. CASE LoadExecutionPrerequisites(e)
    BY <1>6, <1>b, QuietThen DEF LoadExecutionPrerequisites, cloud
  <1>7. CASE AppendRequested(e)
    BY <1>7, <1>b, QuietThen DEF AppendRequested, cloud
  <1>8. CASE RecordAcknowledgement(e)
    BY <1>8, <1>b, QuietThen DEF RecordAcknowledgement, cloud
  <1>9. CASE ToVerifying(e)
    BY <1>9, <1>b, QuietThen DEF ToVerifying, cloud
  <1>10. CASE AppendAcknowledged(e)
    BY <1>10, <1>b, QuietThen DEF AppendAcknowledged, cloud
  <1>11. CASE AppendDenied(e)
    BY <1>11, <1>b, QuietThen DEF AppendDenied, cloud
  <1>12. CASE CompleteFailed(e)
    BY <1>12, <1>b, QuietThen DEF CompleteFailed, cloud
  <1>13. CASE ToFailed(e)
    BY <1>13, <1>b, QuietThen DEF ToFailed, cloud
  <1>14. CASE MarkGetRun(e)
    BY <1>14, <1>b, QuietThen DEF MarkGetRun, cloud
  <1>15. CASE MarkTransition(e)
    BY <1>15, <1>b, QuietThen DEF MarkTransition, cloud
  <1>16. CASE InvocationLost(e)
    <2>1. xpc[e] \in BeforeStop
      BY <1>16 DEF InvocationLost, InExecutor, BeforeStop
    <2>2. /\ xpc' = [xpc EXCEPT ![e] = IF xfail'[e] = "POLICY_DENIAL"
                                       THEN "append_denied" ELSE "complete_failed"]
          /\ stopCalls' = stopCalls
      BY <1>16 DEF InvocationLost, Fail, Goto, cloud, RemediationTypeOK
    <2>3. (IF xfail'[e] = "POLICY_DENIAL" THEN "append_denied" ELSE "complete_failed")
            \notin BeforeStop
      BY DEF BeforeStop
    <2>4. xpc'[e] \notin BeforeStop /\ \A f \in Executors : f # e => xpc'[f] = xpc[f]
      BY <2>2, <2>3 DEF RemediationTypeOK
    <2>5. \A f \in Executors : f # e => inflight'[f] = inflight[f]
      BY <1>16 DEF InvocationLost, LeaveBehind, RemediationTypeOK
    <2> QED
      BY <2>1, <2>2, <2>4, <2>5 DEF Quiet, MaySend, OneSender
  <1>17. CASE Describe(e)
    <2>1. xpc[e] \in BeforeStop
      BY <1>17, <1>b DEF Describe
    <2> QED
      BY <1>17, <2>1, QuietGoto, QuietFail DEF Describe, cloud
  <1>18. CASE FirstEmergencyCheck(e)
    <2>1. xpc[e] \in BeforeStop
      BY <1>18, <1>b DEF FirstEmergencyCheck, AssertWritesEnabled
    <2> QED
      BY <1>18, <2>1, QuietGoto, QuietFail
         DEF FirstEmergencyCheck, AssertWritesEnabled, cloud
  <1>19. CASE DryRun(e)
    <2>1. xpc[e] \in BeforeStop
      BY <1>19, <1>b DEF DryRun
    <2> QED
      BY <1>19, <2>1, QuietGoto, QuietFail DEF DryRun, cloud
  <1>20. CASE SecondEmergencyCheck(e)
    <2>1. xpc[e] \in BeforeStop
      BY <1>20, <1>b DEF SecondEmergencyCheck, AssertWritesEnabled
    <2> QED
      BY <1>20, <2>1, QuietGoto, QuietFail
         DEF SecondEmergencyCheck, AssertWritesEnabled, cloud
  <1>21. CASE LateChecks(e)
    <2>1. \A f \in Executors : inflight'[f] # "none" => inflight[f] # "none"
      BY <1>21 DEF LateChecks, RemediationTypeOK
    <2> QED
      BY <1>21, <2>1 DEF LateChecks, cloud, Quiet, MaySend, OneSender
  <1>22. CASE ExecutorCrash(e)
    <2>1. xpc'[e] \notin BeforeStop /\ \A f \in Executors : f # e => xpc'[f] = xpc[f]
      BY <1>22, <1>b DEF ExecutorCrash, Goto, RemediationTypeOK
    <2>2. /\ \A f \in Executors : f # e => inflight'[f] = inflight[f]
          /\ inflight'[e] # "none" => MaySend(e)
      BY <1>22
         DEF ExecutorCrash, LeaveBehind, InExecutor, BeforeStop, MaySend,
             RemediationTypeOK
    <2> QED
      BY <1>22, <2>1, <2>2 DEF ExecutorCrash, cloud, Quiet, MaySend, OneSender
  <1> QED
    BY <1>1, <1>2, <1>3, <1>4, <1>5, <1>6, <1>7, <1>8, <1>9, <1>10, <1>11, <1>12, <1>13,
       <1>14, <1>15, <1>16, <1>17, <1>18, <1>19, <1>20, <1>21, <1>22
       DEF ExecutorStep

\* The claim is won from APPROVED, when nobody may send and nothing was sent.
LEMMA ClaimOneSender ==
    ASSUME TypeOK, OneSender, RunMoves, NEW e \in Executors, ClaimExecution(e)
    PROVE  OneSender'
  <1> USE DEF TypeOK
  <1>1. PICK res \in Result :
          /\ transition_run("APPROVED", xrun[e].version, "EXECUTING", res)
          /\ Then(e, res, "append_requested", "mark", "done")
    BY DEF ClaimExecution
  <1>2. UNCHANGED <<inflight, stopCalls>>
    BY DEF ClaimExecution, cloud
  <1>3. CASE res = "ok"
    <2>1. run.state = "APPROVED" /\ run'.state = "EXECUTING"
      <3>1. "EXECUTING" \in WorkflowState
        BY DEF WorkflowState
      <3>2. /\ run.state = "APPROVED"
            /\ run' = [state |-> "EXECUTING", version |-> xrun[e].version + 1]
        BY <1>1, <1>3, <3>1, TransitionRun
      <3> QED
        BY <3>2
    <2>2. stopCalls = 0 /\ \A f \in Executors : ~MaySend(f)
      BY <2>1 DEF OneSender, Claimable, CloudTypeOK
    <2>3. \A f \in Executors : f # e => xpc'[f] = xpc[f]
      BY <1>1 DEF Then, Goto, RemediationTypeOK
    <2>4. run'.state \notin Claimable
      BY <2>1 DEF Claimable
    <2>5. \A f \in Executors : MaySend(f)' => f = e
      BY <1>2, <2>2, <2>3 DEF MaySend
    <2> QED
      BY <1>2, <2>2, <2>4, <2>5 DEF OneSender, MaySend
  <1>4. CASE res # "ok"
    <2>1. After(res, "append_requested", "mark", "done") \in {"mark", "done", "raised"}
      BY <1>4, Zenon DEF After
    <2>2. {"mark", "done", "raised"} \cap BeforeStop = {}
      BY DEF BeforeStop
    <2>3. Quiet
      BY <1>1, <1>2, <2>1, <2>2, QuietGoto DEF Then
    <2> QED
      BY <2>3, QuietOneSender
  <1> QED
    BY <1>3, <1>4

\* The one sender sends, and is a sender no more.
LEMMA SendOneSender ==
    ASSUME TypeOK, OneSender, RunMoves, NEW e \in Executors,
           StopInstances(e) \/ LateStop(e)
    PROVE  OneSender'
  <1> USE DEF TypeOK
  <1>1. MaySend(e)
    BY DEF StopInstances, LateStop, MaySend, BeforeStop
  <1>2. run'.state \notin Claimable
    BY <1>1, StaysClaimed DEF OneSender
  <1>3. \A f \in Executors : f # e => xpc'[f] = xpc[f] /\ inflight'[f] = inflight[f]
    BY DEF StopInstances, LateStop, Fail, Goto, RemediationTypeOK
  <1>4. xpc'[e] \notin BeforeStop /\ inflight'[e] = "none"
    <2>1. CASE StopInstances(e)
      <3>1. inflight'[e] = "none"
        BY <2>1 DEF StopInstances, OneSender, BeforeStop
      <3>2. \/ Goto(e, "record_ack")
            \/ Goto(e, "append_denied")
            \/ Goto(e, "complete_failed")
        BY <2>1 DEF StopInstances, Fail
      <3>3. xpc'[e] \in {"record_ack", "append_denied", "complete_failed"}
        BY <3>2 DEF Goto, RemediationTypeOK
      <3> QED
        BY <3>1, <3>3 DEF BeforeStop
    <2>2. CASE LateStop(e)
      BY <2>2 DEF LateStop, OneSender, RemediationTypeOK
    <2> QED
      BY <2>1, <2>2
  <1>5. \A f \in Executors : ~MaySend(f)'
    BY <1>1, <1>3, <1>4 DEF MaySend, OneSender
  <1> QED
    BY <1>2, <1>5 DEF OneSender, MaySend

\* Every step of the workflow keeps the sender unique.
LEMMA NextOneSender == TypeOK /\ OneSender /\ [Next]_vars => OneSender'
  <1> SUFFICES ASSUME TypeOK, OneSender, [Next]_vars PROVE OneSender'
    OBVIOUS
  <1>1. RunMoves
    BY NextType
  <1>2. CASE \E e \in Executors : ExecutorNext(e)
    <2>1. PICK e \in Executors : ExecutorStep(e) \/ ExecutorCrash(e)
      BY <1>2 DEF ExecutorNext
    <2> QED
      BY <1>1, <2>1, ExecutorQuiet, QuietOneSender, ClaimOneSender, SendOneSender
  <1>3. CASE UNCHANGED <<remediation, stopCalls>>
    <2>1. Quiet
      BY <1>3 DEF remediation, Quiet, MaySend, OneSender
    <2> QED
      BY <1>1, <2>1, QuietOneSender
  <1>4. CASE \E v \in Verifiers : VerifierNext(v)
    BY <1>3, <1>4, VerifyCloud DEF VerifierNext, cloud
  <1>5. CASE \E r \in Recoverers : RecovererNext(r)
    BY <1>3, <1>5, VerifyCloud, RecoverCloud DEF RecovererNext, cloud
  <1>6. CASE \E a \in Approvers : ApproverNext(a)
    BY <1>3, <1>6, ApproverCloud DEF ApproverNext, cloud
  <1>7. CASE EnvironmentNext
    BY <1>3, <1>7 DEF EnvironmentNext, CloudNext, InstanceStops, InstanceDrifts,
                      OperatorVeto, LeaseExpires, cloud
  <1>8. CASE UNCHANGED vars
    BY <1>3, <1>8 DEF vars, cloud
  <1> QED
    BY <1>2, <1>4, <1>5, <1>6, <1>7, <1>8 DEF Next

\* Sender uniqueness holds of every reachable state, for any number of racing,
\* crashing and remote execute() calls.
THEOREM SenderIsUnique == Spec => []OneSender
  <1>1. Init => OneSender
    BY DEF Init, CloudInit, RemediationInit, OneSender, MaySend, BeforeStop
  <1>2. TypeOK /\ OneSender /\ [Next]_vars => OneSender'
    BY NextOneSender
  <1> QED
    BY <1>1, <1>2, TypeCorrect, PTL DEF Spec

\* However many execute() calls race, crash, lose their Lambda invocation or are
\* retried, at most one StopInstances request is sent for the proposal.
THEOREM StopSentOnce == Spec => []AtMostOneStop
  <1>1. Init => AtMostOneStop
    BY DEF Init, CloudInit, AtMostOneStop
  <1>2. TypeOK /\ OneSender /\ AtMostOneStop /\ [Next]_vars => AtMostOneStop'
    <2> SUFFICES ASSUME TypeOK, OneSender, AtMostOneStop, [Next]_vars
                 PROVE  AtMostOneStop'
      OBVIOUS
    <2>1. ASSUME NEW e \in Executors, StopInstances(e) \/ LateStop(e)
          PROVE  AtMostOneStop'
      <3>1. stopCalls = 0
        BY <2>1 DEF StopInstances, LateStop, MaySend, BeforeStop, OneSender
      <3> QED
        BY <2>1, <3>1 DEF StopInstances, LateStop, AtMostOneStop
    <2>2. CASE stopCalls' = stopCalls
      BY <2>2 DEF AtMostOneStop
    <2>3. CASE \E e \in Executors : ExecutorNext(e)
      <3>1. PICK e \in Executors : ExecutorStep(e) \/ ExecutorCrash(e)
        BY <2>3 DEF ExecutorNext
      <3>2. CASE ClaimExecution(e)
        BY <2>2, <3>2 DEF ClaimExecution, cloud
      <3>3. CASE ~ClaimExecution(e) /\ ~StopInstances(e) /\ ~LateStop(e)
        BY <2>2, <3>1, <3>3, ExecutorQuiet DEF Quiet
      <3> QED
        BY <2>1, <3>2, <3>3
    <2>4. CASE \E v \in Verifiers : VerifierNext(v)
      BY <2>2, <2>4, VerifyCloud DEF VerifierNext, cloud
    <2>5. CASE \E r \in Recoverers : RecovererNext(r)
      BY <2>2, <2>5, VerifyCloud, RecoverCloud DEF RecovererNext, cloud
    <2>6. CASE \E a \in Approvers : ApproverNext(a)
      BY <2>2, <2>6, ApproverCloud DEF ApproverNext, cloud
    <2>7. CASE EnvironmentNext
      BY <2>2, <2>7 DEF EnvironmentNext, CloudNext, InstanceStops, InstanceDrifts,
                        OperatorVeto, LeaseExpires, cloud
    <2>8. CASE UNCHANGED vars
      BY <2>2, <2>8 DEF vars, cloud
    <2> QED
      BY <2>3, <2>4, <2>5, <2>6, <2>7, <2>8 DEF Next
  <1> QED
    BY <1>1, <1>2, TypeCorrect, SenderIsUnique, PTL DEF Spec

-----------------------------------------------------------------------------
(***************************************************************************)
(* What each call holds when it asks for a transition.  The transitions    *)
(* are asked with values read some steps earlier, so that they are always  *)
(* ones of the table is a fact about the whole call.                       *)
(***************************************************************************)

ExecutionFailures == {"POLICY_DENIAL", "DEPENDENCY_UNAVAILABLE", "EXECUTION_FAILURE",
                      "RECOVERY_REQUIREMENT"}

\* execute(): the failure being persisted is one the executor raises, and a run
\* to be marked was read before or in execution.
ExecutorHolds(e) ==
    /\ xpc[e] # "raised"
    /\ xpc[e] \in {"append_denied", "complete_failed", "to_failed"} =>
         xfail[e] \in ExecutionFailures
    /\ xpc[e] = "mark_transition" => xrun[e].state \in {"APPROVED", "EXECUTING"}

\* What a step of one execute() call leaves of the others.
LEMMA ExecutorFrame ==
    ASSUME RemediationTypeOK, NEW e \in Executors, NEW f \in Executors, f # e,
           ExecutorStep(e) \/ ExecutorCrash(e)
    PROVE  /\ xpc'[f] = xpc[f] /\ xrun'[f] = xrun[f]
           /\ xfail'[f] = xfail[f] /\ inflight'[f] = inflight[f]
  <1> USE DEF RemediationTypeOK, Then, Goto, Fail
  <1>1. CASE \/ Execute(e) \/ GetIdempotency(e) \/ GetRunAfterAck(e)
             \/ RequireApproved(e) \/ RegisterApprovedAction(e)
             \/ LoadExecutionPrerequisites(e) \/ ClaimExecution(e) \/ AppendRequested(e)
    BY <1>1 DEF Execute, GetIdempotency, GetRunAfterAck, RequireApproved,
                RegisterApprovedAction, LoadExecutionPrerequisites, ClaimExecution,
                AppendRequested
  <1>2. CASE \/ InvocationLost(e) \/ Describe(e) \/ FirstEmergencyCheck(e) \/ DryRun(e)
             \/ SecondEmergencyCheck(e) \/ StopInstances(e)
             \/ LateChecks(e) \/ LateStop(e) \/ ExecutorCrash(e)
    BY <1>2 DEF InvocationLost, LeaveBehind, Describe, FirstEmergencyCheck,
                SecondEmergencyCheck, AssertWritesEnabled, DryRun, StopInstances,
                LateChecks, LateStop, ExecutorCrash
  <1>3. CASE \/ RecordAcknowledgement(e) \/ ToVerifying(e) \/ AppendAcknowledged(e)
             \/ AppendDenied(e) \/ CompleteFailed(e) \/ ToFailed(e)
             \/ MarkGetRun(e) \/ MarkTransition(e)
    BY <1>3 DEF RecordAcknowledgement, ToVerifying, AppendAcknowledged, AppendDenied,
                CompleteFailed, ToFailed, MarkGetRun, MarkTransition
  <1> QED
    BY <1>1, <1>2, <1>3 DEF ExecutorStep

\* The control point execute() reaches after a repository call.
LEMMA ThenPoint ==
    ASSUME RemediationTypeOK, NEW e \in Executors, NEW res \in Result, res # "illegal",
           NEW a, NEW b, NEW c, Then(e, res, a, b, c)
    PROVE  xpc'[e] \in {a, b, c}
  <1>1. xpc'[e] = After(res, a, b, c)
    BY DEF Then, Goto, RemediationTypeOK
  <1> QED
    BY <1>1, AfterLegal

\* A step of execute() keeps what the call holds.
LEMMA ExecutorHolding ==
    ASSUME TypeOK, NEW e \in Executors, ExecutorHolds(e),
           ExecutorStep(e) \/ ExecutorCrash(e)
    PROVE  ExecutorHolds(e)'
  <1> USE DEF TypeOK
  <1> DEFINE Special == {"raised", "append_denied", "complete_failed", "to_failed",
                         "mark_transition"}
  <1>p. ASSUME xpc'[e] \notin Special PROVE ExecutorHolds(e)'
    BY <1>p DEF ExecutorHolds
  <1>f. ASSUME NEW kind \in ExecutionFailures, Fail(e, kind) PROVE ExecutorHolds(e)'
    BY <1>f DEF ExecutorHolds, Fail, Goto, RemediationTypeOK
  <1>1. CASE Execute(e)
    BY <1>1, <1>p, CallsLegal, ThenPoint DEF Execute
  <1>2. CASE GetIdempotency(e)
    <2>1. claim_disposition \in {"require_approved", "get_run_ack", "mark", "done"}
      BY Zenon DEF claim_disposition
    <2> QED
      BY <1>2, <2>1, <1>p, CallsLegal, ThenPoint DEF GetIdempotency
  <1>3. CASE GetRunAfterAck(e)
    BY <1>3, <1>p, CallsLegal, ThenPoint DEF GetRunAfterAck
  <1>4. CASE RequireApproved(e)
    BY <1>4, <1>p, CallsLegal, ThenPoint DEF RequireApproved
  <1>5. CASE RegisterApprovedAction(e)
    BY <1>5, <1>p, CallsLegal, ThenPoint DEF RegisterApprovedAction
  <1>6. CASE LoadExecutionPrerequisites(e)
    BY <1>6, <1>p, CallsLegal, ThenPoint DEF LoadExecutionPrerequisites
  <1>7. CASE ClaimExecution(e)
    <2>1. "EXECUTING" \in ALLOWED_WORKFLOW_TRANSITIONS["APPROVED"]
      BY DEF ALLOWED_WORKFLOW_TRANSITIONS, WorkflowState
    <2> QED
      BY <1>7, <2>1, <1>p, TransitionLegal, ThenPoint DEF ClaimExecution
  <1>8. CASE AppendRequested(e)
    BY <1>8, <1>p, CallsLegal, ThenPoint DEF AppendRequested
  <1>9. CASE InvocationLost(e)
    BY <1>9, <1>f DEF InvocationLost, ExecutionFailures
  <1>10. CASE \/ Describe(e) \/ FirstEmergencyCheck(e) \/ DryRun(e)
              \/ SecondEmergencyCheck(e) \/ StopInstances(e)
    <2>1. /\ Reported("POLICY_DENIAL") \in ExecutionFailures
          /\ Reported("EXECUTION_FAILURE") \in ExecutionFailures
          /\ Reported("RECOVERY_REQUIREMENT") \in ExecutionFailures
          /\ "POLICY_DENIAL" \in ExecutionFailures
          /\ "DEPENDENCY_UNAVAILABLE" \in ExecutionFailures
          /\ "RECOVERY_REQUIREMENT" \in ExecutionFailures
      BY DEF Reported, ExecutionFailures
    <2>2. \/ xpc'[e] \in {"emergency_1", "dry_run", "emergency_2", "stop_instances",
                          "record_ack"}
          \/ \E kind \in ExecutionFailures : Fail(e, kind)
      BY <1>10, <2>1 DEF Describe, FirstEmergencyCheck, DryRun, SecondEmergencyCheck,
                         AssertWritesEnabled, StopInstances, Goto, RemediationTypeOK
    <2> QED
      BY <2>2, <1>p, <1>f
  <1>11. CASE LateChecks(e) \/ LateStop(e)
    BY <1>11 DEF LateChecks, LateStop, ExecutorHolds
  <1>12. CASE RecordAcknowledgement(e)
    BY <1>12, <1>p, CallsLegal, ThenPoint DEF RecordAcknowledgement
  <1>13. CASE ToVerifying(e)
    <2>1. "VERIFYING" \in ALLOWED_WORKFLOW_TRANSITIONS["EXECUTING"]
      BY DEF ALLOWED_WORKFLOW_TRANSITIONS, WorkflowState
    <2> QED
      BY <1>13, <2>1, <1>p, TransitionLegal, ThenPoint DEF ToVerifying
  <1>14. CASE AppendAcknowledged(e)
    BY <1>14, <1>p, CallsLegal, ThenPoint DEF AppendAcknowledged
  <1>15. CASE AppendDenied(e)
    <2>1. xpc'[e] \in {"complete_failed", "done"}
      BY <1>15, CallsLegal, ThenPoint DEF AppendDenied
    <2> QED
      BY <1>15, <2>1 DEF AppendDenied, ExecutorHolds
  <1>16. CASE CompleteFailed(e)
    <2>1. xpc'[e] \in {"to_failed", "done"}
      BY <1>16, CallsLegal, ThenPoint DEF CompleteFailed
    <2> QED
      BY <1>16, <2>1 DEF CompleteFailed, ExecutorHolds
  <1>17. CASE ToFailed(e)
    <2>1. workflow_state_for_failure(xfail[e]) \in ALLOWED_WORKFLOW_TRANSITIONS["EXECUTING"]
      <3>1. ALLOWED_WORKFLOW_TRANSITIONS["EXECUTING"] =
              {"VERIFYING", "DENIED_BY_POLICY", "EXECUTION_FAILED", "AMBIGUOUS_RESULT",
               "DEPENDENCY_UNAVAILABLE", "BUDGET_EXHAUSTED", "RECOVERY_REQUIRED"}
        BY DEF ALLOWED_WORKFLOW_TRANSITIONS, WorkflowState
      <3>2. xfail[e] \in ExecutionFailures
        BY <1>17 DEF ToFailed, ExecutorHolds
      <3> QED
        BY <3>1, <3>2 DEF ExecutionFailures, workflow_state_for_failure
    <2> QED
      BY <1>17, <2>1, <1>p, TransitionLegal, ThenPoint DEF ToFailed
  <1>18. CASE MarkGetRun(e)
    <2>1. PICK res \in Result :
            /\ Read(res)
            /\ Then(e, res, IF run.state \in {"APPROVED", "EXECUTING"}
                            THEN "mark_transition" ELSE "done", "done", "done")
      BY <1>18 DEF MarkGetRun
    <2>2. xpc'[e] \in {"done"} \cup (IF run.state \in {"APPROVED", "EXECUTING"}
                                    THEN {"mark_transition"} ELSE {})
      BY <2>1, CallsLegal, ThenPoint
    <2>3. xrun'[e] = run
      BY <1>18 DEF MarkGetRun, RemediationTypeOK
    <2> QED
      BY <2>2, <2>3 DEF ExecutorHolds
  <1>19. CASE MarkTransition(e)
    <2>1. "RECOVERY_REQUIRED" \in ALLOWED_WORKFLOW_TRANSITIONS[xrun[e].state]
      <3>1. xrun[e].state \in {"APPROVED", "EXECUTING"}
        BY <1>19 DEF MarkTransition, ExecutorHolds
      <3> QED
        BY <3>1 DEF ALLOWED_WORKFLOW_TRANSITIONS, WorkflowState
    <2> QED
      BY <1>19, <2>1, <1>p, TransitionLegal, ThenPoint DEF MarkTransition
  <1>20. CASE ExecutorCrash(e)
    BY <1>20, <1>p DEF ExecutorCrash, Goto, RemediationTypeOK
  <1> QED
    BY <1>1, <1>2, <1>3, <1>4, <1>5, <1>6, <1>7, <1>8, <1>9, <1>10, <1>11, <1>12, <1>13,
       <1>14, <1>15, <1>16, <1>17, <1>18, <1>19, <1>20
       DEF ExecutorStep

\* verify(): the failure being persisted is one of the read-back's.
VerifierHolds(w) ==
    /\ vpc[w] # "raised"
    /\ vpc[w] \in {"fail_complete", "fail_transition"} =>
         vfail[w] \in ObserveFailure \cup {"VERIFICATION_FAILURE"}

\* What a step of one verify() call leaves of the others.
LEMMA VerifierFrame ==
    ASSUME VerificationTypeOK, NEW w \in Observers, NEW u \in Observers, u # w,
           VerifyStep(w) \/ Verify(w) \/ VerifierCrash(w)
    PROVE  /\ vpc'[u] = vpc[u] /\ vrun'[u] = vrun[u] /\ vobs'[u] = vobs[u]
           /\ vattempt'[u] = vattempt[u] /\ vfail'[u] = vfail[u]
  <1> USE DEF VerificationTypeOK, VThen, VGoto, locals
  <1>1. CASE \/ VerifyGetRun(w) \/ VerifyGetIdempotency(w) \/ VerifyAppendStarted(w)
             \/ Observe(w) \/ AppendObserved(w) \/ Verify(w) \/ VerifierCrash(w)
    BY <1>1 DEF VerifyGetRun, VerifyGetIdempotency, VerifyAppendStarted, Observe,
                AppendObserved, Verify, VerifierCrash
  <1>2. CASE \/ CreateEvidence(w) \/ CompleteSucceeded(w) \/ GetExistingEvidence(w)
             \/ AppendRecorded(w) \/ ToSuccess(w) \/ ReconcileSuccess(w)
    BY <1>2 DEF CreateEvidence, CompleteSucceeded, GetExistingEvidence, AppendRecorded,
                ToSuccess, ReconcileSuccess
  <1>3. CASE \/ FailComplete(w) \/ FailTransition(w)
             \/ VerifyMarkGetRun(w) \/ VerifyMarkTransition(w)
    BY <1>3 DEF FailComplete, FailTransition, VerifyMarkGetRun, VerifyMarkTransition
  <1> QED
    BY <1>1, <1>2, <1>3 DEF VerifyStep

\* The control point verify() reaches after a repository call.
LEMMA VThenPoint ==
    ASSUME VerificationTypeOK, NEW w \in Observers, NEW res \in Result, res # "illegal",
           NEW a, NEW b, NEW c, VThen(w, res, a, b, c)
    PROVE  vpc'[w] \in {a, b, c}
  <1>1. vpc'[w] = After(res, a, b, c)
    BY DEF VThen, VGoto, VerificationTypeOK
  <1> QED
    BY <1>1, AfterLegal

\* A step of verify() keeps what the call holds.
LEMMA VerifierHolding ==
    ASSUME TypeOK, NEW w \in Observers, VerifierHolds(w),
           VerifyStep(w) \/ Verify(w) \/ VerifierCrash(w)
    PROVE  VerifierHolds(w)'
  <1> USE DEF TypeOK
  <1>p. ASSUME vpc'[w] \notin {"raised", "fail_complete", "fail_transition"}
        PROVE  VerifierHolds(w)'
    BY <1>p DEF VerifierHolds
  <1>t. ALLOWED_WORKFLOW_TRANSITIONS["VERIFYING"] =
          {"SUCCESS_WITH_EVIDENCE", "DENIED_BY_POLICY", "MODEL_OUTPUT_INVALID",
           "VERIFICATION_FAILED", "AMBIGUOUS_RESULT", "DEPENDENCY_UNAVAILABLE",
           "BUDGET_EXHAUSTED", "RECOVERY_REQUIRED"}
    BY DEF ALLOWED_WORKFLOW_TRANSITIONS, WorkflowState
  <1>1. CASE VerifyGetRun(w)
    BY <1>1, <1>p, CallsLegal, VThenPoint DEF VerifyGetRun
  <1>2. CASE VerifyGetIdempotency(w)
    <2>1. verify_disposition(w) \in {"reconcile", "get_evidence", "append_started", "failed"}
      BY Zenon DEF verify_disposition
    <2> QED
      BY <1>2, <2>1, <1>p, CallsLegal, VThenPoint DEF VerifyGetIdempotency
  <1>3. CASE VerifyAppendStarted(w)
    BY <1>3, <1>p, CallsLegal, VThenPoint DEF VerifyAppendStarted
  <1>4. CASE Observe(w)
    BY <1>4 DEF Observe, VGoto, VerifierHolds, VerificationTypeOK
  <1>5. CASE AppendObserved(w)
    <2>1. observation_disposition(w) \in {"create_evidence", "observe", "fail_complete"}
      BY Zenon DEF observation_disposition
    <2>2. vpc'[w] \in {"create_evidence", "observe", "fail_complete", "mark"}
      BY <1>5, <2>1, CallsLegal, VThenPoint DEF AppendObserved
    <2>3. vfail'[w] = "VERIFICATION_FAILURE"
      BY <1>5 DEF AppendObserved, VerificationTypeOK
    <2> QED
      BY <2>2, <2>3 DEF VerifierHolds
  <1>6. CASE CreateEvidence(w)
    BY <1>6, <1>p, CallsLegal, VThenPoint DEF CreateEvidence
  <1>7. CASE CompleteSucceeded(w)
    BY <1>7, <1>p, CallsLegal, VThenPoint DEF CompleteSucceeded
  <1>8. CASE GetExistingEvidence(w)
    BY <1>8, <1>p, CallsLegal, VThenPoint DEF GetExistingEvidence
  <1>9. CASE AppendRecorded(w)
    BY <1>9, <1>p, CallsLegal, VThenPoint DEF AppendRecorded
  <1>10. CASE ToSuccess(w)
    BY <1>10, <1>t, <1>p, TransitionLegal, VThenPoint DEF ToSuccess
  <1>11. CASE ReconcileSuccess(w)
    BY <1>11, <1>p, CallsLegal, VThenPoint DEF ReconcileSuccess
  <1>12. CASE FailComplete(w)
    <2>1. vpc'[w] \in {"fail_transition", "mark"}
      BY <1>12, CallsLegal, VThenPoint DEF FailComplete
    <2> QED
      BY <1>12, <2>1 DEF FailComplete, locals, VerifierHolds
  <1>13. CASE FailTransition(w)
    <2>1. workflow_state_for_failure(vfail[w]) \in ALLOWED_WORKFLOW_TRANSITIONS["VERIFYING"]
      <3>1. vfail[w] \in ObserveFailure \cup {"VERIFICATION_FAILURE"}
        BY <1>13 DEF FailTransition, VerifierHolds
      <3> QED
        BY <1>t, <3>1 DEF ObserveFailure, workflow_state_for_failure
    <2> QED
      BY <1>13, <2>1, <1>p, TransitionLegal, VThenPoint DEF FailTransition
  <1>14. CASE VerifyMarkGetRun(w)
    BY <1>14, <1>p, CallsLegal, VThenPoint DEF VerifyMarkGetRun
  <1>15. CASE VerifyMarkTransition(w)
    BY <1>15, <1>t, <1>p, TransitionLegal, VThenPoint DEF VerifyMarkTransition
  <1>16. CASE Verify(w)
    BY <1>16, <1>p, CallsLegal, VThenPoint DEF Verify
  <1>17. CASE VerifierCrash(w)
    BY <1>17, <1>p DEF VerifierCrash, VGoto, VerificationTypeOK
  <1> QED
    BY <1>1, <1>2, <1>3, <1>4, <1>5, <1>6, <1>7, <1>8, <1>9, <1>10, <1>11, <1>12, <1>13,
       <1>14, <1>15, <1>16, <1>17
       DEF VerifyStep

\* recover(): the run it holds is the snapshot's until its first transition, and
\* at each transition it is in a state the table lets it leave that way.
BeforeReadBack == {"resume_ack", "readback", "append_observed", "readback_to_verifying"}
Proving == {"create_evidence", "complete", "append_completed", "to_success"}

RecovererHolds(r) ==
    /\ rpc[r] # "raised"
    /\ rpc[r] \in {"dispatch", "claim"} => rrun[r] = snap[r].run
    /\ rpc[r] = "claim" => rrun[r].state \in {"EXECUTING", "RECOVERY_REQUIRED", "VERIFYING"}
    /\ rpc[r] = "verified_to_verifying" => rrun[r].state = "RECOVERY_REQUIRED"
    /\ rpc[r] = "verified_to_success" => rrun[r].state = "VERIFYING"
    /\ rpc[r] \in BeforeReadBack => rrun[r].state \in {"EXECUTING", "RECOVERY_REQUIRED"}
    /\ rpc[r] \in Proving => rrun[r].state = "VERIFYING"
    /\ rpc[r] = "mark_transition" => rrun[r].state \in {"EXECUTING", "VERIFYING"}

\* What a step of one recover() call leaves of the others.
LEMMA RecovererFrame ==
    ASSUME RecoveryTypeOK, NEW r \in Recoverers, NEW q \in Recoverers, q # r,
           RecoverStep(r) \/ RecovererCrash(r)
    PROVE  /\ rpc'[q] = rpc[q] /\ snap'[q] = snap[q] /\ rrun'[q] = rrun[q]
           /\ robs'[q] = robs[q] /\ rattempt'[q] = rattempt[q] /\ rend'[q] = rend[q]
  <1> USE DEF RecoveryTypeOK, RThen, RGoto, rlocals
  <1>1. CASE \/ Recover(r) \/ LoadSnapshot(r) \/ Dispatch(r) \/ ReconstructApproval(r)
             \/ ClaimActiveRecovery(r)
    BY <1>1 DEF Recover, LoadSnapshot, Load, Dispatch, ReconstructApproval,
                ClaimActiveRecovery
  <1>2. CASE \/ VerifiedToVerifying(r) \/ VerifiedToSuccess(r) \/ ResumeFromDurableAck(r)
             \/ ReadBackToVerifying(r) \/ RecoveryToSuccess(r) \/ RecoveryMarkTransition(r)
    BY <1>2 DEF VerifiedToVerifying, VerifiedToSuccess, ResumeFromDurableAck,
                ReadBackToVerifying, RecoveryToSuccess, RecoveryMarkTransition, Transition
  <1>3. CASE \/ ContinuationNotConfigured(r) \/ CallVerify(r) \/ VerifyReturns(r)
             \/ ReadBack(r) \/ AppendReadBack(r)
    BY <1>3 DEF ContinuationNotConfigured, CallVerify, VerifyReturns, ReadBack,
                AppendReadBack
  <1>4. CASE \/ RecoveryCreateEvidence(r) \/ RecoveryComplete(r)
             \/ RecoveryAppendCompleted(r) \/ RecoveryMarkGetRun(r) \/ Outcome(r)
             \/ RecovererCrash(r)
    BY <1>4 DEF RecoveryCreateEvidence, RecoveryComplete, RecoveryAppendCompleted,
                RecoveryMarkGetRun, Outcome, RecovererCrash
  <1> QED
    BY <1>1, <1>2, <1>3, <1>4 DEF RecoverStep

\* The control point recover() reaches after a repository call.
LEMMA RThenPoint ==
    ASSUME RecoveryTypeOK, NEW r \in Recoverers, NEW res \in Result, res # "illegal",
           NEW a, NEW b, NEW c, RThen(r, res, a, b, c)
    PROVE  rpc'[r] \in {a, b, c} /\ (res = "ok" => rpc'[r] = a)
  <1>1. rpc'[r] = After(res, a, b, c)
    BY DEF RThen, RGoto, RecoveryTypeOK
  <1> QED
    BY <1>1, AfterLegal, AfterPoint

\* What recover() decides on a snapshot fits the snapshot's run.
LEMMA DispositionFits ==
    ASSUME NEW s
    PROVE  /\ recovery_disposition(s) \in
                {"deferred", "classified", "reconstruct", "claim", "completed",
                 "verified_to_verifying", "verified_to_success"}
           /\ recovery_disposition(s) = "claim" =>
                s.run.state \in {"EXECUTING", "RECOVERY_REQUIRED", "VERIFYING"}
           /\ recovery_disposition(s) = "verified_to_verifying" =>
                s.run.state = "RECOVERY_REQUIRED"
           /\ recovery_disposition(s) = "verified_to_success" => s.run.state = "VERIFYING"
  <1>1. /\ return_verified(s) \in
             {"deferred", "verified_to_verifying", "verified_to_success", "completed"}
        /\ return_verified(s) = "verified_to_verifying" => s.run.state = "RECOVERY_REQUIRED"
        /\ return_verified(s) = "verified_to_success" => s.run.state = "VERIFYING"
    <2>1. CASE s.run.state = "RECOVERY_REQUIRED"
      BY <2>1, Zenon DEF return_verified
    <2>2. CASE s.run.state = "VERIFYING"
      BY <2>2, Zenon DEF return_verified
    <2>3. CASE s.run.state \notin {"RECOVERY_REQUIRED", "VERIFYING"}
      <3>1. return_verified(s) \in {"deferred", "completed"}
        BY <2>3, Zenon DEF return_verified
      <3> QED
        BY <3>1
    <2> QED
      BY <2>1, <2>2, <2>3
  <1>2. recover_execution(s) \in {"deferred", return_verified(s), "claim"}
    BY Zenon DEF recover_execution
  <1>3. recover_verification(s) \in {"deferred", return_verified(s), "claim"}
    BY Zenon DEF recover_verification
  <1>4. recover_awaiting_approval(s) \in {"reconstruct", "deferred"}
    BY DEF recover_awaiting_approval
  <1>5. recover_approved(s) \in {"classified", "deferred"}
    BY DEF recover_approved
  <1>6. \/ recovery_disposition(s) \in
             {recover_awaiting_approval(s), recover_approved(s), return_verified(s),
              "classified"}
        \/ /\ recovery_disposition(s) = recover_execution(s)
           /\ s.run.state \in {"EXECUTING", "RECOVERY_REQUIRED"}
        \/ /\ recovery_disposition(s) = recover_verification(s)
           /\ s.run.state = "VERIFYING"
    BY Zenon DEF recovery_disposition
  <1> QED
    BY <1>1, <1>2, <1>3, <1>4, <1>5, <1>6

\* A legal conditional transition by recover(): taken, or not and given up.
LEMMA TransitionHolding ==
    ASSUME RecoveryTypeOK, NEW r \in Recoverers, NEW at, NEW to, NEW ok, NEW bad,
           to \in ALLOWED_WORKFLOW_TRANSITIONS[rrun[r].state],
           Transition(r, at, to, ok, bad)
    PROVE  \/ rpc'[r] = ok /\ rrun'[r].state = to
           \/ rpc'[r] = bad /\ rrun'[r] = rrun[r]
  <1>1. PICK res \in Result :
          /\ transition_run(rrun[r].state, rrun[r].version, to, res)
          /\ RThen(r, res, ok, bad, bad)
          /\ rrun' = IF res = "ok"
                     THEN [rrun EXCEPT ![r] = [state |-> to, version |-> rrun[r].version + 1]]
                     ELSE rrun
    BY DEF Transition
  <1>2. res # "illegal"
    BY <1>1, TransitionLegal
  <1>3. rpc'[r] = After(res, ok, bad, bad)
    BY <1>1 DEF RThen, RGoto, RecoveryTypeOK
  <1>4. CASE res = "ok"
    <2>1. rrun'[r] = [state |-> to, version |-> rrun[r].version + 1]
      BY <1>1, <1>4 DEF RecoveryTypeOK
    <2> QED
      BY <1>3, <1>4, <2>1, AfterPoint
  <1>5. CASE res \in {"conflict", "unavailable"}
    BY <1>1, <1>3, <1>5, AfterPoint
  <1> QED
    BY <1>2, <1>4, <1>5 DEF Result

\* A step of recover() keeps what the call holds.
LEMMA RecovererHolding ==
    ASSUME TypeOK, NEW r \in Recoverers, RecovererHolds(r), VerifierHolds(r),
           RecoverStep(r) \/ RecovererCrash(r)
    PROVE  RecovererHolds(r)'
  <1> USE DEF TypeOK
  <1> DEFINE Special == {"raised", "dispatch", "claim", "verified_to_verifying",
                         "verified_to_success", "mark_transition"}
                          \cup BeforeReadBack \cup Proving
  <1>p. ASSUME rpc'[r] \notin Special PROVE RecovererHolds(r)'
    BY <1>p DEF RecovererHolds
  <1>n. {"deferred", "classified", "completed", "done", "crashed", "mark", "reconstruct",
         "verify", "await_verify", "idle"} \cap Special = {} /\ Loads \cap Special = {}
    BY DEF BeforeReadBack, Proving, Loads
  <1>t. /\ ALLOWED_WORKFLOW_TRANSITIONS["EXECUTING"] =
             {"VERIFYING", "DENIED_BY_POLICY", "EXECUTION_FAILED", "AMBIGUOUS_RESULT",
              "DEPENDENCY_UNAVAILABLE", "BUDGET_EXHAUSTED", "RECOVERY_REQUIRED"}
        /\ ALLOWED_WORKFLOW_TRANSITIONS["RECOVERY_REQUIRED"] =
             {"VERIFYING", "DENIED_BY_POLICY", "DEPENDENCY_UNAVAILABLE",
              "VERIFICATION_FAILED"}
        /\ ALLOWED_WORKFLOW_TRANSITIONS["VERIFYING"] =
             {"SUCCESS_WITH_EVIDENCE", "DENIED_BY_POLICY", "MODEL_OUTPUT_INVALID",
              "VERIFICATION_FAILED", "AMBIGUOUS_RESULT", "DEPENDENCY_UNAVAILABLE",
              "BUDGET_EXHAUSTED", "RECOVERY_REQUIRED"}
    BY DEF ALLOWED_WORKFLOW_TRANSITIONS, WorkflowState
  <1>e. rend[r] \in {"deferred", "done"}
    BY DEF RecoveryTypeOK
  <1>1. CASE Recover(r)
    <2>1. rpc'[r] = "load_run"
      BY <1>1 DEF Recover, RGoto, RecoveryTypeOK
    <2> QED
      BY <2>1, <1>p, <1>n DEF Loads
  <1>2. CASE LoadSnapshot(r)
    <2>1. ASSUME NEW at, NEW new, NEW next \in Loads, Load(r, at, new, next)
          PROVE  RecovererHolds(r)'
      <3>1. rpc'[r] \in {next, "done"}
        BY <2>1, CallsLegal, RThenPoint DEF Load
      <3> QED
        BY <3>1, <1>p, <1>n
    <2>2. ASSUME NEW at, NEW new, Load(r, at, new, "dispatch")
          PROVE  RecovererHolds(r)'
      <3>1. rpc'[r] \in {"dispatch", "done"}
        BY <2>2, CallsLegal, RThenPoint DEF Load
      <3>2. rrun'[r] = snap'[r].run
        BY <2>2 DEF Load, RecoveryTypeOK
      <3> QED
        BY <3>1, <3>2 DEF RecovererHolds, BeforeReadBack, Proving
    <2> QED
      BY <1>2, <2>1, <2>2 DEF LoadSnapshot, Loads
  <1>3. CASE Dispatch(r)
    <2>1. rpc'[r] = recovery_disposition(snap[r]) /\ rrun'[r] = rrun[r] /\ snap'[r] = snap[r]
      BY <1>3 DEF Dispatch, RGoto, rlocals, RecoveryTypeOK
    <2>2. rrun[r] = snap[r].run
      BY <1>3 DEF Dispatch, RecovererHolds
    <2> QED
      BY <2>1, <2>2, DispositionFits DEF RecovererHolds, BeforeReadBack, Proving
  <1>4. CASE ReconstructApproval(r)
    BY <1>4, <1>p, <1>n, CallsLegal, RThenPoint DEF ReconstructApproval
  <1>5. CASE ClaimActiveRecovery(r)
    <2>1. rpc'[r] \in {"deferred", continuation(snap[r])}
      <3>1. CASE RGoto(r, "deferred")
        BY <3>1 DEF RGoto, RecoveryTypeOK
      <3>2. CASE \E res \in Result :
                   /\ save_checkpoint(snap[r].checkpoint,
                                      [snap[r].checkpoint EXCEPT !.lease = "live"], res)
                   /\ RThen(r, res, continuation(snap[r]), "deferred", "deferred")
        BY <3>2, CallsLegal, RThenPoint
      <3> QED
        BY <1>5, <3>1, <3>2 DEF ClaimActiveRecovery
    <2>2. /\ rrun[r] = snap[r].run
          /\ rrun[r].state \in {"EXECUTING", "RECOVERY_REQUIRED", "VERIFYING"}
          /\ rrun'[r] = rrun[r]
      BY <1>5 DEF ClaimActiveRecovery, RecovererHolds, rlocals
    <2>3. continuation(snap[r]) \in {"verify"} \cup
            (IF snap[r].run.state = "VERIFYING" THEN {} ELSE {"resume_ack", "readback"})
      <3>1. CASE snap[r].run.state = "VERIFYING"
        BY <3>1 DEF continuation
      <3>2. CASE snap[r].run.state # "VERIFYING"
        <4>1. continuation(snap[r]) \in {"verify", "resume_ack", "readback"}
          BY Zenon DEF continuation
        <4> QED
          BY <3>2, <4>1
      <3> QED
        BY <3>1, <3>2
    <2> QED
      BY <2>1, <2>2, <2>3 DEF RecovererHolds, BeforeReadBack, Proving
  <1>6. CASE VerifiedToVerifying(r)
    <2>1. rrun[r].state = "RECOVERY_REQUIRED"
      BY <1>6 DEF VerifiedToVerifying, Transition, RecovererHolds
    <2>2. \/ rpc'[r] = "verified_to_success" /\ rrun'[r].state = "VERIFYING"
          \/ rpc'[r] = "deferred"
      BY <1>6, <1>t, <2>1, TransitionHolding DEF VerifiedToVerifying
    <2> QED
      BY <2>2 DEF RecovererHolds, BeforeReadBack, Proving
  <1>7. CASE VerifiedToSuccess(r)
    <2>1. rrun[r].state = "VERIFYING"
      BY <1>7 DEF VerifiedToSuccess, Transition, RecovererHolds
    <2>2. rpc'[r] \in {"completed", "deferred"}
      BY <1>7, <1>t, <2>1, TransitionHolding DEF VerifiedToSuccess
    <2> QED
      BY <2>2, <1>p, <1>n
  <1>8. CASE ResumeFromDurableAck(r)
    <2>1. rrun[r].state \in {"EXECUTING", "RECOVERY_REQUIRED"}
      BY <1>8 DEF ResumeFromDurableAck, Transition, RecovererHolds, BeforeReadBack
    <2>2. rpc'[r] \in {"verify", "deferred"}
      BY <1>8, <1>t, <2>1, TransitionHolding DEF ResumeFromDurableAck
    <2> QED
      BY <2>2, <1>p, <1>n
  <1>9. CASE ContinuationNotConfigured(r) \/ CallVerify(r) \/ RecovererCrash(r)
    <2>1. rpc'[r] \in {"deferred", "await_verify", "crashed"}
      BY <1>9 DEF ContinuationNotConfigured, CallVerify, RecovererCrash, RGoto,
                  RecoveryTypeOK
    <2> QED
      BY <2>1, <1>p, <1>n
  <1>10. CASE VerifyReturns(r)
    <2>1. vpc[r] \in {"succeeded", "failed"}
      BY <1>10 DEF VerifyReturns, VerifierHolds
    <2>2. rpc'[r] = verify_outcome(vpc[r])
      BY <1>10 DEF VerifyReturns, RGoto, RecoveryTypeOK
    <2>3. verify_outcome(vpc[r]) \in {"completed", "deferred"}
      BY <2>1 DEF verify_outcome
    <2> QED
      BY <2>2, <2>3, <1>p, <1>n
  <1>11. CASE ReadBack(r)
    <2>1. rpc'[r] \in {"append_observed", "mark"} /\ rrun'[r] = rrun[r]
      BY <1>11 DEF ReadBack, RGoto, RecoveryTypeOK
    <2>2. rrun[r].state \in {"EXECUTING", "RECOVERY_REQUIRED"}
      BY <1>11 DEF ReadBack, RecovererHolds, BeforeReadBack
    <2> QED
      BY <2>1, <2>2 DEF RecovererHolds, BeforeReadBack, Proving
  <1>12. CASE AppendReadBack(r)
    <2>1. readback_disposition(r) \in {"readback_to_verifying", "readback", "mark"}
      BY Zenon DEF readback_disposition
    <2>2. rpc'[r] \in {"readback_to_verifying", "readback", "mark"}
      BY <1>12, <2>1, CallsLegal, RThenPoint DEF AppendReadBack
    <2>3. rrun[r].state \in {"EXECUTING", "RECOVERY_REQUIRED"} /\ rrun'[r] = rrun[r]
      BY <1>12 DEF AppendReadBack, RecovererHolds, BeforeReadBack
    <2> QED
      BY <2>2, <2>3 DEF RecovererHolds, BeforeReadBack, Proving
  <1>13. CASE ReadBackToVerifying(r)
    <2>1. rrun[r].state \in {"EXECUTING", "RECOVERY_REQUIRED"}
      BY <1>13 DEF ReadBackToVerifying, Transition, RecovererHolds, BeforeReadBack
    <2>2. \/ rpc'[r] = "create_evidence" /\ rrun'[r].state = "VERIFYING"
          \/ rpc'[r] = "mark"
      BY <1>13, <1>t, <2>1, TransitionHolding DEF ReadBackToVerifying
    <2> QED
      BY <2>2 DEF RecovererHolds, BeforeReadBack, Proving
  <1>14. CASE \/ RecoveryCreateEvidence(r) \/ RecoveryComplete(r)
              \/ RecoveryAppendCompleted(r)
    <2>1. rpc'[r] \in {"complete", "append_completed", "to_success", "mark"}
      BY <1>14, CallsLegal, RThenPoint
         DEF RecoveryCreateEvidence, RecoveryComplete, RecoveryAppendCompleted
    <2>2. rrun[r].state = "VERIFYING" /\ rrun'[r] = rrun[r]
      BY <1>14 DEF RecoveryCreateEvidence, RecoveryComplete, RecoveryAppendCompleted,
                   RecovererHolds, Proving, rlocals
    <2> QED
      BY <2>1, <2>2 DEF RecovererHolds, BeforeReadBack, Proving
  <1>15. CASE RecoveryToSuccess(r)
    <2>1. rrun[r].state = "VERIFYING"
      BY <1>15 DEF RecoveryToSuccess, Transition, RecovererHolds, Proving
    <2>2. rpc'[r] \in {"completed", "mark"}
      BY <1>15, <1>t, <2>1, TransitionHolding DEF RecoveryToSuccess
    <2> QED
      BY <2>2, <1>p, <1>n
  <1>16. CASE RecoveryMarkGetRun(r)
    <2>1. CASE rpc'[r] \in {"deferred", "done"}
      BY <2>1, <1>p, <1>n
    <2>2. CASE /\ rpc'[r] = "mark_transition"
               /\ rrun'[r].state \in {"EXECUTING", "VERIFYING"}
      BY <2>2 DEF RecovererHolds, BeforeReadBack, Proving
    <2>3. CASE RGoto(r, rend[r])
      BY <2>1, <2>3, <1>e DEF RGoto, RecoveryTypeOK
    <2>4. CASE /\ \E res \in Result :
                    /\ Read(res)
                    /\ RThen(r, res,
                         IF run.state \in {"EXECUTING", "VERIFYING"}
                         THEN "mark_transition" ELSE rend[r], rend[r], rend[r])
               /\ rrun' = [rrun EXCEPT ![r] = run]
      <3>1. rrun'[r] = run
        BY <2>4 DEF RecoveryTypeOK
      <3>2. CASE run.state \in {"EXECUTING", "VERIFYING"}
        BY <2>1, <2>2, <2>4, <3>1, <3>2, <1>e, CallsLegal, RThenPoint
      <3>3. CASE run.state \notin {"EXECUTING", "VERIFYING"}
        BY <2>1, <2>4, <3>3, <1>e, CallsLegal, RThenPoint
      <3> QED
        BY <3>2, <3>3
    <2> QED
      BY <1>16, <2>3, <2>4 DEF RecoveryMarkGetRun
  <1>17. CASE RecoveryMarkTransition(r)
    <2>1. rrun[r].state \in {"EXECUTING", "VERIFYING"}
      BY <1>17 DEF RecoveryMarkTransition, Transition, RecovererHolds
    <2>2. rpc'[r] = rend[r]
      BY <1>17, <1>t, <2>1, TransitionHolding DEF RecoveryMarkTransition
    <2> QED
      BY <2>2, <1>e, <1>p, <1>n
  <1>18. CASE Outcome(r)
    BY <1>18, <1>p, <1>n, CallsLegal, RThenPoint DEF Outcome
  <1> QED
    BY <1>1, <1>2, <1>3, <1>4, <1>5, <1>6, <1>7, <1>8, <1>9, <1>10, <1>11, <1>12, <1>13,
       <1>14, <1>15, <1>16, <1>17, <1>18
       DEF RecoverStep

\* Every call holds what its next transition needs.
CallsHold ==
    /\ \A e \in Executors : ExecutorHolds(e)
    /\ \A w \in Observers : VerifierHolds(w)
    /\ \A r \in Recoverers : RecovererHolds(r)
    /\ \A a \in Approvers : ApproverHolds(a)

\* Every step of the workflow keeps what the calls hold.
LEMMA NextCallsHold == TypeOK /\ CallsHold /\ [Next]_vars => CallsHold'
  <1> SUFFICES ASSUME TypeOK, CallsHold, [Next]_vars PROVE CallsHold'
    OBVIOUS
  <1> USE DEF TypeOK
  <1>x. UNCHANGED remediation => \A e \in Executors : ExecutorHolds(e)'
    BY DEF remediation, CallsHold, ExecutorHolds
  <1>v. UNCHANGED verification => \A w \in Observers : VerifierHolds(w)'
    BY DEF verification, CallsHold, VerifierHolds
  <1>r. UNCHANGED recovery => \A r \in Recoverers : RecovererHolds(r)'
    BY DEF recovery, CallsHold, RecovererHolds
  <1>a. UNCHANGED approvals => \A a \in Approvers : ApproverHolds(a)'
    BY DEF approvals, CallsHold, ApproverHolds
  <1>w. ASSUME NEW w \in Observers, VerifyStep(w) \/ Verify(w) \/ VerifierCrash(w)
        PROVE  \A u \in Observers : VerifierHolds(u)'
    <2>1. VerifierHolds(w)'
      BY <1>w, VerifierHolding DEF CallsHold
    <2>2. ASSUME NEW u \in Observers, u # w PROVE VerifierHolds(u)'
      BY <1>w, <2>2, VerifierFrame DEF CallsHold, VerifierHolds
    <2> QED
      BY <2>1, <2>2
  <1>1. CASE \E e \in Executors : ExecutorNext(e)
    <2>1. PICK e \in Executors : ExecutorNext(e)
      BY <1>1
    <2>2. ExecutorHolds(e)'
      BY <2>1, ExecutorHolding DEF ExecutorNext, CallsHold
    <2>3. ASSUME NEW f \in Executors, f # e PROVE ExecutorHolds(f)'
      BY <2>1, <2>3, ExecutorFrame DEF ExecutorNext, CallsHold, ExecutorHolds
    <2> QED
      BY <2>1, <2>2, <2>3, <1>v, <1>r, <1>a DEF ExecutorNext, CallsHold
  <1>2. CASE \E v \in Verifiers : VerifierNext(v)
    BY <1>2, <1>w, <1>x, <1>r, <1>a DEF VerifierNext, CallsHold, Observers
  <1>3. CASE \E r \in Recoverers : RecovererNext(r)
    <2>1. PICK r \in Recoverers : RecovererNext(r)
      BY <1>3
    <2>2. CASE VerifyStep(r) /\ UNCHANGED recovery
      BY <2>1, <2>2, <1>w, <1>x, <1>r, <1>a DEF RecovererNext, CallsHold, Observers
    <2>3. CASE RecoverStep(r) \/ RecovererCrash(r)
      <3>1. RecovererHolds(r)'
        BY <2>3, RecovererHolding DEF CallsHold, Observers
      <3>2. ASSUME NEW q \in Recoverers, q # r PROVE RecovererHolds(q)'
        BY <2>3, <3>2, RecovererFrame DEF CallsHold, RecovererHolds
      <3>3. \A w \in Observers : VerifierHolds(w)'
        <4>1. CASE CallVerify(r) \/ RecovererCrash(r)
          <5>1. \A w \in Observers : vpc'[w] \in {vpc[w], "get_run", "crashed"}
                                      /\ (vpc'[w] # vpc[w] => vpc'[w] \in {"get_run", "crashed"})
            BY <4>1 DEF CallVerify, RecovererCrash, VGoto, VerificationTypeOK, Observers
          <5>2. vfail' = vfail
            BY <4>1 DEF CallVerify, RecovererCrash, locals
          <5> QED
            BY <5>1, <5>2 DEF CallsHold, VerifierHolds
        <4>2. CASE ~CallVerify(r) /\ ~RecovererCrash(r)
          <5>1. UNCHANGED verification
            BY <2>3, <4>2
               DEF RecoverStep, Recover, LoadSnapshot, Load, Dispatch, ReconstructApproval,
                   ClaimActiveRecovery, VerifiedToVerifying, VerifiedToSuccess,
                   ResumeFromDurableAck, ContinuationNotConfigured, VerifyReturns, ReadBack,
                   AppendReadBack, ReadBackToVerifying, RecoveryCreateEvidence,
                   RecoveryComplete, RecoveryAppendCompleted, RecoveryToSuccess,
                   RecoveryMarkGetRun, RecoveryMarkTransition, Outcome, Transition
          <5> QED
            BY <5>1, <1>v
        <4> QED
          BY <4>1, <4>2
      <3> QED
        BY <2>1, <3>1, <3>2, <3>3, <1>x, <1>a DEF RecovererNext, CallsHold
    <2> QED
      BY <2>1, <2>2, <2>3 DEF RecovererNext
  <1>4. CASE \E a \in Approvers : ApproverNext(a)
    <2>1. PICK a \in Approvers : ApproverNext(a)
      BY <1>4
    <2>2. ApproverHolds(a)'
      BY <2>1, ApproverHolding DEF ApproverNext, CallsHold
    <2>3. ASSUME NEW b \in Approvers, b # a PROVE ApproverHolds(b)'
      BY <2>1, <2>3, ApproverFrame DEF ApproverNext, CallsHold, ApproverHolds
    <2> QED
      BY <2>1, <2>2, <2>3, <1>x, <1>v, <1>r DEF ApproverNext, CallsHold
  <1>5. CASE EnvironmentNext
    <2>1. CASE UNCHANGED <<remediation, verification, recovery, approvals>>
      BY <2>1, <1>x, <1>v, <1>r, <1>a DEF CallsHold
    <2>2. CASE LeaseExpires /\ UNCHANGED <<remediation, approvals>>
      <3>1. \A r \in Recoverers : RecovererHolds(r)'
        BY <2>2 DEF LeaseExpires, rlocals, CallsHold, RecovererHolds
      <3> QED
        BY <2>2, <3>1, <1>x, <1>v, <1>a DEF LeaseExpires, CallsHold
    <2> QED
      BY <1>5, <2>1, <2>2 DEF EnvironmentNext
  <1>6. CASE UNCHANGED vars
    BY <1>6, <1>x, <1>v, <1>r, <1>a DEF vars, CallsHold
  <1> QED
    BY <1>1, <1>2, <1>3, <1>4, <1>5, <1>6 DEF Next

\* Initially no call has started.
LEMMA InitCallsHold == Init => CallsHold
  BY DEF Init, RemediationInit, VerificationInit, RecoveryInit, ApprovalInit, CallsHold,
         ExecutorHolds, VerifierHolds, RecovererHolds, ApproverHolds, BeforeReadBack, Proving

\* What the calls hold is an invariant of the workflow.
LEMMA AlwaysCallsHold == Spec => []CallsHold
  BY InitCallsHold, NextCallsHold, TypeCorrect, PTL DEF Spec

\* No coordinator ever asks for a transition the table forbids, however many
\* calls interleave: the values read some steps earlier, and used after other
\* calls have moved the run on, still name a legal transition, so that
\* WorkflowTransitionError never leaves execute(), verify(), recover() or resume().
THEOREM NothingIsRaised == Spec => []NoTransitionError
  <1>1. CallsHold => NoTransitionError
    BY DEF CallsHold, ExecutorHolds, VerifierHolds, RecovererHolds, ApproverHolds,
           NoTransitionError
  <1> QED
    BY <1>1, AlwaysCallsHold, PTL

-----------------------------------------------------------------------------
(***************************************************************************)
(* What a step may do to the run, the decision, the claim and the          *)
(* evidence, and which call does it.                                       *)
(***************************************************************************)

\* Audit events, checkpoints and the proposal's own state.
Bookkeeping == UNCHANGED <<run, approval, idem, evidence>> /\ audit \subseteq audit'

\* The run is moved: along the table, with the proof its target demands, to
\* RECOVERY_REQUIRED only from an approved run, and to a failed end only before
\* the decision or by a call that has resolved the claim.
Closing(to) ==
    \/ run.state = "AWAITING_APPROVAL"
    \/ to = "SUCCESS_WITH_EVIDENCE"
    \/ \E e \in Executors : xpc[e] = "to_failed"
    \/ \E w \in Observers : vpc[w] = "fail_transition"

RunMoved ==
    /\ UNCHANGED <<approval, idem, evidence, audit>>
    /\ run'.state \in ALLOWED_WORKFLOW_TRANSITIONS[run.state]
    /\ DecisionProven(run'.state) /\ SuccessProven(run'.state)
    /\ run'.state = "RECOVERY_REQUIRED" => run.state \in {"APPROVED", "EXECUTING", "VERIFYING"}
    /\ run'.state \in TERMINAL_WORKFLOW_STATES => Closing(run'.state)

DecisionStored == UNCHANGED <<run, idem, evidence, audit>> /\ approval = NoApproval

ClaimRegistered ==
    /\ UNCHANGED <<run, approval, evidence, audit>>
    /\ idem.status = "none"
    /\ idem' = [idem EXCEPT !.status = "REGISTERED"]
    /\ run.state = "APPROVED"

\* Completed by the call whose evidence it names, failed by a verification, or
\* failed or left to reconciliation by an execution.
ClaimResolved ==
    /\ UNCHANGED <<run, approval, evidence, audit>>
    /\ idem.status = "REGISTERED"
    /\ idem'.ack = idem.ack
    /\ \/ /\ idem'.status = "COMPLETED"
          /\ idem'.proof \in Observers
          /\ \/ vpc[idem'.proof] = "complete"
             \/ idem'.proof \in Recoverers /\ rpc[idem'.proof] = "complete"
       \/ /\ idem'.status = "FAILED"
          /\ \E w \in Observers : vpc[w] = "fail_complete"
       \/ \E e \in Executors :
            /\ CompleteFailed(e)
            /\ idem'.status = IF xfail[e] = "RECOVERY_REQUIREMENT"
                              THEN "RECONCILIATION_REQUIRED" ELSE "FAILED"

AckStored ==
    /\ UNCHANGED <<run, approval, evidence, audit>>
    /\ idem.status = "REGISTERED"
    /\ \E e \in Executors : /\ xpc[e] = "record_ack"
                            /\ idem.ack \in {None, e}
                            /\ idem' = [idem EXCEPT !.ack = e]

EvidenceStored ==
    /\ UNCHANGED <<run, approval, idem, audit>>
    /\ evidence = NoEvidence
    /\ \/ \E w \in Observers :
            /\ vpc[w] = "create_evidence"
            /\ evidence' = [id |-> w, origin |-> "EXECUTION_ACKNOWLEDGEMENT"]
            /\ idem.ack # None
       \/ \E r \in Recoverers :
            /\ rpc[r] = "create_evidence"
            /\ evidence' = [id |-> r, origin |-> "RECOVERY_READ_BACK"]

RecordStep == \/ Bookkeeping \/ RunMoved \/ DecisionStored
              \/ ClaimRegistered \/ ClaimResolved \/ AckStored \/ EvidenceStored

\* The calls that move none of the four records.
LEMMA BookkeepingCalls ==
    ASSUME NEW res
    PROVE  /\ Read(res) => Bookkeeping
           /\ transition_proposal(res) => Bookkeeping
           /\ \A type : append_audit_event(type, res) => Bookkeeping
           /\ \A base, new : save_checkpoint(base, new, res) => Bookkeeping
           /\ UNCHANGED durable => Bookkeeping
  BY DEF Bookkeeping, Read, transition_proposal, append_audit_event, save_checkpoint,
         records, durable

\* transition_run moves the run as RunMoved says, or leaves everything alone.
LEMMA TransitionMoves ==
    ASSUME DurableTypeOK, NEW from, NEW version, NEW to \in WorkflowState, NEW res,
           transition_run(from, version, to, res),
           to = "RECOVERY_REQUIRED" => from \in {"APPROVED", "EXECUTING", "VERIFYING"},
           run.state = from /\ to \in TERMINAL_WORKFLOW_STATES => Closing(to)
    PROVE  Bookkeeping \/ RunMoved
  <1>1. /\ UNCHANGED <<approval, idem, evidence, audit>>
        /\ \/ run' = run
           \/ /\ run.state = from
              /\ to \in ALLOWED_WORKFLOW_TRANSITIONS[from]
              /\ DecisionProven(to) /\ SuccessProven(to)
              /\ run' = [state |-> to, version |-> version + 1]
    BY DEF transition_run, Write
  <1>2. CASE run' = run
    BY <1>1, <1>2 DEF Bookkeeping
  <1>3. CASE /\ run.state = from
             /\ to \in ALLOWED_WORKFLOW_TRANSITIONS[from]
             /\ DecisionProven(to) /\ SuccessProven(to)
             /\ run' = [state |-> to, version |-> version + 1]
    <2>1. run'.state = to
      BY <1>3
    <2> QED
      BY <1>1, <1>3, <2>1 DEF RunMoved
  <1> QED
    BY <1>1, <1>2, <1>3

\* What a step of execute() does to the records.
LEMMA ExecutorRecords ==
    ASSUME TypeOK, NEW e \in Executors, ExecutorHolds(e),
           ExecutorStep(e) \/ ExecutorCrash(e)
    PROVE  RecordStep
  <1> USE DEF TypeOK, RecordStep
  <1>1. CASE \/ Execute(e) \/ GetIdempotency(e) \/ GetRunAfterAck(e)
             \/ RequireApproved(e) \/ LoadExecutionPrerequisites(e) \/ MarkGetRun(e)
    BY <1>1, BookkeepingCalls
       DEF Execute, GetIdempotency, GetRunAfterAck, RequireApproved,
           LoadExecutionPrerequisites, MarkGetRun
  <1>2. CASE AppendRequested(e) \/ AppendAcknowledged(e) \/ AppendDenied(e)
    BY <1>2, BookkeepingCalls DEF AppendRequested, AppendAcknowledged, AppendDenied
  <1>3. CASE \/ InvocationLost(e) \/ Describe(e) \/ FirstEmergencyCheck(e) \/ DryRun(e)
             \/ SecondEmergencyCheck(e) \/ StopInstances(e)
             \/ LateChecks(e) \/ LateStop(e) \/ ExecutorCrash(e)
    BY <1>3, BookkeepingCalls
       DEF InvocationLost, Describe, FirstEmergencyCheck, SecondEmergencyCheck,
           AssertWritesEnabled, DryRun, StopInstances, LateChecks, LateStop, ExecutorCrash
  <1>4. CASE RegisterApprovedAction(e)
    BY <1>4 DEF RegisterApprovedAction, register_idempotency, Write, Bookkeeping,
                ClaimRegistered
  <1>5. CASE ClaimExecution(e)
    BY <1>5, TransitionMoves DEF ClaimExecution, WorkflowState, TERMINAL_WORKFLOW_STATES
  <1>6. CASE RecordAcknowledgement(e)
    BY <1>6 DEF RecordAcknowledgement, record_execution_acknowledgement, Write,
                Bookkeeping, AckStored
  <1>7. CASE ToVerifying(e)
    BY <1>7, TransitionMoves DEF ToVerifying, WorkflowState, TERMINAL_WORKFLOW_STATES
  <1>8. CASE CompleteFailed(e)
    <2> DEFINE status == IF xfail[e] = "RECOVERY_REQUIREMENT"
                         THEN "RECONCILIATION_REQUIRED" ELSE "FAILED"
    <2>1. \/ Bookkeeping
          \/ /\ UNCHANGED <<run, approval, evidence, audit>>
             /\ idem.status = "REGISTERED"
             /\ idem' = [status |-> status, ack |-> idem.ack, proof |-> None]
      BY <1>8 DEF CompleteFailed, complete_idempotency, Write, Bookkeeping
    <2> QED
      BY <1>8, <2>1 DEF ClaimResolved
  <1>9. CASE ToFailed(e)
    BY <1>9, TransitionMoves, FailureStates DEF ToFailed, Closing
  <1>10. CASE MarkTransition(e)
    BY <1>10, TransitionMoves
       DEF MarkTransition, ExecutorHolds, WorkflowState, TERMINAL_WORKFLOW_STATES
  <1> QED
    BY <1>1, <1>2, <1>3, <1>4, <1>5, <1>6, <1>7, <1>8, <1>9, <1>10 DEF ExecutorStep

\* What a step of verify() does to the records.
LEMMA VerifierRecords ==
    ASSUME TypeOK, NEW w \in Observers, VerifyStep(w) \/ Verify(w) \/ VerifierCrash(w)
    PROVE  RecordStep
  <1> USE DEF TypeOK, RecordStep
  <1>1. CASE \/ VerifyGetRun(w) \/ VerifyGetIdempotency(w) \/ GetExistingEvidence(w)
             \/ ReconcileSuccess(w) \/ VerifyMarkGetRun(w) \/ Verify(w)
    BY <1>1, BookkeepingCalls
       DEF VerifyGetRun, VerifyGetIdempotency, GetExistingEvidence, ReconcileSuccess,
           VerifyMarkGetRun, Verify
  <1>2. CASE \/ VerifyAppendStarted(w) \/ AppendObserved(w) \/ AppendRecorded(w)
             \/ Observe(w) \/ VerifierCrash(w)
    BY <1>2, BookkeepingCalls
       DEF VerifyAppendStarted, AppendObserved, AppendRecorded, Observe, VerifierCrash
  <1>3. CASE CreateEvidence(w)
    BY <1>3 DEF CreateEvidence, create_verification_evidence, Write, Bookkeeping,
                EvidenceStored
  <1>4. CASE CompleteSucceeded(w)
    <2>1. \/ Bookkeeping
          \/ /\ UNCHANGED <<run, approval, evidence, audit>>
             /\ idem.status = "REGISTERED"
             /\ idem' = [status |-> "COMPLETED", ack |-> idem.ack, proof |-> w]
      BY <1>4 DEF CompleteSucceeded, complete_idempotency, Write, Bookkeeping
    <2>2. vpc[w] = "complete"
      BY <1>4 DEF CompleteSucceeded
    <2> QED
      BY <2>1, <2>2 DEF ClaimResolved
  <1>5. CASE FailComplete(w)
    <2>1. \/ Bookkeeping
          \/ /\ UNCHANGED <<run, approval, evidence, audit>>
             /\ idem.status = "REGISTERED"
             /\ idem' = [status |-> "FAILED", ack |-> idem.ack, proof |-> None]
      BY <1>5 DEF FailComplete, complete_idempotency, Write, Bookkeeping
    <2>2. vpc[w] = "fail_complete"
      BY <1>5 DEF FailComplete
    <2> QED
      BY <2>1, <2>2 DEF ClaimResolved
  <1>6. CASE ToSuccess(w)
    BY <1>6, TransitionMoves
       DEF ToSuccess, WorkflowState, TERMINAL_WORKFLOW_STATES, Closing
  <1>7. CASE FailTransition(w)
    BY <1>7, TransitionMoves, FailureStates DEF FailTransition, Closing
  <1>8. CASE VerifyMarkTransition(w)
    BY <1>8, TransitionMoves
       DEF VerifyMarkTransition, WorkflowState, TERMINAL_WORKFLOW_STATES
  <1> QED
    BY <1>1, <1>2, <1>3, <1>4, <1>5, <1>6, <1>7, <1>8 DEF VerifyStep

\* What a step of recover() does to the records.
LEMMA RecovererRecords ==
    ASSUME TypeOK, NEW r \in Recoverers, RecovererHolds(r),
           RecoverStep(r) \/ RecovererCrash(r)
    PROVE  RecordStep
  <1> USE DEF TypeOK, RecordStep
  <1>w. r \in Observers
    BY DEF Observers
  <1>1. CASE \/ Recover(r) \/ LoadSnapshot(r) \/ Dispatch(r) \/ ReconstructApproval(r)
             \/ ClaimActiveRecovery(r) \/ ContinuationNotConfigured(r) \/ CallVerify(r)
             \/ VerifyReturns(r) \/ ReadBack(r) \/ RecovererCrash(r)
    BY <1>1, BookkeepingCalls
       DEF Recover, LoadSnapshot, Load, Dispatch, ReconstructApproval,
           ClaimActiveRecovery, ContinuationNotConfigured, CallVerify, VerifyReturns,
           ReadBack, RecovererCrash
  <1>2. CASE \/ AppendReadBack(r) \/ RecoveryAppendCompleted(r) \/ RecoveryMarkGetRun(r)
             \/ Outcome(r)
    BY <1>2, BookkeepingCalls
       DEF AppendReadBack, RecoveryAppendCompleted, RecoveryMarkGetRun, Outcome
  <1>3. CASE \/ VerifiedToVerifying(r) \/ ResumeFromDurableAck(r) \/ ReadBackToVerifying(r)
    BY <1>3, TransitionMoves
       DEF VerifiedToVerifying, ResumeFromDurableAck, ReadBackToVerifying, Transition,
           WorkflowState, TERMINAL_WORKFLOW_STATES
  <1>4. CASE VerifiedToSuccess(r) \/ RecoveryToSuccess(r)
    BY <1>4, TransitionMoves
       DEF VerifiedToSuccess, RecoveryToSuccess, Transition, WorkflowState,
           TERMINAL_WORKFLOW_STATES, Closing
  <1>5. CASE RecoveryMarkTransition(r)
    BY <1>5, TransitionMoves
       DEF RecoveryMarkTransition, Transition, RecovererHolds, WorkflowState,
           TERMINAL_WORKFLOW_STATES
  <1>6. CASE RecoveryCreateEvidence(r)
    BY <1>6 DEF RecoveryCreateEvidence, create_verification_evidence, Write, Bookkeeping,
                EvidenceStored
  <1>7. CASE RecoveryComplete(r)
    <2>1. \/ Bookkeeping
          \/ /\ UNCHANGED <<run, approval, evidence, audit>>
             /\ idem.status = "REGISTERED"
             /\ idem' = [status |-> "COMPLETED", ack |-> idem.ack, proof |-> r]
      BY <1>7 DEF RecoveryComplete, complete_idempotency, Write, Bookkeeping
    <2>2. rpc[r] = "complete"
      BY <1>7 DEF RecoveryComplete
    <2> QED
      BY <1>w, <2>1, <2>2 DEF ClaimResolved
  <1> QED
    BY <1>1, <1>2, <1>3, <1>4, <1>5, <1>6, <1>7 DEF RecoverStep

\* What a step of request() or resume() does to the records.
LEMMA ApproverRecords ==
    ASSUME TypeOK, NEW a \in Approvers, ApproverHolds(a),
           ApproverStep(a) \/ ApproverCrash(a)
    PROVE  RecordStep
  <1> USE DEF TypeOK, RecordStep
  <1>1. CASE \/ Request(a) \/ RequestGetRun(a) \/ RequestGetCheckpoint(a)
             \/ RequestTransitionProposal(a) \/ RequestAuditFailure(a) \/ SaveInterrupt(a)
             \/ AppendApprovalRequested(a)
    BY <1>1, BookkeepingCalls
       DEF Request, RequestGetRun, RequestGetCheckpoint, RequestTransitionProposal,
           RequestAuditFailure, SaveInterrupt, AppendApprovalRequested
  <1>2. CASE \/ Resume(a) \/ ResumeGetRun(a) \/ ResumeGetCheckpoint(a)
             \/ AppendMismatch(a) \/ GetApproval(a) \/ CheckState(a) \/ SaveDecision(a)
             \/ AppendApprovalRecorded(a) \/ ApproverCrash(a)
    BY <1>2, BookkeepingCalls
       DEF Resume, ResumeGetRun, ResumeGetCheckpoint, AppendMismatch, GetApproval,
           CheckState, SaveDecision, AppendApprovalRecorded, ApproverCrash
  <1>3. CASE RequestAgent(a)
    BY <1>3 DEF RequestAgent, Bookkeeping
  <1>4. CASE RequestTransitionRun(a)
    BY <1>4, TransitionMoves
       DEF RequestTransitionRun, WorkflowState, TERMINAL_WORKFLOW_STATES
  <1>5. CASE PersistRequestFailure(a)
    <2>1. arun[a].state = "AWAITING_APPROVAL" /\ afail[a] \in RequestFailures
      BY <1>5 DEF PersistRequestFailure, ApproverHolds
    <2>2. workflow_state_for_failure(afail[a]) # "RECOVERY_REQUIRED"
      BY <2>1 DEF RequestFailures, workflow_state_for_failure
    <2> QED
      BY <1>5, <2>1, <2>2, TransitionMoves, FailureStates
         DEF PersistRequestFailure, Closing
  <1>6. CASE CreateApproval(a)
    BY <1>6 DEF CreateApproval, create_approval, Write, Bookkeeping, DecisionStored
  <1>7. CASE TransitionToDecision(a)
    BY <1>7, TransitionMoves
       DEF TransitionToDecision, target_state, WorkflowState, TERMINAL_WORKFLOW_STATES,
           Closing
  <1> QED
    BY <1>1, <1>2, <1>3, <1>4, <1>5, <1>6, <1>7 DEF ApproverStep

\* What any step does to the records.
LEMMA NextRecords == TypeOK /\ CallsHold /\ [Next]_vars => RecordStep
  <1> SUFFICES ASSUME TypeOK, CallsHold, [Next]_vars PROVE RecordStep
    OBVIOUS
  <1> USE DEF CallsHold
  <1>1. CASE \E e \in Executors : ExecutorNext(e)
    BY <1>1, ExecutorRecords DEF ExecutorNext
  <1>2. CASE \E v \in Verifiers : VerifierNext(v)
    BY <1>2, VerifierRecords DEF VerifierNext, Observers
  <1>3. CASE \E r \in Recoverers : RecovererNext(r)
    BY <1>3, VerifierRecords, RecovererRecords DEF RecovererNext, Observers
  <1>4. CASE \E a \in Approvers : ApproverNext(a)
    BY <1>4, ApproverRecords DEF ApproverNext
  <1>5. CASE EnvironmentNext
    BY <1>5, BookkeepingCalls
       DEF EnvironmentNext, CloudNext, InstanceStops, InstanceDrifts, OperatorVeto,
           LeaseExpires, Bookkeeping, RecordStep
  <1>6. CASE UNCHANGED vars
    BY <1>6, BookkeepingCalls DEF vars, RecordStep
  <1> QED
    BY <1>1, <1>2, <1>3, <1>4, <1>5, <1>6 DEF Next

-----------------------------------------------------------------------------
(***************************************************************************)
(* What is decided stays decided.                                          *)
(***************************************************************************)

\* A terminal run, the decision, a resolved claim, the acknowledgement and the
\* evidence are never changed again: whatever read, write, retry or race comes
\* after, the conditional writes of the repository and the table refuse it.
THEOREM DecisionsAreFinal == Spec => DecidedStaysDecided
  <1> DEFINE Decided ==
        /\ run.state \in TERMINAL_WORKFLOW_STATES => run' = run
        /\ approval # NoApproval => approval' = approval
        /\ idem.status \notin {"none", "REGISTERED"} => idem' = idem
        /\ idem.ack # None => idem'.ack = idem.ack
        /\ evidence # NoEvidence => evidence' = evidence
  <1>1. ASSUME TypeOK, RecordStep PROVE Decided
    <2>0. /\ run.state \in WorkflowState /\ idem \in Idempotency
          /\ \A s \in TERMINAL_WORKFLOW_STATES : ALLOWED_WORKFLOW_TRANSITIONS[s] = {}
      BY <1>1 DEF TypeOK, DurableTypeOK, Run, ALLOWED_WORKFLOW_TRANSITIONS,
                  WorkflowState, TERMINAL_WORKFLOW_STATES
    <2>1. CASE Bookkeeping \/ DecisionStored
      BY <2>1 DEF Bookkeeping, DecisionStored
    <2>2. CASE RunMoved
      BY <2>0, <2>2 DEF RunMoved
    <2>3. CASE ClaimRegistered
      BY <2>0, <2>3 DEF ClaimRegistered, Idempotency
    <2>4. CASE ClaimResolved
      BY <2>4 DEF ClaimResolved
    <2>5. CASE AckStored
      BY <2>0, <2>5 DEF AckStored, Idempotency
    <2>6. CASE EvidenceStored
      BY <2>6 DEF EvidenceStored
    <2> QED
      BY <1>1, <2>1, <2>2, <2>3, <2>4, <2>5, <2>6 DEF RecordStep
  <1>2. TypeOK /\ CallsHold /\ [Next]_vars => [Decided]_vars
    BY <1>1, NextRecords
  <1> HIDE DEF Decided
  <1>3. Spec => [][Decided]_vars
    BY <1>2, TypeCorrect, AlwaysCallsHold, PTL DEF Spec
  <1> QED
    BY <1>3 DEF DecidedStaysDecided, Decided

-----------------------------------------------------------------------------
(***************************************************************************)
(* The decision governs the run, and a stop is authorised by it.           *)
(***************************************************************************)

\* The inductive form of DecisionGoverns: a run that needs recovery was approved
\* too, and the decision of a stored approval is one of the two.
Governed ==
    /\ run.state \in {"APPROVED", "EXECUTING", "VERIFYING", "RECOVERY_REQUIRED",
                      "SUCCESS_WITH_EVIDENCE"} => approval.decision = "APPROVED"
    /\ run.state = "DENIED_BY_HUMAN" => approval.decision = "DENIED"

\* What a call that has claimed the execution, or is about to, relies on.
Authorised ==
    /\ \A e \in Executors :
         /\ xpc[e] \in {"load", "claim"} => idem.status # "none"
         /\ MaySend(e) => approval.decision = "APPROVED" /\ idem.status # "none"
         /\ xpc[e] \in InExecutor \/ inflight[e] # "none" => "EXECUTION_REQUESTED" \in audit
    /\ StopIsAuthorised

\* Every step keeps the decision in charge of the run.
LEMMA RecordsGoverned ==
    ASSUME TypeOK, Governed, RecordStep
    PROVE  Governed'
  <1>0. run.state \in WorkflowState /\ idem \in Idempotency
    BY DEF TypeOK, DurableTypeOK, Run
  <1>1. CASE \/ Bookkeeping \/ ClaimRegistered \/ ClaimResolved \/ AckStored
             \/ EvidenceStored
    BY <1>1 DEF Bookkeeping, ClaimRegistered, ClaimResolved, AckStored, EvidenceStored,
                Governed
  <1>2. CASE DecisionStored
    BY <1>2 DEF DecisionStored, NoApproval, Governed
  <1>3. CASE RunMoved
    <2>1. /\ run'.state = "EXECUTING" => run.state = "APPROVED"
          /\ run'.state = "VERIFYING" => run.state \in {"EXECUTING", "RECOVERY_REQUIRED"}
          /\ run'.state = "SUCCESS_WITH_EVIDENCE" => run.state = "VERIFYING"
      BY <1>0, <1>3 DEF RunMoved, ALLOWED_WORKFLOW_TRANSITIONS, WorkflowState,
                        TERMINAL_WORKFLOW_STATES, COMMON_FAILURES
    <2> QED
      BY <1>3, <2>1 DEF RunMoved, DecisionProven, Governed
  <1> QED
    BY <1>1, <1>2, <1>3 DEF RecordStep

\* Before the decision a claim cannot be registered, and after it neither the
\* decision nor the claim goes away.
LEMMA Kept ==
    ASSUME TypeOK, RecordStep
    PROVE  /\ approval.decision = "APPROVED" => approval'.decision = "APPROVED"
           /\ idem.status # "none" => idem'.status # "none"
           /\ audit \subseteq audit'
  <1>0. idem \in Idempotency
    BY DEF TypeOK, DurableTypeOK
  <1>1. CASE Bookkeeping \/ RunMoved \/ EvidenceStored
    BY <1>1 DEF Bookkeeping, RunMoved, EvidenceStored
  <1>2. CASE DecisionStored
    BY <1>2 DEF DecisionStored, NoApproval
  <1>3. CASE ClaimRegistered \/ AckStored
    BY <1>0, <1>3 DEF ClaimRegistered, AckStored, Idempotency
  <1>4. CASE ClaimResolved
    BY <1>4 DEF ClaimResolved
  <1> QED
    BY <1>1, <1>2, <1>3, <1>4 DEF RecordStep

\* The control point execute() reaches after any repository call.
LEMMA ThenAny ==
    ASSUME RemediationTypeOK, NEW e \in Executors, NEW res \in Result,
           NEW a, NEW b, NEW c, Then(e, res, a, b, c)
    PROVE  /\ xpc'[e] \in {a, b, c, "raised"}
           /\ res # "ok" => xpc'[e] \in {b, c, "raised"}
  <1>1. xpc'[e] = After(res, a, b, c)
    BY DEF Then, Goto, RemediationTypeOK
  <1>2. /\ After(res, a, b, c) \in {a, b, c, "raised"}
        /\ res # "ok" => After(res, a, b, c) \in {b, c, "raised"}
    BY Zenon DEF After
  <1> QED
    BY <1>1, <1>2

\* Where a step takes an execute() call, and what is stored when it gets there.
LEMMA ExecutorProgress ==
    ASSUME TypeOK, NEW e \in Executors, ExecutorStep(e) \/ ExecutorCrash(e)
    PROVE  /\ xpc'[e] \in {"load", "claim"} =>
                xpc[e] \in {"load", "claim"} \/ idem'.status # "none"
           /\ xpc'[e] \in InExecutor \/ inflight'[e] # "none" =>
                \/ xpc[e] \in InExecutor \/ inflight[e] # "none"
                \/ "EXECUTION_REQUESTED" \in audit'
           /\ stopCalls' # stopCalls => xpc[e] \in InExecutor \/ inflight[e] # "none"
  <1> USE DEF TypeOK
  <1>d. InExecutor = {"describe", "emergency_1", "dry_run", "emergency_2", "stop_instances"}
    BY DEF InExecutor
  <1>1. CASE \/ Execute(e) \/ GetRunAfterAck(e) \/ RequireApproved(e)
             \/ MarkGetRun(e) \/ MarkTransition(e) \/ ToFailed(e) \/ ClaimExecution(e)
    <2>1. xpc'[e] \notin {"load", "claim"} \cup InExecutor
      BY <1>1, <1>d, ThenAny DEF Execute, GetRunAfterAck, RequireApproved, MarkGetRun,
                                 MarkTransition, ToFailed, ClaimExecution
    <2>2. inflight' = inflight /\ stopCalls' = stopCalls
      BY <1>1 DEF Execute, GetRunAfterAck, RequireApproved, MarkGetRun, MarkTransition,
                  ToFailed, ClaimExecution, cloud
    <2> QED
      BY <2>1, <2>2
  <1>2. CASE GetIdempotency(e)
    <2>1. claim_disposition \in {"require_approved", "get_run_ack", "mark", "done"}
      BY Zenon DEF claim_disposition
    <2>2. xpc'[e] \notin {"load", "claim"} \cup InExecutor
      BY <1>2, <1>d, <2>1, ThenAny DEF GetIdempotency
    <2> QED
      BY <1>2, <2>2 DEF GetIdempotency, cloud
  <1>3. CASE RegisterApprovedAction(e)
    <2>1. PICK res \in Result :
            register_idempotency(res) /\ Then(e, res, "load", "mark", "done")
      BY <1>3 DEF RegisterApprovedAction
    <2>2. res = "ok" => idem'.status # "none"
      BY <2>1 DEF register_idempotency, Write, DurableTypeOK, Idempotency
    <2>3. xpc'[e] \in {"load", "mark", "done", "raised"} /\ (res # "ok" => xpc'[e] # "load")
      BY <2>1, ThenAny
    <2> QED
      BY <1>3, <1>d, <2>2, <2>3 DEF RegisterApprovedAction, cloud
  <1>4. CASE LoadExecutionPrerequisites(e)
    <2>1. xpc'[e] \in {"claim", "done", "raised"}
      BY <1>4, ThenAny DEF LoadExecutionPrerequisites
    <2> QED
      BY <1>4, <1>d, <2>1 DEF LoadExecutionPrerequisites, cloud
  <1>5. CASE AppendRequested(e)
    <2>1. PICK res \in Result : /\ append_audit_event("EXECUTION_REQUESTED", res)
                                /\ Then(e, res, "describe", "mark", "done")
      BY <1>5 DEF AppendRequested
    <2>2. res = "ok" => "EXECUTION_REQUESTED" \in audit'
      BY <2>1 DEF append_audit_event
    <2>3. xpc'[e] \in {"describe", "mark", "done", "raised"}
          /\ (res # "ok" => xpc'[e] # "describe")
      BY <2>1, ThenAny
    <2> QED
      BY <1>5, <1>d, <2>2, <2>3 DEF AppendRequested, cloud
  <1>6. CASE \/ InvocationLost(e) \/ Describe(e) \/ FirstEmergencyCheck(e) \/ DryRun(e)
             \/ SecondEmergencyCheck(e) \/ StopInstances(e)
    <2>1. xpc[e] \in InExecutor
      BY <1>6, <1>d DEF InvocationLost, Describe, FirstEmergencyCheck, DryRun,
                        SecondEmergencyCheck, AssertWritesEnabled, StopInstances
    <2>2. xpc'[e] \notin {"load", "claim"}
      BY <1>6 DEF InvocationLost, Describe, FirstEmergencyCheck, DryRun,
                  SecondEmergencyCheck, AssertWritesEnabled, StopInstances, Fail, Goto,
                  RemediationTypeOK
    <2> QED
      BY <2>1, <2>2
  <1>7. CASE LateChecks(e) \/ LateStop(e)
    BY <1>7 DEF LateChecks, LateStop, durable
  <1>8. CASE \/ RecordAcknowledgement(e) \/ ToVerifying(e) \/ AppendAcknowledged(e)
             \/ AppendDenied(e) \/ CompleteFailed(e)
    <2>1. xpc'[e] \notin {"load", "claim"} \cup InExecutor
      BY <1>8, <1>d, ThenAny DEF RecordAcknowledgement, ToVerifying, AppendAcknowledged,
                                 AppendDenied, CompleteFailed
    <2>2. inflight' = inflight /\ stopCalls' = stopCalls
      BY <1>8 DEF RecordAcknowledgement, ToVerifying, AppendAcknowledged, AppendDenied,
                  CompleteFailed, cloud
    <2> QED
      BY <2>1, <2>2
  <1>9. CASE ExecutorCrash(e)
    <2>1. xpc'[e] = "crashed"
      BY <1>9 DEF ExecutorCrash, Goto, RemediationTypeOK
    <2>2. inflight'[e] # "none" => xpc[e] \in InExecutor \/ inflight[e] # "none"
      BY <1>9 DEF ExecutorCrash, LeaveBehind, RemediationTypeOK
    <2> QED
      BY <1>9, <1>d, <2>1, <2>2 DEF ExecutorCrash, cloud
  <1> QED
    BY <1>1, <1>2, <1>3, <1>4, <1>5, <1>6, <1>7, <1>8, <1>9 DEF ExecutorStep

\* Every step of execute() is authorised, and leaves the others so.
LEMMA ExecutorAuthorised ==
    ASSUME TypeOK, OneSender, Governed, Authorised, RecordStep,
           NEW e \in Executors, ExecutorStep(e) \/ ExecutorCrash(e)
    PROVE  Authorised'
  <1> USE DEF TypeOK
  <1>1. ASSUME NEW f \in Executors, f # e
        PROVE  /\ xpc'[f] \in {"load", "claim"} => idem'.status # "none"
               /\ MaySend(f)' => approval'.decision = "APPROVED" /\ idem'.status # "none"
               /\ xpc'[f] \in InExecutor \/ inflight'[f] # "none" =>
                    "EXECUTION_REQUESTED" \in audit'
    BY <1>1, ExecutorFrame, Kept DEF Authorised, MaySend
  <1>2. xpc'[e] \in {"load", "claim"} => idem'.status # "none"
    BY ExecutorProgress, Kept DEF Authorised
  <1>3. xpc'[e] \in InExecutor \/ inflight'[e] # "none" => "EXECUTION_REQUESTED" \in audit'
    BY ExecutorProgress, Kept DEF Authorised
  <1>4. MaySend(e)' => approval'.decision = "APPROVED" /\ idem'.status # "none"
    <2>1. CASE ClaimExecution(e)
      <3>1. PICK res \in Result :
              /\ transition_run("APPROVED", xrun[e].version, "EXECUTING", res)
              /\ Then(e, res, "append_requested", "mark", "done")
        BY <2>1 DEF ClaimExecution
      <3>2. CASE res = "ok"
        <4>1. run.state = "APPROVED"
          BY <3>1, <3>2 DEF transition_run, Write
        <4>2. idem.status # "none"
          BY <2>1 DEF ClaimExecution, Authorised
        <4> QED
          BY <4>1, <4>2, Kept DEF Governed
      <3>3. CASE res # "ok"
        <4>1. xpc'[e] \notin BeforeStop
          BY <3>1, <3>3, ThenAny DEF BeforeStop
        <4>2. inflight[e]' = inflight[e]
          BY <2>1 DEF ClaimExecution
        <4> QED
          BY <4>1, <4>2, Kept DEF MaySend, Authorised
      <3> QED
        BY <3>2, <3>3
    <2>2. CASE StopInstances(e) \/ LateStop(e)
      <3>1. MaySend(e)
        BY <2>2 DEF StopInstances, LateStop, MaySend, BeforeStop
      <3> QED
        BY <3>1, Kept DEF Authorised
    <2>3. CASE ~ClaimExecution(e) /\ ~StopInstances(e) /\ ~LateStop(e)
      <3>1. MaySend(e)' => MaySend(e)
        BY <2>3, ExecutorQuiet DEF Quiet
      <3> QED
        BY <3>1, Kept DEF Authorised
    <2> QED
      BY <2>1, <2>2, <2>3
  <1>5. StopIsAuthorised'
    <2>1. CASE stopCalls' = stopCalls
      BY <2>1, Kept DEF Authorised, StopIsAuthorised
    <2>2. CASE stopCalls' # stopCalls
      <3>1. xpc[e] \in InExecutor \/ inflight[e] # "none"
        BY <2>2, ExecutorProgress
      <3>2. MaySend(e)
        BY <3>1 DEF MaySend, InExecutor, BeforeStop
      <3> QED
        BY <3>1, <3>2, Kept DEF Authorised, StopIsAuthorised
    <2> QED
      BY <2>1, <2>2
  <1> QED
    BY <1>1, <1>2, <1>3, <1>4, <1>5 DEF Authorised

\* Every step keeps what the senders and the history rest on.
LEMMA NextAuthorised ==
    TypeOK /\ CallsHold /\ OneSender /\ Governed /\ Authorised /\ [Next]_vars => Authorised'
  <1> SUFFICES ASSUME TypeOK, CallsHold, OneSender, Governed, Authorised, [Next]_vars
               PROVE  Authorised'
    OBVIOUS
  <1>0. RecordStep
    BY NextRecords
  <1>1. CASE \E e \in Executors : ExecutorNext(e)
    BY <1>0, <1>1, ExecutorAuthorised DEF ExecutorNext
  <1>2. CASE UNCHANGED <<remediation, stopCalls>>
    BY <1>0, <1>2, Kept DEF remediation, Authorised, StopIsAuthorised, MaySend
  <1>3. CASE \E v \in Verifiers : VerifierNext(v)
    BY <1>2, <1>3, VerifyCloud DEF VerifierNext, cloud
  <1>4. CASE \E r \in Recoverers : RecovererNext(r)
    BY <1>2, <1>4, VerifyCloud, RecoverCloud DEF RecovererNext, cloud
  <1>5. CASE \E a \in Approvers : ApproverNext(a)
    BY <1>2, <1>5, ApproverCloud DEF ApproverNext, cloud
  <1>6. CASE EnvironmentNext
    BY <1>2, <1>6 DEF EnvironmentNext, CloudNext, InstanceStops, InstanceDrifts,
                      OperatorVeto, LeaseExpires, cloud
  <1>7. CASE UNCHANGED vars
    BY <1>2, <1>7 DEF vars, cloud
  <1> QED
    BY <1>1, <1>3, <1>4, <1>5, <1>6, <1>7 DEF Next

\* The decision governs every reachable run.
LEMMA AlwaysGoverned == Spec => []Governed
  <1>1. Init => Governed
    BY DEF Init, DurableInit, ApprovedInit, ProposedInit, Governed
  <1>2. TypeOK /\ CallsHold /\ Governed /\ [Next]_vars => Governed'
    BY NextRecords, RecordsGoverned
  <1> QED
    BY <1>1, <1>2, TypeCorrect, AlwaysCallsHold, PTL DEF Spec

\* Every sender is authorised in every reachable state.
LEMMA AlwaysAuthorised == Spec => []Authorised
  <1>1. Init => Authorised
    BY DEF Init, CloudInit, RemediationInit, Authorised, StopIsAuthorised, MaySend,
           BeforeStop, InExecutor
  <1> QED
    BY <1>1, NextAuthorised, TypeCorrect, AlwaysCallsHold, SenderIsUnique, AlwaysGoverned,
       PTL DEF Spec

\* Write-before-execute, for any number of racing, crashing and remote calls: a
\* StopInstances request is sent only for a positive durable decision, with the
\* claim registered and the EXECUTION_REQUESTED event stored.
THEOREM StopsAreAuthorised == Spec => []StopIsAuthorised
  <1>1. Authorised => StopIsAuthorised
    BY DEF Authorised
  <1> QED
    BY <1>1, AlwaysAuthorised, PTL

\* The stored human decision governs: a run past AWAITING_APPROVAL was approved,
\* a denied run was denied and nothing was ever sent for it, also when opposite
\* decisions race and calls crash between storing a decision and moving the run.
THEOREM DecisionIsObeyed == Spec => []DecisionGoverns
  <1>1. TypeOK /\ Governed /\ Authorised => DecisionGoverns
    <2> SUFFICES ASSUME TypeOK, Governed, Authorised PROVE DecisionGoverns
      OBVIOUS
    <2>1. run.state = "DENIED_BY_HUMAN" => stopCalls = 0
      BY DEF TypeOK, CloudTypeOK, Governed, Authorised, StopIsAuthorised
    <2> QED
      BY <2>1 DEF Governed, DecisionGoverns
  <1> QED
    BY <1>1, TypeCorrect, AlwaysGoverned, AlwaysAuthorised, PTL

-----------------------------------------------------------------------------
(***************************************************************************)
(* How a run ends: one claim per recovery lease, the operator's veto, the  *)
(* proof behind a success, no claim left open behind a terminal run, and   *)
(* no lost stop booked as a failure.                                       *)
(***************************************************************************)

\* A claim is counted only while its lease lives.
Lease == claims <= 1 /\ (checkpoint.lease # "live" => claims = 0)

\* The calls that store no checkpoint.
LEMMA CheckpointKept ==
    ASSUME NEW res
    PROVE  /\ Read(res) => checkpoint' = checkpoint
           /\ \A f, v, t : transition_run(f, v, t, res) => checkpoint' = checkpoint
           /\ \A type : append_audit_event(type, res) => checkpoint' = checkpoint
           /\ \A s, p : complete_idempotency(s, p, res) => checkpoint' = checkpoint
           /\ \A k : record_execution_acknowledgement(k, res) => checkpoint' = checkpoint
           /\ \A i, o : create_verification_evidence(i, o, res) => checkpoint' = checkpoint
           /\ \A d, s : create_approval(d, s, res) => checkpoint' = checkpoint
           /\ register_idempotency(res) => checkpoint' = checkpoint
           /\ transition_proposal(res) => checkpoint' = checkpoint
           /\ UNCHANGED durable => checkpoint' = checkpoint
  BY DEF Read, transition_run, append_audit_event, complete_idempotency,
         record_execution_acknowledgement, create_verification_evidence, create_approval,
         register_idempotency, transition_proposal, records, durable

\* execute() stores no checkpoint.
LEMMA ExecutorCheckpoint ==
    ASSUME NEW e, ExecutorStep(e) \/ ExecutorCrash(e)
    PROVE  checkpoint' = checkpoint
  BY CheckpointKept
     DEF ExecutorStep, ExecutorCrash, Execute, GetIdempotency, GetRunAfterAck,
         RequireApproved, RegisterApprovedAction, LoadExecutionPrerequisites,
         ClaimExecution, AppendRequested, InvocationLost, Describe, FirstEmergencyCheck,
         DryRun, SecondEmergencyCheck, AssertWritesEnabled, StopInstances, LateChecks,
         LateStop, RecordAcknowledgement, ToVerifying, AppendAcknowledged, AppendDenied,
         CompleteFailed, ToFailed, MarkGetRun, MarkTransition

\* verify() stores no checkpoint.
LEMMA VerifierCheckpoint ==
    ASSUME NEW w, VerifyStep(w) \/ Verify(w) \/ VerifierCrash(w)
    PROVE  checkpoint' = checkpoint
  BY CheckpointKept
     DEF VerifyStep, Verify, VerifierCrash, VerifyGetRun, VerifyGetIdempotency,
         VerifyAppendStarted, Observe, AppendObserved, CreateEvidence, CompleteSucceeded,
         GetExistingEvidence, AppendRecorded, ToSuccess, ReconcileSuccess, FailComplete,
         FailTransition, VerifyMarkGetRun, VerifyMarkTransition

\* An approval call that replaces the checkpoint keeps its lease.
LEMMA ApproverLease ==
    ASSUME TypeOK, NEW a \in Approvers, ApproverStep(a) \/ ApproverCrash(a)
    PROVE  checkpoint'.lease = checkpoint.lease
  <1> USE DEF TypeOK, ApprovalTypeOK, DurableTypeOK
  <1>1. CASE SaveInterrupt(a)
    BY <1>1 DEF SaveInterrupt, save_checkpoint, Write, Checkpoint
  <1>2. CASE SaveDecision(a)
    BY <1>2 DEF SaveDecision, save_checkpoint, Write, Checkpoint
  <1>3. CASE ~SaveInterrupt(a) /\ ~SaveDecision(a)
    BY <1>3, CheckpointKept
       DEF ApproverStep, ApproverCrash, Request, RequestGetRun, RequestGetCheckpoint,
           RequestTransitionProposal, RequestTransitionRun, RequestAgent,
           RequestAuditFailure, PersistRequestFailure, AppendApprovalRequested, Resume,
           ResumeGetRun, ResumeGetCheckpoint, AppendMismatch, GetApproval, CreateApproval,
           CheckState, TransitionToDecision, AppendApprovalRecorded
  <1> QED
    BY <1>1, <1>2, <1>3

\* recover() stores a checkpoint only to claim a window that is free.
LEMMA RecovererLease ==
    ASSUME TypeOK, Lease, NEW r \in Recoverers, RecoverStep(r) \/ RecovererCrash(r)
    PROVE  Lease'
  <1> USE DEF TypeOK, DurableTypeOK, RecoveryTypeOK
  <1>1. CASE ClaimActiveRecovery(r)
    <2>1. CASE checkpoint' = checkpoint
      BY <1>1, <2>1 DEF ClaimActiveRecovery, Lease
    <2>2. CASE checkpoint' # checkpoint
      <3>1. /\ snap[r].checkpoint.version = checkpoint.version => checkpoint.lease # "live"
            /\ claims' = claims + 1
            /\ \E res \in Result :
                 save_checkpoint(snap[r].checkpoint,
                                 [snap[r].checkpoint EXCEPT !.lease = "live"], res)
        BY <1>1, <2>2 DEF ClaimActiveRecovery, durable
      <3>2. snap[r].checkpoint \in Checkpoint
        BY DEF Snapshot
      <3>3. /\ checkpoint.version = snap[r].checkpoint.version
            /\ checkpoint'.lease = "live"
        BY <2>2, <3>1, <3>2 DEF save_checkpoint, Write, Checkpoint
      <3>4. claims = 0
        BY <3>1, <3>3 DEF Lease
      <3> QED
        BY <3>1, <3>3, <3>4 DEF Lease
    <2> QED
      BY <2>1, <2>2
  <1>2. CASE ~ClaimActiveRecovery(r)
    <2>1. checkpoint' = checkpoint
      BY <1>2, CheckpointKept
         DEF RecoverStep, RecovererCrash, Recover, LoadSnapshot, Load, Dispatch,
             ReconstructApproval, VerifiedToVerifying, VerifiedToSuccess,
             ResumeFromDurableAck, Transition, ContinuationNotConfigured, CallVerify,
             VerifyReturns, ReadBack, AppendReadBack, ReadBackToVerifying,
             RecoveryCreateEvidence, RecoveryComplete, RecoveryAppendCompleted,
             RecoveryToSuccess, RecoveryMarkGetRun, RecoveryMarkTransition, Outcome
    <2>2. claims' = claims
      BY <1>2
         DEF RecoverStep, RecovererCrash, Recover, LoadSnapshot, Load, Dispatch,
             ReconstructApproval, VerifiedToVerifying, VerifiedToSuccess,
             ResumeFromDurableAck, Transition, ContinuationNotConfigured, CallVerify,
             VerifyReturns, ReadBack, AppendReadBack, ReadBackToVerifying,
             RecoveryCreateEvidence, RecoveryComplete, RecoveryAppendCompleted,
             RecoveryToSuccess, RecoveryMarkGetRun, RecoveryMarkTransition, Outcome
    <2> QED
      BY <2>1, <2>2 DEF Lease
  <1> QED
    BY <1>1, <1>2

\* Every step keeps the count of claims tied to the lease.
LEMMA NextLease == TypeOK /\ Lease /\ [Next]_vars => Lease'
  <1> SUFFICES ASSUME TypeOK, Lease, [Next]_vars PROVE Lease'
    OBVIOUS
  <1>1. CASE checkpoint'.lease = checkpoint.lease /\ claims' = claims
    BY <1>1 DEF Lease
  <1>2. CASE \E e \in Executors : ExecutorNext(e)
    BY <1>1, <1>2, ExecutorCheckpoint DEF ExecutorNext, recovery
  <1>3. CASE \E v \in Verifiers : VerifierNext(v)
    BY <1>1, <1>3, VerifierCheckpoint DEF VerifierNext, recovery
  <1>4. CASE \E r \in Recoverers : RecovererNext(r)
    BY <1>1, <1>4, RecovererLease, VerifierCheckpoint DEF RecovererNext, recovery
  <1>5. CASE \E a \in Approvers : ApproverNext(a)
    BY <1>1, <1>5, ApproverLease DEF ApproverNext, recovery
  <1>6. CASE EnvironmentNext
    <2>1. CASE LeaseExpires
      BY <2>1 DEF LeaseExpires, Lease
    <2> QED
      BY <1>1, <1>6, <2>1 DEF EnvironmentNext, CloudNext, InstanceStops, InstanceDrifts,
                         OperatorVeto, durable, recovery
  <1>7. CASE UNCHANGED vars
    BY <1>1, <1>7 DEF vars, durable, recovery
  <1> QED
    BY <1>2, <1>3, <1>4, <1>5, <1>6, <1>7 DEF Next

\* However many recover() calls read the same snapshot, one of them at most
\* stores its claim before the lease ends: the claim is conditional on the
\* version the snapshot carries, and storing it makes every such snapshot stale.
THEOREM OneOwnerPerLease == Spec => []OneClaimPerLease
  <1>1. Init => Lease
    BY DEF Init, RecoveryInit, Lease
  <1>2. Lease => OneClaimPerLease
    BY DEF Lease, OneClaimPerLease
  <1> QED
    BY <1>1, <1>2, NextLease, TypeCorrect, PTL DEF Spec

-----------------------------------------------------------------------------
(* The emergency veto *)

\* A call reaches the point of sending through a check of the veto, and sends
\* from nowhere else.
LEMMA ExecutorVeto ==
    ASSUME TypeOK, ~writesEnabled, NEW e \in Executors,
           ExecutorStep(e) \/ ExecutorCrash(e)
    PROVE  /\ Sending(e)' => Sending(e)
           /\ stopCalls' # stopCalls => Sending(e)
  <1> USE DEF TypeOK, RemediationTypeOK
  <1>1. stopCalls' # stopCalls => Sending(e)
    BY DEF ExecutorStep, ExecutorCrash, Execute, GetIdempotency, GetRunAfterAck,
           RequireApproved, RegisterApprovedAction, LoadExecutionPrerequisites,
           ClaimExecution, AppendRequested, InvocationLost, Describe, FirstEmergencyCheck,
           DryRun, SecondEmergencyCheck, AssertWritesEnabled, StopInstances, LateChecks,
           LateStop, RecordAcknowledgement, ToVerifying, AppendAcknowledged, AppendDenied,
           CompleteFailed, ToFailed, MarkGetRun, MarkTransition, cloud, Sending
  <1>2. inflight'[e] = "sending" => Sending(e)
    BY DEF ExecutorStep, ExecutorCrash, Execute, GetIdempotency, GetRunAfterAck,
           RequireApproved, RegisterApprovedAction, LoadExecutionPrerequisites,
           ClaimExecution, AppendRequested, InvocationLost, LeaveBehind, Describe,
           FirstEmergencyCheck, DryRun, SecondEmergencyCheck, AssertWritesEnabled,
           StopInstances, LateChecks, LateStop, RecordAcknowledgement, ToVerifying,
           AppendAcknowledged, AppendDenied, CompleteFailed, ToFailed, MarkGetRun,
           MarkTransition, Sending
  <1>3. xpc'[e] = "stop_instances" => Sending(e)
    <2>1. CASE \/ Execute(e) \/ GetRunAfterAck(e) \/ RequireApproved(e)
               \/ RegisterApprovedAction(e) \/ LoadExecutionPrerequisites(e)
               \/ ClaimExecution(e) \/ AppendRequested(e) \/ MarkGetRun(e)
               \/ MarkTransition(e) \/ ToFailed(e) \/ CompleteFailed(e)
               \/ RecordAcknowledgement(e) \/ ToVerifying(e) \/ AppendAcknowledged(e)
               \/ AppendDenied(e)
      BY <2>1, ThenAny
         DEF Execute, GetRunAfterAck, RequireApproved, RegisterApprovedAction,
             LoadExecutionPrerequisites, ClaimExecution, AppendRequested, MarkGetRun,
             MarkTransition, ToFailed, CompleteFailed, RecordAcknowledgement, ToVerifying,
             AppendAcknowledged, AppendDenied
    <2>2. CASE GetIdempotency(e)
      <3>1. claim_disposition \in {"require_approved", "get_run_ack", "mark", "done"}
        BY Zenon DEF claim_disposition
      <3> QED
        BY <2>2, <3>1, ThenAny DEF GetIdempotency
    <2>3. CASE \/ InvocationLost(e) \/ Describe(e) \/ FirstEmergencyCheck(e) \/ DryRun(e)
               \/ SecondEmergencyCheck(e) \/ StopInstances(e) \/ LateChecks(e)
               \/ LateStop(e) \/ ExecutorCrash(e)
      BY <2>3 DEF InvocationLost, Describe, FirstEmergencyCheck, DryRun,
                  SecondEmergencyCheck, AssertWritesEnabled, StopInstances, LateChecks,
                  LateStop, ExecutorCrash, Fail, Goto, Sending
    <2> QED
      BY <2>1, <2>2, <2>3 DEF ExecutorStep
  <1> QED
    BY <1>1, <1>2, <1>3 DEF Sending

\* The operator's veto holds from the moment it is raised: only a call already
\* past its second check, or the remote function it left there, may still send.
THEOREM VetoIsHonoured == Spec => VetoHonoured
  <1> DEFINE Honoured ==
        ~writesEnabled =>
          /\ \A e \in Executors : Sending(e)' => Sending(e)
          /\ stopCalls' # stopCalls => \E e \in Executors : Sending(e)
  <1>1. TypeOK /\ [Next]_vars => [Honoured]_vars
    <2> SUFFICES ASSUME TypeOK, [Next]_vars, ~writesEnabled PROVE Honoured
      OBVIOUS
    <2>1. CASE UNCHANGED <<remediation, stopCalls>>
      BY <2>1 DEF remediation, Sending
    <2>2. CASE \E e \in Executors : ExecutorNext(e)
      <3>1. PICK e \in Executors : ExecutorNext(e)
        BY <2>2
      <3>2. ASSUME NEW f \in Executors, f # e PROVE Sending(f)' => Sending(f)
        BY <3>1, <3>2, ExecutorFrame DEF ExecutorNext, Sending, TypeOK
      <3> QED
        BY <3>1, <3>2, ExecutorVeto DEF ExecutorNext
    <2>3. CASE \E v \in Verifiers : VerifierNext(v)
      BY <2>1, <2>3, VerifyCloud DEF VerifierNext, cloud
    <2>4. CASE \E r \in Recoverers : RecovererNext(r)
      BY <2>1, <2>4, VerifyCloud, RecoverCloud DEF RecovererNext, cloud
    <2>5. CASE \E a \in Approvers : ApproverNext(a)
      BY <2>1, <2>5, ApproverCloud DEF ApproverNext, cloud
    <2>6. CASE EnvironmentNext
      BY <2>1, <2>6 DEF EnvironmentNext, CloudNext, InstanceStops, InstanceDrifts,
                        OperatorVeto, LeaseExpires, cloud
    <2>7. CASE UNCHANGED vars
      BY <2>1, <2>7 DEF vars, cloud
    <2> QED
      BY <2>2, <2>3, <2>4, <2>5, <2>6, <2>7 DEF Next
  <1> QED
    BY <1>1, TypeCorrect, PTL DEF Spec, VetoHonoured

-----------------------------------------------------------------------------
(***************************************************************************)
(* The end of an execution: who owns it, who resolved the claim, and what  *)
(* an acknowledgement means.                                               *)
(***************************************************************************)

Resolved == idem.status \notin {"none", "REGISTERED"}

\* From winning the run until the last durable write; or left behind the Lambda.
Owner(e) == xpc[e] \in BeforeStop \cup AfterStop \/ inflight[e] # "none"

\* How execute() gets to the points where something is booked.
ExecutorFlow(e) ==
    /\ xpc'[e] = "to_failed" => xpc[e] = "to_failed" \/ Resolved'
    /\ xpc'[e] = "record_ack" =>
         \/ xpc[e] = "record_ack"
         \/ /\ xpc[e] = "stop_instances"
            /\ stopCalls' = stopCalls + 1 /\ ambiguous' = ambiguous
    /\ xpc'[e] \in {"append_denied", "complete_failed"} =>
         \/ /\ xpc[e] \in {"append_denied", "complete_failed"}
            /\ xfail'[e] = xfail[e]
         \/ xpc[e] \in InExecutor
    /\ Owner(e)' => Owner(e) \/ ClaimExecution(e)
    /\ stopCalls' # stopCalls => stopCalls' = stopCalls + 1 /\ MaySend(e)
    /\ ambiguous' # ambiguous => stopCalls' = stopCalls + 1
    /\ stopCalls' # stopCalls => UNCHANGED <<run, idem, evidence>>

\* Every step of execute() goes that way.
LEMMA ExecutorFlows ==
    ASSUME TypeOK, NEW e \in Executors, ExecutorStep(e) \/ ExecutorCrash(e)
    PROVE  ExecutorFlow(e)
  <1> USE DEF TypeOK
  <1>s. BeforeStop \cup AfterStop =
          {"append_requested", "describe", "emergency_1", "dry_run", "emergency_2",
           "stop_instances", "record_ack", "to_verifying", "append_acknowledged",
           "append_denied", "complete_failed", "to_failed"}
    BY DEF BeforeStop, AfterStop
  <1>i. InExecutor = {"describe", "emergency_1", "dry_run", "emergency_2", "stop_instances"}
    BY DEF InExecutor
  <1>1. CASE \/ Execute(e) \/ GetIdempotency(e) \/ GetRunAfterAck(e) \/ RequireApproved(e)
             \/ RegisterApprovedAction(e) \/ LoadExecutionPrerequisites(e)
             \/ MarkGetRun(e) \/ MarkTransition(e) \/ ToFailed(e)
    <2>1. claim_disposition \in {"require_approved", "get_run_ack", "mark", "done"}
      BY Zenon DEF claim_disposition
    <2>2. xpc'[e] \notin BeforeStop \cup AfterStop
      BY <1>1, <1>s, <2>1, ThenAny
         DEF Execute, GetIdempotency, GetRunAfterAck, RequireApproved,
             RegisterApprovedAction, LoadExecutionPrerequisites, MarkGetRun,
             MarkTransition, ToFailed
    <2>3. UNCHANGED <<inflight, stopCalls, ambiguous>>
      BY <1>1
         DEF Execute, GetIdempotency, GetRunAfterAck, RequireApproved,
             RegisterApprovedAction, LoadExecutionPrerequisites, MarkGetRun,
             MarkTransition, ToFailed, cloud
    <2> QED
      BY <1>s, <2>2, <2>3 DEF ExecutorFlow, Owner
  <1>2. CASE ClaimExecution(e)
    <2>1. xpc'[e] \in {"append_requested", "mark", "done", "raised"}
      BY <1>2, ThenAny DEF ClaimExecution
    <2> QED
      BY <1>2, <2>1 DEF ClaimExecution, ExecutorFlow, cloud
  <1>3. CASE \/ AppendRequested(e) \/ RecordAcknowledgement(e) \/ ToVerifying(e)
             \/ AppendAcknowledged(e) \/ AppendDenied(e)
    <2>1. /\ xpc'[e] \in {"describe", "to_verifying", "append_acknowledged", "mark", "done",
                          "raised", "complete_failed"}
          /\ xpc'[e] = "complete_failed" => xpc[e] = "append_denied"
      BY <1>3, ThenAny DEF AppendRequested, RecordAcknowledgement, ToVerifying,
                           AppendAcknowledged, AppendDenied
    <2>2. UNCHANGED <<inflight, xfail, stopCalls, ambiguous>>
      BY <1>3 DEF AppendRequested, RecordAcknowledgement, ToVerifying,
                  AppendAcknowledged, AppendDenied, cloud
    <2>3. Owner(e)
      BY <1>3, <1>s DEF AppendRequested, RecordAcknowledgement, ToVerifying,
                        AppendAcknowledged, AppendDenied, Owner
    <2> QED
      BY <2>1, <2>2, <2>3 DEF ExecutorFlow
  <1>4. CASE CompleteFailed(e)
    <2>1. PICK res \in Result :
            /\ complete_idempotency(IF xfail[e] = "RECOVERY_REQUIREMENT"
                                    THEN "RECONCILIATION_REQUIRED" ELSE "FAILED",
                                    None, res)
            /\ Then(e, res, "to_failed", "done", "done")
      BY <1>4 DEF CompleteFailed
    <2>2. res = "ok" => Resolved'
      BY <2>1 DEF complete_idempotency, Write, Resolved
    <2>3. xpc'[e] \in {"to_failed", "done", "raised"} /\ (res # "ok" => xpc'[e] # "to_failed")
      BY <2>1, ThenAny
    <2>4. UNCHANGED <<inflight, stopCalls, ambiguous>> /\ Owner(e)
      BY <1>4, <1>s DEF CompleteFailed, cloud, Owner
    <2> QED
      BY <2>2, <2>3, <2>4 DEF ExecutorFlow
  <1>5. CASE \/ InvocationLost(e) \/ Describe(e) \/ FirstEmergencyCheck(e) \/ DryRun(e)
             \/ SecondEmergencyCheck(e)
    <2>1. xpc[e] \in InExecutor
      BY <1>5, <1>i DEF InvocationLost, Describe, FirstEmergencyCheck, DryRun,
                        SecondEmergencyCheck, AssertWritesEnabled
    <2>2. xpc'[e] \notin {"to_failed", "record_ack"}
      BY <1>5 DEF InvocationLost, Describe, FirstEmergencyCheck, DryRun,
                  SecondEmergencyCheck, AssertWritesEnabled, Fail, Goto, RemediationTypeOK
    <2>3. UNCHANGED <<stopCalls, ambiguous>>
      BY <1>5 DEF InvocationLost, Describe, FirstEmergencyCheck, DryRun,
                  SecondEmergencyCheck, AssertWritesEnabled, cloud
    <2> QED
      BY <1>i, <1>s, <2>1, <2>2, <2>3 DEF ExecutorFlow, Owner
  <1>6. CASE StopInstances(e)
    <2>1. xpc[e] = "stop_instances" /\ stopCalls' = stopCalls + 1
          /\ UNCHANGED <<run, idem, evidence>>
      BY <1>6 DEF StopInstances, durable
    <2>2. /\ xpc'[e] # "to_failed"
          /\ xpc'[e] = "record_ack" => ambiguous' = ambiguous
      BY <1>6 DEF StopInstances, Fail, Goto, RemediationTypeOK
    <2>3. MaySend(e) /\ Owner(e)
      BY <1>s, <2>1 DEF MaySend, Owner, BeforeStop
    <2> QED
      BY <1>i, <2>1, <2>2, <2>3 DEF ExecutorFlow
  <1>7. CASE LateChecks(e) \/ LateStop(e)
    <2>1. MaySend(e) /\ Owner(e) /\ xpc' = xpc /\ xfail' = xfail
      BY <1>7 DEF LateChecks, LateStop, MaySend, Owner
    <2>2. /\ UNCHANGED <<run, idem, evidence>>
          /\ \/ stopCalls' = stopCalls + 1
             \/ UNCHANGED <<stopCalls, ambiguous>>
      BY <1>7 DEF LateChecks, LateStop, durable, cloud
    <2> QED
      BY <1>i, <2>1, <2>2 DEF ExecutorFlow
  <1>8. CASE ExecutorCrash(e)
    <2>1. xpc'[e] = "crashed" /\ UNCHANGED <<stopCalls, ambiguous>>
      BY <1>8 DEF ExecutorCrash, Goto, RemediationTypeOK, cloud
    <2>2. inflight'[e] # "none" => Owner(e)
      BY <1>8, <1>i, <1>s DEF ExecutorCrash, LeaveBehind, RemediationTypeOK, Owner
    <2> QED
      BY <1>s, <2>1, <2>2 DEF ExecutorFlow, Owner
  <1> QED
    BY <1>1, <1>2, <1>3, <1>4, <1>5, <1>6, <1>7, <1>8 DEF ExecutorStep

\* A step either leaves execute() calls and the instance's history alone, or is
\* one of theirs and leaves every other such call alone.
LEMMA ExecutorsOrOthers ==
    ASSUME TypeOK, [Next]_vars
    PROVE  \/ UNCHANGED <<remediation, stopCalls, ambiguous>>
           \/ \E e \in Executors :
                /\ ExecutorFlow(e)
                /\ ExecutorNext(e)
                /\ \A f \in Executors \ {e} : /\ xpc'[f] = xpc[f] /\ xfail'[f] = xfail[f]
                                              /\ inflight'[f] = inflight[f]
  <1>1. CASE \E e \in Executors : ExecutorNext(e)
    <2>1. PICK e \in Executors : ExecutorNext(e)
      BY <1>1
    <2>2. ExecutorFlow(e)
      BY <2>1, ExecutorFlows DEF ExecutorNext
    <2>3. \A f \in Executors \ {e} : /\ xpc'[f] = xpc[f] /\ xfail'[f] = xfail[f]
                                     /\ inflight'[f] = inflight[f]
      BY <2>1, ExecutorFrame DEF ExecutorNext, TypeOK
    <2> QED
      BY <2>1, <2>2, <2>3
  <1>2. CASE \E v \in Verifiers : VerifierNext(v)
    BY <1>2, VerifyCloud DEF VerifierNext, cloud
  <1>3. CASE \E r \in Recoverers : RecovererNext(r)
    BY <1>3, VerifyCloud, RecoverCloud DEF RecovererNext, cloud
  <1>4. CASE \E a \in Approvers : ApproverNext(a)
    BY <1>4, ApproverCloud DEF ApproverNext, cloud
  <1>5. CASE EnvironmentNext
    BY <1>5 DEF EnvironmentNext, CloudNext, InstanceStops, InstanceDrifts,
                OperatorVeto, LeaseExpires, cloud
  <1>6. CASE UNCHANGED vars
    BY <1>6 DEF vars, cloud
  <1> QED
    BY <1>1, <1>2, <1>3, <1>4, <1>5, <1>6 DEF Next

\* What is stored stays stored.
LEMMA StaysStored ==
    ASSUME TypeOK, RecordStep
    PROVE  /\ Resolved => idem' = idem
           /\ idem.ack # None => idem'.ack = idem.ack
           /\ evidence # NoEvidence => evidence' = evidence
  <1>0. None \notin Executors /\ idem \in Idempotency
    BY WorkersAssumption DEF TypeOK, DurableTypeOK
  <1>1. CASE \/ Bookkeeping \/ RunMoved \/ DecisionStored \/ EvidenceStored
    BY <1>1 DEF Bookkeeping, RunMoved, DecisionStored, EvidenceStored
  <1>2. CASE ClaimRegistered \/ AckStored
    BY <1>0, <1>2 DEF ClaimRegistered, AckStored, Idempotency, Resolved
  <1>3. CASE ClaimResolved
    BY <1>3 DEF ClaimResolved, Resolved
  <1> QED
    BY <1>1, <1>2, <1>3 DEF RecordStep

\* One call at most owns the execution, and then the run cannot be claimed.
Owned ==
    /\ \A e, f \in Executors : Owner(e) /\ Owner(f) => e = f
    /\ \A e \in Executors : Owner(e) => run.state \notin Claimable

\* Winning the run is the only way to own the execution.
LEMMA NextOwned == TypeOK /\ Owned /\ [Next]_vars => Owned'
  <1> SUFFICES ASSUME TypeOK, Owned, [Next]_vars PROVE Owned'
    OBVIOUS
  <1>m. TypeOK' /\ RunMoves
    BY NextType
  <1>1. CASE UNCHANGED remediation
    BY <1>1, <1>m, StaysClaimed DEF remediation, Owned, Owner
  <1>2. CASE ~UNCHANGED remediation
    <2>1. PICK e \in Executors :
            /\ ExecutorFlow(e)
            /\ \A f \in Executors \ {e} : xpc'[f] = xpc[f] /\ inflight'[f] = inflight[f]
      BY <1>2, ExecutorsOrOthers
    <2>2. \A f \in Executors \ {e} : Owner(f)' => Owner(f)
      BY <2>1 DEF Owner
    <2>3. CASE ~ClaimExecution(e)
      <3>1. \A f \in Executors : Owner(f)' => Owner(f)
        BY <2>1, <2>2, <2>3 DEF ExecutorFlow
      <3> QED
        BY <3>1, <1>m, StaysClaimed DEF Owned
    <2>4. CASE ClaimExecution(e)
      <3>1. PICK res \in Result :
              /\ transition_run("APPROVED", xrun[e].version, "EXECUTING", res)
              /\ Then(e, res, "append_requested", "mark", "done")
        BY <2>4 DEF ClaimExecution
      <3>2. inflight' = inflight
        BY <2>4 DEF ClaimExecution
      <3>3. CASE res = "ok"
        <4>1. run.state = "APPROVED" /\ run'.state = "EXECUTING"
          BY <3>1, <3>3 DEF transition_run, Write
        <4>2. \A f \in Executors : ~Owner(f)
          BY <4>1 DEF Owned, Claimable
        <4>3. \A f \in Executors : Owner(f)' => f = e
          BY <2>2, <4>2
        <4> QED
          BY <4>1, <4>3 DEF Owned, Claimable
      <3>4. CASE res # "ok"
        <4>1. xpc'[e] \in {"mark", "done", "raised"}
          BY <3>1, <3>4, ThenAny DEF TypeOK
        <4>2. Owner(e)' => Owner(e)
          BY <3>2, <4>1 DEF Owner, BeforeStop, AfterStop
        <4>3. \A f \in Executors : Owner(f)' => Owner(f)
          BY <2>2, <4>2
        <4> QED
          BY <4>3, <1>m, StaysClaimed DEF Owned
      <3> QED
        BY <3>3, <3>4
    <2> QED
      BY <2>3, <2>4
  <1> QED
    BY <1>1, <1>2

\* Ownership is exclusive in every reachable state.
LEMMA AlwaysOwned == Spec => []Owned
  <1>1. Init => Owned
    BY DEF Init, RemediationInit, Owned, Owner, BeforeStop, AfterStop
  <1> QED
    BY <1>1, NextOwned, TypeCorrect, PTL DEF Spec

\* An acknowledgement is stored, or about to be, only for a stop that was sent.
Acknowledged ==
    /\ idem.ack # None => stopCalls = 1
    /\ \A e \in Executors : xpc[e] = "record_ack" => stopCalls = 1
    /\ \A e \in Executors : xpc[e] = "to_failed" => Resolved

\* An acknowledgement follows the one stop, and a resolved claim stays resolved.
LEMMA NextAcknowledged ==
    TypeOK /\ OneSender /\ RecordStep /\ Acknowledged /\ [Next]_vars => Acknowledged'
  <1> SUFFICES ASSUME TypeOK, OneSender, RecordStep, Acknowledged, [Next]_vars
               PROVE  Acknowledged'
    OBVIOUS
  <1>r. Resolved => Resolved'
    BY StaysStored DEF Resolved
  <1>a. idem'.ack # None => idem.ack # None \/ \E e \in Executors : xpc[e] = "record_ack"
    BY DEF RecordStep, Bookkeeping, RunMoved, DecisionStored, EvidenceStored, ClaimRegistered,
           ClaimResolved, AckStored, TypeOK, DurableTypeOK, Idempotency
  <1>1. CASE UNCHANGED <<remediation, stopCalls, ambiguous>>
    BY <1>1, <1>r, <1>a DEF remediation, Acknowledged
  <1>2. CASE ~UNCHANGED <<remediation, stopCalls, ambiguous>>
    <2>1. PICK e \in Executors :
            ExecutorFlow(e) /\ \A f \in Executors \ {e} : xpc'[f] = xpc[f]
      BY <1>2, ExecutorsOrOthers
    <2>2. stopCalls' # stopCalls => stopCalls = 0 /\ stopCalls' = 1
      BY <2>1 DEF ExecutorFlow, OneSender, TypeOK, CloudTypeOK
    <2>3. stopCalls = 1 => stopCalls' = 1
      BY <2>2
    <2>4. idem'.ack # None => stopCalls' = 1
      BY <1>a, <2>3 DEF Acknowledged
    <2>5. \A f \in Executors : xpc'[f] = "record_ack" => stopCalls' = 1
      BY <2>1, <2>2, <2>3 DEF Acknowledged, ExecutorFlow, TypeOK, CloudTypeOK
    <2>6. \A f \in Executors : xpc'[f] = "to_failed" => Resolved'
      BY <2>1, <1>r DEF Acknowledged, ExecutorFlow
    <2> QED
      BY <2>4, <2>5, <2>6 DEF Acknowledged
  <1> QED
    BY <1>1, <1>2

\* Every stored acknowledgement stands for one stop.
LEMMA AlwaysAcknowledged == Spec => []Acknowledged
  <1>1. Init => Acknowledged
    BY DEF Init, DurableInit, NoClaim, RemediationInit, Acknowledged
  <1> QED
    BY <1>1, NextAcknowledged, NextRecords, TypeCorrect, AlwaysCallsHold, SenderIsUnique,
       PTL DEF Spec

-----------------------------------------------------------------------------
(***************************************************************************)
(* What a verify() and a recover() call have seen for themselves when they *)
(* store evidence, complete the claim or give up.                          *)
(***************************************************************************)

\* The control points verify() and recover() reach after a repository call.
LEMMA VThenAny ==
    ASSUME VerificationTypeOK, NEW w \in Observers, NEW res \in Result,
           NEW a, NEW b, NEW c, VThen(w, res, a, b, c)
    PROVE  /\ vpc'[w] \in {a, b, c, "raised"}
           /\ res # "ok" => vpc'[w] \in {b, c, "raised"}
  <1>1. vpc'[w] = After(res, a, b, c)
    BY DEF VThen, VGoto, VerificationTypeOK
  <1>2. /\ After(res, a, b, c) \in {a, b, c, "raised"}
        /\ res # "ok" => After(res, a, b, c) \in {b, c, "raised"}
    BY Zenon DEF After
  <1> QED
    BY <1>1, <1>2

\* The same for recover().
LEMMA RThenAny ==
    ASSUME RecoveryTypeOK, NEW r \in Recoverers, NEW res \in Result,
           NEW a, NEW b, NEW c, RThen(r, res, a, b, c)
    PROVE  /\ rpc'[r] \in {a, b, c, "raised"}
           /\ res # "ok" => rpc'[r] \in {b, c, "raised"}
  <1>1. rpc'[r] = After(res, a, b, c)
    BY DEF RThen, RGoto, RecoveryTypeOK
  <1>2. /\ After(res, a, b, c) \in {a, b, c, "raised"}
        /\ res # "ok" => After(res, a, b, c) \in {b, c, "raised"}
    BY Zenon DEF After
  <1> QED
    BY <1>1, <1>2

Unobserved == {"idle", "get_run", "get_idempotency", "append_started"}
Relying == {"append_started", "observe", "append_observed", "create_evidence",
            "fail_complete"}

\* verify() acts on an acknowledged claim, polls within its budget, stores
\* evidence of its own observation, and closes the run as failed only after the
\* claim was resolved.
VerifierProves(w) ==
    /\ vpc[w] \in Relying => idem.ack # None
    /\ vpc[w] = "fail_transition" => Resolved
    /\ vpc[w] = "create_evidence" => vobs[w] = "stopped"
    /\ vpc[w] = "complete" => evidence.id = w
    /\ vattempt[w] <= MaxAttempts
    /\ vpc[w] = "observe" => vattempt[w] < MaxAttempts
    /\ vpc[w] \in Unobserved => vattempt[w] = 0

\* Every step of a verify() call keeps what the call relies on.
LEMMA VerifierProving ==
    ASSUME TypeOK, RecordStep, NEW w \in Observers, VerifierProves(w),
           VerifyStep(w) \/ Verify(w) \/ VerifierCrash(w)
    PROVE  VerifierProves(w)'
  <1> USE DEF TypeOK
  <1>k. /\ Resolved => Resolved'
        /\ idem.ack # None => idem'.ack # None
    BY StaysStored DEF Resolved
  <1>n. vattempt \in [Observers -> Nat] /\ MaxAttempts \in Nat /\ MaxAttempts > 0
    BY MaxAttemptsAssumption DEF VerificationTypeOK
  <1>p. ASSUME vattempt' = vattempt,
               vpc'[w] \notin Relying \cup Unobserved \cup {"fail_transition", "complete"}
        PROVE  VerifierProves(w)'
    BY <1>n, <1>p DEF VerifierProves, Relying
  <1>s. Relying \cup Unobserved \cup {"fail_transition", "complete"} =
          {"append_started", "observe", "append_observed", "create_evidence",
           "fail_complete", "idle", "get_run", "get_idempotency", "fail_transition",
           "complete"}
    BY DEF Relying, Unobserved
  <1>1. CASE VerifyGetRun(w) \/ Verify(w)
    <2>1. vpc'[w] \in {"get_run", "get_idempotency", "failed", "raised"}
      BY <1>1, VThenAny DEF VerifyGetRun, Verify
    <2>2. vattempt'[w] = 0
      BY <1>1, <1>n DEF VerifyGetRun, Verify, VerifierProves, Unobserved, locals
    <2> QED
      BY <1>n, <2>1, <2>2 DEF VerifierProves, Relying, Unobserved
  <1>2. CASE VerifyGetIdempotency(w)
    <2>1. verify_disposition(w) \in {"reconcile", "get_evidence", "append_started", "failed"}
          /\ (verify_disposition(w) = "append_started" => idem.ack # None)
      BY Zenon DEF verify_disposition
    <2>2. /\ vpc'[w] \in {"reconcile", "get_evidence", "append_started", "failed", "raised"}
          /\ vpc'[w] = "append_started" => idem.ack # None
      BY <1>2, <2>1, VThenAny DEF VerifyGetIdempotency
    <2>3. vattempt'[w] = 0
      BY <1>2, <1>n DEF VerifyGetIdempotency, VerifierProves, Unobserved, locals
    <2> QED
      BY <1>n, <1>k, <2>2, <2>3 DEF VerifierProves, Relying, Unobserved
  <1>3. CASE VerifyAppendStarted(w)
    <2>1. vpc'[w] \in {"observe", "failed", "raised"}
      BY <1>3, VThenAny DEF VerifyAppendStarted
    <2>2. vattempt'[w] = 0 /\ idem.ack # None
      BY <1>3, <1>n DEF VerifyAppendStarted, VerifierProves, Unobserved, Relying, locals
    <2> QED
      BY <1>n, <1>k, <2>1, <2>2 DEF VerifierProves, Relying, Unobserved
  <1>4. CASE Observe(w)
    <2>1. vpc'[w] \in {"append_observed", "fail_complete"}
      BY <1>4 DEF Observe, VGoto, VerificationTypeOK
    <2>2. vattempt'[w] = vattempt[w] + 1 /\ vattempt[w] < MaxAttempts /\ idem.ack # None
      BY <1>4, <1>n DEF Observe, VerifierProves, Relying
    <2> QED
      BY <1>n, <1>k, <2>1, <2>2 DEF VerifierProves, Unobserved
  <1>5. CASE AppendObserved(w)
    <2>1. /\ observation_disposition(w) \in {"create_evidence", "observe", "fail_complete"}
          /\ observation_disposition(w) = "create_evidence" => vobs[w] = "stopped"
          /\ observation_disposition(w) = "observe" => vattempt[w] < MaxAttempts
      BY Zenon DEF observation_disposition
    <2>2. /\ vpc'[w] \in {"create_evidence", "observe", "fail_complete", "mark", "raised"}
          /\ vpc'[w] = "create_evidence" => vobs[w] = "stopped"
          /\ vpc'[w] = "observe" => vattempt[w] < MaxAttempts
      BY <1>5, <2>1, VThenAny DEF AppendObserved
    <2>3. vobs' = vobs /\ vattempt' = vattempt /\ idem.ack # None
      BY <1>5 DEF AppendObserved, VerifierProves, Relying
    <2> QED
      BY <1>k, <2>2, <2>3 DEF VerifierProves, Unobserved
  <1>6. CASE CreateEvidence(w)
    <2>1. PICK res \in Result :
            /\ create_verification_evidence(w, "EXECUTION_ACKNOWLEDGEMENT", res)
            /\ VThen(w, res, "complete", "mark", "mark")
      BY <1>6 DEF CreateEvidence
    <2>2. /\ vpc'[w] \in {"complete", "mark", "raised"}
          /\ vpc'[w] = "complete" => res = "ok"
      BY <2>1, VThenAny
    <2>3. res = "ok" => evidence'.id = w
      BY <2>1 DEF create_verification_evidence, Write
    <2>4. vattempt' = vattempt
      BY <1>6 DEF CreateEvidence, locals
    <2> QED
      BY <1>s, <2>2, <2>3, <2>4 DEF VerifierProves, Relying, Unobserved
  <1>7. CASE \/ CompleteSucceeded(w) \/ GetExistingEvidence(w) \/ AppendRecorded(w)
             \/ ToSuccess(w) \/ ReconcileSuccess(w) \/ FailTransition(w)
             \/ VerifyMarkGetRun(w) \/ VerifyMarkTransition(w)
    <2>1. vpc'[w] \in {"append_recorded", "mark", "failed", "to_success", "succeeded",
                       "mark_transition", "raised"}
      BY <1>7, VThenAny DEF CompleteSucceeded, GetExistingEvidence, AppendRecorded,
                            ToSuccess, ReconcileSuccess, FailTransition, VerifyMarkGetRun,
                            VerifyMarkTransition
    <2>2. vattempt' = vattempt
      BY <1>7 DEF CompleteSucceeded, GetExistingEvidence, AppendRecorded, ToSuccess,
                  ReconcileSuccess, FailTransition, VerifyMarkGetRun, VerifyMarkTransition,
                  locals
    <2> QED
      BY <1>s, <1>p, <2>1, <2>2
  <1>8. CASE FailComplete(w)
    <2>1. PICK res \in Result : /\ complete_idempotency("FAILED", None, res)
                                /\ VThen(w, res, "fail_transition", "mark", "mark")
      BY <1>8 DEF FailComplete
    <2>2. /\ vpc'[w] \in {"fail_transition", "mark", "raised"}
          /\ vpc'[w] = "fail_transition" => res = "ok"
      BY <2>1, VThenAny
    <2>3. res = "ok" => Resolved'
      BY <2>1 DEF complete_idempotency, Write, Resolved
    <2>4. vattempt' = vattempt
      BY <1>8 DEF FailComplete, locals
    <2> QED
      BY <1>s, <2>2, <2>3, <2>4 DEF VerifierProves, Relying, Unobserved
  <1>9. CASE VerifierCrash(w)
    <2>1. vpc'[w] = "crashed" /\ vattempt' = vattempt
      BY <1>9 DEF VerifierCrash, VGoto, VerificationTypeOK, locals
    <2> QED
      BY <1>s, <1>p, <2>1
  <1> QED
    BY <1>1, <1>2, <1>3, <1>4, <1>5, <1>6, <1>7, <1>8, <1>9 DEF VerifyStep

Fresh == Loads \cup {"idle", "dispatch", "reconstruct", "claim", "resume_ack", "verify"}
Gone == {"await_verify", "completed", "deferred", "done", "crashed", "raised"}

\* recover() reads back within its budget, stores evidence of its own read-back,
\* and either reads back itself or has verify() do it, never both.
RecovererProves(r) ==
    /\ rpc[r] \in {"readback_to_verifying", "create_evidence"} => robs[r] = "stopped"
    /\ rpc[r] = "complete" => evidence.id = r
    /\ rattempt[r] <= MaxAttempts
    /\ rpc[r] = "readback" => rattempt[r] < MaxAttempts
    /\ rpc[r] \in Fresh => robs[r] = "none" /\ rattempt[r] = 0
    /\ rpc[r] = "await_verify" => robs[r] = "none"
    /\ vpc[r] # "idle" => rpc[r] \in Gone
    /\ vpc[r] \notin {"idle", "crashed"} => robs[r] = "none"

\* Where a snapshot sends a claimed recovery.
LEMMA ContinuationPoints ==
    ASSUME NEW s
    PROVE  continuation(s) \in {"verify", "resume_ack", "readback"}
  BY Zenon DEF continuation

\* Every step of a recover() call keeps what the call relies on.
LEMMA RecovererProving ==
    ASSUME TypeOK, NEW r \in Recoverers, RecovererProves(r),
           RecoverStep(r) \/ RecovererCrash(r)
    PROVE  RecovererProves(r)'
  <1>o. r \in Observers
    BY DEF Observers
  <1>n. rattempt \in [Recoverers -> Nat] /\ MaxAttempts \in Nat /\ MaxAttempts > 0
    BY MaxAttemptsAssumption DEF TypeOK, RecoveryTypeOK
  <1>f. Fresh = {"load_run", "load_proposal", "load_checkpoint", "load_approval",
                 "load_idempotency", "load_evidence", "idle", "dispatch", "reconstruct",
                 "claim", "resume_ack", "verify"}
    BY DEF Fresh, Loads
  <1>g. Gone = {"await_verify", "completed", "deferred", "done", "crashed", "raised"}
    BY DEF Gone
  \* A step before the first read-back, or by the reconciliation of a stored proof.
  <1>p. ASSUME rpc[r] \in Fresh \cup {"verified_to_verifying", "verified_to_success"},
               UNCHANGED <<robs, rattempt, vpc>>,
               rpc'[r] \in {"load_run", "load_proposal", "load_checkpoint", "load_approval",
                            "load_idempotency", "load_evidence", "dispatch", "reconstruct",
                            "claim", "resume_ack", "verify", "readback", "classified",
                            "completed", "deferred", "done", "raised",
                            "verified_to_verifying", "verified_to_success"},
               rpc'[r] \in Fresh \cup {"readback"} => rpc[r] \in Fresh
        PROVE  RecovererProves(r)'
    <2>1. vpc[r] = "idle"
      BY <1>p, <1>f, <1>g DEF RecovererProves
    <2>2. rpc[r] \in Fresh => robs[r] = "none" /\ rattempt[r] = 0
      BY DEF RecovererProves
    <2> QED
      BY <1>p, <1>n, <1>f, <1>g, <2>1, <2>2 DEF RecovererProves
  \* A step towards the end of the call.
  <1>q. ASSUME UNCHANGED <<robs, rattempt, vpc>>,
               \/ rpc'[r] \in {"completed", "deferred", "done", "raised"}
               \/ /\ rpc[r] \notin Gone
                  /\ rpc'[r] \in {"append_completed", "to_success", "mark", "mark_transition"}
        PROVE  RecovererProves(r)'
    BY <1>q, <1>n, <1>f, <1>g DEF RecovererProves
  <1>1. CASE Recover(r) \/ LoadSnapshot(r)
    <2>1. UNCHANGED <<robs, rattempt, vpc>>
      BY <1>1 DEF Recover, LoadSnapshot, Load, rlocals, verification
    <2>2. rpc[r] \in Fresh
      BY <1>1, <1>f DEF Recover, LoadSnapshot, Load
    <2>3. rpc'[r] \in {"load_run", "load_proposal", "load_checkpoint", "load_approval",
                       "load_idempotency", "load_evidence", "dispatch", "done", "raised"}
      <3>1. CASE Recover(r)
        BY <3>1 DEF Recover, RGoto, TypeOK, RecoveryTypeOK
      <3>2. CASE LoadSnapshot(r)
        BY <3>2, RThenAny DEF LoadSnapshot, Load, TypeOK
      <3> QED
        BY <1>1, <3>1, <3>2
    <2> QED
      BY <1>p, <2>1, <2>2, <2>3
  <1>2. CASE Dispatch(r)
    <2>1. rpc'[r] = recovery_disposition(snap[r]) /\ rpc[r] = "dispatch"
          /\ UNCHANGED <<robs, rattempt, vpc>>
      BY <1>2 DEF Dispatch, RGoto, rlocals, verification, TypeOK, RecoveryTypeOK
    <2> QED
      BY <1>p, <1>f, <2>1, DispositionFits
  <1>3. CASE ReconstructApproval(r)
    <2>1. rpc'[r] \in {"classified", "deferred", "raised"}
      BY <1>3, RThenAny DEF ReconstructApproval, TypeOK
    <2>2. rpc[r] = "reconstruct" /\ UNCHANGED <<robs, rattempt, vpc>>
      BY <1>3 DEF ReconstructApproval, rlocals, verification
    <2> QED
      BY <1>p, <1>f, <2>1, <2>2
  <1>4. CASE ClaimActiveRecovery(r)
    <2>1. rpc'[r] \in {"verify", "resume_ack", "readback", "deferred", "raised"}
      <3>1. CASE RGoto(r, "deferred")
        BY <3>1 DEF RGoto, TypeOK, RecoveryTypeOK
      <3>2. CASE \E res \in Result :
                   RThen(r, res, continuation(snap[r]), "deferred", "deferred")
        BY <3>2, RThenAny, ContinuationPoints DEF TypeOK
      <3> QED
        BY <1>4, <3>1, <3>2 DEF ClaimActiveRecovery
    <2>2. rpc[r] = "claim" /\ UNCHANGED <<robs, rattempt, vpc>>
      BY <1>4 DEF ClaimActiveRecovery, rlocals, verification
    <2> QED
      BY <1>p, <1>f, <2>1, <2>2
  <1>5. CASE VerifiedToVerifying(r) \/ VerifiedToSuccess(r) \/ ResumeFromDurableAck(r)
    <2>1. UNCHANGED <<robs, rattempt, vpc>>
      BY <1>5 DEF VerifiedToVerifying, VerifiedToSuccess, ResumeFromDurableAck, Transition,
                  verification
    <2>2. /\ rpc[r] \in {"verified_to_verifying", "verified_to_success", "resume_ack"}
          /\ rpc'[r] \in {"verified_to_success", "completed", "deferred", "verify", "raised"}
          /\ rpc'[r] = "verify" => rpc[r] = "resume_ack"
      BY <1>5, RThenAny
         DEF VerifiedToVerifying, VerifiedToSuccess, ResumeFromDurableAck, Transition, TypeOK
    <2> QED
      BY <1>p, <1>f, <2>1, <2>2
  <1>6. CASE ContinuationNotConfigured(r) \/ VerifyReturns(r)
    <2>1. verify_outcome(vpc[r]) \in {"completed", "deferred", "raised"}
      BY Zenon DEF verify_outcome
    <2>2. rpc'[r] \in {"completed", "deferred", "raised"}
      BY <1>6, <2>1 DEF ContinuationNotConfigured, VerifyReturns, RGoto, TypeOK,
                        RecoveryTypeOK
    <2>3. UNCHANGED <<robs, rattempt, vpc>>
      BY <1>6 DEF ContinuationNotConfigured, VerifyReturns, rlocals, verification
    <2> QED
      BY <1>q, <2>2, <2>3
  <1>7. CASE CallVerify(r)
    <2>1. rpc[r] = "verify" /\ rpc'[r] = "await_verify" /\ UNCHANGED <<robs, rattempt>>
      BY <1>7 DEF CallVerify, RGoto, rlocals, TypeOK, RecoveryTypeOK
    <2>2. robs[r] = "none"
      BY <1>f, <2>1 DEF RecovererProves
    <2> QED
      BY <1>f, <1>g, <2>1, <2>2 DEF RecovererProves
  <1>8. CASE ReadBack(r)
    <2>1. /\ rpc[r] = "readback" /\ rpc'[r] \in {"append_observed", "mark"}
          /\ rattempt'[r] = rattempt[r] + 1 /\ vpc' = vpc
      BY <1>8, <1>n DEF ReadBack, RGoto, verification, TypeOK, RecoveryTypeOK
    <2>2. vpc[r] = "idle" /\ rattempt[r] < MaxAttempts
      BY <1>g, <2>1 DEF RecovererProves
    <2> QED
      BY <1>n, <1>f, <2>1, <2>2 DEF RecovererProves
  <1>9. CASE AppendReadBack(r)
    <2>1. /\ readback_disposition(r) \in {"readback_to_verifying", "readback", "mark"}
          /\ readback_disposition(r) = "readback_to_verifying" => robs[r] = "stopped"
          /\ readback_disposition(r) = "readback" => rattempt[r] < MaxAttempts
      BY Zenon DEF readback_disposition
    <2>2. /\ rpc'[r] \in {"readback_to_verifying", "readback", "mark", "raised"}
          /\ rpc'[r] = "readback_to_verifying" => robs[r] = "stopped"
          /\ rpc'[r] = "readback" => rattempt[r] < MaxAttempts
      BY <1>9, <2>1, RThenAny DEF AppendReadBack, TypeOK
    <2>3. rpc[r] = "append_observed" /\ UNCHANGED <<robs, rattempt, vpc>>
      BY <1>9 DEF AppendReadBack, verification
    <2> QED
      BY <1>n, <1>f, <1>g, <2>2, <2>3 DEF RecovererProves
  <1>10. CASE ReadBackToVerifying(r)
    <2>1. rpc'[r] \in {"create_evidence", "mark", "raised"}
      BY <1>10, RThenAny DEF ReadBackToVerifying, Transition, TypeOK
    <2>2. rpc[r] = "readback_to_verifying" /\ UNCHANGED <<robs, rattempt, vpc>>
      BY <1>10 DEF ReadBackToVerifying, Transition, verification
    <2> QED
      BY <1>n, <1>f, <1>g, <2>1, <2>2 DEF RecovererProves
  <1>11. CASE RecoveryCreateEvidence(r)
    <2>1. PICK res \in Result : /\ create_verification_evidence(r, "RECOVERY_READ_BACK", res)
                                /\ RThen(r, res, "complete", "mark", "mark")
      BY <1>11 DEF RecoveryCreateEvidence
    <2>2. /\ rpc'[r] \in {"complete", "mark", "raised"}
          /\ rpc'[r] = "complete" => res = "ok"
      BY <2>1, RThenAny DEF TypeOK
    <2>3. res = "ok" => evidence'.id = r
      BY <2>1 DEF create_verification_evidence, Write
    <2>4. rpc[r] = "create_evidence" /\ UNCHANGED <<robs, rattempt, vpc>>
      BY <1>11 DEF RecoveryCreateEvidence, rlocals, verification
    <2> QED
      BY <1>n, <1>f, <1>g, <2>2, <2>3, <2>4 DEF RecovererProves
  <1>12. CASE RecoveryComplete(r) \/ RecoveryAppendCompleted(r) \/ RecoveryToSuccess(r)
    <2>1. rpc'[r] \in {"append_completed", "to_success", "completed", "mark", "raised"}
      BY <1>12, RThenAny DEF RecoveryComplete, RecoveryAppendCompleted, RecoveryToSuccess,
                             Transition, TypeOK
    <2>2. /\ rpc[r] \in {"complete", "append_completed", "to_success"}
          /\ UNCHANGED <<robs, rattempt, vpc>>
      BY <1>12 DEF RecoveryComplete, RecoveryAppendCompleted, RecoveryToSuccess, Transition,
                   rlocals, verification
    <2> QED
      BY <1>q, <1>g, <2>1, <2>2
  <1>13. CASE RecoveryMarkGetRun(r) \/ RecoveryMarkTransition(r)
    <2>1. rend[r] \in {"deferred", "done"}
      BY DEF TypeOK, RecoveryTypeOK
    <2>2. rpc'[r] \in {"mark_transition", "deferred", "done", "raised"}
      <3>1. CASE RGoto(r, rend[r])
        BY <2>1, <3>1 DEF RGoto, TypeOK, RecoveryTypeOK
      <3> QED
        BY <1>13, <2>1, <3>1, RThenAny DEF RecoveryMarkGetRun, RecoveryMarkTransition,
                                           Transition, TypeOK
    <2>3. rpc[r] \in {"mark", "mark_transition"} /\ UNCHANGED <<robs, rattempt, vpc>>
      BY <1>13 DEF RecoveryMarkGetRun, RecoveryMarkTransition, Transition, verification
    <2> QED
      BY <1>q, <1>g, <2>2, <2>3
  <1>14. CASE Outcome(r)
    <2>1. rpc'[r] \in {"done", "raised"}
      BY <1>14, RThenAny DEF Outcome, TypeOK
    <2>2. UNCHANGED <<robs, rattempt, vpc>>
      BY <1>14 DEF Outcome, rlocals, verification
    <2> QED
      BY <1>q, <2>1, <2>2
  <1>15. CASE RecovererCrash(r)
    <2>1. /\ rpc'[r] = "crashed" /\ vpc'[r] = "crashed"
          /\ UNCHANGED <<robs, rattempt>>
      BY <1>15, <1>o DEF RecovererCrash, RGoto, VGoto, rlocals, TypeOK, RecoveryTypeOK,
                         VerificationTypeOK
    <2> QED
      BY <1>f, <1>g, <2>1 DEF RecovererProves
  <1> QED
    BY <1>1, <1>2, <1>3, <1>4, <1>5, <1>6, <1>7, <1>8, <1>9, <1>10, <1>11, <1>12, <1>13,
       <1>14, <1>15
       DEF RecoverStep

\* What recover() does to its own verify() call: it makes it once, and takes it
\* down with itself.
LEMMA RecovererCalls ==
    ASSUME TypeOK, NEW r \in Recoverers, RecoverStep(r) \/ RecovererCrash(r)
    PROVE  /\ UNCHANGED <<vobs, vattempt, vfail, vrun>>
           /\ \A u \in Observers \ {r} : vpc'[u] = vpc[u]
           /\ \/ vpc' = vpc
              \/ rpc[r] = "verify" /\ vpc'[r] = "get_run"
              \/ rpc'[r] = "crashed" /\ vpc'[r] = "crashed"
  <1>o. r \in Observers
    BY DEF Observers
  <1>1. CASE CallVerify(r) \/ RecovererCrash(r)
    BY <1>1, <1>o DEF CallVerify, RecovererCrash, VGoto, RGoto, locals, TypeOK,
                      VerificationTypeOK, RecoveryTypeOK
  <1>2. CASE ~CallVerify(r) /\ ~RecovererCrash(r)
    <2>1. UNCHANGED verification
      BY <1>2
         DEF RecoverStep, Recover, LoadSnapshot, Load, Dispatch,
             ReconstructApproval, ClaimActiveRecovery, VerifiedToVerifying,
             VerifiedToSuccess, ResumeFromDurableAck, Transition,
             ContinuationNotConfigured, VerifyReturns, ReadBack, AppendReadBack,
             ReadBackToVerifying, RecoveryCreateEvidence, RecoveryComplete,
             RecoveryAppendCompleted, RecoveryToSuccess, RecoveryMarkGetRun,
             RecoveryMarkTransition, Outcome
    <2> QED
      BY <2>1 DEF verification
  <1> QED
    BY <1>1, <1>2

\* The call that stored the evidence observed the stopped instance itself, and
\* observes nothing more.
ReadBackKept == {"complete", "append_completed", "to_success", "mark", "mark_transition",
                 "completed", "deferred", "done", "crashed", "raised"}
ObservationKept == {"complete", "append_recorded", "to_success", "mark", "mark_transition",
                    "succeeded", "failed", "crashed", "raised"}

Held(w) ==
    \/ w \in Recoverers /\ robs[w] = "stopped" /\ rpc[w] \in ReadBackKept
    \/ /\ vobs[w] = "stopped" /\ vpc[w] \in ObservationKept
       /\ w \in Recoverers => robs[w] = "none" /\ rpc[w] \in Gone

\* A step of verify() takes nothing from an observation evidence rests on.
LEMMA VerifierKeeps ==
    ASSUME TypeOK, NEW w \in Observers, VerifyStep(w) \/ Verify(w) \/ VerifierCrash(w),
           UNCHANGED recovery, NEW u \in Observers, Held(u)
    PROVE  Held(u)'
  <1>k. ObservationKept = {"complete", "append_recorded", "to_success", "mark",
                           "mark_transition", "succeeded", "failed", "crashed", "raised"}
    BY DEF ObservationKept
  <1>1. CASE u # w
    BY <1>1, VerifierFrame DEF Held, recovery, TypeOK
  <1>2. ASSUME vpc[w] \in ObservationKept
        PROVE  vpc'[w] \in ObservationKept /\ vobs' = vobs
    <2>1. CASE \/ CompleteSucceeded(w) \/ AppendRecorded(w) \/ ToSuccess(w)
               \/ VerifyMarkGetRun(w) \/ VerifyMarkTransition(w)
      BY <2>1, <1>k, VThenAny
         DEF CompleteSucceeded, AppendRecorded, ToSuccess, VerifyMarkGetRun,
             VerifyMarkTransition, locals, TypeOK
    <2>2. CASE VerifierCrash(w)
      BY <2>2, <1>k DEF VerifierCrash, VGoto, locals, TypeOK, VerificationTypeOK
    <2>3. /\ ~VerifyGetRun(w) /\ ~VerifyGetIdempotency(w) /\ ~VerifyAppendStarted(w)
          /\ ~Observe(w) /\ ~AppendObserved(w) /\ ~CreateEvidence(w)
          /\ ~GetExistingEvidence(w) /\ ~ReconcileSuccess(w) /\ ~FailComplete(w)
          /\ ~FailTransition(w) /\ ~Verify(w)
      BY <1>2, <1>k
         DEF VerifyGetRun, VerifyGetIdempotency, VerifyAppendStarted, Observe,
             AppendObserved, CreateEvidence, GetExistingEvidence, ReconcileSuccess,
             FailComplete, FailTransition, Verify
    <2> QED
      BY <2>1, <2>2, <2>3 DEF VerifyStep
  <1>3. CASE u = w
    BY <1>2, <1>3 DEF Held, recovery
  <1> QED
    BY <1>1, <1>3

\* A step of recover() takes nothing from an observation evidence rests on.
LEMMA RecovererKeeps ==
    ASSUME TypeOK, NEW r \in Recoverers, RecoverStep(r) \/ RecovererCrash(r),
           NEW u \in Observers, Held(u)
    PROVE  Held(u)'
  <1>g. Gone = {"await_verify", "completed", "deferred", "done", "crashed", "raised"}
    BY DEF Gone
  <1>k. ReadBackKept = {"complete", "append_completed", "to_success", "mark",
                        "mark_transition", "completed", "deferred", "done", "crashed",
                        "raised"}
    BY DEF ReadBackKept
  <1>1. CASE u # r
    BY <1>1, RecovererFrame, RecovererCalls DEF Held, TypeOK
  <1>2. ASSUME rpc[r] \in ReadBackKept \cup Gone
        PROVE  /\ robs' = robs
               /\ rpc[r] \in ReadBackKept => rpc'[r] \in ReadBackKept
               /\ rpc[r] \in Gone => rpc'[r] \in Gone
    <2>1. CASE RecoveryComplete(r) \/ RecoveryAppendCompleted(r) \/ RecoveryToSuccess(r)
      BY <2>1, <1>g, <1>k, RThenAny
         DEF RecoveryComplete, RecoveryAppendCompleted, RecoveryToSuccess, Transition,
             rlocals, TypeOK
    <2>2. CASE RecoveryMarkGetRun(r) \/ RecoveryMarkTransition(r)
      <3>1. rend[r] \in {"deferred", "done"}
        BY DEF TypeOK, RecoveryTypeOK
      <3>2. rpc'[r] \in {"mark_transition", "deferred", "done", "raised"}
        <4>1. CASE RGoto(r, rend[r])
          BY <3>1, <4>1 DEF RGoto, TypeOK, RecoveryTypeOK
        <4> QED
          BY <2>2, <3>1, <4>1, RThenAny
             DEF RecoveryMarkGetRun, RecoveryMarkTransition, Transition, TypeOK
      <3>3. robs' = robs /\ rpc[r] \in {"mark", "mark_transition"}
        BY <2>2 DEF RecoveryMarkGetRun, RecoveryMarkTransition, Transition
      <3> QED
        BY <1>g, <1>k, <3>2, <3>3
    <2>3. CASE Outcome(r)
      BY <2>3, <1>g, <1>k, RThenAny DEF Outcome, rlocals, TypeOK
    <2>4. CASE VerifyReturns(r)
      <3>1. verify_outcome(vpc[r]) \in {"completed", "deferred", "raised"}
        BY Zenon DEF verify_outcome
      <3> QED
        BY <2>4, <3>1, <1>g, <1>k DEF VerifyReturns, RGoto, rlocals, TypeOK, RecoveryTypeOK
    <2>5. CASE RecovererCrash(r)
      BY <2>5, <1>g, <1>k DEF RecovererCrash, RGoto, rlocals, TypeOK, RecoveryTypeOK
    <2>6. /\ ~Recover(r) /\ ~LoadSnapshot(r) /\ ~Dispatch(r) /\ ~ReconstructApproval(r)
          /\ ~ClaimActiveRecovery(r) /\ ~VerifiedToVerifying(r) /\ ~VerifiedToSuccess(r)
          /\ ~ResumeFromDurableAck(r) /\ ~ContinuationNotConfigured(r) /\ ~CallVerify(r)
          /\ ~ReadBack(r) /\ ~AppendReadBack(r) /\ ~ReadBackToVerifying(r)
          /\ ~RecoveryCreateEvidence(r)
      BY <1>2, <1>g, <1>k
         DEF Recover, LoadSnapshot, Load, Dispatch, ReconstructApproval,
             ClaimActiveRecovery, VerifiedToVerifying, VerifiedToSuccess,
             ResumeFromDurableAck, Transition, ContinuationNotConfigured, CallVerify,
             ReadBack, AppendReadBack, ReadBackToVerifying, RecoveryCreateEvidence
    <2> QED
      BY <2>1, <2>2, <2>3, <2>4, <2>5, <2>6 DEF RecoverStep
  <1>3. CASE u = r
    <2>1. CASE robs[r] = "stopped" /\ rpc[r] \in ReadBackKept
      BY <1>2, <1>3, <2>1 DEF Held
    <2>2. CASE /\ vobs[r] = "stopped" /\ vpc[r] \in ObservationKept
               /\ robs[r] = "none" /\ rpc[r] \in Gone
      <3>1. vpc'[r] \in ObservationKept /\ vobs' = vobs
        BY <2>2, <1>g, RecovererCalls DEF ObservationKept
      <3> QED
        BY <1>2, <1>3, <2>2, <3>1 DEF Held
    <2> QED
      BY <1>3, <2>1, <2>2 DEF Held
  <1> QED
    BY <1>1, <1>3

\* What every call has seen, and who stands behind the evidence.
Proven ==
    /\ \A w \in Observers : VerifierProves(w)
    /\ \A r \in Recoverers : RecovererProves(r)
    /\ evidence # NoEvidence => evidence.id \in Observers /\ Held(evidence.id)

\* A call that does not move keeps what it has proved.
LEMMA StillVerified ==
    ASSUME TypeOK, RecordStep, NEW w \in Observers, VerifierProves(w),
           vpc'[w] = vpc[w], vobs'[w] = vobs[w], vattempt'[w] = vattempt[w]
    PROVE  VerifierProves(w)'
  <1>1. evidence.id = w => evidence' = evidence
    <2>1. w # None
      BY WorkersAssumption DEF Observers
    <2> QED
      BY <2>1, StaysStored DEF NoEvidence
  <1>2. Resolved => Resolved'
    BY StaysStored DEF Resolved
  <1> QED
    BY <1>1, <1>2, StaysStored DEF VerifierProves

\* The same for recover(), also while its verify() call moves.
LEMMA StillRecovered ==
    ASSUME TypeOK, RecordStep, NEW r \in Recoverers, RecovererProves(r),
           rpc'[r] = rpc[r], robs'[r] = robs[r], rattempt'[r] = rattempt[r],
           vpc'[r] # vpc[r] => rpc[r] \in Gone /\ robs[r] = "none"
    PROVE  RecovererProves(r)'
  <1>1. evidence.id = r => evidence' = evidence
    <2>1. r # None
      BY WorkersAssumption
    <2> QED
      BY <2>1, StaysStored DEF NoEvidence
  <1> QED
    BY <1>1 DEF RecovererProves

\* Evidence is stored by a verify() call at that point, or a recover() call.
LEMMA VerifierStores ==
    ASSUME TypeOK, NEW w \in Observers, VerifyStep(w) \/ Verify(w) \/ VerifierCrash(w),
           evidence' # evidence
    PROVE  /\ vpc[w] = "create_evidence" /\ evidence'.id = w
           /\ vpc'[w] \in {"complete", "mark", "raised"} /\ vobs' = vobs
  <1>1. CASE CreateEvidence(w)
    BY <1>1, VThenAny DEF CreateEvidence, create_verification_evidence, Write, locals, TypeOK
  <1>2. CASE ~CreateEvidence(w)
    BY <1>2
       DEF VerifyStep, Verify, VerifierCrash, VerifyGetRun, VerifyGetIdempotency,
           VerifyAppendStarted, Observe, AppendObserved, CompleteSucceeded,
           GetExistingEvidence, AppendRecorded, ToSuccess, ReconcileSuccess, FailComplete,
           FailTransition, VerifyMarkGetRun, VerifyMarkTransition, Read, transition_run,
           append_audit_event, complete_idempotency, records, durable
  <1> QED
    BY <1>1, <1>2

\* The same for recover().
LEMMA RecovererStores ==
    ASSUME TypeOK, NEW r \in Recoverers, RecoverStep(r) \/ RecovererCrash(r),
           evidence' # evidence
    PROVE  /\ rpc[r] = "create_evidence" /\ evidence'.id = r
           /\ rpc'[r] \in {"complete", "mark", "raised"} /\ robs' = robs
  <1>1. CASE RecoveryCreateEvidence(r)
    BY <1>1, RThenAny
       DEF RecoveryCreateEvidence, create_verification_evidence, Write, rlocals, TypeOK
  <1>2. CASE ~RecoveryCreateEvidence(r)
    BY <1>2
       DEF RecoverStep, RecovererCrash, Recover, LoadSnapshot, Load, Dispatch,
           ReconstructApproval, ClaimActiveRecovery, VerifiedToVerifying,
           VerifiedToSuccess, ResumeFromDurableAck, Transition,
           ContinuationNotConfigured, CallVerify, VerifyReturns, ReadBack,
           AppendReadBack, ReadBackToVerifying, RecoveryComplete,
           RecoveryAppendCompleted, RecoveryToSuccess, RecoveryMarkGetRun,
           RecoveryMarkTransition, Outcome, Read, transition_run, append_audit_event,
           complete_idempotency, save_checkpoint, records, durable
  <1> QED
    BY <1>1, <1>2

\* A step of a verify() call keeps everything proved.
LEMMA VerifyProven ==
    ASSUME TypeOK, RecordStep, Proven, NEW w \in Observers,
           VerifyStep(w) \/ Verify(w) \/ VerifierCrash(w), UNCHANGED recovery
    PROVE  Proven'
  <1>1. ASSUME NEW u \in Observers PROVE VerifierProves(u)'
    <2>1. CASE u = w
      BY <2>1, VerifierProving DEF Proven
    <2>2. CASE u # w
      BY <2>2, VerifierFrame, StillVerified DEF Proven, TypeOK
    <2> QED
      BY <2>1, <2>2
  <1>2. ASSUME NEW r \in Recoverers PROVE RecovererProves(r)'
    <2>o. r \in Observers
      BY DEF Observers
    <2>1. CASE r # w
      BY <2>o, <2>1, VerifierFrame, StillRecovered DEF Proven, TypeOK, recovery
    <2>2. CASE r = w
      <3>1. vpc[r] \notin {"idle", "crashed"}
        BY <2>2, WorkersAssumption
           DEF VerifyStep, Verify, VerifierCrash, VerifyGetRun, VerifyGetIdempotency,
               VerifyAppendStarted, Observe, AppendObserved, CreateEvidence,
               CompleteSucceeded, GetExistingEvidence, AppendRecorded, ToSuccess,
               ReconcileSuccess, FailComplete, FailTransition, VerifyMarkGetRun,
               VerifyMarkTransition
      <3>2. rpc[r] \in Gone /\ robs[r] = "none"
        BY <3>1 DEF Proven, RecovererProves
      <3> QED
        BY <3>2, StillRecovered DEF Proven, recovery
    <2> QED
      BY <2>1, <2>2
  <1>3. evidence' # NoEvidence => evidence'.id \in Observers /\ Held(evidence.id)'
    <2>1. CASE evidence' = evidence
      BY <2>1, VerifierKeeps DEF Proven
    <2>2. CASE evidence' # evidence
      <3>1. /\ vpc[w] = "create_evidence" /\ evidence'.id = w
            /\ vpc'[w] \in {"complete", "mark", "raised"} /\ vobs' = vobs
        BY <2>2, VerifierStores
      <3>2. vobs[w] = "stopped"
        BY <3>1 DEF Proven, VerifierProves
      <3>3. w \in Recoverers => robs[w] = "none" /\ rpc[w] \in Gone
        BY <3>1 DEF Proven, RecovererProves
      <3>4. Held(w)'
        BY <3>1, <3>2, <3>3 DEF Held, ObservationKept, recovery
      <3> QED
        BY <3>1, <3>4
    <2> QED
      BY <2>1, <2>2
  <1> QED
    BY <1>1, <1>2, <1>3 DEF Proven

\* A step of a recover() call keeps everything proved.
LEMMA RecoverProven ==
    ASSUME TypeOK, RecordStep, Proven, NEW r \in Recoverers,
           RecoverStep(r) \/ RecovererCrash(r)
    PROVE  Proven'
  <1>o. Recoverers \subseteq Observers
    BY DEF Observers
  <1>1. ASSUME NEW u \in Observers PROVE VerifierProves(u)'
    <2>1. CASE vpc'[u] = vpc[u]
      BY <2>1, RecovererCalls, StillVerified DEF Proven
    <2>2. CASE vpc'[u] # vpc[u]
      <3>1. u = r
        BY <2>2, RecovererCalls
      <3>2. CASE rpc[r] = "verify" /\ vpc'[r] = "get_run"
        <4>1. vpc[r] = "idle"
          BY <3>2, <1>o DEF Proven, RecovererProves, Gone
        <4>2. vattempt[r] = 0
          BY <4>1, <1>o DEF Proven, VerifierProves, Unobserved
        <4> QED
          BY <3>1, <3>2, <4>2, RecovererCalls, MaxAttemptsAssumption
             DEF VerifierProves, Relying
      <3>3. CASE vpc'[r] = "crashed"
        BY <3>1, <3>3, RecovererCalls DEF Proven, VerifierProves, Relying, Unobserved
      <3> QED
        BY <2>2, <3>1, <3>2, <3>3, RecovererCalls
    <2> QED
      BY <2>1, <2>2
  <1>2. ASSUME NEW q \in Recoverers PROVE RecovererProves(q)'
    <2>1. CASE q = r
      BY <2>1, RecovererProving DEF Proven
    <2>2. CASE q # r
      BY <2>2, <1>o, RecovererFrame, RecovererCalls, StillRecovered DEF Proven, TypeOK
    <2> QED
      BY <2>1, <2>2
  <1>3. evidence' # NoEvidence => evidence'.id \in Observers /\ Held(evidence.id)'
    <2>1. CASE evidence' = evidence
      BY <2>1, RecovererKeeps DEF Proven
    <2>2. CASE evidence' # evidence
      <3>1. /\ rpc[r] = "create_evidence" /\ evidence'.id = r
            /\ rpc'[r] \in {"complete", "mark", "raised"} /\ robs' = robs
        BY <2>2, RecovererStores
      <3>2. robs[r] = "stopped"
        BY <3>1 DEF Proven, RecovererProves
      <3>3. Held(r)'
        BY <3>1, <3>2 DEF Held, ReadBackKept
      <3> QED
        BY <3>1, <3>3, <1>o
    <2> QED
      BY <2>1, <2>2
  <1> QED
    BY <1>1, <1>2, <1>3 DEF Proven

\* The calls that store no evidence.
LEMMA EvidenceKept ==
    ASSUME NEW res
    PROVE  /\ Read(res) => evidence' = evidence
           /\ \A f, v, t : transition_run(f, v, t, res) => evidence' = evidence
           /\ \A type : append_audit_event(type, res) => evidence' = evidence
           /\ \A s, p : complete_idempotency(s, p, res) => evidence' = evidence
           /\ \A k : record_execution_acknowledgement(k, res) => evidence' = evidence
           /\ \A b, n : save_checkpoint(b, n, res) => evidence' = evidence
           /\ \A d, s : create_approval(d, s, res) => evidence' = evidence
           /\ register_idempotency(res) => evidence' = evidence
           /\ transition_proposal(res) => evidence' = evidence
           /\ UNCHANGED durable => evidence' = evidence
  BY DEF Read, transition_run, append_audit_event, complete_idempotency,
         record_execution_acknowledgement, save_checkpoint, create_approval,
         register_idempotency, transition_proposal, records, durable

\* A step of nobody who verifies or recovers stores no evidence.
LEMMA NextProven == TypeOK /\ RecordStep /\ Proven /\ [Next]_vars => Proven'
  <1> SUFFICES ASSUME TypeOK, RecordStep, Proven, [Next]_vars PROVE Proven'
    OBVIOUS
  <1>o. Recoverers \subseteq Observers /\ Verifiers \subseteq Observers
    BY DEF Observers
  <1>1. CASE UNCHANGED <<vpc, vobs, vattempt, rpc, robs, rattempt, evidence>>
    BY <1>1, <1>o, StillVerified, StillRecovered DEF Proven, Held
  <1>2. CASE \E e \in Executors : ExecutorNext(e)
    <2>1. evidence' = evidence
      BY <1>2, EvidenceKept DEF ExecutorNext, ExecutorStep, ExecutorCrash, Execute, GetIdempotency,
         GetRunAfterAck, RequireApproved, RegisterApprovedAction,
         LoadExecutionPrerequisites, ClaimExecution, AppendRequested, InvocationLost,
         Describe, FirstEmergencyCheck, DryRun, SecondEmergencyCheck,
         AssertWritesEnabled, StopInstances, LateChecks, LateStop,
         RecordAcknowledgement, ToVerifying, AppendAcknowledged, AppendDenied,
         CompleteFailed, ToFailed, MarkGetRun, MarkTransition
    <2> QED
      BY <1>1, <1>2, <2>1 DEF ExecutorNext, verification, recovery
  <1>3. CASE \E v \in Verifiers : VerifierNext(v)
    BY <1>3, <1>o, VerifyProven DEF VerifierNext
  <1>4. CASE \E r \in Recoverers : RecovererNext(r)
    BY <1>4, <1>o, VerifyProven, RecoverProven DEF RecovererNext
  <1>5. CASE \E a \in Approvers : ApproverNext(a)
    <2>1. evidence' = evidence
      <3>1. CASE \E a \in Approvers : SaveInterrupt(a) \/ SaveDecision(a)
        BY <3>1 DEF SaveInterrupt, SaveDecision, save_checkpoint
      <3>2. CASE \A a \in Approvers : ~SaveInterrupt(a) /\ ~SaveDecision(a)
        BY <1>5, <3>2, EvidenceKept
           DEF ApproverNext, ApproverStep, ApproverCrash, Request, RequestGetRun,
               RequestGetCheckpoint, RequestTransitionProposal, RequestTransitionRun,
               RequestAgent, RequestAuditFailure, PersistRequestFailure,
               AppendApprovalRequested, Resume, ResumeGetRun, ResumeGetCheckpoint,
               AppendMismatch, GetApproval, CreateApproval, CheckState,
               TransitionToDecision, AppendApprovalRecorded
      <3> QED
        BY <3>1, <3>2
    <2> QED
      BY <1>1, <1>5, <2>1 DEF ApproverNext, verification, recovery
  <1>6. CASE EnvironmentNext
    BY <1>1, <1>6 DEF EnvironmentNext, CloudNext, InstanceStops, InstanceDrifts,
                      OperatorVeto, LeaseExpires, durable, verification, recovery, rlocals
  <1>7. CASE UNCHANGED vars
    BY <1>1, <1>7 DEF vars, durable, verification, recovery
  <1> QED
    BY <1>2, <1>3, <1>4, <1>5, <1>6, <1>7 DEF Next

\* Every reachable state has its proofs in order.
LEMMA AlwaysProven == Spec => []Proven
  <1>1. Init => Proven
    BY MaxAttemptsAssumption
       DEF Init, DurableInit, VerificationInit, RecoveryInit, Proven, VerifierProves,
           RecovererProves, Relying, Unobserved, Observers, Fresh
  <1> QED
    BY <1>1, NextProven, NextRecords, TypeCorrect, AlwaysCallsHold, PTL DEF Spec

-----------------------------------------------------------------------------
(***************************************************************************)
(* How a run ends.                                                         *)
(***************************************************************************)

Undecided == {"RECEIVED", "INVESTIGATING", "EVIDENCE_READY", "REMEDIATION_PROPOSED",
              "AWAITING_APPROVAL"}

\* A claim exists only past the decision; a completed claim names the evidence;
\* a successful run has both; evidence that cites an acknowledgement has one.
Concluded ==
    /\ run.state \in Undecided => idem.status = "none"
    /\ TerminalRunHasNoOpenClaim
    /\ idem.status = "COMPLETED" => idem.proof \in Observers /\ idem.proof = evidence.id
    /\ run.state = "SUCCESS_WITH_EVIDENCE" => evidence # NoEvidence /\ idem.status = "COMPLETED"
    /\ evidence.origin = "EXECUTION_ACKNOWLEDGEMENT" => idem.ack # None

\* The table leads to an undecided state only from an undecided one.
LEMMA UndecidedBefore ==
    ASSUME NEW s \in WorkflowState, NEW t \in ALLOWED_WORKFLOW_TRANSITIONS[s], t \in Undecided
    PROVE  s \in Undecided
  BY DEF WorkflowState, TERMINAL_WORKFLOW_STATES, Undecided,
         ALLOWED_WORKFLOW_TRANSITIONS, COMMON_FAILURES

\* Every change of the records keeps the conclusion sound.
LEMMA RecordsConclude ==
    ASSUME TypeOK, RecordStep, Proven, Acknowledged, Concluded
    PROVE  Concluded'
  <1>t. /\ run.state \in WorkflowState /\ idem \in Idempotency
        /\ None \notin Observers /\ None \notin Executors
    BY WorkersAssumption DEF TypeOK, DurableTypeOK, Run, Observers
  <1>1. CASE Bookkeeping
    BY <1>1 DEF Bookkeeping, Concluded, TerminalRunHasNoOpenClaim
  <1>2. CASE DecisionStored
    BY <1>2 DEF DecisionStored, Concluded, TerminalRunHasNoOpenClaim
  <1>3. CASE RunMoved
    <2>1. UNCHANGED <<idem, evidence>> /\ run'.state \in ALLOWED_WORKFLOW_TRANSITIONS[run.state]
      BY <1>3 DEF RunMoved
    <2>2. run'.state \in Undecided => idem'.status = "none"
      BY <1>t, <2>1, UndecidedBefore DEF Concluded
    <2>3. run'.state = "SUCCESS_WITH_EVIDENCE" =>
            evidence' # NoEvidence /\ idem'.status = "COMPLETED"
      BY <1>3, <2>1 DEF RunMoved, SuccessProven
    <2>4. run'.state \in TERMINAL_WORKFLOW_STATES => idem'.status # "REGISTERED"
      <3>1. CASE run'.state \in TERMINAL_WORKFLOW_STATES
        <4>1. Closing(run'.state)
          BY <1>3, <3>1 DEF RunMoved
        <4>2. CASE run.state = "AWAITING_APPROVAL"
          BY <2>1, <4>2 DEF Concluded, Undecided
        <4>3. CASE run'.state = "SUCCESS_WITH_EVIDENCE"
          BY <2>3, <4>3
        <4>4. CASE \E e \in Executors : xpc[e] = "to_failed"
          BY <2>1, <4>4 DEF Acknowledged, Resolved
        <4>5. CASE \E w \in Observers : vpc[w] = "fail_transition"
          BY <2>1, <4>5 DEF Proven, VerifierProves, Resolved
        <4> QED
          BY <4>1, <4>2, <4>3, <4>4, <4>5 DEF Closing
      <3> QED
        BY <3>1
    <2> QED
      BY <2>1, <2>2, <2>3, <2>4 DEF Concluded, TerminalRunHasNoOpenClaim
  <1>4. CASE ClaimRegistered
    <2>1. /\ UNCHANGED <<run, evidence>> /\ run.state = "APPROVED"
          /\ idem'.status = "REGISTERED" /\ idem'.ack = idem.ack
      BY <1>t, <1>4 DEF ClaimRegistered, Idempotency
    <2> QED
      BY <2>1 DEF Concluded, TerminalRunHasNoOpenClaim, TERMINAL_WORKFLOW_STATES, Undecided
  <1>5. CASE ClaimResolved
    <2>1. /\ UNCHANGED <<run, evidence>> /\ idem.status = "REGISTERED"
          /\ idem'.ack = idem.ack /\ idem'.status # "REGISTERED"
      BY <1>5 DEF ClaimResolved
    <2>2. idem'.status = "COMPLETED" =>
            idem'.proof \in Observers /\ idem'.proof = evidence.id
      BY <1>5 DEF ClaimResolved, Proven, VerifierProves, RecovererProves
    <2> QED
      BY <2>1, <2>2 DEF Concluded, TerminalRunHasNoOpenClaim
  <1>6. CASE AckStored
    <2>1. /\ UNCHANGED <<run, evidence>> /\ idem'.status = "REGISTERED"
          /\ idem'.ack # None /\ idem.status = "REGISTERED"
      BY <1>t, <1>6 DEF AckStored, Idempotency
    <2> QED
      BY <2>1 DEF Concluded, TerminalRunHasNoOpenClaim
  <1>7. CASE EvidenceStored
    <2>1. /\ UNCHANGED <<run, idem>> /\ evidence.id = None /\ evidence = NoEvidence
          /\ evidence' # NoEvidence
          /\ evidence'.origin = "EXECUTION_ACKNOWLEDGEMENT" => idem.ack # None
      BY <1>t, <1>7 DEF EvidenceStored, NoEvidence, Observers
    <2>2. idem.status # "COMPLETED"
      BY <1>t, <2>1 DEF Concluded
    <2> QED
      BY <2>1, <2>2 DEF Concluded, TerminalRunHasNoOpenClaim
  <1> QED
    BY <1>1, <1>2, <1>3, <1>4, <1>5, <1>6, <1>7 DEF RecordStep

\* The conclusion is sound in every reachable state.
LEMMA AlwaysConcluded == Spec => []Concluded
  <1>1. Init => Concluded
    BY DEF Init, DurableInit, ApprovedInit, ProposedInit, NoClaim, NoEvidence, Concluded,
           TerminalRunHasNoOpenClaim
  <1>2. TypeOK /\ CallsHold /\ Proven /\ Acknowledged /\ Concluded /\ [Next]_vars => Concluded'
    BY NextRecords, RecordsConclude
  <1> QED
    BY <1>1, <1>2, TypeCorrect, AlwaysCallsHold, AlwaysProven, AlwaysAcknowledged, PTL DEF Spec

\* However a run ends, it ends rightly, for any number of racing, crashing and
\* retried calls: a success has evidence stored by a call that itself observed
\* the stopped instance and a completed claim that names it; evidence that cites
\* an acknowledgement means one stop was sent; no claim is open behind a terminal
\* run; and nobody polled past its budget.
THEOREM RunsEndProven == Spec => []OutcomeIsProven
  <1>1. TypeOK /\ Proven /\ Acknowledged /\ Concluded => OutcomeIsProven
    <2> SUFFICES ASSUME TypeOK, Proven, Acknowledged, Concluded PROVE OutcomeIsProven
      OBVIOUS
    <2>1. evidence # NoEvidence => Observed(evidence.id) = "stopped"
      BY DEF Proven, Held, Observed
    <2>2. SuccessIsProven
      BY <2>1 DEF Concluded, Acknowledged, SuccessIsProven
    <2>3. PollingIsBounded
      BY DEF Proven, VerifierProves, RecovererProves, PollingIsBounded
    <2> QED
      BY <2>2, <2>3 DEF Concluded, OutcomeIsProven
  <1> QED
    BY <1>1, TypeCorrect, AlwaysProven, AlwaysAcknowledged, AlwaysConcluded, PTL

-----------------------------------------------------------------------------
(***************************************************************************)
(* A stop whose reply was lost.  Behind the Lambda the invocation itself   *)
(* may be lost, and a FunctionError hides the executor's reason, so that   *)
(* the property holds of the executor in the coordinator's own process.    *)
(***************************************************************************)

\* While a stop may still be sent, or its reply was lost, nobody is in a position
\* to book the claim as failed.
NotFailed ==
    /\ \A e \in Executors : inflight[e] = "none"
    /\ (\E e \in Executors : MaySend(e)) \/ run.state \in Claimable => idem.status # "FAILED"
    /\ ambiguous =>
         /\ stopCalls = 1 /\ idem.ack = None /\ idem.status # "FAILED"
         /\ \A e \in Executors :
              /\ xpc[e] # "record_ack"
              /\ xpc[e] \in {"append_denied", "complete_failed"} =>
                   xfail[e] = "RECOVERY_REQUIREMENT"

\* In its own process the executor leaves nothing behind, and reports a lost
\* reply as what it is.
LEMMA LocalExecutor ==
    ASSUME ~Remote, TypeOK, NEW e \in Executors, ExecutorStep(e) \/ ExecutorCrash(e)
    PROVE  /\ inflight[e] = "none" => inflight' = inflight
           /\ ambiguous' # ambiguous /\ inflight[e] = "none" =>
                /\ xpc[e] = "stop_instances"
                /\ xpc'[e] = "complete_failed" /\ xfail'[e] = "RECOVERY_REQUIREMENT"
  <1>1. CASE StopInstances(e)
    BY <1>1 DEF StopInstances, Fail, Goto, Reported, TypeOK, RemediationTypeOK
  <1>2. CASE LateChecks(e) \/ LateStop(e)
    BY <1>2 DEF LateChecks, LateStop
  <1>3. CASE ~StopInstances(e) /\ ~LateChecks(e) /\ ~LateStop(e)
    BY <1>3
       DEF ExecutorStep, ExecutorCrash, Execute, GetIdempotency, GetRunAfterAck,
           RequireApproved, RegisterApprovedAction, LoadExecutionPrerequisites,
           ClaimExecution, AppendRequested, InvocationLost, LeaveBehind, Describe,
           FirstEmergencyCheck, DryRun, SecondEmergencyCheck, AssertWritesEnabled,
           RecordAcknowledgement, ToVerifying, AppendAcknowledged, AppendDenied,
           CompleteFailed, ToFailed, MarkGetRun, MarkTransition, cloud
  <1> QED
    BY <1>1, <1>2, <1>3

\* A call becomes a sender by winning an approved run, and in no other way.
LEMMA NewSender ==
    ASSUME TypeOK, OneSender, [Next]_vars, NEW f \in Executors, MaySend(f)', ~MaySend(f)
    PROVE  run.state = "APPROVED"
  <1>1. PICK e \in Executors :
          /\ ExecutorNext(e)
          /\ \A g \in Executors \ {e} : xpc'[g] = xpc[g] /\ inflight'[g] = inflight[g]
    BY ExecutorsOrOthers DEF remediation, MaySend
  <1>2. f = e
    BY <1>1 DEF MaySend
  <1>3. ~StopInstances(e) /\ ~LateStop(e)
    BY <1>2 DEF StopInstances, LateStop, MaySend, BeforeStop
  <1>4. ClaimExecution(e)
    BY <1>1, <1>2, <1>3, ExecutorQuiet DEF ExecutorNext, Quiet
  <1>5. PICK res \in Result :
          /\ transition_run("APPROVED", xrun[e].version, "EXECUTING", res)
          /\ Then(e, res, "append_requested", "mark", "done")
    BY <1>4 DEF ClaimExecution
  <1>6. CASE res = "ok"
    BY <1>5, <1>6 DEF transition_run, Write
  <1>7. CASE res # "ok"
    <2>1. xpc'[e] \in {"mark", "done", "raised"} /\ inflight' = inflight
      BY <1>4, <1>5, <1>7, ThenAny DEF ClaimExecution, TypeOK
    <2> QED
      BY <1>2, <2>1 DEF MaySend, BeforeStop
  <1> QED
    BY <1>6, <1>7

\* Who books a claim as failed: a verify() call that relies on an acknowledgement,
\* or the execute() call itself, for a failure that is no lost reply.
LEMMA FailedBy ==
    ASSUME TypeOK, RecordStep, Proven, idem.status # "FAILED", idem'.status = "FAILED"
    PROVE  /\ run' = run /\ idem'.ack = idem.ack
           /\ \/ idem.ack # None
              \/ \E e \in Executors :
                   CompleteFailed(e) /\ xfail[e] # "RECOVERY_REQUIREMENT"
  <1>1. ClaimResolved
    BY DEF RecordStep, Bookkeeping, RunMoved, DecisionStored, EvidenceStored,
           ClaimRegistered, AckStored, TypeOK, DurableTypeOK, Idempotency
  <1> QED
    BY <1>1 DEF ClaimResolved, Proven, VerifierProves, Relying

\* No step of any call books a lost stop as failed.
LEMMA NextNotFailed ==
    ASSUME ~Remote, TypeOK, OneSender, OneSender', Owned, Acknowledged, Acknowledged',
           Proven, RecordStep, NotFailed, [Next]_vars
    PROVE  NotFailed'
  <1>n. stopCalls \in Nat
    BY DEF TypeOK, CloudTypeOK
  <1>m. RunMoves
    BY NextType
  <1>1. inflight' = inflight
    <2>1. CASE UNCHANGED remediation
      BY <2>1 DEF remediation
    <2>2. CASE ~UNCHANGED remediation
      BY <2>2, ExecutorsOrOthers, LocalExecutor DEF ExecutorNext, NotFailed
    <2> QED
      BY <2>1, <2>2
  <1>2. ASSUME idem'.status = "FAILED"
        PROVE  ~(\E f \in Executors : MaySend(f)') /\ run'.state \notin Claimable
    <2>1. CASE idem.status = "FAILED"
      <3>1. run.state \notin Claimable /\ \A f \in Executors : ~MaySend(f)
        BY <2>1 DEF NotFailed
      <3> QED
        BY <3>1, <1>m, NewSender, StaysClaimed DEF Claimable
    <2>2. CASE idem.status # "FAILED" /\ idem.ack # None
      <3>1. idem'.ack # None
        BY <1>2, <2>2, FailedBy
      <3>2. stopCalls' = 1
        BY <3>1 DEF Acknowledged
      <3> QED
        BY <3>2 DEF OneSender
    <2>3. CASE idem.status # "FAILED" /\ idem.ack = None
      <3>1. PICK e \in Executors : CompleteFailed(e)
        BY <1>2, <2>3, FailedBy
      <3>2. xpc[e] = "complete_failed" /\ xpc'[e] \in {"to_failed", "done", "raised"}
        BY <3>1, ThenAny DEF CompleteFailed, TypeOK
      <3>3. \A f \in Executors \ {e} : xpc'[f] = xpc[f]
        BY <3>1, ExecutorFrame DEF ExecutorStep, TypeOK
      <3>4. Owner(e)
        BY <3>2 DEF Owner, AfterStop
      <3>5. run.state \notin Claimable /\ \A f \in Executors \ {e} : ~MaySend(f)
        BY <3>4 DEF Owned, Owner, MaySend
      <3>6. run' = run
        BY <1>2, <2>3, FailedBy
      <3>7. \A f \in Executors : ~MaySend(f)'
        BY <1>1, <3>2, <3>3, <3>5 DEF MaySend, BeforeStop, NotFailed
      <3> QED
        BY <3>5, <3>6, <3>7
    <2> QED
      BY <2>1, <2>2, <2>3
  <1>3. ASSUME ambiguous, ambiguous'
        PROVE  /\ stopCalls' = 1 /\ idem'.ack = None /\ idem'.status # "FAILED"
               /\ \A e \in Executors :
                    /\ xpc'[e] # "record_ack"
                    /\ xpc'[e] \in {"append_denied", "complete_failed"} =>
                         xfail'[e] = "RECOVERY_REQUIREMENT"
    <2>1. /\ stopCalls = 1 /\ idem.ack = None /\ idem.status # "FAILED"
          /\ \A e \in Executors :
               /\ xpc[e] # "record_ack"
               /\ xpc[e] \in {"append_denied", "complete_failed"} =>
                    xfail[e] = "RECOVERY_REQUIREMENT"
      BY <1>3 DEF NotFailed
    <2>2. \A e \in Executors : ~MaySend(e)
      BY <2>1 DEF OneSender
    <2>3. \A e \in Executors : xpc[e] \notin InExecutor
      BY <2>2 DEF MaySend, InExecutor, BeforeStop
    <2>4. idem'.ack = None
      BY <2>1 DEF RecordStep, Bookkeeping, RunMoved, DecisionStored, EvidenceStored,
                  ClaimRegistered, ClaimResolved, AckStored, TypeOK, DurableTypeOK,
                  Idempotency
    <2>5. idem'.status # "FAILED"
      BY <2>1, FailedBy DEF CompleteFailed
    <2>6. CASE UNCHANGED <<remediation, stopCalls, ambiguous>>
      BY <2>1, <2>4, <2>5, <2>6 DEF remediation
    <2>7. CASE ~UNCHANGED <<remediation, stopCalls, ambiguous>>
      <3>1. PICK e \in Executors :
              /\ ExecutorFlow(e)
              /\ \A f \in Executors \ {e} : xpc'[f] = xpc[f] /\ xfail'[f] = xfail[f]
        BY <2>7, ExecutorsOrOthers
      <3>2. stopCalls' = 1
        BY <2>1, <2>2, <3>1 DEF ExecutorFlow
      <3>3. /\ xpc'[e] # "record_ack"
            /\ xpc'[e] \in {"append_denied", "complete_failed"} =>
                 xfail'[e] = "RECOVERY_REQUIREMENT"
        BY <1>n, <2>1, <2>3, <3>1, <3>2 DEF ExecutorFlow, InExecutor
      <3> QED
        BY <2>1, <2>4, <2>5, <3>1, <3>2, <3>3
    <2> QED
      BY <2>6, <2>7
  <1>4. ASSUME ~ambiguous, ambiguous'
        PROVE  /\ stopCalls' = 1 /\ idem'.ack = None /\ idem'.status # "FAILED"
               /\ \A e \in Executors :
                    /\ xpc'[e] # "record_ack"
                    /\ xpc'[e] \in {"append_denied", "complete_failed"} =>
                         xfail'[e] = "RECOVERY_REQUIREMENT"
    <2>1. PICK e \in Executors :
            /\ ExecutorFlow(e) /\ ExecutorNext(e)
            /\ \A f \in Executors \ {e} : xpc'[f] = xpc[f] /\ xfail'[f] = xfail[f]
      BY <1>4, ExecutorsOrOthers
    <2>2. stopCalls' = stopCalls + 1 /\ MaySend(e) /\ idem' = idem
      <3>1. ambiguous' # ambiguous
        BY <1>4, Zenon
      <3>2. stopCalls' = stopCalls + 1
        BY <2>1, <3>1, Zenon DEF ExecutorFlow
      <3> QED
        BY <1>n, <2>1, <3>2 DEF ExecutorFlow
    <2>3. stopCalls = 0
      BY <2>2 DEF OneSender
    <2>4. idem.ack = None /\ idem.status # "FAILED"
      BY <2>2, <2>3 DEF Acknowledged, NotFailed
    <2>5. xpc'[e] = "complete_failed" /\ xfail'[e] = "RECOVERY_REQUIREMENT"
      BY <1>4, <2>1, LocalExecutor DEF ExecutorNext, NotFailed
    <2>6. \A f \in Executors \ {e} : ~Owner(f)
      BY <2>2 DEF MaySend, Owner, Owned
    <2>7. \A f \in Executors \ {e} : xpc'[f] \notin {"record_ack", "append_denied",
                                                     "complete_failed"}
      BY <2>1, <2>6 DEF Owner, AfterStop
    <2> QED
      BY <2>2, <2>3, <2>4, <2>5, <2>7
  <1> QED
    <2>1. \A e \in Executors : inflight'[e] = "none"
      BY <1>1 DEF NotFailed
    <2>2. ambiguous' =>
            /\ stopCalls' = 1 /\ idem'.ack = None /\ idem'.status # "FAILED"
            /\ \A e \in Executors :
                 /\ xpc'[e] # "record_ack"
                 /\ xpc'[e] \in {"append_denied", "complete_failed"} =>
                      xfail'[e] = "RECOVERY_REQUIREMENT"
      BY <1>3, <1>4
    <2>3. (\E f \in Executors : MaySend(f)') \/ run'.state \in Claimable =>
            idem'.status # "FAILED"
      BY <1>2
    <2> QED
      BY <2>1, <2>2, <2>3 DEF NotFailed

\* Without the Lambda in between, a StopInstances request whose reply was lost is
\* never booked as a plain failure, whatever the other calls do meanwhile: the
\* claim stays open or asks for reconciliation.
THEOREM LostStopIsNotFailed == Spec => [](~Remote => AmbiguousStopNotFailed)
  <1>1. Init => (~Remote => NotFailed)
    BY DEF Init, DurableInit, NoClaim, CloudInit, RemediationInit, NotFailed
  <1>2. /\ TypeOK /\ CallsHold /\ OneSender /\ Owned /\ Acknowledged /\ Proven
        /\ OneSender' /\ Acknowledged'
        /\ (~Remote => NotFailed) /\ [Next]_vars
        => (~Remote => NotFailed)'
    BY NextNotFailed, NextRecords
  <1>3. (~Remote => NotFailed) => (~Remote => AmbiguousStopNotFailed)
    BY DEF NotFailed, AmbiguousStopNotFailed
  <1> QED
    BY <1>1, <1>2, <1>3, TypeCorrect, AlwaysCallsHold, SenderIsUnique, AlwaysOwned,
       AlwaysAcknowledged, AlwaysProven, PTL DEF Spec
=============================================================================
