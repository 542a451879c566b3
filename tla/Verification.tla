---------------------------- MODULE Verification ----------------------------
(***************************************************************************)
(* BoundedVerificationCoordinator.verify: independent, read-only proof     *)
(* that the acknowledged stop took effect.  A call is made by a Verifier   *)
(* or, as the recovery coordinator's verification reconciler, by a         *)
(* Recoverer.                                                              *)
(***************************************************************************)
EXTENDS SandboxInstance

CONSTANT MaxAttempts   \* VerificationSettings.max_attempts

ASSUME MaxAttemptsAssumption == MaxAttempts \in Nat \ {0}

VARIABLES vpc,       \* control point of each verify call
          vrun,      \* the Run the call read first and expects to close
          vobs,      \* last observed instance state
          vattempt,  \* observations made
          vfail      \* failure kind being persisted

verification == <<vpc, vrun, vobs, vattempt, vfail>>

VerifyPc == {"idle", "get_run", "get_idempotency", "append_started", "observe",
             "append_observed", "create_evidence", "complete", "append_recorded",
             "to_success", "fail_complete", "fail_transition", "get_evidence",
             "reconcile", "mark", "mark_transition",
             "succeeded", "failed", "crashed", "raised"}

VerificationTypeOK ==
    /\ vpc \in [Observers -> VerifyPc]
    /\ vrun \in [Observers -> Run]
    /\ vobs \in [Observers -> {"none", "running", "stopping", "stopped"}]
    /\ vattempt \in [Observers -> Nat]
    /\ vfail \in [Observers -> FailureKind \cup {"none"}]

VerificationInit ==
    /\ vpc = [w \in Observers |-> "idle"]
    /\ vrun = [w \in Observers |-> [state |-> "RECEIVED", version |-> 0]]
    /\ vobs = [w \in Observers |-> "none"]
    /\ vattempt = [w \in Observers |-> 0]
    /\ vfail = [w \in Observers |-> "none"]

VGoto(w, next) == vpc' = [vpc EXCEPT ![w] = next]
VThen(w, res, ok, conflict, unavailable) ==
    VGoto(w, After(res, ok, conflict, unavailable))
locals == <<vrun, vobs, vattempt, vfail>>

-----------------------------------------------------------------------------
VerifyGetRun(w) ==
    /\ vpc[w] = "get_run"
    /\ \E res \in Result :
         Read(res) /\ VThen(w, res, "get_idempotency", "failed", "failed")
    /\ vrun' = [vrun EXCEPT ![w] = run]
    /\ UNCHANGED <<vobs, vattempt, vfail, cloud>>

\* The run was read one call earlier; the branches test that earlier value.
verify_disposition(w) ==
    CASE vrun[w].state = "SUCCESS_WITH_EVIDENCE" -> "reconcile"
      [] vrun[w].state = "VERIFYING" /\ idem.ack # None
           /\ idem.status = "COMPLETED" -> "get_evidence"
      [] vrun[w].state = "VERIFYING" /\ idem.ack # None
           /\ idem.status = "REGISTERED" -> "append_started"
      [] OTHER -> "failed"

VerifyGetIdempotency(w) ==
    /\ vpc[w] = "get_idempotency"
    /\ \E res \in Result :
         Read(res) /\ VThen(w, res, verify_disposition(w), "failed", "failed")
    /\ UNCHANGED <<locals, cloud>>

VerifyAppendStarted(w) ==
    /\ vpc[w] = "append_started"
    /\ \E res \in Result :
         /\ append_audit_event("VERIFICATION_STARTED", res)
         /\ VThen(w, res, "observe", "failed", "failed")
    /\ UNCHANGED <<locals, cloud>>

\* One scoped DescribeInstances; its failure kinds are the inspection's.
ObserveFailure ==
    {"POLICY_DENIAL", "DEPENDENCY_UNAVAILABLE", "VALIDATION_FAILURE", "AMBIGUOUS_RESULT"}

Observe(w) ==
    /\ vpc[w] = "observe"
    /\ \/ /\ vobs' = [vobs EXCEPT ![w] = instance]
          /\ VGoto(w, "append_observed")
          /\ UNCHANGED vfail
       \/ /\ \E kind \in ObserveFailure : vfail' = [vfail EXCEPT ![w] = kind]
          /\ VGoto(w, "fail_complete")
          /\ UNCHANGED vobs
    /\ vattempt' = [vattempt EXCEPT ![w] = @ + 1]
    /\ UNCHANGED <<vrun, durable, cloud>>

\* Disposition: stopped verifies, stopping is polled up to the attempt budget,
\* anything else is a mismatch.
observation_disposition(w) ==
    CASE vobs[w] = "stopped" -> "create_evidence"
      [] vobs[w] = "stopping" /\ vattempt[w] < MaxAttempts -> "observe"
      [] OTHER -> "fail_complete"

AppendObserved(w) ==
    /\ vpc[w] = "append_observed"
    /\ \E res \in Result :
         /\ append_audit_event("VERIFICATION_OBSERVED", res)
         /\ VThen(w, res, observation_disposition(w), "mark", "mark")
    /\ vfail' = [vfail EXCEPT ![w] = "VERIFICATION_FAILURE"]
    /\ UNCHANGED <<vrun, vobs, vattempt, cloud>>

-----------------------------------------------------------------------------
(* _persist_success and _finalize_existing_evidence *)

CreateEvidence(w) ==
    /\ vpc[w] = "create_evidence"
    /\ \E res \in Result :
         /\ create_verification_evidence(w, "EXECUTION_ACKNOWLEDGEMENT", res)
         /\ VThen(w, res, "complete", "mark", "mark")
    /\ UNCHANGED <<locals, cloud>>

CompleteSucceeded(w) ==
    /\ vpc[w] = "complete"
    /\ \E res \in Result :
         /\ complete_idempotency("COMPLETED", w, res)
         /\ VThen(w, res, "append_recorded", "mark", "mark")
    /\ UNCHANGED <<locals, cloud>>

GetExistingEvidence(w) ==
    /\ vpc[w] = "get_evidence"
    /\ \E res \in Result :
         /\ Read(res)
         /\ VThen(w, res, IF evidence = NoEvidence THEN "failed" ELSE "append_recorded",
                  "mark", "mark")
    /\ UNCHANGED <<locals, cloud>>

AppendRecorded(w) ==
    /\ vpc[w] = "append_recorded"
    /\ \E res \in Result :
         /\ append_audit_event("VERIFICATION_RECORDED", res)
         /\ VThen(w, res, "to_success", "mark", "mark")
    /\ UNCHANGED <<locals, cloud>>

ToSuccess(w) ==
    /\ vpc[w] = "to_success"
    /\ \E res \in Result :
         /\ transition_run("VERIFYING", vrun[w].version, "SUCCESS_WITH_EVIDENCE", res)
         /\ VThen(w, res, "succeeded", "mark", "mark")
    /\ UNCHANGED <<locals, cloud>>

\* _reconcile_success
ReconcileSuccess(w) ==
    /\ vpc[w] = "reconcile"
    /\ \E res \in Result :
         /\ Read(res)
         /\ VThen(w, res, IF evidence = NoEvidence THEN "failed" ELSE "succeeded",
                  "failed", "failed")
    /\ UNCHANGED <<locals, cloud>>

(* _fail_verification *)

\* Mutant: the failed claim is stored and the run forgotten.
FailCompleteOnly(w) ==
    /\ vpc[w] = "fail_complete"
    /\ \E res \in Result :
         /\ complete_idempotency("FAILED", None, res)
         /\ VThen(w, res, "failed", "mark", "mark")
    /\ UNCHANGED <<locals, cloud>>

FailComplete(w) ==
    /\ vpc[w] = "fail_complete"
    /\ \E res \in Result :
         /\ complete_idempotency("FAILED", None, res)
         /\ VThen(w, res, "fail_transition", "mark", "mark")
    /\ UNCHANGED <<locals, cloud>>

FailTransition(w) ==
    /\ vpc[w] = "fail_transition"
    /\ \E res \in Result :
         /\ transition_run("VERIFYING", vrun[w].version,
                           workflow_state_for_failure(vfail[w]), res)
         /\ VThen(w, res, "failed", "mark", "mark")
    /\ UNCHANGED <<locals, cloud>>

(* _mark_recovery_required *)

VerifyMarkGetRun(w) ==
    /\ vpc[w] = "mark"
    /\ \E res \in Result :
         /\ Read(res)
         /\ VThen(w, res, IF run.state = "VERIFYING" THEN "mark_transition" ELSE "failed",
                  "failed", "failed")
    /\ vrun' = [vrun EXCEPT ![w] = run]
    /\ UNCHANGED <<vobs, vattempt, vfail, cloud>>

VerifyMarkTransition(w) ==
    /\ vpc[w] = "mark_transition"
    /\ \E res \in Result :
         /\ transition_run("VERIFYING", vrun[w].version, "RECOVERY_REQUIRED", res)
         /\ VThen(w, res, "failed", "failed", "failed")
    /\ UNCHANGED <<locals, cloud>>

VerifyStep(w) ==
    \/ VerifyGetRun(w) \/ VerifyGetIdempotency(w) \/ VerifyAppendStarted(w)
    \/ Observe(w) \/ AppendObserved(w)
    \/ CreateEvidence(w) \/ CompleteSucceeded(w) \/ GetExistingEvidence(w)
    \/ AppendRecorded(w) \/ ToSuccess(w) \/ ReconcileSuccess(w)
    \/ FailComplete(w) \/ FailTransition(w)
    \/ VerifyMarkGetRun(w) \/ VerifyMarkTransition(w)

\* A call by a Verifier starts; get_proposal's content is immutable.
Verify(v) ==
    /\ v \in Verifiers
    /\ vpc[v] = "idle"
    /\ \E res \in Result : Read(res) /\ VThen(v, res, "get_run", "failed", "failed")
    /\ UNCHANGED <<locals, cloud>>

VerifyReturned == {"succeeded", "failed", "crashed", "raised"}

VerifierCrash(v) ==
    /\ v \in Verifiers
    /\ vpc[v] \notin VerifyReturned \cup {"idle"}
    /\ VGoto(v, "crashed")
    /\ UNCHANGED <<locals, durable, cloud>>
=============================================================================
