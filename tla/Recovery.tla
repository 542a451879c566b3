------------------------------ MODULE Recovery ------------------------------
(***************************************************************************)
(* RecoveryCoordinator.recover: restart-safe, read-only reconciliation of  *)
(* one durable run.  Each member of Recoverers is one call.                *)
(***************************************************************************)
EXTENDS Verification

CONSTANT ServicesOptional   \* TRUE: a coordinator may be built without its
                            \* verification reconciler or its read-back service

ASSUME ServicesAssumption == ServicesOptional \in BOOLEAN

VARIABLES rpc,       \* control point of each recover call
          snap,      \* _Snapshot: the six records, read one after another
          rrun,      \* the Run the call holds after its own transitions
          robs,      \* last state the lost-acknowledgement read-back observed
          rattempt,  \* read-back attempts
          rend,      \* how the call ends after _mark_recovery_required
          claims     \* history: recovery claims stored since the last expiry

recovery == <<rpc, snap, rrun, robs, rattempt, rend, claims>>
rlocals == <<snap, rrun, robs, rattempt, rend>>

Loads == {"load_run", "load_proposal", "load_checkpoint", "load_approval",
          "load_idempotency", "load_evidence"}
Audits == {"classified", "deferred", "completed"}
RecoverPc == Loads \cup Audits \cup
    {"idle", "dispatch", "reconstruct", "claim", "resume_ack", "verify",
     "await_verify", "verified_to_verifying", "verified_to_success",
     "readback", "append_observed", "readback_to_verifying", "create_evidence",
     "complete", "append_completed", "to_success", "mark", "mark_transition",
     "done", "crashed", "raised"}

Snapshot == [run : Run, proposal : Proposal,
             checkpoint : Checkpoint, approval : Approval,
             idem : Idempotency, evidence : Evidence]

RecoveryTypeOK ==
    /\ rpc \in [Recoverers -> RecoverPc]
    /\ snap \in [Recoverers -> Snapshot]
    /\ rrun \in [Recoverers -> Run]
    /\ robs \in [Recoverers -> {"none", "running", "stopping", "stopped"}]
    /\ rattempt \in [Recoverers -> Nat]
    /\ rend \in [Recoverers -> {"deferred", "done"}]
    /\ claims \in Nat

EmptySnapshot ==
    [run |-> [state |-> "RECEIVED", version |-> 0], proposal |-> "PROPOSED",
     checkpoint |-> [version |-> 0, safe |-> "RECEIVED", interrupt |-> FALSE,
                     lease |-> "none"],
     approval |-> NoApproval,
     idem |-> NoClaim,
     evidence |-> NoEvidence]

RecoveryInit ==
    /\ rpc = [r \in Recoverers |-> "idle"]
    /\ snap = [r \in Recoverers |-> EmptySnapshot]
    /\ rrun = [r \in Recoverers |-> EmptySnapshot.run]
    /\ robs = [r \in Recoverers |-> "none"]
    /\ rattempt = [r \in Recoverers |-> 0]
    /\ rend = [r \in Recoverers |-> "deferred"]
    /\ claims = 0

RGoto(r, next) == rpc' = [rpc EXCEPT ![r] = next]
RThen(r, res, ok, conflict, unavailable) ==
    RGoto(r, After(res, ok, conflict, unavailable))

-----------------------------------------------------------------------------
(* _load_snapshot: six separate reads *)

Recover(r) ==
    /\ rpc[r] = "idle"
    /\ RGoto(r, "load_run")
    /\ UNCHANGED <<rlocals, claims, verification, durable, cloud>>

Load(r, at, new, next) ==
    /\ rpc[r] = at
    /\ \E res \in Result : Read(res) /\ RThen(r, res, next, "done", "done")
    /\ snap' = [snap EXCEPT ![r] = new]
    /\ rrun' = [rrun EXCEPT ![r] = new.run]
    /\ UNCHANGED <<robs, rattempt, rend, claims, verification, cloud>>

LoadSnapshot(r) ==
    \/ Load(r, "load_run", [snap[r] EXCEPT !.run = run], "load_proposal")
    \/ Load(r, "load_proposal", [snap[r] EXCEPT !.proposal = proposal], "load_checkpoint")
    \/ Load(r, "load_checkpoint", [snap[r] EXCEPT !.checkpoint = checkpoint], "load_approval")
    \/ Load(r, "load_approval", [snap[r] EXCEPT !.approval = approval], "load_idempotency")
    \/ Load(r, "load_idempotency", [snap[r] EXCEPT !.idem = idem], "load_evidence")
    \/ Load(r, "load_evidence", [snap[r] EXCEPT !.evidence = evidence], "dispatch")

-----------------------------------------------------------------------------
(* The decision, taken on the snapshot alone *)

positive_approval_matches(s) == s.approval.decision = "APPROVED"

\* _return_verified up to its first write.
return_verified(s) ==
    CASE \/ s.evidence = NoEvidence
         \/ s.idem.status # "COMPLETED"
         \/ s.idem.proof # s.evidence.id           -> "deferred"
      [] OTHER ->
           CASE s.run.state = "RECOVERY_REQUIRED"     -> "verified_to_verifying"
             [] s.run.state = "VERIFYING"             -> "verified_to_success"
             [] s.run.state = "SUCCESS_WITH_EVIDENCE" -> "completed"
             [] OTHER                                 -> "deferred"

recover_awaiting_approval(s) ==
    IF /\ s.checkpoint.safe = "AWAITING_APPROVAL"
       /\ s.approval = NoApproval
       /\ s.proposal = "AWAITING_APPROVAL"
    THEN "reconstruct" ELSE "deferred"

recover_approved(s) ==
    IF positive_approval_matches(s) /\ s.idem.status = "none"
    THEN "classified" ELSE "deferred"

recover_execution(s) ==
    CASE ~positive_approval_matches(s) -> "deferred"
      [] positive_approval_matches(s) /\ s.idem.status = "COMPLETED" -> return_verified(s)
      [] positive_approval_matches(s) /\ s.idem.status = "REGISTERED" -> "claim"
      [] OTHER -> "deferred"

recover_verification(s) ==
    CASE s.idem.status = "none"      -> "deferred"
      [] s.idem.status = "COMPLETED" -> return_verified(s)
      [] OTHER                       -> "claim"

recovery_disposition(s) ==
    CASE s.run.state = "AWAITING_APPROVAL" -> recover_awaiting_approval(s)
      [] s.run.state = "APPROVED" -> recover_approved(s)
      [] s.run.state \in {"EXECUTING", "RECOVERY_REQUIRED"} -> recover_execution(s)
      [] s.run.state = "VERIFYING" -> recover_verification(s)
      [] s.run.state = "SUCCESS_WITH_EVIDENCE" -> return_verified(s)
      [] OTHER -> "classified"

Dispatch(r) ==
    /\ rpc[r] = "dispatch"
    /\ RGoto(r, recovery_disposition(snap[r]))
    /\ UNCHANGED <<rlocals, claims, verification, durable, cloud>>

\* The approval flow, if configured, re-reads the run and its checkpoint and
\* hands back the durable interrupt, or fails.
ReconstructApproval(r) ==
    /\ rpc[r] = "reconstruct"
    /\ \E res \in Result, configured \in BOOLEAN :
         /\ Read(res)
         /\ RThen(r, res,
              IF configured /\ run.state = "AWAITING_APPROVAL" /\ checkpoint.interrupt
              THEN "classified" ELSE "deferred",
              "deferred", "deferred")
    /\ UNCHANGED <<rlocals, claims, verification, cloud>>

-----------------------------------------------------------------------------
(* Claiming the recovery window *)

\* Where a claimed recovery continues.
continuation(s) ==
    CASE s.run.state = "VERIFYING" -> "verify"
      [] s.run.state # "VERIFYING" /\ s.idem.ack # None -> "resume_ack"
      [] OTHER -> "readback"

\* Mutant: the lease is not looked at.
ClaimIgnoringLease(r) ==
    /\ rpc[r] = "claim"
    /\ \E res \in Result :
         /\ save_checkpoint(snap[r].checkpoint,
                            [snap[r].checkpoint EXCEPT !.lease = "live"], res)
         /\ RThen(r, res, continuation(snap[r]), "deferred", "deferred")
    /\ claims' = IF checkpoint' # checkpoint THEN claims + 1 ELSE claims
    /\ UNCHANGED <<rlocals, verification, cloud>>

\* The lease in the snapshot is compared with the clock, then the checkpoint
\* is replaced conditionally on its version.  If the version still matches,
\* the snapshot's lease is the stored one.
ClaimActiveRecovery(r) ==
    /\ rpc[r] = "claim"
    /\ LET s == snap[r]
           free == s.checkpoint.version = checkpoint.version => checkpoint.lease # "live"
       IN  \/ /\ ~free
              /\ RGoto(r, "deferred")
              /\ UNCHANGED <<claims, durable>>
           \/ /\ free
              /\ \E res \in Result :
                   /\ save_checkpoint(s.checkpoint,
                                      [s.checkpoint EXCEPT !.lease = "live"], res)
                   /\ RThen(r, res, continuation(s), "deferred", "deferred")
              /\ claims' = IF checkpoint' # checkpoint THEN claims + 1 ELSE claims
    /\ UNCHANGED <<rlocals, verification, cloud>>

\* Thirty seconds pass.
LeaseExpires ==
    /\ checkpoint.lease = "live"
    /\ checkpoint' = [checkpoint EXCEPT !.lease = "expired"]
    /\ claims' = 0
    /\ UNCHANGED <<rpc, rlocals, verification, cloud, run, proposal, approval,
                   idem, evidence, audit, faults>>

-----------------------------------------------------------------------------
(* Read-only continuations *)

\* A conditional transition by the recovery call, from the Run it holds.
Transition(r, at, to, ok, bad) ==
    /\ rpc[r] = at
    /\ \E res \in Result :
         /\ transition_run(rrun[r].state, rrun[r].version, to, res)
         /\ RThen(r, res, ok, bad, bad)
         /\ rrun' = IF res = "ok"
                    THEN [rrun EXCEPT ![r] = [state |-> to, version |-> rrun[r].version + 1]]
                    ELSE rrun
    /\ UNCHANGED <<snap, robs, rattempt, rend, claims, verification, cloud>>

\* _return_verified closes on existing proof; the audit event comes after.
VerifiedToVerifying(r) ==
    Transition(r, "verified_to_verifying", "VERIFYING", "verified_to_success", "deferred")
VerifiedToSuccess(r) ==
    Transition(r, "verified_to_success", "SUCCESS_WITH_EVIDENCE", "completed", "deferred")

\* _resume_from_durable_ack
ResumeFromDurableAck(r) ==
    Transition(r, "resume_ack", "VERIFYING", "verify", "deferred")

\* Without the service it needs, a claimed recovery ends with the operator; the
\* claim, and a transition already made, stay.
ContinuationNotConfigured(r) ==
    /\ ServicesOptional
    /\ rpc[r] = "verify" \/ (rpc[r] = "readback" /\ rattempt[r] = 0)
    /\ RGoto(r, "deferred")
    /\ UNCHANGED <<rlocals, claims, verification, durable, cloud>>

CallVerify(r) ==
    /\ rpc[r] = "verify"
    /\ RGoto(r, "await_verify")
    /\ VGoto(r, "get_run")
    /\ UNCHANGED <<rlocals, claims, locals, durable, cloud>>

verify_outcome(pc) ==
    CASE pc = "succeeded" -> "completed"
      [] pc = "failed"    -> "deferred"
      [] OTHER            -> "raised"

VerifyReturns(r) ==
    /\ rpc[r] = "await_verify"
    /\ vpc[r] \in {"succeeded", "failed", "raised"}
    /\ RGoto(r, verify_outcome(vpc[r]))
    /\ UNCHANGED <<rlocals, claims, verification, durable, cloud>>

\* _reconcile_missing_ack: poll the instance, audit each observation.
ReadBack(r) ==
    /\ rpc[r] = "readback"
    /\ \/ /\ robs' = [robs EXCEPT ![r] = instance]
          /\ RGoto(r, "append_observed")
       \/ /\ robs' = [robs EXCEPT ![r] = "none"]
          /\ RGoto(r, "mark")
    /\ rattempt' = [rattempt EXCEPT ![r] = @ + 1]
    /\ UNCHANGED <<snap, rrun, rend, claims, verification, durable, cloud>>

readback_disposition(r) ==
    CASE robs[r] = "stopped" -> "readback_to_verifying"
      [] robs[r] = "stopping" /\ rattempt[r] < MaxAttempts -> "readback"
      [] OTHER -> "mark"

\* If the observation cannot be audited the call ends without an audit event.
AppendReadBack(r) ==
    /\ rpc[r] = "append_observed"
    /\ \E res \in Result :
         /\ append_audit_event("RECOVERY_OBSERVED", res)
         /\ RThen(r, res, readback_disposition(r), "mark", "mark")
         /\ rend' = [rend EXCEPT ![r] = IF res = "ok" THEN "deferred" ELSE "done"]
    /\ UNCHANGED <<snap, rrun, robs, rattempt, claims, verification, cloud>>

(* _complete_from_recovery_observation *)

ReadBackToVerifying(r) ==
    Transition(r, "readback_to_verifying", "VERIFYING", "create_evidence", "mark")

\* Mutant: evidence that cannot be stored is taken for stored.
RecoveryEvidenceAssumed(r) ==
    /\ rpc[r] = "create_evidence"
    /\ \E res \in Result :
         /\ create_verification_evidence(r, "RECOVERY_READ_BACK", res)
         /\ RThen(r, res, "complete", "complete", "complete")
    /\ UNCHANGED <<rlocals, claims, verification, cloud>>

RecoveryCreateEvidence(r) ==
    /\ rpc[r] = "create_evidence"
    /\ \E res \in Result :
         /\ create_verification_evidence(r, "RECOVERY_READ_BACK", res)
         /\ RThen(r, res, "complete", "mark", "mark")
    /\ UNCHANGED <<rlocals, claims, verification, cloud>>

RecoveryComplete(r) ==
    /\ rpc[r] = "complete"
    /\ \E res \in Result :
         /\ complete_idempotency("COMPLETED", r, res)
         /\ RThen(r, res, "append_completed", "mark", "mark")
    /\ UNCHANGED <<rlocals, claims, verification, cloud>>

RecoveryAppendCompleted(r) ==
    /\ rpc[r] = "append_completed"
    /\ \E res \in Result :
         /\ append_audit_event("RECOVERY_COMPLETED", res)
         /\ RThen(r, res, "to_success", "mark", "mark")
    /\ UNCHANGED <<rlocals, claims, verification, cloud>>

RecoveryToSuccess(r) ==
    Transition(r, "to_success", "SUCCESS_WITH_EVIDENCE", "completed", "mark")

(* _mark_recovery_required *)

\* Mutants: the run is marked whatever state it is in; only a verifying run is.
RecoveryMarkAnyRun(r) ==
    /\ rpc[r] = "mark"
    /\ \E res \in Result :
         Read(res) /\ RThen(r, res, "mark_transition", rend[r], rend[r])
    /\ rrun' = [rrun EXCEPT ![r] = run]
    /\ UNCHANGED <<snap, robs, rattempt, rend, claims, verification, cloud>>

RecoveryMarkVerifyingOnly(r) ==
    /\ rpc[r] = "mark"
    /\ \E res \in Result :
         /\ Read(res)
         /\ RThen(r, res, IF run.state = "VERIFYING" THEN "mark_transition" ELSE rend[r],
                  rend[r], rend[r])
    /\ rrun' = [rrun EXCEPT ![r] = run]
    /\ UNCHANGED <<snap, robs, rattempt, rend, claims, verification, cloud>>

RecoveryMarkGetRun(r) ==
    /\ rpc[r] = "mark"
    /\ \/ /\ rrun[r].state = "RECOVERY_REQUIRED"
          /\ RGoto(r, rend[r])
          /\ UNCHANGED <<rrun, durable>>
       \/ /\ rrun[r].state # "RECOVERY_REQUIRED"
          /\ \E res \in Result :
               /\ Read(res)
               /\ RThen(r, res,
                    IF run.state \in {"EXECUTING", "VERIFYING"}
                    THEN "mark_transition" ELSE rend[r],
                    rend[r], rend[r])
          /\ rrun' = [rrun EXCEPT ![r] = run]
    /\ UNCHANGED <<snap, robs, rattempt, rend, claims, verification, cloud>>

RecoveryMarkTransition(r) ==
    Transition(r, "mark_transition", "RECOVERY_REQUIRED", rend[r], rend[r])

outcome_event(pc) ==
    CASE pc = "classified" -> "RECOVERY_CLASSIFIED"
      [] pc = "deferred"   -> "RECOVERY_DEFERRED"
      [] OTHER             -> "RECOVERY_COMPLETED"

\* The closing audit event.
Outcome(r) ==
    /\ rpc[r] \in Audits
    /\ \E res \in Result :
         /\ append_audit_event(outcome_event(rpc[r]), res)
         /\ RThen(r, res, "done", "done", "done")
    /\ UNCHANGED <<rlocals, claims, verification, cloud>>

RecovererCrash(r) ==
    /\ rpc[r] \notin {"idle", "done", "crashed", "raised"}
    /\ RGoto(r, "crashed")
    /\ VGoto(r, "crashed")
    /\ UNCHANGED <<rlocals, claims, locals, durable, cloud>>

RecoverStep(r) ==
    \/ Recover(r) \/ LoadSnapshot(r) \/ Dispatch(r) \/ ReconstructApproval(r)
    \/ ClaimActiveRecovery(r) \/ VerifiedToVerifying(r) \/ VerifiedToSuccess(r)
    \/ ResumeFromDurableAck(r) \/ ContinuationNotConfigured(r)
    \/ CallVerify(r) \/ VerifyReturns(r)
    \/ ReadBack(r) \/ AppendReadBack(r) \/ ReadBackToVerifying(r)
    \/ RecoveryCreateEvidence(r) \/ RecoveryComplete(r)
    \/ RecoveryAppendCompleted(r) \/ RecoveryToSuccess(r)
    \/ RecoveryMarkGetRun(r) \/ RecoveryMarkTransition(r) \/ Outcome(r)
=============================================================================
