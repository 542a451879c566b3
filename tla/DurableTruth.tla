--------------------------- MODULE DurableTruth ---------------------------
(***************************************************************************)
(* The durable truth repository as seen by the control plane, for one run  *)
(* and its one action proposal.  Every repository method is one atomic     *)
(* step (the in-memory dictionary; the local file store under its lock).   *)
(* A method comes back with "ok", with "conflict" (StorageConflictError)   *)
(* or with "unavailable" (StorageDependencyError); after "unavailable" the *)
(* caller cannot tell whether the write reached the store, so both happen. *)
(***************************************************************************)
EXTENDS NonZero

CONSTANTS None,        \* absent record or field
          Executors,   \* calls of StopSandboxInstanceCoordinator.execute
          Verifiers,   \* calls of BoundedVerificationCoordinator.verify
          Recoverers,  \* calls of RecoveryCoordinator.recover
          Approvers,   \* calls of DurableApprovalFlow.request / resume
          Sessions,    \* actor sessions (with their nonce) that may decide
          StartApproved, \* TRUE: start from a durably approved run
          MaxFaults    \* bound: repository calls that raise StorageDependencyError

ASSUME WorkersAssumption ==
    /\ None \notin Executors \cup Verifiers \cup Recoverers \cup Sessions
    /\ Executors \cap (Verifiers \cup Recoverers) = {}
    /\ Verifiers \cap Recoverers = {}
ASSUME StartAssumption == StartApproved \in BOOLEAN
ASSUME MaxFaultsAssumption == MaxFaults \in Nat

VARIABLES run,         \* Run: state and optimistic version
          proposal,    \* ActionProposal.state, "none" before it is stored
          approval,    \* Approval: decision and deciding session
          idem,        \* IdempotencyRecord: status, acknowledgement, proof
          checkpoint,  \* Checkpoint: version, last safe state, metadata
          evidence,    \* VerificationEvidence: identity and proof origin
          audit,       \* types of the AuditEvents appended so far
          faults       \* storage faults so far (bounded by MaxFaults)

records == <<run, proposal, approval, idem, checkpoint, evidence, audit>>
durable == <<run, proposal, approval, idem, checkpoint, evidence, audit, faults>>

Run == [state : WorkflowState, version : Nat]
Proposal == {"none", "PROPOSED", "AWAITING_APPROVAL"}
Approval == [decision : {"none", "APPROVED", "DENIED"}, session : Sessions \cup {None}]
IdempotencyStatus ==
    {"none", "REGISTERED", "COMPLETED", "FAILED", "RECONCILIATION_REQUIRED"}
Observers == Verifiers \cup Recoverers
Idempotency == [status : IdempotencyStatus,
                ack    : Executors \cup {None},
                proof  : Observers \cup {None}]
Checkpoint == [version : Nat, safe : WorkflowState, interrupt : BOOLEAN,
               lease : {"none", "live", "expired"}]
Evidence == [id : Observers \cup {None},
             origin : {"none", "EXECUTION_ACKNOWLEDGEMENT", "RECOVERY_READ_BACK"}]
AuditEventType ==
    {"RUN_CREATED", "BUDGET_UPDATED", "TOOL_OBSERVED", "PROPOSAL_CREATED",
     "APPROVAL_REQUESTED", "APPROVAL_RECORDED", "POLICY_DENIED",
     "BUDGET_EXHAUSTED", "MODEL_OUTPUT_REJECTED", "EXECUTION_REQUESTED",
     "EXECUTION_ACKNOWLEDGED", "VERIFICATION_STARTED", "VERIFICATION_OBSERVED",
     "VERIFICATION_RECORDED", "RECOVERY_OBSERVED", "RECOVERY_CLASSIFIED",
     "RECOVERY_DEFERRED", "RECOVERY_COMPLETED"}

DurableTypeOK ==
    /\ run \in Run
    /\ proposal \in Proposal
    /\ approval \in Approval
    /\ idem \in Idempotency
    /\ checkpoint \in Checkpoint
    /\ evidence \in Evidence
    /\ audit \subseteq AuditEventType
    /\ faults \in 0..MaxFaults

NoApproval == [decision |-> "none", session |-> None]
NoClaim == [status |-> "none", ack |-> None, proof |-> None]
NoEvidence == [id |-> None, origin |-> "none"]

\* The records a completed investigation leaves: the run went through RECEIVED,
\* INVESTIGATING, a budget update and EVIDENCE_READY (version 5), the proposal
\* is new, and the second checkpoint names the proposed state as safe.
ProposedInit ==
    /\ run = [state |-> "REMEDIATION_PROPOSED", version |-> 5]
    /\ proposal = "PROPOSED"
    /\ approval = NoApproval
    /\ checkpoint = [version |-> 2, safe |-> "REMEDIATION_PROPOSED",
                     interrupt |-> FALSE, lease |-> "none"]
    /\ audit = {}

\* The records an undisturbed request() and resume() add to them: a session's
\* positive decision, the APPROVED run and its safe checkpoint.
ApprovedInit ==
    /\ run = [state |-> "APPROVED", version |-> 7]
    /\ proposal = "AWAITING_APPROVAL"
    /\ approval \in [decision : {"APPROVED"}, session : Sessions]
    /\ checkpoint = [version |-> 4, safe |-> "APPROVED",
                     interrupt |-> TRUE, lease |-> "none"]
    /\ audit = {"APPROVAL_REQUESTED", "APPROVAL_RECORDED"}

DurableInit ==
    /\ IF StartApproved THEN ApprovedInit ELSE ProposedInit
    /\ idem = NoClaim
    /\ evidence = NoEvidence
    /\ faults = 0

-----------------------------------------------------------------------------
\* A storage call that ends in StorageDependencyError.
Fault == faults < MaxFaults /\ faults' = faults + 1

\* A read: nothing changes, and it may be unavailable.
Read(res) ==
    /\ UNCHANGED records
    /\ \/ res = "ok" /\ UNCHANGED faults
       \/ res = "unavailable" /\ Fault

\* A conditional write: applied when its condition holds, refused when not.
\* An unavailable write may still have been applied.
Write(condition, change, same, res) ==
    \/ res = "ok" /\ condition /\ change /\ UNCHANGED faults
    \/ res = "conflict" /\ ~condition /\ same /\ UNCHANGED faults
    \/ res = "unavailable" /\ Fault /\ (same \/ (condition /\ change))

\* The cross-record proof the repository demands of two kinds of target state.
DecisionProven(to) ==
    /\ to = "APPROVED" => proposal = "AWAITING_APPROVAL" /\ approval.decision = "APPROVED"
    /\ to = "DENIED_BY_HUMAN" => proposal = "AWAITING_APPROVAL" /\ approval.decision = "DENIED"

SuccessProven(to) ==
    to = "SUCCESS_WITH_EVIDENCE" =>
        /\ evidence # NoEvidence
        /\ idem.status = "COMPLETED"
        /\ idem.proof = evidence.id

\* Optimistic transition of the run from an expected state and version.
transition_run(from, version, to, res) ==
    LET current == /\ run.state = from
                   /\ run.version = version
                   /\ DecisionProven(to)
                   /\ SuccessProven(to)
        legal   == to \in ALLOWED_WORKFLOW_TRANSITIONS[from]
    IN  /\ \/ /\ current => legal
              /\ Write(current, run' = [state |-> to, version |-> version + 1],
                       UNCHANGED run, res)
           \/ res = "illegal" /\ current /\ ~legal /\ UNCHANGED <<run, faults>>
        /\ UNCHANGED <<proposal, approval, idem, checkpoint, evidence, audit>>

transition_proposal(res) ==
    /\ Write(proposal = "PROPOSED", proposal' = "AWAITING_APPROVAL",
             UNCHANGED proposal, res)
    /\ UNCHANGED <<run, approval, idem, checkpoint, evidence, audit>>

\* Mutant: the last decision wins.
create_approval_overwriting(decision, session, res) ==
    /\ Write(proposal = "AWAITING_APPROVAL",
             approval' = [decision |-> decision, session |-> session],
             UNCHANGED approval, res)
    /\ UNCHANGED <<run, proposal, idem, checkpoint, evidence, audit>>

\* A decision carries the time it was taken, so a second one is never equal to
\* the first and is refused; the flow reconciles identical decisions by reading.
create_approval(decision, session, res) ==
    /\ Write(proposal = "AWAITING_APPROVAL" /\ approval = NoApproval,
             approval' = [decision |-> decision, session |-> session],
             UNCHANGED approval, res)
    /\ UNCHANGED <<run, proposal, idem, checkpoint, evidence, audit>>

\* An existing record with the same owner is returned as it is: the second of
\* two racing registrations succeeds without writing.
register_idempotency(res) ==
    /\ \/ idem.status # "none" /\ res = "ok" /\ UNCHANGED <<idem, faults>>
       \/ idem.status # "none" /\ res = "unavailable" /\ Fault /\ UNCHANGED idem
       \/ /\ idem.status = "none"
          /\ Write(/\ proposal = "AWAITING_APPROVAL"
                   /\ approval.decision = "APPROVED"
                   /\ run.state = "APPROVED",
                   idem' = [idem EXCEPT !.status = "REGISTERED"],
                   UNCHANGED idem, res)
    /\ UNCHANGED <<run, proposal, approval, checkpoint, evidence, audit>>

\* Resolve a registered claim; outcome FAILED and AMBIGUOUS carry no proof.
complete_idempotency(status, proof, res) ==
    /\ Write(idem.status = "REGISTERED",
             idem' = [status |-> status, ack |-> idem.ack, proof |-> proof],
             UNCHANGED idem, res)
    /\ UNCHANGED <<run, proposal, approval, checkpoint, evidence, audit>>

record_execution_acknowledgement(ack, res) ==
    /\ Write(idem.status = "REGISTERED" /\ idem.ack \in {None, ack},
             idem' = [idem EXCEPT !.ack = ack],
             UNCHANGED idem, res)
    /\ UNCHANGED <<run, proposal, approval, checkpoint, evidence, audit>>

\* Versioned replacement of the checkpoint by one built from `base`.
save_checkpoint(base, new, res) ==
    /\ Write(checkpoint.version = base.version,
             checkpoint' = [new EXCEPT !.version = base.version + 1],
             UNCHANGED checkpoint, res)
    /\ UNCHANGED <<run, proposal, approval, idem, evidence, audit>>

\* Event identities are fresh, so an append conflicts only when the per-run
\* capacity is used up; that is counted as a fault.
append_audit_event(type, res) ==
    /\ \/ res = "ok" /\ audit' = audit \cup {type} /\ UNCHANGED faults
       \/ res = "conflict" /\ Fault /\ UNCHANGED audit
       \/ res = "unavailable" /\ Fault /\ audit' \in {audit, audit \cup {type}}
    /\ UNCHANGED <<run, proposal, approval, idem, checkpoint, evidence>>

\* Mutant: existing evidence is replaced.
create_verification_evidence_overwriting(id, origin, res) ==
    /\ Write(run.state = "VERIFYING",
             evidence' = [id |-> id, origin |-> origin],
             UNCHANGED evidence, res)
    /\ UNCHANGED <<run, proposal, approval, idem, checkpoint, audit>>

\* Every attempt builds evidence with a fresh identity, so evidence that
\* already exists is in conflict with any other attempt's.
create_verification_evidence(id, origin, res) ==
    LET acknowledged == origin = "EXECUTION_ACKNOWLEDGEMENT" /\ idem.ack # None
        readBack     == /\ origin = "RECOVERY_READ_BACK"
                        /\ idem.status = "REGISTERED"
                        /\ idem.ack = None
                        /\ approval.decision = "APPROVED"
    IN  /\ Write(evidence = NoEvidence /\ run.state = "VERIFYING"
                   /\ (acknowledged \/ readBack),
                 evidence' = [id |-> id, origin |-> origin],
                 UNCHANGED evidence, res)
        /\ UNCHANGED <<run, proposal, approval, idem, checkpoint, audit>>
=============================================================================
