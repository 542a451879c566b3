---------------------------- MODULE ApprovalFlow ----------------------------
(***************************************************************************)
(* DurableApprovalFlow: request() moves the proposal and the run to        *)
(* AWAITING_APPROVAL and stores the native interrupt; resume() makes one   *)
(* human decision durable.  Each member of Approvers is one call of either.*)
(***************************************************************************)
EXTENDS SandboxInstance

VARIABLES apc,    \* control point of each call
          arun,   \* the Run as read (and as transitioned) by the call
          aprop,  \* the proposal state as read
          ackpt,  \* the Checkpoint as read
          areply, \* resume: the decision and session of the response
          afail   \* request: failure kind being persisted

approvals == <<apc, arun, aprop, ackpt, areply, afail>>

ApproverPc ==
    {"idle", "get_run", "get_checkpoint", "to_awaiting_proposal", "to_awaiting",
     "agent", "audit_failure", "persist_failure", "save_interrupt",
     "append_requested", "resume_get_run", "resume_get_checkpoint",
     "append_mismatch", "get_approval", "create_approval", "check_state",
     "to_decision", "save_decision", "append_recorded",
     "done", "crashed", "raised"}

ApprovalTypeOK ==
    /\ apc \in [Approvers -> ApproverPc]
    /\ arun \in [Approvers -> Run]
    /\ aprop \in [Approvers -> Proposal]
    /\ ackpt \in [Approvers -> Checkpoint]
    /\ areply \in [Approvers -> Approval]
    /\ afail \in [Approvers -> FailureKind \cup {"none"}]

ApprovalInit ==
    /\ apc = [a \in Approvers |-> "idle"]
    /\ arun = [a \in Approvers |-> [state |-> "RECEIVED", version |-> 0]]
    /\ aprop = [a \in Approvers |-> "PROPOSED"]
    /\ ackpt = [a \in Approvers |-> [version |-> 0, safe |-> "RECEIVED",
                                     interrupt |-> FALSE, lease |-> "none"]]
    /\ areply = [a \in Approvers |-> NoApproval]
    /\ afail = [a \in Approvers |-> "none"]

AGoto(a, next) == apc' = [apc EXCEPT ![a] = next]
AThen(a, res, ok, conflict, unavailable) ==
    AGoto(a, After(res, ok, conflict, unavailable))
alocals == <<arun, aprop, ackpt, areply, afail>>

-----------------------------------------------------------------------------
(* request *)

Request(a) ==
    /\ apc[a] = "idle"
    /\ \E res \in Result :
         /\ Read(res)
         /\ AThen(a, res, IF proposal = "none" THEN "done" ELSE "get_run", "done", "done")
    /\ aprop' = [aprop EXCEPT ![a] = proposal]
    /\ UNCHANGED <<arun, ackpt, areply, afail, cloud>>

RequestGetRun(a) ==
    /\ apc[a] = "get_run"
    /\ \E res \in Result : Read(res) /\ AThen(a, res, "get_checkpoint", "done", "done")
    /\ arun' = [arun EXCEPT ![a] = run]
    /\ UNCHANGED <<aprop, ackpt, areply, afail, cloud>>

\* A run that is already awaiting is reconciled from its checkpoint without a
\* write; any other state than the proposed one ends the call.
RequestGetCheckpoint(a) ==
    /\ apc[a] = "get_checkpoint"
    /\ \E res \in Result :
         /\ Read(res)
         /\ AThen(a, res,
              IF /\ arun[a].state = "REMEDIATION_PROPOSED"
                 /\ aprop[a] = "PROPOSED"
                 /\ checkpoint.version > 0
              THEN "to_awaiting_proposal" ELSE "done",
              "done", "done")
    /\ ackpt' = [ackpt EXCEPT ![a] = checkpoint]
    /\ UNCHANGED <<arun, aprop, areply, afail, cloud>>

RequestTransitionProposal(a) ==
    /\ apc[a] = "to_awaiting_proposal"
    /\ \E res \in Result :
         transition_proposal(res) /\ AThen(a, res, "to_awaiting", "done", "done")
    /\ UNCHANGED <<alocals, cloud>>

RequestTransitionRun(a) ==
    /\ apc[a] = "to_awaiting"
    /\ \E res \in Result :
         /\ transition_run("REMEDIATION_PROPOSED", arun[a].version,
                           "AWAITING_APPROVAL", res)
         /\ AThen(a, res, "agent", "done", "done")
    /\ arun' = [arun EXCEPT ![a] = [state |-> "AWAITING_APPROVAL",
                                    version |-> arun[a].version + 1]]
    /\ UNCHANGED <<aprop, ackpt, areply, afail, cloud>>

\* The budget check and the model call that should raise exactly one interrupt:
\* it does; it fails and nothing is stored; the intervention denied it (its own
\* audit event is best effort); or budget or output are invalid, audited first.
RequestAgent(a) ==
    /\ apc[a] = "agent"
    /\ \/ /\ AGoto(a, "save_interrupt")
          /\ UNCHANGED <<afail, audit>>
       \/ /\ AGoto(a, "done")
          /\ UNCHANGED <<afail, audit>>
       \/ /\ AGoto(a, "persist_failure")
          /\ \/ /\ afail' = [afail EXCEPT ![a] = "POLICY_DENIAL"]
                /\ audit' \in {audit, audit \cup {"POLICY_DENIED"}}
             \/ /\ afail' = [afail EXCEPT ![a] = "VALIDATION_FAILURE"]
                /\ audit' \in {audit, audit \cup {"MODEL_OUTPUT_REJECTED"}}
       \/ /\ AGoto(a, "audit_failure")
          /\ \E kind \in {"BUDGET_EXHAUSTION", "VALIDATION_FAILURE"} :
               afail' = [afail EXCEPT ![a] = kind]
          /\ UNCHANGED audit
    /\ UNCHANGED <<arun, aprop, ackpt, areply, cloud, run, proposal, approval,
                   idem, checkpoint, evidence, faults>>

RequestAuditFailure(a) ==
    /\ apc[a] = "audit_failure"
    /\ \E res \in Result :
         /\ append_audit_event(IF afail[a] = "BUDGET_EXHAUSTION"
                               THEN "BUDGET_EXHAUSTED" ELSE "MODEL_OUTPUT_REJECTED", res)
         /\ AThen(a, res, "persist_failure", "done", "done")
    /\ UNCHANGED <<alocals, cloud>>

PersistRequestFailure(a) ==
    /\ apc[a] = "persist_failure"
    /\ \E res \in Result :
         /\ transition_run(arun[a].state, arun[a].version,
                           workflow_state_for_failure(afail[a]), res)
         /\ AThen(a, res, "done", "done", "done")
    /\ UNCHANGED <<alocals, cloud>>

\* The new checkpoint keeps the metadata of the one read, its lease included.
SaveInterrupt(a) ==
    /\ apc[a] = "save_interrupt"
    /\ \E res \in Result :
         /\ save_checkpoint(ackpt[a],
              [ackpt[a] EXCEPT !.safe = "AWAITING_APPROVAL", !.interrupt = TRUE,
                               !.lease = checkpoint.lease], res)
         /\ AThen(a, res, "append_requested", "done", "done")
    /\ UNCHANGED <<alocals, cloud>>

AppendApprovalRequested(a) ==
    /\ apc[a] = "append_requested"
    /\ \E res \in Result :
         /\ append_audit_event("APPROVAL_REQUESTED", res)
         /\ AThen(a, res, "done", "done", "done")
    /\ UNCHANGED <<alocals, cloud>>

-----------------------------------------------------------------------------
(* resume *)

Resume(a) ==
    /\ apc[a] = "idle"
    /\ AGoto(a, "resume_get_run")
    /\ \E decision \in {"APPROVED", "DENIED"}, session \in Sessions :
         areply' = [areply EXCEPT ![a] = [decision |-> decision, session |-> session]]
    /\ aprop' = [aprop EXCEPT ![a] = proposal]
    /\ UNCHANGED <<arun, ackpt, afail, durable, cloud>>

ResumeGetRun(a) ==
    /\ apc[a] = "resume_get_run"
    /\ \E res \in Result :
         Read(res) /\ AThen(a, res, "resume_get_checkpoint", "done", "done")
    /\ arun' = [arun EXCEPT ![a] = run]
    /\ UNCHANGED <<aprop, ackpt, areply, afail, cloud>>

\* Proposal, run and checkpoint must exist, and the response must carry the
\* interrupt and request hash of the checkpoint; one that does not is audited
\* and refused.
ResumeGetCheckpoint(a) ==
    /\ apc[a] = "resume_get_checkpoint"
    /\ \E res \in Result, matching \in BOOLEAN :
         /\ Read(res)
         /\ AThen(a, res,
              CASE aprop[a] = "none" \/ checkpoint.version = 0 -> "done"
                [] matching /\ checkpoint.interrupt -> "get_approval"
                [] OTHER -> "append_mismatch",
              "done", "done")
    /\ ackpt' = [ackpt EXCEPT ![a] = checkpoint]
    /\ UNCHANGED <<arun, aprop, areply, afail, cloud>>

AppendMismatch(a) ==
    /\ apc[a] = "append_mismatch"
    /\ \E res \in Result :
         append_audit_event("POLICY_DENIED", res) /\ AThen(a, res, "done", "done", "done")
    /\ UNCHANGED <<alocals, cloud>>

\* A semantically identical earlier decision is adopted, another is a conflict.
decision_disposition(a) ==
    CASE approval = NoApproval -> "create_approval"
      [] approval # NoApproval /\ approval = areply[a] -> "check_state"
      [] OTHER -> "done"

GetApproval(a) ==
    /\ apc[a] = "get_approval"
    /\ \E res \in Result :
         Read(res) /\ AThen(a, res, decision_disposition(a), "done", "done")
    /\ UNCHANGED <<alocals, cloud>>

CreateApproval(a) ==
    /\ apc[a] = "create_approval"
    /\ \E res \in Result :
         /\ create_approval(areply[a].decision, areply[a].session, res)
         /\ AThen(a, res, "check_state", "done", "done")
    /\ UNCHANGED <<alocals, cloud>>

target_state(decision) ==
    IF decision = "APPROVED" THEN "APPROVED" ELSE "DENIED_BY_HUMAN"

\* The run read at the start decides: already there, or still awaiting.
CheckState(a) ==
    /\ apc[a] = "check_state"
    /\ AGoto(a, IF arun[a].state = "AWAITING_APPROVAL" THEN "to_decision" ELSE "done")
    /\ UNCHANGED <<alocals, durable, cloud>>

TransitionToDecision(a) ==
    /\ apc[a] = "to_decision"
    /\ \E res \in Result :
         /\ transition_run("AWAITING_APPROVAL", arun[a].version,
                           target_state(areply[a].decision), res)
         /\ AThen(a, res, "save_decision", "done", "done")
    /\ UNCHANGED <<alocals, cloud>>

SaveDecision(a) ==
    /\ apc[a] = "save_decision"
    /\ \E res \in Result :
         /\ save_checkpoint(ackpt[a],
              [ackpt[a] EXCEPT !.safe = target_state(areply[a].decision),
                               !.lease = checkpoint.lease], res)
         /\ AThen(a, res, "append_recorded", "done", "done")
    /\ UNCHANGED <<alocals, cloud>>

AppendApprovalRecorded(a) ==
    /\ apc[a] = "append_recorded"
    /\ \E res \in Result :
         /\ append_audit_event("APPROVAL_RECORDED", res)
         /\ AThen(a, res, "done", "done", "done")
    /\ UNCHANGED <<alocals, cloud>>

ApproverCrash(a) ==
    /\ apc[a] \notin {"idle", "done", "crashed", "raised"}
    /\ AGoto(a, "crashed")
    /\ UNCHANGED <<alocals, durable, cloud>>

ApproverStep(a) ==
    \/ Request(a) \/ RequestGetRun(a) \/ RequestGetCheckpoint(a)
    \/ RequestTransitionProposal(a) \/ RequestTransitionRun(a)
    \/ RequestAgent(a) \/ RequestAuditFailure(a) \/ PersistRequestFailure(a)
    \/ SaveInterrupt(a) \/ AppendApprovalRequested(a)
    \/ Resume(a) \/ ResumeGetRun(a) \/ ResumeGetCheckpoint(a)
    \/ AppendMismatch(a) \/ GetApproval(a) \/ CreateApproval(a)
    \/ CheckState(a) \/ TransitionToDecision(a) \/ SaveDecision(a)
    \/ AppendApprovalRecorded(a)
=============================================================================
