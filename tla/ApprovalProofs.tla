--------------------------- MODULE ApprovalProofs ---------------------------
(***************************************************************************)
(* Lemmas about the vocabulary, the durable truth repository and the       *)
(* approval flow, which the workflows they are part of rely on.            *)
(***************************************************************************)
EXTENDS ApprovalFlow, TLAPS

(***************************************************************************)
(* The vocabulary and the repository.                                      *)
(***************************************************************************)

\* A failure always maps to a workflow state.
LEMMA FailureStates ==
    ASSUME NEW kind
    PROVE  workflow_state_for_failure(kind) \in WorkflowState
  BY DEF workflow_state_for_failure, WorkflowState, TERMINAL_WORKFLOW_STATES

\* The continuation After picks is one of its alternatives or "raised".
LEMMA AfterType ==
    ASSUME NEW S, NEW res \in Result, NEW a \in S, NEW b \in S, NEW c \in S,
           "raised" \in S
    PROVE  After(res, a, b, c) \in S
  BY DEF After, Result

\* A transition changes the run to the target state and the next version, from
\* the expected state, or not at all; it changes no other record.
LEMMA TransitionRun ==
    ASSUME DurableTypeOK, NEW from, NEW version, NEW to \in WorkflowState,
           NEW res, transition_run(from, version, to, res)
    PROVE  /\ DurableTypeOK'
           /\ \/ run' = run
              \/ /\ run.state = from
                 /\ run.version = version
                 /\ run' = [state |-> to, version |-> version + 1]
                 /\ to \in ALLOWED_WORKFLOW_TRANSITIONS[from]
           /\ res = "ok" => /\ run.state = from
                            /\ run' = [state |-> to, version |-> version + 1]
  <1>1. /\ UNCHANGED <<proposal, approval, idem, checkpoint, evidence, audit>>
        /\ faults' \in 0..MaxFaults
        /\ \/ run' = run
           \/ /\ run.state = from
              /\ run.version = version
              /\ run' = [state |-> to, version |-> version + 1]
              /\ to \in ALLOWED_WORKFLOW_TRANSITIONS[from]
        /\ res = "ok" => /\ run.state = from
                         /\ run' = [state |-> to, version |-> version + 1]
    BY MaxFaultsAssumption DEF transition_run, Write, Fault, DurableTypeOK
  <1>2. run' \in Run
    BY <1>1 DEF DurableTypeOK, Run
  <1> QED
    BY <1>1, <1>2 DEF DurableTypeOK

\* A read changes no record.
LEMMA ReadType ==
    ASSUME DurableTypeOK, NEW res, Read(res)
    PROVE  DurableTypeOK' /\ UNCHANGED records
  BY MaxFaultsAssumption DEF Read, Fault, DurableTypeOK, records

\* transition_proposal keeps the durable types and never touches the run.
LEMMA TransitionProposal ==
    ASSUME DurableTypeOK, NEW res, transition_proposal(res)
    PROVE  DurableTypeOK' /\ run' = run
  BY MaxFaultsAssumption DEF transition_proposal, Proposal, Write, Fault, DurableTypeOK

\* create_approval stores at most one typed decision and never touches the run.
LEMMA CreateApprovalType ==
    ASSUME DurableTypeOK, NEW d \in {"none", "APPROVED", "DENIED"},
           NEW s \in Sessions \cup {None}, NEW res, create_approval(d, s, res)
    PROVE  DurableTypeOK' /\ run' = run
  BY MaxFaultsAssumption DEF create_approval, Write, Fault, DurableTypeOK, Approval

\* register_idempotency stores a typed claim and never touches the run.
LEMMA RegisterIdempotency ==
    ASSUME DurableTypeOK, NEW res, register_idempotency(res)
    PROVE  DurableTypeOK' /\ run' = run
  BY MaxFaultsAssumption
     DEF register_idempotency, Write, Fault, DurableTypeOK, Idempotency,
         IdempotencyStatus

\* complete_idempotency resolves the claim with a typed result only.
LEMMA CompleteIdempotency ==
    ASSUME DurableTypeOK, NEW status \in IdempotencyStatus,
           NEW proof \in Observers \cup {None}, NEW res,
           complete_idempotency(status, proof, res)
    PROVE  DurableTypeOK' /\ run' = run
  BY MaxFaultsAssumption
     DEF complete_idempotency, Write, Fault, DurableTypeOK, Idempotency

\* record_execution_acknowledgement stores the caller in the claim only.
LEMMA RecordAck ==
    ASSUME DurableTypeOK, NEW ack \in Executors, NEW res,
           record_execution_acknowledgement(ack, res)
    PROVE  DurableTypeOK' /\ run' = run
  BY MaxFaultsAssumption
     DEF record_execution_acknowledgement, Write, Fault, DurableTypeOK, Idempotency

\* save_checkpoint stores a typed checkpoint with the next version only.
LEMMA SaveCheckpoint ==
    ASSUME DurableTypeOK, NEW base \in Checkpoint, NEW new \in Checkpoint, NEW res,
           save_checkpoint(base, new, res)
    PROVE  DurableTypeOK' /\ run' = run
  <1>1. [new EXCEPT !.version = base.version + 1] \in Checkpoint
    BY DEF Checkpoint
  <1> QED
    BY <1>1, MaxFaultsAssumption DEF save_checkpoint, Write, Fault, DurableTypeOK

\* append_audit_event adds a known event and changes no other record.
LEMMA AppendAuditEvent ==
    ASSUME DurableTypeOK, NEW type \in AuditEventType, NEW res,
           append_audit_event(type, res)
    PROVE  DurableTypeOK' /\ run' = run
  BY MaxFaultsAssumption DEF append_audit_event, Fault, DurableTypeOK

\* create_verification_evidence stores typed evidence and never touches the run.
LEMMA CreateVerificationEvidence ==
    ASSUME DurableTypeOK, NEW id \in Observers,
           NEW origin \in {"EXECUTION_ACKNOWLEDGEMENT", "RECOVERY_READ_BACK"}, NEW res,
           create_verification_evidence(id, origin, res)
    PROVE  DurableTypeOK' /\ run' = run
  BY MaxFaultsAssumption
     DEF create_verification_evidence, Write, Fault, DurableTypeOK, Evidence

-----------------------------------------------------------------------------
(***************************************************************************)
(* Where a call continues after a repository call.                         *)
(***************************************************************************)

\* The continuation of a call, result by result.
LEMMA AfterPoint ==
    ASSUME NEW res, NEW a, NEW b, NEW c
    PROVE  /\ res = "ok" => After(res, a, b, c) = a
           /\ res = "conflict" => After(res, a, b, c) = b
           /\ res = "unavailable" => After(res, a, b, c) = c
  BY DEF After

\* A call that comes back without an illegal transition does not raise.
LEMMA AfterLegal ==
    ASSUME NEW res \in Result, res # "illegal", NEW a, NEW b, NEW c
    PROVE  After(res, a, b, c) \in {a, b, c}
  BY AfterPoint DEF Result

\* transition_run raises only for a target the table does not allow.
LEMMA TransitionLegal ==
    ASSUME NEW from, NEW version, NEW to \in ALLOWED_WORKFLOW_TRANSITIONS[from],
           NEW res, transition_run(from, version, to, res)
    PROVE  res # "illegal"
  BY DEF transition_run, Write

\* No other repository call raises a WorkflowTransitionError.
LEMMA CallsLegal ==
    ASSUME NEW res
    PROVE  /\ Read(res) => res # "illegal"
           /\ register_idempotency(res) => res # "illegal"
           /\ transition_proposal(res) => res # "illegal"
           /\ \A type : append_audit_event(type, res) => res # "illegal"
           /\ \A status, proof : complete_idempotency(status, proof, res) => res # "illegal"
           /\ \A ack : record_execution_acknowledgement(ack, res) => res # "illegal"
           /\ \A base, new : save_checkpoint(base, new, res) => res # "illegal"
           /\ \A id, origin : create_verification_evidence(id, origin, res) => res # "illegal"
           /\ \A d, s : create_approval(d, s, res) => res # "illegal"
  <1>1. Read(res) => res # "illegal"
    BY DEF Read
  <1>2. register_idempotency(res) => res # "illegal"
    BY DEF register_idempotency, Write
  <1>3. transition_proposal(res) => res # "illegal"
    BY DEF transition_proposal, Write
  <1>4. \A type : append_audit_event(type, res) => res # "illegal"
    BY DEF append_audit_event
  <1>5. \A status, proof : complete_idempotency(status, proof, res) => res # "illegal"
    BY DEF complete_idempotency, Write
  <1>6. \A ack : record_execution_acknowledgement(ack, res) => res # "illegal"
    BY DEF record_execution_acknowledgement, Write
  <1>7. \A base, new : save_checkpoint(base, new, res) => res # "illegal"
    BY DEF save_checkpoint, Write
  <1>8. \A id, origin : create_verification_evidence(id, origin, res) => res # "illegal"
    BY DEF create_verification_evidence, Write
  <1>9. \A d, s : create_approval(d, s, res) => res # "illegal"
    BY DEF create_approval, Write
  <1> QED
    BY <1>1, <1>2, <1>3, <1>4, <1>5, <1>6, <1>7, <1>8, <1>9

-----------------------------------------------------------------------------
(***************************************************************************)
(* How a step may move the run: not at all, or along the transition table. *)
(***************************************************************************)

RunMoves == run' = run \/ run'.state \in ALLOWED_WORKFLOW_TRANSITIONS[run.state]

Step == DurableTypeOK' /\ RunMoves

\* Every repository call of the previous section is a Step.
LEMMA UnchangedStep ==
    ASSUME DurableTypeOK, UNCHANGED durable
    PROVE  Step
  BY DEF durable, Step, RunMoves, DurableTypeOK

\* A repository read is a Step.
LEMMA ReadStep ==
    ASSUME DurableTypeOK, NEW res, Read(res)
    PROVE  Step
  BY ReadType DEF Step, RunMoves, records

\* transition_run is a Step: a stored transition is one the table allows.
LEMMA TransitionStep ==
    ASSUME DurableTypeOK, NEW from, NEW version, NEW to \in WorkflowState,
           NEW res, transition_run(from, version, to, res)
    PROVE  Step
  <1>1. DurableTypeOK'
    BY TransitionRun
  <1>2. \/ run' = run
        \/ /\ run.state = from
           /\ run' = [state |-> to, version |-> version + 1]
           /\ to \in ALLOWED_WORKFLOW_TRANSITIONS[from]
    BY TransitionRun
  <1> QED
    BY <1>1, <1>2 DEF Step, RunMoves

-----------------------------------------------------------------------------
(***************************************************************************)
(* request() and resume().                                                 *)
(***************************************************************************)

\* The control points request() and resume() move to.
LEMMA ApproverPoints ==
    /\ "idle" \in ApproverPc  /\ "get_run" \in ApproverPc
    /\ "get_checkpoint" \in ApproverPc  /\ "to_awaiting_proposal" \in ApproverPc
    /\ "to_awaiting" \in ApproverPc  /\ "agent" \in ApproverPc
    /\ "audit_failure" \in ApproverPc  /\ "persist_failure" \in ApproverPc
    /\ "save_interrupt" \in ApproverPc  /\ "append_requested" \in ApproverPc
    /\ "resume_get_run" \in ApproverPc  /\ "resume_get_checkpoint" \in ApproverPc
    /\ "append_mismatch" \in ApproverPc  /\ "get_approval" \in ApproverPc
    /\ "create_approval" \in ApproverPc  /\ "check_state" \in ApproverPc
    /\ "to_decision" \in ApproverPc  /\ "save_decision" \in ApproverPc
    /\ "append_recorded" \in ApproverPc  /\ "done" \in ApproverPc
    /\ "crashed" \in ApproverPc  /\ "raised" \in ApproverPc
  BY DEF ApproverPc

\* apc keeps its type when an approval call moves to a known control point.
LEMMA AGotoType ==
    ASSUME ApprovalTypeOK, NEW a \in Approvers, NEW p \in ApproverPc, AGoto(a, p)
    PROVE  apc' \in [Approvers -> ApproverPc]
  BY DEF AGoto, ApprovalTypeOK

\* apc keeps its type when an approval call continues according to a result.
LEMMA AThenType ==
    ASSUME ApprovalTypeOK, NEW a \in Approvers, NEW res \in Result,
           NEW x \in ApproverPc, NEW y \in ApproverPc, NEW z \in ApproverPc,
           AThen(a, res, x, y, z)
    PROVE  apc' \in [Approvers -> ApproverPc]
  <1>1. After(res, x, y, z) \in ApproverPc
    BY ApproverPoints, AfterType
  <1> QED
    BY <1>1, AGotoType DEF AThen

\* What resume() makes of an existing decision is a control point.
LEMMA DecisionDisposition ==
    ASSUME NEW a
    PROVE  decision_disposition(a) \in ApproverPc
  <1>1. decision_disposition(a) \in {"create_approval", "check_state", "done"}
    BY Zenon DEF decision_disposition
  <1> QED
    BY <1>1, ApproverPoints

\* Every step of request() and resume() keeps the types.
LEMMA ApproverType ==
    ASSUME DurableTypeOK, ApprovalTypeOK, NEW a \in Approvers,
           ApproverStep(a) \/ ApproverCrash(a)
    PROVE  Step /\ ApprovalTypeOK'
  <1> USE ApproverPoints
  <1>1. CASE Request(a)
    BY <1>1, ReadStep, AThenType
       DEF Request, DurableTypeOK, alocals, ApprovalTypeOK
  <1>2. CASE RequestGetRun(a)
    BY <1>2, ReadStep, AThenType
       DEF RequestGetRun, DurableTypeOK, alocals, ApprovalTypeOK
  <1>3. CASE RequestGetCheckpoint(a)
    BY <1>3, ReadStep, AThenType
       DEF RequestGetCheckpoint, DurableTypeOK, alocals, ApprovalTypeOK
  <1>4. CASE RequestTransitionProposal(a)
    BY <1>4, TransitionProposal, AThenType
       DEF RequestTransitionProposal, Step, RunMoves, alocals, ApprovalTypeOK
  <1>5. CASE RequestTransitionRun(a)
    <2>1. PICK res \in Result :
             /\ transition_run("REMEDIATION_PROPOSED", arun[a].version, "AWAITING_APPROVAL", res)
             /\ AThen(a, res, "agent", "done", "done")
      BY <1>5 DEF RequestTransitionRun
    <2>2. Step
      BY <2>1, TransitionStep DEF WorkflowState
    <2>3. [state |-> "AWAITING_APPROVAL", version |-> arun[a].version + 1] \in Run
      BY DEF ApprovalTypeOK, Run, WorkflowState
    <2> QED
      BY <1>5, <2>1, <2>2, <2>3, AThenType DEF RequestTransitionRun, ApprovalTypeOK
  <1>6. CASE RequestAgent(a)
    <2>1. apc' \in [Approvers -> ApproverPc]
      BY <1>6, AGotoType DEF RequestAgent
    <2>2. afail' \in [Approvers -> FailureKind \cup {"none"}]
      BY <1>6 DEF RequestAgent, FailureKind, ApprovalTypeOK
    <2>3. audit' \subseteq AuditEventType
      BY <1>6 DEF RequestAgent, AuditEventType, DurableTypeOK
    <2>4. Step
      BY <1>6, <2>3 DEF RequestAgent, DurableTypeOK, Step, RunMoves
    <2> QED
      BY <1>6, <2>1, <2>2, <2>4 DEF RequestAgent, ApprovalTypeOK
  <1>7. CASE RequestAuditFailure(a)
    BY <1>7, AppendAuditEvent, AThenType
       DEF RequestAuditFailure, AuditEventType, Step, RunMoves, alocals, ApprovalTypeOK
  <1>8. CASE PersistRequestFailure(a)
    BY <1>8, TransitionStep, AThenType, FailureStates
       DEF PersistRequestFailure, alocals, ApprovalTypeOK
  <1>9. CASE SaveInterrupt(a)
    <2>1. PICK res \in Result :
             /\ save_checkpoint(ackpt[a],
                  [ackpt[a] EXCEPT !.safe = "AWAITING_APPROVAL", !.interrupt = TRUE,
                                   !.lease = checkpoint.lease], res)
             /\ AThen(a, res, "append_requested", "done", "done")
      BY <1>9 DEF SaveInterrupt
    <2>2. /\ ackpt[a] \in Checkpoint
          /\ [ackpt[a] EXCEPT !.safe = "AWAITING_APPROVAL", !.interrupt = TRUE,
                              !.lease = checkpoint.lease] \in Checkpoint
      BY DEF ApprovalTypeOK, DurableTypeOK, Checkpoint, WorkflowState
    <2> QED
      BY <1>9, <2>1, <2>2, SaveCheckpoint, AThenType
         DEF SaveInterrupt, alocals, ApprovalTypeOK, Step, RunMoves
  <1>10. CASE AppendApprovalRequested(a)
    BY <1>10, AppendAuditEvent, AThenType
       DEF AppendApprovalRequested, AuditEventType, Step, RunMoves, alocals,
           ApprovalTypeOK
  <1>11. CASE Resume(a)
    <2>1. areply' \in [Approvers -> Approval]
      BY <1>11 DEF Resume, Approval, ApprovalTypeOK
    <2> QED
      BY <1>11, <2>1, AGotoType, UnchangedStep DEF Resume, ApprovalTypeOK, DurableTypeOK
  <1>12. CASE ResumeGetRun(a)
    BY <1>12, ReadStep, AThenType
       DEF ResumeGetRun, DurableTypeOK, alocals, ApprovalTypeOK
  <1>13. CASE ResumeGetCheckpoint(a)
    BY <1>13, ReadStep, AThenType
       DEF ResumeGetCheckpoint, DurableTypeOK, alocals, ApprovalTypeOK
  <1>14. CASE AppendMismatch(a)
    BY <1>14, AppendAuditEvent, AThenType
       DEF AppendMismatch, AuditEventType, Step, RunMoves, alocals, ApprovalTypeOK
  <1>15. CASE GetApproval(a)
    BY <1>15, ReadStep, AThenType, DecisionDisposition
       DEF GetApproval, alocals, ApprovalTypeOK
  <1>16. CASE CreateApproval(a)
    <2>1. PICK res \in Result :
             /\ create_approval(areply[a].decision, areply[a].session, res)
             /\ AThen(a, res, "check_state", "done", "done")
      BY <1>16 DEF CreateApproval
    <2>2. /\ areply[a].decision \in {"none", "APPROVED", "DENIED"}
          /\ areply[a].session \in Sessions \cup {None}
      BY DEF ApprovalTypeOK, Approval
    <2>3. Step
      BY <2>1, <2>2, CreateApprovalType DEF Step, RunMoves
    <2> QED
      BY <1>16, <2>1, <2>3, AThenType DEF CreateApproval, alocals, ApprovalTypeOK
  <1>17. CASE CheckState(a)
    BY <1>17, AGotoType, UnchangedStep
       DEF CheckState, alocals, ApprovalTypeOK
  <1>18. CASE TransitionToDecision(a)
    BY <1>18, TransitionStep, AThenType
       DEF TransitionToDecision, target_state, WorkflowState, TERMINAL_WORKFLOW_STATES,
           alocals, ApprovalTypeOK
  <1>19. CASE SaveDecision(a)
    <2> DEFINE new == [ackpt[a] EXCEPT !.safe = target_state(areply[a].decision),
                                       !.lease = checkpoint.lease]
    <2>1. PICK res \in Result :
             /\ save_checkpoint(ackpt[a], new, res)
             /\ AThen(a, res, "append_recorded", "done", "done")
      BY <1>19 DEF SaveDecision
    <2>2. target_state(areply[a].decision) \in WorkflowState
      BY DEF target_state, WorkflowState, TERMINAL_WORKFLOW_STATES
    <2>3. ackpt[a] \in Checkpoint /\ new \in Checkpoint
      BY <2>2 DEF ApprovalTypeOK, DurableTypeOK, Checkpoint
    <2> HIDE DEF new
    <2> QED
      BY <1>19, <2>1, <2>3, SaveCheckpoint, AThenType
         DEF SaveDecision, alocals, ApprovalTypeOK, Step, RunMoves
  <1>20. CASE AppendApprovalRecorded(a)
    BY <1>20, AppendAuditEvent, AThenType
       DEF AppendApprovalRecorded, AuditEventType, Step, RunMoves, alocals,
           ApprovalTypeOK
  <1>21. CASE ApproverCrash(a)
    BY <1>21, AGotoType, UnchangedStep
       DEF ApproverCrash, alocals, ApprovalTypeOK
  <1> QED
    BY <1>1, <1>2, <1>3, <1>4, <1>5, <1>6, <1>7, <1>8, <1>9, <1>10, <1>11, <1>12, <1>13,
       <1>14, <1>15, <1>16, <1>17, <1>18, <1>19, <1>20, <1>21
       DEF ApproverStep

\* request() and resume() never touch the instance or the stop history.
LEMMA ApproverCloud ==
    ASSUME NEW a, ApproverStep(a) \/ ApproverCrash(a)
    PROVE  UNCHANGED cloud
  BY DEF ApproverStep, Request, RequestGetRun, RequestGetCheckpoint,
         RequestTransitionProposal, RequestTransitionRun, RequestAgent,
         RequestAuditFailure, PersistRequestFailure, SaveInterrupt,
         AppendApprovalRequested, Resume, ResumeGetRun, ResumeGetCheckpoint,
         AppendMismatch, GetApproval, CreateApproval, CheckState,
         TransitionToDecision, SaveDecision, AppendApprovalRecorded, ApproverCrash

\* request(): a failure is persisted from AWAITING_APPROVAL, with a kind the
\* approval step raises.
RequestFailures == {"POLICY_DENIAL", "VALIDATION_FAILURE", "BUDGET_EXHAUSTION"}

ApproverHolds(a) ==
    /\ apc[a] # "raised"
    /\ apc[a] \in {"audit_failure", "persist_failure"} => afail[a] \in RequestFailures
    /\ apc[a] \in {"agent", "audit_failure", "persist_failure"} =>
         arun[a].state = "AWAITING_APPROVAL"

\* What a step of one request() or resume() call leaves of the others.
LEMMA ApproverFrame ==
    ASSUME ApprovalTypeOK, NEW a \in Approvers, NEW b \in Approvers, b # a,
           ApproverStep(a) \/ ApproverCrash(a)
    PROVE  /\ apc'[b] = apc[b] /\ arun'[b] = arun[b] /\ aprop'[b] = aprop[b]
           /\ ackpt'[b] = ackpt[b] /\ areply'[b] = areply[b] /\ afail'[b] = afail[b]
  <1> USE DEF ApprovalTypeOK, AThen, AGoto, alocals
  <1>1. CASE \/ Request(a) \/ RequestGetRun(a) \/ RequestGetCheckpoint(a)
             \/ RequestTransitionProposal(a) \/ RequestTransitionRun(a)
             \/ RequestAgent(a) \/ RequestAuditFailure(a)
    BY <1>1 DEF Request, RequestGetRun, RequestGetCheckpoint, RequestTransitionProposal,
                RequestTransitionRun, RequestAgent, RequestAuditFailure
  <1>2. CASE \/ PersistRequestFailure(a) \/ SaveInterrupt(a) \/ AppendApprovalRequested(a)
             \/ Resume(a) \/ ResumeGetRun(a) \/ ResumeGetCheckpoint(a)
    BY <1>2 DEF PersistRequestFailure, SaveInterrupt, AppendApprovalRequested, Resume,
                ResumeGetRun, ResumeGetCheckpoint
  <1>3. CASE \/ AppendMismatch(a) \/ GetApproval(a) \/ CreateApproval(a) \/ CheckState(a)
             \/ TransitionToDecision(a) \/ SaveDecision(a) \/ AppendApprovalRecorded(a)
             \/ ApproverCrash(a)
    BY <1>3 DEF AppendMismatch, GetApproval, CreateApproval, CheckState,
                TransitionToDecision, SaveDecision, AppendApprovalRecorded, ApproverCrash
  <1> QED
    BY <1>1, <1>2, <1>3 DEF ApproverStep

\* The control point an approval call reaches after a repository call.
LEMMA AThenPoint ==
    ASSUME ApprovalTypeOK, NEW a \in Approvers, NEW res \in Result, res # "illegal",
           NEW x, NEW y, NEW z, AThen(a, res, x, y, z)
    PROVE  apc'[a] \in {x, y, z}
  <1>1. apc'[a] = After(res, x, y, z)
    BY DEF AThen, AGoto, ApprovalTypeOK
  <1> QED
    BY <1>1, AfterLegal

\* A step of request() or resume() keeps what the call holds.
LEMMA ApproverHolding ==
    ASSUME DurableTypeOK, ApprovalTypeOK, NEW a \in Approvers, ApproverHolds(a),
           ApproverStep(a) \/ ApproverCrash(a)
    PROVE  ApproverHolds(a)'
  <1>p. ASSUME apc'[a] \notin {"raised", "agent", "audit_failure", "persist_failure"}
        PROVE  ApproverHolds(a)'
    BY <1>p DEF ApproverHolds
  <1>t. ALLOWED_WORKFLOW_TRANSITIONS["AWAITING_APPROVAL"] =
          {"APPROVED", "DENIED_BY_HUMAN", "DENIED_BY_POLICY", "MODEL_OUTPUT_INVALID",
           "DEPENDENCY_UNAVAILABLE", "BUDGET_EXHAUSTED", "RECOVERY_REQUIRED"}
    BY DEF ALLOWED_WORKFLOW_TRANSITIONS, WorkflowState
  <1>1. CASE Request(a)
    BY <1>1, <1>p, CallsLegal, AThenPoint DEF Request
  <1>2. CASE RequestGetRun(a)
    BY <1>2, <1>p, CallsLegal, AThenPoint DEF RequestGetRun
  <1>3. CASE RequestGetCheckpoint(a)
    BY <1>3, <1>p, CallsLegal, AThenPoint DEF RequestGetCheckpoint
  <1>4. CASE RequestTransitionProposal(a)
    BY <1>4, <1>p, CallsLegal, AThenPoint DEF RequestTransitionProposal
  <1>5. CASE RequestTransitionRun(a)
    <2>1. "AWAITING_APPROVAL" \in ALLOWED_WORKFLOW_TRANSITIONS["REMEDIATION_PROPOSED"]
      BY DEF ALLOWED_WORKFLOW_TRANSITIONS, WorkflowState
    <2>2. apc'[a] \in {"agent", "done"}
      BY <1>5, <2>1, TransitionLegal, AThenPoint DEF RequestTransitionRun
    <2>3. arun'[a].state = "AWAITING_APPROVAL"
      BY <1>5 DEF RequestTransitionRun, ApprovalTypeOK
    <2> QED
      BY <2>2, <2>3 DEF ApproverHolds
  <1>6. CASE RequestAgent(a)
    <2>1. arun'[a].state = "AWAITING_APPROVAL"
      BY <1>6 DEF RequestAgent, ApproverHolds
    <2>2. \/ apc'[a] \in {"save_interrupt", "done"}
          \/ /\ apc'[a] \in {"persist_failure", "audit_failure"}
             /\ afail'[a] \in RequestFailures
      BY <1>6 DEF RequestAgent, AGoto, RequestFailures, ApprovalTypeOK
    <2> QED
      BY <2>1, <2>2 DEF ApproverHolds
  <1>7. CASE RequestAuditFailure(a)
    <2>1. apc'[a] \in {"persist_failure", "done"}
      BY <1>7, CallsLegal, AThenPoint DEF RequestAuditFailure
    <2> QED
      BY <1>7, <2>1 DEF RequestAuditFailure, alocals, ApproverHolds
  <1>8. CASE PersistRequestFailure(a)
    <2>1. /\ arun[a].state = "AWAITING_APPROVAL"
          /\ afail[a] \in RequestFailures
      BY <1>8 DEF PersistRequestFailure, ApproverHolds
    <2>2. workflow_state_for_failure(afail[a]) \in
            ALLOWED_WORKFLOW_TRANSITIONS[arun[a].state]
      BY <1>t, <2>1 DEF RequestFailures, workflow_state_for_failure
    <2> QED
      BY <1>8, <2>2, <1>p, TransitionLegal, AThenPoint DEF PersistRequestFailure
  <1>9. CASE SaveInterrupt(a)
    BY <1>9, <1>p, CallsLegal, AThenPoint DEF SaveInterrupt
  <1>10. CASE AppendApprovalRequested(a)
    BY <1>10, <1>p, CallsLegal, AThenPoint DEF AppendApprovalRequested
  <1>11. CASE Resume(a) \/ CheckState(a) \/ ApproverCrash(a)
    BY <1>11, <1>p DEF Resume, CheckState, ApproverCrash, AGoto, ApprovalTypeOK
  <1>12. CASE ResumeGetRun(a)
    BY <1>12, <1>p, CallsLegal, AThenPoint DEF ResumeGetRun
  <1>13. CASE ResumeGetCheckpoint(a)
    <2> DEFINE next(matching) ==
          CASE aprop[a] = "none" \/ checkpoint.version = 0 -> "done"
            [] matching /\ checkpoint.interrupt -> "get_approval"
            [] OTHER -> "append_mismatch"
    <2>1. PICK res \in Result, matching \in BOOLEAN :
            Read(res) /\ AThen(a, res, next(matching), "done", "done")
      BY <1>13 DEF ResumeGetCheckpoint
    <2>2. next(matching) \in {"done", "get_approval", "append_mismatch"}
      BY Zenon
    <2> HIDE DEF next
    <2> QED
      BY <2>1, <2>2, <1>p, CallsLegal, AThenPoint
  <1>14. CASE AppendMismatch(a)
    BY <1>14, <1>p, CallsLegal, AThenPoint DEF AppendMismatch
  <1>15. CASE GetApproval(a)
    <2>1. decision_disposition(a) \in {"create_approval", "check_state", "done"}
      BY Zenon DEF decision_disposition
    <2> QED
      BY <1>15, <2>1, <1>p, CallsLegal, AThenPoint DEF GetApproval
  <1>16. CASE CreateApproval(a)
    BY <1>16, <1>p, CallsLegal, AThenPoint DEF CreateApproval
  <1>17. CASE TransitionToDecision(a)
    <2>1. target_state(areply[a].decision) \in ALLOWED_WORKFLOW_TRANSITIONS["AWAITING_APPROVAL"]
      BY <1>t DEF target_state
    <2> QED
      BY <1>17, <2>1, <1>p, TransitionLegal, AThenPoint DEF TransitionToDecision
  <1>18. CASE SaveDecision(a)
    BY <1>18, <1>p, CallsLegal, AThenPoint DEF SaveDecision
  <1>19. CASE AppendApprovalRecorded(a)
    BY <1>19, <1>p, CallsLegal, AThenPoint DEF AppendApprovalRecorded
  <1> QED
    BY <1>1, <1>2, <1>3, <1>4, <1>5, <1>6, <1>7, <1>8, <1>9, <1>10, <1>11, <1>12, <1>13,
       <1>14, <1>15, <1>16, <1>17, <1>18, <1>19
       DEF ApproverStep

=============================================================================
