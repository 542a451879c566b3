------------------------ MODULE InvestigationProofs ------------------------
(***************************************************************************)
(* Theorems about Investigation, for any number of calls and any bounds:   *)
(* what a human is shown is sound, and what an approval call has taken     *)
(* over is not undone.                                                     *)
(***************************************************************************)
EXTENDS Investigation, ApprovalProofs

(***************************************************************************)
(* The invariant.                                                          *)
(***************************************************************************)

\* How far a run has come; where there is no way on it has come to the end.
Depth == [s \in WorkflowState |->
    CASE s = "RECEIVED" -> 0
      [] s = "INVESTIGATING" -> 1
      [] s = "EVIDENCE_READY" -> 2
      [] s = "REMEDIATION_PROPOSED" -> 3
      [] s = "AWAITING_APPROVAL" -> 4
      [] s \in {"APPROVED", "DENIED_BY_HUMAN"} -> 5
      [] OTHER -> 6]

\* The part of execute() before the evidence is durable, the part that makes the
\* proposal durable, and the whole part that belongs to the call that won the run.
Examining == {"agent", "record_budget", "audit_budget", "audit_tools", "to_evidence_ready",
              "exhausted"}
Proposing == {"checkpoint_1", "create_proposal", "audit_proposal", "to_proposed"}
Finishing == {"checkpoint_2", "get_approval"}
Owning == Examining \cup Proposing \cup Finishing \cup {"audit_failure", "fail_run"}

Owner(i) == ipc[i] \in Owning

\* One call at most owns the run, and once one did the run is not RECEIVED again;
\* the agent is invoked by an owner that leaves its control point with that.
OneOwner ==
    /\ \A i, j \in Investigators : Owner(i) /\ Owner(j) => i = j
    /\ (\E i \in Investigators : Owner(i)) \/ agentCalls > 0 \/ overspent => run.version >= 2
    /\ agentCalls <= 1
    /\ \A i \in Investigators : ipc[i] = "agent" => agentCalls = 0

\* The run is where its owner believes it is, until the owner has proposed.
InPlace(i) ==
    /\ ipc[i] \in Examining =>
         irun[i].state = "INVESTIGATING" /\ run.state = "INVESTIGATING"
    /\ ipc[i] \in Proposing =>
         irun[i].state = "EVIDENCE_READY" /\ run.state = "EVIDENCE_READY"
    /\ ipc[i] = "audit_failure" =>
         irun[i].state \in {"INVESTIGATING", "EVIDENCE_READY"} /\ run.state = irun[i].state
    /\ ipc[i] \in Finishing =>
         irun[i].state = "REMEDIATION_PROPOSED" /\ Depth[run.state] >= 3
    /\ ipc[i] = "fail_run" =>
         irun[i].state \in {"INVESTIGATING", "EVIDENCE_READY", "REMEDIATION_PROPOSED"}

\* A failure is one that the table lets the run end with.
Failing(i) ==
    /\ ipc[i] # "raised"
    /\ ipc[i] \in {"record_budget", "audit_budget"} /\ iout[i] = "intervention" =>
         ikind[i] \in {"POLICY_DENIAL", "VALIDATION_FAILURE"}
    /\ ipc[i] \in {"record_budget", "audit_budget"} /\ iout[i] = "tool_failure" =>
         ikind[i] \in ToolFailure
    /\ ipc[i] = "audit_failure" => ikind[i] \in ToolFailure
    /\ ipc[i] = "fail_run" =>
         IF irun[i].state = "REMEDIATION_PROPOSED"
         THEN ikind[i] \in {"DEPENDENCY_UNAVAILABLE", "RECOVERY_REQUIREMENT"}
         ELSE ikind[i] \in ToolFailure \cup {"BUDGET_EXHAUSTION", "RECOVERY_REQUIREMENT"}

\* The records a proposal needs are stored in the order of the calls.
Backed(i) ==
    /\ ipc[i] \in {"audit_tools", "to_evidence_ready"} \cup Proposing => "BUDGET_UPDATED" \in audit
    /\ ipc[i] \in {"to_evidence_ready"} \cup Proposing => "TOOL_OBSERVED" \in audit
    /\ ipc[i] \in Proposing \ {"checkpoint_1"} => checkpoint.version >= 1
    /\ ipc[i] \in {"audit_proposal", "to_proposed"} => proposal # "none"
    /\ ipc[i] = "to_proposed" => "PROPOSAL_CREATED" \in audit

\* An owner that has spent too much is on its way to a failure.
Spent(i) ==
    overspent /\ Owner(i) =>
        /\ ipc[i] \in {"audit_budget", "exhausted", "fail_run"}
        /\ ipc[i] = "audit_budget" => iout[i] \in {"limit", "intervention"}

\* Three tool observations are audited.
Observed(i) ==
    /\ ipc[i] \in {"idle", "create_run", "audit_created", "to_investigating", "agent",
                   "record_budget", "audit_budget"} => itool[i] = 0
    /\ ipc[i] = "audit_tools" => itool[i] <= 2

Holds(i) == InPlace(i) /\ Failing(i) /\ Backed(i) /\ Spent(i) /\ Observed(i)

Requesting == {"to_awaiting_proposal", "to_awaiting", "agent", "save_interrupt"}
Deciding == {"get_approval", "create_approval", "check_state", "to_decision", "save_decision"}

\* What an approval call knows of the run and the checkpoint it will replace.
Replaces(a) ==
    /\ apc[a] \in {"agent", "save_interrupt"} => Depth[run.state] >= 4
    /\ apc[a] = "save_decision" => Depth[run.state] >= 5
    /\ apc[a] \in Requesting => ackpt[a].version >= 1
    /\ apc[a] \in Deciding => ackpt[a].interrupt
    /\ ackpt[a].interrupt => ackpt[a].version >= 2

\* A checkpoint names a state the run has come to, and the investigation's own
\* two carry no interrupt.
Saved ==
    /\ Depth[checkpoint.safe] <= Depth[run.state]
    /\ checkpoint.interrupt => checkpoint.version >= 2

IInv ==
    /\ TypeOK
    /\ OneOwner
    /\ \A i \in Investigators : Holds(i)
    /\ \A a \in Approvers : ApproverHolds(a) /\ Replaces(a)
    /\ Saved
    /\ ProposedRunIsBacked
    /\ OverspendingNeverProposes

-----------------------------------------------------------------------------
(***************************************************************************)
(* The types.                                                              *)
(***************************************************************************)

\* The control points execute() moves to.
LEMMA InvestigatorPoints ==
    /\ "idle" \in InvestigatorPc /\ "create_run" \in InvestigatorPc
    /\ "audit_created" \in InvestigatorPc /\ "raced" \in InvestigatorPc
    /\ "reconcile" \in InvestigatorPc /\ "to_investigating" \in InvestigatorPc
    /\ "agent" \in InvestigatorPc /\ "record_budget" \in InvestigatorPc
    /\ "audit_budget" \in InvestigatorPc /\ "audit_tools" \in InvestigatorPc
    /\ "to_evidence_ready" \in InvestigatorPc /\ "checkpoint_1" \in InvestigatorPc
    /\ "create_proposal" \in InvestigatorPc /\ "audit_proposal" \in InvestigatorPc
    /\ "to_proposed" \in InvestigatorPc /\ "checkpoint_2" \in InvestigatorPc
    /\ "get_approval" \in InvestigatorPc /\ "exhausted" \in InvestigatorPc
    /\ "audit_failure" \in InvestigatorPc /\ "fail_run" \in InvestigatorPc
    /\ "succeeded" \in InvestigatorPc /\ "failed" \in InvestigatorPc
    /\ "crashed" \in InvestigatorPc /\ "raised" \in InvestigatorPc
  BY DEF InvestigatorPc

\* ipc keeps its type when a call moves to a known control point.
LEMMA IGotoType ==
    ASSUME InvestigationTypeOK, NEW i \in Investigators, NEW p \in InvestigatorPc, IGoto(i, p)
    PROVE  ipc' \in [Investigators -> InvestigatorPc]
  BY DEF IGoto, InvestigationTypeOK

\* ipc keeps its type when a call continues according to a repository result.
LEMMA IThenType ==
    ASSUME InvestigationTypeOK, NEW i \in Investigators, NEW res \in Result,
           NEW x \in InvestigatorPc, NEW y \in InvestigatorPc, NEW z \in InvestigatorPc,
           IThen(i, res, x, y, z)
    PROVE  ipc' \in [Investigators -> InvestigatorPc]
  <1>1. After(res, x, y, z) \in InvestigatorPc
    BY InvestigatorPoints, AfterType
  <1> QED
    BY <1>1, IGotoType DEF IThen

\* create_run stores the received run, and no other record.
LEMMA CreateRunRecords ==
    ASSUME DurableTypeOK, NEW res, create_run(res)
    PROVE  /\ DurableTypeOK' /\ res # "illegal"
           /\ UNCHANGED <<proposal, approval, idem, checkpoint, evidence, audit>>
           /\ run' = run \/ (run = Absent /\ run' = Received)
  <1>1. Received \in Run
    BY DEF Received, Run, WorkflowState
  <1> QED
    BY <1>1, MaxFaultsAssumption DEF create_run, Write, Fault, DurableTypeOK

\* create_proposal stores the proposal, and no other record.
LEMMA CreateProposalRecords ==
    ASSUME DurableTypeOK, NEW res, create_proposal(res)
    PROVE  /\ DurableTypeOK' /\ res # "illegal"
           /\ UNCHANGED <<run, approval, idem, checkpoint, evidence, audit>>
           /\ res = "ok" => proposal' = "PROPOSED"
           /\ proposal' = proposal \/ proposal' = "PROPOSED"
  BY MaxFaultsAssumption DEF create_proposal, Write, Fault, DurableTypeOK, Proposal

\* update_run_budget replaces the counters and the version, and no other record.
LEMMA UpdateBudgetRecords ==
    ASSUME DurableTypeOK, turnsUsed \in 0..MaxTurns, NEW version, NEW used \in 0..MaxTurns,
           NEW res, update_run_budget(version, used, res)
    PROVE  /\ DurableTypeOK' /\ turnsUsed' \in 0..MaxTurns /\ res # "illegal"
           /\ UNCHANGED <<proposal, approval, idem, checkpoint, evidence, audit>>
           /\ \/ run' = run
              \/ run' = [run EXCEPT !.version = run.version + 1]
  <1>1. /\ UNCHANGED <<proposal, approval, idem, checkpoint, evidence, audit>>
        /\ faults' \in 0..MaxFaults /\ res # "illegal"
        /\ turnsUsed' \in 0..MaxTurns
        /\ run' = run \/ run' = [run EXCEPT !.version = run.version + 1]
    BY MaxFaultsAssumption DEF update_run_budget, Write, Fault, DurableTypeOK
  <1>2. run' \in Run
    BY <1>1 DEF DurableTypeOK, Run
  <1> QED
    BY <1>1, <1>2 DEF DurableTypeOK

\* What an agent invocation leads to.
LEMMA AfterBudget ==
    ASSUME NEW i
    PROVE  after_budget(i) \in {"fail_run", "exhausted", "audit_failure", "audit_tools"}
  BY Zenon DEF after_budget

\* A checkpoint of this flow replaces the version it was built for.
LEMMA SaveSafeRecords ==
    ASSUME DurableTypeOK, NEW version \in Nat, NEW safe \in WorkflowState, NEW res,
           SaveSafe(version, safe, res)
    PROVE  /\ DurableTypeOK' /\ res # "illegal"
           /\ UNCHANGED <<run, proposal, approval, idem, evidence, audit>>
           /\ \/ res # "ok" /\ checkpoint' = checkpoint
              \/ /\ checkpoint.version = version /\ checkpoint'.version = version + 1
                 /\ checkpoint'.safe = safe /\ checkpoint'.interrupt = FALSE
  <1> DEFINE new == [version |-> version, safe |-> safe, interrupt |-> FALSE, lease |-> "none"]
  <1>1. /\ new \in Checkpoint
        /\ new.safe = safe /\ new.interrupt = FALSE
    BY DEF Checkpoint
  <1>2. save_checkpoint([version |-> version], new, res)
    BY DEF SaveSafe
  <1> HIDE DEF new
  <1>3. /\ [new EXCEPT !.version = version + 1] \in Checkpoint
        /\ [new EXCEPT !.version = version + 1].version = version + 1
        /\ [new EXCEPT !.version = version + 1].safe = safe
        /\ [new EXCEPT !.version = version + 1].interrupt = FALSE
    BY <1>1 DEF Checkpoint
  <1>4. [version |-> version].version = version
    OBVIOUS
  <1>5. /\ Write(checkpoint.version = version,
                 checkpoint' = [new EXCEPT !.version = version + 1],
                 UNCHANGED checkpoint, res)
        /\ UNCHANGED <<run, proposal, approval, idem, evidence, audit>>
    BY <1>2, <1>4 DEF save_checkpoint
  <1>6. /\ faults' \in 0..MaxFaults /\ res # "illegal"
        /\ \/ res # "ok" /\ checkpoint' = checkpoint
           \/ /\ checkpoint.version = version
              /\ checkpoint' = [new EXCEPT !.version = version + 1]
    BY <1>5, MaxFaultsAssumption DEF Write, Fault, DurableTypeOK
  <1> QED
    BY <1>3, <1>5, <1>6 DEF DurableTypeOK

\* An audit event is added, and no other record changes.
LEMMA AuditRecords ==
    ASSUME DurableTypeOK, NEW type \in AuditEventType, NEW res, append_audit_event(type, res)
    PROVE  /\ DurableTypeOK' /\ res # "illegal" /\ audit \subseteq audit'
           /\ UNCHANGED <<run, proposal, approval, idem, checkpoint, evidence>>
           /\ res = "ok" => type \in audit'
  <1>1. DurableTypeOK'
    BY AppendAuditEvent
  <1> QED
    BY <1>1 DEF append_audit_event

\* The budget an invocation leaves is one of the run's.
LEMMA BudgetUsed ==
    ASSUME turnsUsed \in 0..MaxTurns, NEW turns \in 0..MaxTurns + 1
    PROVE  (IF turns > MaxTurns - turnsUsed THEN MaxTurns ELSE turnsUsed + turns) \in 0..MaxTurns
  BY BudgetAssumption

\* Every step of execute() keeps the types.
LEMMA InvestigatorType ==
    ASSUME DurableTypeOK, InvestigationTypeOK, NEW i \in Investigators, Observed(i),
           InvestigatorStep(i) \/ InvestigatorCrash(i)
    PROVE  DurableTypeOK' /\ InvestigationTypeOK'
  <1> USE InvestigatorPoints DEF history
  <1>1. CASE Investigate(i)
    <2> DEFINE next == CASE run = Absent -> "create_run"
                         [] run = Received -> "to_investigating"
                         [] run.state = "REMEDIATION_PROPOSED" -> "reconcile"
                         [] OTHER -> "failed"
    <2>1. next \in InvestigatorPc
      BY Zenon
    <2>2. \E res \in Result : Read(res) /\ IThen(i, res, next, "failed", "failed")
      BY <1>1 DEF Investigate
    <2> HIDE DEF next
    <2> QED
      BY <1>1, <2>1, <2>2, ReadType, IThenType DEF Investigate, InvestigationTypeOK
  <1>2. CASE CreateRun(i)
    BY <1>2, CreateRunRecords, IThenType DEF CreateRun, InvestigationTypeOK
  <1>3. CASE AuditCreated(i)
    BY <1>3, AppendAuditEvent, IThenType DEF AuditCreated, AuditEventType, InvestigationTypeOK
  <1>4. CASE Raced(i)
    BY <1>4, ReadType, IThenType DEF Raced, InvestigationTypeOK
  <1>5. CASE ReconcileCompletion(i)
    BY <1>5, ReadType, IThenType DEF ReconcileCompletion, InvestigationTypeOK
  <1>6. CASE ToInvestigating(i)
    <2>1. [state |-> "INVESTIGATING", version |-> 2] \in Run
      BY DEF Run, WorkflowState
    <2>2. irun' \in [Investigators -> Run]
      BY <1>6, <2>1 DEF ToInvestigating, InvestigationTypeOK
    <2>3. "INVESTIGATING" \in WorkflowState
      BY DEF WorkflowState
    <2> QED
      BY <1>6, <2>2, <2>3, TransitionRun, IThenType DEF ToInvestigating, InvestigationTypeOK
  <1>7. CASE AgentNotInvoked(i)
    BY <1>7, IGotoType DEF AgentNotInvoked, durable, DurableTypeOK, InvestigationTypeOK
  <1>8. CASE AgentInvoked(i)
    <2>1. ikind' \in [Investigators -> FailureKind \cup {"none"}]
      BY <1>8 DEF AgentInvoked, FailureKind, ToolFailure, InvestigationTypeOK
    <2>2. /\ ipc' \in [Investigators -> InvestigatorPc]
          /\ iout' \in [Investigators -> AgentOutcome]
      BY <1>8, IGotoType DEF AgentInvoked, InvestigationTypeOK
    <2>3. DurableTypeOK'
      BY <1>8 DEF AgentInvoked, durable, DurableTypeOK
    <2> QED
      BY <1>8, <2>1, <2>2, <2>3 DEF AgentInvoked, InvestigationTypeOK
  <1>9. CASE RecordBudget(i)
    <2>1. PICK turns \in IF iout[i] = "exception" THEN {0} ELSE 0..MaxTurns + 1,
               res \in Result :
            /\ update_run_budget(irun[i].version,
                 IF turns > MaxTurns - turnsUsed THEN MaxTurns ELSE turnsUsed + turns, res)
            /\ IThen(i, res, "audit_budget", "failed", "failed")
            /\ iout' = [iout EXCEPT ![i] =
                          IF turns > MaxTurns - turnsUsed /\ @ # "intervention"
                          THEN "limit" ELSE @]
            /\ overspent' = (overspent \/ turns > MaxTurns - turnsUsed)
      BY <1>9 DEF RecordBudget
    <2>t. turns \in 0..MaxTurns + 1
      BY BudgetAssumption
    <2>2. DurableTypeOK' /\ turnsUsed' \in 0..MaxTurns
      BY <2>1, <2>t, BudgetUsed, UpdateBudgetRecords DEF InvestigationTypeOK
    <2>3. iout' \in [Investigators -> AgentOutcome]
      BY <2>1 DEF AgentOutcome, InvestigationTypeOK
    <2>4. overspent' \in BOOLEAN
      BY <2>1, Zenon DEF InvestigationTypeOK
    <2>5. irun' \in [Investigators -> Run]
      BY <1>9 DEF RecordBudget, Run, InvestigationTypeOK
    <2>6. ipc' \in [Investigators -> InvestigatorPc]
      BY <2>1, IThenType
    <2> QED
      BY <1>9, <2>2, <2>3, <2>4, <2>5, <2>6 DEF RecordBudget, InvestigationTypeOK
  <1>10. CASE AuditBudget(i)
    <2>1. ipc' \in [Investigators -> InvestigatorPc] /\ DurableTypeOK'
      BY <1>10, AfterBudget, AppendAuditEvent, IThenType DEF AuditBudget, AuditEventType
    <2>2. ikind' \in [Investigators -> FailureKind \cup {"none"}]
      BY <1>10 DEF AuditBudget, FailureKind, InvestigationTypeOK
    <2> QED
      BY <1>10, <2>1, <2>2 DEF AuditBudget, InvestigationTypeOK
  <1>11. CASE AuditTools(i)
    <2>1. itool' \in [Investigators -> 0..3]
      BY <1>11 DEF AuditTools, Observed, InvestigationTypeOK
    <2> QED
      BY <1>11, <2>1, AppendAuditEvent, IThenType
         DEF AuditTools, FailUnavailable, FailureKind, AuditEventType, InvestigationTypeOK
  <1>12. CASE ToEvidenceReady(i)
    <2>1. "EVIDENCE_READY" \in WorkflowState
      BY DEF WorkflowState
    <2>2. irun' \in [Investigators -> Run]
      BY <1>12, <2>1 DEF ToEvidenceReady, Run, InvestigationTypeOK
    <2> QED
      BY <1>12, <2>1, <2>2, TransitionRun, IThenType
         DEF ToEvidenceReady, FailUnavailable, FailureKind, InvestigationTypeOK
  <1>13. CASE Checkpoint1(i)
    <2> DEFINE next == CASE iout[i] = "not_eligible" -> "audit_failure"
                         [] iout[i] = "no_proposal" -> "fail_run"
                         [] OTHER -> "create_proposal"
    <2>1. next \in InvestigatorPc
      BY Zenon
    <2>2. \E res \in Result : /\ SaveSafe(0, "EVIDENCE_READY", res)
                              /\ IThen(i, res, next, "fail_run", "fail_run")
      BY <1>13 DEF Checkpoint1
    <2> HIDE DEF next
    <2>3. ipc' \in [Investigators -> InvestigatorPc] /\ DurableTypeOK'
      BY <2>1, <2>2, SaveSafeRecords, IThenType DEF WorkflowState
    <2>4. ikind' \in [Investigators -> FailureKind \cup {"none"}]
      BY <1>13 DEF Checkpoint1, FailureKind, InvestigationTypeOK
    <2> QED
      BY <1>13, <2>3, <2>4 DEF Checkpoint1, InvestigationTypeOK
  <1>14. CASE CreateProposal(i)
    BY <1>14, CreateProposalRecords, IThenType
       DEF CreateProposal, ProposalFailure, FailureKind, InvestigationTypeOK
  <1>15. CASE AuditProposal(i)
    BY <1>15, AppendAuditEvent, IThenType
       DEF AuditProposal, ProposalFailure, FailureKind, AuditEventType, InvestigationTypeOK
  <1>16. CASE ToProposed(i)
    <2>1. "REMEDIATION_PROPOSED" \in WorkflowState
      BY DEF WorkflowState
    <2>2. irun' \in [Investigators -> Run]
      BY <1>16, <2>1 DEF ToProposed, Run, InvestigationTypeOK
    <2> QED
      BY <1>16, <2>1, <2>2, TransitionRun, IThenType
         DEF ToProposed, ProposalFailure, FailureKind, InvestigationTypeOK
  <1>17. CASE Checkpoint2(i)
    BY <1>17, SaveSafeRecords, IThenType
       DEF Checkpoint2, ProposalFailure, FailureKind, WorkflowState, InvestigationTypeOK
  <1>18. CASE CheckNoApproval(i)
    BY <1>18, ReadType, IThenType DEF CheckNoApproval, FailureKind, InvestigationTypeOK
  <1>19. CASE BudgetExhausted(i)
    BY <1>19, AppendAuditEvent, IThenType
       DEF BudgetExhausted, FailureKind, AuditEventType, InvestigationTypeOK
  <1>20. CASE FailWithAudit(i)
    <2>1. ipc' \in [Investigators -> InvestigatorPc] /\ DurableTypeOK'
      BY <1>20, AppendAuditEvent, IThenType, IGotoType
         DEF FailWithAudit, AuditEventType, durable, DurableTypeOK
    <2> QED
      BY <1>20, <2>1 DEF FailWithAudit, InvestigationTypeOK
  <1>21. CASE FailDurableRun(i)
    BY <1>21, FailureStates, TransitionRun, IThenType DEF FailDurableRun, InvestigationTypeOK
  <1>22. CASE InvestigatorCrash(i)
    BY <1>22, IGotoType DEF InvestigatorCrash, durable, DurableTypeOK, InvestigationTypeOK
  <1> QED
    BY <1>1, <1>2, <1>3, <1>4, <1>5, <1>6, <1>7, <1>8, <1>9, <1>10, <1>11, <1>12, <1>13,
       <1>14, <1>15, <1>16, <1>17, <1>18, <1>19, <1>20, <1>21, <1>22
       DEF InvestigatorStep

-----------------------------------------------------------------------------
(***************************************************************************)
(* What a step of execute() does to the other calls and to the records.    *)
(***************************************************************************)

\* A step of one execute() call leaves the others where they are.
LEMMA InvestigatorFrame ==
    ASSUME InvestigationTypeOK, NEW i \in Investigators, NEW j \in Investigators, j # i,
           InvestigatorStep(i) \/ InvestigatorCrash(i)
    PROVE  /\ ipc'[j] = ipc[j] /\ irun'[j] = irun[j] /\ iout'[j] = iout[j]
           /\ ikind'[j] = ikind[j] /\ itool'[j] = itool[j]
  <1> USE DEF InvestigationTypeOK, IThen, IGoto, history
  <1>1. CASE \/ Investigate(i) \/ CreateRun(i) \/ AuditCreated(i) \/ Raced(i)
             \/ ReconcileCompletion(i) \/ ToInvestigating(i) \/ AgentNotInvoked(i)
    BY <1>1 DEF Investigate, CreateRun, AuditCreated, Raced, ReconcileCompletion,
                ToInvestigating, AgentNotInvoked
  <1>2. CASE AgentInvoked(i) \/ RecordBudget(i)
    BY <1>2 DEF AgentInvoked, RecordBudget
  <1>3. CASE AuditBudget(i) \/ AuditTools(i) \/ ToEvidenceReady(i) \/ Checkpoint1(i)
    BY <1>3 DEF AuditBudget, AuditTools, ToEvidenceReady, Checkpoint1, FailUnavailable
  <1>4. CASE \/ CreateProposal(i) \/ AuditProposal(i) \/ ToProposed(i) \/ Checkpoint2(i)
             \/ CheckNoApproval(i)
    BY <1>4 DEF CreateProposal, AuditProposal, ToProposed, Checkpoint2, CheckNoApproval,
                ProposalFailure
  <1>5. CASE BudgetExhausted(i) \/ FailWithAudit(i) \/ FailDurableRun(i) \/ InvestigatorCrash(i)
    BY <1>5 DEF BudgetExhausted, FailWithAudit, FailDurableRun, InvestigatorCrash
  <1> QED
    BY <1>1, <1>2, <1>3, <1>4, <1>5 DEF InvestigatorStep

\* How a step of execute() may move the run, by the control point it is taken from.
Moved(i) ==
    \/ run' = run
    \/ ipc[i] = "create_run" /\ run = Absent /\ run' = Received
    \/ /\ run'.version = run.version + 1
       /\ \/ /\ ipc[i] = "to_investigating" /\ run = Received
             /\ run'.state = "INVESTIGATING"
          \/ ipc[i] = "record_budget" /\ run'.state = run.state
          \/ /\ run.state = irun[i].state
             /\ \/ ipc[i] = "to_evidence_ready" /\ run'.state = "EVIDENCE_READY"
                \/ ipc[i] = "to_proposed" /\ run'.state = "REMEDIATION_PROPOSED"
                \/ ipc[i] = "fail_run" /\ run'.state = workflow_state_for_failure(ikind[i])

\* The checkpoint it may have stored.
Stored(i) ==
    \/ checkpoint' = checkpoint
    \/ /\ checkpoint'.interrupt = FALSE /\ checkpoint'.version = checkpoint.version + 1
       /\ \/ /\ ipc[i] = "checkpoint_1" /\ checkpoint.version = 0
             /\ checkpoint'.safe = "EVIDENCE_READY"
          \/ /\ ipc[i] = "checkpoint_2" /\ checkpoint.version = 1
             /\ checkpoint'.safe = "REMEDIATION_PROPOSED"

\* A step of execute() moves the run or stores a checkpoint only where it says,
\* and takes nothing back.
LEMMA InvestigatorRecords ==
    ASSUME DurableTypeOK, InvestigationTypeOK, NEW i \in Investigators,
           InvestigatorStep(i) \/ InvestigatorCrash(i)
    PROVE  /\ Moved(i) /\ Stored(i)
           /\ audit \subseteq audit'
           /\ proposal # "none" => proposal' # "none"
  <1> USE DEF Moved, Stored, records, durable
  <1>t. {"INVESTIGATING", "EVIDENCE_READY", "REMEDIATION_PROPOSED"} \subseteq WorkflowState
    BY DEF WorkflowState
  <1>w. /\ irun[i] \in Run /\ run \in Run /\ run.version \in Nat
    BY DEF InvestigationTypeOK, DurableTypeOK, Run
  <1>1. CASE \/ Investigate(i) \/ Raced(i) \/ ReconcileCompletion(i) \/ CheckNoApproval(i)
    BY <1>1 DEF Investigate, Raced, ReconcileCompletion, CheckNoApproval, Read
  <1>2. CASE CreateRun(i)
    BY <1>2, CreateRunRecords DEF CreateRun
  <1>3. CASE AuditCreated(i) \/ AuditBudget(i) \/ AuditTools(i) \/ AuditProposal(i)
    BY <1>3, AuditRecords
       DEF AuditCreated, AuditBudget, AuditTools, AuditProposal, AuditEventType
  <1>4. CASE ToInvestigating(i)
    <2>1. \/ run' = run
          \/ /\ run.state = "RECEIVED" /\ run.version = 1
             /\ run' = [state |-> "INVESTIGATING", version |-> 1 + 1]
      BY <1>4, <1>t, TransitionRun DEF ToInvestigating
    <2>2. run.state = "RECEIVED" /\ run.version = 1 => run = Received
      BY DEF DurableTypeOK, Run, Received
    <2>3. UNCHANGED <<checkpoint, audit, proposal>> /\ ipc[i] = "to_investigating"
      BY <1>4 DEF ToInvestigating, transition_run
    <2> QED
      BY <2>1, <2>2, <2>3
  <1>5. CASE AgentNotInvoked(i) \/ AgentInvoked(i) \/ InvestigatorCrash(i)
    BY <1>5 DEF AgentNotInvoked, AgentInvoked, InvestigatorCrash
  <1>6. CASE RecordBudget(i)
    <2>1. PICK turns \in IF iout[i] = "exception" THEN {0} ELSE 0..MaxTurns + 1,
               res \in Result :
            update_run_budget(irun[i].version,
              IF turns > MaxTurns - turnsUsed THEN MaxTurns ELSE turnsUsed + turns, res)
      BY <1>6 DEF RecordBudget
    <2>2. turns \in 0..MaxTurns + 1
      BY BudgetAssumption
    <2>3. /\ UNCHANGED <<proposal, checkpoint, audit>>
          /\ run' = run \/ run' = [run EXCEPT !.version = run.version + 1]
      BY <2>1, <2>2, BudgetUsed, UpdateBudgetRecords DEF InvestigationTypeOK
    <2>4. run' = run \/ (run'.version = run.version + 1 /\ run'.state = run.state)
      BY <2>3, <1>w DEF Run
    <2>5. ipc[i] = "record_budget"
      BY <1>6 DEF RecordBudget
    <2> QED
      BY <2>3, <2>4, <2>5
  <1>7. CASE ToEvidenceReady(i)
    <2>1. \/ run' = run
          \/ /\ run.state = irun[i].state /\ run.version = irun[i].version
             /\ run' = [state |-> "EVIDENCE_READY", version |-> irun[i].version + 1]
      BY <1>7, <1>t, TransitionRun DEF ToEvidenceReady
    <2>2. UNCHANGED <<checkpoint, audit, proposal>> /\ ipc[i] = "to_evidence_ready"
      BY <1>7 DEF ToEvidenceReady, transition_run
    <2> QED
      BY <2>1, <2>2
  <1>8. CASE Checkpoint1(i)
    <2>1. PICK res \in Result : SaveSafe(0, "EVIDENCE_READY", res)
      BY <1>8 DEF Checkpoint1
    <2> QED
      BY <1>8, <2>1, <1>t, SaveSafeRecords DEF Checkpoint1
  <1>9. CASE CreateProposal(i)
    BY <1>9, CreateProposalRecords DEF CreateProposal
  <1>10. CASE ToProposed(i)
    <2>1. \/ run' = run
          \/ /\ run.state = irun[i].state /\ run.version = irun[i].version
             /\ run' = [state |-> "REMEDIATION_PROPOSED", version |-> irun[i].version + 1]
      BY <1>10, <1>t, TransitionRun DEF ToProposed
    <2>2. UNCHANGED <<checkpoint, audit, proposal>> /\ ipc[i] = "to_proposed"
      BY <1>10 DEF ToProposed, transition_run
    <2> QED
      BY <2>1, <2>2
  <1>11. CASE Checkpoint2(i)
    <2>1. PICK res \in Result : SaveSafe(1, "REMEDIATION_PROPOSED", res)
      BY <1>11 DEF Checkpoint2
    <2> QED
      BY <1>11, <2>1, <1>t, SaveSafeRecords DEF Checkpoint2
  <1>12. CASE BudgetExhausted(i) \/ FailWithAudit(i)
    BY <1>12, AuditRecords DEF BudgetExhausted, FailWithAudit, AuditEventType
  <1>13. CASE FailDurableRun(i)
    <2>1. \/ run' = run
          \/ /\ run.state = irun[i].state /\ run.version = irun[i].version
             /\ run' = [state |-> workflow_state_for_failure(ikind[i]),
                        version |-> irun[i].version + 1]
      BY <1>13, FailureStates, TransitionRun DEF FailDurableRun
    <2>2. UNCHANGED <<checkpoint, audit, proposal>> /\ ipc[i] = "fail_run"
      BY <1>13 DEF FailDurableRun, transition_run
    <2> QED
      BY <2>1, <2>2
  <1> QED
    BY <1>1, <1>2, <1>3, <1>4, <1>5, <1>6, <1>7, <1>8, <1>9, <1>10, <1>11, <1>12, <1>13
       DEF InvestigatorStep

-----------------------------------------------------------------------------
(***************************************************************************)
(* What the call that takes the step holds afterwards.                     *)
(***************************************************************************)

\* Where a call of execute() continues, result by result.
LEMMA IThenPoint ==
    ASSUME InvestigationTypeOK, NEW i \in Investigators, NEW res \in Result, res # "illegal",
           NEW x, NEW y, NEW z, IThen(i, res, x, y, z)
    PROVE  /\ ipc'[i] \in {x, y, z}
           /\ res = "ok" => ipc'[i] = x
           /\ res = "conflict" => ipc'[i] = y
           /\ res = "unavailable" => ipc'[i] = z
  <1>1. ipc'[i] = After(res, x, y, z)
    BY DEF IThen, IGoto, InvestigationTypeOK
  <1> QED
    BY <1>1, AfterLegal, AfterPoint

\* The transitions execute() asks for are in the table.
LEMMA InvestigationTransitions ==
    /\ "INVESTIGATING" \in ALLOWED_WORKFLOW_TRANSITIONS["RECEIVED"]
    /\ "EVIDENCE_READY" \in ALLOWED_WORKFLOW_TRANSITIONS["INVESTIGATING"]
    /\ "REMEDIATION_PROPOSED" \in ALLOWED_WORKFLOW_TRANSITIONS["EVIDENCE_READY"]
    /\ \A s \in {"INVESTIGATING", "EVIDENCE_READY"},
          kind \in ToolFailure \cup {"BUDGET_EXHAUSTION", "RECOVERY_REQUIREMENT"} :
         workflow_state_for_failure(kind) \in ALLOWED_WORKFLOW_TRANSITIONS[s]
    /\ \A kind \in {"DEPENDENCY_UNAVAILABLE", "RECOVERY_REQUIREMENT"} :
         workflow_state_for_failure(kind) \in ALLOWED_WORKFLOW_TRANSITIONS["REMEDIATION_PROPOSED"]
  <1>1. /\ ALLOWED_WORKFLOW_TRANSITIONS["RECEIVED"] =
             {"INVESTIGATING", "DENIED_BY_POLICY", "MODEL_OUTPUT_INVALID",
              "DEPENDENCY_UNAVAILABLE", "BUDGET_EXHAUSTED"}
        /\ ALLOWED_WORKFLOW_TRANSITIONS["INVESTIGATING"] =
             {"EVIDENCE_READY"} \cup COMMON_FAILURES
        /\ ALLOWED_WORKFLOW_TRANSITIONS["EVIDENCE_READY"] =
             {"REMEDIATION_PROPOSED", "NO_ACTION_REQUIRED", "RECOMMENDATION_ONLY"}
               \cup COMMON_FAILURES
        /\ ALLOWED_WORKFLOW_TRANSITIONS["REMEDIATION_PROPOSED"] =
             {"AWAITING_APPROVAL", "DENIED_BY_POLICY", "DEPENDENCY_UNAVAILABLE",
              "RECOVERY_REQUIRED"}
    BY DEF ALLOWED_WORKFLOW_TRANSITIONS, WorkflowState
  <1>2. \A kind \in ToolFailure \cup {"BUDGET_EXHAUSTION", "RECOVERY_REQUIREMENT"} :
          workflow_state_for_failure(kind) \in COMMON_FAILURES
    BY DEF ToolFailure, workflow_state_for_failure, COMMON_FAILURES
  <1>3. \A kind \in {"DEPENDENCY_UNAVAILABLE", "RECOVERY_REQUIREMENT"} :
          workflow_state_for_failure(kind) \in {"DEPENDENCY_UNAVAILABLE", "RECOVERY_REQUIRED"}
    BY DEF workflow_state_for_failure
  <1> QED
    BY <1>1, <1>2, <1>3

\* A stored failure is the end of a run.
LEMMA FailureEnds ==
    ASSUME NEW kind
    PROVE  /\ Depth[workflow_state_for_failure(kind)] = 6
           /\ workflow_state_for_failure(kind) \notin Handed
  <1>1. workflow_state_for_failure(kind) \in
          {"MODEL_OUTPUT_INVALID", "DENIED_BY_POLICY", "AMBIGUOUS_RESULT",
           "DEPENDENCY_UNAVAILABLE", "BUDGET_EXHAUSTED", "EXECUTION_FAILED",
           "VERIFICATION_FAILED", "RECOVERY_REQUIRED"}
    BY Zenon DEF workflow_state_for_failure
  <1> QED
    BY <1>1 DEF Depth, Handed, WorkflowState, TERMINAL_WORKFLOW_STATES

\* A step of execute() keeps what the call holds.
LEMMA InvestigatorHolding ==
    ASSUME TypeOK, OneOwner, NEW i \in Investigators, Holds(i),
           InvestigatorStep(i) \/ InvestigatorCrash(i)
    PROVE  Holds(i)'
  <1> USE DEF TypeOK, InvestigationTypeOK, history
  <1>o. /\ InPlace(i) /\ Failing(i) /\ Backed(i) /\ Spent(i) /\ Observed(i)
        /\ irun[i] \in Run
    BY DEF Holds
  <1>p. ASSUME ~Owner(i)', ipc'[i] # "raised",
               ipc'[i] \in {"idle", "create_run", "audit_created", "to_investigating"} =>
                 itool'[i] = 0
        PROVE  Holds(i)'
    BY <1>p DEF Holds, InPlace, Failing, Backed, Spent, Observed, Owner, Owning,
                Examining, Proposing, Finishing
  <1>q. ASSUME ipc'[i] \in {"succeeded", "failed", "crashed", "raced", "reconcile"}
        PROVE  Holds(i)'
    BY <1>q, <1>p DEF Owner, Owning, Examining, Proposing, Finishing
  <1>f. ASSUME ipc'[i] = "fail_run",
               \/ /\ irun'[i].state = "REMEDIATION_PROPOSED"
                  /\ ikind'[i] \in {"DEPENDENCY_UNAVAILABLE", "RECOVERY_REQUIREMENT"}
               \/ /\ irun'[i].state \in {"INVESTIGATING", "EVIDENCE_READY"}
                  /\ ikind'[i] \in ToolFailure \cup {"BUDGET_EXHAUSTION", "RECOVERY_REQUIREMENT"}
        PROVE  Holds(i)'
    BY <1>f DEF Holds, InPlace, Failing, Backed, Spent, Observed, Examining, Proposing, Finishing
  <1>1. CASE Investigate(i)
    <2> DEFINE next == CASE run = Absent -> "create_run"
                         [] run = Received -> "to_investigating"
                         [] run.state = "REMEDIATION_PROPOSED" -> "reconcile"
                         [] OTHER -> "failed"
    <2>1. next \in {"create_run", "to_investigating", "reconcile", "failed"}
      BY Zenon
    <2>2. PICK res \in Result : Read(res) /\ IThen(i, res, next, "failed", "failed")
      BY <1>1 DEF Investigate
    <2> HIDE DEF next
    <2>3. ipc'[i] \in {"create_run", "to_investigating", "reconcile", "failed"}
      BY <2>1, <2>2, CallsLegal, IThenPoint
    <2>4. itool'[i] = 0
      BY <1>1, <1>o DEF Investigate, Observed
    <2> QED
      BY <2>3, <2>4, <1>p DEF Owner, Owning, Examining, Proposing, Finishing
  <1>2. CASE CreateRun(i)
    <2>1. ipc'[i] \in {"audit_created", "raced", "failed"} /\ itool'[i] = 0
      BY <1>2, <1>o, CreateRunRecords, IThenPoint DEF CreateRun, Observed
    <2> QED
      BY <2>1, <1>p DEF Owner, Owning, Examining, Proposing, Finishing
  <1>3. CASE AuditCreated(i)
    <2>1. ipc'[i] \in {"to_investigating", "raced", "failed"} /\ itool'[i] = 0
      BY <1>3, <1>o, CallsLegal, IThenPoint DEF AuditCreated, Observed
    <2> QED
      BY <2>1, <1>p DEF Owner, Owning, Examining, Proposing, Finishing
  <1>4. CASE Raced(i) \/ ReconcileCompletion(i) \/ InvestigatorCrash(i)
    <2>1. ipc'[i] \in {"reconcile", "failed", "succeeded", "crashed"}
      BY <1>4, CallsLegal, IThenPoint
         DEF Raced, ReconcileCompletion, InvestigatorCrash, IGoto
    <2> QED
      BY <2>1, <1>q
  <1>5. CASE ToInvestigating(i)
    <2>1. PICK res \in Result : /\ transition_run("RECEIVED", 1, "INVESTIGATING", res)
                                /\ IThen(i, res, "agent", "failed", "failed")
      BY <1>5 DEF ToInvestigating
    <2>2. res # "illegal"
      BY <2>1, InvestigationTransitions, TransitionLegal
    <2>3. CASE res # "ok"
      BY <2>1, <2>2, <2>3, IThenPoint, <1>q DEF Result
    <2>4. CASE res = "ok"
      <3>1. /\ ipc'[i] = "agent" /\ irun'[i].state = "INVESTIGATING" /\ itool'[i] = 0
            /\ overspent' = overspent
        BY <1>5, <1>o, <2>1, <2>2, <2>4, IThenPoint DEF ToInvestigating, Observed
      <3>2. run'.state = "INVESTIGATING" /\ run.version = 1
        BY <2>1, <2>4 DEF transition_run, Write
      <3>3. ~overspent
        BY <3>2 DEF OneOwner
      <3> QED
        BY <3>1, <3>2, <3>3 DEF Holds, InPlace, Failing, Backed, Spent, Observed, Examining,
                                Proposing, Finishing
    <2> QED
      BY <2>3, <2>4
  <1>6. CASE AgentNotInvoked(i)
    <2>1. /\ ipc'[i] = "exhausted" /\ irun' = irun /\ run' = run /\ ipc[i] = "agent"
      BY <1>6 DEF AgentNotInvoked, IGoto, durable
    <2> QED
      BY <2>1, <1>o DEF Holds, InPlace, Failing, Backed, Spent, Observed, Examining, Proposing,
                        Finishing
  <1>7. CASE AgentInvoked(i)
    <2>1. PICK out \in AgentOutcome \ {"none"} :
            /\ iout' = [iout EXCEPT ![i] = out]
            /\ IGoto(i, IF out = "invalid" THEN "exhausted" ELSE "record_budget")
            /\ \/ out \in {"intervention"} /\ \E kind \in {"POLICY_DENIAL", "VALIDATION_FAILURE"} :
                    ikind' = [ikind EXCEPT ![i] = kind]
               \/ out = "tool_failure" /\ \E kind \in ToolFailure :
                    ikind' = [ikind EXCEPT ![i] = kind]
               \/ out \notin {"intervention", "tool_failure"} /\ UNCHANGED ikind
      BY <1>7 DEF AgentInvoked
    <2>2. /\ ipc'[i] \in {"exhausted", "record_budget"} /\ iout'[i] = out
          /\ out = "intervention" => ikind'[i] \in {"POLICY_DENIAL", "VALIDATION_FAILURE"}
          /\ out = "tool_failure" => ikind'[i] \in ToolFailure
      BY <2>1 DEF IGoto
    <2>3. irun' = irun /\ run' = run /\ ipc[i] = "agent" /\ overspent' = overspent /\ itool' = itool
      BY <1>7 DEF AgentInvoked, durable
    <2>4. ~overspent /\ itool[i] = 0 /\ irun[i].state = "INVESTIGATING"
          /\ run.state = "INVESTIGATING"
      BY <2>3, <1>o DEF Spent, Observed, Owner, Owning, InPlace, Examining
    <2> QED
      BY <2>2, <2>3, <2>4 DEF Holds, InPlace, Failing, Backed, Spent, Observed, Examining,
                              Proposing, Finishing
  <1>8. CASE RecordBudget(i)
    <2>1. PICK turns \in IF iout[i] = "exception" THEN {0} ELSE 0..MaxTurns + 1,
               res \in Result :
            /\ update_run_budget(irun[i].version,
                 IF turns > MaxTurns - turnsUsed THEN MaxTurns ELSE turnsUsed + turns, res)
            /\ IThen(i, res, "audit_budget", "failed", "failed")
            /\ iout' = [iout EXCEPT ![i] =
                          IF turns > MaxTurns - turnsUsed /\ @ # "intervention"
                          THEN "limit" ELSE @]
            /\ overspent' = (overspent \/ turns > MaxTurns - turnsUsed)
      BY <1>8 DEF RecordBudget
    <2>2. turns \in 0..MaxTurns + 1
      BY BudgetAssumption
    <2>3. res # "illegal" /\ run'.state = run.state
      BY <2>1, <2>2, BudgetUsed, UpdateBudgetRecords DEF Run, DurableTypeOK
    <2>4. ipc'[i] \in {"audit_budget", "failed"}
      BY <2>1, <2>3, IThenPoint
    <2>5. /\ iout'[i] \in {iout[i], "limit"}
          /\ overspent' => overspent \/ iout'[i] \in {"limit", "intervention"}
      BY <2>1
    <2>6. irun'[i].state = irun[i].state /\ ikind' = ikind /\ itool' = itool
      BY <1>8 DEF RecordBudget, Run
    <2>7. ipc[i] = "record_budget"
      BY <1>8 DEF RecordBudget
    <2>8. ~overspent /\ itool[i] = 0 /\ irun[i].state = "INVESTIGATING"
          /\ run.state = "INVESTIGATING"
      BY <2>7, <1>o DEF Spent, Observed, Owner, Owning, InPlace, Examining
    <2>9. CASE ipc'[i] = "failed"
      BY <2>9, <1>q
    <2>10. CASE ipc'[i] = "audit_budget"
      BY <2>10, <2>3, <2>5, <2>6, <2>7, <2>8, <1>o
         DEF Holds, InPlace, Failing, Backed, Spent, Observed, Examining, Proposing, Finishing
    <2> QED
      BY <2>4, <2>9, <2>10
  <1>9. CASE AuditBudget(i)
    <2>1. PICK res \in Result : /\ append_audit_event("BUDGET_UPDATED", res)
                                /\ IThen(i, res, after_budget(i), "failed", "failed")
      BY <1>9 DEF AuditBudget
    <2>2. /\ run' = run /\ res # "illegal" /\ audit \subseteq audit'
          /\ res = "ok" => "BUDGET_UPDATED" \in audit'
      BY <2>1, AuditRecords DEF AuditEventType
    <2>3. /\ irun' = irun /\ iout' = iout /\ itool' = itool /\ overspent' = overspent
          /\ ipc[i] = "audit_budget"
      BY <1>9 DEF AuditBudget
    <2>4. ikind'[i] = CASE iout[i] = "exception" -> "DEPENDENCY_UNAVAILABLE"
                        [] iout[i] = "bad_sequence" -> "VALIDATION_FAILURE"
                        [] OTHER -> ikind[i]
      BY <1>9 DEF AuditBudget
    <2>5. /\ iout[i] = "exception" => ikind'[i] = "DEPENDENCY_UNAVAILABLE"
          /\ iout[i] = "bad_sequence" => ikind'[i] = "VALIDATION_FAILURE"
          /\ iout[i] \notin {"exception", "bad_sequence"} => ikind'[i] = ikind[i]
      BY <2>4
    <2>6. /\ iout[i] \in {"exception", "intervention"} => after_budget(i) = "fail_run"
          /\ iout[i] = "limit" => after_budget(i) = "exhausted"
          /\ iout[i] \in {"tool_failure", "bad_sequence"} => after_budget(i) = "audit_failure"
          /\ iout[i] \notin {"exception", "intervention", "limit", "tool_failure", "bad_sequence"} =>
               after_budget(i) = "audit_tools"
      BY DEF after_budget
    <2>7. /\ itool[i] = 0 /\ irun[i].state = "INVESTIGATING" /\ run.state = "INVESTIGATING"
          /\ iout[i] = "intervention" => ikind[i] \in {"POLICY_DENIAL", "VALIDATION_FAILURE"}
          /\ iout[i] = "tool_failure" => ikind[i] \in ToolFailure
          /\ overspent => iout[i] \in {"limit", "intervention"}
      BY <2>3, <1>o DEF Spent, Observed, Owner, Owning, InPlace, Examining, Failing
    <2>8. CASE res # "ok"
      <3>1. ipc'[i] = "failed"
        BY <2>1, <2>2, <2>8, IThenPoint DEF Result
      <3> QED
        BY <3>1, <1>q
    <2>9. CASE res = "ok"
      <3>1. ipc'[i] = after_budget(i)
        BY <2>1, <2>2, <2>9, IThenPoint
      <3>2. CASE iout[i] \in {"exception", "intervention"}
        BY <3>1, <3>2, <2>3, <2>5, <2>6, <2>7, <1>f DEF ToolFailure
      <3>3. CASE iout[i] = "limit"
        BY <3>1, <3>3, <2>2, <2>3, <2>6, <2>7
           DEF Holds, InPlace, Failing, Backed, Spent, Observed, Examining, Proposing, Finishing
      <3>4. CASE iout[i] \in {"tool_failure", "bad_sequence"}
        BY <3>1, <3>4, <2>2, <2>3, <2>5, <2>6, <2>7
           DEF Holds, InPlace, Failing, Backed, Spent, Observed, Examining, Proposing, Finishing,
               ToolFailure
      <3>5. CASE iout[i] \notin {"exception", "intervention", "limit", "tool_failure",
                                 "bad_sequence"}
        BY <3>1, <3>5, <2>2, <2>3, <2>6, <2>7, <2>9
           DEF Holds, InPlace, Failing, Backed, Spent, Observed, Examining, Proposing, Finishing
      <3> QED
        BY <3>2, <3>3, <3>4, <3>5
    <2> QED
      BY <2>8, <2>9
  <1>10. CASE AuditTools(i)
    <2>1. PICK res \in Result :
            /\ append_audit_event("TOOL_OBSERVED", res)
            /\ IThen(i, res, IF itool[i] = 2 THEN "to_evidence_ready" ELSE "audit_tools",
                     "fail_run", "fail_run")
      BY <1>10 DEF AuditTools
    <2>2. /\ run' = run /\ res # "illegal" /\ audit \subseteq audit'
          /\ res = "ok" => "TOOL_OBSERVED" \in audit'
      BY <2>1, AuditRecords DEF AuditEventType
    <2>3. /\ irun' = irun /\ iout' = iout /\ overspent' = overspent
          /\ ipc[i] = "audit_tools" /\ itool'[i] = itool[i] + 1
          /\ ikind'[i] = "DEPENDENCY_UNAVAILABLE"
      BY <1>10 DEF AuditTools, FailUnavailable
    <2>4. /\ itool[i] \in 0..2 /\ irun[i].state = "INVESTIGATING" /\ run.state = "INVESTIGATING"
          /\ "BUDGET_UPDATED" \in audit /\ ~overspent
      BY <2>3, <1>o DEF Spent, Observed, Owner, Owning, InPlace, Examining, Backed
    <2>5. CASE res # "ok"
      <3>1. ipc'[i] = "fail_run"
        BY <2>1, <2>2, <2>5, IThenPoint DEF Result
      <3> QED
        BY <3>1, <2>3, <2>4, <1>f DEF ToolFailure
    <2>6. CASE res = "ok"
      <3>1. ipc'[i] = IF itool[i] = 2 THEN "to_evidence_ready" ELSE "audit_tools"
        BY <2>1, <2>2, <2>6, IThenPoint
      <3> QED
        BY <3>1, <2>2, <2>3, <2>4, <2>6
           DEF Holds, InPlace, Failing, Backed, Spent, Observed, Examining, Proposing, Finishing
    <2> QED
      BY <2>5, <2>6
  <1>11. CASE ToEvidenceReady(i)
    <2>1. PICK res \in Result :
            /\ transition_run(irun[i].state, irun[i].version, "EVIDENCE_READY", res)
            /\ IThen(i, res, "checkpoint_1", "fail_run", "fail_run")
            /\ irun' = IF res = "ok"
                       THEN [irun EXCEPT ![i] = [state |-> "EVIDENCE_READY",
                                                 version |-> @.version + 1]]
                       ELSE irun
      BY <1>11 DEF ToEvidenceReady
    <2>2. /\ iout' = iout /\ itool' = itool /\ overspent' = overspent
          /\ ipc[i] = "to_evidence_ready" /\ ikind'[i] = "DEPENDENCY_UNAVAILABLE"
      BY <1>11 DEF ToEvidenceReady, FailUnavailable
    <2>3. /\ irun[i].state = "INVESTIGATING" /\ {"BUDGET_UPDATED", "TOOL_OBSERVED"} \subseteq audit
          /\ ~overspent
      BY <2>2, <1>o DEF Spent, Owner, Owning, InPlace, Examining, Backed
    <2>t. res # "illegal"
      BY <2>1, <2>3, InvestigationTransitions, TransitionLegal
    <2>4. res # "illegal" /\ audit' = audit
      BY <2>1, <2>t DEF transition_run
    <2>5. CASE res # "ok"
      <3>1. ipc'[i] = "fail_run" /\ irun' = irun
        BY <2>1, <2>4, <2>5, IThenPoint DEF Result
      <3> QED
        BY <3>1, <2>2, <2>3, <1>f DEF ToolFailure
    <2>6. CASE res = "ok"
      <3>1. /\ ipc'[i] = "checkpoint_1" /\ irun'[i].state = "EVIDENCE_READY"
        BY <2>1, <2>4, <2>6, IThenPoint
      <3>2. run'.state = "EVIDENCE_READY"
        BY <2>1, <2>6 DEF transition_run, Write
      <3> QED
        BY <3>1, <3>2, <2>2, <2>3, <2>4
           DEF Holds, InPlace, Failing, Backed, Spent, Observed, Examining, Proposing, Finishing
    <2> QED
      BY <2>5, <2>6
  <1>12. CASE Checkpoint1(i)
    <2> DEFINE next == CASE iout[i] = "not_eligible" -> "audit_failure"
                         [] iout[i] = "no_proposal" -> "fail_run"
                         [] OTHER -> "create_proposal"
    <2>1. PICK res \in Result :
            /\ SaveSafe(0, "EVIDENCE_READY", res)
            /\ IThen(i, res, next, "fail_run", "fail_run")
            /\ ikind' = [ikind EXCEPT ![i] =
                   CASE res # "ok" -> "DEPENDENCY_UNAVAILABLE"
                     [] res = "ok" /\ iout[i] = "not_eligible" -> "POLICY_DENIAL"
                     [] OTHER -> "RECOVERY_REQUIREMENT"]
      BY <1>12 DEF Checkpoint1
    <2>2. /\ iout[i] = "not_eligible" => next = "audit_failure"
          /\ iout[i] = "no_proposal" => next = "fail_run"
          /\ iout[i] \notin {"not_eligible", "no_proposal"} => next = "create_proposal"
      OBVIOUS
    <2> HIDE DEF next
    <2>3. /\ irun' = irun /\ iout' = iout /\ itool' = itool /\ overspent' = overspent
          /\ ipc[i] = "checkpoint_1"
      BY <1>12 DEF Checkpoint1
    <2>4. /\ irun[i].state = "EVIDENCE_READY" /\ run.state = "EVIDENCE_READY"
          /\ {"BUDGET_UPDATED", "TOOL_OBSERVED"} \subseteq audit /\ ~overspent
      BY <2>3, <1>o DEF Spent, Owner, Owning, InPlace, Proposing, Backed
    <2>t. "EVIDENCE_READY" \in WorkflowState
      BY DEF WorkflowState
    <2>5. /\ run' = run /\ audit' = audit /\ res # "illegal"
          /\ res = "ok" => checkpoint'.version = 1
      <3>1. SaveSafe(0, "EVIDENCE_READY", res) /\ DurableTypeOK
        BY <2>1
      <3>2. \/ res # "ok"
            \/ checkpoint'.version = 0 + 1
        BY <3>1, <2>t, SaveSafeRecords
      <3>3. run' = run /\ audit' = audit /\ res # "illegal"
        BY <3>1, <2>t, SaveSafeRecords
      <3> QED
        BY <3>2, <3>3
    <2>6. /\ res # "ok" => ikind'[i] = "DEPENDENCY_UNAVAILABLE"
          /\ res = "ok" /\ iout[i] = "not_eligible" => ikind'[i] = "POLICY_DENIAL"
          /\ res = "ok" /\ iout[i] # "not_eligible" => ikind'[i] = "RECOVERY_REQUIREMENT"
      BY <2>1
    <2>7. CASE res # "ok"
      <3>1. ipc'[i] = "fail_run"
        BY <2>1, <2>5, <2>7, IThenPoint DEF Result
      <3> QED
        BY <3>1, <2>3, <2>4, <2>6, <2>7, <1>f DEF ToolFailure
    <2>8. CASE res = "ok"
      <3>1. ipc'[i] = next
        BY <2>1, <2>5, <2>8, IThenPoint
      <3>2. CASE iout[i] = "not_eligible"
        BY <3>1, <3>2, <2>2, <2>3, <2>4, <2>5, <2>6, <2>8
           DEF Holds, InPlace, Failing, Backed, Spent, Observed, Examining, Proposing, Finishing,
               ToolFailure
      <3>3. CASE iout[i] = "no_proposal"
        BY <3>1, <3>3, <2>2, <2>3, <2>4, <2>6, <2>8, <1>f
      <3>4. CASE iout[i] \notin {"not_eligible", "no_proposal"}
        BY <3>1, <3>4, <2>2, <2>3, <2>4, <2>5, <2>8
           DEF Holds, InPlace, Failing, Backed, Spent, Observed, Examining, Proposing, Finishing
      <3> QED
        BY <3>2, <3>3, <3>4
    <2> QED
      BY <2>7, <2>8
  <1>13. CASE CreateProposal(i)
    <2>1. PICK res \in Result : /\ create_proposal(res)
                                /\ IThen(i, res, "audit_proposal", "fail_run", "fail_run")
                                /\ ProposalFailure(i, res)
      BY <1>13 DEF CreateProposal
    <2>2. /\ run' = run /\ audit' = audit /\ checkpoint' = checkpoint /\ res # "illegal"
          /\ res = "ok" => proposal' = "PROPOSED"
      BY <2>1, CreateProposalRecords
    <2>3. /\ irun' = irun /\ iout' = iout /\ itool' = itool /\ overspent' = overspent
          /\ ipc[i] = "create_proposal"
          /\ ikind'[i] \in {"DEPENDENCY_UNAVAILABLE", "RECOVERY_REQUIREMENT"}
      BY <1>13 DEF CreateProposal, ProposalFailure
    <2>4. /\ irun[i].state = "EVIDENCE_READY" /\ run.state = "EVIDENCE_READY"
          /\ {"BUDGET_UPDATED", "TOOL_OBSERVED"} \subseteq audit /\ ~overspent
          /\ checkpoint.version >= 1
      BY <2>3, <1>o DEF Spent, Owner, Owning, InPlace, Proposing, Backed
    <2>5. CASE res # "ok"
      <3>1. ipc'[i] = "fail_run"
        BY <2>1, <2>2, <2>5, IThenPoint DEF Result
      <3> QED
        BY <3>1, <2>3, <2>4, <1>f DEF ToolFailure
    <2>6. CASE res = "ok"
      <3>1. ipc'[i] = "audit_proposal"
        BY <2>1, <2>2, <2>6, IThenPoint
      <3> QED
        BY <3>1, <2>2, <2>3, <2>4, <2>6
           DEF Holds, InPlace, Failing, Backed, Spent, Observed, Examining, Proposing, Finishing
    <2> QED
      BY <2>5, <2>6
  <1>14. CASE AuditProposal(i)
    <2>1. PICK res \in Result : /\ append_audit_event("PROPOSAL_CREATED", res)
                                /\ IThen(i, res, "to_proposed", "fail_run", "fail_run")
                                /\ ProposalFailure(i, res)
      BY <1>14 DEF AuditProposal
    <2>2. /\ run' = run /\ checkpoint' = checkpoint /\ proposal' = proposal
          /\ audit \subseteq audit' /\ res # "illegal"
          /\ res = "ok" => "PROPOSAL_CREATED" \in audit'
      BY <2>1, AuditRecords DEF AuditEventType
    <2>3. /\ irun' = irun /\ iout' = iout /\ itool' = itool /\ overspent' = overspent
          /\ ipc[i] = "audit_proposal"
          /\ ikind'[i] \in {"DEPENDENCY_UNAVAILABLE", "RECOVERY_REQUIREMENT"}
      BY <1>14 DEF AuditProposal, ProposalFailure
    <2>4. /\ irun[i].state = "EVIDENCE_READY" /\ run.state = "EVIDENCE_READY"
          /\ {"BUDGET_UPDATED", "TOOL_OBSERVED"} \subseteq audit /\ ~overspent
          /\ checkpoint.version >= 1 /\ proposal # "none"
      BY <2>3, <1>o DEF Spent, Owner, Owning, InPlace, Proposing, Backed
    <2>5. CASE res # "ok"
      <3>1. ipc'[i] = "fail_run"
        BY <2>1, <2>2, <2>5, IThenPoint DEF Result
      <3> QED
        BY <3>1, <2>3, <2>4, <1>f DEF ToolFailure
    <2>6. CASE res = "ok"
      <3>1. ipc'[i] = "to_proposed"
        BY <2>1, <2>2, <2>6, IThenPoint
      <3> QED
        BY <3>1, <2>2, <2>3, <2>4, <2>6
           DEF Holds, InPlace, Failing, Backed, Spent, Observed, Examining, Proposing, Finishing
    <2> QED
      BY <2>5, <2>6
  <1>15. CASE ToProposed(i)
    <2>1. PICK res \in Result :
            /\ transition_run(irun[i].state, irun[i].version, "REMEDIATION_PROPOSED", res)
            /\ IThen(i, res, "checkpoint_2", "fail_run", "fail_run")
            /\ ProposalFailure(i, res)
            /\ irun' = IF res = "ok"
                       THEN [irun EXCEPT ![i] = [state |-> "REMEDIATION_PROPOSED",
                                                 version |-> @.version + 1]]
                       ELSE irun
      BY <1>15 DEF ToProposed
    <2>2. /\ itool' = itool /\ overspent' = overspent /\ ipc[i] = "to_proposed"
          /\ ikind'[i] \in {"DEPENDENCY_UNAVAILABLE", "RECOVERY_REQUIREMENT"}
      BY <1>15, <2>1 DEF ToProposed, ProposalFailure
    <2>3. irun[i].state = "EVIDENCE_READY" /\ ~overspent
      BY <2>2, <1>o DEF Spent, Owner, Owning, InPlace, Proposing
    <2>4. res # "illegal"
      BY <2>1, <2>3, InvestigationTransitions, TransitionLegal
    <2>5. CASE res # "ok"
      <3>1. ipc'[i] = "fail_run" /\ irun' = irun
        BY <2>1, <2>4, <2>5, IThenPoint DEF Result
      <3> QED
        BY <3>1, <2>2, <2>3, <1>f DEF ToolFailure
    <2>6. CASE res = "ok"
      <3>1. /\ ipc'[i] = "checkpoint_2" /\ irun'[i].state = "REMEDIATION_PROPOSED"
        BY <2>1, <2>4, <2>6, IThenPoint
      <3>2. run'.state = "REMEDIATION_PROPOSED"
        BY <2>1, <2>6 DEF transition_run, Write
      <3>3. Depth["REMEDIATION_PROPOSED"] = 3
        BY DEF Depth, WorkflowState
      <3> QED
        BY <3>1, <3>2, <3>3, <2>2, <2>3
           DEF Holds, InPlace, Failing, Backed, Spent, Observed, Examining, Proposing, Finishing
    <2> QED
      BY <2>5, <2>6
  <1>16. CASE Checkpoint2(i)
    <2>1. PICK res \in Result : /\ SaveSafe(1, "REMEDIATION_PROPOSED", res)
                                /\ IThen(i, res, "get_approval", "fail_run", "fail_run")
                                /\ ProposalFailure(i, res)
      BY <1>16 DEF Checkpoint2
    <2>2. run' = run /\ res # "illegal"
      BY <2>1, SaveSafeRecords DEF WorkflowState
    <2>3. /\ irun' = irun /\ itool' = itool /\ overspent' = overspent
          /\ ipc[i] = "checkpoint_2"
          /\ ikind'[i] \in {"DEPENDENCY_UNAVAILABLE", "RECOVERY_REQUIREMENT"}
      BY <1>16 DEF Checkpoint2, ProposalFailure
    <2>4. irun[i].state = "REMEDIATION_PROPOSED" /\ Depth[run.state] >= 3 /\ ~overspent
      BY <2>3, <1>o DEF Spent, Owner, Owning, InPlace, Finishing
    <2>5. ipc'[i] \in {"get_approval", "fail_run"}
      BY <2>1, <2>2, IThenPoint
    <2>6. CASE ipc'[i] = "fail_run"
      BY <2>6, <2>3, <2>4, <1>f
    <2>7. CASE ipc'[i] = "get_approval"
      BY <2>7, <2>2, <2>3, <2>4
         DEF Holds, InPlace, Failing, Backed, Spent, Observed, Examining, Proposing, Finishing
    <2> QED
      BY <2>5, <2>6, <2>7
  <1>17. CASE CheckNoApproval(i)
    <2>1. /\ irun' = irun /\ ipc[i] = "get_approval"
          /\ ikind'[i] \in {"DEPENDENCY_UNAVAILABLE", "RECOVERY_REQUIREMENT"}
      BY <1>17 DEF CheckNoApproval
    <2>2. irun[i].state = "REMEDIATION_PROPOSED"
      BY <2>1, <1>o DEF InPlace, Finishing
    <2>3. ipc'[i] \in {"succeeded", "fail_run"}
      BY <1>17, CallsLegal, IThenPoint DEF CheckNoApproval
    <2> QED
      BY <2>1, <2>2, <2>3, <1>q, <1>f
  <1>18. CASE BudgetExhausted(i)
    <2>1. PICK res \in Result : /\ append_audit_event("BUDGET_EXHAUSTED", res)
                                /\ IThen(i, res, "fail_run", "failed", "failed")
      BY <1>18 DEF BudgetExhausted
    <2>2. /\ irun' = irun /\ ipc[i] = "exhausted" /\ ikind'[i] = "BUDGET_EXHAUSTION"
      BY <1>18 DEF BudgetExhausted
    <2>3. irun[i].state = "INVESTIGATING"
      BY <2>2, <1>o DEF InPlace, Examining
    <2>4. ipc'[i] \in {"fail_run", "failed"}
      BY <2>1, CallsLegal, IThenPoint
    <2> QED
      BY <2>2, <2>3, <2>4, <1>q, <1>f
  <1>19. CASE FailWithAudit(i)
    <2>1. /\ irun' = irun /\ ikind' = ikind /\ ipc[i] = "audit_failure"
      BY <1>19 DEF FailWithAudit
    <2>2. irun[i].state \in {"INVESTIGATING", "EVIDENCE_READY"} /\ ikind[i] \in ToolFailure
      BY <2>1, <1>o DEF InPlace, Failing
    <2>3. CASE ikind[i] \in {"POLICY_DENIAL", "VALIDATION_FAILURE"}
      <3>1. PICK res \in Result :
              /\ append_audit_event(IF ikind[i] = "POLICY_DENIAL" THEN "POLICY_DENIED"
                                    ELSE "MODEL_OUTPUT_REJECTED", res)
              /\ IThen(i, res, "fail_run", "failed", "failed")
        BY <1>19, <2>3 DEF FailWithAudit
      <3>2. ipc'[i] \in {"fail_run", "failed"}
        BY <3>1, CallsLegal, IThenPoint
      <3> QED
        BY <3>2, <2>1, <2>2, <1>q, <1>f
    <2>4. CASE ikind[i] \notin {"POLICY_DENIAL", "VALIDATION_FAILURE"}
      <3>1. ipc'[i] = "fail_run"
        BY <1>19, <2>4 DEF FailWithAudit, IGoto
      <3> QED
        BY <3>1, <2>1, <2>2, <1>f
    <2> QED
      BY <2>3, <2>4
  <1>20. CASE FailDurableRun(i)
    <2>1. PICK res \in Result :
            /\ transition_run(irun[i].state, irun[i].version,
                              workflow_state_for_failure(ikind[i]), res)
            /\ IThen(i, res, "failed", "failed", "failed")
      BY <1>20 DEF FailDurableRun
    <2>2. workflow_state_for_failure(ikind[i]) \in ALLOWED_WORKFLOW_TRANSITIONS[irun[i].state]
      <3>1. ipc[i] = "fail_run"
        BY <1>20 DEF FailDurableRun
      <3> QED
        BY <3>1, <1>o, InvestigationTransitions DEF InPlace, Failing
    <2>3. ipc'[i] = "failed"
      BY <2>1, <2>2, TransitionLegal, IThenPoint
    <2> QED
      BY <2>3, <1>q
  <1> QED
    BY <1>1, <1>2, <1>3, <1>4, <1>5, <1>6, <1>7, <1>8, <1>9, <1>10, <1>11, <1>12, <1>13,
       <1>14, <1>15, <1>16, <1>17, <1>18, <1>19, <1>20
       DEF InvestigatorStep

-----------------------------------------------------------------------------
(***************************************************************************)
(* Who owns the run.                                                       *)
(***************************************************************************)

\* A step of execute() leaves the approval calls and the instance alone.
LEMMA InvestigatorOthers ==
    ASSUME NEW i \in Investigators, InvestigatorStep(i) \/ InvestigatorCrash(i)
    PROVE  UNCHANGED others
  <1>1. CASE \/ Investigate(i) \/ CreateRun(i) \/ AuditCreated(i) \/ Raced(i)
             \/ ReconcileCompletion(i) \/ ToInvestigating(i) \/ AgentNotInvoked(i)
    BY <1>1 DEF Investigate, CreateRun, AuditCreated, Raced, ReconcileCompletion,
                ToInvestigating, AgentNotInvoked
  <1>2. CASE AgentInvoked(i) \/ RecordBudget(i) \/ AuditBudget(i) \/ AuditTools(i)
    BY <1>2 DEF AgentInvoked, RecordBudget, AuditBudget, AuditTools
  <1>3. CASE \/ ToEvidenceReady(i) \/ Checkpoint1(i) \/ CreateProposal(i)
             \/ AuditProposal(i) \/ ToProposed(i) \/ Checkpoint2(i) \/ CheckNoApproval(i)
    BY <1>3 DEF ToEvidenceReady, Checkpoint1, CreateProposal, AuditProposal, ToProposed,
                Checkpoint2, CheckNoApproval
  <1>4. CASE BudgetExhausted(i) \/ FailWithAudit(i) \/ FailDurableRun(i) \/ InvestigatorCrash(i)
    BY <1>4 DEF BudgetExhausted, FailWithAudit, FailDurableRun, InvestigatorCrash
  <1> QED
    BY <1>1, <1>2, <1>3, <1>4 DEF InvestigatorStep

\* The agent is counted where it is invoked, and overspending is noticed where the
\* budget is recorded.
LEMMA InvestigatorHistory ==
    ASSUME InvestigationTypeOK, NEW i \in Investigators,
           InvestigatorStep(i) \/ InvestigatorCrash(i)
    PROVE  /\ agentCalls' = agentCalls \/ (ipc[i] = "agent" /\ agentCalls' = agentCalls + 1)
           /\ overspent' = overspent \/ ipc[i] = "record_budget"
  <1> USE DEF history
  <1>1. CASE \/ Investigate(i) \/ CreateRun(i) \/ AuditCreated(i) \/ Raced(i)
             \/ ReconcileCompletion(i) \/ ToInvestigating(i) \/ AgentNotInvoked(i)
    BY <1>1 DEF Investigate, CreateRun, AuditCreated, Raced, ReconcileCompletion,
                ToInvestigating, AgentNotInvoked
  <1>2. CASE AgentInvoked(i) \/ RecordBudget(i) \/ AuditBudget(i) \/ AuditTools(i)
    BY <1>2 DEF AgentInvoked, RecordBudget, AuditBudget, AuditTools
  <1>3. CASE \/ ToEvidenceReady(i) \/ Checkpoint1(i) \/ CreateProposal(i)
             \/ AuditProposal(i) \/ ToProposed(i) \/ Checkpoint2(i) \/ CheckNoApproval(i)
    BY <1>3 DEF ToEvidenceReady, Checkpoint1, CreateProposal, AuditProposal, ToProposed,
                Checkpoint2, CheckNoApproval
  <1>4. CASE BudgetExhausted(i) \/ FailWithAudit(i) \/ FailDurableRun(i) \/ InvestigatorCrash(i)
    BY <1>4 DEF BudgetExhausted, FailWithAudit, FailDurableRun, InvestigatorCrash
  <1> QED
    BY <1>1, <1>2, <1>3, <1>4 DEF InvestigatorStep

\* Where a call continues, whatever the result.
LEMMA IThenSome ==
    ASSUME InvestigationTypeOK, NEW i \in Investigators, NEW res \in Result,
           NEW x, NEW y, NEW z, IThen(i, res, x, y, z)
    PROVE  ipc'[i] \in {x, y, z, "raised"}
  <1>1. ipc'[i] = After(res, x, y, z)
    BY DEF IThen, IGoto, InvestigationTypeOK
  <1> QED
    BY <1>1 DEF After, Result

\* The way into the part the owner takes is the stored transition of the received
\* run, and no other leads to the agent.
LEMMA InvestigatorOwning ==
    ASSUME DurableTypeOK, InvestigationTypeOK, NEW i \in Investigators,
           InvestigatorStep(i) \/ InvestigatorCrash(i), Owner(i)'
    PROVE  \/ Owner(i) /\ ipc'[i] # "agent"
           \/ run.version = 1 /\ run'.version = 2 /\ ~Owner(i)
  <1> USE DEF Owner, Owning, Examining, Proposing, Finishing
  <1>1. CASE Investigate(i)
    <2> DEFINE next == CASE run = Absent -> "create_run"
                         [] run = Received -> "to_investigating"
                         [] run.state = "REMEDIATION_PROPOSED" -> "reconcile"
                         [] OTHER -> "failed"
    <2>1. next \in {"create_run", "to_investigating", "reconcile", "failed"}
      BY Zenon
    <2>2. PICK res \in Result : IThen(i, res, next, "failed", "failed")
      BY <1>1 DEF Investigate
    <2> HIDE DEF next
    <2> QED
      BY <2>1, <2>2, IThenSome
  <1>2. CASE CreateRun(i)
    BY <1>2, IThenSome DEF CreateRun
  <1>3. CASE AuditCreated(i)
    BY <1>3, IThenSome DEF AuditCreated
  <1>4. CASE Raced(i)
    BY <1>4, IThenSome DEF Raced
  <1>5. CASE ReconcileCompletion(i)
    BY <1>5, IThenSome DEF ReconcileCompletion
  <1>6. CASE ToInvestigating(i)
    <2>1. PICK res \in Result : /\ transition_run("RECEIVED", 1, "INVESTIGATING", res)
                                /\ IThen(i, res, "agent", "failed", "failed")
      BY <1>6 DEF ToInvestigating
    <2>2. ipc'[i] = After(res, "agent", "failed", "failed")
      BY <2>1 DEF IThen, IGoto, InvestigationTypeOK
    <2>3. res = "ok"
      BY <2>2 DEF After, Result
    <2>4. run.version = 1 /\ run'.version = 2
      BY <2>1, <2>3 DEF transition_run, Write
    <2>5. ipc[i] = "to_investigating"
      BY <1>6 DEF ToInvestigating
    <2> QED
      BY <2>4, <2>5
  <1>7. CASE AgentNotInvoked(i) \/ InvestigatorCrash(i)
    BY <1>7 DEF AgentNotInvoked, InvestigatorCrash, IGoto, InvestigationTypeOK
  <1>8. CASE AgentInvoked(i)
    BY <1>8 DEF AgentInvoked, IGoto, InvestigationTypeOK
  <1>9. CASE RecordBudget(i)
    <2>1. PICK res \in Result : IThen(i, res, "audit_budget", "failed", "failed")
      BY <1>9 DEF RecordBudget
    <2>2. ipc[i] = "record_budget"
      BY <1>9 DEF RecordBudget
    <2> QED
      BY <2>1, <2>2, IThenSome
  <1>10. CASE AuditBudget(i)
    <2>1. PICK res \in Result : IThen(i, res, after_budget(i), "failed", "failed")
      BY <1>10 DEF AuditBudget
    <2>2. ipc[i] = "audit_budget"
      BY <1>10 DEF AuditBudget
    <2> QED
      BY <2>1, <2>2, IThenSome, AfterBudget
  <1>11. CASE AuditTools(i)
    BY <1>11, IThenSome DEF AuditTools
  <1>12. CASE ToEvidenceReady(i)
    BY <1>12, IThenSome DEF ToEvidenceReady
  <1>13. CASE Checkpoint1(i)
    <2> DEFINE next == CASE iout[i] = "not_eligible" -> "audit_failure"
                         [] iout[i] = "no_proposal" -> "fail_run"
                         [] OTHER -> "create_proposal"
    <2>1. next \in {"audit_failure", "fail_run", "create_proposal"}
      BY Zenon
    <2>2. PICK res \in Result : IThen(i, res, next, "fail_run", "fail_run")
      BY <1>13 DEF Checkpoint1
    <2>3. ipc[i] = "checkpoint_1"
      BY <1>13 DEF Checkpoint1
    <2> HIDE DEF next
    <2> QED
      BY <2>1, <2>2, <2>3, IThenSome
  <1>14. CASE CreateProposal(i)
    BY <1>14, IThenSome DEF CreateProposal
  <1>15. CASE AuditProposal(i)
    BY <1>15, IThenSome DEF AuditProposal
  <1>16. CASE ToProposed(i)
    BY <1>16, IThenSome DEF ToProposed
  <1>17. CASE Checkpoint2(i)
    BY <1>17, IThenSome DEF Checkpoint2
  <1>18. CASE CheckNoApproval(i)
    BY <1>18, IThenSome DEF CheckNoApproval
  <1>19. CASE BudgetExhausted(i)
    BY <1>19, IThenSome DEF BudgetExhausted
  <1>20. CASE FailWithAudit(i)
    BY <1>20, IThenSome DEF FailWithAudit, IGoto, InvestigationTypeOK
  <1>21. CASE FailDurableRun(i)
    BY <1>21, IThenSome DEF FailDurableRun
  <1> QED
    BY <1>1, <1>2, <1>3, <1>4, <1>5, <1>6, <1>7, <1>8, <1>9, <1>10, <1>11, <1>12, <1>13,
       <1>14, <1>15, <1>16, <1>17, <1>18, <1>19, <1>20, <1>21
       DEF InvestigatorStep

\* A step of execute() keeps the one owner, who invokes the agent once.
LEMMA OneOwnerKept ==
    ASSUME TypeOK, OneOwner, NEW i \in Investigators,
           InvestigatorStep(i) \/ InvestigatorCrash(i)
    PROVE  OneOwner'
  <1> USE DEF TypeOK
  <1>n. agentCalls \in Nat /\ run.version \in Nat
    BY DEF InvestigationTypeOK, DurableTypeOK, Run
  <1>1. \A j \in Investigators : j # i => ipc'[j] = ipc[j]
    BY InvestigatorFrame
  <1>2. \A j \in Investigators : j # i => (Owner(j)' <=> Owner(j))
    BY <1>1 DEF Owner
  <1>3. Owner(i)' => \/ Owner(i) /\ ipc'[i] # "agent"
                     \/ run.version = 1 /\ run'.version = 2 /\ ~Owner(i)
    BY InvestigatorOwning
  <1>4. /\ agentCalls' = agentCalls \/ (ipc[i] = "agent" /\ agentCalls' = agentCalls + 1)
        /\ overspent' = overspent \/ ipc[i] = "record_budget"
    BY InvestigatorHistory
  <1>5. run.version >= 2 => run'.version >= 2
    <2>1. Moved(i)
      BY InvestigatorRecords
    <2> QED
      BY <2>1, <1>n DEF Moved, Absent
  <1>6. (ipc[i] = "agent" => Owner(i)) /\ (ipc[i] = "record_budget" => Owner(i))
    BY DEF Owner, Owning, Examining
  <1>7. /\ \A j \in Investigators : Owner(j) => run.version >= 2
        /\ agentCalls > 0 => run.version >= 2
        /\ overspent => run.version >= 2
    BY DEF OneOwner
  <1>8. \A j, k \in Investigators : Owner(j)' /\ Owner(k)' => j = k
    <2> SUFFICES ASSUME NEW j \in Investigators, NEW k \in Investigators,
                        Owner(j)', Owner(k)', j # k
                 PROVE  FALSE
      OBVIOUS
    <2>1. CASE j # i /\ k # i
      BY <2>1, <1>2 DEF OneOwner
    <2>2. CASE j = i \/ k = i
      BY <2>2, <1>2, <1>3, <1>7, <1>n DEF OneOwner
    <2> QED
      BY <2>1, <2>2
  <1>9. (\E j \in Investigators : Owner(j)') => run'.version >= 2
    BY <1>2, <1>3, <1>5, <1>7
  <1>10. agentCalls' > 0 \/ overspent' => run'.version >= 2
    BY <1>4, <1>5, <1>6, <1>7, <1>n
  <1>11. agentCalls' <= 1
    BY <1>4, <1>n DEF OneOwner
  <1>12. \A j \in Investigators : ipc'[j] = "agent" => agentCalls' = 0
    <2> SUFFICES ASSUME NEW j \in Investigators, ipc'[j] = "agent"
                 PROVE  agentCalls' = 0
      OBVIOUS
    <2>1. Owner(j)'
      BY DEF Owner, Owning, Examining
    <2>2. CASE j # i
      <3>1. Owner(j) /\ ipc[j] = "agent" /\ ~Owner(i)
        BY <2>1, <2>2, <1>1, <1>2 DEF OneOwner
      <3> QED
        BY <3>1, <1>4, <1>6 DEF OneOwner
    <2>3. CASE j = i
      <3>1. run.version = 1 /\ ~Owner(i)
        BY <2>1, <2>3, <1>3
      <3> QED
        BY <3>1, <1>4, <1>6, <1>7, <1>n
    <2> QED
      BY <2>2, <2>3
  <1> QED
    BY <1>8, <1>9, <1>10, <1>11, <1>12 DEF OneOwner

\* A step of execute() leaves the other calls what they hold: the owner moves
\* nothing that a call without the run relies on, and the others move nothing.
LEMMA HoldsElsewhere ==
    ASSUME TypeOK, OneOwner, NEW i \in Investigators, NEW j \in Investigators, j # i,
           Holds(j), InvestigatorStep(i) \/ InvestigatorCrash(i)
    PROVE  Holds(j)'
  <1> USE DEF TypeOK
  <1>1. /\ ipc'[j] = ipc[j] /\ irun'[j] = irun[j] /\ iout'[j] = iout[j]
        /\ ikind'[j] = ikind[j] /\ itool'[j] = itool[j]
    BY InvestigatorFrame
  <1>2. CASE ~Owner(j)
    BY <1>1, <1>2 DEF Holds, InPlace, Failing, Backed, Spent, Observed, Owner, Owning,
                      Examining, Proposing, Finishing
  <1>3. CASE Owner(j)
    <2>1. ~Owner(i) /\ run.version >= 2 /\ run.version \in Nat
      BY <1>3 DEF OneOwner, DurableTypeOK, Run
    <2>2. ipc[i] \notin {"record_budget", "to_evidence_ready", "to_proposed", "fail_run",
                         "checkpoint_1", "checkpoint_2"}
      BY <2>1 DEF Owner, Owning, Examining, Proposing, Finishing
    <2>3. /\ Moved(i) /\ Stored(i) /\ audit \subseteq audit'
          /\ proposal # "none" => proposal' # "none"
      BY InvestigatorRecords
    <2>4. run' = run
      BY <2>1, <2>2, <2>3 DEF Moved, Absent, Received
    <2>5. checkpoint' = checkpoint
      BY <2>2, <2>3 DEF Stored
    <2>6. overspent' = overspent
      BY <2>2, InvestigatorHistory
    <2> QED
      BY <1>1, <2>3, <2>4, <2>5, <2>6
         DEF Holds, InPlace, Failing, Backed, Spent, Observed, Owner
  <1> QED
    BY <1>2, <1>3

-----------------------------------------------------------------------------
(***************************************************************************)
(* What a step of execute() leaves of the run's records.                   *)
(***************************************************************************)

\* The depths of the states.
LEMMA Depths ==
    /\ Depth["RECEIVED"] = 0 /\ Depth["INVESTIGATING"] = 1 /\ Depth["EVIDENCE_READY"] = 2
    /\ Depth["REMEDIATION_PROPOSED"] = 3 /\ Depth["AWAITING_APPROVAL"] = 4
    /\ Depth["APPROVED"] = 5 /\ Depth["DENIED_BY_HUMAN"] = 5
    /\ \A s \in WorkflowState : Depth[s] \in 0..6
    /\ \A s \in WorkflowState :
         /\ Depth[s] = 0 => s = "RECEIVED"
         /\ Depth[s] = 1 => s = "INVESTIGATING"
         /\ Depth[s] = 2 => s = "EVIDENCE_READY"
         /\ Depth[s] = 3 => s = "REMEDIATION_PROPOSED"
         /\ Depth[s] = 4 => s = "AWAITING_APPROVAL"
         /\ Depth[s] = 5 => s \in {"APPROVED", "DENIED_BY_HUMAN"}
  BY DEF Depth, WorkflowState, TERMINAL_WORKFLOW_STATES

\* A run moved by execute() has come further, and where a human sees it it is the
\* owner's proposal or was there before.
LEMMA InvestigatorMoves ==
    ASSUME TypeOK, NEW i \in Investigators, Holds(i),
           InvestigatorStep(i) \/ InvestigatorCrash(i)
    PROVE  /\ Depth[run.state] <= Depth[run'.state]
           /\ run'.state \in Handed =>
                run'.state = run.state \/ ipc[i] = "to_proposed"
  <1>1. Moved(i)
    BY InvestigatorRecords DEF TypeOK
  <1>2. run.state \in WorkflowState /\ Depth[run.state] \in 0..6
    BY Depths DEF TypeOK, DurableTypeOK, Run
  <1>3. /\ ipc[i] = "to_evidence_ready" => irun[i].state = "INVESTIGATING"
        /\ ipc[i] = "to_proposed" => irun[i].state = "EVIDENCE_READY"
    BY DEF Holds, InPlace, Examining, Proposing
  <1>4. CASE run'.state = run.state
    BY <1>2, <1>4
  <1>5. CASE ipc[i] = "to_investigating" /\ run = Received /\ run'.state = "INVESTIGATING"
    BY <1>5, Depths DEF Received, Handed
  <1>6. CASE /\ ipc[i] = "to_evidence_ready" /\ run.state = irun[i].state
             /\ run'.state = "EVIDENCE_READY"
    BY <1>3, <1>6, Depths DEF Handed
  <1>7. CASE /\ ipc[i] = "to_proposed" /\ run.state = irun[i].state
             /\ run'.state = "REMEDIATION_PROPOSED"
    BY <1>3, <1>7, Depths
  <1>8. CASE run'.state = workflow_state_for_failure(ikind[i])
    BY <1>2, <1>8, FailureEnds
  <1>9. run = Absent /\ run' = Received => run'.state = run.state
    BY DEF Absent, Received
  <1> QED
    BY <1>1, <1>4, <1>5, <1>6, <1>7, <1>8, <1>9 DEF Moved

\* A step of execute() keeps the checkpoint behind the run.
LEMMA SavedKept ==
    ASSUME TypeOK, NEW i \in Investigators, Holds(i), Saved,
           InvestigatorStep(i) \/ InvestigatorCrash(i)
    PROVE  Saved'
  <1>1. Stored(i) /\ DurableTypeOK'
    BY InvestigatorRecords, InvestigatorType DEF TypeOK, Holds
  <1>2. /\ run.state \in WorkflowState /\ run'.state \in WorkflowState
        /\ checkpoint.safe \in WorkflowState
    BY <1>1 DEF TypeOK, DurableTypeOK, Run, Checkpoint
  <1>3. /\ Depth[run.state] \in 0..6 /\ Depth[run'.state] \in 0..6
        /\ Depth[checkpoint.safe] \in 0..6
        /\ Depth[run.state] <= Depth[run'.state]
    BY <1>2, Depths, InvestigatorMoves
  <1>4. CASE checkpoint' = checkpoint
    BY <1>3, <1>4 DEF Saved
  <1>5. CASE /\ ipc[i] = "checkpoint_1" /\ checkpoint'.safe = "EVIDENCE_READY"
             /\ checkpoint'.interrupt = FALSE
    <2>1. run.state = "EVIDENCE_READY"
      BY <1>5 DEF Holds, InPlace, Proposing
    <2> QED
      BY <1>3, <1>5, <2>1, Depths DEF Saved
  <1>6. CASE /\ ipc[i] = "checkpoint_2" /\ checkpoint'.safe = "REMEDIATION_PROPOSED"
             /\ checkpoint'.interrupt = FALSE
    <2>1. Depth[run.state] >= 3
      BY <1>6 DEF Holds, InPlace, Finishing
    <2> QED
      BY <1>3, <1>6, <2>1, Depths DEF Saved
  <1> QED
    BY <1>1, <1>4, <1>5, <1>6 DEF Stored

\* A step of execute() keeps a run that a human can see backed and within budget.
LEMMA ProposedKept ==
    ASSUME TypeOK, OneOwner, NEW i \in Investigators, Holds(i),
           ProposedRunIsBacked, OverspendingNeverProposes,
           InvestigatorStep(i) \/ InvestigatorCrash(i)
    PROVE  ProposedRunIsBacked' /\ OverspendingNeverProposes'
  <1>1. /\ run'.state \in Handed => run'.state = run.state \/ ipc[i] = "to_proposed"
    BY InvestigatorMoves
  <1>2. /\ Stored(i) /\ audit \subseteq audit'
        /\ proposal # "none" => proposal' # "none"
    BY InvestigatorRecords DEF TypeOK
  <1>3. checkpoint.version >= 1 => checkpoint'.version >= 1
    BY <1>2 DEF Stored, TypeOK, DurableTypeOK, Checkpoint
  <1>4. overspent' = overspent \/ ipc[i] = "record_budget"
    BY InvestigatorHistory DEF TypeOK
  <1>5. ipc[i] = "to_proposed" =>
          /\ {"TOOL_OBSERVED", "BUDGET_UPDATED", "PROPOSAL_CREATED"} \subseteq audit
          /\ proposal # "none" /\ checkpoint.version >= 1 /\ ~overspent
    BY DEF Holds, Backed, Spent, Proposing, Owner, Owning
  <1>6. ipc[i] = "record_budget" => run.state \notin Handed
    BY DEF Holds, InPlace, Examining, Handed
  <1>7. ProposedRunIsBacked'
    BY <1>1, <1>2, <1>3, <1>5 DEF ProposedRunIsBacked
  <1>8. OverspendingNeverProposes'
    BY <1>1, <1>4, <1>5, <1>6 DEF OverspendingNeverProposes
  <1> QED
    BY <1>7, <1>8

\* A step of execute() keeps the invariant.
LEMMA InvestigatorKeepsIInv ==
    ASSUME IInv, NEW i \in Investigators, InvestigatorStep(i) \/ InvestigatorCrash(i)
    PROVE  IInv'
  <1>1. /\ TypeOK /\ OneOwner /\ Holds(i) /\ Saved
        /\ ProposedRunIsBacked /\ OverspendingNeverProposes
    BY DEF IInv
  <1>2. DurableTypeOK' /\ InvestigationTypeOK'
    BY <1>1, InvestigatorType DEF TypeOK, Holds
  <1>3. UNCHANGED <<cloud, approvals>>
    BY InvestigatorOthers DEF others
  <1>4. TypeOK'
    BY <1>1, <1>2, <1>3 DEF TypeOK, cloud, approvals, CloudTypeOK, ApprovalTypeOK
  <1>5. OneOwner'
    BY <1>1, OneOwnerKept
  <1>6. \A j \in Investigators : Holds(j)'
    BY <1>1, InvestigatorHolding, HoldsElsewhere DEF IInv
  <1>7. Depth[run.state] <= Depth[run'.state] /\ Depth[run.state] \in 0..6
        /\ Depth[run'.state] \in 0..6
    BY <1>1, <1>2, InvestigatorMoves, Depths DEF TypeOK, DurableTypeOK, Run
  <1>8. ASSUME NEW a \in Approvers
        PROVE  ApproverHolds(a)' /\ Replaces(a)'
    <2>1. ApproverHolds(a) /\ Replaces(a)
      BY DEF IInv
    <2>2. ApproverHolds(a)'
      BY <1>3, <2>1 DEF approvals, ApproverHolds
    <2>3. Replaces(a)'
      BY <1>3, <1>7, <2>1 DEF approvals, Replaces
    <2> QED
      BY <2>2, <2>3
  <1>9. Saved' /\ ProposedRunIsBacked' /\ OverspendingNeverProposes'
    BY <1>1, SavedKept, ProposedKept
  <1> QED
    BY <1>4, <1>5, <1>6, <1>8, <1>9 DEF IInv

-----------------------------------------------------------------------------
(***************************************************************************)
(* What a step of request() or resume() leaves of them.                    *)
(***************************************************************************)

\* How such a step may move the run: from where a human can see it, on.
Answered(a) ==
    \/ run' = run
    \/ /\ run'.version = run.version + 1
       /\ \/ /\ apc[a] = "to_awaiting" /\ run.state = "REMEDIATION_PROPOSED"
             /\ run'.state = "AWAITING_APPROVAL"
          \/ /\ apc[a] = "to_decision" /\ run.state = "AWAITING_APPROVAL"
             /\ run'.state = target_state(areply[a].decision)
          \/ /\ apc[a] = "persist_failure" /\ run.state = "AWAITING_APPROVAL"
             /\ run'.state = workflow_state_for_failure(afail[a])

\* The checkpoint it may have stored.
Interrupted(a) ==
    \/ checkpoint' = checkpoint
    \/ /\ checkpoint.version = ackpt[a].version
       /\ checkpoint'.version = checkpoint.version + 1
       /\ \/ /\ apc[a] = "save_interrupt" /\ checkpoint'.safe = "AWAITING_APPROVAL"
             /\ checkpoint'.interrupt = TRUE
          \/ /\ apc[a] = "save_decision"
             /\ checkpoint'.safe = target_state(areply[a].decision)
             /\ checkpoint'.interrupt = ackpt[a].interrupt

\* The state a decision leads to.
LEMMA TargetStates ==
    ASSUME NEW decision
    PROVE  target_state(decision) \in {"APPROVED", "DENIED_BY_HUMAN"}
  BY DEF target_state

\* A checkpoint built from another one replaces the version of that.
LEMMA SaveCheckpointRecords ==
    ASSUME DurableTypeOK, NEW base \in Checkpoint, NEW new \in Checkpoint, NEW res,
           save_checkpoint(base, new, res)
    PROVE  /\ UNCHANGED <<run, proposal, audit>>
           /\ \/ checkpoint' = checkpoint
              \/ /\ checkpoint.version = base.version
                 /\ checkpoint'.version = checkpoint.version + 1
                 /\ checkpoint'.safe = new.safe /\ checkpoint'.interrupt = new.interrupt
  <1>1. /\ [new EXCEPT !.version = base.version + 1].version = base.version + 1
        /\ [new EXCEPT !.version = base.version + 1].safe = new.safe
        /\ [new EXCEPT !.version = base.version + 1].interrupt = new.interrupt
    BY DEF Checkpoint
  <1>2. /\ UNCHANGED <<run, proposal, audit>>
        /\ \/ checkpoint' = checkpoint
           \/ /\ checkpoint.version = base.version
              /\ checkpoint' = [new EXCEPT !.version = base.version + 1]
    BY DEF save_checkpoint, Write
  <1> QED
    BY <1>1, <1>2

\* A step of request() or resume() moves the run or stores a checkpoint only where
\* it says, and takes nothing back.
LEMMA ApproverRecords ==
    ASSUME DurableTypeOK, ApprovalTypeOK, NEW a \in Approvers, ApproverHolds(a),
           ApproverStep(a) \/ ApproverCrash(a)
    PROVE  /\ Answered(a) /\ Interrupted(a)
           /\ audit \subseteq audit'
           /\ proposal # "none" => proposal' # "none"
  <1> USE DEF Answered, Interrupted, records, durable
  <1>w. /\ "AWAITING_APPROVAL" \in WorkflowState
        /\ ackpt[a] \in Checkpoint
        /\ checkpoint \in Checkpoint
    BY DEF WorkflowState, DurableTypeOK, ApprovalTypeOK
  <1>1. CASE \/ Request(a) \/ RequestGetRun(a) \/ RequestGetCheckpoint(a) \/ ResumeGetRun(a)
             \/ ResumeGetCheckpoint(a) \/ GetApproval(a)
    BY <1>1 DEF Request, RequestGetRun, RequestGetCheckpoint, ResumeGetRun,
                ResumeGetCheckpoint, GetApproval, Read
  <1>2. CASE RequestTransitionProposal(a)
    BY <1>2 DEF RequestTransitionProposal, transition_proposal, Write
  <1>3. CASE RequestTransitionRun(a)
    <2>1. \/ run' = run
          \/ /\ run.state = "REMEDIATION_PROPOSED" /\ run.version = arun[a].version
             /\ run' = [state |-> "AWAITING_APPROVAL", version |-> arun[a].version + 1]
      BY <1>3, <1>w, TransitionRun DEF RequestTransitionRun
    <2>2. UNCHANGED <<checkpoint, audit, proposal>> /\ apc[a] = "to_awaiting"
      BY <1>3 DEF RequestTransitionRun, transition_run
    <2> QED
      BY <2>1, <2>2
  <1>4. CASE RequestAgent(a)
    BY <1>4 DEF RequestAgent
  <1>5. CASE \/ RequestAuditFailure(a) \/ AppendApprovalRequested(a) \/ AppendMismatch(a)
             \/ AppendApprovalRecorded(a)
    BY <1>5 DEF RequestAuditFailure, AppendApprovalRequested, AppendMismatch,
                AppendApprovalRecorded, append_audit_event
  <1>6. CASE PersistRequestFailure(a)
    <2>1. apc[a] = "persist_failure" /\ arun[a].state = "AWAITING_APPROVAL"
      BY <1>6 DEF PersistRequestFailure, ApproverHolds
    <2>2. \/ run' = run
          \/ /\ run.state = arun[a].state /\ run.version = arun[a].version
             /\ run' = [state |-> workflow_state_for_failure(afail[a]),
                        version |-> arun[a].version + 1]
      BY <1>6, FailureStates, TransitionRun DEF PersistRequestFailure
    <2>3. UNCHANGED <<checkpoint, audit, proposal>>
      BY <1>6 DEF PersistRequestFailure, transition_run
    <2> QED
      BY <2>1, <2>2, <2>3
  <1>7. CASE SaveInterrupt(a)
    <2> DEFINE new == [ackpt[a] EXCEPT !.safe = "AWAITING_APPROVAL", !.interrupt = TRUE,
                                       !.lease = checkpoint.lease]
    <2>1. PICK res \in Result : save_checkpoint(ackpt[a], new, res)
      BY <1>7 DEF SaveInterrupt
    <2>2. new \in Checkpoint /\ new.safe = "AWAITING_APPROVAL" /\ new.interrupt = TRUE
      BY <1>w DEF Checkpoint
    <2>3. apc[a] = "save_interrupt"
      BY <1>7 DEF SaveInterrupt
    <2> HIDE DEF new
    <2> QED
      BY <1>w, <2>1, <2>2, <2>3, SaveCheckpointRecords
  <1>8. CASE Resume(a) \/ CheckState(a) \/ ApproverCrash(a)
    BY <1>8 DEF Resume, CheckState, ApproverCrash
  <1>9. CASE CreateApproval(a)
    BY <1>9 DEF CreateApproval, create_approval, Write
  <1>10. CASE TransitionToDecision(a)
    <2>1. target_state(areply[a].decision) \in WorkflowState
      BY TargetStates DEF WorkflowState, TERMINAL_WORKFLOW_STATES
    <2>2. \/ run' = run
          \/ /\ run.state = "AWAITING_APPROVAL" /\ run.version = arun[a].version
             /\ run' = [state |-> target_state(areply[a].decision),
                        version |-> arun[a].version + 1]
      BY <1>10, <2>1, TransitionRun DEF TransitionToDecision
    <2>3. UNCHANGED <<checkpoint, audit, proposal>> /\ apc[a] = "to_decision"
      BY <1>10 DEF TransitionToDecision, transition_run
    <2> QED
      BY <2>2, <2>3
  <1>11. CASE SaveDecision(a)
    <2> DEFINE new == [ackpt[a] EXCEPT !.safe = target_state(areply[a].decision),
                                       !.lease = checkpoint.lease]
    <2>1. PICK res \in Result : save_checkpoint(ackpt[a], new, res)
      BY <1>11 DEF SaveDecision
    <2>2. target_state(areply[a].decision) \in WorkflowState
      BY TargetStates DEF WorkflowState, TERMINAL_WORKFLOW_STATES
    <2>3. /\ new \in Checkpoint /\ new.safe = target_state(areply[a].decision)
          /\ new.interrupt = ackpt[a].interrupt
      BY <1>w, <2>2 DEF Checkpoint
    <2>4. apc[a] = "save_decision"
      BY <1>11 DEF SaveDecision
    <2> HIDE DEF new
    <2> QED
      BY <1>w, <2>1, <2>3, <2>4, SaveCheckpointRecords
  <1> QED
    BY <1>1, <1>2, <1>3, <1>4, <1>5, <1>6, <1>7, <1>8, <1>9, <1>10, <1>11
       DEF ApproverStep

\* A run moved by an approval call has come further, from a state a human sees.
LEMMA ApproverMoves ==
    ASSUME DurableTypeOK, ApprovalTypeOK, NEW a \in Approvers, ApproverHolds(a),
           ApproverStep(a) \/ ApproverCrash(a)
    PROVE  /\ Depth[run.state] <= Depth[run'.state] /\ Depth[run'.state] \in 0..6
           /\ Depth[run.state] \in 0..6
           /\ run.version <= run'.version
           /\ run' = run \/ (Depth[run.state] >= 3 /\ run.state \in Handed)
  <1>1. Answered(a)
    BY ApproverRecords
  <1>2. /\ run.state \in WorkflowState /\ Depth[run.state] \in 0..6
        /\ run.version \in Nat
    BY Depths DEF DurableTypeOK, Run
  <1>3. CASE run' = run
    BY <1>2, <1>3
  <1>4. CASE /\ run.state = "REMEDIATION_PROPOSED" /\ run'.state = "AWAITING_APPROVAL"
             /\ run'.version = run.version + 1
    BY <1>2, <1>4, Depths DEF Handed
  <1>5. CASE /\ run.state = "AWAITING_APPROVAL"
             /\ run'.state = target_state(areply[a].decision)
             /\ run'.version = run.version + 1
    BY <1>2, <1>5, Depths, TargetStates DEF Handed
  <1>6. CASE /\ run.state = "AWAITING_APPROVAL"
             /\ run'.state = workflow_state_for_failure(afail[a])
             /\ run'.version = run.version + 1
    BY <1>2, <1>6, Depths, FailureEnds DEF Handed
  <1> QED
    BY <1>1, <1>3, <1>4, <1>5, <1>6 DEF Answered

\* Where an approval call continues, whatever the result.
LEMMA AThenSome ==
    ASSUME ApprovalTypeOK, NEW a \in Approvers, NEW res \in Result,
           NEW x, NEW y, NEW z, AThen(a, res, x, y, z)
    PROVE  apc'[a] \in {x, y, z, "raised"}
  <1>1. apc'[a] = After(res, x, y, z)
    BY DEF AThen, AGoto, ApprovalTypeOK
  <1> QED
    BY <1>1 DEF After, Result

\* A step of request() or resume() keeps what the call knows of the checkpoint it
\* will replace.
LEMMA ApproverReplacing ==
    ASSUME TypeOK, Saved, NEW a \in Approvers, ApproverHolds(a), Replaces(a),
           ApproverStep(a) \/ ApproverCrash(a)
    PROVE  Replaces(a)'
  <1> USE DEF TypeOK, Requesting, Deciding
  <1>v. /\ checkpoint.version \in Nat /\ ackpt[a].version \in Nat
        /\ checkpoint.interrupt => checkpoint.version >= 2
        /\ ackpt[a].interrupt => ackpt[a].version >= 2
    BY DEF Replaces, Saved, DurableTypeOK, ApprovalTypeOK, Checkpoint
  <1>p. ASSUME apc'[a] \notin {"save_interrupt", "save_decision", "to_awaiting_proposal",
                               "to_awaiting", "agent", "get_approval", "create_approval",
                               "check_state", "to_decision"},
               ackpt'[a] \in {ackpt[a], checkpoint}
        PROVE  Replaces(a)'
    BY <1>p, <1>v DEF Replaces
  <1>q. ASSUME apc'[a] \in {"get_approval", "create_approval", "check_state", "to_decision"},
               \/ ackpt'[a] = ackpt[a] /\ ackpt[a].interrupt
               \/ ackpt'[a] = checkpoint /\ checkpoint.interrupt
        PROVE  Replaces(a)'
    BY <1>q, <1>v DEF Replaces
  <1>1. CASE \/ Request(a) \/ RequestGetRun(a) \/ RequestAuditFailure(a)
             \/ PersistRequestFailure(a) \/ SaveInterrupt(a)
    BY <1>1, <1>p, AThenSome
       DEF Request, RequestGetRun, RequestAuditFailure, PersistRequestFailure, SaveInterrupt,
           alocals
  <1>2. CASE \/ AppendApprovalRequested(a) \/ ResumeGetRun(a) \/ AppendMismatch(a)
             \/ SaveDecision(a) \/ AppendApprovalRecorded(a)
    BY <1>2, <1>p, AThenSome
       DEF AppendApprovalRequested, ResumeGetRun, AppendMismatch, SaveDecision,
           AppendApprovalRecorded, alocals
  <1>3. CASE Resume(a) \/ ApproverCrash(a)
    BY <1>3, <1>p DEF Resume, ApproverCrash, AGoto, alocals, ApprovalTypeOK
  <1>4. CASE RequestGetCheckpoint(a)
    <2>1. PICK res \in Result :
            AThen(a, res, IF /\ arun[a].state = "REMEDIATION_PROPOSED"
                             /\ aprop[a] = "PROPOSED"
                             /\ checkpoint.version > 0
                          THEN "to_awaiting_proposal" ELSE "done",
                  "done", "done")
      BY <1>4 DEF RequestGetCheckpoint
    <2>2. ackpt'[a] = checkpoint
      BY <1>4 DEF RequestGetCheckpoint, ApprovalTypeOK
    <2>3. CASE checkpoint.version > 0
      <3>1. apc'[a] \in {"to_awaiting_proposal", "done", "raised"}
        BY <2>1, AThenSome
      <3> QED
        BY <3>1, <2>2, <2>3, <1>v DEF Replaces
    <2>4. CASE ~(checkpoint.version > 0)
      <3>1. apc'[a] \in {"done", "raised"}
        BY <2>1, <2>4, AThenSome
      <3> QED
        BY <3>1, <2>2, <1>p
    <2> QED
      BY <2>3, <2>4
  <1>5. CASE RequestTransitionProposal(a)
    <2>1. apc'[a] \in {"to_awaiting", "done", "raised"} /\ ackpt' = ackpt
      BY <1>5, AThenSome DEF RequestTransitionProposal, alocals
    <2>2. apc[a] = "to_awaiting_proposal"
      BY <1>5 DEF RequestTransitionProposal
    <2> QED
      BY <2>1, <2>2, <1>v DEF Replaces
  <1>6. CASE RequestTransitionRun(a)
    <2>1. PICK res \in Result :
             /\ transition_run("REMEDIATION_PROPOSED", arun[a].version, "AWAITING_APPROVAL", res)
             /\ AThen(a, res, "agent", "done", "done")
      BY <1>6 DEF RequestTransitionRun
    <2>2. ackpt' = ackpt /\ apc[a] = "to_awaiting"
      BY <1>6 DEF RequestTransitionRun
    <2>3. CASE res = "ok"
      <3>1. run'.state = "AWAITING_APPROVAL"
        BY <2>1, <2>3 DEF transition_run, Write
      <3>2. apc'[a] \in {"agent", "done", "raised"}
        BY <2>1, AThenSome
      <3> QED
        BY <3>1, <3>2, <2>2, <1>v, Depths DEF Replaces
    <2>4. CASE res # "ok"
      <3>1. apc'[a] = After(res, "agent", "done", "done")
        BY <2>1 DEF AThen, AGoto, ApprovalTypeOK
      <3>2. apc'[a] \in {"done", "raised"}
        BY <3>1, <2>4 DEF After, Result
      <3> QED
        BY <3>2, <2>2, <1>p
    <2> QED
      BY <2>3, <2>4
  <1>7. CASE RequestAgent(a)
    <2>1. /\ apc'[a] \in {"save_interrupt", "done", "persist_failure", "audit_failure"}
          /\ ackpt' = ackpt /\ run' = run /\ apc[a] = "agent"
      BY <1>7 DEF RequestAgent, AGoto, ApprovalTypeOK
    <2> QED
      BY <2>1, <1>v DEF Replaces
  <1>8. CASE ResumeGetCheckpoint(a)
    <2> DEFINE next(matching) ==
          CASE aprop[a] = "none" \/ checkpoint.version = 0 -> "done"
            [] matching /\ checkpoint.interrupt -> "get_approval"
            [] OTHER -> "append_mismatch"
    <2>1. PICK res \in Result, matching \in BOOLEAN :
            AThen(a, res, next(matching), "done", "done")
      BY <1>8 DEF ResumeGetCheckpoint
    <2>2. /\ next(matching) \in {"done", "get_approval", "append_mismatch"}
          /\ next(matching) = "get_approval" => checkpoint.interrupt
      <3>1. next(matching) \in {"done", "get_approval", "append_mismatch"}
        BY Zenon
      <3>2. ASSUME ~checkpoint.interrupt
            PROVE  next(matching) \in {"done", "append_mismatch"}
        BY <3>2, Zenon
      <3> QED
        BY <3>1, <3>2
    <2> HIDE DEF next
    <2>3. apc'[a] \in {"done", "append_mismatch", "raised", "get_approval"}
      BY <2>1, <2>2, AThenSome
    <2>4. apc'[a] = "get_approval" => checkpoint.interrupt
      BY <2>1, <2>2, AThenSome
    <2>5. ackpt'[a] = checkpoint
      BY <1>8 DEF ResumeGetCheckpoint, ApprovalTypeOK
    <2> QED
      BY <2>3, <2>4, <2>5, <1>p, <1>q
  <1>9. CASE GetApproval(a)
    <2>1. decision_disposition(a) \in {"create_approval", "check_state", "done"}
      BY Zenon DEF decision_disposition
    <2>2. /\ apc'[a] \in {"create_approval", "check_state", "done", "raised"}
          /\ ackpt' = ackpt /\ apc[a] = "get_approval"
      BY <1>9, <2>1, AThenSome DEF GetApproval, alocals
    <2> QED
      BY <2>2, <1>p, <1>q DEF Replaces
  <1>10. CASE CreateApproval(a)
    <2>1. /\ apc'[a] \in {"check_state", "done", "raised"}
          /\ ackpt' = ackpt /\ apc[a] = "create_approval"
      BY <1>10, AThenSome DEF CreateApproval, alocals
    <2> QED
      BY <2>1, <1>p, <1>q DEF Replaces
  <1>11. CASE CheckState(a)
    <2>1. /\ apc'[a] \in {"to_decision", "done"}
          /\ ackpt' = ackpt /\ apc[a] = "check_state"
      BY <1>11 DEF CheckState, AGoto, alocals, ApprovalTypeOK
    <2> QED
      BY <2>1, <1>p, <1>q DEF Replaces
  <1>12. CASE TransitionToDecision(a)
    <2>1. PICK res \in Result :
             /\ transition_run("AWAITING_APPROVAL", arun[a].version,
                               target_state(areply[a].decision), res)
             /\ AThen(a, res, "save_decision", "done", "done")
      BY <1>12 DEF TransitionToDecision
    <2>2. ackpt' = ackpt /\ apc[a] = "to_decision"
      BY <1>12 DEF TransitionToDecision, alocals
    <2>3. CASE res = "ok"
      <3>1. run'.state \in {"APPROVED", "DENIED_BY_HUMAN"}
        BY <2>1, <2>3, TargetStates DEF transition_run, Write
      <3>2. apc'[a] \in {"save_decision", "done", "raised"}
        BY <2>1, AThenSome
      <3> QED
        BY <3>1, <3>2, <2>2, <1>v, Depths DEF Replaces
    <2>4. CASE res # "ok"
      <3>1. apc'[a] = After(res, "save_decision", "done", "done")
        BY <2>1 DEF AThen, AGoto, ApprovalTypeOK
      <3>2. apc'[a] \in {"done", "raised"}
        BY <3>1, <2>4 DEF After, Result
      <3> QED
        BY <3>2, <2>2, <1>p
    <2> QED
      BY <2>3, <2>4
  <1> QED
    BY <1>1, <1>2, <1>3, <1>4, <1>5, <1>6, <1>7, <1>8, <1>9, <1>10, <1>11, <1>12
       DEF ApproverStep

\* A step of request() or resume() keeps the checkpoint behind the run.
LEMMA ApproverSaved ==
    ASSUME TypeOK, Saved, NEW a \in Approvers, ApproverHolds(a), Replaces(a),
           ApproverStep(a) \/ ApproverCrash(a)
    PROVE  Saved'
  <1> USE DEF TypeOK
  <1>1. /\ Interrupted(a)
        /\ Depth[run.state] <= Depth[run'.state]
        /\ Depth[run.state] \in 0..6 /\ Depth[run'.state] \in 0..6
    BY ApproverRecords, ApproverMoves
  <1>2. Depth[checkpoint.safe] \in 0..6 /\ checkpoint.version \in Nat
    BY Depths DEF DurableTypeOK, Checkpoint
  <1>3. CASE checkpoint' = checkpoint
    BY <1>1, <1>2, <1>3 DEF Saved
  <1>4. CASE /\ checkpoint.version = ackpt[a].version
             /\ checkpoint'.version = checkpoint.version + 1
             /\ apc[a] = "save_interrupt" /\ checkpoint'.safe = "AWAITING_APPROVAL"
    <2>1. Depth[run.state] >= 4 /\ checkpoint.version >= 1
      BY <1>4 DEF Replaces, Requesting
    <2> QED
      BY <1>1, <1>2, <1>4, <2>1, Depths DEF Saved
  <1>5. CASE /\ checkpoint.version = ackpt[a].version
             /\ checkpoint'.version = checkpoint.version + 1
             /\ apc[a] = "save_decision"
             /\ checkpoint'.safe = target_state(areply[a].decision)
    <2>1. Depth[run.state] >= 5 /\ checkpoint.version >= 2
      BY <1>5 DEF Replaces, Deciding
    <2> QED
      BY <1>1, <1>2, <1>5, <2>1, Depths, TargetStates DEF Saved
  <1> QED
    BY <1>1, <1>3, <1>4, <1>5 DEF Interrupted

\* A step of request() or resume() leaves the calls of execute() what they hold.
LEMMA HoldsApproved ==
    ASSUME TypeOK, OneOwner, NEW a \in Approvers, ApproverHolds(a),
           ApproverStep(a) \/ ApproverCrash(a), UNCHANGED investigation,
           NEW i \in Investigators, Holds(i)
    PROVE  Holds(i)'
  <1> USE DEF TypeOK, investigation
  <1>1. /\ Interrupted(a) /\ audit \subseteq audit'
        /\ proposal # "none" => proposal' # "none"
        /\ Depth[run.state] <= Depth[run'.state]
        /\ Depth[run.state] \in 0..6 /\ Depth[run'.state] \in 0..6
        /\ run' = run \/ run.state \in Handed
    BY ApproverRecords, ApproverMoves
  <1>2. checkpoint.version >= 1 => checkpoint'.version >= 1
    BY <1>1 DEF Interrupted, DurableTypeOK, Checkpoint
  <1>3. InPlace(i)'
    <2>1. InPlace(i)
      BY DEF Holds
    <2>2. CASE run' = run
      BY <2>1, <2>2 DEF InPlace
    <2>3. CASE run.state \in Handed
      BY <1>1, <2>1, <2>3 DEF InPlace, Handed
    <2> QED
      BY <1>1, <2>2, <2>3
  <1>4. Backed(i)'
    BY <1>1, <1>2 DEF Holds, Backed
  <1>5. Failing(i)' /\ Spent(i)' /\ Observed(i)'
    BY DEF Holds, Failing, Spent, Observed, Owner
  <1> QED
    BY <1>3, <1>4, <1>5 DEF Holds

\* A step of request() or resume() keeps the invariant.
LEMMA ApproverKeepsIInv ==
    ASSUME IInv, NEW a \in Approvers, ApproverStep(a) \/ ApproverCrash(a),
           UNCHANGED investigation
    PROVE  IInv'
  <1>1. /\ TypeOK /\ DurableTypeOK /\ ApprovalTypeOK /\ OneOwner /\ Saved
        /\ ApproverHolds(a) /\ Replaces(a)
        /\ ProposedRunIsBacked /\ OverspendingNeverProposes
    BY DEF IInv, TypeOK
  <1>2. DurableTypeOK' /\ ApprovalTypeOK'
    BY <1>1, ApproverType DEF Step
  <1>3. UNCHANGED cloud
    BY ApproverCloud
  <1>4. TypeOK'
    BY <1>1, <1>2, <1>3 DEF TypeOK, cloud, investigation, CloudTypeOK, InvestigationTypeOK
  <1>5. /\ Interrupted(a) /\ audit \subseteq audit'
        /\ proposal # "none" => proposal' # "none"
    BY <1>1, ApproverRecords
  <1>6. /\ Depth[run.state] <= Depth[run'.state]
        /\ Depth[run.state] \in 0..6 /\ Depth[run'.state] \in 0..6
        /\ run.version <= run'.version
        /\ run' = run \/ run.state \in Handed
    BY <1>1, ApproverMoves
  <1>7. OneOwner'
    <2>1. run.version \in Nat /\ run'.version \in Nat
      BY <1>1, <1>2 DEF DurableTypeOK, Run
    <2> QED
      BY <1>1, <1>6, <2>1 DEF OneOwner, Owner, investigation
  <1>8. \A i \in Investigators : Holds(i)'
    BY <1>1, HoldsApproved DEF IInv
  <1>9. ASSUME NEW b \in Approvers
        PROVE  ApproverHolds(b)' /\ Replaces(b)'
    <2>1. CASE b = a
      BY <1>1, <2>1, ApproverHolding, ApproverReplacing
    <2>2. CASE b # a
      <3>1. ApproverHolds(b) /\ Replaces(b)
        BY DEF IInv
      <3>2. /\ apc'[b] = apc[b] /\ arun'[b] = arun[b] /\ ackpt'[b] = ackpt[b]
            /\ afail'[b] = afail[b]
        BY <1>1, <2>2, ApproverFrame
      <3>3. ApproverHolds(b)'
        BY <3>1, <3>2 DEF ApproverHolds
      <3>4. Replaces(b)'
        BY <1>6, <3>1, <3>2 DEF Replaces
      <3> QED
        BY <3>3, <3>4
    <2> QED
      BY <2>1, <2>2
  <1>10. Saved'
    BY <1>1, ApproverSaved
  <1>11. checkpoint.version >= 1 => checkpoint'.version >= 1
    BY <1>1, <1>5 DEF Interrupted, DurableTypeOK, Checkpoint
  <1>12. ProposedRunIsBacked'
    BY <1>1, <1>5, <1>6, <1>11 DEF ProposedRunIsBacked
  <1>13. OverspendingNeverProposes'
    BY <1>1, <1>6 DEF OverspendingNeverProposes, investigation
  <1> QED
    BY <1>4, <1>7, <1>8, <1>9, <1>10, <1>12, <1>13 DEF IInv

-----------------------------------------------------------------------------
(***************************************************************************)
(* The theorems.                                                           *)
(***************************************************************************)

\* No run, no record and no call: everything is to come.
LEMMA InitIInv ==
    ASSUME InvestigationInit
    PROVE  IInv
  <1> USE DEF InvestigationInit
  <1>1. TypeOK
    <2>1. DurableTypeOK
      BY MaxFaultsAssumption
         DEF DurableTypeOK, Absent, Run, Proposal, Approval, NoApproval, Idempotency, NoClaim,
             IdempotencyStatus, Observers, Evidence, NoEvidence, Checkpoint, WorkflowState
    <2>2. CloudTypeOK
      <3>1. writesEnabled \in BOOLEAN /\ ambiguous \in BOOLEAN
        BY Zenon DEF CloudInit
      <3> QED
        BY <3>1, MaxDriftAssumption DEF CloudInit, CloudTypeOK
    <2>3. ApprovalTypeOK
      BY ApproverPoints
         DEF ApprovalInit, ApprovalTypeOK, Run, Proposal, Checkpoint, Approval, NoApproval,
             WorkflowState
    <2>4. InvestigationTypeOK
      <3>1. overspent \in BOOLEAN
        BY Zenon
      <3>2. /\ ipc \in [Investigators -> InvestigatorPc]
            /\ iout \in [Investigators -> AgentOutcome]
        BY InvestigatorPoints DEF AgentOutcome
      <3>3. Received \in Run
        BY DEF Received, Run, WorkflowState
      <3>4. irun \in [Investigators -> Run]
        BY <3>3
      <3>5. /\ ikind \in [Investigators -> FailureKind \cup {"none"}]
            /\ itool \in [Investigators -> 0..3]
        OBVIOUS
      <3> QED
        BY <3>1, <3>2, <3>4, <3>5 DEF InvestigationTypeOK
    <2> QED
      BY <2>1, <2>2, <2>3, <2>4 DEF TypeOK
  <1>2. OneOwner
    BY DEF OneOwner, Owner, Owning, Examining, Proposing, Finishing
  <1>3. \A i \in Investigators : Holds(i)
    BY DEF Holds, InPlace, Failing, Backed, Spent, Observed, Owner, Owning, Examining,
           Proposing, Finishing
  <1>4. \A a \in Approvers : ApproverHolds(a) /\ Replaces(a)
    BY DEF ApprovalInit, ApproverHolds, Replaces, Requesting, Deciding
  <1>5. Saved
    BY Depths DEF Saved, Absent
  <1>6. ProposedRunIsBacked /\ OverspendingNeverProposes
    BY DEF ProposedRunIsBacked, OverspendingNeverProposes, Handed, Absent
  <1> QED
    BY <1>1, <1>2, <1>3, <1>4, <1>5, <1>6 DEF IInv

\* Every step keeps the invariant.
LEMMA NextIInv ==
    ASSUME IInv, [Next]_invVars
    PROVE  IInv'
  <1>1. CASE UNCHANGED invVars
    BY <1>1 DEF invVars, durable, cloud, approvals, investigation, IInv, TypeOK, DurableTypeOK,
                CloudTypeOK, ApprovalTypeOK, InvestigationTypeOK, OneOwner, Owner, Holds,
                InPlace, Failing, Backed, Spent, Observed, ApproverHolds, Replaces, Saved,
                ProposedRunIsBacked, OverspendingNeverProposes
  <1>2. CASE \E i \in Investigators : InvestigatorStep(i) \/ InvestigatorCrash(i)
    BY <1>2, InvestigatorKeepsIInv
  <1>3. CASE \E a \in Approvers : /\ ApproverStep(a) \/ ApproverCrash(a)
                                  /\ UNCHANGED investigation
    BY <1>3, ApproverKeepsIInv
  <1> QED
    BY <1>1, <1>2, <1>3 DEF Next

\* A checkpoint behind the run names no later state than the run has come to.
LEMMA SavedNotAhead ==
    ASSUME TypeOK, Saved
    PROVE  CheckpointNotAhead
  <1>1. run.state \in WorkflowState /\ checkpoint.safe \in WorkflowState
    BY DEF TypeOK, DurableTypeOK, Run, Checkpoint
  <1>2. \A s \in WorkflowState :
          Rank[s] = IF Depth[s] \in 2..5 THEN Depth[s] - 1 ELSE 0
    BY DEF Rank, Depth, WorkflowState, TERMINAL_WORKFLOW_STATES
  <1>3. \A s \in WorkflowState : Depth[s] \in 0..6
    BY Depths
  <1> QED
    BY <1>1, <1>2, <1>3 DEF Saved, CheckpointNotAhead

\* What a human is shown is sound, for any number of investigation and approval
\* calls: the run is backed by its records and within its budget, the agent was
\* invoked once, no checkpoint runs ahead and no call raises.
THEOREM InvestigationIsSound == Spec => []ProposedRunIsSound
  <1>1. InvestigationInit => IInv
    BY InitIInv
  <1>2. IInv /\ [Next]_invVars => IInv'
    BY NextIInv
  <1>3. IInv => ProposedRunIsSound
    <2> SUFFICES ASSUME IInv
                 PROVE  ProposedRunIsSound
      OBVIOUS
    <2>1. AgentInvokedOnce
      BY DEF IInv, OneOwner, AgentInvokedOnce
    <2>2. NoTransitionError
      BY DEF IInv, Holds, Failing, ApproverHolds, NoTransitionError
    <2>3. CheckpointNotAhead
      BY SavedNotAhead DEF IInv
    <2> QED
      BY <2>1, <2>2, <2>3 DEF IInv, ProposedRunIsSound
  <1> QED
    BY <1>1, <1>2, <1>3, PTL DEF Spec

\* The tail of an overtaken investigation does not move the run.
LEMMA OvertakenMovesNothing ==
    ASSUME IInv, [Next]_invVars, NEW i \in Investigators, ipc'[i] # ipc[i],
           run.state \in Handed \ {"REMEDIATION_PROPOSED"}
    PROVE  run' = run
  <1> USE DEF IInv, TypeOK
  <1>1. PICK j \in Investigators : InvestigatorStep(j) \/ InvestigatorCrash(j)
    BY DEF Next, invVars, investigation
  <1>2. j = i
    BY <1>1, InvestigatorFrame
  <1>3. Moved(i)
    BY <1>1, <1>2, InvestigatorRecords
  <1>4. /\ ipc[i] = "record_budget" => run.state = "INVESTIGATING"
        /\ ipc[i] \in {"to_evidence_ready", "to_proposed", "fail_run"} =>
             irun[i].state \in {"INVESTIGATING", "EVIDENCE_READY", "REMEDIATION_PROPOSED"}
    BY DEF Holds, InPlace, Examining, Proposing
  <1> QED
    BY <1>3, <1>4 DEF Moved, Handed, Absent, Received

\* A checkpoint with the native interrupt keeps it.
LEMMA InterruptStays ==
    ASSUME IInv, [Next]_invVars, checkpoint.interrupt
    PROVE  checkpoint'.interrupt
  <1> USE DEF IInv, TypeOK
  <1>1. checkpoint.version >= 2
    BY DEF Saved
  <1>2. CASE UNCHANGED invVars
    BY <1>2 DEF invVars, durable
  <1>3. ASSUME NEW i \in Investigators, InvestigatorStep(i) \/ InvestigatorCrash(i)
        PROVE  checkpoint'.interrupt
    <2>1. Stored(i)
      BY <1>3, InvestigatorRecords
    <2> QED
      BY <1>1, <2>1 DEF Stored
  <1>4. ASSUME NEW a \in Approvers, ApproverStep(a) \/ ApproverCrash(a)
        PROVE  checkpoint'.interrupt
    <2>1. Interrupted(a)
      BY <1>4, ApproverRecords
    <2>2. apc[a] = "save_decision" => ackpt[a].interrupt
      BY DEF Replaces, Deciding
    <2> QED
      BY <2>1, <2>2 DEF Interrupted
  <1> QED
    BY <1>2, <1>3, <1>4 DEF Next

\* An investigation that is still running undoes nothing of what an approval call
\* has taken over, for any number of calls of either.
THEOREM OvertakenInvestigation == Spec => ApprovalIsKept
  <1>1. InvestigationInit => IInv
    BY InitIInv
  <1>2. IInv /\ [Next]_invVars => IInv'
    BY NextIInv
  <1>3. IInv /\ [Next]_invVars =>
          [\A i \in Investigators :
             ipc'[i] # ipc[i] /\ run.state \in Handed \ {"REMEDIATION_PROPOSED"} =>
               run' = run]_invVars
    BY OvertakenMovesNothing
  <1>4. IInv /\ [Next]_invVars => [checkpoint.interrupt => checkpoint'.interrupt]_invVars
    BY InterruptStays
  <1>5. Spec => ApprovalNotUndone
    BY <1>1, <1>2, <1>3, PTL DEF Spec, ApprovalNotUndone
  <1>6. Spec => InterruptKept
    BY <1>1, <1>2, <1>4, PTL DEF Spec, InterruptKept
  <1> QED
    BY <1>5, <1>6 DEF ApprovalIsKept
=============================================================================
