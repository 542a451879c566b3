--------------------------- MODULE Investigation ---------------------------
(***************************************************************************)
(* BoundedInvestigationFlow.execute: from an absent or RECEIVED run to a   *)
(* durable proposal, through one bounded agent invocation.  Each member of *)
(* Investigators is one call (the first, a retry, a duplicate delivery),   *)
(* interleaved with the approval calls of ApprovalFlow on the same run.    *)
(***************************************************************************)
EXTENDS ApprovalFlow

CONSTANTS Investigators,  \* calls of BoundedInvestigationFlow.execute
          MaxTurns,       \* the run's turn budget (tokens are counted alike)
          Crashing        \* the calls whose process may die between two steps

ASSUME BudgetAssumption == MaxTurns \in Nat

VARIABLES ipc,       \* control point of each call
          irun,      \* `current`: the Run as the call last read or wrote it
          iout,      \* what the agent invocation came back with
          ikind,     \* failure kind being persisted
          itool,     \* tool audits appended so far
          turnsUsed, \* Run.budget.turns_used
          agentCalls, \* history: invocations of the agent for this run
          overspent  \* history: an invocation used more than what was left

investigation == <<ipc, irun, iout, ikind, itool, turnsUsed, agentCalls, overspent>>
invVars == <<durable, cloud, approvals, investigation>>

Absent == [state |-> "RECEIVED", version |-> 0]
Received == [state |-> "RECEIVED", version |-> 1]

InvestigatorPc ==
    {"idle", "create_run", "audit_created", "raced", "reconcile", "to_investigating",
     "agent", "record_budget", "audit_budget", "audit_tools", "to_evidence_ready",
     "checkpoint_1", "create_proposal", "audit_proposal", "to_proposed",
     "checkpoint_2", "get_approval", "exhausted", "audit_failure", "fail_run",
     "succeeded", "failed", "crashed", "raised"}

\* How an invocation can end.  "invalid" stands for a clock or usage telemetry
\* the budget guard refuses.
ToolFailure == {"VALIDATION_FAILURE", "POLICY_DENIAL", "AMBIGUOUS_RESULT",
                "DEPENDENCY_UNAVAILABLE", "NOT_FOUND", "TOOL_ADAPTER_FAILURE"}
AgentOutcome ==
    {"none", "exception", "invalid", "intervention", "limit", "tool_failure",
     "bad_sequence", "not_eligible", "no_proposal", "eligible"}

InvestigationTypeOK ==
    /\ ipc \in [Investigators -> InvestigatorPc]
    /\ irun \in [Investigators -> Run]
    /\ iout \in [Investigators -> AgentOutcome]
    /\ ikind \in [Investigators -> FailureKind \cup {"none"}]
    /\ itool \in [Investigators -> 0..3]
    /\ turnsUsed \in 0..MaxTurns
    /\ agentCalls \in Nat
    /\ overspent \in BOOLEAN

InvestigationInit ==
    /\ run = Absent
    /\ proposal = "none"
    /\ approval = NoApproval
    /\ idem = NoClaim
    /\ evidence = NoEvidence
    /\ checkpoint = [version |-> 0, safe |-> "RECEIVED", interrupt |-> FALSE,
                     lease |-> "none"]
    /\ audit = {}
    /\ faults = 0
    /\ CloudInit
    /\ ApprovalInit
    /\ ipc = [i \in Investigators |-> "idle"]
    /\ irun = [i \in Investigators |-> Received]
    /\ iout = [i \in Investigators |-> "none"]
    /\ ikind = [i \in Investigators |-> "none"]
    /\ itool = [i \in Investigators |-> 0]
    /\ turnsUsed \in 0..MaxTurns
    /\ agentCalls = 0
    /\ overspent = FALSE

IGoto(i, next) == ipc' = [ipc EXCEPT ![i] = next]
IThen(i, res, ok, conflict, unavailable) ==
    IGoto(i, After(res, ok, conflict, unavailable))
history == <<turnsUsed, agentCalls, overspent>>
others == <<cloud, approvals>>

-----------------------------------------------------------------------------
(* Repository methods only this flow calls *)

create_run(res) ==
    /\ Write(run = Absent, run' = Received, UNCHANGED run, res)
    /\ UNCHANGED <<proposal, approval, idem, checkpoint, evidence, audit>>

\* An identical stored proposal is adopted, so a conflict cannot come back.
create_proposal(res) ==
    /\ Write(proposal \in {"none", "PROPOSED"}, proposal' = "PROPOSED",
             UNCHANGED proposal, res)
    /\ UNCHANGED <<run, approval, idem, checkpoint, evidence, audit>>

\* Versioned replacement of the budget counters.
update_run_budget(version, used, res) ==
    /\ Write(run.version = version,
             run' = [run EXCEPT !.version = version + 1] /\ turnsUsed' = used,
             UNCHANGED <<run, turnsUsed>>, res)
    /\ UNCHANGED <<proposal, approval, idem, checkpoint, evidence, audit>>

-----------------------------------------------------------------------------
(* Ownership of the run *)

\* get_run: absent, still the caller's RECEIVED run, already proposed, or owned
\* by somebody else.
Investigate(i) ==
    /\ ipc[i] = "idle"
    /\ \E res \in Result :
         /\ Read(res)
         /\ IThen(i, res,
              CASE run = Absent -> "create_run"
                [] run = Received -> "to_investigating"
                [] run.state = "REMEDIATION_PROPOSED" -> "reconcile"
                [] OTHER -> "failed",
              "failed", "failed")
    /\ UNCHANGED <<irun, iout, ikind, itool, history, others>>

CreateRun(i) ==
    /\ ipc[i] = "create_run"
    /\ \E res \in Result : create_run(res) /\ IThen(i, res, "audit_created", "raced", "failed")
    /\ UNCHANGED <<irun, iout, ikind, itool, history, others>>

AuditCreated(i) ==
    /\ ipc[i] = "audit_created"
    /\ \E res \in Result :
         /\ append_audit_event("RUN_CREATED", res)
         /\ IThen(i, res, "to_investigating", "raced", "failed")
    /\ UNCHANGED <<irun, iout, ikind, itool, history, others>>

Raced(i) ==
    /\ ipc[i] = "raced"
    /\ \E res \in Result :
         /\ Read(res)
         /\ IThen(i, res,
                  IF run.state = "REMEDIATION_PROPOSED" THEN "reconcile" ELSE "failed",
                  "failed", "failed")
    /\ UNCHANGED <<irun, iout, ikind, itool, history, others>>

\* A completed investigation is returned as it is while nobody has moved the
\* proposal on.
ReconcileCompletion(i) ==
    /\ ipc[i] = "reconcile"
    /\ \E res \in Result :
         /\ Read(res)
         /\ IThen(i, res,
                  IF proposal = "PROPOSED" /\ approval = NoApproval
                  THEN "succeeded" ELSE "failed",
                  "failed", "failed")
    /\ UNCHANGED <<irun, iout, ikind, itool, history, others>>

\* The versioned transition decides who owns the run.
ToInvestigating(i) ==
    /\ ipc[i] = "to_investigating"
    /\ \E res \in Result :
         /\ transition_run("RECEIVED", 1, "INVESTIGATING", res)
         /\ IThen(i, res, "agent", "failed", "failed")
    /\ irun' = [irun EXCEPT ![i] = [state |-> "INVESTIGATING", version |-> 2]]
    /\ UNCHANGED <<iout, ikind, itool, history, others>>

-----------------------------------------------------------------------------
(* The bounded agent invocation *)

\* An exhausted budget or a clock that cannot be read stops before the call.
AgentNotInvoked(i) ==
    /\ ipc[i] = "agent"
    /\ IGoto(i, "exhausted")
    /\ UNCHANGED <<durable, irun, iout, ikind, itool, history, others>>

AgentInvoked(i) ==
    /\ ipc[i] = "agent"
    /\ turnsUsed < MaxTurns
    /\ agentCalls' = agentCalls + 1
    /\ \E out \in AgentOutcome \ {"none"} :
         /\ iout' = [iout EXCEPT ![i] = out]
         /\ IGoto(i, IF out = "invalid" THEN "exhausted" ELSE "record_budget")
         /\ \/ out \in {"intervention"} /\ \E kind \in {"POLICY_DENIAL", "VALIDATION_FAILURE"} :
                 ikind' = [ikind EXCEPT ![i] = kind]
            \/ out = "tool_failure" /\ \E kind \in ToolFailure :
                 ikind' = [ikind EXCEPT ![i] = kind]
            \/ out \notin {"intervention", "tool_failure"} /\ UNCHANGED ikind
    /\ UNCHANGED <<durable, irun, itool, turnsUsed, overspent, others>>

\* Mutant: what earlier invocations used is forgotten.
RecordBudgetForgetful(i) ==
    /\ ipc[i] = "record_budget"
    /\ \E turns \in IF iout[i] = "exception" THEN {0} ELSE 0..MaxTurns + 1, res \in Result :
         LET over == turns > MaxTurns - turnsUsed
             used == IF over THEN MaxTurns ELSE turnsUsed + turns
         IN  /\ update_run_budget(irun[i].version, used, res)
             /\ IThen(i, res, "audit_budget", "failed", "failed")
             /\ iout' = [iout EXCEPT ![i] = IF turns > MaxTurns /\ @ # "intervention" THEN "limit" ELSE @]
             /\ overspent' = (overspent \/ over)
    /\ irun' = [irun EXCEPT ![i].version = @ + 1]
    /\ UNCHANGED <<ikind, itool, agentCalls, others>>

\* The consumption the agent reports; counters stop at the maximum.  Overspent
\* turns, tokens or time turn whatever the agent produced into a "limit".
RecordBudget(i) ==
    /\ ipc[i] = "record_budget"
    /\ \E turns \in IF iout[i] = "exception" THEN {0} ELSE 0..MaxTurns + 1, res \in Result :
         LET over == turns > MaxTurns - turnsUsed
             used == IF over THEN MaxTurns ELSE turnsUsed + turns
         IN  /\ update_run_budget(irun[i].version, used, res)
             /\ IThen(i, res, "audit_budget", "failed", "failed")
             /\ iout' = [iout EXCEPT ![i] = IF over /\ @ # "intervention" THEN "limit" ELSE @]
             /\ overspent' = (overspent \/ over)
    /\ irun' = [irun EXCEPT ![i].version = @ + 1]
    /\ UNCHANGED <<ikind, itool, agentCalls, others>>

\* The control point that follows the recorded budget.
after_budget(i) ==
    CASE iout[i] \in {"exception", "intervention"} -> "fail_run"
      [] iout[i] = "limit" -> "exhausted"
      [] iout[i] \in {"tool_failure", "bad_sequence"} -> "audit_failure"
      [] OTHER -> "audit_tools"

AuditBudget(i) ==
    /\ ipc[i] = "audit_budget"
    /\ \E res \in Result :
         /\ append_audit_event("BUDGET_UPDATED", res)
         /\ IThen(i, res, after_budget(i), "failed", "failed")
    /\ ikind' = [ikind EXCEPT ![i] =
                   CASE iout[i] = "exception" -> "DEPENDENCY_UNAVAILABLE"
                     [] iout[i] = "bad_sequence" -> "VALIDATION_FAILURE"
                     [] OTHER -> @]
    /\ UNCHANGED <<irun, iout, itool, history, others>>

-----------------------------------------------------------------------------
(* Durable evidence and proposal *)

\* A refused or lost write fails the run as an unavailable dependency.
FailUnavailable(i) == ikind' = [ikind EXCEPT ![i] = "DEPENDENCY_UNAVAILABLE"]

AuditTools(i) ==
    /\ ipc[i] = "audit_tools"
    /\ itool' = [itool EXCEPT ![i] = @ + 1]
    /\ \E res \in Result :
         /\ append_audit_event("TOOL_OBSERVED", res)
         /\ IThen(i, res, IF itool[i] = 2 THEN "to_evidence_ready" ELSE "audit_tools",
                  "fail_run", "fail_run")
    /\ FailUnavailable(i)
    /\ UNCHANGED <<irun, iout, history, others>>

ToEvidenceReady(i) ==
    /\ ipc[i] = "to_evidence_ready"
    /\ \E res \in Result :
         /\ transition_run(irun[i].state, irun[i].version, "EVIDENCE_READY", res)
         /\ IThen(i, res, "checkpoint_1", "fail_run", "fail_run")
         /\ irun' = IF res = "ok"
                    THEN [irun EXCEPT ![i] = [state |-> "EVIDENCE_READY", version |-> @.version + 1]]
                    ELSE irun
    /\ FailUnavailable(i)
    /\ UNCHANGED <<iout, itool, history, others>>

\* A checkpoint of this flow, built for the version it must replace.
SaveSafe(version, safe, res) ==
    save_checkpoint([version |-> version],
                    [version |-> version, safe |-> safe, interrupt |-> FALSE,
                     lease |-> "none"], res)

\* Then the deterministic decision on the evidence.
Checkpoint1(i) ==
    /\ ipc[i] = "checkpoint_1"
    /\ \E res \in Result :
         /\ SaveSafe(0, "EVIDENCE_READY", res)
         /\ IThen(i, res,
              CASE iout[i] = "not_eligible" -> "audit_failure"
                [] iout[i] = "no_proposal" -> "fail_run"
                [] OTHER -> "create_proposal",
              "fail_run", "fail_run")
         /\ ikind' = [ikind EXCEPT ![i] =
                CASE res # "ok" -> "DEPENDENCY_UNAVAILABLE"
                  [] res = "ok" /\ iout[i] = "not_eligible" -> "POLICY_DENIAL"
                  [] OTHER -> "RECOVERY_REQUIREMENT"]
    /\ UNCHANGED <<irun, iout, itool, history, others>>

\* From here a conflict fails the run as a recovery requirement.
ProposalFailure(i, res) ==
    ikind' = [ikind EXCEPT ![i] =
                IF res = "conflict" THEN "RECOVERY_REQUIREMENT" ELSE "DEPENDENCY_UNAVAILABLE"]

CreateProposal(i) ==
    /\ ipc[i] = "create_proposal"
    /\ \E res \in Result :
         /\ create_proposal(res)
         /\ IThen(i, res, "audit_proposal", "fail_run", "fail_run")
         /\ ProposalFailure(i, res)
    /\ UNCHANGED <<irun, iout, itool, history, others>>

AuditProposal(i) ==
    /\ ipc[i] = "audit_proposal"
    /\ \E res \in Result :
         /\ append_audit_event("PROPOSAL_CREATED", res)
         /\ IThen(i, res, "to_proposed", "fail_run", "fail_run")
         /\ ProposalFailure(i, res)
    /\ UNCHANGED <<irun, iout, itool, history, others>>

ToProposed(i) ==
    /\ ipc[i] = "to_proposed"
    /\ \E res \in Result :
         /\ transition_run(irun[i].state, irun[i].version, "REMEDIATION_PROPOSED", res)
         /\ IThen(i, res, "checkpoint_2", "fail_run", "fail_run")
         /\ ProposalFailure(i, res)
         /\ irun' = IF res = "ok"
                    THEN [irun EXCEPT ![i] = [state |-> "REMEDIATION_PROPOSED",
                                              version |-> @.version + 1]]
                    ELSE irun
    /\ UNCHANGED <<iout, itool, history, others>>

\* Mutant: the second checkpoint replaces whatever is stored.
Checkpoint2Overwriting(i) ==
    /\ ipc[i] = "checkpoint_2"
    /\ \E res \in Result :
         /\ SaveSafe(checkpoint.version, "REMEDIATION_PROPOSED", res)
         /\ IThen(i, res, "get_approval", "fail_run", "fail_run")
         /\ ProposalFailure(i, res)
    /\ UNCHANGED <<irun, iout, itool, history, others>>

Checkpoint2(i) ==
    /\ ipc[i] = "checkpoint_2"
    /\ \E res \in Result :
         /\ SaveSafe(1, "REMEDIATION_PROPOSED", res)
         /\ IThen(i, res, "get_approval", "fail_run", "fail_run")
         /\ ProposalFailure(i, res)
    /\ UNCHANGED <<irun, iout, itool, history, others>>

\* Nobody may have decided yet.
CheckNoApproval(i) ==
    /\ ipc[i] = "get_approval"
    /\ \E res \in Result :
         /\ Read(res)
         /\ IThen(i, res, IF approval = NoApproval THEN "succeeded" ELSE "fail_run",
                  "fail_run", "fail_run")
         /\ ikind' = [ikind EXCEPT ![i] =
                IF res = "ok" THEN "RECOVERY_REQUIREMENT" ELSE "DEPENDENCY_UNAVAILABLE"]
    /\ UNCHANGED <<irun, iout, itool, history, others>>

-----------------------------------------------------------------------------
(* Failure exits *)

BudgetExhausted(i) ==
    /\ ipc[i] = "exhausted"
    /\ ikind' = [ikind EXCEPT ![i] = "BUDGET_EXHAUSTION"]
    /\ \E res \in Result :
         /\ append_audit_event("BUDGET_EXHAUSTED", res)
         /\ IThen(i, res, "fail_run", "failed", "failed")
    /\ UNCHANGED <<irun, iout, itool, history, others>>

\* Mutant: an unaudited failure kind is reported but not stored.
FailWithAuditOnly(i) ==
    /\ ipc[i] = "audit_failure"
    /\ \/ /\ ikind[i] \in {"POLICY_DENIAL", "VALIDATION_FAILURE"}
          /\ \E res \in Result :
               /\ append_audit_event(IF ikind[i] = "POLICY_DENIAL" THEN "POLICY_DENIED"
                                     ELSE "MODEL_OUTPUT_REJECTED", res)
               /\ IThen(i, res, "fail_run", "failed", "failed")
       \/ /\ ikind[i] \notin {"POLICY_DENIAL", "VALIDATION_FAILURE"}
          /\ IGoto(i, "failed")
          /\ UNCHANGED durable
    /\ UNCHANGED <<irun, iout, ikind, itool, history, others>>

\* Policy denials and invalid model output are audited before the run fails;
\* other kinds fail it at once.
FailWithAudit(i) ==
    /\ ipc[i] = "audit_failure"
    /\ \/ /\ ikind[i] \in {"POLICY_DENIAL", "VALIDATION_FAILURE"}
          /\ \E res \in Result :
               /\ append_audit_event(IF ikind[i] = "POLICY_DENIAL" THEN "POLICY_DENIED"
                                     ELSE "MODEL_OUTPUT_REJECTED", res)
               /\ IThen(i, res, "fail_run", "failed", "failed")
       \/ /\ ikind[i] \notin {"POLICY_DENIAL", "VALIDATION_FAILURE"}
          /\ IGoto(i, "fail_run")
          /\ UNCHANGED durable
    /\ UNCHANGED <<irun, iout, ikind, itool, history, others>>

\* The failure is stored over the run the call knows; a run that has moved on
\* is left alone.
FailDurableRun(i) ==
    /\ ipc[i] = "fail_run"
    /\ \E res \in Result :
         /\ transition_run(irun[i].state, irun[i].version,
                           workflow_state_for_failure(ikind[i]), res)
         /\ IThen(i, res, "failed", "failed", "failed")
    /\ UNCHANGED <<irun, iout, ikind, itool, history, others>>

InvestigatorCrash(i) ==
    /\ ipc[i] \notin {"idle", "succeeded", "failed", "crashed", "raised"}
    /\ IGoto(i, "crashed")
    /\ UNCHANGED <<durable, irun, iout, ikind, itool, history, others>>

InvestigatorStep(i) ==
    \/ Investigate(i) \/ CreateRun(i) \/ AuditCreated(i) \/ Raced(i)
    \/ ReconcileCompletion(i) \/ ToInvestigating(i)
    \/ AgentNotInvoked(i) \/ AgentInvoked(i) \/ RecordBudget(i) \/ AuditBudget(i)
    \/ AuditTools(i) \/ ToEvidenceReady(i) \/ Checkpoint1(i) \/ CreateProposal(i)
    \/ AuditProposal(i) \/ ToProposed(i) \/ Checkpoint2(i) \/ CheckNoApproval(i)
    \/ BudgetExhausted(i) \/ FailWithAudit(i) \/ FailDurableRun(i)

Next ==
    \/ \E i \in Investigators :
         InvestigatorStep(i) \/ (i \in Crashing /\ InvestigatorCrash(i))
    \/ \E a \in Approvers :
         /\ ApproverStep(a) \/ (a \in Crashing /\ ApproverCrash(a))
         /\ UNCHANGED investigation

Spec == InvestigationInit /\ [][Next]_invVars

FairSpec ==
    /\ Spec
    /\ \A i \in Investigators : WF_invVars(InvestigatorStep(i))

-----------------------------------------------------------------------------

TypeOK == DurableTypeOK /\ CloudTypeOK /\ ApprovalTypeOK /\ InvestigationTypeOK

\* However execute() is retried, raced or cut short, the agent is invoked at
\* most once for a run: the transition to INVESTIGATING has one winner.
AgentInvokedOnce == agentCalls <= 1

Handed == {"REMEDIATION_PROPOSED", "AWAITING_APPROVAL", "APPROVED", "DENIED_BY_HUMAN"}

\* A run a human can see always has its proposal, the tool and budget audits and
\* a checkpoint behind it, whichever append, save or process failed on the way.
ProposedRunIsBacked ==
    run.state \in Handed =>
        /\ proposal # "none"
        /\ {"TOOL_OBSERVED", "BUDGET_UPDATED", "PROPOSAL_CREATED"} \subseteq audit
        /\ checkpoint.version >= 1

\* An invocation that used more than the remaining budget never leads to a
\* proposal.
OverspendingNeverProposes == overspent => run.state \notin Handed

Rank == [s \in WorkflowState |->
    CASE s = "EVIDENCE_READY" -> 1
      [] s = "REMEDIATION_PROPOSED" -> 2
      [] s = "AWAITING_APPROVAL" -> 3
      [] s \in {"APPROVED", "DENIED_BY_HUMAN"} -> 4
      [] OTHER -> 0]

\* The safe state a checkpoint names was really reached: it never runs ahead of
\* the run, also when a crash skips the checkpoint of the proposed state or an
\* approval overtakes it.
CheckpointNotAhead ==
    Rank[run.state] > 0 => Rank[checkpoint.safe] <= Rank[run.state]

\* No call ever asks for a transition the table forbids.
NoTransitionError ==
    /\ \A i \in Investigators : ipc[i] # "raised"
    /\ \A a \in Approvers : apc[a] # "raised"

\* The tail of an investigation that is overtaken by an approval call never
\* moves the run again.
ApprovalNotUndone ==
    [][\A i \in Investigators :
         ipc'[i] # ipc[i] /\ run.state \in Handed \ {"REMEDIATION_PROPOSED"} => run' = run]_invVars

\* A checkpoint that carries the native interrupt keeps it: the investigation's
\* last checkpoint cannot replace the approval's.
InterruptKept == [][checkpoint.interrupt => checkpoint'.interrupt]_invVars

\* A run is never left in an investigation nobody is running: while the calls
\* live, every path out of the agent ends in a proposal or in a stored failure,
\* unless storage itself failed or a call was cut off.
FaultFreeRunLeavesInvestigation ==
    (run.state \in {"INVESTIGATING", "EVIDENCE_READY"})
        ~> \/ run.state \notin {"INVESTIGATING", "EVIDENCE_READY"}
           \/ faults > 0
           \/ \E i \in Investigators : ipc[i] = "crashed"

\* What a human is shown is sound, whatever raced, failed or died before: the run
\* is backed by its records, within its budget, the agent was invoked once at most
\* and no call raised.
ProposedRunIsSound ==
    /\ TypeOK
    /\ ProposedRunIsBacked /\ OverspendingNeverProposes /\ CheckpointNotAhead
    /\ AgentInvokedOnce /\ NoTransitionError

\* Once an approval call has taken the run over, the investigation that is still
\* running undoes nothing of it.
ApprovalIsKept == ApprovalNotUndone /\ InterruptKept
=============================================================================
