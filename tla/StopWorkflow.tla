---------------------------- MODULE StopWorkflow ----------------------------
(***************************************************************************)
(* The approved-stop workflow: approval, remediation, verification and     *)
(* recovery calls interleaving over one durable run and one EC2 instance.  *)
(***************************************************************************)
EXTENDS Remediation, Recovery, ApprovalFlow

CONSTANT Crashing   \* the calls whose process may die between two steps

vars == <<durable, cloud, remediation, verification, recovery, approvals>>

TypeOK ==
    /\ DurableTypeOK
    /\ CloudTypeOK
    /\ RemediationTypeOK
    /\ VerificationTypeOK
    /\ RecoveryTypeOK
    /\ ApprovalTypeOK

Init ==
    /\ DurableInit
    /\ CloudInit
    /\ RemediationInit
    /\ VerificationInit
    /\ RecoveryInit
    /\ ApprovalInit

ExecutorNext(e) ==
    /\ ExecutorStep(e) \/ (e \in Crashing /\ ExecutorCrash(e))
    /\ UNCHANGED <<verification, recovery, approvals>>

VerifierNext(v) ==
    /\ Verify(v) \/ VerifyStep(v) \/ (v \in Crashing /\ VerifierCrash(v))
    /\ UNCHANGED <<remediation, recovery, approvals>>

RecovererNext(r) ==
    /\ \/ RecoverStep(r)
       \/ VerifyStep(r) /\ UNCHANGED recovery
       \/ r \in Crashing /\ RecovererCrash(r)
    /\ UNCHANGED <<remediation, approvals>>

ApproverNext(a) ==
    /\ ApproverStep(a) \/ (a \in Crashing /\ ApproverCrash(a))
    /\ UNCHANGED <<remediation, verification, recovery>>

EnvironmentNext ==
    \/ CloudNext /\ UNCHANGED <<remediation, verification, recovery, approvals>>
    \/ LeaseExpires /\ UNCHANGED <<remediation, approvals>>

Next ==
    \/ \E e \in Executors : ExecutorNext(e)
    \/ \E v \in Verifiers : VerifierNext(v)
    \/ \E r \in Recoverers : RecovererNext(r)
    \/ \E a \in Approvers : ApproverNext(a)
    \/ EnvironmentNext

Spec == Init /\ [][Next]_vars

\* Every call is made and runs on while its process lives (a call outside
\* Crashing does not die), and EC2 finishes a stop it has accepted.  Nothing is
\* assumed of the human: approval calls have no fairness.
FairSpec ==
    /\ Spec
    /\ \A e \in Executors : WF_vars(ExecutorNext(e))
    /\ \A v \in Verifiers : WF_vars(VerifierNext(v))
    /\ \A r \in Recoverers : WF_vars(RecovererNext(r))
    /\ WF_vars(InstanceStops /\ UNCHANGED <<remediation, verification, recovery, approvals>>)

-----------------------------------------------------------------------------
(* Safety *)

\* At most one StopInstances request is ever sent for a proposal, however many
\* execute() calls race, crash, time out behind the Lambda or are retried.
AtMostOneStop == stopCalls <= 1

\* Why: winning the APPROVED -> EXECUTING transition is the only way to become
\* a sender, and it can be won once.  A call may still send while it is between
\* that transition and StopInstances, or has left its remote function running.
Claimable == {"RECEIVED", "INVESTIGATING", "EVIDENCE_READY",
              "REMEDIATION_PROPOSED", "AWAITING_APPROVAL", "APPROVED"}
MaySend(e) == xpc[e] \in BeforeStop \/ inflight[e] # "none"

\* While a call may send, no other may and nothing has been sent; once a call may
\* send or has sent, the run cannot be claimed again; and a call never holds two
\* executions (its own and one left behind the Lambda).
OneSender ==
    /\ \A e \in Executors : MaySend(e) => stopCalls = 0
    /\ \A e, f \in Executors : MaySend(e) /\ MaySend(f) => e = f
    /\ (stopCalls > 0 \/ \E e \in Executors : MaySend(e)) => run.state \notin Claimable
    /\ \A e \in Executors : inflight[e] # "none" => xpc[e] \notin BeforeStop

\* Write-before-execute: a stop request is sent only for a positive durable
\* decision, with the idempotency claim registered and the EXECUTION_REQUESTED
\* audit event stored (StopSandboxInstanceCoordinator.execute).
StopIsAuthorised ==
    stopCalls > 0 =>
        /\ approval.decision = "APPROVED"
        /\ idem.status # "none"
        /\ "EXECUTION_REQUESTED" \in audit

\* What a worker's independent read-back last saw.
Observed(w) == IF w \in Recoverers /\ robs[w] # "none" THEN robs[w] ELSE vobs[w]

\* SUCCESS_WITH_EVIDENCE rests on one proof: the stored evidence, made by a
\* call that itself observed the instance stopped, and a COMPLETED claim that
\* names that evidence.  Evidence that cites an acknowledgement means a stop
\* request was really sent (verification and recovery coordinators).
SuccessIsProven ==
    /\ run.state = "SUCCESS_WITH_EVIDENCE" =>
         evidence # NoEvidence /\ idem.status = "COMPLETED"
    /\ idem.status = "COMPLETED" => idem.proof = evidence.id
    /\ evidence # NoEvidence => Observed(evidence.id) = "stopped"
    /\ evidence.origin = "EXECUTION_ACKNOWLEDGEMENT" => stopCalls = 1

\* The human decision governs: past AWAITING_APPROVAL the run follows the one
\* stored decision, also when opposite decisions race (DurableApprovalFlow).
DecisionGoverns ==
    /\ run.state \in {"APPROVED", "EXECUTING", "VERIFYING", "SUCCESS_WITH_EVIDENCE"} =>
         approval.decision = "APPROVED"
    /\ run.state = "DENIED_BY_HUMAN" => approval.decision = "DENIED" /\ stopCalls = 0

\* No coordinator asks for a transition the table forbids, in any interleaving:
\* WorkflowTransitionError would leave execute(), verify() and request() as an
\* uncaught exception.
NoTransitionError ==
    /\ \A e \in Executors : xpc[e] # "raised"
    /\ \A w \in Observers : vpc[w] # "raised"
    /\ \A r \in Recoverers : rpc[r] # "raised"
    /\ \A a \in Approvers : apc[a] # "raised"

\* A StopInstances request whose reply was lost is never booked as a plain
\* failure: the claim stays open or asks for reconciliation.
AmbiguousStopNotFailed == ambiguous => idem.status # "FAILED"

\* Concurrent recoveries cannot both own the same recovery window: at most one
\* claim is stored per lease (RecoveryCoordinator._claim_active_recovery).
OneClaimPerLease == claims <= 1

\* An unresolved claim always has a run that can still be reconciled: a run
\* reaches a terminal state only after its claim was resolved.
TerminalRunHasNoOpenClaim ==
    run.state \in TERMINAL_WORKFLOW_STATES => idem.status # "REGISTERED"

\* Read-back polling never exceeds the configured attempts, neither in verify()
\* nor in recovery's lost-acknowledgement loop.
PollingIsBounded ==
    /\ \A w \in Observers : vattempt[w] <= MaxAttempts
    /\ \A r \in Recoverers : rattempt[r] <= MaxAttempts

\* However a run ends, it ends rightly: success has its proof, no claim is left
\* open behind it, and nobody polled longer than allowed on the way.
OutcomeIsProven == SuccessIsProven /\ TerminalRunHasNoOpenClaim /\ PollingIsBounded

(* Action properties *)

\* What is decided stays decided: terminal runs, the human decision, a resolved
\* claim, an acknowledgement and the stored evidence never change again.
DecidedStaysDecided ==
    [][ /\ run.state \in TERMINAL_WORKFLOW_STATES => run' = run
        /\ approval # NoApproval => approval' = approval
        /\ idem.status \notin {"none", "REGISTERED"} => idem' = idem
        /\ idem.ack # None => idem'.ack = idem.ack
        /\ evidence # NoEvidence => evidence' = evidence ]_vars

\* Once the operator has raised the veto only a call already past its second
\* check may send: no other gets there, neither in its own process nor in a
\* remote function its caller has left behind.
Sending(e) == xpc[e] = "stop_instances" \/ inflight[e] = "sending"

VetoHonoured ==
    [][ ~writesEnabled =>
          /\ \A e \in Executors : Sending(e)' => Sending(e)
          /\ stopCalls' # stopCalls => \E e \in Executors : Sending(e) ]_vars

(* Liveness *)

\* A crash in the middle of an execution does not leave the run in EXECUTING: a
\* recover() call made while the claim is open and no execute() is under way
\* takes the run out of it (RecoveryCoordinator._recover_execution).
LostExecutionIsReconciled ==
    \A r \in Recoverers :
        (/\ run.state = "EXECUTING"
         /\ idem.status = "REGISTERED"
         /\ \A e \in Executors : xpc[e] \in {"idle", "done", "crashed"}
         /\ rpc[r] = "idle") ~> (run.state # "EXECUTING")

\* A verify() call that finds a run in VERIFYING takes it out of VERIFYING.
VerifyingSettles ==
    \A v \in Verifiers :
        (run.state = "VERIFYING" /\ vpc[v] = "idle") ~> (run.state # "VERIFYING")

-----------------------------------------------------------------------------
(* A statement of the documentation that the code does not keep *)

\* day-11-recovery.md: "verified results reconcile idempotently after restart".
\* A recovery call that found a run in VERIFYING with its evidence, saw the
\* instance stopped itself, and ends when every other call has ended, is not
\* deferred.
VerifiedResultReconciles ==
    \A r \in Recoverers :
        /\ snap[r].run.state = "VERIFYING"
        /\ snap[r].evidence # NoEvidence
        /\ Observed(r) = "stopped"
        /\ \A e \in Executors : xpc[e] \in {"done", "crashed"}
        /\ \A v \in Verifiers : vpc[v] \in VerifyReturned
        => rpc[r] # "deferred"
=============================================================================
