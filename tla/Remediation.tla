---------------------------- MODULE Remediation ----------------------------
(***************************************************************************)
(* StopSandboxInstanceCoordinator.execute and the private executor it      *)
(* calls.  Each member of Executors is one call, from the tool boundary to *)
(* its return; a call may crash between any two steps.                     *)
(***************************************************************************)
EXTENDS SandboxInstance

CONSTANT Remote   \* TRUE: the executor sits behind the private Lambda

ASSUME RemoteAssumption == Remote \in BOOLEAN

VARIABLES xpc,    \* control point of each call
          xrun,   \* the Run the call holds (its state and version as read)
          xfail,  \* failure kind the executor raised
          inflight \* remote function of a call whose caller has left, if any

remediation == <<xpc, xrun, xfail, inflight>>

BeforeClaim == {"idle", "get_idempotency", "get_run_ack", "require_approved",
                "register", "load", "claim", "mark", "mark_transition"}
BeforeStop == {"append_requested", "describe", "emergency_1", "dry_run",
               "emergency_2", "stop_instances"}
AfterStop == {"record_ack", "to_verifying", "append_acknowledged",
              "append_denied", "complete_failed", "to_failed"}
ExecutorPc == BeforeClaim \cup BeforeStop \cup AfterStop
                \cup {"done", "crashed", "raised"}

RemediationTypeOK ==
    /\ xpc \in [Executors -> ExecutorPc]
    /\ xrun \in [Executors -> Run]
    /\ xfail \in [Executors -> FailureKind \cup {"none"}]
    /\ inflight \in [Executors -> {"none", "checking", "sending"}]

NoRun == [state |-> "RECEIVED", version |-> 0]

RemediationInit ==
    /\ xpc = [e \in Executors |-> "idle"]
    /\ xrun = [e \in Executors |-> NoRun]
    /\ xfail = [e \in Executors |-> "none"]
    /\ inflight = [e \in Executors |-> "none"]

Goto(e, next) == xpc' = [xpc EXCEPT ![e] = next]

\* One repository write of call e, its exceptions sent to the given points.
Then(e, res, ok, conflict, unavailable) ==
    Goto(e, After(res, ok, conflict, unavailable))

-----------------------------------------------------------------------------
(* Lookup and reconciliation of an existing claim *)

\* get_proposal: its content is immutable, so only availability matters.
Execute(e) ==
    /\ xpc[e] = "idle"
    /\ \E res \in Result : Read(res) /\ Then(e, res, "get_idempotency", "done", "done")
    /\ UNCHANGED <<xrun, xfail, inflight, cloud>>

\* An unacknowledged claim is ambiguous; a resolved one is refused as it is.
claim_disposition ==
    CASE idem.status = "none" -> "require_approved"
      [] idem.status # "none" /\ idem.ack # None -> "get_run_ack"
      [] idem.status = "REGISTERED" /\ idem.ack = None -> "mark"
      [] OTHER -> "done"

GetIdempotency(e) ==
    /\ xpc[e] = "get_idempotency"
    /\ \E res \in Result :
         Read(res) /\ Then(e, res, claim_disposition, "done", "done")
    /\ UNCHANGED <<xrun, xfail, inflight, cloud>>

\* An acknowledged claim is returned again while the run is past execution.
GetRunAfterAck(e) ==
    /\ xpc[e] = "get_run_ack"
    /\ \E res \in Result :
         /\ Read(res)
         /\ Then(e, res,
                 IF run.state \in {"VERIFYING", "SUCCESS_WITH_EVIDENCE"}
                 THEN "done" ELSE "mark",
                 "done", "done")
    /\ UNCHANGED <<xrun, xfail, inflight, cloud>>

(* Write-before-execute *)

\* The proposal state and the decision never change once set, so the three
\* reads are one read at the time of the last (the run).
approved_records ==
    /\ proposal = "AWAITING_APPROVAL"
    /\ approval.decision = "APPROVED"
    /\ run.state = "APPROVED"

RequireApproved(e) ==
    /\ xpc[e] = "require_approved"
    /\ \E res \in Result :
         /\ Read(res)
         /\ Then(e, res, IF approved_records THEN "register" ELSE "done",
                 "done", "done")
    /\ UNCHANGED <<xrun, xfail, inflight, cloud>>

RegisterApprovedAction(e) ==
    /\ xpc[e] = "register"
    /\ \E res \in Result :
         register_idempotency(res) /\ Then(e, res, "load", "mark", "done")
    /\ UNCHANGED <<xrun, xfail, inflight, cloud>>

\* The run read here is the one whose version the claim below expects.  A run
\* does not return to APPROVED and a safe checkpoint is not withdrawn, so the
\* reads can be placed at one instant.
LoadExecutionPrerequisites(e) ==
    /\ xpc[e] = "load"
    /\ \E res \in Result :
         /\ Read(res)
         /\ Then(e, res,
                 IF /\ approved_records
                    /\ idem.status = "REGISTERED"
                    /\ checkpoint.safe = "APPROVED"
                 THEN "claim" ELSE "done",
                 "done", "done")
    /\ xrun' = [xrun EXCEPT ![e] = run]
    /\ UNCHANGED <<xfail, inflight, cloud>>

\* Mutant: losing the ownership race is taken for owning it already.
ClaimExecutionIgnoringConflict(e) ==
    /\ xpc[e] = "claim"
    /\ \E res \in Result :
         /\ transition_run("APPROVED", xrun[e].version, "EXECUTING", res)
         /\ Then(e, res, "append_requested", "append_requested", "done")
    /\ xrun' = [xrun EXCEPT ![e] = [state |-> "EXECUTING",
                                    version |-> xrun[e].version + 1]]
    /\ UNCHANGED <<xfail, inflight, cloud>>

\* The conditional transition that decides which call owns the mutation.
ClaimExecution(e) ==
    /\ xpc[e] = "claim"
    /\ \E res \in Result :
         /\ transition_run("APPROVED", xrun[e].version, "EXECUTING", res)
         /\ Then(e, res, "append_requested", "mark", "done")
    /\ xrun' = [xrun EXCEPT ![e] = [state |-> "EXECUTING",
                                    version |-> xrun[e].version + 1]]
    /\ UNCHANGED <<xfail, inflight, cloud>>

\* Mutant: the audit event before the mutation is best effort.
AppendRequestedBestEffort(e) ==
    /\ xpc[e] = "append_requested"
    /\ \E res \in Result :
         /\ append_audit_event("EXECUTION_REQUESTED", res)
         /\ Then(e, res, "describe", "describe", "describe")
    /\ UNCHANGED <<xrun, xfail, inflight, cloud>>

AppendRequested(e) ==
    /\ xpc[e] = "append_requested"
    /\ \E res \in Result :
         /\ append_audit_event("EXECUTION_REQUESTED", res)
         /\ Then(e, res, "describe", "mark", "done")
    /\ UNCHANGED <<xrun, xfail, inflight, cloud>>

-----------------------------------------------------------------------------
(* The private executor *)

\* Mutant: the run is closed without resolving its claim.
FailWithoutResolving(e, kind) ==
    /\ xfail' = [xfail EXCEPT ![e] = kind]
    /\ Goto(e, "to_failed")

\* The coordinator's except clauses: a policy denial is audited first.
Fail(e, kind) ==
    /\ xfail' = [xfail EXCEPT ![e] = kind]
    /\ Goto(e, IF kind = "POLICY_DENIAL" THEN "append_denied" ELSE "complete_failed")

\* What the coordinator sees of an exception the executor raised.  Behind the
\* Lambda only the emergency denial keeps its type; every other exception is a
\* FunctionError, which the client reports as an unavailable dependency.
Reported(kind) == IF Remote THEN "DEPENDENCY_UNAVAILABLE" ELSE kind

\* The caller leaves a remote invocation behind: the function runs on.
InExecutor == {"describe", "emergency_1", "dry_run", "emergency_2", "stop_instances"}

LeaveBehind(e) ==
    inflight' = IF Remote /\ xpc[e] \in InExecutor
                THEN [inflight EXCEPT ![e] = IF xpc[e] = "stop_instances"
                                             THEN "sending" ELSE "checking"]
                ELSE inflight

\* The synchronous invocation times out or its connection breaks.
InvocationLost(e) ==
    /\ Remote
    /\ xpc[e] \in InExecutor
    /\ Fail(e, "RECOVERY_REQUIREMENT")
    /\ LeaveBehind(e)
    /\ UNCHANGED <<xrun, durable, cloud>>

\* Opt-ins, scope, tags and the running precondition, freshly described.
Describe(e) ==
    /\ xpc[e] = "describe"
    /\ \/ instance = "running" /\ Goto(e, "emergency_1") /\ UNCHANGED xfail
       \/ Fail(e, Reported("POLICY_DENIAL"))
       \/ Fail(e, "DEPENDENCY_UNAVAILABLE")
    /\ UNCHANGED <<xrun, inflight, durable, cloud>>

AssertWritesEnabled(e, at, next) ==
    /\ xpc[e] = at
    /\ \/ writesEnabled /\ Goto(e, next) /\ UNCHANGED xfail
       \/ ~writesEnabled /\ Fail(e, "POLICY_DENIAL")
    /\ UNCHANGED <<xrun, inflight, durable, cloud>>

FirstEmergencyCheck(e) == AssertWritesEnabled(e, "emergency_1", "dry_run")
\* Mutant: the veto is not read again after the dry run.
SecondEmergencyCheckSkipped(e) ==
    /\ xpc[e] = "emergency_2"
    /\ Goto(e, "stop_instances")
    /\ UNCHANGED <<xrun, xfail, inflight, durable, cloud>>

SecondEmergencyCheck(e) == AssertWritesEnabled(e, "emergency_2", "stop_instances")

DryRun(e) ==
    /\ xpc[e] = "dry_run"
    /\ \/ Goto(e, "emergency_2") /\ UNCHANGED xfail
       \/ Fail(e, "DEPENDENCY_UNAVAILABLE")
    /\ UNCHANGED <<xrun, inflight, durable, cloud>>

\* StopInstances: acknowledged, refused with an AWS error code, or no usable
\* reply, in which case the stop may or may not have been accepted.
EffectOfStop == instance' = IF instance = "running" THEN "stopping" ELSE instance

\* Mutant: a stop without a usable reply is sent again.
StopInstancesRetried(e) ==
    /\ xpc[e] = "stop_instances"
    /\ stopCalls' = stopCalls + 1
    /\ \/ /\ instance = "running" /\ EffectOfStop
          /\ Goto(e, "record_ack") /\ UNCHANGED <<xfail, ambiguous>>
       \/ /\ UNCHANGED <<xpc, xfail, ambiguous>>
          /\ EffectOfStop \/ UNCHANGED instance
    /\ UNCHANGED <<xrun, inflight, durable, writesEnabled, drift>>

StopInstances(e) ==
    /\ xpc[e] = "stop_instances"
    /\ stopCalls' = stopCalls + 1
    /\ \/ /\ instance = "running" /\ EffectOfStop
          /\ Goto(e, "record_ack") /\ UNCHANGED <<xfail, ambiguous>>
       \/ /\ Fail(e, Reported("EXECUTION_FAILURE"))
          /\ UNCHANGED <<instance, ambiguous>>
       \/ /\ Fail(e, Reported("RECOVERY_REQUIREMENT"))
          /\ ambiguous' = TRUE
          /\ EffectOfStop \/ UNCHANGED instance
       \/ /\ Remote
          /\ Fail(e, "RECOVERY_REQUIREMENT")
          /\ ambiguous' = TRUE
          /\ EffectOfStop \/ UNCHANGED instance
    /\ UNCHANGED <<xrun, inflight, durable, writesEnabled, drift>>

\* A function whose caller has left runs to its end, or dies; its reply goes
\* nowhere.  Its remaining checks may find the veto up or a precondition gone.
LateChecks(e) ==
    /\ inflight[e] = "checking"
    /\ \/ /\ writesEnabled
          /\ inflight' = [inflight EXCEPT ![e] = "sending"]
       \/ inflight' = [inflight EXCEPT ![e] = "none"]
    /\ UNCHANGED <<xpc, xrun, xfail, durable, cloud>>

LateStop(e) ==
    /\ inflight[e] = "sending"
    /\ inflight' = [inflight EXCEPT ![e] = "none"]
    /\ \/ /\ stopCalls' = stopCalls + 1
          /\ EffectOfStop \/ UNCHANGED instance
          /\ ambiguous' = TRUE
       \/ UNCHANGED <<stopCalls, instance, ambiguous>>
    /\ UNCHANGED <<xpc, xrun, xfail, durable, writesEnabled, drift>>

-----------------------------------------------------------------------------
(* Durable outcome *)

RecordAcknowledgement(e) ==
    /\ xpc[e] = "record_ack"
    /\ \E res \in Result :
         /\ record_execution_acknowledgement(e, res)
         /\ Then(e, res, "to_verifying", "mark", "mark")
    /\ UNCHANGED <<xrun, xfail, inflight, cloud>>

ToVerifying(e) ==
    /\ xpc[e] = "to_verifying"
    /\ \E res \in Result :
         /\ transition_run("EXECUTING", xrun[e].version, "VERIFYING", res)
         /\ Then(e, res, "append_acknowledged", "mark", "mark")
    /\ UNCHANGED <<xrun, xfail, inflight, cloud>>

AppendAcknowledged(e) ==
    /\ xpc[e] = "append_acknowledged"
    /\ \E res \in Result :
         /\ append_audit_event("EXECUTION_ACKNOWLEDGED", res)
         /\ Then(e, res, "done", "mark", "mark")
    /\ UNCHANGED <<xrun, xfail, inflight, cloud>>

\* _persist_execution_failure
AppendDenied(e) ==
    /\ xpc[e] = "append_denied"
    /\ \E res \in Result :
         /\ append_audit_event("POLICY_DENIED", res)
         /\ Then(e, res, "complete_failed", "done", "done")
    /\ UNCHANGED <<xrun, xfail, inflight, cloud>>

\* Mutants: the claim is stored with the failure kind; every failure is FAILED.
CompleteWithKind(e) ==
    /\ xpc[e] = "complete_failed"
    /\ \E res \in Result :
         /\ complete_idempotency(xfail[e], None, res)
         /\ Then(e, res, "to_failed", "done", "done")
    /\ UNCHANGED <<xrun, xfail, inflight, cloud>>

CompleteAlwaysFailed(e) ==
    /\ xpc[e] = "complete_failed"
    /\ \E res \in Result :
         /\ complete_idempotency("FAILED", None, res)
         /\ Then(e, res, "to_failed", "done", "done")
    /\ UNCHANGED <<xrun, xfail, inflight, cloud>>

CompleteFailed(e) ==
    /\ xpc[e] = "complete_failed"
    /\ \E res \in Result :
         /\ complete_idempotency(IF xfail[e] = "RECOVERY_REQUIREMENT"
                                 THEN "RECONCILIATION_REQUIRED" ELSE "FAILED",
                                 None, res)
         /\ Then(e, res, "to_failed", "done", "done")
    /\ UNCHANGED <<xrun, xfail, inflight, cloud>>

ToFailed(e) ==
    /\ xpc[e] = "to_failed"
    /\ \E res \in Result :
         /\ transition_run("EXECUTING", xrun[e].version,
                           workflow_state_for_failure(xfail[e]), res)
         /\ Then(e, res, "done", "done", "done")
    /\ UNCHANGED <<xrun, xfail, inflight, cloud>>

\* _mark_recovery_required: re-read the run, then move it if it is still
\* before or in execution; storage errors are swallowed.
MarkGetRun(e) ==
    /\ xpc[e] = "mark"
    /\ \E res \in Result :
         /\ Read(res)
         /\ Then(e, res,
                 IF run.state \in {"APPROVED", "EXECUTING"}
                 THEN "mark_transition" ELSE "done",
                 "done", "done")
    /\ xrun' = [xrun EXCEPT ![e] = run]
    /\ UNCHANGED <<xfail, inflight, cloud>>

MarkTransition(e) ==
    /\ xpc[e] = "mark_transition"
    /\ \E res \in Result :
         /\ transition_run(xrun[e].state, xrun[e].version, "RECOVERY_REQUIRED", res)
         /\ Then(e, res, "done", "done", "done")
    /\ UNCHANGED <<xrun, xfail, inflight, cloud>>

\* The process dies; nothing durable changes.
ExecutorCrash(e) ==
    /\ xpc[e] \notin {"idle", "done", "crashed", "raised"}
    /\ Goto(e, "crashed")
    /\ LeaveBehind(e)
    /\ UNCHANGED <<xrun, xfail, durable, cloud>>

ExecutorStep(e) ==
    \/ Execute(e) \/ GetIdempotency(e) \/ GetRunAfterAck(e)
    \/ RequireApproved(e) \/ RegisterApprovedAction(e)
    \/ LoadExecutionPrerequisites(e) \/ ClaimExecution(e) \/ AppendRequested(e)
    \/ InvocationLost(e) \/ Describe(e) \/ FirstEmergencyCheck(e) \/ DryRun(e)
    \/ SecondEmergencyCheck(e) \/ StopInstances(e)
    \/ LateChecks(e) \/ LateStop(e)
    \/ RecordAcknowledgement(e) \/ ToVerifying(e) \/ AppendAcknowledged(e)
    \/ AppendDenied(e) \/ CompleteFailed(e) \/ ToFailed(e)
    \/ MarkGetRun(e) \/ MarkTransition(e)
=============================================================================
