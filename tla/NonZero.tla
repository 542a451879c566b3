------------------------------ MODULE NonZero ------------------------------
(***************************************************************************)
(* The closed vocabulary of the Non-Zero control plane: workflow states,   *)
(* the table of allowed transitions and the map from failure kinds to the  *)
(* durable state a failure leaves behind.  Constant-level only.            *)
(***************************************************************************)
EXTENDS Naturals, FiniteSets

TERMINAL_WORKFLOW_STATES ==
    {"SUCCESS_WITH_EVIDENCE", "NO_ACTION_REQUIRED", "RECOMMENDATION_ONLY",
     "DENIED_BY_HUMAN", "DENIED_BY_POLICY", "MODEL_OUTPUT_INVALID",
     "AMBIGUOUS_RESULT", "DEPENDENCY_UNAVAILABLE", "BUDGET_EXHAUSTED",
     "EXECUTION_FAILED", "VERIFICATION_FAILED"}

WorkflowState ==
    {"RECEIVED", "INVESTIGATING", "EVIDENCE_READY", "REMEDIATION_PROPOSED",
     "AWAITING_APPROVAL", "APPROVED", "EXECUTING", "VERIFYING",
     "RECOVERY_REQUIRED"} \cup TERMINAL_WORKFLOW_STATES

\* Exits every pre-proposal investigation state shares.
COMMON_FAILURES ==
    {"DENIED_BY_POLICY", "MODEL_OUTPUT_INVALID", "AMBIGUOUS_RESULT",
     "DEPENDENCY_UNAVAILABLE", "BUDGET_EXHAUSTED", "RECOVERY_REQUIRED"}

ALLOWED_WORKFLOW_TRANSITIONS == [s \in WorkflowState |->
    CASE s = "RECEIVED" ->
             {"INVESTIGATING", "DENIED_BY_POLICY", "MODEL_OUTPUT_INVALID",
              "DEPENDENCY_UNAVAILABLE", "BUDGET_EXHAUSTED"}
      [] s = "INVESTIGATING" -> {"EVIDENCE_READY"} \cup COMMON_FAILURES
      [] s = "EVIDENCE_READY" ->
             {"REMEDIATION_PROPOSED", "NO_ACTION_REQUIRED",
              "RECOMMENDATION_ONLY"} \cup COMMON_FAILURES
      [] s = "REMEDIATION_PROPOSED" ->
             {"AWAITING_APPROVAL", "DENIED_BY_POLICY",
              "DEPENDENCY_UNAVAILABLE", "RECOVERY_REQUIRED"}
      [] s = "AWAITING_APPROVAL" ->
             {"APPROVED", "DENIED_BY_HUMAN", "DENIED_BY_POLICY",
              "MODEL_OUTPUT_INVALID", "DEPENDENCY_UNAVAILABLE",
              "BUDGET_EXHAUSTED", "RECOVERY_REQUIRED"}
      [] s = "APPROVED" ->
             {"EXECUTING", "DEPENDENCY_UNAVAILABLE", "RECOVERY_REQUIRED"}
      [] s = "EXECUTING" ->
             {"VERIFYING", "DENIED_BY_POLICY", "EXECUTION_FAILED",
              "AMBIGUOUS_RESULT", "DEPENDENCY_UNAVAILABLE",
              "BUDGET_EXHAUSTED", "RECOVERY_REQUIRED"}
      [] s = "VERIFYING" ->
             {"SUCCESS_WITH_EVIDENCE", "DENIED_BY_POLICY",
              "MODEL_OUTPUT_INVALID", "VERIFICATION_FAILED",
              "AMBIGUOUS_RESULT", "DEPENDENCY_UNAVAILABLE",
              "BUDGET_EXHAUSTED", "RECOVERY_REQUIRED"}
      [] s = "RECOVERY_REQUIRED" ->
             {"VERIFYING", "DENIED_BY_POLICY", "DEPENDENCY_UNAVAILABLE",
              "VERIFICATION_FAILED"}
      [] OTHER -> {}]

FailureKind ==
    {"VALIDATION_FAILURE", "POLICY_DENIAL", "AMBIGUOUS_RESULT",
     "DEPENDENCY_UNAVAILABLE", "BUDGET_EXHAUSTION", "EXECUTION_FAILURE",
     "VERIFICATION_FAILURE", "RECOVERY_REQUIREMENT", "ILLEGAL_STATE_TRANSITION",
     "PROVIDER_FAILURE", "TOOL_ADAPTER_FAILURE", "STORAGE_FAILURE",
     "IDEMPOTENCY_CONFLICT", "NOT_FOUND", "CONFIGURATION_ERROR"}

workflow_state_for_failure(kind) ==
    CASE kind = "VALIDATION_FAILURE" -> "MODEL_OUTPUT_INVALID"
      [] kind \in {"POLICY_DENIAL", "CONFIGURATION_ERROR"} -> "DENIED_BY_POLICY"
      [] kind \in {"AMBIGUOUS_RESULT", "NOT_FOUND"} -> "AMBIGUOUS_RESULT"
      [] kind \in {"DEPENDENCY_UNAVAILABLE", "PROVIDER_FAILURE",
                   "TOOL_ADAPTER_FAILURE", "STORAGE_FAILURE"} -> "DEPENDENCY_UNAVAILABLE"
      [] kind = "BUDGET_EXHAUSTION" -> "BUDGET_EXHAUSTED"
      [] kind = "EXECUTION_FAILURE" -> "EXECUTION_FAILED"
      [] kind = "VERIFICATION_FAILURE" -> "VERIFICATION_FAILED"
      [] OTHER -> "RECOVERY_REQUIRED"

\* What a repository or provider call can come back with.
Result == {"ok", "conflict", "unavailable", "illegal"}

\* The control point reached after a call, by the exception it raised (if any).
\* An illegal transition raises WorkflowTransitionError, which none of the
\* coordinators below catches except where stated.
After(res, ok, conflict, unavailable) ==
    CASE res = "ok"          -> ok
      [] res = "conflict"    -> conflict
      [] res = "unavailable" -> unavailable
      [] OTHER               -> "raised"
=============================================================================
