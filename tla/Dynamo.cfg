\* Clients of the table create, decide, execute and verify one run; one response
\* is lost or one request fails.
CONSTANTS
    Clients = {c1, c2, c3}
    None = None
    Kinds = {"create_run", "create_proposal", "transition_run", "transition_proposal", "update_run_budget", "create_approval", "register_idempotency", "complete_idempotency", "record_execution_acknowledgement", "create_verification_evidence", "save_checkpoint"}
    Targets = {"INVESTIGATING", "AWAITING_APPROVAL", "APPROVED", "DENIED_BY_HUMAN", "EXECUTING", "VERIFYING", "SUCCESS_WITH_EVIDENCE", "RECOVERY_REQUIRED"}
    Starts = {"new", "proposed", "awaiting", "approved", "executing", "verifying"}
    MaxCalls = 2
    MaxFaults = 1
SPECIFICATION ScenarioSpec
SYMMETRY Symmetry
INVARIANTS
    AnswersStayTrue
PROPERTIES
    ImplementsContract
CHECK_DEADLOCK FALSE
