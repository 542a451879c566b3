\* Liveness: executions and recoveries settle the run; the executor may crash.
CONSTANTS
    None = None
    Executors = {e1}
    Verifiers = {v1}
    Recoverers = {r1}
    Approvers = {}
    Sessions = {s1}
    StartApproved = TRUE
    MaxFaults = 0
    MaxDrift = 0
    MaxAttempts = 1
    ServicesOptional = FALSE
    Remote = FALSE
    Crashing = {e1}
SPECIFICATION FairSpec
PROPERTIES
    LostExecutionIsReconciled
    VerifyingSettles
CHECK_DEADLOCK FALSE
