\* From the approved run, through the private Lambda whose invocations can be
\* lost while it runs on: races of executions, a verification and a recovery,
\* crashes between any two steps, storage faults and a changing instance.
CONSTANTS
    None = None
    Executors = {e1, e2}
    Verifiers = {v1}
    Recoverers = {r1}
    Approvers = {}
    Sessions = {s1}
    StartApproved = TRUE
    MaxFaults = 1
    MaxDrift = 1
    MaxAttempts = 2
    ServicesOptional = TRUE
    Remote = TRUE
    Crashing = {e1, e2, v1, r1}
    e1 = e1
    e2 = e2
    v1 = v1
    r1 = r1
    a1 = a1
    a2 = a2
    a3 = a3
    Scenarios = {"execute", "verify", "remote", "storage"}
SPECIFICATION ScenarioSpec
VIEW ScenarioView
INVARIANTS
    TypeOK
    StopIsAuthorised
    OneSender
    NoTransitionError
    OutcomeIsProven
PROPERTIES
    VetoHonoured
    DecidedStaysDecided
CHECK_DEADLOCK FALSE
