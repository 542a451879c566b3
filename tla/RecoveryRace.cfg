\* One execution and two recoveries of the same run, each of which may crash.
CONSTANTS
    None = None
    Executors = {e1}
    Verifiers = {}
    Recoverers = {r1, r2}
    Approvers = {}
    Sessions = {s1}
    StartApproved = TRUE
    MaxFaults = 0
    MaxDrift = 0
    MaxAttempts = 1
    ServicesOptional = TRUE
    Remote = FALSE
    Crashing = {e1, r1, r2}
SPECIFICATION Spec
SYMMETRY Symmetry
VIEW View
INVARIANTS
    AtMostOneStop
    AmbiguousStopNotFailed
    OneClaimPerLease
    OutcomeIsProven
PROPERTIES
    DecidedStaysDecided
CHECK_DEADLOCK FALSE
