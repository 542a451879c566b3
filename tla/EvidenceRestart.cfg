\* Violated: evidence stored before a crash blocks every later reconciliation.
CONSTANTS
    None = None
    Executors = {e1}
    Verifiers = {v1}
    Recoverers = {r1}
    Approvers = {}
    Sessions = {s1}
    StartApproved = TRUE
    MaxFaults = 0
    MaxDrift = 0
    MaxAttempts = 1
    ServicesOptional = FALSE
    Remote = FALSE
    Crashing = {v1}
SPECIFICATION Spec
VIEW View
INVARIANTS
    VerifiedResultReconciles
CHECK_DEADLOCK FALSE
