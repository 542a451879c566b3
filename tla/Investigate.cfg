\* Executions of one run race with each other and with the approval flow, die
\* at any step and meet a storage fault.
CONSTANTS
    None = None
    Executors = {}
    Verifiers = {}
    Recoverers = {}
    Approvers = {a1, a2}
    Sessions = {s1}
    StartApproved = FALSE
    MaxFaults = 1
    MaxDrift = 0
    Investigators = {i1, i2}
    MaxTurns = 2
    Crashing = {i1, i2}
    i1 = i1
    i2 = i2
    a1 = a1
    a2 = a2
SPECIFICATION ScenarioSpec
INVARIANTS
    ProposedRunIsSound
PROPERTIES
    ApprovalIsKept
    FaultFreeRunLeavesInvestigation
CHECK_DEADLOCK FALSE
