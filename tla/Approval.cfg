\* From the proposed run: racing requests and decisions, an execution or a
\* recovery, with crashes between any two steps.
CONSTANTS
    None = None
    Executors = {e1}
    Verifiers = {}
    Recoverers = {r1}
    Approvers = {a1, a2, a3}
    Sessions = {s1, s2}
    StartApproved = FALSE
    MaxFaults = 0
    MaxDrift = 0
    MaxAttempts = 1
    ServicesOptional = TRUE
    Remote = FALSE
    Crashing = {e1, r1, a1, a2, a3}
    e1 = e1
    e2 = e2
    v1 = v1
    r1 = r1
    a1 = a1
    a2 = a2
    a3 = a3
    Scenarios = {"decisions", "restart"}
SPECIFICATION ScenarioSpec
SYMMETRY Symmetry
VIEW ScenarioView
INVARIANTS
    DecisionGoverns
CHECK_DEADLOCK FALSE
