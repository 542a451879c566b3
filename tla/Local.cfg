\* Local runs: two workers race on one run with two sessions, a file operation
\* fails while time passes, two runs share one resource; any worker may die.
CONSTANTS
    Nobody = Nobody
    Runs = {r1, r2}
    Sessions = {s1, s2}
    Kinds = {"address", "ambiguous", "tags", "group"}
    MaxRequests = 2
    MaxFaults = 1
    Workers = {w1, w2}
    MayExpire = TRUE
    Crashing = {w1, w2}
    r1 = r1
    r2 = r2
    w1 = w1
    w2 = w2
    s1 = s1
    s2 = s2
SPECIFICATION ScenarioSpec
INVARIANTS
    MutatedOnceAndApproved
    StoredRunsAreSound
PROPERTIES
    DecisionIsKept
CHECK_DEADLOCK FALSE
