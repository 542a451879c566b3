\* One run; one worker may die at any step, the other one keeps resuming.  Two
\* servers that share a token file; one server with two handler slots and three
\* clients.
CONSTANTS
    Nobody = Nobody
    Runs = {r1}
    Sessions = {s1}
    Kinds = {"address", "tags"}
    MaxRequests = 1
    MaxFaults = 0
    Workers = {w1, w2}
    MayExpire = TRUE
    Crashing = {w1}
    Servers = {p1, p2}
    Conns = {c1, c2, c3}
    MaxConcurrent = 2
    MaxStarts = 3
    MaxCalls = 1
    MaxSignals = 1
    Absent = Absent
SPECIFICATION ServiceSpec
INVARIANTS
    ServerIsSound
PROPERTIES
    ApprovedRunSettles
    ConnectionIsServed
CHECK_DEADLOCK FALSE
