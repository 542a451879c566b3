\* A model stream that is cancelled and a reader that is cut off share one breaker.
CONSTANTS
    Threads = {t2, t3}
    Streams = {t2}
    Cut = {t2, t3}
    Nobody = Nobody
    Threshold = 2
    Cooldown = 1
    MaxAttempts = 2
    MaxCalls = 3
    MaxTime = 3
SPECIFICATION FairSpec
INVARIANTS
    StateStaysValid
PROPERTIES
    CooldownHonoured
    ImplementsProbeGate
    ProbeIsDecided
CHECK_DEADLOCK FALSE
