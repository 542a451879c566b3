\* The bootstrap with two operators, failing writes, kills and edits; the
\* preflight with calls that do not answer well; two closures and one judge while
\* the candidate changes and time passes; the reviewer evidence, the alias rollback,
\* the cleanup and the builds under the day-15 gate, each with what may disturb it.
CONSTANTS
    Operators = {o1, o2}
    Nobody = Nobody
    MaxRuns = 2
    MaxEdits = 1
    MaxFaults = 2
    MaxCrashes = 1
    MaxDefects = 2
    Judges = {j1}
    Kinds = {"gate", "review"}
    MaxVersions = 2
    MaxClosures = 2
    MaxTime = 3
    ReceiptAge = 1
    CaptureAge = 0
    NoFile = NoFile
    MaxChanges = 1
    Versions = {1, 2}
    MaxOutages = 2
    MaxDeploys = 1
    Trees = {1, 2}
    Verdicts = {"PASS", "BLOCKED"}
    MaxMoves = 3
    MaxBuilds = 2
    Expected = {"table", "function"}
    Unexpected = {"bucket"}
    Retained = {"table"}
    MaxAge = 2
    Lifetime = 1
    MaxDrifts = 1
    MaxShifts = 2
SPECIFICATION Spec
SYMMETRY Symmetry
INVARIANTS
    BootstrapIsHonest
    PreflightPassIsEarned
    ClosurePassIsSound
PROPERTIES
    EvidenceVerdictIsExact
    RollbackIsTold
    
CHECK_DEADLOCK FALSE
