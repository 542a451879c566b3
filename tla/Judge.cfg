\* Two environments of the judge with two runs: racing requests, a lost
\* response or a dying environment, a token rotation, passing days.
SPECIFICATION ScenarioSpec
CONSTANTS
    Envs = {e1, e2}
    Runs = {r1, r2}
    Routes = {"investigate", "status", "ready"}
    None = None
    e1 = e1
    e2 = e2
    r1 = r1
    r2 = r2
    MaxTime = 4
    MaxRotations = 1
    MaxFaults = 1
    MaxRequestsMade = 3
    DayLength = 2
    NotAfter = 4
    MaxLifetime = 4
    TokenTTL = 2
    ReadyTTL = 2
    Window = 2
    MaxRequests = 1
    TokensPerRequest = 2
    MaxTokens = 4
    MaxStatusRequests = 2
    MaxProbes = 1
    MaxObservations = 2
INVARIANTS
    BudgetsHold
    AnswersAreBacked
PROPERTIES
    PollerIsReleased
CHECK_DEADLOCK FALSE
