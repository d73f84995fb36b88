CONSTANTS
    None = None
    WindowOf <- MCWindowOf
    DefaultWindow = 4
    HeartbeatPeriod = 1
    GapFactor = 2
    JoinVersion = "v1"
    Worlds <- MCWorlds
    MinLabels = 2
    QuoteWide = TRUE
    Windows = {0, 2}
    Floors = {500}
    MaxPasses = 2
    MaxEvents = 1
    MaxCurations = 2
SPECIFICATION Spec
CHECK_DEADLOCK FALSE
INVARIANT TypeOK
INVARIANT EvidenceSupportsBinding
INVARIANT CreditConserved
INVARIANT AbsenceIsProven
INVARIANT FitIsIsotonic
INVARIANT PassSettles
INVARIANT JoinKeepsEveryRollout
