CONSTANTS
    None = None
    Batches <- MCBatches
    Flags <- MCFlags
    Budget <- MCBudget
    BytesPerRequest = 20
    ByteCap = 100
    Capacity = 2
    MaxDecisions = 1
    MaxLabels = 1
    MaxWork = 4
    Inputs <- MCInputs
    Specs <- MCSpecs
    Policies = {"p2", "p3"}
    MaxCommits = 2
    AutoRows <- MCAutoRows
    Verdicts = {"manipulation", "success"}
    MaxRows = 3
SPECIFICATION Spec
CHECK_DEADLOCK FALSE
INVARIANT RetractedNotTrained
