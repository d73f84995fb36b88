CONSTANTS
    None = None
    Failed = Failed
    Unset = Unset
    U32 = 8
    Clocks = {"clock"}
    Offsets = {"offset"}
    Calls <- MCCalls
    Fold <- MCFold
    Reserved = {"fieldloop_x"}
    Texts <- MCTexts
    Mappings <- MCMappings
    Messages <- MCMessages
    Thresholds = {1, 4}
    MaxMessages = 3
SPECIFICATION Spec
INVARIANT AdmittedIsTruthful
INVARIANT ImportKeepsTheClock
PROPERTY LoadIsStable
