CONSTANTS
    Calls = {"edit", "report", "deep1", "deep2", "ctx1", "ctx2", "web", "foreign"}
    ToolOf <- MCToolOf
    Malformed = {"deep2"}
    Eligible <- MCEligible
    MaxBatch = 2
    MaxModelTurns = 3
    MaxToolCost = 9
    MaxDeep = 1
    MaxCorrections = 2
    MaxContinuations = 1
    WorkEnd = 1
    RunEnd = 2
    DeepWork = 1
SPECIFICATION Spec
INVARIANT InvalidResearchIsFree
