SPECIFICATION Spec
CONSTANTS
    MaxCalls = 3
    MaxFaults = 1
    MaxOthers = 1
INVARIANT
    TrueMeansApplied
