SPECIFICATION Spec
CONSTANTS
    MaxCalls = 8
    MaxFaults = 3
    MaxOthers = 3
INVARIANTS
    RowsSurviveTheWire
    FalseMeansNotApplied
PROPERTIES
    ReadAnswersItsCall
    LinkMoves
