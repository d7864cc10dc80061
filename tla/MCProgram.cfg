SPECIFICATION MCSpec
CONSTANTS
    Scripts <- MCScripts
    MaxWork = 3
    MaxReads = 4
    MaxLosses = 1
INVARIANTS AnnouncedIsFound LayerKnowsShared TurnsAreEven AnswersInOrder
CHECK_DEADLOCK FALSE
