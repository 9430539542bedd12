CONSTANTS
    MaxRows = 6
    MaxLen = 3
    Parts = {2, 3, 4}
    Groups <- MCGroups
    MaxCalls = 2
SPECIFICATION FlowSpec
CHECK_DEADLOCK FALSE
INVARIANTS
    NeverRaises
    RestoresOrder
    Balanced
    RowsComeBack
