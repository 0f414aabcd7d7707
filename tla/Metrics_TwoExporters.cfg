SPECIFICATION CalmSpec
CONSTANTS
    NumLists = 1
    Exporters = {e1, e2}
    MaxPushed <- Three
    MaxValues = 3
    MaxCount = 1
    MaxCuts = 0
INVARIANTS
    NoLoss
