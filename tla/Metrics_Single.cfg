SPECIFICATION FairSpec
CONSTANTS
    NumLists = 2
    Exporters = {e1}
    MaxPushed <- TwoAndOne
    MaxValues = 2
    MaxCount = 3
    MaxCuts = 1
INVARIANTS
    TypeOK
    NoLoss
    Recounts
PROPERTIES
    KeepsUntilCounted
    EveryValueCounted
