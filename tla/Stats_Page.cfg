SPECIFICATION Spec
CONSTANTS
    Calendars <- MonthEnds
    Days = 2
    Answers <- SomeAnswers
    Probes <- SomeProbes
    Slowest = 3
    Ids = {r1, r2, r3}
SYMMETRY AnyIds
INVARIANTS
    TypeOK
    QuietFigures
    TotalAtMostParts
    MinAtMostAverage
