CONSTANTS
    BatchLimit = 2
    PageSizes = {1, 2}
    Dur = 3
    Slots = {0, 3, 5, 8, 11, 14}
    Times = {0, 1, 3, 8, 12}
    Limits = {0, 1, 3}
    NoTime = NoTime
SPECIFICATION Spec
INVARIANTS TypeOK AnswerIsARun EveryClosedCandle
PROPERTY CallEnds
