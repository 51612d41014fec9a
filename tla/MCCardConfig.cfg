SPECIFICATION Spec
CONSTANTS
    c1 = c1
    Cards <- OneCard
    Messages <- OneCardMessages
    MaxDoorNum = 2
    MaxSent = 3
INVARIANTS
    TypeOK
    OneDoorPerCard
    PassTakesTwoMessages
    CorruptionConfined
    PeriodKept
    DeletionSticks
CHECK_DEADLOCK FALSE
