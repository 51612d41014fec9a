SPECIFICATION Spec
CONSTANTS
    c1 = c1
    Cards <- OneCard
    Messages <- OneCardMessages
    MaxDoorNum = 2
    MaxSent = 2
INVARIANTS
    GrantLetsPass
CHECK_DEADLOCK FALSE
