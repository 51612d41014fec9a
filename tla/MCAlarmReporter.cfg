SPECIFICATION FairSpec
CONSTANTS
    alarm1 = alarm1
    alarm2 = alarm2
    car1 = car1
    AlarmThreads <- MCAlarmThreads
    CarThreads <- MCCarThreads
    MaxEvents = 3
INVARIANTS
    NeverStuck
    WinsockHeld
    RefsAccounted
    LeaksAreLosses
    PostedAtMostOnce
PROPERTIES
    CallbacksReturn
CHECK_DEADLOCK FALSE
