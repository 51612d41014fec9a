SPECIFICATION Spec
CONSTANTS
    alarm1 = alarm1
    alarm2 = alarm2
    car1 = car1
    AlarmThreads <- MCAlarmThreads
    CarThreads <- MCCarThreads
    MaxEvents = 2
PROPERTIES
    DocumentedCarsPosted
CHECK_DEADLOCK FALSE
