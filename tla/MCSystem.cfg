SPECIFICATION SysSpec
CONSTANTS
    a68 = a68
    alarm1 = alarm1
    alarm2 = alarm2
    NoDevice = NoDevice
    Missing = Missing
    AlarmAddr = a68
    MaxDoors = 1
    Addrs <- MCAddrs
    UserIds <- MCUserIds
    HeapFill <- NoHandle
    IniFiles <- OneDoor
    AlarmThreads <- MCThreads
    MaxEvents = 2
SYMMETRY Symmetry
INVARIANTS
    StartupsBalanced
    NobodyCutOff
PROPERTIES
    EventsLostOnlyUnregistered
