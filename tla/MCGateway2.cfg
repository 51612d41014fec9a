SPECIFICATION FairSpec
CONSTANTS
    a68 = a68
    a64 = a64
    a69 = a69
    a99 = a99
    NoDevice = NoDevice
    Missing = Missing
    AlarmAddr = a68
    MaxDoors = 2
    Addrs <- ThreeAddrs
    UserIds <- Ids3
    HeapFill <- DebugFill
    IniFiles <- TwoDoorFiles
INVARIANTS
    NeverStuck
    DoorsVisited
    LogoutsCoverTable
PROPERTIES
    KeepsDoorPromise
    ProcessEnds
