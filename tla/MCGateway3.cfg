SPECIFICATION Spec
CONSTANTS
    a68 = a68
    a64 = a64
    a69 = a69
    a99 = a99
    NoDevice = NoDevice
    Missing = Missing
    AlarmAddr = a68
    MaxDoors = 3
    Addrs <- FourAddrs
    UserIds <- Ids4
    HeapFill <- ReleaseFill
    IniFiles <- ThreeDoorFiles
INVARIANTS
    IInv
    NoMisdirectedCommand
    AlarmKept
    TableTruthful
PROPERTIES
    NoOverRelease
