CONSTANTS
    ours = ours
    older = older
    None = None
    Devices <- MCDevices
    MatchesOurs <- MCMatches
    NRecords = 2
    MaxPlugs = 2
CHECK_DEADLOCK FALSE
SPECIFICATION FairSpec
INVARIANTS
    ArrivalAnnounced
    WholeFirmware
PROPERTIES
    InterfaceGivenBack
    OnlyOursWritten
    ArrivalIsTaken
