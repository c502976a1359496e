CONSTANTS
    Devices = {d1, d2, d3}
    None = None
\* Every device is tested once.
CHECK_DEADLOCK FALSE
SPECIFICATION TestSpec
INVARIANTS
    TestTypeOK
    InterfaceOwned
    OriginalDataUnlessShared
