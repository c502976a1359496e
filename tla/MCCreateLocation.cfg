CONSTANTS
    p1 = p1
    p2 = p2
    auto = auto
    work = work
    s1 = s1
    s2 = s2
    plain = plain
    proxied = proxied
    Office = Office
    None = None
    Automatic = Automatic
    Runs <- MCRuns
    NewName <- MCNewName
    InitialStores <- MCInitialStores
    Settings = {plain, proxied}
    MaxEdits = 2
\* Every run ends.
CHECK_DEADLOCK FALSE
SPECIFICATION Spec
INVARIANTS
    NamesUnique
    StatusTellsResult
PROPERTIES
    ImplementsPreferences
