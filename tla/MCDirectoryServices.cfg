CONSTANTS
    Scripts = {script1, script2}
    Nodes = {node1, node2}
    Paths <- MCPaths
    None = None
    MaxNodes = 2
SPECIFICATION Spec
INVARIANTS
    TypeOK
PROPERTIES
    CallHolds
    DuplicateOnlyByRace
