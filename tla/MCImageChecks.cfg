CONSTANTS
    None = None
    Modules <- MCModules
    Classes <- MCClasses
    Methods <- MCMethods
    StatusModulus = 3
    Trees <- MCTrees
    Blacklist <- MCBlacklist
    SuidWhitelist <- MCSuidWhitelist
    WritablesWhitelist = {}
    PlistNames <- MCPlistNames
    CutPrefixes <- MCCutPrefixes
\* The program exits.
CHECK_DEADLOCK FALSE
SPECIFICATION CheckedSpec
INVARIANTS
    ImageDetached
    ZeroMeansSuccess
    SuccessMeansClean
