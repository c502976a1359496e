CONSTANTS
    sample = sample
    base = base
    extra = extra
    usr = usr
    bin = bin
    lib = lib
    dotusr = dotusr
    script = script
    more = more
    empty = empty
    Top = Top
    Tools = Tools
    Packages <- MCPackages
    Undotted <- MCUndotted
    Sample <- MCSample
\* The program ends.
CHECK_DEADLOCK FALSE
SPECIFICATION UpdateSpec
INVARIANTS
    NothingLeftBehind
    ReportComplete
