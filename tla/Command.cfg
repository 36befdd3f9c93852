\* One part at a time: a tool, a plan, a tour, two update checks, or the gate of the maintainers.
SPECIFICATION CommandSpec
CONSTANTS
    Releases = {1, 2}
    MaxChanges = 1
    MaxGates = 2
    MaxBreaks = 1
    Procs = {p1, p2}
    Interval = 2
    Current = 1
    Latest = 2
    MaxClock = 4
    Cap = 1
    Block = 2
    MaxBytes = 2
    MaxInterrupts = 1
    TargetNames = {1, 2}
    MaxTargets = 2
    GraphIds = {1, 2, 3}
    MaxNodes = 3
    Adapters <- MCAdapters
    MaxOwnerActs = 2
    MaxStops = 1
CONSTRAINT AtMostTwo
INVARIANTS
    CommandTypeOK
    RetainedIsHonest
    OrderIsTopological
    DiffIsTrue
    EvidenceIsOneMoment
    BundleIsGated
    DownloadsAgree
    OnlyCutsBlock
PROPERTIES
    ToolCallReturns
CHECK_DEADLOCK FALSE
