CONSTANTS
    Views = {v1, v2}
    Typed <- MCTyped
    Opening <- MCOpening
    Indent = 2
    MaxEntries = 2
    MaxLen = 7
    MaxEdits = 3
    MaxCaretMoves = 1
    MaxActs = 3
    Places = {2, 5}
    Tokens = {"open", "close", "x"}
    Stride = 2
    CacheLines = 2
    MaxLines = 4
    Texts <- MCTexts
    Queries <- MCQueries
    Replacements <- MCReplacements
    MaxVersion = 2
    Files = {f, g}
    Panels = {p}
    MaxTexts = 3
    MaxFileMoves = 1
    MaxJobs = 1
    MaxLaunches = 1
    Names = {"a", "d"}
    MaxDepth = 2
    Limit = 2
    MaxItems = 4
    MaxOutside = 1
    MaxOps = 3
SYMMETRY MCSymmetry
SPECIFICATION Spec
INVARIANTS
    HistoryReplays
    ViewsFit
    InvalidationSuffices
    ReplacesMatches
    DiskStateTrue
    RecoveryExact
    OperationsReverse
CHECK_DEADLOCK FALSE
