CONSTANTS
    Newest = 3
    MaxChecks = 2
    MaxInstalls = 2
    Walk <- MCWalk
    Texts <- MCTexts
    FirstTexts <- MCFirstTexts
    Terms <- MCTerms
    Replacements <- MCReplacements
    MatchCap = 2
    MaxScans = 2
    MaxTextChanges = 1
    Order <- MCOrder
    Top = {"a", "b"}
    Queries <- MCQueries
    IndexLimit = 2
    MaxAppear = 1
    MaxHides = 1
    MaxBuilds = 2
    Projects = {p}
    Subs = {s, t}
    Placements = {"stack", "after", "before"}
    MaxPanels = 4
    MaxTabs = 2
    MaxEdits = 3
    MaxStops = 1
    MarkdownFiles = {f, g}
    Views = {"own", "mirror"}
    Lines <- MCLines
    Tops <- MCTops
    LastOffset = 3
    LastTop = 2
    Delay = 1
    Wait = 2
    Caps = {1, 2}
    MaxReading = 5
    FolderNames = {"d", "e"}
    FileNames = {"x"}
    MaxItems = 5
    MaxDiskChanges = 2
    MaxTreeActs = 2
    MaxRequests = 2
    MaxWrites = 1
    MaxLosses = 2
    MaxAttempts = 3
    Commands <- MCCommands
    Scopes <- MCScopes
    Defaults <- MCDefaults
    Reserved = {"r"}
    Chords = {"k", "m", "r"}
    HandLists <- MCHandLists
    Numbers = {0, 2}
    Low = 1
    High = 2
    Normal = 1
    Themes = {"u", "v"}
    MaxSettingActs = 3
    MaxHands = 1
SYMMETRY MCSymmetry
SPECIFICATION Spec
INVARIANTS
    SwapLeavesApp
    ReplacesFound
    LayoutWhole
    PreviewFollows
    TreeFollows
    FailsAtOnce
    FilesInForce
PROPERTY
    IndexHonest
CHECK_DEADLOCK FALSE
