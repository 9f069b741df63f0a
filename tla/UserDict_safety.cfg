SPECIFICATION Spec
CONSTANTS
    t1 = t1
    t2 = t2
    w1 = w1
    w2 = w2
    None = None
    Typists <- MCTypists
    Words <- MCWords
    Phrases <- MCPhrases
    Snapshots <- MCSnapshots
    Window = 1
    MaxTick = 2
    MaxCount = 2
SYMMETRY MCSymmetry
PROPERTIES OneDictionary RevertIsRecent QuietStepsKeepAll ClockGoesForward
