SPECIFICATION Spec
CONSTANTS
    Ranks = {r1, r2}
    long = long
    short = short
    Requests = {long, short}
    PromptLength <- MCPromptLength
    Sentinels <- MCSentinels
    NumLayers = 2
    MaxNgram = 3
    MaxTokens = 3
    MaxDrafts = 1
    Pad = Pad
    NoToken = NoToken
    MaxPrompt = 3
    MaxSteps = 3
SYMMETRY RankSymmetry
INVARIANTS
    ForwardReadsItsRows
    HistoryIsExact
    PaddingStaysFinite
PROPERTIES
    KeepsSerialOrder
