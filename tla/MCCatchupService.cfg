SPECIFICATION Spec
CONSTANTS
    kai = kai
    eva = eva
    main = main
    background = background
    Agents = {kai, eva}
    Settings <- MCSettings
    AgentOf <- MCAgentOf
    Background = {background}
    NoHash = NoHash
    Sessions = {main, background}
    Hashes = {h1, h2}
    Reasons = {"turn"}
    MaxInflight = 2
    MaxGeneration = 3
    Posts <- MCPosts
SYMMETRY HashSymmetry
INVARIANTS
    TypeOK
    NoIdleSlot
    QueueHoldsLatest
    WarmingHasWork
    AbortReachesSocket
    SlotsAccounted
    GreenIsCurrent
    NeverStale
PROPERTIES
    KeepsLedger
