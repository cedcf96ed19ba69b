SPECIFICATION AbortSpec
CONSTANTS
    kai = kai
    eva = eva
    main = main
    background = background
    Agents = {kai, eva}
    Settings <- MCAllSettings
    AgentOf <- MCAgentOf
    Background = {background}
    NoHash = NoHash
    Sessions = {main, background}
    Hashes = {h1}
    Reasons = {"turn"}
    MaxInflight = 1
    MaxGeneration = 2
    Posts <- MCPosts
INVARIANTS
    SwitchEnforced
PROPERTIES
    ReenabledOnlyByAdmin
    AbortFreesSlot
    OffDrains
    WarmingSettles
    PolicyConverges
