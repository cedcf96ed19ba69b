SPECIFICATION Spec
CONSTANTS
    Lanes = {"glm53-gr8", "glm53-tf2"}
    Unreachable = {"spark4"}
    MayFail = TRUE
    None = None
PROPERTY DownReallyStops
