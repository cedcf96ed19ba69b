SPECIFICATION Spec
CONSTANTS
    Lanes = {"glm53-tp3", "dsv41-tf2"}
    Unreachable = {}
    MayFail = TRUE
    None = None
PROPERTY NoClobber
