SPECIFICATION FairRotationSpec
CONSTANTS
    Lanes = {"dsv41-tf4-ablit", "comfy-studio-4x", "glm53-tp3", "comfy-engine", "glm53-tf2"}
    Unreachable = {}
    MayFail = FALSE
    None = None
    Calls <- MCCalls
PROPERTIES
    RotateEndsUp
    RotationPasses
