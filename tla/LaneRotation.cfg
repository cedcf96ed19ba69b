SPECIFICATION RotationSpec
CONSTANTS
    Lanes = {"dsv41-tf4-ablit", "comfy-studio-4x", "glm53-gr8", "studio-2"}
    Unreachable = {"spark4"}
    MayFail = TRUE
    None = None
    Calls <- MCEndCall
INVARIANT TypeOK
PROPERTIES
    NoClobber
    PassMeansParked
    PassMeansUp
    PassLeavesFleetOnEnd
