SPECIFICATION FairSpec
CONSTANTS
    Chunks = {c1}
    MaxRounds = 1
    MaxKills = 0
PROPERTY RerunRecovers
