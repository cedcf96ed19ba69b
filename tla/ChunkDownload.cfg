SPECIFICATION FairSpec
CONSTANTS
    Chunks = {c1, c2}
    MaxRounds = 2
    MaxKills = 2
INVARIANTS
    TypeOK
    OkMeansVerified
PROPERTIES
    NamedIsVerified
    VerifiedIsKept
    BankedIsKept
    ResumesToDone
