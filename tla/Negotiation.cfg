SPECIFICATION FairSpec
CONSTANTS
    e1 = e1
    e2 = e2
    garbage = garbage
    Embalmers <- TwoEmbalmers
    Profiles <- SmallProfiles
    Proposals <- SmallProposals
    Garbage = garbage
    Ether = 2
    Second = 2
    Drift = 1
    Skew = 1
    PageSize = 1
    Faults <- AllFaults
    Refetch = TRUE
    MaxVersions = 2
    MaxSarcos = 2
    MaxNow = 1
    MaxMessages = 2
INVARIANTS
    TypeOK
    SignedSinceStart
    FreshAgainstIndex
    KeyWithinReach
    NotSignedAhead
PROPERTIES
    EveryMessageAnswered
