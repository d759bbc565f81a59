SPECIFICATION Spec
CONSTANTS
    e1 = e1
    e2 = e2
    garbage = garbage
    Embalmers <- OneEmbalmer
    Profiles <- SmallProfiles
    Proposals <- SmallProposals
    Garbage = garbage
    Ether = 2
    Second = 2
    Drift = 1
    Skew = 1
    PageSize = 1
    Faults <- NoFaults
    Refetch = FALSE
    MaxVersions = 2
    MaxSarcos = 2
    MaxNow = 1
    MaxMessages = 1
INVARIANT SignedFeesSuffice
