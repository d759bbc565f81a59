SPECIFICATION FairSpec
CONSTANTS
    n1 = n1
    n2 = n2
    seed1 = seed1
    seed2 = seed2
    home = home
    moved = moved
    Networks <- MCNetworks
    Local = {}
    Mnemonics <- MCMnemonics
    Domains <- MCDomains
    Environments <- MCEnvironments
    MaxEdits = 1
    Unlimited = 9
    Accounts <- MCAccounts
    OtherProfiles <- MCOtherProfiles
    Requests <- MCRequests
    Answers <- MCAnswers
    Bonds <- MCBonds
    BlockTimes <- MCBlockTimes
    Day = 1
    Month = 2
    MinRewrap = 2
    MinMaxRes = 2
    MaxRetries = 0
    CallFaults = {"fails", "lost", "closed"}
    MaxRuns = 1
    Starts <- MCStarts
    MaxFaults = 1
INVARIANTS
    TypeOK
    ConsentedApproval
    SuccessSettled
    RoundsBounded
    UpdateKeepsTheRest
    ServedWithProfile
PROPERTIES
    EveryCommandEnds
    CommandsWindDown
    AllServed
CHECK_DEADLOCK FALSE
