SPECIFICATION Spec
CONSTANTS
    None = None
    Scenarios <- AllScenarios
    InvalidNames <- NoShareNames
    InvalidPrefixes <- NoPrefixes
    InvalidTags <- NoTags
    Accounts = {"a1", "a2", "a3"}
    Existing <- ExistingAccounts
    DriverRG <- RG
    DriverSub <- Sub
    Suffix = "net"
    VHDFeature = TRUE
    Subscriptions = {"sub1", "sub2"}
    Numbers <- NumberTexts
    StaticIDs <- IDs
    MaxCalls = 2
    MaxFaults = 2
INVARIANTS
    IInv
    NodeMountsWhatWasMade
    RetryDecidesTheSame
    AnswerFits
\* The calls are bounded.
CHECK_DEADLOCK FALSE
