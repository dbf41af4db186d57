SPECIFICATION FairExtensionSpec
CONSTANTS
    b1 = b1
    a1 = a1
    r1 = r1
    r2 = r2
    r3 = r3
    Banks = {b1}
    Accounts = {a1}
    ReqIds = {r1, r2, r3}
    NoBank = NoBank
    NoAccount = NoAccount
    Client = Client
    Master = Master
    NumServers = 4
    BankOf <- MCBankOf
    ClientUpdates <- MCUpdates
    ClientQueries = {}
    UninitializedFlag = {FALSE}
    Joiners = {4}
    Allowed = {}
    Crashable = {1, 2, 3, 4}
    MaxArrivals = 2
    MaxCrashes = 4
    MaxLosses = 2
INVARIANTS
    ExtensionTypeOK
    ExtensionAssertionsHold
    HoldersAgree
    HoldersKnowReplies
    TailHandover

    
CHECK_DEADLOCK FALSE
