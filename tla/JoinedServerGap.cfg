SPECIFICATION ExtensionSpec
CONSTANTS
    b1 = b1
    a1 = a1
    r1 = r1
    r2 = r2
    r3 = r3
    Banks = {b1}
    Accounts = {a1}
    ReqIds = {r1, r2, r3}
    NoBank = NoBank
    NoAccount = NoAccount
    Client = Client
    Master = Master
    NumServers = 3
    BankOf <- MCBankOf
    ClientUpdates <- MCUpdates
    ClientQueries = {}
    UninitializedFlag = {FALSE}
    Joiners = {3}
    Allowed = {"retry"}
    Crashable = {}
    MaxArrivals = 3
    MaxCrashes = 3
    MaxLosses = 0
INVARIANTS
    NoGapInUpdates
CHECK_DEADLOCK FALSE
