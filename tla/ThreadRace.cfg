SPECIFICATION ThreadsSpec
CONSTANTS
    b1 = b1
    a1 = a1
    r1 = r1
    Banks = {b1}
    Accounts = {a1}
    ReqIds = {r1}
    NoBank = NoBank
    NoAccount = NoAccount
    Client = Client
    Master = Master
    NumServers = 2
    BankOf <- MCBankOf
    ClientUpdates <- MCUpdates
    ClientQueries = {}
    UninitializedFlag = {FALSE}
    Crashable = {}
    MaxArrivals = 2
    MaxCrashes = 0
INVARIANTS
    AppliedOnce
CHECK_DEADLOCK FALSE
