SPECIFICATION FairClientSpec
CONSTANTS
    b1 = b1
    a1 = a1
    r1 = r1
    r2 = r2
    r3 = r3
    Banks = {b1}
    Accounts = {a1}
    ReqIds = {r1, r2, r3}
    NoBank = NoBank
    NoAccount = NoAccount
    Client = Client
    Master = Master
    NumServers = 2
    BankOf <- MCBankOf
    ClientUpdates <- MCUpdates
    ClientQueries <- MCQueries
    UninitializedFlag = {FALSE}
    Crashable <- MCServers
    MaxArrivals = 3
    MaxCrashes = 1
    request_vector <- MCRequests
    resend_num = 1
    resend_newhead = TRUE
    drop_interval = 2
    MaxReplies = 4
INVARIANTS
    ClientTypeOK
    SessionConsistent
PROPERTIES
    ClientFinishes
    ClientOfChain
CHECK_DEADLOCK FALSE
