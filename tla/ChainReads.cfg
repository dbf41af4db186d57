SPECIFICATION Spec
CONSTANTS
    b1 = b1
    a1 = a1
    r1 = r1
    r2 = r2
    r3 = r3
    Banks = {b1}
    Accounts = {a1}
    ReqIds = {r1, r2, r3}
    NoBank = NoBank
    NoAccount = NoAccount
    Client = Client
    Master = Master
    NumServers = 4
    BankOf <- MCBankOf
    ClientUpdates <- MCReadUpdates
    ClientQueries <- MCQueries
    UninitializedFlag = {FALSE}
    Crashable <- MCServers
    MaxArrivals = 2
    MaxCrashes = 3
INVARIANTS
    MasterKnowsEnds
    ReplicasAgree
    RepliesAreDurable
    NoGapInUpdates
    ReadsAgree
PROPERTIES
    ReadsAreCurrent
    OnlyNewTailsMissQueries
CHECK_DEADLOCK FALSE
