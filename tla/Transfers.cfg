SPECIFICATION FairSpec
CONSTANTS
    b1 = b1
    b2 = b2
    a1 = a1
    r1 = r1
    r2 = r2
    Banks = {b1, b2}
    Accounts = {a1}
    ReqIds = {r1, r2}
    NoBank = NoBank
    NoAccount = NoAccount
    Client = Client
    Master = Master
    NumServers = 4
    BankOf <- MCBankOf
    ClientUpdates <- MCUpdates
    ClientQueries = {}
    UninitializedFlag = {FALSE}
    Crashable = {1, 3, 4}
    MaxArrivals = 3
    MaxCrashes = 2
INVARIANTS
    CreditIsBacked
    RepliedTransfersAreCredited
    MoneyConserved
PROPERTIES
    TransfersComplete
    SingleCopy
    AnsweredWhileTailsLive
CHECK_DEADLOCK FALSE
