------------------------------ MODULE MCClient ------------------------------
(* A bank with two servers, and a client that deposits, withdraws and asks.*)
EXTENDS ClientLoop

CONSTANTS b1, a1, r1, r2, r3

Req(id, type, amount) ==
    [id |-> id, type |-> type, bank |-> b1, acct |-> a1, amount |-> amount,
     dbank |-> NoBank, dacct |-> NoAccount, from |-> Client, seq |-> 0]

MCUpdates == {Req(r1, "DEPOSIT", 3), Req(r2, "WITHDRAW", 1)}
MCQueries == {Req(r3, "QUERY", 0)}

MCRequests ==
    <<Req(r1, "DEPOSIT", 3), Req(r2, "WITHDRAW", 1), Req(r3, "QUERY", 0)>>

\* What is proved of the balances that the client reads applies to it.
ASSUME MCPlainUpdates == PlainUpdates

MCBankOf == [s \in Servers |-> b1]
MCServers == Servers
=============================================================================
