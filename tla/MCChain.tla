------------------------------ MODULE MCChain ------------------------------
(* One bank: a chain of servers under crashes.                             *)
EXTENDS ChainProperties

CONSTANTS b1, a1, r1, r2, r3

Update(id, type, amount) ==
    [id |-> id, type |-> type, bank |-> b1, acct |-> a1, amount |-> amount,
     dbank |-> NoBank, dacct |-> NoAccount, from |-> Client, seq |-> 0]

\* A deposit, the same id with another amount, and a withdrawal that the
\* deposit covers and an empty account does not.
MCUpdates ==
    {Update(r1, "DEPOSIT", 2), Update(r1, "DEPOSIT", 1),
     Update(r2, "WITHDRAW", 1)}

\* Two updates that do not conflict.
MCReadUpdates == {Update(r1, "DEPOSIT", 2), Update(r2, "WITHDRAW", 1)}

MCQueries == {Update(r3, "QUERY", 0)}

\* The proofs about replies apply to these clients.
ASSUME MCPlainUpdates == PlainUpdates

MCBankOf == [s \in Servers |-> b1]
MCServers == Servers
=============================================================================
