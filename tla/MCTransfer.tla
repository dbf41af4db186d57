----------------------------- MODULE MCTransfer -----------------------------
(* Two banks of two servers each; bank b1 transfers to bank b2.            *)
EXTENDS ChainProperties

CONSTANTS b1, b2, a1, r1, r2

Update(id, type, dbank, dacct) ==
    [id |-> id, type |-> type, bank |-> b1, acct |-> a1, amount |-> 1,
     dbank |-> dbank, dacct |-> dacct, from |-> Client, seq |-> 0]

\* A deposit, and a transfer that it covers twice.
MCUpdates ==
    {[Update(r1, "DEPOSIT", NoBank, NoAccount) EXCEPT !.amount = 2],
     Update(r2, "TRANSFER", b2, a1)}

MCBankOf == [s \in Servers |-> IF s <= 2 THEN b1 ELSE b2]
=============================================================================
