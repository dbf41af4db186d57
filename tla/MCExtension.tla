---------------------------- MODULE MCExtension ----------------------------
(* One bank whose last server joins late.                                  *)
EXTENDS ExtensionProperties

CONSTANTS b1, a1, r1, r2, r3

Update(id, type, amount) ==
    [id |-> id, type |-> type, bank |-> b1, acct |-> a1, amount |-> amount,
     dbank |-> NoBank, dacct |-> NoAccount, from |-> Client, seq |-> 0]

MCUpdates ==
    {Update(r1, "DEPOSIT", 2), Update(r2, "WITHDRAW", 1)}

MCQueries == {Update(r3, "QUERY", 0)}

MCBankOf == [s \in Servers |-> b1]
=============================================================================
