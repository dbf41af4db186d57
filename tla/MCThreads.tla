----------------------------- MODULE MCThreads -----------------------------
(* One bank; one deposit, which the client may send again.                 *)
EXTENDS ServerThreads, ChainProperties

CONSTANTS b1, a1, r1

MCUpdates ==
    {[id |-> r1, type |-> "DEPOSIT", bank |-> b1, acct |-> a1, amount |-> 1,
      dbank |-> NoBank, dacct |-> NoAccount, from |-> Client, seq |-> 0]}

MCBankOf == [s \in Servers |-> b1]
=============================================================================
