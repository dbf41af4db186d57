------------------------ MODULE ExtensionProperties ------------------------
(***************************************************************************)
(* What a bank promises while a server joins its chain.                    *)
(***************************************************************************)
EXTENDS Extension, ChainProperties

\* The living servers of bank b that hold its state: all but a joiner that has
\* not been made tail by FIN.
Holders(b) == {s \in Living(b) : s \in Joiners => srv[s].istail}

\* A joiner that has handled FIN has the state of the old tail, including the
\* updates that were served while the state was copied piece by piece, and
\* from then on agrees with its predecessor like any other replica; whichever
\* tail crashed during the copy, and however often it was started again.
HoldersAgree ==
    \A b \in Banks : \A s, t \in Holders(b) :
        IsFirst(After(Holders(b), s), t) => Agrees(s, t)

\* What a client was told, by the old or the new tail, before, during or after
\* the extension, is known to every server that holds the bank's state.
HoldersKnowReplies ==
    \A e \in replies : \A s \in Holders(e.req.bank) : Remembers(s, e)

\* An account never holds more than the deposits that the clients have for it,
\* each counted once: "requests with same req_id and same request content only
\* update the balance once" (phase1/pseudo-code.txt).
CreditedAtMostOnce ==
    \A b \in Banks : \A s \in Holders(b) : \A a \in Accounts :
        LET credits == {r \in ClientUpdates : /\ r.bank = b /\ r.acct = a
                                             /\ ~Debits(r)}
            amount(r) == r.amount
        IN  srv[s].ledger.bal[a] <= MapThenSumSet(amount, credits)

\* Two servers of a bank act as tail only in the moment in which the old one,
\* holding its mutex, has sent FIN: it can no longer serve an update when the
\* new one begins to.
TailHandover ==
    \A s, t \in alive :
        (/\ s < t /\ BankOf[s] = BankOf[t]
         /\ srv[s].istail /\ srv[t].istail)
        => ~MutexFree(s)

\* No assertion of server.cc fails because of an extension: the tail that is
\* told to extend has an empty sent list (line 184), the joiner gets every
\* account once (line 695), and the next update that reaches it is the
\* successor of the last one it was sent (line 520).
ExtensionAssertionsHold == aborted = {}

\* The tail answers every query that a client sends to the server it takes for
\* the tail (line 490).
QueriesReachTails == \A a \in aborted : a[2] # "query at tail"

=============================================================================
