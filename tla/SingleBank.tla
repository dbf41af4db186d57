----------------------------- MODULE SingleBank -----------------------------
(***************************************************************************)
(* What a replicated bank promises to its clients: it behaves like one     *)
(* ledger per bank that never fails.  An update takes effect at once and   *)
(* at most once, for ever; whatever a client is told is what the ledger    *)
(* says at that moment.  Nothing is said of replicas, messages, numbers of *)
(* updates or crashes.                                                     *)
(***************************************************************************)
EXTENDS Bank, SequencesExt

CONSTANTS
    Updates,     \* the updates that clients and other banks may ask for
    MaxBatch     \* bound: updates that may take effect in one step

VARIABLES
    ledger,      \* the ledger of each bank
    answered     \* what clients have been told: requests with their replies

\* The ledger after one update.
Apply(l, req) ==
    LET u == update_request_reply(l, req)
    IN  IF u.check = "NEWREQ"
        THEN insert_processed_list(u.ledger, <<u.entry>>) ELSE u.ledger

\* The ledger after the updates of batch, one after the other.
ApplyAll(l, batch) ==
    LET after[i \in 0 .. Len(batch)] ==
            IF i = 0 THEN l ELSE Apply(after[i - 1], batch[i])
    IN  after[Len(batch)]

\* The answer that ledger l has for a request: for an update that has taken
\* effect the reply it was given then, for a query the balance.
Justified(l, e) ==
    IF e.req.type = "QUERY"
    THEN e.reply.balance = l.bal[e.req.acct]
    ELSE LET u == update_request_reply(l, e.req)
         IN  u.check # "NEWREQ" /\ u.entry.reply = e.reply

SingleInit ==
    /\ ledger = [b \in Banks |-> EmptyLedger]
    /\ answered = {}

\* Some updates of bank b take effect, and clients are told of the outcome of
\* these or earlier ones.
Step(b) ==
    /\ \E batch \in SeqOf(Updates, MaxBatch) :
            ledger' = [ledger EXCEPT ![b] = ApplyAll(@, batch)]
    /\ answered \subseteq answered'
    /\ \A e \in answered' \ answered :
            e.req.bank = b /\ Justified(ledger'[b], e)

SingleSpec == SingleInit /\ [][\E b \in Banks : Step(b)]_<<ledger, answered>>
=============================================================================
