-------------------------- MODULE ChainProperties --------------------------
(***************************************************************************)
(* What the replicated bank promises, in terms of the living servers of    *)
(* each bank.                                                              *)
(***************************************************************************)
EXTENDS Chain, FiniteSetsExt

-----------------------------------------------------------------------------
(* Safety.                                                                 *)

\* Replay at ledger l the updates of the entries es, the way an internal
\* server applies them.
Replay(l, es) ==
    LET after[i \in 0 .. Len(es)] ==
            IF i = 0 THEN l
            ELSE LET u == update_request_reply(after[i - 1], es[i].req)
                 IN  insert_sent_list(u.ledger, u.entry)
    IN  after[Len(es)]

\* If server t applied what it has not seen yet of the updates of s, it would
\* hold the same balances, and answer every retry with the same reply, as s.
Agrees(s, t) ==
    LET then == Replay(srv[t].ledger, Missing(s, t))
    IN  /\ then.bal = srv[s].ledger.bal
        /\ \A id \in ReqIds, a \in Accounts :
                Answer([ledger |-> then], id, a) = Answer(srv[s], id, a)

\* Replicas agree: the next living server of a chain differs from its
\* predecessor only by the updates that are still on their way to it.
ReplicasAgree == \A s, t \in alive : Adjacent(s, t) => Agrees(s, t)

\* The entries of P for updates of account a that were carried out.
Effective(P, a) ==
    {e \in P : e.req.acct = a /\ e.reply.outcome = "PROCESSED"}

Gain(req) == IF Debits(req) THEN -req.amount ELSE req.amount

\* What the updates of the entries K add to the balance, by the ids of these.
Gains(K) ==
    [k \in {e.req.id : e \in K} |-> Gain((CHOOSE e \in K : e.req.id = k).req)]

\* The balances of server s are those that its history accounts for.
BalancesFromHistory(s) ==
    LET l == srv[s].ledger
        history == l.processed \cup {l.sent[i] : i \in DOMAIN l.sent}
    IN  \A a \in Accounts : l.bal[a] = SumFunction(Gains(Effective(history, a)))

\* Every balance is what the history accounts for: each update with an own id
\* that was answered PROCESSED is in it exactly once, however often it was
\* retried, forwarded again after a crash, or re-sent by an upstream tail.
AppliedOnce == \A s \in alive : BalancesFromHistory(s)

-----------------------------------------------------------------------------
(* Refinement.  The ledger of a bank is the one of its last living server, *)
(* with the updates that wait for an acknowledgement counted as processed; *)
(* the crash of a tail moves it forward by all that the next one has.      *)

\* A request without its number and the address of the sender.
Bare(req) == [req EXCEPT !.seq = 0, !.from = Client]

Plain(e) == [e EXCEPT !.req = Bare(@)]

\* An account that only a query has created is as good as none.
PlainLedger(l) ==
    LET done == {Plain(e) : e \in insert_processed_list(l, l.sent).processed}
    IN  [accts |-> {e.req.acct : e \in done}, bal |-> l.bal,
         processed |-> done, sent |-> <<>>]

LastServer(b) == CHOOSE s \in alive : IsLast(Living(b), s)

BankLedger == [b \in Banks |-> PlainLedger(srv[LastServer(b)].ledger)]

Answered == {Plain(e) : e \in replies}

\* The updates a bank can be asked for, those of other banks' transfers too.
BankUpdates ==
    ClientUpdates \cup
    {[transfer_to(InitialHead(r.bank), r) EXCEPT !.from = Client] :
        r \in {r \in ClientUpdates : r.type = "TRANSFER"}}

Single == INSTANCE SingleBank WITH
    ledger <- BankLedger, answered <- Answered, Updates <- BankUpdates,
    MaxBatch <- MaxArrivals

\* A chain of servers that crash, in any order and number but the last one,
\* is to its clients one bank that does not: every update takes effect at one
\* moment and once, and no update that was answered is lost.
SingleCopy == Single!SingleSpec

-----------------------------------------------------------------------------
(* Transfers.                                                              *)

Transfers == {r \in ClientUpdates : r.type = "TRANSFER"}

Processed(st, id, acct) ==
    \E p \in Answer(st, id, acct) : p.outcome = "PROCESSED"

\* Server s has performed its bank's half of the transfer r.
Performed(s, r) ==
    \/ BankOf[s] = r.bank /\ Processed(srv[s], r.id, r.acct)
    \/ BankOf[s] = r.dbank /\ Processed(srv[s], r.id, r.dacct)

\* A transfer is credited by a server of the destination bank only if it has
\* been deducted by every living server of the source bank: money is never
\* created, whatever crashes ("The transfer requests which come out with the
\* result of InsufficientFunds or InconsistentWithHistory at the source chain
\* will not be sent to the destination chain", phase1/pseudo-code.txt).
CreditIsBacked ==
    \A r \in Transfers : \A t \in Living(r.dbank) : Performed(t, r) =>
        \A s \in Living(r.bank) : Performed(s, r)

\* A client is told that a transfer was processed only when every living server
\* of the destination bank has performed its half.
RepliedTransfersAreCredited ==
    \A e \in replies :
        (e.req.type = "TRANSFER" /\ e.reply.outcome = "PROCESSED") =>
            \A t \in Living(e.req.dbank) : Performed(t, e.req)

\* Nothing is in flight: every message is handled, every crash is repaired and
\* no tail waits for the answer to a transfer.
Settled ==
    /\ \A p \in Processes : tcp[p] = <<>> /\ sending[p] = <<>>
    /\ \A b \in Banks : chain[b] = Living(b)
    /\ \A s \in alive : srv[s].istail => srv[s].ledger.sent = <<>>

\* Transfers move money and neither create nor lose it (project.txt, phase 1):
\* once nothing is in flight, the tails hold together exactly what was deposited
\* and not withdrawn.
MoneyConserved ==
    Settled =>
        LET tails == {s \in alive : srv[s].istail}
            wealth(s) == MapThenSumSet(LAMBDA a : srv[s].ledger.bal[a], Accounts)
            done == {r \in ClientUpdates : \E s \in tails :
                        /\ BankOf[s] = r.bank
                        /\ Processed(srv[s], r.id, r.acct)}
            gain(r) == CASE r.type = "DEPOSIT" -> r.amount
                         [] r.type = "WITHDRAW" -> -r.amount
                         [] OTHER -> 0
        IN  MapThenSumSet(wealth, tails) = MapThenSumSet(gain, done)

-----------------------------------------------------------------------------
(* Liveness.                                                               *)

\* A bank is whole when its first living server acts as head, its last one as
\* tail, and all have applied the same updates.
Whole(b) ==
    /\ \A s \in Living(b) : /\ IsFirst(Living(b), s) => srv[s].ishead
                            /\ IsLast(Living(b), s) => srv[s].istail
    /\ \A s, t \in Living(b) : srv[s].bank_update_seq = srv[t].bank_update_seq

\* Once crashes and client updates have stopped, every chain is repaired and
\* its replicas converge.
ChainsRecover == <>[](\A b \in Banks : Whole(b))

\* "If a transfer is performed by any living server of either bank, then
\* eventually all living servers for both involved banks perform the transfer"
\* unless that server crashes (project.txt): once crashes and client updates
\* have stopped, a transfer is performed by all of them or by none.
TransfersComplete ==
    <>[](\A r \in Transfers :
            LET both == Living(r.bank) \cup Living(r.dbank)
            IN  (\E s \in both : Performed(s, r)) => \A t \in both : Performed(t, r))

\* A tail does not wait for ever for the answer to a transfer: the client gets
\* its reply, and the updates behind the transfer are acknowledged.
NoTailWaits(b) == \A s \in Living(b) : srv[s].istail => srv[s].ledger.sent = <<>>

TransfersAreAnswered == <>[](\A b \in Banks : NoTailWaits(b))

\* As long as no tail crashes, every transfer is answered in the end, whichever
\* heads crash while it, or its answer, is on its way.
AnsweredWhileTailsLive ==
    <>[](\A b \in Banks : NoTailWaits(b) \/ \E c \in Banks : InitialTail(c) \notin alive)
=============================================================================
