-------------------------- MODULE RefinementProofs --------------------------
(***************************************************************************)
(* The replicas of a bank agree, and a chain of servers that crash is to   *)
(* its clients one bank that does not.  The banks' clients send no         *)
(* transfers here, and use an id for one account only.                     *)
(*                                                                         *)
(* All follows from the log of HistoryProofs.  Two neighbours are at two   *)
(* places of it, and what the later one lacks is the part between them.    *)
(* The ledger of the bank is the one at the place of the last living       *)
(* server; a step moves this place forward, by one update when the last    *)
(* server applies one, by all that the next one has when it crashes.  And  *)
(* every ledger of the log holds the sum of its updates.                   *)
(***************************************************************************)
EXTENDS HistoryProofs, ChainProperties

-----------------------------------------------------------------------------
(* Induction up to n, on a set of numbers.                                 *)

LEMMA Climb ==
    ASSUME NEW n \in Nat, NEW S, 0 \in S,
           \A i \in 1 .. n : i - 1 \in S => i \in S
    PROVE  \A i \in 0 .. n : i \in S
PROOF
<1> DEFINE B == {i \in 0 .. n : i \notin S}
<1> SUFFICES ASSUME B # {} PROVE FALSE
  OBVIOUS
<1>1. B \in SUBSET Nat
  OBVIOUS
<1>2. PICK i \in B : \A j \in B : <<j, i>> \notin OpToRel(<, Nat)
  BY <1>1, NatLessThanWellFounded, WFMin
<1>3. \A j \in B : ~(j < i)
  BY <1>1, <1>2 DEF OpToRel
<1>4. i \in 1 .. n /\ i - 1 \in 0 .. n /\ i - 1 < i
  <2>1. i \in 0 .. n /\ i # 0
    BY <1>2
  <2> QED
    BY <2>1
<1>5. i - 1 \in S
  BY <1>3, <1>4
<1> QED
  BY <1>2, <1>4, <1>5

-----------------------------------------------------------------------------
(* Replicas agree.                                                         *)

\* The ledgers of a replay: each follows from the one before.
LEMMA ReplayRun ==
    ASSUME NEW l, NEW es, Len(es) \in Nat
    PROVE  \E run :
             /\ Replay(l, es) = run[Len(es)]
             /\ run[0] = l
             /\ \A i \in 1 .. Len(es) :
                    LET u == update_request_reply(run[i - 1], es[i].req)
                    IN  run[i] = insert_sent_list(u.ledger, u.entry)
PROOF
<1> DEFINE n == Len(es)
           next(k, e) == LET u == update_request_reply(k, e.req)
                         IN  insert_sent_list(u.ledger, u.entry)
           Is(f, m) == f = [i \in 0 .. m |->
                                IF i = 0 THEN l ELSE next(f[i - 1], es[i])]
           S == {m \in 0 .. n : \E f : Is(f, m)}
<1>1. n \in Nat
  OBVIOUS
<1>2. 0 \in S
  <2>1. Is([i \in 0 .. 0 |-> l], 0)
    <3> HIDE DEF next
    <3> QED
      OBVIOUS
  <2> HIDE DEF Is
  <2> QED
    BY <1>1, <2>1
<1>3. ASSUME NEW m \in 1 .. n, m - 1 \in S PROVE m \in S
  <2>1. PICK f : Is(f, m - 1)
    BY <1>3
  <2> DEFINE g == [i \in 0 .. m |-> IF i = m THEN next(f[m - 1], es[m]) ELSE f[i]]
  <2>2. Is(g, m)
    <3> HIDE DEF next
    <3> QED
      BY <1>1, <2>1
  <2> HIDE DEF g, Is
  <2> QED
    BY <2>2
<1>4. \E f : Is(f, n)
  <2>1. \A i \in 0 .. n : i \in S
    <3> HIDE DEF S, n
    <3> QED
      BY <1>1, <1>2, <1>3, Climb
  <2> QED
    BY <1>1, <2>1
<1> DEFINE run == CHOOSE f : Is(f, n)
<1>5. Is(run, n)
  <2> HIDE DEF Is
  <2> QED
    BY <1>4
<1>6. Replay(l, es) = run[n]
  BY DEF Replay
<1>7. run[0] = l /\ \A i \in 1 .. n : run[i] = next(run[i - 1], es[i])
  <2> HIDE DEF next, run
  <2> QED
    BY <1>1, <1>5
<1> HIDE DEF run
<1> QED
  BY <1>6, <1>7

\* Replaying the updates of a log moves a ledger from one place of the log to
\* another.
LEMMA ReplayMoves ==
    ASSUME PlainUpdates, NEW b, NEW log \in Logs, GoodLog(b, log),
           NEW l \in Ledger, Tidy(b, l), NEW m \in Nat, Canon(l) = log.led[m],
           NEW es \in Seq(Entry), m + Len(es) <= log.top,
           \A i \in DOMAIN es : es[i].req = log.req[m + i],
           NEW k, k = Replay(l, es)
    PROVE  k \in Ledger /\ Canon(k) = log.led[m + Len(es)]
PROOF
<1> DEFINE n == Len(es)
<1>1. n \in Nat /\ DOMAIN es = 1 .. n
  OBVIOUS
<1>2. PICK run : /\ k = run[n] /\ run[0] = l
                 /\ \A i \in 1 .. n :
                        LET u == update_request_reply(run[i - 1], es[i].req)
                        IN  run[i] = insert_sent_list(u.ledger, u.entry)
  BY <1>1, ReplayRun
<1> DEFINE S == {i \in 0 .. n : /\ run[i] \in Ledger /\ Tidy(b, run[i])
                                /\ Canon(run[i]) = log.led[m + i]}
<1>3. 0 \in S
  BY <1>1, <1>2
<1>4. ASSUME NEW i \in 1 .. n, i - 1 \in S PROVE i \in S
  <2> DEFINE j == i - 1
             u == update_request_reply(run[j], es[i].req)
  <2>1. PICK p : p = m + i
    OBVIOUS
  <2>2. p \in 1 .. log.top /\ m + j = p - 1
    BY <1>1, <2>1, LogFields
  <2>3. run[j] \in Ledger /\ Tidy(b, run[j]) /\ Canon(run[j]) = log.led[p - 1]
    BY <1>4, <2>2
  <2>4. /\ Ours(b, es[i].req) /\ es[i].req = log.req[p]
        /\ log.led[p] = Moved(log.led[p - 1], log.req[p])
    <3>1. es[i].req = log.req[p]
      BY <1>1, <2>1
    <3> QED
      BY <2>2, <3>1 DEF GoodLog
  <2>5. run[i] = insert_sent_list(u.ledger, u.entry)
    BY <1>2
  <2>6. Canon(run[i]) = Moved(Canon(run[j]), es[i].req) /\ Tidy(b, run[i])
    BY <2>3, <2>4, <2>5, ForwardMoves
  <2>7. u.ledger \in Ledger /\ u.entry \in Entry
    BY <2>3, <2>4, AppliedUpdate
  <2>8. run[i] \in Ledger
    BY <2>5, <2>7, Filing
  <2> QED
    BY <2>1, <2>3, <2>4, <2>6, <2>8
<1>5. n \in S
  <2>1. \A i \in 0 .. n : i \in S
    <3> HIDE DEF S, n
    <3> QED
      BY <1>1, <1>3, <1>4, Climb
  <2> QED
    BY <1>1, <2>1
<1> QED
  BY <1>2, <1>5

\* What a server lacks of the updates of the one before it are those that
\* follow in the log.
LEMMA MissingInLog ==
    ASSUME IInv, RolesInv, SeqInv, NEW b \in Banks, NEW log \in Logs,
           Logged(b, log), NEW s, NEW t, Adjacent(s, t), BankOf[s] = b,
           NEW m, m = srv[t].bank_update_seq, NEW es, es = Missing(s, t)
    PROVE  /\ es \in Seq(Entry) /\ m \in Nat
           /\ m + Len(es) = srv[s].bank_update_seq
           /\ \A i \in DOMAIN es : es[i].req = log.req[m + i]
PROOF
<1> DEFINE sent == srv[s].ledger.sent
           K == {i \in DOMAIN sent : sent[i].req.seq > m}
<1>1. /\ s \in alive /\ t \in alive /\ s \in Servers /\ t \in Servers
      /\ srv[s] \in ServerState /\ srv[t] \in ServerState
  BY DEF Adjacent, IInv, TypeOK
<1>2. sent \in Seq(Entry) /\ m \in Nat /\ srv[s].bank_update_seq \in Nat
  BY <1>1, LedgerFields DEF ServerState
<1>3. es = Pick(sent, K)
  BY DEF Missing
<1>4. /\ es \in Seq(Entry)
      /\ \A k \in DOMAIN es : \E i \in K : es[k] = sent[i]
  <2>1. K \in SUBSET DOMAIN sent
    OBVIOUS
  <2> HIDE DEF sent, K
  <2> QED
    BY <1>2, <1>3, <2>1, PickType
<1>5. StateInLog(b, log, srv[s])
  BY <1>1 DEF Logged, Living
<1>6. PICK d : d = srv[s].bank_update_seq - m
  OBVIOUS
<1>7. /\ m <= srv[s].bank_update_seq
      /\ [i \in DOMAIN es |-> es[i].req.seq] = [i \in 1 .. d |-> m + i]
  BY <1>1, <1>6, SeqInprocess DEF InprocessRequests
<1>8. DOMAIN es = 1 .. d /\ \A i \in DOMAIN es : es[i].req.seq = m + i
  <2>1. PICK f : f = [i \in DOMAIN es |-> es[i].req.seq]
    OBVIOUS
  <2>2. f = [i \in 1 .. d |-> m + i]
    BY <1>7, <2>1
  <2>3. DOMAIN f = DOMAIN es /\ DOMAIN f = 1 .. d
    BY <2>1, <2>2
  <2> QED
    BY <2>1, <2>2, <2>3
<1>9. Len(es) = d
  BY <1>2, <1>4, <1>6, <1>7, <1>8
<1>10. ASSUME NEW i \in DOMAIN es PROVE es[i].req = log.req[m + i]
  <2>1. PICK j \in DOMAIN sent : es[i] = sent[j]
    BY <1>4
  <2>2. InLog(log, es[i].req)
    BY <1>5, <2>1 DEF StateInLog
  <2> QED
    BY <1>8, <2>2 DEF InLog
<1> QED
  BY <1>2, <1>4, <1>6, <1>7, <1>9, <1>10

\* An update that the memory does not have gets no answer from it.
LEMMA NoAnswer ==
    ASSUME NEW st, NEW l \in Ledger, l = st.ledger, NEW r,
           \A f \in Memory(l) : ~SameKey(f.req, r)
    PROVE  Answer(st, r.id, r.acct) = {}
PROOF
<1> DEFINE q == l.sent
           done == {e \in l.processed : SameKey(e.req, r)}
           first == {i \in DOMAIN q : /\ SameKey(q[i].req, r)
                                      /\ \A j \in 1 .. (i - 1) : ~SameKey(q[j].req, r)}
           fromSent == {q[i].reply : i \in first}
<1>1. Answer(st, r.id, r.acct) =
            IF done # {} THEN {e.reply : e \in done} ELSE fromSent
  BY Zenon DEF Answer, SameKey
<1>2. done = {}
  BY DEF Memory
<1>3. first = {}
  <2> SUFFICES ASSUME NEW i \in DOMAIN q, SameKey(q[i].req, r) PROVE FALSE
    OBVIOUS
  <2>1. PICK e \in Memory(l) : SameKey(e.req, q[i].req)
    BY KeyInMemory
  <2> QED
    BY <2>1 DEF SameKey
<1>4. fromSent = {}
  BY <1>3
<1> HIDE DEF done, fromSent
<1> QED
  BY <1>1, <1>2, <1>4

\* Ledgers with the same memory give the same answers.
LEMMA SameAnswers ==
    ASSUME NEW p, NEW q, NEW k \in Ledger, NEW l \in Ledger, k = p.ledger,
           l = q.ledger, Memory(k) = Memory(l), Unique(Memory(l)),
           NEW id, NEW acct
    PROVE  Answer(p, id, acct) = Answer(q, id, acct)
PROOF
<1>1. PICK r : r.id = id /\ r.acct = acct
  <2>1. PICK r : r = [id |-> id, acct |-> acct]
    OBVIOUS
  <2> QED
    BY <2>1
<1>2. CASE \E f \in Memory(l) : SameKey(f.req, r)
  <2>1. PICK f \in Memory(l) : SameKey(f.req, r)
    BY <1>2
  <2>2. Answer(p, r.id, r.acct) = {f.reply}
    BY <2>1, AnswerOfMemory
  <2>3. Answer(q, r.id, r.acct) = {f.reply}
    BY <2>1, AnswerOfMemory
  <2> QED
    BY <1>1, <2>2, <2>3
<1>3. CASE \A f \in Memory(l) : ~SameKey(f.req, r)
  <2>1. Answer(p, r.id, r.acct) = {}
    BY <1>3, NoAnswer
  <2>2. Answer(q, r.id, r.acct) = {}
    BY <1>3, NoAnswer
  <2> QED
    BY <1>1, <2>1, <2>2
<1> QED
  BY <1>2, <1>3

LEMMA HistoryAgrees ==
    ASSUME PlainUpdates, IInv, RolesInv, SeqInv, HistoryInv
    PROVE  ReplicasAgree
PROOF
<1> SUFFICES ASSUME NEW s \in alive, NEW t \in alive, Adjacent(s, t)
             PROVE  Agrees(s, t)
  BY DEF ReplicasAgree
<1> DEFINE b == BankOf[s]
           es == Missing(s, t)
           m == srv[t].bank_update_seq
           then == Replay(srv[t].ledger, es)
<1>1. /\ b \in Banks /\ srv[s] \in ServerState /\ srv[t] \in ServerState
      /\ s \in Living(b) /\ t \in Living(b)
  BY ChainAssumption DEF IInv, TypeOK, Adjacent, IsFirst, After, Living
<1>2. PICK log \in Logs : Logged(b, log)
  BY <1>1 DEF HistoryInv
<1>3. GoodLog(b, log) /\ StateInLog(b, log, srv[s]) /\ StateInLog(b, log, srv[t])
  BY <1>1, <1>2 DEF Logged
<1>4. /\ es \in Seq(Entry) /\ m \in Nat
      /\ m + Len(es) = srv[s].bank_update_seq
      /\ \A i \in DOMAIN es : es[i].req = log.req[m + i]
  BY <1>1, <1>2, MissingInLog
<1>5. /\ srv[t].ledger \in Ledger /\ Tidy(b, srv[t].ledger)
      /\ Canon(srv[t].ledger) = log.led[m] /\ m + Len(es) <= log.top
  BY <1>1, <1>3, <1>4 DEF StateInLog, ServerState
<1>6. then \in Ledger /\ Canon(then) = log.led[m + Len(es)]
  <2> HIDE DEF es, m, b
  <2> QED
    BY <1>3, <1>4, <1>5, ReplayMoves
<1>7. /\ srv[s].ledger \in Ledger /\ Canon(srv[s].ledger) = Canon(then)
      /\ Unique(Memory(srv[s].ledger))
  <2>1. PICK n, k : n = srv[s].bank_update_seq /\ k = log.led[n]
    OBVIOUS
  <2>2. /\ srv[s].ledger \in Ledger /\ k = Canon(srv[s].ledger)
        /\ k.processed = Memory(srv[s].ledger) /\ Unique(k.processed)
    BY <1>1, <1>3, <2>1, StateLedger
  <2> QED
    BY <1>4, <1>6, <2>1, <2>2
<1>8. then.bal = srv[s].ledger.bal /\ Memory(then) = Memory(srv[s].ledger)
  <2>1. /\ Canon(then).bal = then.bal
        /\ Canon(srv[s].ledger).bal = srv[s].ledger.bal
        /\ Canon(then).processed = Memory(then)
        /\ Canon(srv[s].ledger).processed = Memory(srv[s].ledger)
    BY DEF Canon
  <2> QED
    BY <1>7, <2>1
<1>9. ASSUME NEW id, NEW a
      PROVE  Answer([ledger |-> then], id, a) = Answer(srv[s], id, a)
  <2> HIDE DEF then
  <2> QED
    BY <1>6, <1>7, <1>8, SameAnswers
<1> QED
  BY <1>8, <1>9 DEF Agrees

\* Two neighbours of a chain, at any moment and after any crashes, differ only
\* by updates that wait in the sent_list_ of the first: if the second applied
\* them, it would hold the same balances and answer every retry alike.
THEOREM ReplicasConverge ==
    ASSUME PlainUpdates PROVE Spec => []ReplicasAgree
PROOF
<1>1. IInv /\ RolesInv /\ SeqInv /\ PlainInv /\ HistoryInv => ReplicasAgree
  BY HistoryAgrees
<1> QED
  BY <1>1, HistoryInvariant, PTL

-----------------------------------------------------------------------------
(* The ledger of the abstract bank.  It has the balances and the memory of *)
(* a canonical ledger, and treats an update as that one does.              *)

\* The abstract bank computes with the operators of Bank.
LEMMA SameOperators ==
    /\ Single!EmptyLedger = EmptyLedger
    /\ \A l, req : Single!update_request_reply(l, req) = update_request_reply(l, req)
    /\ \A l, es : Single!insert_processed_list(l, es) = insert_processed_list(l, es)
PROOF
<1>1. Single!EmptyLedger = EmptyLedger
  BY DEF Single!EmptyLedger, EmptyLedger
<1>2. ASSUME NEW l, NEW req
      PROVE  Single!update_request_reply(l, req) = update_request_reply(l, req)
  BY DEF Single!update_request_reply, update_request_reply,
         Single!check_update_request, check_update_request, Single!History, History,
         Single!SameKey, SameKey, Single!FirstSent, FirstSent,
         Single!req_consistent, req_consistent, Single!update_balance,
         update_balance, Single!Covered, Covered, Single!Debits, Debits
<1>3. ASSUME NEW l, NEW es
      PROVE  Single!insert_processed_list(l, es) = insert_processed_list(l, es)
  BY DEF Single!insert_processed_list, insert_processed_list, Single!SameKey, SameKey
<1> QED
  BY <1>1, <1>2, <1>3

\* A bare request is one that a client may have sent.
LEMMA BareFields ==
    ASSUME NEW req \in Request
    PROVE  LET q == Bare(req)
           IN  /\ q \in Request
               /\ q.id = req.id /\ q.type = req.type /\ q.bank = req.bank
               /\ q.acct = req.acct /\ q.amount = req.amount
               /\ q.dbank = req.dbank /\ q.dacct = req.dacct
PROOF
  BY DEF Bare, Request, RequestRecord

LEMMA BareOurs ==
    ASSUME NEW b, NEW req, Ours(b, req)
    PROVE  Bare(req) \in ClientUpdates
PROOF
<1>1. PICK r : r = [req EXCEPT !.seq = 0]
  OBVIOUS
<1>2. r \in ClientUpdates /\ req \in RequestRecord
  BY <1>1 DEF Ours, Request
<1>3. r.from = Client
  BY <1>2, ChainAssumption DEF ClientRequest
<1>4. Bare(req) = r
  BY <1>1, <1>2, <1>3 DEF Bare, RequestRecord
<1> QED
  BY <1>2, <1>4

LEMMA PlainEntry ==
    ASSUME NEW e \in Entry
    PROVE  Plain(e) = [req |-> Bare(e.req), reply |-> e.reply]
PROOF
  BY DEF Plain, Entry

\* A ledger is plain as its canonical one is.
LEMMA PlainOfCanon ==
    ASSUME NEW l \in Ledger
    PROVE  PlainLedger(l) = PlainLedger(Canon(l))
PROOF
<1>1. ASSUME NEW k \in Ledger PROVE insert_processed_list(k, k.sent).processed = Memory(k)
  BY <1>1 DEF insert_processed_list, Memory, Unfiled, Ledger
<1>2. Canon(l) \in Ledger
  BY MemoryType
<1>3. Memory(Canon(l)) = Memory(l) /\ Canon(l).bal = l.bal
  BY DEF Canon, Memory
<1> QED
  BY <1>1, <1>2, <1>3 DEF PlainLedger

\* A ledger without anything in its sent list.
LEMMA PlainFields ==
    ASSUME NEW k \in Ledger, k.sent = <<>>, NEW p, p = PlainLedger(k)
    PROVE  /\ p = [accts |-> {e.req.acct : e \in p.processed}, bal |-> k.bal,
                   processed |-> p.processed, sent |-> <<>>]
           /\ p.processed = {Plain(e) : e \in k.processed}
PROOF
<1>1. insert_processed_list(k, k.sent).processed = k.processed
  BY DEF insert_processed_list, Ledger
<1> QED
  BY <1>1 DEF PlainLedger

\* What the history of the abstract ledger finds.
LEMMA PlainHistory ==
    ASSUME NEW k \in Ledger, k.accts = Accounts, k.sent = <<>>,
           NEW req \in Request, NEW p, p = PlainLedger(k), NEW q, q = Bare(req)
    PROVE  /\ History(k, req) = Matches(k.processed, req)
           /\ History(p, q) = {Plain(e) : e \in Matches(k.processed, req)}
PROOF
<1>1. /\ q.id = req.id /\ q.acct = req.acct /\ req.acct \in Accounts
  BY BareFields DEF Request, RequestRecord
<1>2. /\ p.processed = {Plain(e) : e \in k.processed} /\ p.sent = <<>>
      /\ p.accts = {e.req.acct : e \in p.processed}
  BY PlainFields
<1>3. \A e \in k.processed : /\ Plain(e).req.id = e.req.id
                             /\ Plain(e).req.acct = e.req.acct
  <2> SUFFICES ASSUME NEW e \in k.processed
               PROVE  Plain(e).req.id = e.req.id /\ Plain(e).req.acct = e.req.acct
    OBVIOUS
  <2>1. e \in Entry /\ e.req \in Request
    BY DEF Ledger, Entry
  <2>2. Plain(e).req = Bare(e.req)
    BY <2>1, PlainEntry
  <2> QED
    BY <2>1, <2>2, BareFields
<1> DEFINE done == {e \in p.processed : SameKey(e.req, q)}
<1>4. done = {Plain(e) : e \in Matches(k.processed, req)}
  BY <1>1, <1>2, <1>3 DEF Matches, SameKey
<1>5. q.acct \notin p.accts => done = {}
  BY <1>2 DEF SameKey
<1>6. History(p, q) = done
  <2>1. {p.sent[i] : i \in {i \in DOMAIN p.sent : FirstSent(p.sent, q, i)}} = {}
    BY <1>2
  <2> HIDE DEF done
  <2>2. History(p, q) = IF q.acct \in p.accts /\ done # {} THEN done ELSE {}
    BY <2>1 DEF History, done
  <2> QED
    BY <1>5, <2>2
<1>7. History(k, req) = Matches(k.processed, req)
  <2>1. {k.sent[i] : i \in {i \in DOMAIN k.sent : FirstSent(k.sent, req, i)}} = {}
    OBVIOUS
  <2> QED
    BY <1>1, <2>1 DEF History, Matches
<1> QED
  BY <1>4, <1>6, <1>7

\* The parts of what update_request_reply returns, by the entries old that the
\* history has for the update.
Updated(l, req, old, bal, u) ==
    /\ u.ledger = [l EXCEPT !.bal = bal, !.accts = @ \cup {req.acct}]
    /\ u.entry = [req |-> req, reply |-> u.entry.reply]
    /\ old = {} =>
        /\ u.check = "NEWREQ"
        /\ u.entry.reply = [id |-> req.id, acct |-> req.acct,
                            outcome |-> IF Covered(l, req) THEN "PROCESSED"
                                        ELSE "INSUFFICIENT_FUNDS",
                            balance |-> bal[req.acct]]
    /\ \A f : old = {f} /\ req_consistent(req, f.req) =>
        u.check = "PROCESSED" /\ u.entry.reply = f.reply
    /\ \A f : old = {f} /\ ~req_consistent(req, f.req) =>
        /\ u.check = "INCONSISTENT"
        /\ u.entry.reply = [id |-> req.id, acct |-> req.acct,
                            outcome |-> "INCONSISTENT_WITH_HISTORY",
                            balance |-> bal[req.acct]]

LEMMA UpdateParts ==
    ASSUME NEW l, NEW req, NEW u, u = update_request_reply(l, req),
           NEW old, old = History(l, req),
           NEW bal, bal = IF old = {} THEN update_balance(l, req) ELSE l.bal
    PROVE  Updated(l, req, old, bal, u)
PROOF
<1> DEFINE c   == check_update_request(l, req)
           bal2 == IF c = "NEWREQ" THEN update_balance(l, req) ELSE l.bal
           outcome == CASE c = "INCONSISTENT" -> "INCONSISTENT_WITH_HISTORY"
                        [] c = "NEWREQ" /\ ~Covered(l, req) -> "INSUFFICIENT_FUNDS"
                        [] OTHER -> "PROCESSED"
           fresh == [id |-> req.id, acct |-> req.acct, outcome |-> outcome,
                     balance |-> bal2[req.acct]]
           reply == IF c = "PROCESSED"
                    THEN (CHOOSE e \in old : req_consistent(req, e.req)).reply
                    ELSE fresh
<1>1. u = [ledger |-> [l EXCEPT !.bal = bal2, !.accts = @ \cup {req.acct}],
           entry |-> [req |-> req, reply |-> reply], check |-> c]
  BY DEF update_request_reply
<1>2. /\ old = {} => c = "NEWREQ"
      /\ \A f : old = {f} /\ req_consistent(req, f.req) => c = "PROCESSED"
      /\ \A f : old = {f} /\ ~req_consistent(req, f.req) => c = "INCONSISTENT"
      /\ c = "NEWREQ" => old = {}
  BY DEF check_update_request
<1> HIDE DEF c
<1>3. bal2 = bal
  BY <1>2
<1>4. /\ u.ledger = [l EXCEPT !.bal = bal2, !.accts = @ \cup {req.acct}]
      /\ u.entry = [req |-> req, reply |-> reply] /\ u.check = c
  <2> HIDE DEF bal2, reply
  <2> QED
    BY <1>1
<1>5. ASSUME old = {}
      PROVE  reply = [id |-> req.id, acct |-> req.acct,
                      outcome |-> IF Covered(l, req) THEN "PROCESSED"
                                  ELSE "INSUFFICIENT_FUNDS",
                      balance |-> bal[req.acct]]
  BY <1>2, <1>3, <1>5
<1>6. ASSUME NEW f, old = {f}, req_consistent(req, f.req)
      PROVE  reply = f.reply
  BY <1>2, <1>6
<1>7. ASSUME NEW f, old = {f}, ~req_consistent(req, f.req)
      PROVE  reply = [id |-> req.id, acct |-> req.acct,
                      outcome |-> "INCONSISTENT_WITH_HISTORY",
                      balance |-> bal[req.acct]]
  BY <1>2, <1>3, <1>7
<1> HIDE DEF reply, bal2
<1> QED
  BY <1>2, <1>3, <1>4, <1>5, <1>6, <1>7 DEF Updated

\* The abstract ledger treats an update as the canonical one does.
Alike(k, req, p, q, u, v) ==
    /\ v.check = u.check /\ v.entry = [req |-> q, reply |-> u.entry.reply]
    /\ v.ledger = [p EXCEPT !.bal = u.ledger.bal, !.accts = @ \cup {req.acct}]
    /\ u.check = "NEWREQ" <=> Matches(k.processed, req) = {}
    /\ u.entry.req = req

LEMMA PlainVerdict ==
    ASSUME NEW k \in Ledger, k.accts = Accounts, k.sent = <<>>,
           Unique(k.processed), NEW req \in Request,
           NEW p, p = PlainLedger(k), NEW q, q = Bare(req),
           NEW u, u = update_request_reply(k, req),
           NEW v, v = update_request_reply(p, q)
    PROVE  Alike(k, req, p, q, u, v)
PROOF
<1> DEFINE mine == Matches(k.processed, req)
<1>1. /\ q.id = req.id /\ q.type = req.type /\ q.bank = req.bank
      /\ q.acct = req.acct /\ q.amount = req.amount
      /\ q.dbank = req.dbank /\ q.dacct = req.dacct
  BY BareFields
<1>2. p.bal = k.bal
  BY PlainFields
<1>3. /\ History(k, req) = mine
      /\ History(p, q) = {Plain(e) : e \in mine}
  BY PlainHistory
<1>4. Covered(p, q) <=> Covered(k, req)
  BY <1>1, <1>2 DEF Covered, Debits
<1>5. update_balance(p, q) = update_balance(k, req)
  BY <1>1, <1>2, <1>4 DEF update_balance, Debits
<1>6. PICK bal : bal = IF mine = {} THEN update_balance(k, req) ELSE k.bal
  OBVIOUS
<1>7. History(p, q) = {} <=> mine = {}
  BY <1>3
<1> HIDE DEF mine
<1>8. Updated(k, req, mine, bal, u)
  <2>1. mine = History(k, req)
    BY <1>3
  <2> QED
    BY <1>6, <2>1, UpdateParts
<1>9. PICK old : old = History(p, q)
  OBVIOUS
<1>10. bal = IF old = {} THEN update_balance(p, q) ELSE p.bal
  BY <1>2, <1>5, <1>6, <1>7, <1>9
<1>11. Updated(p, q, old, bal, v)
  BY <1>9, <1>10, UpdateParts
<1>12. u.ledger.bal = bal
  <2>1. PICK l : l = u.ledger
    OBVIOUS
  <2>2. l = [k EXCEPT !.bal = bal, !.accts = @ \cup {req.acct}]
    BY <1>8, <2>1 DEF Updated
  <2>3. l.bal = bal
    BY <2>2 DEF Ledger
  <2> QED
    BY <2>1, <2>3
<1>13. u.entry.req = req
  <2>1. u.entry = [req |-> req, reply |-> u.entry.reply]
    BY <1>8 DEF Updated
  <2> QED
    BY <2>1
<1>14. /\ v.ledger = [p EXCEPT !.bal = bal, !.accts = @ \cup {req.acct}]
      /\ v.entry = [req |-> q, reply |-> v.entry.reply]
  BY <1>1, <1>11, Zenon DEF Updated
<1> SUFFICES /\ v.check = u.check /\ v.entry.reply = u.entry.reply
             /\ u.check = "NEWREQ" <=> mine = {}
  BY <1>13, <1>14, <1>12, Zenon DEF mine, Alike
<1>15. CASE mine = {}
  <2>1. old = {}
    BY <1>7, <1>9, <1>15
  <2> QED
    BY <1>1, <1>4, <1>8, <1>11, <1>15, <2>1 DEF Updated
<1>16. CASE mine # {}
  <2>1. PICK f \in k.processed : mine = {f}
    BY <1>16 DEF mine, Matches, Unique, SameKey
  <2>2. PICK g : g = Plain(f)
    OBVIOUS
  <2>3. old = {g}
    BY <1>3, <1>9, <2>1, <2>2
  <2>4. f \in Entry /\ f.req \in Request
    BY DEF Ledger, Entry
  <2>5. g.req = Bare(f.req) /\ g.reply = f.reply
    BY <2>2, <2>4, PlainEntry
  <2>6. req_consistent(q, g.req) <=> req_consistent(req, f.req)
    <3>1. PICK r : r = Bare(f.req)
      OBVIOUS
    <3>2. /\ r.type = f.req.type /\ r.bank = f.req.bank /\ r.amount = f.req.amount
          /\ r.dbank = f.req.dbank /\ r.dacct = f.req.dacct
      BY <2>4, <3>1, BareFields
    <3> QED
      BY <1>1, <2>5, <3>1, <3>2 DEF req_consistent
  <2>7. CASE req_consistent(req, f.req)
    <3>1. u.check = "PROCESSED" /\ u.entry.reply = f.reply
      BY <1>8, <2>1, <2>7 DEF Updated
    <3>2. v.check = "PROCESSED" /\ v.entry.reply = f.reply
      BY <1>11, <2>3, <2>5, <2>6, <2>7 DEF Updated
    <3> QED
      BY <1>1, <1>16, <3>1, <3>2
  <2>8. CASE ~req_consistent(req, f.req)
    <3>1. /\ u.check = "INCONSISTENT"
          /\ u.entry.reply = [id |-> req.id, acct |-> req.acct,
                              outcome |-> "INCONSISTENT_WITH_HISTORY",
                              balance |-> bal[req.acct]]
      BY <1>8, <2>1, <2>8 DEF Updated
    <3>2. /\ v.check = "INCONSISTENT"
          /\ v.entry.reply = [id |-> q.id, acct |-> q.acct,
                              outcome |-> "INCONSISTENT_WITH_HISTORY",
                              balance |-> bal[q.acct]]
      BY <1>11, <2>3, <2>6, <2>8 DEF Updated
    <3> QED
      BY <1>1, <1>16, <3>1, <3>2
  <2> QED
    BY <2>7, <2>8
<1> QED
  BY <1>15, <1>16

\* An update of the abstract bank.
LEMMA PlainMoves ==
    ASSUME NEW k \in Ledger, k.accts = Accounts, k.sent = <<>>,
           Unique(k.processed), NEW req \in Request
    PROVE  Single!Apply(PlainLedger(k), Bare(req)) = PlainLedger(Moved(k, req))
PROOF
<1> DEFINE p == PlainLedger(k)
           q == Bare(req)
           u == update_request_reply(k, req)
           v == update_request_reply(p, q)
           next == Moved(k, req)
           done == p.processed
           mine == Matches(k.processed, req)
<1>1. /\ v.check = u.check /\ v.entry = [req |-> q, reply |-> u.entry.reply]
      /\ v.ledger = [p EXCEPT !.bal = u.ledger.bal, !.accts = @ \cup {req.acct}]
      /\ u.check = "NEWREQ" <=> mine = {}
      /\ u.entry.req = req
  <2>1. Alike(k, req, p, q, u, v)
    BY PlainVerdict
  <2> HIDE DEF p, q, u, v
  <2> QED
    BY <2>1, Zenon DEF Alike
<1>2. next \in Ledger /\ next.sent = <<>>
  BY MovedMemory
<1>3. /\ next.bal = u.ledger.bal
      /\ next.processed = IF u.check = "NEWREQ" THEN k.processed \cup {u.entry}
                          ELSE k.processed
  <2>1. PICK c, e, n : c = u.check /\ e = u.entry /\ n = u.ledger.bal
    OBVIOUS
  <2>2. next = [k EXCEPT !.bal = n,
                         !.processed = IF c = "NEWREQ" THEN @ \cup {e} ELSE @]
    BY <2>1 DEF Moved
  <2>3. next.bal = n /\ next.processed = IF c = "NEWREQ" THEN k.processed \cup {e}
                                         ELSE k.processed
    <3> HIDE DEF next
    <3> QED
      BY <2>2 DEF Ledger
  <2> QED
    BY <2>1, <2>3
<1>4. /\ p = [accts |-> {e.req.acct : e \in done}, bal |-> k.bal,
              processed |-> done, sent |-> <<>>]
      /\ done = {Plain(e) : e \in k.processed}
  BY PlainFields
<1>5. PICK r : r = PlainLedger(next)
  OBVIOUS
<1>6. /\ r = [accts |-> {e.req.acct : e \in r.processed}, bal |-> next.bal,
              processed |-> r.processed, sent |-> <<>>]
      /\ r.processed = {Plain(e) : e \in next.processed}
  BY <1>2, <1>5, PlainFields
<1>7. Single!Apply(p, q) = IF v.check = "NEWREQ"
                           THEN insert_processed_list(v.ledger, <<v.entry>>)
                           ELSE v.ledger
  BY SameOperators DEF Single!Apply
<1>8. u.entry \in Entry /\ Plain(u.entry) = v.entry
  <2>1. u.entry \in Entry
    BY UpdateRequestReply
  <2> QED
    BY <1>1, <2>1, PlainEntry
<1>9. q.acct = req.acct /\ q.id = req.id
  BY BareFields
<1>10. \A e \in k.processed : /\ Plain(e).req.id = e.req.id
                              /\ Plain(e).req.acct = e.req.acct
  <2> SUFFICES ASSUME NEW e \in k.processed
               PROVE  Plain(e).req.id = e.req.id /\ Plain(e).req.acct = e.req.acct
    OBVIOUS
  <2>1. e \in Entry /\ e.req \in Request
    BY DEF Ledger, Entry
  <2>2. Plain(e).req = Bare(e.req)
    BY <2>1, PlainEntry
  <2> QED
    BY <2>1, <2>2, BareFields
<1>11. v.ledger = [accts |-> {e.req.acct : e \in done} \cup {req.acct},
                   bal |-> next.bal, processed |-> done, sent |-> <<>>]
  <2> HIDE DEF p, v, u, done, next
  <2> QED
    BY <1>1, <1>3, <1>4
<1>12. v.entry.req = q
  BY <1>1
<1> HIDE DEF p, q, u, v, next, done, mine
<1>15. CASE u.check = "NEWREQ"
  <2>1. r.processed = done \cup {v.entry}
    BY <1>3, <1>4, <1>6, <1>8, <1>15
  <2>2. \A e \in done : ~SameKey(e.req, v.entry.req)
    <3>1. mine = {}
      BY <1>1, <1>15
    <3> QED
      BY <1>4, <1>9, <1>10, <1>12, <3>1 DEF mine, Matches, SameKey
  <2>3. insert_processed_list(v.ledger, <<v.entry>>) =
            [v.ledger EXCEPT !.processed = @ \cup {v.entry}]
    <3>1. PICK l, e : l = v.ledger /\ e = v.entry
      OBVIOUS
    <3>2. \A f \in l.processed : ~SameKey(f.req, e.req)
      BY <1>11, <2>2, <3>1
    <3>3. {<<e>>[i] : i \in {i \in DOMAIN <<e>> :
                /\ \A f \in l.processed : ~SameKey(f.req, <<e>>[i].req)
                /\ \A j \in 1 .. (i - 1) : ~SameKey(<<e>>[j].req, <<e>>[i].req)}}
            = {e}
      BY <3>2
    <3>4. insert_processed_list(l, <<e>>) = [l EXCEPT !.processed = @ \cup {e}]
      BY <3>3 DEF insert_processed_list
    <3> QED
      BY <3>1, <3>4
  <2>4. {e.req.acct : e \in r.processed} = {e.req.acct : e \in done} \cup {req.acct}
    BY <1>9, <1>12, <2>1
  <2>5. [v.ledger EXCEPT !.processed = @ \cup {v.entry}] = r
    <3>1. PICK l, e : l = v.ledger /\ e = v.entry
      OBVIOUS
    <3>2. PICK x, y, z : /\ x = {f.req.acct : f \in done} \cup {req.acct}
                         /\ y = next.bal /\ z = done
      OBVIOUS
    <3>3. PICK w, n : w = <<>> /\ n = z \cup {e}
      OBVIOUS
    <3>4. l = [accts |-> x, bal |-> y, processed |-> z, sent |-> w]
      BY <1>11, <3>1, <3>2, <3>3
    <3>5. /\ [l EXCEPT !.processed = n] =
                [accts |-> x, bal |-> y, processed |-> n, sent |-> w]
          /\ l.processed = z
      BY <3>4
    <3>6. [l EXCEPT !.processed = @ \cup {e}] = [l EXCEPT !.processed = n]
      BY <3>3, <3>5, Zenon
    <3>7. r = [accts |-> x, bal |-> y, processed |-> n, sent |-> w]
      BY <1>6, <2>1, <2>4, <3>1, <3>2, <3>3
    <3> QED
      BY <3>1, <3>5, <3>6, <3>7, Zenon
  <2> QED
    BY <1>1, <1>5, <1>7, <1>15, <2>3, <2>5 DEF p, q, next
<1>16. CASE u.check # "NEWREQ"
  <2>1. r.processed = done
    BY <1>3, <1>4, <1>6, <1>16
  <2>2. req.acct \in {e.req.acct : e \in done}
    <3>1. PICK f \in k.processed : SameKey(f.req, req)
      BY <1>1, <1>16 DEF mine, Matches
    <3> QED
      BY <1>4, <1>10, <3>1 DEF SameKey
  <2>3. v.ledger = r
    BY <1>6, <1>11, <2>1, <2>2
  <2> QED
    BY <1>1, <1>5, <1>7, <1>16, <2>3 DEF p, q, next
<1> QED
  BY <1>15, <1>16

-----------------------------------------------------------------------------
(* The abstract bank follows the log.                                      *)

\* What applying a batch computes.
LEMMA ApplyRun ==
    ASSUME NEW l, NEW batch, NEW n \in Nat, n = Len(batch), NEW g,
           g = [i \in 0 .. n |-> IF i = 0 THEN l
                                 ELSE Single!Apply(g[i - 1], batch[i])]
    PROVE  Single!ApplyAll(l, batch) = g[n]
PROOF
<1> DEFINE Is(f) == f = [i \in 0 .. n |-> IF i = 0 THEN l
                                          ELSE Single!Apply(f[i - 1], batch[i])]
           run == CHOOSE f : Is(f)
<1>1. Is(g)
  OBVIOUS
<1>2. Is(run)
  <2> HIDE DEF Is
  <2> QED
    BY <1>1
<1>3. Single!ApplyAll(l, batch) = run[n]
  BY DEF Single!ApplyAll
<1> HIDE DEF run
<1> DEFINE S == {i \in 0 .. n : run[i] = g[i]}
<1>4. 0 \in S
  BY <1>1, <1>2
<1>5. ASSUME NEW i \in 1 .. n, i - 1 \in S PROVE i \in S
  <2>1. run[i - 1] = g[i - 1] /\ i \in 0 .. n /\ i # 0
    BY <1>5
  <2>2. \A f : Is(f) => f[i] = Single!Apply(f[i - 1], batch[i])
    BY <2>1
  <2>3. run[i] = g[i]
    <3> HIDE DEF Is
    <3> QED
      BY <1>1, <1>2, <2>1, <2>2
  <2> QED
    BY <2>1, <2>3
<1>6. n \in S
  <2>1. \A i \in 0 .. n : i \in S
    <3> HIDE DEF S
    <3> QED
      BY <1>4, <1>5, Climb
  <2> QED
    BY <2>1
<1> QED
  BY <1>3, <1>6

\* The ledgers of a log are canonical.
LEMMA LogLedgers ==
    ASSUME NEW b, NEW log \in Logs, GoodLog(b, log), NEW n \in 0 .. log.top,
           NEW k, k = log.led[n]
    PROVE  k \in Ledger /\ k.accts = Accounts /\ k.sent = <<>> /\ Unique(k.processed)
PROOF
<1>1. log.top \in Nat /\ log.led \in [Nat -> Ledger]
  BY LogFields
<1> DEFINE S == {i \in 0 .. log.top : LET l == log.led[i]
                                      IN  l.accts = Accounts /\ l.sent = <<>>}
<1>2. 0 \in S
  BY <1>1 DEF GoodLog, Canon
<1>3. ASSUME NEW i \in 1 .. log.top, i - 1 \in S PROVE i \in S
  <2>1. PICK l, r : l = log.led[i - 1] /\ r = log.req[i]
    OBVIOUS
  <2>2. /\ i - 1 \in 0 .. log.top /\ l \in Ledger /\ l.accts = Accounts /\ l.sent = <<>>
        /\ Unique(l.processed) /\ r \in Request /\ log.led[i] = Moved(l, r)
    <3>1. i - 1 \in 0 .. log.top /\ i - 1 \in Nat
      BY <1>1
    <3>2. l \in Ledger /\ l.accts = Accounts /\ l.sent = <<>>
      BY <1>1, <1>3, <2>1, <3>1
    <3>3. Unique(l.processed) /\ Ours(b, r) /\ log.led[i] = Moved(l, r)
      BY <2>1, <3>1 DEF GoodLog
    <3> QED
      BY <3>1, <3>2, <3>3 DEF Ours
  <2>3. Moved(l, r).accts = Accounts /\ Moved(l, r).sent = <<>>
    BY <2>2, MovedMemory
  <2> QED
    BY <1>1, <2>2, <2>3
<1>4. n \in S
  <2>1. \A i \in 0 .. log.top : i \in S
    <3> HIDE DEF S
    <3> QED
      BY <1>1, <1>2, <1>3, Climb
  <2> QED
    BY <2>1
<1> QED
  BY <1>1, <1>4 DEF GoodLog

\* From one place of the log to a later one: the updates between them, applied
\* one after the other.
LEMMA LogRun ==
    ASSUME NEW b, NEW log \in Logs, GoodLog(b, log), log.top <= MaxArrivals,
           NEW m \in 0 .. log.top, NEW n \in 0 .. log.top, m <= n
    PROVE  \E batch \in Single!SeqOf(BankUpdates, MaxArrivals) :
                Single!ApplyAll(PlainLedger(log.led[m]), batch) =
                    PlainLedger(log.led[n])
PROOF
<1> DEFINE d == n - m
           batch == [i \in 1 .. d |-> Bare(log.req[m + i])]
           l == PlainLedger(log.led[m])
           g == [i \in 0 .. d |-> PlainLedger(log.led[m + i])]
<1>1. /\ log.top \in Nat /\ MaxArrivals \in Nat /\ d \in 0 .. MaxArrivals
      /\ d \in Nat /\ m + 0 = m /\ m + d = n
  BY LogFields, ChainAssumption
<1>2. ASSUME NEW i \in 1 .. d
      PROVE  /\ Bare(log.req[m + i]) \in BankUpdates
             /\ PlainLedger(log.led[m + i]) =
                    Single!Apply(PlainLedger(log.led[m + (i - 1)]), Bare(log.req[m + i]))
  <2>1. PICK p : p = m + i
    OBVIOUS
  <2>2. p \in 1 .. log.top /\ m + (i - 1) = p - 1 /\ p - 1 \in 0 .. log.top
    BY <1>1, <2>1
  <2>3. PICK k, r : k = log.led[p - 1] /\ r = log.req[p]
    OBVIOUS
  <2>4. log.led[p] = Moved(k, r) /\ Ours(b, r) /\ r \in Request
    BY <2>2, <2>3 DEF GoodLog, Ours
  <2>5. k \in Ledger /\ k.accts = Accounts /\ k.sent = <<>> /\ Unique(k.processed)
    BY <2>2, <2>3, LogLedgers
  <2>6. Single!Apply(PlainLedger(k), Bare(r)) = PlainLedger(Moved(k, r))
    BY <2>4, <2>5, PlainMoves
  <2>7. Bare(r) \in ClientUpdates
    BY <2>4, BareOurs
  <2> QED
    BY <2>1, <2>2, <2>3, <2>4, <2>6, <2>7 DEF BankUpdates
<1>3. batch \in [1 .. d -> BankUpdates] /\ Len(batch) = d
  BY <1>1, <1>2
<1>4. batch \in Single!SeqOf(BankUpdates, MaxArrivals)
  <2> HIDE DEF batch, d
  <2> QED
    BY <1>1, <1>3 DEF Single!SeqOf
<1>5. /\ g[0] = l /\ g[d] = PlainLedger(log.led[n])
      /\ \A i \in 1 .. d : g[i] = Single!Apply(g[i - 1], batch[i])
  <2>1. g[0] = l /\ g[d] = PlainLedger(log.led[n])
    BY <1>1
  <2>2. ASSUME NEW i \in 1 .. d PROVE g[i] = Single!Apply(g[i - 1], batch[i])
    <3>1. i \in 0 .. d /\ i - 1 \in 0 .. d
      BY <1>1
    <3> QED
      BY <1>2, <3>1
  <2> QED
    BY <2>1, <2>2
<1>6. g = [i \in 0 .. d |-> IF i = 0 THEN l ELSE Single!Apply(g[i - 1], batch[i])]
  <2>1. g = [i \in 0 .. d |-> g[i]]
    OBVIOUS
  <2> HIDE DEF g, l, batch, d
  <2>2. \A i \in 0 .. d : g[i] = IF i = 0 THEN l ELSE Single!Apply(g[i - 1], batch[i])
    BY <1>1, <1>5
  <2> QED
    BY <2>1, <2>2
<1> HIDE DEF g, l, batch, d
<1>7. Single!ApplyAll(l, batch) = g[d]
  BY <1>1, <1>3, <1>6, ApplyRun
<1> QED
  BY <1>4, <1>5, <1>7 DEF l

\* A reply is what the abstract ledger at its place in the log says.
LEMMA ReplyJustified ==
    ASSUME NEW b, NEW log \in Logs, GoodLog(b, log), NEW e \in Entry,
           ReplyInLog(log, e), NEW k, k = log.led[e.req.seq]
    PROVE  Single!Justified(PlainLedger(k), Plain(e))
PROOF
<1> DEFINE r == e.req
           p == PlainLedger(k)
           q == Bare(r)
<1>1. k \in Ledger /\ k.accts = Accounts /\ k.sent = <<>> /\ Unique(k.processed)
  BY LogLedgers DEF ReplyInLog
<1>2. r \in Request
  BY DEF Entry
<1>3. q.type = r.type /\ q.acct = r.acct
  BY <1>2, BareFields
<1>4. Plain(e).req = q /\ Plain(e).reply = e.reply
  <2>1. Plain(e) = [req |-> q, reply |-> e.reply]
    BY PlainEntry
  <2> HIDE DEF q
  <2> QED
    BY <2>1
<1>5. p.bal = k.bal
  BY <1>1, PlainFields
<1>6. CASE r.type = "QUERY"
  BY <1>3, <1>4, <1>5, <1>6 DEF Single!Justified, ReplyInLog
<1>7. CASE r.type # "QUERY"
  <2> DEFINE u == update_request_reply(k, r)
             v == update_request_reply(p, q)
  <2>1. /\ \E f \in k.processed : SameKey(f.req, r)
        /\ e.reply = u.entry.reply
    BY <1>7 DEF ReplyInLog, Decides
  <2>2. Alike(k, r, p, q, u, v)
    BY <1>1, <1>2, PlainVerdict
  <2>3. v = Single!update_request_reply(p, q)
    BY SameOperators
  <2> HIDE DEF u, v, p, q
  <2>4. v.check # "NEWREQ" /\ v.entry.reply = u.entry.reply
    BY <2>1, <2>2 DEF Alike, Matches
  <2> QED
    BY <1>3, <1>4, <1>7, <2>1, <2>3, <2>4 DEF Single!Justified, p
<1> QED
  BY <1>6, <1>7

-----------------------------------------------------------------------------
(* A step of the chain is a step of the abstract bank, or none.            *)

\* Every bank has a server that can answer.
BanksLive == \A b \in Banks : Living(b) # {}

LEMMA LastIsLast ==
    ASSUME NEW A \in SUBSET Servers, NEW b, NEW S, S = {x \in A : BankOf[x] = b},
           S # {}
    PROVE  /\ \E x \in A : IsLast(S, x)
           /\ \A x : IsLast(S, x) => x \in S
PROOF
<1>1. \E x \in S : IsLast(S, x)
  BY LastExists
<1> QED
  BY <1>1 DEF IsLast

LEMMA LastServers ==
    ASSUME TypeOK, TypeOK', NEW b, Living(b) # {}, (Living(b) # {})',
           NEW s, s = LastServer(b), NEW t, t = LastServer(b)'
    PROVE  /\ s \in Living(b) /\ IsLast(Living(b), s)
           /\ t \in Living(b)' /\ IsLast(Living(b)', t)
PROOF
<1>1. s \in Living(b) /\ IsLast(Living(b), s)
  <2>1. /\ \E x \in alive : IsLast(Living(b), x)
        /\ \A x : IsLast(Living(b), x) => x \in Living(b)
    BY LastIsLast DEF Living, TypeOK
  <2>2. IsLast(Living(b), s)
    BY <2>1, Zenon DEF LastServer
  <2> QED
    BY <2>1, <2>2
<1>2. t \in Living(b)' /\ IsLast(Living(b)', t)
  <2>1. t = CHOOSE x \in alive' : IsLast(Living(b)', x)
    BY DEF LastServer, IsLast, After
  <2>2. /\ \E x \in alive' : IsLast(Living(b)', x)
        /\ \A x : IsLast(Living(b)', x) => x \in Living(b)'
    <3>1. PICK A, S : A = alive' /\ S = Living(b)'
      OBVIOUS
    <3>2. A \in SUBSET Servers /\ S = {x \in A : BankOf[x] = b} /\ S # {}
      BY <3>1 DEF Living, TypeOK
    <3>3. /\ \E x \in A : IsLast(S, x)
          /\ \A x : IsLast(S, x) => x \in S
      BY <3>2, LastIsLast
    <3> QED
      BY <3>1, <3>3
  <2>3. IsLast(Living(b)', t)
    BY <2>1, <2>2, Zenon
  <2> QED
    BY <2>2, <2>3
<1> QED
  BY <1>1, <1>2

\* The last server has applied the fewest updates.
LEMMA LastHasLeast ==
    ASSUME NEW S \in SUBSET Servers, NEW f \in [Servers -> ServerState],
           \A x, y \in S : x < y => f[y].bank_update_seq <= f[x].bank_update_seq,
           NEW s \in S, NEW t, IsLast(S, t)
    PROVE  f[t].bank_update_seq <= f[s].bank_update_seq
PROOF
<1>1. t \in S /\ ~(s > t) /\ s \in Nat /\ t \in Nat
  BY BankAssumption DEF IsLast, After, Servers
<1>2. f[t].bank_update_seq \in Nat
  BY <1>1, ServerFields
<1>3. CASE s = t
  BY <1>2, <1>3
<1>4. CASE s < t
  BY <1>1, <1>4
<1> QED
  BY <1>1, <1>3, <1>4

\* Before and after the step, the servers of bank b are found in one log.
LEMMA LogStep ==
    ASSUME TypeOK, TypeOK', SeqInv, SeqInv', Grows, NEW b \in Banks,
           Living(b) # {}, (Living(b) # {})', NEW log \in Logs, GoodLog(b, log),
           log.top <= MaxArrivals,
           \A t \in Living(b) : StateInLog(b, log, srv[t]),
           (\A t \in Living(b) : StateInLog(b, log, srv[t]))',
           \A c \in Banks : c # b => BankLedger[c]' = BankLedger[c],
           replies \in SUBSET replies',
           \A e \in replies' \ replies :
                /\ e.req.bank = b /\ ReplyInLog(log, e)
                /\ \E t \in Living(b)' : e.req.seq = srv'[t].bank_update_seq
    PROVE  Single!Step(b)
PROOF
<1> DEFINE s == LastServer(b)
           t == LastServer(b)'
           m == srv[s].bank_update_seq
           n == srv'[t].bank_update_seq
<1>1. s \in Living(b) /\ IsLast(Living(b), s)
  BY LastServers
<1>2. t \in Living(b)' /\ IsLast(Living(b)', t)
  BY LastServers
<1> HIDE DEF s, t
<1>3. /\ s \in Servers /\ t \in Servers /\ srv[s] \in ServerState
      /\ srv'[t] \in ServerState /\ t \in alive' /\ BankOf[t] = b
  BY <1>1, <1>2 DEF Living, TypeOK
<1>4. t \in Living(b) /\ srv[t].bank_update_seq <= n
  BY <1>3 DEF Grows, Living
<1>5. srv[t] \in ServerState
  BY <1>3 DEF TypeOK
<1>6. m \in Nat /\ n \in Nat /\ srv[t].bank_update_seq \in Nat
  BY <1>3, <1>5 DEF ServerState
<1>7. m <= n
  <2>1. m <= srv[t].bank_update_seq
    <3>1. \A x, y \in Living(b) : x < y =>
                srv[y].bank_update_seq <= srv[x].bank_update_seq
      BY DEF SeqInv, Descends, AppliedBefore, SameBank, Living
    <3>2. Living(b) \in SUBSET Servers /\ srv \in [Servers -> ServerState]
      BY DEF Living, TypeOK
    <3> QED
      BY <1>1, <1>4, <3>1, <3>2, LastHasLeast
  <2> QED
    BY <1>4, <1>6, <2>1
<1>8. /\ StateInLog(b, log, srv[s]) /\ StateInLog(b, log, srv'[t])
      /\ log.top \in Nat
  BY <1>1, <1>2, LogFields
<1>9. m \in 0 .. log.top /\ n \in 0 .. log.top
  BY <1>6, <1>8 DEF StateInLog
<1>10. BankLedger[b] = PlainLedger(log.led[m])
  <2>1. srv[s].ledger \in Ledger /\ Canon(srv[s].ledger) = log.led[m]
    BY <1>3, <1>8 DEF ServerState, StateInLog
  <2>2. PlainLedger(srv[s].ledger) = PlainLedger(log.led[m])
    BY <2>1, PlainOfCanon
  <2> QED
    BY <2>2 DEF BankLedger, s
<1>11. BankLedger[b]' = PlainLedger(log.led[n])
  <2>1. srv'[t].ledger \in Ledger /\ Canon(srv'[t].ledger) = log.led[n]
    BY <1>3, <1>8 DEF ServerState, StateInLog
  <2>2. PlainLedger(srv'[t].ledger) = PlainLedger(log.led[n])
    BY <2>1, PlainOfCanon
  <2> QED
    BY <2>2 DEF BankLedger, t
<1>12. PICK batch \in Single!SeqOf(BankUpdates, MaxArrivals) :
            Single!ApplyAll(BankLedger[b], batch) = BankLedger[b]'
  BY <1>7, <1>9, <1>10, <1>11, LogRun
<1>13. BankLedger' = [BankLedger EXCEPT ![b] = Single!ApplyAll(@, batch)]
  <2>1. /\ BankLedger = [c \in Banks |-> BankLedger[c]]
        /\ BankLedger' = [c \in Banks |-> BankLedger[c]']
    BY DEF BankLedger
  <2>2. PICK f, g, x : f = BankLedger /\ g = BankLedger' /\ x = BankLedger[b]'
    OBVIOUS
  <2>3. /\ f = [c \in Banks |-> f[c]] /\ g = [c \in Banks |-> g[c]] /\ g[b] = x
        /\ \A c \in Banks : c # b => g[c] = f[c]
    BY <2>1, <2>2
  <2>4. g = [f EXCEPT ![b] = x]
    BY <2>3
  <2> QED
    BY <1>12, <2>2, <2>4
<1>14. Answered \subseteq Answered'
  BY DEF Answered
<1>15. ASSUME NEW a \in Answered' \ Answered
       PROVE  a.req.bank = b /\ Single!Justified(BankLedger'[b], a)
  <2>1. PICK e \in replies' : a = Plain(e)
    BY DEF Answered
  <2>2. e \notin replies
    BY <1>15, <2>1 DEF Answered
  <2>3. /\ e.req.bank = b /\ ReplyInLog(log, e) /\ e \in Entry /\ e.req \in Request
        /\ e.req.seq \in Nat
    BY <2>1, <2>2, RequestFields DEF TypeOK, Entry
  <2>4. PICK u \in Living(b)' : e.req.seq = srv'[u].bank_update_seq
    BY <2>1, <2>2
  <2>5. n <= e.req.seq
    <3>1. \A x, y \in Living(b)' : x < y =>
                srv'[y].bank_update_seq <= srv'[x].bank_update_seq
      BY DEF SeqInv, Descends, AppliedBefore, SameBank, Living
    <3>2. Living(b)' \in SUBSET Servers /\ srv' \in [Servers -> ServerState]
      BY DEF Living, TypeOK
    <3> QED
      BY <1>2, <2>4, <3>1, <3>2, LastHasLeast
  <2>6. e.req.seq <= n
    BY <1>3, <2>1, <2>3 DEF SeqInv, GoodReplies, Applied
  <2>7. e.req.seq = n
    BY <1>6, <2>3, <2>5, <2>6
  <2>8. Single!Justified(PlainLedger(log.led[n]), a)
    BY <2>1, <2>3, <2>7, ReplyJustified
  <2>9. a.req = Bare(e.req)
    BY <2>1, <2>3, PlainEntry
  <2>10. a.req.bank = b
    BY <2>3, <2>9, BareFields
  <2>11. BankLedger'[b] = BankLedger[b]'
    OBVIOUS
  <2> QED
    BY <1>11, <2>8, <2>10, <2>11
<1> QED
  BY <1>12, <1>13, <1>14, <1>15 DEF Single!Step

\* A bank whose servers do nothing keeps its ledger.
LEMMA LedgerKeeps ==
    ASSUME TypeOK, TypeOK', NEW c \in Banks, Living(c) # {}, Living(c)' = Living(c),
           \A t \in Living(c) : srv'[t] = srv[t]
    PROVE  BankLedger[c]' = BankLedger[c]
PROOF
<1>1. PICK s, t : s = LastServer(c) /\ t = LastServer(c)'
  OBVIOUS
<1>2. /\ s \in Living(c) /\ IsLast(Living(c), s)
      /\ t \in Living(c)' /\ IsLast(Living(c)', t)
  BY <1>1, LastServers
<1>3. s \in Int /\ t \in Int /\ ~(s > t) /\ ~(t > s)
  BY <1>2, ServerFields DEF IsLast, After, Living, TypeOK
<1>4. s = t /\ srv'[t] = srv[s]
  BY <1>2, <1>3
<1>5. PlainLedger(srv'[t].ledger) = PlainLedger(srv[s].ledger)
  BY <1>4
<1> QED
  BY <1>1, <1>5 DEF BankLedger

\* A server answers with the number of the last update that it has applied.
LEMMA AnswersLatest ==
    ASSUME PlainUpdates, TypeOK, SeqInv, PlainInv, NEW s \in alive,
           NEW b, b = BankOf[s], NEW log \in Logs, Logged(b, log),
           NEW inbox, NEW res, Handled(s, inbox, res), NEW i \in DOMAIN res.out,
           NEW o, o = res.out[i], o.msg.type = "CLIENT_REPLY"
    PROVE  o.msg.entry.req.seq = res.st.bank_update_seq
PROOF
<1>1. CASE res = [st |-> srv[s], out |-> sending[s]]
  BY <1>1 DEF PlainInv, PlainSends, PlainSend
<1>2. CASE Keeps(b, srv[s], res)
  BY <1>2 DEF Keeps, Mute, Reads
<1>3. CASE \E num \in Request : Ours(b, num) /\ Applies(b, srv[s], num, res)
  <2>1. PICK num \in Request : Applies(b, srv[s], num, res)
    BY <1>3
  <2>2. PICK v : v = update_request_reply(Canon(srv[s].ledger), num)
    OBVIOUS
  <2>3. o.msg.entry = v.entry /\ res.st.bank_update_seq = num.seq
    BY <2>1, <2>2 DEF Applies, Mute
  <2>4. v.entry.req = num
    BY <2>2 DEF update_request_reply
  <2> QED
    BY <2>3, <2>4
<1>4. Does(b, log, srv[s], res) \/ res = [st |-> srv[s], out |-> sending[s]]
  BY HandledDoes
<1> QED
  BY <1>1, <1>2, <1>3, <1>4 DEF Does

\* What a step that makes the first send of out adds to the replies.
LEMMA NewReply ==
    ASSUME NEW p, NEW inbox, NEW out \in Seq(Outgoing), Transmit(p, inbox, out)
    PROVE  /\ replies \in SUBSET replies'
           /\ \A e \in replies' \ replies :
                /\ 1 \in DOMAIN out /\ out[1].msg.type = "CLIENT_REPLY"
                /\ e = out[1].msg.entry
PROOF
<1>1. CASE out = <<>>
  BY <1>1 DEF Transmit
<1>2. CASE out # <<>>
  <2>1. 1 \in DOMAIN out /\ Head(out) = out[1] /\ send_msg_udp(Head(out))
    BY <1>2 DEF Transmit
  <2> QED
    BY <2>1 DEF send_msg_udp
<1> QED
  BY <1>1, <1>2

\* Steps of servers and clients, and crashes.
LEMMA ServerRefines ==
    ASSUME PlainUpdates, TypeOK, TypeOK', ServersObey, RolesInv, RolesInv',
           SeqInv, SeqInv', PlainInv, HistoryInv, HistoryInv', BanksLive, BanksLive',
           NEW s \in Servers,
           ServerStep(s) \/ ClientUpdate(s) \/ ClientQuery(s) \/ Crash(s)
    PROVE  Single!Step(BankOf[s])
PROOF
<1> DEFINE b == BankOf[s]
<1>1. /\ b \in Banks /\ Living(b) # {} /\ (Living(b) # {})'
      /\ arrivals <= MaxArrivals /\ arrivals' <= MaxArrivals
      /\ arrivals \in Nat /\ arrivals' \in Nat /\ MaxArrivals \in Nat
      /\ \A log \in Logs : log.top \in Nat
  BY ChainAssumption, LogFields DEF BanksLive, HistoryInv, TypeOK
<1>2. PICK old \in Logs : Logged(b, old) /\ old.top <= arrivals
  BY <1>1 DEF HistoryInv
<1>3. ASSUME alive' \in SUBSET alive, alive \ {s} \in SUBSET alive',
             \A t \in alive : t # s => srv'[t] = srv[t]
      PROVE  \A c \in Banks : c # b => BankLedger[c]' = BankLedger[c]
  <2> SUFFICES ASSUME NEW c \in Banks, c # b
               PROVE  BankLedger[c]' = BankLedger[c]
    OBVIOUS
  <2>1. Living(c)' = Living(c) /\ \A t \in Living(c) : srv'[t] = srv[t]
    BY <1>3 DEF Living
  <2>2. Living(c) # {}
    BY DEF BanksLive
  <2> QED
    BY <2>1, <2>2, LedgerKeeps
<1>4. ASSUME NEW inbox \in Inboxes, Took(s, inbox), Die(s, inbox)
      PROVE  Single!Step(b)
  <2>1. Grows
    BY <1>4, DieKeeps
  <2>2. Logged(b, old)'
    BY <1>2, <1>4, DieLogged
  <2>3. /\ alive' \in SUBSET alive /\ alive \ {s} \in SUBSET alive'
        /\ \A t \in alive : t # s => srv'[t] = srv[t]
        /\ replies' = replies
    BY <1>4 DEF Die, TypeOK
  <2>4. /\ GoodLog(b, old) /\ old.top <= MaxArrivals
        /\ \A t \in Living(b) : StateInLog(b, old, srv[t])
        /\ (\A t \in Living(b) : StateInLog(b, old, srv[t]))'
    BY <1>1, <1>2, <2>2 DEF Logged
  <2> HIDE DEF b
  <2> QED
    BY <1>1, <1>3, <2>1, <2>3, <2>4, LogStep
<1>5. CASE Crash(s)
  <2>1. Die(s, tcp) /\ tcp \in Inboxes /\ Took(s, tcp)
    BY <1>5 DEF Crash, TypeOK, Inboxes, Took
  <2> QED
    BY <1>4, <2>1
<1>6. CASE ServerStep(s) \/ ClientUpdate(s) \/ ClientQuery(s)
  <2>1. /\ s \in alive
        /\ \E inbox, res : /\ Handled(s, inbox, res) /\ Perform(s, inbox, res)
                           /\ Counted(s, res)
    BY <1>6, StepHandles
  <2>2. PICK inbox, res : /\ Handled(s, inbox, res) /\ Perform(s, inbox, res)
                          /\ Counted(s, res)
    BY <2>1
  <2>3. /\ inbox \in Inboxes /\ Took(s, inbox) /\ Outcome(srv[s], res)
        /\ Effect(s, res)
    BY <2>1, <2>2, HandledEffect
  <2>4. Grows
    BY <2>1, <2>2, <2>3, PerformKeeps
  <2>5. CASE Die(s, inbox)
    BY <1>4, <2>3, <2>5
  <2>6. CASE /\ srv' = [srv EXCEPT ![s] = res.st]
             /\ Transmit(s, inbox, res.out)
             /\ UNCHANGED <<alive, aborted>>
    <3>1. /\ srv \in [Servers -> ServerState] /\ alive' = alive
          /\ alive \in SUBSET Servers
      BY <2>6 DEF TypeOK
    <3>2. srv'[s] = res.st /\ \A t \in alive : t # s => srv'[t] = srv[t]
      BY <2>6, <3>1
    <3>3. res.out \in Seq(Outgoing)
      <4>1. ServerSend \in SUBSET Outgoing /\ res.out \in Seq(ServerSend)
        BY <2>3 DEF ServerSend, Outcome
      <4> QED
        BY <4>1
    <3>4. PICK out \in Seq(Outgoing) : out = res.out
      BY <3>3
    <3>5. PICK log \in Logs :
                /\ Logged(b, log) /\ StateInLog(b, log, res.st)
                /\ \A i \in DOMAIN out : Told(b, log, out[i])
                /\ log.top <= arrivals'
      BY <1>2, <2>1, <2>2, <3>4, HandledLog
    <3>6. /\ GoodLog(b, log) /\ log.top <= MaxArrivals
          /\ \A t \in Living(b) : StateInLog(b, log, srv[t])
          /\ (\A t \in Living(b) : StateInLog(b, log, srv[t]))'
      BY <1>1, <3>1, <3>2, <3>5 DEF Logged, Living
    <3>7. /\ replies \in SUBSET replies'
          /\ \A e \in replies' \ replies :
                /\ 1 \in DOMAIN out /\ out[1].msg.type = "CLIENT_REPLY"
                /\ e = out[1].msg.entry
      BY <2>6, <3>4, NewReply
    <3>8. ASSUME NEW e \in replies' \ replies
          PROVE  /\ e.req.bank = b /\ ReplyInLog(log, e)
                 /\ \E t \in Living(b)' : e.req.seq = srv'[t].bank_update_seq
      <4>1. PICK o : o = out[1]
        OBVIOUS
      <4>2. 1 \in DOMAIN out /\ o.msg.type = "CLIENT_REPLY" /\ e = o.msg.entry
        BY <3>7, <3>8, <4>1
      <4>3. e.req.bank = b /\ ReplyInLog(log, e)
        BY <3>5, <4>1, <4>2 DEF Told, SendInLog
      <4>4. e.req.seq = res.st.bank_update_seq
        BY <1>2, <2>1, <2>2, <3>4, <4>1, <4>2, AnswersLatest
      <4>5. s \in Living(b)' /\ e.req.seq = srv'[s].bank_update_seq
        BY <2>1, <3>1, <3>2, <4>4 DEF Living
      <4> QED
        BY <4>3, <4>5
    <3>9. \A c \in Banks : c # b => BankLedger[c]' = BankLedger[c]
      BY <1>3, <3>1, <3>2
    <3>10. Single!Step(b)
      <4> HIDE DEF b
      <4> QED
        BY <1>1, <2>4, <3>6, <3>7, <3>8, <3>9, LogStep
    <3> QED
      BY <3>10
  <2> QED
    BY <2>2, <2>5, <2>6 DEF Perform
<1> QED
  BY <1>5, <1>6

\* The master leaves ledgers and replies alone.
LEMMA MasterSilent ==
    ASSUME TypeOK, MasterKnowsEnds, RolesInv, PlainInv, MasterStep
    PROVE  srv' = srv /\ alive' = alive /\ replies' = replies
PROOF
<1>1. UNCHANGED servers
  BY DEF MasterStep, NotifyHeadCrash, NotifyTailCrash, NotifyInternalCrash,
         NotifyCrash, MasterContinue, ForwardReqSeq
<1>2. ASSUME NEW out \in Seq(Outgoing), Transmit(Master, tcp, out),
             \A i \in DOMAIN out : out[i].msg.type \in OrderTypes
      PROVE  replies' = replies
  <2>1. /\ replies \in SUBSET replies'
        /\ \A e \in replies' \ replies :
                1 \in DOMAIN out /\ out[1].msg.type = "CLIENT_REPLY"
    BY <1>2, NewReply
  <2> QED
    BY <1>2, <2>1 DEF OrderTypes
<1>3. ASSUME NEW b \in Banks, NEW s \in Servers,
             \/ NotifyHeadCrash(b, s)
             \/ NotifyTailCrash(b, s)
             \/ NotifyInternalCrash(b, s)
      PROVE  replies' = replies
  <2>1. PICK out \in Seq(Outgoing) :
            /\ Transmit(Master, tcp, out)
            /\ \A i \in DOMAIN out : out[i].msg.type \in OrderTypes
    BY <1>3, NotifySends
  <2> QED
    BY <1>2, <2>1
<1>4. ASSUME MasterContinue PROVE replies' = replies
  <2>1. /\ Transmit(Master, tcp, sending[Master])
        /\ sending[Master] \in Seq(Outgoing)
        /\ \A i \in DOMAIN sending[Master] : sending[Master][i].msg.type \in OrderTypes
    BY <1>4 DEF MasterContinue, TypeOK, Processes, PlainInv, MasterSends
  <2> QED
    BY <1>2, <2>1
<1>5. ASSUME ForwardReqSeq PROVE replies' = replies
  BY <1>5 DEF ForwardReqSeq, clients
<1> QED
  BY <1>1, <1>3, <1>4, <1>5 DEF MasterStep, servers

\* Every server holds the empty ledger at first.
LEMMA InitRefines == Init => Single!SingleInit
PROOF
<1> SUFFICES ASSUME Init PROVE Single!SingleInit
  OBVIOUS
<1>1. PICK flag \in [Servers -> UninitializedFlag] :
        srv = [s \in Servers |-> InitialServer(s, flag[s])]
  BY DEF Init
<1>2. \A s \in Servers : srv[s].ledger = EmptyLedger
  BY <1>1 DEF InitialServer
<1>3. alive = Servers /\ replies = {}
  BY DEF Init
<1>4. ASSUME NEW b \in Banks PROVE LastServer(b) \in Servers
  <2>1. /\ Living(b) = {s \in alive : BankOf[s] = b} /\ alive \in SUBSET Servers
        /\ Living(b) # {}
    BY <1>3, ChainAssumption DEF Living
  <2>2. \E s \in alive : IsLast(Living(b), s)
    BY <2>1, LastIsLast
  <2>3. LastServer(b) \in alive
    BY <2>2, Zenon DEF LastServer
  <2> QED
    BY <1>3, <2>3
<1>5. PlainLedger(EmptyLedger) = EmptyLedger
  <2>1. PICK l : l = EmptyLedger
    OBVIOUS
  <2>2. /\ l \in Ledger /\ l.sent = <<>> /\ l.processed = {} /\ l.accts = {}
        /\ l = [accts |-> {}, bal |-> l.bal, processed |-> {}, sent |-> <<>>]
    BY <2>1 DEF EmptyLedger, Ledger
  <2>3. PICK p : p = PlainLedger(l)
    OBVIOUS
  <2>4. /\ p = [accts |-> {e.req.acct : e \in p.processed}, bal |-> l.bal,
                processed |-> p.processed, sent |-> <<>>]
        /\ p.processed = {}
    BY <2>2, <2>3, PlainFields
  <2>5. p = l
    BY <2>2, <2>4
  <2> QED
    BY <2>1, <2>3, <2>5
<1>6. BankLedger = [b \in Banks |-> EmptyLedger]
  BY <1>2, <1>4, <1>5 DEF BankLedger
<1>7. Answered = {}
  BY <1>3 DEF Answered
<1> QED
  BY <1>6, <1>7, SameOperators DEF Single!SingleInit

LEMMA NextRefines ==
    ASSUME PlainUpdates
    PROVE  /\ IInv /\ IInv' /\ RolesInv /\ RolesInv' /\ SeqInv /\ SeqInv'
           /\ PlainInv /\ HistoryInv /\ HistoryInv' /\ BanksLive /\ BanksLive'
           /\ [Next]_vars
           => [\E b \in Banks : Single!Step(b)]_<<BankLedger, Answered>>
PROOF
<1> SUFFICES ASSUME IInv, IInv', RolesInv, RolesInv', SeqInv, SeqInv', PlainInv,
                    HistoryInv, HistoryInv', BanksLive, BanksLive', [Next]_vars
             PROVE  [\E b \in Banks : Single!Step(b)]_<<BankLedger, Answered>>
  OBVIOUS
<1>1. TypeOK /\ TypeOK' /\ ServersObey /\ MasterKnowsEnds
  BY DEF IInv
<1>2. ASSUME NEW s \in Servers,
             ServerStep(s) \/ ClientUpdate(s) \/ ClientQuery(s) \/ Crash(s)
      PROVE  \E b \in Banks : Single!Step(b)
  <2>1. Single!Step(BankOf[s])
    BY <1>1, <1>2, ServerRefines
  <2>2. BankOf[s] \in Banks
    BY ChainAssumption
  <2> QED
    BY <2>1, <2>2
<1>3. ASSUME srv' = srv, alive' = alive, replies' = replies
      PROVE  UNCHANGED <<BankLedger, Answered>>
  BY <1>3 DEF BankLedger, Answered, LastServer, Living, IsLast, After
<1>4. CASE MasterStep
  BY <1>1, <1>3, <1>4, MasterSilent
<1>5. CASE UNCHANGED vars
  BY <1>3, <1>5 DEF vars
<1> QED
  BY <1>2, <1>4, <1>5 DEF Next

\* A chain whose servers crash, in any order and at any moment, is to its
\* clients one bank that does not, as long as the last server of no bank ends:
\* every update takes effect at one moment and once, and whatever a client is
\* told is what the ledger says at that moment.
THEOREM ChainIsOneBank ==
    ASSUME PlainUpdates PROVE Spec /\ []BanksLive => SingleCopy
PROOF
<1>1. Init => Single!SingleInit
  BY InitRefines
<1>2. /\ IInv /\ RolesInv /\ SeqInv /\ PlainInv /\ HistoryInv /\ BanksLive
      /\ (IInv /\ RolesInv /\ SeqInv /\ PlainInv /\ HistoryInv /\ BanksLive)'
      /\ [Next]_vars
      => [\E b \in Banks : Single!Step(b)]_<<BankLedger, Answered>>
  BY NextRefines
<1> QED
  BY <1>1, <1>2, HistoryInvariant, PTL DEF Spec, SingleCopy, Single!SingleSpec

-----------------------------------------------------------------------------
(* Where clients only update, and extending_chain_ is FALSE from the       *)
(* start, no assertion fails, so no bank loses its last server.            *)

NothingFails == aborted = {} /\ BanksLive

\* A server ends in a crash, which its bank survives, or by an assertion.
LEMMA ServerLives ==
    ASSUME TypeOK, BanksLive, NEW s \in Servers, aborted' = {},
           ServerStep(s) \/ ClientUpdate(s) \/ ClientQuery(s) \/ Crash(s)
    PROVE  BanksLive'
PROOF
<1>1. CASE Crash(s)
  <2>1. /\ alive' = alive \ {s}
        /\ \E t \in alive \ {s} : BankOf[t] = BankOf[s]
    BY <1>1 DEF Crash, Die
  <2> QED
    BY <2>1 DEF BanksLive, Living
<1>2. CASE ServerStep(s) \/ ClientUpdate(s) \/ ClientQuery(s)
  <2>1. PICK inbox, res : Perform(s, inbox, res)
    BY <1>2, StepHandles
  <2>2. alive' = alive
    BY <2>1 DEF Perform
  <2> QED
    BY <2>2 DEF BanksLive, Living
<1> QED
  BY <1>1, <1>2

LEMMA NextLives ==
    ASSUME ClientQueries = {}
    PROVE  /\ IInv /\ IInv' /\ RolesInv /\ SeqInv /\ StreamInv /\ AnnouncedTails
           /\ UpdateAssertionsHold' /\ PlainInv /\ NothingFails /\ [Next]_vars
           => NothingFails'
PROOF
<1> SUFFICES ASSUME IInv, IInv', RolesInv, SeqInv, StreamInv, AnnouncedTails,
                    UpdateAssertionsHold', PlainInv, NothingFails, [Next]_vars
             PROVE  NothingFails'
  OBVIOUS
<1>1. aborted' = {}
  <2>1. MissedQuery
    BY NextMissed
  <2>2. aborted = {} /\ aborted' \in SUBSET (Servers \X Assertions)
    BY DEF NothingFails, IInv, TypeOK
  <2> SUFFICES ASSUME NEW a \in aborted' PROVE FALSE
    OBVIOUS
  <2>3. PICK s \in Servers, w \in Assertions : a = <<s, w>>
    BY <2>2
  <2>4. w = "query at tail"
    BY <2>3 DEF UpdateAssertionsHold
  <2> QED
    BY <2>1, <2>2, <2>3, <2>4 DEF MissedQuery
<1>2. ASSUME NEW s \in Servers,
             ServerStep(s) \/ ClientUpdate(s) \/ ClientQuery(s) \/ Crash(s)
      PROVE  BanksLive'
  BY <1>1, <1>2, ServerLives DEF IInv, NothingFails
<1>3. ASSUME alive' = alive PROVE BanksLive'
  BY <1>3 DEF NothingFails, BanksLive, Living
<1>4. ASSUME MasterStep PROVE BanksLive'
  BY <1>3, <1>4, MasterSilent DEF IInv
<1> QED
  BY <1>1, <1>2, <1>3, <1>4 DEF Next, NothingFails, vars

LEMMA InitLives == Init => NothingFails
PROOF
  BY ChainAssumption DEF Init, NothingFails, BanksLive, Living

\* With clients that only update, a chain refines the one bank that does not
\* fail: nothing but its crashes can end a server, and one always remains.
THEOREM UpdatesOfOneBank ==
    ASSUME PlainUpdates, UninitializedFlag \in SUBSET {FALSE}, ClientQueries = {}
    PROVE  Spec => SingleCopy
PROOF
<1>1. Init => NothingFails
  BY InitLives
<1>2. /\ IInv /\ RolesInv /\ SeqInv /\ PlainInv /\ HistoryInv
      /\ (IInv /\ RolesInv /\ SeqInv /\ PlainInv /\ HistoryInv)'
      /\ StreamInv /\ AnnouncedTails /\ UpdateAssertionsHold' /\ NothingFails
      /\ [Next]_vars
      => NothingFails'
  BY NextLives
<1>3. NothingFails => BanksLive
  BY DEF NothingFails
<1>4. Spec => []UpdateAssertionsHold
  BY AssertionsHold
<1>5. Spec /\ []BanksLive => SingleCopy
  BY ChainIsOneBank
<1> QED
  BY <1>1, <1>2, <1>3, <1>4, <1>5, HistoryInvariant, StreamInvariant, PTL DEF Spec

-----------------------------------------------------------------------------
(* Sums.                                                                   *)

Any(s) == CHOOSE x \in s : TRUE

\* g sums the values of f over every subset of D.
Sums(f, D, g) ==
    /\ g[{}] = 0
    /\ \A s \in SUBSET D : s # {} => g[s] = f[Any(s)] + g[s \ {Any(s)}]

\* Any element of s may be taken first.
Splits(f, g, s) == \A x \in s : g[s] = f[x] + g[s \ {x}]

LEMMA SumRun ==
    ASSUME NEW D, IsFiniteSet(D), NEW f, DOMAIN f = D
    PROVE  \E g : SumFunction(f) = g[D] /\ Sums(f, D, g)
PROOF
<1> DEFINE n == Cardinality(D)
           Sub(m) == {s \in SUBSET D : Cardinality(s) <= m}
           Is(g, m) == g = [s \in Sub(m) |-> IF s = {} THEN 0
                                             ELSE f[Any(s)] + g[s \ {Any(s)}]]
           S == {m \in 0 .. n : \E g : Is(g, m)}
<1>1. n \in Nat /\ \A s \in SUBSET D : IsFiniteSet(s) /\ Cardinality(s) \in 0 .. n
  BY FS_Subset, FS_CardinalityType
<1>2. ASSUME NEW s \in SUBSET D, s # {}
      PROVE  /\ Any(s) \in s /\ s \ {Any(s)} \in SUBSET D
             /\ Cardinality(s \ {Any(s)}) = Cardinality(s) - 1
             /\ Cardinality(s) \in 1 .. n
  <2>1. Any(s) \in s
    BY <1>2 DEF Any
  <2>2. Cardinality(s \ {Any(s)}) = Cardinality(s) - 1
    BY <1>1, <2>1, FS_RemoveElement
  <2>3. Cardinality(s) # 0
    BY <1>1, <1>2, FS_EmptySet
  <2> QED
    BY <1>1, <2>1, <2>2, <2>3
<1> HIDE DEF n
<1>3. 0 \in S
  <2>1. \A s \in Sub(0) : s = {}
    <3> SUFFICES ASSUME NEW s \in SUBSET D, Cardinality(s) <= 0, s # {} PROVE FALSE
      OBVIOUS
    <3>1. Cardinality(s) \in 1 .. n
      BY <1>2
    <3> QED
      BY <1>1, <3>1
  <2>2. Is([s \in Sub(0) |-> 0], 0)
    <3> HIDE DEF Sub
    <3> QED
      BY <2>1
  <2> HIDE DEF Is
  <2> QED
    BY <1>1, <2>2
<1>4. ASSUME NEW m \in 1 .. n, m - 1 \in S PROVE m \in S
  <2>1. PICK g : Is(g, m - 1)
    BY <1>4
  <2> DEFINE h == [s \in Sub(m) |->
                    IF s \in Sub(m - 1) THEN g[s] ELSE f[Any(s)] + g[s \ {Any(s)}]]
  <2>2. {} \in Sub(m - 1) /\ {} \in Sub(m)
    BY <1>1, FS_EmptySet
  <2>3. \A s \in Sub(m) : s # {} => s \ {Any(s)} \in Sub(m - 1) /\ s \ {Any(s)} \in Sub(m)
    BY <1>1, <1>2
  <2>4. \A s \in Sub(m - 1) : s \in Sub(m)
    BY <1>1
  <2> HIDE DEF Sub
  <2>5. g[{}] = 0 /\ \A s \in Sub(m - 1) : s # {} => g[s] = f[Any(s)] + g[s \ {Any(s)}]
    BY <2>1, <2>2
  <2>6. h[{}] = 0
    BY <2>2, <2>5
  <2>7. \A s \in Sub(m) : s # {} => h[s] = f[Any(s)] + h[s \ {Any(s)}]
    BY <2>3, <2>5
  <2>8. h = [s \in Sub(m) |-> h[s]]
    OBVIOUS
  <2> HIDE DEF h
  <2>9. Is(h, m)
    BY <2>6, <2>7, <2>8
  <2> HIDE DEF Is
  <2> QED
    BY <2>9
<1>5. \E g : Is(g, n)
  <2>1. \A i \in 0 .. n : i \in S
    <3> HIDE DEF S
    <3> QED
      BY <1>1, <1>3, <1>4, Climb
  <2>2. n \in S
    <3> HIDE DEF S
    <3> QED
      BY <1>1, <2>1
  <2> HIDE DEF Is
  <2> QED
    BY <2>2
<1>6. Sub(n) = SUBSET D
  BY <1>1
<1> DEFINE Runs(g) == g = [s \in SUBSET D |-> IF s = {} THEN 0
                                              ELSE f[Any(s)] + g[s \ {Any(s)}]]
           run == CHOOSE g : Runs(g)
<1>7. \E g : Runs(g)
  <2> HIDE DEF Sub
  <2> QED
    BY <1>5, <1>6
<1>8. Runs(run)
  <2> HIDE DEF Runs
  <2> QED
    BY <1>7
<1>9. SumFunction(f) = run[D]
  BY DEF SumFunction, SumFunctionOnSet, FoldFunctionOnSet, MapThenFoldSet, Any
<1> HIDE DEF run
<1>10. Sums(f, D, run)
  BY <1>2, <1>8 DEF Sums
<1> QED
  BY <1>9, <1>10

LEMMA SumTake ==
    ASSUME NEW D, IsFiniteSet(D), NEW f \in [D -> Int], NEW g, Sums(f, D, g),
           NEW s \in SUBSET D
    PROVE  g[s] \in Int /\ Splits(f, g, s)
PROOF
<1> DEFINE n == Cardinality(D)
           S == {m \in 0 .. n : \A r \in SUBSET D : Cardinality(r) = m => g[r] \in Int}
           T == {m \in 0 .. n : \A r \in SUBSET D : Cardinality(r) = m => Splits(f, g, r)}
<1>1. n \in Nat /\ \A r \in SUBSET D : IsFiniteSet(r) /\ Cardinality(r) \in 0 .. n
  BY FS_Subset, FS_CardinalityType
<1>2. ASSUME NEW k \in SUBSET D, NEW x \in k
      PROVE  /\ k \ {x} \in SUBSET D /\ Cardinality(k \ {x}) = Cardinality(k) - 1
             /\ f[x] \in Int
  BY <1>1, FS_RemoveElement
<1>3. \A r \in SUBSET D : Cardinality(r) = 0 <=> r = {}
  BY <1>1, FS_EmptySet
<1>4. g[{}] = 0
  BY DEF Sums
<1>5. ASSUME NEW k \in SUBSET D, k # {}
      PROVE  \E x \in k : g[k] = f[x] + g[k \ {x}]
  BY <1>5 DEF Sums, Any
<1> HIDE DEF n
<1>6. 0 \in S /\ 0 \in T
  BY <1>1, <1>3, <1>4 DEF Splits
<1>7. ASSUME NEW m \in 1 .. n, m - 1 \in S PROVE m \in S
  <2> SUFFICES ASSUME NEW k \in SUBSET D, Cardinality(k) = m PROVE g[k] \in Int
    BY <1>1
  <2>1. PICK x \in k : g[k] = f[x] + g[k \ {x}]
    BY <1>3, <1>5
  <2>2. g[k \ {x}] \in Int /\ f[x] \in Int
    BY <1>2, <1>7
  <2> QED
    BY <2>1, <2>2
<1>8. \A r \in SUBSET D : g[r] \in Int
  <2>1. \A m \in 0 .. n : m \in S
    <3> HIDE DEF S
    <3> QED
      BY <1>1, <1>6, <1>7, Climb
  <2> QED
    BY <1>1, <2>1
<1>9. ASSUME NEW m \in 1 .. n, m - 1 \in T PROVE m \in T
  <2> SUFFICES ASSUME NEW k \in SUBSET D, Cardinality(k) = m, NEW x \in k
               PROVE  g[k] = f[x] + g[k \ {x}]
    BY <1>1 DEF Splits
  <2>1. PICK y \in k : g[k] = f[y] + g[k \ {y}]
    BY <1>5
  <2>2. CASE x # y
    <3>1. PICK p, q, r : p = k \ {x} /\ q = k \ {y} /\ r = p \ {y}
      OBVIOUS
    <3>2. r = q \ {x} /\ p \in SUBSET D /\ r \in SUBSET D
      BY <3>1
    <3>3. Splits(f, g, p) /\ Splits(f, g, q)
      BY <1>2, <1>9, <3>1
    <3>4. g[p] = f[y] + g[r] /\ g[q] = f[x] + g[r]
      BY <2>2, <3>1, <3>2, <3>3 DEF Splits
    <3>5. g[r] \in Int /\ f[x] \in Int /\ f[y] \in Int
      BY <1>2, <1>8, <3>2
    <3> QED
      BY <2>1, <3>1, <3>4, <3>5
  <2> QED
    BY <2>1, <2>2
<1>10. \A r \in SUBSET D : Splits(f, g, r)
  <2>1. \A m \in 0 .. n : m \in T
    <3> HIDE DEF T
    <3> QED
      BY <1>1, <1>6, <1>9, Climb
  <2> QED
    BY <1>1, <2>1
<1> QED
  BY <1>8, <1>10

LEMMA SumSplit ==
    ASSUME NEW D, IsFiniteSet(D), NEW f \in [D -> Int]
    PROVE  \E g : /\ SumFunction(f) = g[D] /\ Sums(f, D, g)
                 /\ Splits(f, g, D)
PROOF
<1>1. PICK g : SumFunction(f) = g[D] /\ Sums(f, D, g)
  BY SumRun
<1>2. Splits(f, g, D)
  <2>1. PICK s \in SUBSET D : s = D
    OBVIOUS
  <2>2. Sums(f, D, g)
    BY <1>1
  <2>3. Splits(f, g, s)
    BY <2>2, SumTake
  <2> QED
    BY <2>1, <2>3, Zenon
<1> QED
  BY <1>1, <1>2

\* One more value.
LEMMA SumAdd ==
    ASSUME NEW D, IsFiniteSet(D), NEW x, x \notin D, NEW E,
           \A z : z \in E <=> z \in D \/ z = x, NEW f \in [D -> Int],
           NEW h \in [E -> Int], \A y \in D : h[y] = f[y]
    PROVE  /\ SumFunction(f) \in Int
           /\ SumFunction(h) = SumFunction(f) + h[x]
PROOF
<1>1. IsFiniteSet(E)
  <2>1. E = D \cup {x}
    OBVIOUS
  <2> QED
    BY <2>1, FS_AddElement
<1>2. PICK p : SumFunction(f) = p[D] /\ Sums(f, D, p)
  BY SumRun
<1>3. PICK q : /\ SumFunction(h) = q[E] /\ Sums(h, E, q)
               /\ Splits(h, q, E)
  BY <1>1, SumSplit
<1>4. p[D] \in Int
  BY <1>2, SumTake
<1>5. q[E] = h[x] + q[D]
  <2>1. E \ {x} = D /\ x \in E
    OBVIOUS
  <2> QED
    BY <1>3, <2>1, Zenon DEF Splits
<1> DEFINE n == Cardinality(D)
           S == {m \in 0 .. n : \A s \in SUBSET D : Cardinality(s) = m => q[s] = p[s]}
<1>6. n \in Nat /\ \A s \in SUBSET D : IsFiniteSet(s) /\ Cardinality(s) \in 0 .. n
  BY FS_Subset, FS_CardinalityType
<1>7. \A s \in SUBSET D : Cardinality(s) = 0 <=> s = {}
  BY <1>6, FS_EmptySet
<1> HIDE DEF n
<1>8. 0 \in S
  <2>1. q[{}] = p[{}]
    BY <1>2, <1>3 DEF Sums
  <2> QED
    BY <1>6, <1>7, <2>1
<1>9. ASSUME NEW m \in 1 .. n, m - 1 \in S PROVE m \in S
  <2> SUFFICES ASSUME NEW s \in SUBSET D, Cardinality(s) = m PROVE q[s] = p[s]
    BY <1>6
  <2>1. s # {}
    BY <1>7
  <2>2. PICK y \in s : y = Any(s)
    BY <2>1 DEF Any
  <2>3. s \ {y} \in SUBSET D /\ Cardinality(s \ {y}) = m - 1
    BY <1>6, FS_RemoveElement
  <2>4. q[s \ {y}] = p[s \ {y}]
    BY <1>9, <2>3
  <2>5. p[s] = f[y] + p[s \ {y}] /\ q[s] = h[y] + q[s \ {y}]
    BY <1>2, <1>3, <2>1, <2>2 DEF Sums
  <2> QED
    BY <2>4, <2>5
<1>10. q[D] = p[D]
  <2>1. \A m \in 0 .. n : m \in S
    <3> HIDE DEF S
    <3> QED
      BY <1>6, <1>8, <1>9, Climb
  <2> QED
    BY <1>6, <2>1
<1>11. h[x] \in Int
  OBVIOUS
<1> QED
  BY <1>2, <1>3, <1>4, <1>5, <1>10, <1>11

\* Nothing to add.
LEMMA SumNothing ==
    ASSUME NEW f, DOMAIN f = {} PROVE SumFunction(f) = 0
PROOF
<1>1. PICK g : SumFunction(f) = g[{}] /\ Sums(f, {}, g)
  BY SumRun, FS_EmptySet
<1> QED
  BY <1>1 DEF Sums

-----------------------------------------------------------------------------
(* Every update counts once.                                               *)

\* One entry for each id.
OneEach(K) == \A e, f \in K : e.req.id = f.req.id => e = f

LEMMA GainsAt ==
    ASSUME NEW K, OneEach(K), NEW e \in K
    PROVE  e.req.id \in DOMAIN Gains(K) /\ Gains(K)[e.req.id] = Gain(e.req)
PROOF
<1>1. PICK f : f = CHOOSE x \in K : x.req.id = e.req.id
  OBVIOUS
<1>2. f \in K /\ f.req.id = e.req.id
  BY <1>1
<1>3. f = e
  BY <1>2 DEF OneEach
<1>4. e.req.id \in {x.req.id : x \in K}
  OBVIOUS
<1> QED
  BY <1>1, <1>3, <1>4 DEF Gains

\* An entry that has the id and the effect of another one adds nothing.
LEMMA GainsSame ==
    ASSUME NEW K, NEW M \in SUBSET K, OneEach(M),
           \A e \in K : \E f \in M : f.req.id = e.req.id /\ Gain(f.req) = Gain(e.req)
    PROVE  Gains(K) = Gains(M)
PROOF
<1>1. {e.req.id : e \in K} = {e.req.id : e \in M}
  <2>1. \A e \in K : e.req.id \in {f.req.id : f \in M}
    <3> SUFFICES ASSUME NEW e \in K PROVE e.req.id \in {f.req.id : f \in M}
      OBVIOUS
    <3>1. PICK f \in M : f.req.id = e.req.id
      OBVIOUS
    <3> QED
      BY <3>1
  <2> QED
    BY <2>1
<1>2. ASSUME NEW k \in {e.req.id : e \in M} PROVE Gains(K)[k] = Gains(M)[k]
  <2>1. PICK e \in M : e.req.id = k
    OBVIOUS
  <2>2. PICK x : x = CHOOSE y \in K : y.req.id = k
    OBVIOUS
  <2>3. x \in K /\ x.req.id = k
    BY <2>1, <2>2
  <2>4. PICK f \in M : f.req.id = k /\ Gain(f.req) = Gain(x.req)
    BY <2>3
  <2>5. Gains(K)[k] = Gain(x.req)
    BY <1>1, <2>2 DEF Gains
  <2>6. Gains(M)[k] = Gain(f.req)
    BY <2>4, GainsAt
  <2> QED
    BY <2>4, <2>5, <2>6
<1>3. /\ DOMAIN Gains(K) = {e.req.id : e \in K}
      /\ DOMAIN Gains(M) = {e.req.id : e \in M}
      /\ Gains(K) = [k \in DOMAIN Gains(K) |-> Gains(K)[k]]
      /\ Gains(M) = [k \in DOMAIN Gains(M) |-> Gains(M)[k]]
  BY DEF Gains
<1> QED
  BY <1>1, <1>2, <1>3

LEMMA GainsType ==
    ASSUME NEW K \in SUBSET Entry, OneEach(K)
    PROVE  Gains(K) \in [{e.req.id : e \in K} -> Int]
PROOF
<1>1. \A e \in K : Gain(e.req) \in Int
  <2> SUFFICES ASSUME NEW e \in K PROVE Gain(e.req) \in Int
    OBVIOUS
  <2>1. e.req \in Request
    BY DEF Entry
  <2>2. e.req.amount \in Nat
    BY <2>1, RequestFields
  <2> QED
    BY <2>2 DEF Gain
<1>2. ASSUME NEW k \in {e.req.id : e \in K} PROVE Gains(K)[k] \in Int
  <2>1. PICK e \in K : e.req.id = k
    OBVIOUS
  <2> QED
    BY <1>1, <2>1, GainsAt
<1>3. DOMAIN Gains(K) = {e.req.id : e \in K}
      /\ Gains(K) = [k \in DOMAIN Gains(K) |-> Gains(K)[k]]
  BY DEF Gains
<1> QED
  BY <1>2, <1>3

\* The effects of the entries K sum up to v.
Totals(K, v) == IsFiniteSet({e.req.id : e \in K}) /\ v = SumFunction(Gains(K))

\* The effect of a new update is added.
LEMMA TotalsAdd ==
    ASSUME NEW K \in SUBSET Entry, OneEach(K), NEW v, Totals(K, v),
           NEW e \in Entry, \A f \in K : f.req.id # e.req.id
    PROVE  Totals(K \cup {e}, v + Gain(e.req))
PROOF
<1> DEFINE L == K \cup {e}
           D == {f.req.id : f \in K}
           E == {f.req.id : f \in L}
<1>1. OneEach(L) /\ L \in SUBSET Entry
  BY DEF OneEach
<1>2. Gains(K) \in [D -> Int] /\ Gains(L) \in [E -> Int]
  BY <1>1, GainsType
<1>3. e.req.id \notin D /\ \A z : z \in E <=> z \in D \/ z = e.req.id
  OBVIOUS
<1>4. \A y \in D : Gains(L)[y] = Gains(K)[y]
  <2> SUFFICES ASSUME NEW f \in K PROVE Gains(L)[f.req.id] = Gains(K)[f.req.id]
    OBVIOUS
  <2>1. f \in L
    OBVIOUS
  <2> HIDE DEF L
  <2>2. Gains(L)[f.req.id] = Gain(f.req) /\ Gains(K)[f.req.id] = Gain(f.req)
    BY <1>1, <2>1, GainsAt
  <2> QED
    BY <2>2
<1>5. Gains(L)[e.req.id] = Gain(e.req)
  <2>1. e \in L
    OBVIOUS
  <2> HIDE DEF L
  <2> QED
    BY <1>1, <2>1, GainsAt
<1>6. IsFiniteSet(D) /\ v = SumFunction(Gains(K))
  BY DEF Totals
<1>7. IsFiniteSet(E)
  <2>1. E = D \cup {e.req.id}
    OBVIOUS
  <2> HIDE DEF D, E
  <2> QED
    BY <1>6, <2>1, FS_AddElement
<1> HIDE DEF D, E, L
<1>8. SumFunction(Gains(L)) = SumFunction(Gains(K)) + Gains(L)[e.req.id]
  <2>1. PICK g \in [D -> Int], h \in [E -> Int] : g = Gains(K) /\ h = Gains(L)
    BY <1>2
  <2>2. PICK x : x = e.req.id
    OBVIOUS
  <2>3. \A y \in D : h[y] = g[y]
    BY <1>4, <2>1
  <2>4. x \notin D
    BY <1>3, <2>2
  <2>5. \A z : z \in E <=> z \in D \/ z = x
    BY <1>3, <2>2
  <2>6. IsFiniteSet(D)
    BY <1>6
  <2>7. SumFunction(h) = SumFunction(g) + h[x]
    BY <2>3, <2>4, <2>5, <2>6, SumAdd
  <2> QED
    BY <2>1, <2>2, <2>7
<1> QED
  BY <1>5, <1>6, <1>7, <1>8 DEF Totals, L, E

\* Every balance of ledger k is what its processed updates add up to.
Counts(k) == \A a \in Accounts : Totals(Effective(k.processed, a), k.bal[a])

LEMMA MovedCounts ==
    ASSUME NEW k \in Ledger, k.accts = Accounts, k.sent = <<>>,
           Unique(k.processed), Counts(k), NEW req \in Request,
           NEW next, next = Moved(k, req)
    PROVE  Counts(next)
PROOF
<1> DEFINE mine == Matches(k.processed, req)
<1>1. PICK u : u = update_request_reply(k, req)
  OBVIOUS
<1>2. PICK bal : bal = IF mine = {} THEN update_balance(k, req) ELSE k.bal
  OBVIOUS
<1>3. History(k, req) = mine
  <2>1. PICK p, q : p = PlainLedger(k) /\ q = Bare(req)
    OBVIOUS
  <2> QED
    BY <2>1, PlainHistory
<1>4. Updated(k, req, mine, bal, u)
  BY <1>1, <1>2, <1>3, UpdateParts
<1>5. u.check = "NEWREQ" <=> mine = {}
  BY <1>1, <1>3, Verdict
<1>6. /\ next.bal = bal
      /\ next.processed = IF mine = {} THEN k.processed \cup {u.entry} ELSE k.processed
  <2>1. u.ledger.bal = bal
    BY <1>4 DEF Updated, Ledger
  <2>2. next = [k EXCEPT !.bal = u.ledger.bal,
                  !.processed = IF u.check = "NEWREQ" THEN @ \cup {u.entry} ELSE @]
    BY <1>1, Zenon DEF Moved
  <2> HIDE DEF mine
  <2>3. /\ next.bal = u.ledger.bal
        /\ next.processed = IF u.check = "NEWREQ" THEN k.processed \cup {u.entry}
                            ELSE k.processed
    BY <2>2 DEF Ledger
  <2> QED
    BY <1>5, <2>1, <2>3
<1>7. CASE mine # {}
  BY <1>2, <1>6, <1>7 DEF Counts
<1>8. CASE mine = {}
  <2>1. u.entry \in Entry /\ u.entry.req = req
    BY <1>1, UpdateRequestReply
  <2>2. u.entry.reply.outcome = "PROCESSED" <=> Covered(k, req)
    BY <1>4, <1>8 DEF Updated
  <2>3. next.processed = k.processed \cup {u.entry} /\ next.bal = update_balance(k, req)
    BY <1>2, <1>6, <1>8
  <2>4. /\ k.bal \in [Accounts -> Int] /\ req.acct \in Accounts /\ req.amount \in Nat
        /\ k.processed \in SUBSET Entry
    BY LedgerFields, RequestFields
  <2> SUFFICES ASSUME NEW a \in Accounts
               PROVE  Totals(Effective(next.processed, a), next.bal[a])
    BY DEF Counts
  <2>5. PICK K : K = Effective(k.processed, a)
    OBVIOUS
  <2>6. Totals(K, k.bal[a])
    BY <2>5 DEF Counts
  <2>7. CASE ~Covered(k, req)
    <3>1. next.bal = k.bal
      BY <2>3, <2>7 DEF update_balance
    <3>2. Effective(next.processed, a) = K
      BY <2>2, <2>3, <2>5, <2>7 DEF Effective
    <3> QED
      BY <2>6, <3>1, <3>2
  <2>8. CASE Covered(k, req) /\ a # req.acct
    <3>1. next.bal[a] = k.bal[a]
      BY <2>3, <2>4, <2>8 DEF update_balance
    <3>2. Effective(next.processed, a) = K
      BY <2>1, <2>3, <2>5, <2>8 DEF Effective
    <3> QED
      BY <2>6, <3>1, <3>2
  <2>9. CASE Covered(k, req) /\ a = req.acct
    <3>1. next.bal[a] = k.bal[a] + Gain(req)
      BY <2>3, <2>4, <2>9 DEF update_balance, Gain
    <3>2. Effective(next.processed, a) = K \cup {u.entry}
      BY <2>1, <2>2, <2>3, <2>5, <2>9 DEF Effective
    <3>3. OneEach(K) /\ K \in SUBSET Entry
      BY <2>4, <2>5 DEF OneEach, Effective, Unique, SameKey
    <3>4. \A f \in K : f.req.id # u.entry.req.id
      BY <1>8, <2>1, <2>5, <2>9 DEF Effective, Matches, SameKey
    <3>5. Totals(K \cup {u.entry}, k.bal[a] + Gain(u.entry.req))
      BY <2>1, <2>6, <3>3, <3>4, TotalsAdd
    <3> QED
      BY <2>1, <3>1, <3>2, <3>5
  <2> QED
    BY <2>7, <2>8, <2>9
<1> QED
  BY <1>7, <1>8

\* So it is for every ledger of a log.
LEMMA LogCounts ==
    ASSUME NEW b, NEW log \in Logs, GoodLog(b, log), NEW n \in 0 .. log.top,
           NEW k, k = log.led[n]
    PROVE  Counts(k)
PROOF
<1> DEFINE S == {i \in 0 .. log.top : Counts(log.led[i])}
<1>1. log.top \in Nat
  BY LogFields
<1>2. 0 \in S
  <2>1. PICK l : l = log.led[0]
    OBVIOUS
  <2>2. l.processed = {} /\ \A a \in Accounts : l.bal[a] = 0
    BY <2>1 DEF GoodLog, Canon, Memory, EmptyLedger
  <2>3. ASSUME NEW a \in Accounts PROVE Totals(Effective(l.processed, a), l.bal[a])
    <3>1. PICK K : K = Effective(l.processed, a)
      OBVIOUS
    <3>2. K = {}
      BY <2>2, <3>1 DEF Effective
    <3>3. {e.req.id : e \in K} = {} /\ DOMAIN Gains(K) = {}
      BY <3>2 DEF Gains
    <3>4. SumFunction(Gains(K)) = 0
      BY <3>3, SumNothing
    <3> QED
      BY <2>2, <3>1, <3>3, <3>4, FS_EmptySet DEF Totals
  <2> QED
    BY <1>1, <2>1, <2>3 DEF Counts
<1>3. ASSUME NEW i \in 1 .. log.top, i - 1 \in S PROVE i \in S
  <2>1. PICK l, r, next : l = log.led[i - 1] /\ r = log.req[i] /\ next = log.led[i]
    OBVIOUS
  <2>2. i - 1 \in 0 .. log.top /\ i \in 0 .. log.top
    BY <1>1
  <2>3. l \in Ledger /\ l.accts = Accounts /\ l.sent = <<>> /\ Unique(l.processed)
    BY <2>1, <2>2, LogLedgers
  <2>4. r \in Request /\ next = Moved(l, r) /\ Counts(l)
    BY <1>3, <2>1 DEF GoodLog, Ours
  <2>5. Counts(next)
    BY <2>3, <2>4, MovedCounts
  <2> QED
    BY <2>1, <2>2, <2>5
<1>4. \A i \in 0 .. log.top : i \in S
  <2> HIDE DEF S
  <2> QED
    BY <1>1, <1>2, <1>3, Climb
<1> QED
  BY <1>4

\* What waits in sent_list_ beside the memory are retries: a consistent one has
\* the effect of the update that it repeats, any other was not processed.
LEMMA SentCounts ==
    ASSUME NEW b, NEW log \in Logs, GoodLog(b, log), NEW st \in ServerState,
           StateInLog(b, log, st), NEW l, l = st.ledger, NEW a \in Accounts
    PROVE  l.bal[a] = SumFunction(Gains(Effective(
                l.processed \cup {l.sent[i] : i \in DOMAIN l.sent}, a)))
PROOF
<1> DEFINE sent == {l.sent[i] : i \in DOMAIN l.sent}
<1>1. PICK n, k : n = st.bank_update_seq /\ k = log.led[n]
  OBVIOUS
<1>2. /\ n \in 0 .. log.top /\ l \in Ledger /\ k.processed = Memory(l)
      /\ k.bal = l.bal /\ Unique(k.processed)
  BY <1>1, StateLedger
<1>3. Counts(k)
  BY <1>1, <1>2, LogCounts
<1>4. PICK M, K : M = Effective(k.processed, a) /\ K = Effective(l.processed \cup sent, a)
  OBVIOUS
<1>5. l.bal[a] = SumFunction(Gains(M))
  BY <1>2, <1>3, <1>4 DEF Counts, Totals
<1>6. M \in SUBSET K
  BY <1>2, <1>4 DEF Effective, Memory
<1>7. OneEach(M)
  BY <1>2, <1>4 DEF OneEach, Effective, Unique, SameKey
<1>8. ASSUME NEW e \in K
      PROVE  \E f \in M : f.req.id = e.req.id /\ Gain(f.req) = Gain(e.req)
  <2>1. e.req.acct = a /\ e.reply.outcome = "PROCESSED" /\ e \in l.processed \cup sent
    BY <1>4 DEF Effective
  <2>2. CASE e \in l.processed
    <3>1. e \in M
      BY <1>2, <1>4, <2>1, <2>2 DEF Effective, Memory
    <3> QED
      BY <3>1
  <2>3. CASE e \in sent
    <3>1. PICK f \in k.processed : Decides(f, e)
      <4>1. PICK i \in DOMAIN l.sent : e = l.sent[i]
        BY <2>3
      <4> QED
        BY <1>1, <4>1 DEF StateInLog
    <3>2. SameKey(f.req, e.req) /\ req_consistent(e.req, f.req) /\ e.reply = f.reply
      BY <2>1, <3>1 DEF Decides
    <3>3. f \in M
      BY <1>4, <2>1, <3>2 DEF Effective, SameKey
    <3>4. f.req.id = e.req.id /\ Gain(f.req) = Gain(e.req)
      BY <3>2 DEF SameKey, req_consistent, Gain, Debits
    <3> QED
      BY <3>3, <3>4
  <2> QED
    BY <2>1, <2>2, <2>3
<1>9. Gains(K) = Gains(M)
  BY <1>6, <1>7, <1>8, GainsSame
<1> QED
  BY <1>4, <1>5, <1>9

\* The balance of every account is, at every living server and after any
\* retries and crashes, the sum over the updates in its history that were
\* answered PROCESSED, each id counted once: none is applied twice, none is
\* applied and forgotten.
THEOREM UpdatesCountOnce ==
    ASSUME PlainUpdates PROVE Spec => []AppliedOnce
PROOF
<1>1. ASSUME IInv, HistoryInv PROVE AppliedOnce
  <2> SUFFICES ASSUME NEW s \in alive, NEW l, l = srv[s].ledger, NEW a \in Accounts
               PROVE  l.bal[a] = SumFunction(Gains(Effective(
                            l.processed \cup {l.sent[i] : i \in DOMAIN l.sent}, a)))
    BY DEF AppliedOnce, BalancesFromHistory
  <2> DEFINE b == BankOf[s]
  <2>1. b \in Banks /\ srv[s] \in ServerState /\ s \in Living(b)
    BY <1>1, ChainAssumption DEF IInv, TypeOK, Living
  <2>2. PICK log \in Logs : Logged(b, log)
    BY <1>1, <2>1 DEF HistoryInv
  <2>3. GoodLog(b, log) /\ StateInLog(b, log, srv[s])
    BY <2>1, <2>2 DEF Logged
  <2> HIDE DEF b
  <2> QED
    BY <2>1, <2>3, SentCounts
<1>2. IInv /\ RolesInv /\ SeqInv /\ PlainInv /\ HistoryInv => AppliedOnce
  BY <1>1
<1> QED
  BY <1>2, HistoryInvariant, PTL
=============================================================================
