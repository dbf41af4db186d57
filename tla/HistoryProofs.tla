--------------------------- MODULE HistoryProofs ---------------------------
(***************************************************************************)
(* What a client has been told is never forgotten.  The banks' clients     *)
(* send no transfers here, and use an id for one account only.             *)
(*                                                                         *)
(* Two servers that have applied the same number of updates hold the same  *)
(* history, though one may have filed an entry in processed_map_ that the  *)
(* other still has in sent_list_, and a retry may be in both.  Canon       *)
(* removes this difference, and every handler either leaves the canonical  *)
(* ledger alone or moves it as one update does.                            *)
(*                                                                         *)
(* The invariant says that each bank has a log, a sequence of updates with *)
(* the canonical ledger after each of them, in which every living server,  *)
(* every update on its way to one, and every reply is found.  The log is   *)
(* no variable: a step may choose another one.  A head that numbers an     *)
(* update cuts off what followed its own last one, which only servers that *)
(* have crashed can have applied, and goes on with the new update.         *)
(***************************************************************************)
EXTENDS StreamProofs

\* An update of a client of bank b, numbered or not.
Ours(b, r) ==
    /\ r \in Request /\ r.bank = b /\ r.type \in {"DEPOSIT", "WITHDRAW"}
    /\ [r EXCEPT !.seq = 0] \in ClientUpdates

-----------------------------------------------------------------------------
(* The memory of a ledger: what it has filed as processed, and what waits  *)
(* in sent_list_ and would be filed if it were acknowledged.               *)

Unfiled(l, i) ==
    /\ \A e \in l.processed : ~SameKey(e.req, l.sent[i].req)
    /\ \A j \in 1 .. (i - 1) : ~SameKey(l.sent[j].req, l.sent[i].req)

Memory(l) ==
    l.processed \cup {l.sent[i] : i \in {i \in DOMAIN l.sent : Unfiled(l, i)}}

\* The ledger as it is when everything is filed and every account exists.
Canon(l) == [accts |-> Accounts, bal |-> l.bal, processed |-> Memory(l),
             sent |-> <<>>]

\* Whatever waits in the sent list has an entry with its key that is filed, or
\* waits no later.
LEMMA FirstOfKey ==
    ASSUME NEW l \in Ledger, NEW i \in DOMAIN l.sent
    PROVE  \/ \E e \in l.processed : SameKey(e.req, l.sent[i].req)
           \/ \E m \in DOMAIN l.sent : /\ m <= i /\ Unfiled(l, m)
                                       /\ SameKey(l.sent[m].req, l.sent[i].req)
PROOF
<1> DEFINE q == l.sent
           S == {j \in 1 .. i : SameKey(q[j].req, q[i].req)}
<1>1. q \in Seq(Entry) /\ i \in Nat /\ i >= 1 /\ i <= Len(q)
      /\ DOMAIN q = 1 .. Len(q) /\ Len(q) \in Nat
  BY LedgerFields
<1>2. i \in S /\ S \in SUBSET Nat
  BY <1>1 DEF SameKey
<1>3. PICK m \in S : \A t \in S : <<t, m>> \notin OpToRel(<, Nat)
  BY <1>2, NatLessThanWellFounded, WFMin
<1>4. \A t \in S : ~(t < m)
  BY <1>2, <1>3 DEF OpToRel
<1>5. /\ m \in 1 .. i /\ SameKey(q[m].req, q[i].req) /\ m \in DOMAIN q
      /\ \A j \in 1 .. (m - 1) : ~SameKey(q[j].req, q[i].req)
  BY <1>1, <1>4
<1>6. CASE \E e \in l.processed : SameKey(e.req, q[m].req)
  BY <1>5, <1>6 DEF SameKey
<1>7. CASE \A e \in l.processed : ~SameKey(e.req, q[m].req)
  <2>1. \A j \in 1 .. (m - 1) : ~SameKey(q[j].req, q[m].req)
    BY <1>5 DEF SameKey
  <2>2. Unfiled(l, m)
    BY <1>7, <2>1 DEF Unfiled
  <2> QED
    BY <1>1, <1>5, <2>2
<1> QED
  BY <1>6, <1>7

LEMMA KeyInMemory ==
    ASSUME NEW l \in Ledger, NEW i \in DOMAIN l.sent
    PROVE  \E e \in Memory(l) : SameKey(e.req, l.sent[i].req)
PROOF
  BY FirstOfKey DEF Memory

LEMMA MemoryType ==
    ASSUME NEW l \in Ledger
    PROVE  Memory(l) \in SUBSET Entry /\ Canon(l) \in Ledger
PROOF
<1>1. Memory(l) \in SUBSET Entry
  BY LedgerFields DEF Memory
<1>2. <<>> \in Seq(Entry) /\ l.bal \in [Accounts -> Int]
  BY LedgerFields
<1> HIDE DEF Memory
<1> QED
  BY <1>1, <1>2 DEF Canon, Ledger

\* An entry that is appended to the sent list.
LEMMA MemoryAppend ==
    ASSUME NEW l \in Ledger, NEW e \in Entry
    PROVE  LET k == insert_sent_list(l, e)
           IN  /\ (\E f \in Memory(l) : SameKey(f.req, e.req)) =>
                        Memory(k) = Memory(l)
               /\ (\A f \in Memory(l) : ~SameKey(f.req, e.req)) =>
                        Memory(k) = Memory(l) \cup {e}
PROOF
<1> DEFINE k == insert_sent_list(l, e)
           q == l.sent
           n == Len(q) + 1
<1>1. q \in Seq(Entry) /\ Len(q) \in Nat /\ DOMAIN q = 1 .. Len(q)
  BY LedgerFields
<1>2. k.processed = l.processed /\ k.sent = Append(q, e)
  BY DEF insert_sent_list, Ledger
<1>3. /\ DOMAIN k.sent = DOMAIN q \cup {n} /\ n \notin DOMAIN q /\ k.sent[n] = e
      /\ \A i \in DOMAIN q : k.sent[i] = q[i]
  BY <1>1, <1>2
<1>4. ASSUME NEW i \in DOMAIN q PROVE Unfiled(k, i) <=> Unfiled(l, i)
  <2>1. \A j \in 1 .. (i - 1) : j \in DOMAIN q
    BY <1>1
  <2> QED
    BY <1>2, <1>3, <2>1 DEF Unfiled
<1>5. Unfiled(k, n) <=>
        /\ \A f \in l.processed : ~SameKey(f.req, e.req)
        /\ \A j \in DOMAIN q : ~SameKey(q[j].req, e.req)
  <2>1. 1 .. (n - 1) = DOMAIN q
    BY <1>1
  <2> QED
    BY <1>2, <1>3, <2>1 DEF Unfiled
<1>6. Unfiled(k, n) <=> \A f \in Memory(l) : ~SameKey(f.req, e.req)
  <2>1. ASSUME \A f \in Memory(l) : ~SameKey(f.req, e.req), NEW j \in DOMAIN q
        PROVE  ~SameKey(q[j].req, e.req)
    BY <2>1, KeyInMemory DEF SameKey
  <2>2. (\A f \in Memory(l) : ~SameKey(f.req, e.req)) => Unfiled(k, n)
    BY <1>5, <2>1 DEF Memory
  <2>3. Unfiled(k, n) => \A f \in Memory(l) : ~SameKey(f.req, e.req)
    BY <1>5 DEF Memory
  <2> QED
    BY <2>2, <2>3
<1>7. Memory(k) = Memory(l) \cup (IF Unfiled(k, n) THEN {e} ELSE {})
  <2> HIDE DEF k, q, n
  <2>1. Memory(k) = k.processed \cup
                {k.sent[i] : i \in {i \in DOMAIN k.sent : Unfiled(k, i)}}
    BY DEF Memory
  <2>2. Memory(l) = l.processed \cup {q[i] : i \in {i \in DOMAIN q : Unfiled(l, i)}}
    BY DEF Memory, q
  <2> QED
    BY <1>2, <1>3, <1>4, <2>1, <2>2
<1> QED
  BY <1>6, <1>7

\* A new entry that is filed at once.
LEMMA MemoryFile ==
    ASSUME NEW l \in Ledger, NEW e \in Entry,
           \A f \in Memory(l) : ~SameKey(f.req, e.req)
    PROVE  LET k == insert_processed_list(l, <<e>>)
           IN  Memory(k) = Memory(l) \cup {e} /\ k.processed = l.processed \cup {e}
PROOF
<1> DEFINE k == insert_processed_list(l, <<e>>)
           q == l.sent
           new(i) == /\ \A f \in l.processed : ~SameKey(f.req, <<e>>[i].req)
                     /\ \A j \in 1 .. (i - 1) :
                            ~SameKey(<<e>>[j].req, <<e>>[i].req)
<1>1. /\ k.sent = q
      /\ k.processed = l.processed \cup
                {<<e>>[i] : i \in {i \in DOMAIN <<e>> : new(i)}}
  BY DEF insert_processed_list, Ledger
<1>2. new(1)
  BY DEF Memory
<1>3. k.processed = l.processed \cup {e}
  <2>1. DOMAIN <<e>> = {1} /\ <<e>>[1] = e
    OBVIOUS
  <2> HIDE DEF new
  <2> QED
    BY <1>1, <1>2, <2>1
<1>4. ASSUME NEW i \in DOMAIN q PROVE ~SameKey(e.req, q[i].req)
  BY KeyInMemory DEF SameKey
<1>5. \A i \in DOMAIN q : Unfiled(k, i) <=> Unfiled(l, i)
  BY <1>1, <1>3, <1>4 DEF Unfiled
<1> HIDE DEF k
<1>6. Memory(k) = Memory(l) \cup {e}
  BY <1>1, <1>3, <1>5 DEF Memory
<1> QED
  BY <1>3, <1>6 DEF k

\* The front of the sent list is filed.
LEMMA MemoryPrefix ==
    ASSUME NEW l \in Ledger, NEW n \in 0 .. Len(l.sent)
    PROVE  LET k == insert_processed_list(l, SubSeq(l.sent, 1, n))
           IN  Memory([k EXCEPT !.sent = SubSeq(l.sent, n + 1, Len(l.sent))])
                    = Memory(l)
PROOF
<1> DEFINE q == l.sent
           N == Len(q)
           es == SubSeq(q, 1, n)
           rest == SubSeq(q, n + 1, N)
           k == insert_processed_list(l, es)
           m == [k EXCEPT !.sent = rest]
           new(i) == /\ \A f \in l.processed : ~SameKey(f.req, es[i].req)
                     /\ \A j \in 1 .. (i - 1) : ~SameKey(es[j].req, es[i].req)
<1>1. q \in Seq(Entry) /\ N \in Nat /\ DOMAIN q = 1 .. N /\ n \in Nat /\ n <= N
  BY LedgerFields
<1>2. /\ DOMAIN es = 1 .. n /\ \A i \in 1 .. n : es[i] = q[i]
      /\ DOMAIN rest = 1 .. (N - n) /\ \A i \in 1 .. (N - n) : rest[i] = q[n + i]
      /\ es \in Seq(Entry) /\ rest \in Seq(Entry)
  BY <1>1
<1>3. k.processed = l.processed \cup {es[i] : i \in {i \in DOMAIN es : new(i)}}
  BY DEF insert_processed_list, Ledger
<1>4. k \in Ledger
  BY <1>2, Filing
<1>5. m.processed = k.processed /\ m.sent = rest
  BY <1>4 DEF Ledger
<1> HIDE DEF es, rest, k, m
<1>6. \A i \in 1 .. n : new(i) <=> Unfiled(l, i)
  <2> SUFFICES ASSUME NEW i \in 1 .. n PROVE new(i) <=> Unfiled(l, i)
    OBVIOUS
  <2>1. \A j \in 1 .. (i - 1) : j \in 1 .. n
    BY <1>1
  <2> QED
    BY <1>2, <2>1 DEF Unfiled
<1> HIDE DEF new
<1>7. m.processed = l.processed \cup {q[i] : i \in {i \in 1 .. n : Unfiled(l, i)}}
  <2> DEFINE F == {i \in 1 .. n : Unfiled(l, i)}
  <2>1. {i \in DOMAIN es : new(i)} = F
    BY <1>2, <1>6
  <2>2. \A i \in F : es[i] = q[i]
    BY <1>2
  <2> HIDE DEF F
  <2>3. {es[i] : i \in F} = {q[i] : i \in F}
    BY <2>2
  <2> QED
    BY <1>3, <1>5, <2>1, <2>3 DEF F
<1>8. ASSUME NEW i \in 1 .. (N - n) PROVE Unfiled(m, i) <=> Unfiled(l, n + i)
  <2>1. n + i \in DOMAIN q /\ m.sent[i] = q[n + i]
    BY <1>1, <1>2, <1>5
  <2>2. \A j \in 1 .. (i - 1) : m.sent[j] = q[n + j] /\ n + j \in 1 .. (n + i - 1)
    BY <1>1, <1>2, <1>5
  <2>3. 1 .. n \in SUBSET (1 .. (n + i - 1)) /\ 1 .. n \in SUBSET (DOMAIN q)
    BY <1>1
  <2>4. ASSUME Unfiled(l, n + i) PROVE Unfiled(m, i)
    BY <1>7, <2>1, <2>2, <2>3, <2>4 DEF Unfiled
  <2>5. ASSUME Unfiled(m, i), NEW j \in 1 .. (n + i - 1)
        PROVE  ~SameKey(q[j].req, q[n + i].req)
    <3>1. CASE j \in 1 .. n
      <4>1. j \in DOMAIN q
        BY <2>3, <3>1
      <4>2. \/ \E e \in l.processed : SameKey(e.req, q[j].req)
            \/ \E x \in DOMAIN q : /\ x <= j /\ Unfiled(l, x)
                                   /\ SameKey(q[x].req, q[j].req)
        BY <4>1, FirstOfKey
      <4>3. \E e \in m.processed : SameKey(e.req, q[j].req)
        <5>1. ASSUME NEW x \in DOMAIN q, x <= j PROVE x \in 1 .. n
          BY <1>1, <3>1, <5>1
        <5> QED
          BY <1>7, <4>2, <5>1
      <4> QED
        BY <2>1, <2>5, <4>3 DEF Unfiled, SameKey
    <3>2. CASE j \notin 1 .. n
      <4>1. j - n \in 1 .. (i - 1) /\ n + (j - n) = j
        BY <1>1, <3>2
      <4> QED
        BY <2>1, <2>2, <2>5, <4>1 DEF Unfiled
    <3> QED
      BY <3>1, <3>2
  <2>6. ASSUME Unfiled(m, i) PROVE Unfiled(l, n + i)
    BY <1>7, <2>1, <2>5, <2>6 DEF Unfiled
  <2> QED
    BY <2>4, <2>6
<1>9. {m.sent[i] : i \in {i \in DOMAIN m.sent : Unfiled(m, i)}} =
        {q[i] : i \in {i \in (n + 1) .. N : Unfiled(l, i)}}
  <2>1. DOMAIN m.sent = 1 .. (N - n)
    BY <1>2, <1>5
  <2>2. \A i \in 1 .. (N - n) : m.sent[i] = q[n + i] /\ n + i \in (n + 1) .. N
    BY <1>1, <1>2, <1>5
  <2>3. \A i \in (n + 1) .. N : i - n \in 1 .. (N - n) /\ n + (i - n) = i
    BY <1>1
  <2> DEFINE A == {i \in DOMAIN m.sent : Unfiled(m, i)}
             B == {i \in (n + 1) .. N : Unfiled(l, i)}
  <2>4. \A i \in A : n + i \in B /\ m.sent[i] = q[n + i]
    BY <1>8, <2>1, <2>2
  <2>5. \A i \in B : i - n \in A /\ m.sent[i - n] = q[i]
    <3> SUFFICES ASSUME NEW i \in B PROVE i - n \in A /\ m.sent[i - n] = q[i]
      OBVIOUS
    <3>1. i - n \in 1 .. (N - n) /\ n + (i - n) = i /\ Unfiled(l, i)
      BY <2>3
    <3> QED
      BY <1>8, <2>1, <2>2, <3>1
  <2> HIDE DEF A, B
  <2>6. {m.sent[i] : i \in A} = {q[i] : i \in B}
    BY <2>4, <2>5
  <2> QED
    BY <2>6 DEF A, B
<1>10. DOMAIN q = (1 .. n) \cup ((n + 1) .. N)
  BY <1>1
<1>11. Memory(m) = Memory(l)
  BY <1>7, <1>9, <1>10 DEF Memory
<1> QED
  BY <1>11 DEF m, k, es, rest

-----------------------------------------------------------------------------
(* The history check depends on the memory only.                           *)

\* All that ledger l holds are updates of clients of bank b, on accounts that
\* exist.
Tidy(b, l) ==
    /\ \A e \in l.processed : Ours(b, e.req) /\ e.req.acct \in l.accts
    /\ \A i \in DOMAIN l.sent : /\ Ours(b, l.sent[i].req)
                                /\ l.sent[i].req.acct \in l.accts

Matches(mem, req) == {e \in mem : SameKey(e.req, req)}

LEMMA OursKey ==
    ASSUME PlainUpdates, NEW b, NEW r, NEW q, Ours(b, r), Ours(b, q), r.id = q.id
    PROVE  SameKey(r, q)
PROOF
<1>1. \A x \in Request : LET y == [x EXCEPT !.seq = 0]
                         IN  y.bank = x.bank /\ y.id = x.id /\ y.acct = x.acct
  BY DEF Request, RequestRecord
<1>2. PICK x \in ClientUpdates, y \in ClientUpdates :
            x = [r EXCEPT !.seq = 0] /\ y = [q EXCEPT !.seq = 0]
  BY DEF Ours
<1>3. /\ x.bank = b /\ x.id = r.id /\ x.acct = r.acct
      /\ y.bank = b /\ y.id = q.id /\ y.acct = q.acct
  BY <1>1, <1>2 DEF Ours
<1> QED
  BY <1>3 DEF PlainUpdates, SameKey

LEMMA HistoryOfMemory ==
    ASSUME PlainUpdates, NEW b, NEW l \in Ledger, Tidy(b, l),
           NEW req, Ours(b, req)
    PROVE  History(l, req) = Matches(Memory(l), req)
PROOF
<1> DEFINE q == l.sent
           done == {e \in l.processed : SameKey(e.req, req)}
           wait == {q[i] : i \in {i \in DOMAIN q : FirstSent(q, req, i)}}
<1>1. q \in Seq(Entry) /\ Len(q) \in Nat /\ DOMAIN q = 1 .. Len(q)
  BY LedgerFields
<1>2. History(l, req) = CASE req.acct \notin l.accts -> {}
                          [] req.acct \in l.accts /\ done # {} -> done
                          [] OTHER -> wait
  BY DEF History
<1>3. \A e \in Memory(l) : e.req.acct \in l.accts
  BY DEF Memory, Tidy
<1>4. done \in SUBSET Matches(Memory(l), req)
  BY DEF Memory, Matches
<1>5. ASSUME NEW e \in Matches(Memory(l), req), e \notin done
      PROVE  \E i \in DOMAIN q : /\ Unfiled(l, i) /\ e = q[i]
                                 /\ SameKey(q[i].req, req)
  BY <1>5 DEF Memory, Matches
<1>6. ASSUME NEW i \in DOMAIN q, Unfiled(l, i), SameKey(q[i].req, req)
      PROVE  done = {} /\ FirstSent(q, req, i)
  <2>1. done = {}
    BY <1>6 DEF Unfiled, SameKey
  <2>2. ASSUME NEW j \in 1 .. (i - 1), q[j].req.id = req.id PROVE FALSE
    <3>1. j \in DOMAIN q
      BY <1>1
    <3>2. SameKey(q[j].req, req)
      BY <2>2, <3>1, OursKey DEF Tidy
    <3> QED
      BY <1>6, <3>2 DEF Unfiled, SameKey
  <2> QED
    BY <1>6, <2>1, <2>2 DEF FirstSent, SameKey
<1>7. ASSUME NEW i \in DOMAIN q, FirstSent(q, req, i), done = {}
      PROVE  q[i] \in Matches(Memory(l), req)
  <2>1. SameKey(q[i].req, req)
    BY <1>7, OursKey DEF FirstSent, Tidy
  <2>2. Unfiled(l, i)
    BY <1>7, <2>1 DEF FirstSent, SameKey, Unfiled
  <2> QED
    BY <2>1, <2>2 DEF Memory, Matches
<1>8. CASE req.acct \notin l.accts
  <2>1. Matches(Memory(l), req) = {}
    BY <1>3, <1>8 DEF Matches, SameKey
  <2> QED
    BY <1>2, <1>8, <2>1
<1>9. CASE req.acct \in l.accts /\ done # {}
  <2>1. Matches(Memory(l), req) = done
    BY <1>4, <1>5, <1>6, <1>9
  <2> HIDE DEF done
  <2> QED
    BY <1>2, <1>9, <2>1
<1>10. CASE req.acct \in l.accts /\ done = {}
  <2>1. Matches(Memory(l), req) = wait
    BY <1>5, <1>6, <1>7, <1>10
  <2> HIDE DEF done, wait
  <2> QED
    BY <1>2, <1>10, <2>1
<1> QED
  BY <1>8, <1>9, <1>10

LEMMA HistoryOfCanon ==
    ASSUME NEW l \in Ledger, NEW req \in Request
    PROVE  History(Canon(l), req) = Matches(Memory(l), req)
PROOF
<1> DEFINE k == Canon(l)
<1>1. /\ k.accts = Accounts /\ k.processed = Memory(l) /\ k.sent = <<>>
      /\ req.acct \in Accounts
  BY RequestFields DEF Canon
<1>2. {e \in k.processed : SameKey(e.req, req)} = Matches(Memory(l), req)
  BY <1>1 DEF Matches
<1>3. {k.sent[i] : i \in {i \in DOMAIN k.sent : FirstSent(k.sent, req, i)}} = {}
  BY <1>1
<1> HIDE DEF k
<1>4. History(k, req) = IF Matches(Memory(l), req) # {}
                        THEN Matches(Memory(l), req) ELSE {}
  BY <1>1, <1>2, <1>3 DEF History
<1> QED
  BY <1>4 DEF k

\* So a server and its canonical ledger treat an update alike.
LEMMA SameVerdict ==
    ASSUME NEW l \in Ledger, NEW k \in Ledger, NEW req \in Request,
           l.bal = k.bal, History(l, req) = History(k, req)
    PROVE  LET u == update_request_reply(l, req)
               v == update_request_reply(k, req)
           IN  u.check = v.check /\ u.entry = v.entry /\ u.ledger.bal = v.ledger.bal
PROOF
<1>1. check_update_request(l, req) = check_update_request(k, req)
  BY DEF check_update_request
<1>2. /\ Covered(l, req) = Covered(k, req)
      /\ update_balance(l, req) = update_balance(k, req)
  BY DEF Covered, update_balance
<1>3. ASSUME NEW x \in Ledger
      PROVE  update_request_reply(x, req).ledger.bal =
                IF check_update_request(x, req) = "NEWREQ"
                THEN update_balance(x, req) ELSE x.bal
  BY DEF update_request_reply, Ledger
<1>4. update_request_reply(l, req).ledger.bal = update_request_reply(k, req).ledger.bal
  BY <1>1, <1>2, <1>3
<1>5. update_request_reply(l, req).check = update_request_reply(k, req).check
  BY <1>1 DEF update_request_reply
<1>6. update_request_reply(l, req).entry = update_request_reply(k, req).entry
  BY <1>1, <1>2 DEF update_request_reply
<1> QED
  BY <1>4, <1>5, <1>6

\* What the check finds decides what is done.
LEMMA Verdict ==
    ASSUME NEW l \in Ledger, NEW req \in Request
    PROVE  LET u == update_request_reply(l, req)
               old == History(l, req)
           IN  /\ u.check = "NEWREQ" <=> old = {}
               /\ old = {} => u.entry.reply.outcome # "INCONSISTENT_WITH_HISTORY"
               /\ old # {} => u.ledger.bal = l.bal
               /\ \A f : old = {f} =>
                    /\ req_consistent(req, f.req) => u.entry.reply = f.reply
                    /\ ~req_consistent(req, f.req) =>
                            u.entry.reply.outcome = "INCONSISTENT_WITH_HISTORY"
PROOF
<1> DEFINE u == update_request_reply(l, req)
           old == History(l, req)
           check == check_update_request(l, req)
           bal == IF check = "NEWREQ" THEN update_balance(l, req) ELSE l.bal
           outcome == CASE check = "INCONSISTENT" -> "INCONSISTENT_WITH_HISTORY"
                        [] check = "NEWREQ" /\ ~Covered(l, req)
                                               -> "INSUFFICIENT_FUNDS"
                        [] OTHER -> "PROCESSED"
           fresh == [id |-> req.id, acct |-> req.acct, outcome |-> outcome,
                     balance |-> bal[req.acct]]
           again == CHOOSE e \in old : req_consistent(req, e.req)
           reply == IF check = "PROCESSED" THEN again.reply ELSE fresh
<1>1. /\ u.ledger = [l EXCEPT !.bal = bal, !.accts = @ \cup {req.acct}]
      /\ u.entry = [req |-> req, reply |-> reply] /\ u.check = check
  BY DEF update_request_reply
<1>2. /\ check = "NEWREQ" <=> old = {}
      /\ check = "PROCESSED" <=> old # {} /\ \E e \in old : req_consistent(req, e.req)
      /\ check \in {"NEWREQ", "PROCESSED", "INCONSISTENT"}
  BY DEF check_update_request
<1>3. u.entry.reply = reply /\ fresh.outcome = outcome
  BY <1>1
<1>4. u.ledger.bal = bal
  BY <1>1 DEF Ledger
<1>5. ASSUME NEW f, old = {f}, req_consistent(req, f.req) PROVE again = f
  BY <1>5
<1> HIDE DEF u, old, fresh, again, check
<1>6. old = {} => u.entry.reply.outcome # "INCONSISTENT_WITH_HISTORY"
  BY <1>2, <1>3
<1>7. old # {} => u.ledger.bal = l.bal
  BY <1>2, <1>4
<1>8. ASSUME NEW f, old = {f}
      PROVE  /\ req_consistent(req, f.req) => u.entry.reply = f.reply
             /\ ~req_consistent(req, f.req) =>
                    u.entry.reply.outcome = "INCONSISTENT_WITH_HISTORY"
  <2>1. ASSUME req_consistent(req, f.req) PROVE u.entry.reply = f.reply
    BY <1>2, <1>3, <1>5, <1>8, <2>1
  <2>2. ASSUME ~req_consistent(req, f.req)
        PROVE  u.entry.reply.outcome = "INCONSISTENT_WITH_HISTORY"
    BY <1>2, <1>3, <1>8, <2>2
  <2> QED
    BY <2>1, <2>2
<1>9. u.check = "NEWREQ" <=> old = {}
  BY <1>1, <1>2
<1> QED
  BY <1>6, <1>7, <1>8, <1>9 DEF u, old

-----------------------------------------------------------------------------
(* How an update moves the canonical ledger.                               *)

Moved(k, req) ==
    LET u == update_request_reply(k, req)
    IN  [k EXCEPT !.bal = u.ledger.bal,
                  !.processed = IF u.check = "NEWREQ" THEN @ \cup {u.entry} ELSE @]

\* The update as a server applies it, before it files it anywhere.
LEMMA AppliedUpdate ==
    ASSUME PlainUpdates, NEW b, NEW l \in Ledger, Tidy(b, l),
           NEW req, Ours(b, req)
    PROVE  LET u == update_request_reply(l, req)
               v == update_request_reply(Canon(l), req)
           IN  /\ u.ledger \in Ledger /\ u.entry \in Entry /\ u.entry.req = req
               /\ u.check = v.check /\ u.entry = v.entry
               /\ u.ledger.bal = v.ledger.bal
               /\ Memory(u.ledger) = Memory(l) /\ Tidy(b, u.ledger)
               /\ req.acct \in u.ledger.accts
               /\ u.check = "NEWREQ" <=> \A f \in Memory(l) : ~SameKey(f.req, req)
PROOF
<1> DEFINE u == update_request_reply(l, req)
           v == update_request_reply(Canon(l), req)
<1>1. req \in Request /\ Canon(l) \in Ledger
  BY MemoryType DEF Ours
<1>2. /\ u.ledger \in Ledger /\ u.entry \in Entry /\ u.entry.req = req
      /\ u.ledger.sent = l.sent /\ u.ledger.processed = l.processed
  BY <1>1, UpdateRequestReply, UpdateKeepsHistory
<1>3. History(l, req) = History(Canon(l), req)
  BY <1>1, HistoryOfMemory, HistoryOfCanon
<1>4. l.bal = Canon(l).bal
  BY DEF Canon
<1>5. u.check = v.check /\ u.entry = v.entry /\ u.ledger.bal = v.ledger.bal
  BY <1>1, <1>3, <1>4, SameVerdict
<1>6. u.ledger.accts = l.accts \cup {req.acct}
  BY DEF update_request_reply, Ledger
<1>7. u.check = "NEWREQ" <=> History(l, req) = {}
  BY <1>1, Verdict
<1> HIDE DEF u, v
<1>8. Memory(u.ledger) = Memory(l)
  BY <1>2 DEF Memory, Unfiled
<1>9. Tidy(b, u.ledger) /\ req.acct \in u.ledger.accts
  BY <1>2, <1>6 DEF Tidy
<1>10. u.check = "NEWREQ" <=> \A f \in Memory(l) : ~SameKey(f.req, req)
  BY <1>7, HistoryOfMemory DEF Matches
<1> QED
  BY <1>2, <1>5, <1>8, <1>9, <1>10 DEF u, v

\* Ledgers with the same balances and memory.
LEMMA MovedTo ==
    ASSUME NEW l \in Ledger, NEW k \in Ledger, NEW req \in Request,
           NEW v, v = update_request_reply(Canon(l), req),
           k.bal = v.ledger.bal,
           Memory(k) = IF v.check = "NEWREQ" THEN Memory(l) \cup {v.entry}
                       ELSE Memory(l)
    PROVE  Canon(k) = Moved(Canon(l), req)
PROOF
<1>1. Canon(l).processed = Memory(l)
  BY DEF Canon
<1>2. Moved(Canon(l), req) =
        [Canon(l) EXCEPT !.bal = v.ledger.bal,
                         !.processed = IF v.check = "NEWREQ"
                                       THEN Memory(l) \cup {v.entry} ELSE Memory(l)]
  BY <1>1 DEF Moved
<1> QED
  BY <1>2 DEF Canon

\* Filing in the sent list and forwarding.
LEMMA ForwardMoves ==
    ASSUME PlainUpdates, NEW b, NEW l \in Ledger, Tidy(b, l),
           NEW req, Ours(b, req)
    PROVE  LET u == update_request_reply(l, req)
               k == insert_sent_list(u.ledger, u.entry)
           IN  Canon(k) = Moved(Canon(l), req) /\ Tidy(b, k)
PROOF
<1> DEFINE u == update_request_reply(l, req)
           v == update_request_reply(Canon(l), req)
           k == insert_sent_list(u.ledger, u.entry)
<1>1. /\ u.ledger \in Ledger /\ u.entry \in Entry /\ u.entry.req = req
      /\ u.check = v.check /\ u.entry = v.entry
      /\ u.ledger.bal = v.ledger.bal
      /\ Memory(u.ledger) = Memory(l) /\ Tidy(b, u.ledger)
      /\ req.acct \in u.ledger.accts
      /\ u.check = "NEWREQ" <=> \A f \in Memory(l) : ~SameKey(f.req, req)
  BY AppliedUpdate
<1>2. req \in Request
  BY DEF Ours
<1> HIDE DEF u, v
<1>3. k \in Ledger /\ k.bal = v.ledger.bal
  BY <1>1, Filing
<1>4. Memory(k) = IF v.check = "NEWREQ" THEN Memory(l) \cup {v.entry} ELSE Memory(l)
  <2>1. /\ (\E f \in Memory(l) : SameKey(f.req, req)) => Memory(k) = Memory(l)
        /\ (\A f \in Memory(l) : ~SameKey(f.req, req)) =>
                Memory(k) = Memory(l) \cup {u.entry}
    BY <1>1, MemoryAppend
  <2> HIDE DEF k
  <2> QED
    BY <1>1, <2>1
<1>5. Canon(k) = Moved(Canon(l), req)
  BY <1>2, <1>3, <1>4, MovedTo DEF v
<1>6. Tidy(b, k)
  <2>1. /\ k.accts = u.ledger.accts /\ k.processed = u.ledger.processed
        /\ k.sent = Append(u.ledger.sent, u.entry) /\ u.ledger.sent \in Seq(Entry)
    BY <1>1 DEF insert_sent_list, Ledger
  <2> HIDE DEF k
  <2>2. \A i \in DOMAIN k.sent : \/ k.sent[i] = u.entry
                                 \/ /\ i \in DOMAIN u.ledger.sent
                                    /\ k.sent[i] = u.ledger.sent[i]
    BY <1>1, <2>1
  <2> QED
    BY <1>1, <2>1, <2>2 DEF Tidy
<1> QED
  BY <1>5, <1>6 DEF u, k

\* Filing as processed, and for a server that is joining in the sent list too.
LEMMA CommitMoves ==
    ASSUME PlainUpdates, NEW b, NEW st \in ServerState, Tidy(b, st.ledger),
           NEW req, Ours(b, req)
    PROVE  LET u == update_request_reply(st.ledger, req)
               k == commit_update(st, u).ledger
           IN  /\ Canon(k) = Moved(Canon(st.ledger), req) /\ Tidy(b, k)
               /\ k.sent \in {st.ledger.sent, Append(st.ledger.sent, u.entry)}
               /\ ~st.extending_chain => k.sent = st.ledger.sent
PROOF
<1> DEFINE l == st.ledger
           u == update_request_reply(l, req)
           v == update_request_reply(Canon(l), req)
           x == insert_processed_list(u.ledger, <<u.entry>>)
           l1 == IF u.check = "NEWREQ" THEN x ELSE u.ledger
           k == IF st.extending_chain THEN insert_sent_list(l1, u.entry) ELSE l1
<1>1. l \in Ledger /\ req \in Request
  BY DEF ServerState, Ours
<1>2. commit_update(st, u).ledger = k
  BY DEF commit_update
<1>3. /\ u.ledger \in Ledger /\ u.entry \in Entry /\ u.entry.req = req
      /\ u.check = v.check /\ u.entry = v.entry
      /\ u.ledger.bal = v.ledger.bal
      /\ Memory(u.ledger) = Memory(l) /\ Tidy(b, u.ledger)
      /\ req.acct \in u.ledger.accts
      /\ u.check = "NEWREQ" <=> \A f \in Memory(l) : ~SameKey(f.req, req)
      /\ u.ledger.sent = l.sent
  BY <1>1, AppliedUpdate, UpdateKeepsHistory
<1> HIDE DEF l, u, v
<1>4. /\ x \in Ledger /\ x.bal = u.ledger.bal /\ x.sent = u.ledger.sent
      /\ x.accts = u.ledger.accts
  <2>1. <<u.entry>> \in Seq(Entry)
    BY <1>3
  <2>2. x.accts = u.ledger.accts
    BY <1>3 DEF insert_processed_list, Ledger
  <2> HIDE DEF x
  <2> QED
    BY <1>3, <2>1, <2>2, Filing DEF x
<1>5. u.check = "NEWREQ" => /\ Memory(x) = Memory(l) \cup {u.entry}
                            /\ x.processed = u.ledger.processed \cup {u.entry}
  BY <1>3, MemoryFile
<1> HIDE DEF x
<1>6. /\ l1 \in Ledger /\ l1.bal = v.ledger.bal /\ l1.sent = l.sent
      /\ Memory(l1) = IF v.check = "NEWREQ" THEN Memory(l) \cup {v.entry} ELSE Memory(l)
  BY <1>3, <1>4, <1>5
<1>7. Tidy(b, l1) /\ req.acct \in l1.accts
  BY <1>3, <1>4, <1>5 DEF Tidy
<1>8. \E f \in Memory(l1) : SameKey(f.req, u.entry.req)
  BY <1>3, <1>6 DEF SameKey
<1> HIDE DEF l1
<1>9. /\ k \in Ledger /\ k.bal = v.ledger.bal /\ Memory(k) = Memory(l1)
      /\ k.accts = l1.accts /\ k.processed = l1.processed
      /\ k.sent = IF st.extending_chain THEN Append(l.sent, u.entry) ELSE l.sent
  <2>1. CASE ~st.extending_chain
    BY <1>6, <2>1
  <2>2. CASE st.extending_chain
    <3> DEFINE y == insert_sent_list(l1, u.entry)
    <3>1. y \in Ledger /\ y.bal = l1.bal
      BY <1>3, <1>6, Filing
    <3>2. /\ y.accts = l1.accts /\ y.processed = l1.processed
          /\ y.sent = Append(l.sent, u.entry)
      BY <1>6 DEF insert_sent_list, Ledger
    <3>3. Memory(y) = Memory(l1)
      BY <1>3, <1>6, <1>8, MemoryAppend
    <3> QED
      BY <1>6, <2>2, <3>1, <3>2, <3>3
  <2> QED
    BY <2>1, <2>2
<1> HIDE DEF k
<1>10. Canon(k) = Moved(Canon(l), req)
  BY <1>1, <1>6, <1>9, MovedTo DEF v
<1>11. Tidy(b, k)
  <2>1. l.sent \in Seq(Entry) /\ Tidy(b, l1)
    BY <1>1, <1>7, LedgerFields
  <2>2. \A i \in DOMAIN k.sent : \/ k.sent[i] = u.entry
                                 \/ i \in DOMAIN l.sent /\ k.sent[i] = l.sent[i]
    BY <1>3, <1>9, <2>1
  <2> QED
    BY <1>3, <1>6, <1>7, <1>9, <2>1, <2>2 DEF Tidy
<1> QED
  BY <1>2, <1>9, <1>10, <1>11 DEF l, u

\* Entry e waits in the sent list of l.
Holds(l, e) == \E j \in DOMAIN l.sent : l.sent[j] = e

\* The sent list of k holds nothing but what that of l holds.
HoldsLess(l, k) == \A i \in DOMAIN k.sent : Holds(l, k.sent[i])

\* The front of the sent list is filed: nothing changes in the memory.
LEMMA PrefixFiled ==
    ASSUME NEW b, NEW l \in Ledger, Tidy(b, l), NEW n \in 0 .. Len(l.sent),
           NEW p, p = insert_processed_list(l, SubSeq(l.sent, 1, n)),
           NEW k, k = [p EXCEPT !.sent = SubSeq(l.sent, n + 1, Len(l.sent))]
    PROVE  /\ Canon(k) = Canon(l) /\ Tidy(b, k)
           /\ HoldsLess(l, k)
PROOF
<1> DEFINE q == l.sent
           es == SubSeq(q, 1, n)
           rest == SubSeq(q, n + 1, Len(q))
<1>1. /\ q \in Seq(Entry) /\ Len(q) \in Nat /\ DOMAIN q = 1 .. Len(q)
      /\ n \in Nat /\ n <= Len(q)
  BY LedgerFields
<1>2. /\ es \in Seq(Entry) /\ rest \in Seq(Entry)
      /\ \A i \in DOMAIN es : \E j \in DOMAIN q : es[i] = q[j]
      /\ \A i \in DOMAIN rest : \E j \in DOMAIN q : rest[i] = q[j]
  <2>1. /\ es \in Seq(Entry) /\ DOMAIN es = 1 .. n
        /\ \A i \in 1 .. n : es[i] = q[i]
    BY <1>1
  <2>2. /\ rest \in Seq(Entry) /\ DOMAIN rest = 1 .. (Len(q) - n)
        /\ \A i \in 1 .. (Len(q) - n) : rest[i] = q[n + i]
    BY <1>1
  <2>3. /\ \A i \in 1 .. n : i \in DOMAIN q
        /\ \A i \in 1 .. (Len(q) - n) : n + i \in DOMAIN q
    BY <1>1
  <2> HIDE DEF es, rest, q
  <2> QED
    BY <2>1, <2>2, <2>3
<1>3. /\ p.processed \in SUBSET (l.processed \cup {es[i] : i \in DOMAIN es})
      /\ p.accts = l.accts
  BY DEF insert_processed_list, Ledger
<1>4. p \in Ledger /\ p.bal = l.bal
  <2>1. p = insert_processed_list(l, es)
    OBVIOUS
  <2> HIDE DEF es
  <2> QED
    BY <1>2, <2>1, Filing
<1> HIDE DEF es, rest
<1>5. k = [p EXCEPT !.sent = rest]
  BY DEF rest
<1>6. /\ k.sent = rest /\ k.processed = p.processed /\ k.accts = l.accts
      /\ k.bal = l.bal
  BY <1>3, <1>4, <1>5 DEF Ledger
<1>7. Memory(k) = Memory(l)
  BY MemoryPrefix
<1>8. Canon(k) = Canon(l)
  BY <1>6, <1>7 DEF Canon
<1>9. \A e \in k.processed : e \in l.processed \/ \E j \in DOMAIN q : e = q[j]
  BY <1>2, <1>3, <1>6
<1>10. HoldsLess(l, k)
  BY <1>2, <1>6 DEF HoldsLess, Holds
<1>11. Tidy(b, k)
  BY <1>6, <1>9, <1>10 DEF Tidy, HoldsLess, Holds
<1> QED
  BY <1>8, <1>10, <1>11

-----------------------------------------------------------------------------
(* What the handlers do to the memory of a server.                         *)

\* A server that extends no chain, and waits for nothing if it is tail.
Rested(st) == ~st.extending_chain /\ (st.istail => st.ledger.sent = <<>>)

\* A send that carries neither an update nor an answer.
Mute(o) == o.msg.type \notin {"REQUEST", "REPLY", "CLIENT_REPLY"}

\* It fails no assertion but the two of receive_request.
Mild(o) == o.msg.type = "ABORT" => o.msg.which \in {"FIFO", "query at tail"}

\* The answer of a tail in state st to a query.
Reads(b, st, e) ==
    /\ e.req.type = "QUERY" /\ e.req.bank = b /\ e.req.seq = st.bank_update_seq
    /\ e.reply.balance = st.ledger.bal[e.req.acct]

\* A handler that applies no update: it forwards only what is in the sent list,
\* and answers only a query.
Keeps(b, st, res) ==
    /\ res.st.bank_update_seq = st.bank_update_seq
    /\ Canon(res.st.ledger) = Canon(st.ledger) /\ Tidy(b, res.st.ledger)
    /\ HoldsLess(st.ledger, res.st.ledger)
    /\ Rested(st) => Rested(res.st)
    /\ \A i \in DOMAIN res.out :
        LET o == res.out[i]
        IN  \/ Mute(o) /\ (Rested(st) => Mild(o))
            \/ /\ o.msg.type = "REQUEST" /\ o.to = res.st.succ
               /\ \E e \in Entry : Holds(st.ledger, e) /\ o.msg.req = e.req
            \/ i = 1 /\ o.msg.type = "CLIENT_REPLY" /\ Reads(b, st, o.msg.entry)

\* The same of one that answers nothing.
Calm(b, st, res) ==
    /\ res.st.bank_update_seq = st.bank_update_seq
    /\ Canon(res.st.ledger) = Canon(st.ledger) /\ Tidy(b, res.st.ledger)
    /\ HoldsLess(st.ledger, res.st.ledger)
    /\ Rested(st) => Rested(res.st)
    /\ \A i \in DOMAIN res.out :
        LET o == res.out[i]
        IN  \/ Mute(o) /\ (Rested(st) => Mild(o))
            \/ /\ o.msg.type = "REQUEST" /\ o.to = res.st.succ
               /\ \E e \in Entry : Holds(st.ledger, e) /\ o.msg.req = e.req

LEMMA CalmKeeps == \A b, st, res : Calm(b, st, res) => Keeps(b, st, res)
PROOF
  BY DEF Calm, Keeps

\* A handler that applies the update req.
Applies(b, st, req, res) ==
    LET v == update_request_reply(Canon(st.ledger), req)
    IN  /\ res.st.bank_update_seq = req.seq
        /\ Canon(res.st.ledger) = Moved(Canon(st.ledger), req)
        /\ Tidy(b, res.st.ledger)
        /\ \A i \in DOMAIN res.st.ledger.sent :
                LET e == res.st.ledger.sent[i]
                IN  Holds(st.ledger, e) \/ e = v.entry
        /\ Rested(st) => Rested(res.st)
        /\ \A i \in DOMAIN res.out :
            LET o == res.out[i]
            IN  \/ Mute(o) /\ Mild(o)
                \/ o.msg.type = "REQUEST" /\ o.to = res.st.succ /\ o.msg.req = req
                \/ i = 1 /\ o.msg.type = "CLIENT_REPLY" /\ o.msg.entry = v.entry

LEMMA MuteSends ==
    /\ \A st, n : Mute(sendback_ack(st, n)) /\ Mild(sendback_ack(st, n))
    /\ \A w : Mute(Abort(w))
    /\ Mild(Abort("FIFO")) /\ Mild(Abort("query at tail"))
PROOF
  BY DEF Mute, Mild, sendback_ack, Abort, Send


LEMMA CalmAck ==
    ASSUME NEW b, NEW st \in ServerState, Tidy(b, st.ledger), NEW seq \in Nat
    PROVE  Calm(b, st, receive_ack(st, seq))
PROOF
<1> DEFINE l == st.ledger
           n == AckedLength(l.sent, seq)
           p == insert_processed_list(l, SubSeq(l.sent, 1, n))
           k == [p EXCEPT !.sent = SubSeq(@, n + 1, Len(l.sent))]
           res == receive_ack(st, seq)
<1>1. l \in Ledger /\ l.sent \in Seq(Entry)
  BY LedgerFields DEF ServerState
<1>2. n \in 0 .. Len(l.sent)
  BY <1>1, AckedPart
<1> HIDE DEF n
<1>3. SubSeq(l.sent, 1, n) \in Seq(Entry)
  BY <1>1, <1>2
<1>4. p \in Ledger /\ p.sent = l.sent
  BY <1>1, <1>3, Filing
<1>5. k = [p EXCEPT !.sent = SubSeq(l.sent, n + 1, Len(l.sent))]
  BY <1>4 DEF Ledger
<1>6. res.st = [st EXCEPT !.ledger = k]
      /\ res.out = IF st.ishead THEN <<>> ELSE <<sendback_ack(st, seq)>>
  BY DEF receive_ack, n
<1> HIDE DEF k, res
<1>7. /\ Canon(k) = Canon(l) /\ Tidy(b, k)
      /\ HoldsLess(l, k)
  <2>1. Tidy(b, l) /\ p = insert_processed_list(l, SubSeq(l.sent, 1, n))
    OBVIOUS
  <2> HIDE DEF l, p
  <2> QED
    BY <1>1, <1>2, <1>5, <2>1, PrefixFiled
<1>8. /\ res.st.ledger = k /\ res.st.bank_update_seq = st.bank_update_seq
      /\ res.st.istail = st.istail /\ res.st.extending_chain = st.extending_chain
  BY <1>6 DEF ServerState
<1>10. Rested(st) => Rested(res.st)
  <2>1. k.sent = SubSeq(l.sent, n + 1, Len(l.sent))
    BY <1>4, <1>5 DEF Ledger
  <2>2. l.sent = <<>> => k.sent = <<>>
    BY <1>1, <1>2, <2>1
  <2> QED
    BY <1>8, <2>2 DEF Rested
<1>11. \A i \in DOMAIN res.out : Mute(res.out[i]) /\ Mild(res.out[i])
  <2> DEFINE o == sendback_ack(st, seq)
  <2>1. Mute(o) /\ Mild(o)
    BY MuteSends
  <2> HIDE DEF o
  <2>2. CASE st.ishead
    BY <1>6, <2>2 DEF o
  <2>3. CASE ~st.ishead
    <3>1. res.out = <<o>>
      BY <1>6, <2>3 DEF o
    <3> QED
      BY <2>1, <3>1
  <2> QED
    BY <2>2, <2>3
<1> QED
  BY <1>7, <1>8, <1>10, <1>11 DEF Calm, res

\* Picking everything, and nothing.
LEMMA PickAll ==
    ASSUME NEW q \in Seq(Entry)
    PROVE  /\ Pick(q, DOMAIN q) = SubSeq(q, 1, Len(q))
           /\ Pick(q, {}) = SubSeq(q, Len(q) + 1, Len(q))
PROOF
<1>1. Len(q) \in Nat /\ DOMAIN q = 1 .. Len(q) /\ 1 \in 1 .. Len(q) + 1
  OBVIOUS
<1> DEFINE part == Pick(q, 1 .. Len(q))
<1>2. /\ part \in Seq(Entry) /\ DOMAIN part = 1 .. Len(q) - 1 + 1
      /\ \A k \in DOMAIN part : part[k] = q[1 + k - 1]
  BY <1>1, PickSuffix
<1> HIDE DEF part
<1>3. part = q
  <2>1. DOMAIN part = 1 .. Len(q) /\ \A k \in 1 .. Len(q) : part[k] = q[k]
    BY <1>1, <1>2
  <2>2. part = [k \in 1 .. Len(q) |-> part[k]] /\ q = [k \in 1 .. Len(q) |-> q[k]]
    BY <1>1, <1>2, <2>1
  <2> QED
    BY <2>1, <2>2
<1>4. SubSeq(q, 1, Len(q)) = q
  OBVIOUS
<1>5. Pick(q, {}) = <<>>
  <2>1. {} \in SUBSET DOMAIN q
    OBVIOUS
  <2> QED
    BY <2>1, PickType
<1>6. SubSeq(q, Len(q) + 1, Len(q)) = <<>>
  BY <1>1
<1> QED
  BY <1>1, <1>3, <1>4, <1>5, <1>6 DEF part

LEMMA CalmTail ==
    ASSUME NEW b, NEW s, NEW st \in ServerState, Tidy(b, st.ledger)
    PROVE  Calm(b, st, to_be_tail(s, st))
PROOF
<1> DEFINE l == st.ledger
           N == Len(l.sent)
           T == {i \in DOMAIN l.sent : l.sent[i].req.type = "TRANSFER"}
           p == insert_processed_list(l, Pick(l.sent, DOMAIN l.sent \ T))
           k == [p EXCEPT !.sent = Pick(l.sent, T)]
           o == sendback_ack(st, st.bank_update_seq)
           fwd == [i \in DOMAIN k.sent |->
                        forward_transfer_to_downstream(s, st, k.sent[i])]
           res == to_be_tail(s, st)
<1>1. l \in Ledger /\ l.sent \in Seq(Entry) /\ N \in Nat
  BY LedgerFields DEF ServerState
<1>2. T = {}
  BY DEF Tidy, Ours
<1>3. DOMAIN l.sent \ T = DOMAIN l.sent
  BY <1>2
<1>4. /\ res.st = [st EXCEPT !.istail = TRUE, !.ledger = k]
      /\ res.out = IF k.sent # <<>> THEN fwd ELSE IF st.ishead THEN <<>> ELSE <<o>>
  BY DEF to_be_tail
<1> HIDE DEF T
<1>5. /\ p = insert_processed_list(l, SubSeq(l.sent, 1, N))
      /\ Pick(l.sent, T) = SubSeq(l.sent, N + 1, N)
  BY <1>1, <1>2, <1>3, PickAll
<1>6. p \in Ledger
  <2>1. SubSeq(l.sent, 1, N) \in Seq(Entry)
    BY <1>1
  <2> QED
    BY <1>1, <1>5, <2>1, Filing
<1> HIDE DEF p
<1>7. k = [p EXCEPT !.sent = SubSeq(l.sent, N + 1, N)] /\ k.sent = <<>>
  <2>1. SubSeq(l.sent, N + 1, N) = <<>>
    BY <1>1
  <2> QED
    BY <1>5, <1>6, <2>1 DEF Ledger
<1> HIDE DEF k, res, fwd
<1>8. Canon(k) = Canon(l) /\ Tidy(b, k) /\ HoldsLess(l, k)
  <2>1. /\ Tidy(b, l) /\ N \in 0 .. Len(l.sent)
        /\ p = insert_processed_list(l, SubSeq(l.sent, 1, N))
        /\ k = [p EXCEPT !.sent = SubSeq(l.sent, N + 1, Len(l.sent))]
    BY <1>1, <1>5, <1>7
  <2> HIDE DEF l, N
  <2> QED
    BY <1>1, <2>1, PrefixFiled
<1>9. /\ res.st.ledger = k /\ res.st.bank_update_seq = st.bank_update_seq
      /\ res.st.extending_chain = st.extending_chain
  BY <1>4 DEF ServerState
<1>10. Rested(st) => Rested(res.st)
  BY <1>7, <1>9 DEF Rested
<1>11. \A i \in DOMAIN res.out : Mute(res.out[i]) /\ Mild(res.out[i])
  <2>1. Mute(o) /\ Mild(o)
    BY MuteSends
  <2> HIDE DEF o
  <2>2. res.out = <<>> \/ res.out = <<o>>
    BY <1>4, <1>7
  <2> QED
    BY <2>1, <2>2
<1> QED
  BY <1>8, <1>9, <1>10, <1>11 DEF Calm, res

\* Handlers that leave the ledger alone.
LEMMA SameLedger ==
    ASSUME NEW b, NEW st \in ServerState, Tidy(b, st.ledger), NEW new,
           new.ledger = st.ledger, new.bank_update_seq = st.bank_update_seq,
           new.istail = st.istail, new.extending_chain = st.extending_chain
    PROVE  /\ new.bank_update_seq = st.bank_update_seq
           /\ Canon(new.ledger) = Canon(st.ledger) /\ Tidy(b, new.ledger)
           /\ HoldsLess(st.ledger, new.ledger)
           /\ Rested(st) => Rested(new)
PROOF
  BY DEF HoldsLess, Holds, Rested

LEMMA CalmHead ==
    ASSUME NEW b, NEW st \in ServerState, Tidy(b, st.ledger)
    PROVE  Calm(b, st, to_be_head(st))
PROOF
<1> DEFINE res == to_be_head(st)
<1>1. /\ res.st.ledger = st.ledger /\ res.st.bank_update_seq = st.bank_update_seq
      /\ res.st.istail = st.istail /\ res.st.extending_chain = st.extending_chain
      /\ res.out = <<>>
  BY DEF to_be_head, ServerState
<1> HIDE DEF res
<1>2. Calm(b, st, res)
  BY <1>1, SameLedger DEF Calm
<1> QED
  BY <1>2 DEF res

LEMMA CalmPre ==
    ASSUME NEW b, NEW s, NEW st \in ServerState, Tidy(b, st.ledger), NEW addr
    PROVE  Calm(b, st, receive_new_preserver(s, st, addr))
PROOF
<1> DEFINE res == receive_new_preserver(s, st, addr)
           o == Send(Master, [type |-> "REQ_SEQ", seq |-> st.bank_update_seq,
                              pre |-> addr, succ |-> s])
<1>1. /\ res.st.ledger = st.ledger /\ res.st.bank_update_seq = st.bank_update_seq
      /\ res.st.istail = st.istail /\ res.st.extending_chain = st.extending_chain
      /\ res.out = <<o>>
  BY DEF receive_new_preserver, ServerState
<1>2. Mute(o) /\ Mild(o)
  BY DEF Mute, Mild, Send
<1> HIDE DEF res, o
<1>3. \A i \in DOMAIN res.out : Mute(res.out[i]) /\ Mild(res.out[i])
  BY <1>1, <1>2
<1>4. Calm(b, st, res)
  BY <1>1, <1>3, SameLedger DEF Calm
<1> QED
  BY <1>4 DEF res

LEMMA CalmSucc ==
    ASSUME NEW b, NEW st \in ServerState, Tidy(b, st.ledger), NEW m
    PROVE  Calm(b, st, receive_new_succserver(st, m))
PROOF
<1> DEFINE res == receive_new_succserver(st, m)
           new == [st EXCEPT !.succ = m.succ]
           sent == st.ledger.sent
           K == {i \in DOMAIN sent : sent[i].req.seq > m.seq}
           more == Pick(sent, K)
<1>1. /\ res.st.ledger = st.ledger /\ res.st.bank_update_seq = st.bank_update_seq
      /\ res.st.istail = st.istail /\ res.st.extending_chain = st.extending_chain
      /\ res.st = new
      /\ res.out = [i \in DOMAIN more |-> forward_request(new, more[i])]
  BY DEF receive_new_succserver, ServerState
<1>2. sent \in Seq(Entry)
  BY LedgerFields DEF ServerState
<1>3. \A i \in DOMAIN more : \E j \in DOMAIN sent : more[i] = sent[j]
  <2>1. K \in SUBSET DOMAIN sent
    OBVIOUS
  <2> HIDE DEF K, sent
  <2> QED
    BY <1>2, <2>1, PickType
<1> HIDE DEF more, res, new
<1>4. ASSUME NEW i \in DOMAIN res.out
      PROVE  LET o == res.out[i]
             IN  /\ o.msg.type = "REQUEST" /\ o.to = res.st.succ
                 /\ \E e \in Entry : Holds(st.ledger, e) /\ o.msg.req = e.req
  <2>1. i \in DOMAIN more /\ res.out[i] = forward_request(new, more[i])
    BY <1>1
  <2>2. PICK j \in DOMAIN sent : more[i] = sent[j]
    BY <1>3, <2>1
  <2>3. more[i] \in Entry /\ Holds(st.ledger, more[i])
    BY <1>2, <2>2 DEF Holds
  <2> QED
    BY <1>1, <2>1, <2>3 DEF forward_request, Send
<1>5. Calm(b, st, res)
  BY <1>1, <1>4, SameLedger DEF Calm
<1> QED
  BY <1>5 DEF res

\* With no transfers, the only send of handle_new_head is a failed assertion.
LEMMA CalmNewHead ==
    ASSUME NEW b, NEW s, NEW st \in ServerState, Tidy(b, st.ledger), NEW m
    PROVE  Calm(b, st, handle_new_head(s, st, m))
PROOF
<1> DEFINE res  == handle_new_head(s, st, m)
           new  == [st EXCEPT !.heads[m.bank] = m.server]
           sent == st.ledger.sent
           ok   == {i \in DOMAIN sent :
                        \A j \in 1 .. i : sent[j].req.type = "TRANSFER"}
           K    == {i \in ok : sent[i].req.dbank = m.bank}
           mine == Pick(sent, K)
           fwd  == [i \in DOMAIN mine |->
                        forward_transfer_to_downstream(s, new, mine[i])]
           o    == Abort("transfers only")
           stop == IF ok = DOMAIN sent THEN <<>> ELSE <<o>>
<1>1. /\ res.st.ledger = st.ledger /\ res.st.bank_update_seq = st.bank_update_seq
      /\ res.st.istail = st.istail /\ res.st.extending_chain = st.extending_chain
      /\ res.out = IF ~st.istail THEN <<>> ELSE fwd \o stop
  BY DEF handle_new_head, ServerState
<1>2. sent \in Seq(Entry)
  BY LedgerFields DEF ServerState
<1>3. ok = {}
  <2>1. \A i \in DOMAIN sent : i \in 1 .. i
    BY <1>2
  <2> QED
    BY <2>1 DEF Tidy, Ours
<1>4. mine = <<>>
  <2>1. K \in SUBSET DOMAIN sent /\ K = {}
    BY <1>3
  <2> HIDE DEF K, sent
  <2> QED
    BY <1>2, <2>1, PickType
<1>5. Mute(o)
  BY MuteSends
<1> HIDE DEF mine, new, ok, o
<1>6. fwd = <<>>
  BY <1>4
<1> HIDE DEF fwd, res
<1>7. res.out = <<>> \/ (res.out = <<o>> /\ st.istail /\ sent # <<>>)
  <2>1. sent = <<>> => ok = DOMAIN sent
    BY <1>3
  <2>2. <<>> \o <<>> = <<>> /\ <<>> \o <<o>> = <<o>>
    OBVIOUS
  <2> QED
    BY <1>1, <1>6, <2>1, <2>2
<1>8. \A i \in DOMAIN res.out : Mute(res.out[i]) /\ (Rested(st) => Mild(res.out[i]))
  BY <1>5, <1>7 DEF Rested
<1>9. Calm(b, st, res)
  BY <1>1, <1>8, SameLedger DEF Calm
<1> QED
  BY <1>9 DEF res

LEMMA KeepsQuery ==
    ASSUME NEW b, NEW st \in ServerState, Tidy(b, st.ledger),
           NEW req \in Request, req.type = "QUERY", req.bank = b
    PROVE  Keeps(b, st, handle_query(st, req))
PROOF
<1> DEFINE res == handle_query(st, req)
           l == get_balance(st.ledger, req.acct)
           q == [req EXCEPT !.seq = st.bank_update_seq]
           r == [id |-> req.id, acct |-> req.acct, outcome |-> "PROCESSED",
                 balance |-> l.bal[req.acct]]
           e == [req |-> q, reply |-> r]
           o == reply_to_client(e)
           x == Abort("query at tail")
<1>1. /\ l.bal = st.ledger.bal /\ l.processed = st.ledger.processed
      /\ l.sent = st.ledger.sent
      /\ l.accts = st.ledger.accts \cup {req.acct}
  BY DEF get_balance, Ledger, ServerState
<1>2. /\ q.type = "QUERY" /\ q.bank = b /\ q.seq = st.bank_update_seq
      /\ q.acct = req.acct
  BY DEF Request, RequestRecord
<1>3. Reads(b, st, e)
  BY <1>1, <1>2 DEF Reads
<1>4. o = Send(Client, [type |-> "CLIENT_REPLY", entry |-> e])
  BY <1>2 DEF reply_to_client
<1>5. o.msg.type = "CLIENT_REPLY" /\ o.msg.entry = e
  BY <1>4 DEF Send
<1>6. Mute(x) /\ Mild(x)
  BY MuteSends
<1>7. /\ res.st = IF st.istail THEN [st EXCEPT !.ledger = l] ELSE st
      /\ res.out = IF st.istail THEN <<o>> ELSE <<x>>
  BY DEF handle_query
<1> HIDE DEF l, e, o, x, res
<1>8. /\ res.st.ledger \in {l, st.ledger}
      /\ res.st.bank_update_seq = st.bank_update_seq
      /\ res.st.istail = st.istail /\ res.st.extending_chain = st.extending_chain
  BY <1>7 DEF ServerState
<1>9. Memory(l) = Memory(st.ledger)
  BY <1>1 DEF Memory, Unfiled
<1>10. Canon(l) = Canon(st.ledger) /\ Tidy(b, l) /\ HoldsLess(st.ledger, l)
       /\ HoldsLess(st.ledger, st.ledger)
  BY <1>1, <1>9 DEF Canon, Tidy, HoldsLess, Holds
<1>11. Rested(st) => Rested(res.st)
  BY <1>1, <1>8 DEF Rested
<1>12. \A i \in DOMAIN res.out :
        \/ Mute(res.out[i]) /\ Mild(res.out[i])
        \/ /\ i = 1 /\ res.out[i].msg.type = "CLIENT_REPLY"
           /\ Reads(b, st, res.out[i].msg.entry)
  BY <1>3, <1>5, <1>6, <1>7
<1> QED
  BY <1>8, <1>10, <1>11, <1>12 DEF Keeps, res

\* An update at a head or an internal server.
LEMMA ForwardApplies ==
    ASSUME PlainUpdates, NEW b, NEW st \in ServerState, Tidy(b, st.ledger),
           ~st.istail, NEW req, Ours(b, req)
    PROVE  Applies(b, st, req, forward_handle_update(st, req))
PROOF
<1> DEFINE res == forward_handle_update(st, req)
           l == st.ledger
           u == update_request_reply(l, req)
           k == insert_sent_list(u.ledger, u.entry)
           o == forward_request(st, u.entry)
<1>1. l \in Ledger /\ req \in Request
  BY DEF ServerState, Ours
<1>2. /\ u.ledger \in Ledger /\ u.entry \in Entry /\ u.entry.req = req
      /\ u.ledger.sent = l.sent
  BY <1>1, UpdateRequestReply, UpdateKeepsHistory
<1>3. /\ Canon(k) = Moved(Canon(l), req) /\ Tidy(b, k)
      /\ u.entry = update_request_reply(Canon(l), req).entry
  BY <1>1, ForwardMoves, AppliedUpdate
<1>4. /\ res.st.bank_update_seq = req.seq /\ res.st.ledger = k
      /\ res.st.istail = st.istail /\ res.st.extending_chain = st.extending_chain
      /\ res.st.succ = st.succ /\ res.out = <<o>>
  BY DEF forward_handle_update, ServerState
<1> HIDE DEF u
<1>5. k.sent = Append(l.sent, u.entry) /\ l.sent \in Seq(Entry)
  BY <1>1, <1>2, LedgerFields DEF insert_sent_list, Ledger
<1>6. o.msg.type = "REQUEST" /\ o.to = st.succ /\ o.msg.req = req
  BY <1>2 DEF forward_request, Send
<1> HIDE DEF k, o, res
<1>7. \A i \in DOMAIN k.sent : Holds(l, k.sent[i]) \/ k.sent[i] = u.entry
  <2>1. \A i \in DOMAIN k.sent : \/ k.sent[i] = u.entry
                                 \/ i \in DOMAIN l.sent /\ k.sent[i] = l.sent[i]
    BY <1>2, <1>5
  <2> QED
    BY <1>2, <2>1 DEF Holds
<1>8. Rested(st) => Rested(res.st)
  BY <1>4 DEF Rested
<1>9. \A i \in DOMAIN res.out : /\ res.out[i].msg.type = "REQUEST"
                                /\ res.out[i].to = res.st.succ
                                /\ res.out[i].msg.req = req
  BY <1>4, <1>6
<1>10. Applies(b, st, req, res)
  BY <1>3, <1>4, <1>7, <1>8, <1>9 DEF Applies
<1> QED
  BY <1>10 DEF res

\* What is in a sequence that is made of two.
LEMMA JoinedElements ==
    ASSUME NEW S, NEW q \in Seq(S), NEW T, NEW r \in Seq(T), NEW i \in DOMAIN (q \o r)
    PROVE  \/ i \in DOMAIN q /\ (q \o r)[i] = q[i]
           \/ \E j \in DOMAIN r : (q \o r)[i] = r[j]
PROOF
<1>1. Len(q) \in Nat /\ Len(r) \in Nat /\ DOMAIN (q \o r) = 1 .. Len(q) + Len(r)
  OBVIOUS
<1>2. CASE i <= Len(q)
  BY <1>1, <1>2
<1>3. CASE ~(i <= Len(q))
  <2>1. i - Len(q) \in 1 .. Len(r) /\ (q \o r)[i] = r[i - Len(q)]
    BY <1>1, <1>3
  <2> QED
    BY <2>1
<1> QED
  BY <1>2, <1>3

\* An update at the tail.
LEMMA TailApplies ==
    ASSUME PlainUpdates, NEW b, NEW s, NEW st \in ServerState, Tidy(b, st.ledger),
           NEW req, Ours(b, req)
    PROVE  Applies(b, st, req, tail_handle_update(s, st, req))
PROOF
<1> DEFINE res == tail_handle_update(s, st, req)
           l == st.ledger
           u == update_request_reply(l, req)
           v == update_request_reply(Canon(l), req)
           c == commit_update(st, u)
           k == c.ledger
           o == reply_to_client(u.entry)
           a == sendback_ack(st, req.seq)
           ack == IF ~st.ishead /\ k.sent = <<>> THEN <<a>> ELSE <<>>
<1>1. l \in Ledger /\ req \in Request /\ req.type \notin {"TRANSFER", "TRANSFER_TO"}
  BY DEF ServerState, Ours
<1>2. u.entry \in Entry /\ u.entry = v.entry /\ u.entry.req = req
  BY <1>1, AppliedUpdate
<1>3. /\ Canon(k) = Moved(Canon(l), req) /\ Tidy(b, k)
      /\ k.sent \in {l.sent, Append(l.sent, u.entry)}
      /\ ~st.extending_chain => k.sent = l.sent
  BY CommitMoves
<1>4. c.out = <<o>>
  BY DEF commit_update
<1>5. /\ res.st.bank_update_seq = req.seq /\ res.st.ledger = k
      /\ res.st.istail = st.istail /\ res.st.extending_chain = st.extending_chain
      /\ res.out = c.out \o ack
  BY <1>1 DEF tail_handle_update, ServerState
<1>6. o.msg.type = "CLIENT_REPLY" /\ o.msg.entry = v.entry
  BY <1>1, <1>2 DEF reply_to_client, Send
<1>7. Mute(a) /\ Mild(a)
  BY MuteSends
<1>8. l.sent \in Seq(Entry)
  BY <1>1, LedgerFields
<1> HIDE DEF u, v, c, o, a, l
<1>9. \A i \in DOMAIN k.sent : Holds(l, k.sent[i]) \/ k.sent[i] = v.entry
  <2>1. CASE k.sent = l.sent
    BY <2>1 DEF Holds
  <2>2. CASE k.sent = Append(l.sent, u.entry)
    <3>1. \A i \in DOMAIN k.sent : \/ k.sent[i] = u.entry
                                   \/ i \in DOMAIN l.sent /\ k.sent[i] = l.sent[i]
      BY <1>2, <1>8, <2>2
    <3> QED
      BY <1>2, <3>1 DEF Holds
  <2> QED
    BY <1>3, <2>1, <2>2
<1> HIDE DEF k, res
<1>10. Rested(st) => Rested(res.st)
  BY <1>3, <1>5 DEF Rested, l
<1>11. \A i \in DOMAIN res.out : (i = 1 /\ res.out[i] = o) \/ res.out[i] = a
  <2>1. ack \in Seq({a}) /\ \A j \in DOMAIN ack : ack[j] = a
    <3>1. <<>> \in Seq({a}) /\ <<a>> \in Seq({a})
      OBVIOUS
    <3>2. \A q \in Seq({a}) : \A j \in DOMAIN q : q[j] = a
      OBVIOUS
    <3> QED
      BY <3>1, <3>2, Zenon
  <2> HIDE DEF ack
  <2>2. c.out \in Seq({o}) /\ \A i \in DOMAIN c.out : i = 1 /\ c.out[i] = o
    BY <1>4
  <2> QED
    BY <1>5, <2>1, <2>2, JoinedElements
<1>12. \A i \in DOMAIN res.out :
        \/ Mute(res.out[i]) /\ Mild(res.out[i])
        \/ /\ i = 1 /\ res.out[i].msg.type = "CLIENT_REPLY"
           /\ res.out[i].msg.entry = v.entry
  BY <1>6, <1>7, <1>11
<1>13. Applies(b, st, req, res)
  BY <1>3, <1>5, <1>9, <1>10, <1>12 DEF Applies, l, v
<1> QED
  BY <1>13 DEF res

\* An update, numbered by the head or not: it is dropped, ends the server, or
\* is applied if it is the next one.
LEMMA RequestApplies ==
    ASSUME PlainUpdates, NEW b, NEW s, NEW st \in ServerState, Tidy(b, st.ledger),
           NEW req, Ours(b, req)
    PROVE  LET res == receive_request(s, st, req)
           IN  \/ Calm(b, st, res)
               \/ \E num \in Request :
                    /\ Ours(b, num) /\ num.seq = st.bank_update_seq + 1
                    /\ st.ishead \/ num = req
                    /\ [num EXCEPT !.seq = 0] = [req EXCEPT !.seq = 0]
                    /\ Applies(b, st, num, res)
PROOF
<1> DEFINE res == receive_request(s, st, req)
           seq == IF st.ishead THEN st.bank_update_seq + 1 ELSE req.seq
           num == [req EXCEPT !.seq = seq]
           n == st.bank_update_seq
<1>1. req \in Request /\ req.type # "QUERY" /\ n \in Nat /\ req.seq \in Nat
  BY RequestFields DEF Ours, ServerState
<1>2. seq \in Nat
  BY <1>1
<1>3. num \in Request /\ num.seq = seq /\ (st.ishead \/ num = req)
  <2>1. ~st.ishead => num = req
    BY <1>1 DEF Request, RequestRecord
  <2> HIDE DEF seq
  <2> QED
    BY <1>1, <1>2, <2>1, Numbered
<1>4. Ours(b, num) /\ [num EXCEPT !.seq = 0] = [req EXCEPT !.seq = 0]
  <2>1. num.bank = req.bank /\ num.type = req.type
        /\ [num EXCEPT !.seq = 0] = [req EXCEPT !.seq = 0]
    BY <1>1 DEF Request, RequestRecord
  <2> HIDE DEF num
  <2> QED
    BY <1>3, <2>1 DEF Ours
<1>5. res = CASE n >= seq -> [st |-> st, out |-> <<>>]
              [] ~(n >= seq) /\ n < seq - 1 -> [st |-> st, out |-> <<Abort("FIFO")>>]
              [] OTHER -> IF st.istail THEN tail_handle_update(s, st, num)
                          ELSE forward_handle_update(st, num)
  <2>1. ~(n >= seq /\ n < seq - 1)
    BY <1>1, <1>2
  <2> QED
    BY <1>1, <2>1 DEF receive_request
<1> HIDE DEF seq, num
<1>6. CASE n >= seq
  <2>1. res.st = st /\ res.out = <<>>
    BY <1>5, <1>6
  <2> HIDE DEF res
  <2>2. /\ res.st.bank_update_seq = st.bank_update_seq
        /\ Canon(res.st.ledger) = Canon(st.ledger) /\ Tidy(b, res.st.ledger)
        /\ HoldsLess(st.ledger, res.st.ledger)
        /\ Rested(st) => Rested(res.st)
    BY <2>1, SameLedger
  <2>3. Calm(b, st, res)
    BY <2>1, <2>2 DEF Calm
  <2> QED
    BY <2>3 DEF res
<1>7. CASE ~(n >= seq) /\ n < seq - 1
  <2> DEFINE o == Abort("FIFO")
  <2>1. res.st = st /\ res.out = <<o>>
    BY <1>5, <1>7
  <2>2. Mute(o) /\ Mild(o)
    BY MuteSends
  <2> HIDE DEF res, o
  <2>3. Calm(b, st, res)
    BY <2>1, <2>2, SameLedger DEF Calm
  <2> QED
    BY <2>3 DEF res
<1>8. CASE ~(n >= seq) /\ ~(n < seq - 1)
  <2>1. seq = n + 1
    BY <1>1, <1>2, <1>8
  <2>2. res = IF st.istail THEN tail_handle_update(s, st, num)
              ELSE forward_handle_update(st, num)
    BY <1>5, <1>8
  <2> HIDE DEF res
  <2>3. Applies(b, st, num, res)
    BY <1>4, <2>2, TailApplies, ForwardApplies
  <2> QED
    BY <1>3, <1>4, <2>1, <2>3 DEF res
<1> QED
  BY <1>6, <1>7, <1>8

-----------------------------------------------------------------------------
(* The log of a bank: the updates its heads have numbered, and the         *)
(* canonical ledger after each of them.                                    *)

Logs == [top : Nat, led : [Nat -> Ledger], req : [Nat -> Request \cup {Nobody}]]

\* No two entries have the same key.
Unique(P) == \A e, f \in P : SameKey(e.req, f.req) => e = f

\* Each ledger follows from the one before, and forgets nothing.
GoodLog(b, log) ==
    /\ log.led[0] = Canon(EmptyLedger)
    /\ \A n \in 0 .. log.top : Unique(log.led[n].processed)
    /\ \A n \in 1 .. log.top :
            /\ log.led[n] = Moved(log.led[n - 1], log.req[n])
            /\ Ours(b, log.req[n]) /\ log.req[n].seq = n
    /\ \A m, n \in 0 .. log.top :
            m <= n => log.led[m].processed \in SUBSET log.led[n].processed

InLog(log, r) == r.seq \in 1 .. log.top /\ r = log.req[r.seq]

\* The entry f of the history decides the reply to the update of e.
Decides(f, e) ==
    /\ SameKey(f.req, e.req)
    /\ req_consistent(e.req, f.req) => e.reply = f.reply
    /\ ~req_consistent(e.req, f.req) =>
            e.reply.outcome = "INCONSISTENT_WITH_HISTORY"

\* A server has the ledger of its last update, whose history decides the replies
\* that wait in its sent list.
StateInLog(b, log, st) ==
    /\ st.bank_update_seq <= log.top
    /\ Canon(st.ledger) = log.led[st.bank_update_seq]
    /\ Tidy(b, st.ledger)
    /\ \A i \in DOMAIN st.ledger.sent :
            /\ InLog(log, st.ledger.sent[i].req)
            /\ \E f \in log.led[st.bank_update_seq].processed :
                    Decides(f, st.ledger.sent[i])

\* A reply follows from the ledger after the update that it names.
ReplyInLog(log, e) ==
    /\ e.req.seq \in 0 .. log.top
    /\ e.req.type = "QUERY" =>
            e.reply.balance = log.led[e.req.seq].bal[e.req.acct]
    /\ e.req.type # "QUERY" =>
            /\ InLog(log, e.req)
            /\ \E f \in log.led[e.req.seq].processed : Decides(f, e)
            /\ e.reply = update_request_reply(log.led[e.req.seq], e.req).entry.reply

SendInLog(b, log, o) ==
    /\ o.msg.type = "REQUEST" => InLog(log, o.msg.req)
    /\ o.msg.type = "CLIENT_REPLY" =>
            o.msg.entry.req.bank = b /\ ReplyInLog(log, o.msg.entry)

LEMMA LogFields ==
    ASSUME NEW log \in Logs
    PROVE  /\ log.top \in Nat /\ log.led \in [Nat -> Ledger]
           /\ log.req \in [Nat -> Request \cup {Nobody}]
PROOF
  BY DEF Logs

\* The next update: nothing is forgotten, no key is filed twice, and the history
\* decides the reply.
LEMMA MovedMemory ==
    ASSUME NEW k \in Ledger, k.accts = Accounts, k.sent = <<>>,
           Unique(k.processed), NEW req \in Request
    PROVE  LET v == update_request_reply(k, req)
               next == Moved(k, req)
           IN  /\ next \in Ledger /\ next.accts = Accounts /\ next.sent = <<>>
               /\ k.processed \in SUBSET next.processed
               /\ Unique(next.processed)
               /\ v.entry.req = req
               /\ \E f \in next.processed : Decides(f, v.entry)
PROOF
<1> DEFINE v == update_request_reply(k, req)
           next == Moved(k, req)
           old == {e \in k.processed : SameKey(e.req, req)}
<1>1. v.ledger \in Ledger /\ v.entry \in Entry /\ v.entry.req = req
  BY UpdateRequestReply
<1>2. History(k, req) = old
  <2>1. req.acct \in k.accts
    BY RequestFields
  <2>2. {k.sent[i] : i \in {i \in DOMAIN k.sent : FirstSent(k.sent, req, i)}} = {}
    OBVIOUS
  <2> HIDE DEF old
  <2>3. History(k, req) = IF old # {} THEN old ELSE {}
    BY <2>1, <2>2 DEF History, old
  <2> QED
    BY <2>3
<1>3. /\ v.check = "NEWREQ" <=> old = {}
      /\ \A f : old = {f} =>
            /\ req_consistent(req, f.req) => v.entry.reply = f.reply
            /\ ~req_consistent(req, f.req) =>
                    v.entry.reply.outcome = "INCONSISTENT_WITH_HISTORY"
  BY <1>2, Verdict
<1>4. next = [k EXCEPT !.bal = v.ledger.bal,
                       !.processed = IF v.check = "NEWREQ" THEN @ \cup {v.entry} ELSE @]
  BY DEF Moved
<1> HIDE DEF v, next
<1>5. /\ next.accts = k.accts /\ next.sent = k.sent /\ next.bal = v.ledger.bal
      /\ next.processed = IF v.check = "NEWREQ" THEN k.processed \cup {v.entry}
                          ELSE k.processed
  BY <1>4 DEF Ledger
<1>6. next \in Ledger
  <2>1. v.ledger.bal \in [Accounts -> Int] /\ k.processed \in SUBSET Entry
    BY <1>1, LedgerFields
  <2>2. next.processed \in SUBSET Entry
    BY <1>1, <1>5, <2>1
  <2>3. next = [k EXCEPT !.bal = next.bal, !.processed = next.processed]
    BY <1>4, <1>5 DEF Ledger
  <2> QED
    BY <1>5, <2>1, <2>2, <2>3 DEF Ledger
<1>7. CASE old = {}
  <2>1. next.processed = k.processed \cup {v.entry}
    BY <1>3, <1>5, <1>7
  <2>2. \A e \in k.processed : ~SameKey(e.req, v.entry.req) /\ ~SameKey(v.entry.req, e.req)
    BY <1>1, <1>7 DEF SameKey
  <2>3. Unique(next.processed)
    BY <2>1, <2>2 DEF Unique
  <2>4. Decides(v.entry, v.entry)
    BY DEF Decides, SameKey, req_consistent
  <2> QED
    BY <1>1, <1>5, <1>6, <2>1, <2>3, <2>4 DEF v, next
<1>8. CASE old # {}
  <2>1. next.processed = k.processed
    BY <1>3, <1>5, <1>8
  <2>2. PICK f \in old : TRUE
    BY <1>8
  <2>3. old = {f}
    BY <2>2 DEF Unique, SameKey
  <2>4. Decides(f, v.entry)
    BY <1>1, <1>3, <2>2, <2>3 DEF Decides
  <2> QED
    BY <1>1, <1>5, <1>6, <2>1, <2>2, <2>4 DEF v, next
<1> QED
  BY <1>7, <1>8

\* The ledger after the update gives its retry the same reply.
LEMMA MovedReply ==
    ASSUME NEW k \in Ledger, k.accts = Accounts, k.sent = <<>>,
           Unique(k.processed), NEW req \in Request
    PROVE  update_request_reply(Moved(k, req), req).entry.reply =
                update_request_reply(k, req).entry.reply
PROOF
<1> DEFINE v == update_request_reply(k, req)
           next == Moved(k, req)
<1>1. ASSUME NEW x \in Ledger, x.accts = Accounts, x.sent = <<>>
      PROVE  History(x, req) = {e \in x.processed : SameKey(e.req, req)}
  <2> DEFINE old == {e \in x.processed : SameKey(e.req, req)}
  <2>1. req.acct \in x.accts
    BY <1>1, RequestFields
  <2>2. {x.sent[i] : i \in {i \in DOMAIN x.sent : FirstSent(x.sent, req, i)}} = {}
    BY <1>1
  <2> HIDE DEF old
  <2>3. History(x, req) = IF old # {} THEN old ELSE {}
    BY <2>1, <2>2 DEF History, old
  <2> QED
    BY <2>3 DEF old
<1>2. /\ next \in Ledger /\ next.accts = Accounts /\ next.sent = <<>>
      /\ v.entry.req = req
  BY MovedMemory
<1>3. /\ next.bal = v.ledger.bal
      /\ next.processed = IF v.check = "NEWREQ" THEN k.processed \cup {v.entry}
                          ELSE k.processed
  BY DEF Moved, Ledger
<1>4. /\ v.check = "NEWREQ" <=> History(k, req) = {}
      /\ History(k, req) # {} => v.ledger.bal = k.bal
  BY Verdict
<1>5. CASE History(k, req) = {}
  <2>1. History(next, req) = {v.entry}
    <3>1. \A e \in k.processed : ~SameKey(e.req, req)
      BY <1>1, <1>5
    <3>2. SameKey(v.entry.req, req)
      BY <1>2 DEF SameKey
    <3> HIDE DEF v, next
    <3> QED
      BY <1>1, <1>2, <1>3, <1>4, <1>5, <3>1, <3>2
  <2>2. req_consistent(req, v.entry.req)
    BY <1>2 DEF req_consistent
  <2> HIDE DEF v, next
  <2>3. update_request_reply(next, req).entry.reply = v.entry.reply
    BY <1>2, <2>1, <2>2, Verdict
  <2> QED
    BY <2>3 DEF v, next
<1>6. CASE History(k, req) # {}
  <2>1. next.processed = k.processed /\ next.bal = k.bal
    BY <1>3, <1>4, <1>6
  <2> HIDE DEF next, v
  <2>2. History(next, req) = History(k, req)
    BY <1>1, <1>2, <2>1
  <2>3. update_request_reply(next, req).entry = update_request_reply(k, req).entry
    BY <1>2, <2>1, <2>2, SameVerdict
  <2> QED
    BY <2>3 DEF next
<1> QED
  BY <1>5, <1>6

\* The ledgers of a log are canonical where a server has them.
LEMMA StateLedger ==
    ASSUME NEW b, NEW log \in Logs, GoodLog(b, log), NEW st \in ServerState,
           StateInLog(b, log, st),
           NEW n, n = st.bank_update_seq, NEW k, k = log.led[n]
    PROVE  /\ n \in 0 .. log.top /\ st.ledger \in Ledger /\ k = Canon(st.ledger)
           /\ k \in Ledger /\ k.accts = Accounts /\ k.sent = <<>>
           /\ k.processed = Memory(st.ledger) /\ k.bal = st.ledger.bal
           /\ Unique(k.processed)
PROOF
<1>1. n \in Nat /\ st.ledger \in Ledger /\ log.top \in Nat
  BY LogFields DEF ServerState
<1>2. n \in 0 .. log.top /\ k = Canon(st.ledger)
  BY <1>1 DEF StateInLog
<1>3. k \in Ledger /\ Unique(k.processed)
  BY <1>1, <1>2, MemoryType DEF GoodLog
<1>4. /\ k.accts = Accounts /\ k.sent = <<>>
      /\ k.processed = Memory(st.ledger) /\ k.bal = st.ledger.bal
  BY <1>2 DEF Canon
<1> QED
  BY <1>1, <1>2, <1>3, <1>4

\* A handler that applies no update stays in the log.
LEMMA KeepsInLog ==
    ASSUME NEW b, NEW log \in Logs, GoodLog(b, log), NEW st \in ServerState,
           StateInLog(b, log, st), NEW res, Keeps(b, st, res)
    PROVE  /\ StateInLog(b, log, res.st)
           /\ \A i \in DOMAIN res.out : SendInLog(b, log, res.out[i])
PROOF
<1> DEFINE n == st.bank_update_seq
<1>1. /\ n \in 0 .. log.top /\ log.led[n].bal = st.ledger.bal
  BY StateLedger
<1>2. \A e : Holds(st.ledger, e) => InLog(log, e.req)
  BY DEF StateInLog, Holds
<1>3. StateInLog(b, log, res.st)
  <2>1. \A e : Holds(st.ledger, e) => \E f \in log.led[n].processed : Decides(f, e)
    BY DEF StateInLog, Holds
  <2> QED
    BY <1>2, <2>1 DEF StateInLog, Keeps, HoldsLess
<1>4. ASSUME NEW i \in DOMAIN res.out PROVE SendInLog(b, log, res.out[i])
  <2> DEFINE o == res.out[i]
  <2>1. \/ Mute(o)
        \/ /\ o.msg.type = "REQUEST"
           /\ \E e \in Entry : Holds(st.ledger, e) /\ o.msg.req = e.req
        \/ o.msg.type = "CLIENT_REPLY" /\ Reads(b, st, o.msg.entry)
    BY DEF Keeps
  <2> HIDE DEF o
  <2>2. CASE Mute(o)
    BY <2>2 DEF Mute, SendInLog, o
  <2>3. CASE /\ o.msg.type = "REQUEST"
             /\ \E e \in Entry : Holds(st.ledger, e) /\ o.msg.req = e.req
    BY <1>2, <2>3 DEF SendInLog, o
  <2>4. CASE o.msg.type = "CLIENT_REPLY" /\ Reads(b, st, o.msg.entry)
    BY <1>1, <2>4 DEF SendInLog, Reads, ReplyInLog, o
  <2> QED
    BY <2>1, <2>2, <2>3, <2>4
<1> QED
  BY <1>3, <1>4

\* So does one that applies an update of the log.
LEMMA AppliesInLog ==
    ASSUME PlainUpdates, NEW b, NEW log \in Logs, GoodLog(b, log),
           NEW st \in ServerState, StateInLog(b, log, st), NEW res,
           NEW req, InLog(log, req), req.seq = st.bank_update_seq + 1,
           Applies(b, st, req, res)
    PROVE  /\ StateInLog(b, log, res.st)
           /\ \A i \in DOMAIN res.out : SendInLog(b, log, res.out[i])
PROOF
<1> DEFINE n == st.bank_update_seq
           k == log.led[n]
           v == update_request_reply(Canon(st.ledger), req)
<1>1. /\ n \in 0 .. log.top /\ k = Canon(st.ledger) /\ k \in Ledger
      /\ k.accts = Accounts /\ k.sent = <<>> /\ Unique(k.processed)
  BY StateLedger
<1>2. /\ n + 1 \in 1 .. log.top /\ req = log.req[n + 1] /\ n + 1 - 1 = n
      /\ log.top \in Nat
  BY <1>1, LogFields DEF InLog
<1>3. log.led[n + 1] = Moved(k, req) /\ Ours(b, req) /\ req \in Request
  <2>1. PICK x : x = n + 1
    OBVIOUS
  <2>2. x \in 1 .. log.top /\ x - 1 = n /\ req = log.req[x]
    BY <1>1, <1>2, <2>1
  <2>3. log.led[x] = Moved(log.led[x - 1], log.req[x]) /\ Ours(b, log.req[x])
    BY <2>2 DEF GoodLog
  <2> QED
    BY <2>1, <2>2, <2>3 DEF Ours
<1>4. /\ v.entry.req = req /\ \E f \in log.led[n + 1].processed : Decides(f, v.entry)
      /\ k.processed \in SUBSET log.led[n + 1].processed
      /\ v.entry.reply = update_request_reply(log.led[n + 1], req).entry.reply
  <2>1. PICK x \in Ledger : x = k
    BY <1>1
  <2>2. x.accts = Accounts /\ x.sent = <<>> /\ Unique(x.processed)
    BY <1>1, <2>1
  <2>3. v = update_request_reply(x, req) /\ log.led[n + 1] = Moved(x, req)
    BY <1>1, <1>3, <2>1
  <2> HIDE DEF v, k, n
  <2>4. /\ x.processed \in SUBSET Moved(x, req).processed
        /\ v.entry.req = req
        /\ \E f \in Moved(x, req).processed : Decides(f, v.entry)
    BY <1>3, <2>2, <2>3, MovedMemory
  <2>5. v.entry.reply = update_request_reply(Moved(x, req), req).entry.reply
    BY <1>3, <2>2, <2>3, MovedReply
  <2> QED
    BY <2>1, <2>3, <2>4, <2>5
<1>5. \A e : Holds(st.ledger, e) => InLog(log, e.req)
  BY DEF StateInLog, Holds
<1>6. StateInLog(b, log, res.st)
  <2>1. /\ res.st.bank_update_seq = n + 1
        /\ Canon(res.st.ledger) = Moved(k, req) /\ Tidy(b, res.st.ledger)
        /\ \A i \in DOMAIN res.st.ledger.sent :
                \/ Holds(st.ledger, res.st.ledger.sent[i])
                \/ res.st.ledger.sent[i] = v.entry
    BY <1>1 DEF Applies
  <2>2. \A e : Holds(st.ledger, e) => \E f \in k.processed : Decides(f, e)
    BY DEF StateInLog, Holds
  <2>3. InLog(log, v.entry.req)
    BY <1>4
  <2> HIDE DEF v, k, n
  <2>4. \A e : Holds(st.ledger, e) \/ e = v.entry =>
            InLog(log, e.req) /\ \E f \in log.led[n + 1].processed : Decides(f, e)
    BY <1>4, <1>5, <2>2, <2>3
  <2>5. n + 1 <= log.top
    BY <1>2
  <2> QED
    BY <1>3, <2>1, <2>4, <2>5 DEF StateInLog
<1>7. ReplyInLog(log, v.entry) /\ v.entry.req.bank = b
  <2>1. req.seq = n + 1 /\ req.seq \in 0 .. log.top /\ req.type # "QUERY"
        /\ req.bank = b
    BY <1>1, <1>2, <1>3 DEF Ours
  <2> HIDE DEF v, n
  <2> QED
    BY <1>4, <2>1 DEF ReplyInLog
<1>8. ASSUME NEW i \in DOMAIN res.out PROVE SendInLog(b, log, res.out[i])
  <2> DEFINE o == res.out[i]
  <2>1. \/ Mute(o)
        \/ o.msg.type = "REQUEST" /\ o.msg.req = req
        \/ o.msg.type = "CLIENT_REPLY" /\ o.msg.entry = v.entry
    BY DEF Applies
  <2> HIDE DEF o, v
  <2> QED
    BY <1>7, <2>1 DEF SendInLog, Mute, o
<1> QED
  BY <1>6, <1>8

\* Two logs have the same updates up to number n.
SameUpTo(log, new, n) ==
    /\ n <= new.top
    /\ \A m \in 0 .. n : new.led[m] = log.led[m] /\ new.req[m] = log.req[m]

LEMMA SameUpToKeeps ==
    ASSUME NEW log \in Logs, NEW new \in Logs, NEW n \in Nat, SameUpTo(log, new, n)
    PROVE  /\ \A r : r.seq <= n /\ InLog(log, r) => InLog(new, r)
           /\ \A e : e.req.seq <= n /\ ReplyInLog(log, e) => ReplyInLog(new, e)
           /\ \A b : \A st \in ServerState :
                (/\ st.bank_update_seq <= n /\ StateInLog(b, log, st)
                 /\ \A i \in DOMAIN st.ledger.sent : st.ledger.sent[i].req.seq <= n)
                => StateInLog(b, new, st)
PROOF
<1>1. log.top \in Nat /\ new.top \in Nat /\ n <= new.top
  BY LogFields DEF SameUpTo
<1>2. ASSUME NEW r, r.seq <= n, InLog(log, r) PROVE InLog(new, r)
  <2>1. r.seq \in 1 .. log.top /\ r = log.req[r.seq]
    BY <1>2 DEF InLog
  <2>2. r.seq \in 0 .. n /\ r.seq \in 1 .. new.top
    BY <1>1, <1>2, <2>1
  <2> QED
    BY <2>1, <2>2 DEF InLog, SameUpTo
<1>3. ASSUME NEW e, e.req.seq <= n, ReplyInLog(log, e) PROVE ReplyInLog(new, e)
  <2>1. e.req.seq \in 0 .. log.top
    BY <1>3 DEF ReplyInLog
  <2>2. e.req.seq \in 0 .. n /\ e.req.seq \in 0 .. new.top
    BY <1>1, <1>3, <2>1
  <2>3. new.led[e.req.seq] = log.led[e.req.seq]
    BY <2>2 DEF SameUpTo
  <2> QED
    BY <1>2, <1>3, <2>2, <2>3 DEF ReplyInLog
<1>4. ASSUME NEW b, NEW st \in ServerState, st.bank_update_seq <= n,
             StateInLog(b, log, st),
             \A i \in DOMAIN st.ledger.sent : st.ledger.sent[i].req.seq <= n
      PROVE  StateInLog(b, new, st)
  <2>1. st.bank_update_seq \in Nat
    BY DEF ServerState
  <2>2. st.bank_update_seq \in 0 .. n /\ st.bank_update_seq <= new.top
    BY <1>1, <1>4, <2>1
  <2>3. new.led[st.bank_update_seq] = log.led[st.bank_update_seq]
    BY <2>2 DEF SameUpTo
  <2>4. \A i \in DOMAIN st.ledger.sent : InLog(new, st.ledger.sent[i].req)
    BY <1>2, <1>4 DEF StateInLog
  <2> QED
    BY <1>4, <2>2, <2>3, <2>4 DEF StateInLog
<1> QED
  BY <1>2, <1>3, <1>4

\* A head numbers an update: the log is cut after the last update of the head,
\* and goes on with the new one.
LEMMA NewLog ==
    ASSUME NEW b, NEW log \in Logs, GoodLog(b, log), NEW st \in ServerState,
           StateInLog(b, log, st), NEW num, Ours(b, num),
           num.seq = st.bank_update_seq + 1
    PROVE  \E new \in Logs : /\ GoodLog(b, new) /\ InLog(new, num)
                             /\ SameUpTo(log, new, st.bank_update_seq)
                             /\ new.top = num.seq
PROOF
<1> DEFINE n == st.bank_update_seq
           N == n + 1
           k == log.led[n]
           next == Moved(k, num)
           led == [log.led EXCEPT ![N] = next]
           req == [log.req EXCEPT ![N] = num]
           new == [top |-> N, led |-> led, req |-> req]
<1>1. /\ n \in Nat /\ n <= log.top /\ k \in Ledger
      /\ k.accts = Accounts /\ k.sent = <<>> /\ Unique(k.processed)
      /\ log.top \in Nat /\ n \in 0 .. log.top
  BY StateLedger, LogFields
<1>2. /\ next \in Ledger /\ Unique(next.processed)
      /\ k.processed \in SUBSET next.processed /\ num \in Request
  BY <1>1, MovedMemory DEF Ours
<1>3. N \in Nat /\ N - 1 = n /\ N \notin 0 .. n /\ N > n
  BY <1>1
<1> HIDE DEF next, N, n, k
<1>4. /\ led \in [Nat -> Ledger] /\ req \in [Nat -> Request \cup {Nobody}]
      /\ led[N] = next /\ req[N] = num
      /\ \A m \in 0 .. n : led[m] = log.led[m] /\ req[m] = log.req[m]
  BY <1>1, <1>2, <1>3, LogFields
<1> HIDE DEF led, req
<1>5. new \in Logs /\ new.top = N /\ new.led = led /\ new.req = req
  BY <1>3, <1>4 DEF Logs
<1> HIDE DEF new
<1>6. \A m \in 0 .. N : m \in 0 .. n \/ m = N
  BY <1>1, <1>3
<1>7. \A m \in 0 .. n : m \in 0 .. log.top
  BY <1>1
<1>8. led[n] = k /\ n \in 0 .. n
  BY <1>1, <1>4 DEF k
<1>9. ASSUME NEW m \in 0 .. N PROVE Unique(led[m].processed)
  BY <1>2, <1>4, <1>6, <1>7 DEF GoodLog
<1>10. ASSUME NEW m \in 1 .. N
       PROVE  led[m] = Moved(led[m - 1], req[m]) /\ Ours(b, req[m]) /\ req[m].seq = m
  <2>1. CASE m = N
    BY <1>3, <1>4, <1>8, <2>1 DEF next, N, n
  <2>2. CASE m # N
    <3>1. m \in 0 .. n /\ m - 1 \in 0 .. n /\ m \in 1 .. log.top
      BY <1>1, <1>3, <2>2 DEF N
    <3>2. /\ log.led[m] = Moved(log.led[m - 1], log.req[m])
          /\ Ours(b, log.req[m]) /\ log.req[m].seq = m
      BY <3>1 DEF GoodLog
    <3> QED
      BY <1>4, <3>1, <3>2
  <2> QED
    BY <2>1, <2>2
<1>11. ASSUME NEW m \in 0 .. N, NEW x \in 0 .. N, m <= x
       PROVE  led[m].processed \in SUBSET led[x].processed
  <2>1. CASE x = N /\ m = N
    BY <2>1
  <2>2. CASE x = N /\ m \in 0 .. n
    <3>1. m <= n /\ m \in 0 .. log.top
      BY <1>1, <1>7, <2>2
    <3>2. log.led[m].processed \in SUBSET log.led[n].processed
      BY <1>1, <3>1 DEF GoodLog
    <3> QED
      BY <1>2, <1>4, <1>8, <2>2, <3>2
  <2>3. CASE x \in 0 .. n
    <3>1. m \in 0 .. n
      BY <1>1, <1>11, <2>3
    <3>2. log.led[m].processed \in SUBSET log.led[x].processed
      BY <1>7, <1>11, <2>3, <3>1 DEF GoodLog
    <3> QED
      BY <1>4, <2>3, <3>1, <3>2
  <2> QED
    BY <1>6, <2>1, <2>2, <2>3
<1>12. GoodLog(b, new)
  <2>1. 0 \in 0 .. n
    BY <1>1
  <2>2. led[0] = Canon(EmptyLedger)
    BY <1>4, <2>1 DEF GoodLog
  <2> QED
    BY <1>5, <1>9, <1>10, <1>11, <2>2 DEF GoodLog
<1>13. InLog(new, num)
  <2>1. num.seq = N /\ N \in 1 .. N
    BY <1>1 DEF N, n
  <2> QED
    BY <1>4, <1>5, <2>1 DEF InLog
<1>14. SameUpTo(log, new, n)
  BY <1>1, <1>3, <1>4, <1>5 DEF SameUpTo
<1>15. new.top = num.seq
  BY <1>5 DEF N, n
<1> QED
  BY <1>5, <1>12, <1>13, <1>14, <1>15 DEF n

-----------------------------------------------------------------------------
(* The invariant: each bank has a log in which its living servers, the     *)
(* updates under way to them and all its replies are found.  It is no      *)
(* longer than the number of updates that have come from clients.          *)

\* The same of a send, if there is a server to receive it.
Told(b, log, o) == o.to \in alive \/ o.msg.type # "REQUEST" => SendInLog(b, log, o)

Logged(b, log) ==
    /\ GoodLog(b, log)
    /\ \A t \in Living(b) : StateInLog(b, log, srv[t])
    /\ \A t \in Living(b) : \A i \in DOMAIN tcp[t] :
            tcp[t][i].type = "REQUEST" => InLog(log, tcp[t][i].req)
    /\ \A u \in Living(b) : \A i \in DOMAIN sending[u] :
            Told(b, log, sending[u][i])
    /\ \A e \in replies : e.req.bank = b => ReplyInLog(log, e)

HistoryInv ==
    /\ arrivals <= MaxArrivals
    /\ \A b \in Banks : \E log \in Logs : Logged(b, log) /\ log.top <= arrivals

\* A server answers first, and sends updates only down its own chain.
PlainSend(u, o) ==
    /\ o.msg.type \notin {"REPLY", "CLIENT_REPLY"}
    /\ o.msg.type = "REQUEST" /\ o.to \in alive => u < o.to /\ SameBank(u, o.to)

PlainSends == \A u \in alive : \A i \in DOMAIN sending[u] : PlainSend(u, sending[u][i])

MasterSends ==
    \A i \in DOMAIN sending[Master] : sending[Master][i].msg.type \in OrderTypes

\* No update waits at a head, or comes after the order to become one.
PlainBox(t, ishead, box) ==
    \A i \in DOMAIN box :
        /\ box[i].type # "REPLY"
        /\ box[i].type = "REQUEST" =>
                ~ishead /\ \A j \in DOMAIN box : j < i => box[j].type # "TO_BE_HEAD"

PlainBoxes == \A t \in alive : PlainBox(t, srv[t].ishead, tcp[t])

PlainInv == PlainSends /\ MasterSends /\ PlainBoxes

\* The head numbers an update, and nothing in the system knows a later one.
LEMMA HeadCutsLog ==
    ASSUME TypeOK, SeqInv, RolesInv, PlainInv, NEW s \in alive, srv[s].ishead,
           NEW b, b = BankOf[s], NEW log \in Logs, Logged(b, log), NEW num,
           Ours(b, num), num.seq = srv[s].bank_update_seq + 1
    PROVE  \E new \in Logs :
                /\ Logged(b, new) /\ InLog(new, num) /\ new.top = num.seq
                /\ SameUpTo(log, new, srv[s].bank_update_seq)
PROOF
<1> DEFINE n == srv[s].bank_update_seq
<1>1. s \in Servers /\ s \in Living(b) /\ srv[s] \in ServerState /\ n \in Nat
  BY ServerFields DEF TypeOK, Living
<1>2. PICK new \in Logs : /\ GoodLog(b, new) /\ InLog(new, num)
                          /\ SameUpTo(log, new, n) /\ new.top = num.seq
  BY <1>1, NewLog DEF Logged
<1>3. /\ \A r : r.seq <= n /\ InLog(log, r) => InLog(new, r)
      /\ \A e : e.req.seq <= n /\ ReplyInLog(log, e) => ReplyInLog(new, e)
      /\ \A st \in ServerState :
            (/\ st.bank_update_seq <= n /\ StateInLog(b, log, st)
             /\ \A i \in DOMAIN st.ledger.sent : st.ledger.sent[i].req.seq <= n)
            => StateInLog(b, new, st)
  BY <1>1, <1>2, SameUpToKeeps
<1>4. \A t \in Living(b) : /\ t \in Servers /\ t \in alive /\ SameBank(t, s)
                           /\ t \in Int /\ srv[t] \in ServerState
                           /\ srv[t].bank_update_seq \in Nat
                           /\ tcp[t] \in Seq(Message) /\ sending[t] \in Seq(Outgoing)
                           /\ t # s => s < t
  <2> SUFFICES ASSUME NEW t \in Living(b)
               PROVE  /\ t \in Servers /\ t \in alive /\ SameBank(t, s)
                      /\ t \in Int /\ srv[t] \in ServerState
                      /\ srv[t].bank_update_seq \in Nat
                      /\ tcp[t] \in Seq(Message) /\ sending[t] \in Seq(Outgoing)
                      /\ t # s => s < t
    OBVIOUS
  <2>1. t \in Servers /\ t \in alive /\ SameBank(t, s)
    BY DEF Living, SameBank, TypeOK
  <2>2. /\ t \in Int /\ s \in Int /\ srv[t] \in ServerState
        /\ srv[t].bank_update_seq \in Nat
        /\ tcp[t] \in Seq(Message) /\ sending[t] \in Seq(Outgoing)
    BY <1>1, <2>1, ServerFields DEF TypeOK, Processes
  <2>3. ~(t < s)
    BY <2>1 DEF RolesInv, HeadsAreFirst, Appointed, NoneBefore, SameBank
  <2> QED
    BY <2>1, <2>2, <2>3
<1>5. ASSUME NEW t \in Living(b) PROVE srv[t].bank_update_seq <= n
  <2>1. CASE t = s
    BY <1>1, <2>1
  <2>2. CASE t # s
    BY <1>4, <2>2 DEF SeqInv, Descends, AppliedBefore, SameBank
  <2> QED
    BY <2>1, <2>2
<1>6. ASSUME NEW t \in Living(b) PROVE StateInLog(b, new, srv[t])
  <2>1. StateInLog(b, log, srv[t]) /\ GoodState(t, srv[t])
    BY <1>4 DEF Logged, SeqInv, GoodServers
  <2>2. ASSUME NEW i \in DOMAIN srv[t].ledger.sent
        PROVE  srv[t].ledger.sent[i].req.seq <= n
    <3>1. srv[t].ledger.sent[i].req.seq <= srv[t].bank_update_seq
      BY <2>1 DEF GoodState
    <3>2. srv[t].ledger.sent[i].req.seq \in Nat
      BY <1>4, ServerFields, SentFields DEF TypeOK
    <3> QED
      BY <1>1, <1>4, <1>5, <3>1, <3>2
  <2> QED
    BY <1>3, <1>4, <1>5, <2>1, <2>2
<1>7. ASSUME NEW t \in Living(b), t # s, NEW r \in Request, AppliedBefore(t, r.seq)
      PROVE  r.seq <= n
  BY <1>1, <1>4, <1>7 DEF AppliedBefore, SameBank
<1>8. ASSUME NEW t \in Living(b), NEW i \in DOMAIN tcp[t], tcp[t][i].type = "REQUEST"
      PROVE  InLog(new, tcp[t][i].req)
  <2>1. t # s
    BY <1>8 DEF PlainInv, PlainBoxes, PlainBox
  <2>2. InLog(log, tcp[t][i].req) /\ Good(Send(t, tcp[t][i]))
    BY <1>4, <1>8 DEF Logged, SeqInv, GoodInboxes, Processes
  <2>3. tcp[t][i].req \in Request
    BY <1>4, <1>8, MessageFields
  <2>4. AppliedBefore(t, tcp[t][i].req.seq)
    BY <1>4, <1>8, <2>2 DEF Good, Send
  <2> QED
    BY <1>3, <1>7, <2>1, <2>2, <2>3, <2>4
<1>9. ASSUME NEW u \in Living(b), NEW i \in DOMAIN sending[u]
      PROVE  Told(b, new, sending[u][i])
  <2> DEFINE o == sending[u][i]
  <2>1. Told(b, log, o) /\ Good(o) /\ PlainSend(u, o) /\ o \in Outgoing
    BY <1>4 DEF Logged, SeqInv, GoodSends, Processes, PlainInv, PlainSends
  <2> SUFFICES Told(b, new, o)
    OBVIOUS
  <2> HIDE DEF o
  <2>2. CASE o.msg.type # "REQUEST"
    BY <2>1, <2>2 DEF Told, SendInLog, PlainSend
  <2>3. CASE o.msg.type = "REQUEST" /\ o.to \in alive
    <3>1. u < o.to /\ SameBank(u, o.to) /\ InLog(log, o.msg.req)
      BY <2>1, <2>3 DEF PlainSend, Told, SendInLog
    <3>2. o.to \in Living(b) /\ o.to \in Servers
      BY <1>4, <2>3, <3>1 DEF Living, SameBank, TypeOK
    <3>3. o.to # s
      BY <1>1, <1>4, <3>1, <3>2
    <3>4. o.msg.req \in Request
      BY <2>1, <2>3, MessageFields DEF Outgoing
    <3>5. AppliedBefore(o.to, o.msg.req.seq)
      BY <2>1, <2>3, <3>2 DEF Good
    <3>6. InLog(new, o.msg.req)
      BY <1>3, <1>7, <3>1, <3>2, <3>3, <3>4, <3>5
    <3> QED
      BY <2>3, <3>6 DEF Told, SendInLog
  <2>4. CASE o.msg.type = "REQUEST" /\ o.to \notin alive
    BY <2>4 DEF Told
  <2> QED
    BY <2>2, <2>3, <2>4
<1>10. ASSUME NEW e \in replies, e.req.bank = b PROVE ReplyInLog(new, e)
  <2>1. ReplyInLog(log, e) /\ e.req.seq <= n
    BY <1>1, <1>10 DEF Logged, SeqInv, GoodReplies, Applied
  <2> QED
    BY <1>3, <2>1
<1>11. Logged(b, new)
  BY <1>2, <1>6, <1>8, <1>9, <1>10 DEF Logged
<1> QED
  BY <1>2, <1>11

-----------------------------------------------------------------------------
(* Whatever a server does, its bank still has a log.                       *)

\* A server applies no update, or the next one of the log.
Heeds(b, log, st, res) ==
    \/ Keeps(b, st, res)
    \/ \E num \in Request :
        /\ Ours(b, num) /\ num.seq = st.bank_update_seq + 1
        /\ InLog(log, num) /\ Applies(b, st, num, res)

\* A server applies no update, or the next one: the log has it unless the
\* server is head.
Does(b, log, st, res) ==
    \/ Keeps(b, st, res)
    \/ \E num \in Request :
        /\ Ours(b, num) /\ num.seq = st.bank_update_seq + 1
        /\ st.ishead \/ InLog(log, num)
        /\ Applies(b, st, num, res)

\* A message of another process: only an update is answered.
LEMMA AnswerCalm ==
    ASSUME PlainUpdates, TypeOK, SeqInv, PlainInv, NEW s \in alive,
           NEW b, b = BankOf[s], NEW log \in Logs, Logged(b, log),
           tcp[s] # <<>>, NEW res, Answers(s, Head(tcp[s]), res)
    PROVE  \/ Calm(b, srv[s], res)
           \/ \E num \in Request :
                /\ Ours(b, num) /\ num.seq = srv[s].bank_update_seq + 1
                /\ InLog(log, num) /\ Applies(b, srv[s], num, res)
PROOF
<1>1. /\ s \in Servers /\ s \in Living(b) /\ srv[s] \in ServerState
      /\ tcp[s] \in Seq(Message)
  BY DEF TypeOK, Living, Processes
<1>2. PICK st \in ServerState : st = srv[s]
  BY <1>1
<1>3. Tidy(b, st.ledger) /\ GoodLog(b, log)
  BY <1>1, <1>2 DEF Logged, StateInLog
<1>4. PICK m \in Message : m = Head(tcp[s]) /\ m = tcp[s][1]
  BY <1>1
<1>5. 1 \in DOMAIN tcp[s]
  BY <1>1
<1>6. /\ m.type # "REPLY"
      /\ m.type = "REQUEST" => InLog(log, m.req) /\ ~srv[s].ishead
  BY <1>1, <1>4, <1>5 DEF PlainInv, PlainBoxes, PlainBox, Logged
<1>7. CASE m.type = "REQUEST" /\ res = receive_request(s, st, m.req)
  <2>1. PICK r : r = m.req
    OBVIOUS
  <2>2. InLog(log, r)
    BY <1>6, <1>7, <2>1
  <2>3. Ours(b, r)
    BY <1>3, <2>2 DEF InLog, GoodLog
  <2>4. \/ Calm(b, st, res)
        \/ \E num \in Request :
                /\ Ours(b, num) /\ num.seq = st.bank_update_seq + 1
                /\ st.ishead \/ num = r
                /\ Applies(b, st, num, res)
    BY <1>3, <1>7, <2>1, <2>3, RequestApplies
  <2> QED
    BY <1>2, <1>6, <1>7, <2>2, <2>4
<1>8. CASE m.type # "REQUEST"
  <2>1. m.type = "ACKNOWLEDGE" => m.seq \in Nat
    BY MessageFields
  <2>2. Calm(b, st, res)
    BY <1>2, <1>3, <1>4, <1>6, <1>8, <2>1, CalmAck, CalmHead, CalmTail,
       CalmPre, CalmSucc, CalmNewHead DEF Answers
  <2> QED
    BY <1>2, <2>2
<1> QED
  BY <1>2, <1>4, <1>7, <1>8 DEF Answers

LEMMA AnswerDoes ==
    ASSUME PlainUpdates, TypeOK, SeqInv, PlainInv, NEW s \in alive,
           NEW b, b = BankOf[s], NEW log \in Logs, Logged(b, log),
           tcp[s] # <<>>, NEW res, Answers(s, Head(tcp[s]), res)
    PROVE  Heeds(b, log, srv[s], res)
PROOF
  BY AnswerCalm, CalmKeeps DEF Heeds

\* An update of a client, which has no number: only a head gives it one.
LEMMA ClientNumbers ==
    ASSUME PlainUpdates, TypeOK, NEW s \in alive,
           NEW b, b = BankOf[s], NEW log \in Logs, Logged(b, log),
           NEW r \in ClientUpdates, r.bank = b,
           NEW res, res = receive_request(s, srv[s], r)
    PROVE  \/ Calm(b, srv[s], res)
           \/ \E num \in Request :
                /\ Ours(b, num) /\ num.seq = srv[s].bank_update_seq + 1
                /\ srv[s].ishead /\ [num EXCEPT !.seq = 0] = r
                /\ Applies(b, srv[s], num, res)
PROOF
<1>1. s \in Servers /\ s \in Living(b) /\ srv[s] \in ServerState
  BY DEF TypeOK, Living
<1>2. PICK st \in ServerState : st = srv[s]
  BY <1>1
<1>3. Tidy(b, st.ledger) /\ st.bank_update_seq \in Nat
  BY <1>1, <1>2 DEF Logged, StateInLog, ServerState
<1>4. r \in Request /\ r.seq = 0 /\ r.type \in {"DEPOSIT", "WITHDRAW"}
  BY ChainAssumption DEF ClientRequest, PlainUpdates
<1>5. [r EXCEPT !.seq = 0] = r
  BY <1>4 DEF Request, RequestRecord
<1>6. Ours(b, r)
  BY <1>4, <1>5 DEF Ours
<1>7. \/ Calm(b, st, res)
      \/ \E num \in Request :
            /\ Ours(b, num) /\ num.seq = st.bank_update_seq + 1
            /\ st.ishead \/ num = r
            /\ [num EXCEPT !.seq = 0] = [r EXCEPT !.seq = 0]
            /\ Applies(b, st, num, res)
  BY <1>2, <1>3, <1>6, RequestApplies
<1>8. r.seq # st.bank_update_seq + 1
  BY <1>3, <1>4
<1> QED
  BY <1>2, <1>5, <1>7, <1>8

\* A query applies no update.
LEMMA QueryKeeps ==
    ASSUME TypeOK, NEW s \in alive,
           NEW b, b = BankOf[s], NEW log \in Logs, Logged(b, log),
           NEW r \in ClientQueries, r.bank = b,
           NEW res, res = receive_request(s, srv[s], r)
    PROVE  Keeps(b, srv[s], res)
PROOF
<1>1. s \in Servers /\ s \in Living(b) /\ srv[s] \in ServerState
  BY DEF TypeOK, Living
<1>2. PICK st \in ServerState : st = srv[s]
  BY <1>1
<1>3. Tidy(b, st.ledger)
  BY <1>1, <1>2 DEF Logged, StateInLog
<1>4. r \in Request /\ r.type = "QUERY"
  BY ChainAssumption DEF ClientRequest
<1>5. res = handle_query(st, r)
  BY <1>2, <1>4, Zenon DEF receive_request
<1> QED
  BY <1>2, <1>3, <1>4, <1>5, KeepsQuery

\* A request of a client.
LEMMA ClientDoes ==
    ASSUME PlainUpdates, TypeOK, NEW s \in alive,
           NEW b, b = BankOf[s], NEW log \in Logs, Logged(b, log),
           NEW r \in ClientUpdates \cup ClientQueries, r.bank = b,
           NEW res, res = receive_request(s, srv[s], r)
    PROVE  Does(b, log, srv[s], res)
PROOF
  BY ClientNumbers, QueryKeeps, CalmKeeps DEF Does

LEMMA HandledDoes ==
    ASSUME PlainUpdates, TypeOK, SeqInv, PlainInv, NEW s \in alive,
           NEW b, b = BankOf[s], NEW log \in Logs, Logged(b, log),
           NEW inbox, NEW res, Handled(s, inbox, res)
    PROVE  \/ Does(b, log, srv[s], res)
           \/ res = [st |-> srv[s], out |-> sending[s]]
PROOF
<1>1. Heeds(b, log, srv[s], res) => Does(b, log, srv[s], res)
  BY DEF Heeds, Does
<1> QED
  BY <1>1, AnswerDoes, ClientDoes DEF Handled

\* The log goes on with an update of R behind number n.
Continued(R, n, log, new) ==
    /\ new.top = n + 1 /\ SameUpTo(log, new, n)
    /\ [new.req[n + 1] EXCEPT !.seq = 0] \in R

\* What the server does is in a log of its bank: in the one there was, or, if it
\* is the head and numbers an update, in one that goes on with it.
LEMMA AskedLog ==
    ASSUME PlainUpdates, TypeOK, RolesInv, SeqInv, PlainInv, NEW s \in alive,
           NEW b, b = BankOf[s], NEW log \in Logs, Logged(b, log),
           log.top <= arrivals, NEW res, Counted(s, res),
           NEW R \in SUBSET (ClientUpdates \cup ClientQueries), Asked(s, R, res)
    PROVE  \E new \in Logs :
                /\ Logged(b, new) /\ StateInLog(b, new, res.st)
                /\ \A i \in DOMAIN res.out : Told(b, new, res.out[i])
                /\ new.top <= arrivals'
                /\ new = log \/ Continued(R, srv[s].bank_update_seq, log, new)
PROOF
<1>1. /\ s \in Servers /\ s \in Living(b) /\ srv[s] \in ServerState
      /\ srv[s].ishead \in BOOLEAN /\ arrivals \in Nat /\ log.top \in Nat
  BY ServerFields, LogFields DEF TypeOK, Living
<1>2. PICK st \in ServerState : st = srv[s]
  BY <1>1
<1>3. /\ GoodLog(b, log) /\ StateInLog(b, log, st)
      /\ st.bank_update_seq \in Nat /\ st.bank_update_seq <= log.top
  BY <1>1, <1>2 DEF Logged, StateInLog, ServerState
<1>4. ASSUME NEW new \in Logs, Logged(b, new), NEW num \in Request, InLog(new, num),
             num.seq = st.bank_update_seq + 1, Applies(b, st, num, res)
      PROVE  /\ StateInLog(b, new, res.st)
             /\ \A i \in DOMAIN res.out : Told(b, new, res.out[i])
  <2>1. GoodLog(b, new) /\ StateInLog(b, new, st)
    BY <1>1, <1>2, <1>4 DEF Logged
  <2>2. /\ StateInLog(b, new, res.st)
        /\ \A i \in DOMAIN res.out : SendInLog(b, new, res.out[i])
    BY <1>4, <2>1, AppliesInLog
  <2> QED
    BY <2>2 DEF Told
<1>5. log.top <= arrivals'
  <2>1. arrivals' = arrivals \/ arrivals' = arrivals + 1
    BY DEF Counted
  <2> QED
    BY <1>1, <2>1
<1>6. CASE Heeds(b, log, st, res)
  <2>1. CASE Keeps(b, st, res)
    <3>1. /\ StateInLog(b, log, res.st)
          /\ \A i \in DOMAIN res.out : SendInLog(b, log, res.out[i])
      BY <1>3, <2>1, KeepsInLog
    <3> QED
      BY <1>5, <3>1 DEF Told
  <2> QED
    BY <1>4, <1>5, <1>6, <2>1 DEF Heeds
<1>7. CASE res = [st |-> srv[s], out |-> sending[s]]
  <2>1. res.st = st /\ res.out = sending[s]
    BY <1>2, <1>7
  <2> QED
    BY <1>1, <1>3, <1>5, <2>1 DEF Logged
<1>8. CASE tcp[s] # <<>> /\ Answers(s, Head(tcp[s]), res)
  BY <1>2, <1>6, <1>8, AnswerDoes
<1>9. CASE \E r \in ClientQueries :
                r.bank = BankOf[s] /\ res = receive_request(s, srv[s], r)
  BY <1>2, <1>6, <1>9, QueryKeeps DEF Heeds
<1>10. CASE arrivals' # arrivals + 1
  BY <1>7, <1>8, <1>9, <1>10 DEF Counted
<1>11. ASSUME NEW r \in R, r \in ClientUpdates, r.bank = BankOf[s],
              res = receive_request(s, srv[s], r), arrivals' = arrivals + 1
       PROVE  \E new \in Logs :
                /\ Logged(b, new) /\ StateInLog(b, new, res.st)
                /\ \A i \in DOMAIN res.out : Told(b, new, res.out[i])
                /\ new.top <= arrivals'
                /\ new = log \/ Continued(R, srv[s].bank_update_seq, log, new)
  <2>1. CASE Calm(b, st, res)
    BY <1>6, <2>1, CalmKeeps DEF Heeds
  <2>2. CASE \E num \in Request :
                /\ Ours(b, num) /\ num.seq = st.bank_update_seq + 1
                /\ st.ishead /\ [num EXCEPT !.seq = 0] = r
                /\ Applies(b, st, num, res)
    <3>1. PICK num \in Request :
                /\ Ours(b, num) /\ num.seq = st.bank_update_seq + 1
                /\ st.ishead /\ [num EXCEPT !.seq = 0] = r
                /\ Applies(b, st, num, res)
      BY <2>2
    <3>2. PICK new \in Logs :
                /\ Logged(b, new) /\ InLog(new, num) /\ new.top = num.seq
                /\ SameUpTo(log, new, st.bank_update_seq)
      BY <1>2, <3>1, HeadCutsLog
    <3>3. new.top <= arrivals'
      BY <1>1, <1>3, <1>11, <3>1, <3>2
    <3>4. Continued(R, st.bank_update_seq, log, new)
      BY <3>1, <3>2 DEF Continued, InLog
    <3> QED
      BY <1>2, <1>4, <3>1, <3>2, <3>3, <3>4
  <2> QED
    BY <1>2, <1>11, <2>1, <2>2, ClientNumbers
<1> QED
  BY <1>7, <1>8, <1>9, <1>10, <1>11 DEF Asked

LEMMA HandledLog ==
    ASSUME PlainUpdates, TypeOK, RolesInv, SeqInv, PlainInv, NEW s \in alive,
           NEW b, b = BankOf[s], NEW log \in Logs, Logged(b, log),
           log.top <= arrivals, NEW inbox, NEW res, Handled(s, inbox, res),
           Counted(s, res)
    PROVE  \E new \in Logs :
                /\ Logged(b, new) /\ StateInLog(b, new, res.st)
                /\ \A i \in DOMAIN res.out : Told(b, new, res.out[i])
                /\ new.top <= arrivals'
PROOF
<1>1. PICK R \in SUBSET (ClientUpdates \cup ClientQueries) :
            R = ClientUpdates \cup ClientQueries
  OBVIOUS
<1>2. Asked(s, R, res)
  BY <1>1 DEF Handled, Asked
<1> QED
  BY <1>2, AskedLog

\* The sends of a server: it answers first, and sends updates to its successor.
PlainSay(s, o) ==
    /\ o.msg.type # "REPLY"
    /\ o.msg.type = "REQUEST" /\ o.to \in alive => s < o.to /\ SameBank(s, o.to)

LEMMA HandledSays ==
    ASSUME PlainUpdates, TypeOK, SeqInv, PlainInv, NEW s \in alive,
           NEW b, b = BankOf[s], NEW log \in Logs, Logged(b, log),
           NEW inbox, NEW res, Handled(s, inbox, res), GoodState(s, res.st),
           NEW i \in DOMAIN res.out
    PROVE  /\ PlainSay(s, res.out[i])
           /\ res.out[i].msg.type = "CLIENT_REPLY" => i = 1
PROOF
<1>1. Nobody \notin alive
  BY BankAssumption DEF TypeOK, Nobody, Servers
<1> DEFINE o == res.out[i]
<1>2. \/ Mute(o)
      \/ o.msg.type = "REQUEST" /\ o.to = res.st.succ
      \/ i = 1 /\ o.msg.type = "CLIENT_REPLY"
      \/ PlainSend(s, o)
  <2>1. CASE Keeps(b, srv[s], res)
    BY <2>1 DEF Keeps
  <2>2. CASE \E num \in Request : Applies(b, srv[s], num, res)
    BY <2>2 DEF Applies
  <2>3. CASE res = [st |-> srv[s], out |-> sending[s]]
    <3>1. res.out = sending[s]
      BY <2>3
    <3> QED
      BY <3>1 DEF PlainInv, PlainSends
  <2> QED
    BY <2>1, <2>2, <2>3, HandledDoes DEF Does
<1> SUFFICES PlainSay(s, o) /\ (o.msg.type = "CLIENT_REPLY" => i = 1)
  OBVIOUS
<1> HIDE DEF o
<1>3. CASE Mute(o)
  BY <1>3 DEF Mute, PlainSay
<1>4. CASE o.msg.type = "REQUEST" /\ o.to = res.st.succ
  <2>1. o.to \in alive => Follows(s, o.to)
    BY <1>1, <1>4 DEF GoodState
  <2> QED
    BY <1>4, <2>1 DEF PlainSay, Follows, SameBank
<1>5. CASE i = 1 /\ o.msg.type = "CLIENT_REPLY"
  BY <1>5 DEF PlainSay
<1>6. CASE PlainSend(s, o)
  BY <1>6 DEF PlainSend, PlainSay
<1> QED
  BY <1>2, <1>3, <1>4, <1>5, <1>6

-----------------------------------------------------------------------------
(* Steps of servers and clients.                                           *)

\* A process makes the first of its sends: what reaches bank b is in its log.
LEMMA TransmitLogged ==
    ASSUME TypeOK, alive' = alive, NEW p \in Processes, NEW inbox \in Inboxes,
           Took(p, inbox), NEW out \in Seq(Outgoing), Transmit(p, inbox, out),
           NEW b, NEW log, Logged(b, log),
           \A t \in Living(b) : StateInLog(b, log, srv'[t]),
           \A i \in DOMAIN out :
                /\ p \in Living(b) => Told(b, log, out[i])
                /\ out[i].msg.type = "REQUEST" /\ out[i].to \in Living(b) =>
                        InLog(log, out[i].msg.req)
                /\ /\ out[i].msg.type = "CLIENT_REPLY"
                   /\ out[i].msg.entry.req.bank = b
                   => ReplyInLog(log, out[i].msg.entry)
    PROVE  Logged(b, log)'
PROOF
<1>1. /\ \A q \in Processes : \A i \in DOMAIN tcp'[q] :
            \/ i \in DOMAIN inbox[q] /\ tcp'[q][i] = inbox[q][i]
            \/ /\ 1 \in DOMAIN out /\ q = out[1].to /\ tcp'[q][i] = out[1].msg
      /\ \A q \in Processes : q # p => sending'[q] = sending[q]
      /\ \A i \in DOMAIN sending'[p] :
            i + 1 \in DOMAIN out /\ sending'[p][i] = out[i + 1]
      /\ \A e \in replies' :
            \/ e \in replies
            \/ /\ 1 \in DOMAIN out /\ out[1].msg.type = "CLIENT_REPLY"
               /\ e = out[1].msg.entry
  BY TransmitContents
<1>2. Living(b)' = Living(b) /\ \A t \in Living(b) : t \in Processes
  BY DEF Living, TypeOK, Processes
<1>3. GoodLog(b, log) /\ \A t \in Living(b)' : StateInLog(b, log, srv[t])'
  BY <1>2 DEF Logged
<1>4. ASSUME NEW t \in Living(b)', NEW i \in DOMAIN tcp'[t],
             tcp'[t][i].type = "REQUEST"
      PROVE  InLog(log, tcp'[t][i].req)
  <2>1. t \in Living(b) /\ t \in Processes
    BY <1>2
  <2>2. CASE i \in DOMAIN inbox[t] /\ tcp'[t][i] = inbox[t][i]
    <3>1. \E j \in DOMAIN tcp[t] : inbox[t][i] = tcp[t][j]
      BY <2>1, <2>2, TookContents
    <3> QED
      BY <1>4, <2>1, <2>2, <3>1 DEF Logged
  <2>3. CASE 1 \in DOMAIN out /\ t = out[1].to /\ tcp'[t][i] = out[1].msg
    BY <1>4, <2>1, <2>3
  <2> QED
    BY <1>1, <2>1, <2>2, <2>3
<1>5. ASSUME NEW u \in Living(b)', NEW i \in DOMAIN sending'[u]
      PROVE  Told(b, log, sending[u][i])'
  <2>1. u \in Living(b) /\ u \in Processes
    BY <1>2
  <2>2. PICK o : o = sending'[u][i]
    OBVIOUS
  <2>3. Told(b, log, o)
    <3>1. CASE u = p
      BY <1>1, <2>1, <2>2, <3>1
    <3>2. CASE u # p
      BY <1>1, <2>1, <2>2, <3>2 DEF Logged
    <3> QED
      BY <3>1, <3>2
  <2>4. Told(b, log, o)'
    BY <2>3 DEF Told
  <2> QED
    BY <2>2, <2>4
<1>6. ASSUME NEW e \in replies', e.req.bank = b PROVE ReplyInLog(log, e)
  BY <1>1, <1>6 DEF Logged
<1> QED
  BY <1>3, <1>4, <1>5, <1>6 DEF Logged

\* A server ends.
LEMMA DieLogged ==
    ASSUME TypeOK, NEW s \in Servers, NEW inbox \in Inboxes, Took(s, inbox),
           Die(s, inbox), NEW b, NEW log, Logged(b, log)
    PROVE  Logged(b, log)'
PROOF
<1>1. /\ alive' = alive \ {s} /\ replies' = replies
      /\ srv' = [srv EXCEPT ![s] = InitialServer(s, FALSE)]
      /\ tcp' = [inbox EXCEPT ![s] = <<>>]
      /\ sending' = [sending EXCEPT ![s] = <<>>]
  BY DEF Die
<1>2. /\ alive \in SUBSET Servers /\ srv \in [Servers -> ServerState]
      /\ tcp \in [Processes -> Seq(Message)]
      /\ sending \in [Processes -> Seq(Outgoing)] /\ s \in Processes
  BY DEF TypeOK, Processes
<1>3. ASSUME NEW t \in Living(b)'
      PROVE  /\ t \in Living(b) /\ srv'[t] = srv[t] /\ tcp'[t] = tcp[t]
             /\ sending'[t] = sending[t]
  <2>1. t \in alive /\ t # s /\ BankOf[t] = b /\ t \in Servers /\ t \in Processes
    BY <1>1, <1>2, <1>3 DEF Living, Processes
  <2>2. inbox[t] = tcp[t]
    BY <1>2, <2>1 DEF Took
  <2> QED
    BY <1>1, <1>2, <2>1, <2>2 DEF Living, Inboxes
<1>4. /\ GoodLog(b, log) /\ \A t \in Living(b)' : StateInLog(b, log, srv[t])'
  BY <1>3 DEF Logged
<1>5. \A t \in Living(b)' : \A i \in DOMAIN tcp'[t] :
            tcp'[t][i].type = "REQUEST" => InLog(log, tcp'[t][i].req)
  BY <1>3 DEF Logged
<1>6. ASSUME NEW u \in Living(b)', NEW i \in DOMAIN sending'[u]
      PROVE  Told(b, log, sending[u][i])'
  <2>1. PICK o : o = sending'[u][i]
    OBVIOUS
  <2>2. Told(b, log, o)
    BY <1>3, <2>1 DEF Logged
  <2>3. Told(b, log, o)'
    BY <1>1, <2>2 DEF Told
  <2> QED
    BY <2>1, <2>3
<1> QED
  BY <1>1, <1>4, <1>5, <1>6 DEF Logged

\* An inbox of which a message was taken.
LEMMA HandledBox ==
    ASSUME TypeOK, PlainInv, NEW s \in alive, NEW inbox, NEW res,
           Handled(s, inbox, res)
    PROVE  /\ PlainBox(s, res.st.ishead, inbox[s])
           /\ \A t \in alive : t # s => PlainBox(t, srv[t].ishead, inbox[t])
PROOF
<1>1. /\ s \in Servers /\ s \in Processes /\ srv[s] \in ServerState
      /\ tcp \in [Processes -> Seq(Message)] /\ alive \in SUBSET Processes
  BY DEF TypeOK, Processes
<1>2. \A t \in alive : PlainBox(t, srv[t].ishead, tcp[t])
  BY DEF PlainInv, PlainBoxes
<1>3. CASE inbox = tcp /\ res.st.ishead = srv[s].ishead
  BY <1>2, <1>3
<1>4. CASE /\ tcp[s] # <<>> /\ inbox = [tcp EXCEPT ![s] = Tail(tcp[s])]
           /\ Answers(s, Head(tcp[s]), res)
  <2>1. \A t \in alive : t # s => PlainBox(t, srv[t].ishead, inbox[t])
    BY <1>1, <1>2, <1>4
  <2>2. inbox[s] = Tail(tcp[s])
    BY <1>1, <1>4
  <2>3. Head(tcp[s]).type # "TO_BE_HEAD" => res.st.ishead = srv[s].ishead
    <3>1. PICK st, m : st = srv[s] /\ m = Head(tcp[s]) /\ st \in ServerState
      BY <1>1
    <3>2. CASE KeepsRoles(st, res)
      BY <3>1, <3>2 DEF KeepsRoles
    <3>3. CASE res = to_be_tail(s, st)
      BY <3>1, <3>3, RoleChanges
    <3>4. m.type = "TO_BE_HEAD" \/ KeepsRoles(st, res) \/ res = to_be_tail(s, st)
      BY <1>4, <3>1, RequestKeepsRoles, OthersKeepRoles DEF Answers
    <3> QED
      BY <3>1, <3>2, <3>3, <3>4
  <2>4. ASSUME NEW i \in DOMAIN inbox[s]
        PROVE  /\ i \in Nat /\ i + 1 \in DOMAIN tcp[s] /\ inbox[s][i] = tcp[s][i + 1]
               /\ 1 \in DOMAIN tcp[s] /\ 1 < i + 1 /\ Head(tcp[s]) = tcp[s][1]
    <3>1. tcp[s] \in Seq(Message)
      BY <1>1
    <3>2. i \in DOMAIN Tail(tcp[s])
      BY <2>2, <2>4
    <3>3. PICK q \in Seq(Message) : q = tcp[s]
      BY <3>1
    <3>4. q # <<>> /\ i \in DOMAIN Tail(q)
      BY <1>4, <3>2, <3>3
    <3>5. /\ i \in Nat /\ i + 1 \in DOMAIN q /\ Tail(q)[i] = q[i + 1]
          /\ 1 \in DOMAIN q /\ 1 < i + 1 /\ Head(q) = q[1]
      BY <3>4
    <3> QED
      BY <2>2, <3>3, <3>5
  <2>5. PlainBox(s, srv[s].ishead, tcp[s])
    BY <1>2
  <2>6. ASSUME NEW i \in DOMAIN inbox[s]
        PROVE  /\ inbox[s][i].type # "REPLY"
               /\ inbox[s][i].type = "REQUEST" =>
                    /\ ~res.st.ishead
                    /\ \A j \in DOMAIN inbox[s] : j < i =>
                            inbox[s][j].type # "TO_BE_HEAD"
    <3>1. PICK n : n = i + 1
      OBVIOUS
    <3>2. /\ n \in DOMAIN tcp[s] /\ inbox[s][i] = tcp[s][n] /\ 1 < n
          /\ 1 \in DOMAIN tcp[s] /\ Head(tcp[s]) = tcp[s][1] /\ i \in Nat
      BY <2>4, <3>1
    <3>3. inbox[s][i].type # "REPLY"
      BY <2>5, <3>2 DEF PlainBox
    <3>4. inbox[s][i].type = "REQUEST" => ~res.st.ishead
      BY <2>3, <2>5, <3>2 DEF PlainBox
    <3>5. ASSUME inbox[s][i].type = "REQUEST", NEW j \in DOMAIN inbox[s], j < i
          PROVE  inbox[s][j].type # "TO_BE_HEAD"
      <4>1. PICK k : k = j + 1
        OBVIOUS
      <4>2. k \in DOMAIN tcp[s] /\ inbox[s][j] = tcp[s][k] /\ j \in Nat
        BY <2>4, <4>1
      <4>3. k < n
        BY <3>1, <3>2, <3>5, <4>1, <4>2
      <4> QED
        BY <2>5, <3>2, <3>5, <4>2, <4>3 DEF PlainBox
    <3> QED
      BY <3>3, <3>4, <3>5
  <2> QED
    BY <2>1, <2>6 DEF PlainBox
<1>5. CASE inbox = tcp /\ res = [st |-> srv[s], out |-> sending[s]]
  BY <1>3, <1>5
<1>6. ASSUME inbox = tcp, NEW r, res = receive_request(s, srv[s], r)
      PROVE  res.st.ishead = srv[s].ishead
  BY <1>1, <1>6, RequestKeepsRoles DEF KeepsRoles
<1> QED
  BY <1>3, <1>4, <1>5, <1>6 DEF Handled

\* A process makes the first of its sends: an update that it sends goes to a
\* server that has others before it.
LEMMA TransmitPlain ==
    ASSUME TypeOK, TypeOK', RolesInv', PlainInv, alive' = alive,
           NEW p \in Processes, NEW inbox \in Inboxes,
           NEW out \in Seq(Outgoing), Transmit(p, inbox, out),
           \A t \in alive : PlainBox(t, srv'[t].ishead, inbox[t]),
           p \in alive => \A i \in DOMAIN out :
                PlainSay(p, out[i]) /\ (out[i].msg.type = "CLIENT_REPLY" => i = 1),
           p = Master => \A i \in DOMAIN out : out[i].msg.type \in OrderTypes,
           p \in alive \/ p = Master
    PROVE  PlainInv'
PROOF
<1>1. /\ \A q \in Processes : \A i \in DOMAIN tcp'[q] :
            \/ i \in DOMAIN inbox[q] /\ tcp'[q][i] = inbox[q][i]
            \/ /\ 1 \in DOMAIN out /\ i = Len(inbox[q]) + 1
               /\ q = out[1].to /\ tcp'[q][i] = out[1].msg
      /\ \A q \in Processes : q # p => sending'[q] = sending[q]
      /\ \A i \in DOMAIN sending'[p] :
            /\ i \in Nat /\ i >= 1
            /\ i + 1 \in DOMAIN out /\ sending'[p][i] = out[i + 1]
  BY TransmitContents
<1>2. /\ alive \in SUBSET Servers /\ alive \in SUBSET Processes
      /\ Master \notin alive /\ Master \in Processes
  BY MasterAssumption DEF TypeOK, Processes
<1>3. PlainSends'
  <2> SUFFICES ASSUME NEW u \in alive, NEW i \in DOMAIN sending'[u]
               PROVE  PlainSend(u, sending[u][i])'
    BY DEF PlainSends
  <2>1. PICK o : o = sending'[u][i]
    OBVIOUS
  <2>2. PlainSend(u, o)
    <3>1. CASE u = p
      <4>1. PICK n : n = i + 1
        OBVIOUS
      <4>2. n \in DOMAIN out /\ o = out[n] /\ n # 1
        BY <1>1, <2>1, <3>1, <4>1
      <4> QED
        BY <3>1, <4>2 DEF PlainSend, PlainSay
    <3>2. CASE u # p
      BY <1>1, <1>2, <2>1, <3>2 DEF PlainInv, PlainSends
    <3> QED
      BY <3>1, <3>2
  <2>3. PlainSend(u, o)'
    BY <2>2 DEF PlainSend
  <2> QED
    BY <2>1, <2>3
<1>4. MasterSends'
  <2> SUFFICES ASSUME NEW i \in DOMAIN sending'[Master]
               PROVE  sending'[Master][i].msg.type \in OrderTypes
    BY DEF MasterSends
  <2>1. CASE p = Master
    <3>1. PICK n : n = i + 1
      OBVIOUS
    <3> QED
      BY <1>1, <2>1, <3>1
  <2>2. CASE p # Master
    BY <1>1, <1>2, <2>2 DEF PlainInv, MasterSends
  <2> QED
    BY <2>1, <2>2
<1>5. PlainBoxes'
  <2> SUFFICES ASSUME NEW t \in alive PROVE PlainBox(t, srv[t].ishead, tcp[t])'
    BY DEF PlainBoxes
  <2>1. /\ PlainBox(t, srv'[t].ishead, inbox[t]) /\ t \in Processes
        /\ inbox[t] \in Seq(Message)
    BY <1>2 DEF Inboxes
  <2>2. \A i \in DOMAIN inbox[t] : i \in Nat /\ i <= Len(inbox[t])
    BY <2>1
  <2>3. Len(inbox[t]) \in Nat
    BY <2>1
  <2>4. ASSUME NEW i \in DOMAIN tcp'[t]
        PROVE  /\ tcp'[t][i].type # "REPLY"
               /\ tcp'[t][i].type = "REQUEST" =>
                    /\ ~srv'[t].ishead
                    /\ \A j \in DOMAIN tcp'[t] : j < i =>
                            tcp'[t][j].type # "TO_BE_HEAD"
    <3>1. CASE i \in DOMAIN inbox[t] /\ tcp'[t][i] = inbox[t][i]
      <4>1. \A j \in DOMAIN tcp'[t] : j < i =>
                j \in DOMAIN inbox[t] /\ tcp'[t][j] = inbox[t][j]
        BY <1>1, <2>1, <2>2, <2>3, <3>1
      <4> QED
        BY <2>1, <3>1, <4>1 DEF PlainBox
    <3>2. CASE 1 \in DOMAIN out /\ t = out[1].to /\ tcp'[t][i] = out[1].msg
      <4>1. CASE p = Master
        BY <3>2, <4>1 DEF OrderTypes
      <4>2. CASE p \in alive
        <5>1. PlainSay(p, out[1])
          BY <3>2, <4>2
        <5>2. CASE out[1].msg.type = "REQUEST"
          <6>1. p < t /\ SameBank(p, t)
            BY <3>2, <5>1, <5>2 DEF PlainSay
          <6>2. ~NoneBefore(t)'
            BY <4>2, <6>1 DEF NoneBefore, SameBank
          <6>3. ~Appointed(t, srv[t].ishead, "TO_BE_HEAD")'
            BY <6>2 DEF RolesInv, HeadsAreFirst
          <6>4. /\ ~srv'[t].ishead
                /\ \A j \in DOMAIN tcp'[t] : tcp'[t][j].type # "TO_BE_HEAD"
            BY <6>3 DEF Appointed, Ordered
          <6> QED
            BY <3>2, <5>2, <6>4
        <5>3. CASE out[1].msg.type # "REQUEST"
          BY <3>2, <5>1, <5>3 DEF PlainSay
        <5> QED
          BY <5>2, <5>3
      <4> QED
        BY <4>1, <4>2
    <3> QED
      BY <1>1, <2>1, <3>1, <3>2
  <2> QED
    BY <2>4 DEF PlainBox
<1> QED
  BY <1>3, <1>4, <1>5 DEF PlainInv

LEMMA DiePlain ==
    ASSUME TypeOK, NEW s \in Servers, NEW inbox \in Inboxes, Took(s, inbox),
           Die(s, inbox), PlainInv
    PROVE  PlainInv'
PROOF
<1>1. /\ alive' = alive \ {s}
      /\ srv' = [srv EXCEPT ![s] = InitialServer(s, FALSE)]
      /\ tcp' = [inbox EXCEPT ![s] = <<>>]
      /\ sending' = [sending EXCEPT ![s] = <<>>]
  BY DEF Die
<1>2. /\ alive \in SUBSET Servers /\ srv \in [Servers -> ServerState]
      /\ tcp \in [Processes -> Seq(Message)]
      /\ sending \in [Processes -> Seq(Outgoing)] /\ s \in Processes
      /\ Master # s /\ Master \in Processes
  BY MasterAssumption DEF TypeOK, Processes
<1>3. ASSUME NEW t \in alive'
      PROVE  /\ t \in alive /\ srv'[t] = srv[t] /\ tcp'[t] = tcp[t]
             /\ sending'[t] = sending[t]
  <2>1. t \in alive /\ t # s /\ t \in Servers /\ t \in Processes
    BY <1>1, <1>2, <1>3 DEF Processes
  <2>2. inbox[t] = tcp[t]
    BY <1>2, <2>1 DEF Took
  <2> QED
    BY <1>1, <1>2, <2>1, <2>2 DEF Inboxes
<1>4. PlainSends'
  <2> SUFFICES ASSUME NEW u \in alive', NEW i \in DOMAIN sending'[u]
               PROVE  PlainSend(u, sending[u][i])'
    BY DEF PlainSends
  <2>1. PICK o : o = sending'[u][i]
    OBVIOUS
  <2>2. PlainSend(u, o)
    BY <1>3, <2>1 DEF PlainInv, PlainSends
  <2>3. PlainSend(u, o)'
    BY <1>1, <2>2 DEF PlainSend
  <2> QED
    BY <2>1, <2>3
<1>5. MasterSends'
  BY <1>1, <1>2 DEF MasterSends, PlainInv
<1>6. PlainBoxes'
  BY <1>3 DEF PlainInv, PlainBoxes
<1> QED
  BY <1>4, <1>5, <1>6 DEF PlainInv

\* What a server does to the log of a bank: only its own goes on.
LEMMA PerformLogs ==
    ASSUME PlainUpdates, TypeOK, ServersObey, RolesInv, SeqInv, PlainInv,
           HistoryInv, NEW s \in alive, NEW inbox, NEW res,
           Handled(s, inbox, res), Perform(s, inbox, res), Counted(s, res),
           NEW R \in SUBSET (ClientUpdates \cup ClientQueries), Asked(s, R, res),
           NEW c \in Banks, NEW old \in Logs, Logged(c, old), old.top <= arrivals
    PROVE  \E log \in Logs :
                /\ Logged(c, log)' /\ log.top <= arrivals'
                /\ \/ log = old
                   \/ /\ c = BankOf[s]
                      /\ Continued(R, srv[s].bank_update_seq, old, log)
PROOF
<1>0. arrivals \in Nat /\ old.top \in Nat /\ old.top <= arrivals'
  <2>1. arrivals' = arrivals \/ arrivals' = arrivals + 1
    BY DEF Counted
  <2> QED
    BY <2>1, LogFields DEF TypeOK
<1>1. /\ inbox \in Inboxes /\ Took(s, inbox)
      /\ Outcome(srv[s], res) /\ GoodState(s, res.st)
  BY HandledEffect DEF Effect
<1>2. CASE Die(s, inbox)
  <2>1. Logged(c, old)'
    BY <1>1, <1>2, DieLogged DEF TypeOK
  <2> QED
    BY <1>0, <2>1
<1>3. CASE /\ srv' = [srv EXCEPT ![s] = res.st]
           /\ Transmit(s, inbox, res.out)
           /\ UNCHANGED <<alive, aborted>>
  <2>1. /\ srv \in [Servers -> ServerState] /\ s \in Processes
        /\ alive \in SUBSET Servers /\ alive' = alive
        /\ BankOf[s] \in Banks
    BY <1>3, ChainAssumption DEF TypeOK, Processes
  <2>2. srv'[s] = res.st /\ \A u \in alive : u # s => srv'[u] = srv[u]
    BY <1>3, <2>1
  <2>3. PICK b \in Banks : b = BankOf[s]
    BY <2>1
  <2>4. res.out \in Seq(Outgoing)
    <3>1. ServerSend \in SUBSET Outgoing /\ res.out \in Seq(ServerSend)
      BY <1>1 DEF ServerSend, Outcome
    <3> QED
      BY <3>1
  <2>5. PICK out \in Seq(Outgoing) : out = res.out
    BY <2>4
  <2>6. Transmit(s, inbox, out)
    BY <1>3, <2>5
  <2>7. CASE c = b
    <3>1. PICK log \in Logs :
                /\ Logged(b, log) /\ StateInLog(b, log, res.st)
                /\ \A i \in DOMAIN out : Told(b, log, out[i])
                /\ log.top <= arrivals'
                /\ log = old \/ Continued(R, srv[s].bank_update_seq, old, log)
      BY <2>3, <2>5, <2>7, AskedLog
    <3>2. \A t \in Living(b) : StateInLog(b, log, srv'[t])
      BY <2>2, <3>1 DEF Logged, Living
    <3>3. ASSUME NEW i \in DOMAIN out
          PROVE  /\ s \in Living(b) => Told(b, log, out[i])
                 /\ out[i].msg.type = "REQUEST" /\ out[i].to \in Living(b) =>
                          InLog(log, out[i].msg.req)
                 /\ /\ out[i].msg.type = "CLIENT_REPLY"
                    /\ out[i].msg.entry.req.bank = b
                    => ReplyInLog(log, out[i].msg.entry)
      BY <3>1 DEF Told, SendInLog, Living
    <3>4. Logged(b, log)'
      BY <1>1, <2>1, <2>6, <3>1, <3>2, <3>3, TransmitLogged
    <3> QED
      BY <2>3, <2>7, <3>1, <3>4
  <2>8. CASE c # b
    <3>1. PICK mine \in Logs :
                /\ Logged(b, mine)
                /\ \A i \in DOMAIN out : Told(b, mine, out[i])
      <4>1. PICK x \in Logs : Logged(b, x) /\ x.top <= arrivals
        BY DEF HistoryInv
      <4> QED
        BY <2>3, <2>5, <4>1, AskedLog
    <3>2. s \notin Living(c)
      BY <2>3, <2>8 DEF Living
    <3>3. \A t \in Living(c) : StateInLog(c, old, srv'[t])
      BY <2>2, <3>2 DEF Logged, Living
    <3>4. ASSUME NEW i \in DOMAIN out
          PROVE  /\ out[i].msg.type = "REQUEST" => out[i].to \notin Living(c)
                 /\ out[i].msg.type = "CLIENT_REPLY" =>
                          out[i].msg.entry.req.bank # c
      <4>1. PlainSay(s, out[i])
        BY <1>1, <2>3, <2>5, <3>1, HandledSays
      <4>2. out[i].msg.type = "REQUEST" => out[i].to \notin Living(c)
        BY <2>3, <2>8, <4>1 DEF PlainSay, SameBank, Living
      <4>3. out[i].msg.type = "CLIENT_REPLY" => out[i].msg.entry.req.bank = b
        BY <3>1 DEF Told, SendInLog
      <4> QED
        BY <2>8, <4>2, <4>3
    <3>5. Logged(c, old)'
      BY <1>1, <2>1, <2>6, <3>2, <3>3, <3>4, TransmitLogged
    <3> QED
      BY <1>0, <3>5
  <2> QED
    BY <2>7, <2>8
<1> QED
  BY <1>2, <1>3 DEF Perform

\* Steps of servers and clients, and crashes.
LEMMA ServerHistory ==
    ASSUME PlainUpdates, TypeOK, TypeOK', ServersObey, RolesInv, RolesInv',
           SeqInv, PlainInv, HistoryInv, NEW s \in Servers,
           ServerStep(s) \/ ClientUpdate(s) \/ ClientQuery(s) \/ Crash(s)
    PROVE  PlainInv' /\ HistoryInv'
PROOF
<1>0. /\ arrivals \in Nat /\ arrivals' \in Nat /\ arrivals <= arrivals'
      /\ arrivals' <= MaxArrivals /\ \A log \in Logs : log.top \in Nat
  <2>1. arrivals' = arrivals \/ (arrivals' = arrivals + 1 /\ arrivals < MaxArrivals)
    BY StepHandles DEF Counted, Crash
  <2> QED
    BY <2>1, ChainAssumption, LogFields DEF HistoryInv, TypeOK
<1>1. ASSUME NEW inbox \in Inboxes, Took(s, inbox), Die(s, inbox)
      PROVE  PlainInv' /\ HistoryInv'
  <2>1. PlainInv'
    BY <1>1, DiePlain
  <2>2. ASSUME NEW b \in Banks
        PROVE  \E log \in Logs : Logged(b, log)' /\ log.top <= arrivals'
    <3>1. PICK log \in Logs : Logged(b, log) /\ log.top <= arrivals
      BY DEF HistoryInv
    <3> QED
      BY <1>0, <1>1, <3>1, DieLogged
  <2> QED
    BY <1>0, <2>1, <2>2 DEF HistoryInv
<1>2. CASE Crash(s)
  <2>1. Die(s, tcp) /\ tcp \in Inboxes /\ Took(s, tcp)
    BY <1>2 DEF Crash, TypeOK, Inboxes, Took
  <2> QED
    BY <1>1, <2>1
<1>3. CASE ServerStep(s) \/ ClientUpdate(s) \/ ClientQuery(s)
  <2>1. /\ s \in alive
        /\ \E inbox, res : /\ Handled(s, inbox, res) /\ Perform(s, inbox, res)
                           /\ Counted(s, res)
    BY <1>3, StepHandles
  <2>2. PICK inbox, res : /\ Handled(s, inbox, res) /\ Perform(s, inbox, res)
                          /\ Counted(s, res)
    BY <2>1
  <2>3. /\ inbox \in Inboxes /\ Took(s, inbox)
        /\ Outcome(srv[s], res) /\ GoodState(s, res.st)
    BY <2>1, <2>2, HandledEffect DEF Effect
  <2>4. CASE Die(s, inbox)
    BY <1>1, <2>3, <2>4
  <2>5. CASE /\ srv' = [srv EXCEPT ![s] = res.st]
             /\ Transmit(s, inbox, res.out)
             /\ UNCHANGED <<alive, aborted>>
    <3>1. /\ srv \in [Servers -> ServerState] /\ s \in Processes
          /\ alive \in SUBSET Servers /\ alive' = alive
          /\ BankOf[s] \in Banks
      BY <2>5, ChainAssumption DEF TypeOK, Processes
    <3>2. srv'[s] = res.st /\ \A u \in alive : u # s => srv'[u] = srv[u]
      BY <2>5, <3>1
    <3>3. PICK b \in Banks : b = BankOf[s]
      BY <3>1
    <3>4. res.out \in Seq(Outgoing)
      <4>1. ServerSend \in SUBSET Outgoing /\ res.out \in Seq(ServerSend)
        BY <2>3 DEF ServerSend, Outcome
      <4> QED
        BY <4>1
    <3>5. PICK out \in Seq(Outgoing) : out = res.out
      BY <3>4
    <3>6. Transmit(s, inbox, out)
      BY <2>5, <3>5
    <3>7. PICK old \in Logs : Logged(b, old) /\ old.top <= arrivals
      BY <3>3 DEF HistoryInv
    <3>8. \A i \in DOMAIN out :
                PlainSay(s, out[i]) /\ (out[i].msg.type = "CLIENT_REPLY" => i = 1)
      BY <2>1, <2>2, <2>3, <3>3, <3>5, <3>7, HandledSays
    <3>9. PlainInv'
      <4>1. \A t \in alive : PlainBox(t, srv'[t].ishead, inbox[t])
        BY <2>1, <2>2, <3>2, HandledBox
      <4>2. s # Master
        BY MasterAssumption
      <4> QED
        BY <2>1, <2>3, <3>1, <3>6, <3>8, <4>1, <4>2, TransmitPlain
    <3>10. PICK R \in SUBSET (ClientUpdates \cup ClientQueries) :
                R = ClientUpdates \cup ClientQueries
      OBVIOUS
    <3>11. Asked(s, R, res)
      BY <2>2, <3>10 DEF Handled, Asked
    <3>12. ASSUME NEW c \in Banks
           PROVE  \E log \in Logs : Logged(c, log)' /\ log.top <= arrivals'
      <4>1. PICK x \in Logs : Logged(c, x) /\ x.top <= arrivals
        BY DEF HistoryInv
      <4> QED
        BY <2>1, <2>2, <3>11, <4>1, PerformLogs
    <3> QED
      BY <1>0, <3>9, <3>12 DEF HistoryInv
  <2> QED
    BY <2>2, <2>4, <2>5 DEF Perform
<1> QED
  BY <1>2, <1>3

-----------------------------------------------------------------------------
(* Steps of the master, which sends neither updates nor answers.           *)

\* A step changes no log.
LogsStay == \A b \in Banks : \A log \in Logs : Logged(b, log) => Logged(b, log)'

\* Sends of the master.
LEMMA OrdersLogs ==
    ASSUME TypeOK, TypeOK', RolesInv', PlainInv, srv' = srv,
           alive' = alive, NEW out \in Seq(Outgoing), Transmit(Master, tcp, out),
           \A i \in DOMAIN out : out[i].msg.type \in OrderTypes
    PROVE  PlainInv' /\ LogsStay
PROOF
<1>1. /\ Master \in Processes /\ Master \notin alive
      /\ tcp \in Inboxes /\ Took(Master, tcp)
  BY MasterAssumption DEF Processes, TypeOK, Inboxes, Took
<1>2. PlainInv'
  <2>1. \A t \in alive : PlainBox(t, srv'[t].ishead, tcp[t])
    BY DEF PlainInv, PlainBoxes
  <2> QED
    BY <1>1, <2>1, TransmitPlain
<1>3. ASSUME NEW b \in Banks, NEW log \in Logs, Logged(b, log)
      PROVE  Logged(b, log)'
  <2>2. Master \notin Living(b)
    BY <1>1 DEF Living
  <2>3. \A i \in DOMAIN out : out[i].msg.type \notin {"REQUEST", "CLIENT_REPLY"}
    BY DEF OrderTypes
  <2>4. \A t \in Living(b) : StateInLog(b, log, srv'[t])
    BY <1>3 DEF Logged
  <2> QED
    BY <1>1, <1>3, <2>2, <2>3, <2>4, TransmitLogged
<1> QED
  BY <1>2, <1>3 DEF LogsStay

\* The answer to a REQ_SEQ: the inboxes get no update and no order to be head.
LEMMA ForwardLogs ==
    ASSUME TypeOK, TypeOK', PlainInv, ForwardReqSeq
    PROVE  PlainInv' /\ LogsStay
PROOF
<1> DEFINE m == Head(tcp[Master])
           n == [m EXCEPT !.type = "NEW_SUCC_SERVER"]
           inbox == [tcp EXCEPT ![Master] = Tail(tcp[Master])]
<1>1. /\ tcp[Master] # <<>> /\ m.type = "REQ_SEQ"
      /\ tcp' = send_msg_tcp(inbox, Send(m.pre, n))
      /\ sending' = sending /\ srv' = srv /\ alive' = alive /\ replies' = replies
  BY DEF ForwardReqSeq, servers, clients
<1>2. /\ Master \in Processes /\ Master \notin alive /\ alive \in SUBSET Processes
      /\ tcp \in [Processes -> Seq(Message)] /\ tcp[Master] \in Seq(Message)
  BY MasterAssumption DEF TypeOK, Processes
<1>3. m \in Message /\ Tail(tcp[Master]) \in Seq(Message)
  BY <1>1, <1>2
<1>4. inbox \in Inboxes
  BY <1>2, <1>3 DEF Inboxes
<1>5. \A t \in alive : inbox[t] = tcp[t]
  BY <1>2
<1>6. PICK o \in Outgoing : o = Send(m.pre, n)
  BY <1>1, <1>3, ForwardedReqSeq
<1>7. o.msg.type = "NEW_SUCC_SERVER"
  BY <1>1, <1>3, <1>6, ForwardedReqSeq
<1>8. tcp' = send_msg_tcp(inbox, o)
  BY <1>1, <1>6
<1> HIDE DEF inbox, n, m
<1>9. ASSUME NEW t \in alive, NEW i \in DOMAIN tcp'[t]
      PROVE  \/ i \in DOMAIN tcp[t] /\ tcp'[t][i] = tcp[t][i]
             \/ i = Len(tcp[t]) + 1 /\ tcp'[t][i].type = "NEW_SUCC_SERVER"
  BY <1>2, <1>4, <1>5, <1>7, <1>8, DeliveredContents, SMTT(30)
<1>10. PlainBoxes'
  <2> SUFFICES ASSUME NEW t \in alive, NEW i \in DOMAIN tcp'[t]
               PROVE  /\ tcp'[t][i].type # "REPLY"
                      /\ tcp'[t][i].type = "REQUEST" =>
                            /\ ~srv[t].ishead
                            /\ \A j \in DOMAIN tcp'[t] : j < i =>
                                    tcp'[t][j].type # "TO_BE_HEAD"
    BY <1>1 DEF PlainBoxes, PlainBox
  <2>1. PlainBox(t, srv[t].ishead, tcp[t])
    BY DEF PlainInv, PlainBoxes
  <2>2. CASE i \in DOMAIN tcp[t] /\ tcp'[t][i] = tcp[t][i]
    <3>1. \A j \in DOMAIN tcp'[t] : j < i /\ tcp'[t][j].type = "TO_BE_HEAD" =>
                j \in DOMAIN tcp[t] /\ tcp'[t][j] = tcp[t][j]
      BY <1>9
    <3> QED
      BY <2>1, <2>2, <3>1 DEF PlainBox
  <2> QED
    BY <1>9, <2>2
<1>11. PlainInv'
  BY <1>1, <1>10 DEF PlainInv, PlainSends, PlainSend, MasterSends
<1>12. ASSUME NEW b \in Banks, NEW log \in Logs, Logged(b, log)
       PROVE  Logged(b, log)'
  <2>2. Living(b)' = Living(b) /\ \A t \in Living(b) : t \in alive
    BY <1>1 DEF Living
  <2>3. \A t \in Living(b) : \A i \in DOMAIN tcp'[t] :
            tcp'[t][i].type = "REQUEST" => InLog(log, tcp'[t][i].req)
    BY <1>9, <1>12, <2>2 DEF Logged
  <2> QED
    BY <1>1, <1>12, <2>2, <2>3 DEF Logged, Told
<1> QED
  BY <1>11, <1>12 DEF LogsStay

LEMMA MasterLogs ==
    ASSUME TypeOK, TypeOK', MasterKnowsEnds, RolesInv, RolesInv', PlainInv,
           MasterStep
    PROVE  PlainInv' /\ LogsStay /\ arrivals' = arrivals
PROOF
<1>1. UNCHANGED servers /\ arrivals' = arrivals
  BY DEF MasterStep, NotifyHeadCrash, NotifyTailCrash, NotifyInternalCrash,
         NotifyCrash, MasterContinue, ForwardReqSeq, clients
<1>2. srv' = srv /\ alive' = alive /\ arrivals' = arrivals
  BY <1>1 DEF servers
<1>3. ASSUME NEW b \in Banks, NEW s \in Servers,
             \/ NotifyHeadCrash(b, s)
             \/ NotifyTailCrash(b, s)
             \/ NotifyInternalCrash(b, s)
      PROVE  PlainInv' /\ LogsStay
  <2>1. PICK out \in Seq(Outgoing) :
            /\ Transmit(Master, tcp, out)
            /\ \A i \in DOMAIN out : out[i].msg.type \in OrderTypes
    BY <1>3, NotifySends
  <2> QED
    BY <1>2, <2>1, OrdersLogs
<1>4. CASE MasterContinue
  <2>1. /\ Transmit(Master, tcp, sending[Master])
        /\ sending[Master] \in Seq(Outgoing)
    BY <1>4 DEF MasterContinue, TypeOK, Processes
  <2>2. PICK out \in Seq(Outgoing) : out = sending[Master]
    BY <2>1
  <2>3. \A i \in DOMAIN out : out[i].msg.type \in OrderTypes
    BY <2>2 DEF PlainInv, MasterSends
  <2> QED
    BY <1>2, <2>1, <2>2, <2>3, OrdersLogs
<1>5. CASE ForwardReqSeq
  BY <1>2, <1>5, ForwardLogs
<1> QED
  BY <1>2, <1>3, <1>4, <1>5 DEF MasterStep

-----------------------------------------------------------------------------
(* The invariant, and what follows from it.                                *)

\* Nobody has applied anything in the initial state: the log is empty.
LEMMA InitHistory == Init => PlainInv /\ HistoryInv
PROOF
<1> SUFFICES ASSUME Init PROVE PlainInv /\ HistoryInv
  OBVIOUS
<1>1. PICK flag \in [Servers -> UninitializedFlag] :
        srv = [s \in Servers |-> InitialServer(s, flag[s])]
  BY DEF Init
<1>2. /\ alive = Servers /\ replies = {} /\ arrivals = 0
      /\ tcp = [p \in Processes |-> <<>>]
      /\ sending = [p \in Processes |-> <<>>]
  BY DEF Init
<1>3. \A s \in Servers : /\ srv[s].bank_update_seq = 0
                         /\ srv[s].ledger = EmptyLedger
  BY <1>1 DEF InitialServer
<1>4. PlainInv
  BY <1>2 DEF PlainInv, PlainSends, MasterSends, PlainBoxes, PlainBox, Processes
<1>5. EmptyLedger \in Ledger
  BY DEF EmptyLedger, Ledger
<1>6. PICK k \in Ledger : k = Canon(EmptyLedger)
  BY <1>5, MemoryType
<1>7. PICK led \in [Nat -> Ledger], req \in [Nat -> Request \cup {Nobody}] :
            led[0] = k
  <2>1. [n \in Nat |-> k] \in [Nat -> Ledger]
    OBVIOUS
  <2>2. [n \in Nat |-> Nobody] \in [Nat -> Request \cup {Nobody}]
    OBVIOUS
  <2>3. [n \in Nat |-> k][0] = k
    OBVIOUS
  <2> QED
    BY <2>1, <2>2, <2>3
<1>8. PICK log \in Logs : log.top = 0 /\ log.led = led /\ log.req = req
  <2>1. [top |-> 0, led |-> led, req |-> req] \in Logs
    BY DEF Logs
  <2> QED
    BY <2>1
<1>9. k.processed = {}
  <2>1. Memory(EmptyLedger) = {}
    BY DEF Memory, EmptyLedger
  <2> QED
    BY <1>6, <2>1 DEF Canon
<1>10. ASSUME NEW b PROVE Logged(b, log)
  <2>1. 0 .. log.top = {0} /\ 1 .. log.top = {}
    BY <1>8
  <2>2. GoodLog(b, log)
    BY <1>6, <1>7, <1>8, <1>9, <2>1 DEF GoodLog, Unique
  <2>3. Tidy(b, EmptyLedger) /\ EmptyLedger.sent = <<>>
    BY DEF Tidy, EmptyLedger
  <2>4. \A t \in Living(b) : t \in Servers
    BY <1>2 DEF Living
  <2>5. \A t \in Living(b) : StateInLog(b, log, srv[t])
    BY <1>3, <1>6, <1>7, <1>8, <2>3, <2>4 DEF StateInLog
  <2> QED
    BY <1>2, <2>2, <2>4, <2>5 DEF Logged, Processes
<1> QED
  BY <1>2, <1>4, <1>8, <1>10, ChainAssumption DEF HistoryInv

LEMMA NextHistory ==
    ASSUME PlainUpdates
    PROVE  /\ IInv /\ IInv' /\ RolesInv /\ RolesInv' /\ SeqInv
           /\ PlainInv /\ HistoryInv /\ [Next]_vars
           => PlainInv' /\ HistoryInv'
PROOF
<1> SUFFICES ASSUME IInv, IInv', RolesInv, RolesInv', SeqInv, PlainInv,
                    HistoryInv, [Next]_vars
             PROVE  PlainInv' /\ HistoryInv'
  OBVIOUS
<1>1. TypeOK /\ TypeOK' /\ ServersObey /\ MasterKnowsEnds
  BY DEF IInv
<1>2. ASSUME NEW s \in Servers,
             ServerStep(s) \/ ClientUpdate(s) \/ ClientQuery(s) \/ Crash(s)
      PROVE  PlainInv' /\ HistoryInv'
  BY <1>1, <1>2, ServerHistory
<1>3. CASE MasterStep
  <2>1. PlainInv' /\ LogsStay /\ arrivals' = arrivals
    BY <1>1, <1>3, MasterLogs
  <2>2. ASSUME NEW b \in Banks
        PROVE  \E log \in Logs : Logged(b, log)' /\ log.top <= arrivals'
    BY <2>1 DEF HistoryInv, LogsStay
  <2> QED
    BY <2>1, <2>2 DEF HistoryInv
<1>4. CASE UNCHANGED vars
  <2>1. /\ srv' = srv /\ alive' = alive /\ tcp' = tcp /\ sending' = sending
        /\ replies' = replies /\ arrivals' = arrivals
    BY <1>4 DEF vars
  <2>2. PlainInv'
    BY <2>1 DEF PlainInv, PlainSends, PlainSend, MasterSends, PlainBoxes
  <2>3. \A b, log : Logged(b, log) => Logged(b, log)'
    BY <2>1 DEF Logged, Living, Told
  <2> QED
    BY <2>1, <2>2, <2>3 DEF HistoryInv
<1> QED
  BY <1>2, <1>3, <1>4 DEF Next

LEMMA HistoryInvariant ==
    ASSUME PlainUpdates
    PROVE  Spec => [](IInv /\ RolesInv /\ SeqInv /\ PlainInv /\ HistoryInv)
PROOF
<1>1. Init => PlainInv /\ HistoryInv
  BY InitHistory
<1>2. /\ IInv /\ RolesInv /\ SeqInv
      /\ (IInv /\ RolesInv /\ SeqInv)'
      /\ PlainInv /\ HistoryInv /\ [Next]_vars
      => (PlainInv /\ HistoryInv)'
  BY NextHistory
<1> QED
  BY <1>1, <1>2, SeqInvariant, PTL DEF Spec

\* A retry is answered from the memory of the ledger.
LEMMA AnswerOfMemory ==
    ASSUME NEW st, NEW l \in Ledger, l = st.ledger, Unique(Memory(l)),
           NEW f \in Memory(l), NEW r, SameKey(f.req, r)
    PROVE  Answer(st, r.id, r.acct) = {f.reply}
PROOF
<1>1. l.sent \in Seq(Entry)
  BY LedgerFields
<1> DEFINE q == l.sent
           done == {e \in l.processed : SameKey(e.req, r)}
           first == {i \in DOMAIN q : /\ SameKey(q[i].req, r)
                                      /\ \A j \in 1 .. (i - 1) : ~SameKey(q[j].req, r)}
           fromSent == {q[i].reply : i \in first}
           fromDone == {e.reply : e \in done}
<1>2. Answer(st, r.id, r.acct) = IF done # {} THEN fromDone ELSE fromSent
  BY Zenon DEF Answer, SameKey
<1>3. CASE done # {}
  <2>1. \A e \in done : e = f
    BY DEF Unique, Memory, SameKey
  <2>2. fromDone = {f.reply}
    BY <1>3, <2>1
  <2> HIDE DEF done, fromDone
  <2> QED
    BY <1>2, <1>3, <2>2
<1>4. CASE done = {}
  <2>1. f \notin l.processed
    BY <1>4
  <2>2. PICK i \in DOMAIN q : Unfiled(l, i) /\ f = q[i]
    BY <2>1 DEF Memory
  <2>3. i \in first
    BY <2>2 DEF Unfiled, SameKey
  <2>4. ASSUME NEW j \in first PROVE q[j] = f
    <3>1. Unfiled(l, j)
      BY <1>4, <2>4 DEF Unfiled, SameKey
    <3>2. q[j] \in Memory(l) /\ SameKey(q[j].req, f.req)
      BY <2>4, <3>1 DEF Memory, SameKey
    <3> QED
      BY <3>2 DEF Unique
  <2>5. fromSent = {f.reply}
    BY <2>2, <2>3, <2>4
  <2> HIDE DEF done, fromSent
  <2> QED
    BY <1>2, <1>4, <2>5
<1> QED
  BY <1>3, <1>4

LEMMA HistoryDurable ==
    IInv /\ SeqInv /\ HistoryInv => RepliesAreDurable
PROOF
<1> SUFFICES ASSUME IInv, SeqInv, HistoryInv, NEW e \in replies, NEW b,
                    b = e.req.bank, NEW s \in Living(b)
             PROVE  Remembers(s, e)
  BY DEF RepliesAreDurable
<1>1. /\ TypeOK /\ e \in Entry /\ e.req \in Request /\ b \in Banks
      /\ e.req.seq \in Nat
  BY RequestFields DEF IInv, TypeOK, Entry
<1>2. PICK log \in Logs : Logged(b, log)
  BY <1>1 DEF HistoryInv
<1>3. ReplyInLog(log, e) /\ GoodLog(b, log) /\ StateInLog(b, log, srv[s])
  BY <1>2 DEF Logged
<1>4. s \in alive /\ BankOf[s] = b /\ srv[s] \in ServerState
  BY <1>1 DEF Living, TypeOK
<1>5. PICK st \in ServerState, n \in Nat : st = srv[s] /\ n = st.bank_update_seq
  BY <1>4 DEF ServerState
<1>6. n >= e.req.seq
  BY <1>1, <1>4, <1>5 DEF SeqInv, GoodReplies, Applied
<1>7. CASE e.req.type = "QUERY"
  BY <1>5, <1>6, <1>7 DEF Remembers
<1>8. CASE e.req.type # "QUERY"
  <2>1. PICK f \in log.led[e.req.seq].processed : Decides(f, e)
    BY <1>3, <1>8 DEF ReplyInLog
  <2>2. PICK k : k = log.led[n]
    OBVIOUS
  <2>3. /\ n \in 0 .. log.top /\ k.processed = Memory(st.ledger)
        /\ Unique(k.processed) /\ st.ledger \in Ledger
    BY <1>3, <1>5, <2>2, StateLedger
  <2>4. f \in k.processed
    BY <1>1, <1>3, <1>6, <2>2, <2>3 DEF GoodLog, ReplyInLog
  <2>5. Answer(st, e.req.id, e.req.acct) = {f.reply}
    <3>1. PICK l, r : l = st.ledger /\ r = e.req
      OBVIOUS
    <3>2. /\ l \in Ledger /\ Unique(Memory(l)) /\ f \in Memory(l)
          /\ SameKey(f.req, r)
      BY <2>1, <2>3, <2>4, <3>1 DEF Decides
    <3> QED
      BY <3>1, <3>2, AnswerOfMemory
  <2>6. e.reply = f.reply \/ e.reply.outcome = "INCONSISTENT_WITH_HISTORY"
    BY <2>1 DEF Decides
  <2> QED
    BY <1>5, <1>6, <2>5, <2>6 DEF Remembers
<1> QED
  BY <1>7, <1>8

LEMMA HistoryRetries ==
    IInv /\ HistoryInv => RetriesGetTheSameReply
PROOF
<1> SUFFICES ASSUME IInv, HistoryInv, NEW e \in replies, NEW f \in replies,
                    e.req.type # "QUERY",
                    [e.req EXCEPT !.seq = 0] = [f.req EXCEPT !.seq = 0]
             PROVE  \/ e.reply = f.reply
                    \/ /\ e.reply.outcome = "INCONSISTENT_WITH_HISTORY"
                       /\ f.reply.outcome = "INCONSISTENT_WITH_HISTORY"
  BY DEF RetriesGetTheSameReply
<1>1. /\ e.req \in Request /\ f.req \in Request /\ e.req.bank \in Banks
      /\ e.req \in RequestRecord /\ f.req \in RequestRecord
  BY RequestFields DEF IInv, TypeOK, Entry, Request
<1>2. PICK r \in RequestRecord, q \in RequestRecord : r = e.req /\ q = f.req
  BY <1>1
<1>3. [r EXCEPT !.seq = 0] = [q EXCEPT !.seq = 0]
  BY <1>2
<1>4. /\ r.id = q.id /\ r.type = q.type /\ r.bank = q.bank /\ r.acct = q.acct
      /\ r.amount = q.amount /\ r.dbank = q.dbank /\ r.dacct = q.dacct
  <2>1. \A x \in RequestRecord : LET y == [x EXCEPT !.seq = 0] IN
            /\ y.id = x.id /\ y.type = x.type /\ y.bank = x.bank
            /\ y.acct = x.acct /\ y.amount = x.amount /\ y.dbank = x.dbank
            /\ y.dacct = x.dacct
    BY DEF RequestRecord
  <2>2. PICK y : y = [r EXCEPT !.seq = 0] /\ y = [q EXCEPT !.seq = 0]
    BY <1>3
  <2>3. /\ y.id = r.id /\ y.type = r.type /\ y.bank = r.bank
        /\ y.acct = r.acct /\ y.amount = r.amount /\ y.dbank = r.dbank
        /\ y.dacct = r.dacct
    BY <2>1, <2>2
  <2>4. /\ y.id = q.id /\ y.type = q.type /\ y.bank = q.bank
        /\ y.acct = q.acct /\ y.amount = q.amount /\ y.dbank = q.dbank
        /\ y.dacct = q.dacct
    BY <2>1, <2>2
  <2> QED
    BY <2>3, <2>4
<1>5. PICK log \in Logs : Logged(r.bank, log)
  BY <1>1, <1>2 DEF HistoryInv
<1>6. ReplyInLog(log, e) /\ ReplyInLog(log, f) /\ GoodLog(r.bank, log)
  BY <1>2, <1>4, <1>5 DEF Logged
<1>7. PICK x \in log.led[r.seq].processed : Decides(x, e)
  BY <1>2, <1>6 DEF ReplyInLog
<1>8. PICK y \in log.led[q.seq].processed : Decides(y, f)
  BY <1>2, <1>4, <1>6 DEF ReplyInLog
<1>9. x = y
  <2>1. log.top \in Nat
    BY LogFields
  <2>2. r.seq \in 0 .. log.top /\ q.seq \in 0 .. log.top
    BY <1>2, <1>6 DEF ReplyInLog
  <2>3. /\ x \in log.led[log.top].processed /\ y \in log.led[log.top].processed
        /\ Unique(log.led[log.top].processed)
    <3>1. PICK m, n, N : m = r.seq /\ n = q.seq /\ N = log.top
      OBVIOUS
    <3>2. m \in 0 .. N /\ n \in 0 .. N /\ N \in 0 .. N /\ m <= N /\ n <= N
      BY <2>1, <2>2, <3>1
    <3>3. /\ log.led[m].processed \in SUBSET log.led[N].processed
          /\ log.led[n].processed \in SUBSET log.led[N].processed
          /\ Unique(log.led[N].processed)
      BY <1>6, <3>1, <3>2 DEF GoodLog
    <3> QED
      BY <1>7, <1>8, <3>1, <3>3
  <2>4. SameKey(x.req, y.req)
    BY <1>2, <1>4, <1>7, <1>8 DEF Decides, SameKey
  <2> QED
    BY <2>3, <2>4 DEF Unique
<1>10. CASE req_consistent(r, x.req)
  <2>1. req_consistent(q, x.req)
    BY <1>4, <1>10 DEF req_consistent
  <2> QED
    BY <1>2, <1>7, <1>8, <1>9, <1>10, <2>1 DEF Decides
<1>11. CASE ~req_consistent(r, x.req)
  <2>1. ~req_consistent(q, x.req)
    BY <1>4, <1>11 DEF req_consistent
  <2> QED
    BY <1>2, <1>7, <1>8, <1>9, <1>11, <2>1 DEF Decides
<1> QED
  BY <1>10, <1>11

LEMMA HistoryReads == IInv /\ HistoryInv => ReadsAgree
PROOF
<1> SUFFICES ASSUME IInv, HistoryInv, NEW e \in replies, NEW f \in replies,
                    e.req.type = "QUERY", f.req.type = "QUERY",
                    e.req.bank = f.req.bank, e.req.acct = f.req.acct,
                    e.req.seq = f.req.seq
             PROVE  e.reply.balance = f.reply.balance
  BY DEF ReadsAgree
<1>1. e.req \in Request /\ e.req.bank \in Banks
  BY RequestFields DEF IInv, TypeOK, Entry
<1>2. PICK log \in Logs : Logged(e.req.bank, log)
  BY <1>1 DEF HistoryInv
<1>3. ReplyInLog(log, e) /\ ReplyInLog(log, f)
  BY <1>2 DEF Logged
<1> QED
  BY <1>3 DEF ReplyInLog

\* What a client was told survives every crash: each living server of the bank
\* has applied the update that was answered, and would answer a retry of it, from
\* processed_map_ or sent_list_, with the same reply.
THEOREM RepliesSurviveCrashes ==
    ASSUME PlainUpdates PROVE Spec => []RepliesAreDurable
PROOF
<1>1. IInv /\ RolesInv /\ SeqInv /\ PlainInv /\ HistoryInv => RepliesAreDurable
  BY HistoryDurable
<1> QED
  BY <1>1, HistoryInvariant, PTL

\* A client that repeats an update, after any crashes and at any head, gets the
\* reply that it was given before: the update is applied once and its reply is
\* found in the history of whichever server answers.
THEOREM SameReplyToRetries ==
    ASSUME PlainUpdates PROVE Spec => []RetriesGetTheSameReply
PROOF
<1>1. IInv /\ RolesInv /\ SeqInv /\ PlainInv /\ HistoryInv =>
        RetriesGetTheSameReply
  BY HistoryRetries
<1> QED
  BY <1>1, HistoryInvariant, PTL

\* Two queries that reflect the same updates return the same balance, whichever
\* servers were tail when they answered.
THEOREM TailsReadAlike ==
    ASSUME PlainUpdates PROVE Spec => []ReadsAgree
PROOF
<1>1. IInv /\ RolesInv /\ SeqInv /\ PlainInv /\ HistoryInv => ReadsAgree
  BY HistoryReads
<1> QED
  BY <1>1, HistoryInvariant, PTL

-----------------------------------------------------------------------------
(* The assertions of server.cc.  Where extending_chain_ happens to be      *)
(* FALSE from the start, a tail keeps nothing in sent_list_, and so no     *)
(* change of heads finds an entry there that is not a transfer.            *)

RestInv ==
    /\ \A s \in alive : Rested(srv[s])
    /\ \A s \in alive : \A i \in DOMAIN sending[s] : Mild(sending[s][i])
    /\ \A a \in aborted : a[2] \in {"FIFO", "query at tail"}

\* What a server handles leaves it at rest.
LEMMA HandledRests ==
    ASSUME PlainUpdates, TypeOK, SeqInv, PlainInv, HistoryInv, RestInv,
           NEW s \in alive, NEW inbox, NEW res, Handled(s, inbox, res)
    PROVE  Rested(res.st) /\ \A i \in DOMAIN res.out : Mild(res.out[i])
PROOF
<1>1. BankOf[s] \in Banks
  BY ChainAssumption DEF TypeOK
<1>2. PICK b \in Banks : b = BankOf[s]
  BY <1>1
<1>3. PICK log \in Logs : Logged(b, log)
  BY DEF HistoryInv
<1>4. Rested(srv[s])
  BY DEF RestInv
<1>5. CASE Keeps(b, srv[s], res)
  <2>1. Rested(res.st)
    BY <1>4, <1>5 DEF Keeps
  <2>2. ASSUME NEW i \in DOMAIN res.out PROVE Mild(res.out[i])
    BY <1>4, <1>5 DEF Keeps, Mild
  <2> QED
    BY <2>1, <2>2
<1>6. CASE \E num \in Request : Applies(b, srv[s], num, res)
  <2>1. Rested(res.st)
    BY <1>4, <1>6 DEF Applies
  <2>2. ASSUME NEW i \in DOMAIN res.out PROVE Mild(res.out[i])
    BY <1>6 DEF Applies, Mild
  <2> QED
    BY <2>1, <2>2
<1>7. CASE res = [st |-> srv[s], out |-> sending[s]]
  <2>1. res.st = srv[s] /\ res.out = sending[s]
    BY <1>7
  <2> QED
    BY <1>4, <2>1 DEF RestInv
<1> QED
  BY <1>2, <1>3, <1>5, <1>6, <1>7, HandledDoes DEF Does

\* A server that ends is no longer at rest, but dead.
LEMMA DieRests ==
    ASSUME TypeOK, RestInv, NEW s \in Servers, NEW inbox, Die(s, inbox),
           \A a \in aborted' : a[2] \in {"FIFO", "query at tail"}
    PROVE  RestInv'
PROOF
<1>1. /\ alive' = alive \ {s}
      /\ srv' = [srv EXCEPT ![s] = InitialServer(s, FALSE)]
      /\ sending' = [sending EXCEPT ![s] = <<>>]
  BY DEF Die
<1>2. /\ alive \in SUBSET Servers /\ alive \in SUBSET Processes
      /\ srv \in [Servers -> ServerState]
      /\ sending \in [Processes -> Seq(Outgoing)]
  BY DEF TypeOK, Processes
<1>3. \A t \in alive' : t \in alive /\ srv'[t] = srv[t] /\ sending'[t] = sending[t]
  BY <1>1, <1>2
<1> QED
  BY <1>3 DEF RestInv

LEMMA ServerRests ==
    ASSUME PlainUpdates, TypeOK, ServersObey, RolesInv, SeqInv, PlainInv,
           HistoryInv, RestInv, NEW s \in Servers,
           ServerStep(s) \/ ClientUpdate(s) \/ ClientQuery(s) \/ Crash(s)
    PROVE  RestInv'
PROOF
<1>1. CASE Crash(s)
  <2>1. Die(s, tcp) /\ aborted' = aborted
    BY <1>1 DEF Crash
  <2>2. \A a \in aborted' : a[2] \in {"FIFO", "query at tail"}
    BY <2>1 DEF RestInv
  <2> QED
    BY <2>1, <2>2, DieRests
<1>2. CASE ServerStep(s) \/ ClientUpdate(s) \/ ClientQuery(s)
  <2>1. /\ s \in alive
        /\ \E inbox, res : Handled(s, inbox, res) /\ Perform(s, inbox, res)
    BY <1>2, StepHandles
  <2>2. PICK inbox, res : Handled(s, inbox, res) /\ Perform(s, inbox, res)
    BY <2>1
  <2>3. inbox \in Inboxes /\ Outcome(srv[s], res)
    BY <2>1, <2>2, HandledEffect
  <2>4. Rested(res.st) /\ \A i \in DOMAIN res.out : Mild(res.out[i])
    BY <2>1, <2>2, HandledRests
  <2>5. PICK out \in Seq(ServerSend) : out = res.out
    BY <2>3 DEF Outcome
  <2>6. CASE /\ Aborts(out) /\ Die(s, inbox)
             /\ aborted' = aborted \cup {<<s, Head(out).msg.which>>}
    <3>1. 1 \in DOMAIN out /\ Head(out) = out[1] /\ out[1].msg.type = "ABORT"
      BY <2>6 DEF Aborts
    <3>2. PICK w : w = Head(out).msg.which
      OBVIOUS
    <3>3. w \in {"FIFO", "query at tail"}
      BY <2>4, <2>5, <3>1, <3>2 DEF Mild
    <3>4. \A a \in aborted' : a[2] \in {"FIFO", "query at tail"}
      <4>1. PICK x : x = <<s, w>>
        OBVIOUS
      <4>2. x[2] = w
        BY <4>1
      <4>3. \A a \in aborted' : a \in aborted \/ a = x
        BY <2>6, <3>2, <4>1
      <4>4. \A a \in aborted : a[2] \in {"FIFO", "query at tail"}
        BY DEF RestInv
      <4> QED
        BY <3>3, <4>2, <4>3, <4>4
    <3> QED
      BY <2>6, <3>4, DieRests
  <2>7. CASE /\ srv' = [srv EXCEPT ![s] = res.st]
             /\ Transmit(s, inbox, out)
             /\ UNCHANGED <<alive, aborted>>
    <3>1. /\ srv \in [Servers -> ServerState] /\ s \in Processes
          /\ alive \in SUBSET Processes
          /\ alive \in SUBSET Servers /\ alive' = alive /\ aborted' = aborted
      BY <2>7 DEF TypeOK, Processes
    <3>2. srv'[s] = res.st /\ \A u \in alive : u # s => srv'[u] = srv[u]
      BY <2>7, <3>1
    <3>3. out \in Seq(Outgoing)
      <4>1. ServerSend \in SUBSET Outgoing
        BY DEF ServerSend
      <4> QED
        BY <4>1
    <3>4. /\ \A q \in Processes : q # s => sending'[q] = sending[q]
          /\ \A i \in DOMAIN sending'[s] :
                i + 1 \in DOMAIN out /\ sending'[s][i] = out[i + 1]
      BY <2>3, <2>7, <3>1, <3>3, TransmitContents
    <3>5. \A i \in DOMAIN sending'[s] : Mild(sending'[s][i])
      BY <2>4, <2>5, <3>4
    <3>6. \A u \in alive : Rested(srv'[u])
      BY <2>4, <3>2 DEF RestInv
    <3>7. ASSUME NEW u \in alive, NEW i \in DOMAIN sending'[u]
          PROVE  Mild(sending'[u][i])
      BY <3>1, <3>4, <3>5 DEF RestInv
    <3> QED
      BY <3>1, <3>6, <3>7 DEF RestInv
  <2> QED
    BY <2>2, <2>5, <2>6, <2>7 DEF Perform
<1> QED
  BY <1>1, <1>2

\* The master leaves the servers, and what they have to send, alone.
LEMMA MasterRests ==
    ASSUME TypeOK, RestInv, MasterStep
    PROVE  RestInv'
PROOF
<1>1. srv' = srv /\ alive' = alive /\ aborted' = aborted
  BY DEF MasterStep, NotifyHeadCrash, NotifyTailCrash, NotifyInternalCrash,
         NotifyCrash, MasterContinue, ForwardReqSeq, servers
<1>2. /\ Master \notin alive /\ alive \in SUBSET Processes
      /\ sending \in [Processes -> Seq(Outgoing)]
  BY MasterAssumption DEF TypeOK, Processes
<1>3. \E q : sending' = [sending EXCEPT ![Master] = q]
  <2>1. \A inbox, out : Transmit(Master, inbox, out) =>
            \E q : sending' = [sending EXCEPT ![Master] = q]
    BY DEF Transmit
  <2>2. sending = [sending EXCEPT ![Master] = sending[Master]]
    BY <1>2
  <2>3. \/ \E inbox, out : Transmit(Master, inbox, out)
        \/ sending' = sending
    BY DEF MasterStep, NotifyHeadCrash, NotifyTailCrash, NotifyInternalCrash,
           NotifyCrash, MasterContinue, ForwardReqSeq
  <2> QED
    BY <2>1, <2>2, <2>3
<1>4. \A u \in alive : sending'[u] = sending[u]
  BY <1>2, <1>3
<1> QED
  BY <1>1, <1>4 DEF RestInv

LEMMA InitRests ==
    ASSUME UninitializedFlag \in SUBSET {FALSE}
    PROVE  Init => RestInv
PROOF
<1> SUFFICES ASSUME Init PROVE RestInv
  OBVIOUS
<1>1. PICK flag \in [Servers -> UninitializedFlag] :
        srv = [s \in Servers |-> InitialServer(s, flag[s])]
  BY DEF Init
<1>2. /\ alive = Servers /\ aborted = {}
      /\ sending = [p \in Processes |-> <<>>]
  BY DEF Init
<1>3. \A s \in Servers : flag[s] = FALSE
  OBVIOUS
<1>4. \A s \in Servers : /\ srv[s].extending_chain = flag[s]
                         /\ srv[s].ledger.sent = <<>>
  BY <1>1 DEF InitialServer, EmptyLedger
<1>5. \A s \in Servers : Rested(srv[s])
  BY <1>3, <1>4 DEF Rested
<1> QED
  BY <1>2, <1>5 DEF RestInv, Processes

LEMMA NextRests ==
    ASSUME PlainUpdates
    PROVE  /\ IInv /\ RolesInv /\ SeqInv /\ PlainInv /\ HistoryInv
           /\ RestInv /\ [Next]_vars
           => RestInv'
PROOF
<1> SUFFICES ASSUME IInv, RolesInv, SeqInv, PlainInv, HistoryInv, RestInv,
                    [Next]_vars
             PROVE  RestInv'
  OBVIOUS
<1>1. TypeOK /\ ServersObey
  BY DEF IInv
<1>2. ASSUME NEW s \in Servers,
             ServerStep(s) \/ ClientUpdate(s) \/ ClientQuery(s) \/ Crash(s)
      PROVE  RestInv'
  BY <1>1, <1>2, ServerRests
<1>3. CASE MasterStep
  BY <1>1, <1>3, MasterRests
<1>4. CASE UNCHANGED vars
  BY <1>4 DEF vars, RestInv
<1> QED
  BY <1>2, <1>3, <1>4 DEF Next

\* Where extending_chain_ is FALSE from the start, no assertion about updates
\* fails: neither that of receive_request about gaps nor that of handle_new_head
\* about what waits in sent_list_, whichever servers crash.
THEOREM AssertionsHold ==
    ASSUME PlainUpdates, UninitializedFlag \in SUBSET {FALSE}
    PROVE  Spec => []UpdateAssertionsHold
PROOF
<1>1. Init => RestInv
  BY InitRests
<1>2. /\ IInv /\ RolesInv /\ SeqInv /\ PlainInv /\ HistoryInv
      /\ RestInv /\ [Next]_vars
      => RestInv'
  BY NextRests
<1>3. RestInv /\ NoGapInUpdates => UpdateAssertionsHold
  BY DEF RestInv, NoGapInUpdates, UpdateAssertionsHold
<1> QED
  BY <1>1, <1>2, <1>3, HistoryInvariant, UpdatesArriveInOrder, PTL DEF Spec
=============================================================================
