---------------------------- MODULE ServerProofs ----------------------------
(***************************************************************************)
(* Facts about the handlers of a server: each of them, started in a        *)
(* well-formed state, leaves a well-formed state and well-formed sends,    *)
(* and overdraws no account.                                               *)
(***************************************************************************)
EXTENDS ChainServer, FiniteSetTheorems, FunctionTheorems, TLAPS

-----------------------------------------------------------------------------
(* Sequences: the elements of a subsequence are elements of the sequence.  *)

\* Every rank below the size of a finite set of numbers is taken: Rank is an
\* injection of K into 0 .. Cardinality(K)-1, hence a surjection.
LEMMA RankSurjective ==
    ASSUME NEW K \in SUBSET Nat, IsFiniteSet(K),
           NEW k \in 1 .. Cardinality(K)
    PROVE  \E i \in K : Rank(K, i) = k - 1
PROOF
<1> DEFINE n == Cardinality(K)
           below(i) == {j \in K : j < i}
           f == [i \in K |-> Rank(K, i)]
<1>1. n \in Nat
  BY FS_CardinalityType
<1>2. ASSUME NEW i \in K
      PROVE  /\ IsFiniteSet(below(i))
             /\ Cardinality(below(i)) \in Nat
             /\ Cardinality(below(i)) <= n - 1
  <2>1. IsFiniteSet(K \ {i}) /\ Cardinality(K \ {i}) = n - 1
    BY FS_RemoveElement
  <2>2. below(i) \in SUBSET (K \ {i})
    OBVIOUS
  <2>3. IsFiniteSet(below(i)) /\ Cardinality(below(i)) <= Cardinality(K \ {i})
    BY <2>1, <2>2, FS_Subset
  <2> QED
    BY <2>1, <2>3, FS_CardinalityType
<1>3. ASSUME NEW i \in K, NEW j \in K, i < j
      PROVE  Cardinality(below(i)) < Cardinality(below(j))
  <2>1. below(i) \cup {i} \in SUBSET below(j)
    <3>1. i \in Nat /\ j \in Nat /\ \A x \in K : x \in Nat
      OBVIOUS
    <3>2. \A x \in K : x < i => x < j
      BY <1>3, <3>1
    <3> QED
      BY <1>3, <3>2
  <2>2. Cardinality(below(i) \cup {i}) = Cardinality(below(i)) + 1
    BY <1>2, FS_AddElement
  <2>3. Cardinality(below(i) \cup {i}) <= Cardinality(below(j))
    BY <1>2, <2>1, FS_Subset
  <2>4. /\ Cardinality(below(i)) \in Nat
        /\ Cardinality(below(j)) \in Nat
    BY <1>2
  <2> HIDE DEF below
  <2> QED
    BY <2>2, <2>3, <2>4
<1>4. f \in Injection(K, 0 .. n - 1)
  <2>1. f \in [K -> 0 .. n - 1]
    BY <1>1, <1>2 DEF Rank
  <2>2. ASSUME NEW i \in K, NEW j \in K, f[i] = f[j] PROVE i = j
    <3>1. i \in Nat /\ j \in Nat
      OBVIOUS
    <3>2. f[i] = Cardinality(below(i)) /\ f[j] = Cardinality(below(j))
      BY DEF Rank
    <3>3. /\ Cardinality(below(i)) \in Nat
          /\ Cardinality(below(j)) \in Nat
      BY <1>2
    <3>4. /\ i < j => Cardinality(below(i)) < Cardinality(below(j))
          /\ j < i => Cardinality(below(j)) < Cardinality(below(i))
      BY <1>3
    <3> HIDE DEF below, f
    <3>5. Cardinality(below(i)) = Cardinality(below(j))
      BY <2>2, <3>2
    <3>6. ~(i < j) /\ ~(j < i)
      BY <3>1, <3>3, <3>4, <3>5
    <3> QED
      BY <3>1, <3>6
  <2> HIDE DEF f
  <2> QED
    BY <2>1, <2>2 DEF Injection, IsInjective
<1>5. IsFiniteSet(0 .. n - 1) /\ Cardinality(0 .. n - 1) = n
  <2> HIDE DEF n
  <2>1. 0 \in Int /\ n - 1 \in Int
    BY <1>1
  <2>2. /\ IsFiniteSet(0 .. n - 1)
        /\ Cardinality(0 .. n - 1) = IF 0 > n - 1 THEN 0 ELSE (n - 1) - 0 + 1
    BY <2>1, FS_Interval
  <2> QED
    BY <1>1, <2>2
<1>6. f \in Surjection(K, 0 .. n - 1)
  BY <1>4, <1>5, FS_Injection
<1>7. k - 1 \in 0 .. n - 1
  BY <1>1
<1> QED
  BY <1>6, <1>7 DEF Surjection

\* Pick returns a sequence of elements of the sequence it picks from, and an
\* empty one exactly for an empty index set.
LEMMA PickType ==
    ASSUME NEW S, NEW s \in Seq(S), NEW K \in SUBSET DOMAIN s
    PROVE  /\ Pick(s, K) \in Seq(S)
           /\ \A k \in DOMAIN Pick(s, K) : \E i \in K : Pick(s, K)[k] = s[i]
           /\ Pick(s, K) = <<>> <=> K = {}
PROOF
<1> DEFINE n == Cardinality(K)
           at(k) == CHOOSE i \in K : Rank(K, i) = k - 1
<1>1. K \in SUBSET Nat /\ DOMAIN s = 1 .. Len(s) /\ Len(s) \in Nat
  OBVIOUS
<1>2. IsFiniteSet(DOMAIN s)
  BY <1>1, FS_Interval
<1>3. IsFiniteSet(K) /\ n \in Nat
  BY <1>2, FS_Subset, FS_CardinalityType
<1>4. ASSUME NEW k \in 1 .. n PROVE at(k) \in K
  <2>1. \E i \in K : Rank(K, i) = k - 1
    BY <1>1, <1>3, RankSurjective
  <2> QED
    BY <2>1
<1>5. \A k \in 1 .. n : s[at(k)] \in S
  BY <1>1, <1>4
<1>6. Pick(s, K) = [k \in 1 .. n |-> s[at(k)]]
  BY DEF Pick
<1>7. Pick(s, K) \in Seq(S) /\ Len(Pick(s, K)) = n /\ DOMAIN Pick(s, K) = 1 .. n
  <2> HIDE DEF n, at
  <2> QED
    BY <1>3, <1>5, <1>6
<1>8. n = 0 <=> K = {}
  BY <1>3, FS_EmptySet
<1>9. Pick(s, K) = <<>> <=> n = 0
  BY <1>3, <1>7
<1> QED
  BY <1>4, <1>6, <1>7, <1>8, <1>9

\* Picking all from some index on returns that part of the sequence.
LEMMA PickSuffix ==
    ASSUME NEW S, NEW s \in Seq(S), NEW lo \in 1 .. Len(s) + 1
    PROVE  LET part == Pick(s, lo .. Len(s))
           IN  /\ part \in Seq(S)
               /\ DOMAIN part = 1 .. Len(s) - lo + 1
               /\ \A k \in DOMAIN part : part[k] = s[lo + k - 1]
PROOF
<1> DEFINE n == Len(s)
           K == lo .. n
           at(k) == CHOOSE i \in K : Rank(K, i) = k - 1
<1>1. n \in Nat /\ lo \in Nat /\ lo >= 1 /\ lo <= n + 1 /\ DOMAIN s = 1 .. n
  OBVIOUS
<1>2. Pick(s, K) \in Seq(S)
  BY <1>1, PickType
<1> HIDE DEF n
<1>3. Cardinality(K) = n - lo + 1
  <2>1. Cardinality(lo .. n) = IF lo > n THEN 0 ELSE n - lo + 1
    BY <1>1, FS_Interval
  <2> QED
    BY <1>1, <2>1
<1>4. ASSUME NEW i \in K PROVE Rank(K, i) = i - lo
  <2>1. {j \in K : j < i} = lo .. (i - 1)
    BY <1>1
  <2>2. i - 1 \in Int /\ lo \in Int
    BY <1>1
  <2>3. Cardinality(lo .. (i - 1)) = IF lo > i - 1 THEN 0 ELSE (i - 1) - lo + 1
    BY <2>2, FS_Interval
  <2>4. Cardinality(lo .. (i - 1)) = i - lo
    BY <1>1, <2>3
  <2> QED
    BY <2>1, <2>4 DEF Rank
<1>5. ASSUME NEW k \in 1 .. n - lo + 1 PROVE at(k) = lo + k - 1
  <2>1. lo + k - 1 \in K /\ Rank(K, lo + k - 1) = k - 1
    BY <1>1, <1>4
  <2>2. at(k) \in K /\ Rank(K, at(k)) = k - 1
    BY <2>1
  <2>3. at(k) - lo = k - 1 /\ at(k) \in Int
    BY <1>1, <1>4, <2>2
  <2> QED
    BY <1>1, <2>3
<1>6. Pick(s, K) = [k \in 1 .. n - lo + 1 |-> s[at(k)]]
  BY <1>3 DEF Pick
<1> HIDE DEF K, at
<1>7. /\ DOMAIN Pick(s, K) = 1 .. n - lo + 1
      /\ \A k \in 1 .. n - lo + 1 : Pick(s, K)[k] = s[lo + k - 1]
  BY <1>5, <1>6
<1> QED
  BY <1>2, <1>7 DEF K, n

-----------------------------------------------------------------------------
(* The ledger.                                                             *)

\* No account of the ledger is overdrawn.
Solvent(l) == \A a \in Accounts : l.bal[a] >= 0

\* The fields of a ledger.
LEMMA LedgerFields ==
    ASSUME NEW l \in Ledger
    PROVE  /\ l.accts \in SUBSET Accounts
           /\ l.bal \in [Accounts -> Int]
           /\ l.processed \in SUBSET Entry
           /\ l.sent \in Seq(Entry)
PROOF
  BY DEF Ledger

\* The fields of a request that the ledger looks at.
LEMMA RequestFields ==
    ASSUME NEW r \in Request
    PROVE  /\ r.id \in ReqIds
           /\ r.acct \in Accounts
           /\ r.amount \in Nat
           /\ r.bank \in Banks
           /\ r.from \in Servers \cup {Client}
           /\ r.seq \in Nat
           /\ r.type \in UpdateTypes \cup {"QUERY"}
           /\ r.type = "TRANSFER" => r.dbank \in Banks /\ r.dacct \in Accounts
PROOF
  BY DEF Request, RequestRecord

\* A request keeps its type when it is numbered.
LEMMA Numbered ==
    ASSUME NEW r \in Request, NEW n \in Nat
    PROVE  /\ [r EXCEPT !.seq = n] \in Request
           /\ [r EXCEPT !.seq = n].type = r.type
           /\ [r EXCEPT !.seq = n].acct = r.acct
           /\ [r EXCEPT !.seq = n].seq = n
PROOF
  BY DEF Request, RequestRecord

\* The history that decides an answer consists of entries of the ledger.
LEMMA HistoryType ==
    ASSUME NEW l \in Ledger, NEW req \in Request
    PROVE  History(l, req) \in SUBSET Entry
PROOF
<1> DEFINE done == {e \in l.processed : SameKey(e.req, req)}
           sent == {l.sent[i] : i \in {i \in DOMAIN l.sent :
                                            FirstSent(l.sent, req, i)}}
<1>1. done \in SUBSET Entry
  BY LedgerFields
<1>2. sent \in SUBSET Entry
  BY LedgerFields
<1>3. History(l, req) \in {{}, done, sent}
  BY DEF History
<1> QED
  BY <1>1, <1>2, <1>3

\* update_balance keeps the balances whole numbers, and never below zero.
LEMMA UpdateBalance ==
    ASSUME NEW l \in Ledger, NEW req \in Request
    PROVE  /\ update_balance(l, req) \in [Accounts -> Int]
           /\ Solvent(l) =>
                \A a \in Accounts : update_balance(l, req)[a] >= 0
PROOF
  BY LedgerFields, RequestFields DEF update_balance, Covered, Debits, Solvent

\* update_request_reply keeps the ledger well formed and solvent, and files
\* the request it was given with a reply.
LEMMA UpdateRequestReply ==
    ASSUME NEW l \in Ledger, NEW req \in Request
    PROVE  /\ update_request_reply(l, req).ledger \in Ledger
           /\ update_request_reply(l, req).entry \in Entry
           /\ update_request_reply(l, req).entry.req = req
           /\ Solvent(l) => Solvent(update_request_reply(l, req).ledger)
PROOF
<1> DEFINE check   == check_update_request(l, req)
           bal     == IF check = "NEWREQ" THEN update_balance(l, req) ELSE l.bal
           outcome == CASE check = "INCONSISTENT" -> "INCONSISTENT_WITH_HISTORY"
                        [] check = "NEWREQ" /\ ~Covered(l, req)
                                               -> "INSUFFICIENT_FUNDS"
                        [] OTHER -> "PROCESSED"
           fresh   == [id |-> req.id, acct |-> req.acct, outcome |-> outcome,
                       balance |-> bal[req.acct]]
           reply   == IF check = "PROCESSED"
                      THEN (CHOOSE e \in History(l, req) :
                               req_consistent(req, e.req)).reply
                      ELSE fresh
           ledger  == [l EXCEPT !.bal = bal, !.accts = @ \cup {req.acct}]
<1>1. /\ bal \in [Accounts -> Int]
      /\ Solvent(l) => \A a \in Accounts : bal[a] >= 0
  BY UpdateBalance, LedgerFields DEF Solvent
<1>2. outcome \in Outcomes
  BY DEF Outcomes
<1>3. fresh \in Reply
  <2> HIDE DEF bal, outcome
  <2> QED
    BY <1>1, <1>2, RequestFields DEF Reply
<1>4. check = "PROCESSED" =>
        \E e \in History(l, req) : req_consistent(req, e.req)
  BY DEF check_update_request
<1>5. reply \in Reply
  <2>1. ASSUME check = "PROCESSED"
        PROVE  (CHOOSE e \in History(l, req) :
                    req_consistent(req, e.req)) \in Entry
    BY <1>4, <2>1, HistoryType
  <2> HIDE DEF fresh, check
  <2> QED
    BY <1>3, <2>1 DEF Entry
<1>6. ledger \in Ledger /\ ledger.bal = bal
  <2> HIDE DEF bal
  <2> QED
    BY <1>1, RequestFields DEF Ledger
<1>7. [req |-> req, reply |-> reply] \in Entry
  <2> HIDE DEF reply
  <2> QED
    BY <1>5 DEF Entry
<1>8. /\ update_request_reply(l, req).ledger = ledger
      /\ update_request_reply(l, req).entry = [req |-> req, reply |-> reply]
  BY DEF update_request_reply
<1> HIDE DEF ledger, reply, bal
<1> QED
  BY <1>1, <1>6, <1>7, <1>8 DEF Solvent

\* Filing entries, in either list, touches no balance.
LEMMA Filing ==
    ASSUME NEW l \in Ledger
    PROVE  /\ \A es \in Seq(Entry) :
                /\ insert_processed_list(l, es) \in Ledger
                /\ insert_processed_list(l, es).bal = l.bal
                /\ insert_processed_list(l, es).sent = l.sent
           /\ \A e \in Entry : /\ insert_sent_list(l, e) \in Ledger
                               /\ insert_sent_list(l, e).bal = l.bal
           /\ \A a \in Accounts : /\ get_balance(l, a) \in Ledger
                                  /\ get_balance(l, a).bal = l.bal
           /\ \A es \in Seq(Entry) : /\ [l EXCEPT !.sent = es] \in Ledger
                                     /\ [l EXCEPT !.sent = es].bal = l.bal
                                     /\ [l EXCEPT !.sent = es].sent = es
PROOF
<1>1. ASSUME NEW es \in Seq(Entry)
      PROVE  /\ insert_processed_list(l, es) \in Ledger
             /\ insert_processed_list(l, es).bal = l.bal
             /\ insert_processed_list(l, es).sent = l.sent
  <2> DEFINE new(i) == /\ \A e \in l.processed : ~SameKey(e.req, es[i].req)
                       /\ \A j \in 1 .. (i - 1) :
                                ~SameKey(es[j].req, es[i].req)
             filed  == {es[i] : i \in {i \in DOMAIN es : new(i)}}
  <2>1. filed \in SUBSET Entry
    OBVIOUS
  <2>2. insert_processed_list(l, es) = [l EXCEPT !.processed = @ \cup filed]
    BY DEF insert_processed_list
  <2> HIDE DEF filed
  <2> QED
    BY <2>1, <2>2 DEF Ledger
<1>2. ASSUME NEW e \in Entry
      PROVE  /\ insert_sent_list(l, e) \in Ledger
             /\ insert_sent_list(l, e).bal = l.bal
  <2>1. Append(l.sent, e) \in Seq(Entry)
    BY LedgerFields
  <2> QED
    BY <2>1 DEF insert_sent_list, Ledger
<1>3. ASSUME NEW a \in Accounts
      PROVE  /\ get_balance(l, a) \in Ledger
             /\ get_balance(l, a).bal = l.bal
  BY DEF get_balance, Ledger
<1>4. ASSUME NEW es \in Seq(Entry)
      PROVE  /\ [l EXCEPT !.sent = es] \in Ledger
             /\ [l EXCEPT !.sent = es].bal = l.bal
             /\ [l EXCEPT !.sent = es].sent = es
  BY DEF Ledger
<1> QED
  BY <1>1, <1>2, <1>3, <1>4

-----------------------------------------------------------------------------
(* Messages.                                                               *)

\* What a message of each type carries.
LEMMA MessageFields ==
    ASSUME NEW m \in Message
    PROVE  /\ m.type = "REQUEST" => m.req \in Request
           /\ m.type = "REPLY" => m.reply \in Reply
           /\ m.type = "CLIENT_REPLY" => m.entry \in Entry
           /\ m.type = "ACKNOWLEDGE" => m.seq \in Nat
           /\ m.type = "NEW_PRE_SERVER" => m.addr \in Servers
           /\ m.type \in {"REQ_SEQ", "NEW_SUCC_SERVER"} =>
                /\ m.seq \in Nat /\ m.pre \in Servers /\ m.succ \in Servers
                /\ m = [type |-> m.type, seq |-> m.seq,
                        pre |-> m.pre, succ |-> m.succ]
           /\ m.type \in {"NEW_HEAD", "NEW_TAIL"} =>
                m.bank \in Banks /\ m.server \in Servers
           /\ m.type = "ABORT" => m.which \in Assertions
PROOF
  BY DEF Message

\* Messages of each type.
LEMMA MessageTypes ==
    /\ \A r \in Request : [type |-> "REQUEST", req |-> r] \in Message
    /\ \A r \in Reply : [type |-> "REPLY", reply |-> r] \in Message
    /\ \A e \in Entry : [type |-> "CLIENT_REPLY", entry |-> e] \in Message
    /\ \A n \in Nat : [type |-> "ACKNOWLEDGE", seq |-> n] \in Message
    /\ [type |-> "TO_BE_HEAD"] \in Message
    /\ [type |-> "TO_BE_TAIL"] \in Message
    /\ \A s \in Servers : [type |-> "NEW_PRE_SERVER", addr |-> s] \in Message
    /\ \A n \in Nat, s, t \in Servers :
        /\ [type |-> "REQ_SEQ", seq |-> n, pre |-> s, succ |-> t] \in Message
        /\ [type |-> "NEW_SUCC_SERVER", seq |-> n, pre |-> s, succ |-> t]
                \in Message
    /\ \A b \in Banks, s \in Servers :
        /\ [type |-> "NEW_HEAD", bank |-> b, server |-> s] \in Message
        /\ [type |-> "NEW_TAIL", bank |-> b, server |-> s] \in Message
    /\ \A w \in Assertions : [type |-> "ABORT", which |-> w] \in Message
PROOF
  BY DEF Message

\* Only the master assigns roles and announces heads and tails.
ServerSend ==
    {o \in Outgoing :
        o.msg.type \notin {"TO_BE_HEAD", "TO_BE_TAIL", "NEW_HEAD", "NEW_TAIL"}}

\* A message to an address is a send.
LEMMA SendType ==
    ASSUME NEW to \in Addresses, NEW m \in Message
    PROVE  /\ Send(to, m) \in Outgoing
           /\ Send(to, m).to = to /\ Send(to, m).msg = m
           /\ m.type \notin {"TO_BE_HEAD", "TO_BE_TAIL", "NEW_HEAD", "NEW_TAIL"}
                => Send(to, m) \in ServerSend
PROOF
  BY DEF Send, Outgoing, ServerSend

\* The sends of the handlers.
LEMMA Sends ==
    ASSUME NEW s \in Servers, NEW st \in ServerState
    PROVE  /\ \A e \in Entry : forward_request(st, e) \in ServerSend
           /\ \A e \in Entry : reply_to_client(e) \in ServerSend
           /\ \A n \in Nat : sendback_ack(st, n) \in ServerSend
           /\ \A e \in Entry : e.req.type = "TRANSFER" =>
                    forward_transfer_to_downstream(s, st, e) \in ServerSend
           /\ \A w \in Assertions : Abort(w) \in ServerSend
PROOF
<1>1. /\ st.succ \in Addresses /\ st.pre \in Addresses
      /\ Nobody \in Addresses /\ Client \in Addresses
      /\ \A b \in Banks : st.heads[b] \in Addresses
  BY DEF ServerState, Addresses
<1>2. \A e \in Entry : e.req \in Request /\ e.reply \in Reply
  BY DEF Entry
<1>3. \A e \in Entry : forward_request(st, e) \in ServerSend
  BY <1>1, <1>2, MessageTypes, SendType DEF forward_request
<1>4. ASSUME NEW e \in Entry PROVE reply_to_client(e) \in ServerSend
  <2>1. e.req.from \in Addresses
    BY <1>2, RequestFields DEF Addresses
  <2> QED
    BY <1>1, <1>2, <2>1, MessageTypes, SendType DEF reply_to_client
<1>5. \A n \in Nat : sendback_ack(st, n) \in ServerSend
  BY <1>1, MessageTypes, SendType DEF sendback_ack
<1>6. ASSUME NEW e \in Entry, e.req.type = "TRANSFER"
      PROVE  forward_transfer_to_downstream(s, st, e) \in ServerSend
  <2>1. e.req \in Request /\ e.req.dbank \in Banks
    BY <1>2, <1>6, RequestFields
  <2>2. transfer_to(s, e.req) \in Request
    BY <1>6, <2>1 DEF transfer_to, Request, RequestRecord, UpdateTypes
  <2>3. [type |-> "REQUEST", req |-> transfer_to(s, e.req)] \in Message
    BY <2>2, MessageTypes
  <2> QED
    BY <1>1, <2>1, <2>3, SendType DEF forward_transfer_to_downstream
<1>7. \A w \in Assertions : Abort(w) \in ServerSend
  BY <1>1, MessageTypes, SendType DEF Abort
<1> QED
  BY <1>3, <1>4, <1>5, <1>6, <1>7

-----------------------------------------------------------------------------
(* The handlers.                                                           *)

\* A well-formed outcome of a handler that started in state st: it overdraws
\* no account.
Outcome(st, res) ==
    /\ res.st \in ServerState
    /\ res.out \in Seq(ServerSend)
    /\ Solvent(st.ledger) => Solvent(res.st.ledger)

\* Replacing the ledger, and the number of the last update.
LEMMA NewLedger ==
    ASSUME NEW st \in ServerState, NEW l \in Ledger, NEW n \in Nat
    PROVE  /\ [st EXCEPT !.ledger = l] \in ServerState
           /\ [st EXCEPT !.ledger = l].ledger = l
           /\ [st EXCEPT !.bank_update_seq = n, !.ledger = l] \in ServerState
           /\ [st EXCEPT !.bank_update_seq = n, !.ledger = l].ledger = l
           /\ st.ledger \in Ledger
           /\ st.bank_update_seq \in Nat
           /\ st.ishead \in BOOLEAN /\ st.istail \in BOOLEAN
PROOF
  BY DEF ServerState

\* What makes an outcome well formed.
LEMMA OutcomeOf ==
    ASSUME NEW st, NEW st2 \in ServerState, NEW out \in Seq(ServerSend),
           Solvent(st.ledger) => Solvent(st2.ledger)
    PROVE  Outcome(st, [st |-> st2, out |-> out])
PROOF
<1> DEFINE res == [st |-> st2, out |-> out]
<1>1. res.st = st2 /\ res.out = out
  OBVIOUS
<1> HIDE DEF res
<1>2. Outcome(st, res)
  BY <1>1, Zenon DEF Outcome
<1> QED
  BY <1>2 DEF res

\* Ledgers with the same balances are both solvent or both not.
LEMMA SameBalances ==
    ASSUME NEW l, NEW k, l.bal = k.bal
    PROVE  Solvent(l) => Solvent(k)
PROOF
  BY Zenon DEF Solvent

\* Short sequences of sends.
LEMMA FewSends ==
    /\ <<>> \in Seq(ServerSend)
    /\ \A o \in ServerSend : <<o>> \in Seq(ServerSend)
    /\ \A q, r \in Seq(ServerSend) : q \o r \in Seq(ServerSend)
PROOF
  OBVIOUS

\* A query.
LEMMA HandleQuery ==
    ASSUME NEW s \in Servers, NEW st \in ServerState, NEW req \in Request
    PROVE  Outcome(st, handle_query(st, req))
PROOF
<1> DEFINE l == get_balance(st.ledger, req.acct)
           r == [req EXCEPT !.seq = st.bank_update_seq]
           p == [id |-> req.id, acct |-> req.acct,
                 outcome |-> "PROCESSED", balance |-> l.bal[req.acct]]
           e == [req |-> r, reply |-> p]
<1>1. st.ledger \in Ledger /\ st.bank_update_seq \in Nat
  BY DEF ServerState
<1>2. l \in Ledger /\ l.bal = st.ledger.bal
  BY <1>1, Filing, RequestFields
<1>3. r \in Request
  BY <1>1, Numbered
<1>4. p \in Reply
  <2> HIDE DEF l
  <2>1. l.bal[req.acct] \in Int
    BY <1>2, LedgerFields, RequestFields
  <2> QED
    BY <2>1, RequestFields DEF Reply, Outcomes
<1>5. reply_to_client(e) \in ServerSend
  <2> HIDE DEF r, p
  <2>1. e \in Entry
    BY <1>3, <1>4 DEF Entry
  <2> HIDE DEF e
  <2> QED
    BY <2>1, Sends
<1>6. CASE st.istail
  <2>1. handle_query(st, req) =
            [st |-> [st EXCEPT !.ledger = l], out |-> <<reply_to_client(e)>>]
    BY <1>6 DEF handle_query
  <2>2. <<reply_to_client(e)>> \in Seq(ServerSend)
    <3> HIDE DEF e
    <3> QED
      BY <1>5
  <2>3. Solvent(st.ledger) => Solvent(l)
    BY <1>2, SameBalances
  <2> HIDE DEF l, e
  <2>4. /\ [st EXCEPT !.ledger = l] \in ServerState
        /\ [st EXCEPT !.ledger = l].ledger = l
    BY <1>2, NewLedger
  <2> QED
    BY <2>1, <2>2, <2>3, <2>4, OutcomeOf
<1>7. CASE ~st.istail
  <2>1. handle_query(st, req) = [st |-> st, out |-> <<Abort("query at tail")>>]
    BY <1>7 DEF handle_query
  <2>2. Abort("query at tail") \in ServerSend
    BY Sends DEF Assertions
  <2>3. <<Abort("query at tail")>> \in Seq(ServerSend)
    BY <2>2, FewSends, Zenon
  <2> QED
    BY <2>1, <2>3, OutcomeOf
<1> QED
  BY <1>6, <1>7

\* An update at a head or an internal server.
LEMMA ForwardHandleUpdate ==
    ASSUME NEW s \in Servers, NEW st \in ServerState, NEW req \in Request
    PROVE  Outcome(st, forward_handle_update(st, req))
PROOF
<1> DEFINE u == update_request_reply(st.ledger, req)
           l == insert_sent_list(u.ledger, u.entry)
           new == [st EXCEPT !.bank_update_seq = req.seq, !.ledger = l]
<1>1. st.ledger \in Ledger /\ req.seq \in Nat
  BY RequestFields DEF ServerState
<1>2. /\ u.ledger \in Ledger /\ u.entry \in Entry
      /\ Solvent(st.ledger) => Solvent(u.ledger)
  BY <1>1, UpdateRequestReply
<1> HIDE DEF u
<1>3. l \in Ledger /\ l.bal = u.ledger.bal
  BY <1>2, Filing
<1>4. Solvent(u.ledger) => Solvent(l)
  BY <1>3, SameBalances
<1> HIDE DEF l
<1>5. new \in ServerState /\ new.ledger = l
  BY <1>1, <1>3, NewLedger
<1>6. <<forward_request(st, u.entry)>> \in Seq(ServerSend)
  BY <1>2, Sends, FewSends, Zenon
<1>7. forward_handle_update(st, req) =
        [st |-> new, out |-> <<forward_request(st, u.entry)>>]
  BY DEF forward_handle_update, u, l
<1> HIDE DEF new
<1> QED
  BY <1>2, <1>4, <1>5, <1>6, <1>7, OutcomeOf

\* What the handlers of the tail do with an update that was applied: they file
\* it and send, and change no balance.
Committed(u, c) ==
    /\ c.ledger \in Ledger
    /\ c.ledger.bal = u.ledger.bal
    /\ c.out \in Seq(ServerSend)

\* What makes a commit well formed.
LEMMA CommittedOf ==
    ASSUME NEW u, NEW l \in Ledger, l.bal = u.ledger.bal,
           NEW out \in Seq(ServerSend)
    PROVE  Committed(u, [ledger |-> l, out |-> out])
PROOF
<1> DEFINE c == [ledger |-> l, out |-> out]
<1>1. c.ledger = l /\ c.out = out
  OBVIOUS
<1> HIDE DEF c
<1>2. Committed(u, c)
  BY <1>1, Zenon DEF Committed
<1> QED
  BY <1>2 DEF c

\* A transfer at the tail of the source bank.
LEMMA HandleTransfer ==
    ASSUME NEW s \in Servers, NEW st \in ServerState, NEW u,
           u.ledger \in Ledger, u.entry \in Entry,
           u.entry.req.type = "TRANSFER"
    PROVE  Committed(u, handle_transfer(s, st, u))
PROOF
<1> DEFINE new == u.check = "NEWREQ"
           covered == u.entry.reply.outcome = "PROCESSED"
           l1 == IF new THEN insert_processed_list(u.ledger, <<u.entry>>)
                 ELSE u.ledger
           waiting == \E i \in DOMAIN l1.sent :
                           SameKey(l1.sent[i].req, u.entry.req)
           l2 == insert_sent_list(l1, u.entry)
           fwd == <<forward_transfer_to_downstream(s, st, u.entry)>>
           rep == <<reply_to_client(u.entry)>>
<1>1. l1 \in Ledger /\ l1.bal = u.ledger.bal
  <2>1. <<u.entry>> \in Seq(Entry)
    OBVIOUS
  <2>2. /\ insert_processed_list(u.ledger, <<u.entry>>) \in Ledger
        /\ insert_processed_list(u.ledger, <<u.entry>>).bal = u.ledger.bal
    BY <2>1, Filing
  <2> QED
    BY <2>2
<1>2. fwd \in Seq(ServerSend) /\ rep \in Seq(ServerSend)
  BY Sends, FewSends, Zenon
<1>3. handle_transfer(s, st, u) \in
        {[ledger |-> l2, out |-> fwd], [ledger |-> l1, out |-> rep],
         [ledger |-> l1, out |-> <<>>]}
  <2> HIDE DEF fwd, rep, l2, l1
  <2>1. handle_transfer(s, st, u) =
            CASE new /\ covered -> [ledger |-> l2, out |-> fwd]
              [] ~covered \/ (~new /\ ~waiting) -> [ledger |-> l1, out |-> rep]
              [] OTHER -> [ledger |-> l1, out |-> <<>>]
    BY DEF handle_transfer, fwd, rep, l2, l1
  <2> QED
    BY <2>1
<1> HIDE DEF l1
<1>4. l2 \in Ledger /\ l2.bal = u.ledger.bal
  BY <1>1, Filing
<1> HIDE DEF l2, fwd, rep
<1>5. /\ Committed(u, [ledger |-> l2, out |-> fwd])
      /\ Committed(u, [ledger |-> l1, out |-> rep])
      /\ Committed(u, [ledger |-> l1, out |-> <<>>])
  BY <1>1, <1>2, <1>4, CommittedOf, FewSends
<1> QED
  BY <1>3, <1>5

\* Any other update at the tail.
LEMMA CommitUpdate ==
    ASSUME NEW s \in Servers, NEW st \in ServerState, NEW u,
           u.ledger \in Ledger, u.entry \in Entry
    PROVE  Committed(u, commit_update(st, u))
PROOF
<1> DEFINE l1 == IF u.check = "NEWREQ"
                 THEN insert_processed_list(u.ledger, <<u.entry>>)
                 ELSE u.ledger
           l2 == IF st.extending_chain THEN insert_sent_list(l1, u.entry) ELSE l1
           rep == <<reply_to_client(u.entry)>>
<1>1. l1 \in Ledger /\ l1.bal = u.ledger.bal
  <2>1. <<u.entry>> \in Seq(Entry)
    OBVIOUS
  <2>2. /\ insert_processed_list(u.ledger, <<u.entry>>) \in Ledger
        /\ insert_processed_list(u.ledger, <<u.entry>>).bal = u.ledger.bal
    BY <2>1, Filing
  <2> QED
    BY <2>2
<1>2. rep \in Seq(ServerSend)
  BY Sends, FewSends, Zenon
<1>3. commit_update(st, u) = [ledger |-> l2, out |-> rep]
  BY DEF commit_update
<1> HIDE DEF l1
<1>4. l2 \in Ledger /\ l2.bal = u.ledger.bal
  <2>1. /\ insert_sent_list(l1, u.entry) \in Ledger
        /\ insert_sent_list(l1, u.entry).bal = l1.bal
    BY <1>1, Filing
  <2> QED
    BY <1>1, <2>1
<1> HIDE DEF l2, rep
<1> QED
  BY <1>2, <1>3, <1>4, CommittedOf

\* An update at the tail.
LEMMA TailHandleUpdate ==
    ASSUME NEW s \in Servers, NEW st \in ServerState, NEW req \in Request
    PROVE  Outcome(st, tail_handle_update(s, st, req))
PROOF
<1> DEFINE u == update_request_reply(st.ledger, req)
           c == IF req.type = "TRANSFER" THEN handle_transfer(s, st, u)
                ELSE commit_update(st, u)
           ack == IF ~st.ishead /\ c.ledger.sent = <<>>
                  THEN <<sendback_ack(st, req.seq)>> ELSE <<>>
           new == [st EXCEPT !.bank_update_seq = req.seq, !.ledger = c.ledger]
<1>1. st.ledger \in Ledger /\ req.seq \in Nat
  BY RequestFields DEF ServerState
<1>2. /\ u.ledger \in Ledger /\ u.entry \in Entry /\ u.entry.req = req
      /\ Solvent(st.ledger) => Solvent(u.ledger)
  BY <1>1, UpdateRequestReply
<1>3. tail_handle_update(s, st, req) = [st |-> new, out |-> c.out \o ack]
  BY DEF tail_handle_update
<1> HIDE DEF u
<1>4. Committed(u, c)
  BY <1>2, HandleTransfer, CommitUpdate
<1> HIDE DEF c
<1>5. /\ c.ledger \in Ledger /\ c.out \in Seq(ServerSend)
      /\ Solvent(u.ledger) => Solvent(c.ledger)
  BY <1>4, SameBalances DEF Committed
<1>6. ack \in Seq(ServerSend)
  <2>1. <<sendback_ack(st, req.seq)>> \in Seq(ServerSend)
    BY <1>1, Sends, FewSends, Zenon
  <2> QED
    BY <2>1, FewSends
<1> HIDE DEF ack
<1>7. c.out \o ack \in Seq(ServerSend)
  BY <1>5, <1>6, FewSends
<1>8. new \in ServerState /\ new.ledger = c.ledger
  BY <1>1, <1>5 DEF ServerState
<1> HIDE DEF new
<1> QED
  BY <1>2, <1>3, <1>5, <1>7, <1>8, OutcomeOf

\* A request, from a client or from the predecessor.
LEMMA ReceiveRequestOutcome ==
    ASSUME NEW s \in Servers, NEW st \in ServerState, NEW req \in Request
    PROVE  Outcome(st, receive_request(s, st, req))
PROOF
<1> DEFINE seq == IF st.ishead THEN st.bank_update_seq + 1 ELSE req.seq
           num == [req EXCEPT !.seq = seq]
<1>1. seq \in Nat
  BY RequestFields DEF ServerState
<1>2. num \in Request
  <2> HIDE DEF seq
  <2> QED
    BY <1>1, Numbered
<1>3. receive_request(s, st, req) \in
        {handle_query(st, req), [st |-> st, out |-> <<>>],
         [st |-> st, out |-> <<Abort("FIFO")>>],
         tail_handle_update(s, st, num), forward_handle_update(st, num)}
  <2> DEFINE r == IF st.istail THEN tail_handle_update(s, st, num)
                  ELSE forward_handle_update(st, num)
             drop == [st |-> st, out |-> <<>>]
             stop == [st |-> st, out |-> <<Abort("FIFO")>>]
  <2>1. receive_request(s, st, req) =
            CASE req.type = "QUERY" -> handle_query(st, req)
              [] req.type # "QUERY" /\ st.bank_update_seq >= seq -> drop
              [] req.type # "QUERY" /\ st.bank_update_seq < seq - 1 -> stop
              [] OTHER -> r
    BY DEF receive_request
  <2>2. r \in {tail_handle_update(s, st, num), forward_handle_update(st, num)}
    BY Zenon
  <2> HIDE DEF r, seq, drop, stop
  <2>3. receive_request(s, st, req) \in {handle_query(st, req), drop, stop, r}
    BY <2>1
  <2> QED
    BY <2>2, <2>3, Zenon DEF drop, stop
<1>4. Outcome(st, [st |-> st, out |-> <<>>])
  BY OutcomeOf, FewSends
<1>5. Outcome(st, [st |-> st, out |-> <<Abort("FIFO")>>])
  <2>1. <<Abort("FIFO")>> \in Seq(ServerSend)
    <3>1. "FIFO" \in Assertions
      BY DEF Assertions
    <3> QED
      BY <3>1, Sends, FewSends, Zenon
  <2> QED
    BY <2>1, OutcomeOf
<1> HIDE DEF num
<1> QED
  BY <1>2, <1>3, <1>4, <1>5, HandleQuery, TailHandleUpdate, ForwardHandleUpdate

\* A function on the domain of a sequence is a sequence.
LEMMA SameDomain ==
    ASSUME NEW S, NEW q \in Seq(S), NEW T, NEW f \in [DOMAIN q -> T]
    PROVE  f \in Seq(T)
PROOF
<1>1. DOMAIN q = 1 .. Len(q) /\ Len(q) \in Nat
  OBVIOUS
<1> QED
  BY <1>1

\* An acknowledgement.
LEMMA ReceiveAckOutcome ==
    ASSUME NEW s \in Servers, NEW st \in ServerState, NEW seq \in Nat
    PROVE  Outcome(st, receive_ack(st, seq))
PROOF
<1> DEFINE l == st.ledger
           n == AckedLength(l.sent, seq)
           k == insert_processed_list(l, SubSeq(l.sent, 1, n))
           rest == SubSeq(k.sent, n + 1, Len(l.sent))
           l2 == [k EXCEPT !.sent = rest]
           out == IF st.ishead THEN <<>> ELSE <<sendback_ack(st, seq)>>
           new == [st EXCEPT !.ledger = l2]
<1>1. l \in Ledger /\ l.sent \in Seq(Entry)
  BY LedgerFields DEF ServerState
<1> HIDE DEF l
<1>2. n \in Nat /\ n <= Len(l.sent)
  <2>1. DOMAIN l.sent = 1 .. Len(l.sent) /\ Len(l.sent) \in Nat
    BY <1>1
  <2>2. CASE \E i \in DOMAIN l.sent : FirstUnacked(l.sent, seq, i)
    <3> DEFINE c == CHOOSE i \in DOMAIN l.sent : FirstUnacked(l.sent, seq, i)
    <3>1. c \in DOMAIN l.sent
      BY <2>2, Zenon
    <3>2. n = c - 1
      BY <2>2 DEF AckedLength
    <3> HIDE DEF c, n
    <3> QED
      BY <2>1, <3>1, <3>2
  <2>3. CASE ~\E i \in DOMAIN l.sent : FirstUnacked(l.sent, seq, i)
    BY <2>1, <2>3 DEF AckedLength
  <2> QED
    BY <2>2, <2>3
<1> HIDE DEF n
<1>3. SubSeq(l.sent, 1, n) \in Seq(Entry)
  BY <1>1, <1>2
<1>4. k \in Ledger /\ k.bal = l.bal /\ k.sent = l.sent
  BY <1>1, <1>3, Filing
<1> HIDE DEF k
<1>5. rest \in Seq(Entry)
  BY <1>1, <1>2, <1>4
<1>6. receive_ack(st, seq) = [st |-> new, out |-> out]
  BY DEF receive_ack, l, n, k
<1> HIDE DEF rest
<1>7. l2 \in Ledger /\ l2.bal = l.bal
  BY <1>4, <1>5, Filing
<1>8. Solvent(l) => Solvent(l2)
  BY <1>7, SameBalances
<1> HIDE DEF l2
<1>9. new \in ServerState /\ new.ledger = l2
  BY <1>7, NewLedger
<1>10. out \in Seq(ServerSend)
  <2>1. <<sendback_ack(st, seq)>> \in Seq(ServerSend)
    BY Sends, FewSends, Zenon
  <2> QED
    BY <2>1, FewSends
<1> HIDE DEF new, out
<1> QED
  BY <1>6, <1>8, <1>9, <1>10, OutcomeOf DEF l

\* The order to become head.
LEMMA ToBeHeadOutcome ==
    ASSUME NEW st \in ServerState
    PROVE  Outcome(st, to_be_head(st))
PROOF
<1> DEFINE new == [st EXCEPT !.ishead = TRUE]
<1>1. new \in ServerState /\ new.ledger = st.ledger
  BY DEF ServerState
<1>2. to_be_head(st) = [st |-> new, out |-> <<>>]
  BY DEF to_be_head
<1> HIDE DEF new
<1> QED
  BY <1>1, <1>2, OutcomeOf, FewSends

\* A sent list of transfers can be forwarded to the destination banks.
LEMMA ForwardAll ==
    ASSUME NEW s \in Servers, NEW st \in ServerState, NEW q \in Seq(Entry),
           \A i \in DOMAIN q : q[i].req.type = "TRANSFER"
    PROVE  [i \in DOMAIN q |-> forward_transfer_to_downstream(s, st, q[i])]
                \in Seq(ServerSend)
PROOF
<1> DEFINE f == [i \in DOMAIN q |-> forward_transfer_to_downstream(s, st, q[i])]
<1>1. \A i \in DOMAIN q : q[i] \in Entry
  OBVIOUS
<1>2. \A i \in DOMAIN q :
        forward_transfer_to_downstream(s, st, q[i]) \in ServerSend
  BY <1>1, Sends, Zenon
<1>3. f \in [DOMAIN q -> ServerSend]
  BY <1>2, Zenon
<1> HIDE DEF f
<1>4. f \in Seq(ServerSend)
  BY <1>3, SameDomain
<1> QED
  BY <1>4 DEF f

\* The order to become tail: what is forwarded is the transfers that are left
\* in the sent list.
LEMMA ToBeTailOutcome ==
    ASSUME NEW s \in Servers, NEW st \in ServerState
    PROVE  Outcome(st, to_be_tail(s, st))
PROOF
<1> DEFINE l == st.ledger
           T == {i \in DOMAIN l.sent : l.sent[i].req.type = "TRANSFER"}
           left == Pick(l.sent, T)
           filed == Pick(l.sent, DOMAIN l.sent \ T)
           p == insert_processed_list(l, filed)
           k == [p EXCEPT !.sent = left]
           new == [st EXCEPT !.istail = TRUE, !.ledger = k]
           fwd == [i \in DOMAIN k.sent |->
                        forward_transfer_to_downstream(s, st, k.sent[i])]
           ack == <<sendback_ack(st, st.bank_update_seq)>>
           out == IF k.sent # <<>> THEN fwd
                  ELSE IF st.ishead THEN <<>> ELSE ack
<1>1. /\ l \in Ledger /\ l.sent \in Seq(Entry)
      /\ st.bank_update_seq \in Nat
  BY LedgerFields DEF ServerState
<1>2. T \in SUBSET DOMAIN l.sent /\ DOMAIN l.sent \ T \in SUBSET DOMAIN l.sent
  OBVIOUS
<1>3. /\ left \in Seq(Entry)
      /\ \A i \in DOMAIN left : \E j \in T : left[i] = l.sent[j]
      /\ filed \in Seq(Entry)
  <2> HIDE DEF l, T
  <2> QED
    BY <1>1, <1>2, PickType
<1>4. \A i \in DOMAIN left : left[i].req.type = "TRANSFER"
  <2> HIDE DEF l, left
  <2> QED
    BY <1>3, Zenon
<1>5. to_be_tail(s, st) = [st |-> new, out |-> out]
  BY DEF to_be_tail
<1> HIDE DEF l, T, left, filed
<1>6. p \in Ledger /\ p.bal = l.bal
  BY <1>1, <1>3, Filing
<1> HIDE DEF p
<1>7. k \in Ledger /\ k.bal = l.bal /\ k.sent = left
  BY <1>3, <1>6, Filing
<1>8. Solvent(l) => Solvent(k)
  BY <1>7, SameBalances
<1> HIDE DEF k
<1>9. new \in ServerState /\ new.ledger = k
  BY <1>7 DEF ServerState
<1>10. fwd \in Seq(ServerSend)
  BY <1>3, <1>4, <1>7, ForwardAll
<1>11. ack \in Seq(ServerSend)
  BY <1>1, Sends, FewSends, Zenon
<1>12. out \in Seq(ServerSend)
  <2> HIDE DEF fwd, ack
  <2> QED
    BY <1>10, <1>11, FewSends
<1> HIDE DEF new, out
<1> QED
  BY <1>5, <1>8, <1>9, <1>12, OutcomeOf DEF l

\* A new predecessor: the master is told which update came last.
LEMMA NewPreServerOutcome ==
    ASSUME NEW s \in Servers, NEW st \in ServerState, NEW addr \in Servers
    PROVE  Outcome(st, receive_new_preserver(s, st, addr))
PROOF
<1> DEFINE new == [st EXCEPT !.pre = addr]
           m == [type |-> "REQ_SEQ", seq |-> st.bank_update_seq,
                 pre |-> addr, succ |-> s]
<1>1. new \in ServerState /\ new.ledger = st.ledger
  BY DEF ServerState
<1>2. m \in Message /\ m.type = "REQ_SEQ"
  <2>1. st.bank_update_seq \in Nat
    BY DEF ServerState
  <2>2. m \in Message
    BY <2>1, MessageTypes, Zenon
  <2> QED
    BY <2>2
<1>3. receive_new_preserver(s, st, addr) =
        [st |-> new, out |-> <<Send(Master, m)>>]
  BY DEF receive_new_preserver
<1> HIDE DEF new, m
<1>4. Send(Master, m) \in ServerSend
  BY <1>2, SendType DEF Addresses
<1>5. <<Send(Master, m)>> \in Seq(ServerSend)
  BY <1>4, FewSends, Zenon
<1> QED
  BY <1>1, <1>3, <1>5, OutcomeOf

\* A new successor is sent what it has not seen.
LEMMA NewSuccServerOutcome ==
    ASSUME NEW s \in Servers, NEW st \in ServerState, NEW m,
           m.succ \in Servers
    PROVE  Outcome(st, receive_new_succserver(st, m))
PROOF
<1> DEFINE new  == [st EXCEPT !.succ = m.succ]
           sent == st.ledger.sent
           more == Pick(sent, {i \in DOMAIN sent : sent[i].req.seq > m.seq})
           out  == [i \in DOMAIN more |-> forward_request(new, more[i])]
<1>1. new \in ServerState /\ new.ledger = st.ledger /\ st.ledger \in Ledger
  BY DEF ServerState
<1>2. sent \in Seq(Entry)
  BY <1>1, LedgerFields
<1>3. receive_new_succserver(st, m) = [st |-> new, out |-> out]
  BY DEF receive_new_succserver
<1> HIDE DEF new, sent
<1>4. more \in Seq(Entry)
  BY <1>2, PickType
<1> HIDE DEF more
<1>5. \A i \in DOMAIN more : more[i] \in Entry
  BY <1>4
<1>6. out \in [DOMAIN more -> ServerSend]
  BY <1>1, <1>5, Sends, Zenon
<1> HIDE DEF out
<1>7. out \in Seq(ServerSend)
  BY <1>4, <1>6, SameDomain
<1> QED
  BY <1>1, <1>3, <1>7, OutcomeOf

\* The answer of a destination bank.
LEMMA TransferReplyOutcome ==
    ASSUME NEW s \in Servers, NEW st \in ServerState, NEW reply
    PROVE  Outcome(st, receive_transfer_reply(st, reply))
PROOF
<1> DEFINE sent == st.ledger.sent
           M    == {i \in DOMAIN sent : /\ sent[i].req.id = reply.id
                                        /\ sent[i].req.dacct = reply.acct}
           kept == Pick(sent, DOMAIN sent \ M)
           done == Pick(sent, M)
           new  == [st EXCEPT !.ledger.sent = kept]
           told == [i \in DOMAIN done |-> reply_to_client(done[i])]
           ack  == IF done # <<>> /\ kept = <<>> /\ ~st.ishead
                   THEN <<sendback_ack(st, st.bank_update_seq)>> ELSE <<>>
<1>1. st.ledger \in Ledger /\ st.bank_update_seq \in Nat
  BY DEF ServerState
<1>2. sent \in Seq(Entry)
  BY <1>1, LedgerFields
<1>3. M \in SUBSET DOMAIN sent /\ DOMAIN sent \ M \in SUBSET DOMAIN sent
  OBVIOUS
<1>4. reply.outcome # "PROCESSED" =>
        receive_transfer_reply(st, reply) =
            [st |-> st, out |-> <<Abort("transfer processed")>>]
  BY DEF receive_transfer_reply
<1>5. reply.outcome = "PROCESSED" =>
        receive_transfer_reply(st, reply) = [st |-> new, out |-> told \o ack]
  BY DEF receive_transfer_reply
<1> HIDE DEF sent, M
<1>6. kept \in Seq(Entry) /\ done \in Seq(Entry)
  BY <1>2, <1>3, PickType
<1> HIDE DEF kept, done
<1>7. new \in ServerState /\ new.ledger.bal = st.ledger.bal
  BY <1>6 DEF ServerState, Ledger
<1>8. told \in Seq(ServerSend)
  <2>1. \A i \in DOMAIN done : done[i] \in Entry
    BY <1>6
  <2>2. told \in [DOMAIN done -> ServerSend]
    BY <2>1, Sends, Zenon
  <2> HIDE DEF told
  <2> QED
    BY <1>6, <2>2, SameDomain
<1>9. ack \in Seq(ServerSend)
  <2>1. <<sendback_ack(st, st.bank_update_seq)>> \in Seq(ServerSend)
    BY <1>1, Sends, FewSends, Zenon
  <2> QED
    BY <2>1, FewSends
<1>10. <<Abort("transfer processed")>> \in Seq(ServerSend)
  <2>1. "transfer processed" \in Assertions
    BY DEF Assertions
  <2> QED
    BY <2>1, Sends, FewSends, Zenon
<1>11. Solvent(st.ledger) => Solvent(new.ledger)
  BY <1>7, SameBalances
<1> HIDE DEF new, told, ack
<1>12. told \o ack \in Seq(ServerSend)
  BY <1>8, <1>9, FewSends
<1> QED
  BY <1>4, <1>5, <1>7, <1>10, <1>11, <1>12, OutcomeOf

\* A bank has a new head.
LEMMA NewHeadOutcome ==
    ASSUME NEW s \in Servers, NEW st \in ServerState, NEW m,
           m.bank \in Banks, m.server \in Servers
    PROVE  Outcome(st, handle_new_head(s, st, m))
PROOF
<1> DEFINE new  == [st EXCEPT !.heads[m.bank] = m.server]
           sent == st.ledger.sent
           ok   == {i \in DOMAIN sent :
                        \A j \in 1 .. i : sent[j].req.type = "TRANSFER"}
           K    == {i \in ok : sent[i].req.dbank = m.bank}
           mine == Pick(sent, K)
           fwd  == [i \in DOMAIN mine |->
                        forward_transfer_to_downstream(s, new, mine[i])]
           stop == IF ok = DOMAIN sent THEN <<>> ELSE <<Abort("transfers only")>>
           out  == IF ~st.istail THEN <<>> ELSE fwd \o stop
<1>1. new \in ServerState /\ new.ledger = st.ledger /\ st.ledger \in Ledger
  BY DEF ServerState
<1>2. sent \in Seq(Entry)
  BY <1>1, LedgerFields
<1>3. handle_new_head(s, st, m) = [st |-> new, out |-> out]
  BY DEF handle_new_head
<1> HIDE DEF new, sent
<1>4. K \in SUBSET DOMAIN sent /\ \A i \in K : sent[i].req.type = "TRANSFER"
  <2>1. \A i \in DOMAIN sent : i \in 1 .. i
    BY <1>2
  <2> QED
    BY <2>1
<1> HIDE DEF K, ok
<1>5. /\ mine \in Seq(Entry)
      /\ \A i \in DOMAIN mine : \E j \in K : mine[i] = sent[j]
  BY <1>2, <1>4, PickType
<1> HIDE DEF mine
<1>6. \A i \in DOMAIN mine : mine[i].req.type = "TRANSFER"
  BY <1>4, <1>5, Zenon
<1>7. fwd \in Seq(ServerSend)
  BY <1>1, <1>5, <1>6, ForwardAll
<1>8. stop \in Seq(ServerSend)
  <2>1. "transfers only" \in Assertions
    BY DEF Assertions
  <2>2. <<Abort("transfers only")>> \in Seq(ServerSend)
    BY <2>1, Sends, FewSends, Zenon
  <2> QED
    BY <2>2, FewSends
<1>9. out \in Seq(ServerSend)
  <2> HIDE DEF fwd, stop
  <2>1. fwd \o stop \in Seq(ServerSend)
    BY <1>7, <1>8, FewSends
  <2> QED
    BY <2>1, FewSends
<1> HIDE DEF out
<1> QED
  BY <1>1, <1>3, <1>9, OutcomeOf

-----------------------------------------------------------------------------
(* Roles: only to_be_head and to_be_tail change them.                      *)

KeepsRoles(st, res) ==
    res.st.ishead = st.ishead /\ res.st.istail = st.istail

\* Handling a request leaves the role of the server alone.
LEMMA RequestKeepsRoles ==
    ASSUME NEW s, NEW st \in ServerState, NEW req
    PROVE  KeepsRoles(st, receive_request(s, st, req))
PROOF
<1>1. \A n, l : LET new == [st EXCEPT !.bank_update_seq = n, !.ledger = l]
                IN  new.ishead = st.ishead /\ new.istail = st.istail
  BY DEF ServerState
<1>2. \A l : LET new == [st EXCEPT !.ledger = l]
             IN  new.ishead = st.ishead /\ new.istail = st.istail
  BY DEF ServerState
<1>3. KeepsRoles(st, handle_query(st, req))
  BY <1>2 DEF handle_query, KeepsRoles
<1>4. \A r : KeepsRoles(st, forward_handle_update(st, r))
  BY <1>1 DEF forward_handle_update, KeepsRoles
<1>5. ASSUME NEW r PROVE KeepsRoles(st, tail_handle_update(s, st, r))
  <2> DEFINE u == update_request_reply(st.ledger, r)
             c == IF r.type = "TRANSFER" THEN handle_transfer(s, st, u)
                  ELSE commit_update(st, u)
             ack == IF ~st.ishead /\ c.ledger.sent = <<>>
                    THEN <<sendback_ack(st, r.seq)>> ELSE <<>>
             new == [st EXCEPT !.bank_update_seq = r.seq, !.ledger = c.ledger]
  <2>1. tail_handle_update(s, st, r) = [st |-> new, out |-> c.out \o ack]
    BY DEF tail_handle_update
  <2> HIDE DEF u, c, ack
  <2>2. new.ishead = st.ishead /\ new.istail = st.istail
    BY <1>1
  <2> HIDE DEF new
  <2> QED
    BY <2>1, <2>2 DEF KeepsRoles
<1>6. \A out : KeepsRoles(st, [st |-> st, out |-> out])
  BY DEF KeepsRoles
<1> QED
  BY <1>3, <1>4, <1>5, <1>6 DEF receive_request

\* So does every other handler but two.
LEMMA OthersKeepRoles ==
    ASSUME NEW s, NEW st \in ServerState, NEW m
    PROVE  /\ KeepsRoles(st, receive_ack(st, m))
           /\ KeepsRoles(st, receive_new_preserver(s, st, m))
           /\ KeepsRoles(st, receive_new_succserver(st, m))
           /\ KeepsRoles(st, receive_transfer_reply(st, m))
           /\ KeepsRoles(st, handle_new_head(s, st, m))
PROOF
<1>1. KeepsRoles(st, receive_ack(st, m))
  BY DEF receive_ack, KeepsRoles, ServerState
<1>2. KeepsRoles(st, receive_new_preserver(s, st, m))
  BY DEF receive_new_preserver, KeepsRoles, ServerState
<1>3. KeepsRoles(st, receive_new_succserver(st, m))
  BY DEF receive_new_succserver, KeepsRoles, ServerState
<1>4. KeepsRoles(st, receive_transfer_reply(st, m))
  BY DEF receive_transfer_reply, KeepsRoles, ServerState
<1>5. KeepsRoles(st, handle_new_head(s, st, m))
  BY DEF handle_new_head, KeepsRoles, ServerState
<1> QED
  BY <1>1, <1>2, <1>3, <1>4, <1>5

\* The two that change a role change one only.
LEMMA RoleChanges ==
    ASSUME NEW s, NEW st \in ServerState
    PROVE  /\ to_be_head(st).st.istail = st.istail
           /\ to_be_tail(s, st).st.ishead = st.ishead
PROOF
<1>1. to_be_head(st).st.istail = st.istail
  BY DEF to_be_head, ServerState
<1>2. to_be_tail(s, st).st.ishead = st.ishead
  BY DEF to_be_tail, ServerState
<1> QED
  BY <1>1, <1>2
=============================================================================
