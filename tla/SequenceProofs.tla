--------------------------- MODULE SequenceProofs ---------------------------
(***************************************************************************)
(* The numbers of the updates, and what the handlers of a server do to     *)
(* them.  Along a living chain the numbers only fall, every update that a  *)
(* server has and a later one lacks waits in its sent_list_, and nobody is *)
(* told of an update, by a reply or by an acknowledgement, that a living   *)
(* server of the bank lacks.                                               *)
(*                                                                         *)
(* Each part of the invariant is a statement "every living server at some  *)
(* place of a chain has applied at least n updates" or "no living server   *)
(* is between these two".  Servers crash and apply updates, and do not     *)
(* come back or forget, so a step keeps whatever was true of the messages  *)
(* under way; only what a handler sends anew is to be examined.            *)
(***************************************************************************)
EXTENDS ChainProofs

SameBank(s, t) == BankOf[s] = BankOf[t]

\* Server t comes after u in their chain, with nobody alive between them.
Follows(u, t) ==
    /\ t \in Servers /\ SameBank(u, t) /\ u < t
    /\ \A x \in alive : SameBank(x, u) => ~(u < x /\ x < t)

\* Every living server of the bank has applied update n.
Applied(b, n) ==
    \A x \in alive : BankOf[x] = b => n <= srv[x].bank_update_seq

\* Every living server before s has applied update n.
AppliedBefore(s, n) ==
    \A x \in alive : SameBank(x, s) /\ x < s => n <= srv[x].bank_update_seq

ActsAsTail(x) == x \in alive => srv[x].istail

\* A request that server s may hold or be sent: an update of its bank, or a
\* transfer that a tail forwards.
Sound(s, r) ==
    /\ r.type # "QUERY"
    /\ r.type # "TRANSFER_TO" => r.bank = BankOf[s]
    /\ r.type = "TRANSFER_TO" => ActsAsTail(r.from)

\* The new neighbours that the master brings together.
GoodLink(m) ==
    /\ Follows(m.pre, m.succ)
    /\ m.succ \in alive => m.seq <= srv[m.succ].bank_update_seq

\* What is true of a message under way to o.to.
Good(o) ==
    LET m == o.msg
    IN  /\ m.type = "REQUEST" /\ o.to \in Servers =>
                Sound(o.to, m.req) /\ AppliedBefore(o.to, m.req.seq)
        /\ m.type = "REPLY" => ActsAsTail(o.to)
        /\ m.type = "CLIENT_REPLY" => Applied(m.entry.req.bank, m.entry.req.seq)
        /\ m.type = "ACKNOWLEDGE" /\ o.to \in Servers =>
                Applied(BankOf[o.to], m.seq)
        /\ m.type = "NEW_PRE_SERVER" => Follows(m.addr, o.to)
        /\ m.type = "REQ_SEQ" => GoodLink(m)
        /\ m.type = "NEW_SUCC_SERVER" => GoodLink(m) /\ o.to = m.pre

\* A query is answered, and all assertions but one fail, in the first send of a
\* handler.
Deferrable(o) ==
    /\ o.msg.type = "ABORT" => o.msg.which = "transfers only"
    /\ o.msg.type = "CLIENT_REPLY" => o.msg.entry.req.type # "QUERY"

GoodInboxes ==
    \A p \in Processes : \A i \in DOMAIN tcp[p] : Good(Send(p, tcp[p][i]))

GoodSends ==
    \A p \in Processes : \A i \in DOMAIN sending[p] :
        Good(sending[p][i]) /\ Deferrable(sending[p][i])

GoodReplies == \A e \in replies : Applied(e.req.bank, e.req.seq)

\* The sent list holds the updates up to n without a gap.
Run(sent, n) == \A i \in DOMAIN sent : sent[i].req.seq = n - Len(sent) + i

\* Every living server after s has applied update n.
AppliedAfter(s, n) ==
    \A x \in alive : SameBank(x, s) /\ s < x => n <= srv[x].bank_update_seq

\* The state st is a good one for server s.
GoodState(s, st) ==
    LET n    == st.bank_update_seq
        sent == st.ledger.sent
    IN  /\ st.succ # Nobody => Follows(s, st.succ)
        /\ st.pre # Nobody => SameBank(st.pre, s)
        /\ \A i \in DOMAIN sent : Sound(s, sent[i].req) /\ sent[i].req.seq <= n
        /\ ~st.istail => Run(sent, n) /\ AppliedAfter(s, n - Len(sent))

GoodServers == \A s \in alive : GoodState(s, srv[s])

Descends == \A s \in alive : AppliedBefore(s, srv[s].bank_update_seq)

SeqInv ==
    GoodInboxes /\ GoodSends /\ GoodReplies /\ GoodServers /\ Descends

-----------------------------------------------------------------------------
(* What a step keeps.                                                      *)

\* Nobody comes back, forgets an update or stops being tail.
Grows ==
    /\ alive' \in SUBSET alive
    /\ \A x \in alive' :
            /\ srv[x].bank_update_seq <= srv'[x].bank_update_seq
            /\ srv[x].istail => srv'[x].istail

\* The fields of a server, in any state of the system.
LEMMA ServerFields ==
    ASSUME NEW S \in [Servers -> ServerState], NEW x \in Servers
    PROVE  /\ x \in Int /\ BankOf[x] \in Banks
           /\ S[x] \in ServerState
           /\ S[x].bank_update_seq \in Nat
           /\ S[x].istail \in BOOLEAN /\ S[x].ishead \in BOOLEAN
           /\ S[x].ledger \in Ledger /\ S[x].ledger.sent \in Seq(Entry)
           /\ S[x].pre \in Servers \cup {Nobody}
           /\ S[x].succ \in Servers \cup {Nobody}
PROOF
<1>1. x \in Int /\ BankOf[x] \in Banks /\ S[x] \in ServerState
  BY BankAssumption, ChainAssumption DEF Servers
<1> QED
  BY <1>1, LedgerFields DEF ServerState

\* What has been applied, and who follows whom, stays so.
LEMMA GrowsKeeps ==
    ASSUME TypeOK, TypeOK', Grows
    PROVE  /\ \A b, n : n \in Int /\ Applied(b, n) => Applied(b, n)'
           /\ \A s, n : n \in Int /\ AppliedBefore(s, n) => AppliedBefore(s, n)'
           /\ \A s, n : n \in Int /\ AppliedAfter(s, n) => AppliedAfter(s, n)'
           /\ \A u, t : Follows(u, t) => Follows(u, t)'
           /\ \A x : ActsAsTail(x) => ActsAsTail(x)'
           /\ \A s, r : Sound(s, r) => Sound(s, r)'
PROOF
<1>1. \A x \in alive' : /\ x \in alive
                        /\ srv[x].bank_update_seq \in Nat
                        /\ srv'[x].bank_update_seq \in Nat
                        /\ srv[x].bank_update_seq <= srv'[x].bank_update_seq
                        /\ srv[x].istail => srv'[x].istail
  <2>1. /\ alive' \in SUBSET alive /\ alive \in SUBSET Servers
        /\ srv \in [Servers -> ServerState] /\ srv' \in [Servers -> ServerState]
    BY DEF TypeOK, Grows
  <2> QED
    BY <2>1, ServerFields DEF Grows
<1>2. \A x \in alive', n \in Int : n <= srv[x].bank_update_seq =>
            n <= srv'[x].bank_update_seq
  BY <1>1
<1>3. \A u, t : Follows(u, t) => Follows(u, t)'
  BY <1>1 DEF Follows, SameBank
<1>4. \A x : ActsAsTail(x) => ActsAsTail(x)'
  BY <1>1 DEF ActsAsTail
<1>5. \A s, r : Sound(s, r) => Sound(s, r)'
  BY <1>4 DEF Sound
<1> QED
  BY <1>1, <1>2, <1>3, <1>4, <1>5
  DEF Applied, AppliedBefore, AppliedAfter, SameBank

\* A good message stays good.
LEMMA GrowsGood ==
    ASSUME TypeOK, TypeOK', Grows, NEW o, o.msg \in Message, Good(o)
    PROVE  Good(o)'
PROOF
<1> DEFINE m == o.msg
<1>1. /\ m.type = "REQUEST" => m.req.seq \in Int
      /\ m.type = "CLIENT_REPLY" => m.entry.req.seq \in Int
      /\ m.type = "ACKNOWLEDGE" => m.seq \in Int
      /\ m.type \in {"REQ_SEQ", "NEW_SUCC_SERVER"} => m.seq \in Int
  BY MessageFields, RequestFields DEF Entry
<1>2. m.seq \in Int /\ GoodLink(m) => GoodLink(m)'
  <2> SUFFICES ASSUME m.seq \in Int, GoodLink(m), m.succ \in alive'
               PROVE  m.seq <= srv'[m.succ].bank_update_seq
    BY GrowsKeeps DEF GoodLink
  <2>1. m.succ \in alive /\ m.seq <= srv[m.succ].bank_update_seq
    BY DEF Grows, GoodLink
  <2>2. /\ srv[m.succ].bank_update_seq \in Nat
        /\ srv'[m.succ].bank_update_seq \in Nat
    BY <2>1, ServerFields DEF TypeOK
  <2> QED
    BY <2>1, <2>2 DEF Grows
<1> HIDE DEF m
<1> QED
  BY <1>1, <1>2, GrowsKeeps DEF Good, m

-----------------------------------------------------------------------------
(* What a handler does.                                                    *)

\* The sends of server s when its handler leaves it in state new.
Says(s, new, o) ==
    LET m == o.msg
        n == new.bank_update_seq
    IN  /\ m.type = "REQUEST" =>
                \/ /\ o.to = new.succ
                   /\ Sound(s, m.req) /\ m.req.seq <= n
                \/ /\ m.req.type = "TRANSFER_TO" /\ m.req.seq = 0
                   /\ m.req.from = s /\ new.istail
        /\ m.type = "REPLY" => ActsAsTail(o.to)
        /\ m.type = "CLIENT_REPLY" =>
                /\ new.istail
                /\ m.entry.req.bank = BankOf[s] /\ m.entry.req.seq <= n
        /\ m.type = "ACKNOWLEDGE" =>
                /\ o.to = new.pre
                /\ (new.istail /\ m.seq <= n) \/ Applied(BankOf[s], m.seq)
        /\ m.type = "REQ_SEQ" => m.succ = s /\ Follows(m.pre, s) /\ m.seq <= n
        /\ m.type \notin {"NEW_PRE_SERVER", "NEW_SUCC_SERVER"}

\* The answer to a query reflects the updates that its server has applied.
FreshRead(s, o) ==
    (o.msg.type = "CLIENT_REPLY" /\ o.msg.entry.req.type = "QUERY") =>
        /\ o.msg.entry.req.bank = BankOf[s]
        /\ o.msg.entry.req.seq = srv[s].bank_update_seq

\* Server s applies at most one more update, which all before it have.
Advances(s, new) ==
    /\ srv[s].istail => new.istail
    /\ \/ new.bank_update_seq = srv[s].bank_update_seq
       \/ /\ new.bank_update_seq = srv[s].bank_update_seq + 1
          /\ AppliedBefore(s, new.bank_update_seq)

Effect(s, res) ==
    /\ Advances(s, res.st)
    /\ GoodState(s, res.st)
    /\ \A i \in DOMAIN res.out :
            /\ Says(s, res.st, res.out[i]) \/ Good(res.out[i])
            /\ i # 1 => Deferrable(res.out[i])
            /\ FreshRead(s, res.out[i])

\* The state of a server before a step.
LEMMA StateBefore ==
    ASSUME TypeOK, SeqInv, NEW s \in alive
    PROVE  /\ s \in Servers /\ GoodState(s, srv[s]) /\ Advances(s, srv[s])
           /\ srv \in [Servers -> ServerState] /\ srv[s] \in ServerState
           /\ srv[s].ledger \in Ledger /\ srv[s].ledger.sent \in Seq(Entry)
           /\ srv[s].bank_update_seq \in Nat
PROOF
<1>1. s \in Servers /\ srv \in [Servers -> ServerState]
  BY DEF TypeOK
<1> QED
  BY <1>1, ServerFields DEF SeqInv, GoodServers, Advances

\* The entries of a sent list.
LEMMA SentFields ==
    ASSUME NEW q \in Seq(Entry), NEW i \in DOMAIN q
    PROVE  /\ i \in Nat /\ i >= 1 /\ i <= Len(q)
           /\ q[i] \in Entry /\ q[i].req \in Request /\ q[i].req.seq \in Nat
PROOF
<1>1. q[i] \in Entry /\ i \in 1 .. Len(q) /\ Len(q) \in Nat
  OBVIOUS
<1>2. q[i].req \in Request
  BY <1>1 DEF Entry
<1> QED
  BY <1>1, <1>2, RequestFields

\* Effects of handlers that make no send, or only one.
LEMMA SilentEffect ==
    ASSUME NEW s, NEW new, Advances(s, new), GoodState(s, new)
    PROVE  Effect(s, [st |-> new, out |-> <<>>])
PROOF
  BY DEF Effect

LEMMA OneSendEffect ==
    ASSUME NEW s, NEW new, Advances(s, new), GoodState(s, new), NEW o,
           Says(s, new, o) \/ Good(o), FreshRead(s, o)
    PROVE  Effect(s, [st |-> new, out |-> <<o>>])
PROOF
<1> DEFINE out == <<o>>
<1>1. \A i \in DOMAIN out : i = 1 /\ out[i] = o
  OBVIOUS
<1> HIDE DEF out
<1>2. Effect(s, [st |-> new, out |-> out])
  BY <1>1 DEF Effect
<1> QED
  BY <1>2 DEF out

\* A failed assertion says nothing.
LEMMA AbortSays ==
    ASSUME NEW s, NEW new, NEW which
    PROVE  Says(s, new, Abort(which)) /\ FreshRead(s, Abort(which))
PROOF
<1>1. Abort(which).msg.type = "ABORT"
  BY DEF Abort, Send
<1> QED
  BY <1>1 DEF Says, FreshRead

\* A ledger with the same sent list, or with other accounts, is as good.
LEMMA SameSent ==
    ASSUME TypeOK, SeqInv, NEW s \in alive, NEW l \in Ledger,
           l.sent = srv[s].ledger.sent
    PROVE  LET new == [srv[s] EXCEPT !.ledger = l]
           IN  Advances(s, new) /\ GoodState(s, new)
PROOF
<1> DEFINE st == srv[s]
           new == [st EXCEPT !.ledger = l]
<1>1. st \in ServerState /\ GoodState(s, st)
  BY StateBefore
<1>2. /\ new.succ = st.succ /\ new.pre = st.pre /\ new.istail = st.istail
      /\ new.bank_update_seq = st.bank_update_seq
      /\ new.ledger.sent = st.ledger.sent
  BY <1>1 DEF ServerState
<1>3. GoodState(s, new)
  <2> HIDE DEF new
  <2> QED
    BY <1>1, <1>2 DEF GoodState
<1> HIDE DEF new
<1>4. Advances(s, new)
  BY <1>2 DEF Advances
<1> QED
  BY <1>3, <1>4 DEF new

\* A query: a tail answers it from what it has applied.
LEMMA QueryEffect ==
    ASSUME TypeOK, SeqInv, NEW s \in alive, NEW req \in Request,
           req.type = "QUERY", req.bank = BankOf[s]
    PROVE  Effect(s, handle_query(srv[s], req))
PROOF
<1> DEFINE st == srv[s]
           l == get_balance(st.ledger, req.acct)
           stamped == [req EXCEPT !.seq = st.bank_update_seq]
           e == [req   |-> stamped,
                 reply |-> [id |-> req.id, acct |-> req.acct,
                            outcome |-> "PROCESSED",
                            balance |-> l.bal[req.acct]]]
           new == [st EXCEPT !.ledger = l]
<1>1. /\ st \in ServerState /\ st.ledger \in Ledger
      /\ st.bank_update_seq \in Nat /\ req.acct \in Accounts
      /\ GoodState(s, st) /\ Advances(s, st)
  BY StateBefore, RequestFields
<1>2. l \in Ledger /\ l.sent = st.ledger.sent
  <2>1. l \in Ledger
    BY <1>1, Filing
  <2> QED
    BY <1>1, <2>1 DEF get_balance, Ledger
<1>3. stamped.type = "QUERY" /\ stamped.bank = BankOf[s]
      /\ stamped.seq = st.bank_update_seq
  BY <1>1 DEF Request, RequestRecord
<1>4. CASE st.istail
  <2>1. handle_query(st, req) =
            [st |-> new, out |-> <<Send(Client, [type |-> "CLIENT_REPLY",
                                                 entry |-> e])>>]
    BY <1>3, <1>4 DEF handle_query, reply_to_client
  <2>2. /\ new.istail /\ new.bank_update_seq = st.bank_update_seq
    BY <1>1, <1>4 DEF ServerState
  <2>3. Advances(s, new) /\ GoodState(s, new)
    BY <1>2, SameSent
  <2> HIDE DEF new, stamped
  <2> DEFINE o == Send(Client, [type |-> "CLIENT_REPLY", entry |-> e])
  <2>4. /\ o.msg.type = "CLIENT_REPLY"
        /\ o.msg.entry.req = stamped
    BY DEF Send
  <2> HIDE DEF o, e
  <2>5. Says(s, new, o) /\ FreshRead(s, o)
    BY <1>1, <1>3, <2>2, <2>4 DEF Says, FreshRead
  <2>6. Effect(s, [st |-> new, out |-> <<o>>])
    BY <2>3, <2>5, OneSendEffect
  <2> QED
    BY <2>1, <2>6 DEF o
<1>5. CASE ~st.istail
  <2>1. handle_query(st, req) = [st |-> st, out |-> <<Abort("query at tail")>>]
    BY <1>5 DEF handle_query
  <2>2. Effect(s, [st |-> st, out |-> <<Abort("query at tail")>>])
    BY <1>1, AbortSays, OneSendEffect, Zenon
  <2> QED
    BY <2>1, <2>2
<1> QED
  BY <1>4, <1>5

\* The sends of the handlers, one by one.
LEMMA SaysForward ==
    ASSUME NEW s, NEW st, NEW new, NEW e, new.succ = st.succ,
           Sound(s, e.req), e.req.seq <= new.bank_update_seq
    PROVE  LET o == forward_request(st, e)
           IN  Says(s, new, o) /\ Deferrable(o) /\ FreshRead(s, o)
PROOF
<1> DEFINE o == forward_request(st, e)
<1>1. o.to = new.succ /\ o.msg.type = "REQUEST" /\ o.msg.req = e.req
  BY DEF forward_request, Send
<1> HIDE DEF o
<1>2. Says(s, new, o) /\ Deferrable(o) /\ FreshRead(s, o)
  BY <1>1 DEF Says, Deferrable, FreshRead
<1> QED
  BY <1>2 DEF o

LEMMA SaysTransfer ==
    ASSUME NEW s \in Servers, NEW st, NEW new, NEW e \in Entry, new.istail
    PROVE  LET o == forward_transfer_to_downstream(s, st, e)
           IN  Says(s, new, o) /\ Deferrable(o) /\ FreshRead(s, o)
PROOF
<1> DEFINE r == transfer_to(s, e.req)
           o == forward_transfer_to_downstream(s, st, e)
<1>1. r.type = "TRANSFER_TO" /\ r.seq = 0 /\ r.from = s
  <2>1. e.req \in RequestRecord
    BY DEF Entry, Request
  <2> QED
    BY <2>1 DEF transfer_to, RequestRecord
<1>2. o.msg.type = "REQUEST" /\ o.msg.req = r
  BY DEF forward_transfer_to_downstream, Send
<1> HIDE DEF o, r
<1>3. Says(s, new, o) /\ Deferrable(o) /\ FreshRead(s, o)
  BY <1>1, <1>2 DEF Says, Deferrable, FreshRead
<1> QED
  BY <1>3 DEF o

LEMMA SaysReply ==
    ASSUME NEW s, NEW new, NEW e, new.istail,
           Sound(s, e.req), e.req.seq <= new.bank_update_seq
    PROVE  LET o == reply_to_client(e)
           IN  Says(s, new, o) /\ Deferrable(o) /\ FreshRead(s, o)
PROOF
<1> DEFINE o == reply_to_client(e)
<1>1. CASE e.req.type = "TRANSFER_TO"
  <2>1. o.to = e.req.from /\ o.msg.type = "REPLY"
    BY <1>1 DEF reply_to_client, Send
  <2> HIDE DEF o
  <2>2. Says(s, new, o) /\ Deferrable(o) /\ FreshRead(s, o)
    BY <1>1, <2>1 DEF Says, Deferrable, FreshRead, Sound
  <2> QED
    BY <2>2 DEF o
<1>2. CASE e.req.type # "TRANSFER_TO"
  <2>1. o.msg.type = "CLIENT_REPLY" /\ o.msg.entry = e
    BY <1>2 DEF reply_to_client, Send
  <2> HIDE DEF o
  <2>2. Says(s, new, o) /\ Deferrable(o) /\ FreshRead(s, o)
    BY <1>2, <2>1 DEF Says, Deferrable, FreshRead, Sound
  <2> QED
    BY <2>2 DEF o
<1> QED
  BY <1>1, <1>2

LEMMA SaysAck ==
    ASSUME NEW s, NEW st, NEW new, NEW n, new.pre = st.pre,
           (new.istail /\ n <= new.bank_update_seq) \/ Applied(BankOf[s], n)
    PROVE  LET o == sendback_ack(st, n)
           IN  Says(s, new, o) /\ Deferrable(o) /\ FreshRead(s, o)
PROOF
<1> DEFINE o == sendback_ack(st, n)
<1>1. o.to = new.pre /\ o.msg.type = "ACKNOWLEDGE" /\ o.msg.seq = n
  BY DEF sendback_ack, Send
<1> HIDE DEF o
<1>2. Says(s, new, o) /\ Deferrable(o) /\ FreshRead(s, o)
  BY <1>1 DEF Says, Deferrable, FreshRead
<1> QED
  BY <1>2 DEF o

\* Two sequences of such sends, one after the other.
LEMMA JoinedEffect ==
    ASSUME NEW s, NEW new, Advances(s, new), GoodState(s, new),
           NEW q \in Seq(ServerSend), NEW r \in Seq(ServerSend),
           \A i \in DOMAIN q : /\ Says(s, new, q[i])
                               /\ Deferrable(q[i]) /\ FreshRead(s, q[i]),
           \A i \in DOMAIN r : /\ Says(s, new, r[i])
                               /\ Deferrable(r[i]) /\ FreshRead(s, r[i])
    PROVE  Effect(s, [st |-> new, out |-> q \o r])
PROOF
<1> DEFINE out == q \o r
<1>1. \A i \in DOMAIN out : \/ i \in DOMAIN q /\ out[i] = q[i]
                            \/ i - Len(q) \in DOMAIN r /\ out[i] = r[i - Len(q)]
  OBVIOUS
<1>2. \A i \in DOMAIN out : /\ Says(s, new, out[i])
                            /\ Deferrable(out[i]) /\ FreshRead(s, out[i])
  <2> HIDE DEF out
  <2> QED
    BY <1>1
<1> HIDE DEF out
<1>3. Effect(s, [st |-> new, out |-> out])
  BY <1>2 DEF Effect
<1> QED
  BY <1>3 DEF out

\* Applying an update leaves the history alone.
LEMMA UpdateKeepsHistory ==
    ASSUME NEW l \in Ledger, NEW req \in Request
    PROVE  /\ update_request_reply(l, req).ledger.sent = l.sent
           /\ update_request_reply(l, req).ledger.processed = l.processed
PROOF
<1> DEFINE u == update_request_reply(l, req)
           bal == IF check_update_request(l, req) = "NEWREQ"
                  THEN update_balance(l, req) ELSE l.bal
<1>1. u.ledger = [l EXCEPT !.bal = bal, !.accts = @ \cup {req.acct}]
  BY DEF update_request_reply
<1> HIDE DEF u, bal
<1>2. u.ledger.sent = l.sent /\ u.ledger.processed = l.processed
  BY <1>1 DEF Ledger
<1> QED
  BY <1>2 DEF u

\* An update at a head or an internal server.
LEMMA ForwardEffect ==
    ASSUME TypeOK, SeqInv, NEW s \in alive, NEW req \in Request,
           Sound(s, req), req.seq = srv[s].bank_update_seq + 1,
           AppliedBefore(s, req.seq), ~srv[s].istail
    PROVE  Effect(s, forward_handle_update(srv[s], req))
PROOF
<1> DEFINE st == srv[s]
           u == update_request_reply(st.ledger, req)
           l == insert_sent_list(u.ledger, u.entry)
           new == [st EXCEPT !.bank_update_seq = req.seq, !.ledger = l]
           sent == st.ledger.sent
<1>1. /\ st \in ServerState /\ st.ledger \in Ledger /\ sent \in Seq(Entry)
      /\ st.bank_update_seq \in Nat /\ GoodState(s, st)
  BY StateBefore
<1>2. /\ u.ledger \in Ledger /\ u.entry \in Entry /\ u.entry.req = req
      /\ u.ledger.sent = sent
  BY <1>1, UpdateRequestReply, UpdateKeepsHistory
<1>3. forward_handle_update(st, req) =
        [st |-> new, out |-> <<forward_request(st, u.entry)>>]
  BY DEF forward_handle_update
<1> HIDE DEF u
<1>4. l \in Ledger /\ l.sent = Append(sent, u.entry)
  <2>1. l \in Ledger
    BY <1>2, Filing
  <2> QED
    BY <1>2, <2>1 DEF insert_sent_list, Ledger
<1> HIDE DEF l, sent
<1>5. /\ new.succ = st.succ /\ new.pre = st.pre /\ new.istail = st.istail
      /\ new.bank_update_seq = req.seq /\ new.ledger = l
  BY <1>1 DEF ServerState
<1> HIDE DEF new
<1>6. Advances(s, new)
  BY <1>5 DEF Advances
<1>7. GoodState(s, new)
  <2> DEFINE more == Append(sent, u.entry)
  <2>1. /\ Len(more) = Len(sent) + 1 /\ Len(sent) \in Nat
        /\ \A i \in DOMAIN more : \/ i \in DOMAIN sent /\ more[i] = sent[i]
                                  \/ i = Len(sent) + 1 /\ more[i] = u.entry
    BY <1>1, <1>2
  <2>2. \A i \in DOMAIN sent : i \in Nat /\ sent[i].req.seq \in Nat
    BY <1>1, SentFields
  <2>3. /\ \A i \in DOMAIN sent : /\ Sound(s, sent[i].req)
                                  /\ sent[i].req.seq <= st.bank_update_seq
        /\ Run(sent, st.bank_update_seq)
        /\ AppliedAfter(s, st.bank_update_seq - Len(sent))
    BY <1>1 DEF GoodState, sent
  <2> HIDE DEF more
  <2>4. \A i \in DOMAIN more : Sound(s, more[i].req) /\ more[i].req.seq <= req.seq
    BY <1>1, <1>2, <2>1, <2>2, <2>3
  <2>5. Run(more, req.seq)
    <3> SUFFICES ASSUME NEW i \in DOMAIN more
                 PROVE  more[i].req.seq = req.seq - Len(more) + i
      BY DEF Run
    <3>1. CASE i \in DOMAIN sent /\ more[i] = sent[i]
      <4>1. sent[i].req.seq = st.bank_update_seq - Len(sent) + i /\ i \in Nat
        BY <2>2, <2>3, <3>1 DEF Run
      <4>2. /\ req.seq = st.bank_update_seq + 1 /\ st.bank_update_seq \in Int
            /\ Len(more) = Len(sent) + 1 /\ Len(sent) \in Int /\ i \in Int
        BY <1>1, <2>1, <4>1
      <4>3. req.seq - Len(more) + i = st.bank_update_seq - Len(sent) + i
        BY <4>2
      <4>4. more[i].req.seq = sent[i].req.seq
        BY <3>1
      <4> HIDE DEF st
      <4> QED
        BY <4>1, <4>3, <4>4
    <3>2. CASE i = Len(sent) + 1 /\ more[i] = u.entry
      BY <1>1, <1>2, <2>1, <3>2
    <3> QED
      BY <2>1, <3>1, <3>2
  <2>6. req.seq - Len(more) = st.bank_update_seq - Len(sent)
    BY <1>1, <2>1
  <2> QED
    BY <1>1, <1>4, <1>5, <2>3, <2>4, <2>5, <2>6 DEF GoodState, more
<1>8. LET o == forward_request(st, u.entry)
      IN  Says(s, new, o) /\ FreshRead(s, o)
  <2>1. req.seq <= new.bank_update_seq
    BY <1>1, <1>5
  <2> QED
    BY <1>2, <1>5, <2>1, SaysForward
<1> QED
  BY <1>3, <1>6, <1>7, <1>8, OneSendEffect

\* How the tail files an update and whom it tells.
LEMMA CommitShape ==
    ASSUME NEW s, NEW st, NEW u, u.ledger \in Ledger, u.entry \in Entry,
           NEW c, c = IF u.entry.req.type = "TRANSFER" THEN handle_transfer(s, st, u)
                      ELSE commit_update(st, u)
    PROVE  /\ c.ledger.sent \in {u.ledger.sent, Append(u.ledger.sent, u.entry)}
           /\ c.out \in {<<>>, <<reply_to_client(u.entry)>>,
                         <<forward_transfer_to_downstream(s, st, u.entry)>>}
PROOF
<1> DEFINE filed == insert_processed_list(u.ledger, <<u.entry>>)
           l1 == IF u.check = "NEWREQ" THEN filed ELSE u.ledger
           l2 == insert_sent_list(l1, u.entry)
           tell == <<reply_to_client(u.entry)>>
           send == <<forward_transfer_to_downstream(s, st, u.entry)>>
           waiting == \E i \in DOMAIN l1.sent :
                            SameKey(l1.sent[i].req, u.entry.req)
           new == u.check = "NEWREQ"
           covered == u.entry.reply.outcome = "PROCESSED"
<1>1. l1 \in Ledger /\ l1.sent = u.ledger.sent
  <2>1. <<u.entry>> \in Seq(Entry)
    OBVIOUS
  <2>2. filed \in Ledger /\ filed.sent = u.ledger.sent
    BY <2>1, Filing
  <2> HIDE DEF filed
  <2> QED
    BY <2>2
<1> HIDE DEF filed
<1>2. l2.sent = Append(u.ledger.sent, u.entry)
  <2> HIDE DEF l1
  <2> QED
    BY <1>1 DEF insert_sent_list, Ledger
<1>3. CASE u.entry.req.type = "TRANSFER"
  <2>1. c = CASE new /\ covered -> [ledger |-> l2, out |-> send]
              [] ~covered \/ (~new /\ ~waiting) -> [ledger |-> l1, out |-> tell]
              [] OTHER -> [ledger |-> l1, out |-> <<>>]
    BY <1>3 DEF handle_transfer, filed
  <2> HIDE DEF l1, l2, tell, send, waiting, new, covered
  <2>2. \/ c = [ledger |-> l2, out |-> send]
        \/ c = [ledger |-> l1, out |-> tell]
        \/ c = [ledger |-> l1, out |-> <<>>]
    BY <2>1
  <2>3. c.ledger \in {l1, l2} /\ c.out \in {<<>>, tell, send}
    BY <2>2
  <2> QED
    BY <1>1, <1>2, <2>3 DEF tell, send
<1>4. CASE u.entry.req.type # "TRANSFER"
  <2>1. c = [ledger |-> IF st.extending_chain THEN l2 ELSE l1, out |-> tell]
    BY <1>4 DEF commit_update, filed
  <2> HIDE DEF l1, l2, tell
  <2>2. c.ledger \in {l1, l2} /\ c.out = tell
    BY <2>1
  <2> QED
    BY <1>1, <1>2, <2>2 DEF tell
<1> QED
  BY <1>3, <1>4

\* An update at the tail.
LEMMA TailEffect ==
    ASSUME TypeOK, SeqInv, NEW s \in alive, NEW req \in Request,
           Sound(s, req), req.seq = srv[s].bank_update_seq + 1,
           AppliedBefore(s, req.seq), srv[s].istail
    PROVE  Effect(s, tail_handle_update(s, srv[s], req))
PROOF
<1> DEFINE st == srv[s]
           u == update_request_reply(st.ledger, req)
           c == IF req.type = "TRANSFER" THEN handle_transfer(s, st, u)
                ELSE commit_update(st, u)
           ack == IF ~st.ishead /\ c.ledger.sent = <<>>
                  THEN <<sendback_ack(st, req.seq)>> ELSE <<>>
           new == [st EXCEPT !.bank_update_seq = req.seq, !.ledger = c.ledger]
           sent == st.ledger.sent
<1>1. /\ st \in ServerState /\ st.ledger \in Ledger /\ sent \in Seq(Entry)
      /\ st.bank_update_seq \in Nat /\ GoodState(s, st) /\ s \in Servers
  BY StateBefore
<1>2. /\ u.ledger \in Ledger /\ u.entry \in Entry /\ u.entry.req = req
      /\ u.ledger.sent = sent
  BY <1>1, UpdateRequestReply, UpdateKeepsHistory
<1>3. tail_handle_update(s, st, req) = [st |-> new, out |-> c.out \o ack]
  BY DEF tail_handle_update
<1> HIDE DEF u
<1>4. /\ c.ledger.sent \in {sent, Append(sent, u.entry)}
      /\ c.out \in {<<>>, <<reply_to_client(u.entry)>>,
                    <<forward_transfer_to_downstream(s, st, u.entry)>>}
  BY <1>2, CommitShape
<1>5. c.ledger \in Ledger /\ c.out \in Seq(ServerSend)
  BY <1>1, <1>2, HandleTransfer, CommitUpdate DEF Committed
<1> HIDE DEF c, sent
<1>6. /\ new.succ = st.succ /\ new.pre = st.pre /\ new.istail = st.istail
      /\ new.bank_update_seq = req.seq /\ new.ledger = c.ledger
  BY <1>1, <1>5 DEF ServerState
<1> HIDE DEF new
<1>7. Advances(s, new)
  BY <1>6 DEF Advances
<1>8. GoodState(s, new)
  <2> DEFINE more == Append(sent, u.entry)
  <2>1. \A i \in DOMAIN more : \/ i \in DOMAIN sent /\ more[i] = sent[i]
                               \/ more[i] = u.entry
    BY <1>1, <1>2
  <2>2. \A i \in DOMAIN sent : sent[i].req.seq \in Nat
    BY <1>1, SentFields
  <2>3. \A i \in DOMAIN sent : /\ Sound(s, sent[i].req)
                               /\ sent[i].req.seq <= st.bank_update_seq
    BY <1>1 DEF GoodState, sent
  <2> HIDE DEF more
  <2>4. \A i \in DOMAIN sent : sent[i].req.seq <= req.seq
    BY <1>1, <2>2, <2>3
  <2>5. \A i \in DOMAIN c.ledger.sent :
            /\ Sound(s, c.ledger.sent[i].req)
            /\ c.ledger.sent[i].req.seq <= req.seq
    <3> DEFINE q == c.ledger.sent
    <3>1. q = sent \/ q = more
      BY <1>4 DEF more
    <3>2. Sound(s, u.entry.req) /\ u.entry.req.seq <= req.seq
      BY <1>1, <1>2
    <3> HIDE DEF q
    <3>3. \A i \in DOMAIN q : Sound(s, q[i].req) /\ q[i].req.seq <= req.seq
      BY <2>1, <2>3, <2>4, <3>1, <3>2
    <3> QED
      BY <3>3 DEF q
  <2> QED
    BY <1>1, <1>6, <2>5 DEF GoodState
<1>9. req.seq <= new.bank_update_seq
  BY <1>1, <1>6
<1>10. \A i \in DOMAIN c.out : /\ Says(s, new, c.out[i])
                               /\ Deferrable(c.out[i]) /\ FreshRead(s, c.out[i])
  <2> DEFINE tell == reply_to_client(u.entry)
             send == forward_transfer_to_downstream(s, st, u.entry)
  <2>1. Says(s, new, tell) /\ Deferrable(tell) /\ FreshRead(s, tell)
    BY <1>2, <1>6, <1>9, SaysReply
  <2>2. Says(s, new, send) /\ Deferrable(send) /\ FreshRead(s, send)
    BY <1>1, <1>2, <1>6, SaysTransfer
  <2> HIDE DEF tell, send
  <2>3. \A i \in DOMAIN c.out : c.out[i] \in {tell, send}
    BY <1>4 DEF tell, send
  <2> QED
    BY <2>1, <2>2, <2>3
<1>11. /\ ack \in Seq(ServerSend)
       /\ \A i \in DOMAIN ack : /\ Says(s, new, ack[i])
                                /\ Deferrable(ack[i]) /\ FreshRead(s, ack[i])
  <2> DEFINE o == sendback_ack(st, req.seq)
  <2>1. Says(s, new, o) /\ Deferrable(o) /\ FreshRead(s, o)
    BY <1>6, <1>9, SaysAck
  <2>2. o \in ServerSend
    BY <1>1, Sends, RequestFields
  <2> HIDE DEF o
  <2>3. ack = <<o>> \/ ack = <<>>
    BY DEF o
  <2> HIDE DEF ack
  <2>4. ack \in Seq(ServerSend)
    BY <2>2, <2>3, FewSends, Zenon
  <2>5. \A i \in DOMAIN ack : ack[i] = o
    BY <2>3
  <2> QED
    BY <2>1, <2>4, <2>5
<1> HIDE DEF ack
<1> QED
  BY <1>3, <1>5, <1>7, <1>8, <1>10, <1>11, JoinedEffect

\* Any request: one with a number that is not the next one is dropped, or ends
\* the server.
LEMMA RequestEffect ==
    ASSUME TypeOK, RolesInv, SeqInv, NEW s \in alive, NEW req \in Request,
           req.type = "QUERY" => req.bank = BankOf[s],
           req.type # "QUERY" => Sound(s, req) /\ AppliedBefore(s, req.seq)
    PROVE  Effect(s, receive_request(s, srv[s], req))
PROOF
<1> DEFINE st == srv[s]
           seq == IF st.ishead THEN st.bank_update_seq + 1 ELSE req.seq
           num == [req EXCEPT !.seq = seq]
           r == IF st.istail THEN tail_handle_update(s, st, num)
                ELSE forward_handle_update(st, num)
           drop == [st |-> st, out |-> <<>>]
           stop == [st |-> st, out |-> <<Abort("FIFO")>>]
<1>1. /\ st \in ServerState /\ st.bank_update_seq \in Nat /\ s \in Servers
      /\ GoodState(s, st) /\ Advances(s, st)
      /\ req.seq \in Nat
  BY StateBefore, RequestFields
<1>2. seq \in Nat
  BY <1>1
<1>3. receive_request(s, st, req) =
        CASE req.type = "QUERY" -> handle_query(st, req)
          [] req.type # "QUERY" /\ st.bank_update_seq >= seq -> drop
          [] req.type # "QUERY" /\ st.bank_update_seq < seq - 1 -> stop
          [] OTHER -> r
  BY DEF receive_request
<1>4. /\ num \in Request /\ num.seq = seq /\ num.type = req.type
      /\ num.bank = req.bank /\ num.from = req.from
  <2> HIDE DEF seq
  <2>1. num \in Request /\ num.seq = seq /\ num.type = req.type
    BY <1>2, Numbered
  <2> QED
    BY <2>1 DEF Request, RequestRecord
<1> HIDE DEF r, drop, stop, num
<1>5. CASE req.type = "QUERY"
  BY <1>3, <1>5, QueryEffect
<1>6. CASE receive_request(s, st, req) = drop
  BY <1>1, <1>6, SilentEffect DEF drop
<1>7. CASE receive_request(s, st, req) = stop
  <2>1. Effect(s, stop)
    BY <1>1, AbortSays, OneSendEffect, Zenon DEF stop
  <2> QED
    BY <1>7, <2>1
<1>8. CASE /\ req.type # "QUERY" /\ receive_request(s, st, req) = r
           /\ seq = st.bank_update_seq + 1
  <2>1. Sound(s, num)
    BY <1>4, <1>8 DEF Sound
  <2>2. AppliedBefore(s, num.seq)
    <3>1. CASE st.ishead
      <4>1. NoneBefore(s)
        BY <3>1 DEF RolesInv, HeadsAreFirst, Appointed
      <4> QED
        BY <4>1 DEF AppliedBefore, NoneBefore, SameBank
    <3>2. CASE ~st.ishead
      BY <1>4, <1>8, <3>2
    <3> QED
      BY <3>1, <3>2
  <2>3. num.seq = st.bank_update_seq + 1
    BY <1>4, <1>8
  <2>4. st.istail => Effect(s, tail_handle_update(s, st, num))
    BY <1>4, <2>1, <2>2, <2>3, TailEffect
  <2>5. ~st.istail => Effect(s, forward_handle_update(st, num))
    BY <1>4, <2>1, <2>2, <2>3, ForwardEffect
  <2>6. Effect(s, r)
    BY <2>4, <2>5 DEF r
  <2> QED
    BY <1>8, <2>6
<1>9. \/ req.type = "QUERY"
      \/ receive_request(s, st, req) \in {drop, stop}
      \/ /\ req.type # "QUERY" /\ receive_request(s, st, req) = r
         /\ seq = st.bank_update_seq + 1
  <2>1. ~(st.bank_update_seq >= seq) /\ ~(st.bank_update_seq < seq - 1) =>
            seq = st.bank_update_seq + 1
    <3> HIDE DEF seq
    <3> QED
      BY <1>1, <1>2
  <2> HIDE DEF seq
  <2> QED
    BY <1>3, <2>1
<1> QED
  BY <1>5, <1>6, <1>7, <1>8, <1>9

\* What an acknowledgement takes off the sent list.
LEMMA AckedPart ==
    ASSUME NEW sent \in Seq(Entry), NEW seq \in Nat
    PROVE  /\ AckedLength(sent, seq) \in 0 .. Len(sent)
           /\ \A i \in 1 .. AckedLength(sent, seq) : sent[i].req.seq <= seq
PROOF
<1> DEFINE n == AckedLength(sent, seq)
<1>1. DOMAIN sent = 1 .. Len(sent) /\ Len(sent) \in Nat
  OBVIOUS
<1>2. CASE \E i \in DOMAIN sent : FirstUnacked(sent, seq, i)
  <2> DEFINE c == CHOOSE i \in DOMAIN sent : FirstUnacked(sent, seq, i)
  <2>1. c \in DOMAIN sent /\ FirstUnacked(sent, seq, c)
    BY <1>2, Zenon
  <2>2. n = c - 1
    BY <1>2 DEF AckedLength
  <2> HIDE DEF c, n
  <2>3. n \in 0 .. Len(sent) /\ 1 .. n = 1 .. (c - 1)
    BY <1>1, <2>1, <2>2
  <2>4. \A i \in 1 .. (c - 1) : sent[i].req.seq <= seq
    BY <2>1 DEF FirstUnacked
  <2> QED
    BY <2>3, <2>4 DEF n
<1>3. CASE ~\E i \in DOMAIN sent : FirstUnacked(sent, seq, i)
  <2>1. n = Len(sent)
    BY <1>3 DEF AckedLength
  <2> DEFINE over == {i \in DOMAIN sent : sent[i].req.seq > seq}
  <2>2. over = {}
    <3> SUFFICES ASSUME over # {} PROVE FALSE
      OBVIOUS
    <3>1. over \in SUBSET Nat
      BY <1>1
    <3>2. PICK k \in over : \A j \in over : <<j, k>> \notin OpToRel(<, Nat)
      <4> HIDE DEF over
      <4> QED
        BY <3>1, NatLessThanWellFounded, WFMin
    <3>3. \A j \in over : ~(j < k)
      <4> HIDE DEF over
      <4> QED
        BY <3>1, <3>2 DEF OpToRel
    <3>4. ASSUME NEW j \in 1 .. (k - 1) PROVE sent[j].req.seq <= seq
      <4>1. j \in DOMAIN sent /\ j < k
        BY <1>1
      <4>2. sent[j].req.seq \in Nat
        BY <4>1, SentFields
      <4>3. ~(sent[j].req.seq > seq)
        BY <3>3, <4>1
      <4> QED
        BY <4>2, <4>3
    <3>5. FirstUnacked(sent, seq, k)
      BY <3>4 DEF FirstUnacked
    <3> QED
      BY <1>3, <3>5
  <2>3. \A i \in DOMAIN sent : sent[i].req.seq <= seq
    <3>1. \A i \in DOMAIN sent : sent[i].req.seq \in Nat
      BY SentFields
    <3> QED
      BY <2>2, <3>1
  <2> HIDE DEF n
  <2> QED
    BY <1>1, <2>1, <2>3 DEF n
<1> QED
  BY <1>2, <1>3

\* An acknowledgement takes a front off the sent list, of updates that the whole
\* bank has applied.
LEMMA AckEffect ==
    ASSUME TypeOK, SeqInv, NEW s \in alive, NEW seq \in Nat,
           Applied(BankOf[s], seq)
    PROVE  Effect(s, receive_ack(srv[s], seq))
PROOF
<1> DEFINE st == srv[s]
           l == st.ledger
           n == AckedLength(l.sent, seq)
           k == insert_processed_list(l, SubSeq(l.sent, 1, n))
           rest == SubSeq(k.sent, n + 1, Len(l.sent))
           l2 == [k EXCEPT !.sent = rest]
           new == [st EXCEPT !.ledger = l2]
           sent == l.sent
           N == st.bank_update_seq
<1>1. /\ st \in ServerState /\ l \in Ledger /\ sent \in Seq(Entry)
      /\ N \in Nat /\ GoodState(s, st) /\ s \in Servers
  BY StateBefore
<1>2. receive_ack(st, seq) =
        [st |-> new, out |-> IF st.ishead THEN <<>> ELSE <<sendback_ack(st, seq)>>]
  BY DEF receive_ack
<1>3. /\ n \in 0 .. Len(sent) /\ Len(sent) \in Nat
      /\ \A i \in 1 .. n : sent[i].req.seq <= seq
  <2>1. sent \in Seq(Entry) /\ n = AckedLength(sent, seq)
    BY <1>1
  <2> HIDE DEF sent, n
  <2>2. Len(sent) \in Nat
    BY <2>1
  <2>3. /\ AckedLength(sent, seq) \in 0 .. Len(sent)
        /\ \A i \in 1 .. AckedLength(sent, seq) : sent[i].req.seq <= seq
    BY <2>1, AckedPart
  <2> QED
    BY <2>1, <2>2, <2>3
<1> HIDE DEF n
<1>4. k \in Ledger /\ k.sent = sent
  <2>1. SubSeq(l.sent, 1, n) \in Seq(Entry)
    BY <1>1, <1>3
  <2> HIDE DEF l
  <2> QED
    BY <1>1, <2>1, Filing
<1>5. rest = SubSeq(sent, n + 1, Len(sent))
  BY <1>4
<1> HIDE DEF k, rest
<1>6. /\ rest \in Seq(Entry) /\ Len(rest) = Len(sent) - n
      /\ \A i \in DOMAIN rest :
            i \in Nat /\ i + n \in DOMAIN sent /\ rest[i] = sent[i + n]
  <2> HIDE DEF sent
  <2> QED
    BY <1>1, <1>3, <1>5
<1>7. l2 \in Ledger /\ l2.sent = rest
  BY <1>4, <1>6, Filing
<1> HIDE DEF l2
<1>8. /\ new.succ = st.succ /\ new.pre = st.pre /\ new.istail = st.istail
      /\ new.bank_update_seq = N /\ new.ledger = l2
  BY <1>1, <1>7 DEF ServerState
<1> HIDE DEF new
<1>9. Advances(s, new)
  BY <1>8 DEF Advances
<1>10. GoodState(s, new)
  <2>1. /\ st.succ # Nobody => Follows(s, st.succ)
        /\ st.pre # Nobody => SameBank(st.pre, s)
        /\ \A i \in DOMAIN sent : Sound(s, sent[i].req) /\ sent[i].req.seq <= N
        /\ ~st.istail => Run(sent, N) /\ AppliedAfter(s, N - Len(sent))
    BY <1>1 DEF GoodState
  <2> HIDE DEF sent, N, st
  <2>2. \A i \in DOMAIN rest : Sound(s, rest[i].req) /\ rest[i].req.seq <= N
    BY <1>6, <2>1
  <2>3. ASSUME ~st.istail PROVE Run(rest, N)
    <3> SUFFICES ASSUME NEW i \in DOMAIN rest
                 PROVE  rest[i].req.seq = N - Len(rest) + i
      BY DEF Run
    <3>1. sent[i + n].req.seq = N - Len(sent) + (i + n)
      BY <1>6, <2>1, <2>3 DEF Run
    <3>2. i \in Int /\ n \in Int /\ Len(sent) \in Int /\ N \in Int
      BY <1>1, <1>3, <1>6
    <3>3. N - Len(sent) + (i + n) = N - (Len(sent) - n) + i
      BY <3>2
    <3> QED
      BY <1>6, <3>1, <3>3
  <2>4. ASSUME ~st.istail PROVE AppliedAfter(s, N - Len(rest))
    <3>1. N - Len(rest) = N - Len(sent) + n /\ N - Len(rest) \in Int
      BY <1>1, <1>3, <1>6
    <3>2. CASE n = 0
      BY <1>1, <1>3, <2>1, <2>4, <3>1, <3>2
    <3>3. CASE n # 0
      <4>1. n \in DOMAIN sent /\ n \in 1 .. n
        BY <1>1, <1>3, <3>3
      <4>2. sent[n].req.seq = N - Len(sent) + n /\ sent[n].req.seq <= seq
        BY <1>3, <2>1, <2>4, <4>1 DEF Run
      <4>3. N - Len(rest) <= seq
        BY <3>1, <4>2
      <4>4. \A x \in alive : /\ x \in Servers
                             /\ srv[x].bank_update_seq \in Nat
        BY ServerFields DEF TypeOK
      <4> QED
        BY <3>1, <4>3, <4>4 DEF AppliedAfter, Applied, SameBank
    <3> QED
      BY <3>2, <3>3
  <2> QED
    BY <1>7, <1>8, <2>1, <2>2, <2>3, <2>4 DEF GoodState
<1>11. LET o == sendback_ack(st, seq) IN Says(s, new, o) /\ FreshRead(s, o)
  BY <1>8, SaysAck
<1> QED
  BY <1>2, <1>9, <1>10, <1>11, SilentEffect, OneSendEffect

\* The order to become head.
LEMMA HeadEffect ==
    ASSUME TypeOK, SeqInv, NEW s \in alive
    PROVE  Effect(s, to_be_head(srv[s]))
PROOF
<1> DEFINE st == srv[s]
           new == [st EXCEPT !.ishead = TRUE]
<1>1. st \in ServerState /\ GoodState(s, st)
  BY StateBefore
<1>2. /\ new.succ = st.succ /\ new.pre = st.pre /\ new.istail = st.istail
      /\ new.bank_update_seq = st.bank_update_seq /\ new.ledger = st.ledger
  BY <1>1 DEF ServerState
<1>3. to_be_head(st) = [st |-> new, out |-> <<>>]
  BY DEF to_be_head
<1> HIDE DEF new
<1>4. Advances(s, new) /\ GoodState(s, new)
  BY <1>1, <1>2 DEF Advances, GoodState
<1> QED
  BY <1>3, <1>4, SilentEffect

\* The order to become tail: the transfers that are left in the sent list are
\* forwarded, or everything is acknowledged.
LEMMA NewTailEffect ==
    ASSUME TypeOK, SeqInv, NEW s \in alive
    PROVE  Effect(s, to_be_tail(s, srv[s]))
PROOF
<1> DEFINE st == srv[s]
           l == st.ledger
           T == {i \in DOMAIN l.sent : l.sent[i].req.type = "TRANSFER"}
           left == Pick(l.sent, T)
           filed == Pick(l.sent, DOMAIN l.sent \ T)
           p == insert_processed_list(l, filed)
           k == [p EXCEPT !.sent = left]
           new == [st EXCEPT !.istail = TRUE, !.ledger = k]
           fwd == [i \in DOMAIN k.sent |->
                        forward_transfer_to_downstream(s, st, k.sent[i])]
           ack == <<sendback_ack(st, st.bank_update_seq)>>
           out == IF k.sent # <<>> THEN fwd
                  ELSE IF st.ishead THEN <<>> ELSE ack
<1>1. /\ st \in ServerState /\ l \in Ledger /\ l.sent \in Seq(Entry)
      /\ st.bank_update_seq \in Nat /\ GoodState(s, st) /\ s \in Servers
  BY StateBefore
<1>2. to_be_tail(s, st) = [st |-> new, out |-> out]
  BY DEF to_be_tail
<1>3. /\ left \in Seq(Entry) /\ filed \in Seq(Entry)
      /\ \A i \in DOMAIN left : \E j \in DOMAIN l.sent : left[i] = l.sent[j]
  <2>1. T \in SUBSET DOMAIN l.sent /\ DOMAIN l.sent \ T \in SUBSET DOMAIN l.sent
    OBVIOUS
  <2> HIDE DEF l, T
  <2>2. /\ left \in Seq(Entry) /\ filed \in Seq(Entry)
        /\ \A i \in DOMAIN left : \E j \in T : left[i] = l.sent[j]
    BY <1>1, <2>1, PickType
  <2> HIDE DEF left
  <2> QED
    BY <2>1, <2>2
<1>4. \A i \in DOMAIN left : /\ Sound(s, left[i].req)
                             /\ left[i].req.seq <= st.bank_update_seq
  <2>1. \A j \in DOMAIN l.sent : /\ Sound(s, l.sent[j].req)
                                 /\ l.sent[j].req.seq <= st.bank_update_seq
    BY <1>1 DEF GoodState
  <2> HIDE DEF left, l
  <2> QED
    BY <1>3, <2>1
<1> HIDE DEF left, filed, T, l
<1>5. p \in Ledger
  BY <1>1, <1>3, Filing
<1> HIDE DEF p
<1>6. k \in Ledger /\ k.sent = left
  BY <1>3, <1>5, Filing
<1> HIDE DEF k
<1>7. /\ new.succ = st.succ /\ new.pre = st.pre /\ new.istail = TRUE
      /\ new.bank_update_seq = st.bank_update_seq /\ new.ledger = k
  BY <1>1, <1>6 DEF ServerState
<1> HIDE DEF new
<1>8. Advances(s, new) /\ GoodState(s, new)
  BY <1>1, <1>4, <1>6, <1>7 DEF Advances, GoodState
<1>9. CASE k.sent # <<>>
  <2>1. out = fwd /\ DOMAIN fwd = DOMAIN left
    BY <1>6, <1>9
  <2>2. ASSUME NEW i \in DOMAIN fwd
        PROVE  Says(s, new, fwd[i]) /\ Deferrable(fwd[i]) /\ FreshRead(s, fwd[i])
    <3>1. left[i] \in Entry /\ i \in DOMAIN left
      BY <1>3, <2>1
    <3>2. fwd[i] = forward_transfer_to_downstream(s, st, left[i])
      BY <1>6, <3>1
    <3> HIDE DEF fwd
    <3> QED
      BY <1>1, <1>7, <3>1, <3>2, SaysTransfer
  <2> HIDE DEF fwd, out
  <2>3. Effect(s, [st |-> new, out |-> fwd])
    BY <1>8, <2>2 DEF Effect
  <2> QED
    BY <1>2, <2>1, <2>3
<1>10. CASE k.sent = <<>>
  <2>0. st.bank_update_seq <= new.bank_update_seq /\ new.pre = st.pre
    BY <1>1, <1>7
  <2>1. LET o == sendback_ack(st, st.bank_update_seq)
        IN  Says(s, new, o) /\ FreshRead(s, o)
    BY <1>1, <1>7, <2>0, SaysAck
  <2>2. Effect(s, [st |-> new, out |-> ack])
    BY <1>8, <2>1, OneSendEffect
  <2>3. Effect(s, [st |-> new, out |-> <<>>])
    BY <1>8, SilentEffect
  <2> HIDE DEF ack
  <2> QED
    BY <1>2, <1>10, <2>2, <2>3
<1> QED
  BY <1>9, <1>10

\* A new predecessor.
LEMMA NewPreEffect ==
    ASSUME TypeOK, SeqInv, NEW s \in alive, NEW addr \in Servers,
           Follows(addr, s)
    PROVE  Effect(s, receive_new_preserver(s, srv[s], addr))
PROOF
<1> DEFINE st == srv[s]
           new == [st EXCEPT !.pre = addr]
           m == [type |-> "REQ_SEQ", seq |-> st.bank_update_seq,
                 pre |-> addr, succ |-> s]
           o == Send(Master, m)
<1>1. st \in ServerState /\ GoodState(s, st) /\ st.bank_update_seq \in Nat
  BY StateBefore
<1>2. /\ new.succ = st.succ /\ new.pre = addr /\ new.istail = st.istail
      /\ new.bank_update_seq = st.bank_update_seq /\ new.ledger = st.ledger
  BY <1>1 DEF ServerState
<1>3. receive_new_preserver(s, st, addr) = [st |-> new, out |-> <<o>>]
  BY DEF receive_new_preserver
<1>4. /\ o.msg.type = "REQ_SEQ" /\ o.msg.succ = s /\ o.msg.pre = addr
      /\ o.msg.seq = st.bank_update_seq
  BY DEF Send
<1> HIDE DEF new, o
<1>5. Advances(s, new) /\ GoodState(s, new)
  BY <1>1, <1>2 DEF Advances, GoodState, Follows, SameBank
<1>6. Says(s, new, o) /\ FreshRead(s, o)
  BY <1>1, <1>2, <1>4 DEF Says, FreshRead
<1> QED
  BY <1>3, <1>5, <1>6, OneSendEffect

\* A new successor is sent updates of the sent list.
LEMMA NewSuccEffect ==
    ASSUME TypeOK, SeqInv, NEW s \in alive, NEW m, m.succ \in Servers,
           Follows(s, m.succ)
    PROVE  Effect(s, receive_new_succserver(srv[s], m))
PROOF
<1> DEFINE st == srv[s]
           new == [st EXCEPT !.succ = m.succ]
           sent == st.ledger.sent
           K == {i \in DOMAIN sent : sent[i].req.seq > m.seq}
           more == Pick(sent, K)
           out == [i \in DOMAIN more |-> forward_request(new, more[i])]
<1>1. /\ st \in ServerState /\ GoodState(s, st) /\ st.bank_update_seq \in Nat
      /\ sent \in Seq(Entry)
  BY StateBefore
<1>2. /\ new.succ = m.succ /\ new.pre = st.pre /\ new.istail = st.istail
      /\ new.bank_update_seq = st.bank_update_seq /\ new.ledger = st.ledger
  BY <1>1 DEF ServerState
<1>3. receive_new_succserver(st, m) = [st |-> new, out |-> out]
  BY DEF receive_new_succserver
<1> HIDE DEF new
<1>4. Advances(s, new) /\ GoodState(s, new)
  BY <1>1, <1>2 DEF Advances, GoodState
<1>5. \A j \in DOMAIN sent : /\ Sound(s, sent[j].req)
                             /\ sent[j].req.seq <= st.bank_update_seq
  BY <1>1 DEF GoodState
<1>6. K \in SUBSET DOMAIN sent
  OBVIOUS
<1> HIDE DEF K, sent
<1>7. /\ more \in Seq(Entry)
      /\ \A i \in DOMAIN more : \E j \in K : more[i] = sent[j]
  BY <1>1, <1>6, PickType
<1> HIDE DEF more
<1>8. ASSUME NEW i \in DOMAIN out
      PROVE  Says(s, new, out[i]) /\ Deferrable(out[i]) /\ FreshRead(s, out[i])
  <2>1. i \in DOMAIN more /\ out[i] = forward_request(new, more[i])
    OBVIOUS
  <2>2. Sound(s, more[i].req) /\ more[i].req.seq <= new.bank_update_seq
    BY <1>2, <1>5, <1>6, <1>7, <2>1
  <2> HIDE DEF out
  <2> QED
    BY <2>1, <2>2, SaysForward
<1> HIDE DEF out
<1> QED
  BY <1>3, <1>4, <1>8 DEF Effect

\* The answer of a destination bank, which only a tail is sent.
LEMMA TransferReplyEffect ==
    ASSUME TypeOK, SeqInv, NEW s \in alive, NEW reply, ActsAsTail(s)
    PROVE  Effect(s, receive_transfer_reply(srv[s], reply))
PROOF
<1> DEFINE st == srv[s]
           sent == st.ledger.sent
           M    == {i \in DOMAIN sent : /\ sent[i].req.id = reply.id
                                        /\ sent[i].req.dacct = reply.acct}
           kept == Pick(sent, DOMAIN sent \ M)
           done == Pick(sent, M)
           new  == [st EXCEPT !.ledger.sent = kept]
           told == [i \in DOMAIN done |-> reply_to_client(done[i])]
           ack  == IF done # <<>> /\ kept = <<>> /\ ~st.ishead
                   THEN <<sendback_ack(st, st.bank_update_seq)>> ELSE <<>>
           stop == [st |-> st, out |-> <<Abort("transfer processed")>>]
<1>1. /\ st \in ServerState /\ GoodState(s, st) /\ st.bank_update_seq \in Nat
      /\ sent \in Seq(Entry) /\ st.istail /\ Advances(s, st) /\ s \in Servers
      /\ st.ledger \in Ledger
  BY StateBefore DEF ActsAsTail
<1>2. receive_transfer_reply(st, reply) =
        IF reply.outcome # "PROCESSED" THEN stop
        ELSE [st |-> new, out |-> told \o ack]
  BY DEF receive_transfer_reply
<1>3. \A j \in DOMAIN sent : /\ Sound(s, sent[j].req)
                             /\ sent[j].req.seq <= st.bank_update_seq
  BY <1>1 DEF GoodState
<1>4. M \in SUBSET DOMAIN sent /\ DOMAIN sent \ M \in SUBSET DOMAIN sent
  OBVIOUS
<1> HIDE DEF M, sent
<1>5. /\ kept \in Seq(Entry) /\ done \in Seq(Entry)
      /\ \A i \in DOMAIN kept : \E j \in DOMAIN sent \ M : kept[i] = sent[j]
      /\ \A i \in DOMAIN done : \E j \in M : done[i] = sent[j]
  BY <1>1, <1>4, PickType
<1> HIDE DEF kept, done
<1>6. /\ \A i \in DOMAIN kept : /\ Sound(s, kept[i].req)
                                /\ kept[i].req.seq <= st.bank_update_seq
      /\ \A i \in DOMAIN done : /\ Sound(s, done[i].req)
                                /\ done[i].req.seq <= st.bank_update_seq
  BY <1>3, <1>4, <1>5
<1>7. /\ new.succ = st.succ /\ new.pre = st.pre /\ new.istail = st.istail
      /\ new.bank_update_seq = st.bank_update_seq /\ new.ledger.sent = kept
  BY <1>1, <1>5 DEF ServerState, Ledger
<1> HIDE DEF new
<1>8. Advances(s, new) /\ GoodState(s, new)
  BY <1>1, <1>6, <1>7 DEF Advances, GoodState
<1>9. /\ told \in Seq(ServerSend)
      /\ \A i \in DOMAIN told : /\ Says(s, new, told[i])
                                /\ Deferrable(told[i]) /\ FreshRead(s, told[i])
  <2>1. ASSUME NEW i \in DOMAIN told
        PROVE  /\ told[i] \in ServerSend
               /\ Says(s, new, told[i])
               /\ Deferrable(told[i]) /\ FreshRead(s, told[i])
    <3>1. /\ i \in DOMAIN done /\ done[i] \in Entry
          /\ told[i] = reply_to_client(done[i])
      BY <1>5
    <3>2. done[i].req.seq <= new.bank_update_seq
      BY <1>6, <1>7, <3>1
    <3> HIDE DEF told
    <3>3. told[i] \in ServerSend
      BY <1>1, <3>1, Sends
    <3> QED
      BY <1>1, <1>6, <1>7, <3>1, <3>2, <3>3, SaysReply
  <2>2. told \in [DOMAIN done -> ServerSend]
    BY <2>1
  <2> HIDE DEF told
  <2>3. told \in Seq(ServerSend)
    BY <1>5, <2>2, SameDomain
  <2> QED
    BY <2>1, <2>3
<1>10. /\ ack \in Seq(ServerSend)
       /\ \A i \in DOMAIN ack : /\ Says(s, new, ack[i])
                                /\ Deferrable(ack[i]) /\ FreshRead(s, ack[i])
  <2> DEFINE o == sendback_ack(st, st.bank_update_seq)
  <2>0. st.bank_update_seq <= new.bank_update_seq /\ new.pre = st.pre
    BY <1>1, <1>7
  <2>1. Says(s, new, o) /\ Deferrable(o) /\ FreshRead(s, o)
    BY <1>1, <1>7, <2>0, SaysAck
  <2>2. o \in ServerSend
    BY <1>1, Sends
  <2> HIDE DEF o
  <2>3. ack = <<o>> \/ ack = <<>>
    BY DEF o
  <2> HIDE DEF ack
  <2>4. ack \in Seq(ServerSend)
    BY <2>2, <2>3, FewSends, Zenon
  <2>5. \A i \in DOMAIN ack : ack[i] = o
    BY <2>3
  <2> QED
    BY <2>1, <2>4, <2>5
<1> HIDE DEF told, ack
<1>11. Effect(s, [st |-> new, out |-> told \o ack])
  BY <1>8, <1>9, <1>10, JoinedEffect
<1>12. Effect(s, stop)
  BY <1>1, AbortSays, OneSendEffect, Zenon
<1> HIDE DEF stop
<1> QED
  BY <1>2, <1>11, <1>12

\* A bank has a new head.
LEMMA NewHeadEffect ==
    ASSUME TypeOK, SeqInv, NEW s \in alive, NEW m, m.bank \in Banks,
           m.server \in Servers
    PROVE  Effect(s, handle_new_head(s, srv[s], m))
PROOF
<1> DEFINE st == srv[s]
           new  == [st EXCEPT !.heads[m.bank] = m.server]
           sent == st.ledger.sent
           ok   == {i \in DOMAIN sent :
                        \A j \in 1 .. i : sent[j].req.type = "TRANSFER"}
           K    == {i \in ok : sent[i].req.dbank = m.bank}
           mine == Pick(sent, K)
           fwd  == [i \in DOMAIN mine |->
                        forward_transfer_to_downstream(s, new, mine[i])]
           stop == IF ok = DOMAIN sent THEN <<>> ELSE <<Abort("transfers only")>>
<1>1. /\ st \in ServerState /\ GoodState(s, st) /\ s \in Servers
      /\ sent \in Seq(Entry)
  BY StateBefore
<1>2. /\ new.succ = st.succ /\ new.pre = st.pre /\ new.istail = st.istail
      /\ new.bank_update_seq = st.bank_update_seq /\ new.ledger = st.ledger
      /\ new \in ServerState
  BY <1>1 DEF ServerState
<1>3. handle_new_head(s, st, m) =
        [st |-> new, out |-> IF ~st.istail THEN <<>> ELSE fwd \o stop]
  BY DEF handle_new_head
<1> HIDE DEF new
<1>4. Advances(s, new) /\ GoodState(s, new)
  BY <1>1, <1>2 DEF Advances, GoodState
<1>5. Effect(s, [st |-> new, out |-> <<>>])
  BY <1>4, SilentEffect
<1>6. K \in SUBSET DOMAIN sent /\ \A i \in K : sent[i].req.type = "TRANSFER"
  <2>1. \A i \in DOMAIN sent : i \in 1 .. i
    BY <1>1
  <2> QED
    BY <2>1
<1> HIDE DEF K, sent, ok
<1>7. /\ mine \in Seq(Entry)
      /\ \A i \in DOMAIN mine : \E j \in K : mine[i] = sent[j]
  BY <1>1, <1>6, PickType
<1> HIDE DEF mine
<1>8. \A i \in DOMAIN mine : mine[i].req.type = "TRANSFER"
  BY <1>6, <1>7, Zenon
<1>9. fwd \in Seq(ServerSend)
  BY <1>1, <1>2, <1>7, <1>8, ForwardAll
<1>10. CASE st.istail
  <2>1. ASSUME NEW i \in DOMAIN fwd
        PROVE  Says(s, new, fwd[i]) /\ Deferrable(fwd[i]) /\ FreshRead(s, fwd[i])
    <3>1. /\ i \in DOMAIN mine /\ mine[i] \in Entry
          /\ fwd[i] = forward_transfer_to_downstream(s, new, mine[i])
      BY <1>7
    <3> HIDE DEF fwd
    <3> QED
      BY <1>1, <1>2, <1>10, <3>1, SaysTransfer
  <2>2. /\ stop \in Seq(ServerSend)
        /\ \A i \in DOMAIN stop : /\ Says(s, new, stop[i])
                                  /\ Deferrable(stop[i]) /\ FreshRead(s, stop[i])
    <3> DEFINE o == Abort("transfers only")
    <3>1. Says(s, new, o) /\ FreshRead(s, o)
      BY AbortSays
    <3>2. Deferrable(o)
      BY DEF Deferrable, Abort, Send
    <3>3. o \in ServerSend
      BY <1>1, Sends DEF Assertions
    <3> HIDE DEF o
    <3>4. stop = <<o>> \/ stop = <<>>
      BY DEF o
    <3> HIDE DEF stop
    <3>5. stop \in Seq(ServerSend)
      BY <3>3, <3>4, FewSends, Zenon
    <3>6. \A i \in DOMAIN stop : stop[i] = o
      BY <3>4
    <3> QED
      BY <3>1, <3>2, <3>5, <3>6
  <2> HIDE DEF fwd, stop
  <2>3. Effect(s, [st |-> new, out |-> fwd \o stop])
    BY <1>4, <1>9, <2>1, <2>2, JoinedEffect
  <2> QED
    BY <1>3, <1>10, <2>3
<1>11. CASE ~st.istail
  BY <1>3, <1>5, <1>11
<1> QED
  BY <1>10, <1>11

\* The sends that a handler still had to make.
LEMMA ContinueEffect ==
    ASSUME TypeOK, SeqInv, NEW s \in alive
    PROVE  Effect(s, [st |-> srv[s], out |-> sending[s]])
PROOF
<1>1. s \in Processes /\ GoodState(s, srv[s]) /\ Advances(s, srv[s])
  BY StateBefore DEF Processes
<1>2. \A i \in DOMAIN sending[s] : Good(sending[s][i]) /\ Deferrable(sending[s][i])
  BY <1>1 DEF SeqInv, GoodSends
<1>3. \A i \in DOMAIN sending[s] : FreshRead(s, sending[s][i])
  BY <1>2 DEF FreshRead, Deferrable
<1> QED
  BY <1>1, <1>2, <1>3 DEF Effect

-----------------------------------------------------------------------------
(***************************************************************************)
(* The numbers of the updates in the whole system: the steps of servers,   *)
(* clients and master keep that invariant.  From it follow that no query   *)
(* returns an old balance, and that every update the next living server    *)
(* lacks is still in the sent list of the one before it.                   *)
(***************************************************************************)

\* A good state stays good.
LEMMA GrowsState ==
    ASSUME TypeOK, TypeOK', Grows, NEW s, NEW st \in ServerState,
           GoodState(s, st)
    PROVE  GoodState(s, st)'
PROOF
<1> DEFINE n    == st.bank_update_seq
           sent == st.ledger.sent
<1>1. n \in Nat /\ sent \in Seq(Entry)
  BY LedgerFields DEF ServerState
<1>2. n - Len(sent) \in Int
  <2> HIDE DEF n, sent
  <2> QED
    BY <1>1
<1>3. /\ st.succ # Nobody => Follows(s, st.succ)
      /\ st.pre # Nobody => SameBank(st.pre, s)
      /\ \A i \in DOMAIN sent : Sound(s, sent[i].req) /\ sent[i].req.seq <= n
      /\ ~st.istail => Run(sent, n) /\ AppliedAfter(s, n - Len(sent))
  BY DEF GoodState
<1>4. /\ st.succ # Nobody => Follows(s, st.succ)'
      /\ \A i \in DOMAIN sent : Sound(s, sent[i].req)'
      /\ ~st.istail => AppliedAfter(s, n - Len(sent))'
  <2> HIDE DEF n, sent
  <2> QED
    BY <1>2, <1>3, GrowsKeeps
<1> QED
  BY <1>3, <1>4 DEF GoodState, SameBank, Run

\* The numbers still fall along the chain.
LEMMA EffectDescends ==
    ASSUME TypeOK, TypeOK', SeqInv, NEW s \in alive, NEW res, Effect(s, res),
           Grows, alive' = alive, srv' = [srv EXCEPT ![s] = res.st]
    PROVE  Descends'
PROOF
<1>1. /\ srv \in [Servers -> ServerState] /\ s \in Servers
      /\ alive \in SUBSET Servers
  BY DEF TypeOK
<1>2. ASSUME NEW x \in alive, NEW n, n = srv'[x].bank_update_seq
      PROVE  AppliedBefore(x, n)'
  <2>1. x \in Servers /\ srv[x].bank_update_seq \in Nat
    BY <1>1, ServerFields
  <2>2. srv'[x] = IF x = s THEN res.st ELSE srv[x]
    BY <1>1, <2>1
  <2>3. AppliedBefore(x, srv[x].bank_update_seq)
    BY DEF SeqInv, Descends
  <2>4. \/ n = srv[x].bank_update_seq
        \/ /\ n = srv[x].bank_update_seq + 1
           /\ AppliedBefore(x, n)
    BY <1>2, <2>2 DEF Effect, Advances
  <2>5. AppliedBefore(x, n) /\ n \in Int
    BY <2>1, <2>3, <2>4
  <2> QED
    BY <2>5, GrowsKeeps
<1> QED
  BY <1>2 DEF Descends, AppliedBefore, SameBank

\* What a tail has applied, all of its bank has.
LEMMA TailHasLeast ==
    ASSUME TypeOK, RolesInv, Descends, NEW s \in alive, srv[s].istail,
           NEW n \in Int, n <= srv[s].bank_update_seq
    PROVE  Applied(BankOf[s], n)
PROOF
<1> SUFFICES ASSUME NEW x \in alive, BankOf[x] = BankOf[s]
             PROVE  n <= srv[x].bank_update_seq
  BY DEF Applied
<1>1. /\ s \in Int /\ x \in Int
      /\ srv[s].bank_update_seq \in Nat /\ srv[x].bank_update_seq \in Nat
  BY ServerFields DEF TypeOK
<1>2. NoneAfter(s)
  BY DEF RolesInv, TailsAreLast, Appointed
<1>3. x = s \/ x < s
  BY <1>1, <1>2 DEF NoneAfter
<1>4. x < s => srv[s].bank_update_seq <= srv[x].bank_update_seq
  BY DEF Descends, AppliedBefore, SameBank
<1> QED
  BY <1>1, <1>3, <1>4

\* What a server forwards to its successor, all before that one have.
LEMMA SuccessorLags ==
    ASSUME TypeOK, Descends, NEW s \in alive, NEW t, Follows(s, t),
           NEW n \in Int, n <= srv[s].bank_update_seq
    PROVE  AppliedBefore(t, n)
PROOF
<1> SUFFICES ASSUME NEW x \in alive, BankOf[x] = BankOf[t], x < t
             PROVE  n <= srv[x].bank_update_seq
  BY DEF AppliedBefore, SameBank
<1>1. /\ s \in Int /\ x \in Int
      /\ srv[s].bank_update_seq \in Nat /\ srv[x].bank_update_seq \in Nat
  BY ServerFields DEF TypeOK
<1>2. BankOf[x] = BankOf[s] /\ ~(s < x)
  BY DEF Follows, SameBank
<1>3. x = s \/ x < s
  BY <1>1, <1>2
<1>4. x < s => srv[s].bank_update_seq <= srv[x].bank_update_seq
  BY <1>2 DEF Descends, AppliedBefore, SameBank
<1> QED
  BY <1>1, <1>3, <1>4

\* What a handler says is good once the server is in its new state.
SaidIsGood ==
    \A s \in alive : \A o :
        /\ GoodState(s, srv[s]) /\ o.msg \in Message /\ Says(s, srv[s], o)
        => Good(o)

LEMMA SaysGood == TypeOK /\ RolesInv /\ Descends => SaidIsGood
PROOF
<1> SUFFICES ASSUME TypeOK, RolesInv, Descends, NEW s \in alive, NEW o,
                    GoodState(s, srv[s]), o.msg \in Message,
                    Says(s, srv[s], o)
             PROVE  Good(o)
  BY DEF SaidIsGood
<1> DEFINE m == o.msg
           st == srv[s]
           n == st.bank_update_seq
<1>1. /\ s \in Servers /\ n \in Nat /\ Nobody \notin Servers
      /\ \A x \in alive : srv[x].bank_update_seq \in Nat
  <2>1. srv \in [Servers -> ServerState] /\ alive \in SUBSET Servers
    BY DEF TypeOK
  <2>2. Nobody \notin Servers
    BY BankAssumption DEF Servers, Nobody
  <2> QED
    BY <2>1, <2>2, ServerFields
<1>2. /\ m.type = "REQUEST" => m.req.seq \in Int
      /\ m.type = "CLIENT_REPLY" => m.entry.req.seq \in Int
      /\ m.type = "ACKNOWLEDGE" => m.seq \in Int
      /\ m.type \in {"REQ_SEQ", "NEW_SUCC_SERVER"} => m.seq \in Int
  BY MessageFields, RequestFields DEF Entry
<1>3. /\ st.succ # Nobody => Follows(s, st.succ)
      /\ st.pre # Nobody => SameBank(st.pre, s)
  BY DEF GoodState
<1>4. /\ m.type = "REQUEST" =>
                \/ /\ o.to = st.succ
                   /\ Sound(s, m.req) /\ m.req.seq <= n
                \/ /\ m.req.type = "TRANSFER_TO" /\ m.req.seq = 0
                   /\ m.req.from = s /\ st.istail
      /\ m.type = "REPLY" => ActsAsTail(o.to)
      /\ m.type = "CLIENT_REPLY" =>
                /\ st.istail
                /\ m.entry.req.bank = BankOf[s] /\ m.entry.req.seq <= n
      /\ m.type = "ACKNOWLEDGE" =>
                /\ o.to = st.pre
                /\ (st.istail /\ m.seq <= n) \/ Applied(BankOf[s], m.seq)
      /\ m.type = "REQ_SEQ" => m.succ = s /\ Follows(m.pre, s) /\ m.seq <= n
      /\ m.type \notin {"NEW_PRE_SERVER", "NEW_SUCC_SERVER"}
  BY DEF Says
<1>5. \A k \in Int : st.istail /\ k <= n => Applied(BankOf[s], k)
  BY TailHasLeast
<1>6. \A k \in Int : \A t : Follows(s, t) /\ k <= n => AppliedBefore(t, k)
  BY SuccessorLags
<1> HIDE DEF m
<1>7. ASSUME m.type = "REQUEST", o.to \in Servers
      PROVE  Sound(o.to, m.req) /\ AppliedBefore(o.to, m.req.seq)
  <2>1. CASE o.to = st.succ /\ Sound(s, m.req) /\ m.req.seq <= n
    <3>1. Follows(s, o.to)
      BY <1>1, <1>3, <1>7, <2>1
    <3>2. AppliedBefore(o.to, m.req.seq)
      BY <1>2, <1>6, <1>7, <2>1, <3>1
    <3>3. Sound(o.to, m.req)
      BY <2>1, <3>1 DEF Sound, Follows, SameBank
    <3> QED
      BY <3>2, <3>3
  <2>2. CASE /\ m.req.type = "TRANSFER_TO" /\ m.req.seq = 0
             /\ m.req.from = s /\ st.istail
    <3>1. Sound(o.to, m.req)
      BY <2>2 DEF Sound, ActsAsTail
    <3>2. AppliedBefore(o.to, m.req.seq)
      BY <1>1, <2>2 DEF AppliedBefore
    <3> QED
      BY <3>1, <3>2
  <2> QED
    BY <1>4, <1>7, <2>1, <2>2
<1>8. m.type = "CLIENT_REPLY" => Applied(m.entry.req.bank, m.entry.req.seq)
  BY <1>2, <1>4, <1>5
<1>9. ASSUME m.type = "ACKNOWLEDGE", o.to \in Servers
      PROVE  Applied(BankOf[o.to], m.seq)
  <2>1. BankOf[o.to] = BankOf[s]
    BY <1>1, <1>3, <1>4, <1>9 DEF SameBank
  <2>2. Applied(BankOf[s], m.seq)
    BY <1>2, <1>4, <1>5, <1>9
  <2> QED
    BY <2>1, <2>2
<1>10. m.type = "REQ_SEQ" => GoodLink(m)
  BY <1>4 DEF GoodLink
<1> QED
  BY <1>4, <1>7, <1>8, <1>9, <1>10 DEF Good, m

LEMMA SaysGoodNext == (TypeOK /\ RolesInv /\ Descends)' => SaidIsGood'
PROOF
  BY SaysGood, PTL

\* What a handler says stays true.
LEMMA GrowsSays ==
    ASSUME TypeOK, TypeOK', Grows, NEW s, NEW st, NEW o, o.msg \in Message,
           Says(s, st, o)
    PROVE  Says(s, st, o)'
PROOF
<1> DEFINE m == o.msg
<1>1. m.type = "ACKNOWLEDGE" => m.seq \in Int
  BY MessageFields
<1> HIDE DEF m
<1>2. /\ \A b, n : n \in Int /\ Applied(b, n) => Applied(b, n)'
      /\ \A u, t : Follows(u, t) => Follows(u, t)'
      /\ \A x : ActsAsTail(x) => ActsAsTail(x)'
      /\ \A x, r : Sound(x, r) => Sound(x, r)'
  BY GrowsKeeps
<1> QED
  BY <1>1, <1>2 DEF Says, m

\* A handler leaves the servers, and what it sends, good.
LEMMA EffectKeeps ==
    ASSUME TypeOK, TypeOK', RolesInv', SeqInv, NEW s \in alive, NEW res,
           Outcome(srv[s], res), Effect(s, res),
           alive' = alive, srv' = [srv EXCEPT ![s] = res.st]
    PROVE  /\ Grows /\ GoodServers' /\ Descends'
           /\ \A i \in DOMAIN res.out : Good(res.out[i])'
PROOF
<1>1. /\ srv \in [Servers -> ServerState] /\ s \in Servers
      /\ alive \in SUBSET Servers /\ srv' \in [Servers -> ServerState]
  BY DEF TypeOK
<1>2. \A x \in Servers : srv'[x] = IF x = s THEN res.st ELSE srv[x]
  BY <1>1
<1>3. Grows
  <2>1. ASSUME NEW x \in alive
        PROVE  /\ srv[x].bank_update_seq <= srv'[x].bank_update_seq
               /\ srv[x].istail => srv'[x].istail
    <3>1. srv[x].bank_update_seq \in Nat /\ x \in Servers
      BY <1>1, ServerFields
    <3>2. \/ srv'[x].bank_update_seq = srv[x].bank_update_seq
          \/ srv'[x].bank_update_seq = srv[x].bank_update_seq + 1
      BY <1>2, <3>1 DEF Effect, Advances
    <3>3. srv[x].istail => srv'[x].istail
      BY <1>2, <3>1 DEF Effect, Advances
    <3> QED
      BY <3>1, <3>2, <3>3
  <2> QED
    BY <2>1 DEF Grows
<1>4. Descends'
  BY <1>3, EffectDescends
<1>5. ASSUME NEW x \in alive, NEW st, st = srv'[x] PROVE GoodState(x, st)'
  <2>1. st \in ServerState /\ x \in Servers
    BY <1>1, <1>5
  <2>2. GoodState(x, st)
    BY <1>2, <1>5, <2>1 DEF Effect, SeqInv, GoodServers
  <2> QED
    BY <1>3, <2>1, <2>2, GrowsState
<1>6. GoodServers'
  <2> SUFFICES ASSUME NEW x \in alive' PROVE GoodState(x, srv[x])'
    BY DEF GoodServers
  <2>1. PICK st : st = srv'[x]
    OBVIOUS
  <2>2. GoodState(x, st)'
    BY <1>5, <2>1
  <2> QED
    BY <2>1, <2>2
<1>7. ASSUME NEW i \in DOMAIN res.out PROVE Good(res.out[i])'
  <2> DEFINE o == res.out[i]
  <2>1. o.msg \in Message
    BY DEF Outcome, ServerSend, Outgoing
  <2>2. CASE Good(o)
    <3> HIDE DEF o
    <3>1. Good(o)'
      BY <1>3, <2>1, <2>2, GrowsGood
    <3> QED
      BY <3>1 DEF o
  <2>3. CASE Says(s, res.st, o)
    <3> HIDE DEF o
    <3>1. SaidIsGood'
      BY <1>4, SaysGoodNext
    <3>2. Says(s, res.st, o)'
      BY <1>3, <2>1, <2>3, GrowsSays
    <3>3. Says(s, srv[s], o)'
      BY <1>1, <1>2, <3>2
    <3> QED
      BY <1>6, <2>1, <3>1, <3>3 DEF SaidIsGood, GoodServers, o
  <2> QED
    BY <2>2, <2>3 DEF Effect
<1> QED
  BY <1>3, <1>4, <1>6, <1>7

-----------------------------------------------------------------------------
(* Where messages come from.                                               *)

\* An inbox after a delivery: it has the message at its end, or is as before.
LEMMA Delivered ==
    ASSUME TypeOK, NEW inbox \in Inboxes, NEW o \in Outgoing, NEW q \in Processes
    PROVE  LET new == send_msg_tcp(inbox, o)[q]
           IN  \/ new = inbox[q]
               \/ o.to = q /\ new = Append(inbox[q], o.msg)
PROOF
<1>1. CASE o.to \in alive \cup {Master}
  BY <1>1 DEF send_msg_tcp, Inboxes
<1>2. CASE o.to \notin alive \cup {Master}
  BY <1>2 DEF send_msg_tcp
<1> QED
  BY <1>1, <1>2

\* The messages of an inbox after a delivery.
LEMMA DeliveredContents ==
    ASSUME TypeOK, NEW inbox \in Inboxes, NEW o \in Outgoing, NEW q \in Processes,
           NEW new, new = send_msg_tcp(inbox, o)[q], NEW i \in DOMAIN new
    PROVE  \/ i \in DOMAIN inbox[q] /\ new[i] = inbox[q][i]
           \/ i = Len(inbox[q]) + 1 /\ q = o.to /\ new[i] = o.msg
PROOF
<1>1. inbox[q] \in Seq(Message) /\ o.msg \in Message
  BY DEF Inboxes, Outgoing
<1>2. CASE new = inbox[q]
  BY <1>2
<1>3. CASE o.to = q /\ new = Append(inbox[q], o.msg)
  BY <1>1, <1>3
<1> QED
  BY <1>2, <1>3, Delivered

\* Server or master p has taken a message off its inbox, or has not.
Took(p, inbox) ==
    \/ inbox = tcp
    \/ tcp[p] # <<>> /\ inbox = [tcp EXCEPT ![p] = Tail(tcp[p])]

\* The inboxes once p has taken its message.
LEMMA TookContents ==
    ASSUME TypeOK, NEW p \in Processes, NEW inbox, Took(p, inbox),
           NEW q \in Processes, NEW i \in DOMAIN inbox[q]
    PROVE  /\ inbox \in Inboxes
           /\ \E j \in DOMAIN tcp[q] : inbox[q][i] = tcp[q][j]
PROOF
<1>1. tcp \in [Processes -> Seq(Message)] /\ tcp[p] \in Seq(Message)
  BY DEF TypeOK
<1>2. CASE inbox = tcp
  BY <1>1, <1>2 DEF Inboxes
<1>3. CASE tcp[p] # <<>> /\ inbox = [tcp EXCEPT ![p] = Tail(tcp[p])]
  <2>1. Tail(tcp[p]) \in Seq(Message)
    BY <1>1, <1>3
  <2>2. inbox \in Inboxes
    BY <1>1, <1>3, <2>1 DEF Inboxes
  <2>3. CASE q # p
    BY <1>1, <1>3, <2>2, <2>3
  <2>4. CASE q = p
    <3>1. inbox[q] = Tail(tcp[p])
      BY <1>1, <1>3, <2>4
    <3>2. i + 1 \in DOMAIN tcp[p] /\ tcp[p][i + 1] = Tail(tcp[p])[i]
      BY <1>1, <1>3, <3>1
    <3> QED
      BY <2>2, <2>4, <3>1, <3>2
  <2> QED
    BY <2>3, <2>4
<1> QED
  BY <1>2, <1>3 DEF Took

\* What process p has sent and has still to send, and what clients have heard.
LEMMA TransmitContents ==
    ASSUME TypeOK, NEW p \in Processes, NEW inbox \in Inboxes,
           NEW out \in Seq(Outgoing), Transmit(p, inbox, out)
    PROVE  /\ \A q \in Processes : \A i \in DOMAIN tcp'[q] :
                \/ i \in DOMAIN inbox[q] /\ tcp'[q][i] = inbox[q][i]
                \/ /\ 1 \in DOMAIN out /\ i = Len(inbox[q]) + 1
                   /\ q = out[1].to /\ tcp'[q][i] = out[1].msg
           /\ \A q \in Processes : q # p => sending'[q] = sending[q]
           /\ \A i \in DOMAIN sending'[p] :
                /\ i \in Nat /\ i >= 1
                /\ i + 1 \in DOMAIN out /\ sending'[p][i] = out[i + 1]
           /\ \A e \in replies' :
                \/ e \in replies
                \/ /\ 1 \in DOMAIN out /\ out[1].msg.type = "CLIENT_REPLY"
                   /\ e = out[1].msg.entry
PROOF
<1>1. sending \in [Processes -> Seq(Outgoing)]
  BY DEF TypeOK
<1>2. CASE out = <<>>
  <2>1. /\ tcp' = inbox /\ replies' = replies
        /\ sending' = [sending EXCEPT ![p] = <<>>]
    BY <1>2 DEF Transmit
  <2> QED
    BY <1>1, <2>1
<1>3. CASE out # <<>>
  <2>1. Head(out) = out[1] /\ 1 \in DOMAIN out /\ out[1] \in Outgoing
    BY <1>3
  <2>2. /\ tcp' = send_msg_tcp(inbox, out[1])
        /\ sending' = [sending EXCEPT ![p] = Tail(out)]
        /\ replies' = IF out[1].msg.type = "CLIENT_REPLY"
                      THEN replies \cup {out[1].msg.entry} ELSE replies
    BY <1>3, <2>1 DEF Transmit, send_msg_udp
  <2>3. ASSUME NEW q \in Processes, NEW i \in DOMAIN tcp'[q]
        PROVE  \/ i \in DOMAIN inbox[q] /\ tcp'[q][i] = inbox[q][i]
               \/ /\ 1 \in DOMAIN out /\ i = Len(inbox[q]) + 1
                  /\ q = out[1].to /\ tcp'[q][i] = out[1].msg
    BY <2>1, <2>2, <2>3, DeliveredContents
  <2>4. \A q \in Processes : q # p => sending'[q] = sending[q]
    BY <1>1, <2>2
  <2>5. sending'[p] = Tail(out)
    BY <1>1, <2>2
  <2>6. \A i \in DOMAIN sending'[p] :
                /\ i \in Nat /\ i >= 1
                /\ i + 1 \in DOMAIN out /\ sending'[p][i] = out[i + 1]
    BY <1>3, <2>5
  <2> QED
    BY <2>1, <2>2, <2>3, <2>4, <2>6
<1> QED
  BY <1>2, <1>3

-----------------------------------------------------------------------------
(* What is under way stays good.                                           *)

\* What was good before a step.
LEMMA StillGood ==
    ASSUME TypeOK, TypeOK', Grows, SeqInv
    PROVE  /\ \A q \in Processes : \A m :
                (\E j \in DOMAIN tcp[q] : m = tcp[q][j]) => Good(Send(q, m))'
           /\ \A q \in Processes : \A o :
                (\E j \in DOMAIN sending[q] : o = sending[q][j]) =>
                    Good(o)' /\ Deferrable(o)
           /\ \A e \in replies : Applied(e.req.bank, e.req.seq)'
PROOF
<1>1. ASSUME NEW q \in Processes, NEW m,
             \E j \in DOMAIN tcp[q] : m = tcp[q][j]
      PROVE  Good(Send(q, m))'
  <2>1. Good(Send(q, m))
    BY <1>1 DEF SeqInv, GoodInboxes
  <2>2. tcp[q] \in Seq(Message)
    BY DEF TypeOK
  <2>3. Send(q, m).msg \in Message
    BY <1>1, <2>2 DEF Send
  <2> QED
    BY <2>1, <2>3, GrowsGood
<1>2. ASSUME NEW q \in Processes, NEW o,
             \E j \in DOMAIN sending[q] : o = sending[q][j]
      PROVE  Good(o)' /\ Deferrable(o)
  <2>1. Good(o) /\ Deferrable(o)
    BY <1>2 DEF SeqInv, GoodSends
  <2>2. sending[q] \in Seq(Outgoing)
    BY DEF TypeOK
  <2>3. o \in Outgoing
    BY <1>2, <2>2
  <2>4. o.msg \in Message
    BY <2>3 DEF Outgoing
  <2> QED
    BY <2>1, <2>4, GrowsGood
<1>3. ASSUME NEW e \in replies PROVE Applied(e.req.bank, e.req.seq)'
  <2>1. e.req.seq \in Nat
    BY RequestFields DEF TypeOK, Entry
  <2>2. Applied(e.req.bank, e.req.seq)
    BY DEF SeqInv, GoodReplies
  <2> QED
    BY <2>1, <2>2, GrowsKeeps
<1> QED
  BY <1>1, <1>2, <1>3

\* A process transmits good messages.
LEMMA TransmitKeeps ==
    ASSUME TypeOK, TypeOK', Grows, SeqInv,
           NEW p \in Processes, NEW inbox \in Inboxes, Took(p, inbox),
           NEW out \in Seq(Outgoing), Transmit(p, inbox, out),
           \A i \in DOMAIN out : Good(out[i])',
           \A i \in DOMAIN out : i # 1 => Deferrable(out[i])
    PROVE  GoodInboxes' /\ GoodSends' /\ GoodReplies'
PROOF
<1>1. ASSUME NEW q \in Processes, NEW m, \E i \in DOMAIN tcp'[q] : m = tcp'[q][i]
      PROVE  Good(Send(q, m))'
  <2>1. PICK i \in DOMAIN tcp'[q] : m = tcp'[q][i]
    BY <1>1
  <2>2. CASE i \in DOMAIN inbox[q] /\ tcp'[q][i] = inbox[q][i]
    <3>1. \E j \in DOMAIN tcp[q] : m = tcp[q][j]
      BY <2>1, <2>2, TookContents
    <3> QED
      BY <3>1, StillGood
  <2>3. CASE 1 \in DOMAIN out /\ q = out[1].to /\ tcp'[q][i] = out[1].msg
    <3>1. PICK o : o = out[1]
      OBVIOUS
    <3>2. Good(o)'
      BY <2>3, <3>1
    <3>3. o = Send(q, m)
      <4>1. o \in Outgoing
        BY <2>3, <3>1
      <4>2. o.to = q /\ o.msg = m
        BY <2>1, <2>3, <3>1
      <4> QED
        BY <4>1, <4>2 DEF Send, Outgoing
    <3> QED
      BY <3>2, <3>3
  <2> QED
    BY <2>2, <2>3, TransmitContents
<1>2. GoodInboxes'
  <2> SUFFICES ASSUME NEW q \in Processes, NEW i \in DOMAIN tcp'[q]
               PROVE  Good(Send(q, tcp[q][i]))'
    BY DEF GoodInboxes
  <2>1. PICK m : m = tcp'[q][i]
    OBVIOUS
  <2>2. Good(Send(q, m))'
    BY <1>1, <2>1
  <2> QED
    BY <2>1, <2>2
<1>3. ASSUME NEW q \in Processes, NEW i \in DOMAIN sending'[q], NEW o,
             o = sending'[q][i]
      PROVE  Good(o)' /\ Deferrable(o)
  <2>1. CASE q = p
    <3>1. i + 1 \in DOMAIN out /\ i + 1 # 1 /\ o = out[i + 1]
      <4>1. i \in Nat /\ i >= 1 /\ i + 1 \in DOMAIN out /\ o = out[i + 1]
        BY <1>3, <2>1, TransmitContents
      <4> QED
        BY <4>1
    <3> QED
      BY <3>1
  <2>2. CASE q # p
    <3>1. sending'[q] = sending[q]
      BY <2>2, TransmitContents
    <3> QED
      BY <1>3, <3>1, StillGood
  <2> QED
    BY <2>1, <2>2
<1>4. GoodSends'
  <2> SUFFICES ASSUME NEW q \in Processes, NEW i \in DOMAIN sending'[q]
               PROVE  Good(sending[q][i])' /\ Deferrable(sending'[q][i])
    BY DEF GoodSends, Deferrable
  <2>1. PICK o : o = sending'[q][i]
    OBVIOUS
  <2>2. Good(o)' /\ Deferrable(o)
    BY <1>3, <2>1
  <2> QED
    BY <2>1, <2>2
<1>5. GoodReplies'
  <2> SUFFICES ASSUME NEW e \in replies' PROVE Applied(e.req.bank, e.req.seq)'
    BY DEF GoodReplies
  <2>1. CASE e \in replies
    BY <2>1, StillGood
  <2>2. CASE /\ 1 \in DOMAIN out /\ out[1].msg.type = "CLIENT_REPLY"
             /\ e = out[1].msg.entry
    <3>1. PICK o : o = out[1]
      OBVIOUS
    <3>2. Good(o)' /\ o.msg.type = "CLIENT_REPLY" /\ e = o.msg.entry
      BY <2>2, <3>1
    <3> QED
      BY <3>2 DEF Good
  <2> QED
    BY <2>1, <2>2, TransmitContents
<1> QED
  BY <1>2, <1>4, <1>5

\* A server ends.
LEMMA DieKeeps ==
    ASSUME TypeOK, TypeOK', SeqInv, NEW s \in Servers, NEW inbox \in Inboxes,
           Took(s, inbox), Die(s, inbox)
    PROVE  Grows /\ SeqInv'
PROOF
<1>1. /\ alive' = alive \ {s}
      /\ srv' = [srv EXCEPT ![s] = InitialServer(s, FALSE)]
      /\ tcp' = [inbox EXCEPT ![s] = <<>>]
      /\ sending' = [sending EXCEPT ![s] = <<>>]
      /\ replies' = replies
  BY DEF Die
<1>2. /\ s \in Processes /\ alive \in SUBSET Servers
      /\ srv \in [Servers -> ServerState]
      /\ srv' \in [Servers -> ServerState]
      /\ sending \in [Processes -> Seq(Outgoing)]
  BY DEF TypeOK, Processes
<1>3. \A x \in alive' : x \in alive /\ srv'[x] = srv[x] /\ x \in Servers
  BY <1>1, <1>2
<1>4. Grows
  <2>1. \A x \in alive' : srv[x].bank_update_seq \in Nat
    BY <1>2, <1>3, ServerFields
  <2> QED
    BY <1>1, <1>3, <2>1 DEF Grows
<1>5. GoodInboxes'
  <2> SUFFICES ASSUME NEW q \in Processes, NEW i \in DOMAIN tcp'[q]
               PROVE  Good(Send(q, tcp[q][i]))'
    BY DEF GoodInboxes
  <2>1. PICK m : m = tcp'[q][i]
    OBVIOUS
  <2>2. i \in DOMAIN inbox[q] /\ m = inbox[q][i]
    <3>1. CASE q = s
      <4>1. tcp'[q] = <<>>
        BY <1>1, <1>2, <3>1 DEF Inboxes
      <4> QED
        BY <4>1
    <3>2. CASE q # s
      BY <1>1, <2>1, <3>2 DEF Inboxes
    <3> QED
      BY <3>1, <3>2
  <2>3. \E j \in DOMAIN tcp[q] : m = tcp[q][j]
    BY <1>2, <2>2, TookContents
  <2>4. Good(Send(q, m))'
    BY <1>4, <2>3, StillGood
  <2> QED
    BY <2>1, <2>4
<1>6. GoodSends'
  <2> SUFFICES ASSUME NEW q \in Processes, NEW i \in DOMAIN sending'[q]
               PROVE  Good(sending[q][i])' /\ Deferrable(sending'[q][i])
    BY DEF GoodSends, Deferrable
  <2>1. PICK o : o = sending'[q][i]
    OBVIOUS
  <2>2. q # s /\ sending'[q] = sending[q]
    BY <1>1, <1>2
  <2>3. Good(o)' /\ Deferrable(o)
    BY <1>4, <2>1, <2>2, StillGood
  <2> QED
    BY <2>1, <2>3
<1>7. GoodReplies'
  BY <1>1, <1>4, StillGood DEF GoodReplies
<1>8. GoodServers'
  <2> SUFFICES ASSUME NEW x \in alive' PROVE GoodState(x, srv[x])'
    BY DEF GoodServers
  <2>1. PICK st : st = srv[x]
    OBVIOUS
  <2>2. GoodState(x, st) /\ st \in ServerState
    BY <1>2, <1>3, <2>1 DEF SeqInv, GoodServers
  <2>3. GoodState(x, st)'
    BY <1>4, <2>2, GrowsState
  <2> QED
    BY <1>3, <2>1, <2>3
<1>9. Descends'
  BY <1>3 DEF SeqInv, Descends, AppliedBefore
<1> QED
  BY <1>4, <1>5, <1>6, <1>7, <1>8, <1>9 DEF SeqInv

-----------------------------------------------------------------------------
(* Steps of servers and clients.                                           *)

\* What server s does with the message m.
Answers(s, m, res) ==
    LET st == srv[s]
    IN  \/ m.type = "REQUEST" /\ res = receive_request(s, st, m.req)
        \/ m.type = "ACKNOWLEDGE" /\ res = receive_ack(st, m.seq)
        \/ m.type = "TO_BE_HEAD" /\ res = to_be_head(st)
        \/ m.type = "TO_BE_TAIL" /\ res = to_be_tail(s, st)
        \/ m.type = "NEW_PRE_SERVER" /\ res = receive_new_preserver(s, st, m.addr)
        \/ m.type = "NEW_SUCC_SERVER" /\ res = receive_new_succserver(st, m)
        \/ m.type = "REPLY" /\ res = receive_transfer_reply(st, m.reply)
        \/ m.type = "NEW_HEAD" /\ res = handle_new_head(s, st, m)

\* Server s handles the first message of its inbox, makes its next send, or
\* handles a client's request.
Handled(s, inbox, res) ==
    \/ /\ sending[s] = <<>> /\ tcp[s] # <<>>
       /\ inbox = [tcp EXCEPT ![s] = Tail(tcp[s])]
       /\ Answers(s, Head(tcp[s]), res)
    \/ /\ sending[s] # <<>> /\ inbox = tcp
       /\ res = [st |-> srv[s], out |-> sending[s]]
    \/ /\ sending[s] = <<>> /\ inbox = tcp
       /\ \E r \in ClientUpdates \cup ClientQueries :
            /\ r.bank = BankOf[s] /\ res = receive_request(s, srv[s], r)
            /\ r.type = "QUERY" => s \in known_tails[BankOf[s]]

\* The updates that arrive from clients are counted.
Counted(s, res) ==
    \/ /\ arrivals' = arrivals
       /\ \/ tcp[s] # <<>> /\ Answers(s, Head(tcp[s]), res)
          \/ res = [st |-> srv[s], out |-> sending[s]]
          \/ \E r \in ClientQueries :
                r.bank = BankOf[s] /\ res = receive_request(s, srv[s], r)
    \/ arrivals' = arrivals + 1 /\ arrivals < MaxArrivals

\* Server s handles a message of another process, makes its next send, or
\* handles a request of R.
Asked(s, R, res) ==
    \/ tcp[s] # <<>> /\ Answers(s, Head(tcp[s]), res)
    \/ res = [st |-> srv[s], out |-> sending[s]]
    \/ \E r \in R : r.bank = BankOf[s] /\ res = receive_request(s, srv[s], r)

\* Every step of a server that is not about a client's request, but a crash.
LEMMA ServerAnswers ==
    ASSUME NEW s \in Servers, ServerStep(s)
    PROVE  /\ s \in alive /\ UNCHANGED master
           /\ \E inbox, res : /\ Handled(s, inbox, res) /\ Perform(s, inbox, res)
                              /\ Counted(s, res) /\ Asked(s, {}, res)
PROOF
<1>1. ASSUME NEW type, NEW res, Handle(s, type, res),
             Head(tcp[s]).type = type => Answers(s, Head(tcp[s]), res)
      PROVE  /\ s \in alive /\ UNCHANGED master
             /\ \E inbox, r : /\ Handled(s, inbox, r) /\ Perform(s, inbox, r)
                              /\ Counted(s, r) /\ Asked(s, {}, r)
  <2> DEFINE inbox == [tcp EXCEPT ![s] = Tail(tcp[s])]
  <2>1. /\ s \in alive /\ sending[s] = <<>> /\ tcp[s] # <<>>
        /\ Head(tcp[s]).type = type /\ Perform(s, inbox, res)
        /\ UNCHANGED <<master, arrivals>>
    BY <1>1 DEF Handle, Idle
  <2>2. Handled(s, inbox, res) /\ Counted(s, res) /\ Asked(s, {}, res)
    BY <1>1, <2>1, Zenon DEF Handled, Counted, Asked
  <2> QED
    BY <2>1, <2>2, Zenon
<1>2. CASE ReceiveRequest(s)
  BY <1>1, <1>2, Zenon DEF ReceiveRequest, Answers
<1>3. CASE ReceiveAck(s)
  BY <1>1, <1>3, Zenon DEF ReceiveAck, Answers
<1>4. CASE ToBeHead(s)
  BY <1>1, <1>4, Zenon DEF ToBeHead, Answers
<1>5. CASE ToBeTail(s)
  BY <1>1, <1>5, Zenon DEF ToBeTail, Answers
<1>6. CASE ReceiveNewPreServer(s)
  BY <1>1, <1>6, Zenon DEF ReceiveNewPreServer, Answers
<1>7. CASE ReceiveNewSuccServer(s)
  BY <1>1, <1>7, Zenon DEF ReceiveNewSuccServer, Answers
<1>8. CASE ReceiveTransferReply(s)
  BY <1>1, <1>8, Zenon DEF ReceiveTransferReply, Answers
<1>9. CASE HandleNewHead(s)
  BY <1>1, <1>9, Zenon DEF HandleNewHead, Answers
<1>10. CASE Continue(s)
  <2> DEFINE res == [st |-> srv[s], out |-> sending[s]]
  <2>1. /\ s \in alive /\ sending[s] # <<>>
        /\ Perform(s, tcp, res) /\ UNCHANGED <<master, arrivals>>
    BY <1>10 DEF Continue
  <2>2. Handled(s, tcp, res) /\ Counted(s, res) /\ Asked(s, {}, res)
    BY <2>1, Zenon DEF Handled, Counted, Asked
  <2> QED
    BY <2>1, <2>2, Zenon
<1> QED
  BY <1>2, <1>3, <1>4, <1>5, <1>6, <1>7, <1>8, <1>9, <1>10 DEF ServerStep

\* Every step of a server, but a crash.
LEMMA StepHandles ==
    ASSUME NEW s \in Servers, ServerStep(s) \/ ClientUpdate(s) \/ ClientQuery(s)
    PROVE  /\ s \in alive /\ UNCHANGED master
           /\ \E inbox, res : /\ Handled(s, inbox, res) /\ Perform(s, inbox, res)
                              /\ Counted(s, res)
PROOF
<1>1. CASE ClientUpdate(s) \/ ClientQuery(s)
  <2>1. s \in alive /\ sending[s] = <<>> /\ UNCHANGED master
    BY <1>1 DEF ClientUpdate, ClientQuery, Idle
  <2>2. PICK r \in ClientUpdates \cup ClientQueries :
            /\ r.bank = BankOf[s]
            /\ Perform(s, tcp, receive_request(s, srv[s], r))
            /\ r.type = "QUERY" => s \in known_tails[BankOf[s]]
            /\ \/ arrivals' = arrivals /\ r \in ClientQueries
               \/ arrivals' = arrivals + 1 /\ arrivals < MaxArrivals
    BY <1>1, ChainAssumption DEF ClientUpdate, ClientQuery, ClientRequest
  <2>3. Handled(s, tcp, receive_request(s, srv[s], r))
    BY <2>1, <2>2, Zenon DEF Handled
  <2>4. Counted(s, receive_request(s, srv[s], r))
    BY <2>2, Zenon DEF Counted
  <2> QED
    BY <2>1, <2>2, <2>3, <2>4, Zenon
<1>2. CASE ServerStep(s)
  BY <1>2, ServerAnswers, Zenon
<1> QED
  BY <1>1, <1>2

\* The first message of an inbox is well formed and good.
LEMMA FirstMessage ==
    ASSUME TypeOK, SeqInv, NEW s \in alive, tcp[s] # <<>>
    PROVE  /\ Head(tcp[s]) \in Message
           /\ Good(Send(s, Head(tcp[s])))
PROOF
<1>1. tcp[s] \in Seq(Message) /\ s \in Processes
  BY DEF TypeOK, Processes
<1>2. 1 \in DOMAIN tcp[s] /\ tcp[s][1] = Head(tcp[s]) /\ Head(tcp[s]) \in Message
  BY <1>1
<1> QED
  BY <1>1, <1>2 DEF SeqInv, GoodInboxes

\* What a handler may do with the first message of the inbox.
LEMMA AnswerEffect ==
    ASSUME TypeOK, RolesInv, SeqInv, NEW s \in alive, NEW m \in Message,
           Good(Send(s, m)), NEW res, Answers(s, m, res)
    PROVE  Outcome(srv[s], res) /\ Effect(s, res)
PROOF
<1>1. /\ s \in Servers /\ srv[s] \in ServerState
      /\ Send(s, m).to = s /\ Send(s, m).msg = m
  BY DEF TypeOK, Send
<1>2. /\ m.type = "REQUEST" => Sound(s, m.req) /\ AppliedBefore(s, m.req.seq)
      /\ m.type = "REPLY" => ActsAsTail(s)
      /\ m.type = "ACKNOWLEDGE" => Applied(BankOf[s], m.seq)
      /\ m.type = "NEW_PRE_SERVER" => Follows(m.addr, s)
      /\ m.type = "NEW_SUCC_SERVER" => Follows(m.pre, m.succ) /\ s = m.pre
  BY <1>1 DEF Good, GoodLink
<1>3. CASE m.type = "REQUEST" /\ res = receive_request(s, srv[s], m.req)
  <2>1. m.req \in Request /\ m.req.type # "QUERY"
    BY <1>2, <1>3, MessageFields DEF Sound
  <2> QED
    BY <1>1, <1>2, <1>3, <2>1, ReceiveRequestOutcome, RequestEffect
<1>4. CASE m.type = "ACKNOWLEDGE" /\ res = receive_ack(srv[s], m.seq)
  BY <1>1, <1>2, <1>4, MessageFields, ReceiveAckOutcome, AckEffect
<1>5. CASE m.type = "TO_BE_HEAD" /\ res = to_be_head(srv[s])
  BY <1>1, <1>5, ToBeHeadOutcome, HeadEffect
<1>6. CASE m.type = "TO_BE_TAIL" /\ res = to_be_tail(s, srv[s])
  BY <1>1, <1>6, ToBeTailOutcome, NewTailEffect
<1>7. CASE /\ m.type = "NEW_PRE_SERVER"
           /\ res = receive_new_preserver(s, srv[s], m.addr)
  BY <1>1, <1>2, <1>7, MessageFields, NewPreServerOutcome, NewPreEffect
<1>8. CASE m.type = "NEW_SUCC_SERVER" /\ res = receive_new_succserver(srv[s], m)
  BY <1>1, <1>2, <1>8, MessageFields, NewSuccServerOutcome, NewSuccEffect
<1>9. CASE m.type = "REPLY" /\ res = receive_transfer_reply(srv[s], m.reply)
  BY <1>1, <1>2, <1>9, MessageFields, TransferReplyOutcome, TransferReplyEffect
<1>10. CASE m.type = "NEW_HEAD" /\ res = handle_new_head(s, srv[s], m)
  BY <1>1, <1>10, MessageFields, NewHeadOutcome, NewHeadEffect
<1> QED
  BY <1>3, <1>4, <1>5, <1>6, <1>7, <1>8, <1>9, <1>10 DEF Answers

\* What a handler, a further send or a client's request may do.
LEMMA HandledEffect ==
    ASSUME TypeOK, ServersObey, RolesInv, SeqInv, NEW s \in alive,
           NEW inbox, NEW res, Handled(s, inbox, res)
    PROVE  /\ inbox \in Inboxes /\ Took(s, inbox)
           /\ Outcome(srv[s], res) /\ Effect(s, res)
PROOF
<1>1. /\ s \in Servers /\ srv[s] \in ServerState /\ s \in Processes
      /\ tcp \in Inboxes /\ tcp[s] \in Seq(Message)
  BY DEF TypeOK, Processes, Inboxes
<1>2. CASE /\ tcp[s] # <<>> /\ inbox = [tcp EXCEPT ![s] = Tail(tcp[s])]
           /\ Answers(s, Head(tcp[s]), res)
  <2>1. Tail(tcp[s]) \in Seq(Message)
    BY <1>1, <1>2
  <2>2. inbox \in Inboxes
    BY <1>1, <1>2, <2>1 DEF Inboxes
  <2>3. Took(s, inbox)
    BY <1>2 DEF Took
  <2> QED
    BY <1>2, <2>2, <2>3, FirstMessage, AnswerEffect
<1>3. CASE inbox = tcp /\ res = [st |-> srv[s], out |-> sending[s]]
  <2>1. sending[s] \in Seq(ServerSend)
    BY <1>1 DEF ServersObey
  <2>2. Outcome(srv[s], res)
    BY <1>1, <1>3, <2>1, OutcomeOf
  <2> QED
    BY <1>1, <1>3, <2>2, ContinueEffect DEF Took
<1>4. CASE /\ inbox = tcp
           /\ \E r \in ClientUpdates \cup ClientQueries :
                r.bank = BankOf[s] /\ res = receive_request(s, srv[s], r)
  <2>1. PICK r \in ClientUpdates \cup ClientQueries :
                r.bank = BankOf[s] /\ res = receive_request(s, srv[s], r)
    BY <1>4
  <2>2. /\ r \in Request /\ r.seq = 0
        /\ r.type \in {"DEPOSIT", "WITHDRAW", "TRANSFER", "QUERY"}
    BY ChainAssumption DEF ClientRequest
  <2>3. Outcome(srv[s], res)
    BY <1>1, <2>1, <2>2, ReceiveRequestOutcome
  <2>4. r.type # "QUERY" => Sound(s, r)
    BY <2>1, <2>2 DEF Sound
  <2>5. AppliedBefore(s, r.seq)
    <3>1. \A x \in alive : srv[x].bank_update_seq \in Nat
      BY ServerFields DEF TypeOK
    <3> QED
      BY <2>2, <3>1 DEF AppliedBefore
  <2>6. Effect(s, res)
    BY <2>1, <2>2, <2>4, <2>5, RequestEffect
  <2> QED
    BY <1>1, <1>4, <2>3, <2>6 DEF Took
<1> QED
  BY <1>2, <1>3, <1>4 DEF Handled

\* A server performs what a handler returned.
LEMMA PerformKeeps ==
    ASSUME TypeOK, TypeOK', RolesInv', SeqInv, NEW s \in alive,
           NEW inbox \in Inboxes, Took(s, inbox), NEW res,
           Outcome(srv[s], res), Effect(s, res), Perform(s, inbox, res)
    PROVE  Grows /\ SeqInv'
PROOF
<1>1. s \in Servers /\ s \in Processes
  BY DEF TypeOK, Processes
<1>2. CASE Die(s, inbox)
  BY <1>1, <1>2, DieKeeps
<1>3. CASE /\ srv' = [srv EXCEPT ![s] = res.st]
           /\ Transmit(s, inbox, res.out)
           /\ UNCHANGED alive
  <2>1. /\ Grows /\ GoodServers' /\ Descends'
        /\ \A i \in DOMAIN res.out : Good(res.out[i])'
    BY <1>3, EffectKeeps
  <2>2. res.out \in Seq(Outgoing)
    <3>1. ServerSend \in SUBSET Outgoing /\ res.out \in Seq(ServerSend)
      BY DEF ServerSend, Outcome
    <3> QED
      BY <3>1
  <2>3. \A i \in DOMAIN res.out : i # 1 => Deferrable(res.out[i])
    BY DEF Effect
  <2>4. PICK out \in Seq(Outgoing) : out = res.out
    BY <2>2
  <2>5. GoodInboxes' /\ GoodSends' /\ GoodReplies'
    BY <1>1, <1>3, <2>1, <2>3, <2>4, TransmitKeeps
  <2> QED
    BY <2>1, <2>5 DEF SeqInv
<1> QED
  BY <1>2, <1>3 DEF Perform

\* Every step of a server or of its clients.
LEMMA ServerKeeps ==
    ASSUME TypeOK, ServersObey, TypeOK', RolesInv, RolesInv', SeqInv,
           NEW s \in Servers,
           ServerStep(s) \/ ClientUpdate(s) \/ ClientQuery(s) \/ Crash(s)
    PROVE  SeqInv'
PROOF
<1>1. CASE ServerStep(s) \/ ClientUpdate(s) \/ ClientQuery(s)
  <2>1. /\ s \in alive
        /\ \E inbox, res : Handled(s, inbox, res) /\ Perform(s, inbox, res)
    BY <1>1, StepHandles
  <2>2. PICK inbox, res : Handled(s, inbox, res) /\ Perform(s, inbox, res)
    BY <2>1
  <2> QED
    BY <2>1, <2>2, HandledEffect, PerformKeeps
<1>2. CASE Crash(s)
  <2>1. Die(s, tcp) /\ tcp \in Inboxes /\ Took(s, tcp)
    BY <1>2 DEF Crash, TypeOK, Inboxes, Took
  <2> QED
    BY <2>1, DieKeeps
<1> QED
  BY <1>1, <1>2

-----------------------------------------------------------------------------
(* Steps of the master.                                                    *)

\* The servers are as they were.
LEMMA SameServers ==
    ASSUME SeqInv, srv' = srv, alive' = alive
    PROVE  GoodServers' /\ Descends'
PROOF
  BY DEF SeqInv, GoodServers, GoodState, Descends, AppliedBefore, AppliedAfter,
         Follows, Sound, ActsAsTail, SameBank, Run

\* The servers are as they were: what was good is good, and so is what the
\* master sends, if it is good now.
LEMMA MasterKeeps ==
    ASSUME TypeOK, TypeOK', SeqInv, UNCHANGED servers, NEW out \in Seq(Outgoing),
           Transmit(Master, tcp, out),
           \A i \in DOMAIN out : Good(out[i]) /\ Deferrable(out[i])
    PROVE  SeqInv'
PROOF
<1>1. srv' = srv /\ alive' = alive /\ alive \in SUBSET Servers
  BY DEF servers, TypeOK
<1>2. Grows
  <2>1. \A x \in alive : srv[x].bank_update_seq \in Nat
    BY ServerFields DEF TypeOK
  <2> QED
    BY <1>1, <2>1 DEF Grows
<1>3. \A i \in DOMAIN out : Good(out[i])'
  <2> SUFFICES ASSUME NEW i \in DOMAIN out PROVE Good(out[i])'
    OBVIOUS
  <2>1. out[i] \in Outgoing
    OBVIOUS
  <2>2. out[i].msg \in Message /\ Good(out[i])
    BY <2>1 DEF Outgoing
  <2> QED
    BY <1>2, <2>2, GrowsGood
<1>4. Master \in Processes /\ tcp \in Inboxes /\ Took(Master, tcp)
  BY DEF Processes, TypeOK, Inboxes, Took
<1>5. GoodInboxes' /\ GoodSends' /\ GoodReplies'
  BY <1>2, <1>3, <1>4, TransmitKeeps
<1>6. GoodServers' /\ Descends'
  BY <1>1, SameServers
<1> QED
  BY <1>5, <1>6 DEF SeqInv

OrderTypes ==
    {"TO_BE_HEAD", "NEW_HEAD", "TO_BE_TAIL", "NEW_TAIL", "NEW_PRE_SERVER"}

\* An announcement of a head or tail names a server of the bank.
OwnServer(o) ==
    o.msg.type \in {"NEW_HEAD", "NEW_TAIL"} => BankOf[o.msg.server] = o.msg.bank

\* notify_crash: the neighbours of a crashed server inside a chain have nobody
\* alive between them.
LEMMA NotifySends ==
    ASSUME TypeOK, MasterKnowsEnds, RolesInv,
           NEW b \in Banks, NEW s \in Servers,
           \/ NotifyHeadCrash(b, s)
           \/ NotifyTailCrash(b, s)
           \/ NotifyInternalCrash(b, s)
    PROVE  /\ UNCHANGED servers
           /\ \E out \in Seq(Outgoing) :
                /\ Transmit(Master, tcp, out)
                /\ \A i \in DOMAIN out : /\ Good(out[i]) /\ Deferrable(out[i])
                                         /\ out[i].msg.type \in OrderTypes
                                         /\ OwnServer(out[i])
PROOF
<1> DEFINE S == chain[b]
<1>1. /\ chain \in [Banks -> SUBSET Servers] /\ alive \in SUBSET Servers
      /\ head \in [Banks -> Servers] /\ tail \in [Banks -> Servers]
      /\ IsFirst(S, head[b]) /\ IsLast(S, tail[b])
  BY DEF TypeOK, MasterKnowsEnds
<1>2. s \in S /\ s \notin alive /\ UNCHANGED servers
  BY DEF NotifyHeadCrash, NotifyTailCrash, NotifyInternalCrash, NotifyCrash
<1>3. /\ S \in SUBSET Servers /\ S \in SUBSET ServersOf(b)
      /\ \A x \in alive : x \in chain[BankOf[x]]
  BY <1>1 DEF RolesInv, ChainsHoldTheLiving
<1>4. /\ s # tail[b] => /\ SuccOf(S, s) \in S \ {s}
                        /\ IsFirst(After(S, s), SuccOf(S, s))
      /\ s # head[b] => /\ PreOf(S, s) \in S \ {s}
                        /\ IsLast(Before(S, s), PreOf(S, s))
  <2> DEFINE h == head[b]
             t == tail[b]
  <2>1. /\ S \in SUBSET Servers /\ h \in Servers /\ t \in Servers
        /\ IsFirst(S, h) /\ IsLast(S, t) /\ s \in S
    BY <1>1, <1>2, <1>3
  <2> HIDE DEF S, h, t
  <2>2. /\ s # t => SuccOf(S, s) \in S \ {s}
        /\ s # t => IsFirst(After(S, s), SuccOf(S, s))
    <3>1. s # t => SuccOf(S, s) \in S \ {s}
      BY <2>1, RemoveServer
    <3>2. s # t => t \in After(S, s)
      <4>1. \A x \in S : x \in Int
        BY <2>1, BankAssumption DEF Servers
      <4> QED
        BY <2>1, <4>1 DEF IsLast, After
    <3>3. s # t => IsFirst(After(S, s), SuccOf(S, s))
      BY <2>1, <3>2, Neighbours
    <3> QED
      BY <3>1, <3>3
  <2>3. s # h => /\ PreOf(S, s) \in S \ {s}
                 /\ IsLast(Before(S, s), PreOf(S, s))
    BY <2>1, RemoveServer
  <2> QED
    BY <2>2, <2>3 DEF h, t
<1>5. CASE NotifyHeadCrash(b, s)
  <2> DEFINE h == SuccOf(S, s)
  <2>1. /\ s # tail[b]
        /\ Transmit(Master, tcp, NewHeadSends(b, s, h))
    BY <1>5 DEF NotifyHeadCrash, NotifyCrash
  <2>2. h \in Servers /\ BankOf[h] = b
    BY <1>3, <1>4, <2>1 DEF ServersOf
  <2> HIDE DEF h
  <2>3. NewHeadSends(b, s, h) \in Seq(Outgoing)
    BY <2>2, CrashSends
  <2>4. PICK out \in Seq(Outgoing) : out = NewHeadSends(b, s, h)
    BY <2>3
  <2>5. \A i \in DOMAIN out : /\ out[i].msg.type \in {"TO_BE_HEAD", "NEW_HEAD"}
                              /\ OwnServer(out[i])
    BY <2>2, <2>4, HeadSendTypes DEF OwnServer
  <2>6. \A i \in DOMAIN out : Good(out[i]) /\ Deferrable(out[i])
    BY <2>5 DEF Good, Deferrable
  <2> QED
    BY <1>2, <2>1, <2>4, <2>5, <2>6 DEF OrderTypes
<1>6. CASE NotifyTailCrash(b, s)
  <2> DEFINE t == PreOf(S, s)
  <2>1. s # head[b] /\ Transmit(Master, tcp, NewTailSends(b, t))
    BY <1>6 DEF NotifyTailCrash, NotifyCrash
  <2>2. t \in Servers /\ BankOf[t] = b
    BY <1>3, <1>4, <2>1 DEF ServersOf
  <2> HIDE DEF t
  <2>3. NewTailSends(b, t) \in Seq(Outgoing)
    BY <2>2, CrashSends
  <2>4. PICK out \in Seq(Outgoing) : out = NewTailSends(b, t)
    BY <2>3
  <2>5. \A i \in DOMAIN out : /\ out[i].msg.type \in {"TO_BE_TAIL", "NEW_TAIL"}
                              /\ OwnServer(out[i])
    BY <2>2, <2>4 DEF NewTailSends, Send, OwnServer
  <2>6. \A i \in DOMAIN out : Good(out[i]) /\ Deferrable(out[i])
    BY <2>5 DEF Good, Deferrable
  <2> QED
    BY <1>2, <2>1, <2>4, <2>5, <2>6 DEF OrderTypes
<1>7. CASE NotifyInternalCrash(b, s)
  <2> DEFINE u == PreOf(S, s)
             t == SuccOf(S, s)
  <2>1. s # head[b] /\ s # tail[b] /\ Transmit(Master, tcp, NewPreSends(b, s))
    BY <1>7 DEF NotifyInternalCrash, NotifyCrash
  <2>2. /\ u \in S /\ t \in S /\ u \in Servers /\ t \in Servers
        /\ IsFirst(After(S, s), t) /\ IsLast(Before(S, s), u)
    BY <1>3, <1>4, <2>1
  <2>3. NewPreSends(b, s) \in Seq(Outgoing)
    BY <2>2, PreSendType
  <2>4. PICK out \in Seq(Outgoing) : out = NewPreSends(b, s)
    BY <2>3
  <2>5. \A i \in DOMAIN out : /\ out[i].to = t
                              /\ out[i].msg.type = "NEW_PRE_SERVER"
                              /\ out[i].msg.addr = u
    BY <2>4 DEF NewPreSends, Send
  <2> HIDE DEF u, t
  <2>6. Follows(u, t)
    <3>1. \A x \in Servers : x \in Int
      BY BankAssumption DEF Servers
    <3>2. u < s /\ s < t /\ BankOf[u] = b /\ BankOf[t] = b
      BY <1>3, <2>2 DEF IsFirst, IsLast, After, Before, ServersOf
    <3>3. ASSUME NEW x \in alive, BankOf[x] = b, u < x, x < t PROVE FALSE
      <4>1. x \in S /\ x # s /\ x \in Servers
        BY <1>1, <1>2, <1>3, <3>3
      <4>2. ~(s < x)
        BY <2>2, <3>3, <4>1 DEF IsFirst, After, Before
      <4>3. ~(x < s)
        BY <2>2, <3>3, <4>1 DEF IsLast, After, Before
      <4> QED
        BY <3>1, <4>1, <4>2, <4>3
    <3> QED
      BY <2>2, <3>1, <3>2, <3>3 DEF Follows, SameBank
  <2>7. \A i \in DOMAIN out : Good(out[i]) /\ Deferrable(out[i])
    BY <2>5, <2>6 DEF Good, Deferrable
  <2>8. \A i \in DOMAIN out : OwnServer(out[i])
    BY <2>5 DEF OwnServer
  <2> QED
    BY <1>2, <2>1, <2>4, <2>5, <2>7, <2>8 DEF OrderTypes
<1> QED
  BY <1>5, <1>6, <1>7

\* The master notices a crash.
LEMMA NotifyKeeps ==
    ASSUME TypeOK, TypeOK', MasterKnowsEnds, RolesInv, SeqInv,
           NEW b \in Banks, NEW s \in Servers,
           \/ NotifyHeadCrash(b, s)
           \/ NotifyTailCrash(b, s)
           \/ NotifyInternalCrash(b, s)
    PROVE  SeqInv'
PROOF
<1>1. PICK out \in Seq(Outgoing) :
        /\ Transmit(Master, tcp, out)
        /\ \A i \in DOMAIN out : Good(out[i]) /\ Deferrable(out[i])
  BY NotifySends
<1>2. UNCHANGED servers
  BY NotifySends
<1> QED
  BY <1>1, <1>2, MasterKeeps

\* The further sends of notify_crash, and the answer to a REQ_SEQ.
LEMMA OtherMasterKeeps ==
    ASSUME TypeOK, TypeOK', SeqInv, MasterContinue \/ ForwardReqSeq
    PROVE  SeqInv'
PROOF
<1>1. /\ Master \in Processes /\ tcp \in Inboxes
      /\ sending[Master] \in Seq(Outgoing)
      /\ tcp[Master] \in Seq(Message)
  BY DEF TypeOK, Processes, Inboxes
<1>2. CASE MasterContinue
  <2>1. Transmit(Master, tcp, sending[Master]) /\ UNCHANGED servers
    BY <1>2 DEF MasterContinue
  <2>2. PICK out \in Seq(Outgoing) : out = sending[Master]
    BY <1>1
  <2>3. \A i \in DOMAIN out : Good(out[i]) /\ Deferrable(out[i])
    BY <1>1, <2>2 DEF SeqInv, GoodSends
  <2> QED
    BY <2>1, <2>2, <2>3, MasterKeeps
<1>3. CASE ForwardReqSeq
  <2> DEFINE m == Head(tcp[Master])
             n == [m EXCEPT !.type = "NEW_SUCC_SERVER"]
             inbox == [tcp EXCEPT ![Master] = Tail(tcp[Master])]
  <2>1. /\ tcp[Master] # <<>> /\ m.type = "REQ_SEQ"
        /\ tcp' = send_msg_tcp(inbox, Send(m.pre, n))
        /\ sending' = sending /\ replies' = replies
        /\ srv' = srv /\ alive' = alive
    BY <1>3 DEF ForwardReqSeq, servers, clients
  <2>2. /\ m \in Message /\ Tail(tcp[Master]) \in Seq(Message)
        /\ 1 \in DOMAIN tcp[Master] /\ m = tcp[Master][1]
    BY <1>1, <2>1
  <2>3. inbox \in Inboxes /\ Took(Master, inbox)
    BY <1>1, <2>1, <2>2 DEF Inboxes, Took
  <2>4. GoodLink(m) /\ m.seq \in Nat
    <3>1. Good(Send(Master, m))
      BY <1>1, <2>2 DEF SeqInv, GoodInboxes
    <3> QED
      BY <2>1, <2>2, <3>1, MessageFields DEF Good, Send
  <2>5. Grows
    <3>1. \A x \in alive : srv[x].bank_update_seq \in Nat
      BY ServerFields DEF TypeOK
    <3> QED
      BY <2>1, <3>1 DEF Grows
  <2>6. Send(m.pre, n) \in Outgoing
    BY <2>1, <2>2, ForwardedReqSeq
  <2>7. /\ n.type = "NEW_SUCC_SERVER" /\ n.pre = m.pre /\ n.succ = m.succ
        /\ n.seq = m.seq
    <3>1. m = [type |-> m.type, seq |-> m.seq, pre |-> m.pre, succ |-> m.succ]
      BY <2>1, <2>2, MessageFields
    <3> QED
      BY <3>1
  <2>8. PICK o \in Outgoing : o = Send(m.pre, n)
    BY <2>6
  <2>9. /\ o.msg.type = "NEW_SUCC_SERVER" /\ o.to = o.msg.pre
        /\ GoodLink(o.msg)
    <3> HIDE DEF n, m
    <3> QED
      BY <2>4, <2>7, <2>8 DEF Send, GoodLink
  <2>10. Good(o)'
    <3>1. Good(o)
      BY <2>9 DEF Good
    <3>2. o.msg \in Message
      BY DEF Outgoing
    <3> QED
      BY <2>5, <3>1, <3>2, GrowsGood
  <2>11. GoodInboxes'
    <3> SUFFICES ASSUME NEW q \in Processes, NEW i \in DOMAIN tcp'[q]
                 PROVE  Good(Send(q, tcp[q][i]))'
      BY DEF GoodInboxes
    <3>1. PICK k : k = tcp'[q][i]
      OBVIOUS
    <3> HIDE DEF inbox, m, n
    <3>2. CASE i \in DOMAIN inbox[q] /\ k = inbox[q][i]
      <4>1. \E j \in DOMAIN tcp[q] : k = tcp[q][j]
        BY <1>1, <2>3, <3>2, TookContents
      <4>2. Good(Send(q, k))'
        BY <2>5, <4>1, StillGood
      <4> QED
        BY <3>1, <4>2
    <3>3. CASE q = o.to /\ k = o.msg
      <4>1. o = Send(q, k)
        BY <3>3 DEF Send, Outgoing
      <4>2. Good(Send(q, k))'
        BY <2>10, <4>1
      <4> QED
        BY <3>1, <4>2
    <3>4. tcp' = send_msg_tcp(inbox, o)
      BY <2>1, <2>8
    <3> QED
      BY <2>3, <3>1, <3>2, <3>3, <3>4, DeliveredContents
  <2>12. GoodSends' /\ GoodReplies'
    <3>1. GoodSends'
      <4> SUFFICES ASSUME NEW q \in Processes, NEW i \in DOMAIN sending'[q]
                   PROVE  Good(sending[q][i])' /\ Deferrable(sending'[q][i])
        BY DEF GoodSends, Deferrable
      <4>1. PICK k : k = sending'[q][i]
        OBVIOUS
      <4>2. Good(k)' /\ Deferrable(k)
        BY <2>1, <2>5, <4>1, StillGood
      <4> QED
        BY <4>1, <4>2
    <3> QED
      BY <2>1, <2>5, <3>1, StillGood DEF GoodReplies
  <2>13. GoodServers' /\ Descends'
    BY <2>1, SameServers
  <2> QED
    BY <2>11, <2>12, <2>13 DEF SeqInv
<1> QED
  BY <1>2, <1>3

-----------------------------------------------------------------------------
(* The invariant.                                                          *)

\* Nobody has applied anything in the initial state.
LEMMA InitSeq == Init => SeqInv
PROOF
<1> SUFFICES ASSUME Init PROVE SeqInv
  OBVIOUS
<1>1. PICK flag \in [Servers -> UninitializedFlag] :
        srv = [s \in Servers |-> InitialServer(s, flag[s])]
  BY DEF Init
<1>2. /\ alive = Servers
      /\ tcp = [p \in Processes |-> <<>>]
      /\ sending = [p \in Processes |-> <<>>]
      /\ replies = {}
  BY DEF Init
<1>3. GoodInboxes /\ GoodSends /\ GoodReplies
  BY <1>2 DEF GoodInboxes, GoodSends, GoodReplies
<1>4. \A s \in Servers :
        /\ srv[s].bank_update_seq = 0
        /\ srv[s].ledger.sent = <<>>
        /\ srv[s].pre = PreOf(ServersOf(BankOf[s]), s)
        /\ srv[s].succ = SuccOf(ServersOf(BankOf[s]), s)
  BY <1>1 DEF InitialServer, EmptyLedger
<1>5. Descends
  BY <1>2, <1>4 DEF Descends, AppliedBefore
<1>6. ASSUME NEW s \in Servers PROVE GoodState(s, srv[s])
  <2> DEFINE S == ServersOf(BankOf[s])
             t == srv[s].succ
             u == srv[s].pre
  <2>1. \A x \in Servers : x \in Int
    BY BankAssumption DEF Servers
  <2>2. S \in SUBSET Servers
    BY DEF ServersOf
  <2>3. /\ t # Nobody => IsFirst(After(S, s), t)
        /\ u # Nobody => IsLast(Before(S, s), u)
    <3>1. (\E x \in S : IsFirst(After(S, s), x)) =>
                IsFirst(After(S, s), SuccOf(S, s))
      BY Zenon DEF SuccOf
    <3>2. (\E x \in S : IsLast(Before(S, s), x)) =>
                IsLast(Before(S, s), PreOf(S, s))
      BY Zenon DEF PreOf
    <3>3. (~\E x \in S : IsFirst(After(S, s), x)) => SuccOf(S, s) = Nobody
      BY Zenon DEF SuccOf
    <3>4. (~\E x \in S : IsLast(Before(S, s), x)) => PreOf(S, s) = Nobody
      BY Zenon DEF PreOf
    <3> QED
      BY <1>4, <3>1, <3>2, <3>3, <3>4
  <2> HIDE DEF t, u
  <2>4. t # Nobody => Follows(s, t)
    BY <1>2, <2>1, <2>2, <2>3
    DEF Follows, SameBank, IsFirst, After, Before, ServersOf
  <2>5. u # Nobody => SameBank(u, s)
    BY <2>3 DEF SameBank, IsLast, Before, ServersOf
  <2>6. /\ srv[s].bank_update_seq = 0 /\ srv[s].ledger.sent = <<>>
        /\ Len(srv[s].ledger.sent) = 0
    BY <1>4
  <2>7. AppliedAfter(s, 0 - 0)
    BY <1>2, <1>4 DEF AppliedAfter
  <2> QED
    BY <2>4, <2>5, <2>6, <2>7 DEF GoodState, Run, t, u
<1>7. GoodServers
  BY <1>2, <1>6 DEF GoodServers
<1> QED
  BY <1>3, <1>5, <1>7 DEF SeqInv

\* Every step keeps the invariant.
LEMMA NextSeq ==
    IInv /\ IInv' /\ RolesInv /\ RolesInv' /\ SeqInv /\ [Next]_vars => SeqInv'
PROOF
<1> SUFFICES ASSUME IInv, IInv', RolesInv, RolesInv', SeqInv, [Next]_vars
             PROVE  SeqInv'
  OBVIOUS
<1>1. TypeOK /\ TypeOK' /\ ServersObey /\ MasterKnowsEnds
  BY DEF IInv
<1>2. ASSUME NEW s \in Servers,
             ServerStep(s) \/ ClientUpdate(s) \/ ClientQuery(s) \/ Crash(s)
      PROVE  SeqInv'
  BY <1>1, <1>2, ServerKeeps
<1>3. CASE MasterStep
  BY <1>1, <1>3, NotifyKeeps, OtherMasterKeeps DEF MasterStep
<1>4. CASE UNCHANGED vars
  <2>1. /\ srv' = srv /\ alive' = alive /\ tcp' = tcp /\ sending' = sending
        /\ replies' = replies
    BY <1>4 DEF vars
  <2>2. /\ GoodInboxes /\ GoodSends /\ GoodReplies
    BY DEF SeqInv
  <2>3. GoodInboxes'
    BY <2>1, <2>2
    DEF GoodInboxes, Good, GoodLink, AppliedBefore, Applied, Follows, Sound,
        ActsAsTail, SameBank
  <2>4. GoodSends'
    <3> SUFFICES ASSUME NEW q \in Processes, NEW i \in DOMAIN sending[q]
                 PROVE  Good(sending[q][i])' /\ Deferrable(sending'[q][i])
      BY <2>1 DEF GoodSends, Deferrable
    <3>1. PICK o : o = sending[q][i]
      OBVIOUS
    <3>2. Good(o) /\ Deferrable(o)
      BY <2>2, <3>1 DEF GoodSends
    <3>3. Good(o)'
      BY <2>1, <3>2
      DEF Good, GoodLink, AppliedBefore, Applied, Follows, Sound, ActsAsTail,
          SameBank
    <3> QED
      BY <2>1, <3>1, <3>2, <3>3
  <2>5. GoodReplies'
    BY <2>1, <2>2 DEF GoodReplies, Applied
  <2> QED
    BY <2>1, <2>3, <2>4, <2>5, SameServers DEF SeqInv
<1> QED
  BY <1>2, <1>3, <1>4 DEF Next

\* The roles and the numbers, in every reachable state.
LEMMA SeqInvariant == Spec => [](IInv /\ RolesInv /\ SeqInv)
PROOF
<1>1. Init => IInv /\ RolesInv /\ SeqInv
  BY InitOK, InitRoles, InitSeq
<1>2. IInv /\ RolesInv /\ SeqInv /\ [Next]_vars => (IInv /\ RolesInv /\ SeqInv)'
  BY NextOK, NextRoles, NextSeq
<1> QED
  BY <1>1, <1>2, PTL DEF Spec

-----------------------------------------------------------------------------
(* Queries.                                                                *)

\* What a step adds to the replies, if it adds the answer to a query, is as new
\* as all that was said before.
CurrentRead ==
    \A e \in replies' \ replies : e.req.type = "QUERY" =>
        \A f \in replies : f.req.bank = e.req.bank => f.req.seq <= e.req.seq

\* A process whose sends contain no answer to a query.
LEMMA NoReadSent ==
    ASSUME TypeOK, NEW out \in Seq(Outgoing), Transmit(Master, tcp, out),
           \A i \in DOMAIN out : Deferrable(out[i])
    PROVE  CurrentRead
PROOF
<1>1. Master \in Processes /\ tcp \in Inboxes
  BY DEF Processes, TypeOK, Inboxes
<1>2. \A e \in replies' :
        \/ e \in replies
        \/ /\ 1 \in DOMAIN out /\ out[1].msg.type = "CLIENT_REPLY"
           /\ e = out[1].msg.entry
  BY <1>1, TransmitContents
<1> QED
  BY <1>2 DEF CurrentRead, Deferrable

\* A server answers a query from what it has applied, and that is at least what
\* anybody was told of.
LEMMA ServerRead ==
    ASSUME TypeOK, ServersObey, RolesInv, SeqInv, NEW s \in Servers,
           ServerStep(s) \/ ClientUpdate(s) \/ ClientQuery(s)
    PROVE  CurrentRead
PROOF
<1>1. /\ s \in alive
      /\ \E inbox, res : Handled(s, inbox, res) /\ Perform(s, inbox, res)
  BY StepHandles
<1>2. PICK inbox, res : Handled(s, inbox, res) /\ Perform(s, inbox, res)
  BY <1>1
<1>3. /\ inbox \in Inboxes /\ Took(s, inbox)
      /\ Outcome(srv[s], res) /\ Effect(s, res)
  BY <1>1, <1>2, HandledEffect
<1>4. CASE Die(s, inbox)
  BY <1>4 DEF Die, CurrentRead
<1>5. CASE Transmit(s, inbox, res.out)
  <2>1. s \in Processes
    BY DEF Processes
  <2>2. res.out \in Seq(Outgoing)
    <3>1. ServerSend \in SUBSET Outgoing /\ res.out \in Seq(ServerSend)
      BY <1>3 DEF ServerSend, Outcome
    <3> QED
      BY <3>1
  <2>3. \A e \in replies' :
        \/ e \in replies
        \/ /\ 1 \in DOMAIN res.out /\ res.out[1].msg.type = "CLIENT_REPLY"
           /\ e = res.out[1].msg.entry
    BY <1>3, <1>5, <2>1, <2>2, TransmitContents
  <2>4. \A e \in replies' \ replies : e.req.type = "QUERY" =>
            /\ e.req.bank = BankOf[s]
            /\ e.req.seq = srv[s].bank_update_seq
    BY <1>3, <2>3 DEF Effect, FreshRead
  <2>5. \A f \in replies : f.req.bank = BankOf[s] =>
            f.req.seq <= srv[s].bank_update_seq
    BY <1>1 DEF SeqInv, GoodReplies, Applied
  <2> QED
    BY <2>4, <2>5 DEF CurrentRead
<1> QED
  BY <1>2, <1>4, <1>5 DEF Perform

\* Every step.
LEMMA NextRead == IInv /\ RolesInv /\ SeqInv /\ [Next]_vars => CurrentRead
PROOF
<1> SUFFICES ASSUME IInv, RolesInv, SeqInv, [Next]_vars PROVE CurrentRead
  OBVIOUS
<1>1. TypeOK /\ ServersObey /\ MasterKnowsEnds
  BY DEF IInv
<1>2. ASSUME NEW s \in Servers,
             ServerStep(s) \/ ClientUpdate(s) \/ ClientQuery(s)
      PROVE  CurrentRead
  BY <1>1, <1>2, ServerRead
<1>3. ASSUME NEW s \in Servers, Crash(s) PROVE CurrentRead
  BY <1>3 DEF Crash, Die, CurrentRead
<1>4. ASSUME NEW b \in Banks, NEW s \in Servers,
             \/ NotifyHeadCrash(b, s)
             \/ NotifyTailCrash(b, s)
             \/ NotifyInternalCrash(b, s)
      PROVE  CurrentRead
  <2>1. PICK out \in Seq(Outgoing) :
            /\ Transmit(Master, tcp, out)
            /\ \A i \in DOMAIN out : Good(out[i]) /\ Deferrable(out[i])
    BY <1>1, <1>4, NotifySends
  <2> QED
    BY <1>1, <2>1, NoReadSent
<1>5. CASE MasterContinue
  <2>1. Transmit(Master, tcp, sending[Master])
    BY <1>5 DEF MasterContinue
  <2>2. Master \in Processes /\ sending[Master] \in Seq(Outgoing)
    BY <1>1 DEF Processes, TypeOK
  <2>3. \A i \in DOMAIN sending[Master] : Deferrable(sending[Master][i])
    BY <2>2 DEF SeqInv, GoodSends
  <2> QED
    BY <1>1, <2>1, <2>2, <2>3, NoReadSent
<1>6. CASE ForwardReqSeq
  BY <1>6 DEF ForwardReqSeq, clients, CurrentRead
<1>7. CASE UNCHANGED vars
  BY <1>7 DEF vars, CurrentRead
<1> QED
  BY <1>2, <1>3, <1>4, <1>5, <1>6, <1>7 DEF Next, MasterStep

\* No query is answered from an old state: the answer reflects every update that
\* any client was told of and every update an earlier query reflected, whichever
\* servers crash and whichever of them answered.
THEOREM QueriesAreCurrent == Spec => ReadsAreCurrent
PROOF
<1>1. IInv /\ RolesInv /\ SeqInv /\ [Next]_vars =>
        [\A e \in replies' \ replies : e.req.type = "QUERY" =>
            \A f \in replies : f.req.bank = e.req.bank =>
                f.req.seq <= e.req.seq]_vars
  BY NextRead DEF CurrentRead
<1> QED
  BY <1>1, SeqInvariant, PTL DEF Spec, ReadsAreCurrent

-----------------------------------------------------------------------------
(* The updates under way between neighbours.                               *)

\* The entries of a sent list without a gap that a server with number m lacks.
LEMMA MissingPart ==
    ASSUME NEW sent \in Seq(Entry), NEW n \in Nat, NEW m \in Nat,
           Run(sent, n), n - Len(sent) <= m, m <= n
    PROVE  LET missing == Pick(sent, {i \in DOMAIN sent : sent[i].req.seq > m})
           IN  /\ missing \in Seq(Entry)
               /\ DOMAIN missing = 1 .. n - m
               /\ \A i \in DOMAIN missing : missing[i].req.seq = m + i
PROOF
<1> DEFINE L == Len(sent)
           lo == m - n + L + 1
           K == {i \in DOMAIN sent : sent[i].req.seq > m}
<1>1. L \in Nat /\ DOMAIN sent = 1 .. L
  OBVIOUS
<1>2. \A i \in 1 .. L : sent[i].req.seq = n - L + i
  BY <1>1 DEF Run
<1>3. lo \in 1 .. L + 1 /\ lo \in Int
  BY <1>1
<1>4. K = lo .. L
  <2> HIDE DEF L
  <2>1. \A i \in 1 .. L : sent[i].req.seq > m <=> i >= lo
    BY <1>1, <1>2
  <2> QED
    BY <1>1, <1>3, <2>1
<1>5. LET part == Pick(sent, lo .. L)
      IN  /\ part \in Seq(Entry)
          /\ DOMAIN part = 1 .. L - lo + 1
          /\ \A k \in DOMAIN part : part[k] = sent[lo + k - 1]
  <2> HIDE DEF lo
  <2> QED
    BY <1>3, PickSuffix
<1> DEFINE part == Pick(sent, K)
<1>6. /\ part \in Seq(Entry) /\ DOMAIN part = 1 .. L - lo + 1
      /\ \A k \in DOMAIN part : part[k] = sent[lo + k - 1]
  BY <1>4, <1>5
<1> HIDE DEF part, L
<1>7. L - lo + 1 = n - m
  BY <1>1
<1>8. ASSUME NEW k \in 1 .. n - m PROVE part[k].req.seq = m + k
  <2>1. part[k] = sent[lo + k - 1] /\ lo + k - 1 \in 1 .. L
    <3>1. k \in DOMAIN part
      BY <1>6, <1>7
    <3>2. lo + k - 1 \in 1 .. L
      BY <1>1, <1>3, <1>7
    <3> HIDE DEF lo
    <3> QED
      BY <1>6, <3>1, <3>2
  <2>2. sent[lo + k - 1].req.seq = n - L + (lo + k - 1)
    BY <1>2, <2>1
  <2> QED
    BY <1>1, <2>1, <2>2
<1> QED
  BY <1>6, <1>7, <1>8 DEF part

\* The invariant says what the sent list holds.
LEMMA SeqInprocess == IInv /\ RolesInv /\ SeqInv => InprocessRequests
PROOF
<1> SUFFICES ASSUME IInv, RolesInv, SeqInv, NEW s \in alive, NEW t \in alive,
                    Adjacent(s, t)
             PROVE  LET missing == Missing(s, t)
                        n == srv[s].bank_update_seq
                        m == srv[t].bank_update_seq
                    IN  /\ m <= n
                        /\ [i \in DOMAIN missing |-> missing[i].req.seq] =
                           [i \in 1 .. n - m |-> m + i]
  BY DEF InprocessRequests
<1> DEFINE n == srv[s].bank_update_seq
           m == srv[t].bank_update_seq
           sent == srv[s].ledger.sent
           missing == Missing(s, t)
<1>1. /\ TypeOK /\ n \in Nat /\ m \in Nat /\ sent \in Seq(Entry)
      /\ s \in Int /\ t \in Int /\ s \in Servers
  BY ServerFields DEF IInv, TypeOK
<1>2. BankOf[t] = BankOf[s] /\ s < t
  BY <1>1 DEF Adjacent, IsFirst, After, Living
<1>3. m <= n
  BY <1>2 DEF SeqInv, Descends, AppliedBefore, SameBank
<1>4. ~srv[s].istail
  BY <1>1, <1>2 DEF RolesInv, TailsAreLast, Appointed, NoneAfter
<1>5. Run(sent, n) /\ AppliedAfter(s, n - Len(sent))
  BY <1>4 DEF SeqInv, GoodServers, GoodState
<1>6. n - Len(sent) <= m
  BY <1>2, <1>5 DEF AppliedAfter, SameBank
<1>7. missing = Pick(sent, {i \in DOMAIN sent : sent[i].req.seq > m})
  BY DEF Missing
<1> HIDE DEF n, m, sent, missing
<1>8. /\ DOMAIN missing = 1 .. n - m
      /\ \A i \in DOMAIN missing : missing[i].req.seq = m + i
  BY <1>1, <1>3, <1>5, <1>6, <1>7, MissingPart
<1>9. [i \in DOMAIN missing |-> missing[i].req.seq] = [i \in 1 .. n - m |-> m + i]
  BY <1>8
<1> QED
  BY <1>3, <1>9 DEF n, m, missing

\* Chain replication's "Inprocess Requests Invariant": whichever servers crash,
\* the updates that the next living server has not applied are in sent_list_
\* of the one before it, in order and without a gap.
THEOREM NothingIsLost == Spec => []InprocessRequests
PROOF
  BY SeqInprocess, SeqInvariant, PTL
=============================================================================
