---------------------------- MODULE StreamProofs ----------------------------
(***************************************************************************)
(* The updates that travel along a chain arrive without a gap: the         *)
(* assertion of receive_request that the next update has the next number   *)
(* never fails.                                                            *)
(*                                                                         *)
(* Update n is "reached" at a server that has applied it or has it in its  *)
(* inbox.  Whenever update n is in an inbox or about to be sent to a       *)
(* server, update n - 1 is reached there or comes before it; and a server  *)
(* whose successor is alive has seen to it that its own last update is     *)
(* reached there.  The second part is what a new update, and the updates   *)
(* that a new successor is sent, are joined to.                            *)
(*                                                                         *)
(* The last section is about the other assertion of receive_request: the   *)
(* only server that a query can end is a new tail that has not read the    *)
(* order of the master.                                                    *)
(***************************************************************************)
EXTENDS SequenceProofs

IsReq(m, n) == m.type = "REQUEST" /\ m.req.seq = n

\* Server t has applied update n, or has it in its inbox.
Reached(t, n) ==
    \/ n <= srv[t].bank_update_seq
    \/ \E i \in DOMAIN tcp[t] : IsReq(tcp[t][i], n)

\* Update n is among the sends to t with an index below k.
Queued(out, k, t, n) ==
    \E j \in DOMAIN out : j < k /\ out[j].to = t /\ IsReq(out[j].msg, n)

\* Every update to be sent is the next one at its destination.
Stream(out) ==
    \A i \in DOMAIN out :
        (out[i].to \in alive /\ out[i].msg.type = "REQUEST") =>
            LET n == out[i].msg.req.seq
            IN  Reached(out[i].to, n - 1) \/ Queued(out, i, out[i].to, n - 1)

\* A server in state st has sent, or is about to send, its last update on.
Linked(st, out) ==
    st.succ \in alive =>
        \/ Reached(st.succ, st.bank_update_seq)
        \/ Queued(out, Len(out) + 1, st.succ, st.bank_update_seq)

InboxStreams ==
    \A t \in alive : \A i \in DOMAIN tcp[t] : tcp[t][i].type = "REQUEST" =>
        LET n == tcp[t][i].req.seq
        IN  \/ n <= srv[t].bank_update_seq + 1
            \/ \E j \in DOMAIN tcp[t] : j < i /\ IsReq(tcp[t][j], n - 1)

SendStreams == \A p \in Processes : Stream(sending[p])

Links == \A u \in alive : Linked(srv[u], sending[u])

StreamInv == InboxStreams /\ SendStreams /\ Links /\ NoGapInUpdates

-----------------------------------------------------------------------------
(* Sends that are no part of a stream.                                     *)

\* A forwarded transfer has no number yet; nothing else but an update has one.
Quiet(o) ==
    /\ o.msg.type = "REQUEST" => o.msg.req.seq = 0
    /\ o.msg.type = "ABORT" => o.msg.which \notin {"FIFO", "query at tail"}

LEMMA QuietSends ==
    /\ \A e : Quiet(reply_to_client(e))
    /\ \A st, n : Quiet(sendback_ack(st, n))
    /\ \A s, st : \A e \in Entry : Quiet(forward_transfer_to_downstream(s, st, e))
    /\ Quiet(Abort("transfers only")) /\ Quiet(Abort("transfer processed"))
PROOF
<1>1. \A e : Quiet(reply_to_client(e))
  BY DEF Quiet, reply_to_client, Send
<1>2. \A st, n : Quiet(sendback_ack(st, n))
  BY DEF Quiet, sendback_ack, Send
<1>3. ASSUME NEW s, NEW st, NEW e \in Entry
      PROVE  Quiet(forward_transfer_to_downstream(s, st, e))
  <2>1. e.req \in Request
    BY DEF Entry
  <2>2. transfer_to(s, e.req).seq = 0
    BY <2>1 DEF transfer_to, Request
  <2> QED
    BY <2>2 DEF Quiet, forward_transfer_to_downstream, Send
<1>4. Quiet(Abort("transfers only")) /\ Quiet(Abort("transfer processed"))
  BY DEF Quiet, Abort, Send
<1> QED
  BY <1>1, <1>2, <1>3, <1>4

AllQuiet(out) == \A i \in DOMAIN out : Quiet(out[i])

LEMMA FewQuiet ==
    ASSUME NEW o, Quiet(o)
    PROVE  AllQuiet(<<>>) /\ AllQuiet(<<o>>)
PROOF
  BY DEF AllQuiet

\* A sequence of sends that are made from the elements of another sequence.
LEMMA MadeFrom ==
    ASSUME NEW S, NEW q \in Seq(S), NEW f, f \in [DOMAIN q -> {f[i] : i \in DOMAIN q}]
    PROVE  f \in Seq({f[i] : i \in DOMAIN q})
PROOF
  BY SameDomain

LEMMA JoinedQuiet ==
    ASSUME NEW S, NEW q \in Seq(S), NEW T, NEW r \in Seq(T),
           AllQuiet(q), AllQuiet(r)
    PROVE  AllQuiet(q \o r)
PROOF
<1> SUFFICES ASSUME NEW i \in DOMAIN (q \o r) PROVE Quiet((q \o r)[i])
  BY DEF AllQuiet
<1>1. Len(q) \in Nat /\ Len(r) \in Nat /\ DOMAIN (q \o r) = 1 .. Len(q) + Len(r)
  OBVIOUS
<1>2. CASE i <= Len(q)
  BY <1>1, <1>2 DEF AllQuiet
<1>3. CASE ~(i <= Len(q))
  <2>1. i - Len(q) \in 1 .. Len(r) /\ (q \o r)[i] = r[i - Len(q)]
    BY <1>1, <1>3
  <2> QED
    BY <2>1 DEF AllQuiet
<1> QED
  BY <1>2, <1>3

\* A handler that takes no part in the streams.
QuietResult(st, res) ==
    /\ AllQuiet(res.out)
    /\ res.st.succ = st.succ
    /\ res.st.bank_update_seq = st.bank_update_seq

LEMMA QuietAck ==
    ASSUME NEW st \in ServerState, NEW seq
    PROVE  QuietResult(st, receive_ack(st, seq))
PROOF
<1> DEFINE res == receive_ack(st, seq)
<1>1. res.st.succ = st.succ /\ res.st.bank_update_seq = st.bank_update_seq
  BY DEF receive_ack, ServerState
<1>2. res.out = IF st.ishead THEN <<>> ELSE <<sendback_ack(st, seq)>>
  BY DEF receive_ack
<1>3. AllQuiet(<<>>) /\ AllQuiet(<<sendback_ack(st, seq)>>)
  BY QuietSends, FewQuiet
<1> HIDE DEF res
<1>4. AllQuiet(res.out)
  BY <1>2, <1>3, Zenon
<1> QED
  BY <1>1, <1>4 DEF QuietResult, res

LEMMA QuietHead ==
    ASSUME NEW st \in ServerState
    PROVE  QuietResult(st, to_be_head(st))
PROOF
  BY DEF QuietResult, AllQuiet, to_be_head, ServerState

LEMMA QuietPre ==
    ASSUME NEW s, NEW st \in ServerState, NEW addr
    PROVE  QuietResult(st, receive_new_preserver(s, st, addr))
PROOF
<1> DEFINE res == receive_new_preserver(s, st, addr)
           o == Send(Master, [type |-> "REQ_SEQ", seq |-> st.bank_update_seq,
                              pre |-> addr, succ |-> s])
<1>1. res.st.succ = st.succ /\ res.st.bank_update_seq = st.bank_update_seq
  BY DEF receive_new_preserver, ServerState
<1>2. res.out = <<o>>
  BY DEF receive_new_preserver
<1>3. Quiet(o)
  BY DEF Quiet, Send
<1> HIDE DEF o, res
<1>4. AllQuiet(res.out)
  BY <1>2, <1>3, FewQuiet
<1> QED
  BY <1>1, <1>4 DEF QuietResult, res

LEMMA QuietTail ==
    ASSUME NEW s, NEW st \in ServerState
    PROVE  QuietResult(st, to_be_tail(s, st))
PROOF
<1> DEFINE res == to_be_tail(s, st)
           l == st.ledger
           T == {i \in DOMAIN l.sent : l.sent[i].req.type = "TRANSFER"}
           left == Pick(l.sent, T)
           filed == Pick(l.sent, DOMAIN l.sent \ T)
           p == insert_processed_list(l, filed)
           k == [p EXCEPT !.sent = left]
           fwd == [i \in DOMAIN k.sent |->
                        forward_transfer_to_downstream(s, st, k.sent[i])]
           ack == <<sendback_ack(st, st.bank_update_seq)>>
<1>1. res.st.succ = st.succ /\ res.st.bank_update_seq = st.bank_update_seq
  BY DEF to_be_tail, ServerState
<1>2. res.out = IF k.sent # <<>> THEN fwd ELSE IF st.ishead THEN <<>> ELSE ack
  BY DEF to_be_tail
<1>3. l \in Ledger /\ l.sent \in Seq(Entry)
  BY LedgerFields DEF ServerState
<1>4. left \in Seq(Entry) /\ filed \in Seq(Entry)
  <2>1. T \in SUBSET DOMAIN l.sent /\ DOMAIN l.sent \ T \in SUBSET DOMAIN l.sent
    OBVIOUS
  <2> HIDE DEF l, T
  <2> QED
    BY <1>3, <2>1, PickType
<1> HIDE DEF left, filed, T, l
<1>5. p \in Ledger
  BY <1>3, <1>4, Filing
<1> HIDE DEF p
<1>6. k.sent \in Seq(Entry)
  BY <1>4, <1>5, Filing
<1> HIDE DEF k
<1>7. AllQuiet(fwd)
  <2>1. \A i \in DOMAIN k.sent : k.sent[i] \in Entry
    BY <1>6
  <2> QED
    BY <2>1, QuietSends DEF AllQuiet
<1>8. AllQuiet(<<>>) /\ AllQuiet(ack)
  BY QuietSends, FewQuiet
<1> HIDE DEF fwd, ack, res
<1>9. AllQuiet(res.out)
  BY <1>2, <1>7, <1>8, Zenon
<1> QED
  BY <1>1, <1>9 DEF QuietResult, res

LEMMA QuietTransferReply ==
    ASSUME NEW st \in ServerState, NEW reply
    PROVE  QuietResult(st, receive_transfer_reply(st, reply))
PROOF
<1> DEFINE res == receive_transfer_reply(st, reply)
           sent == st.ledger.sent
           M    == {i \in DOMAIN sent : /\ sent[i].req.id = reply.id
                                        /\ sent[i].req.dacct = reply.acct}
           kept == Pick(sent, DOMAIN sent \ M)
           done == Pick(sent, M)
           told == [i \in DOMAIN done |-> reply_to_client(done[i])]
           o    == sendback_ack(st, st.bank_update_seq)
           ack  == IF done # <<>> /\ kept = <<>> /\ ~st.ishead
                   THEN <<o>> ELSE <<>>
           stop == <<Abort("transfer processed")>>
<1>1. res.st.succ = st.succ /\ res.st.bank_update_seq = st.bank_update_seq
  BY DEF receive_transfer_reply, ServerState
<1>2. res.out = IF reply.outcome # "PROCESSED" THEN stop ELSE told \o ack
  BY DEF receive_transfer_reply
<1>3. sent \in Seq(Entry)
  BY LedgerFields DEF ServerState
<1>4. done \in Seq(Entry)
  <2>1. M \in SUBSET DOMAIN sent
    OBVIOUS
  <2> HIDE DEF M, sent
  <2> QED
    BY <1>3, <2>1, PickType
<1> HIDE DEF done, kept
<1>5. AllQuiet(told)
  BY QuietSends DEF AllQuiet
<1>6. told \in Seq({told[i] : i \in DOMAIN done})
  <2>1. told \in [DOMAIN done -> {told[i] : i \in DOMAIN done}]
    OBVIOUS
  <2> HIDE DEF told
  <2> QED
    BY <1>4, <2>1, MadeFrom
<1>7. ack \in Seq({o}) /\ AllQuiet(ack)
  <2>1. Quiet(o)
    BY QuietSends
  <2> HIDE DEF o
  <2>2. <<>> \in Seq({o}) /\ <<o>> \in Seq({o})
    OBVIOUS
  <2>3. AllQuiet(<<>>) /\ AllQuiet(<<o>>)
    BY <2>1, FewQuiet
  <2> QED
    BY <2>2, <2>3, Zenon
<1> HIDE DEF told, ack, o
<1>8. AllQuiet(told \o ack)
  BY <1>5, <1>6, <1>7, JoinedQuiet
<1>9. AllQuiet(stop)
  <2>1. Quiet(Abort("transfer processed"))
    BY QuietSends
  <2> QED
    BY <2>1, FewQuiet
<1> HIDE DEF stop, res
<1>10. AllQuiet(res.out)
  BY <1>2, <1>8, <1>9, Zenon
<1> QED
  BY <1>1, <1>10 DEF QuietResult, res

LEMMA QuietNewHead ==
    ASSUME NEW s, NEW st \in ServerState, NEW m
    PROVE  QuietResult(st, handle_new_head(s, st, m))
PROOF
<1> DEFINE res  == handle_new_head(s, st, m)
           new  == [st EXCEPT !.heads[m.bank] = m.server]
           sent == st.ledger.sent
           ok   == {i \in DOMAIN sent :
                        \A j \in 1 .. i : sent[j].req.type = "TRANSFER"}
           K    == {i \in ok : sent[i].req.dbank = m.bank}
           mine == Pick(sent, K)
           fwd  == [i \in DOMAIN mine |->
                        forward_transfer_to_downstream(s, new, mine[i])]
           o    == Abort("transfers only")
           stop == IF ok = DOMAIN sent THEN <<>> ELSE <<o>>
<1>1. res.st.succ = st.succ /\ res.st.bank_update_seq = st.bank_update_seq
  BY DEF handle_new_head, ServerState
<1>2. res.out = IF ~st.istail THEN <<>> ELSE fwd \o stop
  BY DEF handle_new_head
<1>3. sent \in Seq(Entry)
  BY LedgerFields DEF ServerState
<1>4. mine \in Seq(Entry)
  <2>1. K \in SUBSET DOMAIN sent
    OBVIOUS
  <2> HIDE DEF K, sent
  <2> QED
    BY <1>3, <2>1, PickType
<1> HIDE DEF mine, new, ok
<1>5. AllQuiet(fwd)
  <2>1. \A i \in DOMAIN mine : mine[i] \in Entry
    BY <1>4
  <2> QED
    BY <2>1, QuietSends DEF AllQuiet
<1>6. fwd \in Seq({fwd[i] : i \in DOMAIN mine})
  <2>1. fwd \in [DOMAIN mine -> {fwd[i] : i \in DOMAIN mine}]
    OBVIOUS
  <2> HIDE DEF fwd
  <2> QED
    BY <1>4, <2>1, MadeFrom
<1>7. stop \in Seq({o}) /\ AllQuiet(stop)
  <2>1. Quiet(o)
    BY QuietSends
  <2> HIDE DEF o
  <2>2. <<>> \in Seq({o}) /\ <<o>> \in Seq({o})
    OBVIOUS
  <2>3. AllQuiet(<<>>) /\ AllQuiet(<<o>>)
    BY <2>1, FewQuiet
  <2> QED
    BY <2>2, <2>3, Zenon
<1> HIDE DEF fwd, stop, o
<1>8. AllQuiet(fwd \o stop)
  BY <1>5, <1>6, <1>7, JoinedQuiet
<1>9. AllQuiet(<<>>)
  BY DEF AllQuiet
<1> HIDE DEF res
<1>10. AllQuiet(res.out)
  BY <1>2, <1>8, <1>9, Zenon
<1> QED
  BY <1>1, <1>10 DEF QuietResult, res

LEMMA QuietQuery ==
    ASSUME NEW st \in ServerState, NEW req
    PROVE  LET res == handle_query(st, req)
           IN  /\ st.istail => AllQuiet(res.out)
               /\ ~st.istail => res.out = <<Abort("query at tail")>>
               /\ res.st.succ = st.succ
               /\ res.st.bank_update_seq = st.bank_update_seq
PROOF
<1> DEFINE res == handle_query(st, req)
           l == get_balance(st.ledger, req.acct)
           e == [req   |-> [req EXCEPT !.seq = st.bank_update_seq],
                 reply |-> [id |-> req.id, acct |-> req.acct,
                            outcome |-> "PROCESSED", balance |-> l.bal[req.acct]]]
<1>1. res.st.succ = st.succ /\ res.st.bank_update_seq = st.bank_update_seq
  BY DEF handle_query, ServerState
<1>2. res.out = IF st.istail THEN <<reply_to_client(e)>>
                ELSE <<Abort("query at tail")>>
  BY DEF handle_query
<1>3. AllQuiet(<<reply_to_client(e)>>)
  BY QuietSends, FewQuiet
<1> HIDE DEF res, e
<1>4. /\ st.istail => AllQuiet(res.out)
      /\ ~st.istail => res.out = <<Abort("query at tail")>>
  BY <1>2, <1>3, Zenon
<1> QED
  BY <1>1, <1>4 DEF res

\* An update at the tail goes no further.
LEMMA TailUpdateQuiet ==
    ASSUME NEW s, NEW st \in ServerState, NEW req \in Request
    PROVE  LET res == tail_handle_update(s, st, req)
           IN  /\ AllQuiet(res.out)
               /\ res.st.succ = st.succ /\ res.st.bank_update_seq = req.seq
PROOF
<1> DEFINE res == tail_handle_update(s, st, req)
           u == update_request_reply(st.ledger, req)
           c == IF req.type = "TRANSFER" THEN handle_transfer(s, st, u)
                ELSE commit_update(st, u)
           o == sendback_ack(st, req.seq)
           ack == IF ~st.ishead /\ c.ledger.sent = <<>> THEN <<o>> ELSE <<>>
           tell == reply_to_client(u.entry)
           send == forward_transfer_to_downstream(s, st, u.entry)
<1>1. res.st.succ = st.succ /\ res.st.bank_update_seq = req.seq
  BY DEF tail_handle_update, ServerState
<1>2. res.out = c.out \o ack
  BY DEF tail_handle_update
<1>3. u.ledger \in Ledger /\ u.entry \in Entry /\ u.entry.req = req
  <2>1. st.ledger \in Ledger
    BY DEF ServerState
  <2> QED
    BY <2>1, UpdateRequestReply
<1>4. Quiet(tell) /\ Quiet(send) /\ Quiet(o)
  BY <1>3, QuietSends
<1> HIDE DEF u, o
<1>5. c.out \in {<<>>, <<tell>>, <<send>>}
  BY <1>3, CommitShape
<1> HIDE DEF c, tell, send
<1>6. c.out \in Seq({tell, send}) /\ AllQuiet(c.out)
  <2>1. /\ <<>> \in Seq({tell, send}) /\ <<tell>> \in Seq({tell, send})
        /\ <<send>> \in Seq({tell, send})
    OBVIOUS
  <2>2. AllQuiet(<<>>) /\ AllQuiet(<<tell>>) /\ AllQuiet(<<send>>)
    BY <1>4, FewQuiet
  <2> QED
    BY <1>5, <2>1, <2>2, Zenon
<1>7. ack \in Seq({o}) /\ AllQuiet(ack)
  <2>1. <<>> \in Seq({o}) /\ <<o>> \in Seq({o})
    OBVIOUS
  <2>2. AllQuiet(<<>>) /\ AllQuiet(<<o>>)
    BY <1>4, FewQuiet
  <2> QED
    BY <2>1, <2>2, Zenon
<1> HIDE DEF ack
<1>8. AllQuiet(c.out \o ack)
  BY <1>6, <1>7, JoinedQuiet
<1> HIDE DEF res
<1> QED
  BY <1>1, <1>2, <1>8 DEF res

\* An update at another server goes to the successor.
LEMMA ForwardSends ==
    ASSUME NEW st \in ServerState, NEW req \in Request
    PROVE  LET res == forward_handle_update(st, req)
           IN  /\ DOMAIN res.out = {1} /\ Len(res.out) = 1
               /\ res.out[1].to = st.succ /\ IsReq(res.out[1].msg, req.seq)
               /\ res.st.succ = st.succ /\ res.st.bank_update_seq = req.seq
PROOF
<1> DEFINE res == forward_handle_update(st, req)
           u == update_request_reply(st.ledger, req)
<1>1. res.st.succ = st.succ /\ res.st.bank_update_seq = req.seq
  BY DEF forward_handle_update, ServerState
<1>2. res.out = <<Send(st.succ, [type |-> "REQUEST", req |-> u.entry.req])>>
  BY DEF forward_handle_update, forward_request
<1>3. u.entry.req = req
  <2>1. st.ledger \in Ledger
    BY DEF ServerState
  <2> QED
    BY <2>1, UpdateRequestReply
<1> HIDE DEF res, u
<1>4. /\ DOMAIN res.out = {1} /\ Len(res.out) = 1
      /\ res.out[1] = Send(st.succ, [type |-> "REQUEST", req |-> req])
  BY <1>2, <1>3
<1>5. res.out[1].to = st.succ /\ IsReq(res.out[1].msg, req.seq)
  BY <1>4 DEF Send, IsReq
<1> QED
  BY <1>1, <1>4, <1>5 DEF res

-----------------------------------------------------------------------------
(* What a handler does to the streams.                                     *)

NoGap(out) ==
    (1 \in DOMAIN out /\ out[1].msg.type = "ABORT") => out[1].msg.which # "FIFO"

\* A handler that does not begin with the assertion that queries go to the tail.
NoMiss(out) ==
    (1 \in DOMAIN out /\ out[1].msg.type = "ABORT") =>
        out[1].msg.which # "query at tail"

\* The sends of a handler continue the streams, and no number is left out.
Streams(res) == Stream(res.out) /\ Linked(res.st, res.out) /\ NoGap(res.out)

LEMMA QuietStream ==
    ASSUME TypeOK, NEW out, AllQuiet(out)
    PROVE  Stream(out) /\ NoGap(out) /\ NoMiss(out)
PROOF
<1>1. NoGap(out) /\ NoMiss(out)
  BY DEF NoGap, NoMiss, AllQuiet, Quiet
<1>2. ASSUME NEW i \in DOMAIN out, out[i].to \in alive,
             out[i].msg.type = "REQUEST"
      PROVE  Reached(out[i].to, out[i].msg.req.seq - 1)
  <2>1. out[i].msg.req.seq = 0
    BY <1>2 DEF AllQuiet, Quiet
  <2>2. srv[out[i].to].bank_update_seq \in Nat
    BY <1>2, ServerFields DEF TypeOK
  <2> QED
    BY <2>1, <2>2 DEF Reached
<1> QED
  BY <1>1, <1>2 DEF Stream

LEMMA QuietStreams ==
    ASSUME TypeOK, Links, NEW s \in alive, sending[s] = <<>>, NEW res,
           \/ QuietResult(srv[s], res)
           \/ /\ Stream(res.out) /\ NoGap(res.out)
              /\ res.st.succ = srv[s].succ
              /\ res.st.bank_update_seq = srv[s].bank_update_seq
    PROVE  Streams(res) /\ (QuietResult(srv[s], res) => NoMiss(res.out))
PROOF
<1>1. /\ Stream(res.out) /\ NoGap(res.out)
      /\ QuietResult(srv[s], res) => NoMiss(res.out)
  BY QuietStream DEF QuietResult
<1>2. Linked(srv[s], <<>>)
  BY DEF Links
<1>3. srv[s].succ \in alive => Reached(srv[s].succ, srv[s].bank_update_seq)
  BY <1>2 DEF Linked, Queued
<1>4. Linked(res.st, res.out)
  BY <1>3 DEF QuietResult, Linked
<1> QED
  BY <1>1, <1>4 DEF Streams

\* A tail has no living successor.
LEMMA TailHasNoSuccessor ==
    ASSUME TypeOK, RolesInv, SeqInv, NEW s \in alive, NEW t \in alive, Follows(s, t)
    PROVE  ~srv[s].istail
PROOF
<1>1. s \in Int /\ t \in Int
  BY ServerFields DEF TypeOK
<1>2. s < t /\ BankOf[s] = BankOf[t]
  BY DEF Follows, SameBank
<1> QED
  BY <1>1, <1>2 DEF RolesInv, TailsAreLast, Appointed, NoneAfter

\* A request that is not beyond the next number.
LEMMA RequestStreams ==
    ASSUME TypeOK, RolesInv, SeqInv, Links, NEW s \in alive,
           sending[s] = <<>>, NEW req \in Request,
           req.seq <= srv[s].bank_update_seq + 1
    PROVE  LET res == receive_request(s, srv[s], req)
           IN  /\ Streams(res)
               /\ req.type # "QUERY" => /\ req.seq <= res.st.bank_update_seq
                                       /\ NoMiss(res.out)
PROOF
<1> DEFINE st == srv[s]
           seq == IF st.ishead THEN st.bank_update_seq + 1 ELSE req.seq
           num == [req EXCEPT !.seq = seq]
           tl == tail_handle_update(s, st, num)
           fw == forward_handle_update(st, num)
           r == IF st.istail THEN tl ELSE fw
           drop == [st |-> st, out |-> <<>>]
           stop == [st |-> st, out |-> <<Abort("FIFO")>>]
           res == receive_request(s, st, req)
<1>1. /\ st \in ServerState /\ st.bank_update_seq \in Nat /\ s \in Servers
      /\ GoodState(s, st) /\ req.seq \in Nat
  BY StateBefore, RequestFields
<1>2. seq \in Nat /\ req.seq <= st.bank_update_seq + 1
  BY <1>1
<1>3. res = CASE req.type = "QUERY" -> handle_query(st, req)
              [] req.type # "QUERY" /\ st.bank_update_seq >= seq -> drop
              [] req.type # "QUERY" /\ st.bank_update_seq < seq - 1 -> stop
              [] OTHER -> r
  BY DEF receive_request
<1>4. num \in Request /\ num.seq = seq
  <2> HIDE DEF seq
  <2> QED
    BY <1>2, Numbered
<1>5. ~(st.bank_update_seq < seq - 1)
  <2>1. seq = st.bank_update_seq + 1 \/ seq = req.seq
    OBVIOUS
  <2> HIDE DEF seq, st
  <2> QED
    BY <1>1, <1>2, <2>1
<1>6. req.seq <= seq
  BY <1>1, <1>2
<1> HIDE DEF num, stop
<1>7. CASE req.type = "QUERY"
  <2> HIDE DEF res
  <2>1. res = handle_query(st, req)
    BY <1>3, <1>7
  <2>2. /\ res.st.succ = st.succ /\ res.st.bank_update_seq = st.bank_update_seq
        /\ st.istail => AllQuiet(res.out)
        /\ ~st.istail => res.out = <<Abort("query at tail")>>
    BY <1>1, <2>1, QuietQuery
  <2>3. Stream(res.out) /\ NoGap(res.out)
    <3>1. CASE st.istail
      BY <2>2, <3>1, QuietStream
    <3>2. CASE ~st.istail
      <4>1. \A i \in DOMAIN res.out : /\ res.out[i].msg.type = "ABORT"
                                      /\ res.out[i].msg.which = "query at tail"
        <5>1. PICK o : o = Abort("query at tail")
          OBVIOUS
        <5>2. o.msg.type = "ABORT" /\ o.msg.which = "query at tail"
          BY <5>1 DEF Abort, Send
        <5>3. PICK out : out = res.out
          OBVIOUS
        <5>4. out = <<o>>
          BY <2>2, <3>2, <5>1, <5>3
        <5>5. \A i \in DOMAIN out : out[i] = o
          BY <5>4
        <5> QED
          BY <5>2, <5>3, <5>5
      <4> QED
        BY <4>1 DEF Stream, NoGap
    <3> QED
      BY <3>1, <3>2
  <2>4. Streams(res)
    BY <2>2, <2>3, QuietStreams
  <2> QED
    BY <1>7, <2>4 DEF res
<1>8. CASE req.type # "QUERY" /\ st.bank_update_seq >= seq
  <2>1. res = drop
    <3> HIDE DEF drop, r, seq
    <3> QED
      BY <1>3, <1>5, <1>8
  <2>2. QuietResult(st, drop) /\ drop.st = st
    BY DEF QuietResult, AllQuiet
  <2>3. Streams(drop) /\ NoMiss(drop.out)
    <3> HIDE DEF drop
    <3> QED
      BY <2>2, QuietStreams
  <2>4. req.seq <= st.bank_update_seq
    <3> HIDE DEF seq
    <3> QED
      BY <1>1, <1>2, <1>6, <1>8
  <2> HIDE DEF res
  <2> QED
    BY <2>1, <2>2, <2>3, <2>4 DEF res
<1>9. CASE req.type # "QUERY" /\ ~(st.bank_update_seq >= seq)
  <2>1. res = r
    <3> HIDE DEF drop, r, seq
    <3> QED
      BY <1>3, <1>5, <1>9
  <2>2. seq = st.bank_update_seq + 1
    <3> HIDE DEF seq
    <3> QED
      BY <1>1, <1>2, <1>5, <1>9
  <2>3. \A t \in alive : t = st.succ => Follows(s, t)
    <3>1. Nobody \notin Servers /\ alive \in SUBSET Servers
      BY BankAssumption DEF Servers, Nobody, TypeOK
    <3> QED
      BY <1>1, <3>1 DEF GoodState
  <2> HIDE DEF seq, res
  <2>4. CASE st.istail
    <3>1. AllQuiet(tl.out) /\ tl.st.succ = st.succ /\ tl.st.bank_update_seq = seq
      BY <1>1, <1>4, TailUpdateQuiet
    <3> HIDE DEF tl
    <3>2. Stream(tl.out) /\ NoGap(tl.out) /\ NoMiss(tl.out)
      BY <3>1, QuietStream
    <3>3. Linked(tl.st, tl.out)
      BY <2>3, <2>4, <3>1, TailHasNoSuccessor DEF Linked
    <3>4. res = tl
      BY <2>1, <2>4
    <3>5. Streams(res) /\ req.seq <= res.st.bank_update_seq /\ NoMiss(res.out)
      BY <1>6, <3>1, <3>2, <3>3, <3>4 DEF Streams
    <3> QED
      BY <3>5 DEF res
  <2>5. CASE ~st.istail
    <3>1. /\ DOMAIN fw.out = {1} /\ Len(fw.out) = 1
          /\ fw.out[1].to = st.succ /\ IsReq(fw.out[1].msg, seq)
          /\ fw.st.succ = st.succ /\ fw.st.bank_update_seq = seq
      BY <1>1, <1>4, ForwardSends
    <3> HIDE DEF fw
    <3>2. st.succ \in alive => Reached(st.succ, st.bank_update_seq)
      BY DEF Links, Linked, Queued
    <3>3. seq - 1 = st.bank_update_seq
      BY <1>1, <2>2
    <3>4. Stream(fw.out) /\ NoGap(fw.out) /\ NoMiss(fw.out)
      BY <3>1, <3>2, <3>3 DEF Stream, NoGap, NoMiss, IsReq
    <3>5. Linked(fw.st, fw.out)
      <4>1. 1 < Len(fw.out) + 1
        BY <3>1
      <4> QED
        BY <3>1, <4>1 DEF Linked, Queued
    <3>6. res = fw
      BY <2>1, <2>5
    <3>7. Streams(res) /\ req.seq <= res.st.bank_update_seq /\ NoMiss(res.out)
      BY <1>6, <3>1, <3>4, <3>5, <3>6 DEF Streams
    <3> QED
      BY <3>7 DEF res
  <2> QED
    BY <2>4, <2>5
<1> QED
  BY <1>7, <1>8, <1>9

\* A new successor is sent the updates from the first one that it lacks.
LEMMA NewSuccStreams ==
    ASSUME TypeOK, RolesInv, SeqInv, NEW s \in alive, NEW m, m.seq \in Nat,
           m.succ \in Servers, m.pre = s, GoodLink(m)
    PROVE  Streams(receive_new_succserver(srv[s], m))
PROOF
<1> DEFINE st == srv[s]
           t == m.succ
           new == [st EXCEPT !.succ = m.succ]
           sent == st.ledger.sent
           n == st.bank_update_seq
           more == Pick(sent, {i \in DOMAIN sent : sent[i].req.seq > m.seq})
           out == [i \in DOMAIN more |-> forward_request(new, more[i])]
           res == receive_new_succserver(st, m)
<1>1. /\ st \in ServerState /\ GoodState(s, st) /\ n \in Nat
      /\ sent \in Seq(Entry) /\ s \in Servers
  BY StateBefore
<1>2. new.succ = t /\ new.bank_update_seq = n
  BY <1>1 DEF ServerState
<1>3. res = [st |-> new, out |-> out]
  BY DEF receive_new_succserver
<1> HIDE DEF new, more
<1>4. \A i \in DOMAIN out : /\ i \in DOMAIN more /\ out[i].to = t
                            /\ out[i].msg.type = "REQUEST"
                            /\ out[i].msg.req = more[i].req
  BY <1>2 DEF forward_request, Send
<1>5. DOMAIN out = DOMAIN more
  OBVIOUS
<1> HIDE DEF out
<1>6. NoGap(out)
  BY <1>4 DEF NoGap
<1>7. CASE t \notin alive
  BY <1>2, <1>3, <1>4, <1>6, <1>7 DEF Streams, Stream, Linked
<1>8. CASE t \in alive
  <2> DEFINE k == srv[t].bank_update_seq
             a == n - Len(sent)
             w == IF m.seq >= a THEN m.seq ELSE a
  <2>1. /\ k \in Nat /\ s \in Int /\ t \in Int
        /\ s < t /\ BankOf[s] = BankOf[t] /\ Follows(s, t) /\ m.seq <= k
    BY <1>1, <1>8, ServerFields DEF TypeOK, GoodLink, Follows, SameBank
  <2>2. ~st.istail
    BY <1>8, <2>1, TailHasNoSuccessor
  <2>3. Run(sent, n) /\ AppliedAfter(s, n - Len(sent))
    BY <1>1, <2>2 DEF GoodState
  <2>4. a <= k
    BY <1>8, <2>1, <2>3 DEF AppliedAfter, SameBank
  <2>5. k <= n
    BY <1>8, <2>1 DEF SeqInv, Descends, AppliedBefore, SameBank
  <2> HIDE DEF st, k, n, sent
  <2>6. Len(sent) \in Nat /\ a \in Int
    BY <1>1
  <2>7. w \in Nat /\ w <= k /\ w <= n /\ a <= w
    <3> HIDE DEF a
    <3> QED
      BY <1>1, <2>1, <2>4, <2>5, <2>6
  <2>8. {i \in DOMAIN sent : sent[i].req.seq > m.seq} =
        {i \in DOMAIN sent : sent[i].req.seq > w}
    <3>1. ASSUME NEW i \in DOMAIN sent
          PROVE  sent[i].req.seq > m.seq <=> sent[i].req.seq > w
      <4>1. i \in Nat /\ i >= 1 /\ sent[i].req.seq \in Nat
        BY <1>1, SentFields
      <4>2. sent[i].req.seq = a + i
        BY <2>3 DEF Run
      <4>3. sent[i].req.seq > a
        <5> HIDE DEF a
        <5> QED
          BY <2>6, <4>1, <4>2
      <4> HIDE DEF a
      <4> QED
        BY <2>6, <4>1, <4>3
    <3> QED
      BY <3>1
  <2>9. more = Pick(sent, {i \in DOMAIN sent : sent[i].req.seq > w})
    BY <2>8 DEF more, sent
  <2> HIDE DEF w, a
  <2>10. a = n - Len(sent)
    BY DEF a
  <2>11. /\ more \in Seq(Entry) /\ DOMAIN more = 1 .. n - w
         /\ \A i \in DOMAIN more : more[i].req.seq = w + i
    BY <1>1, <2>3, <2>7, <2>9, <2>10, MissingPart
  <2>12. /\ DOMAIN out = 1 .. n - w /\ n - w \in Nat
         /\ \A i \in DOMAIN out : out[i].to = t /\ IsReq(out[i].msg, w + i)
    <3>1. DOMAIN out = 1 .. n - w
      BY <1>5, <2>11
    <3>2. n - w \in Nat
      BY <1>1, <2>7
    <3>3. ASSUME NEW i \in DOMAIN out
          PROVE  out[i].to = t /\ IsReq(out[i].msg, w + i)
      <4>1. more[i].req.seq = w + i
        BY <1>5, <2>11
      <4> QED
        BY <1>4, <4>1 DEF IsReq
    <3> QED
      BY <3>1, <3>2, <3>3
  <2>13. ASSUME NEW i \in DOMAIN out
         PROVE  LET j == out[i].msg.req.seq
                IN  Reached(t, j - 1) \/ Queued(out, i, t, j - 1)
    <3>1. out[i].msg.req.seq = w + i /\ i \in 1 .. n - w
      BY <2>12 DEF IsReq
    <3>2. PICK p : p = out[i].msg.req.seq - 1
      OBVIOUS
    <3> SUFFICES Reached(t, p) \/ Queued(out, i, t, p)
      BY <3>2
    <3>3. CASE i = 1
      <4>1. p <= srv[t].bank_update_seq
        BY <2>1, <2>7, <3>1, <3>2, <3>3 DEF k
      <4> QED
        BY <4>1 DEF Reached
    <3>4. CASE i # 1
      <4>1. i - 1 \in DOMAIN out /\ i - 1 < i /\ w + (i - 1) = p
        BY <2>7, <2>12, <3>1, <3>2, <3>4
      <4>2. out[i - 1].to = t /\ IsReq(out[i - 1].msg, p)
        BY <2>12, <4>1
      <4> QED
        BY <4>1, <4>2 DEF Queued
    <3> QED
      BY <3>3, <3>4
  <2>14. Stream(out)
    BY <1>4, <2>13 DEF Stream
  <2>15. Linked(new, out)
    <3>1. CASE n = w
      <4>1. n <= srv[t].bank_update_seq
        BY <2>7, <3>1 DEF k
      <4> QED
        BY <1>2, <4>1 DEF Linked, Reached
    <3>2. CASE n # w
      <4>1. /\ n - w \in DOMAIN out /\ w + (n - w) = n
        BY <1>1, <2>7, <2>12, <3>2
      <4>2. Len(out) = n - w
        <5>1. Outcome(st, res)
          BY <1>1, NewSuccServerOutcome
        <5>2. out \in Seq(ServerSend)
          BY <1>3, <5>1 DEF Outcome
        <5> QED
          BY <2>12, <5>2
      <4>3. n - w < Len(out) + 1
        BY <2>12, <4>2
      <4>4. out[n - w].to = t /\ IsReq(out[n - w].msg, n)
        BY <2>12, <4>1
      <4> QED
        BY <1>2, <4>1, <4>3, <4>4 DEF Linked, Queued
    <3> QED
      BY <3>1, <3>2
  <2> HIDE DEF res
  <2>16. Streams(res)
    BY <1>3, <1>6, <2>14, <2>15 DEF Streams
  <2> QED
    BY <2>16 DEF res, st
<1> QED
  BY <1>7, <1>8

LEMMA NewSuccNoMiss ==
    ASSUME NEW st, NEW m
    PROVE  NoMiss(receive_new_succserver(st, m).out)
PROOF
  BY DEF receive_new_succserver, forward_request, Send, NoMiss

\* The sends that a handler still had to make.
LEMMA ContinueStreams ==
    ASSUME TypeOK, SeqInv, StreamInv, NEW s \in alive, NEW res,
           res = [st |-> srv[s], out |-> sending[s]]
    PROVE  Streams(res)
PROOF
<1>1. s \in Processes
  BY DEF TypeOK, Processes
<1>2. Stream(sending[s]) /\ Linked(srv[s], sending[s])
  BY <1>1 DEF StreamInv, SendStreams, Links
<1>3. NoGap(sending[s])
  <2>1. \A i \in DOMAIN sending[s] : Deferrable(sending[s][i])
    BY <1>1 DEF SeqInv, GoodSends
  <2> QED
    BY <2>1 DEF NoGap, Deferrable
<1> QED
  BY <1>2, <1>3 DEF Streams

\* An update that server s takes off its inbox is applied.
TakesApplied(s, inbox, new) ==
    \/ inbox = tcp
    \/ /\ tcp[s] # <<>> /\ inbox = [tcp EXCEPT ![s] = Tail(tcp[s])]
       /\ Head(tcp[s]).type = "REQUEST" =>
                Head(tcp[s]).req.seq <= new.bank_update_seq

\* The first message of the inbox.
LEMMA AnswerStreams ==
    ASSUME TypeOK, RolesInv, SeqInv, StreamInv, NEW s \in alive,
           sending[s] = <<>>, tcp[s] # <<>>, NEW m, m = Head(tcp[s]),
           NEW res, Answers(s, m, res)
    PROVE  /\ Streams(res) /\ NoMiss(res.out)
           /\ m.type = "REQUEST" => m.req.seq <= res.st.bank_update_seq
PROOF
<1>1. /\ s \in Servers /\ srv[s] \in ServerState /\ Links
      /\ m \in Message /\ Good(Send(s, m))
      /\ Send(s, m).to = s /\ Send(s, m).msg = m
  BY FirstMessage DEF TypeOK, Send, StreamInv
<1>2. CASE m.type = "REQUEST" /\ res = receive_request(s, srv[s], m.req)
  <2>1. m.req \in Request /\ m.req.type # "QUERY"
    BY <1>1, <1>2, MessageFields DEF Good, Sound
  <2>2. m.req.seq <= srv[s].bank_update_seq + 1
    <3>1. tcp[s] \in Seq(Message)
      BY <1>1 DEF TypeOK, Processes
    <3>2. 1 \in DOMAIN tcp[s] /\ tcp[s][1] = m /\ DOMAIN tcp[s] \in SUBSET Nat
      BY <3>1
    <3>3. \A j \in DOMAIN tcp[s] : ~(j < 1)
      BY <3>1
    <3> QED
      BY <1>2, <3>2, <3>3 DEF StreamInv, InboxStreams
  <2>3. Streams(res) /\ m.req.seq <= res.st.bank_update_seq /\ NoMiss(res.out)
    BY <1>1, <1>2, <2>1, <2>2, RequestStreams
  <2> QED
    BY <2>3
<1>3. CASE m.type # "REQUEST" /\ m.type # "NEW_SUCC_SERVER"
  <2>1. QuietResult(srv[s], res)
    BY <1>1, <1>3, QuietAck, QuietHead, QuietTail, QuietPre,
       QuietTransferReply, QuietNewHead DEF Answers
  <2> QED
    BY <1>1, <1>3, <2>1, QuietStreams
<1>4. CASE m.type = "NEW_SUCC_SERVER"
  <2>1. res = receive_new_succserver(srv[s], m)
    BY <1>4 DEF Answers
  <2>2. GoodLink(m) /\ m.pre = s
    BY <1>1, <1>4 DEF Good
  <2>3. m.seq \in Nat /\ m.succ \in Servers
    BY <1>1, <1>4, MessageFields
  <2> QED
    BY <1>4, <2>1, <2>2, <2>3, NewSuccStreams, NewSuccNoMiss
<1> QED
  BY <1>2, <1>3, <1>4 DEF Answers

\* Whatever a server handles.
LEMMA HandledStreams ==
    ASSUME TypeOK, RolesInv, SeqInv, StreamInv, NEW s \in alive,
           NEW inbox, NEW res, Handled(s, inbox, res)
    PROVE  Streams(res) /\ TakesApplied(s, inbox, res.st)
PROOF
<1>1. CASE /\ sending[s] = <<>> /\ tcp[s] # <<>>
           /\ inbox = [tcp EXCEPT ![s] = Tail(tcp[s])]
           /\ Answers(s, Head(tcp[s]), res)
  BY <1>1, AnswerStreams DEF TakesApplied
<1>2. CASE inbox = tcp /\ res = [st |-> srv[s], out |-> sending[s]]
  BY <1>2, ContinueStreams DEF TakesApplied
<1>3. CASE /\ sending[s] = <<>> /\ inbox = tcp
           /\ \E r \in ClientUpdates \cup ClientQueries :
                r.bank = BankOf[s] /\ res = receive_request(s, srv[s], r)
  <2>1. PICK r \in ClientUpdates \cup ClientQueries :
                res = receive_request(s, srv[s], r)
    BY <1>3
  <2>2. r \in Request /\ r.seq = 0
    BY ChainAssumption DEF ClientRequest
  <2>3. 0 <= srv[s].bank_update_seq + 1
    BY StateBefore
  <2>4. Links
    BY DEF StreamInv
  <2>5. Streams(res)
    BY <1>3, <2>1, <2>2, <2>3, <2>4, RequestStreams
  <2> QED
    BY <1>3, <2>5 DEF TakesApplied
<1> QED
  BY <1>1, <1>2, <1>3 DEF Handled

-----------------------------------------------------------------------------
(* What a step does to the inboxes.                                        *)

\* Of the inbox of t, messages were taken from the front, whose updates t has
\* applied, and at most one was added, which is the next one there.
Carries(t, inbox) ==
    /\ \A n \in Int : Reached(t, n) =>
            \/ n <= srv'[t].bank_update_seq
            \/ \E i \in DOMAIN inbox[t] : IsReq(inbox[t][i], n)
    /\ \A i \in DOMAIN inbox[t] : inbox[t][i].type = "REQUEST" =>
            LET n == inbox[t][i].req.seq
            IN  \/ n <= srv'[t].bank_update_seq + 1
                \/ \E j \in DOMAIN inbox[t] : j < i /\ IsReq(inbox[t][j], n - 1)

Extends(t, inbox) ==
    /\ \A i \in DOMAIN inbox[t] : /\ i \in DOMAIN tcp'[t]
                                  /\ tcp'[t][i] = inbox[t][i]
    /\ \A i \in DOMAIN tcp'[t] :
            \/ i \in DOMAIN inbox[t]
            \/ /\ i = Len(inbox[t]) + 1
               /\ tcp'[t][i].type = "REQUEST" =>
                        Reached(t, tcp'[t][i].req.seq - 1)

\* The numbers in an inbox.
LEMMA InboxNumbers ==
    ASSUME NEW box \in Seq(Message)
    PROVE  \A i \in DOMAIN box : /\ i \in Nat /\ i >= 1 /\ i <= Len(box)
                                 /\ box[i] \in Message
                                 /\ box[i].type = "REQUEST" => box[i].req.seq \in Nat
PROOF
<1> SUFFICES ASSUME NEW i \in DOMAIN box
             PROVE  /\ i \in Nat /\ i >= 1 /\ i <= Len(box)
                    /\ box[i] \in Message
                    /\ box[i].type = "REQUEST" => box[i].req.seq \in Nat
  OBVIOUS
<1>1. i \in Nat /\ i >= 1 /\ i <= Len(box) /\ box[i] \in Message
  OBVIOUS
<1>2. PICK m \in Message : m = box[i]
  BY <1>1
<1>3. m.type = "REQUEST" => m.req.seq \in Nat
  BY MessageFields, RequestFields
<1> QED
  BY <1>1, <1>2, <1>3

\* Process p has taken its message: the inbox of t.
LEMMA TakenCarries ==
    ASSUME TypeOK, TypeOK', Grows, InboxStreams, NEW p \in Processes, NEW inbox,
           NEW t \in alive', p = t => TakesApplied(p, inbox, srv'[p]),
           Took(p, inbox)
    PROVE  Carries(t, inbox)
PROOF
<1> DEFINE box == tcp[t]
           k == srv[t].bank_update_seq
           k2 == srv'[t].bank_update_seq
<1>1. /\ t \in alive /\ t \in Servers /\ t \in Processes
      /\ box \in Seq(Message) /\ k \in Nat /\ k2 \in Nat /\ k <= k2
  <2>1. /\ t \in alive /\ t \in Servers /\ k <= k2
        /\ srv \in [Servers -> ServerState] /\ srv' \in [Servers -> ServerState]
    BY DEF Grows, TypeOK
  <2>2. k \in Nat /\ k2 \in Nat
    BY <2>1, ServerFields
  <2> QED
    BY <2>1, <2>2 DEF TypeOK, Processes
<1>2. \A i \in DOMAIN box : box[i].type = "REQUEST" =>
        LET n == box[i].req.seq
        IN  \/ n <= k + 1
            \/ \E j \in DOMAIN box : j < i /\ IsReq(box[j], n - 1)
  BY <1>1 DEF InboxStreams
<1>3. \A i \in DOMAIN box : /\ i \in Nat /\ i >= 1 /\ i <= Len(box)
                            /\ box[i].type = "REQUEST" => box[i].req.seq \in Nat
  BY <1>1, InboxNumbers
<1>4. CASE inbox[t] = box
  <2>1. \A n \in Int : Reached(t, n) =>
            n <= k2 \/ \E i \in DOMAIN box : IsReq(box[i], n)
    <3> SUFFICES ASSUME NEW n \in Int, n <= k PROVE n <= k2
      BY DEF Reached
    <3> HIDE DEF k, k2
    <3> QED
      BY <1>1
  <2>2. ASSUME NEW i \in DOMAIN box, box[i].type = "REQUEST",
               box[i].req.seq <= k + 1
        PROVE  box[i].req.seq <= k2 + 1
    <3>1. box[i].req.seq \in Nat
      BY <1>3, <2>2
    <3> HIDE DEF k, k2
    <3> QED
      BY <1>1, <2>2, <3>1
  <2> HIDE DEF k
  <2> QED
    BY <1>2, <1>4, <2>1, <2>2 DEF Carries, k2
<1>5. CASE inbox[t] # box
  <2>1. p = t /\ box # <<>> /\ inbox = [tcp EXCEPT ![p] = Tail(tcp[p])]
    BY <1>1, <1>5 DEF Took, TypeOK
  <2>2. Head(box).type = "REQUEST" => Head(box).req.seq <= k2
    BY <1>5, <2>1 DEF TakesApplied
  <2>3. inbox[t] = Tail(box)
    BY <1>1, <2>1 DEF TypeOK
  <2> DEFINE rest == Tail(box)
  <2>4. /\ 1 \in DOMAIN box /\ Head(box) = box[1]
        /\ \A i \in DOMAIN rest : /\ i + 1 \in DOMAIN box /\ i \in Nat
                                  /\ rest[i] = box[i + 1]
        /\ \A i \in DOMAIN box : i = 1 \/ /\ i - 1 \in DOMAIN rest
                                          /\ rest[i - 1] = box[i]
    BY <1>1, <2>1
  <2> HIDE DEF box, rest
  <2>5. ASSUME NEW n \in Int, Reached(t, n)
        PROVE  n <= k2 \/ \E i \in DOMAIN rest : IsReq(rest[i], n)
    <3>1. CASE n <= k
      <4> HIDE DEF k, k2
      <4> QED
        BY <1>1, <3>1
    <3>2. CASE \E i \in DOMAIN box : IsReq(box[i], n)
      <4>1. PICK i \in DOMAIN box : IsReq(box[i], n)
        BY <3>2
      <4>2. CASE i = 1
        BY <2>2, <2>4, <4>1, <4>2 DEF IsReq
      <4>3. CASE i # 1
        BY <2>4, <4>1, <4>3
      <4> QED
        BY <4>2, <4>3
    <3> QED
      BY <2>5, <3>1, <3>2 DEF Reached, box
  <2>6. ASSUME NEW i \in DOMAIN rest, rest[i].type = "REQUEST", NEW n,
               n = rest[i].req.seq
        PROVE  \/ n <= k2 + 1
               \/ \E j \in DOMAIN rest : j < i /\ IsReq(rest[j], n - 1)
    <3>1. /\ i + 1 \in DOMAIN box /\ box[i + 1] = rest[i] /\ i \in Nat
          /\ n \in Nat
      BY <1>3, <2>4, <2>6
    <3>2. \/ n <= k + 1
          \/ \E j \in DOMAIN box : j < i + 1 /\ IsReq(box[j], n - 1)
      BY <1>2, <2>6, <3>1
    <3>3. CASE n <= k + 1
      <4> HIDE DEF k, k2
      <4> QED
        BY <1>1, <3>1, <3>3
    <3>4. ASSUME NEW j \in DOMAIN box, j < i + 1, IsReq(box[j], n - 1)
          PROVE  \/ n <= k2 + 1
                 \/ \E l \in DOMAIN rest : l < i /\ IsReq(rest[l], n - 1)
      <4>1. CASE j = 1
        <5>1. n - 1 <= k2
          BY <2>2, <2>4, <3>4, <4>1 DEF IsReq
        <5> HIDE DEF k2
        <5> QED
          BY <1>1, <3>1, <5>1
      <4>2. CASE j # 1
        <5>1. j - 1 \in DOMAIN rest /\ IsReq(rest[j - 1], n - 1)
          BY <2>4, <3>4, <4>2
        <5>2. j - 1 < i
          BY <1>3, <3>1, <3>4
        <5> QED
          BY <5>1, <5>2
      <4> QED
        BY <4>1, <4>2
    <3> QED
      BY <3>2, <3>3, <3>4
  <2> QED
    BY <2>3, <2>5, <2>6 DEF Carries, rest
<1> QED
  BY <1>4, <1>5

\* What a server has reached, it keeps, and its inbox is still a stream.
LEMMA InboxesKept ==
    ASSUME TypeOK, TypeOK', Grows, NEW inbox \in Inboxes,
           \A t \in alive' : Carries(t, inbox) /\ Extends(t, inbox)
    PROVE  /\ \A t \in alive', n \in Int : Reached(t, n) => Reached(t, n)'
           /\ InboxStreams'
PROOF
<1>1. ASSUME NEW t \in alive', NEW n \in Int, Reached(t, n)
      PROVE  Reached(t, n)'
  <2>1. CASE n <= srv'[t].bank_update_seq
    BY <2>1 DEF Reached
  <2>2. CASE \E i \in DOMAIN inbox[t] : IsReq(inbox[t][i], n)
    <3>1. \E i \in DOMAIN tcp'[t] : IsReq(tcp'[t][i], n)
      BY <2>2 DEF Extends
    <3> QED
      BY <3>1 DEF Reached, IsReq
  <2> QED
    BY <1>1, <2>1, <2>2 DEF Carries
<1>2. ASSUME NEW t \in alive', NEW i \in DOMAIN tcp'[t],
             tcp'[t][i].type = "REQUEST", NEW n, n = tcp'[t][i].req.seq
      PROVE  \/ n <= srv'[t].bank_update_seq + 1
             \/ \E j \in DOMAIN tcp'[t] : j < i /\ IsReq(tcp'[t][j], n - 1)
  <2>1. /\ t \in Servers /\ t \in Processes /\ srv'[t].bank_update_seq \in Nat
        /\ inbox[t] \in Seq(Message) /\ tcp'[t] \in Seq(Message)
    <3>1. t \in Servers /\ t \in Processes /\ srv' \in [Servers -> ServerState]
          /\ tcp' \in [Processes -> Seq(Message)]
      BY DEF TypeOK, Processes
    <3> QED
      BY <3>1, ServerFields DEF Inboxes
  <2>2. n \in Nat
    BY <1>2, <2>1, InboxNumbers
  <2>3. CASE i \in DOMAIN inbox[t]
    <3>1. tcp'[t][i] = inbox[t][i]
      BY <2>3 DEF Extends
    <3>2. \/ n <= srv'[t].bank_update_seq + 1
          \/ \E j \in DOMAIN inbox[t] : j < i /\ IsReq(inbox[t][j], n - 1)
      BY <1>2, <2>3, <3>1 DEF Carries
    <3> QED
      BY <3>2 DEF Extends
  <2>4. CASE i \notin DOMAIN inbox[t]
    <3>1. i = Len(inbox[t]) + 1 /\ Reached(t, n - 1)
      BY <1>2, <2>4 DEF Extends
    <3>2. \/ n - 1 <= srv'[t].bank_update_seq
          \/ \E j \in DOMAIN inbox[t] : IsReq(inbox[t][j], n - 1)
      <4>1. PICK l \in Int : l = n - 1
        BY <2>2
      <4> QED
        BY <3>1, <4>1 DEF Carries
    <3>3. \A j \in DOMAIN inbox[t] : j < i
      BY <2>1, <3>1
    <3>4. n - 1 <= srv'[t].bank_update_seq => n <= srv'[t].bank_update_seq + 1
      BY <2>1, <2>2
    <3> QED
      BY <3>2, <3>3, <3>4 DEF Extends
  <2> QED
    BY <2>3, <2>4
<1>3. InboxStreams'
  BY <1>2 DEF InboxStreams, IsReq
<1> QED
  BY <1>1, <1>3

\* The streams of sends, and the links, that a step leaves alone, or of which
\* it makes the first send.
LEMMA StreamKept ==
    ASSUME TypeOK, TypeOK', Grows,
           \A t \in alive', n \in Int : Reached(t, n) => Reached(t, n)'
    PROVE  /\ \A out \in Seq(Outgoing) : Stream(out) => Stream(out)'
           /\ \A st \in ServerState, out \in Seq(Outgoing) :
                Linked(st, out) => Linked(st, out)'
PROOF
<1>1. alive' \in SUBSET alive
  BY DEF Grows
<1>2. ASSUME NEW out \in Seq(Outgoing), Stream(out) PROVE Stream(out)'
  <2> SUFFICES ASSUME NEW i \in DOMAIN out, out[i].to \in alive',
                      out[i].msg.type = "REQUEST", NEW n,
                      n = out[i].msg.req.seq
               PROVE  Reached(out[i].to, n - 1)' \/ Queued(out, i, out[i].to, n - 1)
    BY DEF Stream, Queued, IsReq
  <2>1. Reached(out[i].to, n - 1) \/ Queued(out, i, out[i].to, n - 1)
    BY <1>1, <1>2 DEF Stream
  <2>2. n \in Nat
    <3>1. out[i] \in Outgoing
      OBVIOUS
    <3>2. PICK m \in Message : m = out[i].msg
      BY <3>1 DEF Outgoing
    <3> QED
      BY <3>2, MessageFields, RequestFields
  <2>3. n - 1 \in Int
    BY <2>2
  <2> QED
    BY <2>1, <2>3
<1>3. ASSUME NEW st \in ServerState, NEW out \in Seq(Outgoing), Linked(st, out)
      PROVE  Linked(st, out)'
  <2>1. st.bank_update_seq \in Int
    BY DEF ServerState
  <2> QED
    BY <1>1, <1>3, <2>1 DEF Linked, Queued, IsReq
<1> QED
  BY <1>2, <1>3

LEMMA StreamSent ==
    ASSUME TypeOK, TypeOK', Grows,
           \A t \in alive', n \in Int : Reached(t, n) => Reached(t, n)',
           NEW out \in Seq(Outgoing), out # <<>>,
           \A t \in alive' : \A n : out[1].to = t /\ IsReq(out[1].msg, n) => Reached(t, n)'
    PROVE  /\ Stream(out) => Stream(Tail(out))'
           /\ \A st \in ServerState : Linked(st, out) => Linked(st, Tail(out))'
PROOF
<1> DEFINE rest == Tail(out)
<1>1. /\ alive' \in SUBSET alive
      /\ rest \in Seq(Outgoing) /\ Len(rest) = Len(out) - 1 /\ Len(out) \in Nat
      /\ DOMAIN out \in SUBSET Nat
      /\ \A i \in DOMAIN rest : /\ i + 1 \in DOMAIN out /\ i \in Nat
                                /\ rest[i] = out[i + 1]
      /\ \A i \in DOMAIN out : i = 1 \/ /\ i - 1 \in DOMAIN rest
                                        /\ rest[i - 1] = out[i]
  BY DEF Grows
<1> HIDE DEF rest
<1>2. ASSUME NEW k \in Nat, NEW t \in alive', NEW n \in Int,
             Reached(t, n) \/ Queued(out, k + 1, t, n)
      PROVE  Reached(t, n)' \/ Queued(rest, k, t, n)
  <2>1. CASE Reached(t, n)
    BY <2>1
  <2>2. CASE Queued(out, k + 1, t, n)
    <3>1. PICK j \in DOMAIN out :
            j < k + 1 /\ out[j].to = t /\ IsReq(out[j].msg, n)
      BY <2>2 DEF Queued
    <3>2. CASE j = 1
      BY <3>1, <3>2
    <3>3. CASE j # 1
      <4>1. j - 1 \in DOMAIN rest /\ rest[j - 1] = out[j] /\ j - 1 < k
        BY <1>1, <3>1, <3>3
      <4> QED
        BY <3>1, <4>1 DEF Queued
    <3> QED
      BY <3>2, <3>3
  <2> QED
    BY <1>2, <2>1, <2>2
<1>3. ASSUME Stream(out) PROVE Stream(rest)'
  <2> SUFFICES ASSUME NEW i \in DOMAIN rest, rest[i].to \in alive',
                      rest[i].msg.type = "REQUEST", NEW n,
                      n = rest[i].msg.req.seq
               PROVE  Reached(rest[i].to, n - 1)' \/ Queued(rest, i, rest[i].to, n - 1)
    BY DEF Stream, Queued, IsReq
  <2>1. i + 1 \in DOMAIN out /\ i \in Nat /\ rest[i] = out[i + 1]
    BY <1>1
  <2>2. Reached(rest[i].to, n - 1) \/ Queued(out, i + 1, rest[i].to, n - 1)
    BY <1>1, <1>3, <2>1 DEF Stream
  <2>3. n \in Nat
    <3>1. rest[i] \in Outgoing
      BY <1>1
    <3>2. PICK m \in Message : m = rest[i].msg
      BY <3>1 DEF Outgoing
    <3> QED
      BY <3>2, MessageFields, RequestFields
  <2>4. n - 1 \in Int
    BY <2>3
  <2> QED
    BY <1>2, <2>1, <2>2, <2>4
<1>4. ASSUME NEW st \in ServerState, Linked(st, out), st.succ \in alive'
      PROVE  \/ Reached(st.succ, st.bank_update_seq)'
             \/ Queued(rest, Len(rest) + 1, st.succ, st.bank_update_seq)
  <2>1. st.bank_update_seq \in Int
    BY DEF ServerState
  <2>2. Len(rest) + 1 \in Nat /\ Len(out) + 1 = (Len(rest) + 1) + 1
    BY <1>1
  <2>3. \/ Reached(st.succ, st.bank_update_seq)
        \/ Queued(out, Len(out) + 1, st.succ, st.bank_update_seq)
    BY <1>1, <1>4 DEF Linked
  <2> QED
    BY <1>2, <1>4, <2>1, <2>2, <2>3
<1>5. \A st \in ServerState : Linked(st, out) => Linked(st, rest)'
  BY <1>4 DEF Linked, Queued, IsReq
<1> QED
  BY <1>3, <1>5 DEF rest

\* The inbox of a living server after a delivery.
LEMMA DeliveredNext ==
    ASSUME TypeOK, NEW inbox \in Inboxes, NEW o \in Outgoing, NEW t \in alive,
           tcp' = send_msg_tcp(inbox, o),
           o.to = t /\ o.msg.type = "REQUEST" => Reached(t, o.msg.req.seq - 1)
    PROVE  /\ Extends(t, inbox)
           /\ o.to = t => \E i \in DOMAIN tcp'[t] : tcp'[t][i] = o.msg
PROOF
<1>1. t \in Processes /\ inbox[t] \in Seq(Message) /\ o.msg \in Message
  BY DEF TypeOK, Processes, Inboxes, Outgoing
<1>2. CASE o.to = t
  <2> DEFINE box == inbox[t]
             new == Append(box, o.msg)
  <2>1. tcp'[t] = new
    BY <1>1, <1>2 DEF send_msg_tcp, Inboxes
  <2>2. /\ \A i \in DOMAIN box : i \in DOMAIN new /\ new[i] = box[i]
        /\ \A i \in DOMAIN new :
                \/ i \in DOMAIN box
                \/ i = Len(box) + 1 /\ new[i] = o.msg
        /\ Len(box) + 1 \in DOMAIN new /\ new[Len(box) + 1] = o.msg
    BY <1>1
  <2> HIDE DEF new
  <2> QED
    BY <1>2, <2>1, <2>2 DEF Extends
<1>3. CASE o.to # t
  <2>1. tcp'[t] = inbox[t]
    BY <1>1, <1>3 DEF send_msg_tcp, Inboxes
  <2> QED
    BY <1>3, <2>1 DEF Extends
<1> QED
  BY <1>2, <1>3

\* A process makes the first of its sends.
LEMMA TransmitStreams ==
    ASSUME TypeOK, TypeOK', Grows, alive' = alive, StreamInv,
           NEW p \in Processes, NEW inbox \in Inboxes, Took(p, inbox),
           p \in alive => TakesApplied(p, inbox, srv'[p]),
           NEW out \in Seq(Outgoing), Transmit(p, inbox, out), Stream(out),
           p \in alive => Linked(srv'[p], out),
           \A u \in alive : u # p => srv'[u] = srv[u]
    PROVE  InboxStreams' /\ SendStreams' /\ Links'
PROOF
<1>1. /\ sending \in [Processes -> Seq(Outgoing)] /\ alive \in SUBSET Servers
      /\ srv' \in [Servers -> ServerState] /\ InboxStreams
      /\ alive \in SUBSET Processes
  BY DEF TypeOK, StreamInv, Processes
<1>2. \A t \in alive' : Carries(t, inbox)
  BY <1>1, TakenCarries
<1>3. \A t \in alive' :
        /\ Extends(t, inbox)
        /\ out # <<>> /\ out[1].to = t =>
                \E i \in DOMAIN tcp'[t] : tcp'[t][i] = out[1].msg
  <2>1. CASE out = <<>>
    <3>1. tcp' = inbox
      BY <2>1 DEF Transmit
    <3> QED
      BY <2>1, <3>1 DEF Extends
  <2>2. CASE out # <<>>
    <3>1. Head(out) = out[1] /\ 1 \in DOMAIN out /\ out[1] \in Outgoing
      BY <2>2
    <3>2. tcp' = send_msg_tcp(inbox, out[1])
      BY <2>2, <3>1 DEF Transmit
    <3>3. \A t \in alive : out[1].to = t /\ out[1].msg.type = "REQUEST" =>
                Reached(t, out[1].msg.req.seq - 1)
      <4>1. \A j \in DOMAIN out : ~(j < 1)
        OBVIOUS
      <4> QED
        BY <3>1, <4>1 DEF Stream, Queued
    <3>4. PICK o \in Outgoing : o = out[1]
      BY <3>1
    <3>5. \A t \in alive : /\ Extends(t, inbox)
                           /\ o.to = t => \E i \in DOMAIN tcp'[t] : tcp'[t][i] = o.msg
      BY <3>2, <3>3, <3>4, DeliveredNext
    <3> QED
      BY <3>4, <3>5
  <2> QED
    BY <2>1, <2>2
<1>4. /\ \A t \in alive', n \in Int : Reached(t, n) => Reached(t, n)'
      /\ InboxStreams'
  BY <1>2, <1>3, InboxesKept
<1>5. /\ \A q \in Seq(Outgoing) : Stream(q) => Stream(q)'
      /\ \A st \in ServerState, q \in Seq(Outgoing) :
                Linked(st, q) => Linked(st, q)'
  BY <1>4, StreamKept
<1>6. \A q \in Processes : q # p => sending'[q] = sending[q]
  BY TransmitContents
<1>7. /\ \E rest \in Seq(Outgoing) : rest = sending'[p] /\ Stream(rest)'
      /\ \A st \in ServerState : \A rest :
            Linked(st, out) /\ rest = sending'[p] => Linked(st, rest)'
  <2>1. CASE out = <<>>
    <3>1. sending'[p] = out /\ out \in Seq(Outgoing)
      BY <1>1, <2>1 DEF Transmit
    <3> QED
      BY <1>5, <3>1
  <2>2. CASE out # <<>>
    <3>1. sending'[p] = Tail(out) /\ Tail(out) \in Seq(Outgoing)
      BY <1>1, <2>2 DEF Transmit
    <3>2. \A t \in alive' : \A n : out[1].to = t /\ IsReq(out[1].msg, n) =>
                Reached(t, n)'
      BY <1>3, <2>2 DEF Reached, IsReq
    <3>3. /\ Stream(Tail(out))'
          /\ \A st \in ServerState : Linked(st, out) => Linked(st, Tail(out))'
      BY <1>4, <2>2, <3>2, StreamSent
    <3> QED
      BY <3>1, <3>3
  <2> QED
    BY <2>1, <2>2
<1>8. SendStreams'
  <2> SUFFICES ASSUME NEW q \in Processes PROVE Stream(sending[q])'
    BY DEF SendStreams
  <2>1. PICK s : s = sending'[q]
    OBVIOUS
  <2>2. CASE q = p
    BY <1>7, <2>1, <2>2
  <2>3. CASE q # p
    <3>1. s \in Seq(Outgoing) /\ Stream(s)
      BY <1>1, <1>6, <2>1, <2>3 DEF StreamInv, SendStreams
    <3>2. Stream(s)'
      BY <1>5, <3>1
    <3> QED
      BY <2>1, <3>2
  <2> QED
    BY <2>2, <2>3
<1>9. Links'
  <2> SUFFICES ASSUME NEW u \in alive PROVE Linked(srv[u], sending[u])'
    BY DEF Links
  <2>1. PICK st, s : st = srv'[u] /\ s = sending'[u]
    OBVIOUS
  <2>2. st \in ServerState /\ u \in Processes
    BY <1>1, <2>1
  <2>3. CASE u = p
    <3>1. Linked(st, out)
      BY <2>1, <2>3
    <3>2. Linked(st, s)'
      BY <1>7, <2>1, <2>2, <2>3, <3>1
    <3> QED
      BY <2>1, <3>2
  <2>4. CASE u # p
    <3>1. s \in Seq(Outgoing) /\ Linked(st, s)
      BY <1>1, <1>6, <2>1, <2>2, <2>4 DEF StreamInv, Links
    <3>2. Linked(st, s)'
      BY <1>5, <2>2, <3>1
    <3> QED
      BY <2>1, <3>2
  <2> QED
    BY <2>3, <2>4
<1> QED
  BY <1>4, <1>8, <1>9

\* A server ends.
LEMMA DieStreams ==
    ASSUME TypeOK, TypeOK', Grows, StreamInv, NEW s \in Servers,
           NEW inbox \in Inboxes, Took(s, inbox), Die(s, inbox)
    PROVE  InboxStreams' /\ SendStreams' /\ Links'
PROOF
<1>1. /\ alive' = alive \ {s}
      /\ srv' = [srv EXCEPT ![s] = InitialServer(s, FALSE)]
      /\ tcp' = [inbox EXCEPT ![s] = <<>>]
      /\ sending' = [sending EXCEPT ![s] = <<>>]
  BY DEF Die
<1>2. /\ s \in Processes /\ alive \in SUBSET Servers
      /\ srv \in [Servers -> ServerState] /\ InboxStreams
      /\ sending \in [Processes -> Seq(Outgoing)]
      /\ alive \in SUBSET Processes
  BY DEF TypeOK, Processes, StreamInv
<1>3. \A t \in alive' : t # s /\ t \in Servers /\ t \in Processes /\ t \in alive
  BY <1>1, <1>2
<1>4. \A t \in alive' : Carries(t, inbox)
  BY <1>2, <1>3, TakenCarries
<1>5. \A t \in alive' : Extends(t, inbox)
  <2>1. \A t \in alive' : tcp'[t] = inbox[t]
    BY <1>1, <1>3 DEF Inboxes
  <2> QED
    BY <2>1 DEF Extends
<1>6. /\ \A t \in alive', n \in Int : Reached(t, n) => Reached(t, n)'
      /\ InboxStreams'
  BY <1>4, <1>5, InboxesKept
<1>7. /\ \A q \in Seq(Outgoing) : Stream(q) => Stream(q)'
      /\ \A st \in ServerState, q \in Seq(Outgoing) :
                Linked(st, q) => Linked(st, q)'
  BY <1>6, StreamKept
<1>8. SendStreams'
  <2> SUFFICES ASSUME NEW q \in Processes PROVE Stream(sending[q])'
    BY DEF SendStreams
  <2>1. PICK out : out = sending'[q]
    OBVIOUS
  <2>2. out \in Seq(Outgoing) /\ Stream(out)
    <3>1. CASE q = s
      BY <1>1, <1>2, <2>1, <3>1 DEF Stream
    <3>2. CASE q # s
      BY <1>1, <1>2, <2>1, <3>2 DEF StreamInv, SendStreams
    <3> QED
      BY <3>1, <3>2
  <2>3. Stream(out)'
    BY <1>7, <2>2
  <2> QED
    BY <2>1, <2>3
<1>9. Links'
  <2> SUFFICES ASSUME NEW u \in alive' PROVE Linked(srv[u], sending[u])'
    BY DEF Links
  <2>1. PICK st, out : st = srv'[u] /\ out = sending'[u]
    OBVIOUS
  <2>2. st = srv[u] /\ out = sending[u]
    BY <1>1, <1>2, <1>3, <2>1
  <2>3. st \in ServerState /\ out \in Seq(Outgoing) /\ Linked(st, out)
    BY <1>2, <1>3, <2>2 DEF StreamInv, Links
  <2>4. Linked(st, out)'
    BY <1>7, <2>3
  <2> QED
    BY <2>1, <2>4
<1> QED
  BY <1>6, <1>8, <1>9

-----------------------------------------------------------------------------
(* The invariant.                                                          *)

\* Steps of servers and clients, and crashes.
LEMMA ServerStreams ==
    ASSUME TypeOK, TypeOK', ServersObey, RolesInv, RolesInv', SeqInv, StreamInv,
           NEW s \in Servers,
           ServerStep(s) \/ ClientUpdate(s) \/ ClientQuery(s) \/ Crash(s)
    PROVE  StreamInv'
PROOF
<1>1. NoGapInUpdates
  BY DEF StreamInv
<1>2. CASE Crash(s)
  <2>1. Die(s, tcp) /\ tcp \in Inboxes /\ Took(s, tcp) /\ aborted' = aborted
    BY <1>2 DEF Crash, TypeOK, Inboxes, Took
  <2>2. Grows
    BY <2>1, DieKeeps
  <2> QED
    BY <1>1, <2>1, <2>2, DieStreams DEF StreamInv, NoGapInUpdates
<1>3. CASE ServerStep(s) \/ ClientUpdate(s) \/ ClientQuery(s)
  <2>1. /\ s \in alive
        /\ \E inbox, res : Handled(s, inbox, res) /\ Perform(s, inbox, res)
    BY <1>3, StepHandles
  <2>2. PICK inbox, res : Handled(s, inbox, res) /\ Perform(s, inbox, res)
    BY <2>1
  <2>3. /\ inbox \in Inboxes /\ Took(s, inbox)
        /\ Outcome(srv[s], res) /\ Effect(s, res)
    BY <2>1, <2>2, HandledEffect
  <2>4. Streams(res) /\ TakesApplied(s, inbox, res.st)
    BY <2>1, <2>2, HandledStreams
  <2>5. Grows
    BY <2>1, <2>2, <2>3, PerformKeeps
  <2>6. CASE /\ Aborts(res.out) /\ Die(s, inbox)
             /\ aborted' = aborted \cup {<<s, Head(res.out).msg.which>>}
    <3>1. InboxStreams' /\ SendStreams' /\ Links'
      BY <2>3, <2>5, <2>6, DieStreams
    <3>2. 1 \in DOMAIN res.out /\ Head(res.out) = res.out[1]
      BY <2>3, <2>6 DEF Outcome, Aborts
    <3>3. Head(res.out).msg.which # "FIFO"
      BY <2>4, <2>6, <3>2 DEF Streams, NoGap, Aborts
    <3>4. NoGapInUpdates'
      BY <1>1, <2>6, <3>3 DEF NoGapInUpdates
    <3> QED
      BY <3>1, <3>4 DEF StreamInv
  <2>7. CASE /\ srv' = [srv EXCEPT ![s] = res.st]
             /\ Transmit(s, inbox, res.out)
             /\ UNCHANGED <<alive, aborted>>
    <3>1. /\ srv \in [Servers -> ServerState] /\ s \in Processes
          /\ alive \in SUBSET Servers
      BY DEF TypeOK, Processes
    <3>2. srv'[s] = res.st /\ \A u \in alive : u # s => srv'[u] = srv[u]
      BY <2>7, <3>1
    <3>3. res.out \in Seq(Outgoing)
      <4>1. ServerSend \in SUBSET Outgoing /\ res.out \in Seq(ServerSend)
        BY <2>3 DEF ServerSend, Outcome
      <4> QED
        BY <4>1
    <3>4. PICK out \in Seq(Outgoing) : out = res.out
      BY <3>3
    <3>5. Stream(out) /\ Linked(srv'[s], out)
      BY <2>4, <3>2, <3>4 DEF Streams
    <3>6. alive' = alive /\ aborted' = aborted
      BY <2>7
    <3>7. InboxStreams' /\ SendStreams' /\ Links'
      BY <2>3, <2>4, <2>5, <2>7, <3>1, <3>2, <3>4, <3>5, <3>6, TransmitStreams
    <3> QED
      BY <1>1, <3>6, <3>7 DEF StreamInv, NoGapInUpdates
  <2> QED
    BY <2>2, <2>6, <2>7 DEF Perform
<1> QED
  BY <1>2, <1>3

\* Steps of the master.
LEMMA MasterStreams ==
    ASSUME TypeOK, TypeOK', MasterKnowsEnds, RolesInv, SeqInv, StreamInv, MasterStep
    PROVE  StreamInv'
PROOF
<1>1. /\ Master \in Processes /\ Master \notin alive
      /\ tcp \in Inboxes /\ Took(Master, tcp)
      /\ sending \in [Processes -> Seq(Outgoing)]
      /\ tcp[Master] \in Seq(Message)
  BY MasterAssumption DEF Processes, TypeOK, Inboxes, Took
<1>2. UNCHANGED servers
  BY DEF MasterStep, NotifyHeadCrash, NotifyTailCrash, NotifyInternalCrash,
         NotifyCrash, MasterContinue, ForwardReqSeq
<1>3. srv' = srv /\ alive' = alive /\ aborted' = aborted
  BY <1>2 DEF servers
<1>4. Grows
  <2>1. \A x \in alive : srv[x].bank_update_seq \in Nat
    BY ServerFields DEF TypeOK
  <2> QED
    BY <1>3, <2>1 DEF Grows
<1>5. NoGapInUpdates'
  BY <1>3 DEF StreamInv, NoGapInUpdates
<1>6. ASSUME NEW out \in Seq(Outgoing), Transmit(Master, tcp, out), Stream(out)
      PROVE  StreamInv'
  <2>1. InboxStreams' /\ SendStreams' /\ Links'
    BY <1>1, <1>3, <1>4, <1>6, TransmitStreams
  <2> QED
    BY <1>5, <2>1 DEF StreamInv
<1>7. ASSUME NEW b \in Banks, NEW s \in Servers,
             \/ NotifyHeadCrash(b, s)
             \/ NotifyTailCrash(b, s)
             \/ NotifyInternalCrash(b, s)
      PROVE  StreamInv'
  <2>1. PICK out \in Seq(Outgoing) :
            /\ Transmit(Master, tcp, out)
            /\ \A i \in DOMAIN out : out[i].msg.type \in OrderTypes
    BY <1>7, NotifySends
  <2>2. Stream(out)
    BY <2>1 DEF Stream, OrderTypes
  <2> QED
    BY <1>6, <2>1, <2>2
<1>8. CASE MasterContinue
  <2>1. Transmit(Master, tcp, sending[Master])
    BY <1>8 DEF MasterContinue
  <2>2. sending[Master] \in Seq(Outgoing) /\ Stream(sending[Master])
    BY <1>1 DEF StreamInv, SendStreams
  <2> QED
    BY <1>6, <2>1, <2>2
<1>9. CASE ForwardReqSeq
  <2> DEFINE m == Head(tcp[Master])
             n == [m EXCEPT !.type = "NEW_SUCC_SERVER"]
             inbox == [tcp EXCEPT ![Master] = Tail(tcp[Master])]
  <2>1. /\ tcp[Master] # <<>> /\ m.type = "REQ_SEQ"
        /\ tcp' = send_msg_tcp(inbox, Send(m.pre, n))
        /\ sending' = sending
    BY <1>9 DEF ForwardReqSeq
  <2>2. m \in Message /\ Tail(tcp[Master]) \in Seq(Message)
    BY <1>1, <2>1
  <2>3. inbox \in Inboxes /\ Took(Master, inbox)
    BY <1>1, <2>1, <2>2 DEF Inboxes, Took
  <2>4. Send(m.pre, n) \in Outgoing
    BY <2>1, <2>2, ForwardedReqSeq
  <2>5. PICK o \in Outgoing : o = Send(m.pre, n)
    BY <2>4
  <2>6. o.msg.type = "NEW_SUCC_SERVER"
    <3>1. n.type = "NEW_SUCC_SERVER"
      <4>1. m = [type |-> m.type, seq |-> m.seq, pre |-> m.pre, succ |-> m.succ]
        BY <2>1, <2>2, MessageFields
      <4> QED
        BY <4>1
    <3> HIDE DEF n
    <3> QED
      BY <2>5, <3>1 DEF Send
  <2>7. tcp' = send_msg_tcp(inbox, o)
    BY <2>1, <2>5
  <2> HIDE DEF inbox, n, m
  <2>8. \A t \in alive' : Carries(t, inbox) /\ Extends(t, inbox)
    <3>1. \A t \in alive : Extends(t, inbox)
      BY <2>3, <2>6, <2>7, DeliveredNext
    <3>2. InboxStreams
      BY DEF StreamInv
    <3>3. \A t \in alive' : Carries(t, inbox)
      BY <1>1, <1>3, <1>4, <2>3, <3>2, TakenCarries
    <3> QED
      BY <1>3, <3>1, <3>3
  <2>9. /\ \A t \in alive', k \in Int : Reached(t, k) => Reached(t, k)'
        /\ InboxStreams'
    BY <1>4, <2>3, <2>8, InboxesKept
  <2>10. /\ \A q \in Seq(Outgoing) : Stream(q) => Stream(q)'
         /\ \A st \in ServerState, q \in Seq(Outgoing) :
                Linked(st, q) => Linked(st, q)'
    BY <1>4, <2>9, StreamKept
  <2>11. SendStreams'
    <3> SUFFICES ASSUME NEW q \in Processes PROVE Stream(sending[q])'
      BY DEF SendStreams
    <3>1. PICK out : out = sending[q]
      OBVIOUS
    <3>2. out \in Seq(Outgoing) /\ Stream(out)
      BY <1>1, <3>1 DEF StreamInv, SendStreams
    <3>3. Stream(out)'
      BY <2>10, <3>2
    <3> QED
      BY <2>1, <3>1, <3>3
  <2>12. Links'
    <3> SUFFICES ASSUME NEW u \in alive PROVE Linked(srv[u], sending[u])'
      BY <1>3 DEF Links
    <3>1. PICK st, out : st = srv[u] /\ out = sending[u]
      OBVIOUS
    <3>2. st \in ServerState /\ out \in Seq(Outgoing) /\ Linked(st, out)
      BY <1>1, <3>1 DEF StreamInv, Links, TypeOK, Processes
    <3>3. Linked(st, out)'
      BY <2>10, <3>2
    <3> QED
      BY <1>3, <2>1, <3>1, <3>3
  <2> QED
    BY <1>5, <2>9, <2>11, <2>12 DEF StreamInv
<1> QED
  BY <1>7, <1>8, <1>9 DEF MasterStep

LEMMA InitStreams == Init => StreamInv
PROOF
<1> SUFFICES ASSUME Init PROVE StreamInv
  OBVIOUS
<1>1. PICK flag \in [Servers -> UninitializedFlag] :
        srv = [s \in Servers |-> InitialServer(s, flag[s])]
  BY DEF Init
<1>2. /\ alive = Servers /\ aborted = {}
      /\ tcp = [p \in Processes |-> <<>>]
      /\ sending = [p \in Processes |-> <<>>]
  BY DEF Init
<1>3. \A s \in Servers : srv[s].bank_update_seq = 0
  BY <1>1 DEF InitialServer
<1>4. InboxStreams /\ SendStreams /\ NoGapInUpdates
  BY <1>2 DEF InboxStreams, SendStreams, Stream, NoGapInUpdates, Processes
<1>5. Links
  BY <1>2, <1>3 DEF Links, Linked, Reached
<1> QED
  BY <1>4, <1>5 DEF StreamInv

LEMMA NextStreams ==
    /\ IInv /\ IInv' /\ RolesInv /\ RolesInv' /\ SeqInv
    /\ StreamInv /\ [Next]_vars
    => StreamInv'
PROOF
<1> SUFFICES ASSUME IInv, IInv', RolesInv, RolesInv', SeqInv, StreamInv,
                    [Next]_vars
             PROVE  StreamInv'
  OBVIOUS
<1>1. TypeOK /\ TypeOK' /\ ServersObey /\ MasterKnowsEnds
  BY DEF IInv
<1>2. ASSUME NEW s \in Servers,
             ServerStep(s) \/ ClientUpdate(s) \/ ClientQuery(s) \/ Crash(s)
      PROVE  StreamInv'
  BY <1>1, <1>2, ServerStreams
<1>3. CASE MasterStep
  BY <1>1, <1>3, MasterStreams
<1>4. CASE UNCHANGED vars
  <2>1. /\ srv' = srv /\ alive' = alive /\ tcp' = tcp /\ sending' = sending
        /\ aborted' = aborted
    BY <1>4 DEF vars
  <2> QED
    BY <2>1 DEF StreamInv, InboxStreams, SendStreams, Links, NoGapInUpdates,
                Stream, Linked, Reached, Queued, IsReq
<1> QED
  BY <1>2, <1>3, <1>4 DEF Next

\* The assertion of receive_request that no update is missing never fails,
\* whichever servers crash and whatever waits in their inboxes: an update
\* reaches a server only after the one before it.
THEOREM UpdatesArriveInOrder == Spec => []NoGapInUpdates
PROOF
<1>1. Init => StreamInv
  BY InitStreams
<1>2. /\ IInv /\ RolesInv /\ SeqInv
      /\ (IInv /\ RolesInv /\ SeqInv)'
      /\ StreamInv /\ [Next]_vars
      => StreamInv'
  BY NextStreams
<1>3. StreamInv => NoGapInUpdates
  BY DEF StreamInv
<1> QED
  BY <1>1, <1>2, <1>3, SeqInvariant, PTL DEF Spec

-----------------------------------------------------------------------------
(* Queries at a server that is not tail.  A server that clients know as    *)
(* tail is the last of the master's chain, and is told so by a message     *)
(* that is in its inbox already, if it does not act as tail yet.           *)

\* Clients know server s as a tail, or the master is about to tell them.
Announced(s) ==
    \/ s \in known_tails[BankOf[s]]
    \/ \E i \in DOMAIN sending[Master] :
            LET m == sending[Master][i].msg
            IN  m.type = "NEW_TAIL" /\ m.server = s

AnnouncedTails ==
    \A s \in alive : Announced(s) =>
        /\ s = tail[BankOf[s]]
        /\ srv[s].istail \/ Ordered(tcp, s, "TO_BE_TAIL")

\* A delivery takes no order away.
LEMMA DeliveryKeepsOrder ==
    ASSUME TypeOK, NEW inbox \in Inboxes, NEW o \in Outgoing, NEW x \in Servers,
           NEW type, Ordered(inbox, x, type)
    PROVE  Ordered(send_msg_tcp(inbox, o), x, type)
PROOF
<1>1. x \in Processes /\ inbox[x] \in Seq(Message) /\ o.msg \in Message
  BY DEF Processes, Inboxes, Outgoing
<1>2. PICK i \in DOMAIN inbox[x] : inbox[x][i].type = type
  BY DEF Ordered
<1>3. PICK new : new = send_msg_tcp(inbox, o)[x]
  OBVIOUS
<1>4. new = inbox[x] \/ new = Append(inbox[x], o.msg)
  BY <1>1, <1>3, Delivered
<1>5. i \in DOMAIN new /\ new[i] = inbox[x][i]
  BY <1>1, <1>4
<1> QED
  BY <1>2, <1>3, <1>5 DEF Ordered

\* Neither does a send; and what it tells clients of a tail is its message.
LEMMA TransmitTells ==
    ASSUME TypeOK, NEW p \in Processes, NEW inbox \in Inboxes,
           NEW out \in Seq(Outgoing), Transmit(p, inbox, out), NEW x \in Servers
    PROVE  /\ \A type : Ordered(inbox, x, type) => Ordered(tcp', x, type)
           /\ x \in known_tails'[BankOf[x]] =>
                \/ x \in known_tails[BankOf[x]]
                \/ /\ 1 \in DOMAIN out /\ out[1].msg.type = "NEW_TAIL"
                   /\ out[1].msg.server = x
PROOF
<1>1. BankOf[x] \in Banks /\ known_tails \in [Banks -> SUBSET Servers]
  BY ChainAssumption DEF TypeOK
<1>2. CASE out = <<>>
  BY <1>2 DEF Transmit
<1>3. CASE out # <<>>
  <2>1. Head(out) = out[1] /\ 1 \in DOMAIN out /\ out[1] \in Outgoing
    BY <1>3
  <2>2. tcp' = send_msg_tcp(inbox, out[1]) /\ send_msg_udp(out[1])
    BY <1>3, <2>1 DEF Transmit
  <2>3. \A type : Ordered(inbox, x, type) => Ordered(tcp', x, type)
    BY <2>1, <2>2, DeliveryKeepsOrder
  <2>4. x \in known_tails'[BankOf[x]] =>
            \/ x \in known_tails[BankOf[x]]
            \/ out[1].msg.type = "NEW_TAIL" /\ out[1].msg.server = x
    BY <1>1, <2>2 DEF send_msg_udp
  <2> QED
    BY <2>1, <2>3, <2>4
<1> QED
  BY <1>2, <1>3

\* An order that waits in an inbox still waits there, or was obeyed.
LEMMA HandledOrder ==
    ASSUME TypeOK, NEW s \in alive, NEW inbox, NEW res, Handled(s, inbox, res),
           NEW x \in Servers, Ordered(tcp, x, "TO_BE_TAIL")
    PROVE  Ordered(inbox, x, "TO_BE_TAIL") \/ (x = s /\ res.st.istail)
PROOF
<1>1. CASE inbox = tcp
  BY <1>1
<1>2. CASE /\ tcp[s] # <<>> /\ inbox = [tcp EXCEPT ![s] = Tail(tcp[s])]
           /\ Answers(s, Head(tcp[s]), res)
  <2>1. /\ tcp \in [Processes -> Seq(Message)] /\ x \in Processes
        /\ s \in Processes /\ tcp[s] \in Seq(Message) /\ srv[s] \in ServerState
    BY DEF TypeOK, Processes
  <2>2. PICK i \in DOMAIN tcp[x] : tcp[x][i].type = "TO_BE_TAIL"
    BY DEF Ordered
  <2>3. CASE x # s
    BY <1>2, <2>1, <2>2, <2>3 DEF Ordered
  <2>4. CASE x = s /\ i = 1
    <3>1. Head(tcp[s]).type = "TO_BE_TAIL"
      BY <2>1, <2>2, <2>4
    <3>2. res = to_be_tail(s, srv[s])
      BY <1>2, <3>1 DEF Answers
    <3>3. res.st.istail
      BY <2>1, <3>2 DEF to_be_tail, ServerState
    <3> QED
      BY <2>4, <3>3
  <2>5. CASE x = s /\ i # 1
    <3>1. PICK q : q = Tail(tcp[s])
      OBVIOUS
    <3>2. i - 1 \in DOMAIN q /\ q[i - 1] = tcp[s][i]
      BY <1>2, <2>1, <2>5, <3>1
    <3>3. inbox[x] = q
      BY <1>2, <2>1, <2>5, <3>1
    <3> QED
      BY <2>2, <2>5, <3>2, <3>3 DEF Ordered
  <2> QED
    BY <2>3, <2>4, <2>5
<1> QED
  BY <1>1, <1>2 DEF Handled

\* Every step of a server or of its clients.
LEMMA ServerAnnounces ==
    ASSUME TypeOK, TypeOK', ServersObey, RolesInv, RolesInv', SeqInv,
           AnnouncedTails, NEW s \in Servers,
           ServerStep(s) \/ ClientUpdate(s) \/ ClientQuery(s) \/ Crash(s)
    PROVE  AnnouncedTails'
PROOF
<1>1. /\ alive' \in SUBSET alive /\ alive \in SUBSET Servers
      /\ tail' = tail /\ sending'[Master] = sending[Master]
  BY ServerRoles DEF NoNewRoles, master, TypeOK
<1> SUFFICES ASSUME NEW x \in alive', Announced(x)'
             PROVE  /\ x = tail[BankOf[x]]
                    /\ srv'[x].istail \/ Ordered(tcp', x, "TO_BE_TAIL")
  BY <1>1 DEF AnnouncedTails
<1>2. x \in alive /\ x \in Servers /\ s \in Processes
  BY <1>1 DEF Processes
<1>3. ASSUME NEW inbox, Die(s, inbox), x # s => inbox[x] = tcp[x], inbox \in Inboxes
      PROVE  /\ x = tail[BankOf[x]]
             /\ srv'[x].istail \/ Ordered(tcp', x, "TO_BE_TAIL")
  <2>1. /\ x # s /\ srv'[x] = srv[x] /\ known_tails' = known_tails
        /\ tcp'[x] = tcp[x]
    BY <1>2, <1>3 DEF Die, TypeOK, Inboxes, Processes
  <2>2. Announced(x)
    BY <1>1, <2>1 DEF Announced
  <2> QED
    BY <1>2, <2>1, <2>2 DEF AnnouncedTails, Ordered
<1>4. CASE Crash(s)
  BY <1>3, <1>4 DEF Crash, TypeOK, Inboxes
<1>5. CASE ServerStep(s) \/ ClientUpdate(s) \/ ClientQuery(s)
  <2>1. /\ s \in alive
        /\ \E inbox, res : Handled(s, inbox, res) /\ Perform(s, inbox, res)
    BY <1>5, StepHandles
  <2>2. PICK inbox, res : Handled(s, inbox, res) /\ Perform(s, inbox, res)
    BY <2>1
  <2>3. /\ inbox \in Inboxes /\ Took(s, inbox)
        /\ Outcome(srv[s], res) /\ Effect(s, res)
    BY <2>1, <2>2, HandledEffect
  <2>4. CASE Die(s, inbox)
    <3>1. x # s => inbox[x] = tcp[x]
      BY <1>2, <2>3 DEF Took, TypeOK, Processes
    <3> QED
      BY <1>3, <2>3, <2>4, <3>1
  <2>5. CASE /\ srv' = [srv EXCEPT ![s] = res.st] /\ Transmit(s, inbox, res.out)
    <3>1. PICK out \in Seq(Outgoing) :
            /\ out = res.out
            /\ \A i \in DOMAIN out : out[i].msg.type # "NEW_TAIL"
      <4>1. /\ ServerSend \in SUBSET Outgoing /\ res.out \in Seq(ServerSend)
            /\ \A o \in ServerSend : o.msg.type # "NEW_TAIL"
        BY <2>3 DEF ServerSend, Outcome
      <4>2. res.out \in Seq(Outgoing)
        BY <4>1
      <4> QED
        BY <4>1, <4>2
    <3>2. Announced(x)
      BY <1>1, <1>2, <2>3, <2>5, <3>1, TransmitTells DEF Announced
    <3>3. x = tail[BankOf[x]] /\ (srv[x].istail \/ Ordered(tcp, x, "TO_BE_TAIL"))
      BY <1>2, <3>2 DEF AnnouncedTails
    <3>4. srv'[x] = IF x = s THEN res.st ELSE srv[x]
      BY <1>2, <2>5 DEF TypeOK
    <3>5. srv[x].istail => srv'[x].istail
      BY <2>3, <3>4 DEF Effect, Advances
    <3>6. Ordered(tcp, x, "TO_BE_TAIL") =>
            Ordered(inbox, x, "TO_BE_TAIL") \/ srv'[x].istail
      BY <1>2, <2>1, <2>2, <3>4, HandledOrder
    <3>7. Ordered(inbox, x, "TO_BE_TAIL") => Ordered(tcp', x, "TO_BE_TAIL")
      BY <1>2, <2>3, <2>5, <3>1, TransmitTells
    <3> QED
      BY <3>3, <3>5, <3>6, <3>7
  <2> QED
    BY <2>2, <2>4, <2>5 DEF Perform
<1> QED
  BY <1>4, <1>5

\* A step of the master that announces no tail, and leaves the inboxes alone but
\* for what it delivers.
LEMMA NothingAnnounced ==
    ASSUME TypeOK, AnnouncedTails, srv' = srv, alive' = alive, tail' = tail,
           \A x \in alive : Announced(x)' => Announced(x),
           \A x \in alive :
                Ordered(tcp, x, "TO_BE_TAIL") => Ordered(tcp', x, "TO_BE_TAIL")
    PROVE  AnnouncedTails'
  BY DEF AnnouncedTails

\* What is left of the sends after the first one.
LEMMA RestOfSends ==
    ASSUME NEW out \in Seq(Outgoing), out # <<>>, NEW i \in DOMAIN Tail(out)
    PROVE  i + 1 \in DOMAIN out /\ Tail(out)[i] = out[i + 1]
PROOF
<1>1. Len(out) \in Nat /\ DOMAIN Tail(out) = 1 .. (Len(out) - 1)
  OBVIOUS
<1> QED
  BY <1>1

\* Sends of the master that announce no tail it has not announced.
LEMMA SentAnnounces ==
    ASSUME TypeOK, AnnouncedTails, srv' = srv, alive' = alive, tail' = tail,
           NEW out \in Seq(Outgoing), Transmit(Master, tcp, out),
           \A i \in DOMAIN out : out[i].msg.type = "NEW_TAIL" =>
                \E j \in DOMAIN sending[Master] : sending[Master][j] = out[i]
    PROVE  AnnouncedTails'
PROOF
<1>1. /\ Master \in Processes /\ tcp \in Inboxes /\ alive \in SUBSET Servers
      /\ sending \in [Processes -> Seq(Outgoing)]
  BY DEF Processes, TypeOK, Inboxes
<1>2. ASSUME NEW x \in alive, Ordered(tcp, x, "TO_BE_TAIL")
      PROVE  Ordered(tcp', x, "TO_BE_TAIL")
  BY <1>1, <1>2, TransmitTells
<1>3. ASSUME NEW x \in alive, Announced(x)' PROVE Announced(x)
  <2>1. x \in known_tails'[BankOf[x]] =>
            \/ x \in known_tails[BankOf[x]]
            \/ /\ 1 \in DOMAIN out /\ out[1].msg.type = "NEW_TAIL"
               /\ out[1].msg.server = x
    BY <1>1, TransmitTells
  <2>2. ASSUME NEW i \in DOMAIN out, out[i].msg.type = "NEW_TAIL",
               out[i].msg.server = x
        PROVE  Announced(x)
    BY <2>2 DEF Announced
  <2>3. PICK rest : rest = sending'[Master]
    OBVIOUS
  <2>4. ASSUME NEW i \in DOMAIN rest
        PROVE  \E j \in DOMAIN out : rest[i] = out[j]
    <3>1. CASE out = <<>>
      BY <1>1, <2>3, <2>4, <3>1 DEF Transmit
    <3>2. CASE out # <<>>
      <4>1. rest = Tail(out)
        BY <1>1, <2>3, <3>2 DEF Transmit
      <4> QED
        BY <2>4, <3>2, <4>1, RestOfSends
    <3> QED
      BY <3>1, <3>2
  <2>5. ASSUME NEW i \in DOMAIN rest, rest[i].msg.type = "NEW_TAIL",
               rest[i].msg.server = x
        PROVE  Announced(x)
    BY <2>2, <2>4, <2>5
  <2>6. \/ x \in known_tails'[BankOf[x]]
        \/ \E i \in DOMAIN rest :
                rest[i].msg.type = "NEW_TAIL" /\ rest[i].msg.server = x
    BY <1>3, <2>3 DEF Announced
  <2>7. x \in known_tails[BankOf[x]] => Announced(x)
    BY DEF Announced
  <2> QED
    BY <2>1, <2>2, <2>5, <2>6, <2>7
<1> QED
  BY <1>2, <1>3, NothingAnnounced

\* notify_crash: a new tail is told before its clients are.
LEMMA NotifyAnnounces ==
    ASSUME TypeOK, MasterKnowsEnds, RolesInv, AnnouncedTails,
           NEW b \in Banks, NEW s \in Servers,
           \/ NotifyHeadCrash(b, s)
           \/ NotifyTailCrash(b, s)
           \/ NotifyInternalCrash(b, s)
    PROVE  AnnouncedTails'
PROOF
<1>1. /\ s \in chain[b] /\ s \notin alive /\ srv' = srv /\ alive' = alive
      /\ sending[Master] = <<>>
  BY DEF NotifyHeadCrash, NotifyTailCrash, NotifyInternalCrash, NotifyCrash, servers
<1>2. /\ chain[b] \in SUBSET Servers /\ tail \in [Banks -> Servers]
      /\ Master \in Processes /\ tcp \in Inboxes /\ alive \in SUBSET Servers
      /\ sending \in [Processes -> Seq(Outgoing)]
  BY DEF TypeOK, Processes, Inboxes
<1>3. CASE NotifyHeadCrash(b, s)
  <2> DEFINE h == SuccOf(chain[b], s)
             out == NewHeadSends(b, s, h)
  <2>1. s # tail[b] /\ tail' = tail /\ Transmit(Master, tcp, out)
    BY <1>3 DEF NotifyHeadCrash, NotifyCrash
  <2>2. h \in Servers
    BY <1>1, <1>2, <2>1, CrashedNeighbours
  <2> HIDE DEF h
  <2>3. out \in Seq(Outgoing)
    BY <2>2, CrashSends
  <2>4. \A i \in DOMAIN out : out[i].msg.type # "NEW_TAIL"
    BY <2>2, HeadSendTypes
  <2> HIDE DEF out
  <2> QED
    BY <1>1, <2>1, <2>3, <2>4, SentAnnounces
<1>4. CASE NotifyInternalCrash(b, s)
  <2> DEFINE out == NewPreSends(b, s)
  <2>1. /\ s # head[b] /\ s # tail[b]
        /\ tail' = tail /\ Transmit(Master, tcp, out)
    BY <1>4 DEF NotifyInternalCrash, NotifyCrash
  <2>2. SuccOf(chain[b], s) \in Servers /\ PreOf(chain[b], s) \in Servers
    BY <1>1, <1>2, <2>1, CrashedNeighbours
  <2>3. out \in Seq(Outgoing)
    BY <2>2, PreSendType
  <2>4. \A i \in DOMAIN out : out[i].msg.type # "NEW_TAIL"
    BY DEF NewPreSends, Send
  <2> HIDE DEF out
  <2> QED
    BY <1>1, <2>1, <2>3, <2>4, SentAnnounces
<1>5. CASE NotifyTailCrash(b, s)
  <2> DEFINE t == PreOf(chain[b], s)
             told == Send(t, [type |-> "TO_BE_TAIL"])
             news == Send(Client, [type |-> "NEW_TAIL", bank |-> b, server |-> t])
             out == NewTailSends(b, t)
  <2>1. /\ s # head[b] /\ s = tail[b] /\ tail' = [tail EXCEPT ![b] = t]
        /\ Transmit(Master, tcp, out)
    BY <1>5 DEF NotifyTailCrash, NotifyCrash
  <2>2. t \in chain[b] /\ t \in Servers
    BY <1>1, <1>2, <2>1, CrashedNeighbours
  <2>3. BankOf[t] = b
    BY <2>2 DEF RolesInv, ChainsHoldTheLiving, ServersOf
  <2> HIDE DEF t
  <2>4. out \in Seq(Outgoing) /\ out = <<told, news>>
    BY <2>2, CrashSends DEF NewTailSends
  <2>5. /\ told.msg.type = "TO_BE_TAIL" /\ told.to = t
        /\ news.msg.type = "NEW_TAIL" /\ news.msg.server = t
    BY DEF Send
  <2>6. told \in Outgoing
    BY <2>4
  <2> HIDE DEF told, news
  <2>7. PICK rest : rest = sending'[Master]
    OBVIOUS
  <2>8. /\ tcp' = send_msg_tcp(tcp, told)
        /\ \A i \in DOMAIN rest : rest[i] = news
    <3>1. out # <<>> /\ Head(out) = told /\ Tail(out) = <<news>>
      BY <2>4
    <3>2. tcp' = send_msg_tcp(tcp, told) /\ rest = <<news>>
      BY <1>2, <2>1, <2>7, <3>1 DEF Transmit
    <3> QED
      BY <3>2
  <2>9. \A x \in alive : x \in known_tails'[BankOf[x]] =>
                                x \in known_tails[BankOf[x]]
    <3>1. out[1] = told
      BY <2>4
    <3> HIDE DEF out
    <3>2. out[1].msg.type # "NEW_TAIL"
      BY <2>5, <3>1
    <3> QED
      BY <1>2, <2>1, <2>4, <3>2, TransmitTells
  <2>10. \A x \in alive : Announced(x)' => Announced(x) \/ x = t
    BY <2>5, <2>7, <2>8, <2>9 DEF Announced
  <2>11. t \in alive => Ordered(tcp', t, "TO_BE_TAIL")
    <3> SUFFICES ASSUME t \in alive PROVE Ordered(tcp', t, "TO_BE_TAIL")
      OBVIOUS
    <3>1. t \in Processes /\ tcp[t] \in Seq(Message) /\ told.msg \in Message
      BY <1>2, <2>2, <2>6 DEF Processes, Inboxes, Outgoing
    <3>2. tcp' = [tcp EXCEPT ![t] = Append(tcp[t], told.msg)]
      BY <2>5, <2>8 DEF send_msg_tcp
    <3>3. PICK q : q = Append(tcp[t], told.msg)
      OBVIOUS
    <3>4. Len(tcp[t]) + 1 \in DOMAIN q /\ q[Len(tcp[t]) + 1] = told.msg
      BY <3>1, <3>3
    <3>5. tcp'[t] = q
      BY <1>2, <3>1, <3>2, <3>3 DEF Inboxes
    <3> QED
      BY <2>5, <3>4, <3>5 DEF Ordered
  <2> SUFFICES ASSUME NEW x \in alive, Announced(x)'
               PROVE  /\ x = tail'[BankOf[x]]
                      /\ srv[x].istail \/ Ordered(tcp', x, "TO_BE_TAIL")
    BY <1>1 DEF AnnouncedTails
  <2>12. CASE x = t
    BY <1>2, <2>1, <2>3, <2>11, <2>12
  <2>13. CASE x # t
    <3>1. Announced(x)
      BY <2>10, <2>13
    <3>2. x = tail[BankOf[x]] /\ (srv[x].istail \/ Ordered(tcp, x, "TO_BE_TAIL"))
      BY <3>1 DEF AnnouncedTails
    <3>3. BankOf[x] # b
      BY <1>1, <2>1, <3>2
    <3>4. tail'[BankOf[x]] = tail[BankOf[x]]
      BY <1>2, <2>1, <3>3, ChainAssumption
    <3>5. Ordered(tcp, x, "TO_BE_TAIL") => Ordered(tcp', x, "TO_BE_TAIL")
      BY <1>2, <2>1, <2>4, TransmitTells
    <3> QED
      BY <3>2, <3>4, <3>5
  <2> QED
    BY <2>12, <2>13
<1> QED
  BY <1>3, <1>4, <1>5

\* The other steps of the master.
LEMMA MasterAnnounces ==
    ASSUME TypeOK, AnnouncedTails, MasterContinue \/ ForwardReqSeq
    PROVE  AnnouncedTails'
PROOF
<1>1. srv' = srv /\ alive' = alive /\ tail' = tail
  BY DEF MasterContinue, ForwardReqSeq, servers, master
<1>2. /\ Master \in Processes /\ tcp \in Inboxes /\ tcp[Master] \in Seq(Message)
      /\ sending[Master] \in Seq(Outgoing) /\ alive \in SUBSET Servers
  BY DEF TypeOK, Processes, Inboxes
<1>3. CASE MasterContinue
  <2>1. Transmit(Master, tcp, sending[Master])
    BY <1>3 DEF MasterContinue
  <2> QED
    BY <1>1, <1>2, <2>1, SentAnnounces
<1>4. CASE ForwardReqSeq
  <2> DEFINE m == Head(tcp[Master])
             n == [m EXCEPT !.type = "NEW_SUCC_SERVER"]
             inbox == [tcp EXCEPT ![Master] = Tail(tcp[Master])]
  <2>1. /\ tcp[Master] # <<>> /\ m.type = "REQ_SEQ"
        /\ tcp' = send_msg_tcp(inbox, Send(m.pre, n))
        /\ sending' = sending /\ known_tails' = known_tails
    BY <1>4 DEF ForwardReqSeq, clients
  <2>2. m \in Message /\ Tail(tcp[Master]) \in Seq(Message)
    BY <1>2, <2>1
  <2>3. inbox \in Inboxes /\ \A x \in alive : inbox[x] = tcp[x]
    BY <1>2, <2>2, MasterAssumption DEF Inboxes, Processes
  <2>4. Send(m.pre, n) \in Outgoing
    BY <2>1, <2>2, ForwardedReqSeq
  <2>5. PICK o \in Outgoing : o = Send(m.pre, n)
    BY <2>4
  <2> HIDE DEF inbox, n, m
  <2>6. ASSUME NEW x \in alive, Ordered(tcp, x, "TO_BE_TAIL")
        PROVE  Ordered(tcp', x, "TO_BE_TAIL")
    <3>1. Ordered(inbox, x, "TO_BE_TAIL")
      BY <2>3, <2>6 DEF Ordered
    <3> QED
      BY <1>2, <2>1, <2>3, <2>5, <3>1, DeliveryKeepsOrder
  <2>7. \A x \in alive : Announced(x)' => Announced(x)
    BY <2>1 DEF Announced
  <2> QED
    BY <1>1, <2>6, <2>7, NothingAnnounced
<1> QED
  BY <1>3, <1>4

LEMMA InitAnnounced == Init => AnnouncedTails
PROOF
<1> SUFFICES ASSUME Init PROVE AnnouncedTails
  OBVIOUS
<1>1. PICK flag \in [Servers -> UninitializedFlag] :
        srv = [s \in Servers |-> InitialServer(s, flag[s])]
  BY DEF Init
<1>2. /\ alive = Servers /\ sending = [p \in Processes |-> <<>>]
      /\ tail = [b \in Banks |-> InitialTail(b)]
      /\ known_tails = [b \in Banks |-> {InitialTail(b)}]
  BY DEF Init
<1> SUFFICES ASSUME NEW s \in Servers, Announced(s)
             PROVE  s = tail[BankOf[s]] /\ srv[s].istail
  BY <1>2 DEF AnnouncedTails
<1>3. BankOf[s] \in Banks /\ sending[Master] = <<>>
  BY <1>2, ChainAssumption DEF Processes
<1>4. s = InitialTail(BankOf[s])
  BY <1>2, <1>3 DEF Announced
<1>5. IsLast(ServersOf(BankOf[s]), InitialTail(BankOf[s]))
  BY <1>3, InitialEnds
<1>6. srv[s].istail = IsLast(ServersOf(BankOf[s]), s)
  BY <1>1 DEF InitialServer
<1> QED
  BY <1>2, <1>3, <1>4, <1>5, <1>6

LEMMA NextAnnounced ==
    /\ IInv /\ IInv' /\ RolesInv /\ RolesInv' /\ SeqInv
    /\ AnnouncedTails /\ [Next]_vars
    => AnnouncedTails'
PROOF
<1> SUFFICES ASSUME IInv, IInv', RolesInv, RolesInv', SeqInv, AnnouncedTails,
                    [Next]_vars
             PROVE  AnnouncedTails'
  OBVIOUS
<1>1. TypeOK /\ TypeOK' /\ ServersObey /\ MasterKnowsEnds
  BY DEF IInv
<1>2. ASSUME NEW s \in Servers,
             ServerStep(s) \/ ClientUpdate(s) \/ ClientQuery(s) \/ Crash(s)
      PROVE  AnnouncedTails'
  BY <1>1, <1>2, ServerAnnounces
<1>3. CASE MasterStep
  BY <1>1, <1>3, NotifyAnnounces, MasterAnnounces DEF MasterStep
<1>4. CASE UNCHANGED vars
  BY <1>4 DEF vars, AnnouncedTails, Announced, Ordered
<1> QED
  BY <1>2, <1>3, <1>4 DEF Next

\* What a step may do to a server that is not tail and is sent a query.
MissedQuery ==
    \A s \in Servers :
        <<s, "query at tail">> \in aborted' \ aborted =>
            /\ s = tail[BankOf[s]] /\ ClientQueries # {}
            /\ Ordered(tcp, s, "TO_BE_TAIL")

\* Only a query of a client can meet a server that is not tail.
LEMMA HandledMiss ==
    ASSUME TypeOK, RolesInv, SeqInv, StreamInv, AnnouncedTails, NEW s \in alive,
           NEW inbox, NEW res, Handled(s, inbox, res)
    PROVE  \/ NoMiss(res.out)
           \/ /\ s = tail[BankOf[s]] /\ ClientQueries # {}
              /\ Ordered(tcp, s, "TO_BE_TAIL")
PROOF
<1>1. Links /\ s \in Servers /\ srv[s] \in ServerState /\ s \in Processes
  BY DEF StreamInv, TypeOK, Processes
<1>2. CASE /\ sending[s] = <<>> /\ tcp[s] # <<>>
           /\ Answers(s, Head(tcp[s]), res)
  BY <1>2, AnswerStreams
<1>3. CASE res = [st |-> srv[s], out |-> sending[s]]
  BY <1>1, <1>3 DEF NoMiss, SeqInv, GoodSends, Deferrable
<1>4. ASSUME sending[s] = <<>>, NEW r \in ClientUpdates \cup ClientQueries,
             res = receive_request(s, srv[s], r),
             r.type = "QUERY" => s \in known_tails[BankOf[s]]
      PROVE  \/ NoMiss(res.out)
             \/ /\ s = tail[BankOf[s]] /\ ClientQueries # {}
                /\ Ordered(tcp, s, "TO_BE_TAIL")
  <2>1. r \in Request /\ r.seq = 0
    BY ChainAssumption DEF ClientRequest
  <2>2. 0 <= srv[s].bank_update_seq + 1
    BY StateBefore
  <2>3. CASE r.type # "QUERY"
    BY <1>1, <1>4, <2>1, <2>2, <2>3, RequestStreams
  <2>4. CASE r.type = "QUERY" /\ srv[s].istail
    <3>1. res = handle_query(srv[s], r)
      BY <1>4, <2>4 DEF receive_request
    <3>2. AllQuiet(res.out)
      BY <1>1, <2>4, <3>1, QuietQuery
    <3> QED
      BY <3>2 DEF AllQuiet, Quiet, NoMiss
  <2>5. CASE r.type = "QUERY" /\ ~srv[s].istail
    BY <1>4, <2>5, ChainAssumption DEF AnnouncedTails, Announced, ClientRequest
  <2> QED
    BY <2>3, <2>4, <2>5
<1> QED
  BY <1>2, <1>3, <1>4 DEF Handled

\* The assertion that fails is the one the handler begins with.
LEMMA PerformMisses ==
    ASSUME NEW s \in Servers, NEW inbox, NEW res, Perform(s, inbox, res),
           res.out \in Seq(Outgoing), NoMiss(res.out)
    PROVE  \A x : <<x, "query at tail">> \in aborted' =>
                        <<x, "query at tail">> \in aborted
PROOF
<1>1. CASE aborted' = aborted
  BY <1>1
<1>2. CASE /\ Aborts(res.out)
           /\ aborted' = aborted \cup {<<s, Head(res.out).msg.which>>}
  <2>1. PICK out \in Seq(Outgoing) : out = res.out
    OBVIOUS
  <2>2. out # <<>> /\ Head(out).msg.type = "ABORT"
    BY <1>2, <2>1 DEF Aborts
  <2>3. 1 \in DOMAIN out /\ Head(out) = out[1]
    BY <2>1, <2>2
  <2>4. Head(out).msg.which # "query at tail"
    BY <2>1, <2>2, <2>3 DEF NoMiss
  <2> QED
    BY <1>2, <2>1, <2>4
<1> QED
  BY <1>1, <1>2 DEF Perform

\* A step of server s fails no assertion at another server.
LEMMA PerformLocal ==
    ASSUME NEW s \in Servers, NEW inbox, NEW res, Perform(s, inbox, res),
           NEW x \in Servers, x # s, NEW which
    PROVE  <<x, which>> \in aborted' => <<x, which>> \in aborted
PROOF
<1>1. \/ aborted' = aborted
      \/ aborted' = aborted \cup {<<s, Head(res.out).msg.which>>}
  BY DEF Perform
<1> QED
  BY <1>1

LEMMA ServerMissed ==
    ASSUME TypeOK, ServersObey, RolesInv, SeqInv, StreamInv, AnnouncedTails,
           NEW s \in Servers,
           ServerStep(s) \/ ClientUpdate(s) \/ ClientQuery(s)
    PROVE  MissedQuery
PROOF
<1>1. /\ s \in alive
      /\ \E inbox, res : Handled(s, inbox, res) /\ Perform(s, inbox, res)
  BY StepHandles
<1>2. PICK inbox, res : Handled(s, inbox, res) /\ Perform(s, inbox, res)
  BY <1>1
<1>3. Outcome(srv[s], res)
  BY <1>1, <1>2, HandledEffect
<1>4. ServerSend \in SUBSET Outgoing /\ res.out \in Seq(ServerSend)
  BY <1>3 DEF ServerSend, Outcome
<1>5. res.out \in Seq(Outgoing)
  BY <1>4
<1>6. CASE NoMiss(res.out)
  BY <1>2, <1>5, <1>6, PerformMisses DEF MissedQuery
<1>7. CASE /\ s = tail[BankOf[s]] /\ ClientQueries # {}
           /\ Ordered(tcp, s, "TO_BE_TAIL")
  BY <1>2, <1>7, PerformLocal DEF MissedQuery
<1> QED
  BY <1>1, <1>2, <1>6, <1>7, HandledMiss

LEMMA NextMissed ==
    IInv /\ RolesInv /\ SeqInv /\ StreamInv /\ AnnouncedTails /\ [Next]_vars
    => MissedQuery
PROOF
<1> SUFFICES ASSUME IInv, RolesInv, SeqInv, StreamInv, AnnouncedTails, [Next]_vars
             PROVE  MissedQuery
  OBVIOUS
<1>1. ASSUME NEW s \in Servers,
             ServerStep(s) \/ ClientUpdate(s) \/ ClientQuery(s)
      PROVE  MissedQuery
  BY <1>1, ServerMissed DEF IInv
<1>2. ASSUME aborted' = aborted PROVE MissedQuery
  BY <1>2 DEF MissedQuery
<1> QED
  BY <1>1, <1>2
  DEF Next, MasterStep, NotifyHeadCrash, NotifyTailCrash, NotifyCrash, Crash,
      NotifyInternalCrash, MasterContinue, ForwardReqSeq, servers, vars

LEMMA StreamInvariant == Spec => [](StreamInv /\ AnnouncedTails)
PROOF
<1>1. Spec => []StreamInv
  BY InitStreams, NextStreams, SeqInvariant, PTL DEF Spec
<1>2. Spec => []AnnouncedTails
  BY InitAnnounced, NextAnnounced, SeqInvariant, PTL DEF Spec
<1> QED
  BY <1>1, <1>2, PTL

\* A query ends a server that is not tail only in one situation: the master has
\* made it the tail of its chain and told the clients, and the order waits in
\* the inbox of the server.  No server that has been tail, and none that clients
\* were never told of, fails this assertion, whichever servers crash.
THEOREM OnlyNewTailsAreMissed == Spec => OnlyNewTailsMissQueries
PROOF
<1>1. IInv /\ RolesInv /\ SeqInv /\ StreamInv /\ AnnouncedTails /\ [Next]_vars =>
        [\A s \in Servers :
            <<s, "query at tail">> \in aborted' \ aborted =>
                /\ s = tail[BankOf[s]]
                /\ \E i \in DOMAIN tcp[s] : tcp[s][i].type = "TO_BE_TAIL"]_vars
  BY NextMissed DEF MissedQuery, Ordered
<1> QED
  BY <1>1, StreamInvariant, SeqInvariant, PTL DEF Spec, OnlyNewTailsMissQueries
=============================================================================
