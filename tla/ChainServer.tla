---------------------------- MODULE ChainServer ----------------------------
(***************************************************************************)
(* One server of a bank (class ChainServer, server/server.cc): its state   *)
(* and, for every message it handles, the state it moves to and what it    *)
(* sends, in the order it sends it.                                        *)
(*                                                                         *)
(* A handler is an operator that returns [st, out]: the new state and the  *)
(* sequence of sends.  An assert that fails ends the process: it is the    *)
(* last element of "out", after the sends the code has already made.       *)
(***************************************************************************)
EXTENDS Bank

CONSTANT Master   \* the address of the master

ASSUME MasterAssumption == Master \notin Servers \cup {Client, 0}

Nobody == 0       \* an address that was never set

\* The members of class ChainServer that the handlers read or write.
ServerState ==
    [ishead : BOOLEAN, istail : BOOLEAN, extending_chain : BOOLEAN,
     pre : Servers \cup {Nobody}, succ : Servers \cup {Nobody},
     bank_update_seq : Nat, heads : [Banks -> Servers], ledger : Ledger]

-----------------------------------------------------------------------------
(* Messages (common/message.proto).  CLIENT_REPLY is the REPLY that goes   *)
(* to a client by UDP; it carries the request too, so that a history of    *)
(* replies can be related to the updates.  ABORT stands for the failed     *)
(* assertion "which".                                                      *)

Assertions == {"query at tail", "FIFO", "transfers only", "transfer processed"}

Message ==
         [type : {"REQUEST"}, req : Request]
    \cup [type : {"REPLY"}, reply : Reply]
    \cup [type : {"CLIENT_REPLY"}, entry : Entry]
    \cup [type : {"ACKNOWLEDGE"}, seq : Nat]
    \cup [type : {"TO_BE_HEAD", "TO_BE_TAIL"}]
    \cup [type : {"NEW_PRE_SERVER"}, addr : Servers]
    \cup [type : {"REQ_SEQ", "NEW_SUCC_SERVER"}, seq : Nat,
          pre : Servers, succ : Servers]
    \cup [type : {"NEW_HEAD", "NEW_TAIL"}, bank : Banks, server : Servers]
    \cup [type : {"ABORT"}, which : Assertions]

Addresses == Servers \cup {Nobody, Master, Client}

Outgoing == [to : Addresses, msg : Message]

Send(to, msg) == [to |-> to, msg |-> msg]

Abort(which) == Send(Nobody, [type |-> "ABORT", which |-> which])

-----------------------------------------------------------------------------
(* The sends.                                                              *)

forward_request(st, e) == Send(st.succ, [type |-> "REQUEST", req |-> e.req])

\* The answer to a forwarded transfer goes to the upstream tail by TCP, every
\* other one to the client by UDP.
reply_to_client(e) ==
    IF e.req.type = "TRANSFER_TO"
    THEN Send(e.req.from, [type |-> "REPLY", reply |-> e.reply])
    ELSE Send(Client, [type |-> "CLIENT_REPLY", entry |-> e])

sendback_ack(st, seq) == Send(st.pre, [type |-> "ACKNOWLEDGE", seq |-> seq])

\* The tail of the source bank is the client of the destination bank's head.
transfer_to(s, req) ==
    [req EXCEPT !.type = "TRANSFER_TO", !.acct = req.dacct,
                !.bank = req.dbank, !.dacct = NoAccount, !.dbank = NoBank,
                !.seq = 0, !.from = s]

forward_transfer_to_downstream(s, st, e) ==
    Send(st.heads[e.req.dbank],
         [type |-> "REQUEST", req |-> transfer_to(s, e.req)])

-----------------------------------------------------------------------------
(* receive_request.                                                        *)

\* A query is answered from the tail's balances.  The request in the reply is
\* stamped with the number of the last update the tail has applied.
handle_query(st, req) ==
    LET l == get_balance(st.ledger, req.acct)
        e == [req   |-> [req EXCEPT !.seq = st.bank_update_seq],
              reply |-> [id |-> req.id, acct |-> req.acct,
                         outcome |-> "PROCESSED", balance |-> l.bal[req.acct]]]
    IN  IF st.istail
        THEN [st |-> [st EXCEPT !.ledger = l], out |-> <<reply_to_client(e)>>]
        ELSE [st |-> st, out |-> <<Abort("query at tail")>>]

\* Defect: the client is answered before the update has reached the tail.
forward_handle_update_eager(st, req) ==
    LET u == update_request_reply(st.ledger, req)
    IN  [st  |-> [st EXCEPT !.bank_update_seq = req.seq,
                            !.ledger = insert_sent_list(u.ledger, u.entry)],
         out |-> <<reply_to_client(u.entry), forward_request(st, u.entry)>>]

\* A head or an internal server: file in sent_list_ and forward.
forward_handle_update(st, req) ==
    LET u == update_request_reply(st.ledger, req)
    IN  [st  |-> [st EXCEPT !.bank_update_seq = req.seq,
                            !.ledger = insert_sent_list(u.ledger, u.entry)],
         out |-> <<forward_request(st, u.entry)>>]

\* Defect: a rejected transfer is forwarded like an accepted one.
handle_transfer_unchecked(s, st, u) ==
    LET l1 == insert_processed_list(u.ledger, <<u.entry>>)
    IN  [ledger |-> insert_sent_list(l1, u.entry),
         out    |-> <<forward_transfer_to_downstream(s, st, u.entry)>>]

\* Defect: the client is answered before the destination bank.
handle_transfer_eager(s, st, u) ==
    LET l1 == insert_processed_list(u.ledger, <<u.entry>>)
    IN  IF u.entry.reply.outcome = "PROCESSED" /\ u.check = "NEWREQ"
        THEN [ledger |-> insert_sent_list(l1, u.entry),
              out    |-> <<forward_transfer_to_downstream(s, st, u.entry),
                           reply_to_client(u.entry)>>]
        ELSE [ledger |-> l1, out |-> <<reply_to_client(u.entry)>>]

\* A transfer at the tail of the source bank: a new and covered one is kept in
\* sent_list_ until the destination bank has answered; a rejected one is
\* answered at once; a repeated one only when it is no longer in sent_list_.
handle_transfer(s, st, u) ==
    LET new     == u.check = "NEWREQ"
        covered == u.entry.reply.outcome = "PROCESSED"
        l1      == IF new THEN insert_processed_list(u.ledger, <<u.entry>>)
                   ELSE u.ledger
        waiting == \E i \in DOMAIN l1.sent :
                        SameKey(l1.sent[i].req, u.entry.req)
    IN  CASE new /\ covered ->
                [ledger |-> insert_sent_list(l1, u.entry),
                 out    |-> <<forward_transfer_to_downstream(s, st, u.entry)>>]
          [] ~covered \/ (~new /\ ~waiting) ->
                [ledger |-> l1, out |-> <<reply_to_client(u.entry)>>]
          [] OTHER ->
                [ledger |-> l1, out |-> <<>>]

\* Defect: the update is not filed as processed.
commit_update_unfiled(st, u) ==
    [ledger |-> u.ledger, out |-> <<reply_to_client(u.entry)>>]

\* Any other update at the tail (or at a single server): file as processed,
\* keep it for a server that is joining, reply.
commit_update(st, u) ==
    LET l1 == IF u.check = "NEWREQ"
              THEN insert_processed_list(u.ledger, <<u.entry>>)
              ELSE u.ledger
    IN  [ledger |-> IF st.extending_chain
                    THEN insert_sent_list(l1, u.entry) ELSE l1,
         out    |-> <<reply_to_client(u.entry)>>]

\* A tail or a single server.  Only a tail that is not also the head
\* acknowledges, and only when no transfer is waiting in sent_list_.
tail_handle_update(s, st, req) ==
    LET u == update_request_reply(st.ledger, req)
        c == IF req.type = "TRANSFER" THEN handle_transfer(s, st, u)
             ELSE commit_update(st, u)
    IN  [st  |-> [st EXCEPT !.bank_update_seq = req.seq, !.ledger = c.ledger],
         out |-> c.out \o (IF ~st.ishead /\ c.ledger.sent = <<>>
                           THEN <<sendback_ack(st, req.seq)>> ELSE <<>>)]

\* The head numbers an update; the others drop one they have applied already
\* and assert that none is missing.  A client's update that reaches a server
\* which is not a head has number 0 and is dropped.
receive_request(s, st, req) ==
    LET seq == IF st.ishead THEN st.bank_update_seq + 1 ELSE req.seq
        num == [req EXCEPT !.seq = seq]
    IN  CASE req.type = "QUERY" -> handle_query(st, req)
          [] req.type # "QUERY" /\ st.bank_update_seq >= seq ->
                [st |-> st, out |-> <<>>]
          [] req.type # "QUERY" /\ st.bank_update_seq < seq - 1 ->
                [st |-> st, out |-> <<Abort("FIFO")>>]
          [] OTHER ->
                IF st.istail THEN tail_handle_update(s, st, num)
                ELSE forward_handle_update(st, num)

-----------------------------------------------------------------------------
(* receive_ack: the acknowledged front of sent_list_ moves to              *)
(* processed_map_, and the same acknowledgement goes to the predecessor.   *)

\* Defect: one entry more than was acknowledged is dropped.
FirstUnacked_one_more(sent, seq, i) ==
    /\ sent[i].req.seq > seq + 1
    /\ \A j \in 1 .. (i - 1) : sent[j].req.seq <= seq + 1

\* Is i the first entry of the sent list that seq does not acknowledge?
FirstUnacked(sent, seq, i) ==
    /\ sent[i].req.seq > seq
    /\ \A j \in 1 .. (i - 1) : sent[j].req.seq <= seq

AckedLength(sent, seq) ==
    IF \E i \in DOMAIN sent : FirstUnacked(sent, seq, i)
    THEN (CHOOSE i \in DOMAIN sent : FirstUnacked(sent, seq, i)) - 1
    ELSE Len(sent)

\* Defect: acknowledged entries are dropped instead of filed as processed.
receive_ack_unfiled(st, seq) ==
    LET l == st.ledger
        n == AckedLength(l.sent, seq)
    IN  [st  |-> [st EXCEPT !.ledger.sent = SubSeq(@, n + 1, Len(l.sent))],
         out |-> IF st.ishead THEN <<>> ELSE <<sendback_ack(st, seq)>>]

receive_ack(st, seq) ==
    LET l == st.ledger
        n == AckedLength(l.sent, seq)
        k == insert_processed_list(l, SubSeq(l.sent, 1, n))
    IN  [st  |-> [st EXCEPT !.ledger =
                    [k EXCEPT !.sent = SubSeq(@, n + 1, Len(l.sent))]],
         out |-> IF st.ishead THEN <<>> ELSE <<sendback_ack(st, seq)>>]

-----------------------------------------------------------------------------
(* Reconfiguration, ordered by the master.                                 *)

\* Defect: the order to become head is ignored.
to_be_head_ignored(st) == [st |-> st, out |-> <<>>]

to_be_head(st) == [st |-> [st EXCEPT !.ishead = TRUE], out |-> <<>>]

\* The new tail files everything but the transfers as processed and forwards
\* every transfer of its sent list to the destination banks.
to_be_tail(s, st) ==
    LET l == st.ledger
        T == {i \in DOMAIN l.sent : l.sent[i].req.type = "TRANSFER"}
        k == [insert_processed_list(l, Pick(l.sent, DOMAIN l.sent \ T))
                EXCEPT !.sent = Pick(l.sent, T)]
    IN  [st  |-> [st EXCEPT !.istail = TRUE, !.ledger = k],
         out |-> IF k.sent # <<>>
                 THEN [i \in DOMAIN k.sent |->
                         forward_transfer_to_downstream(s, st, k.sent[i])]
                 ELSE IF st.ishead THEN <<>>
                      ELSE <<sendback_ack(st, st.bank_update_seq)>>]

receive_new_preserver(s, st, addr) ==
    [st  |-> [st EXCEPT !.pre = addr],
     out |-> <<Send(Master, [type |-> "REQ_SEQ", seq |-> st.bank_update_seq,
                             pre |-> addr, succ |-> s])>>]

\* Defect: the first update that the new successor lacks is skipped.
receive_new_succserver_skips(st, m) ==
    LET new  == [st EXCEPT !.succ = m.succ]
        sent == st.ledger.sent
        more == Pick(sent, {i \in DOMAIN sent : sent[i].req.seq > m.seq + 1})
    IN  [st  |-> new,
         out |-> [i \in DOMAIN more |-> forward_request(new, more[i])]]

\* Send the new successor what it has not seen.
receive_new_succserver(st, m) ==
    LET new  == [st EXCEPT !.succ = m.succ]
        sent == st.ledger.sent
        more == Pick(sent, {i \in DOMAIN sent : sent[i].req.seq > m.seq})
    IN  [st  |-> new,
         out |-> [i \in DOMAIN more |-> forward_request(new, more[i])]]

-----------------------------------------------------------------------------
(* Transfers between banks.                                                *)

\* The destination bank has answered: reply to the clients of the matching
\* transfers, drop them, and acknowledge once none is left.
receive_transfer_reply(st, reply) ==
    LET sent == st.ledger.sent
        M    == {i \in DOMAIN sent : /\ sent[i].req.id = reply.id
                                     /\ sent[i].req.dacct = reply.acct}
        kept == Pick(sent, DOMAIN sent \ M)
        done == Pick(sent, M)
    IN  IF reply.outcome # "PROCESSED"
        THEN [st |-> st, out |-> <<Abort("transfer processed")>>]
        ELSE [st  |-> [st EXCEPT !.ledger.sent = kept],
              out |-> [i \in DOMAIN done |-> reply_to_client(done[i])] \o
                      (IF done # <<>> /\ kept = <<>> /\ ~st.ishead
                       THEN <<sendback_ack(st, st.bank_update_seq)>>
                       ELSE <<>>)]

\* Defect: transfers sent to the old head are not sent again.
handle_new_head_silent(s, st, m) ==
    [st |-> [st EXCEPT !.heads[m.bank] = m.server], out |-> <<>>]

\* A bank has a new head: a tail sends it the transfers that are waiting for
\* that bank.  It asserts, entry by entry, that only transfers wait.
handle_new_head(s, st, m) ==
    LET new  == [st EXCEPT !.heads[m.bank] = m.server]
        sent == st.ledger.sent
        ok   == {i \in DOMAIN sent :
                    \A j \in 1 .. i : sent[j].req.type = "TRANSFER"}
        mine == Pick(sent, {i \in ok : sent[i].req.dbank = m.bank})
    IN  [st  |-> new,
         out |-> IF ~st.istail THEN <<>>
                 ELSE [i \in DOMAIN mine |->
                         forward_transfer_to_downstream(s, new, mine[i])] \o
                      (IF ok = DOMAIN sent THEN <<>>
                       ELSE <<Abort("transfers only")>>)]
=============================================================================
