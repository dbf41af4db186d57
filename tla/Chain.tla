------------------------------- MODULE Chain -------------------------------
(***************************************************************************)
(* The replicated bank: the servers of every bank, the master that detects *)
(* crashes and repairs the chains (master/master.cc), the TCP connections  *)
(* between them (common/message.cc) and the clients, which may send any of *)
(* their requests at any time to a server they have been told is a head or *)
(* a tail.                                                                 *)
(*                                                                         *)
(* TCP: TCPLoop::run_forever accepts one connection after the other and    *)
(* handles its message before the next, so each process has one FIFO inbox.*)
(* A send to a dead process fails and is not repeated; what is queued at a *)
(* process that dies is lost.                                              *)
(*                                                                         *)
(* UDP: a request that reaches a server is a ClientUpdate or ClientQuery   *)
(* step.  Loss, duplication, reordering and the client's retries need no   *)
(* step of their own: any request may arrive any number of times, or never.*)
(*                                                                         *)
(* A handler changes the state of its server and makes its first send in   *)
(* one step; every further send is a step of its own (Continue,            *)
(* MasterContinue), so a server can crash, and other processes can run,    *)
(* between any two sends of one handler.  The handlers of one server do    *)
(* not interleave with each other here.                                    *)
(***************************************************************************)
EXTENDS ChainServer

CONSTANTS
    BankOf,             \* the bank of each server
    ClientUpdates,      \* the updates the clients may send
    ClientQueries,      \* the queries the clients may send
    UninitializedFlag,  \* values the uninitialized extending_chain_ may have
    Crashable,          \* the servers that may crash
    MaxArrivals,        \* bound: updates that reach a server from a client
    MaxCrashes          \* bound: servers that crash

\* What a client can put into a request: it leaves bank_update_seq unset.
ClientRequest(types) ==
    {r \in Request : r.type \in types /\ r.from = Client /\ r.seq = 0}

ASSUME ChainAssumption ==
    /\ BankOf \in [Servers -> Banks]
    /\ \A b \in Banks : \E s \in Servers : BankOf[s] = b
    /\ \A r \in ClientUpdates :
            r \in ClientRequest({"DEPOSIT", "WITHDRAW", "TRANSFER"})
    /\ \A r \in ClientQueries : r \in ClientRequest({"QUERY"})
    /\ UninitializedFlag \in SUBSET BOOLEAN
    /\ Crashable \in SUBSET Servers
    /\ MaxArrivals \in Nat
    /\ MaxCrashes \in Nat

VARIABLES
    srv,          \* the state of each server
    alive,        \* the servers that are running
    tcp,          \* the inbox of each server and of the master
    sending,      \* the sends a handler has yet to make
    chain,        \* master: server_chain_ of each bank, in server order
    head,         \* master: head_ of each bank
    tail,         \* master: tail_ of each bank
    known_heads,  \* the servers clients were told to be the head of a bank
    known_tails,  \* the servers clients were told to be the tail of a bank
    replies,      \* history: the replies sent to clients
    arrivals,     \* history: how many client updates have arrived
    aborted       \* history: the assertions that have failed, and where

servers == <<srv, alive, aborted>>
master  == <<chain, head, tail>>
network == <<tcp, sending>>
clients == <<known_heads, known_tails, replies, arrivals>>
vars    == <<srv, alive, tcp, sending, chain, head, tail, known_heads,
             known_tails, replies, arrivals, aborted>>

Processes == Servers \cup {Master}

\* Types of all variables; in particular every message that is sent names
\* existing servers, so the neighbours that the master looks up exist.
TypeOK ==
    /\ srv \in [Servers -> ServerState]
    /\ alive \in SUBSET Servers
    /\ tcp \in [Processes -> Seq(Message)]
    /\ sending \in [Processes -> Seq(Outgoing)]
    /\ chain \in [Banks -> SUBSET Servers]
    /\ head \in [Banks -> Servers]
    /\ tail \in [Banks -> Servers]
    /\ known_heads \in [Banks -> SUBSET Servers]
    /\ known_tails \in [Banks -> SUBSET Servers]
    /\ replies \in SUBSET Entry
    /\ arrivals \in Nat
    /\ aborted \in SUBSET (Servers \X Assertions)

-----------------------------------------------------------------------------
(* Positions in a chain.  A chain is kept in the order of the server       *)
(* numbers, so the list of a bank is a set of servers.                     *)

After(S, s)  == {t \in S : t > s}
Before(S, s) == {t \in S : t < s}

IsFirst(S, s) == s \in S /\ Before(S, s) = {}
IsLast(S, s)  == s \in S /\ After(S, s) = {}

ServersOf(b) == {s \in Servers : BankOf[s] = b}

-----------------------------------------------------------------------------
(* Initial state: every process has read the same configuration file.      *)

InitialHead(b) == CHOOSE s \in ServersOf(b) : IsFirst(ServersOf(b), s)
InitialTail(b) == CHOOSE s \in ServersOf(b) : IsLast(ServersOf(b), s)

\* The neighbour on one side, or Nobody at the end of the chain.
PreOf(S, s)  == IF \E t \in S : IsLast(Before(S, s), t)
                THEN CHOOSE t \in S : IsLast(Before(S, s), t) ELSE Nobody
SuccOf(S, s) == IF \E t \in S : IsFirst(After(S, s), t)
                THEN CHOOSE t \in S : IsFirst(After(S, s), t) ELSE Nobody

\* read_config_server sets every member but extending_chain_.
InitialServer(s, flag) ==
    LET S == ServersOf(BankOf[s])
    IN  [ishead |-> IsFirst(S, s), istail |-> IsLast(S, s),
         extending_chain |-> flag, pre |-> PreOf(S, s), succ |-> SuccOf(S, s),
         bank_update_seq |-> 0, heads |-> [b \in Banks |-> InitialHead(b)],
         ledger |-> EmptyLedger]

Init ==
    /\ \E flag \in [Servers -> UninitializedFlag] :
            srv = [s \in Servers |-> InitialServer(s, flag[s])]
    /\ alive = Servers
    /\ tcp = [p \in Processes |-> <<>>]
    /\ sending = [p \in Processes |-> <<>>]
    /\ chain = [b \in Banks |-> ServersOf(b)]
    /\ head = [b \in Banks |-> InitialHead(b)]
    /\ tail = [b \in Banks |-> InitialTail(b)]
    /\ known_heads = [b \in Banks |-> {InitialHead(b)}]
    /\ known_tails = [b \in Banks |-> {InitialTail(b)}]
    /\ replies = {}
    /\ arrivals = 0
    /\ aborted = {}

-----------------------------------------------------------------------------
(* Sending.                                                                *)

\* The inboxes after the send o: a message to a dead process is dropped.
send_msg_tcp(inbox, o) ==
    IF o.to \in alive \cup {Master}
    THEN [inbox EXCEPT ![o.to] = Append(@, o.msg)]
    ELSE inbox

\* What clients learn from the send o (a reply, or a NEW_HEAD or NEW_TAIL
\* notification of the master).  A UDP message may be lost; one that nobody
\* acts upon stands for it.
send_msg_udp(o) ==
    LET told(type, b) == IF /\ o.to = Client
                            /\ o.msg.type = type
                            /\ o.msg.bank = b THEN {o.msg.server} ELSE {}
    IN  /\ replies' = IF o.msg.type = "CLIENT_REPLY"
                      THEN replies \cup {o.msg.entry} ELSE replies
        /\ known_heads' = [b \in Banks |->
                                known_heads[b] \cup told("NEW_HEAD", b)]
        /\ known_tails' = [b \in Banks |->
                                known_tails[b] \cup told("NEW_TAIL", b)]

\* Process p makes the first send of out, having taken a message off inbox,
\* and keeps the rest for its next steps.
Transmit(p, inbox, out) ==
    IF out = <<>>
    THEN /\ tcp' = inbox
         /\ sending' = [sending EXCEPT ![p] = <<>>]
         /\ UNCHANGED <<replies, known_heads, known_tails>>
    ELSE /\ tcp' = send_msg_tcp(inbox, Head(out))
         /\ sending' = [sending EXCEPT ![p] = Tail(out)]
         /\ send_msg_udp(Head(out))

-----------------------------------------------------------------------------
(* Servers.                                                                *)

\* A process that ends loses its memory, its queued messages and what it was
\* about to send.  Its record is reset so that dead servers look alike.
Die(s, inbox) ==
    /\ alive' = alive \ {s}
    /\ srv' = [srv EXCEPT ![s] = InitialServer(s, FALSE)]
    /\ tcp' = [inbox EXCEPT ![s] = <<>>]
    /\ sending' = [sending EXCEPT ![s] = <<>>]
    /\ UNCHANGED <<known_heads, known_tails, replies>>

Aborts(out) == out # <<>> /\ Head(out).msg.type = "ABORT"

\* Server s runs a handler that returns result, or goes on with one.
Perform(s, inbox, result) ==
    \E res \in {result} :
        \/ /\ ~Aborts(res.out)
           /\ srv' = [srv EXCEPT ![s] = res.st]
           /\ Transmit(s, inbox, res.out)
           /\ UNCHANGED <<alive, aborted>>
        \/ /\ Aborts(res.out)
           /\ Die(s, inbox)
           /\ aborted' = aborted \cup {<<s, Head(res.out).msg.which>>}

Idle(s) == s \in alive /\ sending[s] = <<>>

\* The TCP thread of an idle server handles the first message of its inbox.
Handle(s, type, res) ==
    /\ Idle(s)
    /\ tcp[s] # <<>>
    /\ Head(tcp[s]).type = type
    /\ Perform(s, [tcp EXCEPT ![s] = Tail(@)], res)
    /\ UNCHANGED <<master, arrivals>>

ReceiveRequest(s) ==
    Handle(s, "REQUEST", receive_request(s, srv[s], Head(tcp[s]).req))

ReceiveAck(s) ==
    Handle(s, "ACKNOWLEDGE", receive_ack(srv[s], Head(tcp[s]).seq))

ToBeHead(s) == Handle(s, "TO_BE_HEAD", to_be_head(srv[s]))

ToBeTail(s) == Handle(s, "TO_BE_TAIL", to_be_tail(s, srv[s]))

ReceiveNewPreServer(s) ==
    Handle(s, "NEW_PRE_SERVER",
           receive_new_preserver(s, srv[s], Head(tcp[s]).addr))

ReceiveNewSuccServer(s) ==
    Handle(s, "NEW_SUCC_SERVER", receive_new_succserver(srv[s], Head(tcp[s])))

ReceiveTransferReply(s) ==
    Handle(s, "REPLY", receive_transfer_reply(srv[s], Head(tcp[s]).reply))

HandleNewHead(s) ==
    Handle(s, "NEW_HEAD", handle_new_head(s, srv[s], Head(tcp[s])))

\* The next send of a handler that has not made all of its sends.
Continue(s) ==
    /\ s \in alive
    /\ sending[s] # <<>>
    /\ Perform(s, tcp, [st |-> srv[s], out |-> sending[s]])
    /\ UNCHANGED <<master, arrivals>>

\* The UDP thread of an idle server handles an update or a query of a client.
ClientUpdate(s) ==
    /\ Idle(s)
    /\ arrivals < MaxArrivals
    /\ s \in known_heads[BankOf[s]]
    /\ \E r \in ClientUpdates : /\ r.bank = BankOf[s]
                                /\ Perform(s, tcp, receive_request(s, srv[s], r))
    /\ arrivals' = arrivals + 1
    /\ UNCHANGED master

ClientQuery(s) ==
    /\ Idle(s)
    /\ s \in known_tails[BankOf[s]]
    /\ \E r \in ClientQueries : /\ r.bank = BankOf[s]
                                /\ Perform(s, tcp, receive_request(s, srv[s], r))
    /\ UNCHANGED <<master, arrivals>>

\* Any server may crash at any time (if_server_crash, or kill), as long as its
\* bank keeps a living server.
Crash(s) ==
    /\ s \in alive \cap Crashable
    /\ Cardinality(Servers \ alive) < MaxCrashes
    /\ \E t \in alive \ {s} : BankOf[t] = BankOf[s]
    /\ Die(s, tcp)
    /\ UNCHANGED <<master, arrivals, aborted>>

-----------------------------------------------------------------------------
(* The master.  check_alive notices a crash some time after it happened    *)
(* and never suspects a running server.                                    *)

\* Defect: a server that is only slow is taken for crashed.
NotifyCrash_suspicious(b, s, out) ==
    /\ sending[Master] = <<>>
    /\ s \in chain[b]
    /\ chain' = [chain EXCEPT ![b] = @ \ {s}]
    /\ Transmit(Master, tcp, out)
    /\ UNCHANGED <<servers, arrivals>>

\* notify_crash starts: bank b loses node s; the sends of out follow.
NotifyCrash(b, s, out) ==
    /\ sending[Master] = <<>>
    /\ s \in chain[b] \ alive
    /\ chain' = [chain EXCEPT ![b] = @ \ {s}]
    /\ Transmit(Master, tcp, out)
    /\ UNCHANGED <<servers, arrivals>>

\* The new head is told first, then the clients, then every server that is
\* left in any chain.
NewHeadSends(b, s, h) ==
    LET notify == [type |-> "NEW_HEAD", bank |-> b, server |-> h]
        all    == UNION {chain[c] : c \in Banks} \ {s}
        everyone == Pick([i \in Servers |-> i], all)
    IN  <<Send(h, [type |-> "TO_BE_HEAD"]), Send(Client, notify)>> \o
        [i \in DOMAIN everyone |-> Send(everyone[i], notify)]

\* Defect: the new head is told, but head_ keeps the crashed one.
NotifyHeadCrash_unrecorded(b, s) ==
    /\ s = head[b] /\ s # tail[b]
    /\ NotifyCrash(b, s, NewHeadSends(b, s, SuccOf(chain[b], s)))
    /\ UNCHANGED <<head, tail>>

NotifyHeadCrash(b, s) ==
    /\ s = head[b] /\ s # tail[b]
    /\ LET h == SuccOf(chain[b], s)
       IN  /\ head' = [head EXCEPT ![b] = h]
           /\ NotifyCrash(b, s, NewHeadSends(b, s, h))
    /\ UNCHANGED tail

\* Defect: the clients hear of the new tail before the server does.
NewTailSends_clients_first(b, t) ==
    <<Send(Client, [type |-> "NEW_TAIL", bank |-> b, server |-> t]),
      Send(t, [type |-> "TO_BE_TAIL"])>>

NewTailSends(b, t) ==
    <<Send(t, [type |-> "TO_BE_TAIL"]),
      Send(Client, [type |-> "NEW_TAIL", bank |-> b, server |-> t])>>

\* Defect: the new tail is looked up on the wrong side of the crashed one.
NotifyTailCrash_wrong_side(b, s) ==
    /\ s # head[b] /\ s = tail[b]
    /\ LET t == SuccOf(chain[b], s)
       IN  /\ tail' = [tail EXCEPT ![b] = t]
           /\ NotifyCrash(b, s, NewTailSends(b, t))
    /\ UNCHANGED head

NotifyTailCrash(b, s) ==
    /\ s # head[b] /\ s = tail[b]
    /\ LET t == PreOf(chain[b], s)
       IN  /\ tail' = [tail EXCEPT ![b] = t]
           /\ NotifyCrash(b, s, NewTailSends(b, t))
    /\ UNCHANGED head

NewPreSends(b, s) ==
    <<Send(SuccOf(chain[b], s),
           [type |-> "NEW_PRE_SERVER", addr |-> PreOf(chain[b], s)])>>

NotifyInternalCrash(b, s) ==
    /\ s # head[b] /\ s # tail[b]
    /\ NotifyCrash(b, s, NewPreSends(b, s))
    /\ UNCHANGED <<head, tail>>

\* The next send of notify_crash.
MasterContinue ==
    /\ sending[Master] # <<>>
    /\ Transmit(Master, tcp, sending[Master])
    /\ UNCHANGED <<servers, master, arrivals>>

\* notify_internal_crash_to_preserver, on the TCP thread of the master: it
\* does not wait for the thread that runs notify_crash.
ForwardReqSeq ==
    /\ tcp[Master] # <<>>
    /\ Head(tcp[Master]).type = "REQ_SEQ"
    /\ LET m == Head(tcp[Master])
       IN  tcp' = send_msg_tcp([tcp EXCEPT ![Master] = Tail(@)],
                               Send(m.pre, [m EXCEPT !.type = "NEW_SUCC_SERVER"]))
    /\ UNCHANGED <<servers, master, clients, sending>>

-----------------------------------------------------------------------------
(* The properties that are proved for every instance; those that are only  *)
(* checked are in ChainProperties.                                         *)

\* No account is overdrawn at any server: a debit is applied only where the
\* balance covers it (update_balance), also when it is replayed or repeated.
NoOverdraft == \A s \in Servers, a \in Accounts : srv[s].ledger.bal[a] >= 0

\* The master's head_ and tail_ are the two ends of its server_chain_, whichever
\* servers it has removed: notify_crash never appoints a server that it has
\* already taken out of the chain or one that is not next in line.
MasterKnowsEnds ==
    \A b \in Banks : IsFirst(chain[b], head[b]) /\ IsLast(chain[b], tail[b])

Living(b) == {s \in alive : BankOf[s] = b}

\* A server acts as head only if it is the first living server of its bank, as
\* tail only if it is the last: whatever crashes while the master is still
\* busy with an earlier crash, no two servers of a bank number updates or
\* answer queries at the same time.
RolesFollowTheChain ==
    \A s \in alive :
        /\ srv[s].ishead => IsFirst(Living(BankOf[s]), s)
        /\ srv[s].istail => IsLast(Living(BankOf[s]), s)

\* t is the next living server after s in their chain.
Adjacent(s, t) ==
    /\ s \in alive /\ t \in alive
    /\ IsFirst(After(Living(BankOf[s]), s), t)

\* The updates of s that t has not applied, as they wait in sent_list_ of s.
Missing(s, t) ==
    LET sent == srv[s].ledger.sent
    IN  Pick(sent, {i \in DOMAIN sent :
                        sent[i].req.seq > srv[t].bank_update_seq})

\* Chain replication's "Inprocess Requests Invariant": every update that the
\* next living server has not applied is still in sent_list_, in order, so
\* that it can be forwarded again whoever crashes.
InprocessRequests ==
    \A s, t \in alive : Adjacent(s, t) =>
        LET missing == Missing(s, t)
        IN  /\ srv[t].bank_update_seq <= srv[s].bank_update_seq
            /\ [i \in DOMAIN missing |-> missing[i].req.seq] =
               [i \in 1 .. srv[s].bank_update_seq - srv[t].bank_update_seq |->
                    srv[t].bank_update_seq + i]

\* No server meets a gap in the updates it is sent (line 520).
NoGapInUpdates == \A a \in aborted : a[2] # "FIFO"

\* No query returns an old balance: its answer reflects every update that any
\* client has been told of, and every update that an earlier query reflected,
\* whichever servers were tail when these were answered.
ReadsAreCurrent ==
    [][\A e \in replies' \ replies : e.req.type = "QUERY" =>
        \A f \in replies : f.req.bank = e.req.bank => f.req.seq <= e.req.seq]_vars

\* A query ends a server that is not a tail (line 490).  This happens only to
\* the one that the master has just appointed: clients learn of a new tail
\* from the master and not from the server, whose TO_BE_TAIL may still be
\* waiting behind other messages; never to a server that has been tail.
OnlyNewTailsMissQueries ==
    [][\A s \in Servers :
        <<s, "query at tail">> \in aborted' \ aborted =>
            /\ s = tail[BankOf[s]]
            /\ \E i \in DOMAIN tcp[s] : tcp[s][i].type = "TO_BE_TAIL"]_vars

\* No assertion of server.cc about updates ever fails: no server meets a gap in
\* the updates its predecessor forwards (line 520), no tail waits for anything
\* but transfers when a bank's head changes (line 866), and no forwarded
\* transfer is rejected (line 831).
UpdateAssertionsHold == \A a \in aborted : a[2] = "query at tail"

\* The clients send no transfers, and give an id to updates of one account only.
\* The next three properties are about such clients: transfers lose answers,
\* and the search of sent_list_ (line 656) takes updates of two accounts with
\* one id for the same.
PlainUpdates ==
    /\ \A r \in ClientUpdates : r.type # "TRANSFER"
    /\ \A r, q \in ClientUpdates :
            r.bank = q.bank /\ r.id = q.id => r.acct = q.acct

\* The reply with which server state st would answer a retry of the update
\* with this id on this account: a set with at most one element.
Answer(st, id, acct) ==
    LET l     == st.ledger
        key(e) == e.req.id = id /\ e.req.acct = acct
        done  == {e \in l.processed : key(e)}
        first == {i \in DOMAIN l.sent :
                    /\ key(l.sent[i])
                    /\ \A j \in 1 .. (i - 1) : ~key(l.sent[j])}
    IN  IF done # {} THEN {e.reply : e \in done}
        ELSE {l.sent[i].reply : i \in first}

\* Server s has applied the updates up to the one that e answers (for a query:
\* up to the one it reflects), and would give a retry of an update this reply.
Remembers(s, e) ==
    /\ srv[s].bank_update_seq >= e.req.seq
    /\ \/ e.req.type = "QUERY"
       \/ e.reply.outcome = "INCONSISTENT_WITH_HISTORY"
       \/ Answer(srv[s], e.req.id, e.req.acct) = {e.reply}

\* What a client has been told survives every crash: each living server of the
\* bank has applied all the updates up to the one that was answered (for a
\* query: up to the one it reflects), and would give a retry of an update the
\* same reply.
RepliesAreDurable ==
    \A e \in replies : \A s \in Living(e.req.bank) : Remembers(s, e)

\* "If exactly the same transaction has already been processed, re-send the
\* same reply" (project.txt): two replies to the same update are equal; the
\* balance in a rejection as inconsistent is the current one and may differ.
RetriesGetTheSameReply ==
    \A e, f \in replies :
        (/\ e.req.type # "QUERY"
         /\ [e.req EXCEPT !.seq = 0] = [f.req EXCEPT !.seq = 0])
        => \/ e.reply = f.reply
           \/ /\ e.reply.outcome = "INCONSISTENT_WITH_HISTORY"
              /\ f.reply.outcome = "INCONSISTENT_WITH_HISTORY"

\* Queries that reflect the same updates agree, whichever server was the tail
\* when it answered.
ReadsAgree ==
    \A e, f \in replies :
        (/\ e.req.type = "QUERY" /\ f.req.type = "QUERY"
         /\ e.req.bank = f.req.bank /\ e.req.acct = f.req.acct
         /\ e.req.seq = f.req.seq)
        => e.reply.balance = f.reply.balance

-----------------------------------------------------------------------------
ServerStep(s) ==
    \/ ReceiveRequest(s)
    \/ ReceiveAck(s)
    \/ ToBeHead(s)
    \/ ToBeTail(s)
    \/ ReceiveNewPreServer(s)
    \/ ReceiveNewSuccServer(s)
    \/ ReceiveTransferReply(s)
    \/ HandleNewHead(s)
    \/ Continue(s)

MasterStep ==
    \/ \E b \in Banks, s \in Servers :
            \/ NotifyHeadCrash(b, s)
            \/ NotifyTailCrash(b, s)
            \/ NotifyInternalCrash(b, s)
    \/ MasterContinue
    \/ ForwardReqSeq

Next ==
    \/ \E s \in Servers : \/ ServerStep(s)
                          \/ ClientUpdate(s)
                          \/ ClientQuery(s)
                          \/ Crash(s)
    \/ MasterStep

Spec == Init /\ [][Next]_vars

SystemStep == (\E s \in Servers : ServerStep(s)) \/ MasterStep

\* The threads of the servers and of the master loop for ever: as long as a
\* message waits in an inbox, a send is outstanding or a crash is unnoticed, one
\* of them takes a step.  Nothing is assumed of clients and of crashes.
Fairness == WF_vars(SystemStep)

FairSpec == Spec /\ Fairness
=============================================================================
