----------------------------- MODULE Extension -----------------------------
(***************************************************************************)
(* Chain extension: a server that starts late joins the end of its bank's  *)
(* chain.  The joiner sends JOIN to the master, which appends it to the    *)
(* chain and has the current tail copy its state to the joiner; a thread   *)
(* of the tail (send_req_to_extend_server) sends the accounts and the      *)
(* history while the tail goes on serving, then, holding the mutex, the    *)
(* updates it has served meanwhile and FIN.  The joiner becomes the tail   *)
(* when it handles FIN, and tells the master.                              *)
(*                                                                         *)
(* Every step of module Chain is taken over.  The TCP thread of the master *)
(* handles JOIN and EXTEND_FINISH only between two calls of notify_crash   *)
(* of its other thread here; the code does not synchronise the two.        *)
(***************************************************************************)
EXTENDS Chain

LOCAL INSTANCE SequencesExt

CONSTANTS
    Joiners,     \* the servers of extendServers: they start late
    Allowed,     \* the situations of Hazards that may occur
    MaxLosses    \* bound: servers that crash (MaxCrashes must not bind)

\* "retry": a client sends an update again that the head knows already;
\* "handover": the joiner or the old tail crashes after FIN has been sent and
\* before old tail and master have noted it; "new head": a bank gets a new
\* head while a chain is extended.  The code does not cope with them.
Hazards == {"retry", "handover", "new head"}

ASSUME ExtensionAssumption ==
    /\ Joiners \in SUBSET Servers
    /\ Allowed \in SUBSET Hazards
    /\ MaxLosses \in Nat
    /\ \A j \in Joiners : \E s \in Servers \ Joiners : BankOf[s] = BankOf[j]
    /\ \A j \in Joiners : \A s \in Servers \ {j} :
            BankOf[s] = BankOf[j] => s < j

VARIABLES
    extending,  \* master: extending_ of each bank
    copy,       \* the extension thread of each server
    crashed     \* history: the servers that have crashed

extension == <<extending, copy, crashed>>
extvars   == <<vars, extension>>

NoThread == [phase |-> "none", left |-> <<>>]

ExtendMsg ==
         [type : {"EXTEND_MSG"}, kind : {"START"}, server : Servers]
    \cup [type : {"EXTEND_MSG"}, kind : {"ACCOUNT"}, acct : Accounts, bal : Int]
    \cup [type : {"EXTEND_MSG"}, kind : {"HISTORY", "SENT"}, entry : Entry]
    \cup [type : {"EXTEND_MSG"}, kind : {"FIN"}]

\* Types; in particular extending_ is a joiner or empty, and what the thread
\* has yet to send are pieces of the copy.
ExtensionTypeOK ==
    /\ srv \in [Servers -> ServerState]
    /\ extending \in [Banks -> Joiners \cup {Nobody}]
    /\ copy \in [Servers -> [phase : {"none", "start", "history", "sent"},
                             left : Seq(ExtendMsg)]]
    /\ crashed \in SUBSET Servers

-----------------------------------------------------------------------------
(* Initial state.                                                          *)

Members(b)    == ServersOf(b) \ Joiners
MemberTail(b) == CHOOSE s \in Members(b) : IsLast(Members(b), s)

\* read_config_server: a joiner has no neighbours and is neither head nor tail.
MemberServer(s, flag) ==
    LET S == Members(BankOf[s])
    IN  [InitialServer(s, flag) EXCEPT
            !.istail = IsLast(S, s),
            !.pre    = IF s \in Joiners THEN Nobody ELSE @,
            !.succ   = SuccOf(S, s)]

ExtensionInit ==
    /\ \E flag \in [Servers -> UninitializedFlag] :
            srv = [s \in Servers |-> MemberServer(s, flag[s])]
    /\ alive = Servers \ Joiners
    /\ tcp = [p \in Processes |-> <<>>]
    /\ sending = [p \in Processes |-> <<>>]
    /\ chain = [b \in Banks |-> Members(b)]
    /\ head = [b \in Banks |-> InitialHead(b)]
    /\ tail = [b \in Banks |-> MemberTail(b)]
    /\ known_heads = [b \in Banks |-> {InitialHead(b)}]
    /\ known_tails = [b \in Banks |-> {MemberTail(b)}]
    /\ replies = {}
    /\ arrivals = 0
    /\ aborted = {}
    /\ extending = [b \in Banks |-> Nobody]
    /\ copy = [s \in Servers |-> NoThread]
    /\ crashed = {}

-----------------------------------------------------------------------------
(* The joiner.                                                             *)

\* Every head is alive and every NEW_HEAD has been handled.
HeadsStable ==
    /\ \A b \in Banks : head[b] \in alive
    /\ sending[Master] = <<>>
    /\ \A s \in Servers : \A i \in DOMAIN tcp[s] : tcp[s][i].type # "NEW_HEAD"

\* The heartbeat thread of a late server sends JOIN before its first heartbeat.
Join(j) ==
    /\ j \in Joiners \ (alive \cup crashed)
    /\ "new head" \in Allowed \/ HeadsStable
    /\ alive' = alive \cup {j}
    /\ tcp' = [tcp EXCEPT ![Master] =
                    Append(@, [type |-> "JOIN", server |-> j])]
    /\ UNCHANGED <<srv, aborted, sending, master, clients, extension>>

\* Defect: the updates served during the copy do not advance the number.
CopiedSeq_history_only(st, m) ==
    IF m.kind = "HISTORY" /\ m.entry.req.seq > st.bank_update_seq
    THEN m.entry.req.seq ELSE st.bank_update_seq

\* The joiner's bank_update_seq is the largest number of a copied update.
CopiedSeq(st, m) ==
    IF m.kind \in {"HISTORY", "SENT"} /\ m.entry.req.seq > st.bank_update_seq
    THEN m.entry.req.seq ELSE st.bank_update_seq

\* The ledger after one piece of the copy.  START empties it, except for
\* sent_list_.
CopiedLedger(l, m) ==
    CASE m.kind = "START" -> [EmptyLedger EXCEPT !.sent = l.sent]
      [] m.kind = "ACCOUNT" -> [l EXCEPT !.accts = @ \cup {m.acct},
                                         !.bal[m.acct] = m.bal]
      [] m.kind = "HISTORY" -> insert_processed_list(l, <<m.entry>>)
      [] m.kind = "SENT" ->
            LET u == update_request_reply(l, m.entry.req)
            IN  IF u.check = "NEWREQ"
                THEN insert_processed_list(u.ledger, <<u.entry>>) ELSE u.ledger
      [] OTHER -> l

receive_extend_msg(s, st, m) ==
    [st  |-> [st EXCEPT
                !.bank_update_seq = IF m.kind = "START" THEN 0 ELSE CopiedSeq(st, m),
                !.pre    = IF m.kind = "START" THEN m.server ELSE @,
                !.istail = @ \/ m.kind = "FIN",
                !.ledger = CopiedLedger(@, m)],
     out |-> CASE m.kind = "FIN" ->
                    <<Send(Master, [type |-> "EXTEND_FINISH", server |-> s])>>
               [] m.kind = "ACCOUNT" /\ m.acct \in st.ledger.accts ->
                    <<Abort("account is new")>>
               [] OTHER -> <<>>]

\* A thread ends with its process.
SurvivingThreads ==
    copy' = [s \in Servers |-> IF s \in alive' THEN copy[s] ELSE NoThread]

ReceiveExtendMsg(s) ==
    /\ Handle(s, "EXTEND_MSG", receive_extend_msg(s, srv[s], Head(tcp[s])))
    /\ SurvivingThreads
    /\ UNCHANGED <<extending, crashed>>

-----------------------------------------------------------------------------
(* The tail that is extended.                                              *)

receive_extend_server(st, addr) ==
    [st  |-> [st EXCEPT !.extending_chain = TRUE, !.succ = addr],
     out |-> IF st.ledger.sent = <<>> THEN <<>> ELSE <<Abort("sent list empty")>>]

ReceiveExtendServer(s) ==
    /\ Handle(s, "EXTEND_SERVER",
              receive_extend_server(srv[s], Head(tcp[s]).addr))
    /\ copy' = [copy EXCEPT ![s] = IF s \in alive'
                                   THEN [phase |-> "start", left |-> <<>>]
                                   ELSE NoThread]
    /\ UNCHANGED <<extending, crashed>>

\* Defect: the history is not copied.
Snapshot_accounts_only(s) ==
    LET l == srv[s].ledger
        account(a) == [type |-> "EXTEND_MSG", kind |-> "ACCOUNT",
                       acct |-> a, bal |-> l.bal[a]]
    IN  <<[type |-> "EXTEND_MSG", kind |-> "START", server |-> s]>> \o
        SetToSeq({account(a) : a \in l.accts})

\* The copy of accounts and history that the thread makes under the mutex.
Snapshot(s) ==
    LET l == srv[s].ledger
        account(a) == [type |-> "EXTEND_MSG", kind |-> "ACCOUNT",
                       acct |-> a, bal |-> l.bal[a]]
        history(e) == [type |-> "EXTEND_MSG", kind |-> "HISTORY", entry |-> e]
    IN  <<[type |-> "EXTEND_MSG", kind |-> "START", server |-> s]>> \o
        SetToSeq({account(a) : a \in l.accts}) \o
        SetToSeq({history(e) : e \in l.processed})

\* Defect: the updates served during the copy are left out.
LastPart_only_fin(s) == <<[type |-> "EXTEND_MSG", kind |-> "FIN"]>>

\* The updates that were served during the copy, then FIN.
LastPart(s) ==
    LET sent == srv[s].ledger.sent
    IN  [i \in DOMAIN sent |->
            [type |-> "EXTEND_MSG", kind |-> "SENT", entry |-> sent[i]]] \o
        <<[type |-> "EXTEND_MSG", kind |-> "FIN"]>>

\* The thread sends the first of msgs to the successor the server has now.  It
\* gives up when the send fails, and extending_chain_ stays as it is.
CopySend(s, phase, msgs) ==
    /\ tcp' = send_msg_tcp(tcp, Send(srv[s].succ, Head(msgs)))
    /\ copy' = [copy EXCEPT ![s] =
                    IF srv[s].succ \in alive
                    THEN [phase |-> phase, left |-> Tail(msgs)] ELSE NoThread]
    /\ UNCHANGED <<servers, sending, master, clients, extending, crashed>>

\* The mutex is free when no update is being handled; the thread holds it from
\* the last part on.
MutexFree(s) == copy[s].phase # "sent"

SendStart(s) ==
    /\ copy[s].phase = "start"
    /\ Idle(s)
    /\ CopySend(s, "history", Snapshot(s))

SendHistory(s) ==
    /\ copy[s].phase = "history"
    /\ copy[s].left # <<>>
    /\ CopySend(s, "history", copy[s].left)

LockAndSendSent(s) ==
    /\ copy[s].phase = "history"
    /\ copy[s].left = <<>>
    /\ Idle(s)
    /\ CopySend(s, "sent", LastPart(s))

SendSent(s) ==
    /\ copy[s].phase = "sent"
    /\ copy[s].left # <<>>
    /\ CopySend(s, "sent", copy[s].left)

\* Defect: the old tail goes on as tail.
StopActingAsTail_stays(s) ==
    /\ copy[s].phase = "sent"
    /\ copy[s].left = <<>>
    /\ srv' = [srv EXCEPT ![s].extending_chain = FALSE]
    /\ copy' = [copy EXCEPT ![s] = NoThread]
    /\ UNCHANGED <<alive, aborted, network, master, clients, extending, crashed>>

\* After FIN, still under the mutex.
StopActingAsTail(s) ==
    /\ copy[s].phase = "sent"
    /\ copy[s].left = <<>>
    /\ srv' = [srv EXCEPT ![s].extending_chain = FALSE, ![s].istail = FALSE]
    /\ copy' = [copy EXCEPT ![s] = NoThread]
    /\ UNCHANGED <<alive, aborted, network, master, clients, extending, crashed>>

\* EXTEND_FAIL: the joiner has crashed.
extending_server_fail(st) ==
    [st  |-> [st EXCEPT !.extending_chain = FALSE, !.istail = TRUE,
                        !.ledger.sent = <<>>],
     out |-> <<>>]

ExtendingServerFail(s) ==
    /\ Handle(s, "EXTEND_FAIL", extending_server_fail(srv[s]))
    /\ UNCHANGED extension

-----------------------------------------------------------------------------
(* The master.                                                             *)

MasterReceives(type) ==
    /\ sending[Master] = <<>>
    /\ tcp[Master] # <<>>
    /\ Head(tcp[Master]).type = type

\* Defect: extending_ is set to the server that extends.
HandleJoin_wrong_node ==
    /\ MasterReceives("JOIN")
    /\ LET j == Head(tcp[Master]).server
           b == BankOf[j]
       IN  /\ chain' = [chain EXCEPT ![b] = @ \cup {j}]
           /\ extending' = [extending EXCEPT ![b] = PreOf(chain[b], j)]
           /\ tcp' = send_msg_tcp([tcp EXCEPT ![Master] = Tail(@)],
                        Send(PreOf(chain[b], j),
                             [type |-> "EXTEND_SERVER", addr |-> j]))
    /\ UNCHANGED <<servers, sending, head, tail, clients, copy, crashed>>

\* The joiner goes to the end of the chain, and the server before it is told.
HandleJoin ==
    /\ MasterReceives("JOIN")
    /\ LET j == Head(tcp[Master]).server
           b == BankOf[j]
       IN  /\ chain' = [chain EXCEPT ![b] = @ \cup {j}]
           /\ extending' = [extending EXCEPT ![b] = j]
           /\ tcp' = send_msg_tcp([tcp EXCEPT ![Master] = Tail(@)],
                        Send(PreOf(chain[b], j),
                             [type |-> "EXTEND_SERVER", addr |-> j]))
    /\ UNCHANGED <<servers, sending, head, tail, clients, copy, crashed>>

HandleExtendFinish ==
    /\ MasterReceives("EXTEND_FINISH")
    /\ LET j == Head(tcp[Master]).server
           b == BankOf[j]
       IN  /\ tail' = [tail EXCEPT ![b] = j]
           /\ extending' = [extending EXCEPT ![b] = Nobody]
           /\ send_msg_udp(Send(Client, [type |-> "NEW_TAIL", bank |-> b,
                                         server |-> j]))
    /\ tcp' = [tcp EXCEPT ![Master] = Tail(@)]
    /\ UNCHANGED <<servers, sending, chain, head, arrivals, copy, crashed>>

\* The NEW_HEAD messages that follow a head's crash go to all but joiners.
HeadCrash(b, s) ==
    /\ s = head[b] /\ s # tail[b]
    /\ LET h == SuccOf(chain[b], s)
           spared(o) == \E c \in Banks : o.to = extending[c]
       IN  /\ head' = [head EXCEPT ![b] = h]
           /\ NotifyCrash(b, s, SelectSeq(NewHeadSends(b, s, h),
                                          LAMBDA o : ~spared(o)))
    /\ UNCHANGED <<tail, extension>>


\* The new tail is told of a joiner that is waiting.
TailCrash(b, s) ==
    /\ s # head[b] /\ s = tail[b]
    /\ LET t == PreOf(chain[b], s)
           offer == IF extending[b] = Nobody THEN <<>>
                    ELSE <<Send(t, [type |-> "EXTEND_SERVER",
                                    addr |-> extending[b]])>>
       IN  /\ tail' = [tail EXCEPT ![b] = t]
           /\ NotifyCrash(b, s, NewTailSends(b, t) \o offer)
    /\ UNCHANGED <<head, extension>>

InternalCrash(b, s) ==
    /\ s # extending[b]
    /\ NotifyInternalCrash(b, s)
    /\ UNCHANGED extension

ExtendingCrash(b, s) ==
    /\ s = extending[b] /\ s # head[b] /\ s # tail[b]
    /\ NotifyCrash(b, s, <<Send(PreOf(chain[b], s), [type |-> "EXTEND_FAIL"])>>)
    /\ extending' = [extending EXCEPT ![b] = Nobody]
    /\ UNCHANGED <<head, tail, copy, crashed>>

-----------------------------------------------------------------------------
(* Crashes.  A bank keeps a living server that the master counts among its *)
(* members: the crash of the last one ends the master (master.cc, line     *)
(* 211), also when a joiner has just become tail.                          *)

\* Joiner j is taking over as tail: FIN has been sent to it, and the old tail
\* has not stopped acting as tail or the master does not know yet.
TakingOver(j) ==
    \/ \E s \in Servers : /\ srv[s].succ = j
                          /\ copy[s] = [phase |-> "sent", left |-> <<>>]
    \/ /\ extending[BankOf[j]] = j
       /\ j \in alive
       /\ \/ srv[j].istail
          \/ \E i \in DOMAIN tcp[j] : /\ tcp[j][i].type = "EXTEND_MSG"
                                      /\ tcp[j][i].kind = "FIN"

InHandover(s) == \E j \in Joiners : TakingOver(j) /\ (s = j \/ srv[s].succ = j)

\* A joiner has started, and has not taken over as tail or has crashed.
ExtensionUnderway ==
    \E j \in Joiners : \/ j \in crashed
                       \/ j \in alive /\ (~srv[j].istail \/ TakingOver(j))

Lose(s) ==
    /\ Cardinality(crashed) < MaxLosses
    /\ \/ s = extending[BankOf[s]]
       \/ \E t \in chain[BankOf[s]] \cap alive : t \notin {s, extending[BankOf[s]]}
    /\ InHandover(s) => "handover" \in Allowed
    /\ IsFirst(Living(BankOf[s]), s) /\ ExtensionUnderway =>
            "new head" \in Allowed
    /\ Crash(s)
    /\ crashed' = crashed \cup {s}
    /\ SurvivingThreads
    /\ UNCHANGED extending

-----------------------------------------------------------------------------
\* The steps of module Chain.  An update is not handled while the extension
\* thread holds the mutex.
ChainServerStep(s) ==
    /\ \/ ReceiveRequest(s) /\ MutexFree(s)
       \/ ReceiveAck(s)
       \/ ToBeHead(s)
       \/ ToBeTail(s)
       \/ ReceiveNewPreServer(s)
       \/ ReceiveNewSuccServer(s)
       \/ ReceiveTransferReply(s)
       \/ HandleNewHead(s)
       \/ Continue(s)
    /\ SurvivingThreads
    /\ UNCHANGED <<extending, crashed>>

Known(l) == {e.req.id : e \in l.processed \cup {l.sent[i] : i \in DOMAIN l.sent}}

ClientStep(s) ==
    /\ \/ /\ MutexFree(s)
          /\ ClientUpdate(s)
          /\ "retry" \in Allowed \/ Known(srv'[s].ledger) # Known(srv[s].ledger)
       \/ ClientQuery(s)
    /\ SurvivingThreads
    /\ UNCHANGED <<extending, crashed>>

ExtendStep(s) ==
    \/ ReceiveExtendMsg(s)
    \/ ReceiveExtendServer(s)
    \/ SendStart(s)
    \/ SendHistory(s)
    \/ LockAndSendSent(s)
    \/ SendSent(s)
    \/ StopActingAsTail(s)
    \/ ExtendingServerFail(s)

ExtendMasterStep ==
    \/ \E b \in Banks, s \in Servers :
            \/ HeadCrash(b, s)
            \/ TailCrash(b, s)
            \/ InternalCrash(b, s)
            \/ ExtendingCrash(b, s)
    \/ MasterContinue /\ UNCHANGED extension
    \/ ForwardReqSeq /\ UNCHANGED extension
    \/ HandleJoin
    \/ HandleExtendFinish

ExtensionStep ==
    \/ \E s \in Servers : ChainServerStep(s) \/ ExtendStep(s)
    \/ ExtendMasterStep

ExtensionNext ==
    \/ ExtensionStep
    \/ \E s \in Servers : ClientStep(s) \/ Lose(s) \/ Join(s)

ExtensionSpec == ExtensionInit /\ [][ExtensionNext]_extvars

\* As in Chain: the threads of servers and master run on.
FairExtensionSpec == ExtensionSpec /\ WF_extvars(ExtensionStep)
=============================================================================
