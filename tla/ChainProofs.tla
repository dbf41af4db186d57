---------------------------- MODULE ChainProofs ----------------------------
(***************************************************************************)
(* Proofs about the replicated bank, for any number of banks, servers,     *)
(* accounts, requests and crashes: the state stays well formed, no account *)
(* is overdrawn, and the master knows the ends of its chains.              *)
(***************************************************************************)
EXTENDS Chain, ServerProofs, WellFoundedInduction

-----------------------------------------------------------------------------
(* Positions in a chain.                                                   *)

\* A chain that is not empty has a first server.
LEMMA FirstExists ==
    ASSUME NEW S \in SUBSET Servers, S # {}
    PROVE  \E s \in S : IsFirst(S, s)
PROOF
<1>1. S \in SUBSET Nat
  BY BankAssumption DEF Servers
<1>2. PICK s \in S : \A t \in S : <<t, s>> \notin OpToRel(<, Nat)
  BY <1>1, NatLessThanWellFounded, WFMin
<1>3. \A t \in S : ~(t < s)
  BY <1>1, <1>2 DEF OpToRel
<1> QED
  BY <1>3 DEF IsFirst, Before

\* A chain that is not empty has a last server.
LEMMA LastExists ==
    ASSUME NEW S \in SUBSET Servers, S # {}
    PROVE  \E s \in S : IsLast(S, s)
PROOF
<1> DEFINE R == {NumServers - s : s \in S}
<1>1. NumServers \in Nat /\ \A s \in S : s \in Nat /\ s <= NumServers
  BY BankAssumption DEF Servers
<1>2. R \in SUBSET Nat /\ R # {}
  BY <1>1
<1>3. PICK r \in R : \A q \in R : <<q, r>> \notin OpToRel(<, Nat)
  <2> HIDE DEF R
  <2> QED
    BY <1>2, NatLessThanWellFounded, WFMin
<1>4. \A q \in R : ~(q < r)
  <2> HIDE DEF R
  <2> QED
    BY <1>2, <1>3 DEF OpToRel
<1>5. PICK s \in S : r = NumServers - s
  OBVIOUS
<1>6. \A t \in S : ~(t > s)
  <2>1. \A t \in S : ~(NumServers - t < NumServers - s)
    BY <1>4, <1>5
  <2> QED
    BY <1>1, <2>1
<1> QED
  BY <1>6 DEF IsLast, After

-----------------------------------------------------------------------------
(* The initial state.                                                      *)

\* Every bank has a server.
LEMMA ServersOfBank ==
    ASSUME NEW b \in Banks
    PROVE  ServersOf(b) \in SUBSET Servers /\ ServersOf(b) # {}
PROOF
  BY ChainAssumption DEF ServersOf

\* Every bank starts with a head and a tail, the ends of its chain.
LEMMA InitialEnds ==
    ASSUME NEW b \in Banks
    PROVE  /\ InitialHead(b) \in Servers /\ IsFirst(ServersOf(b), InitialHead(b))
           /\ InitialTail(b) \in Servers /\ IsLast(ServersOf(b), InitialTail(b))
PROOF
<1>1. ServersOf(b) \in SUBSET Servers /\ ServersOf(b) # {}
  BY ServersOfBank
<1>2. /\ \E s \in ServersOf(b) : IsFirst(ServersOf(b), s)
      /\ \E s \in ServersOf(b) : IsLast(ServersOf(b), s)
  BY <1>1, FirstExists, LastExists
<1>3. /\ InitialHead(b) \in ServersOf(b)
      /\ IsFirst(ServersOf(b), InitialHead(b))
  BY <1>2, Zenon DEF InitialHead
<1>4. /\ InitialTail(b) \in ServersOf(b)
      /\ IsLast(ServersOf(b), InitialTail(b))
  BY <1>2, Zenon DEF InitialTail
<1> QED
  BY <1>1, <1>3, <1>4

\* The neighbours of a server, where it has some, are in its chain.
LEMMA Neighbours ==
    ASSUME NEW S \in SUBSET Servers, NEW s \in Servers
    PROVE  /\ PreOf(S, s) \in Servers \cup {Nobody}
           /\ SuccOf(S, s) \in Servers \cup {Nobody}
           /\ After(S, s) # {} => IsFirst(After(S, s), SuccOf(S, s))
           /\ Before(S, s) # {} => IsLast(Before(S, s), PreOf(S, s))
PROOF
<1>1. /\ After(S, s) \in SUBSET S /\ Before(S, s) \in SUBSET S
      /\ After(S, s) \in SUBSET Servers /\ Before(S, s) \in SUBSET Servers
  BY DEF After, Before
<1>2. After(S, s) # {} => \E t \in S : IsFirst(After(S, s), t)
  BY <1>1, FirstExists
<1>3. Before(S, s) # {} => \E t \in S : IsLast(Before(S, s), t)
  BY <1>1, LastExists
<1>4. (\E t \in S : IsFirst(After(S, s), t)) =>
        SuccOf(S, s) \in S /\ IsFirst(After(S, s), SuccOf(S, s))
  BY Zenon DEF SuccOf
<1>5. (\E t \in S : IsLast(Before(S, s), t)) =>
        PreOf(S, s) \in S /\ IsLast(Before(S, s), PreOf(S, s))
  BY Zenon DEF PreOf
<1>6. (~\E t \in S : IsFirst(After(S, s), t)) => SuccOf(S, s) = Nobody
  BY Zenon DEF SuccOf
<1>7. (~\E t \in S : IsLast(Before(S, s), t)) => PreOf(S, s) = Nobody
  BY Zenon DEF PreOf
<1> QED
  BY <1>2, <1>3, <1>4, <1>5, <1>6, <1>7

\* read_config_server leaves a server with a well-formed, solvent state.
LEMMA InitialServerType ==
    ASSUME NEW s \in Servers, NEW flag \in BOOLEAN
    PROVE  /\ InitialServer(s, flag) \in ServerState
           /\ Solvent(InitialServer(s, flag).ledger)
PROOF
<1> DEFINE S == ServersOf(BankOf[s])
           pre == PreOf(S, s)
           succ == SuccOf(S, s)
           h == [b \in Banks |-> InitialHead(b)]
           first == IsFirst(S, s)
           last == IsLast(S, s)
           st == [ishead |-> first, istail |-> last,
                  extending_chain |-> flag, pre |-> pre, succ |-> succ,
                  bank_update_seq |-> 0, heads |-> h, ledger |-> EmptyLedger]
<1>1. BankOf[s] \in Banks
  BY ChainAssumption
<1>2. S \in SUBSET Servers
  BY <1>1, ServersOfBank
<1>3. pre \in Servers \cup {Nobody} /\ succ \in Servers \cup {Nobody}
  <2> HIDE DEF S
  <2> QED
    BY <1>2, Neighbours
<1>4. h \in [Banks -> Servers]
  BY InitialEnds
<1>5. EmptyLedger \in Ledger /\ Solvent(EmptyLedger)
  <2>1. EmptyLedger \in Ledger
    BY DEF EmptyLedger, Ledger
  <2>2. EmptyLedger.bal = [a \in Accounts |-> 0]
    BY DEF EmptyLedger
  <2> QED
    BY <2>1, <2>2 DEF Solvent
<1>6. first \in BOOLEAN /\ last \in BOOLEAN
  BY DEF IsFirst, IsLast
<1>7. InitialServer(s, flag) = st
  BY DEF InitialServer
<1> HIDE DEF pre, succ, h, first, last
<1>8. st \in ServerState /\ st.ledger = EmptyLedger
  BY <1>3, <1>4, <1>5, <1>6 DEF ServerState
<1> HIDE DEF st
<1> QED
  BY <1>5, <1>7, <1>8

-----------------------------------------------------------------------------
(* Sending.                                                                *)

Inboxes == [Processes -> Seq(Message)]

\* Servers never queue an order to take a role.
ServersObey == \A s \in Servers : sending[s] \in Seq(ServerSend)

\* What is delivered is well formed.
LEMMA Delivery ==
    ASSUME TypeOK, NEW inbox \in Inboxes, NEW o \in Outgoing
    PROVE  send_msg_tcp(inbox, o) \in Inboxes
PROOF
<1>1. o.msg \in Message
  BY DEF Outgoing
<1>2. CASE o.to \in alive \cup {Master}
  <2>1. o.to \in Processes
    BY <1>2 DEF TypeOK, Processes
  <2>2. Append(inbox[o.to], o.msg) \in Seq(Message)
    BY <1>1, <2>1 DEF Inboxes
  <2>3. send_msg_tcp(inbox, o) =
            [inbox EXCEPT ![o.to] = Append(inbox[o.to], o.msg)]
    BY <1>2 DEF send_msg_tcp
  <2> QED
    BY <2>2, <2>3 DEF Inboxes
<1>3. CASE o.to \notin alive \cup {Master}
  BY <1>3 DEF send_msg_tcp
<1> QED
  BY <1>2, <1>3

\* What the clients learn is well formed.
LEMMA Notification ==
    ASSUME TypeOK, NEW o \in Outgoing, send_msg_udp(o)
    PROVE  /\ replies' \in SUBSET Entry
           /\ known_heads' \in [Banks -> SUBSET Servers]
           /\ known_tails' \in [Banks -> SUBSET Servers]
PROOF
<1> DEFINE told(type, b) == IF /\ o.to = Client
                               /\ o.msg.type = type
                               /\ o.msg.bank = b THEN {o.msg.server} ELSE {}
<1>1. o.msg \in Message
  BY DEF Outgoing
<1>2. replies' \in SUBSET Entry
  BY <1>1, MessageFields DEF send_msg_udp, TypeOK
<1>3. \A b \in Banks :
        /\ told("NEW_HEAD", b) \in SUBSET Servers
        /\ told("NEW_TAIL", b) \in SUBSET Servers
  BY <1>1, MessageFields
<1>4. /\ known_heads' = [b \in Banks |->
                            known_heads[b] \cup told("NEW_HEAD", b)]
      /\ known_tails' = [b \in Banks |->
                            known_tails[b] \cup told("NEW_TAIL", b)]
  BY DEF send_msg_udp
<1> HIDE DEF told
<1> QED
  BY <1>2, <1>3, <1>4 DEF TypeOK

\* A send keeps the network and the clients' knowledge well formed, and leaves
\* the process with sends it was going to make.
LEMMA TransmitType ==
    ASSUME TypeOK, NEW p \in Processes, NEW inbox \in Inboxes,
           NEW O \in SUBSET Outgoing, NEW out \in Seq(O),
           Transmit(p, inbox, out)
    PROVE  /\ tcp' \in Inboxes
           /\ sending' \in [Processes -> Seq(Outgoing)]
           /\ sending'[p] \in Seq(O)
           /\ \A q \in Processes \ {p} : sending'[q] = sending[q]
           /\ replies' \in SUBSET Entry
           /\ known_heads' \in [Banks -> SUBSET Servers]
           /\ known_tails' \in [Banks -> SUBSET Servers]
PROOF
<1>1. sending \in [Processes -> Seq(Outgoing)]
  BY DEF TypeOK
<1>2. CASE out = <<>>
  <2>1. /\ tcp' = inbox
        /\ sending' = [sending EXCEPT ![p] = <<>>]
        /\ UNCHANGED <<replies, known_heads, known_tails>>
    BY <1>2 DEF Transmit
  <2>2. <<>> \in Seq(Outgoing) /\ <<>> \in Seq(O)
    OBVIOUS
  <2>3. /\ sending' \in [Processes -> Seq(Outgoing)]
        /\ sending'[p] \in Seq(O)
        /\ \A q \in Processes \ {p} : sending'[q] = sending[q]
    BY <1>1, <2>1, <2>2
  <2> QED
    BY <2>1, <2>3 DEF TypeOK
<1>3. CASE out # <<>>
  <2>1. Head(out) \in O /\ Tail(out) \in Seq(O)
    BY <1>3
  <2>2. /\ Head(out) \in Outgoing
        /\ Tail(out) \in Seq(Outgoing)
    BY <2>1
  <2>3. /\ tcp' = send_msg_tcp(inbox, Head(out))
        /\ sending' = [sending EXCEPT ![p] = Tail(out)]
        /\ send_msg_udp(Head(out))
    BY <1>3 DEF Transmit
  <2>4. tcp' \in Inboxes
    BY <2>2, <2>3, Delivery
  <2>5. /\ replies' \in SUBSET Entry
        /\ known_heads' \in [Banks -> SUBSET Servers]
        /\ known_tails' \in [Banks -> SUBSET Servers]
    BY <2>2, <2>3, Notification
  <2>6. /\ sending' \in [Processes -> Seq(Outgoing)]
        /\ sending'[p] \in Seq(O)
        /\ \A q \in Processes \ {p} : sending'[q] = sending[q]
    BY <1>1, <2>1, <2>2, <2>3
  <2> QED
    BY <2>4, <2>5, <2>6
<1> QED
  BY <1>2, <1>3

-----------------------------------------------------------------------------
(* Steps of a server.                                                      *)

\* The variables that a step of a server changes are well formed after it.
ServerVarsOK ==
    /\ srv \in [Servers -> ServerState]
    /\ alive \in SUBSET Servers
    /\ tcp \in Inboxes
    /\ sending \in [Processes -> Seq(Outgoing)]
    /\ known_heads \in [Banks -> SUBSET Servers]
    /\ known_tails \in [Banks -> SUBSET Servers]
    /\ replies \in SUBSET Entry
    /\ aborted \in SUBSET (Servers \X Assertions)

\* A server that ends.
LEMMA DieType ==
    ASSUME TypeOK, ServersObey, NEW s \in Servers, NEW inbox \in Inboxes,
           Die(s, inbox), aborted' \in SUBSET (Servers \X Assertions)
    PROVE  ServerVarsOK' /\ ServersObey' /\ (NoOverdraft => NoOverdraft')
PROOF
<1> DEFINE new == InitialServer(s, FALSE)
<1>1. new \in ServerState /\ Solvent(new.ledger)
  BY InitialServerType
<1>2. /\ alive' = alive \ {s}
      /\ srv' = [srv EXCEPT ![s] = new]
      /\ tcp' = [inbox EXCEPT ![s] = <<>>]
      /\ sending' = [sending EXCEPT ![s] = <<>>]
      /\ UNCHANGED <<known_heads, known_tails, replies>>
  BY DEF Die
<1> HIDE DEF new
<1>3. srv' \in [Servers -> ServerState]
  BY <1>1, <1>2 DEF TypeOK
<1>4. NoOverdraft => NoOverdraft'
  BY <1>1, <1>2 DEF TypeOK, NoOverdraft, Solvent
<1>5. /\ <<>> \in Seq(Message)
      /\ <<>> \in Seq(Outgoing)
      /\ <<>> \in Seq(ServerSend)
  OBVIOUS
<1>6. s \in Processes
  BY DEF Processes
<1>7. tcp' \in Inboxes
  BY <1>2, <1>5, <1>6 DEF Inboxes
<1>8. sending' \in [Processes -> Seq(Outgoing)]
  BY <1>2, <1>5, <1>6 DEF TypeOK
<1>9. ServersObey'
  BY <1>2, <1>5 DEF ServersObey, TypeOK, Processes
<1> QED
  BY <1>2, <1>3, <1>4, <1>7, <1>8, <1>9 DEF ServerVarsOK, TypeOK

\* A server that runs a handler with a well-formed outcome.
LEMMA PerformType ==
    ASSUME TypeOK, ServersObey, NEW s \in Servers, NEW inbox \in Inboxes,
           NEW result, Outcome(srv[s], result), Perform(s, inbox, result)
    PROVE  ServerVarsOK' /\ ServersObey' /\ (NoOverdraft => NoOverdraft')
PROOF
<1>1. /\ result.st \in ServerState
      /\ result.out \in Seq(ServerSend)
      /\ Solvent(srv[s].ledger) => Solvent(result.st.ledger)
  BY DEF Outcome
<1>2. CASE /\ ~Aborts(result.out)
           /\ srv' = [srv EXCEPT ![s] = result.st]
           /\ Transmit(s, inbox, result.out)
           /\ UNCHANGED <<alive, aborted>>
  <2>1. s \in Processes /\ ServerSend \in SUBSET Outgoing
    BY DEF Processes, ServerSend
  <2>2. /\ tcp' \in Inboxes
        /\ sending' \in [Processes -> Seq(Outgoing)]
        /\ sending'[s] \in Seq(ServerSend)
        /\ \A q \in Processes \ {s} : sending'[q] = sending[q]
        /\ replies' \in SUBSET Entry
        /\ known_heads' \in [Banks -> SUBSET Servers]
        /\ known_tails' \in [Banks -> SUBSET Servers]
    BY <1>1, <1>2, <2>1, TransmitType
  <2>3. srv' \in [Servers -> ServerState]
    BY <1>1, <1>2 DEF TypeOK
  <2>4. NoOverdraft => NoOverdraft'
    <3>1. NoOverdraft => \A t \in Servers : Solvent(srv[t].ledger)
      BY DEF NoOverdraft, Solvent
    <3>2. \A t \in Servers : srv'[t] = IF t = s THEN result.st ELSE srv[t]
      BY <1>2 DEF TypeOK
    <3>3. NoOverdraft => \A t \in Servers : Solvent(srv'[t].ledger)
      BY <1>1, <3>1, <3>2
    <3> QED
      BY <3>3 DEF NoOverdraft, Solvent
  <2>5. ServersObey'
    BY <2>2 DEF ServersObey, Processes
  <2> QED
    BY <1>2, <2>2, <2>3, <2>4, <2>5 DEF ServerVarsOK, TypeOK
<1>3. CASE /\ Aborts(result.out)
           /\ Die(s, inbox)
           /\ aborted' = aborted \cup {<<s, Head(result.out).msg.which>>}
  <2>1. result.out # <<>> /\ Head(result.out).msg.type = "ABORT"
    BY <1>3 DEF Aborts
  <2>2. Head(result.out) \in ServerSend
    BY <1>1, <2>1
  <2>3. Head(result.out).msg \in Message
    BY <2>2 DEF ServerSend, Outgoing
  <2>4. Head(result.out).msg.which \in Assertions
    BY <2>1, <2>3, MessageFields
  <2>5. aborted' \in SUBSET (Servers \X Assertions)
    BY <1>3, <2>4 DEF TypeOK
  <2> QED
    BY <1>3, <2>5, DieType
<1> QED
  BY <1>2, <1>3 DEF Perform

\* What a step of a server preserves.
ServerStepOK ==
    /\ ServerVarsOK'
    /\ ServersObey'
    /\ NoOverdraft => NoOverdraft'
    /\ UNCHANGED master
    /\ arrivals' \in Nat

\* Server s has received a message of the given type.
Received(s, type) ==
    /\ tcp[s] # <<>>
    /\ Head(tcp[s]) \in Message
    /\ Head(tcp[s]).type = type

\* A handler runs on the first message of the inbox.
LEMMA HandleReceives ==
    ASSUME TypeOK, NEW s \in Servers, NEW type, NEW res, Handle(s, type, res)
    PROVE  Received(s, type)
PROOF
<1>1. tcp[s] \in Seq(Message)
  BY DEF TypeOK, Processes
<1>2. tcp[s] # <<>> /\ Head(tcp[s]).type = type
  BY DEF Handle
<1>3. Head(tcp[s]) \in Message
  BY <1>1, <1>2
<1> QED
  BY <1>2, <1>3 DEF Received

\* Does the inbox of server x hold an order of this type?
Ordered(inbox, x, type) == \E i \in DOMAIN inbox[x] : inbox[x][i].type = type

\* A server takes a role only when it is ordered to.
RoleChange(s, res) ==
    /\ res.st.ishead => srv[s].ishead \/ Ordered(tcp, s, "TO_BE_HEAD")
    /\ res.st.istail => srv[s].istail \/ Ordered(tcp, s, "TO_BE_TAIL")

\* Server s performs res, having taken a message off its inbox or not.
Performs(s, inbox, res) ==
    /\ inbox \in Inboxes
    /\ inbox = tcp \/ (tcp[s] # <<>> /\ inbox = [tcp EXCEPT ![s] = Tail(tcp[s])])
    /\ Outcome(srv[s], res)
    /\ RoleChange(s, res)
    /\ Perform(s, inbox, res)
    /\ UNCHANGED master
    /\ arrivals' \in Nat

\* The first message of an inbox is in the inbox.
LEMMA FirstOrdered ==
    ASSUME TypeOK, NEW s \in Servers, tcp[s] # <<>>
    PROVE  Ordered(tcp, s, Head(tcp[s]).type)
PROOF
<1>1. tcp[s] \in Seq(Message)
  BY DEF TypeOK, Processes
<1>2. 1 \in DOMAIN tcp[s] /\ tcp[s][1] = Head(tcp[s])
  BY <1>1
<1> QED
  BY <1>2 DEF Ordered

\* A handler that runs on a message performs its outcome.
LEMMA HandlePerforms ==
    ASSUME TypeOK, NEW s \in Servers, NEW type, NEW res,
           Handle(s, type, res), Outcome(srv[s], res), RoleChange(s, res)
    PROVE  \E inbox, r : Performs(s, inbox, r)
PROOF
<1> DEFINE inbox == [tcp EXCEPT ![s] = Tail(tcp[s])]
<1>1. /\ tcp[s] # <<>>
      /\ Perform(s, inbox, res)
      /\ UNCHANGED <<master, arrivals>>
  BY DEF Handle
<1>2. tcp \in [Processes -> Seq(Message)] /\ s \in Processes
  BY DEF TypeOK, Processes
<1>3. Tail(tcp[s]) \in Seq(Message)
  BY <1>1, <1>2
<1>4. inbox \in Inboxes
  BY <1>2, <1>3 DEF Inboxes
<1>5. arrivals' \in Nat
  BY <1>1 DEF TypeOK
<1>6. Performs(s, inbox, res)
  BY <1>1, <1>4, <1>5, Zenon DEF Performs
<1> QED
  BY <1>6, Zenon

\* A handler that runs without taking a message off the inbox.
LEMMA TcpPerforms ==
    ASSUME TypeOK, NEW s \in Servers, NEW res, Perform(s, tcp, res),
           Outcome(srv[s], res), RoleChange(s, res),
           UNCHANGED master, arrivals' \in Nat
    PROVE  \E inbox, r : Performs(s, inbox, r)
PROOF
<1>1. tcp \in Inboxes
  BY DEF TypeOK, Inboxes
<1>2. Performs(s, tcp, res)
  BY <1>1, Zenon DEF Performs
<1> QED
  BY <1>2, Zenon

\* Every step of a server, but a crash, performs the outcome of a handler.
LEMMA ServerPerforms ==
    ASSUME TypeOK, ServersObey, NEW s \in Servers,
           ServerStep(s) \/ ClientUpdate(s) \/ ClientQuery(s)
    PROVE  \E inbox, res : Performs(s, inbox, res)
PROOF
<1>0. srv[s] \in ServerState /\ arrivals \in Nat /\ tcp \in Inboxes
  BY DEF TypeOK, Inboxes
<1>1. CASE ReceiveRequest(s)
  <2> DEFINE res == receive_request(s, srv[s], Head(tcp[s]).req)
  <2>1. Handle(s, "REQUEST", res)
    BY <1>1 DEF ReceiveRequest
  <2>2. Received(s, "REQUEST")
    BY <2>1, HandleReceives
  <2>3. Outcome(srv[s], res)
    BY <1>0, <2>2, MessageFields, ReceiveRequestOutcome DEF Received
  <2>4. RoleChange(s, res)
    BY <1>0, RequestKeepsRoles DEF KeepsRoles, RoleChange
  <2> HIDE DEF res
  <2> QED
    BY <2>1, <2>3, <2>4, HandlePerforms
<1>2. CASE ReceiveAck(s)
  <2> DEFINE res == receive_ack(srv[s], Head(tcp[s]).seq)
  <2>1. Handle(s, "ACKNOWLEDGE", res)
    BY <1>2 DEF ReceiveAck
  <2>2. Received(s, "ACKNOWLEDGE")
    BY <2>1, HandleReceives
  <2>3. Outcome(srv[s], res)
    BY <1>0, <2>2, MessageFields, ReceiveAckOutcome DEF Received
  <2>4. RoleChange(s, res)
    BY <1>0, OthersKeepRoles DEF KeepsRoles, RoleChange
  <2> HIDE DEF res
  <2> QED
    BY <2>1, <2>3, <2>4, HandlePerforms
<1>3. CASE ToBeHead(s)
  <2> DEFINE res == to_be_head(srv[s])
  <2>1. Handle(s, "TO_BE_HEAD", res)
    BY <1>3 DEF ToBeHead
  <2>2. Received(s, "TO_BE_HEAD")
    BY <2>1, HandleReceives
  <2>3. Outcome(srv[s], res)
    BY <1>0, <2>2, MessageFields, ToBeHeadOutcome DEF Received
  <2>4. RoleChange(s, res)
    BY <1>0, <2>2, RoleChanges, FirstOrdered DEF RoleChange, Received
  <2> HIDE DEF res
  <2> QED
    BY <2>1, <2>3, <2>4, HandlePerforms
<1>4. CASE ToBeTail(s)
  <2> DEFINE res == to_be_tail(s, srv[s])
  <2>1. Handle(s, "TO_BE_TAIL", res)
    BY <1>4 DEF ToBeTail
  <2>2. Received(s, "TO_BE_TAIL")
    BY <2>1, HandleReceives
  <2>3. Outcome(srv[s], res)
    BY <1>0, <2>2, MessageFields, ToBeTailOutcome DEF Received
  <2>4. RoleChange(s, res)
    BY <1>0, <2>2, RoleChanges, FirstOrdered DEF RoleChange, Received
  <2> HIDE DEF res
  <2> QED
    BY <2>1, <2>3, <2>4, HandlePerforms
<1>5. CASE ReceiveNewPreServer(s)
  <2> DEFINE res == receive_new_preserver(s, srv[s], Head(tcp[s]).addr)
  <2>1. Handle(s, "NEW_PRE_SERVER", res)
    BY <1>5 DEF ReceiveNewPreServer
  <2>2. Received(s, "NEW_PRE_SERVER")
    BY <2>1, HandleReceives
  <2>3. Outcome(srv[s], res)
    BY <1>0, <2>2, MessageFields, NewPreServerOutcome DEF Received
  <2>4. RoleChange(s, res)
    BY <1>0, OthersKeepRoles DEF KeepsRoles, RoleChange
  <2> HIDE DEF res
  <2> QED
    BY <2>1, <2>3, <2>4, HandlePerforms
<1>6. CASE ReceiveNewSuccServer(s)
  <2> DEFINE res == receive_new_succserver(srv[s], Head(tcp[s]))
  <2>1. Handle(s, "NEW_SUCC_SERVER", res)
    BY <1>6 DEF ReceiveNewSuccServer
  <2>2. Received(s, "NEW_SUCC_SERVER")
    BY <2>1, HandleReceives
  <2>3. Outcome(srv[s], res)
    BY <1>0, <2>2, MessageFields, NewSuccServerOutcome DEF Received
  <2>4. RoleChange(s, res)
    BY <1>0, OthersKeepRoles DEF KeepsRoles, RoleChange
  <2> HIDE DEF res
  <2> QED
    BY <2>1, <2>3, <2>4, HandlePerforms
<1>7. CASE ReceiveTransferReply(s)
  <2> DEFINE res == receive_transfer_reply(srv[s], Head(tcp[s]).reply)
  <2>1. Handle(s, "REPLY", res)
    BY <1>7 DEF ReceiveTransferReply
  <2>2. Received(s, "REPLY")
    BY <2>1, HandleReceives
  <2>3. Outcome(srv[s], res)
    BY <1>0, <2>2, MessageFields, TransferReplyOutcome DEF Received
  <2>4. RoleChange(s, res)
    BY <1>0, OthersKeepRoles DEF KeepsRoles, RoleChange
  <2> HIDE DEF res
  <2> QED
    BY <2>1, <2>3, <2>4, HandlePerforms
<1>8. CASE HandleNewHead(s)
  <2> DEFINE res == handle_new_head(s, srv[s], Head(tcp[s]))
  <2>1. Handle(s, "NEW_HEAD", res)
    BY <1>8 DEF HandleNewHead
  <2>2. Received(s, "NEW_HEAD")
    BY <2>1, HandleReceives
  <2>3. Outcome(srv[s], res)
    BY <1>0, <2>2, MessageFields, NewHeadOutcome DEF Received
  <2>4. RoleChange(s, res)
    BY <1>0, OthersKeepRoles DEF KeepsRoles, RoleChange
  <2> HIDE DEF res
  <2> QED
    BY <2>1, <2>3, <2>4, HandlePerforms
<1>9. CASE Continue(s)
  <2> DEFINE res == [st |-> srv[s], out |-> sending[s]]
  <2>1. Perform(s, tcp, res) /\ UNCHANGED <<master, arrivals>>
    BY <1>9 DEF Continue
  <2>2. sending[s] \in Seq(ServerSend)
    BY DEF ServersObey
  <2>3. Outcome(srv[s], res)
    BY <1>0, <2>2, OutcomeOf
  <2>4. RoleChange(s, res)
    BY DEF RoleChange
  <2> HIDE DEF res
  <2>5. arrivals' \in Nat
    BY <1>0, <2>1
  <2> QED
    BY <2>1, <2>3, <2>4, <2>5, TcpPerforms
<1>10. CASE ClientUpdate(s)
  <2>1. PICK r \in ClientUpdates :
            Perform(s, tcp, receive_request(s, srv[s], r))
    BY <1>10 DEF ClientUpdate
  <2>2. r \in Request
    BY ChainAssumption DEF ClientRequest
  <2> DEFINE res == receive_request(s, srv[s], r)
  <2>3. Outcome(srv[s], res)
    BY <1>0, <2>2, ReceiveRequestOutcome
  <2>4. RoleChange(s, res)
    BY <1>0, RequestKeepsRoles DEF KeepsRoles, RoleChange
  <2>5. UNCHANGED master /\ arrivals' \in Nat
    BY <1>0, <1>10 DEF ClientUpdate
  <2> HIDE DEF res
  <2> QED
    BY <1>0, <2>1, <2>3, <2>4, <2>5, TcpPerforms DEF res
<1>11. CASE ClientQuery(s)
  <2>1. PICK r \in ClientQueries :
            Perform(s, tcp, receive_request(s, srv[s], r))
    BY <1>11 DEF ClientQuery
  <2>2. r \in Request
    BY ChainAssumption DEF ClientRequest
  <2> DEFINE res == receive_request(s, srv[s], r)
  <2>3. Outcome(srv[s], res)
    BY <1>0, <2>2, ReceiveRequestOutcome
  <2>4. RoleChange(s, res)
    BY <1>0, RequestKeepsRoles DEF KeepsRoles, RoleChange
  <2>5. UNCHANGED master /\ arrivals' \in Nat
    BY <1>0, <1>11 DEF ClientQuery
  <2> HIDE DEF res
  <2> QED
    BY <1>0, <2>1, <2>3, <2>4, <2>5, TcpPerforms DEF res
<1> QED
  BY <1>1, <1>2, <1>3, <1>4, <1>5, <1>6, <1>7, <1>8, <1>9, <1>10, <1>11 DEF ServerStep

\* Every step of a server or of its clients keeps the state well formed.
LEMMA ServerActions ==
    ASSUME TypeOK, ServersObey, NEW s \in Servers,
           ServerStep(s) \/ ClientUpdate(s) \/ ClientQuery(s) \/ Crash(s)
    PROVE  ServerStepOK
PROOF
<1>1. CASE ServerStep(s) \/ ClientUpdate(s) \/ ClientQuery(s)
  <2>1. PICK inbox, res : Performs(s, inbox, res)
    BY <1>1, ServerPerforms
  <2>2. /\ inbox \in Inboxes /\ Outcome(srv[s], res)
        /\ Perform(s, inbox, res)
        /\ UNCHANGED master
        /\ arrivals' \in Nat
    BY <2>1 DEF Performs
  <2>3. ServerVarsOK' /\ ServersObey' /\ (NoOverdraft => NoOverdraft')
    BY <2>2, PerformType
  <2> QED
    BY <2>2, <2>3 DEF ServerStepOK
<1>2. CASE Crash(s)
  <2>1. Die(s, tcp) /\ UNCHANGED <<master, arrivals, aborted>>
    BY <1>2 DEF Crash
  <2>2. /\ aborted' \in SUBSET (Servers \X Assertions)
        /\ tcp \in Inboxes /\ arrivals' \in Nat
    BY <2>1 DEF TypeOK, Inboxes
  <2>3. ServerVarsOK' /\ ServersObey' /\ (NoOverdraft => NoOverdraft')
    BY <2>1, <2>2, DieType
  <2> QED
    BY <2>1, <2>2, <2>3 DEF ServerStepOK
<1> QED
  BY <1>1, <1>2

-----------------------------------------------------------------------------
(* Steps of the master.                                                    *)

\* What a step of the master preserves.
MasterStepOK ==
    /\ ServerVarsOK'
    /\ ServersObey'
    /\ NoOverdraft => NoOverdraft'
    /\ arrivals' \in Nat
    /\ chain' \in [Banks -> SUBSET Servers]
    /\ head' \in [Banks -> Servers]
    /\ tail' \in [Banks -> Servers]
    /\ MasterKnowsEnds'

\* A send of the master leaves the servers alone.
LEMMA MasterTransmit ==
    ASSUME TypeOK, ServersObey, NEW inbox \in Inboxes,
           NEW out \in Seq(Outgoing), Transmit(Master, inbox, out),
           UNCHANGED <<servers, arrivals>>
    PROVE  /\ ServerVarsOK'
           /\ ServersObey'
           /\ NoOverdraft => NoOverdraft'
           /\ arrivals' \in Nat
PROOF
<1>1. Master \in Processes /\ Outgoing \in SUBSET Outgoing
  BY DEF Processes
<1>2. \A s \in Servers : s \in Processes \ {Master}
  BY MasterAssumption DEF Processes
<1>3. /\ tcp' \in Inboxes
      /\ sending' \in [Processes -> Seq(Outgoing)]
      /\ \A q \in Processes \ {Master} : sending'[q] = sending[q]
      /\ replies' \in SUBSET Entry
      /\ known_heads' \in [Banks -> SUBSET Servers]
      /\ known_tails' \in [Banks -> SUBSET Servers]
  BY <1>1, TransmitType
<1>4. srv' = srv /\ alive' = alive /\ aborted' = aborted /\ arrivals' = arrivals
  BY DEF servers
<1>5. ServersObey'
  BY <1>2, <1>3 DEF ServersObey
<1>6. NoOverdraft => NoOverdraft'
  BY <1>4 DEF NoOverdraft
<1> QED
  BY <1>3, <1>4, <1>5, <1>6 DEF ServerVarsOK, TypeOK

\* The sends of notify_crash when it has found the neighbours.
LEMMA CrashSends ==
    ASSUME TypeOK, NEW b \in Banks, NEW s \in Servers, NEW t \in Servers
    PROVE  /\ NewHeadSends(b, s, t) \in Seq(Outgoing)
           /\ NewTailSends(b, t) \in Seq(Outgoing)
PROOF
<1> DEFINE notify == [type |-> "NEW_HEAD", bank |-> b, server |-> t]
           all    == UNION {chain[c] : c \in Banks} \ {s}
           line   == [i \in Servers |-> i]
           everyone == Pick(line, all)
           new    == <<Send(t, [type |-> "TO_BE_HEAD"]), Send(Client, notify)>>
           rest   == [i \in DOMAIN everyone |-> Send(everyone[i], notify)]
<1>1. /\ t \in Addresses /\ Client \in Addresses
      /\ \A x \in Servers : x \in Addresses
  BY DEF Addresses
<1>2. /\ notify \in Message
      /\ [type |-> "TO_BE_HEAD"] \in Message
      /\ [type |-> "TO_BE_TAIL"] \in Message
      /\ [type |-> "NEW_TAIL", bank |-> b, server |-> t] \in Message
  BY MessageTypes, Zenon
<1>3. NewHeadSends(b, s, t) = new \o rest
  BY DEF NewHeadSends
<1>4. line \in Seq(Servers) /\ DOMAIN line = Servers
  <2>1. NumServers \in Nat
    BY BankAssumption
  <2> QED
    BY <2>1 DEF Servers
<1>5. all \in SUBSET Servers
  BY DEF TypeOK
<1> HIDE DEF notify, all, line
<1>6. everyone \in Seq(Servers)
  BY <1>4, <1>5, PickType
<1> HIDE DEF everyone
<1>7. \A i \in DOMAIN everyone : everyone[i] \in Addresses
  BY <1>1, <1>6
<1>8. rest \in [DOMAIN everyone -> Outgoing]
  BY <1>2, <1>7, SendType, Zenon
<1> HIDE DEF rest
<1>9. rest \in Seq(Outgoing)
  BY <1>6, <1>8, SameDomain
<1>10. new \in Seq(Outgoing)
  <2>1. /\ Send(t, [type |-> "TO_BE_HEAD"]) \in Outgoing
        /\ Send(Client, notify) \in Outgoing
    BY <1>1, <1>2, SendType
  <2> QED
    BY <2>1
<1>11. new \o rest \in Seq(Outgoing)
  <2> HIDE DEF new
  <2> QED
    BY <1>9, <1>10
<1>12. NewTailSends(b, t) \in Seq(Outgoing)
  <2>1. /\ Send(t, [type |-> "TO_BE_TAIL"]) \in Outgoing
        /\ Send(Client, [type |-> "NEW_TAIL", bank |-> b, server |-> t])
                \in Outgoing
    BY <1>1, <1>2, SendType
  <2> QED
    BY <2>1 DEF NewTailSends
<1> QED
  BY <1>3, <1>11, <1>12

\* So are those for a crash inside the chain.
LEMMA PreSendType ==
    ASSUME NEW b \in Banks, NEW s \in Servers,
           SuccOf(chain[b], s) \in Servers, PreOf(chain[b], s) \in Servers
    PROVE  NewPreSends(b, s) \in Seq(Outgoing)
PROOF
<1> DEFINE t == SuccOf(chain[b], s)
           p == PreOf(chain[b], s)
           m == [type |-> "NEW_PRE_SERVER", addr |-> p]
<1>1. NewPreSends(b, s) = <<Send(t, m)>>
  BY DEF NewPreSends
<1>2. t \in Servers /\ p \in Servers
  OBVIOUS
<1> HIDE DEF t, p
<1>3. m \in Message
  BY <1>2, MessageTypes, Zenon
<1> HIDE DEF m
<1>4. Send(t, m) \in Outgoing
  BY <1>2, <1>3, SendType DEF Addresses
<1>5. <<Send(t, m)>> \in Seq(Outgoing)
  BY <1>4
<1> QED
  BY <1>1, <1>5

\* Each server of a chain has a neighbour on either side, unless it is the end,
\* and taking one server out leaves the ends where the master says they are.
LEMMA RemoveServer ==
    ASSUME NEW S \in SUBSET Servers, NEW h \in Servers, NEW t \in Servers,
           IsFirst(S, h), IsLast(S, t), NEW s \in S
    PROVE  /\ s # t => /\ SuccOf(S, s) \in S \ {s}
                       /\ IsFirst(After(S, s), SuccOf(S, s))
           /\ s # h => /\ PreOf(S, s) \in S \ {s}
                       /\ IsLast(Before(S, s), PreOf(S, s))
           /\ s = h /\ s # t => IsFirst(S \ {s}, SuccOf(S, s))
           /\ s # h /\ s = t => IsLast(S \ {s}, PreOf(S, s))
           /\ s # h => IsFirst(S \ {s}, h)
           /\ s # t => IsLast(S \ {s}, t)
PROOF
<1>1. \A x \in S : x \in Int /\ x \in Servers
  BY BankAssumption DEF Servers
<1>2. h \in S /\ t \in S /\ \A x \in S : h <= x /\ x <= t
  BY <1>1 DEF IsFirst, IsLast, Before, After
<1>3. /\ s # t => t \in After(S, s)
      /\ s # h => h \in Before(S, s)
  BY <1>1, <1>2 DEF After, Before
<1>4. /\ s # t => IsFirst(After(S, s), SuccOf(S, s))
      /\ s # h => IsLast(Before(S, s), PreOf(S, s))
  BY <1>1, <1>3, Neighbours
<1>5. s # t => /\ SuccOf(S, s) \in S \ {s}
               /\ \A x \in S : s < x => SuccOf(S, s) <= x
  BY <1>1, <1>4 DEF IsFirst, After, Before
<1>6. s # h => /\ PreOf(S, s) \in S \ {s}
               /\ \A x \in S : x < s => x <= PreOf(S, s)
  BY <1>1, <1>4 DEF IsLast, After, Before
<1>7. s = h /\ s # t => IsFirst(S \ {s}, SuccOf(S, s))
  <2> SUFFICES ASSUME s = h, s # t
               PROVE  \A x \in S \ {s} : ~(x < SuccOf(S, s))
    BY <1>5 DEF IsFirst, Before
  <2> TAKE x \in S \ {s}
  <2>1. s < x /\ SuccOf(S, s) \in Int
    BY <1>1, <1>2, <1>5
  <2>2. SuccOf(S, s) <= x
    BY <1>5, <2>1
  <2> QED
    BY <1>1, <2>1, <2>2
<1>8. s # h /\ s = t => IsLast(S \ {s}, PreOf(S, s))
  <2> SUFFICES ASSUME s # h, s = t
               PROVE  \A x \in S \ {s} : ~(x > PreOf(S, s))
    BY <1>6 DEF IsLast, After
  <2> TAKE x \in S \ {s}
  <2>1. x < s /\ PreOf(S, s) \in Int
    BY <1>1, <1>2, <1>6
  <2>2. x <= PreOf(S, s)
    BY <1>6, <2>1
  <2> QED
    BY <1>1, <2>1, <2>2
<1>9. s # h => IsFirst(S \ {s}, h)
  BY <1>1, <1>2 DEF IsFirst, Before
<1>10. s # t => IsLast(S \ {s}, t)
  BY <1>1, <1>2 DEF IsLast, After
<1> QED
  BY <1>4, <1>5, <1>6, <1>7, <1>8, <1>9, <1>10

\* The same for the chain of a bank as the master knows it.
LEMMA CrashedNeighbours ==
    ASSUME TypeOK, MasterKnowsEnds, NEW b \in Banks, NEW s \in chain[b]
    PROVE  /\ s # tail[b] => SuccOf(chain[b], s) \in chain[b] \ {s}
           /\ s # head[b] => PreOf(chain[b], s) \in chain[b] \ {s}
           /\ s = head[b] /\ s # tail[b] =>
                    IsFirst(chain[b] \ {s}, SuccOf(chain[b], s))
           /\ s # head[b] /\ s = tail[b] =>
                    IsLast(chain[b] \ {s}, PreOf(chain[b], s))
           /\ s # head[b] => IsFirst(chain[b] \ {s}, head[b])
           /\ s # tail[b] => IsLast(chain[b] \ {s}, tail[b])
PROOF
<1> DEFINE S == chain[b]
           h == head[b]
           t == tail[b]
<1>1. /\ S \in SUBSET Servers /\ h \in Servers /\ t \in Servers
      /\ IsFirst(S, h) /\ IsLast(S, t) /\ s \in S
  BY DEF TypeOK, MasterKnowsEnds
<1> HIDE DEF S, h, t
<1>2. /\ s # t => SuccOf(S, s) \in S \ {s}
      /\ s # h => PreOf(S, s) \in S \ {s}
      /\ s = h /\ s # t => IsFirst(S \ {s}, SuccOf(S, s))
      /\ s # h /\ s = t => IsLast(S \ {s}, PreOf(S, s))
      /\ s # h => IsFirst(S \ {s}, h)
      /\ s # t => IsLast(S \ {s}, t)
  BY <1>1, RemoveServer
<1> QED
  BY <1>2 DEF S, h, t

\* notify_crash.
LEMMA NotifyActions ==
    ASSUME TypeOK, ServersObey, MasterKnowsEnds,
           NEW b \in Banks, NEW s \in Servers,
           \/ NotifyHeadCrash(b, s)
           \/ NotifyTailCrash(b, s)
           \/ NotifyInternalCrash(b, s)
    PROVE  MasterStepOK
PROOF
<1> DEFINE S == chain[b]
<1>1. /\ chain \in [Banks -> SUBSET Servers] /\ tcp \in Inboxes
      /\ head \in [Banks -> Servers] /\ tail \in [Banks -> Servers]
  BY DEF TypeOK, Inboxes
<1>2. \A c \in Banks : IsFirst(chain[c], head[c]) /\ IsLast(chain[c], tail[c])
  BY DEF MasterKnowsEnds
<1>3. /\ s \in S
      /\ chain' = [chain EXCEPT ![b] = S \ {s}]
      /\ UNCHANGED <<servers, arrivals>>
  BY DEF NotifyHeadCrash, NotifyTailCrash, NotifyInternalCrash, NotifyCrash
<1>4. /\ chain' \in [Banks -> SUBSET Servers]
      /\ chain'[b] = S \ {s}
      /\ \A c \in Banks \ {b} : chain'[c] = chain[c]
  BY <1>1, <1>3
<1>5. /\ S \in SUBSET Servers /\ head[b] \in Servers /\ tail[b] \in Servers
      /\ IsFirst(S, head[b]) /\ IsLast(S, tail[b])
  BY <1>1, <1>2
<1>6. /\ s # tail[b] => SuccOf(S, s) \in S \ {s}
      /\ s # head[b] => PreOf(S, s) \in S \ {s}
      /\ s = head[b] /\ s # tail[b] => IsFirst(S \ {s}, SuccOf(S, s))
      /\ s # head[b] /\ s = tail[b] => IsLast(S \ {s}, PreOf(S, s))
      /\ s # head[b] => IsFirst(S \ {s}, head[b])
      /\ s # tail[b] => IsLast(S \ {s}, tail[b])
  BY <1>3, CrashedNeighbours
<1> HIDE DEF S
<1>7. CASE NotifyHeadCrash(b, s)
  <2> DEFINE h == SuccOf(S, s)
             out == NewHeadSends(b, s, h)
  <2>1. /\ s = head[b] /\ s # tail[b]
        /\ head' = [head EXCEPT ![b] = h]
        /\ tail' = tail
        /\ Transmit(Master, tcp, out)
    BY <1>7 DEF NotifyHeadCrash, NotifyCrash, S
  <2>2. h \in Servers /\ IsFirst(S \ {s}, h) /\ IsLast(S \ {s}, tail[b])
    BY <1>5, <1>6, <2>1
  <2> HIDE DEF h
  <2>3. out \in Seq(Outgoing)
    BY <2>2, CrashSends
  <2>4. /\ head' \in [Banks -> Servers] /\ tail' \in [Banks -> Servers]
        /\ head'[b] = h /\ \A c \in Banks \ {b} : head'[c] = head[c]
    BY <1>1, <2>1, <2>2
  <2>5. MasterKnowsEnds'
    BY <1>2, <1>4, <2>1, <2>2, <2>4 DEF MasterKnowsEnds
  <2> HIDE DEF out
  <2> QED
    BY <1>1, <1>3, <1>4, <2>1, <2>3, <2>4, <2>5, MasterTransmit DEF MasterStepOK
<1>8. CASE NotifyTailCrash(b, s)
  <2> DEFINE t == PreOf(S, s)
             out == NewTailSends(b, t)
  <2>1. /\ s # head[b] /\ s = tail[b]
        /\ tail' = [tail EXCEPT ![b] = t]
        /\ head' = head
        /\ Transmit(Master, tcp, out)
    BY <1>8 DEF NotifyTailCrash, NotifyCrash, S
  <2>2. t \in Servers /\ IsFirst(S \ {s}, head[b]) /\ IsLast(S \ {s}, t)
    BY <1>5, <1>6, <2>1
  <2> HIDE DEF t
  <2>3. out \in Seq(Outgoing)
    BY <2>2, CrashSends
  <2>4. /\ head' \in [Banks -> Servers] /\ tail' \in [Banks -> Servers]
        /\ tail'[b] = t /\ \A c \in Banks \ {b} : tail'[c] = tail[c]
    BY <1>1, <2>1, <2>2
  <2>5. MasterKnowsEnds'
    BY <1>2, <1>4, <2>1, <2>2, <2>4 DEF MasterKnowsEnds
  <2> HIDE DEF out
  <2> QED
    BY <1>1, <1>3, <1>4, <2>1, <2>3, <2>4, <2>5, MasterTransmit DEF MasterStepOK
<1>9. CASE NotifyInternalCrash(b, s)
  <2> DEFINE out == NewPreSends(b, s)
  <2>1. /\ s # head[b] /\ s # tail[b]
        /\ head' = head /\ tail' = tail
        /\ Transmit(Master, tcp, out)
    BY <1>9 DEF NotifyInternalCrash, NotifyCrash
  <2>2. /\ SuccOf(S, s) \in Servers /\ PreOf(S, s) \in Servers
        /\ IsFirst(S \ {s}, head[b]) /\ IsLast(S \ {s}, tail[b])
    BY <1>5, <1>6, <2>1
  <2>3. out \in Seq(Outgoing)
    BY <2>2, PreSendType DEF S
  <2>4. MasterKnowsEnds'
    BY <1>2, <1>4, <2>1, <2>2 DEF MasterKnowsEnds
  <2> HIDE DEF out
  <2> QED
    BY <1>1, <1>3, <1>4, <2>1, <2>3, <2>4, MasterTransmit DEF MasterStepOK
<1> QED
  BY <1>7, <1>8, <1>9

\* What the master makes of a REQ_SEQ is a NEW_SUCC_SERVER with the same content.
LEMMA ForwardedReqSeq ==
    ASSUME NEW m \in Message, m.type = "REQ_SEQ"
    PROVE  /\ Send(m.pre, [m EXCEPT !.type = "NEW_SUCC_SERVER"]) \in Outgoing
           /\ Send(m.pre, [m EXCEPT !.type = "NEW_SUCC_SERVER"]).msg.type =
                    "NEW_SUCC_SERVER"
PROOF
<1> DEFINE n == [m EXCEPT !.type = "NEW_SUCC_SERVER"]
<1>1. /\ m.seq \in Nat /\ m.pre \in Servers /\ m.succ \in Servers
      /\ m = [type |-> m.type, seq |-> m.seq, pre |-> m.pre, succ |-> m.succ]
  BY MessageFields
<1>2. n = [type |-> "NEW_SUCC_SERVER", seq |-> m.seq,
           pre |-> m.pre, succ |-> m.succ]
  BY <1>1
<1>3. [type |-> "NEW_SUCC_SERVER", seq |-> m.seq,
       pre |-> m.pre, succ |-> m.succ] \in Message
  BY <1>1, MessageTypes, Zenon
<1>4. n \in Message /\ n.type = "NEW_SUCC_SERVER"
  BY <1>2, <1>3
<1> HIDE DEF n
<1>5. m.pre \in Addresses
  BY <1>1 DEF Addresses
<1>6. Send(m.pre, n) \in Outgoing /\ Send(m.pre, n).msg = n
  BY <1>4, <1>5, SendType
<1>7. Send(m.pre, n).msg.type = "NEW_SUCC_SERVER"
  BY <1>4, <1>6
<1> QED
  BY <1>6, <1>7 DEF n

\* The other steps of the master.
LEMMA OtherMasterActions ==
    ASSUME TypeOK, ServersObey, MasterKnowsEnds, MasterContinue \/ ForwardReqSeq
    PROVE  MasterStepOK
PROOF
<1>1. /\ Master \in Processes /\ tcp \in Inboxes
      /\ sending[Master] \in Seq(Outgoing)
  BY DEF TypeOK, Processes, Inboxes
<1>2. ASSUME UNCHANGED master
      PROVE  /\ chain' \in [Banks -> SUBSET Servers]
             /\ head' \in [Banks -> Servers]
             /\ tail' \in [Banks -> Servers]
             /\ MasterKnowsEnds'
  BY <1>2 DEF master, TypeOK, MasterKnowsEnds
<1>3. CASE MasterContinue
  <2>1. /\ Transmit(Master, tcp, sending[Master])
        /\ UNCHANGED <<servers, master, arrivals>>
    BY <1>3 DEF MasterContinue
  <2>2. /\ ServerVarsOK' /\ ServersObey' /\ (NoOverdraft => NoOverdraft')
        /\ arrivals' \in Nat
    BY <1>1, <2>1, MasterTransmit
  <2> QED
    BY <1>2, <2>1, <2>2 DEF MasterStepOK
<1>4. CASE ForwardReqSeq
  <2> DEFINE m == Head(tcp[Master])
             n == [m EXCEPT !.type = "NEW_SUCC_SERVER"]
             inbox == [tcp EXCEPT ![Master] = Tail(tcp[Master])]
  <2>1. /\ tcp[Master] # <<>> /\ m.type = "REQ_SEQ"
        /\ tcp' = send_msg_tcp(inbox, Send(m.pre, n))
        /\ UNCHANGED <<servers, master, clients, sending>>
    BY <1>4 DEF ForwardReqSeq
  <2>2. m \in Message /\ Tail(tcp[Master]) \in Seq(Message)
    BY <1>1, <2>1 DEF Inboxes
  <2>3. inbox \in Inboxes
    BY <1>1, <2>2 DEF Inboxes
  <2> HIDE DEF m, inbox
  <2>4. Send(m.pre, n) \in Outgoing
    BY <2>1, <2>2, ForwardedReqSeq
  <2> HIDE DEF n
  <2>5. tcp' \in Inboxes
    BY <2>1, <2>3, <2>4, Delivery
  <2>6. ServerVarsOK' /\ ServersObey' /\ arrivals' \in Nat
    BY <2>1, <2>5 DEF servers, clients, ServerVarsOK, ServersObey, TypeOK
  <2>7. NoOverdraft => NoOverdraft'
    BY <2>1 DEF servers, NoOverdraft
  <2> QED
    BY <1>2, <2>1, <2>6, <2>7 DEF MasterStepOK
<1> QED
  BY <1>3, <1>4

-----------------------------------------------------------------------------
(* The theorems.  TypeOK is not inductive: the master looks up neighbours, *)
(* which exist only as long as its head and tail are the ends of its       *)
(* chain; and that no server hands out roles is needed for the roles.      *)

IInv == TypeOK /\ ServersObey /\ MasterKnowsEnds /\ NoOverdraft

\* The configuration file sets up a state that satisfies the invariant.
LEMMA InitOK == Init => IInv
PROOF
<1> SUFFICES ASSUME Init PROVE IInv
  OBVIOUS
<1>1. PICK flag \in [Servers -> UninitializedFlag] :
        srv = [s \in Servers |-> InitialServer(s, flag[s])]
  BY DEF Init
<1>2. \A s \in Servers : flag[s] \in BOOLEAN
  BY ChainAssumption
<1>3. \A s \in Servers : srv[s] \in ServerState /\ Solvent(srv[s].ledger)
  BY <1>1, <1>2, InitialServerType
<1>4. srv \in [Servers -> ServerState]
  BY <1>1, <1>3
<1>5. NoOverdraft
  BY <1>3 DEF NoOverdraft, Solvent
<1>6. \A b \in Banks :
        /\ ServersOf(b) \in SUBSET Servers
        /\ InitialHead(b) \in Servers /\ IsFirst(ServersOf(b), InitialHead(b))
        /\ InitialTail(b) \in Servers /\ IsLast(ServersOf(b), InitialTail(b))
  BY ServersOfBank, InitialEnds
<1>7. /\ chain \in [Banks -> SUBSET Servers]
      /\ head \in [Banks -> Servers]
      /\ tail \in [Banks -> Servers]
      /\ known_heads \in [Banks -> SUBSET Servers]
      /\ known_tails \in [Banks -> SUBSET Servers]
  BY <1>6 DEF Init
<1>8. MasterKnowsEnds
  BY <1>6 DEF Init, MasterKnowsEnds
<1>9. /\ tcp = [p \in Processes |-> <<>>]
      /\ sending = [p \in Processes |-> <<>>]
      /\ <<>> \in Seq(Message) /\ <<>> \in Seq(Outgoing)
      /\ <<>> \in Seq(ServerSend)
  BY DEF Init
<1>10. /\ tcp \in [Processes -> Seq(Message)]
       /\ sending \in [Processes -> Seq(Outgoing)]
       /\ ServersObey
  BY <1>9 DEF ServersObey, Processes
<1>11. TypeOK
  BY <1>4, <1>7, <1>10 DEF Init, TypeOK
<1> QED
  BY <1>5, <1>8, <1>10, <1>11 DEF IInv

\* Every step keeps it.
LEMMA NextOK == IInv /\ [Next]_vars => IInv'
PROOF
<1> SUFFICES ASSUME IInv, [Next]_vars PROVE IInv'
  OBVIOUS
<1>1. TypeOK /\ ServersObey /\ MasterKnowsEnds /\ NoOverdraft
  BY DEF IInv
<1>2. ASSUME NEW s \in Servers,
             ServerStep(s) \/ ClientUpdate(s) \/ ClientQuery(s) \/ Crash(s)
      PROVE  IInv'
  <2>1. ServerStepOK
    BY <1>1, <1>2, ServerActions
  <2>2. chain' = chain /\ head' = head /\ tail' = tail
    BY <2>1 DEF ServerStepOK, master
  <2>3. TypeOK'
    BY <1>1, <2>1, <2>2 DEF ServerStepOK, ServerVarsOK, TypeOK, Inboxes
  <2>4. MasterKnowsEnds'
    BY <1>1, <2>2 DEF MasterKnowsEnds
  <2> QED
    BY <1>1, <2>1, <2>3, <2>4 DEF ServerStepOK, IInv
<1>3. CASE MasterStep
  <2>1. MasterStepOK
    BY <1>1, <1>3, NotifyActions, OtherMasterActions DEF MasterStep
  <2>2. TypeOK'
    BY <2>1 DEF MasterStepOK, ServerVarsOK, TypeOK, Inboxes
  <2> QED
    BY <1>1, <2>1, <2>2 DEF MasterStepOK, IInv
<1>4. CASE UNCHANGED vars
  BY <1>1, <1>4
  DEF vars, IInv, TypeOK, ServersObey, MasterKnowsEnds, NoOverdraft
<1> QED
  BY <1>2, <1>3, <1>4 DEF Next

\* The invariant holds in every reachable state.
LEMMA Invariant == Spec => []IInv
PROOF
  BY InitOK, NextOK, PTL DEF Spec

\* Every handler of server.cc and master.cc leaves well-formed servers, messages
\* and chains, in every order of arrivals and crashes: addresses that a repair
\* uses are servers, and a forwarded transfer always has a destination.
THEOREM TypeCorrect == Spec => []TypeOK
PROOF
<1>1. IInv => TypeOK
  BY DEF IInv
<1> QED
  BY <1>1, Invariant, PTL

\* No account is overdrawn at any server, however updates are retried, repeated
\* by a repair, or forwarded between banks.
THEOREM NeverOverdrawn == Spec => []NoOverdraft
PROOF
<1>1. IInv => NoOverdraft
  BY DEF IInv
<1> QED
  BY <1>1, Invariant, PTL

\* The master's head and tail are the ends of its chain after any sequence of
\* crashes.
THEOREM EndsKnown == Spec => []MasterKnowsEnds
PROOF
<1>1. IInv => MasterKnowsEnds
  BY DEF IInv
<1> QED
  BY <1>1, Invariant, PTL

-----------------------------------------------------------------------------
(***************************************************************************)
(* No bank ever has two heads or two tails: a living server that acts as   *)
(* head is the first living server of its bank, one that acts as tail the  *)
(* last, whichever servers crash and however long the orders of the master *)
(* are under way.                                                          *)
(*                                                                         *)
(* The invariant follows an order from the moment notify_crash decides on  *)
(* it: the server it is for is already the end of the living chain, and    *)
(* stays so, because servers only ever crash.                              *)
(***************************************************************************)

\* Is an order of this type for server x among the sends q?
Pending(q, x, type) == \E i \in DOMAIN q : q[i].to = x /\ q[i].msg.type = type

\* Server s has the role of this order, or is going to be given it.
Appointed(s, role, type) ==
    \/ role
    \/ Ordered(tcp, s, type)
    \/ Pending(sending[Master], s, type)

NoneBefore(s) == \A t \in alive : BankOf[t] = BankOf[s] => ~(t < s)
NoneAfter(s)  == \A t \in alive : BankOf[t] = BankOf[s] => ~(t > s)

\* The master has not removed a living server, nor mixed up the banks.
ChainsHoldTheLiving ==
    /\ \A b \in Banks : chain[b] \in SUBSET ServersOf(b)
    /\ \A s \in alive : s \in chain[BankOf[s]]

\* Whoever is appointed is the end of the living chain.
HeadsAreFirst ==
    \A s \in alive : Appointed(s, srv[s].ishead, "TO_BE_HEAD") => NoneBefore(s)

TailsAreLast ==
    \A s \in alive : Appointed(s, srv[s].istail, "TO_BE_TAIL") => NoneAfter(s)

RolesInv == ChainsHoldTheLiving /\ HeadsAreFirst /\ TailsAreLast

RoleOrders == {"TO_BE_HEAD", "TO_BE_TAIL"}

-----------------------------------------------------------------------------
(* Where an order can come from.                                           *)

\* An order in an inbox was there before a send, or is what was sent.
LEMMA DeliveredOrder ==
    ASSUME TypeOK, NEW inbox \in Inboxes, NEW o \in Outgoing, NEW x \in Servers,
           NEW type, Ordered(send_msg_tcp(inbox, o), x, type)
    PROVE  Ordered(inbox, x, type) \/ (o.to = x /\ o.msg.type = type)
PROOF
<1>1. x \in Processes /\ inbox[x] \in Seq(Message) /\ o.msg \in Message
  BY DEF Processes, Inboxes, Outgoing
<1>2. CASE o.to \in alive \cup {Master}
  <2>1. /\ send_msg_tcp(inbox, o) =
                [inbox EXCEPT ![o.to] = Append(inbox[o.to], o.msg)]
        /\ o.to \in Processes
    BY <1>2 DEF send_msg_tcp, TypeOK, Processes
  <2>2. CASE o.to # x
    BY <1>1, <2>1, <2>2 DEF Ordered, Inboxes
  <2>3. CASE o.to = x
    <3> DEFINE q == Append(inbox[x], o.msg)
    <3>1. send_msg_tcp(inbox, o)[x] = q
      BY <1>1, <2>1, <2>3 DEF Inboxes
    <3>2. PICK i \in DOMAIN q : q[i].type = type
      BY <3>1 DEF Ordered
    <3>3. (i \in DOMAIN inbox[x] /\ q[i] = inbox[x][i]) \/ q[i] = o.msg
      BY <1>1
    <3> HIDE DEF q
    <3> QED
      BY <2>3, <3>2, <3>3 DEF Ordered
  <2> QED
    BY <2>2, <2>3
<1>3. CASE o.to \notin alive \cup {Master}
  BY <1>3 DEF send_msg_tcp
<1> QED
  BY <1>2, <1>3

\* After a send, an order in an inbox or still to be sent was there before, or
\* among the sends.
LEMMA TransmitOrder ==
    ASSUME TypeOK, NEW p \in Processes, NEW inbox \in Inboxes,
           NEW out \in Seq(Outgoing), Transmit(p, inbox, out),
           NEW x \in Servers, NEW type,
           Ordered(tcp', x, type) \/ Pending(sending'[p], x, type)
    PROVE  Ordered(inbox, x, type) \/ Pending(out, x, type)
PROOF
<1>1. sending \in [Processes -> Seq(Outgoing)]
  BY DEF TypeOK
<1>2. CASE out = <<>>
  <2>1. tcp' = inbox /\ sending'[p] = <<>>
    BY <1>1, <1>2 DEF Transmit
  <2>2. ~Pending(sending'[p], x, type)
    BY <2>1 DEF Pending
  <2> QED
    BY <2>1, <2>2
<1>3. CASE out # <<>>
  <2>1. /\ tcp' = send_msg_tcp(inbox, Head(out))
        /\ sending'[p] = Tail(out)
    BY <1>1, <1>3 DEF Transmit
  <2>2. Head(out) \in Outgoing /\ Head(out) = out[1] /\ 1 \in DOMAIN out
    BY <1>3
  <2>3. CASE Ordered(tcp', x, type)
    <3>1. \/ Ordered(inbox, x, type)
          \/ Head(out).to = x /\ Head(out).msg.type = type
      BY <2>1, <2>2, <2>3, DeliveredOrder
    <3> QED
      BY <2>2, <3>1 DEF Pending
  <2>4. CASE Pending(sending'[p], x, type)
    <3>1. PICK i \in DOMAIN Tail(out) : /\ Tail(out)[i].to = x
                                        /\ Tail(out)[i].msg.type = type
      BY <2>1, <2>4 DEF Pending
    <3>2. i + 1 \in DOMAIN out /\ out[i + 1] = Tail(out)[i]
      BY <1>3
    <3> QED
      BY <3>1, <3>2 DEF Pending
  <2> QED
    BY <2>3, <2>4
<1> QED
  BY <1>2, <1>3

\* Servers send no orders.
LEMMA ServersGiveNoOrders ==
    ASSUME NEW out \in Seq(ServerSend), NEW x, NEW type \in RoleOrders
    PROVE  ~Pending(out, x, type)
PROOF
<1>1. \A i \in DOMAIN out : out[i] \in ServerSend
  OBVIOUS
<1> QED
  BY <1>1 DEF Pending, ServerSend, RoleOrders

\* Taking a message off an inbox adds no order.
LEMMA TakenOrder ==
    ASSUME TypeOK, NEW s \in Servers, NEW inbox,
           \/ inbox = tcp
           \/ tcp[s] # <<>> /\ inbox = [tcp EXCEPT ![s] = Tail(tcp[s])],
           NEW x \in Servers, NEW type, Ordered(inbox, x, type)
    PROVE  Ordered(tcp, x, type)
PROOF
<1>1. tcp \in [Processes -> Seq(Message)] /\ x \in Processes /\ s \in Processes
  BY DEF TypeOK, Processes
<1>2. CASE inbox = tcp \/ x # s
  BY <1>1, <1>2 DEF Ordered
<1>3. CASE x = s /\ tcp[s] # <<>> /\ inbox = [tcp EXCEPT ![s] = Tail(tcp[s])]
  <2>1. inbox[x] = Tail(tcp[s])
    BY <1>1, <1>3
  <2>2. PICK i \in DOMAIN Tail(tcp[s]) : Tail(tcp[s])[i].type = type
    BY <2>1 DEF Ordered
  <2>3. tcp[s] \in Seq(Message) /\ tcp[s] # <<>>
    BY <1>1, <1>3
  <2>4. i + 1 \in DOMAIN tcp[s] /\ tcp[s][i + 1] = Tail(tcp[s])[i]
    BY <2>3
  <2> QED
    BY <1>3, <2>2, <2>4 DEF Ordered
<1> QED
  BY <1>2, <1>3

\* What every step of a server does to roles and orders: no server comes back to
\* life, no order appears, and a role is taken only on an order.
NoNewRoles ==
    /\ alive' \in SUBSET alive
    /\ UNCHANGED master
    /\ sending'[Master] = sending[Master]
    /\ \A x \in Servers, type \in RoleOrders :
            Ordered(tcp', x, type) => Ordered(tcp, x, type)
    /\ \A x \in alive' :
            /\ srv'[x].ishead => srv[x].ishead \/ Ordered(tcp, x, "TO_BE_HEAD")
            /\ srv'[x].istail => srv[x].istail \/ Ordered(tcp, x, "TO_BE_TAIL")

\* A server that ends takes its inbox with it.
LEMMA DieRoles ==
    ASSUME TypeOK, NEW s \in Servers, NEW inbox \in Inboxes, Die(s, inbox),
           \/ inbox = tcp
           \/ tcp[s] # <<>> /\ inbox = [tcp EXCEPT ![s] = Tail(tcp[s])],
           UNCHANGED master
    PROVE  NoNewRoles
PROOF
<1>1. /\ alive' = alive \ {s}
      /\ srv' = [srv EXCEPT ![s] = InitialServer(s, FALSE)]
      /\ tcp' = [inbox EXCEPT ![s] = <<>>]
      /\ sending' = [sending EXCEPT ![s] = <<>>]
  BY DEF Die
<1>2. /\ s \in Processes /\ s # Master
      /\ alive \in SUBSET Servers
      /\ srv \in [Servers -> ServerState]
      /\ sending \in [Processes -> Seq(Outgoing)]
  BY MasterAssumption DEF TypeOK, Processes
<1>3. sending'[Master] = sending[Master]
  BY <1>1, <1>2 DEF Processes
<1>4. ASSUME NEW x \in Servers, NEW type \in RoleOrders, Ordered(tcp', x, type)
      PROVE  Ordered(tcp, x, type)
  <2>1. x \in Processes
    BY DEF Processes
  <2>2. Ordered(inbox, x, type)
    BY <1>1, <1>2, <1>4, <2>1 DEF Ordered, Inboxes
  <2> QED
    BY <2>2, TakenOrder
<1>5. \A x \in alive' : srv'[x] = srv[x]
  BY <1>1, <1>2
<1> QED
  BY <1>1, <1>3, <1>4, <1>5 DEF NoNewRoles

\* A server that performs the outcome of a handler.
LEMMA PerformRoles ==
    ASSUME TypeOK, NEW s \in Servers, NEW inbox, NEW res, Performs(s, inbox, res)
    PROVE  NoNewRoles
PROOF
<1>1. /\ inbox \in Inboxes
      /\ \/ inbox = tcp
         \/ tcp[s] # <<>> /\ inbox = [tcp EXCEPT ![s] = Tail(tcp[s])]
      /\ Outcome(srv[s], res) /\ RoleChange(s, res)
      /\ Perform(s, inbox, res)
      /\ UNCHANGED master
  BY DEF Performs
<1>2. CASE /\ srv' = [srv EXCEPT ![s] = res.st]
           /\ Transmit(s, inbox, res.out)
           /\ UNCHANGED alive
  <2>1. /\ s \in Processes /\ Master \in Processes /\ s # Master
        /\ alive \in SUBSET Servers
        /\ srv \in [Servers -> ServerState]
        /\ ServerSend \in SUBSET Outgoing
    BY MasterAssumption DEF TypeOK, Processes, ServerSend
  <2>2. res.out \in Seq(ServerSend)
    BY <1>1 DEF Outcome
  <2>3. sending'[Master] = sending[Master]
    BY <1>1, <1>2, <2>1, <2>2, TransmitType
  <2>4. res.out \in Seq(Outgoing)
    BY <2>1, <2>2
  <2>5. ASSUME NEW x \in Servers, NEW type \in RoleOrders,
               Ordered(tcp', x, type)
        PROVE  Ordered(tcp, x, type)
    <3>1. Ordered(inbox, x, type) \/ Pending(res.out, x, type)
      BY <1>1, <1>2, <2>1, <2>4, <2>5, TransmitOrder
    <3>2. ~Pending(res.out, x, type)
      BY <2>2, ServersGiveNoOrders
    <3> QED
      BY <1>1, <3>1, <3>2, TakenOrder
  <2>6. ASSUME NEW x \in alive'
        PROVE  /\ srv'[x].ishead =>
                    srv[x].ishead \/ Ordered(tcp, x, "TO_BE_HEAD")
               /\ srv'[x].istail =>
                    srv[x].istail \/ Ordered(tcp, x, "TO_BE_TAIL")
    <3>1. x \in Servers /\ srv'[x] = IF x = s THEN res.st ELSE srv[x]
      BY <1>2, <2>1
    <3> QED
      BY <1>1, <3>1 DEF RoleChange
  <2> QED
    BY <1>1, <1>2, <2>3, <2>5, <2>6 DEF NoNewRoles
<1>3. CASE Die(s, inbox)
  BY <1>1, <1>3, DieRoles
<1> QED
  BY <1>1, <1>2, <1>3 DEF Perform

\* Every step of a server or of its clients.
LEMMA ServerRoles ==
    ASSUME TypeOK, ServersObey, NEW s \in Servers,
           ServerStep(s) \/ ClientUpdate(s) \/ ClientQuery(s) \/ Crash(s)
    PROVE  NoNewRoles
PROOF
<1>1. CASE ServerStep(s) \/ ClientUpdate(s) \/ ClientQuery(s)
  <2>1. PICK inbox, res : Performs(s, inbox, res)
    BY <1>1, ServerPerforms
  <2> QED
    BY <2>1, PerformRoles
<1>2. CASE Crash(s)
  <2>1. Die(s, tcp) /\ UNCHANGED master /\ tcp \in Inboxes
    BY <1>2 DEF Crash, TypeOK, Inboxes
  <2> QED
    BY <2>1, DieRoles
<1> QED
  BY <1>1, <1>2

\* Without new roles the invariant stays.
LEMMA NoNewRolesOK ==
    ASSUME TypeOK, RolesInv, NoNewRoles
    PROVE  RolesInv'
PROOF
<1>1. /\ alive' \in SUBSET alive /\ alive \in SUBSET Servers
      /\ chain' = chain
      /\ sending'[Master] = sending[Master]
  BY DEF NoNewRoles, TypeOK, master
<1>2. ChainsHoldTheLiving'
  BY <1>1 DEF RolesInv, ChainsHoldTheLiving
<1>3. HeadsAreFirst'
  <2>1. ASSUME NEW x \in alive', Appointed(x, srv[x].ishead, "TO_BE_HEAD")'
        PROVE  NoneBefore(x)'
    <3>1. Appointed(x, srv[x].ishead, "TO_BE_HEAD")
      BY <1>1, <2>1 DEF Appointed, NoNewRoles, RoleOrders
    <3>2. NoneBefore(x)
      BY <1>1, <3>1 DEF RolesInv, HeadsAreFirst
    <3> QED
      BY <1>1, <3>2 DEF NoneBefore
  <2> QED
    BY <2>1 DEF HeadsAreFirst
<1>4. TailsAreLast'
  <2>1. ASSUME NEW x \in alive', Appointed(x, srv[x].istail, "TO_BE_TAIL")'
        PROVE  NoneAfter(x)'
    <3>1. Appointed(x, srv[x].istail, "TO_BE_TAIL")
      BY <1>1, <2>1 DEF Appointed, NoNewRoles, RoleOrders
    <3>2. NoneAfter(x)
      BY <1>1, <3>1 DEF RolesInv, TailsAreLast
    <3> QED
      BY <1>1, <3>2 DEF NoneAfter
  <2> QED
    BY <2>1 DEF TailsAreLast
<1> QED
  BY <1>2, <1>3, <1>4 DEF RolesInv

-----------------------------------------------------------------------------
(* The orders of the master.                                               *)

\* notify_crash tells the new head to be head, and everybody who it is.
LEMMA HeadSendTypes ==
    ASSUME TypeOK, NEW b \in Banks, NEW s \in Servers, NEW h \in Servers
    PROVE  LET out == NewHeadSends(b, s, h)
           IN  \A i \in DOMAIN out :
                    \/ out[i].msg.type = "TO_BE_HEAD" /\ out[i].to = h
                    \/ /\ out[i].msg.type = "NEW_HEAD"
                       /\ out[i].msg.bank = b /\ out[i].msg.server = h
PROOF
<1> DEFINE notify == [type |-> "NEW_HEAD", bank |-> b, server |-> h]
           all    == UNION {chain[c] : c \in Banks} \ {s}
           line   == [i \in Servers |-> i]
           everyone == Pick(line, all)
           order  == Send(h, [type |-> "TO_BE_HEAD"])
           tell   == Send(Client, notify)
           rest   == [i \in DOMAIN everyone |-> Send(everyone[i], notify)]
           out    == NewHeadSends(b, s, h)
<1>1. out = <<order, tell>> \o rest
  BY DEF NewHeadSends
<1>2. /\ order.to = h /\ order.msg.type = "TO_BE_HEAD"
      /\ tell.msg = notify
      /\ \A i \in DOMAIN rest : rest[i].msg = notify
  BY DEF Send
<1>3. line \in Seq(Servers) /\ DOMAIN line = Servers /\ all \in SUBSET Servers
  <2>1. NumServers \in Nat
    BY BankAssumption
  <2>2. line \in Seq(Servers) /\ DOMAIN line = Servers
    BY <2>1 DEF Servers
  <2> QED
    BY <2>2 DEF TypeOK
<1> HIDE DEF line, all
<1>4. everyone \in Seq(Servers)
  BY <1>3, PickType
<1>5. DOMAIN rest = 1 .. Len(everyone) /\ Len(everyone) \in Nat
  <2> HIDE DEF everyone
  <2> QED
    BY <1>4
<1> HIDE DEF order, tell, rest, out
<1>6. \A i \in DOMAIN out :
        \/ out[i] = order
        \/ out[i] = tell
        \/ \E j \in DOMAIN rest : out[i] = rest[j]
  <2> DEFINE n == Len(everyone)
  <2>1. rest \in Seq({rest[j] : j \in DOMAIN rest}) /\ Len(rest) = n
    <3> HIDE DEF n
    <3>1. rest = [j \in 1 .. n |-> rest[j]]
      BY <1>5 DEF n, rest
    <3> QED
      BY <1>5, <3>1 DEF n
  <2>2. /\ DOMAIN out = 1 .. (2 + n)
        /\ out[1] = order /\ out[2] = tell
        /\ \A i \in 3 .. (2 + n) : out[i] = rest[i - 2]
    <3> HIDE DEF n
    <3> QED
      BY <1>1, <1>5, <2>1 DEF n
  <2>3. ASSUME NEW i \in DOMAIN out
        PROVE  \/ out[i] = order
               \/ out[i] = tell
               \/ \E j \in DOMAIN rest : out[i] = rest[j]
    <3>1. i = 1 \/ i = 2 \/ (i \in 3 .. (2 + n) /\ i - 2 \in 1 .. n)
      BY <1>5, <2>2
    <3> QED
      BY <1>5, <2>2, <3>1
  <2> QED
    BY <2>3
<1>7. \A i \in DOMAIN out :
        \/ out[i].msg.type = "TO_BE_HEAD" /\ out[i].to = h
        \/ /\ out[i].msg.type = "NEW_HEAD"
           /\ out[i].msg.bank = b /\ out[i].msg.server = h
  BY <1>2, <1>6
<1> QED
  BY <1>7 DEF out

\* notify_crash orders the new head to be head, the new tail to be tail, and
\* nobody else to be anything.
LEMMA CrashOrders ==
    ASSUME TypeOK, NEW b \in Banks, NEW s \in Servers, NEW h \in Servers,
           NEW x \in Servers
    PROVE  /\ Pending(NewHeadSends(b, s, h), x, "TO_BE_HEAD") => x = h
           /\ ~Pending(NewHeadSends(b, s, h), x, "TO_BE_TAIL")
           /\ Pending(NewTailSends(b, h), x, "TO_BE_TAIL") => x = h
           /\ ~Pending(NewTailSends(b, h), x, "TO_BE_HEAD")
           /\ \A type \in RoleOrders : ~Pending(NewPreSends(b, s), x, type)
PROOF
<1> DEFINE out == NewHeadSends(b, s, h)
<1>1. \A i \in DOMAIN out :
        \/ out[i].msg.type = "TO_BE_HEAD" /\ out[i].to = h
        \/ out[i].msg.type = "NEW_HEAD"
  BY HeadSendTypes
<1> HIDE DEF out
<1>2. /\ Pending(out, x, "TO_BE_HEAD") => x = h
      /\ ~Pending(out, x, "TO_BE_TAIL")
  <2>1. ASSUME Pending(out, x, "TO_BE_HEAD") PROVE x = h
    <3>1. PICK i \in DOMAIN out :
                out[i].to = x /\ out[i].msg.type = "TO_BE_HEAD"
      BY <2>1 DEF Pending
    <3> QED
      BY <1>1, <3>1
  <2>2. ASSUME Pending(out, x, "TO_BE_TAIL") PROVE FALSE
    <3>1. PICK i \in DOMAIN out :
                out[i].to = x /\ out[i].msg.type = "TO_BE_TAIL"
      BY <2>2 DEF Pending
    <3> QED
      BY <1>1, <3>1
  <2> QED
    BY <2>1, <2>2
<1>3. /\ Pending(NewTailSends(b, h), x, "TO_BE_TAIL") => x = h
      /\ ~Pending(NewTailSends(b, h), x, "TO_BE_HEAD")
  BY DEF NewTailSends, Pending, Send
<1>4. \A type \in RoleOrders : ~Pending(NewPreSends(b, s), x, type)
  BY DEF NewPreSends, Pending, Send, RoleOrders
<1> QED
  BY <1>2, <1>3, <1>4 DEF out

\* A step of the master leaves the invariant intact if it takes no living server
\* out of a chain and orders nobody but the ends of the living chains.
LEMMA MasterOrders ==
    ASSUME TypeOK, RolesInv, UNCHANGED servers, ChainsHoldTheLiving',
           \A x \in alive :
             /\ (\/ Ordered(tcp', x, "TO_BE_HEAD")
                 \/ Pending(sending'[Master], x, "TO_BE_HEAD")) =>
                    Appointed(x, srv[x].ishead, "TO_BE_HEAD") \/ NoneBefore(x)
             /\ (\/ Ordered(tcp', x, "TO_BE_TAIL")
                 \/ Pending(sending'[Master], x, "TO_BE_TAIL")) =>
                    Appointed(x, srv[x].istail, "TO_BE_TAIL") \/ NoneAfter(x)
    PROVE  RolesInv'
PROOF
<1>1. srv' = srv /\ alive' = alive
  BY DEF servers
<1>2. HeadsAreFirst'
  <2>1. ASSUME NEW x \in alive', Appointed(x, srv[x].ishead, "TO_BE_HEAD")'
        PROVE  NoneBefore(x)'
    <3>1. Appointed(x, srv[x].ishead, "TO_BE_HEAD") \/ NoneBefore(x)
      BY <1>1, <2>1 DEF Appointed
    <3>2. NoneBefore(x)
      BY <1>1, <3>1 DEF RolesInv, HeadsAreFirst
    <3> QED
      BY <1>1, <3>2 DEF NoneBefore
  <2> QED
    BY <2>1 DEF HeadsAreFirst
<1>3. TailsAreLast'
  <2>1. ASSUME NEW x \in alive', Appointed(x, srv[x].istail, "TO_BE_TAIL")'
        PROVE  NoneAfter(x)'
    <3>1. Appointed(x, srv[x].istail, "TO_BE_TAIL") \/ NoneAfter(x)
      BY <1>1, <2>1 DEF Appointed
    <3>2. NoneAfter(x)
      BY <1>1, <3>1 DEF RolesInv, TailsAreLast
    <3> QED
      BY <1>1, <3>2 DEF NoneAfter
  <2> QED
    BY <2>1 DEF TailsAreLast
<1> QED
  BY <1>2, <1>3 DEF RolesInv

\* notify_crash: the server after a crashed head is the first living one, the
\* server before a crashed tail the last.
LEMMA NotifyRoles ==
    ASSUME TypeOK, MasterKnowsEnds, RolesInv,
           NEW b \in Banks, NEW s \in Servers,
           \/ NotifyHeadCrash(b, s)
           \/ NotifyTailCrash(b, s)
           \/ NotifyInternalCrash(b, s)
    PROVE  RolesInv'
PROOF
<1> DEFINE S == chain[b]
<1>1. /\ chain \in [Banks -> SUBSET Servers] /\ tcp \in Inboxes
      /\ head \in [Banks -> Servers] /\ tail \in [Banks -> Servers]
      /\ alive \in SUBSET Servers /\ Master \in Processes
  BY DEF TypeOK, Inboxes, Processes
<1>2. /\ S \in SUBSET Servers /\ head[b] \in Servers /\ tail[b] \in Servers
      /\ IsFirst(S, head[b]) /\ IsLast(S, tail[b])
  BY <1>1 DEF MasterKnowsEnds
<1>3. /\ s \in S /\ s \notin alive
      /\ chain' = [chain EXCEPT ![b] = S \ {s}]
      /\ UNCHANGED servers
  BY DEF NotifyHeadCrash, NotifyTailCrash, NotifyInternalCrash, NotifyCrash
<1>4. /\ S \in SUBSET ServersOf(b)
      /\ \A x \in alive : x \in chain[BankOf[x]]
  BY DEF RolesInv, ChainsHoldTheLiving
<1>5. ChainsHoldTheLiving'
  <2>1. \A c \in Banks : chain'[c] = IF c = b THEN S \ {s} ELSE chain[c]
    BY <1>1, <1>3
  <2>2. alive' = alive /\ \A x \in alive : BankOf[x] \in Banks
    BY <1>1, <1>3, ChainAssumption DEF servers
  <2>3. ASSUME NEW x \in alive PROVE x \in chain'[BankOf[x]]
    BY <1>3, <1>4, <2>1, <2>2
  <2>4. ASSUME NEW c \in Banks PROVE chain'[c] \in SUBSET ServersOf(c)
    BY <1>4, <2>1 DEF RolesInv, ChainsHoldTheLiving
  <2> QED
    BY <2>2, <2>3, <2>4 DEF ChainsHoldTheLiving, ServersOf
<1>6. \A x \in alive : BankOf[x] = b => x \in S \ {s}
  BY <1>3, <1>4
<1>7. /\ s # tail[b] => SuccOf(S, s) \in S \ {s}
      /\ s # head[b] => PreOf(S, s) \in S \ {s}
      /\ s = head[b] /\ s # tail[b] => IsFirst(S \ {s}, SuccOf(S, s))
      /\ s # head[b] /\ s = tail[b] => IsLast(S \ {s}, PreOf(S, s))
  BY <1>3, CrashedNeighbours
<1> HIDE DEF S
<1>8. ASSUME NEW out \in Seq(Outgoing), Transmit(Master, tcp, out),
             NEW x \in alive, NEW type,
             Ordered(tcp', x, type) \/ Pending(sending'[Master], x, type)
      PROVE  Ordered(tcp, x, type) \/ Pending(out, x, type)
  BY <1>1, <1>8, TransmitOrder
<1>9. CASE NotifyHeadCrash(b, s)
  <2> DEFINE h == SuccOf(S, s)
             out == NewHeadSends(b, s, h)
  <2>1. /\ s = head[b] /\ s # tail[b]
        /\ Transmit(Master, tcp, out)
    BY <1>9 DEF NotifyHeadCrash, NotifyCrash, S
  <2>2. h \in Servers /\ BankOf[h] = b /\ IsFirst(S \ {s}, h)
    BY <1>2, <1>4, <1>7, <2>1 DEF S, ServersOf
  <2> HIDE DEF h
  <2>3. out \in Seq(Outgoing)
    BY <2>2, CrashSends
  <2>4. NoneBefore(h)
    BY <1>6, <2>2 DEF NoneBefore, IsFirst, Before
  <2>5. ASSUME NEW x \in alive
        PROVE  /\ Pending(out, x, "TO_BE_HEAD") => x = h
               /\ ~Pending(out, x, "TO_BE_TAIL")
    BY <1>1, <2>2, CrashOrders
  <2> HIDE DEF out
  <2> QED
    BY <1>3, <1>5, <1>8, <2>1, <2>3, <2>4, <2>5, MasterOrders DEF Appointed
<1>10. CASE NotifyTailCrash(b, s)
  <2> DEFINE t == PreOf(S, s)
             out == NewTailSends(b, t)
  <2>1. /\ s # head[b] /\ s = tail[b]
        /\ Transmit(Master, tcp, out)
    BY <1>10 DEF NotifyTailCrash, NotifyCrash, S
  <2>2. t \in Servers /\ BankOf[t] = b /\ IsLast(S \ {s}, t)
    BY <1>2, <1>4, <1>7, <2>1 DEF S, ServersOf
  <2> HIDE DEF t
  <2>3. out \in Seq(Outgoing)
    BY <2>2, CrashSends
  <2>4. NoneAfter(t)
    BY <1>6, <2>2 DEF NoneAfter, IsLast, After
  <2>5. ASSUME NEW x \in alive
        PROVE  /\ Pending(out, x, "TO_BE_TAIL") => x = t
               /\ ~Pending(out, x, "TO_BE_HEAD")
    BY <1>1, <2>2, CrashOrders
  <2> HIDE DEF out
  <2> QED
    BY <1>3, <1>5, <1>8, <2>1, <2>3, <2>4, <2>5, MasterOrders DEF Appointed
<1>11. CASE NotifyInternalCrash(b, s)
  <2> DEFINE out == NewPreSends(b, s)
  <2>1. s # head[b] /\ s # tail[b] /\ Transmit(Master, tcp, out)
    BY <1>11 DEF NotifyInternalCrash, NotifyCrash
  <2>2. SuccOf(S, s) \in Servers /\ PreOf(S, s) \in Servers
    BY <1>2, <1>7, <2>1
  <2>3. out \in Seq(Outgoing)
    BY <2>2, PreSendType DEF S
  <2>4. ASSUME NEW x \in alive
        PROVE  /\ ~Pending(out, x, "TO_BE_HEAD")
               /\ ~Pending(out, x, "TO_BE_TAIL")
    BY <1>1, CrashOrders DEF RoleOrders
  <2> HIDE DEF out
  <2> QED
    BY <1>3, <1>5, <1>8, <2>1, <2>3, <2>4, MasterOrders DEF Appointed
<1> QED
  BY <1>9, <1>10, <1>11

\* The other steps of the master give no new orders.
LEMMA OtherMasterRoles ==
    ASSUME TypeOK, RolesInv, MasterContinue \/ ForwardReqSeq
    PROVE  RolesInv'
PROOF
<1>1. /\ Master \in Processes /\ tcp \in Inboxes
      /\ sending[Master] \in Seq(Outgoing)
      /\ alive \in SUBSET Servers /\ Master \notin Servers
  BY MasterAssumption DEF TypeOK, Processes, Inboxes
<1>2. UNCHANGED servers /\ chain' = chain
  BY DEF MasterContinue, ForwardReqSeq, master
<1>3. ChainsHoldTheLiving'
  BY <1>2 DEF RolesInv, ChainsHoldTheLiving, servers
<1>4. CASE MasterContinue
  <2>1. Transmit(Master, tcp, sending[Master])
    BY <1>4 DEF MasterContinue
  <2>2. ASSUME NEW x \in alive, NEW type,
               Ordered(tcp', x, type) \/ Pending(sending'[Master], x, type)
        PROVE  Ordered(tcp, x, type) \/ Pending(sending[Master], x, type)
    BY <1>1, <2>1, <2>2, TransmitOrder
  <2> QED
    BY <1>2, <1>3, <2>2, MasterOrders DEF Appointed
<1>5. CASE ForwardReqSeq
  <2> DEFINE m == Head(tcp[Master])
             n == [m EXCEPT !.type = "NEW_SUCC_SERVER"]
             inbox == [tcp EXCEPT ![Master] = Tail(tcp[Master])]
  <2>1. /\ tcp[Master] # <<>> /\ m.type = "REQ_SEQ"
        /\ tcp' = send_msg_tcp(inbox, Send(m.pre, n))
        /\ sending' = sending
    BY <1>5 DEF ForwardReqSeq
  <2>2. m \in Message /\ Tail(tcp[Master]) \in Seq(Message)
    BY <1>1, <2>1 DEF Inboxes
  <2>3. inbox \in Inboxes /\ \A x \in Servers : inbox[x] = tcp[x]
    BY <1>1, <2>2 DEF Inboxes, Processes
  <2> HIDE DEF m, inbox
  <2>4. /\ Send(m.pre, n) \in Outgoing
        /\ Send(m.pre, n).msg.type = "NEW_SUCC_SERVER"
    BY <2>1, <2>2, ForwardedReqSeq
  <2> HIDE DEF n
  <2>5. ASSUME NEW x \in alive, NEW type \in RoleOrders, Ordered(tcp', x, type)
        PROVE  Ordered(tcp, x, type)
    <3>1. x \in Servers /\ type # "NEW_SUCC_SERVER"
      BY <1>1 DEF RoleOrders
    <3>2. Ordered(inbox, x, type)
      BY <2>1, <2>3, <2>4, <2>5, <3>1, DeliveredOrder
    <3> QED
      BY <2>3, <3>1, <3>2 DEF Ordered
  <2> QED
    BY <1>2, <1>3, <2>1, <2>5, MasterOrders DEF Appointed, RoleOrders
<1> QED
  BY <1>4, <1>5

-----------------------------------------------------------------------------
(* The theorem.                                                            *)

\* In the initial state the roles are those of the configuration file.
LEMMA InitRoles == Init => RolesInv
PROOF
<1> SUFFICES ASSUME Init PROVE RolesInv
  OBVIOUS
<1>1. PICK flag \in [Servers -> UninitializedFlag] :
        srv = [s \in Servers |-> InitialServer(s, flag[s])]
  BY DEF Init
<1>2. /\ alive = Servers
      /\ tcp = [p \in Processes |-> <<>>]
      /\ sending = [p \in Processes |-> <<>>]
      /\ chain = [b \in Banks |-> ServersOf(b)]
  BY DEF Init
<1>3. \A s \in Servers : BankOf[s] \in Banks
  BY ChainAssumption
<1>4. ChainsHoldTheLiving
  BY <1>2, <1>3 DEF ChainsHoldTheLiving, ServersOf
<1>5. \A s \in Servers, type \in RoleOrders :
        ~Ordered(tcp, s, type) /\ ~Pending(sending[Master], s, type)
  BY <1>2 DEF Ordered, Pending, Processes
<1>6. \A s \in Servers :
        /\ srv[s].ishead = IsFirst(ServersOf(BankOf[s]), s)
        /\ srv[s].istail = IsLast(ServersOf(BankOf[s]), s)
  BY <1>1 DEF InitialServer
<1>7. \A s \in Servers :
        /\ IsFirst(ServersOf(BankOf[s]), s) => NoneBefore(s)
        /\ IsLast(ServersOf(BankOf[s]), s) => NoneAfter(s)
  BY <1>2
  DEF NoneBefore, NoneAfter, IsFirst, IsLast, Before, After, ServersOf
<1>8. \A s \in alive : s \in Servers
  BY <1>2
<1>9. "TO_BE_HEAD" \in RoleOrders /\ "TO_BE_TAIL" \in RoleOrders
  BY DEF RoleOrders
<1>10. HeadsAreFirst
  <2>1. ASSUME NEW s \in alive, Appointed(s, srv[s].ishead, "TO_BE_HEAD")
        PROVE  NoneBefore(s)
    <3>1. /\ ~Ordered(tcp, s, "TO_BE_HEAD")
          /\ ~Pending(sending[Master], s, "TO_BE_HEAD")
      BY <1>5, <1>8, <1>9
    <3>2. srv[s].ishead
      BY <2>1, <3>1 DEF Appointed
    <3>3. IsFirst(ServersOf(BankOf[s]), s)
      BY <1>6, <1>8, <3>2
    <3> QED
      BY <1>7, <1>8, <3>3
  <2> QED
    BY <2>1 DEF HeadsAreFirst
<1>11. TailsAreLast
  <2>1. ASSUME NEW s \in alive, Appointed(s, srv[s].istail, "TO_BE_TAIL")
        PROVE  NoneAfter(s)
    <3>1. /\ ~Ordered(tcp, s, "TO_BE_TAIL")
          /\ ~Pending(sending[Master], s, "TO_BE_TAIL")
      BY <1>5, <1>8, <1>9
    <3>2. srv[s].istail
      BY <2>1, <3>1 DEF Appointed
    <3>3. IsLast(ServersOf(BankOf[s]), s)
      BY <1>6, <1>8, <3>2
    <3> QED
      BY <1>7, <1>8, <3>3
  <2> QED
    BY <2>1 DEF TailsAreLast
<1> QED
  BY <1>4, <1>10, <1>11 DEF RolesInv

\* Every step keeps the roles.
LEMMA NextRoles == IInv /\ RolesInv /\ [Next]_vars => RolesInv'
PROOF
<1> SUFFICES ASSUME IInv, RolesInv, [Next]_vars PROVE RolesInv'
  OBVIOUS
<1>1. TypeOK /\ ServersObey /\ MasterKnowsEnds
  BY DEF IInv
<1>2. ASSUME NEW s \in Servers,
             ServerStep(s) \/ ClientUpdate(s) \/ ClientQuery(s) \/ Crash(s)
      PROVE  RolesInv'
  BY <1>1, <1>2, ServerRoles, NoNewRolesOK
<1>3. CASE MasterStep
  BY <1>1, <1>3, NotifyRoles, OtherMasterRoles DEF MasterStep
<1>4. CASE UNCHANGED vars
  BY <1>4
  DEF vars, RolesInv, ChainsHoldTheLiving, HeadsAreFirst, TailsAreLast,
      Appointed, Ordered, Pending, NoneBefore, NoneAfter
<1> QED
  BY <1>2, <1>3, <1>4 DEF Next

\* No two servers of a bank act as head, or as tail, at the same time: whoever
\* acts as one is the first, or the last, of the living servers of its bank,
\* after any sequence of crashes and any delay of the master's orders.
THEOREM OneHeadOneTail == Spec => []RolesFollowTheChain
PROOF
<1>1. IInv /\ RolesInv => RolesFollowTheChain
  <2> SUFFICES ASSUME IInv, RolesInv, NEW s \in alive
               PROVE  /\ srv[s].ishead => IsFirst(Living(BankOf[s]), s)
                      /\ srv[s].istail => IsLast(Living(BankOf[s]), s)
    BY DEF RolesFollowTheChain
  <2>1. s \in Living(BankOf[s])
    BY DEF Living
  <2>2. /\ srv[s].ishead => NoneBefore(s)
        /\ srv[s].istail => NoneAfter(s)
    BY DEF RolesInv, HeadsAreFirst, TailsAreLast, Appointed
  <2> QED
    BY <2>1, <2>2
    DEF NoneBefore, NoneAfter, IsFirst, IsLast, Before, After, Living
<1>2. Spec => []RolesInv
  BY InitRoles, NextRoles, Invariant, PTL DEF Spec
<1> QED
  BY <1>1, <1>2, Invariant, PTL
=============================================================================
