---------------------------- MODULE ClientProofs ----------------------------
(***************************************************************************)
(* One client of the replicated bank.  It is one of the clients that       *)
(* module Chain stands for, so whatever is proved of the chains holds while*)
(* it works; each of its requests goes to a server of the right bank that  *)
(* was, at some time, the head or the tail of it; and the balances that it *)
(* accepts are the sums of its own updates.                                *)
(***************************************************************************)
EXTENDS RefinementProofs, ClientLoop

-----------------------------------------------------------------------------
(* What the master tells the clients.                                      *)

\* Clients are told of servers of the right bank only.
KnownOwn ==
    /\ \A b \in Banks : known_heads[b] \cup known_tails[b] \in SUBSET ServersOf(b)
    /\ \A i \in DOMAIN sending[Master] : OwnServer(sending[Master][i])

\* A step takes nothing back that clients were told.
Learns ==
    \A b \in Banks : /\ known_heads[b] \in SUBSET known_heads'[b]
                     /\ known_tails[b] \in SUBSET known_tails'[b]

\* A notification of a server of the right bank.
LEMMA NotifiedOwn ==
    ASSUME TypeOK, KnownOwn, NEW o \in Outgoing, OwnServer(o), send_msg_udp(o)
    PROVE  /\ \A b \in Banks :
                known_heads'[b] \cup known_tails'[b] \in SUBSET ServersOf(b)
           /\ Learns
PROOF
<1> DEFINE told(type, b) == IF /\ o.to = Client
                               /\ o.msg.type = type
                               /\ o.msg.bank = b THEN {o.msg.server} ELSE {}
<1>1. o.msg \in Message
  BY DEF Outgoing
<1>2. \A b \in Banks :
        /\ told("NEW_HEAD", b) \in SUBSET ServersOf(b)
        /\ told("NEW_TAIL", b) \in SUBSET ServersOf(b)
  BY <1>1, MessageFields DEF OwnServer, ServersOf
<1>3. /\ known_heads' = [b \in Banks |->
                            known_heads[b] \cup told("NEW_HEAD", b)]
      /\ known_tails' = [b \in Banks |->
                            known_tails[b] \cup told("NEW_TAIL", b)]
  BY DEF send_msg_udp
<1> HIDE DEF told
<1> QED
  BY <1>2, <1>3 DEF KnownOwn, Learns

\* A process that sends only such notifications.
LEMMA TransmitOwn ==
    ASSUME TypeOK, KnownOwn, NEW p \in Processes, NEW inbox,
           NEW out \in Seq(Outgoing), Transmit(p, inbox, out),
           \A i \in DOMAIN out : OwnServer(out[i])
    PROVE  KnownOwn' /\ Learns
PROOF
<1>1. Master \in Processes /\ sending \in [Processes -> Seq(Outgoing)]
  BY DEF TypeOK, Processes
<1>2. CASE out = <<>>
  <2>1. /\ sending' = [sending EXCEPT ![p] = <<>>]
        /\ known_heads' = known_heads /\ known_tails' = known_tails
    BY <1>2 DEF Transmit
  <2>2. sending'[Master] = sending[Master] \/ sending'[Master] = <<>>
    BY <1>1, <2>1
  <2> QED
    BY <2>1, <2>2 DEF KnownOwn, Learns
<1>3. CASE out # <<>>
  <2>1. /\ sending' = [sending EXCEPT ![p] = Tail(out)]
        /\ send_msg_udp(Head(out))
    BY <1>3 DEF Transmit
  <2>2. /\ Head(out) \in Outgoing /\ Head(out) = out[1] /\ 1 \in DOMAIN out
        /\ \A i \in DOMAIN Tail(out) : i + 1 \in DOMAIN out /\ Tail(out)[i] = out[i + 1]
    BY <1>3
  <2>3. OwnServer(Head(out)) /\ \A i \in DOMAIN Tail(out) : OwnServer(Tail(out)[i])
    BY <2>2
  <2>4. /\ \A b \in Banks :
            known_heads'[b] \cup known_tails'[b] \in SUBSET ServersOf(b)
        /\ Learns
    BY <2>1, <2>2, <2>3, NotifiedOwn
  <2>5. sending'[Master] = sending[Master] \/ sending'[Master] = Tail(out)
    BY <1>1, <2>1
  <2> QED
    BY <2>3, <2>4, <2>5 DEF KnownOwn
<1> QED
  BY <1>2, <1>3

\* Servers announce nobody.
LEMMA ServerOwn ==
    ASSUME TypeOK, ServersObey, KnownOwn, NEW s \in Servers,
           ServerStep(s) \/ ClientUpdate(s) \/ ClientQuery(s)
    PROVE  KnownOwn' /\ Learns
PROOF
<1>1. PICK inbox, res : Performs(s, inbox, res)
  BY ServerPerforms
<1>2. Outcome(srv[s], res) /\ Perform(s, inbox, res)
  BY <1>1 DEF Performs
<1>3. ServerSend \in SUBSET Outgoing /\ res.out \in Seq(ServerSend)
  BY <1>2 DEF ServerSend, Outcome
<1>4. PICK out \in Seq(Outgoing) : out = res.out
  BY <1>3
<1>5. \A i \in DOMAIN out : OwnServer(out[i])
  <2>1. \A i \in DOMAIN out : out[i] \in ServerSend
    BY <1>3, <1>4
  <2> QED
    BY <2>1 DEF ServerSend, OwnServer
<1>6. s \in Processes /\ Master \in Processes /\ s # Master
  BY MasterAssumption DEF Processes
<1>7. CASE Transmit(s, inbox, res.out)
  BY <1>4, <1>5, <1>6, <1>7, TransmitOwn
<1>8. CASE Die(s, inbox)
  <2>1. /\ sending' = [sending EXCEPT ![s] = <<>>]
        /\ known_heads' = known_heads /\ known_tails' = known_tails
    BY <1>8 DEF Die
  <2>2. sending'[Master] = sending[Master]
    BY <1>6, <2>1 DEF TypeOK
  <2> QED
    BY <2>1, <2>2 DEF KnownOwn, Learns
<1> QED
  BY <1>2, <1>7, <1>8 DEF Perform

LEMMA InitOwn == Init => KnownOwn
PROOF
<1> SUFFICES ASSUME Init PROVE KnownOwn
  OBVIOUS
<1>1. \A b \in Banks : InitialHead(b) \in ServersOf(b) /\ InitialTail(b) \in ServersOf(b)
  BY InitialEnds DEF IsFirst, IsLast
<1>2. sending[Master] = <<>>
  BY DEF Init, Processes
<1> QED
  BY <1>1, <1>2 DEF Init, KnownOwn

\* Every step of the chains names servers of the right bank only.
LEMMA NextOwn == IInv /\ RolesInv /\ KnownOwn /\ [Next]_vars => KnownOwn' /\ Learns
PROOF
<1> SUFFICES ASSUME IInv, RolesInv, KnownOwn, [Next]_vars PROVE KnownOwn' /\ Learns
  OBVIOUS
<1>1. TypeOK /\ ServersObey /\ MasterKnowsEnds /\ Master \in Processes
  BY DEF IInv, Processes
<1>2. ASSUME NEW s \in Servers, ServerStep(s) \/ ClientUpdate(s) \/ ClientQuery(s)
      PROVE  KnownOwn' /\ Learns
  BY <1>1, <1>2, ServerOwn
<1>3. ASSUME NEW s \in Servers, Crash(s)
      PROVE  KnownOwn' /\ Learns
  <2>1. /\ sending' = [sending EXCEPT ![s] = <<>>]
        /\ known_heads' = known_heads /\ known_tails' = known_tails
    BY <1>3 DEF Crash, Die
  <2>2. sending'[Master] = sending[Master]
    BY <1>1, <2>1, MasterAssumption DEF TypeOK
  <2> QED
    BY <2>1, <2>2 DEF KnownOwn, Learns
<1>4. ASSUME NEW b \in Banks, NEW s \in Servers,
             \/ NotifyHeadCrash(b, s)
             \/ NotifyTailCrash(b, s)
             \/ NotifyInternalCrash(b, s)
      PROVE  KnownOwn' /\ Learns
  <2>1. PICK out \in Seq(Outgoing) : /\ Transmit(Master, tcp, out)
                                     /\ \A i \in DOMAIN out : OwnServer(out[i])
    BY <1>1, <1>4, NotifySends
  <2> QED
    BY <1>1, <2>1, TransmitOwn
<1>5. CASE MasterContinue
  <2>1. Transmit(Master, tcp, sending[Master])
    BY <1>5 DEF MasterContinue
  <2>2. PICK out \in Seq(Outgoing) : out = sending[Master]
    BY <1>1 DEF TypeOK
  <2> QED
    BY <1>1, <2>1, <2>2, TransmitOwn DEF KnownOwn
<1>6. CASE UNCHANGED <<known_heads, known_tails, sending>>
  BY <1>6 DEF KnownOwn, Learns
<1> QED
  BY <1>2, <1>3, <1>4, <1>5, <1>6
  DEF Next, MasterStep, ForwardReqSeq, clients, vars

-----------------------------------------------------------------------------
(* The client.                                                             *)

\* Server s was announced for requests like r.
Announces(s, r) ==
    s \in IF r.type = "QUERY" THEN known_tails[r.bank] ELSE known_heads[r.bank]

\* What the client holds for heads and tails, and where its datagrams go.
KnowsServers ==
    /\ \A b \in Banks : /\ cl.bank_head_list[b] \in known_heads[b]
                        /\ cl.bank_tail_list[b] \in known_tails[b]
    /\ cl.pc # "done" => /\ cl.next \in DOMAIN request_vector
                         /\ Announces(cl.target, Current)
    /\ \A d \in udp : Announces(d.to, d.req)

Turns == 1 .. Len(request_vector) + 1

Tries == 0 .. resend_num

ClientState ==
    [pc : {"send", "wait", "done"}, next : Turns,
     target : Servers, retry : Tries, recv_count : Nat,
     bank_head_list : [Banks -> Servers], bank_tail_list : [Banks -> Servers]]

\* The same, before a first target is chosen.
Draft ==
    [pc : {"send", "wait", "done"}, next : Turns,
     target : Servers \cup {Nobody}, retry : Tries, recv_count : Nat,
     bank_head_list : [Banks -> Servers], bank_tail_list : [Banks -> Servers]]

\* The requests of the client are requests.
LEMMA RequestTypes ==
    /\ Len(request_vector) \in Nat \ {0}
    /\ DOMAIN request_vector = 1 .. Len(request_vector)
    /\ \A i \in DOMAIN request_vector :
        LET r == request_vector[i]
        IN  /\ r \in Requests /\ r.bank \in Banks
            /\ r.type = "QUERY" => r \in ClientQueries
            /\ r.type # "QUERY" => r \in ClientUpdates
PROOF
<1>1. /\ request_vector \in Seq(ClientUpdates \cup ClientQueries)
      /\ Len(request_vector) > 0
  BY ClientAssumption
<1>2. /\ Len(request_vector) \in Nat
      /\ DOMAIN request_vector = 1 .. Len(request_vector)
      /\ \A i \in DOMAIN request_vector :
            request_vector[i] \in ClientUpdates \cup ClientQueries
  BY <1>1
<1>3. /\ \A r \in ClientUpdates : r.bank \in Banks /\ r.type # "QUERY"
      /\ \A r \in ClientQueries : r.bank \in Banks /\ r.type = "QUERY"
  BY ChainAssumption, RequestFields DEF ClientRequest
<1>4. \A i \in DOMAIN request_vector : request_vector[i] \in Requests
  BY DEF Requests
<1> QED
  BY <1>1, <1>2, <1>3, <1>4

\* The client turns to another request with a server it knows of.
LEMMA TurnKnows ==
    ASSUME NEW c \in Draft, NEW i \in Turns, TypeOK,
           c.target \in Servers \/ i = 1,
           \A b \in Banks : /\ c.bank_head_list[b] \in known_heads[b]
                            /\ c.bank_tail_list[b] \in known_tails[b]
    PROVE  LET n == Turn(c, i)
           IN  /\ n \in ClientState
               /\ n.next = i /\ n.retry = 0 /\ n.pc # "wait"
               /\ n.bank_head_list = c.bank_head_list
               /\ n.bank_tail_list = c.bank_tail_list
               /\ n.pc = "done" <=> i = Len(request_vector) + 1
               /\ n.pc # "done" => /\ i \in DOMAIN request_vector
                                   /\ Announces(n.target, request_vector[i])
PROOF
<1>1. /\ Len(request_vector) \in Nat \ {0} /\ 0 \in Tries
      /\ i \in 1 .. Len(request_vector) + 1
  BY RequestTypes, ClientAssumption DEF Tries, Turns
<1>2. CASE i > Len(request_vector)
  <2>1. Turn(c, i) = [c EXCEPT !.pc = "done", !.next = i, !.retry = 0]
    BY <1>2 DEF Turn
  <2>2. i = Len(request_vector) + 1 /\ c.target \in Servers
    BY <1>1, <1>2
  <2> DEFINE n == [c EXCEPT !.pc = "done", !.next = i, !.retry = 0]
  <2>3. /\ n.next = i /\ n.retry = 0 /\ n.pc = "done"
        /\ n.bank_head_list = c.bank_head_list
        /\ n.bank_tail_list = c.bank_tail_list
        /\ n.target = c.target
    BY DEF Draft
  <2>5. n \in ClientState
    <3>1. n \in Draft
      BY <1>1 DEF Draft
    <3> QED
      BY <2>2, <2>3, <3>1 DEF ClientState, Draft
  <2> HIDE DEF n
  <2>4. Turn(c, i) = n
    BY <2>1 DEF n
  <2> QED
    BY <2>2, <2>3, <2>4, <2>5
<1>3. CASE ~(i > Len(request_vector))
  <2> DEFINE r == request_vector[i]
             g == Target(c, r)
  <2>1. Turn(c, i) = [c EXCEPT !.pc = "send", !.next = i, !.retry = 0,
                               !.target = g]
    BY <1>3 DEF Turn
  <2>2. i \in DOMAIN request_vector /\ r.bank \in Banks
    BY <1>1, <1>3, RequestTypes
  <2>3. g \in Servers /\ Announces(g, r)
    BY <2>2 DEF Target, Announces, Draft
  <2> HIDE DEF r, g
  <2> DEFINE n == [c EXCEPT !.pc = "send", !.next = i, !.retry = 0, !.target = g]
  <2>4. /\ n.next = i /\ n.retry = 0 /\ n.pc = "send" /\ n.target = g
        /\ n.bank_head_list = c.bank_head_list
        /\ n.bank_tail_list = c.bank_tail_list
    BY DEF Draft
  <2>6. n \in ClientState
    <3>1. n \in Draft
      BY <1>1, <2>3 DEF Draft
    <3> QED
      BY <2>3, <2>4, <3>1 DEF ClientState, Draft
  <2> HIDE DEF n
  <2>5. Turn(c, i) = n /\ i # Len(request_vector) + 1
    BY <1>1, <1>3, <2>1 DEF n
  <2> QED
    BY <2>2, <2>3, <2>4, <2>5, <2>6 DEF r
<1> QED
  BY <1>2, <1>3

LEMMA InitClient == ClientInit => ClientTypeOK /\ KnowsServers
PROOF
<1> SUFFICES ASSUME ClientInit PROVE ClientTypeOK /\ KnowsServers
  OBVIOUS
<1> DEFINE c == [pc |-> "send", next |-> 1, target |-> Nobody, retry |-> 0,
                 recv_count |-> 0,
                 bank_head_list |-> [b \in Banks |-> InitialHead(b)],
                 bank_tail_list |-> [b \in Banks |-> InitialTail(b)]]
<1>1. TypeOK /\ Init /\ cl = Turn(c, 1) /\ udp = {} /\ session = <<>>
  BY InitOK DEF ClientInit, IInv
<1>2. \A b \in Banks : InitialHead(b) \in Servers /\ InitialTail(b) \in Servers
  BY InitialEnds DEF IsFirst, IsLast, ServersOf
<1>3. \A b \in Banks : /\ c.bank_head_list[b] \in known_heads[b]
                       /\ c.bank_tail_list[b] \in known_tails[b]
  BY <1>1 DEF Init
<1>4. c \in Draft
  <2>1. 1 \in Turns /\ 0 \in Tries
    BY RequestTypes, ClientAssumption DEF Turns, Tries
  <2> QED
    BY <1>2, <2>1 DEF Draft
<1> HIDE DEF c
<1>5. 1 \in Turns
  BY RequestTypes DEF Turns
<1>6. /\ cl \in ClientState /\ cl.next = 1
      /\ cl.bank_head_list = c.bank_head_list
      /\ cl.bank_tail_list = c.bank_tail_list
      /\ cl.pc # "done" => /\ 1 \in DOMAIN request_vector
                           /\ Announces(cl.target, request_vector[1])
  BY <1>1, <1>3, <1>4, <1>5, TurnKnows
<1>7. session \in Seq([req : Requests, accepted : SUBSET Reply])
  BY <1>1
<1> QED
  BY <1>1, <1>3, <1>6, <1>7 DEF ClientTypeOK, KnowsServers, ClientState, Turns, Tries, Current

\* A request that was given up or answered, and the turn to the next one.
LEMMA TurnStep ==
    ASSUME TypeOK, ClientTypeOK, KnowsServers, cl.pc = "wait",
           NEW n \in Nat, NEW c, c = [cl EXCEPT !.recv_count = n],
           NEW A \in SUBSET Reply, UNCHANGED <<vars, udp>>,
           cl' = Turn(c, cl.next + 1),
           session' = Append(session, [req |-> Current, accepted |-> A])
    PROVE  ClientTypeOK' /\ KnowsServers'
PROOF
<1>1. /\ cl \in ClientState /\ cl.next \in DOMAIN request_vector
      /\ session \in Seq([req : Requests, accepted : SUBSET Reply])
      /\ \A b \in Banks : /\ cl.bank_head_list[b] \in known_heads[b]
                          /\ cl.bank_tail_list[b] \in known_tails[b]
  BY DEF ClientTypeOK, KnowsServers, ClientState, Turns, Tries
<1>2. /\ c \in Draft /\ c.target \in Servers
      /\ c.bank_head_list = cl.bank_head_list
      /\ c.bank_tail_list = cl.bank_tail_list
  BY <1>1 DEF ClientState, Draft
<1>3. cl.next + 1 \in Turns
  BY <1>1, RequestTypes DEF Turns
<1>4. PICK i \in Turns : i = cl.next + 1
  BY <1>3
<1>5. /\ cl' \in ClientState /\ cl'.next = i
      /\ cl'.bank_head_list = cl.bank_head_list
      /\ cl'.bank_tail_list = cl.bank_tail_list
      /\ cl'.pc # "done" => /\ i \in DOMAIN request_vector
                            /\ Announces(cl'.target, request_vector[i])
  BY <1>1, <1>2, <1>4, TurnKnows
<1>6. session' \in Seq([req : Requests, accepted : SUBSET Reply])
  <2>1. Current \in Requests
    BY <1>1, RequestTypes DEF Current
  <2>2. [req |-> Current, accepted |-> A] \in [req : Requests, accepted : SUBSET Reply]
    BY <2>1
  <2> QED
    BY <1>1, <2>2
<1>7. ClientTypeOK'
  BY <1>5, <1>6 DEF ClientTypeOK, ClientState, Turns, Tries
<1>8. known_heads' = known_heads /\ known_tails' = known_tails /\ udp' = udp
  BY DEF vars
<1> QED
  BY <1>1, <1>5, <1>7, <1>8 DEF KnowsServers, Announces, Current

\* A step of the client but these.
LEMMA StayStep ==
    ASSUME TypeOK, ClientTypeOK, KnowsServers, cl.pc # "done",
           UNCHANGED <<vars, session>>, cl' \in ClientState,
           cl'.next = cl.next, cl'.pc # "done",
           \/ cl'.target = cl.target
           \/ cl'.target = Target(cl, Current),
           \A b \in Banks : /\ cl'.bank_head_list[b] \in known_heads[b]
                            /\ cl'.bank_tail_list[b] \in known_tails[b],
           udp' \in SUBSET (udp \cup {[to |-> cl.target, req |-> Current]})
    PROVE  ClientTypeOK' /\ KnowsServers'
PROOF
<1>1. /\ cl \in ClientState /\ cl.next \in DOMAIN request_vector
      /\ Current \in Requests /\ Current.bank \in Banks
      /\ \A b \in Banks : /\ cl.bank_head_list[b] \in known_heads[b]
                          /\ cl.bank_tail_list[b] \in known_tails[b]
      /\ Announces(cl.target, Current)
  BY RequestTypes DEF ClientTypeOK, KnowsServers, ClientState, Turns, Tries, Current
<1>2. /\ known_heads' = known_heads /\ known_tails' = known_tails
      /\ session' = session /\ Current' = Current
  BY DEF vars, Current
<1>3. Announces(cl'.target, Current)
  BY <1>1 DEF Target, Announces
<1>4. \A d \in udp' : Announces(d.to, d.req)
  BY <1>1 DEF KnowsServers
<1>5. udp' \in SUBSET [to : Servers, req : Requests]
  <2>1. cl.target \in Servers /\ udp \in SUBSET [to : Servers, req : Requests]
    BY <1>1 DEF ClientState, ClientTypeOK
  <2>2. [to |-> cl.target, req |-> Current] \in [to : Servers, req : Requests]
    BY <1>1, <2>1
  <2> QED
    BY <2>1, <2>2
<1>6. ClientTypeOK'
  BY <1>2, <1>5 DEF ClientTypeOK, ClientState, Turns, Tries
<1>7. KnowsServers'
  BY <1>1, <1>2, <1>3, <1>4 DEF KnowsServers, Announces
<1> QED
  BY <1>6, <1>7

\* Every step of the client.
LEMMA ClientStepOK ==
    ASSUME TypeOK, ClientTypeOK, KnowsServers, ClientStep
    PROVE  ClientTypeOK' /\ KnowsServers' /\ UNCHANGED vars
PROOF
<1>1. /\ cl \in ClientState /\ resend_num \in Nat
      /\ \A b \in Banks : /\ cl.bank_head_list[b] \in known_heads[b]
                          /\ cl.bank_tail_list[b] \in known_tails[b]
  BY ClientAssumption DEF ClientTypeOK, KnowsServers, ClientState, Turns, Tries
<1>2. UNCHANGED vars
  BY DEF ClientStep, SendRequest, Timeout, ReceiveReply, ReceiveNewHead, ReceiveNewTail
<1>3. CASE SendRequest
  <2>1. /\ cl.pc = "send" /\ cl' = [cl EXCEPT !.pc = "wait"]
        /\ udp' = udp \cup {[to |-> cl.target, req |-> Current]}
        /\ session' = session
    BY <1>3 DEF SendRequest
  <2>2. /\ cl' \in ClientState /\ cl'.next = cl.next /\ cl'.pc # "done"
        /\ cl'.target = cl.target /\ cl'.bank_head_list = cl.bank_head_list
        /\ cl'.bank_tail_list = cl.bank_tail_list
    BY <1>1, <2>1 DEF ClientState
  <2> QED
    BY <1>1, <1>2, <2>1, <2>2, StayStep
<1>4. CASE Timeout
  <2>1. cl.pc = "wait" /\ udp' = udp
    BY <1>4 DEF Timeout
  <2>2. CASE cl.retry + 1 > resend_num
    <3>1. /\ cl' = Turn(cl, cl.next + 1)
          /\ session' = Append(session, [req |-> Current, accepted |-> {}])
      BY <1>4, <2>2 DEF Timeout
    <3>2. cl = [cl EXCEPT !.recv_count = cl.recv_count] /\ cl.recv_count \in Nat
      BY <1>1 DEF ClientState
    <3>3. {} \in SUBSET Reply
      OBVIOUS
    <3> QED
      BY <1>2, <2>1, <3>1, <3>2, <3>3, TurnStep
  <2>3. CASE ~(cl.retry + 1 > resend_num)
    <3> DEFINE g == IF resend_newhead THEN Target(cl, Current) ELSE cl.target
    <3>1. /\ cl' = [cl EXCEPT !.pc = "send", !.retry = @ + 1, !.target = g]
          /\ session' = session
      BY <2>3, <1>4 DEF Timeout
    <3>2. cl.retry + 1 \in Tries
      BY <1>1, <2>3 DEF ClientState, Tries
    <3>3. g \in Servers /\ (g = cl.target \/ g = Target(cl, Current))
      <4>1. Current.bank \in Banks
        BY <2>1, RequestTypes DEF KnowsServers, Current
      <4> QED
        BY <1>1, <4>1 DEF ClientState, Target
    <3> HIDE DEF g
    <3>4. /\ cl' \in ClientState /\ cl'.next = cl.next /\ cl'.pc # "done"
          /\ cl'.target = g /\ cl'.bank_head_list = cl.bank_head_list
          /\ cl'.bank_tail_list = cl.bank_tail_list
      BY <1>1, <3>1, <3>2, <3>3 DEF ClientState
    <3> QED
      BY <1>1, <1>2, <2>1, <3>1, <3>3, <3>4, StayStep
  <2> QED
    BY <2>2, <2>3
<1>5. CASE ReceiveReply
  <2> DEFINE n == cl.recv_count + 1
             c == [cl EXCEPT !.recv_count = n]
  <2>1. PICK e \in replies :
            IF ~drop_reply(c.recv_count) /\ Accepts(e.reply)
            THEN /\ cl' = Turn(c, cl.next + 1)
                 /\ session' = Append(session, [req |-> Current,
                                                accepted |-> {e.reply}])
            ELSE cl' = c /\ session' = session
    BY <1>5 DEF ReceiveReply
  <2>2. /\ cl.pc = "wait" /\ udp' = udp /\ n \in Nat
        /\ {e.reply} \in SUBSET Reply
    BY <1>1, <1>5 DEF ReceiveReply, ClientState, TypeOK, Entry
  <2> HIDE DEF n
  <2>3. /\ c \in ClientState /\ c.next = cl.next /\ c.pc = "wait"
        /\ c.target = cl.target /\ c.bank_head_list = cl.bank_head_list
        /\ c.bank_tail_list = cl.bank_tail_list
    BY <1>1, <2>2 DEF ClientState
  <2>4. CASE ~drop_reply(c.recv_count) /\ Accepts(e.reply)
    BY <1>2, <2>1, <2>2, <2>4, TurnStep
  <2>5. CASE cl' = c /\ session' = session
    <3> HIDE DEF c
    <3> QED
      BY <1>1, <1>2, <2>2, <2>3, <2>5, StayStep
  <2> QED
    BY <2>1, <2>4, <2>5
<1>6. CASE ReceiveNewHead
  <2>1. PICK b \in Banks, s \in UNION {known_heads[x] : x \in Banks} :
            /\ s \in known_heads[b]
            /\ cl' = [cl EXCEPT !.bank_head_list[b] = s]
    BY <1>6 DEF ReceiveNewHead
  <2>2. /\ cl.pc = "wait" /\ udp' = udp /\ session' = session /\ s \in Servers
    BY <1>6, <2>1 DEF ReceiveNewHead, TypeOK
  <2>3. /\ cl' \in ClientState /\ cl'.next = cl.next /\ cl'.pc = "wait"
        /\ cl'.target = cl.target /\ cl'.bank_tail_list = cl.bank_tail_list
        /\ cl'.bank_head_list = [cl.bank_head_list EXCEPT ![b] = s]
    BY <1>1, <2>1, <2>2 DEF ClientState
  <2>4. \A x \in Banks : cl'.bank_head_list[x] \in known_heads[x]
    BY <1>1, <2>1, <2>3 DEF ClientState
  <2> QED
    BY <1>1, <1>2, <2>2, <2>3, <2>4, StayStep
<1>7. CASE ReceiveNewTail
  <2>1. PICK b \in Banks, s \in UNION {known_tails[x] : x \in Banks} :
            /\ s \in known_tails[b]
            /\ cl' = [cl EXCEPT !.bank_tail_list[b] = s]
    BY <1>7 DEF ReceiveNewTail
  <2>2. /\ cl.pc = "wait" /\ udp' = udp /\ session' = session /\ s \in Servers
    BY <1>7, <2>1 DEF ReceiveNewTail, TypeOK
  <2>3. /\ cl' \in ClientState /\ cl'.next = cl.next /\ cl'.pc = "wait"
        /\ cl'.target = cl.target /\ cl'.bank_head_list = cl.bank_head_list
        /\ cl'.bank_tail_list = [cl.bank_tail_list EXCEPT ![b] = s]
    BY <1>1, <2>1, <2>2 DEF ClientState
  <2>4. \A x \in Banks : cl'.bank_tail_list[x] \in known_tails[x]
    BY <1>1, <2>1, <2>3 DEF ClientState
  <2> QED
    BY <1>1, <1>2, <2>2, <2>3, <2>4, StayStep
<1> QED
  BY <1>2, <1>3, <1>4, <1>5, <1>6, <1>7 DEF ClientStep

\* A datagram is a request of the kind that module Chain lets arrive.
LEMMA DeliverIsStep ==
    ASSUME TypeOK, KnownOwn, ClientTypeOK, KnowsServers,
           NEW s \in Servers, DeliverRequest(s)
    PROVE  ClientUpdate(s) \/ ClientQuery(s)
PROOF
<1>1. PICK d \in udp :
        /\ d.to = s /\ Perform(s, tcp, receive_request(s, srv[s], d.req))
        /\ \/ d.req.type = "QUERY" /\ UNCHANGED arrivals
           \/ /\ d.req.type # "QUERY" /\ arrivals < MaxArrivals
              /\ arrivals' = arrivals + 1
  BY DEF DeliverRequest
<1>2. Idle(s) /\ UNCHANGED master
  BY DEF DeliverRequest
<1>3. d.req \in Requests /\ Announces(s, d.req)
  BY <1>1 DEF ClientTypeOK, KnowsServers
<1>4. /\ d.req.bank \in Banks
      /\ d.req.type = "QUERY" => d.req \in ClientQueries
      /\ d.req.type # "QUERY" => d.req \in ClientUpdates
  BY <1>3, RequestTypes DEF Requests
<1>5. BankOf[s] = d.req.bank
  BY <1>3, <1>4 DEF Announces, KnownOwn, ServersOf
<1> QED
  BY <1>1, <1>2, <1>3, <1>4, <1>5 DEF Announces, ClientUpdate, ClientQuery

\* The chains take only steps of their own; the client knows what it did before.
LEMMA NextClient ==
    IInv /\ RolesInv /\ KnownOwn /\ ClientTypeOK /\ KnowsServers /\
    [ClientNext]_clientvars
    => [Next]_vars /\ KnownOwn' /\ ClientTypeOK' /\ KnowsServers'
PROOF
<1> SUFFICES ASSUME IInv, RolesInv, KnownOwn, ClientTypeOK, KnowsServers,
                    [ClientNext]_clientvars
             PROVE  [Next]_vars /\ KnownOwn' /\ ClientTypeOK' /\ KnowsServers'
  OBVIOUS
<1>1. TypeOK
  BY DEF IInv
<1>2. CASE ClientStep
  BY <1>1, <1>2, ClientStepOK, NextOwn
<1>3. ASSUME [Next]_vars, UNCHANGED loop
      PROVE  [Next]_vars /\ KnownOwn' /\ ClientTypeOK' /\ KnowsServers'
  <2>1. KnownOwn' /\ Learns
    BY <1>3, NextOwn
  <2>2. cl' = cl /\ udp' = udp /\ session' = session /\ Current' = Current
    BY <1>3 DEF loop, Current
  <2>3. ClientTypeOK'
    BY <2>2 DEF ClientTypeOK
  <2>4. \A s, r : Announces(s, r) /\ r.bank \in Banks => Announces(s, r)'
    BY <2>1 DEF Announces, Learns
  <2>5. /\ cl.pc # "done" => Current.bank \in Banks
        /\ \A d \in udp : d.req.bank \in Banks
    BY RequestTypes DEF KnowsServers, Current, ClientTypeOK, Requests
  <2>6. KnowsServers'
    BY <2>1, <2>2, <2>4, <2>5 DEF KnowsServers, Learns
  <2> QED
    BY <1>3, <2>1, <2>3, <2>6
<1>4. CASE \E s \in Servers : DeliverRequest(s)
  <2>1. [Next]_vars
    BY <1>1, <1>4, DeliverIsStep DEF Next
  <2> QED
    BY <1>3, <1>4, <2>1 DEF DeliverRequest
<1>5. CASE \/ \E s \in Servers : (ServerStep(s) \/ Crash(s)) /\ UNCHANGED loop
           \/ MasterStep /\ UNCHANGED loop
  BY <1>3, <1>5 DEF Next
<1>6. CASE UNCHANGED clientvars
  BY <1>3, <1>6 DEF clientvars
<1> QED
  BY <1>2, <1>4, <1>5, <1>6 DEF ClientNext

\* The client and the chains: what is known of the chains holds here too.
LEMMA ClientInvariant ==
    ClientSpec => Spec /\ [](KnownOwn /\ ClientTypeOK /\ KnowsServers)
PROOF
<1>1. ClientInit => /\ Init /\ IInv /\ RolesInv /\ KnownOwn
                    /\ ClientTypeOK /\ KnowsServers
  BY InitOK, InitRoles, InitOwn, InitClient DEF ClientInit
<1>2. /\ IInv /\ RolesInv /\ KnownOwn /\ ClientTypeOK /\ KnowsServers
      /\ [ClientNext]_clientvars
      => /\ [Next]_vars /\ IInv' /\ RolesInv' /\ KnownOwn'
         /\ ClientTypeOK' /\ KnowsServers'
  BY NextOK, NextRoles, NextClient
<1> QED
  BY <1>1, <1>2, PTL DEF ClientSpec, Spec

\* The client is one of the clients of module Chain: an update reaches only a
\* server that was announced as head of its bank, a query only one that was
\* announced as tail, however long a datagram or a notification was under way.
\* So every theorem about Spec holds while this client works.
THEOREM ClientSafe == ClientSpec => ClientOfChain
PROOF
  BY ClientInvariant, PTL DEF ClientOfChain

\* The client addresses a server, and retries a request at most resend_num
\* times, whatever it is told and whichever replies come.
THEOREM ClientTypeCorrect == ClientSpec => []ClientTypeOK
PROOF
  BY ClientInvariant, PTL

-----------------------------------------------------------------------------
(* What the client reads.  It sends no transfers and uses an id for one    *)
(* request only.  Its bank's log (HistoryProofs) then holds nothing but    *)
(* its own updates, and the balance in a reply is the sum of those that    *)
(* precede it there.  An update that was answered comes before everything  *)
(* that is asked for later; one that was given up may be anywhere.         *)

\* Request r, numbered or not, is one that the client has sent.
SentOff(r) == \E d \in udp : d.req = [r EXCEPT !.seq = 0]

\* Requests that differ in their numbers only.
SameRequest(r, q) ==
    /\ r.id = q.id /\ r.type = q.type /\ r.bank = q.bank /\ r.acct = q.acct
    /\ r.amount = q.amount /\ r.dbank = q.dbank /\ r.dacct = q.dacct

\* The client is busy with request r.
Awaited(r) == cl.next \in DOMAIN request_vector /\ r.id = Current.id

\* The update of e itself, if it was carried out.
Own(e) == IF e.req.type # "QUERY" /\ e.reply.outcome = "PROCESSED"
          THEN {e.req.id} ELSE {}

\* The balance in e is what SessionConsistent asks of it.
Explained(e) ==
    \E S \in SUBSET GivenUp(cl.next - 1, e.req.bank, e.req.acct) :
        e.reply.balance =
            Total(Confirmed(cl.next - 1, e.req.bank, e.req.acct) \cup S \cup Own(e))

\* An answer to the client, which it can accept if it waits for it.
Truthful(e) ==
    /\ SentOff(e.req)
    /\ e.reply.id = e.req.id /\ e.reply.acct = e.req.acct
    /\ Awaited(e.req) => Explained(e)

\* The session is about the requests before the current one, and was told by
\* the banks; nothing was sent that comes later.
SessionKnown ==
    /\ Len(session) = cl.next - 1
    /\ \A i \in DOMAIN session :
        /\ session[i].req = request_vector[i]
        /\ \A q \in session[i].accepted :
                \E g \in replies : g.reply = q /\ g.req.id = session[i].req.id
    /\ \A d \in udp : \E k \in DOMAIN request_vector :
            k <= cl.next /\ d.req = request_vector[k]

\* The updates of log are the client's.
OwnUpdates(b, log) ==
    /\ \A n \in 1 .. log.top : SentOff(log.req[n])
    /\ \A f \in log.led[log.top].processed : Ours(b, f.req) /\ SentOff(f.req)

\* So are the answers to them.
TruthfulLog(b, log) ==
    OwnUpdates(b, log) /\ \A f \in log.led[log.top].processed : Truthful(f)

TruthfulReads == \A e \in replies : e.req.type = "QUERY" => Truthful(e)

TruthfulLogs ==
    \A b \in Banks : \E log \in Logs :
        Logged(b, log) /\ log.top <= arrivals /\ TruthfulLog(b, log)

SessionInv == SessionKnown /\ TruthfulReads /\ TruthfulLogs /\ SessionConsistent

-----------------------------------------------------------------------------
(* The requests of the client.                                             *)

\* A request that was sent is one of the client's, and no later one.
LEMMA SentIsRequest ==
    ASSUME SessionKnown, NEW r \in Request, SentOff(r)
    PROVE  \E k \in DOMAIN request_vector :
                k <= cl.next /\ SameRequest(r, request_vector[k])
PROOF
<1>1. PICK d \in udp : d.req = [r EXCEPT !.seq = 0]
  BY DEF SentOff
<1>2. PICK k \in DOMAIN request_vector : k <= cl.next /\ d.req = request_vector[k]
  BY <1>1 DEF SessionKnown
<1>3. SameRequest(r, [r EXCEPT !.seq = 0])
  BY DEF SameRequest, Request, RequestRecord
<1> QED
  BY <1>1, <1>2, <1>3

\* An id stands for one request.
LEMMA SentAlike ==
    ASSUME SessionKnown, NEW r \in Request, NEW q \in Request,
           SentOff(r), SentOff(q), r.id = q.id
    PROVE  SameRequest(r, q)
PROOF
<1>1. PICK k \in DOMAIN request_vector : SameRequest(r, request_vector[k])
  BY SentIsRequest
<1>2. PICK j \in DOMAIN request_vector : SameRequest(q, request_vector[j])
  BY SentIsRequest
<1>3. request_vector[k].id = request_vector[j].id
  BY <1>1, <1>2 DEF SameRequest
<1>4. k = j
  BY <1>3, ClientAssumption
<1> QED
  BY <1>1, <1>2, <1>4 DEF SameRequest

\* The request that Total looks up.
LEMMA LookedUp ==
    ASSUME SessionKnown, NEW r \in Request, SentOff(r)
    PROVE  Gain(CHOOSE q \in Requests : q.id = r.id) = Gain(r)
PROOF
<1>1. PICK k \in DOMAIN request_vector : SameRequest(r, request_vector[k])
  BY SentIsRequest
<1> DEFINE x == CHOOSE q \in Requests : q.id = r.id
<1>2. request_vector[k] \in Requests /\ request_vector[k].id = r.id
  BY <1>1 DEF Requests, SameRequest
<1>3. x \in Requests /\ x.id = r.id
  BY <1>2
<1>4. PICK j \in DOMAIN request_vector : x = request_vector[j]
  BY <1>3 DEF Requests
<1>5. j = k
  BY <1>2, <1>3, <1>4, ClientAssumption
<1> HIDE DEF x
<1>6. x.type = r.type /\ x.amount = r.amount
  BY <1>1, <1>4, <1>5 DEF SameRequest
<1>7. Gain(x) = Gain(r)
  BY <1>6, Zenon DEF Gain, Debits
<1> QED
  BY <1>7 DEF x

-----------------------------------------------------------------------------
(* The balances of a log, in terms of the client's updates.                *)

\* The ids of the updates of account a that were carried out.
EffectiveIds(k, a) == {e.req.id : e \in Effective(k.processed, a)}

\* A balance is the sum of the updates that were carried out.
LEMMA BalanceIsTotal ==
    ASSUME SessionKnown, NEW b, NEW log \in Logs, GoodLog(b, log),
           NEW n \in 0 .. log.top, NEW k, k = log.led[n],
           \A f \in k.processed : SentOff(f.req),
           NEW a \in Accounts
    PROVE  k.bal[a] = Total(EffectiveIds(k, a))
PROOF
<1> DEFINE K == Effective(k.processed, a)
           T == [i \in EffectiveIds(k, a) |-> Gain(CHOOSE r \in Requests : r.id = i)]
<1>1. k \in Ledger /\ Unique(k.processed)
  BY LogLedgers
<1>2. K \in SUBSET Entry /\ OneEach(K) /\ \A e \in K : SentOff(e.req) /\ e.req \in Request
  <2>1. k.processed \in SUBSET Entry
    BY <1>1 DEF Ledger
  <2>2. \A e \in k.processed : e.req \in Request
    BY <2>1 DEF Entry
  <2> QED
    BY <1>1, <2>1, <2>2 DEF Effective, OneEach, Unique, SameKey
<1>3. k.bal[a] = SumFunction(Gains(K))
  BY LogCounts DEF Counts, Totals
<1>4. DOMAIN Gains(K) = EffectiveIds(k, a)
  BY DEF Gains, EffectiveIds
<1>5. \A i \in EffectiveIds(k, a) : Gains(K)[i] = T[i]
  <2> SUFFICES ASSUME NEW i \in EffectiveIds(k, a) PROVE Gains(K)[i] = T[i]
    OBVIOUS
  <2>1. PICK e \in K : i = e.req.id
    BY DEF EffectiveIds
  <2>2. Gains(K)[i] = Gain(e.req)
    BY <1>2, <2>1, GainsAt
  <2>3. Gain(CHOOSE r \in Requests : r.id = e.req.id) = Gain(e.req)
    BY <1>2, LookedUp
  <2> QED
    BY <2>1, <2>2, <2>3
<1>6. Gains(K) = [i \in DOMAIN Gains(K) |-> Gains(K)[i]]
  BY DEF Gains
<1>7. Gains(K) = T
  BY <1>4, <1>5, <1>6
<1> QED
  BY <1>3, <1>7 DEF Total

\* Every reply to an update is one of the log.
LEMMA ReplyFiled ==
    ASSUME SessionKnown, NEW b, NEW log \in Logs, GoodLog(b, log), OwnUpdates(b, log),
           NEW e \in Entry, e.req.type # "QUERY", ReplyInLog(log, e)
    PROVE  /\ SentOff(e.req)
           /\ \E f \in log.led[e.req.seq].processed :
                /\ f \in Entry /\ f \in log.led[log.top].processed
                /\ f.reply = e.reply /\ SameRequest(f.req, e.req)
PROOF
<1>1. /\ InLog(log, e.req) /\ e.req.seq \in 0 .. log.top
      /\ \E f \in log.led[e.req.seq].processed : Decides(f, e)
  BY DEF ReplyInLog
<1>2. PICK f \in log.led[e.req.seq].processed : Decides(f, e)
  BY <1>1
<1>3. SentOff(e.req)
  BY <1>1 DEF InLog, OwnUpdates
<1>4. /\ log.top \in Nat /\ log.top \in 0 .. log.top /\ e.req.seq <= log.top
      /\ e.req.seq \in Nat
  BY <1>1, LogFields
<1>5. f \in log.led[log.top].processed
  BY <1>1, <1>4 DEF GoodLog
<1>6. f \in Entry
  <2>1. log.led[log.top] \in Ledger
    BY <1>4, LogFields
  <2> QED
    BY <1>5, <2>1 DEF Ledger
<1>7. SentOff(f.req) /\ f.req \in Request /\ e.req \in Request
  BY <1>5, <1>6 DEF OwnUpdates, Entry
<1>8. f.req.id = e.req.id
  BY <1>2 DEF Decides, SameKey
<1>9. SameRequest(f.req, e.req)
  BY <1>3, <1>7, <1>8, SentAlike
<1>10. f.reply = e.reply
  BY <1>2, <1>9 DEF Decides, req_consistent, SameRequest
<1> QED
  BY <1>3, <1>5, <1>6, <1>9, <1>10

\* So it is truthful too.
LEMMA TruthfulUpdate ==
    ASSUME SessionKnown, NEW b, NEW log \in Logs, GoodLog(b, log), TruthfulLog(b, log),
           NEW e \in Entry, e.req.type # "QUERY", ReplyInLog(log, e)
    PROVE  Truthful(e)
PROOF
<1>0. OwnUpdates(b, log)
  BY DEF TruthfulLog
<1>1. PICK f \in log.led[e.req.seq].processed :
        /\ f \in Entry /\ f \in log.led[log.top].processed
        /\ f.reply = e.reply /\ SameRequest(f.req, e.req)
  BY <1>0, ReplyFiled
<1>2. SentOff(e.req)
  BY <1>0, ReplyFiled
<1>3. Truthful(f)
  BY <1>1 DEF TruthfulLog
<1>4. e.reply.id = e.req.id /\ e.reply.acct = e.req.acct
  BY <1>1, <1>3 DEF Truthful, SameRequest
<1>5. ASSUME Awaited(e.req) PROVE Explained(e)
  <2>1. Awaited(f.req)
    BY <1>1, <1>5 DEF Awaited, SameRequest
  <2>2. Explained(f)
    BY <1>3, <2>1 DEF Truthful
  <2>3. Own(e) = Own(f) /\ e.req.bank = f.req.bank /\ e.req.acct = f.req.acct
    BY <1>1 DEF Own, SameRequest
  <2> QED
    BY <1>1, <2>2, <2>3 DEF Explained
<1> QED
  BY <1>2, <1>4, <1>5 DEF Truthful

\* Ledger n of the log has the updates that the client knows to be processed,
\* and beside them only some that it gave up, and perhaps the current one.
LEMMA Classified ==
    ASSUME SessionKnown, ClientTypeOK, NEW b, NEW log \in Logs, GoodLog(b, log),
           OwnUpdates(b, log), replies \in SUBSET Entry,
           \A g \in replies : SentOff(g.req),
           NEW n \in 0 .. log.top,
           \A g \in replies : g.req.bank = b =>
                ReplyInLog(log, g) /\ g.req.seq <= n,
           NEW k, k = log.led[n], NEW a \in Accounts
    PROVE  /\ Confirmed(cl.next - 1, b, a) \in SUBSET EffectiveIds(k, a)
           /\ \A e \in Effective(k.processed, a) :
                \/ e.req.id \in Confirmed(cl.next - 1, b, a)
                \/ e.req.id \in GivenUp(cl.next - 1, b, a)
                \/ Awaited(e.req)
PROOF
<1>1. k \in Ledger /\ Unique(k.processed) /\ k.processed \in SUBSET Entry
  <2>1. k \in Ledger /\ Unique(k.processed)
    BY LogLedgers
  <2> QED
    BY <2>1 DEF Ledger
<1>2. /\ log.top \in Nat /\ n \in 0 .. log.top /\ n <= log.top
      /\ log.top \in 0 .. log.top
  BY LogFields
<1>3. \A f \in k.processed : /\ SentOff(f.req) /\ f.req \in Request
                             /\ f.req.bank = b /\ f.req.type # "QUERY"
  <2>1. k.processed \in SUBSET log.led[log.top].processed
    BY <1>2 DEF GoodLog
  <2> QED
    BY <2>1 DEF OwnUpdates, Ours
\* What the client was told about the i-th request is in the ledger.
<1>4. ASSUME NEW i \in DOMAIN session, session[i].req.type # "QUERY",
             session[i].req.bank = b, NEW q \in session[i].accepted
      PROVE  \E f \in k.processed : f.reply = q /\ SameRequest(f.req, session[i].req)
  <2>1. PICK g \in replies : g.reply = q /\ g.req.id = session[i].req.id
    BY DEF SessionKnown
  <2>2. g \in Entry /\ g.req \in Request /\ SentOff(g.req)
    BY DEF Entry
  <2>3. SameRequest(g.req, session[i].req)
    <3>1. PICK j \in DOMAIN request_vector : SameRequest(g.req, request_vector[j])
      BY <2>2, SentIsRequest
    <3>2. i \in DOMAIN request_vector /\ session[i].req = request_vector[i]
      <4>1. i \in 1 .. Len(session) /\ Len(session) = cl.next - 1
        BY DEF SessionKnown, ClientTypeOK
      <4>2. cl.next \in 1 .. Len(request_vector) + 1
        BY DEF ClientTypeOK
      <4> QED
        BY <4>1, <4>2, RequestTypes DEF SessionKnown
    <3>3. j = i
      BY <2>1, <3>1, <3>2, ClientAssumption DEF SameRequest
    <3> QED
      BY <3>1, <3>2, <3>3
  <2>4. g.req.bank = b /\ g.req.type # "QUERY"
    BY <1>4, <2>3 DEF SameRequest
  <2>5. ReplyInLog(log, g) /\ g.req.seq <= n
    BY <2>4
  <2>6. PICK f \in log.led[g.req.seq].processed :
            f.reply = g.reply /\ SameRequest(f.req, g.req)
    BY <2>2, <2>4, <2>5, ReplyFiled
  <2>7. f \in k.processed
    <3>1. g.req.seq \in 0 .. log.top
      BY <2>5 DEF ReplyInLog
    <3> QED
      BY <1>2, <2>5, <2>6, <3>1 DEF GoodLog
  <2> QED
    BY <2>1, <2>3, <2>6, <2>7 DEF SameRequest
<1>5. ASSUME NEW x \in Confirmed(cl.next - 1, b, a) PROVE x \in EffectiveIds(k, a)
  <2>1. PICK i \in Updates(b, a) :
            /\ x = session[i].req.id
            /\ \E q \in session[i].accepted : q.outcome = "PROCESSED"
    BY <1>5 DEF Confirmed
  <2>2. PICK q \in session[i].accepted : q.outcome = "PROCESSED"
    BY <2>1
  <2>3. /\ i \in DOMAIN session /\ session[i].req.type # "QUERY"
        /\ session[i].req.bank = b /\ session[i].req.acct = a
    BY DEF Updates
  <2>4. PICK f \in k.processed : f.reply = q /\ SameRequest(f.req, session[i].req)
    BY <1>4, <2>3
  <2>5. f \in Effective(k.processed, a) /\ f.req.id = x
    BY <2>1, <2>2, <2>3, <2>4 DEF Effective, SameRequest
  <2> QED
    BY <2>5 DEF EffectiveIds
<1>6. ASSUME NEW e \in Effective(k.processed, a), ~Awaited(e.req),
             e.req.id \notin GivenUp(cl.next - 1, b, a)
      PROVE  e.req.id \in Confirmed(cl.next - 1, b, a)
  <2>1. /\ e \in k.processed /\ e.req.acct = a /\ e.reply.outcome = "PROCESSED"
    BY DEF Effective
  <2>2. PICK i \in DOMAIN request_vector :
            i <= cl.next /\ SameRequest(e.req, request_vector[i])
    BY <1>3, <2>1, SentIsRequest
  <2>3. i # cl.next
    BY <1>6, <2>2 DEF Awaited, Current, SameRequest
  <2>4. /\ cl.next \in Nat /\ i \in Nat \ {0} /\ i <= cl.next - 1
        /\ i \in DOMAIN session /\ session[i].req = request_vector[i]
    <3>1. /\ cl.next \in 1 .. Len(request_vector) + 1
          /\ session \in Seq([req : Requests, accepted : SUBSET Reply])
          /\ Len(session) = cl.next - 1
      BY DEF ClientTypeOK, SessionKnown
    <3>2. i \in 1 .. Len(request_vector)
      BY RequestTypes
    <3>3. cl.next \in Nat /\ i \in Nat \ {0} /\ i <= cl.next - 1
      BY <2>2, <2>3, <3>1, <3>2, RequestTypes
    <3>4. i \in DOMAIN session
      BY <3>1, <3>3
    <3> QED
      BY <3>3, <3>4 DEF SessionKnown
  <2>5. i \in Updates(b, a) /\ session[i].req.id = e.req.id
    BY <1>3, <2>1, <2>2, <2>4 DEF Updates, SameRequest
  <2>6. session[i].accepted # {}
    BY <1>6, <2>4, <2>5 DEF GivenUp
  <2>7. PICK q \in session[i].accepted : TRUE
    BY <2>6
  <2>8. PICK f \in k.processed : f.reply = q /\ SameRequest(f.req, session[i].req)
    BY <1>4, <2>4, <2>5 DEF Updates
  <2>9. f = e
    BY <1>1, <2>1, <2>2, <2>4, <2>8 DEF Unique, SameKey, SameRequest
  <2>10. q.outcome = "PROCESSED"
    BY <2>1, <2>8, <2>9
  <2> QED
    BY <2>4, <2>5, <2>7, <2>10 DEF Confirmed
<1> QED
  BY <1>5, <1>6

\* What the ledger says explains the answer e to the current request.
LEMMA LedgerExplains ==
    ASSUME SessionKnown, ClientTypeOK, NEW b, NEW log \in Logs, GoodLog(b, log),
           OwnUpdates(b, log), replies \in SUBSET Entry,
           \A g \in replies : SentOff(g.req),
           NEW n \in 0 .. log.top,
           \A g \in replies : g.req.bank = b =>
                ReplyInLog(log, g) /\ g.req.seq <= n,
           NEW k, k = log.led[n], NEW e, NEW a \in Accounts, e.req.bank = b,
           e.req.acct = a, e.reply.balance = k.bal[a],
           Own(e) \in SUBSET EffectiveIds(k, a),
           \A f \in Effective(k.processed, a) : Awaited(f.req) => f.req.id \in Own(e)
    PROVE  Explained(e)
PROOF
<1> DEFINE ids == EffectiveIds(k, a)
           con == Confirmed(cl.next - 1, b, a)
           S == ids \ (con \cup Own(e))
<1>1. /\ con \in SUBSET ids
      /\ \A f \in Effective(k.processed, a) :
            \/ f.req.id \in con
            \/ f.req.id \in GivenUp(cl.next - 1, b, a)
            \/ Awaited(f.req)
  BY Classified
<1>2. \A x \in S : x \in GivenUp(cl.next - 1, b, a)
  BY <1>1 DEF EffectiveIds
<1>3. con \cup S \cup Own(e) = ids
  BY <1>1
<1>4. \A f \in k.processed : SentOff(f.req)
  <2>1. /\ log.top \in Nat /\ n <= log.top /\ log.top \in 0 .. log.top
    BY LogFields
  <2>2. k.processed \in SUBSET log.led[log.top].processed
    BY <2>1 DEF GoodLog
  <2> QED
    BY <2>2 DEF OwnUpdates
<1>5. k.bal[a] = Total(ids)
  BY <1>4, BalanceIsTotal
<1> HIDE DEF ids, con, S
<1>6. e.reply.balance = Total(con \cup S \cup Own(e))
  BY <1>3, <1>5
<1>7. S \in SUBSET GivenUp(cl.next - 1, e.req.bank, e.req.acct)
  BY <1>2
<1> QED
  BY <1>6, <1>7 DEF Explained, con

\* The entry that update n of a log files.
LEMMA FreshEntry ==
    ASSUME NEW b, NEW log \in Logs, GoodLog(b, log), NEW n \in 1 .. log.top,
           NEW f \in log.led[n].processed, f \notin log.led[n - 1].processed
    PROVE  /\ f \in Entry /\ f.req = log.req[n]
           /\ f.reply.id = f.req.id /\ f.reply.acct = f.req.acct
           /\ f.reply.balance = log.led[n].bal[f.req.acct]
PROOF
<1>1. /\ log.top \in Nat /\ n - 1 \in 0 .. log.top /\ n \in 0 .. log.top
  BY LogFields
<1> DEFINE k == log.led[n - 1]
           req == log.req[n]
           u == update_request_reply(k, req)
           old == History(k, req)
           bal == IF old = {} THEN update_balance(k, req) ELSE k.bal
<1>2. k \in Ledger
  BY <1>1, LogLedgers
<1>3. log.led[n] = Moved(k, req) /\ req \in Request
  BY DEF GoodLog, Ours
<1>4. Updated(k, req, old, bal, u)
  BY UpdateParts
<1>5. u.check = "NEWREQ" <=> old = {}
  BY <1>2, <1>3, Verdict
<1>6. f \in Entry
  <2>1. log.led[n] \in Ledger
    BY <1>1, LogLedgers
  <2> QED
    BY <2>1 DEF Ledger
<1> HIDE DEF k, req, u, old, bal
<1>7. /\ log.led[n].bal = u.ledger.bal
      /\ log.led[n].processed = IF u.check = "NEWREQ" THEN k.processed \cup {u.entry}
                                ELSE k.processed
  BY <1>2, <1>3 DEF Moved, u, Ledger
<1>8. u.check = "NEWREQ" /\ f = u.entry /\ old = {}
  BY <1>5, <1>7 DEF k
<1>9. /\ u.ledger.bal = bal
      /\ u.entry.req = req
      /\ u.entry.reply.id = req.id /\ u.entry.reply.acct = req.acct
      /\ u.entry.reply.balance = bal[req.acct]
  <2>1. u.ledger = [k EXCEPT !.bal = bal, !.accts = @ \cup {req.acct}]
    BY <1>4 DEF Updated
  <2>2. /\ u.entry = [req |-> req, reply |-> u.entry.reply]
        /\ u.entry.reply = [id |-> req.id, acct |-> req.acct,
                            outcome |-> IF Covered(k, req) THEN "PROCESSED"
                                        ELSE "INSUFFICIENT_FUNDS",
                            balance |-> bal[req.acct]]
    BY <1>4, <1>8 DEF Updated
  <2> QED
    BY <1>2, <2>1, <2>2 DEF Ledger
<1> QED
  BY <1>6, <1>7, <1>8, <1>9 DEF req

\* A log that goes on with an update that the client has sent.
LEMMA OwnGoesOn ==
    ASSUME NEW b, NEW old \in Logs, GoodLog(b, old), OwnUpdates(b, old),
           NEW new \in Logs, GoodLog(b, new), NEW n \in 0 .. old.top,
           NEW R, Continued(R, n, old, new), \A r \in R : \E d \in udp : d.req = r
    PROVE  /\ OwnUpdates(b, new)
           /\ \A f \in new.led[new.top].processed :
                \/ f \in old.led[old.top].processed
                \/ /\ f \in Entry /\ Ours(b, f.req)
                   /\ f.reply.id = f.req.id /\ f.reply.acct = f.req.acct
                   /\ f.reply.balance = new.led[new.top].bal[f.req.acct]
PROOF
<1>1. /\ old.top \in Nat /\ n \in Nat /\ n <= old.top
      /\ new.top = n + 1 /\ new.top \in 1 .. new.top
      /\ n \in 0 .. old.top /\ old.top \in 0 .. old.top
  BY LogFields DEF Continued
<1>2. /\ \A m \in 0 .. n : new.req[m] = old.req[m] /\ new.led[m] = old.led[m]
      /\ [new.req[n + 1] EXCEPT !.seq = 0] \in R
  BY DEF Continued, SameUpTo
<1>3. SentOff(new.req[n + 1])
  BY <1>2 DEF SentOff
<1>4. \A m \in 1 .. new.top : SentOff(new.req[m])
  <2>1. ASSUME NEW m \in 1 .. new.top, m # n + 1 PROVE SentOff(new.req[m])
    <3>1. m \in 0 .. n /\ m \in 1 .. old.top
      BY <1>1, <2>1
    <3> QED
      BY <1>2, <3>1 DEF OwnUpdates
  <2> QED
    BY <1>3, <2>1
<1>5. new.led[new.top - 1].processed \in SUBSET old.led[old.top].processed
  <2>1. new.led[new.top - 1] = old.led[n]
    BY <1>1, <1>2
  <2> QED
    BY <1>1, <2>1 DEF GoodLog
<1>6. ASSUME NEW f \in new.led[new.top].processed,
             f \notin old.led[old.top].processed
      PROVE  /\ f \in Entry /\ f.req = new.req[new.top] /\ Ours(b, f.req)
             /\ f.reply.id = f.req.id /\ f.reply.acct = f.req.acct
             /\ f.reply.balance = new.led[new.top].bal[f.req.acct]
  <2>1. f \notin new.led[new.top - 1].processed
    BY <1>5, <1>6
  <2>2. /\ f \in Entry /\ f.req = new.req[new.top]
        /\ f.reply.id = f.req.id /\ f.reply.acct = f.req.acct
        /\ f.reply.balance = new.led[new.top].bal[f.req.acct]
    BY <1>1, <2>1, FreshEntry
  <2>3. Ours(b, new.req[new.top])
    BY <1>1 DEF GoodLog
  <2> QED
    BY <2>2, <2>3
<1>7. \A f \in new.led[new.top].processed : Ours(b, f.req) /\ SentOff(f.req)
  BY <1>1, <1>3, <1>6 DEF OwnUpdates
<1> QED
  BY <1>4, <1>6, <1>7 DEF OwnUpdates

LEMMA TruthfulGoesOn ==
    ASSUME SessionKnown, ClientTypeOK, NEW b, NEW old \in Logs, GoodLog(b, old),
           TruthfulLog(b, old), NEW new \in Logs, GoodLog(b, new),
           NEW n \in 0 .. old.top, NEW R, Continued(R, n, old, new),
           \A r \in R : \E d \in udp : d.req = r,
           replies \in SUBSET Entry, \A g \in replies : SentOff(g.req),
           \A g \in replies : g.req.bank = b =>
                ReplyInLog(new, g) /\ g.req.seq <= n
    PROVE  TruthfulLog(b, new)
PROOF
<1>1. OwnUpdates(b, old)
  BY DEF TruthfulLog
<1>2. /\ OwnUpdates(b, new)
      /\ \A f \in new.led[new.top].processed :
                \/ f \in old.led[old.top].processed
                \/ /\ f \in Entry /\ Ours(b, f.req)
                   /\ f.reply.id = f.req.id /\ f.reply.acct = f.req.acct
                   /\ f.reply.balance = new.led[new.top].bal[f.req.acct]
  BY <1>1, OwnGoesOn
<1>3. /\ new.top \in Nat /\ new.top \in 0 .. new.top
      /\ n \in Nat /\ new.top = n + 1
  BY LogFields DEF Continued
<1>4. \A g \in replies : g.req.bank = b => ReplyInLog(new, g) /\ g.req.seq <= new.top
  <2>1. \A g \in replies : g.req.seq \in Nat
    BY RequestFields DEF Entry
  <2> QED
    BY <1>3, <2>1
<1>5. Unique(new.led[new.top].processed)
  BY <1>3 DEF GoodLog
<1>6. ASSUME NEW f \in new.led[new.top].processed,
             f \notin old.led[old.top].processed, Awaited(f.req)
      PROVE  Explained(f)
  <2> DEFINE k == new.led[new.top]
             a == f.req.acct
  <2>1. /\ f \in Entry /\ Ours(b, f.req) /\ f.reply.balance = k.bal[a]
    BY <1>2, <1>6
  <2>2. a \in Accounts /\ f.req.bank = b /\ f.req.type # "QUERY"
    BY <2>1, RequestFields DEF Ours
  <2>3. Own(f) \in SUBSET EffectiveIds(k, a)
    BY <1>6, <2>2 DEF Own, EffectiveIds, Effective
  <2>4. \A h \in Effective(k.processed, a) : Awaited(h.req) => h.req.id \in Own(f)
    <3>1. ASSUME NEW h \in Effective(k.processed, a), Awaited(h.req)
          PROVE  h.req.id \in Own(f)
      <4>1. /\ h \in k.processed /\ h.req.acct = a
            /\ h.reply.outcome = "PROCESSED" /\ h.req.id = f.req.id
        BY <1>6, <3>1 DEF Effective, Awaited
      <4>2. h = f
        BY <1>5, <1>6, <4>1 DEF Unique, SameKey
      <4> QED
        BY <2>2, <4>1, <4>2 DEF Own
    <3> QED
      BY <3>1
  <2> HIDE DEF k, a
  <2>5. /\ k = new.led[new.top] /\ f.req.acct = a
    BY DEF k, a
  <2> QED
    BY <1>2, <1>3, <1>4, <2>1, <2>2, <2>3, <2>4, <2>5, LedgerExplains
<1>7. \A f \in new.led[new.top].processed : Truthful(f)
  BY <1>2, <1>6 DEF Truthful, OwnUpdates, TruthfulLog
<1> QED
  BY <1>2, <1>7 DEF TruthfulLog

\* The answer of a tail to a query.
LEMMA TruthfulRead ==
    ASSUME SessionKnown, ClientTypeOK, NEW b, NEW log \in Logs, GoodLog(b, log),
           OwnUpdates(b, log), replies \in SUBSET Entry,
           \A g \in replies : SentOff(g.req),
           NEW e \in Entry, e.req.type = "QUERY", e.req.bank = b,
           ReplyInLog(log, e), SentOff(e.req),
           e.reply.id = e.req.id, e.reply.acct = e.req.acct,
           \A g \in replies : g.req.bank = b =>
                ReplyInLog(log, g) /\ g.req.seq <= e.req.seq
    PROVE  Truthful(e)
PROOF
<1> SUFFICES ASSUME Awaited(e.req) PROVE Explained(e)
  BY DEF Truthful
<1> DEFINE n == e.req.seq
           k == log.led[n]
           a == e.req.acct
<1>1. n \in 0 .. log.top /\ e.reply.balance = k.bal[a]
  BY DEF ReplyInLog
<1>2. a \in Accounts /\ Own(e) = {} /\ e.req \in Request
  BY RequestFields DEF Own, Entry
<1>3. ASSUME NEW f \in Effective(k.processed, a) PROVE ~Awaited(f.req)
  <2>1. /\ log.top \in Nat /\ n <= log.top /\ log.top \in 0 .. log.top
    BY <1>1, LogFields
  <2>2. f \in log.led[log.top].processed
    BY <1>1, <1>3, <2>1 DEF GoodLog, Effective
  <2>3. f.req \in Request /\ f.req.type # "QUERY" /\ SentOff(f.req)
    BY <2>2 DEF OwnUpdates, Ours
  <2>4. f.req.id = e.req.id => SameRequest(f.req, e.req)
    BY <1>2, <2>3, SentAlike
  <2> QED
    BY <2>3, <2>4 DEF Awaited, SameRequest
<1> HIDE DEF n, k, a
<1>4. k = log.led[n] /\ e.req.acct = a /\ e.req.seq = n
  BY DEF n, k, a
<1> QED
  BY <1>1, <1>2, <1>3, <1>4, LedgerExplains

-----------------------------------------------------------------------------
(* Steps of the chains.                                                    *)

\* All that the client can be told is truthful.
LEMMA AllTruthful ==
    ASSUME TypeOK, SessionKnown, TruthfulReads, TruthfulLogs
    PROVE  \A e \in replies : e \in Entry /\ Truthful(e) /\ SentOff(e.req)
PROOF
<1> SUFFICES ASSUME NEW e \in replies
             PROVE  e \in Entry /\ Truthful(e) /\ SentOff(e.req)
  OBVIOUS
<1>1. e \in Entry /\ e.req.bank \in Banks
  BY RequestFields DEF TypeOK, Entry
<1>2. CASE e.req.type = "QUERY"
  BY <1>1, <1>2 DEF TruthfulReads, Truthful
<1>3. CASE e.req.type # "QUERY"
  <2>1. PICK log \in Logs : Logged(e.req.bank, log) /\ TruthfulLog(e.req.bank, log)
    BY <1>1 DEF TruthfulLogs
  <2>2. GoodLog(e.req.bank, log) /\ ReplyInLog(log, e)
    BY <2>1 DEF Logged
  <2>3. Truthful(e)
    BY <1>1, <1>3, <2>1, <2>2, TruthfulUpdate
  <2> QED
    BY <1>1, <2>3 DEF Truthful
<1> QED
  BY <1>2, <1>3

\* The step is none of the client.
LEMMA LoopStays ==
    ASSUME UNCHANGED loop, NEW e
    PROVE  /\ Truthful(e)' <=> Truthful(e)
           /\ SentOff(e)' <=> SentOff(e)
PROOF
<1>1. cl' = cl /\ udp' = udp /\ session' = session
  BY DEF loop
<1>2. SentOff(e)' <=> SentOff(e)
  BY <1>1 DEF SentOff
<1>3. SentOff(e.req)' <=> SentOff(e.req)
  BY <1>1 DEF SentOff
<1>4. Awaited(e.req)' <=> Awaited(e.req)
  BY <1>1 DEF Awaited, Current
<1>5. Explained(e)' <=> Explained(e)
  BY <1>1 DEF Explained, GivenUp, Confirmed, Updates
<1> QED
  BY <1>2, <1>3, <1>4, <1>5 DEF Truthful

\* A handler that answers no query.
LEMMA NoQueryAnswer ==
    ASSUME NEW b, NEW st, NEW res,
           \/ Calm(b, st, res)
           \/ \E num \in Request : Ours(b, num) /\ Applies(b, st, num, res),
           NEW i \in DOMAIN res.out, res.out[i].msg.type = "CLIENT_REPLY"
    PROVE  res.out[i].msg.entry.req.type # "QUERY"
PROOF
<1>1. CASE Calm(b, st, res)
  BY <1>1 DEF Calm, Mute
<1>2. CASE \E num \in Request : Ours(b, num) /\ Applies(b, st, num, res)
  <2>1. PICK num \in Request : Ours(b, num) /\ Applies(b, st, num, res)
    BY <1>2
  <2>2. PICK v : v = update_request_reply(Canon(st.ledger), num)
    OBVIOUS
  <2>3. res.out[i].msg.entry = v.entry
    BY <2>1, <2>2 DEF Applies, Mute
  <2>4. v.entry.req = num
    BY <2>2 DEF update_request_reply
  <2> QED
    BY <2>1, <2>3, <2>4 DEF Ours
<1> QED
  BY <1>1, <1>2

\* The answer to query r.
QueryAnswer(e, r) ==
    /\ [e.req EXCEPT !.seq = 0] = r
    /\ e.reply.id = e.req.id /\ e.reply.acct = e.req.acct

\* A server that answers a query has been asked by a client.
LEMMA AskedAnswers ==
    ASSUME PlainUpdates, TypeOK, SeqInv, PlainInv, HistoryInv, NEW s \in alive,
           NEW R \in SUBSET (ClientUpdates \cup ClientQueries), NEW res,
           Asked(s, R, res), NEW i \in DOMAIN res.out,
           NEW e, e = res.out[i].msg.entry,
           res.out[i].msg.type = "CLIENT_REPLY", e.req.type = "QUERY"
    PROVE  \E r \in R : QueryAnswer(e, r)
PROOF
<1>1. srv[s] \in ServerState /\ BankOf[s] \in Banks
  BY ChainAssumption DEF TypeOK
<1>2. PICK b \in Banks : b = BankOf[s]
  BY <1>1
<1>3. PICK log \in Logs : Logged(b, log)
  BY DEF HistoryInv
<1>4. CASE tcp[s] # <<>> /\ Answers(s, Head(tcp[s]), res)
  <2>1. \/ Calm(b, srv[s], res)
        \/ \E num \in Request : Ours(b, num) /\ Applies(b, srv[s], num, res)
    BY <1>2, <1>3, <1>4, AnswerCalm
  <2> QED
    BY <2>1, NoQueryAnswer
<1>5. CASE res = [st |-> srv[s], out |-> sending[s]]
  BY <1>5 DEF PlainInv, PlainSends, PlainSend
<1>6. CASE \E r \in R : r.bank = BankOf[s] /\ res = receive_request(s, srv[s], r)
  <2>1. PICK r \in R : r.bank = BankOf[s] /\ res = receive_request(s, srv[s], r)
    BY <1>6
  <2>2. CASE r \in ClientUpdates
    <3>1. \/ Calm(b, srv[s], res)
          \/ \E num \in Request : Ours(b, num) /\ Applies(b, srv[s], num, res)
      BY <1>2, <1>3, <2>1, <2>2, ClientNumbers
    <3> QED
      BY <3>1, NoQueryAnswer
  <2>3. CASE r \in ClientQueries
    <3>1. r \in Request /\ r.type = "QUERY" /\ r.seq = 0
      BY <2>3, ChainAssumption DEF ClientRequest
    <3>2. PICK st \in ServerState : st = srv[s]
      BY <1>1
    <3>3. res = handle_query(st, r)
      BY <2>1, <3>1, <3>2, Zenon DEF receive_request
    <3> DEFINE l == get_balance(st.ledger, r.acct)
               q == [r EXCEPT !.seq = st.bank_update_seq]
               p == [id |-> r.id, acct |-> r.acct, outcome |-> "PROCESSED",
                     balance |-> l.bal[r.acct]]
               f == [req |-> q, reply |-> p]
               o == reply_to_client(f)
               x == Abort("query at tail")
    <3>4. res.out = IF st.istail THEN <<o>> ELSE <<x>>
      BY <3>3 DEF handle_query
    <3>5. /\ q.type = "QUERY" /\ q.id = r.id /\ q.acct = r.acct
          /\ [q EXCEPT !.seq = 0] = r
      BY <3>1 DEF Request, RequestRecord
    <3>6. o.msg.entry = f
      BY <3>5 DEF reply_to_client, Send
    <3>7. x.msg.type # "CLIENT_REPLY"
      BY DEF Abort, Send
    <3>8. QueryAnswer(f, r)
      BY <3>5 DEF QueryAnswer
    <3> HIDE DEF l, q, p, f, o, x
    <3>9. e = f
      BY <3>4, <3>6, <3>7
    <3> QED
      BY <3>8, <3>9
  <2> QED
    BY <2>2, <2>3
<1> QED
  BY <1>4, <1>5, <1>6 DEF Asked

\* What a step of a server adds to the replies.
LEMMA PerformAnswers ==
    ASSUME PlainUpdates, TypeOK, ServersObey, RolesInv, SeqInv, PlainInv, HistoryInv,
           NEW s \in alive, NEW inbox, NEW res,
           Handled(s, inbox, res), Perform(s, inbox, res),
           NEW R \in SUBSET (ClientUpdates \cup ClientQueries), Asked(s, R, res)
    PROVE  /\ replies \in SUBSET replies'
           /\ \A e \in replies' \ replies : e.req.type = "QUERY" =>
                    \E r \in R : QueryAnswer(e, r)
PROOF
<1>1. Outcome(srv[s], res)
  BY HandledEffect DEF Effect
<1>2. CASE Die(s, inbox)
  BY <1>2 DEF Die
<1>3. CASE Transmit(s, inbox, res.out)
  <2>1. res.out \in Seq(Outgoing)
    <3>1. ServerSend \in SUBSET Outgoing /\ res.out \in Seq(ServerSend)
      BY <1>1 DEF ServerSend, Outcome
    <3> QED
      BY <3>1
  <2>2. /\ replies \in SUBSET replies'
        /\ \A e \in replies' \ replies :
                /\ 1 \in DOMAIN res.out /\ res.out[1].msg.type = "CLIENT_REPLY"
                /\ e = res.out[1].msg.entry
    BY <1>3, <2>1, NewReply
  <2>3. ASSUME NEW e \in replies' \ replies, e.req.type = "QUERY"
        PROVE  \E r \in R : QueryAnswer(e, r)
    BY <2>2, <2>3, AskedAnswers
  <2> QED
    BY <2>2, <2>3
<1> QED
  BY <1>2, <1>3 DEF Perform

\* The properties of a session, in terms of the sequence.
UpdatesIn(ses, b, a) ==
    {i \in DOMAIN ses : /\ ses[i].req.type # "QUERY"
                        /\ ses[i].req.bank = b /\ ses[i].req.acct = a}

ConfirmedIn(ses, n, b, a) ==
    {ses[i].req.id : i \in {i \in UpdatesIn(ses, b, a) : i <= n /\
        \E q \in ses[i].accepted : q.outcome = "PROCESSED"}}

GivenUpIn(ses, n, b, a) ==
    {ses[i].req.id : i \in {i \in UpdatesIn(ses, b, a) : i <= n /\
        ses[i].accepted = {}}}

ConsistentAt(ses, j, p) ==
    \E S \in SUBSET GivenUpIn(ses, j - 1, ses[j].req.bank, p.acct) :
        p.balance = Total(ConfirmedIn(ses, j, ses[j].req.bank, p.acct) \cup S)

LEMMA SessionAsSequence ==
    /\ \A n, b, a : /\ Confirmed(n, b, a) = ConfirmedIn(session, n, b, a)
                    /\ GivenUp(n, b, a) = GivenUpIn(session, n, b, a)
    /\ SessionConsistent <=>
            \A j \in DOMAIN session : \A p \in session[j].accepted :
                ConsistentAt(session, j, p)
    /\ SessionConsistent' <=>
            \A j \in DOMAIN session' : \A p \in session'[j].accepted :
                ConsistentAt(session', j, p)
PROOF
<1>1. \A n, b, a : /\ Confirmed(n, b, a) = ConfirmedIn(session, n, b, a)
                   /\ GivenUp(n, b, a) = GivenUpIn(session, n, b, a)
  BY Zenon DEF Confirmed, ConfirmedIn, GivenUp, GivenUpIn, Updates, UpdatesIn
<1>2. SessionConsistent <=>
            \A j \in DOMAIN session : \A p \in session[j].accepted :
                ConsistentAt(session, j, p)
  BY Zenon DEF SessionConsistent, ConsistentAt, Confirmed, ConfirmedIn, GivenUp,
               GivenUpIn, Updates, UpdatesIn
<1>3. SessionConsistent' <=>
            \A j \in DOMAIN session' : \A p \in session'[j].accepted :
                ConsistentAt(session', j, p)
  BY Zenon DEF SessionConsistent, ConsistentAt, Confirmed, ConfirmedIn, GivenUp,
               GivenUpIn, Updates, UpdatesIn
<1> QED
  BY <1>1, <1>2, <1>3

\* The session does not change, and what it was told stays.
LEMMA SessionStays ==
    ASSUME UNCHANGED loop, replies \in SUBSET replies', SessionKnown,
           SessionConsistent
    PROVE  SessionKnown' /\ SessionConsistent'
PROOF
<1>1. cl' = cl /\ udp' = udp /\ session' = session
  BY DEF loop
<1>2. SessionKnown'
  BY <1>1 DEF SessionKnown
<1>3. SessionConsistent'
  BY <1>1, SessionAsSequence
<1> QED
  BY <1>2, <1>3

\* A server handles a message, or a request that the client has sent.
LEMMA PerformSession ==
    ASSUME PlainUpdates, TypeOK, TypeOK', ServersObey, RolesInv, SeqInv, PlainInv,
           HistoryInv, CurrentRead, ClientTypeOK, SessionInv, UNCHANGED loop,
           NEW s \in alive, NEW inbox, NEW res,
           Handled(s, inbox, res), Perform(s, inbox, res), Counted(s, res),
           NEW R \in SUBSET (ClientUpdates \cup ClientQueries), Asked(s, R, res),
           \A r \in R : \E d \in udp : d.req = r
    PROVE  SessionInv'
PROOF
<1>1. SessionKnown /\ TruthfulReads /\ TruthfulLogs /\ SessionConsistent
  BY DEF SessionInv
<1>2. \A g \in replies : g \in Entry /\ Truthful(g) /\ SentOff(g.req)
  BY <1>1, AllTruthful
<1>3. /\ replies \in SUBSET replies'
      /\ \A e \in replies' \ replies : e.req.type = "QUERY" =>
                \E r \in R : QueryAnswer(e, r)
  BY PerformAnswers
<1>4. replies \in SUBSET Entry /\ replies' \in SUBSET Entry
  BY DEF TypeOK
<1>5. ASSUME NEW b \in Banks
      PROVE  \E log \in Logs : Logged(b, log)' /\ log.top <= arrivals' /\ TruthfulLog(b, log)
  <2>1. PICK old \in Logs :
            Logged(b, old) /\ old.top <= arrivals /\ TruthfulLog(b, old)
    BY <1>1 DEF TruthfulLogs
  <2>2. PICK log \in Logs :
            /\ Logged(b, log)' /\ log.top <= arrivals'
            /\ \/ log = old
               \/ /\ b = BankOf[s]
                  /\ Continued(R, srv[s].bank_update_seq, old, log)
    BY <2>1, PerformLogs
  <2>3. CASE log = old
    BY <2>1, <2>2, <2>3
  <2>4. CASE b = BankOf[s] /\ Continued(R, srv[s].bank_update_seq, old, log)
    <3>1. PICK n : n = srv[s].bank_update_seq
      OBVIOUS
    <3>2. n \in 0 .. old.top
      <4>1. s \in Living(b) /\ n \in Nat /\ old.top \in Nat
        BY <2>4, <3>1, LogFields DEF Living, TypeOK, ServerState
      <4>2. n <= old.top
        BY <2>1, <3>1, <4>1 DEF Logged, StateInLog
      <4> QED
        BY <4>1, <4>2
    <3>3. GoodLog(b, old) /\ GoodLog(b, log)
      BY <2>1, <2>2 DEF Logged
    <3>4. \A g \in replies : g.req.bank = b => ReplyInLog(log, g) /\ g.req.seq <= n
      <4>1. \A g \in replies : g.req.bank = b => ReplyInLog(log, g)
        BY <1>3, <2>2 DEF Logged
      <4>2. \A g \in replies : g.req.bank = b => g.req.seq <= n
        BY <2>4, <3>1 DEF SeqInv, GoodReplies, Applied
      <4> QED
        BY <4>1, <4>2
    <3>5. TruthfulLog(b, log)
      BY <1>1, <1>2, <1>4, <2>1, <2>4, <3>1, <3>2, <3>3, <3>4, TruthfulGoesOn
    <3> QED
      BY <2>2, <3>5
  <2> QED
    BY <2>2, <2>3, <2>4
<1>6. TruthfulLogs'
  <2> SUFFICES ASSUME NEW b \in Banks
               PROVE  \E log \in Logs :
                        Logged(b, log)' /\ log.top <= arrivals' /\ TruthfulLog(b, log)'
    BY DEF TruthfulLogs
  <2>1. PICK log \in Logs :
            Logged(b, log)' /\ log.top <= arrivals' /\ TruthfulLog(b, log)
    BY <1>5
  <2>2. /\ \A n \in 1 .. log.top : SentOff(log.req[n])'
        /\ \A f \in log.led[log.top].processed :
                Ours(b, f.req) /\ SentOff(f.req)' /\ Truthful(f)'
    BY <2>1, LoopStays DEF TruthfulLog, OwnUpdates
  <2>3. TruthfulLog(b, log)'
    BY <2>2 DEF TruthfulLog, OwnUpdates
  <2> QED
    BY <2>1, <2>3
<1>7. ASSUME NEW e \in replies', e.req.type = "QUERY" PROVE Truthful(e)'
  <2>1. CASE e \in replies
    BY <1>2, <2>1, LoopStays
  <2>2. CASE e \notin replies
    <3>1. PICK r \in R : QueryAnswer(e, r)
      BY <1>3, <1>7, <2>2
    <3>2. SentOff(e.req) /\ e.reply.id = e.req.id /\ e.reply.acct = e.req.acct
      BY <3>1 DEF QueryAnswer, SentOff
    <3>3. e \in Entry /\ e.req.bank \in Banks
      BY <1>4, RequestFields DEF Entry
    <3>4. PICK b \in Banks : b = e.req.bank
      BY <3>3
    <3>5. PICK log \in Logs : Logged(b, log)' /\ TruthfulLog(b, log)
      BY <1>5
    <3>6. /\ GoodLog(b, log) /\ ReplyInLog(log, e) /\ OwnUpdates(b, log)
          /\ \A g \in replies : g.req.bank = b => ReplyInLog(log, g)
      BY <1>3, <3>4, <3>5 DEF Logged, TruthfulLog
    <3>7. \A g \in replies : g.req.bank = b => g.req.seq <= e.req.seq
      BY <1>7, <2>2, <3>4 DEF CurrentRead
    <3>8. Truthful(e)
      BY <1>1, <1>2, <1>4, <1>7, <3>2, <3>3, <3>4, <3>6, <3>7, TruthfulRead
    <3> QED
      BY <3>8, LoopStays
  <2> QED
    BY <2>1, <2>2
<1>8. TruthfulReads'
  BY <1>7 DEF TruthfulReads
<1>9. SessionKnown' /\ SessionConsistent'
  BY <1>1, <1>3, SessionStays
<1> QED
  BY <1>6, <1>8, <1>9 DEF SessionInv

\* A step that answers nobody and keeps the logs.
LEMMA QuietSession ==
    ASSUME SessionInv, UNCHANGED loop, replies' = replies, arrivals' = arrivals,
           LogsStay
    PROVE  SessionInv'
PROOF
<1>1. SessionKnown /\ TruthfulReads /\ TruthfulLogs /\ SessionConsistent
  BY DEF SessionInv
<1>2. SessionKnown' /\ SessionConsistent'
  BY <1>1, SessionStays
<1>3. TruthfulReads'
  BY <1>1, LoopStays DEF TruthfulReads
<1>4. ASSUME NEW b \in Banks
      PROVE  \E log \in Logs :
                Logged(b, log)' /\ log.top <= arrivals' /\ TruthfulLog(b, log)'
  <2>1. PICK log \in Logs :
            Logged(b, log) /\ log.top <= arrivals /\ TruthfulLog(b, log)
    BY <1>1 DEF TruthfulLogs
  <2>2. Logged(b, log)' /\ log.top <= arrivals'
    BY <2>1 DEF LogsStay
  <2>3. /\ \A n \in 1 .. log.top : SentOff(log.req[n])'
        /\ \A f \in log.led[log.top].processed :
                Ours(b, f.req) /\ SentOff(f.req)' /\ Truthful(f)'
    BY <2>1, LoopStays DEF TruthfulLog, OwnUpdates
  <2>4. TruthfulLog(b, log)'
    BY <2>3 DEF TruthfulLog, OwnUpdates
  <2> QED
    BY <2>2, <2>4
<1>5. TruthfulLogs'
  BY <1>4 DEF TruthfulLogs
<1> QED
  BY <1>2, <1>3, <1>5 DEF SessionInv

-----------------------------------------------------------------------------
(* Steps of the client.                                                    *)

\* The client stays with its request, or takes a reply to it, or none, and
\* turns to the next one.
Stays ==
    /\ session' = session /\ cl'.next = cl.next
    /\ udp \in SUBSET udp' /\ \A d \in udp' : d \in udp \/ d.req = Current

GoesOn(A) ==
    /\ udp' = udp /\ cl'.next = cl.next + 1
    /\ session' = Append(session, [req |-> Current, accepted |-> A])
    /\ \/ A = {}
       \/ \E e \in replies : A = {e.reply} /\ e.reply.id = Current.id

LEMMA ClientMoves ==
    ASSUME TypeOK, ClientTypeOK, KnowsServers, ClientStep
    PROVE  /\ UNCHANGED vars /\ cl.next \in DOMAIN request_vector
           /\ Stays \/ \E A \in SUBSET Reply : GoesOn(A)
PROOF
<1>1. UNCHANGED vars /\ cl.pc # "done"
  BY DEF ClientStep, SendRequest, Timeout, ReceiveReply, ReceiveNewHead, ReceiveNewTail
<1>2. cl \in ClientState /\ cl.next \in DOMAIN request_vector
  BY <1>1 DEF ClientTypeOK, ClientState, Turns, Tries, KnowsServers
<1>3. \A c \in ClientState : \A i : Turn(c, i).next = i
  BY DEF Turn, ClientState
<1>4. CASE SendRequest
  <2>1. /\ cl' = [cl EXCEPT !.pc = "wait"] /\ session' = session
        /\ udp' = udp \cup {[to |-> cl.target, req |-> Current]}
    BY <1>4 DEF SendRequest
  <2>2. cl'.next = cl.next
    BY <1>2, <2>1 DEF ClientState
  <2>3. Stays
    BY <2>1, <2>2 DEF Stays
  <2> QED
    BY <1>1, <1>2, <2>3
<1>5. CASE Timeout
  <2>1. udp' = udp
    BY <1>5 DEF Timeout
  <2>2. CASE cl.retry + 1 > resend_num
    <3>1. /\ cl' = Turn(cl, cl.next + 1)
          /\ session' = Append(session, [req |-> Current, accepted |-> {}])
      BY <1>5, <2>2 DEF Timeout
    <3>2. GoesOn({})
      BY <1>2, <1>3, <2>1, <3>1 DEF GoesOn
    <3> QED
      BY <1>1, <1>2, <3>2
  <2>3. CASE ~(cl.retry + 1 > resend_num)
    <3> DEFINE g == IF resend_newhead THEN Target(cl, Current) ELSE cl.target
    <3>1. /\ cl' = [cl EXCEPT !.pc = "send", !.retry = @ + 1, !.target = g]
          /\ session' = session
      BY <1>5, <2>3 DEF Timeout
    <3> HIDE DEF g
    <3>2. cl'.next = cl.next
      BY <1>2, <3>1 DEF ClientState
    <3>3. Stays
      BY <2>1, <3>1, <3>2 DEF Stays
    <3> QED
      BY <1>1, <1>2, <3>3
  <2> QED
    BY <2>2, <2>3
<1>6. CASE ReceiveReply
  <2> DEFINE n == cl.recv_count + 1
             c == [cl EXCEPT !.recv_count = n]
  <2>1. PICK e \in replies :
            IF ~drop_reply(c.recv_count) /\ Accepts(e.reply)
            THEN /\ cl' = Turn(c, cl.next + 1)
                 /\ session' = Append(session, [req |-> Current,
                                                accepted |-> {e.reply}])
            ELSE cl' = c /\ session' = session
    BY <1>6 DEF ReceiveReply
  <2>2. udp' = udp /\ n \in Nat /\ {e.reply} \in SUBSET Reply
    BY <1>2, <1>6 DEF ReceiveReply, ClientState, TypeOK, Entry
  <2> HIDE DEF n
  <2>3. c \in ClientState /\ c.next = cl.next
    BY <1>2, <2>2 DEF ClientState
  <2> HIDE DEF c
  <2>4. CASE ~drop_reply(c.recv_count) /\ Accepts(e.reply)
    <3>1. GoesOn({e.reply})
      BY <1>3, <2>1, <2>2, <2>3, <2>4 DEF GoesOn, Accepts
    <3> QED
      BY <1>1, <1>2, <2>2, <3>1
  <2>5. CASE cl' = c /\ session' = session
    <3>1. Stays
      BY <2>2, <2>3, <2>5 DEF Stays
    <3> QED
      BY <1>1, <1>2, <3>1
  <2> QED
    BY <2>1, <2>4, <2>5
<1>7. CASE ReceiveNewHead \/ ReceiveNewTail
  <2>1. /\ udp' = udp /\ session' = session
        /\ \E b, s : \/ cl' = [cl EXCEPT !.bank_head_list[b] = s]
                     \/ cl' = [cl EXCEPT !.bank_tail_list[b] = s]
    BY <1>7 DEF ReceiveNewHead, ReceiveNewTail
  <2>2. cl'.next = cl.next
    BY <1>2, <2>1 DEF ClientState
  <2>3. Stays
    BY <2>1, <2>2 DEF Stays
  <2> QED
    BY <1>1, <1>2, <2>3
<1> QED
  BY <1>4, <1>5, <1>6, <1>7 DEF ClientStep

\* What was truthful stays so, if the client sends its request once more.
LEMMA StaysTruthful ==
    ASSUME Stays, NEW e, Truthful(e)
    PROVE  Truthful(e)'
PROOF
<1>1. SentOff(e.req)'
  BY DEF Truthful, SentOff, Stays
<1>2. Awaited(e.req)' <=> Awaited(e.req)
  BY DEF Awaited, Current, Stays
<1>3. Explained(e)' <=> Explained(e)
  <2>1. session' = session /\ cl'.next = cl.next
    BY DEF Stays
  <2> QED
    BY <2>1 DEF Explained, GivenUp, Confirmed, Updates
<1> QED
  BY <1>1, <1>2, <1>3 DEF Truthful

\* And if the client turns to the next request, of which nobody knows yet.
LEMMA GoesOnTruthful ==
    ASSUME SessionKnown, ClientTypeOK, NEW A, GoesOn(A), NEW e,
           e.req \in Request, Truthful(e)
    PROVE  Truthful(e)'
PROOF
<1>1. SentOff(e.req) /\ e.reply.id = e.req.id /\ e.reply.acct = e.req.acct
  BY DEF Truthful
<1>2. SentOff(e.req)'
  BY <1>1 DEF SentOff, GoesOn
<1>3. PICK k \in DOMAIN request_vector :
        k <= cl.next /\ SameRequest(e.req, request_vector[k])
  BY <1>1, SentIsRequest
<1>4. cl'.next = cl.next + 1 /\ cl.next \in Nat /\ k \in Nat
  BY RequestTypes DEF GoesOn, ClientTypeOK
<1>5. ~Awaited(e.req)'
  <2> SUFFICES ASSUME cl'.next \in DOMAIN request_vector,
                      e.req.id = request_vector[cl'.next].id
               PROVE  FALSE
    BY DEF Awaited, Current
  <2>1. k = cl'.next
    BY <1>3, ClientAssumption DEF SameRequest
  <2> QED
    BY <1>3, <1>4, <2>1
<1> QED
  BY <1>1, <1>2, <1>5 DEF Truthful

\* Either way.
LEMMA MovesTruthful ==
    ASSUME TypeOK, SessionKnown, ClientTypeOK, UNCHANGED vars,
           TruthfulReads, TruthfulLogs, Stays \/ \E A \in SUBSET Reply : GoesOn(A)
    PROVE  TruthfulReads' /\ TruthfulLogs'
PROOF
<1>1. \A e : e.req \in Request /\ Truthful(e) => Truthful(e)'
  BY StaysTruthful, GoesOnTruthful
<1>2. udp \in SUBSET udp' /\ replies' = replies /\ arrivals' = arrivals
  BY DEF Stays, GoesOn, vars
<1>3. TruthfulReads'
  BY <1>1, <1>2 DEF TruthfulReads, TypeOK, Entry
<1>4. ASSUME NEW b \in Banks
      PROVE  \E log \in Logs :
                Logged(b, log)' /\ log.top <= arrivals' /\ TruthfulLog(b, log)'
  <2>1. PICK log \in Logs :
            Logged(b, log) /\ log.top <= arrivals /\ TruthfulLog(b, log)
    BY DEF TruthfulLogs
  <2>2. Logged(b, log)'
    BY <2>1 DEF Logged, Told, Living, vars
  <2>3. \A r : SentOff(r) => SentOff(r)'
    BY <1>2 DEF SentOff
  <2>4. OwnUpdates(b, log)'
    BY <2>1, <2>3 DEF TruthfulLog, OwnUpdates
  <2>5. \A f \in log.led[log.top].processed : Truthful(f)'
    BY <1>1, <2>1 DEF TruthfulLog, OwnUpdates, Ours
  <2>6. TruthfulLog(b, log)'
    BY <2>4, <2>5 DEF TruthfulLog
  <2> QED
    BY <1>2, <2>1, <2>2, <2>6
<1>5. TruthfulLogs'
  BY <1>4 DEF TruthfulLogs
<1> QED
  BY <1>3, <1>5

\* One more request x in the session: earlier positions keep their confirmed and
\* given-up updates of account a of bank b, and x is confirmed when it was an update of
\* that account and was processed.
OneMore(new, ses, x, b, a) ==
    /\ \A n \in 0 .. Len(ses) :
        /\ ConfirmedIn(new, n, b, a) = ConfirmedIn(ses, n, b, a)
        /\ GivenUpIn(new, n, b, a) = GivenUpIn(ses, n, b, a)
    /\ ConfirmedIn(new, Len(ses) + 1, b, a) =
        ConfirmedIn(ses, Len(ses), b, a) \cup
        IF /\ x.req.type # "QUERY" /\ x.req.bank = b /\ x.req.acct = a
           /\ \E q \in x.accepted : q.outcome = "PROCESSED"
        THEN {x.req.id} ELSE {}

LEMMA AppendedSession ==
    ASSUME NEW X, NEW ses \in Seq(X), NEW x \in X, NEW new, new = Append(ses, x),
           NEW b, NEW a
    PROVE  OneMore(new, ses, x, b, a)
PROOF
<1>1. PICK m : m = Len(ses) + 1
  OBVIOUS
<1>2. /\ Len(ses) \in Nat /\ m \in Nat /\ new[m] = x
      /\ \A i : i \in DOMAIN new <=> i \in DOMAIN ses \/ i = m
      /\ \A i \in DOMAIN ses : new[i] = ses[i] /\ i \in Nat /\ i <= Len(ses) /\ i # m
  BY <1>1
<1>3. ASSUME NEW n \in 0 .. Len(ses)
      PROVE  /\ ConfirmedIn(new, n, b, a) = ConfirmedIn(ses, n, b, a)
             /\ GivenUpIn(new, n, b, a) = GivenUpIn(ses, n, b, a)
  <2>1. \A i : i \in UpdatesIn(new, b, a) /\ i <= n <=> i \in UpdatesIn(ses, b, a) /\ i <= n
    BY <1>1, <1>2 DEF UpdatesIn
  <2>2. \A i \in UpdatesIn(ses, b, a) : new[i] = ses[i]
    BY <1>2 DEF UpdatesIn
  <2> QED
    BY <2>1, <2>2 DEF ConfirmedIn, GivenUpIn
<1> DEFINE done(y) == \E q \in y.accepted : q.outcome = "PROCESSED"
           fits == x.req.type # "QUERY" /\ x.req.bank = b /\ x.req.acct = a
           K == {i \in UpdatesIn(ses, b, a) : i <= Len(ses) /\ done(ses[i])}
           M == {i \in UpdatesIn(new, b, a) : i <= m /\ done(new[i])}
<1>4. /\ \A i \in UpdatesIn(ses, b, a) : /\ i \in UpdatesIn(new, b, a)
                                         /\ new[i] = ses[i] /\ i <= Len(ses) /\ i <= m
      /\ \A i \in UpdatesIn(new, b, a) : i \in UpdatesIn(ses, b, a) \/ i = m
      /\ m \in UpdatesIn(new, b, a) <=> fits
      /\ m <= m
  BY <1>1, <1>2 DEF UpdatesIn
<1>5. /\ ConfirmedIn(new, m, b, a) = {new[i].req.id : i \in M}
      /\ ConfirmedIn(ses, Len(ses), b, a) = {ses[i].req.id : i \in K}
  BY Zenon DEF ConfirmedIn
<1> HIDE DEF done, fits
<1>6. ASSUME NEW i \in K PROVE i \in M /\ new[i] = ses[i]
  BY <1>4
<1>7. ASSUME NEW i \in M PROVE i \in K \/ (i = m /\ fits /\ done(x))
  BY <1>2, <1>4
<1>8. fits /\ done(x) => m \in M
  BY <1>2, <1>4
<1> HIDE DEF K, M
<1>9. {new[i].req.id : i \in M} =
        {ses[i].req.id : i \in K} \cup IF fits /\ done(x) THEN {x.req.id} ELSE {}
  <2> DEFINE E == IF fits /\ done(x) THEN {x.req.id} ELSE {}
  <2>1. ASSUME NEW z \in {new[i].req.id : i \in M}
        PROVE  z \in {ses[i].req.id : i \in K} \cup E
    <3>1. PICK i \in M : z = new[i].req.id
      BY <2>1
    <3>2. CASE i \in K
      BY <1>6, <3>1, <3>2
    <3>3. CASE i = m /\ fits /\ done(x)
      BY <1>2, <3>1, <3>3
    <3> QED
      BY <1>7, <3>2, <3>3
  <2>2. ASSUME NEW z \in {ses[i].req.id : i \in K} PROVE z \in {new[i].req.id : i \in M}
    BY <1>6
  <2>3. ASSUME NEW z \in E PROVE z \in {new[i].req.id : i \in M}
    <3>1. fits /\ done(x) /\ z = x.req.id
      BY <2>3
    <3> QED
      BY <1>2, <1>8, <3>1
  <2> QED
    BY <2>1, <2>2, <2>3
<1>10. ConfirmedIn(new, m, b, a) =
        ConfirmedIn(ses, Len(ses), b, a) \cup
        IF fits /\ done(x) THEN {x.req.id} ELSE {}
  BY <1>5, <1>9
<1> QED
  BY <1>1, <1>3, <1>10 DEF fits, done, OneMore

\* The client stays with its request.
LEMMA StaysSession ==
    ASSUME SessionKnown, SessionConsistent, Stays, UNCHANGED vars,
           cl.next \in DOMAIN request_vector
    PROVE  SessionKnown' /\ SessionConsistent'
PROOF
<1>1. session' = session /\ cl'.next = cl.next /\ replies' = replies
  BY DEF Stays, vars
<1>2. \A d \in udp' : \E k \in DOMAIN request_vector :
            k <= cl'.next /\ d.req = request_vector[k]
  <2>1. cl.next <= cl.next
    BY RequestTypes
  <2> QED
    BY <1>1, <2>1 DEF SessionKnown, Stays, Current
<1>3. SessionKnown'
  BY <1>1, <1>2 DEF SessionKnown
<1>4. SessionConsistent'
  BY <1>1, SessionAsSequence
<1> QED
  BY <1>3, <1>4

\* The client takes a reply, or gives up.
LEMMA TurnSession ==
    ASSUME TypeOK, ClientTypeOK, SessionInv, UNCHANGED vars,
           cl.next \in DOMAIN request_vector, NEW A \in SUBSET Reply, GoesOn(A)
    PROVE  SessionKnown' /\ SessionConsistent'
PROOF
<1>1. SessionKnown /\ TruthfulReads /\ TruthfulLogs /\ SessionConsistent
  BY DEF SessionInv
<1>2. \A e \in replies : e \in Entry /\ Truthful(e) /\ SentOff(e.req)
  BY <1>1, AllTruthful
<1> DEFINE X == [req : Requests, accepted : SUBSET Reply]
           x == [req |-> Current, accepted |-> A]
<1>3. /\ session \in Seq(X) /\ cl.next \in Nat \ {0} /\ Len(session) = cl.next - 1
      /\ Current \in Requests /\ x \in X
  BY <1>1, RequestTypes DEF ClientTypeOK, SessionKnown, Current
<1>4. /\ x.req = Current /\ x.accepted = A
  OBVIOUS
<1>5. /\ session' = Append(session, x) /\ cl'.next = cl.next + 1
      /\ udp' = udp /\ replies' = replies
  BY DEF GoesOn, vars
<1> HIDE DEF X, x
<1>6. /\ Len(session') = cl.next /\ DOMAIN session' = 1 .. cl.next
      /\ DOMAIN session = 1 .. cl.next - 1
      /\ session'[cl.next] = x
      /\ \A i \in DOMAIN session : session'[i] = session[i]
      /\ \A i \in DOMAIN session' : i \in DOMAIN session \/ i = cl.next
  BY <1>3, <1>5
\* The request that was answered is the current one.
<1>7. ASSUME NEW e \in replies, e.reply.id = Current.id
      PROVE  /\ SameRequest(e.req, Current) /\ e.reply.acct = e.req.acct
             /\ Explained(e)
  <2>1. e.req \in Request /\ Truthful(e)
    BY <1>2 DEF Entry
  <2>2. e.req.id = Current.id /\ e.reply.acct = e.req.acct /\ SentOff(e.req)
    BY <1>7, <2>1 DEF Truthful
  <2>3. PICK k \in DOMAIN request_vector : SameRequest(e.req, request_vector[k])
    BY <1>1, <2>1, <2>2, SentIsRequest
  <2>4. k = cl.next
    BY <2>2, <2>3, ClientAssumption DEF SameRequest, Current
  <2>5. Explained(e)
    BY <2>1, <2>2 DEF Truthful, Awaited
  <2> QED
    BY <2>2, <2>3, <2>4, <2>5 DEF Current
<1>8. SessionKnown'
  <2>1. Len(session') = cl'.next - 1
    BY <1>3, <1>5, <1>6
  <2>2. ASSUME NEW i \in DOMAIN session'
        PROVE  /\ session'[i].req = request_vector[i]
               /\ \A q \in session'[i].accepted :
                    \E g \in replies : g.reply = q /\ g.req.id = session'[i].req.id
    <3>1. CASE i \in DOMAIN session
      BY <1>1, <1>6, <3>1 DEF SessionKnown
    <3>2. CASE i = cl.next
      <4>1. session'[i].req = Current /\ session'[i].accepted = A
        BY <1>4, <1>6, <3>2
      <4>2. ASSUME NEW q \in A
            PROVE  \E g \in replies : g.reply = q /\ g.req.id = Current.id
        <5>1. PICK e \in replies : A = {e.reply} /\ e.reply.id = Current.id
          BY <4>2 DEF GoesOn
        <5>2. e.req.id = Current.id
          BY <1>7, <5>1 DEF SameRequest
        <5> QED
          BY <5>1, <5>2
      <4> QED
        BY <3>2, <4>1, <4>2 DEF Current
    <3> QED
      BY <1>6, <3>1, <3>2
  <2>3. ASSUME NEW d \in udp
        PROVE  \E k \in DOMAIN request_vector :
                    k <= cl'.next /\ d.req = request_vector[k]
    <3>1. PICK k \in DOMAIN request_vector : k <= cl.next /\ d.req = request_vector[k]
      BY <1>1 DEF SessionKnown
    <3>2. k \in Nat
      BY RequestTypes
    <3>3. k <= cl'.next
      BY <1>3, <1>5, <3>1, <3>2
    <3> QED
      BY <3>1, <3>3
  <2> QED
    BY <1>5, <2>1, <2>2, <2>3 DEF SessionKnown
<1>9. ASSUME NEW j \in DOMAIN session', NEW p \in session'[j].accepted
      PROVE  ConsistentAt(session', j, p)
  <2> DEFINE b == session'[j].req.bank
             a == p.acct
  <2>1. OneMore(session', session, x, b, a)
    <3>1. PICK ses, new, y, c, d :
            /\ ses = session /\ new = session' /\ y = x /\ c = b /\ d = a
      OBVIOUS
    <3>2. ses \in Seq(X) /\ y \in X /\ new = Append(ses, y)
      BY <1>3, <1>5, <3>1
    <3>3. OneMore(new, ses, y, c, d)
      BY <3>2, AppendedSession
    <3> QED
      BY <3>1, <3>3
  <2>2. CASE j \in DOMAIN session
    <3>1. session'[j] = session[j] /\ j \in 0 .. Len(session) /\ j - 1 \in 0 .. Len(session)
      BY <1>3, <1>6, <2>2
    <3>2. ConsistentAt(session, j, p)
      BY <1>1, <2>2, <3>1, SessionAsSequence
    <3>3. /\ ConfirmedIn(session', j, b, a) = ConfirmedIn(session, j, b, a)
          /\ GivenUpIn(session', j - 1, b, a) = GivenUpIn(session, j - 1, b, a)
      BY <2>1, <3>1 DEF OneMore
    <3> QED
      BY <3>1, <3>2, <3>3, Zenon DEF ConsistentAt
  <2>3. CASE j = cl.next
    <3>1. p \in A /\ b = Current.bank
      BY <1>4, <1>6, <2>3
    <3>2. PICK e \in replies : A = {e.reply} /\ e.reply.id = Current.id
      BY <3>1 DEF GoesOn
    <3>3. /\ p = e.reply /\ SameRequest(e.req, Current) /\ a = e.req.acct
          /\ Explained(e)
      BY <1>7, <3>1, <3>2
    <3>4. b = e.req.bank /\ a = Current.acct
      BY <3>1, <3>3 DEF SameRequest
    <3>5. PICK S \in SUBSET GivenUp(cl.next - 1, b, a) :
            p.balance = Total(Confirmed(cl.next - 1, b, a) \cup S \cup Own(e))
      BY <3>3, <3>4 DEF Explained
    <3>6. /\ S \in SUBSET GivenUpIn(session, cl.next - 1, b, a)
          /\ p.balance = Total(ConfirmedIn(session, cl.next - 1, b, a) \cup S \cup Own(e))
      BY <3>5, SessionAsSequence
    <3>7. Own(e) = IF /\ x.req.type # "QUERY" /\ x.req.bank = b /\ x.req.acct = a
                      /\ \E q \in x.accepted : q.outcome = "PROCESSED"
                   THEN {x.req.id} ELSE {}
      BY <1>4, <3>1, <3>2, <3>3, <3>4 DEF Own, SameRequest
    <3>8. /\ cl.next - 1 \in 0 .. Len(session) /\ Len(session) = cl.next - 1
          /\ Len(session) + 1 = cl.next
      BY <1>3
    <3>9. /\ GivenUpIn(session', j - 1, b, a) = GivenUpIn(session, cl.next - 1, b, a)
          /\ ConfirmedIn(session', j, b, a) =
                ConfirmedIn(session, cl.next - 1, b, a) \cup Own(e)
      BY <2>1, <2>3, <3>7, <3>8 DEF OneMore
    <3>10. ConfirmedIn(session, cl.next - 1, b, a) \cup S \cup Own(e) =
                ConfirmedIn(session', j, b, a) \cup S
      BY <3>9
    <3>11. /\ S \in SUBSET GivenUpIn(session', j - 1, b, a)
           /\ p.balance = Total(ConfirmedIn(session', j, b, a) \cup S)
      BY <3>6, <3>9, <3>10
    <3> QED
      BY <3>11, Zenon DEF ConsistentAt
  <2> QED
    BY <1>6, <2>2, <2>3
<1>10. SessionConsistent'
  BY <1>9, SessionAsSequence
<1> QED
  BY <1>8, <1>10

LEMMA ClientSession ==
    ASSUME TypeOK, ClientTypeOK, KnowsServers, SessionInv, ClientStep
    PROVE  SessionInv'
PROOF
<1>1. SessionKnown /\ TruthfulReads /\ TruthfulLogs /\ SessionConsistent
  BY DEF SessionInv
<1>2. /\ UNCHANGED vars /\ cl.next \in DOMAIN request_vector
      /\ Stays \/ \E A \in SUBSET Reply : GoesOn(A)
  BY ClientMoves
<1>3. TruthfulReads' /\ TruthfulLogs'
  BY <1>1, <1>2, MovesTruthful
<1>4. SessionKnown' /\ SessionConsistent'
  BY <1>1, <1>2, StaysSession, TurnSession
<1> QED
  BY <1>3, <1>4 DEF SessionInv

-----------------------------------------------------------------------------
(* All steps.                                                              *)

\* A datagram of the client is handled.
LEMMA DeliverSession ==
    ASSUME PlainUpdates, TypeOK, TypeOK', ServersObey, RolesInv, SeqInv, PlainInv,
           HistoryInv, CurrentRead, KnownOwn, ClientTypeOK, KnowsServers, SessionInv,
           NEW s \in Servers, DeliverRequest(s)
    PROVE  SessionInv'
PROOF
<1>1. PICK d \in udp :
        /\ d.to = s /\ Perform(s, tcp, receive_request(s, srv[s], d.req))
        /\ \/ d.req.type = "QUERY" /\ UNCHANGED arrivals
           \/ /\ d.req.type # "QUERY" /\ arrivals < MaxArrivals
              /\ arrivals' = arrivals + 1
  BY DEF DeliverRequest
<1>2. s \in alive /\ sending[s] = <<>> /\ UNCHANGED loop
  BY DEF DeliverRequest, Idle
<1>3. d.req \in Requests /\ Announces(s, d.req)
  BY <1>1 DEF ClientTypeOK, KnowsServers
<1>4. /\ d.req.bank \in Banks
      /\ d.req.type = "QUERY" => d.req \in ClientQueries
      /\ d.req.type # "QUERY" => d.req \in ClientUpdates
  BY <1>3, RequestTypes DEF Requests
<1>5. BankOf[s] = d.req.bank
  BY <1>3, <1>4 DEF Announces, KnownOwn, ServersOf
<1>6. PICK res : res = receive_request(s, srv[s], d.req)
  OBVIOUS
<1>7. Handled(s, tcp, res)
  BY <1>2, <1>3, <1>4, <1>5, <1>6 DEF Handled, Announces
<1>8. Counted(s, res)
  BY <1>1, <1>4, <1>5, <1>6 DEF Counted
<1>9. PICK R \in SUBSET (ClientUpdates \cup ClientQueries) : R = {d.req}
  BY <1>4
<1>10. Asked(s, R, res) /\ \A r \in R : \E f \in udp : f.req = r
  BY <1>5, <1>6, <1>9 DEF Asked
<1>11. Perform(s, tcp, res)
  BY <1>1, <1>6
<1> QED
  BY <1>2, <1>7, <1>8, <1>10, <1>11, PerformSession

LEMMA InitSession == ClientInit => SessionInv
PROOF
<1> SUFFICES ASSUME ClientInit PROVE SessionInv
  OBVIOUS
<1>1. Init /\ udp = {} /\ session = <<>> /\ replies = {}
  BY DEF ClientInit, Init
<1>2. cl.next = 1
  <2> DEFINE c == [pc |-> "send", next |-> 1, target |-> Nobody, retry |-> 0,
                   recv_count |-> 0,
                   bank_head_list |-> [b \in Banks |-> InitialHead(b)],
                   bank_tail_list |-> [b \in Banks |-> InitialTail(b)]]
  <2>1. cl = Turn(c, 1)
    BY DEF ClientInit
  <2>2. Turn(c, 1).next = 1
    BY DEF Turn
  <2> QED
    BY <2>1, <2>2
<1>3. SessionKnown /\ TruthfulReads /\ SessionConsistent
  BY <1>1, <1>2 DEF SessionKnown, TruthfulReads, SessionConsistent
<1>4. ASSUME NEW b \in Banks
      PROVE  \E log \in Logs :
                Logged(b, log) /\ log.top <= arrivals /\ TruthfulLog(b, log)
  <2>1. HistoryInv
    BY <1>1, InitHistory
  <2>2. PICK log \in Logs : Logged(b, log) /\ log.top <= arrivals
    BY <2>1 DEF HistoryInv
  <2>3. log.top = 0
    BY <1>1, <2>2, LogFields DEF Init
  <2>4. log.led[log.top].processed = {}
    BY <2>2, <2>3 DEF Logged, GoodLog, Canon, Memory, EmptyLedger
  <2>5. TruthfulLog(b, log)
    BY <2>3, <2>4 DEF TruthfulLog, OwnUpdates
  <2> QED
    BY <2>2, <2>5
<1>5. TruthfulLogs
  BY <1>4 DEF TruthfulLogs
<1> QED
  BY <1>3, <1>5 DEF SessionInv

LEMMA NextSession ==
    ASSUME PlainUpdates
    PROVE  /\ IInv /\ IInv' /\ RolesInv /\ RolesInv' /\ SeqInv /\ PlainInv /\ HistoryInv
           /\ KnownOwn /\ ClientTypeOK /\ KnowsServers /\ SessionInv
           /\ [ClientNext]_clientvars
           => SessionInv'
PROOF
<1> SUFFICES ASSUME IInv, IInv', RolesInv, RolesInv', SeqInv, PlainInv, HistoryInv,
                    KnownOwn, ClientTypeOK, KnowsServers, SessionInv,
                    [ClientNext]_clientvars
             PROVE  SessionInv'
  OBVIOUS
<1>1. TypeOK /\ TypeOK' /\ ServersObey /\ MasterKnowsEnds
  BY DEF IInv
<1>2. [Next]_vars
  BY NextClient
<1>3. CurrentRead
  BY <1>2, NextRead
<1>4. CASE ClientStep
  BY <1>1, <1>4, ClientSession
<1>5. CASE \E s \in Servers : DeliverRequest(s)
  BY <1>1, <1>3, <1>5, DeliverSession
<1>6. ASSUME NEW s \in Servers, ServerStep(s), UNCHANGED loop
      PROVE  SessionInv'
  <2>1. s \in alive
    BY <1>6, ServerAnswers
  <2>2. PICK inbox, res : /\ Handled(s, inbox, res) /\ Perform(s, inbox, res)
                          /\ Counted(s, res) /\ Asked(s, {}, res)
    BY <1>6, ServerAnswers
  <2>3. PICK R \in SUBSET (ClientUpdates \cup ClientQueries) : R = {}
    OBVIOUS
  <2>4. Asked(s, R, res) /\ \A r \in R : \E f \in udp : f.req = r
    BY <2>2, <2>3
  <2> QED
    BY <1>1, <1>3, <1>6, <2>1, <2>2, <2>4, PerformSession
<1>7. ASSUME NEW s \in Servers, Crash(s), UNCHANGED loop
      PROVE  SessionInv'
  <2>1. Die(s, tcp) /\ tcp \in Inboxes /\ Took(s, tcp) /\ arrivals' = arrivals
    BY <1>1, <1>7 DEF Crash, TypeOK, Inboxes, Took
  <2>2. LogsStay
    BY <1>1, <2>1, DieLogged DEF LogsStay
  <2>3. replies' = replies
    BY <2>1 DEF Die
  <2> QED
    BY <1>7, <2>1, <2>2, <2>3, QuietSession
<1>8. CASE MasterStep /\ UNCHANGED loop
  BY <1>1, <1>8, MasterLogs, MasterSilent, QuietSession
<1>9. CASE UNCHANGED clientvars
  <2>1. UNCHANGED vars /\ UNCHANGED loop
    BY <1>9 DEF clientvars
  <2>2. LogsStay /\ replies' = replies /\ arrivals' = arrivals
    BY <2>1 DEF LogsStay, Logged, Told, Living, vars
  <2> QED
    BY <2>1, <2>2, QuietSession
<1> QED
  BY <1>4, <1>5, <1>6, <1>7, <1>8, <1>9 DEF ClientNext

\* The client sees its own updates, once each and in order, through timeouts,
\* retries, late and duplicated replies and any crashes: whatever balance it
\* accepts is the sum of the updates it was told are processed, and of some of
\* those it gave up.
THEOREM ClientReadsItsWrites ==
    ASSUME PlainUpdates PROVE ClientSpec => []SessionConsistent
PROOF
<1>1. ClientSpec => Spec /\ [](KnownOwn /\ ClientTypeOK /\ KnowsServers)
  BY ClientInvariant
<1>2. Spec => [](IInv /\ RolesInv /\ SeqInv /\ PlainInv /\ HistoryInv)
  BY HistoryInvariant
<1>3. ClientInit => SessionInv
  BY InitSession
<1>4. /\ IInv /\ IInv' /\ RolesInv /\ RolesInv' /\ SeqInv /\ PlainInv /\ HistoryInv
      /\ KnownOwn /\ ClientTypeOK /\ KnowsServers /\ SessionInv
      /\ [ClientNext]_clientvars
      => SessionInv'
  BY NextSession
<1>5. SessionInv => SessionConsistent
  BY DEF SessionInv
<1> QED
  BY <1>1, <1>2, <1>3, <1>4, <1>5, PTL DEF ClientSpec
=============================================================================
