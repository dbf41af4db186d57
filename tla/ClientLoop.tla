----------------------------- MODULE ClientLoop -----------------------------
(***************************************************************************)
(* One client (Client::run, client/client.cc) and the replicated bank it   *)
(* talks to.  The client works through its requests one by one: it sends a *)
(* request by UDP to the server it takes for the head (an update) or the   *)
(* tail (a query), waits, sends it again after a timeout, and gives it up  *)
(* after resend_num retries.                                               *)
(*                                                                         *)
(* A datagram, in either direction, may be lost, delayed, duplicated and   *)
(* overtaken: what was once sent may arrive at any time, any number of     *)
(* times, or never.  A timeout may come at any time while the client waits.*)
(***************************************************************************)
EXTENDS ChainProperties

CONSTANTS
    request_vector,   \* the requests of the client, in order
    resend_num,       \* how often a request is sent again
    resend_newhead,   \* is a retry sent to the head or tail known by then?
    drop_interval,    \* every so many replies one is dropped on purpose; 0: none
    MaxReplies        \* bound: replies that reach the client

ASSUME ClientAssumption ==
    /\ request_vector \in Seq(ClientUpdates \cup ClientQueries)
    /\ Len(request_vector) > 0
    /\ \A i, j \in DOMAIN request_vector :
            request_vector[i].id = request_vector[j].id => i = j
    /\ resend_num \in Nat
    /\ resend_newhead \in BOOLEAN
    /\ drop_interval \in Nat
    /\ MaxReplies \in Nat

VARIABLES
    cl,       \* the client: state of run() and its members
    udp,      \* the datagrams with requests that were ever sent
    session   \* history: what became of each request so far

loop       == <<cl, udp, session>>
clientvars == <<vars, loop>>

Requests == {request_vector[i] : i \in DOMAIN request_vector}

\* Type of the client's variables: in particular the target is a server and a
\* request is sent at most resend_num times again.
ClientTypeOK ==
    /\ cl \in [pc : {"send", "wait", "done"}, next : 1 .. Len(request_vector) + 1,
               target : Servers, retry : 0 .. resend_num, recv_count : Nat,
               bank_head_list : [Banks -> Servers],
               bank_tail_list : [Banks -> Servers]]
    /\ udp \subseteq [to : Servers, req : Requests]
    /\ session \in Seq([req : Requests, accepted : SUBSET Reply])

-----------------------------------------------------------------------------
\* Defect: a query goes to the head as well.
Target_head(c, req) == c.bank_head_list[req.bank]

\* get_bank_tail for a query, get_bank_head for an update.
Target(c, req) ==
    IF req.type = "QUERY" THEN c.bank_tail_list[req.bank]
    ELSE c.bank_head_list[req.bank]

\* The client turns to request i; the target is chosen from what it knows now.
Turn(c, i) ==
    IF i > Len(request_vector)
    THEN [c EXCEPT !.pc = "done", !.next = i, !.retry = 0]
    ELSE [c EXCEPT !.pc = "send", !.next = i, !.retry = 0,
                   !.target = Target(c, request_vector[i])]

ClientInit ==
    /\ Init
    /\ cl = Turn([pc |-> "send", next |-> 1, target |-> Nobody, retry |-> 0,
                  recv_count |-> 0,
                  bank_head_list |-> [b \in Banks |-> InitialHead(b)],
                  bank_tail_list |-> [b \in Banks |-> InitialTail(b)]], 1)
    /\ udp = {}
    /\ session = <<>>

Current == request_vector[cl.next]

SendRequest ==
    /\ cl.pc = "send"
    /\ udp' = udp \cup {[to |-> cl.target, req |-> Current]}
    /\ cl' = [cl EXCEPT !.pc = "wait"]
    /\ UNCHANGED <<vars, session>>

\* Defect: retries are not counted.
Timeout_uncounted ==
    /\ cl.pc = "wait"
    /\ cl' = [cl EXCEPT !.pc = "send",
                        !.target = IF resend_newhead THEN Target(cl, Current) ELSE @]
    /\ UNCHANGED <<vars, udp, session>>

\* Defect: one retry too many.
Timeout_one_more ==
    /\ cl.pc = "wait"
    /\ IF cl.retry + 1 > resend_num + 1
       THEN /\ cl' = Turn(cl, cl.next + 1)
            /\ session' = Append(session, [req |-> Current, accepted |-> {}])
       ELSE /\ cl' = [cl EXCEPT
                        !.pc = "send", !.retry = @ + 1,
                        !.target = IF resend_newhead THEN Target(cl, Current) ELSE @]
            /\ UNCHANGED session
    /\ UNCHANGED <<vars, udp>>

\* UDPReceiver::receive returns an error because nothing arrived in time: send
\* again, or give the request up.
Timeout ==
    /\ cl.pc = "wait"
    /\ IF cl.retry + 1 > resend_num
       THEN /\ cl' = Turn(cl, cl.next + 1)
            /\ session' = Append(session, [req |-> Current, accepted |-> {}])
       ELSE /\ cl' = [cl EXCEPT
                        !.pc = "send", !.retry = @ + 1,
                        !.target = IF resend_newhead THEN Target(cl, Current) ELSE @]
            /\ UNCHANGED session
    /\ UNCHANGED <<vars, udp>>

\* recv_count_ counts the replies, those that are dropped or stray included.
drop_reply(count) == drop_interval # 0 /\ count % drop_interval = 0

\* Defect: any reply is taken for the answer to the current request.
Accepts_any(reply) == TRUE

\* A reply is accepted by its request id alone.
Accepts(reply) == reply.id = Current.id

ReceiveReply ==
    /\ cl.pc = "wait"
    /\ cl.recv_count < MaxReplies
    /\ \E e \in replies :
        LET counted == [cl EXCEPT !.recv_count = @ + 1]
        IN  IF ~drop_reply(counted.recv_count) /\ Accepts(e.reply)
            THEN /\ cl' = Turn(counted, cl.next + 1)
                 /\ session' = Append(session, [req |-> Current,
                                                accepted |-> {e.reply}])
            ELSE /\ cl' = counted
                 /\ UNCHANGED session
    /\ UNCHANGED <<vars, udp>>

\* A notification of the master.  It is read only while a request waits for its
\* reply, and does not change the target of that request.
ReceiveNewHead ==
    /\ cl.pc = "wait"
    /\ \E b \in Banks : \E s \in known_heads[b] \ {InitialHead(b)} :
            cl' = [cl EXCEPT !.bank_head_list[b] = s]
    /\ UNCHANGED <<vars, udp, session>>

ReceiveNewTail ==
    /\ cl.pc = "wait"
    /\ \E b \in Banks : \E s \in known_tails[b] \ {InitialTail(b)} :
            cl' = [cl EXCEPT !.bank_tail_list[b] = s]
    /\ UNCHANGED <<vars, udp, session>>

ClientStep ==
    \/ SendRequest
    \/ Timeout
    \/ ReceiveReply
    \/ ReceiveNewHead
    \/ ReceiveNewTail

\* A datagram of the client reaches the UDP thread of an idle server.
DeliverRequest(s) ==
    /\ Idle(s)
    /\ \E d \in udp :
        /\ d.to = s
        /\ Perform(s, tcp, receive_request(s, srv[s], d.req))
        /\ \/ d.req.type = "QUERY" /\ UNCHANGED arrivals
           \/ /\ d.req.type # "QUERY" /\ arrivals < MaxArrivals
              /\ arrivals' = arrivals + 1
    /\ UNCHANGED <<master, loop>>

ClientNext ==
    \/ ClientStep
    \/ \E s \in Servers : DeliverRequest(s)
    \/ \E s \in Servers : (ServerStep(s) \/ Crash(s)) /\ UNCHANGED loop
    \/ MasterStep /\ UNCHANGED loop

ClientSpec == ClientInit /\ [][ClientNext]_clientvars

\* The client's thread runs on, and no stray datagrams keep its timeout from
\* expiring for ever.
FairClientSpec ==
    ClientSpec /\ WF_clientvars(SendRequest) /\ WF_clientvars(Timeout)

-----------------------------------------------------------------------------
(* Properties.                                                             *)

\* The client is one of those that module Chain stands for: it sends updates
\* to servers it was told to be heads, queries to servers it was told to be
\* tails, and to those of the request's bank, however late a datagram or a
\* notification of the master comes.
ClientOfChain == Spec

\* The updates with the ids K, summed up.
Total(K) == SumFunction([k \in K |-> Gain(CHOOSE r \in Requests : r.id = k)])

\* The session's updates on account a of bank b.
Updates(b, a) ==
    {i \in DOMAIN session : /\ session[i].req.type # "QUERY"
                            /\ session[i].req.bank = b /\ session[i].req.acct = a}

\* The ids of those that the client was told are processed, and of those that
\* it gave up, among its first n requests.
Confirmed(n, b, a) ==
    {session[i].req.id : i \in {i \in Updates(b, a) : i <= n /\
        \E q \in session[i].accepted : q.outcome = "PROCESSED"}}

GivenUp(n, b, a) ==
    {session[i].req.id : i \in {i \in Updates(b, a) : i <= n /\
        session[i].accepted = {}}}

\* The client sees its own updates, once each and in order, through timeouts,
\* retries, late and duplicated replies and changes of head and tail: the
\* balance in an accepted reply is the sum of the updates that it has been told
\* are processed, up to this one, and of some of those it has given up.
SessionConsistent ==
    \A j \in DOMAIN session : \A p \in session[j].accepted :
        LET b == session[j].req.bank
        IN  \E S \in SUBSET GivenUp(j - 1, b, p.acct) :
                p.balance = Total(Confirmed(j, b, p.acct) \cup S)

\* The client gets through its requests, whatever is lost and whoever crashes.
ClientFinishes == <>(cl.pc = "done")
=============================================================================
