--------------------------- MODULE ServerThreads ---------------------------
(***************************************************************************)
(* The two threads of a server that handle messages, at the granularity of *)
(* their accesses to processed_map_ and sent_list_.                        *)
(*                                                                         *)
(* The UDP thread of a head handles a client's update under mutex_lock:    *)
(* it searches processed_map_, then sent_list_, then updates and files,    *)
(* then forwards.  The TCP thread takes the mutex for requests only:       *)
(* receive_ack moves the acknowledged entries from sent_list_ to           *)
(* processed_map_, and receive_new_succserver walks over sent_list_,       *)
(* whatever the UDP thread is doing.                                       *)
(*                                                                         *)
(* Unsynchronised accesses to a container are undefined behaviour; of its  *)
(* outcomes only the mildest are modelled, those in which each operation   *)
(* of a container takes effect at one moment.                              *)
(***************************************************************************)
EXTENDS Chain

VARIABLES
    udp,      \* the UDP thread of each server
    popping   \* the servers whose receive_ack has filed the front of sent_list_
              \* as processed and has yet to pop it

threads    == <<udp, popping>>
threadvars == <<vars, threads>>

\* A thread that handles the numbered request req has found this entry of the
\* history (a sequence of at most one), or has filed this one.
Waiting == [pc |-> "idle"]

ThreadsInit ==
    /\ Init
    /\ udp = [s \in Servers |-> Waiting]
    /\ popping = {}

\* Threads end with their process.
SurvivingThreads ==
    /\ udp' = [s \in Servers |-> IF s \in alive' THEN udp[s] ELSE Waiting]
    /\ popping' = popping \cap alive'

MutexFree(s) == udp[s].pc = "idle"

-----------------------------------------------------------------------------
(* The UDP thread of a head.                                               *)

IsHeadOnly(s) == srv[s].ishead /\ ~srv[s].istail

\* Lock, number the update and look it up in processed_map_; an account that
\* is new has no history.
LockAndFind(s) ==
    /\ s \in alive
    /\ MutexFree(s)
    /\ IsHeadOnly(s)
    /\ arrivals < MaxArrivals
    /\ s \in known_heads[BankOf[s]]
    /\ \E r \in ClientUpdates :
        LET l     == srv[s].ledger
            found == {e \in l.processed : SameKey(e.req, r) /\ r.acct \in l.accts}
        IN  /\ r.bank = BankOf[s]
            /\ udp' = [udp EXCEPT ![s] =
                    [pc    |-> IF r.acct \in l.accts /\ found = {}
                               THEN "scan" ELSE "file",
                     req   |-> [r EXCEPT !.seq = srv[s].bank_update_seq + 1],
                     found |-> [i \in 1 .. Cardinality(found) |->
                                    CHOOSE e \in found : TRUE]]]
            /\ srv' = [srv EXCEPT ![s].bank_update_seq = @ + 1,
                                  ![s].ledger.accts = @ \cup {r.acct}]
    /\ arrivals' = arrivals + 1
    /\ UNCHANGED <<alive, aborted, network, master, known_heads, known_tails,
                   replies, popping>>

\* The search of sent_list_.
Scan(s) ==
    /\ udp[s].pc = "scan"
    /\ LET sent == srv[s].ledger.sent
           K    == {i \in DOMAIN sent : FirstSent(sent, udp[s].req, i)}
       IN  udp' = [udp EXCEPT ![s].pc = "file", ![s].found = Pick(sent, K)]
    /\ UNCHANGED <<vars, popping>>

\* Update the balance by what the two searches have found, and file the update.
File(s) ==
    /\ udp[s].pc = "file"
    /\ LET l == srv[s].ledger
           u == update_request_reply(
                    [l EXCEPT !.processed = {}, !.sent = udp[s].found],
                    udp[s].req)
       IN  /\ srv' = [srv EXCEPT ![s].ledger =
                        insert_sent_list([l EXCEPT !.bal = u.ledger.bal], u.entry)]
           /\ udp' = [udp EXCEPT ![s].pc = "forward", ![s].found = <<u.entry>>]
    /\ UNCHANGED <<alive, aborted, network, master, clients, popping>>

\* Forward to the successor the server has now, and unlock.
ForwardAndUnlock(s) ==
    /\ udp[s].pc = "forward"
    /\ tcp' = send_msg_tcp(tcp, forward_request(srv[s], udp[s].found[1]))
    /\ udp' = [udp EXCEPT ![s] = Waiting]
    /\ UNCHANGED <<servers, sending, master, clients, popping>>

-----------------------------------------------------------------------------
(* The TCP thread: the loop of receive_ack.                                *)

Acked(s) ==
    /\ Idle(s)
    /\ tcp[s] # <<>>
    /\ Head(tcp[s]).type = "ACKNOWLEDGE"
    /\ AckedLength(srv[s].ledger.sent, Head(tcp[s]).seq) > 0

AckInsert(s) ==
    /\ Acked(s)
    /\ s \notin popping
    /\ srv' = [srv EXCEPT ![s].ledger = insert_processed_list(@, <<Head(@.sent)>>)]
    /\ popping' = popping \cup {s}
    /\ UNCHANGED <<alive, aborted, network, master, clients, udp>>

AckPop(s) ==
    /\ s \in popping
    /\ srv' = [srv EXCEPT ![s].ledger.sent = Tail(@)]
    /\ popping' = popping \ {s}
    /\ UNCHANGED <<alive, aborted, network, master, clients, udp>>

\* Nothing is left to acknowledge: pass the acknowledgement on.
AckDone(s) ==
    /\ ~Acked(s)
    /\ s \notin popping
    /\ ReceiveAck(s)
    /\ SurvivingThreads

\* Everything else is as in module Chain.
OtherStep(s) ==
    /\ \/ ReceiveRequest(s) /\ MutexFree(s)
       \/ ClientUpdate(s) /\ MutexFree(s) /\ ~IsHeadOnly(s)
       \/ ClientQuery(s)
       \/ ToBeHead(s)
       \/ ToBeTail(s)
       \/ ReceiveNewPreServer(s)
       \/ ReceiveNewSuccServer(s)
       \/ ReceiveTransferReply(s)
       \/ HandleNewHead(s)
       \/ Continue(s)
       \/ Crash(s)
    /\ SurvivingThreads

ThreadsNext ==
    \/ \E s \in Servers :
        \/ LockAndFind(s)
        \/ Scan(s)
        \/ File(s)
        \/ ForwardAndUnlock(s)
        \/ AckInsert(s)
        \/ AckPop(s)
        \/ AckDone(s)
        \/ OtherStep(s)
    \/ MasterStep /\ UNCHANGED threads

ThreadsSpec == ThreadsInit /\ [][ThreadsNext]_threadvars
=============================================================================
