----------------------------- MODULE Heartbeat -----------------------------
(***************************************************************************)
(* Failure detection: every server of a bank sends heartbeats by UDP to    *)
(* the master (heartbeat, server/server.cc), which remembers when it last  *)
(* heard of each and looks for the silent ones at regular intervals        *)
(* (check_alive, Node::become_crashed, master/master.cc).                  *)
(*                                                                         *)
(* Time is discrete.  Ages count up to the bound after which they make no  *)
(* difference; Tick lets time pass only while no thread is later and no    *)
(* message slower than the constants allow.  What the master does about a  *)
(* crash is in module Chain; here the server only leaves the chain.        *)
(***************************************************************************)
EXTENDS Integers, FiniteSets

CONSTANTS
    NumNodes,         \* the servers of the bank are 1 .. NumNodes
    Late,             \* those that start late and join the end of the chain
    report_interval,  \* server_report_interval: of heartbeats and of checks
    crash_timeout,    \* server_fail_timeout
    Latency,          \* how much longer than asked for a thread may sleep
    MaxDelay,         \* how long a message may be on its way
    MaxLost           \* how many heartbeats of a server may be lost in a row

Nodes == 1 .. NumNodes

ASSUME HeartbeatAssumption ==
    /\ NumNodes \in Nat \ {0}
    /\ Late \in SUBSET Nodes /\ Late # Nodes
    /\ \A n \in Late : \A m \in Nodes \ Late : m < n
    /\ report_interval \in Nat \ {0}
    /\ crash_timeout \in Nat
    /\ Latency \in Nat
    /\ MaxDelay \in Nat
    /\ MaxLost \in Nat

VARIABLES
    up,       \* the servers that are running
    beat,     \* server: time since it has sent a heartbeat
    lost,     \* server: heartbeats lost since the last one that was not
    flying,   \* the ages of its heartbeats on their way
    joining,  \* the ages of JOIN messages on their way
    chain,    \* master: server_chain_
    report,   \* master: time since last_report_time_, or Never
    check,    \* master: time since the last round of check_alive
    silent    \* history: time since the server crashed, or Running

vars == <<up, beat, lost, flying, joining, chain, report, check, silent>>

Never   == -1    \* reported_ is false
Running == -1    \* the server has not crashed

Crashed(n) == silent[n] # Running

\* The longest time between two rounds of a loop that sleeps report_interval.
Period == report_interval + Latency

\* The last of k crashed servers is noticed this long after its crash.
NoticedWithin(k) == MaxDelay + crash_timeout + k * Period

Longest == NoticedWithin(NumNodes) + 1

\* Types; and only a server in the chain has a report time, so that one that
\* joins starts without (handle_heartbeat, Node::Node).
TypeOK ==
    /\ up \in SUBSET Nodes
    /\ beat \in [Nodes -> 0 .. Period]
    /\ lost \in [Nodes -> 0 .. MaxLost]
    /\ flying \in [Nodes -> SUBSET (0 .. MaxDelay)]
    /\ joining \in [Nodes -> SUBSET (0 .. MaxDelay)]
    /\ chain \in SUBSET Nodes
    /\ report \in [Nodes -> {Never} \cup 0 .. (crash_timeout + 1)]
    /\ \A n \in Nodes \ chain : report[n] = Never
    /\ check \in 0 .. Period
    /\ silent \in [Nodes -> {Running} \cup 0 .. Longest]

\* The servers of the configuration send their first heartbeat at once.
Init ==
    /\ up = Nodes \ Late
    /\ beat = [n \in Nodes |-> report_interval]
    /\ lost = [n \in Nodes |-> 0]
    /\ flying = [n \in Nodes |-> {}]
    /\ joining = [n \in Nodes |-> {}]
    /\ chain = Nodes \ Late
    /\ report = [n \in Nodes |-> Never]
    /\ check = 0
    /\ silent = [n \in Nodes |-> Running]

-----------------------------------------------------------------------------
(* Servers.                                                                *)

\* A server with a start_delay sends JOIN by TCP and then heartbeats, which
\* another thread of the master may see first.
Join(n) ==
    /\ n \in Late \ (up \cup chain)
    /\ joining[n] = {} /\ ~Crashed(n)
    /\ up' = up \cup {n}
    /\ joining' = [joining EXCEPT ![n] = {0}]
    /\ UNCHANGED <<beat, lost, flying, chain, report, check, silent>>

SendHeartbeat(n) ==
    /\ n \in up
    /\ beat[n] >= report_interval
    /\ beat' = [beat EXCEPT ![n] = 0]
    /\ \/ /\ flying' = [flying EXCEPT ![n] = @ \cup {0}]
          /\ lost' = [lost EXCEPT ![n] = 0]
       \/ /\ lost[n] < MaxLost
          /\ lost' = [lost EXCEPT ![n] = @ + 1]
          /\ UNCHANGED flying
    /\ UNCHANGED <<up, joining, chain, report, check, silent>>

\* A crashed server does not come back; one of the bank lives on.
Crash(n) ==
    /\ n \in up
    /\ (chain \cap up) \ {n} # {}
    /\ up' = up \ {n}
    /\ beat' = [beat EXCEPT ![n] = 0]
    /\ lost' = [lost EXCEPT ![n] = 0]
    /\ silent' = [silent EXCEPT ![n] = 0]
    /\ UNCHANGED <<flying, joining, chain, report, check>>

-----------------------------------------------------------------------------
(* The master.                                                             *)

\* Defect: a heartbeat counts although the server is not in the chain.
handle_heartbeat_unknown(n) ==
    /\ \E age \in flying[n] : flying' = [flying EXCEPT ![n] = @ \ {age}]
    /\ report' = [report EXCEPT ![n] = 0]
    /\ UNCHANGED <<up, beat, lost, joining, chain, check, silent>>

\* A heartbeat of a server that is not, or not yet, in the chain is ignored.
handle_heartbeat(n) ==
    /\ \E age \in flying[n] : flying' = [flying EXCEPT ![n] = @ \ {age}]
    /\ report' = IF n \in chain THEN [report EXCEPT ![n] = 0] ELSE report
    /\ UNCHANGED <<up, beat, lost, joining, chain, check, silent>>

handle_join(n) ==
    /\ joining[n] # {}
    /\ joining' = [joining EXCEPT ![n] = {}]
    /\ chain' = chain \cup {n}
    /\ UNCHANGED <<up, beat, lost, flying, report, check, silent>>

\* Defect: a report that is exactly as old as the timeout counts as too old.
become_crashed_early(n) == report[n] # Never /\ report[n] >= crash_timeout

become_crashed(n) == report[n] # Never /\ report[n] > crash_timeout

\* Defect: the loop ends at the first server, crashed or not.
FirstCrashed_head_only(n) ==
    /\ become_crashed(n)
    /\ \A m \in chain : m >= n

\* The loop over a chain ends with the first crashed server that it finds; the
\* next one has to wait for the next round.
FirstCrashed(n) ==
    /\ become_crashed(n)
    /\ \A m \in chain : m < n => ~become_crashed(m)

check_alive ==
    /\ check >= report_interval
    /\ check' = 0
    /\ chain' = {n \in chain : ~FirstCrashed(n)}
    /\ report' = [n \in Nodes |-> IF n \in chain' THEN report[n] ELSE Never]
    /\ UNCHANGED <<up, beat, lost, flying, joining, silent>>

-----------------------------------------------------------------------------
Older(age, bound) == IF age < bound THEN age + 1 ELSE age

Tick ==
    /\ \A n \in up : beat[n] < Period
    /\ \A n \in Nodes : \A age \in flying[n] \cup joining[n] : age < MaxDelay
    /\ check < Period
    /\ beat' = [n \in Nodes |-> IF n \in up THEN beat[n] + 1 ELSE beat[n]]
    /\ flying' = [n \in Nodes |-> {age + 1 : age \in flying[n]}]
    /\ joining' = [n \in Nodes |-> {age + 1 : age \in joining[n]}]
    /\ report' = [n \in Nodes |->
                    IF report[n] = Never THEN Never
                    ELSE Older(report[n], crash_timeout + 1)]
    /\ check' = check + 1
    /\ silent' = [n \in Nodes |->
                    IF Crashed(n) THEN Older(silent[n], Longest) ELSE Running]
    /\ UNCHANGED <<up, lost, chain>>

Next ==
    \/ \E n \in Nodes :
        \/ Join(n)
        \/ SendHeartbeat(n)
        \/ Crash(n)
        \/ handle_heartbeat(n)
        \/ handle_join(n)
    \/ check_alive
    \/ Tick

Spec == Init /\ [][Next]_vars

-----------------------------------------------------------------------------
(* Properties.                                                             *)

\* The timeout covers the longest silence of a running server.
Patient == (MaxLost + 1) * Period + MaxDelay <= crash_timeout

\* No running server is ever taken for crashed, although some heartbeats are
\* lost or late, threads are slow, and a server joins while its heartbeats are
\* under way; the assumption under which modules Chain and Extension are
\* correct ("a few occasional dropped UDP packets should not cause the master
\* to conclude that a server has failed", project.txt).
NoFalseAlarm == [][Patient => chain \ chain' \subseteq Nodes \ up]_vars

\* A crash is noticed in time, although one round of check_alive removes only
\* one server and a heartbeat may arrive after the crash of its sender; except
\* for a server of which the master has never heard.
CrashesAreNoticed ==
    \A n \in chain \ up :
        \/ report[n] = Never
        \/ silent[n] <= NoticedWithin(Cardinality({m \in Nodes : Crashed(m)}))
=============================================================================
