-------------------------- MODULE HeartbeatProofs --------------------------
(***************************************************************************)
(* No false alarm, and every crash noticed in time, for every number of    *)
(* servers, intervals, timeouts, delays and losses that the timeout        *)
(* covers.                                                                 *)
(***************************************************************************)
EXTENDS Heartbeat, FiniteSetTheorems, WellFoundedInduction, TLAPS

\* How old the report of a running server can be: since the last heartbeat
\* that was not lost at most lost * Period + beat has passed, and if the master
\* has not seen that one, or an older one, it is still on its way.
Fresh(n) ==
    \/ report[n] <= lost[n] * Period + beat[n]
    \/ \E age \in flying[n] : report[n] <= (MaxLost + 1) * Period + age

\* The inductive invariant.
HeardOf == \A n \in up : report[n] # Never => Fresh(n)

HInv == TypeOK /\ HeardOf

-----------------------------------------------------------------------------
\* The bounds are whole numbers, and multiplication does what is needed.
LEMMA Bounds ==
    /\ Period \in Nat \ {0}
    /\ Longest \in Nat
    /\ \A k \in 0 .. MaxLost : /\ k * Period \in Nat
                               /\ (k + 1) * Period = k * Period + Period
                               /\ (k + 1) * Period <= (MaxLost + 1) * Period
    /\ (MaxLost + 1) * Period \in Nat
<1>1. Period \in Nat \ {0}
  BY HeartbeatAssumption DEF Period
<1>2. \A k \in Nat : k * Period \in Nat /\ (k + 1) * Period = k * Period + Period
  BY <1>1
<1>3. Longest \in Nat
  <2>1. NumNodes * Period \in Nat
    BY <1>2, HeartbeatAssumption
  <2> QED BY <2>1, HeartbeatAssumption DEF Longest, NoticedWithin
<1>4. \A k \in 0 .. MaxLost : (k + 1) * Period <= (MaxLost + 1) * Period
  <2> SUFFICES ASSUME NEW k \in 0 .. MaxLost
               PROVE  (k + 1) * Period <= (MaxLost + 1) * Period
    OBVIOUS
  <2>1. MaxLost \in Nat /\ k \in Nat /\ MaxLost - k \in Nat
    BY HeartbeatAssumption
  <2>2. (MaxLost + 1) * Period = (k + 1) * Period + (MaxLost - k) * Period
    BY <1>1, <2>1
  <2>3. (MaxLost - k) * Period \in Nat /\ (k + 1) * Period \in Nat
    BY <1>2, <2>1
  <2> QED BY <2>2, <2>3
<1>5. MaxLost \in Nat /\ \A k \in 0 .. MaxLost : k \in Nat
  BY HeartbeatAssumption
<1>6. (MaxLost + 1) * Period \in Nat
  BY <1>2, <1>5
<1> QED BY <1>1, <1>2, <1>3, <1>4, <1>5, <1>6

\* The invariant holds initially.
LEMMA HInit == Init => HInv
<1> SUFFICES ASSUME Init PROVE HInv
  OBVIOUS
<1>1. report_interval \in 0 .. Period
  BY HeartbeatAssumption, Bounds DEF Period
<1>2. TypeOK
  BY <1>1, HeartbeatAssumption, Bounds DEF Init, TypeOK, Never, Running
<1>3. HeardOf
  BY DEF Init, HeardOf
<1> QED BY <1>2, <1>3 DEF HInv

\* Every step preserves the types.
LEMMA HTypes == TypeOK /\ [Next]_vars => TypeOK'
<1> SUFFICES ASSUME TypeOK, [Next]_vars PROVE TypeOK'
  OBVIOUS
<1> USE DEF TypeOK
<1>1. ASSUME NEW n \in Nodes, Join(n) PROVE TypeOK'
  BY <1>1, HeartbeatAssumption DEF Join
<1>2. ASSUME NEW n \in Nodes, SendHeartbeat(n) PROVE TypeOK'
  <2>1. beat' \in [Nodes -> 0 .. Period]
    BY <1>2, Bounds DEF SendHeartbeat
  <2>2. lost' \in [Nodes -> 0 .. MaxLost]
    BY <1>2, HeartbeatAssumption DEF SendHeartbeat
  <2>3. flying' \in [Nodes -> SUBSET (0 .. MaxDelay)]
    BY <1>2, HeartbeatAssumption DEF SendHeartbeat
  <2> QED BY <1>2, <2>1, <2>2, <2>3 DEF SendHeartbeat
<1>3. ASSUME NEW n \in Nodes, Crash(n) PROVE TypeOK'
  BY <1>3, HeartbeatAssumption, Bounds DEF Crash, Running
<1>4. ASSUME NEW n \in Nodes, handle_heartbeat(n) PROVE TypeOK'
  <2>1. flying' \in [Nodes -> SUBSET (0 .. MaxDelay)]
    BY <1>4 DEF handle_heartbeat
  <2>2. report' \in [Nodes -> {Never} \cup 0 .. (crash_timeout + 1)]
    BY <1>4, HeartbeatAssumption DEF handle_heartbeat
  <2> QED BY <1>4, <2>1, <2>2 DEF handle_heartbeat
<1>5. ASSUME NEW n \in Nodes, handle_join(n) PROVE TypeOK'
  BY <1>5 DEF handle_join
<1>6. ASSUME check_alive PROVE TypeOK'
  BY <1>6, Bounds DEF check_alive
<1>7. ASSUME Tick PROVE TypeOK'
  <2>1. beat' \in [Nodes -> 0 .. Period] /\ check' \in 0 .. Period
    BY <1>7, Bounds DEF Tick
  <2>2. flying' \in [Nodes -> SUBSET (0 .. MaxDelay)]
    BY <1>7, HeartbeatAssumption DEF Tick
  <2>3. joining' \in [Nodes -> SUBSET (0 .. MaxDelay)]
    BY <1>7, HeartbeatAssumption DEF Tick
  <2>4. report' \in [Nodes -> {Never} \cup 0 .. (crash_timeout + 1)]
    BY <1>7, HeartbeatAssumption DEF Tick, Never, Older
  <2>5. silent' \in [Nodes -> {Running} \cup 0 .. Longest]
    BY <1>7, Bounds DEF Tick, Running, Crashed, Older
  <2>6. \A n \in Nodes \ chain' : report'[n] = Never
    BY <1>7 DEF Tick
  <2> QED BY <1>7, <2>1, <2>2, <2>3, <2>4, <2>5, <2>6 DEF Tick
<1>8. CASE UNCHANGED vars
  BY <1>8 DEF vars
<1> QED BY <1>1, <1>2, <1>3, <1>4, <1>5, <1>6, <1>7, <1>8 DEF Next

\* Every step preserves the age of the reports.
LEMMA HSteps == HInv /\ [Next]_vars => HeardOf'
<1> SUFFICES ASSUME HInv, [Next]_vars, NEW m \in up', report'[m] # Never
             PROVE  Fresh(m)'
  BY DEF HeardOf
<1>t. TypeOK /\ TypeOK' /\ m \in Nodes
  BY HTypes DEF HInv, TypeOK
<1>a. /\ lost[m] \in 0 .. MaxLost /\ beat[m] \in 0 .. Period
      /\ report[m] # Never => report[m] \in Nat
      /\ flying[m] \subseteq Nat
      /\ MaxLost \in Nat /\ MaxDelay \in Nat
  BY <1>t, HeartbeatAssumption DEF TypeOK
<1>b. /\ Period \in Nat \ {0} /\ lost[m] * Period \in Nat
      /\ (lost[m] + 1) * Period = lost[m] * Period + Period
      /\ (lost[m] + 1) * Period <= (MaxLost + 1) * Period
      /\ (MaxLost + 1) * Period \in Nat
  BY <1>a, Bounds
<1>c. m \in up /\ report[m] # Never => Fresh(m)
  BY DEF HInv, HeardOf
<1>1. ASSUME NEW n \in Nodes, Join(n) PROVE Fresh(m)'
  <2>1. m \in up
    BY <1>1, <1>t DEF Join, TypeOK
  <2> QED BY <1>1, <1>c, <2>1 DEF Join, Fresh
<1>2. ASSUME NEW n \in Nodes, SendHeartbeat(n) PROVE Fresh(m)'
  <2>1. Fresh(m)
    BY <1>2, <1>c DEF SendHeartbeat
  <2>2. CASE n # m
    <3>1. beat'[m] = beat[m] /\ lost'[m] = lost[m] /\ flying'[m] = flying[m]
      BY <1>2, <1>t, <2>2 DEF SendHeartbeat, TypeOK
    <3> QED BY <1>2, <2>1, <3>1 DEF SendHeartbeat, Fresh
  <2>3. CASE n = m /\ flying'[m] = flying[m] \cup {0}
    <3>1. report'[m] = report[m]
      BY <1>2 DEF SendHeartbeat
    <3>2. ASSUME report[m] <= lost[m] * Period + beat[m]
          PROVE  report'[m] <= (MaxLost + 1) * Period + 0
      BY <1>2, <1>a, <1>b, <3>1, <3>2 DEF SendHeartbeat
    <3> QED BY <2>1, <2>3, <3>1, <3>2 DEF Fresh
  <2>4. CASE n = m /\ flying' = flying /\ lost'[m] = lost[m] + 1
    <3>1. report'[m] = report[m] /\ beat'[m] = 0
      BY <1>2, <1>t, <2>4 DEF SendHeartbeat, TypeOK
    <3>2. ASSUME report[m] <= lost[m] * Period + beat[m]
          PROVE  report'[m] <= lost'[m] * Period + beat'[m]
      BY <1>2, <1>a, <1>b, <2>4, <3>1, <3>2 DEF SendHeartbeat
    <3> QED BY <2>1, <2>4, <3>1, <3>2 DEF Fresh
  <2> QED BY <1>2, <1>t, <2>2, <2>3, <2>4 DEF SendHeartbeat, TypeOK
<1>3. ASSUME NEW n \in Nodes, Crash(n) PROVE Fresh(m)'
  <2>1. m \in up /\ m # n
    BY <1>3 DEF Crash
  <2>2. beat'[m] = beat[m] /\ lost'[m] = lost[m]
    BY <1>3, <1>t, <2>1 DEF Crash, TypeOK
  <2> QED BY <1>3, <1>c, <2>1, <2>2 DEF Crash, Fresh
<1>4. ASSUME NEW n \in Nodes, handle_heartbeat(n) PROVE Fresh(m)'
  <2>1. CASE report'[m] = 0
    BY <1>4, <1>a, <1>b, <2>1 DEF handle_heartbeat, Fresh
  <2>2. CASE report' = report /\ n # m
    <3>1. flying'[m] = flying[m]
      BY <1>4, <1>t, <2>2 DEF handle_heartbeat, TypeOK
    <3> QED BY <1>4, <1>c, <2>2, <3>1 DEF handle_heartbeat, Fresh
  <2>3. CASE n = m /\ n \notin chain
    BY <1>4, <1>t, <2>3 DEF handle_heartbeat, TypeOK
  <2>4. CASE n # m /\ n \in chain
    <3>1. flying'[m] = flying[m] /\ report'[m] = report[m]
      BY <1>4, <1>t, <2>4 DEF handle_heartbeat, TypeOK
    <3> QED BY <1>4, <1>c, <3>1 DEF handle_heartbeat, Fresh
  <2>5. n = m /\ n \in chain => report'[m] = 0
    BY <1>4, <1>t DEF handle_heartbeat, TypeOK
  <2>6. n \notin chain => report' = report
    BY <1>4 DEF handle_heartbeat
  <2> QED BY <2>1, <2>2, <2>3, <2>4, <2>5, <2>6
<1>5. ASSUME NEW n \in Nodes, handle_join(n) PROVE Fresh(m)'
  BY <1>5, <1>c DEF handle_join, Fresh
<1>6. ASSUME check_alive PROVE Fresh(m)'
  <2>1. report'[m] = report[m]
    BY <1>6, <1>t DEF check_alive
  <2> QED BY <1>6, <1>c, <2>1 DEF check_alive, Fresh
<1>7. ASSUME Tick PROVE Fresh(m)'
  <2>1. m \in up /\ beat'[m] = beat[m] + 1 /\ lost'[m] = lost[m]
    BY <1>7, <1>t DEF Tick
  <2>2. report[m] # Never /\ report'[m] \in {report[m], report[m] + 1}
    BY <1>7, <1>t DEF Tick, Older
  <2>3. ASSUME report[m] <= lost[m] * Period + beat[m]
        PROVE  report'[m] <= lost'[m] * Period + beat'[m]
    BY <1>a, <1>b, <2>1, <2>2, <2>3
  <2>4. ASSUME NEW age \in flying[m], report[m] <= (MaxLost + 1) * Period + age
        PROVE  /\ age + 1 \in flying'[m]
               /\ report'[m] <= (MaxLost + 1) * Period + (age + 1)
    <3>1. age + 1 \in flying'[m]
      BY <1>7, <1>t DEF Tick
    <3>2. age \in Nat
      BY <1>a
    <3> QED BY <1>a, <1>b, <2>2, <2>4, <3>1, <3>2
  <2> QED BY <1>c, <2>1, <2>2, <2>3, <2>4 DEF Fresh
<1>8. CASE UNCHANGED vars
  BY <1>8, <1>c DEF vars, Fresh
<1> QED BY <1>1, <1>2, <1>3, <1>4, <1>5, <1>6, <1>7, <1>8 DEF Next

\* A server that the master removes is not running.
LEMMA HAlarm ==
    HInv /\ [Next]_vars => [Patient => chain \ chain' \subseteq Nodes \ up]_vars
<1> SUFFICES ASSUME HInv, Next, Patient, NEW m \in chain \ chain', m \in up
             PROVE  FALSE
  BY DEF HInv, TypeOK, vars
<1>1. check_alive
  BY DEF Next, Join, SendHeartbeat, Crash, handle_heartbeat, handle_join, Tick
<1>2. report[m] # Never /\ report[m] > crash_timeout /\ m \in Nodes
  BY <1>1 DEF check_alive, FirstCrashed, become_crashed, HInv, TypeOK
<1>3. Fresh(m)
  BY <1>2 DEF HInv, HeardOf
<1>4. /\ lost[m] \in 0 .. MaxLost /\ beat[m] \in 0 .. Period
      /\ report[m] \in Nat /\ crash_timeout \in Nat /\ MaxDelay \in Nat
      /\ \A age \in flying[m] : age \in 0 .. MaxDelay
  BY <1>2, HeartbeatAssumption DEF HInv, TypeOK
<1>5. /\ lost[m] * Period \in Nat /\ (lost[m] + 1) * Period = lost[m] * Period + Period
      /\ (lost[m] + 1) * Period <= (MaxLost + 1) * Period
      /\ (MaxLost + 1) * Period \in Nat /\ Period \in Nat
  BY <1>4, Bounds
<1>6. (MaxLost + 1) * Period + MaxDelay <= crash_timeout
  BY DEF Patient
<1>7. CASE report[m] <= lost[m] * Period + beat[m]
  BY <1>2, <1>4, <1>5, <1>6, <1>7
<1>8. CASE \E age \in flying[m] : report[m] <= (MaxLost + 1) * Period + age
  BY <1>2, <1>4, <1>5, <1>6, <1>8
<1> QED BY <1>3, <1>7, <1>8 DEF Fresh

\* Type correctness: a heartbeat that overtakes its JOIN leaves no trace, and
\* no thread is later than it may be.
THEOREM HeartbeatTypes == Spec => []TypeOK
<1>1. TypeOK /\ [Next]_vars => TypeOK'
  BY HTypes
<1> QED BY <1>1, HInit, PTL DEF Spec, HInv

\* No running server is ever removed from the chain by check_alive, if the
\* timeout covers MaxLost lost heartbeats in a row and the longest delay: for
\* all numbers of servers, intervals, latencies, delays and losses.
THEOREM NeverFalselyAlarmed == Spec => NoFalseAlarm
<1>1. HInv /\ [Next]_vars => HInv'
  BY HTypes, HSteps DEF HInv
<1> QED BY <1>1, HInit, HAlarm, PTL DEF Spec, NoFalseAlarm

-----------------------------------------------------------------------------
(* Crashes are noticed in time.                                            *)

\* The crashed servers that the master is done with.
Removed == {m \in Nodes : Crashed(m) /\ m \notin chain /\ joining[m] = {}}

\* What the master can still know of server n.  A heartbeat of a crashed server
\* is older than its crash, and so is the report it leads to, but for the time
\* that a message is on its way.
Recorded(n) ==
    /\ n \in up => ~Crashed(n)
    /\ n \in chain => n \in up \/ Crashed(n)
    /\ joining[n] # {} => n \notin chain /\ (n \in up \/ Crashed(n))
    /\ Crashed(n) => \A age \in flying[n] : silent[n] <= age
    /\ Crashed(n) /\ report[n] # Never =>
            \/ silent[n] <= report[n] + MaxDelay
            \/ report[n] = crash_timeout + 1

\* A crashed server that the master has not removed is overdue for no more
\* rounds than it has removed others, and the one that is due.
OverdueFor(n) ==
    Crashed(n) /\ report[n] # Never =>
        silent[n] <= MaxDelay + crash_timeout + Cardinality(Removed) * Period + check

NInv == /\ \A n \in Nodes : Recorded(n)
        /\ Patient => \A n \in chain : OverdueFor(n)

\* The time that as many rounds take as a set has elements.
LEMMA Rounds ==
    ASSUME NEW T \in SUBSET Nodes, NEW S \in SUBSET T
    PROVE  /\ Cardinality(S) * Period \in Nat
           /\ Cardinality(S) * Period <= Cardinality(T) * Period
           /\ S # T => Cardinality(S) * Period + Period <= Cardinality(T) * Period
<1>1. IsFiniteSet(Nodes)
  BY HeartbeatAssumption, FS_Interval DEF Nodes
<1>2. IsFiniteSet(T) /\ IsFiniteSet(S)
  BY <1>1, FS_Subset
<1>3. PICK j, k : /\ j = Cardinality(S) /\ k = Cardinality(T)
                  /\ j \in Nat /\ k \in Nat /\ j <= k /\ (S # T => j # k)
  BY <1>2, FS_Subset, FS_CardinalityType
<1>4. PICK p : p = Period /\ p \in Nat
  BY Bounds
<1>5. j * p \in Nat /\ (k - j) * p \in Nat /\ k * p = j * p + (k - j) * p
  BY <1>3, <1>4
<1>6. j # k => (k - j) * p = (k - j - 1) * p + p /\ (k - j - 1) * p \in Nat
  BY <1>3, <1>4
<1> QED BY <1>3, <1>4, <1>5, <1>6

\* If some server of the chain is overdue, the loop finds the first of them.
LEMMA LoopFinds ==
    ASSUME TypeOK, NEW n \in chain, become_crashed(n)
    PROVE  \E m \in chain : FirstCrashed(m)
<1> DEFINE S == {m \in chain : become_crashed(m)}
<1>1. S \in SUBSET Nat /\ S # {}
  <2>1. chain \in SUBSET Nat
    BY HeartbeatAssumption DEF TypeOK, Nodes
  <2> QED BY <2>1
<1>2. PICK m \in S : \A t \in S : <<t, m>> \notin OpToRel(<, Nat)
  <2> HIDE DEF S
  <2> QED BY <1>1, NatLessThanWellFounded, WFMin
<1>3. \A t \in S : ~(t < m)
  <2> HIDE DEF S
  <2> QED BY <1>1, <1>2 DEF OpToRel
<1> QED BY <1>3 DEF FirstCrashed

\* What a server knows of node n as numbers.
LEMMA NodeTypes ==
    TypeOK => \A n \in Nodes :
        /\ silent[n] \in Int /\ (Crashed(n) => silent[n] \in 0 .. Longest)
        /\ report[n] \in Int
        /\ report[n] # Never => report[n] \in 0 .. (crash_timeout + 1)
        /\ \A age \in flying[n] : age \in Int /\ 0 <= age /\ age <= MaxDelay
BY HeartbeatAssumption, Bounds DEF TypeOK, Crashed, Never, Running

LEMMA NInit == Init => NInv
BY DEF Init, NInv, Recorded, OverdueFor, Crashed

\* Every step keeps the records of every server.
LEMMA NRecords ==
    ASSUME TypeOK, TypeOK', Next, \A n \in Nodes : Recorded(n), NEW m \in Nodes
    PROVE  Recorded(m)'
<1>t. /\ Recorded(m) /\ MaxDelay \in Nat /\ crash_timeout \in Nat
      /\ silent[m] \in Int /\ (Crashed(m) => silent[m] \in 0 .. Longest)
      /\ report[m] \in Int
      /\ report[m] # Never => report[m] \in 0 .. (crash_timeout + 1)
      /\ \A age \in flying[m] : age \in Int /\ 0 <= age /\ age <= MaxDelay
  BY NodeTypes, HeartbeatAssumption
<1>1. ASSUME NEW n \in Nodes, Join(n) PROVE Recorded(m)'
  BY <1>1, <1>t DEF Join, Recorded, TypeOK, Crashed
<1>2. ASSUME NEW n \in Nodes, SendHeartbeat(n) PROVE Recorded(m)'
  <2>1. n \in up /\ ~Crashed(n)
    BY <1>2 DEF SendHeartbeat, Recorded
  <2>2. Crashed(m) => flying'[m] = flying[m]
    BY <1>2, <2>1 DEF SendHeartbeat, TypeOK
  <2> QED BY <1>2, <1>t, <2>2 DEF SendHeartbeat, Recorded, Crashed
<1>3. ASSUME NEW n \in Nodes, Crash(n) PROVE Recorded(m)'
  <2>1. CASE m = n
    <3>1. silent'[m] = 0 /\ m \notin up' /\ m \in up
      BY <1>3, <2>1 DEF Crash, TypeOK
    <3> QED BY <1>3, <1>t, <3>1 DEF Crash, Recorded, Crashed, Running, Never
  <2>2. CASE m # n
    <3>1. silent'[m] = silent[m] /\ (m \in up' <=> m \in up)
      BY <1>3, <2>2 DEF Crash, TypeOK
    <3> QED BY <1>3, <1>t, <3>1 DEF Crash, Recorded, Crashed
  <2> QED BY <2>1, <2>2
<1>4. ASSUME NEW n \in Nodes, handle_heartbeat(n) PROVE Recorded(m)'
  <2>1. PICK age \in flying[n] : flying' = [flying EXCEPT ![n] = @ \ {age}]
    BY <1>4 DEF handle_heartbeat
  <2>2. flying'[m] \subseteq flying[m]
    BY <2>1 DEF TypeOK
  <2>3. CASE report'[m] = report[m]
    BY <1>4, <1>t, <2>2, <2>3 DEF handle_heartbeat, Recorded, Crashed
  <2>4. CASE report'[m] # report[m]
    <3>1. m = n /\ report'[m] = 0
      BY <1>4, <2>4 DEF handle_heartbeat, TypeOK
    <3>2. Crashed(m) => silent[m] <= MaxDelay
      BY <1>t, <2>1, <3>1 DEF Recorded
    <3> QED BY <1>4, <1>t, <2>2, <3>1, <3>2 DEF handle_heartbeat, Recorded, Crashed
  <2> QED BY <2>3, <2>4
<1>5. ASSUME NEW n \in Nodes, handle_join(n) PROVE Recorded(m)'
  BY <1>5, <1>t DEF handle_join, Recorded, Crashed, TypeOK
<1>6. ASSUME check_alive PROVE Recorded(m)'
  <2>1. report'[m] \in {Never, report[m]} /\ (m \in chain' => m \in chain)
    BY <1>6 DEF check_alive
  <2> QED BY <1>6, <1>t, <2>1 DEF check_alive, Recorded, Crashed
<1>7. ASSUME Tick PROVE Recorded(m)'
  <2>1. /\ Crashed(m)' <=> Crashed(m)
        /\ Crashed(m) => silent'[m] <= silent[m] + 1
    <3>1. silent'[m] = IF Crashed(m) THEN Older(silent[m], Longest) ELSE Running
      BY <1>7 DEF Tick
    <3>2. CASE Crashed(m)
      <4>1. silent[m] >= 0 /\ silent[m] \in Int /\ Longest \in Nat
        BY <1>t, <3>2, Bounds
      <4>2. silent'[m] \in {silent[m], silent[m] + 1}
        BY <3>1, <3>2 DEF Older
      <4> QED BY <3>2, <4>1, <4>2 DEF Crashed, Running
    <3>3. CASE ~Crashed(m)
      BY <3>1, <3>3 DEF Crashed
    <3> QED BY <3>2, <3>3
  <2>2. silent'[m] \in Int
    BY Bounds DEF TypeOK, Running
  <2>3. Crashed(m) => \A age \in flying'[m] : silent'[m] <= age
    <3> SUFFICES ASSUME Crashed(m), NEW age \in flying'[m] PROVE silent'[m] <= age
      OBVIOUS
    <3>1. PICK a \in flying[m] : age = a + 1
      BY <1>7 DEF Tick
    <3>2. silent[m] <= a /\ a \in Int
      BY <1>t DEF Recorded
    <3> QED BY <1>t, <2>1, <2>2, <3>1, <3>2
  <2>4. /\ report'[m] # Never => report[m] # Never
        /\ report[m] # Never => report'[m] \in {report[m], report[m] + 1}
        /\ report[m] # Never /\ report'[m] = report[m] => report[m] >= crash_timeout + 1
    BY <1>7, <1>t DEF Tick, Older
  <2>5. ASSUME Crashed(m), report'[m] # Never
        PROVE  \/ silent'[m] <= report'[m] + MaxDelay
               \/ report'[m] = crash_timeout + 1
    <3>1. /\ report[m] # Never
          /\ silent[m] <= report[m] + MaxDelay \/ report[m] = crash_timeout + 1
      BY <1>t, <2>4, <2>5 DEF Recorded
    <3>2. report'[m] \in 0 .. crash_timeout + 1
      BY <2>5 DEF TypeOK, Never
    <3> QED BY <1>t, <2>1, <2>2, <2>4, <2>5, <3>1, <3>2
  <2>6. (joining'[m] # {} <=> joining[m] # {}) /\ chain' = chain /\ up' = up
    BY <1>7 DEF Tick
  <2> QED BY <1>t, <2>1, <2>3, <2>5, <2>6 DEF Recorded
<1> QED BY <1>1, <1>2, <1>3, <1>4, <1>5, <1>6, <1>7 DEF Next

\* The master is never done with a server for a second time.
LEMMA RemovedGrows ==
    ASSUME TypeOK, Next, \A n \in Nodes : Recorded(n)
    PROVE  Removed \in SUBSET Removed'
<1> SUFFICES ASSUME NEW m \in Removed PROVE m \in Removed'
  OBVIOUS
<1>t. m \in Nodes /\ Crashed(m) /\ m \notin chain /\ joining[m] = {} /\ m \notin up
  BY DEF Removed, Recorded
<1>1. ASSUME NEW n \in Nodes, Join(n) PROVE m \in Removed'
  BY <1>1, <1>t DEF Join, Removed, Crashed, TypeOK
<1>2. ASSUME NEW n \in Nodes, SendHeartbeat(n) PROVE m \in Removed'
  BY <1>2, <1>t DEF SendHeartbeat, Removed, Crashed
<1>3. ASSUME NEW n \in Nodes, Crash(n) PROVE m \in Removed'
  BY <1>3, <1>t DEF Crash, Removed, Crashed, TypeOK
<1>4. ASSUME NEW n \in Nodes, handle_heartbeat(n) PROVE m \in Removed'
  BY <1>4, <1>t DEF handle_heartbeat, Removed, Crashed
<1>5. ASSUME NEW n \in Nodes, handle_join(n) PROVE m \in Removed'
  BY <1>5, <1>t DEF handle_join, Removed, Crashed, TypeOK
<1>6. ASSUME check_alive PROVE m \in Removed'
  BY <1>6, <1>t DEF check_alive, Removed, Crashed
<1>7. ASSUME Tick PROVE m \in Removed'
  <2>1. silent'[m] = Older(silent[m], Longest) /\ joining'[m] = {} /\ chain' = chain
    BY <1>7, <1>t DEF Tick
  <2>2. silent[m] \in Nat
    BY <1>t, Bounds DEF TypeOK, Crashed
  <2> QED BY <1>t, <2>1, <2>2 DEF Removed, Crashed, Running, Older
<1> QED BY <1>1, <1>2, <1>3, <1>4, <1>5, <1>6, <1>7 DEF Next

\* Every step keeps the bound: in a round of check_alive that passes over a
\* server that is overdue, another one is removed.
LEMMA NOverdue ==
    ASSUME HInv, TypeOK', Next, Patient, \A n \in Nodes : Recorded(n),
           \A n \in chain : OverdueFor(n), NEW m \in chain'
    PROVE  OverdueFor(m)'
<1> SUFFICES ASSUME Crashed(m)', report'[m] # Never
             PROVE  silent'[m] <= MaxDelay + crash_timeout
                                    + Cardinality(Removed') * Period + check'
  BY DEF OverdueFor, Removed, Crashed
<1> DEFINE r  == Cardinality(Removed) * Period
           r1 == Cardinality(Removed') * Period
           d  == MaxDelay + crash_timeout
<1>a. TypeOK /\ m \in Nodes
  BY DEF HInv, TypeOK
<1>b. r \in Nat /\ r1 \in Nat /\ r <= r1
      /\ (Removed # Removed' => r + Period <= r1)
  <2>1. Removed \in SUBSET Removed' /\ Removed' \in SUBSET Nodes
    BY <1>a, RemovedGrows DEF Removed
  <2>2. r \in Nat /\ r <= r1 /\ (Removed # Removed' => r + Period <= r1)
    BY <2>1, Rounds
  <2>3. r1 \in Nat
    BY <2>1, Rounds
  <2> QED BY <2>2, <2>3
<1>c. /\ silent[m] \in Int /\ silent'[m] \in Int /\ d \in Nat /\ Period \in Nat
      /\ check \in 0 .. Period /\ check' \in 0 .. Period
      /\ MaxDelay \in Nat /\ crash_timeout \in Nat
  BY <1>a, HeartbeatAssumption, Bounds DEF TypeOK, Running
<1> HIDE DEF r, r1, d
<1>d. Crashed(m) /\ m \in chain /\ report[m] # Never => silent[m] <= d + r + check
  BY DEF OverdueFor, r, d
<1> SUFFICES silent'[m] <= d + r1 + check'
  BY DEF r1, d
<1>1. ASSUME NEW n \in Nodes, \/ Join(n) \/ SendHeartbeat(n) \/ handle_join(n)
      PROVE  silent'[m] <= d + r1 + check'
  <2>1. silent' = silent /\ report' = report /\ check' = check
    BY <1>1 DEF Join, SendHeartbeat, handle_join
  <2>2. m \in chain
    BY <1>a, <2>1 DEF TypeOK
  <2> QED BY <1>b, <1>c, <1>d, <2>1, <2>2 DEF Crashed
<1>3. ASSUME NEW n \in Nodes, Crash(n) PROVE silent'[m] <= d + r1 + check'
  <2>1. report' = report /\ check' = check /\ chain' = chain
    BY <1>3 DEF Crash
  <2>2. silent'[m] = 0 \/ silent'[m] = silent[m]
    BY <1>3, <1>a DEF Crash, TypeOK
  <2>3. silent'[m] = silent[m] => Crashed(m)
    BY DEF Crashed
  <2> QED BY <1>b, <1>c, <1>d, <2>1, <2>2, <2>3
<1>4. ASSUME NEW n \in Nodes, handle_heartbeat(n) PROVE silent'[m] <= d + r1 + check'
  <2>1. silent' = silent /\ check' = check /\ chain' = chain
    BY <1>4 DEF handle_heartbeat
  <2>2. CASE report'[m] = report[m]
    BY <1>b, <1>c, <1>d, <2>1, <2>2 DEF Crashed
  <2>3. CASE report'[m] # report[m]
    <3>1. m = n
      BY <1>4, <1>a, <2>3 DEF handle_heartbeat, TypeOK
    <3>2. PICK age \in flying[m] : TRUE
      BY <1>4, <3>1 DEF handle_heartbeat
    <3>3. silent[m] <= age
      BY <1>a, <2>1 DEF Recorded, Crashed
    <3>4. age \in Int /\ age <= MaxDelay
      BY <1>a, NodeTypes
    <3> QED BY <1>b, <1>c, <2>1, <3>3, <3>4 DEF d
  <2> QED BY <2>2, <2>3
<1>6. ASSUME check_alive PROVE silent'[m] <= d + r1 + check'
  <2>1. silent' = silent /\ check' = 0 /\ m \in chain /\ ~FirstCrashed(m)
        /\ report[m] # Never /\ Crashed(m) /\ joining' = joining
    BY <1>6, <1>a DEF check_alive, Crashed
  <2>2. CASE become_crashed(m)
    <3>1. PICK n \in chain : FirstCrashed(n)
      BY <1>a, <2>1, <2>2, LoopFinds
    <3>2. n \in chain \ chain'
      BY <1>6, <3>1 DEF check_alive
    <3>3. n \in Nodes \ up
      <4>1. chain # chain'
        BY <3>2
      <4>2. [Patient => chain \ chain' \subseteq Nodes \ up]_vars
        BY HAlarm
      <4> QED BY <3>2, <4>1, <4>2 DEF vars
    <3>4. Crashed(n) /\ joining[n] = {}
      BY <3>1, <3>3 DEF Recorded
    <3>5. n \in Removed' /\ n \notin Removed
      BY <2>1, <3>2, <3>3, <3>4 DEF Removed, Crashed
    <3>6. r + Period <= r1 /\ silent[m] <= d + r + check
      BY <1>b, <1>d, <2>1, <3>5
    <3> QED BY <1>b, <1>c, <2>1, <3>6
  <2>3. CASE ~become_crashed(m)
    <3>1. report[m] \in Int /\ report[m] <= crash_timeout
      BY <1>a, <1>c, <2>1, <2>3, NodeTypes DEF become_crashed
    <3>2. silent[m] <= report[m] + MaxDelay
      BY <1>a, <1>c, <2>1, <3>1 DEF Recorded
    <3> QED BY <1>b, <1>c, <2>1, <3>1, <3>2 DEF d
  <2> QED BY <2>2, <2>3
<1>7. ASSUME Tick PROVE silent'[m] <= d + r1 + check'
  <2>1. check' = check + 1 /\ chain' = chain /\ report[m] # Never
    BY <1>7, <1>a DEF Tick
  <2>2. Crashed(m) /\ silent'[m] \in {silent[m], silent[m] + 1}
    BY <1>7, <1>a DEF Tick, Crashed, Older
  <2> QED BY <1>b, <1>c, <1>d, <2>1, <2>2
<1> QED BY <1>1, <1>3, <1>4, <1>6, <1>7 DEF Next

\* Every step preserves the invariant.
LEMMA NStep == HInv /\ NInv /\ [Next]_vars => NInv'
<1> SUFFICES ASSUME HInv, NInv, [Next]_vars PROVE NInv'
  OBVIOUS
<1>1. TypeOK /\ TypeOK'
  BY HTypes DEF HInv
<1>2. CASE Next
  <2>1. \A n \in Nodes : Recorded(n)'
    BY <1>1, <1>2, NRecords DEF NInv
  <2>2. Patient => \A n \in chain' : OverdueFor(n)'
    BY <1>1, <1>2, NOverdue DEF NInv
  <2> QED BY <2>1, <2>2 DEF NInv, Patient, Period
<1>3. CASE UNCHANGED vars
  BY <1>3 DEF vars, NInv, Recorded, OverdueFor, Crashed, Removed
<1> QED BY <1>2, <1>3

\* The invariant gives the bound: the removed servers are crashed ones, and
\* fewer than all, since the one in question is not among them.
LEMMA NBound == TypeOK /\ NInv => (Patient => CrashesAreNoticed)
<1> SUFFICES ASSUME TypeOK, NInv, Patient, NEW n \in chain \ up, report[n] # Never
             PROVE  silent[n] <= NoticedWithin(Cardinality({m \in Nodes : Crashed(m)}))
  BY DEF CrashesAreNoticed
<1> DEFINE K == {m \in Nodes : Crashed(m)}
<1>1. n \in Nodes /\ Crashed(n)
  BY DEF TypeOK, NInv, Recorded
<1>2. K \in SUBSET Nodes /\ Removed \in SUBSET K /\ K # Removed
  BY <1>1 DEF Removed
<1>3. /\ Cardinality(Removed) * Period \in Nat
      /\ Cardinality(Removed) * Period + Period <= Cardinality(K) * Period
  BY <1>2, Rounds
<1>4. silent[n] <= MaxDelay + crash_timeout + Cardinality(Removed) * Period + check
  BY <1>1 DEF NInv, OverdueFor
<1>5. Cardinality(K) * Period \in Nat
  BY <1>2, Rounds
<1>6. /\ silent[n] \in Int /\ check \in 0 .. Period /\ Period \in Nat
      /\ MaxDelay \in Nat /\ crash_timeout \in Nat
  BY <1>1, Bounds, HeartbeatAssumption DEF TypeOK, Running
<1> HIDE DEF K
<1>7. silent[n] <= MaxDelay + crash_timeout + Cardinality(K) * Period
  BY <1>3, <1>4, <1>5, <1>6
<1> QED BY <1>7 DEF K, NoticedWithin

\* If the timeout covers the losses and delays, the last of k servers that have
\* crashed and whose heartbeats the master has ever seen has left the chain
\* MaxDelay + crash_timeout + k periods after its crash, although each round of
\* check_alive removes at most one of them.
THEOREM CrashesNoticedInTime == Spec => [](Patient => CrashesAreNoticed)
<1>1. HInv /\ [Next]_vars => HInv'
  BY HTypes, HSteps DEF HInv
<1>2. HInv /\ NInv => (Patient => CrashesAreNoticed)
  BY NBound DEF HInv
<1> QED BY <1>1, <1>2, HInit, NInit, NStep, PTL DEF Spec
=============================================================================
