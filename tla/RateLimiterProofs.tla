-------------------------- MODULE RateLimiterProofs ---------------------------
(***************************************************************************)
(* Theorems about the rate limiter, for any number of agents and any       *)
(* windows, limits and delays.                                             *)
(***************************************************************************)
EXTENDS RateLimiter, FiniteSetTheorems, FunctionTheorems, TLAPS

(***************************************************************************)
(* The invariant. Range(queue) = Waiting relates the queue and the agents, *)
(* the count and the holders; that a look at a waiting queue is scheduled  *)
(* needs the type invariant only, which bounds the delays.                 *)
(***************************************************************************)
LimiterInv == TypeOK /\ ActiveIsHolders /\ QueueIsWaiting /\ WakeupPending
              /\ activeRequests <= ConcurrentRequests

Holding(ph) == {c \in Client : ph[c] \in {"active", "limited"}}
Queued(ph)  == {c \in Client : ph[c] = "queued"}

LEMMA ClientFinite ==
  ASSUME NEW S \in SUBSET Client
  PROVE  IsFiniteSet(S) /\ Cardinality(S) \in Nat
BY RateLimiterAssumption, FS_Subset, FS_CardinalityType

LEMMA LimiterInit == Init => LimiterInv
<1> SUFFICES ASSUME Init PROVE LimiterInv
  OBVIOUS
<1>1. TypeOK
  <2>1. windows \in [Window -> [left : Nat, requests : Nat, tokens : Nat]]
    BY RateLimiterAssumption DEF Init, freshWindow
  <2>2. \A w \in Window : windows[w].left <= WindowLength[w]
    BY RateLimiterAssumption DEF Init, freshWindow
  <2>3. timers \in [0..MaxDelay -> Nat] /\ timeout \in [Client -> 0..QueueTimeout]
    BY RateLimiterAssumption DEF Init
  <2>4. phase \in [Client -> Phase] /\ rounds \in [Caller -> 0..MaxRounds]
    BY RateLimiterAssumption DEF Init, Phase
  <2> QED
    BY <2>1, <2>2, <2>3, <2>4, RateLimiterAssumption DEF Init, TypeOK
<1>2. Holders = {} /\ Waiting = {}
  BY DEF Init, Holders, Waiting
<1>3. ActiveIsHolders
  BY <1>2, FS_EmptySet DEF Init, ActiveIsHolders
<1>4. QueueIsWaiting
  BY <1>2 DEF Init, QueueIsWaiting, Range
<1> QED
  BY <1>1, <1>3, <1>4, RateLimiterAssumption DEF Init, LimiterInv, WakeupPending

(***************************************************************************)
(* The windows and the delays.                                             *)
(***************************************************************************)
LEMMA WindowsReset ==
  ASSUME TypeOK
  PROVE  /\ resetExpiredWindows \in [Window -> [left : Nat, requests : Nat, tokens : Nat]]
         /\ \A w \in Window : resetExpiredWindows[w].left <= WindowLength[w]
BY RateLimiterAssumption DEF TypeOK, resetExpiredWindows, freshWindow

LEMMA DelayInRange ==
  ASSUME TypeOK
  PROVE  pollDelay(resetExpiredWindows) \in 1..MaxDelay
<1> DEFINE ws == resetExpiredWindows
<1>1. \A w \in Window : ws[w].left \in Nat /\ ws[w].left <= MaxDelay
  BY WindowsReset, RateLimiterAssumption
<1>2. backoff \in Nat /\ backoff <= MaxDelay
  BY RateLimiterAssumption DEF TypeOK
<1> HIDE DEF ws
<1>3. getWaitTime(ws) \in 0..MaxDelay
  BY <1>1, <1>2, RateLimiterAssumption DEF getWaitTime, Window
<1> QED
  BY <1>3, RateLimiterAssumption DEF pollDelay, ws

LEMMA Scheduled ==
  ASSUME TypeOK, NEW tm \in [0..MaxDelay -> Nat]
  PROVE  LET after == scheduleQueueProcessing(tm, resetExpiredWindows)
         IN  after \in [0..MaxDelay -> Nat] /\ \E d \in 0..MaxDelay : after[d] > 0
<1> DEFINE d == pollDelay(resetExpiredWindows)
<1>1. d \in 0..MaxDelay
  BY DelayInRange, RateLimiterAssumption
<1> HIDE DEF d
<1> QED
  BY <1>1 DEF scheduleQueueProcessing, d

(***************************************************************************)
(* A run of processQueue over the first k of the queue.                    *)
(***************************************************************************)
\* A queue of distinct agents, those that wait according to ph.
QueueOf(ph) ==
    /\ \A i, j \in 1..Len(queue) : queue[i] = queue[j] => i = j
    /\ Range(queue) = Queued(ph)

LEMMA ResolveGrants ==
  ASSUME TypeOK, NEW ph \in [Client -> Phase], QueueOf(ph),
         NEW k \in 0..Len(queue), resolve(k, ph)
  PROVE  /\ queue' \in Seq(Client)
         /\ Len(queue') = Len(queue) - k
         /\ timeout' \in [Client -> 0..QueueTimeout]
         /\ phase' \in [Client -> Phase]
         /\ QueueIsWaiting'
         /\ \E G \in SUBSET Queued(ph) :
               /\ Holders' = Holding(ph) \cup G
               /\ Waiting' = Queued(ph) \ G
               /\ Cardinality(G) = k
               /\ Cardinality(Holders') = Cardinality(Holding(ph)) + k
<1> DEFINE G == {queue[i] : i \in 1..k}
<1>1. queue \in Seq(Client) /\ Len(queue) \in Nat
  BY DEF TypeOK
<1>2. \A i \in 1..Len(queue) : queue[i] \in Queued(ph)
  <2>1. \A i \in 1..Len(queue) : queue[i] \in Range(queue)
    BY <1>1 DEF Range
  <2> QED
    BY <2>1 DEF QueueOf
<1>3. G \subseteq Queued(ph)
  BY <1>1, <1>2
<1>4. /\ queue' = SubSeq(queue, k + 1, Len(queue))
      /\ phase' = [c \in Client |-> IF c \in G THEN "active" ELSE ph[c]]
      /\ timeout' = [c \in Client |-> IF c \in G THEN 0 ELSE timeout[c]]
  BY DEF resolve
<1>5. /\ queue' \in Seq(Client)
      /\ Len(queue') = Len(queue) - k
      /\ \A i \in 1..Len(queue') : queue'[i] = queue[i + k]
  BY <1>1, <1>4
<1>6. phase' \in [Client -> Phase] /\ timeout' \in [Client -> 0..QueueTimeout]
  BY <1>4, RateLimiterAssumption DEF TypeOK, Phase
<1>7. Holders' = Holding(ph) \cup G /\ Waiting' = Queued(ph) \ G
  BY <1>3, <1>4 DEF Holders, Waiting, Holding, Queued
<1>8. QueueIsWaiting'
  <2>1. \A i, j \in 1..Len(queue') : queue'[i] = queue'[j] => i = j
    BY <1>1, <1>5 DEF QueueOf
  <2>2. ASSUME NEW c \in Client PROVE c \in Range(queue') <=> c \in Queued(ph) \ G
    <3>1. c \in Range(queue') <=> \E i \in 1..Len(queue') : queue'[i] = c
      BY <1>5 DEF Range
    <3>2. c \in Queued(ph) <=> \E i \in 1..Len(queue) : queue[i] = c
      BY <1>1 DEF QueueOf, Range
    <3>3. c \in G <=> \E i \in 1..k : queue[i] = c
      OBVIOUS
    <3>4. ASSUME NEW i \in 1..Len(queue'), queue'[i] = c
          PROVE  c \in Queued(ph) \ G
      <4>1. queue[i + k] = c /\ i + k \in 1..Len(queue) /\ i + k \notin 1..k
        BY <1>1, <1>5, <3>4
      <4>2. \A j \in 1..k : queue[j] # c
        BY <1>1, <4>1 DEF QueueOf
      <4> QED
        BY <3>2, <3>3, <4>1, <4>2
    <3>5. ASSUME c \in Queued(ph) \ G PROVE \E i \in 1..Len(queue') : queue'[i] = c
      <4>1. PICK i \in 1..Len(queue) : queue[i] = c
        BY <3>2, <3>5
      <4>2. i \notin 1..k
        BY <3>3, <3>5, <4>1
      <4>3. i - k \in 1..Len(queue') /\ queue'[i - k] = c
        BY <1>1, <1>5, <4>1, <4>2
      <4> QED
        BY <4>3
    <3> QED
      BY <3>1, <3>4, <3>5
  <2>3. Range(queue') \subseteq Client
    BY <1>5 DEF Range
  <2>4. Waiting' \subseteq Client
    BY DEF Waiting
  <2> HIDE DEF G
  <2>5. Range(queue') = Waiting'
    BY <1>7, <2>2, <2>3, <2>4
  <2> QED
    BY <2>1, <2>5 DEF QueueIsWaiting
<1>9. Cardinality(G) = k /\ IsFiniteSet(G)
  <2> DEFINE at == [i \in 1..k |-> queue[i]]
  <2>1. at \in [1..k -> G] /\ \A x \in G : \E i \in 1..k : at[i] = x
    OBVIOUS
  <2>2. \A i, j \in 1..k : at[i] = at[j] => i = j
    BY <1>1 DEF QueueOf
  <2>3. at \in Bijection(1..k, G)
    <3> HIDE DEF at, G
    <3> QED
      BY <2>1, <2>2, Fun_IsBij
  <2>4. IsFiniteSet(1..k) /\ Cardinality(1..k) = k
    BY FS_Interval
  <2> QED
    BY <2>3, <2>4, FS_Bijection DEF ExistsBijection
<1>10. Cardinality(Holding(ph) \cup G) = Cardinality(Holding(ph)) + k
  <2>1. Holding(ph) \in SUBSET Client /\ Holding(ph) \cap G = {}
    BY <1>3 DEF Holding, Queued
  <2>2. IsFiniteSet(Holding(ph)) /\ Cardinality(Holding(ph)) \in Nat
    BY <2>1, ClientFinite
  <2> HIDE DEF G
  <2>3. Cardinality(Holding(ph) \cup G)
          = Cardinality(Holding(ph)) + Cardinality(G) - Cardinality(Holding(ph) \cap G)
    BY <1>9, <2>2, FS_Union
  <2>4. Cardinality(Holding(ph) \cap G) = 0
    BY <2>1, FS_EmptySet
  <2> QED
    BY <1>9, <2>2, <2>3, <2>4
<1> HIDE DEF G
<1> QED
  BY <1>3, <1>5, <1>6, <1>7, <1>8, <1>9, <1>10

\* What processQueue leaves behind: the granted hold lanes, no more of them than
\* there are, and a queue that is not empty has a look scheduled.
LEMMA ProcessQueueGrants ==
  ASSUME TypeOK, NEW ph \in [Client -> Phase], QueueOf(ph),
         NEW tm \in [0..MaxDelay -> Nat],
         NEW n \in Nat, n = Cardinality(Holding(ph)), n <= ConcurrentRequests,
         processQueue(n, tm, ph), UNCHANGED <<backoff, nextBackoff, cleared, rounds>>
  PROVE  /\ LimiterInv'
         /\ \E G \in SUBSET Queued(ph) :
               Holders' = Holding(ph) \cup G /\ Waiting' = Queued(ph) \ G
<1> DEFINE ws == resetExpiredWindows
           k  == served(ws, n)
<1>1. Len(queue) \in Nat /\ queue \in Seq(Client)
  BY DEF TypeOK
<1>2. k \in 0..Len(queue) /\ n + k <= ConcurrentRequests
  BY <1>1, RateLimiterAssumption DEF served
<1>3. /\ resolve(k, ph)
      /\ activeRequests' = n + k
      /\ windows' = IF queue = <<>> THEN windows ELSE ws
      /\ timers' = IF k = Len(queue) THEN tm ELSE scheduleQueueProcessing(tm, ws)
  BY DEF processQueue
<1> HIDE DEF k
<1>4. /\ queue' \in Seq(Client)
      /\ Len(queue') = Len(queue) - k
      /\ timeout' \in [Client -> 0..QueueTimeout]
      /\ phase' \in [Client -> Phase]
      /\ QueueIsWaiting'
      /\ \E G \in SUBSET Queued(ph) :
            /\ Holders' = Holding(ph) \cup G
            /\ Waiting' = Queued(ph) \ G
            /\ Cardinality(G) = k
            /\ Cardinality(Holders') = Cardinality(Holding(ph)) + k
  BY <1>2, <1>3, ResolveGrants
<1>5. activeRequests' = Cardinality(Holders')
  BY <1>3, <1>4
<1>6. timers' \in [0..MaxDelay -> Nat]
  BY <1>3, Scheduled
<1>7. WakeupPending'
  <2>1. CASE k = Len(queue)
    BY <1>1, <1>4, <2>1 DEF WakeupPending
  <2>2. CASE k # Len(queue)
    BY <1>3, <2>2, Scheduled DEF WakeupPending
  <2> QED
    BY <2>1, <2>2
<1>8. /\ windows' \in [Window -> [left : Nat, requests : Nat, tokens : Nat]]
      /\ \A w \in Window : windows'[w].left <= WindowLength[w]
  BY <1>3, WindowsReset DEF TypeOK
<1>9. TypeOK'
  <2>1. activeRequests' \in Nat
    BY <1>1, <1>2, <1>3
  <2>2. queue' \in Seq(Client) /\ timeout' \in [Client -> 0..QueueTimeout]
    BY <1>4
  <2>3. phase' \in [Client -> Phase]
    BY <1>4
  <2>4. /\ backoff' \in 0..MaxBackoff /\ nextBackoff' \in 1..MaxBackoff
        /\ cleared' \in 0..MaxBackoff /\ rounds' \in [Caller -> 0..MaxRounds]
    BY DEF TypeOK
  <2> QED
    BY ONLY <1>6, <1>8, <2>1, <2>2, <2>3, <2>4 DEF TypeOK
<1> QED
  BY <1>2, <1>3, <1>4, <1>5, <1>7, <1>9 DEF LimiterInv, ActiveIsHolders

LEMMA QueueOfPhase ==
  ASSUME LimiterInv
  PROVE  QueueOf(phase) /\ Holders = Holding(phase) /\ Waiting = Queued(phase)
BY DEF LimiterInv, QueueIsWaiting, QueueOf, Holders, Holding, Waiting, Queued

(***************************************************************************)
(* Every step preserves the invariant and is a step of the pool of lanes.  *)
(***************************************************************************)
\* The instance has a copy of Cardinality.
LEMMA PoolCardinality ==
  ASSUME NEW T
  PROVE  Pool!Cardinality(T) = Cardinality(T)
BY DEF Cardinality, Pool!Cardinality

PoolStep == [Pool!Next]_<<Holders, Waiting>>

LEMMA ReleaseStep ==
  ASSUME LimiterInv, NEW c \in Client, release(c)
  PROVE  LimiterInv' /\ PoolStep
<1> DEFINE ph == [phase EXCEPT ![c] = "done"]
<1>1. TypeOK /\ ActiveIsHolders /\ activeRequests <= ConcurrentRequests
  BY DEF LimiterInv
<1>2. ph \in [Client -> Phase] /\ c \in Holders
  BY <1>1 DEF release, TypeOK, Phase, Holders
<1>3. Holding(ph) = Holders \ {c} /\ Queued(ph) = Waiting
  BY <1>1, <1>2 DEF Holding, Queued, Holders, Waiting, TypeOK
<1>4. IsFiniteSet(Holders) /\ Cardinality(Holders) \in Nat
  BY ClientFinite DEF Holders
<1>5. Cardinality(Holders \ {c}) = Cardinality(Holders) - 1
  BY <1>2, <1>4, FS_RemoveElement
<1>6. Cardinality(Holders) # 0
  BY <1>2, <1>4, FS_EmptySet
<1>7. activeRequests > 0 /\ activeRequests - 1 \in Nat
  BY <1>1, <1>4, <1>6 DEF ActiveIsHolders
<1>8. processQueue(activeRequests - 1, timers, ph)
  BY <1>7 DEF release
<1>9. QueueOf(ph)
  BY <1>3, QueueOfPhase DEF QueueOf
<1>10. activeRequests - 1 = Cardinality(Holding(ph))
  BY <1>1, <1>3, <1>5 DEF ActiveIsHolders
<1>11. activeRequests - 1 <= ConcurrentRequests
  BY <1>1, <1>7, RateLimiterAssumption DEF TypeOK
<1>12. UNCHANGED <<backoff, nextBackoff, cleared, rounds>> /\ timers \in [0..MaxDelay -> Nat]
  BY <1>1 DEF release, TypeOK
<1> HIDE DEF ph
<1>13. /\ LimiterInv'
       /\ \E G \in SUBSET Queued(ph) :
             Holders' = Holding(ph) \cup G /\ Waiting' = Queued(ph) \ G
  BY <1>1, <1>2, <1>7, <1>8, <1>9, <1>10, <1>11, <1>12, ProcessQueueGrants
<1>14. PICK G \in SUBSET Waiting :
          Holders' = (Holders \ {c}) \cup G /\ Waiting' = Waiting \ G
  BY <1>3, <1>13
<1>15. Pool!Cardinality(Holders') <= ConcurrentRequests
  BY <1>13, PoolCardinality DEF LimiterInv, ActiveIsHolders
<1>16. Pool!Release(c, G)
  BY <1>2, <1>14, <1>15 DEF Pool!Release
<1> QED
  BY <1>2, <1>13, <1>14, <1>16 DEF PoolStep, Pool!Next

LEMMA FireTimerStep ==
  ASSUME LimiterInv, FireTimer
  PROVE  LimiterInv' /\ PoolStep
<1> DEFINE tm == [timers EXCEPT ![0] = @ - 1]
<1>1. TypeOK /\ ActiveIsHolders /\ activeRequests <= ConcurrentRequests
  BY DEF LimiterInv
<1>2. tm \in [0..MaxDelay -> Nat]
  BY <1>1, RateLimiterAssumption DEF FireTimer, TypeOK
<1>3. phase \in [Client -> Phase] /\ activeRequests \in Nat
  BY <1>1 DEF TypeOK
<1>4. processQueue(activeRequests, tm, phase) /\ UNCHANGED <<backoff, nextBackoff, cleared, rounds>>
  BY DEF FireTimer
<1>5. QueueOf(phase) /\ Holders = Holding(phase) /\ Waiting = Queued(phase)
  BY QueueOfPhase
<1>6. activeRequests = Cardinality(Holding(phase))
  BY <1>1, <1>5 DEF ActiveIsHolders
<1> HIDE DEF tm
<1>7. /\ LimiterInv'
      /\ \E G \in SUBSET Queued(phase) :
            Holders' = Holding(phase) \cup G /\ Waiting' = Queued(phase) \ G
  BY <1>1, <1>2, <1>3, <1>4, <1>5, <1>6, ProcessQueueGrants
<1>8. PICK G \in SUBSET Waiting : Holders' = Holders \cup G /\ Waiting' = Waiting \ G
  BY <1>5, <1>7
<1>9. Pool!Cardinality(Holders') <= ConcurrentRequests
  BY <1>7, PoolCardinality DEF LimiterInv, ActiveIsHolders
<1>10. CASE G = {}
  BY <1>7, <1>8, <1>10 DEF PoolStep
<1>11. CASE G # {}
  <2>1. Pool!Grant(G)
    BY <1>8, <1>9, <1>11 DEF Pool!Grant
  <2> QED
    BY <1>7, <1>8, <2>1 DEF PoolStep, Pool!Next
<1> QED
  BY <1>10, <1>11

LEMMA AcquireStep ==
  ASSUME LimiterInv, NEW c \in Client, Acquire(c)
  PROVE  LimiterInv' /\ PoolStep
<1>1. /\ TypeOK /\ ActiveIsHolders /\ QueueIsWaiting /\ WakeupPending
      /\ activeRequests <= ConcurrentRequests
  BY DEF LimiterInv
<1>2. windows' = resetExpiredWindows /\ phase[c] = "idle"
  BY DEF Acquire
<1>3. /\ windows' \in [Window -> [left : Nat, requests : Nat, tokens : Nat]]
      /\ \A w \in Window : windows'[w].left <= WindowLength[w]
  BY <1>1, <1>2, WindowsReset
<1>4. c \notin Holders /\ c \notin Waiting
  BY <1>2 DEF Holders, Waiting
<1>5. IsFiniteSet(Holders) /\ Cardinality(Holders) \in Nat
  BY ClientFinite DEF Holders
<1>8. {c} \in SUBSET (Client \ (Holders \cup Waiting))
  BY <1>4
<1>6. CASE canProceed(windows')
  <2>1. /\ activeRequests' = activeRequests + 1
        /\ phase' = [phase EXCEPT ![c] = "active"]
        /\ UNCHANGED <<queue, timeout, timers, backoff, nextBackoff, cleared, rounds>>
    BY <1>6 DEF Acquire
  <2>2. Holders' = Holders \cup {c} /\ Waiting' = Waiting
    BY <1>1, <1>2, <2>1 DEF Holders, Waiting, TypeOK
  <2>3. Cardinality(Holders \cup {c}) = Cardinality(Holders) + 1
    BY <1>4, <1>5, FS_AddElement
  <2>4. activeRequests' <= ConcurrentRequests
    BY <1>1, <1>6, <2>1, RateLimiterAssumption DEF canProceed, TypeOK
  <2>5. phase' \in [Client -> Phase]
    BY <1>1, <2>1 DEF TypeOK, Phase
  <2>6. TypeOK'
    BY <1>1, <1>3, <2>1, <2>5 DEF TypeOK
  <2>7. ActiveIsHolders'
    BY <1>1, <2>1, <2>2, <2>3 DEF ActiveIsHolders
  <2>8. QueueIsWaiting' /\ WakeupPending'
    BY <1>1, <2>1, <2>2 DEF QueueIsWaiting, WakeupPending
  <2>9. Pool!Cardinality(Holders') <= ConcurrentRequests
    BY <2>4, <2>7, PoolCardinality DEF ActiveIsHolders
  <2>10. Pool!Join({c})
    BY <1>4, <2>2, <2>9 DEF Pool!Join
  <2> QED
    BY <1>8, <2>4, <2>6, <2>7, <2>8, <2>10 DEF LimiterInv, PoolStep, Pool!Next
<1>7. CASE ~canProceed(windows')
  <2>1. /\ queue' = Append(queue, c)
        /\ timeout' = [timeout EXCEPT ![c] = QueueTimeout]
        /\ timers' = scheduleQueueProcessing(timers, resetExpiredWindows)
        /\ phase' = [phase EXCEPT ![c] = "queued"]
        /\ UNCHANGED <<activeRequests, backoff, nextBackoff, cleared, rounds>>
    BY <1>2, <1>7 DEF Acquire
  <2>2. Holders' = Holders /\ Waiting' = Waiting \cup {c}
    BY <1>1, <1>2, <2>1 DEF Holders, Waiting, TypeOK
  <2>3. timers \in [0..MaxDelay -> Nat]
    BY <1>1 DEF TypeOK
  <2>4. timers' \in [0..MaxDelay -> Nat] /\ WakeupPending'
    BY <1>1, <2>1, <2>3, Scheduled DEF WakeupPending
  <2>5. phase' \in [Client -> Phase] /\ timeout' \in [Client -> 0..QueueTimeout]
    BY <1>1, <2>1, RateLimiterAssumption DEF TypeOK, Phase
  <2>6. /\ queue \in Seq(Client) /\ queue' \in Seq(Client)
        /\ Len(queue') = Len(queue) + 1 /\ Len(queue) \in Nat
        /\ \A i \in 1..Len(queue) : queue'[i] = queue[i]
        /\ queue'[Len(queue) + 1] = c
    BY <1>1, <2>1 DEF TypeOK
  <2>7. TypeOK'
    BY <1>1, <1>3, <2>1, <2>4, <2>5, <2>6 DEF TypeOK
  <2>8. Range(queue') = Range(queue) \cup {c}
    BY <2>6 DEF Range
  <2>9. \A i \in 1..Len(queue) : queue[i] # c
    BY <1>1, <1>4, <2>6 DEF QueueIsWaiting, Range
  <2>10. \A i, j \in 1..Len(queue') : queue'[i] = queue'[j] => i = j
    <3> SUFFICES ASSUME NEW i \in 1..Len(queue'), NEW j \in 1..Len(queue'),
                        queue'[i] = queue'[j]
                 PROVE  i = j
      OBVIOUS
    <3>1. CASE i \in 1..Len(queue) /\ j \in 1..Len(queue)
      BY <1>1, <2>6, <3>1 DEF QueueIsWaiting
    <3>2. CASE ~(i \in 1..Len(queue) /\ j \in 1..Len(queue))
      BY <2>6, <2>9, <3>2
    <3> QED
      BY <3>1, <3>2
  <2>11. QueueIsWaiting'
    BY <1>1, <2>2, <2>8, <2>10 DEF QueueIsWaiting
  <2>12. ActiveIsHolders'
    BY <1>1, <2>1, <2>2 DEF ActiveIsHolders
  <2>13. Pool!Join({c})
    BY <1>4, <2>2 DEF Pool!Join
  <2> QED
    BY <1>1, <1>8, <2>1, <2>4, <2>7, <2>11, <2>12, <2>13 DEF LimiterInv, PoolStep, Pool!Next
<1> QED
  BY <1>6, <1>7

LEMMA TimeoutStep ==
  ASSUME LimiterInv, NEW c \in Client, RequestTimesOut(c)
  PROVE  LimiterInv' /\ PoolStep
<1>1. /\ TypeOK /\ ActiveIsHolders /\ QueueIsWaiting /\ WakeupPending
      /\ activeRequests <= ConcurrentRequests
  BY DEF LimiterInv
<1>2. PICK i \in 1..Len(queue) : queue[i] = c /\ queue' = without(queue, i)
  BY DEF RequestTimesOut
<1>3. /\ phase[c] = "queued"
      /\ phase' = [phase EXCEPT ![c] = "rejected"]
      /\ UNCHANGED <<windows, activeRequests, backoff, nextBackoff, cleared,
                     timeout, timers, rounds>>
  BY DEF RequestTimesOut
<1>4. Holders' = Holders /\ Waiting' = Waiting \ {c} /\ c \in Waiting
  BY <1>1, <1>3 DEF Holders, Waiting, TypeOK
<1>5. /\ queue \in Seq(Client) /\ Len(queue) \in Nat /\ Len(queue) - 1 \in Nat
      /\ \A j \in 1..Len(queue) : queue[j] \in Client
  BY <1>1 DEF TypeOK
<1>6. /\ queue' \in Seq(Client)
      /\ Len(queue') = Len(queue) - 1
      /\ \A j \in 1..Len(queue') : queue'[j] = queue[IF j < i THEN j ELSE j + 1]
  <2>1. queue' \in [1..(Len(queue) - 1) -> Client]
    BY <1>2, <1>5 DEF without
  <2> QED
    BY <1>2, <1>5, <2>1 DEF without
<1>7. \A j, l \in 1..Len(queue) : queue[j] = queue[l] => j = l
  BY <1>1 DEF QueueIsWaiting
<1>8. \A j, l \in 1..Len(queue') : queue'[j] = queue'[l] => j = l
  BY <1>5, <1>6, <1>7
<1>9. Range(queue') = Range(queue) \ {c}
  <2>1. ASSUME NEW j \in 1..Len(queue')
        PROVE  queue'[j] \in Range(queue) /\ queue'[j] # c
    <3> DEFINE l == IF j < i THEN j ELSE j + 1
    <3>1. l \in 1..Len(queue) /\ l # i
      BY <1>5, <1>6
    <3>2. queue'[j] = queue[l]
      BY <1>6
    <3> HIDE DEF l
    <3> QED
      BY <1>2, <1>5, <1>7, <3>1, <3>2 DEF Range
  <2>2. ASSUME NEW j \in 1..Len(queue), queue[j] # c
        PROVE  \E l \in 1..Len(queue') : queue'[l] = queue[j]
    <3>1. CASE j < i
      BY <1>2, <1>5, <1>6, <3>1
    <3>2. CASE j > i
      <4>1. j - 1 \in 1..Len(queue') /\ ~(j - 1 < i) /\ (j - 1) + 1 = j
        BY <1>2, <1>5, <1>6, <3>2
      <4>2. queue'[j - 1] = queue[j]
        BY <1>6, <4>1
      <4> QED
        BY <4>1, <4>2
    <3> QED
      BY <1>2, <2>2, <3>1, <3>2
  <2>3. Range(queue') = {queue'[j] : j \in 1..Len(queue')}
    BY <1>6 DEF Range
  <2>4. Range(queue) = {queue[j] : j \in 1..Len(queue)}
    BY <1>5 DEF Range
  <2> QED
    BY <2>1, <2>2, <2>3, <2>4
<1>10. QueueIsWaiting'
  BY <1>1, <1>4, <1>8, <1>9 DEF QueueIsWaiting
<1>11. WakeupPending'
  BY <1>1, <1>2, <1>3, <1>5 DEF WakeupPending
<1>12. TypeOK' /\ ActiveIsHolders'
  BY <1>1, <1>3, <1>4, <1>6 DEF TypeOK, Phase, ActiveIsHolders
<1>13. Pool!Reject(c)
  BY <1>4 DEF Pool!Reject
<1> QED
  BY <1>1, <1>3, <1>4, <1>10, <1>11, <1>12, <1>13 DEF LimiterInv, PoolStep, Pool!Next

\* Steps that leave the agents, the queue and the lanes alone.
LEMMA OtherSteps ==
  ASSUME LimiterInv, \/ \E c \in Caller : recordSuccess(c)
                     \/ \E c \in Client : recordRateLimitError(c)
                     \/ getAllStates \/ Tick \/ UNCHANGED vars
  PROVE  LimiterInv' /\ PoolStep
<1>1. /\ TypeOK /\ ActiveIsHolders /\ QueueIsWaiting /\ WakeupPending
      /\ activeRequests <= ConcurrentRequests
  BY DEF LimiterInv
<1>2. ASSUME TypeOK', UNCHANGED <<activeRequests, queue>>, WakeupPending',
             Holders' = Holders, Waiting' = Waiting
      PROVE  LimiterInv' /\ PoolStep
  BY <1>1, <1>2 DEF LimiterInv, ActiveIsHolders, QueueIsWaiting, PoolStep
<1>3. ASSUME NEW c \in Caller, recordSuccess(c) PROVE LimiterInv' /\ PoolStep
  <2>1. PICK tokens \in Usage :
           windows' = [w \in Window |-> [windows[w] EXCEPT !.requests = @ + 1,
                                                           !.tokens = @ + tokens]]
    BY <1>3 DEF recordSuccess
  <2>2. tokens \in Nat
    BY RateLimiterAssumption
  <2>3. /\ rounds[c] < MaxRounds
        /\ rounds' = [rounds EXCEPT ![c] = rounds[c] + 1]
        /\ backoff' = 0 /\ nextBackoff' = BaseBackoff
        /\ cleared' = backoff \/ UNCHANGED cleared
        /\ UNCHANGED <<activeRequests, queue, timeout, timers, phase>>
    BY <1>3, Zenon DEF recordSuccess
  <2>4. /\ windows' \in [Window -> [left : Nat, requests : Nat, tokens : Nat]]
        /\ \A w \in Window : windows'[w].left <= WindowLength[w]
    <3>1. windows \in [Window -> [left : Nat, requests : Nat, tokens : Nat]]
      BY <1>1 DEF TypeOK
    <3>2. \A w \in Window :
             windows'[w] = [left |-> windows[w].left,
                            requests |-> windows[w].requests + 1,
                            tokens |-> windows[w].tokens + tokens]
      BY <2>1, <3>1
    <3>3. windows' = [w \in Window |-> windows'[w]]
      BY <2>1
    <3>4. ASSUME NEW w \in Window
          PROVE  /\ windows'[w] \in [left : Nat, requests : Nat, tokens : Nat]
                 /\ windows'[w].left <= WindowLength[w]
      <4>1. windows[w] \in [left : Nat, requests : Nat, tokens : Nat]
        BY <3>1
      <4>2. windows[w].left <= WindowLength[w]
        BY <1>1 DEF TypeOK
      <4>3. windows[w].requests + 1 \in Nat /\ windows[w].tokens + tokens \in Nat
        BY <2>2, <4>1
      <4>4. windows'[w] = [left |-> windows[w].left,
                           requests |-> windows[w].requests + 1,
                           tokens |-> windows[w].tokens + tokens]
        BY <3>2
      <4>5. windows'[w].left = windows[w].left
        BY <4>4
      <4>6. windows'[w] \in [left : Nat, requests : Nat, tokens : Nat]
        BY <4>1, <4>3, <4>4
      <4> QED
        BY <4>2, <4>5, <4>6
    <3> QED
      BY <3>3, <3>4
  <2>5. rounds' \in [Caller -> 0..MaxRounds]
    <3>1. rounds \in [Caller -> 0..MaxRounds]
      BY <1>1 DEF TypeOK
    <3>2. rounds[c] + 1 \in 0..MaxRounds
      BY <2>3, <3>1, RateLimiterAssumption
    <3> QED
      BY <2>3, <3>1, <3>2
  <2>6. TypeOK'
    <3>1. /\ backoff' \in 0..MaxBackoff /\ nextBackoff' \in 1..MaxBackoff
          /\ cleared' \in 0..MaxBackoff
      BY <1>1, <2>3, RateLimiterAssumption DEF TypeOK
    <3> QED
      BY <1>1, <2>4, <2>5, <2>3, <3>1 DEF TypeOK
  <2> QED
    BY <1>1, <1>2, <2>6, <2>3 DEF WakeupPending, Holders, Waiting
<1>4. ASSUME NEW c \in Client, recordRateLimitError(c) PROVE LimiterInv' /\ PoolStep
  <2>1. backoff' \in 0..MaxBackoff /\ nextBackoff' \in 1..MaxBackoff
    BY <1>1, <1>4, RateLimiterAssumption DEF recordRateLimitError, tripled, TypeOK
  <2>2. phase' \in [Client -> Phase]
    BY <1>1, <1>4 DEF recordRateLimitError, TypeOK, Phase
  <2>3. Holders' = Holders /\ Waiting' = Waiting
    BY <1>1, <1>4 DEF recordRateLimitError, TypeOK, Holders, Waiting
  <2>4. TypeOK'
    BY <1>1, <1>4, <2>1, <2>2 DEF recordRateLimitError, TypeOK
  <2> QED
    BY <1>1, <1>2, <1>4, <2>3, <2>4 DEF recordRateLimitError, WakeupPending
<1>5. CASE getAllStates
  <2>1. TypeOK'
    BY <1>1, <1>5, WindowsReset DEF getAllStates, TypeOK
  <2> QED
    BY <1>1, <1>2, <1>5, <2>1 DEF getAllStates, WakeupPending, Holders, Waiting
<1>6. CASE Tick
  <2>1. /\ windows' \in [Window -> [left : Nat, requests : Nat, tokens : Nat]]
        /\ \A w \in Window : windows'[w].left <= WindowLength[w]
    <3>1. windows \in [Window -> [left : Nat, requests : Nat, tokens : Nat]]
      BY <1>1 DEF TypeOK
    <3>2. \A w \in Window :
             windows'[w] = [left |-> countDown(windows[w].left),
                            requests |-> windows[w].requests,
                            tokens |-> windows[w].tokens]
      BY <1>6, <3>1 DEF Tick
    <3>3. windows' = [w \in Window |-> windows'[w]]
      BY <1>6 DEF Tick
    <3>4. \A w \in Window : /\ countDown(windows[w].left) \in Nat
                            /\ countDown(windows[w].left) <= WindowLength[w]
      BY <1>1, <3>1, RateLimiterAssumption DEF TypeOK, countDown
    <3> QED
      BY <3>1, <3>2, <3>3, <3>4
  <2>2. /\ backoff' \in 0..MaxBackoff /\ cleared' \in 0..MaxBackoff
        /\ timeout' \in [Client -> 0..QueueTimeout]
    <3>1. \A m \in Nat : \A n \in 0..m : countDown(n) \in 0..m
      BY DEF countDown
    <3> QED
      BY <1>1, <1>6, <3>1, RateLimiterAssumption DEF Tick, TypeOK
  <2>3. timers' \in [0..MaxDelay -> Nat]
    BY <1>1, <1>6, RateLimiterAssumption DEF Tick, TypeOK
  <2>4. TypeOK'
    BY <1>1, <1>6, <2>1, <2>2, <2>3 DEF Tick, TypeOK
  <2>5. ASSUME NEW d \in 0..MaxDelay, timers[d] > 0
        PROVE  \E e \in 0..MaxDelay : timers'[e] > 0
    <3>1. d - 1 \in 0..MaxDelay /\ d - 1 # MaxDelay
      BY <1>6, <2>5, RateLimiterAssumption DEF Tick
    <3>2. timers'[d - 1] = timers[d]
      BY <1>6, <3>1, RateLimiterAssumption DEF Tick
    <3> QED
      BY <2>5, <3>1, <3>2
  <2>6. WakeupPending'
    BY <1>1, <1>6, <2>5 DEF Tick, WakeupPending
  <2> QED
    BY <1>2, <1>6, <2>4, <2>6 DEF Tick, Holders, Waiting
<1>7. CASE UNCHANGED vars
  <2>1. TypeOK'
    BY <1>1, <1>7 DEF vars, limiterVars, TypeOK
  <2> QED
    BY <1>1, <1>2, <1>7, <2>1 DEF vars, limiterVars, WakeupPending, Holders, Waiting
<1> QED
  BY <1>3, <1>4, <1>5, <1>6, <1>7

LEMMA LimiterNext == LimiterInv /\ [Next]_vars => LimiterInv' /\ PoolStep
BY AcquireStep, ReleaseStep, FireTimerStep, TimeoutStep, OtherSteps
   DEF Next, AgentNext, Caller

LEMMA LimiterInvariant == Spec => []LimiterInv
BY LimiterInit, LimiterNext, PTL DEF Spec

\* Whatever the windows, delays and numbers of requests, no back-off, timer,
\* timeout or count leaves its range: in particular a queue timer is never set
\* beyond the longest delay.
THEOREM LimiterTypeCorrect == Spec => []TypeOK
BY LimiterInvariant, PTL DEF LimiterInv

\* acquire, processQueue, release and the timeouts keep the count of requests
\* in flight equal to the number of agents that hold a lane.
THEOREM ActiveCorrect == Spec => []ActiveIsHolders
BY LimiterInvariant, PTL DEF LimiterInv

\* The queue holds exactly the agents that wait, each once.
THEOREM QueueCorrect == Spec => []QueueIsWaiting
BY LimiterInvariant, PTL DEF LimiterInv

\* No wake-up of a waiting queue is ever lost.
THEOREM WakeupNeverLost == Spec => []WakeupPending
BY LimiterInvariant, PTL DEF LimiterInv

\* The limiter grants, rejects and takes back lanes as SlotPool promises, for
\* any number of agents and lanes.
THEOREM LimiterImplementsPool == Spec => ImplementsSlotPool
<1>1. Init => Pool!Init
  BY DEF Init, Pool!Init, Holders, Waiting
<1>2. LimiterInv /\ [Next]_vars => [Pool!Next]_<<Holders, Waiting>>
  BY LimiterNext DEF PoolStep
<1> QED
  BY <1>1, <1>2, LimiterInvariant, PTL DEF Spec, ImplementsSlotPool, Pool!Spec

(***************************************************************************)
(* An idle pool. A timer may be pending for good reasons only: the back-   *)
(* off, one that a planner or a synthesis has ended, the used-up requests  *)
(* of a window, or, for the next tick, its used-up tokens. As the clock    *)
(* counts down, the timer and its reason run out together, so that a queue *)
(* nothing blocks is looked at within the tick.                            *)
(***************************************************************************)
Justified(d) ==
    \/ d <= backoff
    \/ d <= cleared
    \/ \E w \in Window : /\ windows[w].requests >= RequestLimit[w]
                         /\ d <= windows[w].left
    \/ /\ d = 1
       /\ \E w \in Window : /\ windows[w].tokens + Estimate > TokenLimit[w]
                            /\ 1 <= windows[w].left

IdleInv ==
    queue # <<>> /\ activeRequests = 0
        => \E d \in 0..MaxDelay : timers[d] > 0 /\ Justified(d)

\* A delay computed for closed windows is justified once they are reset.
LEMMA DelayJustified ==
  ASSUME TypeOK, ~open(resetExpiredWindows), windows' = resetExpiredWindows,
         UNCHANGED <<backoff, cleared>>, NEW d, d = pollDelay(resetExpiredWindows)
  PROVE  Justified(d)'
<1> DEFINE ws == resetExpiredWindows
<1>1. \A w \in Window : ws[w].left \in Nat \ {0} /\ ws[w].requests \in Nat
  BY RateLimiterAssumption DEF TypeOK, resetExpiredWindows, freshWindow
<1>2. ws \in [Window -> [left : Nat, requests : Nat, tokens : Nat]]
  BY WindowsReset
<1>3. backoff \in Nat /\ "minute" \in Window /\ "day" \in Window
  BY RateLimiterAssumption DEF TypeOK, Window
<1>4. ~open(ws) /\ windows' = ws /\ d = pollDelay(ws)
  OBVIOUS
<1> HIDE DEF ws
<1>5. CASE backoff > 0
  <2>1. d = backoff
    BY <1>3, <1>4, <1>5 DEF pollDelay, getWaitTime
  <2> QED
    BY <1>3, <2>1 DEF Justified
<1>6. CASE backoff = 0 /\ \E w \in Window : ws[w].requests >= RequestLimit[w]
  <2>1. \E w \in Window : ws[w].requests >= RequestLimit[w] /\ d = ws[w].left
    BY <1>1, <1>3, <1>4, <1>6 DEF pollDelay, getWaitTime, Window
  <2>2. \E w \in Window : ws[w].requests >= RequestLimit[w] /\ d <= ws[w].left
    BY <1>1, <2>1
  <2> QED
    BY <1>4, <2>2 DEF Justified
<1>7. CASE backoff = 0 /\ ~\E w \in Window : ws[w].requests >= RequestLimit[w]
  <2>1. d = 1
    BY <1>3, <1>4, <1>7 DEF pollDelay, getWaitTime
  <2>2. \E w \in Window : ws[w].tokens + Estimate > TokenLimit[w]
    BY <1>1, <1>2, <1>4, <1>7, RateLimiterAssumption DEF open
  <2> QED
    BY <1>1, <1>4, <2>1, <2>2 DEF Justified
<1> QED
  BY <1>3, <1>5, <1>6, <1>7

\* Whoever finds the idle pool blocked sets a timer that is justified.
LEMMA ScheduledJustified ==
  ASSUME TypeOK, ~open(resetExpiredWindows), windows' = resetExpiredWindows,
         UNCHANGED <<backoff, cleared>>, NEW tm \in [0..MaxDelay -> Nat],
         timers' = scheduleQueueProcessing(tm, resetExpiredWindows)
  PROVE  IdleInv'
<1>1. PICK d \in 0..MaxDelay : d = pollDelay(resetExpiredWindows)
  BY DelayInRange, RateLimiterAssumption
<1>2. Justified(d)'
  BY <1>1, DelayJustified
<1>3. timers'[d] > 0
  BY <1>1 DEF scheduleQueueProcessing
<1>4. \E e \in 0..MaxDelay : timers'[e] > 0 /\ Justified(e)'
  BY <1>1, <1>2, <1>3
<1> QED
  BY <1>4 DEF IdleInv

LEMMA ProcessQueueIdle ==
  ASSUME TypeOK, NEW ph \in [Client -> Phase], NEW tm \in [0..MaxDelay -> Nat],
         NEW n \in Nat, processQueue(n, tm, ph), UNCHANGED <<backoff, cleared>>
  PROVE  IdleInv'
<1> DEFINE ws == resetExpiredWindows
           k  == served(ws, n)
<1>1. queue \in Seq(Client) /\ Len(queue) \in Nat
  BY DEF TypeOK
<1>2. SUFFICES ASSUME queue' # <<>>, activeRequests' = 0 PROVE IdleInv'
  BY DEF IdleInv
<1>3. k \in Nat /\ activeRequests' = n + k /\ queue' = SubSeq(queue, k + 1, Len(queue))
  BY <1>1, RateLimiterAssumption DEF processQueue, resolve, served
<1>4. n = 0 /\ k = 0
  BY <1>2, <1>3
<1>5. queue # <<>> /\ Len(queue) # 0
  BY <1>1, <1>2, <1>3
<1>6. ~open(ws)
  BY <1>1, <1>4, <1>5, RateLimiterAssumption DEF served
<1>7. windows' = ws /\ timers' = scheduleQueueProcessing(tm, ws)
  BY <1>4, <1>5 DEF processQueue
<1> QED
  BY <1>6, <1>7, ScheduledJustified

\* Resetting the expired windows takes no reason away.
LEMMA ResetJustified ==
  ASSUME TypeOK, IdleInv, UNCHANGED <<backoff, cleared, activeRequests, timers>>,
         queue' # <<>> => queue # <<>>,
         windows' = resetExpiredWindows \/ UNCHANGED windows
  PROVE  IdleInv'
<1>1. SUFFICES ASSUME queue # <<>>, activeRequests = 0
               PROVE  \E d \in 0..MaxDelay : timers'[d] > 0 /\ Justified(d)'
  BY DEF IdleInv
<1>2. PICK d \in 0..MaxDelay : timers[d] > 0 /\ Justified(d)
  BY <1>1 DEF IdleInv
<1>3. \A w \in Window : windows[w].left \in Nat /\ (windows[w].left >= 1 => windows'[w] = windows[w])
  BY DEF TypeOK, resetExpiredWindows
<1>4. d \in Nat /\ backoff \in Nat /\ cleared \in Nat
  BY RateLimiterAssumption DEF TypeOK
<1>5. Justified(d)'
  <2>1. CASE d <= backoff \/ d <= cleared
    BY <2>1 DEF Justified
  <2>2. CASE ~(d <= backoff \/ d <= cleared)
    <3>1. d >= 1
      BY <1>4, <2>2
    <3>2. \A w \in Window : d <= windows[w].left => windows'[w] = windows[w]
      BY <1>3, <1>4, <3>1
    <3>3. \A w \in Window : 1 <= windows[w].left => windows'[w] = windows[w]
      BY <1>3
    <3> QED
      BY <1>2, <2>2, <3>2, <3>3 DEF Justified
  <2> QED
    BY <2>1, <2>2
<1> QED
  BY <1>2, <1>5

LEMMA TickJustified ==
  ASSUME TypeOK, IdleInv, Tick
  PROVE  IdleInv'
<1>1. SUFFICES ASSUME queue # <<>>, activeRequests = 0
               PROVE  \E d \in 0..MaxDelay : timers'[d] > 0 /\ Justified(d)'
  BY DEF IdleInv, Tick
<1>2. PICK d \in 0..MaxDelay : timers[d] > 0 /\ Justified(d)
  BY <1>1 DEF IdleInv
<1>3. d \in Nat \ {0} /\ d <= MaxDelay /\ d - 1 \in 0..MaxDelay /\ d - 1 # MaxDelay
  BY <1>2, RateLimiterAssumption DEF Tick
<1>4. timers'[d - 1] > 0
  BY <1>2, <1>3, RateLimiterAssumption DEF Tick
<1>5. \A w \in Window : /\ windows[w].left \in Nat
                        /\ windows'[w].left = countDown(windows[w].left)
                        /\ windows'[w].requests = windows[w].requests
                        /\ windows'[w].tokens = windows[w].tokens
  BY DEF Tick, TypeOK
<1>6. /\ backoff \in Nat /\ backoff' = countDown(backoff)
      /\ cleared \in Nat /\ cleared' = countDown(cleared)
  BY RateLimiterAssumption DEF Tick, TypeOK
<1>7. Justified(d - 1)'
  <2>1. CASE d <= backoff
    <3>1. d - 1 <= backoff'
      BY <1>3, <1>6, <2>1 DEF countDown
    <3> QED
      BY <3>1 DEF Justified
  <2>2. CASE \E w \in Window : windows[w].requests >= RequestLimit[w] /\ d <= windows[w].left
    <3>1. \E w \in Window : windows'[w].requests >= RequestLimit[w] /\ d - 1 <= windows'[w].left
      BY <1>3, <1>5, <2>2 DEF countDown
    <3> QED
      BY <3>1 DEF Justified
  <2>3. CASE d = 1
    <3>1. d - 1 <= backoff'
      BY <1>6, <2>3 DEF countDown
    <3> QED
      BY <3>1 DEF Justified
  <2>4. CASE d <= cleared
    <3>1. d - 1 <= cleared'
      BY <1>3, <1>6, <2>4 DEF countDown
    <3> QED
      BY <3>1 DEF Justified
  <2> QED
    BY <1>2, <2>1, <2>2, <2>3, <2>4 DEF Justified
<1> QED
  BY <1>3, <1>4, <1>7

\* An agent with a lane is counted: the pool is not idle.
LEMMA HolderCounted ==
  ASSUME LimiterInv, NEW c \in Client, phase[c] = "active"
  PROVE  activeRequests # 0
<1>1. c \in Holders /\ IsFiniteSet(Holders)
  BY ClientFinite DEF Holders
<1> QED
  BY <1>1, FS_EmptySet DEF LimiterInv, ActiveIsHolders

\* The planner's success ends the back-off and closes the windows further: what
\* justified a timer still does, the back-off now by what was left of it.
LEMMA UncountedSuccess ==
  ASSUME TypeOK, IdleInv, recordSuccess(NoAgent)
  PROVE  IdleInv'
<1>1. SUFFICES ASSUME queue # <<>>, activeRequests = 0
               PROVE  \E d \in 0..MaxDelay : timers'[d] > 0 /\ Justified(d)'
  BY DEF IdleInv, recordSuccess
<1>2. PICK d \in 0..MaxDelay : timers[d] > 0 /\ Justified(d)
  BY <1>1 DEF IdleInv
<1>3. UNCHANGED timers /\ cleared' = IF backoff > cleared THEN backoff ELSE cleared
  BY Zenon DEF recordSuccess
<1>8. backoff \in Nat /\ cleared \in Nat
  BY RateLimiterAssumption DEF TypeOK
<1>4. PICK tokens \in Usage :
         windows' = [w \in Window |-> [windows[w] EXCEPT !.requests = @ + 1,
                                                         !.tokens = @ + tokens]]
  BY DEF recordSuccess
<1>5. \A w \in Window : /\ windows'[w].left = windows[w].left
                        /\ windows[w].left \in Nat
                        /\ windows[w].requests \in Nat /\ windows[w].tokens \in Nat
                        /\ windows'[w].requests = windows[w].requests + 1
                        /\ windows'[w].tokens = windows[w].tokens + tokens
  BY <1>4 DEF TypeOK
<1>6. tokens \in Nat /\ Estimate \in Nat /\ d \in Nat
      /\ \A w \in Window : RequestLimit[w] \in Nat /\ TokenLimit[w] \in Nat
  BY RateLimiterAssumption
<1>7. Justified(d)'
  <2>1. CASE d <= backoff \/ d <= cleared
    <3>1. d <= cleared'
      BY <1>3, <1>6, <1>8, <2>1
    <3> QED
      BY <3>1 DEF Justified
  <2>2. CASE \E w \in Window : windows[w].requests >= RequestLimit[w] /\ d <= windows[w].left
    <3>1. \E w \in Window : windows'[w].requests >= RequestLimit[w] /\ d <= windows'[w].left
      BY <1>5, <1>6, <2>2
    <3> QED
      BY <3>1 DEF Justified
  <2>3. CASE d = 1 /\ \E w \in Window : windows[w].tokens + Estimate > TokenLimit[w]
                                        /\ 1 <= windows[w].left
    <3>1. \E w \in Window : windows'[w].tokens + Estimate > TokenLimit[w]
                           /\ 1 <= windows'[w].left
      BY <1>5, <1>6, <2>3
    <3> QED
      BY <2>3, <3>1 DEF Justified
  <2> QED
    BY <1>2, <2>1, <2>2, <2>3 DEF Justified
<1> QED
  BY <1>2, <1>3, <1>7

LEMMA IdleNext == LimiterInv /\ IdleInv /\ [Next]_vars => IdleInv'
<1> SUFFICES ASSUME LimiterInv, IdleInv, [Next]_vars PROVE IdleInv'
  OBVIOUS
<1>0. TypeOK /\ activeRequests \in Nat /\ timers \in [0..MaxDelay -> Nat]
  BY DEF LimiterInv, TypeOK
<1>1. ASSUME NEW c \in Client, Acquire(c) PROVE IdleInv'
  <2>1. windows' = resetExpiredWindows /\ UNCHANGED <<backoff, cleared>>
    BY <1>1 DEF Acquire
  <2>2. CASE canProceed(windows')
    BY <1>0, <1>1, <2>2 DEF Acquire, IdleInv
  <2>3. CASE ~canProceed(windows') /\ activeRequests # 0
    BY <1>1, <2>3 DEF Acquire, IdleInv
  <2>4. CASE ~canProceed(windows') /\ activeRequests = 0
    <3>1. ~open(resetExpiredWindows)
      BY <2>1, <2>4, RateLimiterAssumption DEF canProceed
    <3>2. timers' = scheduleQueueProcessing(timers, resetExpiredWindows)
      BY <1>1, <2>1, <2>4 DEF Acquire
    <3> QED
      BY <1>0, <2>1, <3>1, <3>2, ScheduledJustified
  <2> QED
    BY <2>2, <2>3, <2>4
<1>2. ASSUME NEW c \in Client, recordSuccess(c) \/ recordRateLimitError(c) PROVE IdleInv'
  <2>1. phase[c] = "active" /\ UNCHANGED activeRequests
    BY <1>2, Zenon DEF recordSuccess, recordRateLimitError
  <2> QED
    BY <2>1, HolderCounted DEF IdleInv
<1>8. CASE recordSuccess(NoAgent)
  BY <1>0, <1>8, UncountedSuccess
<1>3. ASSUME NEW c \in Client, release(c) PROVE IdleInv'
  <2> DEFINE ph == [phase EXCEPT ![c] = "done"]
  <2>1. ph \in [Client -> Phase] /\ UNCHANGED <<backoff, cleared>>
    BY <1>0, <1>3 DEF release, TypeOK, Phase
  <2>2. CASE activeRequests > 0
    <3>1. processQueue(activeRequests - 1, timers, ph) /\ activeRequests - 1 \in Nat
      BY <1>0, <1>3, <2>2 DEF release
    <3> HIDE DEF ph
    <3> QED
      BY <1>0, <2>1, <3>1, ProcessQueueIdle
  <2>3. CASE ~(activeRequests > 0)
    BY <1>0, <1>3, <2>1, <2>3, ResetJustified DEF release
  <2> QED
    BY <2>2, <2>3
<1>4. ASSUME NEW c \in Client, RequestTimesOut(c) PROVE IdleInv'
  <2>1. queue # <<>> /\ UNCHANGED <<windows, backoff, cleared, activeRequests, timers>>
    BY <1>0, <1>4 DEF RequestTimesOut, TypeOK
  <2> QED
    BY <1>0, <2>1, ResetJustified
<1>5. CASE FireTimer
  <2> DEFINE tm == [timers EXCEPT ![0] = @ - 1]
  <2>1. tm \in [0..MaxDelay -> Nat] /\ phase \in [Client -> Phase]
    BY <1>0, <1>5, RateLimiterAssumption DEF FireTimer, TypeOK
  <2>2. processQueue(activeRequests, tm, phase) /\ UNCHANGED <<backoff, cleared>>
    BY <1>5 DEF FireTimer
  <2> HIDE DEF tm
  <2> QED
    BY <1>0, <2>1, <2>2, ProcessQueueIdle
<1>6. CASE getAllStates \/ UNCHANGED vars
  <2>1. /\ windows' = resetExpiredWindows \/ UNCHANGED windows
        /\ UNCHANGED <<backoff, cleared, activeRequests, timers, queue>>
    BY <1>6 DEF getAllStates, vars, limiterVars
  <2> QED
    BY <1>0, <2>1, ResetJustified
<1>7. CASE Tick
  BY <1>0, <1>7, TickJustified
<1> QED
  BY <1>1, <1>2, <1>3, <1>4, <1>5, <1>6, <1>7, <1>8 DEF Next, AgentNext

\* An idle pool whose queue may proceed is looked at within the tick, or by the
\* end of a back-off that a planner or a synthesis has ended early: no delay is
\* longer than the back-off, the window or the tick that blocks the queue.
THEOREM IdleWakes == Spec => []IdlePoolWakes
<1>1. Init => IdleInv
  BY DEF Init, IdleInv
<1>2. LimiterInv /\ IdleInv => IdlePoolWakes
  <2> SUFFICES ASSUME TypeOK, IdleInv, queue # <<>>, activeRequests = 0,
                      canProceed(resetExpiredWindows)
               PROVE  \E d \in 0..cleared : timers[d] > 0
    BY DEF LimiterInv, IdlePoolWakes
  <2>1. PICK d \in 0..MaxDelay : timers[d] > 0 /\ Justified(d)
    BY DEF IdleInv
  <2>2. /\ backoff = 0
        /\ \A w \in Window : /\ resetExpiredWindows[w].requests < RequestLimit[w]
                             /\ resetExpiredWindows[w].tokens + Estimate <= TokenLimit[w]
    BY DEF canProceed, open
  <2>3. \A w \in Window : windows[w].left \in Nat /\ windows[w].requests \in Nat
                          /\ windows[w].tokens \in Nat
    BY DEF TypeOK
  <2>4. \A w \in Window : windows[w].left >= 1 => resetExpiredWindows[w] = windows[w]
    BY <2>3 DEF resetExpiredWindows
  <2>5. d \in 0..cleared
    <3>0. d \in Nat /\ cleared \in Nat
      BY RateLimiterAssumption DEF TypeOK
    <3> SUFFICES ASSUME d >= 1, ~(d <= cleared) PROVE FALSE
      BY <3>0
    <3>1. ~(d <= backoff)
      BY <2>2
    <3>2. \A w \in Window : windows[w].left >= 1 =>
             ~(windows[w].requests >= RequestLimit[w])
             /\ ~(windows[w].tokens + Estimate > TokenLimit[w])
      <4> SUFFICES ASSUME NEW w \in Window, windows[w].left >= 1
                   PROVE  /\ ~(windows[w].requests >= RequestLimit[w])
                          /\ ~(windows[w].tokens + Estimate > TokenLimit[w])
        OBVIOUS
      <4>1. /\ windows[w].requests < RequestLimit[w]
            /\ windows[w].tokens + Estimate <= TokenLimit[w]
        BY <2>2, <2>4
      <4>2. RequestLimit[w] \in Nat /\ TokenLimit[w] \in Nat /\ Estimate \in Nat
        BY RateLimiterAssumption
      <4> QED
        BY <2>3, <4>1, <4>2
    <3>3. \A w \in Window : d <= windows[w].left => windows[w].left >= 1
      BY <2>3
    <3> QED
      BY <2>1, <3>1, <3>2, <3>3 DEF Justified
  <2> QED
    BY <2>1, <2>5
<1> QED
  BY <1>1, <1>2, IdleNext, LimiterInvariant, PTL DEF Spec
===============================================================================
