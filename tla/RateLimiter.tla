----------------------------- MODULE RateLimiter ------------------------------
(***************************************************************************)
(* The API rate limiter (services/rateLimiter.ts) of one provider, with    *)
(* the agents that call it (runAgent in services/orchestrator.ts, one      *)
(* acquire each, always of the same estimate and priority), the planner    *)
(* and the synthesis of a swarm, whose rounds are counted though they      *)
(* acquire nothing, and the panel, which reads its state.                  *)
(*                                                                         *)
(* Time is counted down in ticks, a tick being the 50 ms after which a     *)
(* blocked queue is looked at again. Timers fire at the tick they are due: *)
(* the clock does not move while one is due. Between two callbacks of the  *)
(* same tick anything else may run.                                        *)
(***************************************************************************)
EXTENDS FiniteSets, Sequences, Functions, Naturals

CONSTANTS
    Client,             \* calls of runAgent
    NoAgent,            \* the planner and the synthesis, who hold no lane
    WindowLength,       \* MINUTE_MS and DAY_MS, in ticks
    RequestLimit,       \* requestsPerMinute and requestsPerDay
    TokenLimit,         \* tokensPerMinute and tokensPerDay
    ConcurrentRequests,
    Estimate,           \* tokens an agent announces
    Usage,              \* tokens a round of its conversation may use
    MaxRounds,          \* bound: successful rounds of one caller
    BaseBackoff, MaxBackoff,
    QueueTimeout,       \* REQUEST_TIMEOUT_MS
    MaxDelay            \* the longest delay of a queue timer

Window == {"minute", "day"}

Caller == Client \cup {NoAgent}

ASSUME RateLimiterAssumption ==
    /\ IsFiniteSet(Client)
    /\ NoAgent \notin Client
    /\ WindowLength \in [Window -> Nat \ {0}]
    /\ RequestLimit \in [Window -> Nat \ {0}]
    /\ TokenLimit \in [Window -> Nat]
    /\ ConcurrentRequests \in Nat \ {0}
    /\ Estimate \in Nat
    /\ Usage \subseteq Nat
    /\ MaxRounds \in Nat
    /\ BaseBackoff \in Nat \ {0}
    /\ MaxBackoff \in Nat \ {0}
    /\ BaseBackoff <= MaxBackoff
    /\ QueueTimeout \in Nat \ {0}
    /\ MaxDelay \in Nat \ {0}
    /\ MaxBackoff <= MaxDelay
    /\ \A w \in Window : WindowLength[w] <= MaxDelay

VARIABLES
    windows,            \* per window: ticks left, requests and tokens counted
    activeRequests,
    backoff,            \* ticks until backoffUntil
    nextBackoff,        \* what the next 429 sets it to
    cleared,            \* ticks left of a back-off NoAgent has ended (history)
    queue,
    timeout,            \* ticks until a queued request is rejected
    timers,             \* pending calls of processQueue, by ticks left
    phase,              \* where each agent is
    rounds              \* successful rounds of each caller

limiterVars == <<windows, activeRequests, backoff, nextBackoff, queue,
                 timeout, timers>>
vars == <<limiterVars, cleared, phase, rounds>>

Phase == {"idle", "queued", "active", "limited", "done", "rejected"}

TypeOK ==
    /\ windows \in [Window -> [left : Nat, requests : Nat, tokens : Nat]]
    /\ \A w \in Window : windows[w].left <= WindowLength[w]
    /\ activeRequests \in Nat
    /\ backoff \in 0..MaxBackoff
    /\ nextBackoff \in 1..MaxBackoff
    /\ cleared \in 0..MaxBackoff
    /\ queue \in Seq(Client)
    /\ timeout \in [Client -> 0..QueueTimeout]
    /\ timers \in [0..MaxDelay -> Nat]
    /\ phase \in [Client -> Phase]
    /\ rounds \in [Caller -> 0..MaxRounds]

-------------------------------------------------------------------------------
(***************************************************************************)
(* The windows, the checks and the wait.                                   *)
(***************************************************************************)
freshWindow(w) == [left |-> WindowLength[w], requests |-> 0, tokens |-> 0]

\* Windows restart at the first look after they expired, not when they expire.
resetExpiredWindows ==
    [w \in Window |-> IF windows[w].left = 0 THEN freshWindow(w) ELSE windows[w]]

\* Everything canProceed looks at but the lanes. ws are the windows after their
\* reset.
open(ws) ==
    /\ backoff = 0
    /\ \A w \in Window : /\ ws[w].requests < RequestLimit[w]
                         /\ ws[w].tokens + Estimate <= TokenLimit[w]

canProceed(ws) == open(ws) /\ activeRequests < ConcurrentRequests

\* Mutant: the whole length of the window, not what is left of it.
getWaitTimeWhole(ws) ==
    IF backoff > 0 THEN backoff
    ELSE IF ws["minute"].requests >= RequestLimit["minute"] THEN WindowLength["minute"]
    ELSE IF ws["day"].requests >= RequestLimit["day"] THEN WindowLength["day"]
    ELSE 0

\* Of lanes and tokens it knows nothing: 0, to be tried at the next tick.
getWaitTime(ws) ==
    IF backoff > 0 THEN backoff
    ELSE IF ws["minute"].requests >= RequestLimit["minute"] THEN ws["minute"].left
    ELSE IF ws["day"].requests >= RequestLimit["day"] THEN ws["day"].left
    ELSE 0

\* The queue is looked at again no sooner than at the next tick.
pollDelay(ws) == IF getWaitTime(ws) = 0 THEN 1 ELSE getWaitTime(ws)

scheduleQueueProcessing(tm, ws) == [tm EXCEPT ![pollDelay(ws)] = @ + 1]

\* Mutant: the lanes granted in the loop are counted only after it.
servedUncounted(ws, n) ==
    IF ~open(ws) \/ n >= ConcurrentRequests THEN 0 ELSE Len(queue)

\* How many of the queue are granted when n lanes are taken.
served(ws, n) ==
    IF ~open(ws) \/ n >= ConcurrentRequests THEN 0
    ELSE IF Len(queue) <= ConcurrentRequests - n THEN Len(queue)
    ELSE ConcurrentRequests - n

\* The first k of the queue are granted: their timeouts are cleared.
resolve(k, ph) ==
    LET granted == {queue[i] : i \in 1..k}
    IN  /\ queue' = SubSeq(queue, k + 1, Len(queue))
        /\ timeout' = [c \in Client |-> IF c \in granted THEN 0 ELSE timeout[c]]
        /\ phase' = [c \in Client |-> IF c \in granted THEN "active" ELSE ph[c]]

\* Mutants: a blocked queue is left to the next release; a queue that is still
\* blocked gives its requests their time again.
processQueueOnce(n, tm, ph) ==
    LET ws == resetExpiredWindows
        k  == served(ws, n)
    IN  /\ resolve(k, ph)
        /\ activeRequests' = n + k
        /\ windows' = IF queue = <<>> THEN windows ELSE ws
        /\ timers' = tm
processQueueRequeues(n, tm, ph) ==
    LET ws == resetExpiredWindows
        k  == served(ws, n)
    IN  /\ activeRequests' = n + k
        /\ queue' = SubSeq(queue, k + 1, Len(queue))
        /\ windows' = IF queue = <<>> THEN windows ELSE ws
        /\ timers' = IF k = Len(queue) THEN tm ELSE scheduleQueueProcessing(tm, ws)
        /\ timeout' = [c \in Client |-> IF c \in Range(queue) THEN QueueTimeout
                                        ELSE timeout[c]]
        /\ phase' = [c \in Client |-> IF c \in {queue[i] : i \in 1..k}
                                      THEN "active" ELSE ph[c]]

\* The head of the queue is granted while it can proceed; what remains is
\* looked at again later. n, tm and ph are the lanes taken, the timers and the
\* agents' phases when it is called.
processQueue(n, tm, ph) ==
    LET ws == resetExpiredWindows
        k  == served(ws, n)
    IN  /\ resolve(k, ph)
        /\ activeRequests' = n + k
        /\ windows' = IF queue = <<>> THEN windows ELSE ws
        /\ timers' = IF k = Len(queue) THEN tm ELSE scheduleQueueProcessing(tm, ws)

Init ==
    /\ windows = [w \in Window |-> freshWindow(w)]
    /\ activeRequests = 0
    /\ backoff = 0
    /\ nextBackoff = BaseBackoff
    /\ cleared = 0
    /\ queue = <<>>
    /\ timeout = [c \in Client |-> 0]
    /\ timers = [d \in 0..MaxDelay |-> 0]
    /\ phase = [c \in Client |-> "idle"]
    /\ rounds = [c \in Caller |-> 0]

-------------------------------------------------------------------------------
(***************************************************************************)
(* The agents.                                                             *)
(***************************************************************************)
\* The newcomer does not look at the queue: with a free lane it overtakes it.
Acquire(c) ==
    /\ phase[c] = "idle"
    /\ windows' = resetExpiredWindows
    /\ IF canProceed(windows')
       THEN /\ activeRequests' = activeRequests + 1
            /\ phase' = [phase EXCEPT ![c] = "active"]
            /\ UNCHANGED <<queue, timeout, timers>>
       ELSE /\ queue' = Append(queue, c)
            /\ timeout' = [timeout EXCEPT ![c] = QueueTimeout]
            /\ timers' = scheduleQueueProcessing(timers, windows')
            /\ phase' = [phase EXCEPT ![c] = "queued"]
            /\ UNCHANGED activeRequests
    /\ UNCHANGED <<backoff, nextBackoff, cleared, rounds>>

\* A round of a conversation ends, with a lane or without (streamChatForSwarm
\* records it for either). It is counted in the windows as they are, expired or
\* not, and ends any back-off; the queue is not looked at, and its timers wait on.
recordSuccess(c) ==
    /\ c \in Client => phase[c] = "active"
    /\ rounds[c] < MaxRounds
    /\ rounds' = [rounds EXCEPT ![c] = @ + 1]
    /\ \E tokens \in Usage :
          windows' = [w \in Window |->
                        [windows[w] EXCEPT !.requests = @ + 1, !.tokens = @ + tokens]]
    /\ backoff' = 0
    /\ nextBackoff' = BaseBackoff
    /\ cleared' = IF c = NoAgent /\ backoff > cleared THEN backoff ELSE cleared
    /\ UNCHANGED <<activeRequests, queue, timeout, timers, phase>>

\* The back-off doubles with each consecutive error and the multiplier grows by
\* a half: it triples until it reaches its maximum.
tripled(n) == IF 3 * n <= MaxBackoff THEN 3 * n ELSE MaxBackoff

\* The conversation throws a 429. The agent keeps its lane through its own wait.
recordRateLimitError(c) ==
    /\ phase[c] = "active"
    /\ phase' = [phase EXCEPT ![c] = "limited"]
    /\ backoff' = nextBackoff
    /\ nextBackoff' = tripled(nextBackoff)
    /\ UNCHANGED <<windows, activeRequests, cleared, queue, timeout, timers,
                   rounds>>

\* Mutant: an agent that waited after a 429 has given its lane back already.
releaseUnlimited(c) ==
    /\ phase[c] \in {"active", "limited"}
    /\ IF phase[c] = "active"
       THEN processQueue(activeRequests - 1, timers, [phase EXCEPT ![c] = "done"])
       ELSE /\ phase' = [phase EXCEPT ![c] = "done"]
            /\ UNCHANGED <<windows, activeRequests, queue, timeout, timers>>
    /\ UNCHANGED <<backoff, nextBackoff, cleared, rounds>>

release(c) ==
    /\ phase[c] \in {"active", "limited"}
    /\ IF activeRequests > 0
       THEN processQueue(activeRequests - 1, timers, [phase EXCEPT ![c] = "done"])
       ELSE /\ phase' = [phase EXCEPT ![c] = "done"]
            /\ UNCHANGED <<windows, activeRequests, queue, timeout, timers>>
    /\ UNCHANGED <<backoff, nextBackoff, cleared, rounds>>

-------------------------------------------------------------------------------
(***************************************************************************)
(* The timers, the panel and the clock.                                    *)
(***************************************************************************)
FireTimer ==
    /\ timers[0] > 0
    /\ processQueue(activeRequests, [timers EXCEPT ![0] = @ - 1], phase)
    /\ UNCHANGED <<backoff, nextBackoff, cleared, rounds>>

without(q, i) == [j \in 1..(Len(q) - 1) |-> IF j < i THEN q[j] ELSE q[j + 1]]

\* Mutant: the rejected request stays in the queue.
RequestTimesOutStays(c) ==
    /\ phase[c] = "queued"
    /\ timeout[c] = 0
    /\ phase' = [phase EXCEPT ![c] = "rejected"]
    /\ UNCHANGED <<limiterVars, cleared, rounds>>

RequestTimesOut(c) ==
    /\ phase[c] = "queued"
    /\ timeout[c] = 0
    /\ \E i \in 1..Len(queue) : queue[i] = c /\ queue' = without(queue, i)
    /\ phase' = [phase EXCEPT ![c] = "rejected"]
    /\ UNCHANGED <<windows, activeRequests, backoff, nextBackoff, cleared,
                   timeout, timers, rounds>>

\* The panel shows the state of the providers, which resets their windows.
getAllStates ==
    /\ windows' = resetExpiredWindows
    /\ UNCHANGED <<activeRequests, backoff, nextBackoff, cleared, queue,
                   timeout, timers, phase, rounds>>

countDown(n) == IF n = 0 THEN 0 ELSE n - 1

Tick ==
    /\ timers[0] = 0
    /\ \A c \in Client : phase[c] = "queued" => timeout[c] > 0
    /\ windows' = [w \in Window |-> [windows[w] EXCEPT !.left = countDown(@)]]
    /\ backoff' = countDown(backoff)
    /\ cleared' = countDown(cleared)
    /\ timeout' = [c \in Client |-> countDown(timeout[c])]
    /\ timers' = [d \in 0..MaxDelay |-> IF d = MaxDelay THEN 0 ELSE timers[d + 1]]
    /\ UNCHANGED <<activeRequests, nextBackoff, queue, phase, rounds>>

AgentNext(c) ==
    \/ Acquire(c)
    \/ recordSuccess(c)
    \/ recordRateLimitError(c)
    \/ release(c)
    \/ RequestTimesOut(c)

Next ==
    \/ \E c \in Client : AgentNext(c)
    \/ recordSuccess(NoAgent)
    \/ FireTimer
    \/ getAllStates
    \/ Tick

Spec == Init /\ [][Next]_vars

\* The clock goes on and timers fire; an agent need not ever end.
Fairness ==
    /\ WF_vars(Tick)
    /\ WF_vars(FireTimer)
    /\ \A c \in Client : WF_vars(RequestTimesOut(c))

FairSpec == Spec /\ Fairness

-------------------------------------------------------------------------------
(***************************************************************************)
(* Properties.                                                             *)
(***************************************************************************)
Holders == {c \in Client : phase[c] \in {"active", "limited"}}
Waiting == {c \in Client : phase[c] = "queued"}

\* The count of requests in flight is the number of agents that hold a lane:
\* no timeout, grant or release counts a lane twice or loses one.
ActiveIsHolders == activeRequests = Cardinality(Holders)

\* The queue holds each waiting agent once and nobody else: a request is never
\* both rejected by its timeout and left to be granted.
QueueIsWaiting ==
    /\ \A i, j \in 1..Len(queue) : queue[i] = queue[j] => i = j
    /\ Range(queue) = Waiting

\* While somebody waits a look at the queue is scheduled: no wake-up is lost
\* between acquire, processQueue, release and the timeouts.
WakeupPending == queue # <<>> => \E d \in 0..MaxDelay : timers[d] > 0

\* With no request in flight, a queue whose head may proceed is looked at in the
\* same tick, or, where a planner or a synthesis has ended a back-off, no later
\* than that back-off would have ended: recordSuccess tells the queue nothing,
\* but no wait that getWaitTime has computed outlives what it was computed from.
IdlePoolWakes ==
    (queue # <<>> /\ activeRequests = 0 /\ canProceed(resetExpiredWindows))
        => \E d \in 0..cleared : timers[d] > 0

\* Every request that waits is granted or rejected, whether or not the agents
\* that hold the lanes ever end: what runAgent awaits in acquire settles.
RequestsSettle == \A c \in Client : phase[c] = "queued" ~> phase[c] # "queued"

Pool == INSTANCE SlotPool WITH Limit <- ConcurrentRequests,
                               holders <- Holders, waiting <- Waiting

\* It never has more holders than lanes, grants lanes to those who wait, and
\* takes them back from those who hold them (acquire, release, processQueue).
ImplementsSlotPool == Pool!Spec
===============================================================================
