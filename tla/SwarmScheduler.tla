---------------------------- MODULE SwarmScheduler ----------------------------
(***************************************************************************)
(* One agent_swarm batch: the scheduler that runs N members with bounded   *)
(* concurrency, backs off when the provider limits the rate, and always    *)
(* has to come to an end (packages/swarm/src/scheduler), inside the turn   *)
(* whose cancel signal it should hear (packages/runtime/src/compose.ts).   *)
(*                                                                         *)
(* The scheduler's fields are one record, batch: every handler is a        *)
(* function from that record to the next one, as it is one synchronous     *)
(* block in the code.  Time is a counter of ticks.  The member executor    *)
(* calls markReady synchronously when it is launched, so a member is ready *)
(* as soon as it is in flight.                                             *)
(***************************************************************************)
EXTENDS Integers, Sequences, FiniteSets

CONSTANTS
  N,                 \* the members are 1..N, in the order of the request
  LaunchLimit,       \* initialLaunchLimit
  LaunchInterval,    \* initialLaunchIntervalMs
  RetryBase,         \* retryBaseMs
  RetryFactor,       \* retryFactor
  ShrinkDebounce,    \* capacityShrinkDebounceMs
  RecoveryInterval,  \* capacityRecoveryIntervalMs
  MaxConcurrency,    \* maxConcurrency
  Limits,            \* the pairs <<timeoutMs, maxTotalMs>> a batch may be
                     \* configured with: for one attempt and for the batch,
                     \* 0 disables either
  MaxRetries,        \* maxRateLimitRetries of one member
  MaxBatchRetries,   \* maxBatchRateLimitRetries
  HostSignal,        \* does the host give the swarm a live cancel signal?
  NoTimer,           \* a timer that is not armed
  Unsettled,         \* a member without a result
  MaxNow             \* bound: the clock

Members == 1..N

Outcomes == {"completed", "failed", "aborted"}

ASSUME SwarmAssumption ==
  /\ {N, LaunchLimit, MaxConcurrency, MaxRetries, RecoveryInterval, RetryFactor} \subseteq Nat \ {0}
  /\ {LaunchInterval, ShrinkDebounce, MaxBatchRetries, MaxNow} \subseteq Nat
  /\ Limits \subseteq Nat \X Nat
  /\ RetryBase \in Nat \ {0}   \* 0 is allowed by the code; see README
  /\ HostSignal \in BOOLEAN
  /\ NoTimer \notin Int /\ Unsettled \notin Outcomes

VARIABLES
  now,       \* the clock
  batch,     \* the fields of the SwarmScheduler and its RateLimitGate
  touched,   \* members that have called a tool
  unwinding, \* members whose attempt was released before its executor returned
  turn,      \* the turn around the batch: "none", "live" or "aborted"
  held       \* what the swarm's signal holder was filled with: a turn, or not

vars == <<now, batch, touched, unwinding, turn, held>>

turnVars == <<turn, held>>

Least(x, y) == IF x <= y THEN x ELSE y
Most(x, y) == IF x >= y THEN x ELSE y

Queue(b) == {b.pending[i] : i \in 1..Len(b.pending)}

IsDue(t) == t # NoTimer /\ t <= now

(* A timer of that length, of which 0 means none.                          *)
Expiry(length) == IF length > 0 THEN now + length ELSE NoTimer

(* retryDelayMs(): between half and all of the n-th exponential delay.     *)
Delays(n) ==
  LET full == RetryBase * RetryFactor ^ (n - 1)
  IN {delay \in 0..full : 2 * delay >= full - 1}

-----------------------------------------------------------------------------
(* The rate limit gate                                                     *)

RecoveryAt(b) == Most(b.lastLimit, b.lastRecovery) + RecoveryInterval

(* Each RecoveryInterval without a limit gives one unit of capacity back.  *)
Recovered(b) ==
  IF RecoveryAt(b) > now THEN b
  ELSE [b EXCEPT !.capacity = @ + 1, !.lastRecovery = now, !.nextLaunch = Least(@, now)]

(* The earliest moment a queued member's back off ends.                    *)
IsReadyAt(b, r) == /\ \E m \in Queue(b) : b.readyAt[m] = r
                   /\ \A m \in Queue(b) : r <= b.readyAt[m]

NextReadyAt(b) == CHOOSE r \in {b.readyAt[m] : m \in Queue(b)} : IsReadyAt(b, r)

NextAllowedAt(b) == Most(b.nextLaunch, NextReadyAt(b))

(* nextWakeupAt(): always in the future while the gate is limited.         *)
NextWakeup(b) ==
  LET candidate == IF Cardinality(b.active) >= b.capacity THEN RecoveryAt(b)
                   ELSE Least(NextAllowedAt(b), RecoveryAt(b))
  IN IF candidate > now THEN candidate
     ELSE IF RecoveryAt(b) > now THEN RecoveryAt(b)
     ELSE now + RecoveryInterval

(* Mutant: the wakeup is armed for a moment that may have passed.          *)
ArmedEarly(b) ==
  IF b.pending = <<>> THEN b
  ELSE IF NextAllowedAt(b) > now THEN [b EXCEPT !.wake = NextAllowedAt(b)] ELSE b

(* Whoever is queued is woken up for.                                      *)
Armed(b) == IF b.pending = <<>> THEN b ELSE [b EXCEPT !.wake = NextWakeup(b)]

(* Mutant: the floor of one is forgotten.                                  *)
ShrunkToNothing(b, force) ==
  IF ~force /\ now - b.lastShrink < ShrinkDebounce THEN b
  ELSE [b EXCEPT !.capacity = @ - 1, !.lastShrink = now]

(* A limit shrinks the capacity, at most once per debounce.                *)
Shrunk(b, force) ==
  IF ~force /\ now - b.lastShrink < ShrinkDebounce THEN b
  ELSE [b EXCEPT !.capacity = Most(1, @ - 1), !.lastShrink = now]

Limited(b) ==
  IF b.limited THEN Shrunk(b, FALSE)
  ELSE Shrunk([b EXCEPT !.limited = TRUE, !.capacity = Most(1, b.started),
                        !.nextLaunch = Most(@, now + RetryBase)], TRUE)

-----------------------------------------------------------------------------
(* The scheduler                                                           *)

(* startAttempt() of the members M, which are ready at once.               *)
Launched(b, M) ==
  [b EXCEPT !.active = @ \cup M,
            !.deadline = [m \in Members |->
               IF m \in M THEN Expiry(b.timeout) ELSE @[m]],
            !.started = IF b.limited THEN @ ELSE @ + Cardinality(M)]

(* The batch is over: every timer is cleared and every attempt let go.     *)
Finished(b) ==
  [b EXCEPT !.finished = TRUE, !.active = {}, !.wake = NoTimer, !.launchAt = NoTimer,
            !.budget = NoTimer, !.deadline = [m \in Members |-> NoTimer]]

AtConcurrencyLimit(b) == Cardinality(b.active) >= MaxConcurrency

(* The first wave goes out at once, the rest one per interval.             *)
NormalLaunch(b) ==
  LET wave == Most(0, Least(LaunchLimit - b.launched,
                            Least(Len(b.pending), MaxConcurrency - Cardinality(b.active))))
      first == {b.pending[i] : i \in 1..wave}
      c == [Launched(b, first) EXCEPT !.pending = SubSeq(@, wave + 1, Len(@)),
                                      !.launched = @ + wave]
  IN IF c.pending = <<>> \/ c.launchAt # NoTimer \/ AtConcurrencyLimit(c) THEN c
     ELSE [c EXCEPT !.launchAt = now + LaunchInterval]

(* Mutant: the capacity of the gate is taken for the concurrency limit.    *)
MayLaunchByCapacity(b) ==
  /\ Cardinality(b.active) < b.capacity
  /\ NextAllowedAt(b) <= now

(* Mutant: the global throttle is not asked.                               *)
MayLaunchUnthrottled(b) ==
  /\ Cardinality(b.active) < b.capacity
  /\ NextReadyAt(b) <= now
  /\ ~AtConcurrencyLimit(b)

MayLaunch(b) ==
  /\ Cardinality(b.active) < b.capacity
  /\ NextAllowedAt(b) <= now
  /\ ~AtConcurrencyLimit(b)

(* The first queued member whose back off is over, in queue order.         *)
IsFirstReady(b, i) ==
  /\ b.readyAt[b.pending[i]] <= now
  /\ \A j \in 1..(i - 1) : b.readyAt[b.pending[j]] > now

RateLimitedLaunch(b) ==
  IF b.pending = <<>> THEN [b EXCEPT !.wake = NoTimer]
  ELSE LET c == Recovered([b EXCEPT !.wake = NoTimer])
       IN IF ~MayLaunch(c) THEN Armed(c)
          ELSE LET i == CHOOSE k \in 1..Len(c.pending) : IsFirstReady(c, k)
                   rest == SubSeq(c.pending, 1, i - 1) \o SubSeq(c.pending, i + 1, Len(c.pending))
               IN Armed([Launched(c, {c.pending[i]}) EXCEPT !.pending = rest,
                                                            !.nextLaunch = now + RetryBase])

IsComplete(b) == \A m \in Members : b.result[m] # Unsettled

(* schedule(): what every handler ends with.                               *)
Scheduled(b) ==
  IF b.finished THEN b
  ELSE IF IsComplete(b) THEN Finished(b)
  ELSE IF b.limited THEN RateLimitedLaunch(b)
  ELSE NormalLaunch(b)

Released(b, m) == [b EXCEPT !.active = @ \ {m}, !.deadline[m] = NoTimer]

Settled(b, m, o) == [Released(b, m) EXCEPT !.result[m] = o]

(* Mutant: side effects are not asked about.                               *)
IsDeadByCount(b, m, usedTool) ==
  \/ b.batchRetries >= MaxBatchRetries
  \/ b.retries[m] >= 1 /\ \A n \in Members \ {m} : b.result[n] # Unsettled
  \/ b.retries[m] >= MaxRetries

(* rateLimitDeathCause(): a limited member is given up on when it has run  *)
(* tools, when the batch or the member has spent its retries, or when it   *)
(* is the last one and was retried before.                                 *)
IsDead(b, m, usedTool) ==
  \/ usedTool
  \/ b.batchRetries >= MaxBatchRetries
  \/ b.retries[m] >= 1 /\ \A n \in Members \ {m} : b.result[n] # Unsettled
  \/ b.retries[m] >= MaxRetries

(* requeueRateLimited(): back to the head of the queue, after a delay.     *)
Requeued(b, m, delay) ==
  LET c == Limited([Released(b, m) EXCEPT
                      !.lastLimit = now, !.retries[m] = @ + 1, !.batchRetries = @ + 1,
                      !.readyAt[m] = now + delay, !.pending = <<m>> \o @])
  IN [c EXCEPT !.nextLaunch = Most(@, now + RetryBase)]

(* Mutant: only the members in flight are aborted.                         *)
AbortedInFlight(b) ==
  Finished([b EXCEPT !.result = [m \in Members |-> IF m \in b.active THEN "aborted" ELSE @[m]]])

(* finishWithAbort(): whoever has no result is aborted.                    *)
Aborted(b) ==
  Finished([b EXCEPT !.result = [m \in Members |-> IF @[m] = Unsettled THEN "aborted" ELSE @[m]]])

-----------------------------------------------------------------------------

Idle ==
  [pending |-> [i \in Members |-> i], active |-> {}, finished |-> FALSE,
   result |-> [m \in Members |-> Unsettled],
   retries |-> [m \in Members |-> 0], readyAt |-> [m \in Members |-> 0],
   deadline |-> [m \in Members |-> NoTimer],
   timeout |-> 0, launched |-> 0, launchAt |-> NoTimer, budget |-> NoTimer, wake |-> NoTimer,
   batchRetries |-> 0, limited |-> FALSE, capacity |-> 1, started |-> 0,
   lastLimit |-> 0, lastShrink |-> 0, lastRecovery |-> 0, nextLaunch |-> 0]

(* The runtime is composed between turns: compose() fills the holder with  *)
(* the signal of the turn that runs then.                                  *)
Init ==
  /\ now = 0
  /\ batch = Idle
  /\ touched = {}
  /\ unwinding = {}
  /\ turn = "none"
  /\ held = (turn # "none")

(* Does the batch listen to the signal of the turn it runs in?             *)
Hears == HostSignal \/ held

(* A turn starts, and its agent_swarm call runs the batch.                 *)
Run ==
  /\ turn = "none"
  /\ turn' = "live"
  /\ \E limit \in Limits :
       batch' = Scheduled([batch EXCEPT !.timeout = limit[1], !.budget = Expiry(limit[2])])
  /\ UNCHANGED <<now, touched, unwinding, held>>

(* A member calls a tool.                                                  *)
UsesTool(m) ==
  /\ m \in batch.active
  /\ m \notin touched
  /\ touched' = touched \cup {m}
  /\ UNCHANGED <<now, batch, unwinding, turnVars>>

(* The executor of an attempt returns or throws.                           *)
Settles(m, o) ==
  /\ m \in batch.active
  /\ batch' = Scheduled(Settled(batch, m, o))
  /\ UNCHANGED <<now, touched, unwinding, turnVars>>

(* ... or throws a rate limit.                                             *)
HitsRateLimit(m) ==
  /\ m \in batch.active
  /\ \/ /\ IsDead(batch, m, m \in touched)
        /\ batch' = Scheduled(Settled(batch, m, "failed"))
     \/ /\ ~IsDead(batch, m, m \in touched)
        /\ \E d \in Delays(batch.retries[m] + 1) : batch' = Scheduled(Requeued(batch, m, d))
  /\ UNCHANGED <<now, touched, unwinding, turnVars>>

(* Mutant: the time out waits for the executor to give in.                 *)
TimesOutPolitely(m) ==
  /\ m \in batch.active
  /\ IsDue(batch.deadline[m])
  /\ batch' = [batch EXCEPT !.deadline[m] = NoTimer]
  /\ UNCHANGED <<now, touched, unwinding, turnVars>>

(* The attempt's gate expires: the member is settled without waiting for   *)
(* its executor, which goes on until it notices the abort.                 *)
TimesOut(m) ==
  /\ m \in batch.active
  /\ IsDue(batch.deadline[m])
  /\ batch' = Scheduled(Settled(batch, m, "failed"))
  /\ unwinding' = unwinding \cup {m}
  /\ UNCHANGED <<now, touched, turnVars>>

(* Mutant: a late answer still settles its member.                         *)
LateAnswerCounts(m) ==
  /\ m \in unwinding
  /\ unwinding' = unwinding \ {m}
  /\ batch' = [batch EXCEPT !.result[m] = "completed"]
  /\ UNCHANGED <<now, touched, turnVars>>

(* An executor that was let go returns: its answer is dropped.             *)
LateAnswer(m) ==
  /\ m \in unwinding
  /\ unwinding' = unwinding \ {m}
  /\ UNCHANGED <<now, batch, touched, turnVars>>

(* The launch timer lets one more member go.                               *)
LaunchTimer ==
  /\ IsDue(batch.launchAt)
  /\ LET b == [batch EXCEPT !.launchAt = NoTimer]
     IN batch' = IF b.limited \/ b.pending = <<>> \/ AtConcurrencyLimit(b) THEN b
                 ELSE Scheduled([Launched(b, {Head(b.pending)}) EXCEPT
                                   !.pending = Tail(@), !.launched = @ + 1])
  /\ UNCHANGED <<now, touched, unwinding, turnVars>>

(* The wakeup of the gate.                                                 *)
WakeTimer ==
  /\ IsDue(batch.wake)
  /\ batch' = Scheduled([batch EXCEPT !.wake = NoTimer])
  /\ UNCHANGED <<now, touched, unwinding, turnVars>>

(* Mutant: the budget only lets the members in flight go.                  *)
BudgetSpent ==
  /\ IsDue(batch.budget)
  /\ batch' = [batch EXCEPT !.budget = NoTimer]
  /\ UNCHANGED <<now, touched, unwinding, turnVars>>

(* The wall clock budget of the batch is spent.                            *)
BudgetTimer ==
  /\ IsDue(batch.budget)
  /\ batch' = Aborted(batch)
  /\ unwinding' = unwinding \cup batch.active
  /\ UNCHANGED <<now, touched, turnVars>>

(* The user stops the turn.  A batch that hears its signal is aborted.     *)
Stop ==
  /\ turn = "live"
  /\ turn' = "aborted"
  /\ IF Hears /\ ~batch.finished
     THEN batch' = Aborted(batch) /\ unwinding' = unwinding \cup batch.active
     ELSE UNCHANGED <<batch, unwinding>>
  /\ UNCHANGED <<now, touched, held>>

Timers == {batch.wake, batch.launchAt, batch.budget} \cup {batch.deadline[m] : m \in Members}

(* The clock goes on when no timer is due.                                 *)
Tick ==
  /\ now < MaxNow
  /\ turn # "none" /\ ~batch.finished
  /\ \A t \in Timers : ~IsDue(t)
  /\ now' = now + 1
  /\ UNCHANGED <<batch, touched, unwinding, turnVars>>

Next ==
  \/ Run \/ Stop \/ Tick
  \/ LaunchTimer \/ WakeTimer \/ BudgetTimer
  \/ \E m \in Members :
       \/ UsesTool(m) \/ HitsRateLimit(m) \/ TimesOut(m) \/ LateAnswer(m)
       \/ \E o \in {"completed", "failed"} : Settles(m, o)

Spec == Init /\ [][Next]_vars

(* Timers fire and time passes.  An executor need not ever return.         *)
Fairness ==
  /\ WF_vars(Run) /\ WF_vars(Tick)
  /\ WF_vars(LaunchTimer) /\ WF_vars(WakeTimer) /\ WF_vars(BudgetTimer)
  /\ \A m \in 1..N : WF_vars(TimesOut(m))

FairSpec == Spec /\ Fairness

-----------------------------------------------------------------------------
(* Refinement: each member from the queue to its verdict                   *)

Stage ==
  [m \in Members |->
     IF batch.result[m] # Unsettled THEN batch.result[m]
     ELSE IF m \notin batch.active THEN "waiting"
     ELSE IF m \in touched THEN "acting" ELSE "trying"]

Contract == INSTANCE BatchContract
              WITH Slots <- MaxConcurrency, stage <- Stage, resolved <- batch.finished

-----------------------------------------------------------------------------
(* Properties                                                              *)

Timer == Nat \cup {NoTimer}

Batches ==
  [pending : Seq(Members), active : SUBSET Members, finished : BOOLEAN,
   result : [Members -> Outcomes \cup {Unsettled}],
   retries : [Members -> Nat], readyAt : [Members -> Nat], deadline : [Members -> Timer],
   timeout : Nat, launched : Nat, launchAt : Timer, budget : Timer, wake : Timer,
   batchRetries : Nat, limited : BOOLEAN, capacity : Nat \ {0}, started : Nat,
   lastLimit : Nat, lastShrink : Nat, lastRecovery : Nat, nextLaunch : Nat]

(* Every variable has its type.                                            *)
TypeOK ==
  /\ now \in Nat
  /\ batch \in Batches
  /\ touched \subseteq Members /\ unwinding \subseteq Members
  /\ turn \in {"none", "live", "aborted"} /\ held \in BOOLEAN

(* Until the batch is over a member is in exactly one place: queued once,  *)
(* in flight, or settled; when it is over every member has its result.     *)
EveryMemberAccounted ==
  IF batch.finished THEN IsComplete(batch) /\ batch.active = {}
  ELSE /\ \A m \in Members :
            (batch.result[m] = Unsettled) <=> (m \in Queue(batch) \/ m \in batch.active)
       /\ Queue(batch) \cap batch.active = {}
       /\ Len(batch.pending) = Cardinality(Queue(batch))

(* A batch that is not over always has something that will move it: a      *)
(* member in flight, or a timer for whoever is queued.  While it is rate   *)
(* limited the queue is woken up whatever the members in flight do.        *)
NeverStalls ==
  turn # "none" /\ ~batch.finished =>
    /\ batch.active # {} \/ batch.pending # <<>>
    /\ batch.pending # <<>> =>
         IF batch.limited THEN batch.wake # NoTimer
         ELSE batch.launchAt # NoTimer \/ AtConcurrencyLimit(batch)

LaunchedNow == batch'.active \ batch.active

(* While rate limited, members are launched one at a time, each after its  *)
(* own back off, and RetryBase apart unless the capacity has recovered in  *)
(* between.                                                                *)
IsSpaced ==
  batch.limited =>
    /\ Cardinality(LaunchedNow) = 1
    /\ \A m \in LaunchedNow : batch.readyAt[m] <= now
    /\ batch.nextLaunch <= now \/ batch'.lastRecovery = now

(* Every launch, of whichever phase, timer or retry, keeps the hard cap on *)
(* members in flight, also while the capacity of the gate grows above it,  *)
(* is spaced, and never repeats a member that has called a tool: its side  *)
(* effects would happen twice.                                             *)
LaunchesAreLawful ==
  [][LaunchedNow # {} =>
       /\ Cardinality(batch'.active) <= MaxConcurrency
       /\ IsSpaced
       /\ LaunchedNow \cap touched = {}]_vars

(* A result is final: not even the answer of an attempt that timed out or  *)
(* was aborted changes it.                                                 *)
ResultsAreFinal ==
  [][\A m \in Members : batch.result[m] # Unsettled => batch'.result[m] = batch.result[m]]_vars

(* Whatever timers, retries, late answers and aborts meet: a verdict other *)
(* than aborted is earned by an attempt and final, side effects are not    *)
(* repeated, slots are not exceeded, and the batch resolves once and with  *)
(* every verdict: the scheduler implements BatchContract.                  *)
KeepsContract == Contract!Spec

(* Once the user has stopped the turn, no member of its batch is launched. *)
StopReachesTheBatch == [][turn = "aborted" => LaunchedNow = {}]_vars

(* run() resolves, whatever the executors do: the time outs of the         *)
(* attempts are enough for it, and so is the budget of the batch alone.    *)
RunResolves ==
  turn # "none" /\ (batch.timeout > 0 \/ batch.budget # NoTimer) ~> batch.finished
=============================================================================
