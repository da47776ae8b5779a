--------------------------- MODULE SessionRegistry ---------------------------
(***************************************************************************)
(* The session runtime registry of the engine                              *)
(* (packages/runtime/src/session-registry.ts) with the callers that drive  *)
(* it (apps/studio/src/runtime/real-runtime-adapter.ts, session-release.ts,*)
(* session-lifecycle.ts): which composed generation a session has, when it *)
(* is rebuilt, reclaimed or released, and who holds a turn slot.           *)
(*                                                                         *)
(* A generation is a pair <<session, id>>.  Ids are recycled once the      *)
(* generation that had one is closed and its turn has unwound, so no       *)
(* counter grows.  Wall-clock stamps are abstracted to the order of last   *)
(* activity and to the set of sessions past the idle TTL.  Map iteration   *)
(* order is abstracted to any order.                                       *)
(***************************************************************************)
EXTENDS Naturals, FiniteSets

CONSTANTS
  Sessions,   \* keys of the registry
  Detached,   \* DETACHED_SESSION_KEY: the "no session" instance
  GenIds,     \* generation ids; bounds how many of one session coexist
  None,       \* no instance
  MaxLive,    \* maxLive (0 = unlimited)
  MaxTurns,   \* maxConcurrentTurns (0 = unlimited)
  Autowake,   \* is CELESTEA_AUTOWAKE on?
  IdleTtl,    \* is idleTtlMs > 0?
  Workers,    \* is the worker wiring mounted?
  BuildFails  \* may composing a generation throw?

ASSUME RegistryAssumption ==
  /\ IsFiniteSet(Sessions)
  /\ Detached \in Sessions
  /\ GenIds # {} /\ None \notin GenIds
  /\ MaxLive \in Nat
  /\ MaxTurns \in Nat
  /\ {Autowake, IdleTtl, Workers, BuildFails} \subseteq BOOLEAN

VARIABLES
  gen,        \* entries: the runtime a session is registered with, or None
  stale,      \* sessions whose profileEpoch is behind the current epoch
  marked,     \* sessions whose entry has needsRebuild
  inFlight,   \* sessions whose entry has inFlight
  older,      \* <<a, b>>: the entry of a was active before the entry of b
  pastTtl,    \* sessions with lastActiveAt <= now - idleTtlMs
  sweepKeys,  \* keys evictIdle decided on and has not tried yet
  turns,      \* generations whose runner has a turn running
  workers,    \* generations with live worker work
  closing,    \* generations whose teardown has started and not finished
  released,   \* generations that release() detached
  down        \* shutdown() was called

vars == <<gen, stale, marked, inFlight, older, pastTtl, sweepKeys, turns,
          workers, closing, released, down>>

Generations == Sessions \X GenIds

Live == {s \in Sessions : gen[s] # None}

Registered == {<<s, gen[s]>> : s \in Live}

(* The pin of the host: the detached instance and live worker work.        *)
Pinned(s) == s = Detached \/ <<s, gen[s]>> \in workers

(* rebuildDeferred of the host: only live worker work.                     *)
Deferred(s) == <<s, gen[s]>> \in workers

(* Mutants: a rebuild that does not respect the turn, or the live work.    *)
RebuildableUnderTurn(s) == ~Deferred(s)

RebuildableUnderWorkers(s) == s \notin inFlight

Rebuildable(s) == s \notin inFlight /\ ~Deferred(s)

(* May an idle instance be reclaimed by evict() or chosen by lruVictim()?  *)
Reclaimable(s) == s \in Live /\ s \notin inFlight /\ ~Pinned(s)

FreeIds(s) == {g \in GenIds : <<s, g>> \notin Registered \cup turns \cup closing}

(* The id bound: build() is modelled while an id is free.                  *)
CanBuild(s) == FreeIds(s) # {}

NewGen(s) == CHOOSE g \in FreeIds(s) : TRUE

(* Mutant: off by one at the cap.                                          *)
AtTurnCapLate == MaxTurns > 0 /\ Cardinality(inFlight) > MaxTurns

AtTurnCap == MaxTurns > 0 /\ Cardinality(inFlight) >= MaxTurns

Counted == {s \in Live : ~Pinned(s)}

-----------------------------------------------------------------------------

Init ==
  /\ gen = [s \in Sessions |-> IF s = Detached
                               THEN CHOOSE g \in GenIds : TRUE ELSE None]
  /\ stale = {}
  /\ marked = {}
  /\ inFlight = {}
  /\ older = {}
  /\ pastTtl = {}
  /\ sweepKeys = {}
  /\ turns = {}
  /\ workers = {}
  /\ closing = {}
  /\ released = {}
  /\ down = FALSE

(* lastActiveAt := now for s, while the entries of gone leave the map.     *)
Touch(s, gone) ==
  /\ older' = {p \in older : p[1] \notin gone \cup {s} /\ p[2] \notin gone \cup {s}}
              \cup {<<a, s>> : a \in Live \ (gone \cup {s})}
  /\ pastTtl' = pastTtl \ (gone \cup {s})

(* The entries of gone leave the map and nobody else is touched.           *)
Forget(gone) ==
  /\ older' = {p \in older : p[1] \notin gone /\ p[2] \notin gone}
  /\ pastTtl' = pastTtl \ gone

(* Mutant: the generation disposed of is read after the flip.              *)
RebuildDisposesNew(R) ==
  /\ \A s \in R : CanBuild(s)
  /\ gen' = [s \in Sessions |-> IF s \in R THEN NewGen(s) ELSE gen[s]]
  /\ closing' = closing \cup {<<s, NewGen(s)>> : s \in R}

(* rebuild(): every session of R gets a new generation and the teardown of *)
(* its previous one starts; the swap itself is one synchronous step.       *)
Rebuild(R) ==
  /\ \A s \in R : CanBuild(s)
  /\ gen' = [s \in Sessions |-> IF s \in R THEN NewGen(s) ELSE gen[s]]
  /\ closing' = closing \cup {<<s, gen[s]>> : s \in R}

(* Mutant: the mark outlives the entry.                                    *)
DropKeepsMark(gone) ==
  /\ gen' = [s \in Sessions |-> IF s \in gone THEN None ELSE gen[s]]
  /\ closing' = closing \cup {<<s, gen[s]>> : s \in gone}
  /\ stale' = stale \ gone
  /\ UNCHANGED marked

(* Entries of gone are deleted and their teardown starts.                  *)
Drop(gone) ==
  /\ gen' = [s \in Sessions |-> IF s \in gone THEN None ELSE gen[s]]
  /\ closing' = closing \cup {<<s, gen[s]>> : s \in gone}
  /\ stale' = stale \ gone
  /\ marked' = marked \ gone

(* makeRoom(): V is what the loop evicts for a new key s.  It takes least  *)
(* recently active reclaimable entries first and stops when the count is   *)
(* below the cap or nothing is left to reclaim.                            *)
MakeRoom(s, V) ==
  LET idle == {v \in Sessions : Reclaimable(v)}
  IN IF MaxLive = 0 \/ s = Detached
     THEN V = {}
     ELSE /\ V \subseteq idle
          /\ \A v \in V, e \in idle : <<e, v>> \in older => e \in V
          /\ \/ Cardinality(Counted) < MaxLive /\ V = {}
             \/ /\ Cardinality(Counted) >= MaxLive
                /\ \/ Cardinality(Counted) - Cardinality(V) = MaxLive - 1
                   \/ V = idle /\ Cardinality(Counted) - Cardinality(V) >= MaxLive

(* Mutant: the loop ends without a victim and nobody throws.               *)
NoRoomIgnored(s, V) == FALSE

(* makeRoom() gave up: SessionCapacityError.                               *)
NoRoom(s, V) == /\ MaxLive > 0 /\ s # Detached
                /\ Cardinality(Counted) - Cardinality(V) >= MaxLive

(* ensure() of a key that is in the map: stamp it, then settleEpoch().     *)
EnsureExisting(s) ==
  LET behind == s \in marked \cup stale
  IN /\ s \in Live
     /\ Touch(s, {})
     /\ IF behind /\ Rebuildable(s)
        THEN /\ Rebuild({s})
             /\ marked' = marked \ {s}
             /\ stale' = stale \ {s}
        ELSE /\ marked' = IF behind THEN marked \cup {s} ELSE marked
             /\ UNCHANGED <<gen, closing, stale>>

(* ensure() of a key that is not in the map: make room, then build.        *)
EnsureNew(s) ==
  /\ s \notin Live
  /\ CanBuild(s)
  /\ \E V \in SUBSET Live :
       /\ MakeRoom(s, V)
       /\ ~NoRoom(s, V)
       /\ gen' = [t \in Sessions |-> IF t = s THEN NewGen(s)
                                     ELSE IF t \in V THEN None ELSE gen[t]]
       /\ closing' = closing \cup {<<v, gen[v]>> : v \in V}
       /\ stale' = stale \ V
       /\ marked' = marked \ V
       /\ Touch(s, V)

Ensure(s) == EnsureExisting(s) \/ EnsureNew(s)

(* The generation ensure() returns.                                        *)
Ensured(s) == IF s \notin Live \/ (s \in marked \cup stale /\ Rebuildable(s))
              THEN NewGen(s) ELSE gen[s]

(* beginTurn() on generation g of s.                                       *)
BeginTurn(s, g) ==
  /\ s \notin inFlight
  /\ ~AtTurnCap
  /\ inFlight' = inFlight \cup {s}
  /\ turns' = turns \cup {<<s, g>>}

-----------------------------------------------------------------------------
(* Actions                                                                 *)

(* entryFor(): a snapshot, an ensureSession, a queued input, a worker      *)
(* spawn, or a turn request refused as busy or over the turn cap.          *)
EnsureSession(s) ==
  /\ ~down
  /\ Ensure(s)
  /\ UNCHANGED <<inFlight, turns, sweepKeys, workers, released, down>>

(* Mutant: a rebuild disposes of the old runtime before it builds the new. *)
EnsureFailsDisposed(s) ==
  /\ ~down
  /\ BuildFails
  /\ s \in Live \cap (marked \cup stale)
  /\ Rebuildable(s)
  /\ Touch(s, {})
  /\ closing' = closing \cup {<<s, gen[s]>>}
  /\ UNCHANGED <<gen, stale, marked, inFlight, turns, sweepKeys, workers, released, down>>

(* ensure() throws: no room (the victims are gone all the same), or        *)
(* build() fails for a new key or for the rebuild of an old one.           *)
EnsureFails(s) ==
  /\ ~down
  /\ \/ /\ s \notin Live
        /\ \E V \in SUBSET Live :
             MakeRoom(s, V) /\ (NoRoom(s, V) \/ BuildFails) /\ Drop(V) /\ Forget(V)
     \/ /\ BuildFails
        /\ s \in Live \cap (marked \cup stale)
        /\ Rebuildable(s)
        /\ Touch(s, {})
        /\ UNCHANGED <<gen, closing, stale, marked>>
  /\ UNCHANGED <<inFlight, turns, sweepKeys, workers, released, down>>

(* Mutant: a manual turn takes the instance without ensure().              *)
StartTurnPeek(s) ==
  /\ ~down
  /\ s \in Live
  /\ BeginTurn(s, gen[s])
  /\ Touch(s, {})
  /\ UNCHANGED <<gen, stale, marked, sweepKeys, workers, closing, released, down>>

(* startTurn(): entryFor(), then launch(), in one synchronous step.        *)
StartTurn(s) ==
  /\ ~down
  /\ Ensure(s)
  /\ BeginTurn(s, Ensured(s))
  /\ UNCHANGED <<sweepKeys, workers, released, down>>

(* startAutowakeTurn(): peek(), then launch().                             *)
StartAutowakeTurn(s) ==
  /\ ~down
  /\ Autowake
  /\ s \in Live
  /\ BeginTurn(s, gen[s])
  /\ Touch(s, {})
  /\ UNCHANGED <<gen, stale, marked, sweepKeys, workers, closing, released, down>>

(* inject() on a registered instance only stamps it.                       *)
Inject(s) ==
  /\ ~down
  /\ s \in Live
  /\ Touch(s, {})
  /\ UNCHANGED <<gen, stale, marked, inFlight, sweepKeys, turns, workers,
                 closing, released, down>>

(* Mutant: endTurn() looks the entry up by key.                            *)
EndTurnByKey(s, g) ==
  /\ <<s, g>> \in turns
  /\ turns' = turns \ {<<s, g>>}
  /\ inFlight' = inFlight \ {s}
  /\ UNCHANGED <<gen, stale, marked, older, pastTtl, sweepKeys, workers,
                 closing, released, down>>

(* The tail of drive(): the runner's turn is over and endTurn() gives the  *)
(* slot of ITS entry back; the entry of a released instance is no longer   *)
(* in the map.                                                             *)
EndTurn(s, g) ==
  /\ <<s, g>> \in turns
  /\ turns' = turns \ {<<s, g>>}
  /\ IF gen[s] = g
     THEN inFlight' = inFlight \ {s} /\ Touch(s, {})
     ELSE UNCHANGED <<inFlight, older, pastTtl>>
  /\ UNCHANGED <<gen, stale, marked, sweepKeys, workers, closing, released, down>>

(* A worker of this session's registry goes RUNNING, or its work settles.  *)
SpawnWorker(s) ==
  /\ ~down
  /\ Workers
  /\ s \in Live
  /\ workers' = workers \cup {<<s, gen[s]>>}
  /\ UNCHANGED <<gen, stale, marked, inFlight, older, pastTtl, sweepKeys,
                 turns, closing, released, down>>

SettleWorkers(s, g) ==
  /\ <<s, g>> \in workers
  /\ workers' = workers \ {<<s, g>>}
  /\ UNCHANGED <<gen, stale, marked, inFlight, older, pastTtl, sweepKeys,
                 turns, closing, released, down>>

(* bumpEpoch() + invalidateAll(): entries are marked and settled one after *)
(* the other; a build that throws at one of them leaves the later ones     *)
(* behind the epoch and unmarked.                                          *)
InvalidateAll ==
  /\ ~down
  /\ \E P \in SUBSET Live :
       LET swap == {s \in P : Rebuildable(s)}
       IN \E broken \in {{}} \cup {{s} : s \in Live \ P} :
            /\ (broken = {}) <=> (P = Live)
            /\ broken # {} => BuildFails
            /\ \A s \in broken : Rebuildable(s)
            /\ Rebuild(swap)
            /\ marked' = (marked \cup P \cup broken) \ swap
            /\ stale' = Live \ swap
  /\ UNCHANGED <<inFlight, older, pastTtl, sweepKeys, turns, workers,
                 released, down>>

(* invalidateSession(): one session's grants were written.                 *)
InvalidateSession(s) ==
  /\ ~down
  /\ s \in Live
  /\ \/ /\ Rebuildable(s)
        /\ Rebuild({s})
        /\ marked' = marked \ {s}
        /\ stale' = stale \ {s}
     \/ /\ ~Rebuildable(s) \/ BuildFails
        /\ marked' = marked \cup {s}
        /\ UNCHANGED <<gen, closing, stale>>
  /\ UNCHANGED <<inFlight, older, pastTtl, sweepKeys, turns, workers,
                 released, down>>

(* Time passes: the least recently active entry that is not past the idle  *)
(* deadline falls behind it.                                               *)
Expire(s) ==
  /\ ~down
  /\ IdleTtl
  /\ s \in Live \ pastTtl
  /\ \A t \in Live : <<t, s>> \in older => t \in pastTtl
  /\ pastTtl' = pastTtl \cup {s}
  /\ UNCHANGED <<gen, stale, marked, inFlight, older, sweepKeys, turns,
                 workers, closing, released, down>>

(* evict(): refused for a busy or pinned entry, which changes nothing.     *)
Evict(s) ==
  IF Reclaimable(s)
  THEN Drop({s}) /\ Forget({s})
  ELSE UNCHANGED <<gen, closing, stale, marked, older, pastTtl>>

(* A sweep pass begins, from the timer that is armed only when there is an *)
(* idle TTL: evictIdle() filters the keys by the deadline and tries the    *)
(* first one before it first awaits.                                       *)
SweepStart ==
  /\ ~down
  /\ IdleTtl
  /\ \E s \in pastTtl :
       /\ Evict(s)
       /\ sweepKeys' = sweepKeys \cup (pastTtl \ {s})
  /\ UNCHANGED <<inFlight, turns, workers, released, down>>

(* The pass resumes after an await with the next of the keys it filtered.  *)
SweepNext(s) ==
  /\ ~down
  /\ s \in sweepKeys
  /\ Evict(s)
  /\ sweepKeys' = sweepKeys \ {s}
  /\ UNCHANGED <<inFlight, turns, workers, released, down>>

(* Mutant: the pin decides what may be rebuilt.                            *)
SettleUnpinned ==
  /\ ~down
  /\ IdleTtl
  /\ LET due == {s \in Live \cap marked : s \notin inFlight /\ ~Pinned(s) /\ CanBuild(s)}
     IN /\ due # {}
        /\ Rebuild(due)
        /\ marked' = marked \ due
        /\ stale' = stale \ due
  /\ UNCHANGED <<inFlight, older, pastTtl, sweepKeys, turns, workers,
                 released, down>>

(* settleDeferred(): the tail of a pass, which the armed timer alone runs. *)
(* R is a proper subset of what is due only when a build threw and cut the *)
(* loop short; what has no free id (the bound) waits for the next pass.    *)
SettleDeferred ==
  /\ ~down
  /\ IdleTtl
  /\ LET due == {s \in Live \cap marked : Rebuildable(s) /\ CanBuild(s)}
     IN \E R \in SUBSET due :
          /\ R # {}
          /\ R = due \/ BuildFails
          /\ Rebuild(R)
          /\ marked' = marked \ R
          /\ stale' = stale \ R
  /\ UNCHANGED <<inFlight, older, pastTtl, sweepKeys, turns, workers,
                 released, down>>

(* The eviction compactSession() asks for.                                 *)
EvictForCompaction(s) ==
  /\ ~down
  /\ Reclaimable(s)
  /\ Evict(s)
  /\ UNCHANGED <<inFlight, sweepKeys, turns, workers, released, down>>

(* release(): the session is being deleted.  The bounded wait before it    *)
(* may have timed out, so a turn may still be running.                     *)
Release(s) ==
  /\ ~down
  /\ s \in Live \ {Detached}
  /\ Drop({s})
  /\ Forget({s})
  /\ inFlight' = inFlight \ {s}
  /\ released' = released \cup {<<s, gen[s]>>}
  /\ UNCHANGED <<sweepKeys, turns, workers, down>>

(* Mutant: the join waits for the session's slot, not for its own turn.    *)
DisposeDoneByKey(s, g) ==
  /\ <<s, g>> \in closing
  /\ s \notin Live
  /\ closing' = closing \ {<<s, g>>}
  /\ workers' = workers \ {<<s, g>>}
  /\ released' = released \ {<<s, g>>}
  /\ UNCHANGED <<gen, stale, marked, inFlight, older, pastTtl, sweepKeys,
                 turns, down>>

(* disposeRuntime() finished: the turn was joined and the workers aborted. *)
DisposeDone(s, g) ==
  /\ <<s, g>> \in closing
  /\ <<s, g>> \notin turns
  /\ closing' = closing \ {<<s, g>>}
  /\ workers' = workers \ {<<s, g>>}
  /\ released' = released \ {<<s, g>>}
  /\ UNCHANGED <<gen, stale, marked, inFlight, older, pastTtl, sweepKeys,
                 turns, down>>

(* shutdown(): the map is cleared and every instance is torn down.         *)
Shutdown ==
  /\ ~down
  /\ down' = TRUE
  /\ Drop(Live)
  /\ Forget(Live)
  /\ inFlight' = {}
  /\ sweepKeys' = {}
  /\ UNCHANGED <<turns, workers, released>>

Next ==
  \/ \E s \in Sessions :
       \/ EnsureSession(s) \/ EnsureFails(s)
       \/ StartTurn(s) \/ StartAutowakeTurn(s) \/ Inject(s)
       \/ SpawnWorker(s)
       \/ InvalidateSession(s)
       \/ Expire(s) \/ SweepNext(s)
       \/ EvictForCompaction(s) \/ Release(s)
       \/ \E g \in GenIds : EndTurn(s, g) \/ SettleWorkers(s, g) \/ DisposeDone(s, g)
  \/ InvalidateAll
  \/ SweepStart
  \/ SettleDeferred
  \/ Shutdown

Spec == Init /\ [][Next]_vars

(* What the process really guarantees: a turn ends, a teardown ends, and   *)
(* the timer comes back again and again: but only where it is armed, and   *)
(* only a pass whose builds do not throw settles all that is due.          *)
Fairness ==
  /\ IdleTtl /\ ~BuildFails => WF_vars(SettleDeferred)
  /\ \A s \in Sessions, g \in GenIds :
       WF_vars(EndTurn(s, g)) /\ WF_vars(DisposeDone(s, g))

FairSpec == Spec /\ Fairness

-----------------------------------------------------------------------------
(* Refinement: each generation in its life                                 *)

Phase ==
  [x \in Generations |->
     IF x \in closing THEN IF x \in turns THEN "unwinding" ELSE "closing"
     ELSE IF x \notin Registered THEN "free"
     ELSE IF x \in turns \cup workers THEN "busy" ELSE "idle"]

Lifecycle == INSTANCE GenerationLifecycle
               WITH Ids <- GenIds, current <- gen, phase <- Phase,
                    deleted <- released, over <- down

-----------------------------------------------------------------------------
(* Properties                                                              *)

(* Every variable has its type and the auxiliary sets only hold instances  *)
(* that are in the map.                                                    *)
TypeOK ==
  /\ gen \in [Sessions -> GenIds \cup {None}]
  /\ stale \subseteq Live
  /\ marked \subseteq Live
  /\ inFlight \subseteq Live
  /\ older \subseteq Sessions \X Sessions
  /\ pastTtl \subseteq Live
  /\ sweepKeys \subseteq Sessions
  /\ turns \subseteq Generations
  /\ workers \subseteq Generations
  /\ closing \subseteq Generations
  /\ released \subseteq closing
  /\ down \in BOOLEAN

(* A generation the map hands out is never one whose teardown has started: *)
(* no caller of ensure()/peek() gets a runtime that is being disposed.     *)
RegisteredIsNotClosing == Registered \cap closing = {}

(* The registry's slots and the runners agree: a slot is held exactly      *)
(* while the registered generation runs a turn, so the late endTurn() of a *)
(* released generation never frees the slot of its successor.              *)
SlotsMatchTurns ==
  /\ \A s \in inFlight : <<s, gen[s]>> \in turns
  /\ \A s \in Sessions, g \in GenIds :
       <<s, g>> \in turns => (gen[s] = g /\ s \in inFlight) \/ <<s, g>> \in closing

(* An in-flight instance is never rebuilt and never evicted: only the      *)
(* release of a deleted session tears a generation down under its turn.    *)
RunningTurnKeepsItsGeneration == ~down => turns \cap closing \subseteq released

(* Rebuild respects live work: only a release (or the process exit) tears  *)
(* a generation down while its workers are still running.                  *)
LiveWorkersKeepTheirGeneration == ~down => workers \cap closing \subseteq released

(* Nothing that still runs loses its generation to a rebuild, an eviction  *)
(* or a sweep, in whatever order they meet turns and workers.              *)
LiveWorkKeepsItsGeneration == RunningTurnKeepsItsGeneration /\ LiveWorkersKeepTheirGeneration

(* Over maxConcurrentTurns a new turn is refused.                          *)
TurnCap == MaxTurns > 0 => Cardinality(inFlight) <= MaxTurns

(* A new instance is admitted only when, with it, the instances that count *)
(* against maxLive are within the cap, whatever pins came and went before, *)
(* and a turn only while the turns in flight are below theirs.             *)
AdmissionWithinCaps ==
  [][/\ \A s \in Live' \ Live :
          MaxLive > 0 /\ s # Detached => Cardinality(Counted') <= MaxLive
     /\ inFlight' \subseteq inFlight \/ TurnCap']_vars

(* A marked or stale instance is rebuilt at its next turn boundary: a turn *)
(* starts on one only when live workers defer the rebuild.                 *)
FreshAtTurnStart ==
  [][\A t \in turns' \ turns : t[1] \in marked' \cup stale' => t \in workers]_vars

(* A session hands out one generation, which is open for use; a generation *)
(* at work leaves only with its session or the process, its turn unwinds   *)
(* before its teardown ends, and only then its id comes back: the registry *)
(* implements GenerationLifecycle.                                         *)
KeepsLifecycle == Lifecycle!Spec

(* Every teardown finishes, also the one that has to wait for a turn that  *)
(* unwinds after its session was deleted.                                  *)
TeardownFinishes ==
  \A s \in Sessions, g \in GenIds : <<s, g>> \in closing ~> <<s, g>> \notin closing

(* A deferred rebuild is deferred, never skipped: where an idle TTL arms   *)
(* the reclaimer and no build throws, an instance that stays free of turns *)
(* and of live workers does not stay marked.                               *)
DeferredRebuildHappens ==
  IdleTtl /\ ~BuildFails =>
    \A s \in Sessions :
      <>[](s \in Live /\ Rebuildable(s) /\ ~down) => []<>(s \notin marked)
=============================================================================
