------------------------ MODULE SessionRegistryProofs ------------------------
(* Proofs of the safety properties of SessionRegistry.                     *)
EXTENDS SessionRegistry, FiniteSetTheorems, TLAPS

(* The inductive invariant: each part needs the others.                    *)
IInv ==
  /\ TypeOK
  /\ RegisteredIsNotClosing
  /\ SlotsMatchTurns
  /\ RunningTurnKeepsItsGeneration
  /\ LiveWorkersKeepTheirGeneration

(* The id a build picks is unused by any generation of that session.       *)
LEMMA NewGenIsFresh ==
  ASSUME NEW s \in Sessions, CanBuild(s)
  PROVE  /\ NewGen(s) \in GenIds
         /\ NewGen(s) # None
         /\ <<s, NewGen(s)>> \notin Registered \cup turns \cup closing
BY RegistryAssumption DEF CanBuild, NewGen, FreeIds

(* The initial state satisfies the invariant.                              *)
LEMMA InitInvariant == Init => IInv
<1> SUFFICES ASSUME Init PROVE IInv
  OBVIOUS
<1>1. gen \in [Sessions -> GenIds \cup {None}]
  BY RegistryAssumption DEF Init
<1> QED
  BY <1>1 DEF Init, IInv, TypeOK, RegisteredIsNotClosing, SlotsMatchTurns,
              RunningTurnKeepsItsGeneration, LiveWorkersKeepTheirGeneration

(* What Touch and Forget do to the two orders of activity.                 *)
LEMMA TouchType ==
  ASSUME TypeOK, NEW s \in Sessions, NEW gone, Touch(s, gone)
  PROVE  older' \subseteq Sessions \X Sessions /\ pastTtl' \subseteq pastTtl \ (gone \cup {s})
BY DEF TypeOK, Touch, Live

LEMMA ForgetType ==
  ASSUME TypeOK, NEW gone, Forget(gone)
  PROVE  older' \subseteq Sessions \X Sessions /\ pastTtl' = pastTtl \ gone
BY DEF TypeOK, Forget

(* What a step that swaps or drops generations keeps, with the turns and   *)
(* the live work as they were before it.                                   *)
SwapStep ==
  /\ gen' \in [Sessions -> GenIds \cup {None}]
  /\ inFlight \subseteq Live'
  /\ closing \subseteq closing' /\ closing' \subseteq closing \cup Registered
  /\ Registered \subseteq Registered' \cup closing'
  /\ closing' \subseteq Generations /\ released \subseteq closing'
  /\ Registered' \cap closing' = {}
  /\ \A s \in inFlight : <<s, gen'[s]>> \in turns
  /\ \A s \in Sessions, g \in GenIds :
       <<s, g>> \in turns => (gen'[s] = g /\ s \in inFlight) \/ <<s, g>> \in closing'
  /\ ~down => turns \cap closing' \subseteq released
  /\ ~down => workers \cap closing' \subseteq released

(* The same, with the sets that follow the map.                            *)
GenStep ==
  /\ SwapStep
  /\ stale' \subseteq Live' /\ marked' \subseteq Live' /\ pastTtl' \subseteq Live'
  /\ older' \subseteq Sessions \X Sessions

(* A registered generation without the slot has no running turn, and       *)
(* without deferral it has no live workers.                                *)
LEMMA QuietGeneration ==
  ASSUME IInv, NEW s \in Live
  PROVE  /\ gen[s] \in GenIds
         /\ <<s, gen[s]>> \in Registered
         /\ s \notin inFlight => <<s, gen[s]>> \notin turns
<1>1. gen[s] \in GenIds /\ <<s, gen[s]>> \in Registered /\ s \in Sessions
  BY DEF IInv, TypeOK, Live, Registered
<1>2. <<s, gen[s]>> \notin closing
  BY <1>1 DEF IInv, RegisteredIsNotClosing
<1> QED
  BY <1>1, <1>2 DEF IInv, SlotsMatchTurns

(* One session gets a fresh generation, a set of sessions without turns    *)
(* and without live workers gives its generations up.                      *)
LEMMA SwapKeeps ==
  ASSUME IInv,
         NEW R \in SUBSET Sessions, NEW gone \in SUBSET Live,
         \A s \in R : CanBuild(s) /\ (s \in Live => s \in gone),
         \A s \in gone : s \notin inFlight /\ <<s, gen[s]>> \notin workers,
         gen' = [s \in Sessions |-> IF s \in R THEN NewGen(s)
                                    ELSE IF s \in gone THEN None ELSE gen[s]],
         closing' = closing \cup {<<s, gen[s]>> : s \in gone}
  PROVE  SwapStep /\ Live' = (Live \ gone) \cup R
<1>1. \A s \in R : /\ NewGen(s) \in GenIds /\ NewGen(s) # None
                   /\ <<s, NewGen(s)>> \notin Registered \cup turns \cup closing
  BY NewGenIsFresh
<1>2. gen' \in [Sessions -> GenIds \cup {None}]
  BY <1>1 DEF IInv, TypeOK
<1>3. Live' = (Live \ gone) \cup R
  BY <1>1 DEF Live
<1>4. \A s \in gone : /\ s \in Sessions /\ gen[s] \in GenIds
                      /\ <<s, gen[s]>> \in Registered
                      /\ <<s, gen[s]>> \notin turns /\ <<s, gen[s]>> \notin workers
  BY QuietGeneration DEF Live
<1>5. closing' \subseteq Generations /\ released \subseteq closing'
  BY <1>4 DEF IInv, TypeOK, Generations
<1>6. Registered' \cap closing' = {}
  <2> SUFFICES ASSUME NEW s \in Live', <<s, gen'[s]>> \in closing' PROVE FALSE
    BY DEF Registered
  <2>1. CASE s \in R
    <3>1. gen'[s] = NewGen(s) /\ <<s, NewGen(s)>> \notin Registered \cup closing
      BY <2>1, <1>1
    <3> QED
      BY <3>1, <1>4
  <2>2. CASE s \notin R
    <3>1. s \in Live \ gone /\ gen'[s] = gen[s] /\ <<s, gen[s]>> \in Registered
      BY <2>2, <1>3 DEF Live, Registered
    <3> QED
      BY <3>1 DEF IInv, RegisteredIsNotClosing
  <2> QED
    BY <2>1, <2>2
<1>7. \A s \in inFlight : /\ s \in Sessions \ (gone \cup R)
                          /\ gen'[s] = gen[s] /\ <<s, gen'[s]>> \in turns
  BY DEF IInv, TypeOK, SlotsMatchTurns, Live
<1>8. ASSUME NEW s \in Sessions, NEW g \in GenIds, <<s, g>> \in turns
      PROVE  (gen'[s] = g /\ s \in inFlight) \/ <<s, g>> \in closing'
  BY <1>7, <1>8 DEF IInv, SlotsMatchTurns
<1>9. (~down => turns \cap closing' \subseteq released)
      /\ (~down => workers \cap closing' \subseteq released)
  BY <1>4 DEF IInv, RunningTurnKeepsItsGeneration, LiveWorkersKeepTheirGeneration
<1>10. inFlight \subseteq Live'
  BY <1>3 DEF IInv, TypeOK
<1>11. closing \subseteq closing' /\ closing' \subseteq closing \cup Registered
  BY <1>4
<1>12. Registered \subseteq Registered' \cup closing'
  <2> SUFFICES ASSUME NEW s \in Live, s \notin gone PROVE <<s, gen[s]>> \in Registered'
    BY DEF Registered
  <2>1. s \in Live' /\ gen'[s] = gen[s]
    BY <1>3 DEF Live
  <2> QED
    BY <2>1 DEF Registered
<1> QED
  BY <1>2, <1>3, <1>5, <1>6, <1>7, <1>8, <1>9, <1>10, <1>11, <1>12 DEF SwapStep

(* Rebuilding sessions that have neither a turn nor live workers.          *)
LEMMA RebuildKeeps ==
  ASSUME IInv, NEW R \in SUBSET Live, \A s \in R : Rebuildable(s), Rebuild(R)
  PROVE  SwapStep /\ Live' = Live
<1>1. \A s \in R : CanBuild(s) /\ (s \in Live => s \in R)
  BY DEF Rebuild
<1>2. gen' = [s \in Sessions |-> IF s \in R THEN NewGen(s)
                                 ELSE IF s \in R THEN None ELSE gen[s]]
  BY DEF Rebuild
<1>3. \A s \in R : s \notin inFlight /\ <<s, gen[s]>> \notin workers
  BY DEF Rebuildable, Deferred
<1>4. R \in SUBSET Sessions /\ closing' = closing \cup {<<s, gen[s]>> : s \in R}
  BY DEF Rebuild, Live
<1> QED
  BY <1>1, <1>2, <1>3, <1>4, SwapKeeps

(* Dropping instances that may be reclaimed.                               *)
LEMMA DropKeeps ==
  ASSUME IInv, NEW gone \in SUBSET Live, \A s \in gone : Reclaimable(s), Drop(gone)
  PROVE  SwapStep /\ Live' = Live \ gone
<1>1. gen' = [s \in Sessions |-> IF s \in {} THEN NewGen(s)
                                 ELSE IF s \in gone THEN None ELSE gen[s]]
  BY DEF Drop
<1>2. \A s \in gone : s \notin inFlight /\ <<s, gen[s]>> \notin workers
  BY DEF Reclaimable, Pinned
<1>3. closing' = closing \cup {<<s, gen[s]>> : s \in gone}
  BY DEF Drop
<1>4. SwapStep /\ Live' = (Live \ gone) \cup {}
  <2> HIDE DEF SwapStep
  <2>1. {} \in SUBSET Sessions /\ \A s \in {} : CanBuild(s) /\ (s \in Live => s \in gone)
    OBVIOUS
  <2> QED
    BY <1>1, <1>2, <1>3, <2>1, SwapKeeps
<1> QED
  BY <1>4

(* What makeRoom() evicts may be reclaimed.                                *)
LEMMA VictimsAreReclaimable ==
  ASSUME NEW s, NEW V, MakeRoom(s, V)
  PROVE  V \subseteq Live /\ \A v \in V : Reclaimable(v)
BY DEF MakeRoom, Reclaimable

(* A failed ensure() or a refused eviction can leave the map alone.        *)
LEMMA IdleSwap ==
  ASSUME IInv, UNCHANGED <<gen, closing>>
  PROVE  SwapStep /\ Live' = Live
BY DEF IInv, TypeOK, RegisteredIsNotClosing, SlotsMatchTurns, Live, Registered,
       RunningTurnKeepsItsGeneration, LiveWorkersKeepTheirGeneration, SwapStep

(* A step that only stamps an entry.                                       *)
LEMMA TouchKeeps ==
  ASSUME IInv, NEW s \in Sessions, Touch(s, {}), UNCHANGED <<gen, closing, stale, marked>>
  PROVE  GenStep
<1>1. SwapStep /\ Live' = Live
  BY IdleSwap
<1>2. older' \subseteq Sessions \X Sessions /\ pastTtl' \subseteq pastTtl
  BY TouchType DEF IInv
<1> QED
  BY <1>1, <1>2 DEF GenStep, IInv, TypeOK

(* ensure() in one step: the result is registered, and nothing is lost.    *)
LEMMA EnsureKeeps ==
  ASSUME IInv, NEW s \in Sessions, Ensure(s)
  PROVE  GenStep /\ s \in Live' /\ gen'[s] = Ensured(s)
<1>1. CASE EnsureExisting(s)
  <2>1. s \in Live /\ Touch(s, {})
    BY <1>1 DEF EnsureExisting
  <2>2. older' \subseteq Sessions \X Sessions /\ pastTtl' \subseteq pastTtl
    BY <2>1, TouchType DEF IInv
  <2>3. CASE s \in marked \cup stale /\ Rebuildable(s)
    <3>1. /\ Rebuild({s}) /\ marked' = marked \ {s} /\ stale' = stale \ {s}
      BY <1>1, <2>3 DEF EnsureExisting
    <3>2. SwapStep /\ Live' = Live
      BY <2>1, <2>3, <3>1, RebuildKeeps
    <3>3. gen'[s] = Ensured(s)
      BY <2>1, <2>3, <3>1 DEF Rebuild, Ensured
    <3> QED
      BY <2>1, <2>2, <3>1, <3>2, <3>3 DEF GenStep, IInv, TypeOK
  <2>4. CASE ~(s \in marked \cup stale /\ Rebuildable(s))
    <3>1. UNCHANGED <<gen, closing, stale>> /\ marked' \subseteq marked \cup {s}
      BY <1>1, <2>4 DEF EnsureExisting
    <3>2. SwapStep /\ Live' = Live
      BY <3>1, IdleSwap
    <3>3. gen'[s] = Ensured(s)
      BY <2>1, <2>4, <3>1 DEF Ensured
    <3> QED
      BY <2>1, <2>2, <3>1, <3>2, <3>3 DEF GenStep, IInv, TypeOK
  <2> QED
    BY <2>3, <2>4
<1>2. CASE EnsureNew(s)
  <2>1. PICK V \in SUBSET Live :
          /\ MakeRoom(s, V)
          /\ gen' = [t \in Sessions |-> IF t = s THEN NewGen(s)
                                        ELSE IF t \in V THEN None ELSE gen[t]]
          /\ closing' = closing \cup {<<v, gen[v]>> : v \in V}
          /\ stale' = stale \ V
          /\ marked' = marked \ V
          /\ Touch(s, V)
    BY <1>2 DEF EnsureNew
  <2>2. s \notin Live /\ CanBuild(s)
    BY <1>2 DEF EnsureNew
  <2>3. gen' = [t \in Sessions |-> IF t \in {s} THEN NewGen(t)
                                   ELSE IF t \in V THEN None ELSE gen[t]]
    BY <2>1
  <2>4. \A v \in V : v \notin inFlight /\ <<v, gen[v]>> \notin workers
    BY <2>1, VictimsAreReclaimable DEF Reclaimable, Pinned
  <2>5. SwapStep /\ Live' = (Live \ V) \cup {s}
    <3> HIDE DEF SwapStep
    <3>1. {s} \in SUBSET Sessions /\ \A t \in {s} : CanBuild(t) /\ (t \in Live => t \in V)
      BY <2>2
    <3> QED
      BY <2>1, <2>3, <2>4, <3>1, SwapKeeps
  <2>6. older' \subseteq Sessions \X Sessions /\ pastTtl' \subseteq pastTtl \ V
    BY <2>1, TouchType DEF IInv
  <2>7. gen'[s] = Ensured(s)
    BY <2>1, <2>2 DEF Ensured
  <2> QED
    BY <2>1, <2>5, <2>6, <2>7 DEF GenStep, IInv, TypeOK
<1> QED
  BY <1>1, <1>2 DEF Ensure

(* A step that only moves generations re-establishes the invariant.        *)
LEMMA GenStepSuffices ==
  ASSUME IInv, GenStep, sweepKeys' \subseteq Sessions,
         UNCHANGED <<inFlight, turns, workers, released, down>>
  PROVE  IInv'
BY DEF GenStep, SwapStep, IInv, TypeOK, RegisteredIsNotClosing, SlotsMatchTurns,
       RunningTurnKeepsItsGeneration, LiveWorkersKeepTheirGeneration

(* A turn begins on the generation that ensure() returned.                 *)
LEMMA BeginTurnKeeps ==
  ASSUME IInv, GenStep, NEW s \in Live', BeginTurn(s, gen'[s]),
         UNCHANGED <<sweepKeys, workers, released, down>>
  PROVE  IInv'
<1>1. s \in Sessions /\ gen'[s] \in GenIds /\ <<s, gen'[s]>> \in Registered'
  BY DEF Live, GenStep, SwapStep, Registered
<1>2. <<s, gen'[s]>> \notin closing'
  BY <1>1 DEF GenStep, SwapStep
<1>3. inFlight' = inFlight \cup {s} /\ turns' = turns \cup {<<s, gen'[s]>>}
  BY DEF BeginTurn
<1>4. TypeOK'
  BY <1>1, <1>3 DEF IInv, TypeOK, GenStep, SwapStep, Generations
<1>5. SlotsMatchTurns'
  BY <1>1, <1>3 DEF GenStep, SwapStep, SlotsMatchTurns
<1>6. RunningTurnKeepsItsGeneration'
  BY <1>2, <1>3 DEF GenStep, SwapStep, RunningTurnKeepsItsGeneration
<1>7. RegisteredIsNotClosing' /\ LiveWorkersKeepTheirGeneration'
  BY DEF GenStep, SwapStep, RegisteredIsNotClosing, LiveWorkersKeepTheirGeneration
<1> QED
  BY <1>4, <1>5, <1>6, <1>7 DEF IInv

(* evict(), whether it is refused or not.                                  *)
LEMMA EvictKeeps ==
  ASSUME IInv, NEW s \in Sessions, Evict(s)
  PROVE  GenStep
<1>1. CASE Reclaimable(s)
  <2>1. Drop({s}) /\ Forget({s}) /\ s \in Live
    BY <1>1 DEF Evict, Reclaimable
  <2>2. SwapStep /\ Live' = Live \ {s}
    BY <1>1, <2>1, DropKeeps
  <2>3. older' \subseteq Sessions \X Sessions /\ pastTtl' = pastTtl \ {s}
    BY <2>1, ForgetType DEF IInv
  <2> QED
    BY <2>1, <2>2, <2>3 DEF GenStep, Drop, IInv, TypeOK
<1>2. CASE ~Reclaimable(s)
  BY <1>2, IdleSwap DEF Evict, GenStep, IInv, TypeOK
<1> QED
  BY <1>1, <1>2

(* A step that swaps a set of marked or stale sessions and nothing else.   *)
LEMMA SettleKeeps ==
  ASSUME IInv, NEW R \in SUBSET Live, \A s \in R : Rebuildable(s), Rebuild(R),
         marked' \subseteq Live, stale' \subseteq Live, UNCHANGED <<older, pastTtl>>
  PROVE  GenStep
<1>1. SwapStep /\ Live' = Live
  BY RebuildKeeps
<1> QED
  BY <1>1 DEF GenStep, IInv, TypeOK

(* A generation leaves the map under its turn or its workers only when the *)
(* session is released or the process goes down.                           *)
LEMMA ForcedDropKeeps ==
  ASSUME IInv, NEW gone \in SUBSET Live, Drop(gone), Forget(gone),
         inFlight' = inFlight \ gone, sweepKeys' \subseteq Sessions,
         UNCHANGED <<turns, workers>>,
         released' \subseteq closing', released \subseteq released',
         ~down' => ~down /\ \A s \in gone : <<s, gen[s]>> \in released',
         down' \in BOOLEAN
  PROVE  IInv'
<1>1. \A s \in gone : /\ s \in Sessions /\ gen[s] \in GenIds
                      /\ <<s, gen[s]>> \in Registered
  BY QuietGeneration DEF Live
<1>2. Live' = Live \ gone
  BY DEF Drop, Live
<1>3. older' \subseteq Sessions \X Sessions /\ pastTtl' = pastTtl \ gone
  BY ForgetType DEF IInv
<1>4. TypeOK'
  BY <1>1, <1>2, <1>3 DEF Drop, IInv, TypeOK, Generations
<1>5. RegisteredIsNotClosing'
  <2> SUFFICES ASSUME NEW s \in Live', <<s, gen'[s]>> \in closing' PROVE FALSE
    BY DEF RegisteredIsNotClosing, Registered
  <2>1. s \in Live \ gone /\ gen'[s] = gen[s] /\ <<s, gen[s]>> \in Registered
    BY <1>2 DEF Drop, Live, Registered
  <2> QED
    BY <2>1 DEF Drop, IInv, RegisteredIsNotClosing
<1>6. SlotsMatchTurns'
  <2>1. ASSUME NEW s \in inFlight' PROVE <<s, gen'[s]>> \in turns'
    BY <2>1 DEF Drop, IInv, TypeOK, SlotsMatchTurns, Live
  <2>2. ASSUME NEW s \in Sessions, NEW g \in GenIds, <<s, g>> \in turns'
        PROVE  (gen'[s] = g /\ s \in inFlight') \/ <<s, g>> \in closing'
    BY <2>2 DEF Drop, IInv, SlotsMatchTurns
  <2> QED
    BY <2>1, <2>2 DEF SlotsMatchTurns
<1>7. RunningTurnKeepsItsGeneration' /\ LiveWorkersKeepTheirGeneration'
  BY DEF Drop, IInv, RunningTurnKeepsItsGeneration, LiveWorkersKeepTheirGeneration
<1> QED
  BY <1>4, <1>5, <1>6, <1>7 DEF IInv

(* The end of a turn frees the slot of its own generation and no other.    *)
LEMMA EndTurnKeeps ==
  ASSUME IInv, NEW s \in Sessions, NEW g \in GenIds, EndTurn(s, g)
  PROVE  IInv'
<1>1. /\ <<s, g>> \in turns /\ turns' = turns \ {<<s, g>>}
      /\ UNCHANGED <<gen, stale, marked, sweepKeys, workers, closing, released, down>>
      /\ Live' = Live /\ Registered' = Registered
  BY DEF EndTurn, Live, Registered
<1>2. inFlight' = IF gen[s] = g THEN inFlight \ {s} ELSE inFlight
  BY DEF EndTurn
<1>3. older' \subseteq Sessions \X Sessions /\ pastTtl' \subseteq pastTtl
  BY TouchType DEF EndTurn, IInv, TypeOK
<1>4. TypeOK'
  BY <1>1, <1>2, <1>3 DEF IInv, TypeOK, Generations
<1>5. SlotsMatchTurns'
  <2>1. ASSUME NEW t \in inFlight' PROVE <<t, gen'[t]>> \in turns'
    <3>1. t \in inFlight /\ <<t, gen[t]>> \in turns
      BY <1>2, <2>1 DEF IInv, SlotsMatchTurns
    <3>2. <<t, gen[t]>> # <<s, g>>
      BY <1>2, <2>1
    <3> QED
      BY <1>1, <3>1, <3>2
  <2>2. ASSUME NEW t \in Sessions, NEW h \in GenIds, <<t, h>> \in turns'
        PROVE  (gen'[t] = h /\ t \in inFlight') \/ <<t, h>> \in closing'
    BY <1>1, <1>2, <2>2 DEF IInv, SlotsMatchTurns
  <2> QED
    BY <2>1, <2>2 DEF SlotsMatchTurns
<1> QED
  BY <1>1, <1>4, <1>5 DEF IInv, RegisteredIsNotClosing,
     RunningTurnKeepsItsGeneration, LiveWorkersKeepTheirGeneration

(* The end of a teardown: its turn is over, its workers are aborted.       *)
LEMMA DisposeDoneKeeps ==
  ASSUME IInv, NEW s \in Sessions, NEW g \in GenIds, DisposeDone(s, g)
  PROVE  IInv'
<1>1. Live' = Live /\ Registered' = Registered
  BY DEF DisposeDone, Live, Registered
<1> QED
  BY <1>1 DEF DisposeDone, IInv, TypeOK, Generations, RegisteredIsNotClosing,
     SlotsMatchTurns, RunningTurnKeepsItsGeneration, LiveWorkersKeepTheirGeneration

(* Live work starts on a registered generation only.                       *)
LEMMA SpawnWorkerKeeps ==
  ASSUME IInv, NEW s \in Sessions, SpawnWorker(s)
  PROVE  IInv'
<1>1. s \in Live /\ gen[s] \in GenIds /\ <<s, gen[s]>> \in Registered
  BY QuietGeneration DEF SpawnWorker
<1>2. <<s, gen[s]>> \notin closing
  BY <1>1 DEF IInv, RegisteredIsNotClosing
<1>3. Live' = Live /\ Registered' = Registered
  BY DEF SpawnWorker, Live, Registered
<1> QED
  BY <1>1, <1>2, <1>3 DEF SpawnWorker, IInv, TypeOK, Generations,
     RegisteredIsNotClosing, SlotsMatchTurns, RunningTurnKeepsItsGeneration,
     LiveWorkersKeepTheirGeneration

(* The steps that move generations and leave turns and live work alone.    *)
MovesGenerations ==
  \/ \E s \in Sessions :
       \/ EnsureSession(s) \/ EnsureFails(s) \/ Inject(s) \/ InvalidateSession(s)
       \/ Expire(s) \/ SweepNext(s) \/ EvictForCompaction(s)
  \/ InvalidateAll \/ SweepStart \/ SettleDeferred

(* None of them loses a generation, whatever it swaps: one step per action.*)
LEMMA MovesAreGenSteps ==
  ASSUME IInv, MovesGenerations
  PROVE  GenStep
<1>1. ASSUME NEW s \in Sessions, EnsureSession(s) PROVE GenStep
  BY <1>1, EnsureKeeps DEF EnsureSession
<1>2. ASSUME NEW s \in Sessions, EnsureFails(s) PROVE GenStep
  <2>1. CASE \E V \in SUBSET Live : MakeRoom(s, V) /\ Drop(V) /\ Forget(V)
    <3>1. PICK V \in SUBSET Live : MakeRoom(s, V) /\ Drop(V) /\ Forget(V)
      BY <2>1
    <3>2. SwapStep /\ Live' = Live \ V
      BY <3>1, VictimsAreReclaimable, DropKeeps
    <3>3. older' \subseteq Sessions \X Sessions /\ pastTtl' = pastTtl \ V
      BY <3>1, ForgetType DEF IInv
    <3> QED
      BY <3>1, <3>2, <3>3 DEF GenStep, Drop, IInv, TypeOK
  <2>2. CASE Touch(s, {}) /\ UNCHANGED <<gen, closing, stale, marked>>
    BY <2>2, TouchKeeps
  <2> QED
    BY <1>2, <2>1, <2>2 DEF EnsureFails
<1>3. ASSUME NEW s \in Sessions, Inject(s) PROVE GenStep
  BY <1>3, TouchKeeps DEF Inject
<1>4. ASSUME NEW s \in Sessions, InvalidateSession(s) PROVE GenStep
  <2>1. CASE Rebuildable(s) /\ Rebuild({s}) /\ marked' = marked \ {s} /\ stale' = stale \ {s}
    <3>1. {s} \in SUBSET Live /\ UNCHANGED <<older, pastTtl>>
      BY <1>4 DEF InvalidateSession
    <3> QED
      BY <2>1, <3>1, SettleKeeps DEF IInv, TypeOK
  <2>2. CASE marked' = marked \cup {s} /\ UNCHANGED <<gen, closing, stale>>
    <3>1. SwapStep /\ Live' = Live
      BY <2>2, IdleSwap
    <3> QED
      BY <1>4, <2>2, <3>1 DEF InvalidateSession, GenStep, IInv, TypeOK
  <2> QED
    BY <1>4, <2>1, <2>2 DEF InvalidateSession
<1>5. ASSUME NEW s \in Sessions, Expire(s) PROVE GenStep
  <2>1. SwapStep /\ Live' = Live
    BY <1>5, IdleSwap DEF Expire
  <2> QED
    BY <1>5, <2>1 DEF Expire, GenStep, IInv, TypeOK
<1>6. ASSUME NEW s \in Sessions, SweepNext(s) \/ EvictForCompaction(s) PROVE GenStep
  BY <1>6, EvictKeeps DEF SweepNext, EvictForCompaction
<1>7. ASSUME InvalidateAll PROVE GenStep
  <2>1. PICK P \in SUBSET Live :
          LET swap == {s \in P : Rebuildable(s)}
          IN  \E broken \in {{}} \cup {{s} : s \in Live \ P} :
                /\ Rebuild(swap)
                /\ marked' = (marked \cup P \cup broken) \ swap
                /\ stale' = Live \ swap
    BY <1>7 DEF InvalidateAll
  <2> DEFINE swap == {s \in P : Rebuildable(s)}
  <2>2. swap \in SUBSET Live /\ \A s \in swap : Rebuildable(s)
    OBVIOUS
  <2>3. Rebuild(swap) /\ stale' = Live \ swap /\ marked' \subseteq Live
    BY <2>1 DEF IInv, TypeOK
  <2> HIDE DEF swap
  <2> QED
    BY <1>7, <2>2, <2>3, SettleKeeps DEF InvalidateAll, IInv, TypeOK
<1>8. ASSUME SweepStart PROVE GenStep
  <2>1. PICK s \in pastTtl : Evict(s)
    BY <1>8 DEF SweepStart
  <2>2. s \in Sessions
    BY DEF IInv, TypeOK, Live
  <2> QED
    BY <2>1, <2>2, EvictKeeps
<1>9. ASSUME SettleDeferred PROVE GenStep
  <2>1. PICK R \in SUBSET {s \in Live \cap marked : Rebuildable(s)} :
          Rebuild(R) /\ marked' = marked \ R /\ stale' = stale \ R
    BY <1>9 DEF SettleDeferred
  <2> QED
    BY <1>9, <2>1, SettleKeeps DEF SettleDeferred, IInv, TypeOK
<1> QED
  BY <1>1, <1>2, <1>3, <1>4, <1>5, <1>6, <1>7, <1>8, <1>9 DEF MovesGenerations

(* What they leave alone, and that the process is up.                      *)
LEMMA MovesLeaveWorkAlone ==
  ASSUME TypeOK, MovesGenerations
  PROVE  /\ UNCHANGED <<inFlight, turns, workers, released, down>>
         /\ ~down /\ sweepKeys' \subseteq Sessions
<1>1. pastTtl \subseteq Sessions /\ sweepKeys \subseteq Sessions
  BY DEF TypeOK, Live
<1>2. CASE \E s \in Sessions :
             \/ EnsureSession(s) \/ EnsureFails(s) \/ Inject(s) \/ InvalidateSession(s)
             \/ Expire(s) \/ SweepNext(s) \/ EvictForCompaction(s)
  BY <1>1, <1>2 DEF EnsureSession, EnsureFails, Inject, InvalidateSession,
     Expire, SweepNext, EvictForCompaction
<1>3. CASE InvalidateAll \/ SweepStart \/ SettleDeferred
  BY <1>1, <1>3 DEF InvalidateAll, SweepStart, SettleDeferred
<1> QED
  BY <1>2, <1>3 DEF MovesGenerations

(* Every step preserves the invariant: one step per action.                *)
LEMMA NextInvariant == IInv /\ [Next]_vars => IInv'
<1> SUFFICES ASSUME IInv, [Next]_vars PROVE IInv'
  OBVIOUS
<1>1. CASE MovesGenerations
  <2>1. TypeOK
    BY DEF IInv
  <2> QED
    BY <1>1, <2>1, MovesAreGenSteps, MovesLeaveWorkAlone, GenStepSuffices
<1>2. ASSUME NEW s \in Sessions, StartTurn(s) PROVE IInv'
  BY <1>2, EnsureKeeps, BeginTurnKeeps DEF StartTurn
<1>3. ASSUME NEW s \in Sessions, StartAutowakeTurn(s) PROVE IInv'
  <2>1. /\ s \in Live /\ Touch(s, {}) /\ UNCHANGED <<gen, stale, marked, closing>>
        /\ BeginTurn(s, gen[s]) /\ UNCHANGED <<sweepKeys, workers, released, down>>
    BY <1>3 DEF StartAutowakeTurn
  <2>2. GenStep
    BY <2>1, TouchKeeps
  <2>3. s \in Live'
    BY <2>1 DEF Live
  <2> QED
    BY <2>1, <2>2, <2>3, BeginTurnKeeps
<1>4. ASSUME NEW s \in Sessions, SpawnWorker(s) PROVE IInv'
  BY <1>4, SpawnWorkerKeeps
<1>5. ASSUME NEW s \in Sessions, Release(s) PROVE IInv'
  <2>1. {s} \in SUBSET Live /\ <<s, gen[s]>> \in closing'
    BY <1>5 DEF Release, Drop
  <2>2. released' \subseteq closing'
    BY <1>5, <2>1 DEF Release, Drop, IInv, TypeOK
  <2> QED
    BY <1>5, <2>1, <2>2, ForcedDropKeeps DEF Release, IInv, TypeOK
<1>6. ASSUME NEW s \in Sessions, NEW g \in GenIds, EndTurn(s, g) PROVE IInv'
  BY <1>6, EndTurnKeeps
<1>7. ASSUME NEW s \in Sessions, NEW g \in GenIds, SettleWorkers(s, g) PROVE IInv'
  <2>1. Live' = Live /\ Registered' = Registered
    BY <1>7 DEF SettleWorkers, Live, Registered
  <2> QED
    BY <1>7, <2>1 DEF SettleWorkers, IInv, TypeOK, RegisteredIsNotClosing,
       SlotsMatchTurns, RunningTurnKeepsItsGeneration, LiveWorkersKeepTheirGeneration
<1>8. ASSUME NEW s \in Sessions, NEW g \in GenIds, DisposeDone(s, g) PROVE IInv'
  BY <1>8, DisposeDoneKeeps
<1>9. ASSUME Shutdown PROVE IInv'
  <2>1. released' \subseteq closing' /\ inFlight' = inFlight \ Live
    BY <1>9 DEF Shutdown, Drop, IInv, TypeOK
  <2> QED
    BY <1>9, <2>1, ForcedDropKeeps DEF Shutdown
<1>10. CASE UNCHANGED vars
  BY <1>10 DEF vars, IInv, TypeOK, Live, Registered, RegisteredIsNotClosing,
     SlotsMatchTurns, RunningTurnKeepsItsGeneration, LiveWorkersKeepTheirGeneration
<1> QED
  BY <1>1, <1>2, <1>3, <1>4, <1>5, <1>6, <1>7, <1>8, <1>9, <1>10
     DEF Next, MovesGenerations

(* The registry, its runners and its teardowns agree in every reachable    *)
(* state: the conjunction the next theorems project from.                  *)
THEOREM RegistryInvariant == Spec => []IInv
BY InitInvariant, NextInvariant, PTL DEF Spec

(* Every variable keeps its type.                                          *)
THEOREM RegistryTypeOK == Spec => []TypeOK
<1>1. IInv => TypeOK
  BY DEF IInv
<1> QED
  BY <1>1, RegistryInvariant, PTL

(* No caller is handed a runtime whose teardown has started.               *)
THEOREM NeverHandsOutAClosingRuntime == Spec => []RegisteredIsNotClosing
<1>1. IInv => RegisteredIsNotClosing
  BY DEF IInv
<1> QED
  BY <1>1, RegistryInvariant, PTL

(* The registry's slots and the running turns agree.                       *)
THEOREM SlotsFollowTurns == Spec => []SlotsMatchTurns
<1>1. IInv => SlotsMatchTurns
  BY DEF IInv
<1> QED
  BY <1>1, RegistryInvariant, PTL

(* A rebuild, an eviction or a sweep never tears a generation down under   *)
(* its running turn or its live workers.                                   *)
THEOREM LiveWorkIsNotTornDown == Spec => []LiveWorkKeepsItsGeneration
<1>1. IInv => LiveWorkKeepsItsGeneration
  BY DEF IInv, LiveWorkKeepsItsGeneration
<1> QED
  BY <1>1, RegistryInvariant, PTL

(* A turn is refused at the cap, and every other step leaves the slots     *)
(* alone or frees some.                                                    *)
LEMMA TurnCapStep ==
  ASSUME TypeOK, TurnCap, [Next]_vars
  PROVE  TurnCap'
<1>1. IsFiniteSet(inFlight) /\ Cardinality(inFlight) \in Nat
  <2>1. inFlight \subseteq Sessions
    BY DEF TypeOK, Live
  <2> QED
    BY <2>1, RegistryAssumption, FS_Subset, FS_CardinalityType
<1>2. ASSUME NEW s \in Sessions, NEW g, BeginTurn(s, g) PROVE TurnCap'
  <2>1. Cardinality(inFlight') = Cardinality(inFlight) + 1
    BY <1>1, <1>2, FS_AddElement DEF BeginTurn
  <2> QED
    BY <1>1, <1>2, <2>1, RegistryAssumption DEF BeginTurn, AtTurnCap, TurnCap
<1>3. ASSUME inFlight' \subseteq inFlight PROVE TurnCap'
  <2>1. Cardinality(inFlight') <= Cardinality(inFlight) /\ Cardinality(inFlight') \in Nat
    BY <1>1, <1>3, FS_Subset, FS_CardinalityType
  <2> QED
    BY <1>1, <2>1, RegistryAssumption DEF TurnCap
<1>4. CASE \E s \in Sessions : StartTurn(s) \/ StartAutowakeTurn(s)
  BY <1>2, <1>4 DEF StartTurn, StartAutowakeTurn
<1>5. CASE \E s \in Sessions : \E g \in GenIds : EndTurn(s, g)
  BY <1>3, <1>5 DEF EndTurn
<1>6. CASE UNCHANGED vars
  BY <1>3, <1>6 DEF vars
<1>7. CASE Shutdown \/ \E s \in Sessions : Release(s)
  BY <1>3, <1>7 DEF Shutdown, Release
<1>8. CASE \E s \in Sessions :
             \/ EnsureSession(s) \/ EnsureFails(s) \/ Inject(s) \/ SpawnWorker(s)
             \/ InvalidateSession(s) \/ Expire(s) \/ SweepNext(s)
             \/ EvictForCompaction(s)
             \/ \E g \in GenIds : SettleWorkers(s, g) \/ DisposeDone(s, g)
  <2>1. inFlight' = inFlight
    BY <1>8 DEF EnsureSession, EnsureFails, Inject, SpawnWorker,
       InvalidateSession, Expire, SweepNext, EvictForCompaction,
       SettleWorkers, DisposeDone
  <2> QED
    BY <1>3, <2>1
<1>9. CASE InvalidateAll \/ SweepStart \/ SettleDeferred
  <2>1. inFlight' = inFlight
    BY <1>9 DEF InvalidateAll, SweepStart, SettleDeferred
  <2> QED
    BY <1>3, <2>1
<1> QED
  BY <1>4, <1>5, <1>6, <1>7, <1>8, <1>9 DEF Next

(* No more turns are in flight than the cap allows.                        *)
THEOREM TurnCapHolds == Spec => []TurnCap
<1>1. Init => TurnCap
  <2>1. Cardinality({}) = 0
    BY FS_EmptySet
  <2> QED
    BY <2>1, RegistryAssumption DEF Init, TurnCap
<1>2. TypeOK /\ TurnCap /\ [Next]_vars => TurnCap'
  BY TurnCapStep
<1> QED
  BY <1>1, <1>2, RegistryTypeOK, PTL DEF Spec

(* A session enters the map through ensure() of a key that is not there.   *)
LEMMA OnlyEnsureAdmits ==
  ASSUME IInv, [Next]_vars, NEW s \in Live' \ Live
  PROVE  EnsureNew(s) /\ UNCHANGED workers
<1>1. ASSUME NEW t \in Sessions, Ensure(t) PROVE EnsureNew(s)
  <2>1. CASE EnsureExisting(t)
    <3>1. CASE UNCHANGED gen
      BY <3>1 DEF Live
    <3>2. CASE t \in Live /\ Rebuildable(t) /\ Rebuild({t})
      BY <3>2, RebuildKeeps
    <3> QED
      BY <2>1, <3>1, <3>2 DEF EnsureExisting
  <2>2. CASE EnsureNew(t)
    <3>1. s = t
      BY <2>2 DEF EnsureNew, Live
    <3> QED
      BY <2>2, <3>1
  <2> QED
    BY <1>1, <2>1, <2>2 DEF Ensure
<1>2. ASSUME NEW gone, Drop(gone) PROVE FALSE
  BY <1>2 DEF Drop, Live
<1>3. ASSUME NEW R \in SUBSET Live, \A t \in R : Rebuildable(t), Rebuild(R) PROVE FALSE
  BY <1>3, RebuildKeeps
<1>4. ASSUME NEW t, Evict(t) PROVE FALSE
  BY <1>2, <1>4 DEF Evict, Live
<1>5. ~UNCHANGED gen
  BY DEF Live
<1>6. CASE \E t \in Sessions : EnsureSession(t) \/ StartTurn(t)
  BY <1>1, <1>6 DEF EnsureSession, StartTurn
<1>7. CASE \E t \in Sessions : EnsureFails(t) \/ EvictForCompaction(t) \/ Release(t) \/ SweepNext(t)
  BY <1>2, <1>4, <1>5, <1>7 DEF EnsureFails, EvictForCompaction, Release, SweepNext
<1>8. CASE SweepStart \/ Shutdown
  BY <1>2, <1>4, <1>8 DEF SweepStart, Shutdown
<1>9. CASE \E t \in Sessions : InvalidateSession(t)
  <2>1. PICK t \in Sessions : InvalidateSession(t)
    BY <1>9
  <2>2. t \in Live /\ Rebuildable(t) /\ Rebuild({t})
    BY <1>5, <2>1 DEF InvalidateSession
  <2>3. {t} \in SUBSET Live /\ \A u \in {t} : Rebuildable(u)
    BY <2>2
  <2> QED
    BY <1>3, <2>2, <2>3
<1>10. CASE InvalidateAll
  <2>1. PICK P \in SUBSET Live : Rebuild({t \in P : Rebuildable(t)})
    BY <1>10 DEF InvalidateAll
  <2> DEFINE R == {t \in P : Rebuildable(t)}
  <2>2. R \in SUBSET Live /\ \A t \in R : Rebuildable(t)
    OBVIOUS
  <2> HIDE DEF R
  <2> QED
    BY <1>3, <2>1, <2>2 DEF R
<1>11. CASE SettleDeferred
  <2>1. PICK R \in SUBSET {t \in Live \cap marked : Rebuildable(t)} : Rebuild(R)
    BY <1>11 DEF SettleDeferred
  <2>2. R \in SUBSET Live /\ \A t \in R : Rebuildable(t)
    OBVIOUS
  <2> QED
    BY <1>3, <2>1, <2>2
<1>12. CASE \/ \E t \in Sessions :
                 \/ StartAutowakeTurn(t) \/ Inject(t) \/ SpawnWorker(t) \/ Expire(t)
                 \/ \E g \in GenIds : EndTurn(t, g) \/ SettleWorkers(t, g) \/ DisposeDone(t, g)
            \/ UNCHANGED vars
  BY <1>5, <1>12 DEF StartAutowakeTurn, Inject, SpawnWorker, Expire, EndTurn,
     SettleWorkers, DisposeDone, vars
<1> QED
  BY <1>6, <1>7, <1>8, <1>9, <1>10, <1>11, <1>12 DEF Next

(* What makeRoom() evicts made room, or the new key was refused.           *)
LEMMA AdmittedWithinCap ==
  ASSUME TypeOK, NEW s \in Sessions, EnsureNew(s), UNCHANGED workers,
         MaxLive > 0, s # Detached
  PROVE  Cardinality(Counted') <= MaxLive
<1>1. PICK V \in SUBSET Live :
        /\ MakeRoom(s, V) /\ ~NoRoom(s, V)
        /\ gen' = [t \in Sessions |-> IF t = s THEN NewGen(s)
                                      ELSE IF t \in V THEN None ELSE gen[t]]
  BY DEF EnsureNew
<1>2. IsFiniteSet(Counted) /\ Cardinality(Counted) \in Nat
  <2>1. Counted \subseteq Sessions
    BY DEF Counted, Live
  <2> QED
    BY <2>1, RegistryAssumption, FS_Subset, FS_CardinalityType
<1>3. V \subseteq Counted
  BY <1>1, VictimsAreReclaimable DEF Reclaimable, Counted
<1>4. IsFiniteSet(V) /\ Cardinality(V) \in Nat
  BY <1>2, <1>3, FS_Subset, FS_CardinalityType
<1>5. Cardinality(Counted) - Cardinality(V) < MaxLive
  BY <1>1, <1>2, <1>4, RegistryAssumption DEF NoRoom
<1>6. /\ IsFiniteSet(Counted \ V)
      /\ Cardinality(Counted \ V) = Cardinality(Counted) - Cardinality(V)
  <2>1. Counted \cap V = V
    BY <1>3
  <2> QED
    BY <1>2, <2>1, FS_Difference
<1>7. Counted' \subseteq (Counted \ V) \cup {s}
  BY <1>1 DEF Counted, Live, Pinned
<1>8. /\ IsFiniteSet((Counted \ V) \cup {s})
      /\ Cardinality((Counted \ V) \cup {s}) <= Cardinality(Counted \ V) + 1
      /\ Cardinality((Counted \ V) \cup {s}) \in Nat
  <2>1. /\ IsFiniteSet((Counted \ V) \cup {s})
        /\ \/ Cardinality((Counted \ V) \cup {s}) = Cardinality(Counted \ V)
           \/ Cardinality((Counted \ V) \cup {s}) = Cardinality(Counted \ V) + 1
    BY <1>6, FS_AddElement
  <2>2. Cardinality(Counted \ V) \in Nat
    BY <1>6, FS_CardinalityType
  <2> QED
    BY <2>1, <2>2
<1>9. /\ Cardinality(Counted') <= Cardinality((Counted \ V) \cup {s})
      /\ Cardinality(Counted') \in Nat
  BY <1>7, <1>8, FS_Subset, FS_CardinalityType
<1> QED
  BY <1>2, <1>4, <1>5, <1>6, <1>8, <1>9, RegistryAssumption

(* A new instance is admitted only within the cap, whatever pins came and  *)
(* went before, and a turn only below its cap: for any caps and sessions.  *)
THEOREM AdmissionStaysWithinCaps == Spec => AdmissionWithinCaps
<1>1. IInv /\ TurnCap /\ [Next]_vars =>
        [/\ \A s \in Live' \ Live :
              MaxLive > 0 /\ s # Detached => Cardinality(Counted') <= MaxLive
         /\ inFlight' \subseteq inFlight \/ TurnCap']_vars
  <2> SUFFICES ASSUME IInv, TurnCap, [Next]_vars
               PROVE  /\ \A s \in Live' \ Live :
                           MaxLive > 0 /\ s # Detached => Cardinality(Counted') <= MaxLive
                      /\ TurnCap'
    OBVIOUS
  <2>1. TypeOK
    BY DEF IInv
  <2>2. ASSUME NEW s \in Live' \ Live, MaxLive > 0, s # Detached
        PROVE  Cardinality(Counted') <= MaxLive
    <3>1. s \in Sessions
      BY DEF Live
    <3> QED
      BY <2>1, <2>2, <3>1, OnlyEnsureAdmits, AdmittedWithinCap
  <2>3. TurnCap'
    BY <2>1, TurnCapStep
  <2> QED
    BY <2>2, <2>3
<1> QED
  BY <1>1, RegistryInvariant, TurnCapHolds, PTL DEF Spec, AdmissionWithinCaps

(* Without autowake, a turn never starts on a generation that is due for a *)
(* rebuild unless live workers defer it: startTurn() goes through ensure().*)
THEOREM FreshTurns ==
  ASSUME Autowake = FALSE
  PROVE  Spec => FreshAtTurnStart
<1>1. ASSUME IInv, [Next]_vars
      PROVE  [\A t \in turns' \ turns : t[1] \in marked' \cup stale' => t \in workers]_vars
  <2> SUFFICES ASSUME NEW t \in turns' \ turns, t[1] \in marked' \cup stale'
               PROVE  t \in workers
    OBVIOUS
  <2>1. PICK s \in Sessions : StartTurn(s)
    <3>1. CASE \E s \in Sessions : \E g \in GenIds :
                 EndTurn(s, g) \/ SettleWorkers(s, g) \/ DisposeDone(s, g)
      BY <3>1 DEF EndTurn, SettleWorkers, DisposeDone
    <3>2. CASE \E s \in Sessions : StartAutowakeTurn(s)
      BY <3>2 DEF StartAutowakeTurn
    <3>3. CASE \E s \in Sessions :
                 \/ EnsureSession(s) \/ EnsureFails(s) \/ Inject(s) \/ SpawnWorker(s)
                 \/ InvalidateSession(s) \/ Expire(s) \/ SweepNext(s)
                 \/ EvictForCompaction(s) \/ Release(s)
      BY <3>3 DEF EnsureSession, EnsureFails, Inject, SpawnWorker,
         InvalidateSession, Expire, SweepNext, EvictForCompaction, Release
    <3>4. CASE InvalidateAll \/ SweepStart \/ SettleDeferred \/ Shutdown \/ UNCHANGED vars
      BY <3>4 DEF InvalidateAll, SweepStart, SettleDeferred, Shutdown, vars
    <3> QED
      BY <1>1, <3>1, <3>2, <3>3, <3>4 DEF Next
  <2>2. Ensure(s) /\ BeginTurn(s, Ensured(s))
    BY <2>1 DEF StartTurn
  <2>3. t = <<s, Ensured(s)>> /\ s \notin inFlight
    BY <2>2 DEF BeginTurn
  <2>4. s \in marked' \cup stale'
    BY <2>3
  <2>5. CASE EnsureExisting(s)
    <3>1. s \in marked \cup stale /\ ~Rebuildable(s)
      BY <2>4, <2>5 DEF EnsureExisting
    <3>2. Ensured(s) = gen[s] /\ <<s, gen[s]>> \in workers
      BY <2>3, <2>5, <3>1 DEF EnsureExisting, Ensured, Rebuildable, Deferred
    <3> QED
      BY <2>3, <3>2
  <2>6. CASE EnsureNew(s)
    <3>1. s \notin Live /\ marked' \subseteq marked /\ stale' \subseteq stale
      BY <2>6 DEF EnsureNew
    <3> QED
      BY <1>1, <2>4, <3>1 DEF IInv, TypeOK
  <2> QED
    BY <2>2, <2>5, <2>6 DEF Ensure
<1> QED
  BY <1>1, RegistryInvariant, PTL DEF Spec, FreshAtTurnStart
-----------------------------------------------------------------------------
(* The registry implements GenerationLifecycle.                            *)

(* The phase of a generation in terms of the sets of the registry.         *)
LEMMA PhaseOf ==
  ASSUME TypeOK, NEW x \in Generations
  PROVE  /\ x \in Registered <=> gen[x[1]] = x[2]
         /\ Phase[x] = IF x \in closing THEN IF x \in turns THEN "unwinding" ELSE "closing"
                       ELSE IF x \notin Registered THEN "free"
                       ELSE IF x \in turns \cup workers THEN "busy" ELSE "idle"
         /\ Phase \in [Generations -> Lifecycle!Phases]
<1>1. PICK s \in Sessions, g \in GenIds : x = <<s, g>>
  BY DEF Generations
<1>2. x \in Registered <=> gen[x[1]] = x[2]
  BY <1>1, RegistryAssumption DEF Registered, Live
<1>3. Phase \in [Generations -> Lifecycle!Phases]
  BY DEF Phase, Lifecycle!Phases, Lifecycle!Held
<1> QED
  BY <1>2, <1>3 DEF Phase

(* What a step of the registry may do to one generation.                   *)
Passes(x) ==
  /\ x \in Registered => x \in Registered' \cup closing'
  /\ x \in closing' => x \in closing \cup Registered
  /\ x \in closing \ closing' => x \notin turns /\ x \notin Registered'
  /\ x \in closing \cap turns' => x \in turns
  /\ x \in Registered \cap closing' =>
       /\ x \in turns' => x \in turns
       /\ x \in turns \cup workers => x \in released' \/ down'
  /\ x \in released' \ released => x \in Registered /\ gen'[x[1]] = None

(* Such a step is one of the lifecycle.                                    *)
LEMMA PassesSuffices ==
  ASSUME IInv, IInv', \A x \in Generations : Passes(x),
         down => down' /\ gen' = gen,
         down' /\ ~down => \A s \in Sessions : gen'[s] = None
  PROVE  Lifecycle!Next
<1>1. TypeOK /\ TypeOK' /\ Lifecycle!Generations = Generations
  BY DEF IInv, Generations, Lifecycle!Generations
<1>2. ASSUME NEW x \in Generations
      PROVE  /\ Phase'[x] # Phase[x] => <<Phase[x], Phase'[x]>> \in Lifecycle!Passages
             /\ Phase'[x] \in Lifecycle!Held <=> gen'[x[1]] = x[2]
             /\ Phase[x] \in Lifecycle!Held <=> gen[x[1]] = x[2]
             /\ Phase[x] = "busy" /\ Phase'[x] \notin Lifecycle!Held =>
                  x \in released' \/ down'
             /\ x \in released' \ released =>
                  /\ Phase[x] \in Lifecycle!Held /\ Phase'[x] \notin Lifecycle!Held
                  /\ gen'[x[1]] = None
  <2>1. /\ x \in Registered <=> gen[x[1]] = x[2]
        /\ Phase[x] = IF x \in closing THEN IF x \in turns THEN "unwinding" ELSE "closing"
                      ELSE IF x \notin Registered THEN "free"
                      ELSE IF x \in turns \cup workers THEN "busy" ELSE "idle"
    BY <1>1, PhaseOf
  <2>2. /\ x \in Registered' <=> gen'[x[1]] = x[2]
        /\ Phase'[x] = IF x \in closing' THEN IF x \in turns' THEN "unwinding" ELSE "closing"
                       ELSE IF x \notin Registered' THEN "free"
                       ELSE IF x \in turns' \cup workers' THEN "busy" ELSE "idle"
    BY <1>1, RegistryAssumption DEF Phase, Registered, Live, Generations
  <2>3. /\ x \notin Registered \cap closing /\ x \notin Registered' \cap closing'
        /\ x \in turns => x \in Registered \cup closing
        /\ x \in released' => x \in closing'
    BY DEF IInv, RegisteredIsNotClosing, TypeOK, Generations, SlotsMatchTurns, Registered
  <2>4. Passes(x)
    OBVIOUS
  <2>5. Phase'[x] # Phase[x] => <<Phase[x], Phase'[x]>> \in Lifecycle!Passages
    BY <2>1, <2>2, <2>3, <2>4 DEF Passes, Lifecycle!Passages
  <2>6. Phase'[x] \in Lifecycle!Held <=> x \in Registered'
    BY <2>2, <2>3 DEF Lifecycle!Held
  <2>7. Phase[x] \in Lifecycle!Held <=> x \in Registered
    BY <2>1, <2>3 DEF Lifecycle!Held
  <2>8. Phase[x] = "busy" => x \in Registered /\ x \in turns \cup workers
    BY <2>1
  <2>9. x \in Registered /\ x \notin Registered' => x \in closing'
    BY <2>4 DEF Passes
  <2>10. Phase[x] = "busy" /\ Phase'[x] \notin Lifecycle!Held => x \in released' \/ down'
    BY <2>4, <2>6, <2>8, <2>9 DEF Passes
  <2>11. x \in released' \ released =>
           /\ x \in Registered /\ x \notin Registered'
           /\ gen'[x[1]] = None
    BY <2>3, <2>4 DEF Passes
  <2> QED
    BY <2>1, <2>2, <2>5, <2>6, <2>7, <2>10, <2>11
<1>3. Lifecycle!Moves
  <2>1. gen' \in [Sessions -> GenIds \cup {None}]
    BY <1>1 DEF TypeOK
  <2>2. Phase' \in [Generations -> Lifecycle!Phases]
    BY DEF Phase, Lifecycle!Phases, Lifecycle!Held
  <2> QED
    BY <1>1, <1>2, <2>1, <2>2 DEF Lifecycle!Moves, Lifecycle!HandsOut
<1>4. Lifecycle!KeepsWork
  BY <1>1, <1>2 DEF Lifecycle!KeepsWork, Lifecycle!Leaves
<1>5. Lifecycle!Deletes
  <2>1. released' \subseteq Generations
    BY <1>1 DEF TypeOK
  <2> QED
    BY <1>1, <1>2, <2>1 DEF Lifecycle!Deletes, Lifecycle!Leaves
<1>6. Lifecycle!Ends
  BY DEF Lifecycle!Ends
<1> QED
  BY <1>3, <1>4, <1>5, <1>6 DEF Lifecycle!Next

(* A swap, with or without a turn that begins on its result: a generation  *)
(* that is closed had neither a turn nor live work, as the invariant says  *)
(* of the next state.                                                      *)
LEMMA SwapPasses ==
  ASSUME IInv, IInv', SwapStep, ~down, turns \subseteq turns',
         turns' \subseteq turns \cup Registered',
         UNCHANGED <<workers, released, down>>
  PROVE  Lifecycle!Next
<1>1. ASSUME NEW x \in Generations PROVE Passes(x)
  <2>1. x \notin Registered' \cap closing'
    BY DEF IInv, RegisteredIsNotClosing
  <2>2. x \in closing' /\ x \in turns \cup workers => x \in released'
    BY DEF IInv, RunningTurnKeepsItsGeneration, LiveWorkersKeepTheirGeneration
  <2>3. /\ closing \subseteq closing' /\ closing' \subseteq closing \cup Registered
        /\ Registered \subseteq Registered' \cup closing'
    BY DEF SwapStep
  <2>4. x \in closing' /\ x \in turns' => x \in turns
    BY <2>1
  <2> QED
    BY <2>2, <2>3, <2>4 DEF Passes
<1> QED
  BY <1>1, PassesSuffices

(* A delete, or the end of the process.                                    *)
LEMMA ForcedDropPasses ==
  ASSUME IInv, IInv', NEW gone \in SUBSET Live, Drop(gone), ~down,
         UNCHANGED <<turns, workers>>,
         released' \subseteq released \cup {<<s, gen[s]>> : s \in gone},
         ~down' => \A s \in gone : <<s, gen[s]>> \in released',
         down' => gone = Live
  PROVE  Lifecycle!Next
<1>1. /\ \A s \in Sessions : gen'[s] = IF s \in gone THEN None ELSE gen[s]
      /\ closing' = closing \cup {<<s, gen[s]>> : s \in gone}
  BY DEF Drop
<1>2. ASSUME NEW x \in Generations PROVE Passes(x)
  <2>1. PICK s \in Sessions, g \in GenIds : x = <<s, g>>
    BY DEF Generations
  <2>2. /\ x \in Registered <=> gen[s] = g
        /\ x \in Registered' <=> gen'[s] = g
    BY <2>1, RegistryAssumption DEF Registered, Live
  <2>3. x \in Registered /\ s \in gone => x \in closing'
    BY <1>1, <2>1, <2>2
  <2>4. x \in closing' \ closing => x \in Registered /\ s \in gone
    BY <1>1, <2>1, <2>2
  <2>5. x \notin Registered \cap closing
    BY DEF IInv, RegisteredIsNotClosing
  <2>6. x \in released' \ released => x \in Registered /\ gen'[x[1]] = None
    BY <1>1, <2>1, <2>2
  <2>7. x \in Registered \cap closing' => x \in released' \/ down'
    BY <2>1, <2>2, <2>4, <2>5
  <2> QED
    BY <1>1, <2>1, <2>2, <2>3, <2>4, <2>5, <2>6, <2>7 DEF Passes
<1>3. down' => \A s \in Sessions : gen'[s] = None
  BY <1>1 DEF Live
<1> QED
  BY <1>2, <1>3, PassesSuffices

(* The end of a turn, of live work or of a teardown, and live work that    *)
(* begins: the map stays.                                                  *)
LEMMA UseSteps ==
  ASSUME IInv, IInv', UNCHANGED <<gen, down>>,
         closing' \subseteq closing, closing \cap turns \subseteq closing',
         turns' \subseteq turns, released' \subseteq released
  PROVE  Lifecycle!Next
<1>1. Registered' = Registered /\ Registered \cap closing = {}
  BY DEF Registered, Live, IInv, RegisteredIsNotClosing
<1>2. ASSUME NEW x \in Generations PROVE Passes(x)
  BY <1>1 DEF Passes
<1> QED
  BY <1>2, PassesSuffices

(* Every step of the registry is a step of the lifecycle or none.          *)
LEMMA NextLifecycle ==
  ASSUME IInv, IInv', [Next]_vars
  PROVE  [Lifecycle!Next]_<<gen, Phase, released, down>>
<1>1. CASE MovesGenerations
  <2>1. GenStep /\ ~down /\ UNCHANGED <<turns, workers, released, down>>
    BY <1>1, MovesAreGenSteps, MovesLeaveWorkAlone DEF IInv
  <2> QED
    BY <2>1, SwapPasses DEF GenStep
<1>2. ASSUME NEW s \in Sessions, StartTurn(s) \/ StartAutowakeTurn(s) PROVE Lifecycle!Next
  <2>1. GenStep /\ BeginTurn(s, gen'[s]) /\ s \in Live'
    <3>1. CASE StartTurn(s)
      BY <3>1, EnsureKeeps DEF StartTurn
    <3>2. CASE StartAutowakeTurn(s)
      BY <3>2, TouchKeeps DEF StartAutowakeTurn, Live
    <3> QED
      BY <1>2, <3>1, <3>2
  <2>2. turns \subseteq turns' /\ turns' \subseteq turns \cup Registered'
    BY <2>1 DEF BeginTurn, Registered
  <2>3. ~down /\ UNCHANGED <<workers, released, down>>
    BY <1>2 DEF StartTurn, StartAutowakeTurn
  <2> QED
    BY <2>1, <2>2, <2>3, SwapPasses DEF GenStep
<1>3. ASSUME NEW s \in Sessions, Release(s) PROVE Lifecycle!Next
  <2>1. {s} \in SUBSET Live /\ Drop({s}) /\ ~down /\ ~down'
    BY <1>3 DEF Release
  <2>2. released' = released \cup {<<t, gen[t]>> : t \in {s}} /\ UNCHANGED <<turns, workers>>
    BY <1>3 DEF Release
  <2> QED
    BY <2>1, <2>2, ForcedDropPasses
<1>4. ASSUME Shutdown PROVE Lifecycle!Next
  BY <1>4, ForcedDropPasses DEF Shutdown
<1>5. ASSUME NEW s \in Sessions, NEW g \in GenIds,
             EndTurn(s, g) \/ SettleWorkers(s, g) \/ DisposeDone(s, g) \/ SpawnWorker(s)
      PROVE  Lifecycle!Next
  <2>1. /\ UNCHANGED <<gen, down>> /\ closing' \subseteq closing
        /\ closing \cap turns \subseteq closing' /\ turns' \subseteq turns
        /\ released' \subseteq released
    BY <1>5 DEF EndTurn, SettleWorkers, DisposeDone, SpawnWorker
  <2> QED
    BY <2>1, UseSteps
<1>6. CASE UNCHANGED vars
  <2>1. Phase' = Phase
    BY <1>6 DEF vars, Phase, Registered, Live
  <2> QED
    BY <1>6, <2>1 DEF vars
<1>7. GenIds # {}
  BY RegistryAssumption
<1> QED
  BY <1>1, <1>2, <1>3, <1>4, <1>5, <1>6, <1>7 DEF Next, MovesGenerations

(* Each generation lives as GenerationLifecycle says, for any number of    *)
(* sessions and generations: one that is at work is replaced by nobody, a  *)
(* turn unwinds before its teardown ends, an id comes back after that.     *)
THEOREM GenerationsLive == Spec => KeepsLifecycle
<1>1. Init => Lifecycle!Init
  <2> SUFFICES ASSUME Init PROVE Lifecycle!Init
    OBVIOUS
  <2>1. TypeOK
    BY InitInvariant DEF IInv
  <2>2. ASSUME NEW x \in Generations
        PROVE  Phase[x] = IF gen[x[1]] = x[2] THEN "idle" ELSE "free"
    BY <2>1, PhaseOf DEF Init
  <2>3. Phase = [x \in Generations |-> Phase[x]]
    BY DEF Phase
  <2>4. Phase = [x \in Generations |-> IF gen[x[1]] = x[2] THEN "idle" ELSE "free"]
    BY <2>2, <2>3
  <2> QED
    BY <2>1, <2>4 DEF Init, TypeOK, Generations, Lifecycle!Init, Lifecycle!Generations,
       Lifecycle!HandsOut
<1>2. IInv /\ IInv' /\ [Next]_vars => [Lifecycle!Next]_(Lifecycle!lifecycleVars)
  BY NextLifecycle DEF Lifecycle!lifecycleVars
<1> QED
  BY <1>1, <1>2, RegistryInvariant, PTL DEF Spec, KeepsLifecycle, Lifecycle!Spec
=============================================================================
