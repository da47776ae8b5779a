--------------------------- MODULE CheckpointProofs ---------------------------
(***************************************************************************)
(* Theorems about Checkpoint, for every set of generations and messages    *)
(* and any number of turns and crashes.                                    *)
(***************************************************************************)
EXTENDS Checkpoint, TLAPS

(* No rebuild is fused with the start of a turn, and every write of the    *)
(* sidecar succeeds: the conditions under which the sidecar can be relied  *)
(* on.  Without them only LogInv is left, which assumes neither.           *)
Quiet == ConfigDuringTurn = FALSE /\ SidecarFails = FALSE

-----------------------------------------------------------------------------
(* The inductive invariants                                                *)

(* How often the rows of the running turn are in the log, by position.     *)
Phases ==
  /\ pc = "taking" => turn # 0 /\ starts[turn] = 0
  /\ turn # 0 /\ pc \in {"starting", "rest", "stepping"} => starts[turn] = 1 /\ ends[turn] = 0
  /\ pc \in {"starting", "stepping", "ending"} => turn # 0
  /\ pc \in {"down", "boot", "repair"} => turn = 0
  /\ pc = "repair" => Usable(file)

(* A running turn belongs to the registered generation or to one that is   *)
(* being torn down, and a process that stops registers no other.           *)
Owners ==
  /\ turn # 0 => runner \in Gens /\ (runner = gen \/ runner \in closing)
  /\ stopping => gen = None

LogInv == TypeOK /\ LogWellFormed /\ Phases /\ Owners

(* During a turn its generation is the only one that writes the sidecar,   *)
(* and the file is what that generation has cached.                        *)
RunnerWrites ==
  /\ marked = FALSE
  /\ turn # 0 /\ gen = None => stopping
  /\ turn # 0 => closing \cup ({gen} \ {None}) = {runner}
  /\ turn # 0 /\ pc \notin {"taking", "starting"} =>
       /\ file = cache[runner]
       /\ file.clean = FALSE
       /\ pc # "ending" => file.open = turn

(* The turn the process died in is signed in the file until it is closed.  *)
DeathSigned ==
  died # 0 =>
    /\ pc \in {"down", "boot", "repair"} =>
         Usable(file) /\ file.clean = FALSE /\ file.open = died /\ starts[died] = 1
    /\ pc \notin {"down", "boot"} => ends[died] = 1

CrashInv == RunnerWrites /\ DeathSigned

(* Every generation that can still write has the lanes and the accepted    *)
(* ids of the file.                                                        *)
CachesAgree ==
  /\ gen \notin closing
  /\ \A g \in closing \cup ({gen} \ {None}) :
       cache[g].lanes = Loaded(file).lanes /\ cache[g].seen = Loaded(file).seen

(* A message is in one place.                                              *)
OnePlace ==
  /\ Queued \cup hand \cup lost \cup {m \in Msgs : copies[m] > 0} \subseteq Loaded(file).seen
  /\ Loaded(file).lanes["next-turn"] \cap Loaded(file).lanes["next-step"] = {}
  /\ Queued \cap hand = {} /\ Queued \cap lost = {} /\ hand \cap lost = {}
  /\ \A m \in Queued \cup hand \cup lost : copies[m] = 0
  /\ hand # {} => pc \in {"taking", "stepping"}

MsgInv == CachesAgree /\ OnePlace

-----------------------------------------------------------------------------
(* Lemmas about the sidecar                                                *)

(* The patches of the store keep a sidecar a sidecar.                      *)
LEMMA OpenType ==
  ASSUME NEW s \in Sidecars, NEW n \in {0} \cup Turns
  PROVE  /\ Open(s, n) \in Sidecars
         /\ Open(s, n).open = n /\ Open(s, n).clean = FALSE
         /\ Open(s, n).lanes = s.lanes /\ Open(s, n).seen = s.seen
  BY DEF Sidecars, Open

LEMMA MarkedType ==
  ASSUME NEW s \in Sidecars
  PROVE  /\ Marked(s) \in Sidecars
         /\ Marked(s).lanes = s.lanes /\ Marked(s).seen = s.seen
  BY DEF Sidecars, Marked

LEMMA LanedType ==
  ASSUME NEW s \in Sidecars, NEW l \in Lanes, NEW M \in SUBSET Msgs
  PROVE  /\ Laned(s, l, M) \in Sidecars
         /\ Laned(s, l, M).open = s.open /\ Laned(s, l, M).clean = FALSE
         /\ Laned(s, l, M).lanes = [s.lanes EXCEPT ![l] = M]
         /\ Laned(s, l, M).seen = s.seen
  BY DEF Sidecars, Laned

LEMMA FreshType == Fresh \in Sidecars
  BY DEF Fresh, Sidecars

LEMMA LoadedType ==
  ASSUME NEW f \in Sidecars \cup {NoSidecar}
  PROVE  Loaded(f) \in Sidecars
  BY FreshType DEF Loaded, Usable

(* Whatever is saved, file and cache keep their types.                     *)
LEMMA PersistType ==
  ASSUME TypeOK, NEW g \in Gens, NEW s \in Sidecars, Persist(g, s)
  PROVE  file' \in Sidecars \cup {NoSidecar} /\ cache' \in [Gens -> Sidecars]
  BY DEF TypeOK, Persist, Write

(* So it is when a lane is drained.                                        *)
LEMMA TakeType ==
  ASSUME TypeOK, NEW g \in Gens, NEW s \in Sidecars, NEW l \in Lanes,
         Take(g, s, l, file)
  PROVE  /\ file' \in Sidecars \cup {NoSidecar}
         /\ cache' \in [Gens -> Sidecars]
         /\ hand' \in SUBSET Msgs
<1>1. s.lanes[l] \in SUBSET Msgs
  BY DEF Sidecars
<1>2. Laned(s, l, {}) \in Sidecars
  BY DEF Sidecars, Laned
<1>3. CASE s.lanes[l] = {}
  BY <1>1, <1>3 DEF Take, TypeOK
<1>4. CASE s.lanes[l] # {}
  <2>1. Persist(g, Laned(s, l, {}))
    BY <1>4 DEF Take
  <2> QED  BY <1>1, <1>2, <2>1, PersistType DEF Take
<1> QED  BY <1>3, <1>4

-----------------------------------------------------------------------------
(* The log                                                                 *)

LEMMA InitLogInv == Init => LogInv
<1> SUFFICES ASSUME Init PROVE LogInv
  OBVIOUS
<1>1. TypeOK
  <2>1. starts \in [Turns -> 0..2] /\ ends \in [Turns -> 0..2] /\ copies \in [Msgs -> 0..2]
    BY DEF Init
  <2>2. file \in Sidecars \cup {NoSidecar} /\ cache \in [Gens -> Sidecars]
    BY FreshType DEF Init
  <2>3. crashes \in 0..MaxCrashes
    BY CheckpointAssumption DEF Init
  <2> QED  BY <2>1, <2>2, <2>3 DEF Init, TypeOK
<1>2. LogWellFormed
  BY DEF Init, LogWellFormed
<1>3. Phases /\ Owners
  BY DEF Init, Phases, Owners
<1> QED  BY <1>1, <1>2, <1>3 DEF LogInv

(* Every step but a stutter keeps the log well formed.                     *)
LEMMA NextLogInv == LogInv /\ [Next]_vars => LogInv'
<1> SUFFICES ASSUME LogInv, [Next]_vars PROVE LogInv'
  OBVIOUS
<1> USE CheckpointAssumption
<1> USE DEF LogInv
<1>0. 0 \notin Turns /\ Turns \subseteq Nat
  BY DEF Turns
<1>1. CASE Compose
  <2>1. gen' \in Gens /\ cache' \in [Gens -> Sidecars]
    BY <1>1, LoadedType DEF Compose, FreeGens, TypeOK
  <2> QED  BY <1>1, <2>1 DEF Compose, logVars, msgVars, ghosts, TypeOK, LogWellFormed, Phases, Owners, AtRest
<1>2. CASE Rebuild
  <2>1. PICK g \in Gens : Swap(g) /\ cache' = [cache EXCEPT ![g] = Loaded(file)]
    BY <1>2 DEF Rebuild
  <2>2. gen' \in Gens /\ cache' \in [Gens -> Sidecars] /\ closing' \subseteq Gens /\ stopping' = stopping /\ marked' = FALSE
    BY <1>2, <2>1, LoadedType DEF Rebuild, Swap, FreeGens, TypeOK
  <2>3. ~stopping
    BY <1>2 DEF Rebuild, Owners
  <2> QED  BY <1>2, <2>2, <2>3 DEF Rebuild, logVars, msgVars, ghosts, TypeOK, LogWellFormed, Phases, Owners, AtRest
<1>3. CASE MarkForRebuild
  BY <1>3 DEF MarkForRebuild, logVars, msgVars, ghosts, TypeOK, LogWellFormed, Phases, Owners
<1>4. CASE Evict
  BY <1>4 DEF Evict, logVars, msgVars, ghosts, TypeOK, LogWellFormed, Phases, Owners
<1>5. CASE ClearLog
  <2>1. Open(cache[gen], 0) \in Sidecars \/ gen = None
    BY DEF TypeOK, Open, Sidecars
  <2>2. file' \in Sidecars \cup {NoSidecar} /\ cache' \in [Gens -> Sidecars]
    BY <1>5, <2>1, PersistType DEF ClearLog, TypeOK
  <2> QED  BY <1>5, <2>2, <1>0 DEF ClearLog, AtRest, genVars, msgVars, TypeOK, LogWellFormed, Phases, Owners
<1>6. CASE Shutdown
  BY <1>6 DEF Shutdown, logVars, msgVars, ghosts, TypeOK, LogWellFormed, Phases, Owners
<1>7. CASE Exit
  BY <1>7 DEF Exit, AtRest, logVars, msgVars, TypeOK, LogWellFormed, Phases, Owners
<1>8. CASE StartTurn
  <2>1. turn' \in Turns /\ starts[turn'] = 0 /\ ends[turn'] = 0
    <3>1. PICK n \in Turns : IsNextTurn(n) /\ turn' = n
      BY <1>8 DEF StartTurn
    <3>2. ~(starts[n] > 0)
      BY <3>1, <1>0 DEF IsNextTurn
    <3> QED  BY <3>1, <3>2, <1>0 DEF TypeOK, LogWellFormed
  <2>2. CASE marked
    <3>1. PICK g \in Gens : Swap(g) /\ runner' = g /\ Take(g, Loaded(file), "next-turn", file)
      BY <1>8, <2>2 DEF StartTurn
    <3>2. gen' = g /\ closing' \subseteq Gens /\ marked' = FALSE /\ stopping' = stopping
      BY <3>1, <1>8 DEF Swap, StartTurn, TypeOK
    <3>3. file' \in Sidecars \cup {NoSidecar} /\ cache' \in [Gens -> Sidecars] /\ hand' \in SUBSET Msgs
      BY <3>1, TakeType, LoadedType DEF TypeOK, Lanes
    <3> QED  BY <1>8, <2>1, <3>1, <3>2, <3>3, <1>0
             DEF StartTurn, logVars, ghosts, TypeOK, LogWellFormed, Phases, Owners
  <2>3. CASE ~marked
    <3>1. runner' = gen /\ Take(gen, cache[gen], "next-turn", file) /\ UNCHANGED genVars
      BY <1>8, <2>3 DEF StartTurn
    <3>2. gen \in Gens /\ cache[gen] \in Sidecars
      BY <1>8 DEF StartTurn, TypeOK
    <3>3. file' \in Sidecars \cup {NoSidecar} /\ cache' \in [Gens -> Sidecars] /\ hand' \in SUBSET Msgs
      BY <3>1, <3>2, TakeType DEF Lanes
    <3> QED  BY <1>8, <2>1, <3>1, <3>2, <3>3, <1>0
             DEF StartTurn, logVars, genVars, ghosts, TypeOK, LogWellFormed, Phases, Owners
  <2> QED  BY <2>2, <2>3
<1>9. CASE AppendTurnStart
  BY <1>9, <1>0 DEF AppendTurnStart, msgVars, genVars, ghosts, TypeOK, LogWellFormed, Phases, Owners
<1>10. CASE RecordTurnStart
  <2>1. runner \in Gens /\ Open(cache[runner], turn) \in Sidecars
    BY <1>10, OpenType DEF RecordTurnStart, TypeOK, Phases, Owners
  <2>2. file' \in Sidecars \cup {NoSidecar} /\ cache' \in [Gens -> Sidecars]
    BY <1>10, <2>1, PersistType DEF RecordTurnStart
  <2> QED  BY <1>10, <2>2 DEF RecordTurnStart, logVars, msgVars, genVars, ghosts, TypeOK, LogWellFormed, Phases, Owners
<1>11. CASE StepBoundary
  <2>1. runner \in Gens /\ cache[runner] \in Sidecars
    BY <1>11 DEF StepBoundary, TypeOK, Owners
  <2>2. file' \in Sidecars \cup {NoSidecar} /\ cache' \in [Gens -> Sidecars] /\ hand' \in SUBSET Msgs
    BY <1>11, <2>1, TakeType DEF StepBoundary, Lanes
  <2> QED  BY <1>11, <2>2 DEF StepBoundary, logVars, genVars, ghosts, TypeOK, LogWellFormed, Phases, Owners
<1>12. CASE StepResumes
  BY <1>12 DEF StepResumes, logVars, msgVars, genVars, ghosts, TypeOK, LogWellFormed, Phases, Owners
<1>13. CASE AppendTurnEnd
  BY <1>13, <1>0 DEF AppendTurnEnd, msgVars, genVars, ghosts, TypeOK, LogWellFormed, Phases, Owners
<1>14. CASE RecordTurnEnd
  <2>1. runner \in Gens /\ Open(cache[runner], 0) \in Sidecars
    BY <1>14, OpenType DEF RecordTurnEnd, TypeOK, Phases, Owners
  <2>2. file' \in Sidecars \cup {NoSidecar} /\ cache' \in [Gens -> Sidecars]
    BY <1>14, <2>1, PersistType DEF RecordTurnEnd
  <2> QED  BY <1>14, <2>2, <1>0 DEF RecordTurnEnd, logVars, msgVars, genVars, ghosts, TypeOK, LogWellFormed, Phases, Owners
<1>15. ASSUME NEW m \in Msgs, AppendMessage(m) PROVE LogInv'
  BY <1>15 DEF AppendMessage, logVars, genVars, ghosts, TypeOK, LogWellFormed, Phases, Owners
<1>16. ASSUME NEW m \in Msgs, NEW l \in Lanes, Push(m, l) PROVE LogInv'
  <2> DEFINE s == cache[gen]
             t == [Laned(s, l, s.lanes[l] \cup {m}) EXCEPT !.seen = @ \cup {m}]
  <2>1. gen \in Gens /\ s \in Sidecars
    BY <1>16 DEF Push, TypeOK
  <2>2. t \in Sidecars
    BY <2>1 DEF Sidecars, Laned
  <2>3. Persist(gen, t)
    BY <1>16 DEF Push
  <2>4. file' \in Sidecars \cup {NoSidecar} /\ cache' \in [Gens -> Sidecars]
    BY <2>1, <2>2, <2>3, PersistType
  <2> QED  BY <1>16, <2>4 DEF Push, AtRest, logVars, msgVars, genVars, ghosts, TypeOK, LogWellFormed, Phases, Owners
<1>17. ASSUME NEW g \in Gens, MarkCleanShutdown(g) PROVE LogInv'
  <2>1. Marked(cache[g]) \in Sidecars
    BY DEF TypeOK, Marked, Sidecars
  <2>2. file' \in Sidecars \cup {NoSidecar} /\ cache' \in [Gens -> Sidecars]
    BY <1>17, <2>1, FreshType DEF MarkCleanShutdown, Write, TypeOK
  <2> QED  BY <1>17, <2>2 DEF MarkCleanShutdown, Ready, logVars, msgVars, ghosts, TypeOK, LogWellFormed, Phases, Owners
<1>18. CASE Crash
  <2>1. cache' \in [Gens -> Sidecars]
    BY <1>18, FreshType DEF Crash
  <2>2. died' \in {0} \cup Turns /\ crashes' \in 0..MaxCrashes
    BY <1>18 DEF Crash, TypeOK
  <2>3. lost' \subseteq Msgs
    BY <1>18 DEF Crash, TypeOK
  <2> QED  BY <1>18, <2>1, <2>2, <2>3 DEF Crash, logVars, TypeOK, LogWellFormed, Phases, Owners
<1>19. CASE Boot
  BY <1>19 DEF Boot, logVars, msgVars, genVars, TypeOK, LogWellFormed, Phases, Owners
<1>20. CASE Recover
  <2> DEFINE open == Loaded(file).open
             signed == Usable(file) /\ ~Loaded(file).clean /\ open # 0 /\ starts[open] > 0
  <2>1. open \in {0} \cup Turns
    BY LoadedType DEF TypeOK, Sidecars
  <2>2. file' \in Sidecars \cup {NoSidecar}
    <3>1. Usable(file) => Open(file, 0) \in Sidecars
      BY DEF Usable, TypeOK, Open, Sidecars
    <3> QED  BY <1>20, <3>1 DEF Recover, Write, TypeOK
  <2>3. ends' = ends \/ (open \in Turns /\ starts[open] > 0 /\ ends[open] = 0 /\ ends' = [ends EXCEPT ![open] = @ + 1])
    BY <1>20, <2>1 DEF Recover
  <2>4. ends' \in [Turns -> 0..2] /\ \A t \in Turns : ends'[t] <= starts[t]
    BY <2>3, <1>0 DEF TypeOK, LogWellFormed
  <2>5. pc' = "repair" => Usable(file)'
    BY <1>20 DEF Recover, Usable
  <2> QED  BY <1>20, <2>2, <2>4, <2>5 DEF Recover, msgVars, genVars, ghosts, TypeOK, LogWellFormed, Phases, Owners
<1>21. CASE RecordRepair
  <2>1. file' \in Sidecars \cup {NoSidecar}
    <3>1. file \in Sidecars
      BY <1>21 DEF RecordRepair, TypeOK, Phases, Usable
    <3>2. Open(file, 0) \in Sidecars
      BY <3>1, OpenType
    <3> QED  BY <1>21, <3>1, <3>2 DEF RecordRepair, Write
  <2> QED  BY <1>21, <2>1 DEF RecordRepair, logVars, msgVars, genVars, ghosts, TypeOK, LogWellFormed, Phases, Owners
<1>22. CASE UNCHANGED vars
  BY <1>22 DEF vars, TypeOK, LogWellFormed, Phases, Owners
<1> QED
  BY <1>1, <1>2, <1>3, <1>4, <1>5, <1>6, <1>7, <1>8, <1>9, <1>10, <1>11, <1>12, <1>13, <1>14,
     <1>15, <1>16, <1>17, <1>18, <1>19, <1>20, <1>21, <1>22 DEF Next

-----------------------------------------------------------------------------
(* The crash                                                               *)

LEMMA InitCrashInv == Init => CrashInv
  BY DEF Init, CrashInv, RunnerWrites, DeathSigned

(* When a turn starts no teardown is left unfinished.                      *)
LEMMA RestIsSettled ==
  ASSUME AtRest, turn = 0
  PROVE  closing = {}
  BY DEF AtRest, Ready

(* Without failing writes the file becomes what was saved.                 *)
LEMMA QuietPersist ==
  ASSUME Quiet, TypeOK, NEW g \in Gens, NEW s, Persist(g, s)
  PROVE  file' = s /\ cache'[g] = s /\ \A h \in Gens \ {g} : cache'[h] = cache[h]
  BY DEF Quiet, TypeOK, Persist, Write

LEMMA NextCrashInv ==
  ASSUME Quiet, LogInv, LogInv', CrashInv, [Next]_vars
  PROVE  CrashInv'
<1> USE CheckpointAssumption DEF Quiet, LogInv, CrashInv
<1>0. 0 \notin Turns
  BY DEF Turns
<1>1. CASE Compose
  BY <1>1, RestIsSettled DEF Compose, logVars, msgVars, ghosts, RunnerWrites, DeathSigned, AtRest
<1>2. CASE Rebuild
  <2>1. marked' = FALSE
    BY <1>2 DEF Rebuild, Swap
  <2> QED  BY <1>2, <2>1 DEF Rebuild, logVars, msgVars, ghosts, RunnerWrites, DeathSigned, AtRest
<1>3. CASE MarkForRebuild
  BY <1>3 DEF MarkForRebuild
<1>4. CASE Evict
  BY <1>4 DEF Evict, logVars, msgVars, ghosts, RunnerWrites, DeathSigned, AtRest
<1>5. CASE ClearLog
  BY <1>5 DEF ClearLog, genVars, msgVars, RunnerWrites, DeathSigned
<1>6. CASE Shutdown
  BY <1>6 DEF Shutdown, logVars, msgVars, ghosts, RunnerWrites, DeathSigned, AtRest
<1>7. CASE Exit
  BY <1>7 DEF Exit, logVars, msgVars, RunnerWrites, DeathSigned, AtRest, Owners
<1>8. CASE StartTurn
  <2>1. closing = {} /\ gen \in Gens
    BY <1>8, RestIsSettled DEF StartTurn, TypeOK
  <2>2. runner' = gen /\ UNCHANGED genVars
    BY <1>8 DEF StartTurn, RunnerWrites
  <2>3. RunnerWrites'
    BY <1>8, <2>1, <2>2 DEF StartTurn, genVars, RunnerWrites
  <2> QED  BY <1>8, <2>3 DEF StartTurn, logVars, ghosts, DeathSigned, AtRest
<1>9. CASE AppendTurnStart
  BY <1>9 DEF AppendTurnStart, msgVars, genVars, ghosts, RunnerWrites, DeathSigned
<1>10. CASE RecordTurnStart
  <2>1. runner \in Gens /\ cache[runner] \in Sidecars
    BY <1>10 DEF RecordTurnStart, TypeOK, Phases, Owners
  <2>2. file' = Open(cache[runner], turn) /\ cache'[runner] = file'
    BY <1>10, <2>1, QuietPersist DEF RecordTurnStart
  <2>3. file'.open = turn /\ file'.clean = FALSE
    <3>1. turn \in {0} \cup Turns
      BY DEF TypeOK
    <3>2. Open(cache[runner], turn).open = turn /\ Open(cache[runner], turn).clean = FALSE
      BY <2>1, <3>1, OpenType
    <3> QED  BY <2>2, <3>2
  <2> QED  BY <1>10, <2>2, <2>3 DEF RecordTurnStart, logVars, msgVars, genVars, ghosts, RunnerWrites, DeathSigned
<1>11. CASE StepBoundary
  <2> DEFINE s == cache[runner]
  <2>1. runner \in Gens /\ s \in Sidecars
    BY <1>11 DEF StepBoundary, TypeOK, Owners
  <2>2. Persist(runner, Laned(s, "next-step", {}))
    BY <1>11 DEF StepBoundary, Take
  <2>3. file' = Laned(s, "next-step", {}) /\ cache'[runner] = file'
    BY <2>1, <2>2, QuietPersist
  <2>4. file'.open = turn /\ file'.clean = FALSE
    <3>1. Laned(s, "next-step", {}).open = s.open /\ Laned(s, "next-step", {}).clean = FALSE
      BY <2>1 DEF Laned, Sidecars
    <3> QED  BY <1>11, <2>3, <3>1 DEF StepBoundary, RunnerWrites
  <2> QED  BY <1>11, <2>3, <2>4 DEF StepBoundary, logVars, genVars, ghosts, RunnerWrites, DeathSigned
<1>12. CASE StepResumes
  BY <1>12 DEF StepResumes, logVars, msgVars, genVars, ghosts, RunnerWrites, DeathSigned
<1>13. CASE AppendTurnEnd
  <2>1. died # 0 => ends[died] = 1 /\ died # turn
    BY <1>13 DEF AppendTurnEnd, DeathSigned, Phases
  <2>2. died # 0 => ends'[died] = 1
    BY <1>13, <2>1 DEF AppendTurnEnd, TypeOK
  <2> QED  BY <1>13, <2>2 DEF AppendTurnEnd, msgVars, genVars, ghosts, RunnerWrites, DeathSigned
<1>14. CASE RecordTurnEnd
  BY <1>14 DEF RecordTurnEnd, logVars, msgVars, genVars, ghosts, RunnerWrites, DeathSigned
<1>15. ASSUME NEW m \in Msgs, AppendMessage(m) PROVE CrashInv'
  BY <1>15 DEF AppendMessage, logVars, genVars, ghosts, RunnerWrites, DeathSigned
<1>16. ASSUME NEW m \in Msgs, NEW l \in Lanes, Push(m, l) PROVE CrashInv'
  <2> DEFINE s == cache[gen]
             t == [Laned(s, l, s.lanes[l] \cup {m}) EXCEPT !.seen = @ \cup {m}]
  <2>1. gen \in Gens /\ s \in Sidecars
    BY <1>16 DEF Push, TypeOK
  <2>2. Persist(gen, t)
    BY <1>16 DEF Push
  <2>3. file' = t /\ cache'[gen] = t
    <3> HIDE DEF t
    <3> QED  BY <2>1, <2>2, QuietPersist
  <2>4. t.open = s.open /\ t.clean = FALSE
    BY <2>1 DEF Sidecars, Laned
  <2>5. turn # 0 => runner = gen
    BY <2>1 DEF RunnerWrites
  <2> HIDE DEF t
  <2> QED  BY <1>16, <2>1, <2>3, <2>4, <2>5 DEF Push, AtRest, logVars, msgVars, genVars, ghosts, RunnerWrites, DeathSigned
<1>17. ASSUME NEW g \in Gens, MarkCleanShutdown(g) PROVE CrashInv'
  <2>1. turn = 0
    BY <1>17 DEF MarkCleanShutdown, Ready, RunnerWrites
  <2> QED  BY <1>17, <2>1 DEF MarkCleanShutdown, logVars, msgVars, ghosts, RunnerWrites, DeathSigned
<1>18. CASE Crash
  <2>1. RunnerWrites'
    BY <1>18 DEF Crash, RunnerWrites
  <2>2. CASE pc \in {"boot", "repair"}
    BY <1>18, <2>1, <2>2 DEF Crash, logVars, DeathSigned, Usable
  <2>3. CASE turn # 0 /\ pc \in {"rest", "stepping"}
    <3>1. cache[runner] \in Sidecars
      BY <2>3 DEF Owners, TypeOK
    <3>2. Usable(file) /\ file.clean = FALSE /\ file.open = turn /\ starts[turn] = 1
      BY <2>3, <3>1 DEF RunnerWrites, Phases, Usable
    <3> QED  BY <1>18, <2>1, <2>3, <3>2 DEF Crash, logVars, DeathSigned, Usable
  <2> QED  BY <1>18, <2>1, <2>2, <2>3 DEF Crash, DeathSigned
<1>19. CASE Boot
  BY <1>19 DEF Boot, logVars, msgVars, genVars, RunnerWrites, DeathSigned, Usable
<1>20. CASE Recover
  <2>1. turn = 0 /\ RunnerWrites'
    BY <1>20 DEF Recover, msgVars, genVars, ghosts, RunnerWrites, Phases
  <2>2. CASE died = 0
    BY <1>20, <2>1, <2>2 DEF Recover, ghosts, DeathSigned
  <2>3. CASE died # 0
    <3>1. Usable(file) /\ Loaded(file) = file /\ file.clean = FALSE /\ file.open = died /\ starts[died] = 1
      BY <1>20, <2>3 DEF Recover, DeathSigned, Loaded
    <3>2. died \in Turns /\ ends[died] \in {0, 1}
      BY <2>3, <3>1 DEF TypeOK, LogWellFormed
    <3>3. ends'[died] = 1 /\ pc' \in {"rest", "repair"} /\ (pc' = "repair" => file' = file)
      BY <1>20, <2>3, <3>1, <3>2 DEF Recover, TypeOK
    <3> QED  BY <1>20, <2>1, <2>3, <3>1, <3>3 DEF Recover, ghosts, DeathSigned, Usable
  <2> QED  BY <2>2, <2>3
<1>21. CASE RecordRepair
  BY <1>21 DEF RecordRepair, logVars, msgVars, genVars, ghosts, RunnerWrites, DeathSigned, Phases
<1>22. CASE UNCHANGED vars
  BY <1>22 DEF vars, RunnerWrites, DeathSigned, Usable
<1> QED
  BY <1>1, <1>2, <1>3, <1>4, <1>5, <1>6, <1>7, <1>8, <1>9, <1>10, <1>11, <1>12, <1>13, <1>14,
     <1>15, <1>16, <1>17, <1>18, <1>19, <1>20, <1>21, <1>22 DEF Next

-----------------------------------------------------------------------------
(* The messages                                                            *)

LEMMA InitMsgInv == Init => MsgInv /\ Lifecycle!Init
<1> SUFFICES ASSUME Init PROVE MsgInv /\ Lifecycle!Init
  OBVIOUS
<1>1. Loaded(file) = Fresh
  BY DEF Init, Loaded, Usable
<1>2. Queued = {} /\ Fresh.seen = {} /\ \A l \in Lanes : Fresh.lanes[l] = {}
  BY <1>1 DEF Queued, Fresh, Lanes
<1>3. MsgInv
  BY <1>1, <1>2, CheckpointAssumption DEF Init, MsgInv, CachesAgree, OnePlace, Lanes
<1>4. Lifecycle!Init
  BY <1>2 DEF Init, Lifecycle!Init, Stage
<1> QED  BY <1>3, <1>4

(* A write that keeps lanes and accepted ids moves no message.             *)
LEMMA NothingMoves ==
  ASSUME OnePlace, UNCHANGED <<hand, lost, copies>>,
         Loaded(file').lanes = Loaded(file).lanes,
         Loaded(file').seen = Loaded(file).seen,
         hand # {} => pc' \in {"taking", "stepping"}
  PROVE  OnePlace' /\ Stage' = Stage
<1>1. Queued' = Queued
  BY DEF Queued
<1>2. OnePlace'
  BY <1>1 DEF OnePlace
<1>3. Stage' = Stage
  BY <1>1 DEF Stage
<1> QED  BY <1>2, <1>3

(* Messages that go through one passage together are one step of the       *)
(* abstract specification.                                                 *)
LEMMA Passing ==
  ASSUME NEW S \in SUBSET Msgs, NEW p \in Lifecycle!Passages,
         \A m \in S : Stage[m] = p[1] /\ Stage'[m] = p[2],
         \A m \in Msgs \ S : Stage'[m] = Stage[m]
  PROVE  Lifecycle!Next
<1>1. Stage' = [m \in Msgs |-> IF m \in S THEN p[2] ELSE Stage[m]]
  BY DEF Stage
<1>2. Lifecycle!Move(S, p)
  BY <1>1 DEF Lifecycle!Move
<1> QED  BY <1>2 DEF Lifecycle!Next

LEMMA PassingAlone ==
  ASSUME NEW m \in Msgs, NEW p \in Lifecycle!Passages,
         Stage[m] = p[1], Stage'[m] = p[2],
         \A n \in Msgs \ {m} : Stage'[n] = Stage[n]
  PROVE  Lifecycle!Next
<1>1. {m} \in SUBSET Msgs /\ \A n \in {m} : Stage[n] = p[1] /\ Stage'[n] = p[2]
  OBVIOUS
<1> QED  BY <1>1, Passing

(* A drained lane passes into the hands of the process.                    *)
LEMMA TakePasses ==
  ASSUME Quiet, TypeOK, OnePlace, NEW g \in Gens, NEW l \in Lanes,
         hand = {}, Take(g, cache[g], l, file),
         cache[g].lanes = Loaded(file).lanes, cache[g].seen = Loaded(file).seen,
         UNCHANGED <<copies, lost>>, pc' \in {"taking", "stepping"}
  PROVE  /\ OnePlace'
         /\ cache'[g].lanes = Loaded(file').lanes /\ cache'[g].seen = Loaded(file').seen
         /\ Lifecycle!Next \/ Stage' = Stage
<1> DEFINE s == cache[g]
           t == Laned(s, l, {})
<1>1. s \in Sidecars /\ hand' = s.lanes[l] /\ s.lanes[l] \in SUBSET Msgs
  BY DEF TypeOK, Take, Sidecars
<1>2. CASE s.lanes[l] = {}
  <2>1. UNCHANGED <<hand, file>> /\ cache'[g] = s
    BY <1>1, <1>2 DEF Take, TypeOK
  <2> QED  BY <2>1, NothingMoves
<1>3. CASE s.lanes[l] # {}
  <2>1. t \in Sidecars /\ t.seen = s.seen /\ t.lanes = [s.lanes EXCEPT ![l] = {}]
    BY <1>1 DEF Sidecars, Laned
  <2>2. file' = t /\ cache'[g] = t
    <3> HIDE DEF t
    <3>1. Persist(g, t)
      BY <1>3 DEF Take, t
    <3> QED  BY <3>1, QuietPersist
  <2>3. Loaded(file') = t
    BY <2>1, <2>2, CheckpointAssumption DEF Loaded, Usable
  <2> DEFINE M == s.lanes[l]
  <2>4. Queued' = Queued \ M /\ M \subseteq Queued
    <3>1. s.lanes["next-turn"] \cap s.lanes["next-step"] = {}
      BY DEF OnePlace
    <3>2. t.lanes["next-turn"] = IF l = "next-turn" THEN {} ELSE s.lanes["next-turn"]
      BY <1>1, <2>1 DEF Sidecars, Lanes
    <3>3. t.lanes["next-step"] = IF l = "next-step" THEN {} ELSE s.lanes["next-step"]
      BY <1>1, <2>1 DEF Sidecars, Lanes
    <3>4. Queued = s.lanes["next-turn"] \cup s.lanes["next-step"]
      BY DEF Queued
    <3>5. Queued' = t.lanes["next-turn"] \cup t.lanes["next-step"]
      BY <2>3 DEF Queued
    <3> HIDE DEF t, s
    <3> QED  BY <3>1, <3>2, <3>3, <3>4, <3>5 DEF Lanes
  <2>5. t.lanes["next-turn"] \cap t.lanes["next-step"] = {}
    BY <1>1, <2>1 DEF Sidecars, Lanes, OnePlace
  <2>6. OnePlace'
    <3> HIDE DEF t
    <3> QED  BY <1>1, <2>1, <2>2, <2>3, <2>4, <2>5 DEF OnePlace
  <2>7. Lifecycle!Next
    <3>1. <<"queued", "taken">> \in Lifecycle!Passages
      BY DEF Lifecycle!Passages
    <3>2. \A m \in M : Stage[m] = "queued" /\ Stage'[m] = "taken"
      BY <1>1, <2>4 DEF Stage
    <3>3. \A m \in Msgs \ M : Stage'[m] = Stage[m]
      BY <1>1, <2>4 DEF Stage
    <3> QED  BY <1>1, <3>1, <3>2, <3>3, Passing
  <2> HIDE DEF t
  <2> QED  BY <2>2, <2>3, <2>6, <2>7
<1> QED  BY <1>2, <1>3

(* Every step keeps the messages in order, and is one of the abstract      *)
(* specification or none.                                                  *)
LEMMA NextMsgInv ==
  ASSUME Quiet, LogInv, LogInv', CrashInv, MsgInv, [Next]_vars
  PROVE  MsgInv' /\ (Lifecycle!Next \/ Stage' = Stage)
<1> USE CheckpointAssumption DEF LogInv, CrashInv, MsgInv
<1>0. TypeOK /\ TypeOK' /\ (pc = "rest" => hand = {})
  BY DEF OnePlace
<1>a. ASSUME UNCHANGED <<file, hand, lost, copies>>, hand # {} => pc' \in {"taking", "stepping"}
      PROVE  OnePlace' /\ Stage' = Stage
  BY <1>a, NothingMoves
<1>b. ASSUME NEW g \in Gens, g \in closing \cup ({gen} \ {None})
      PROVE  cache[g] \in Sidecars /\ cache[g].lanes = Loaded(file).lanes /\ cache[g].seen = Loaded(file).seen
  BY <1>b DEF TypeOK, CachesAgree
<1>c. turn # 0 => runner \in Gens /\ runner \in closing \cup ({gen} \ {None})
  BY DEF Owners, RunnerWrites
<1>d. ASSUME NEW f \in Sidecars PROVE Loaded(f) = f
  BY <1>d DEF Loaded, Usable
<1>e. AtRest /\ gen # None => gen \in Gens /\ closing \cup ({gen} \ {None}) = {gen}
  BY RestIsSettled DEF TypeOK, RunnerWrites
<1>1. CASE Compose
  <2>1. OnePlace' /\ Stage' = Stage
    BY <1>1, <1>0, <1>a DEF Compose, AtRest, msgVars
  <2>2. PICK g \in FreeGens : gen' = g /\ cache' = [cache EXCEPT ![g] = Loaded(file)]
    BY <1>1 DEF Compose
  <2>3. CachesAgree'
    BY <1>1, <2>2 DEF Compose, FreeGens, CachesAgree, TypeOK
  <2> QED  BY <2>1, <2>3
<1>2. CASE Rebuild
  <2>1. OnePlace' /\ Stage' = Stage
    BY <1>2, <1>0, <1>a DEF Rebuild, AtRest, msgVars
  <2>2. PICK g \in Gens : Swap(g) /\ cache' = [cache EXCEPT ![g] = Loaded(file)]
    BY <1>2 DEF Rebuild
  <2>3. CachesAgree'
    BY <1>2, <2>2 DEF Rebuild, Swap, FreeGens, CachesAgree, TypeOK
  <2> QED  BY <2>1, <2>3
<1>3. CASE MarkForRebuild
  BY <1>3 DEF MarkForRebuild, Quiet
<1>4. CASE Evict
  <2>1. OnePlace' /\ Stage' = Stage
    BY <1>4, <1>0, <1>a DEF Evict, AtRest, msgVars
  <2>2. CachesAgree'
    BY <1>4 DEF Evict, CachesAgree, TypeOK
  <2> QED  BY <2>1, <2>2
<1>5. CASE ClearLog
  <2>1. CASE gen = None
    <3>1. UNCHANGED <<file, cache, gen, closing>>
      BY <1>5, <2>1 DEF ClearLog, genVars
    <3> QED  BY <1>5, <1>0, <1>a, <3>1 DEF ClearLog, AtRest, msgVars, CachesAgree
  <2>2. CASE gen # None
    <3>1. gen \in Gens /\ closing \cup ({gen} \ {None}) = {gen}
      BY <1>5, <1>e, <2>2 DEF ClearLog
    <3>2. Persist(gen, Open(cache[gen], 0))
      BY <1>5, <2>2 DEF ClearLog
    <3>3. file' = Open(cache[gen], 0) /\ cache'[gen] = file'
      BY <1>0, <3>1, <3>2, QuietPersist
    <3>4. Open(cache[gen], 0) \in Sidecars /\ Open(cache[gen], 0).lanes = Loaded(file).lanes
          /\ Open(cache[gen], 0).seen = Loaded(file).seen
      <4>1. cache[gen] \in Sidecars /\ cache[gen].lanes = Loaded(file).lanes
            /\ cache[gen].seen = Loaded(file).seen
        BY <1>b, <3>1
      <4> QED  BY <4>1, OpenType
    <3>5. Loaded(file') = file'
      BY <1>d, <3>3, <3>4
    <3>6. OnePlace' /\ Stage' = Stage
      BY <1>5, <1>0, <3>3, <3>4, <3>5, NothingMoves DEF ClearLog, AtRest, msgVars
    <3>7. CachesAgree'
      BY <1>5, <3>1, <3>3, <3>5 DEF ClearLog, genVars, CachesAgree
    <3> QED  BY <3>6, <3>7
  <2> QED  BY <2>1, <2>2
<1>6. CASE Shutdown
  <2>1. OnePlace' /\ Stage' = Stage
    BY <1>6, <1>0, <1>a DEF Shutdown, AtRest, msgVars
  <2>2. CachesAgree'
    BY <1>6 DEF Shutdown, CachesAgree, TypeOK
  <2> QED  BY <2>1, <2>2
<1>7. CASE Exit
  <2>1. OnePlace' /\ Stage' = Stage
    BY <1>7, <1>0, <1>a DEF Exit, AtRest, msgVars
  <2> QED  BY <1>7, <2>1 DEF Exit, CachesAgree
<1>8. CASE StartTurn
  <2>1. gen \in Gens /\ closing \cup ({gen} \ {None}) = {gen}
    BY <1>8, <1>e DEF StartTurn
  <2>2. Take(gen, cache[gen], "next-turn", file) /\ UNCHANGED genVars
    BY <1>8 DEF StartTurn, RunnerWrites
  <2>3. /\ OnePlace'
        /\ cache'[gen].lanes = Loaded(file').lanes /\ cache'[gen].seen = Loaded(file').seen
        /\ Lifecycle!Next \/ Stage' = Stage
    <3>1. hand = {} /\ UNCHANGED <<copies, lost>> /\ pc' = "taking" /\ "next-turn" \in Lanes
      BY <1>8, <1>0 DEF StartTurn, AtRest, Lanes
    <3>2. cache[gen].lanes = Loaded(file).lanes /\ cache[gen].seen = Loaded(file).seen
      BY <1>b, <2>1
    <3> QED  BY <1>0, <2>1, <2>2, <3>1, <3>2, TakePasses
  <2>4. CachesAgree'
    BY <2>1, <2>2, <2>3 DEF genVars, CachesAgree
  <2> QED  BY <2>3, <2>4
<1>9. CASE AppendTurnStart
  BY <1>9, <1>a DEF AppendTurnStart, msgVars, genVars, CachesAgree
<1>10. CASE RecordTurnStart
  <2>1. runner \in Gens /\ closing \cup ({gen} \ {None}) = {runner} /\ turn \in {0} \cup Turns
    BY <1>10, <1>c DEF RecordTurnStart, RunnerWrites, Phases, TypeOK
  <2>2. file' = Open(cache[runner], turn) /\ cache'[runner] = file'
    BY <1>10, <1>0, <2>1, QuietPersist DEF RecordTurnStart
  <2>3. Open(cache[runner], turn) \in Sidecars /\ Open(cache[runner], turn).lanes = Loaded(file).lanes
        /\ Open(cache[runner], turn).seen = Loaded(file).seen
    <3>1. cache[runner] \in Sidecars /\ cache[runner].lanes = Loaded(file).lanes
          /\ cache[runner].seen = Loaded(file).seen
      BY <1>b, <2>1
    <3> QED  BY <2>1, <3>1, OpenType
  <2>4. Loaded(file') = file'
    BY <1>d, <2>2, <2>3
  <2>5. OnePlace' /\ Stage' = Stage
    <3>1. hand = {}
      BY <1>10 DEF RecordTurnStart, OnePlace
    <3> QED  BY <1>10, <2>2, <2>3, <2>4, <3>1, NothingMoves DEF RecordTurnStart, msgVars
  <2>6. CachesAgree'
    BY <1>10, <2>1, <2>2, <2>4 DEF RecordTurnStart, genVars, CachesAgree
  <2> QED  BY <2>5, <2>6
<1>11. CASE StepBoundary
  <2>1. runner \in Gens /\ closing \cup ({gen} \ {None}) = {runner}
    BY <1>11, <1>c DEF StepBoundary, RunnerWrites
  <2>2. /\ OnePlace'
        /\ cache'[runner].lanes = Loaded(file').lanes /\ cache'[runner].seen = Loaded(file').seen
        /\ Lifecycle!Next \/ Stage' = Stage
    <3>1. hand = {} /\ UNCHANGED <<copies, lost>> /\ pc' = "stepping" /\ "next-step" \in Lanes
          /\ Take(runner, cache[runner], "next-step", file)
      BY <1>11, <1>0 DEF StepBoundary, Lanes
    <3>2. cache[runner].lanes = Loaded(file).lanes /\ cache[runner].seen = Loaded(file).seen
      BY <1>b, <2>1
    <3> QED  BY <1>0, <2>1, <3>1, <3>2, TakePasses
  <2>3. CachesAgree'
    BY <1>11, <2>1, <2>2 DEF StepBoundary, genVars, CachesAgree
  <2> QED  BY <2>2, <2>3
<1>12. CASE StepResumes
  BY <1>12, <1>a DEF StepResumes, msgVars, genVars, CachesAgree
<1>13. CASE AppendTurnEnd
  BY <1>13, <1>0, <1>a DEF AppendTurnEnd, msgVars, genVars, CachesAgree
<1>14. CASE RecordTurnEnd
  <2>1. runner \in Gens /\ closing \cup ({gen} \ {None}) = {runner}
    BY <1>14, <1>c DEF RecordTurnEnd, RunnerWrites, Phases
  <2>2. file' = Open(cache[runner], 0) /\ cache'[runner] = file'
    BY <1>14, <1>0, <2>1, QuietPersist DEF RecordTurnEnd
  <2>3. Open(cache[runner], 0) \in Sidecars /\ Open(cache[runner], 0).lanes = Loaded(file).lanes
        /\ Open(cache[runner], 0).seen = Loaded(file).seen
    <3>1. cache[runner] \in Sidecars /\ cache[runner].lanes = Loaded(file).lanes
          /\ cache[runner].seen = Loaded(file).seen
      BY <1>b, <2>1
    <3> QED  BY <2>1, <3>1, OpenType
  <2>4. Loaded(file') = file'
    BY <1>d, <2>2, <2>3
  <2>5. OnePlace' /\ Stage' = Stage
    <3>1. hand = {}
      BY <1>14 DEF RecordTurnEnd, OnePlace
    <3> QED  BY <1>14, <2>2, <2>3, <2>4, <3>1, NothingMoves DEF RecordTurnEnd, msgVars
  <2>6. CachesAgree'
    BY <1>14, <2>1, <2>2, <2>4 DEF RecordTurnEnd, genVars, CachesAgree
  <2> QED  BY <2>5, <2>6
<1>15. ASSUME NEW m \in Msgs, AppendMessage(m) PROVE MsgInv' /\ (Lifecycle!Next \/ Stage' = Stage)
  <2>1. m \in hand /\ hand' = hand \ {m} /\ lost' = lost /\ file' = file /\ pc' = pc /\ Queued' = Queued
    BY <1>15 DEF AppendMessage, Queued
  <2>2. copies[m] = 0 /\ copies'[m] = 1 /\ \A n \in Msgs \ {m} : copies'[n] = copies[n]
    BY <1>15, <1>0, <2>1 DEF AppendMessage, OnePlace, TypeOK
  <2>3. OnePlace'
    <3>1. Loaded(file') = Loaded(file) /\ pc \in {"taking", "stepping"} /\ m \in Loaded(file).seen
      BY <1>15, <2>1 DEF AppendMessage, OnePlace
    <3>2. \A n \in Msgs : copies'[n] > 0 => n = m \/ copies[n] > 0
      BY <2>2
    <3>3. \A n \in Queued' \cup hand' \cup lost' : copies'[n] = 0
      <4>1. m \notin Queued /\ m \notin lost
        BY <2>1 DEF OnePlace
      <4>2. Queued \subseteq Msgs /\ hand \subseteq Msgs /\ lost \subseteq Msgs
        <5>1. Loaded(file) \in Sidecars
          BY <1>0, LoadedType DEF TypeOK
        <5> QED  BY <1>0, <5>1 DEF Queued, Sidecars, Lanes, TypeOK
      <4> QED  BY <2>1, <2>2, <4>1, <4>2 DEF OnePlace
    <3> QED  BY <2>1, <3>1, <3>2, <3>3 DEF OnePlace
  <2>4. Lifecycle!Next
    <3>1. <<"taken", "delivered">> \in Lifecycle!Passages
      BY DEF Lifecycle!Passages
    <3>2. m \notin Queued /\ m \notin lost
      BY <2>1 DEF OnePlace
    <3>3. Stage[m] = "taken" /\ Stage'[m] = "delivered"
      BY <2>1, <2>2, <3>2 DEF Stage
    <3>4. \A n \in Msgs \ {m} : Stage'[n] = Stage[n]
      BY <2>1, <2>2 DEF Stage
    <3> QED  BY <3>1, <3>3, <3>4, PassingAlone
  <2>5. CachesAgree'
    BY <1>15, <2>1 DEF AppendMessage, genVars, CachesAgree
  <2> QED  BY <2>3, <2>4, <2>5
<1>16. ASSUME NEW m \in Msgs, NEW l \in Lanes, Push(m, l) PROVE MsgInv' /\ (Lifecycle!Next \/ Stage' = Stage)
  <2> DEFINE s == cache[gen]
             t == [Laned(s, l, s.lanes[l] \cup {m}) EXCEPT !.seen = @ \cup {m}]
  <2>1. gen \in Gens /\ closing \cup ({gen} \ {None}) = {gen}
    BY <1>16, <1>e DEF Push
  <2>2. s \in Sidecars /\ s.lanes = Loaded(file).lanes /\ s.seen = Loaded(file).seen
    BY <1>b, <2>1
  <2>3. t \in Sidecars /\ t.lanes = [s.lanes EXCEPT ![l] = s.lanes[l] \cup {m}] /\ t.seen = s.seen \cup {m}
    BY <2>2 DEF Sidecars, Laned
  <2>4. file' = t /\ cache'[gen] = t
    <3>1. Persist(gen, t)
      BY <1>16 DEF Push
    <3> HIDE DEF t
    <3> QED  BY <1>0, <2>1, <3>1, QuietPersist
  <2>5. Loaded(file') = t
    BY <1>d, <2>3, <2>4
  <2>6. m \notin s.seen /\ m \notin Queued /\ m \notin hand /\ m \notin lost /\ copies[m] = 0
    BY <1>16, <1>0, <2>2 DEF Push, OnePlace, TypeOK
  <2>7. Queued' = Queued \cup {m} /\ t.lanes["next-turn"] \cap t.lanes["next-step"] = {}
    <3>1. t.lanes["next-turn"] = s.lanes["next-turn"] \cup (IF l = "next-turn" THEN {m} ELSE {})
      BY <2>2, <2>3 DEF Sidecars, Lanes
    <3>2. t.lanes["next-step"] = s.lanes["next-step"] \cup (IF l = "next-step" THEN {m} ELSE {})
      BY <2>2, <2>3 DEF Sidecars, Lanes
    <3>3. Queued = s.lanes["next-turn"] \cup s.lanes["next-step"]
      BY <2>2 DEF Queued
    <3>4. Queued' = t.lanes["next-turn"] \cup t.lanes["next-step"]
      BY <2>5 DEF Queued
    <3>5. s.lanes["next-turn"] \cap s.lanes["next-step"] = {}
      BY <2>2 DEF OnePlace
    <3> HIDE DEF t, s
    <3> QED  BY <2>6, <3>1, <3>2, <3>3, <3>4, <3>5 DEF Lanes
  <2>8. UNCHANGED <<hand, lost, copies, pc>>
    BY <1>16 DEF Push, msgVars
  <2>9. OnePlace'
    <3> HIDE DEF t, s
    <3> QED  BY <2>2, <2>3, <2>5, <2>6, <2>7, <2>8 DEF OnePlace
  <2>10. Lifecycle!Next
    <3>1. <<"new", "queued">> \in Lifecycle!Passages
      BY DEF Lifecycle!Passages
    <3>2. Stage[m] = "new" /\ Stage'[m] = "queued"
      BY <2>6, <2>7, <2>8 DEF Stage
    <3>3. \A n \in Msgs \ {m} : Stage'[n] = Stage[n]
      BY <2>7, <2>8 DEF Stage
    <3> QED  BY <3>1, <3>2, <3>3, PassingAlone
  <2>11. CachesAgree'
    <3> HIDE DEF t
    <3> QED  BY <1>16, <2>1, <2>4, <2>5 DEF Push, genVars, CachesAgree
  <2> QED  BY <2>9, <2>10, <2>11
<1>17. ASSUME NEW g \in Gens, MarkCleanShutdown(g) PROVE MsgInv' /\ (Lifecycle!Next \/ Stage' = Stage)
  <2>1. g \in closing /\ file' = Marked(cache[g]) /\ UNCHANGED <<hand, lost, copies, pc, gen>>
    BY <1>17 DEF MarkCleanShutdown, Ready, Write, Quiet, msgVars
  <2>2. Marked(cache[g]) \in Sidecars /\ Marked(cache[g]).lanes = Loaded(file).lanes
        /\ Marked(cache[g]).seen = Loaded(file).seen
    BY <1>b, <2>1, MarkedType
  <2>3. Loaded(file') = file'
    BY <1>d, <2>1, <2>2
  <2>4. OnePlace' /\ Stage' = Stage
    BY <1>17, <1>0, <2>1, <2>2, <2>3, NothingMoves DEF MarkCleanShutdown
  <2>5. CachesAgree'
    BY <1>17, <1>0, <2>1, <2>2, <2>3 DEF MarkCleanShutdown, CachesAgree, TypeOK
  <2> QED  BY <2>4, <2>5
<1>18. CASE Crash
  <2>1. hand' = {} /\ lost' = lost \cup hand /\ copies' = copies /\ file' = file /\ Queued' = Queued
    BY <1>18 DEF Crash, Queued
  <2>2. OnePlace'
    BY <1>18, <2>1 DEF OnePlace
  <2>3. Lifecycle!Next
    <3>1. <<"taken", "lost">> \in Lifecycle!Passages
      BY DEF Lifecycle!Passages
    <3>2. \A m \in hand : Stage[m] = "taken" /\ Stage'[m] = "lost"
      BY <1>0, <2>1 DEF Stage, OnePlace, TypeOK
    <3>3. \A m \in Msgs \ hand : Stage'[m] = Stage[m]
      BY <2>1 DEF Stage
    <3>4. hand \in SUBSET Msgs
      BY <1>0 DEF TypeOK
    <3> QED  BY <3>1, <3>2, <3>3, <3>4, Passing
  <2>4. CachesAgree'
    BY <1>18 DEF Crash, CachesAgree
  <2> QED  BY <2>2, <2>3, <2>4
<1>19. CASE Boot
  BY <1>19, <1>a DEF Boot, msgVars, genVars, CachesAgree, OnePlace
<1>20. CASE Recover
  <2>1. pc = "boot" /\ hand = {} /\ UNCHANGED <<hand, lost, copies, cache, gen, closing>>
    BY <1>20 DEF Recover, OnePlace, msgVars, genVars
  <2>2. CASE file' = file
    BY <1>a, <2>1, <2>2 DEF CachesAgree
  <2>3. CASE file' # file
    <3>1. file \in Sidecars /\ file' = Open(file, 0)
      BY <1>20, <1>0, <2>3 DEF Recover, Write, Quiet, Usable, TypeOK
    <3>2. Open(file, 0) \in Sidecars /\ Open(file, 0).lanes = file.lanes /\ Open(file, 0).seen = file.seen
      BY <3>1, OpenType
    <3>3. Loaded(file) = file /\ Loaded(file') = file'
      BY <1>d, <3>1, <3>2
    <3>4. OnePlace' /\ Stage' = Stage
      BY <2>1, <3>1, <3>2, <3>3, NothingMoves
    <3> QED  BY <2>1, <3>1, <3>2, <3>3, <3>4 DEF CachesAgree
  <2> QED  BY <2>2, <2>3
<1>21. CASE RecordRepair
  <2>1. pc = "repair" /\ hand = {} /\ UNCHANGED <<hand, lost, copies, cache, gen, closing>>
    BY <1>21 DEF RecordRepair, OnePlace, msgVars, genVars
  <2>2. file \in Sidecars /\ file' = Open(file, 0)
    BY <1>21, <1>0, <2>1 DEF RecordRepair, Write, Quiet, Phases, Usable, TypeOK
  <2>3. Open(file, 0) \in Sidecars /\ Open(file, 0).lanes = file.lanes /\ Open(file, 0).seen = file.seen
    BY <2>2, OpenType
  <2>4. Loaded(file) = file /\ Loaded(file') = file'
    BY <1>d, <2>2, <2>3
  <2>5. OnePlace' /\ Stage' = Stage
    BY <2>1, <2>2, <2>3, <2>4, NothingMoves
  <2> QED  BY <2>1, <2>2, <2>3, <2>4, <2>5 DEF CachesAgree
<1>22. CASE UNCHANGED vars
  BY <1>22, <1>a DEF vars, CachesAgree, OnePlace
<1> QED
  BY <1>1, <1>2, <1>3, <1>4, <1>5, <1>6, <1>7, <1>8, <1>9, <1>10, <1>11, <1>12, <1>13, <1>14,
     <1>15, <1>16, <1>17, <1>18, <1>19, <1>20, <1>21, <1>22 DEF Next

-----------------------------------------------------------------------------
(* Theorems                                                                *)

(* LogInv is an invariant: it is the induction hypothesis of the others.   *)
THEOREM CheckpointInvariant == Spec => []LogInv
BY InitLogInv, NextLogInv, PTL DEF Spec

(* Every variable keeps its type.                                          *)
THEOREM CheckpointTypeOK == Spec => []TypeOK
<1>1. LogInv => TypeOK
  BY DEF LogInv
<1> QED  BY <1>1, CheckpointInvariant, PTL

(* Whatever fails and whenever the process dies, boot recovery            *)
(* (checkpoint-recovery.ts) never closes a turn twice or one that was      *)
(* never started, and no turn id is used twice.                            *)
THEOREM LogStaysWellFormed == Spec => []LogWellFormed
<1>1. LogInv => LogWellFormed
  BY DEF LogInv
<1> QED  BY <1>1, CheckpointInvariant, PTL

(* The sidecar is reliable as long as its writes succeed and no rebuild is *)
(* fused with the start of a turn.                                         *)
THEOREM QuietInvariant ==
  ASSUME Quiet
  PROVE  Spec => [](LogInv /\ CrashInv /\ MsgInv)
<1>1. Init => LogInv /\ CrashInv /\ MsgInv
  BY InitLogInv, InitCrashInv, InitMsgInv
<1>2. LogInv /\ CrashInv /\ MsgInv /\ [Next]_vars => (LogInv /\ CrashInv /\ MsgInv)'
  <2> SUFFICES ASSUME LogInv, CrashInv, MsgInv, [Next]_vars
               PROVE  LogInv' /\ CrashInv' /\ MsgInv'
    OBVIOUS
  <2>2. LogInv'
    BY NextLogInv
  <2>3. CrashInv'
    BY <2>2, NextCrashInv
  <2>4. MsgInv'
    BY <2>2, NextMsgInv
  <2> QED  BY <2>2, <2>3, <2>4
<1> QED  BY <1>1, <1>2, PTL DEF Spec

(* Boot recovery has closed the turn the process died in before anything   *)
(* else runs, also after a crash inside the repair.                        *)
THEOREM RecoveryClosesTheTurn ==
  ASSUME Quiet
  PROVE  Spec => []CrashedTurnIsClosed
<1>1. CrashInv => CrashedTurnIsClosed
  BY DEF CrashInv, DeathSigned, CrashedTurnIsClosed
<1> QED  BY <1>1, QuietInvariant, PTL

(* The clean mark never stands over a running turn.                        *)
THEOREM CleanMarkIsHonest ==
  ASSUME Quiet
  PROVE  Spec => []CleanExitIsHonest
<1>1. LogInv /\ CrashInv => CleanExitIsHonest
  <2> SUFFICES ASSUME LogInv, CrashInv, turn # 0, Loaded(file).clean, pc \notin {"taking", "starting", "down"}
               PROVE  FALSE
    BY DEF CleanExitIsHonest
  <2>1. file = cache[runner] /\ file.clean = FALSE /\ cache[runner] \in Sidecars
    BY DEF CrashInv, RunnerWrites, LogInv, Owners, TypeOK
  <2> QED  BY <2>1, CheckpointAssumption DEF Loaded, Usable
<1> QED  BY <1>1, QuietInvariant, PTL

(* The inbox and its sidecar implement the lifecycle promised to senders:  *)
(* a message is queued, taken and injected once, and lost only in the      *)
(* hands of a process that dies.                                           *)
THEOREM SidecarKeepsMessages ==
  ASSUME Quiet
  PROVE  Spec => KeepsMessages
<1>1. Init => Lifecycle!Init
  BY InitMsgInv
<1>2. LogInv /\ LogInv' /\ CrashInv /\ MsgInv /\ [Next]_vars => [Lifecycle!Next]_Stage
  BY NextMsgInv
<1>3. Spec => []LogInv /\ []CrashInv /\ []MsgInv
  BY QuietInvariant, PTL
<1> QED  BY <1>1, <1>2, <1>3, PTL DEF Spec, KeepsMessages, Lifecycle!Spec
=============================================================================
