------------------------------ MODULE Checkpoint ------------------------------
(***************************************************************************)
(* One persistent session: its append-only log, its crash sidecar          *)
(* checkpoint.json (packages/session/src/checkpoint*.ts), the inbox whose  *)
(* lanes live in that sidecar (packages/runtime/src/inbox.ts), the         *)
(* generations that each hold their own cached copy of it, and the boot    *)
(* recovery that reads it back.                                            *)
(*                                                                         *)
(* The log is abstracted to how many turn_start and turn_end rows each     *)
(* turn has, and to how many times each message was appended.  Every file  *)
(* operation is a step of its own, so a crash can fall between any two.    *)
(* pc tells where inside a synchronous block the process is; other         *)
(* handlers run only when pc = "rest".                                     *)
(***************************************************************************)
EXTENDS Naturals, FiniteSets

CONSTANTS
  Gens,              \* ids of generations; two coexist around a swap
  None,              \* no generation
  NoSidecar,         \* the file is missing, unparsable or another session's
  Msgs,              \* messages, each with its idempotency key
  MaxTurn,           \* bound: turn numbers
  MaxCrashes,        \* bound: crashes
  ConfigDuringTurn,  \* may configuration be written while a turn runs?
  SidecarFails       \* may a write of the sidecar fail?

Turns == 1..MaxTurn

Lanes == {"next-turn", "next-step"}

Sidecars == [open : {0} \cup Turns, clean : BOOLEAN,
             lanes : [Lanes -> SUBSET Msgs], seen : SUBSET Msgs]

Fresh == [open |-> 0, clean |-> FALSE, lanes |-> [l \in Lanes |-> {}], seen |-> {}]

ASSUME CheckpointAssumption ==
  /\ IsFiniteSet(Gens) /\ Gens # {} /\ None \notin Gens
  /\ NoSidecar \notin Sidecars
  /\ MaxTurn \in Nat /\ MaxCrashes \in Nat
  /\ ConfigDuringTurn \in BOOLEAN /\ SidecarFails \in BOOLEAN

VARIABLES
  starts,    \* turn -> turn_start rows in the log
  ends,      \* turn -> turn_end rows in the log
  copies,    \* message -> 0, 1 or 2: never, once or more often in the log
  file,      \* checkpoint.json: a sidecar, or NoSidecar
  cache,     \* generation -> the state its CheckpointStore holds
  gen,       \* the registered generation, or None
  closing,   \* generations whose teardown has started
  stopping,  \* the process was asked to stop
  marked,    \* the registered generation is due for a rebuild
  turn,      \* the running turn, 0 when there is none
  runner,    \* the generation that runs it
  hand,      \* messages taken out of a lane and not yet appended
  pc,        \* where in a synchronous block the process is
  crashes,   \* crashes so far
  died,      \* the turn the last process died in, when its marker was due
  lost       \* messages that were in hand in a crash

vars == <<starts, ends, copies, file, cache, gen, closing, stopping, marked, turn, runner,
          hand, pc, crashes, died, lost>>

logVars == <<starts, ends>>
genVars == <<gen, closing, marked, stopping>>
msgVars == <<copies, hand, lost>>
ghosts == <<crashes, died>>

Usable(f) == f # NoSidecar

(* What a store that has just loaded f works on.                           *)
Loaded(f) == IF Usable(f) THEN f ELSE Fresh

Queued == LET s == Loaded(file) IN s.lanes["next-turn"] \cup s.lanes["next-step"]

(* Mutant: the counter is restored to the highest id, not one above it.    *)
IsLastTurn(n) == /\ \A t \in Turns : starts[t] > 0 => t <= n
                 /\ n \in {1} \cup {u \in Turns : starts[u] > 0}

(* nextTurnNumber(): n is one above the highest turn_start in the log.     *)
IsNextTurn(n) == /\ \A t \in Turns : starts[t] > 0 => t < n
                 /\ n \in {1} \cup {t + 1 : t \in {u \in Turns : starts[u] > 0}}

(* A teardown that does not have to wait for a turn marks its exit in the  *)
(* microtasks that follow, before any other handler runs.                  *)
Ready(g) == g \in closing /\ ~(turn # 0 /\ runner = g)

AtRest == pc = "rest" /\ \A g \in closing : ~Ready(g)

(* Mutant: a patch keeps the clean mark of the file it is merged with.     *)
WriteKeepsClean(s) == file' = [s EXCEPT !.clean = s.clean \/ Loaded(file).clean]

(* The atomic rename of persist(); a failure is reported and swallowed.    *)
Write(s) == \/ file' = s
            \/ SidecarFails /\ file' = file

(* persist(): patch the cached state, then overwrite the whole file.       *)
Persist(g, s) == cache' = [cache EXCEPT ![g] = s] /\ Write(s)

Open(s, n) == [s EXCEPT !.open = n, !.clean = FALSE]

Marked(s) == [s EXCEPT !.open = 0, !.clean = TRUE]

Laned(s, l, M) == [s EXCEPT !.lanes[l] = M, !.clean = FALSE]

FreeGens == Gens \ (closing \cup {gen})

-----------------------------------------------------------------------------

Init ==
  /\ starts = [t \in Turns |-> 0]
  /\ ends = [t \in Turns |-> 0]
  /\ copies = [m \in Msgs |-> 0]
  /\ file = NoSidecar
  /\ cache = [g \in Gens |-> Fresh]
  /\ gen = None
  /\ closing = {}
  /\ stopping = FALSE
  /\ marked = FALSE
  /\ turn = 0
  /\ runner = None
  /\ hand = {}
  /\ pc = "rest"
  /\ crashes = 0
  /\ died = 0
  /\ lost = {}

(* The swap of rebuild(): the new generation loads the file as it is, the  *)
(* teardown of the previous one starts.                                    *)
Swap(g) ==
  /\ g \in FreeGens
  /\ gen' = g
  /\ closing' = closing \cup {gen}
  /\ marked' = FALSE
  /\ UNCHANGED stopping

(* A generation is composed for a session that has none.                   *)
Compose ==
  /\ AtRest
  /\ gen = None
  /\ ~stopping
  /\ \E g \in FreeGens : gen' = g /\ cache' = [cache EXCEPT ![g] = Loaded(file)]
  /\ UNCHANGED <<logVars, msgVars, file, closing, marked, stopping, turn, runner, pc, ghosts>>

(* Configuration is written: an idle instance is rebuilt at once, a busy   *)
(* one is marked.  Also the sweep that comes back to a marked instance.    *)
Rebuild ==
  /\ AtRest
  /\ gen # None
  /\ turn = 0
  /\ \E g \in Gens : Swap(g) /\ cache' = [cache EXCEPT ![g] = Loaded(file)]
  /\ UNCHANGED <<logVars, msgVars, file, turn, runner, pc, ghosts>>

MarkForRebuild ==
  /\ AtRest
  /\ ConfigDuringTurn
  /\ gen # None
  /\ turn # 0
  /\ marked' = TRUE
  /\ UNCHANGED <<logVars, msgVars, file, cache, gen, closing, stopping, turn, runner, pc, ghosts>>

(* The idle instance is evicted.                                           *)
Evict ==
  /\ AtRest
  /\ gen # None
  /\ turn = 0
  /\ gen' = None
  /\ closing' = closing \cup {gen}
  /\ marked' = FALSE
  /\ UNCHANGED <<logVars, msgVars, file, cache, stopping, turn, runner, pc, ghosts>>

(* inject(): a message is accepted into a lane, unless its id was accepted *)
(* before.                                                                 *)
Push(m, l) ==
  /\ AtRest
  /\ gen # None
  /\ l = "next-step" => turn # 0
  /\ m \notin cache[gen].seen
  /\ LET s == cache[gen]
     IN Persist(gen, [Laned(s, l, s.lanes[l] \cup {m}) EXCEPT !.seen = @ \cup {m}])
  /\ UNCHANGED <<logVars, msgVars, genVars, turn, runner, pc, ghosts>>

(* Mutant: the drained lane is not written back.                           *)
TakeUnsaved(g, s, l, f) == /\ hand' = s.lanes[l]
                           /\ cache' = [cache EXCEPT ![g] = Laned(s, l, {})]
                           /\ file' = f

(* drain(): the lane of store state s of generation g is emptied and the   *)
(* emptied lane is saved; an empty lane is not written.                    *)
Take(g, s, l, f) ==
  /\ hand' = s.lanes[l]
  /\ IF s.lanes[l] = {}
     THEN cache' = [cache EXCEPT ![g] = s] /\ file' = f
     ELSE Persist(g, Laned(s, l, {}))

(* startTurn() up to the drain: a marked instance is rebuilt first, in the *)
(* same synchronous block, so the teardown it starts has not marked yet.   *)
StartTurn ==
  /\ AtRest
  /\ gen # None
  /\ turn = 0
  /\ \E n \in Turns : IsNextTurn(n) /\ turn' = n
  /\ IF marked
     THEN \E g \in Gens : Swap(g) /\ runner' = g /\ Take(g, Loaded(file), "next-turn", file)
     ELSE /\ runner' = gen
          /\ Take(gen, cache[gen], "next-turn", file)
          /\ UNCHANGED genVars
  /\ pc' = "taking"
  /\ UNCHANGED <<logVars, copies, lost, ghosts>>

(* injectReceipts() and injectPending() append one row per message.        *)
AppendMessage(m) ==
  /\ pc \in {"taking", "stepping"}
  /\ m \in hand
  /\ copies' = [copies EXCEPT ![m] = IF @ = 0 THEN 1 ELSE 2]
  /\ hand' = hand \ {m}
  /\ UNCHANGED <<logVars, lost, file, cache, genVars, turn, runner, pc, ghosts>>

(* The loop appends turn_start ...                                         *)
AppendTurnStart ==
  /\ pc = "taking"
  /\ hand = {}
  /\ starts' = [starts EXCEPT ![turn] = @ + 1]
  /\ pc' = "starting"
  /\ UNCHANGED <<ends, msgVars, file, cache, genVars, turn, runner, ghosts>>

(* ... and the checkpoint decorator records the open turn.                 *)
RecordTurnStart ==
  /\ pc = "starting"
  /\ Persist(runner, Open(cache[runner], turn))
  /\ pc' = "rest"
  /\ UNCHANGED <<logVars, msgVars, genVars, turn, runner, ghosts>>

(* A step boundary of the running turn drains the steering lane.           *)
StepBoundary ==
  /\ pc = "rest"
  /\ turn # 0
  /\ cache[runner].lanes["next-step"] # {}
  /\ Take(runner, cache[runner], "next-step", file)
  /\ pc' = "stepping"
  /\ UNCHANGED <<logVars, copies, lost, genVars, turn, runner, ghosts>>

StepResumes ==
  /\ pc = "stepping"
  /\ hand = {}
  /\ pc' = "rest"
  /\ UNCHANGED <<logVars, msgVars, file, cache, genVars, turn, runner, ghosts>>

(* The turn ends, for whatever reason: turn_end, then its record.          *)
AppendTurnEnd ==
  /\ pc = "rest"
  /\ turn # 0
  /\ ends' = [ends EXCEPT ![turn] = @ + 1]
  /\ pc' = "ending"
  /\ UNCHANGED <<starts, msgVars, file, cache, genVars, turn, runner, ghosts>>

RecordTurnEnd ==
  /\ pc = "ending"
  /\ Persist(runner, Open(cache[runner], 0))
  /\ pc' = "rest"
  /\ turn' = 0
  /\ runner' = None
  /\ UNCHANGED <<logVars, msgVars, genVars, ghosts>>

(* Mutant: the exit is marked without waiting for the turn.                *)
MarkWithoutJoin(g) ==
  /\ pc = "rest"
  /\ g \in closing
  /\ Write(Marked(cache[g]))
  /\ closing' = closing \ {g}
  /\ UNCHANGED <<logVars, msgVars, cache, gen, marked, stopping, turn, runner, pc, ghosts>>

(* doShutdown() of a generation, once its own turn was joined.             *)
MarkCleanShutdown(g) ==
  /\ pc = "rest"
  /\ Ready(g)
  /\ Write(Marked(cache[g]))
  /\ cache' = [cache EXCEPT ![g] = Fresh]
  /\ closing' = closing \ {g}
  /\ UNCHANGED <<logVars, msgVars, gen, marked, stopping, turn, runner, pc, ghosts>>

(* The log is cleared while no turn runs; only a live instance also clears *)
(* the marker in the sidecar.                                              *)
ClearLog ==
  /\ AtRest
  /\ turn = 0
  /\ starts' = [t \in Turns |-> 0]
  /\ ends' = [t \in Turns |-> 0]
  /\ IF gen # None THEN Persist(gen, Open(cache[gen], 0)) ELSE UNCHANGED <<file, cache>>
  /\ died' = 0
  /\ UNCHANGED <<msgVars, genVars, turn, runner, pc, crashes>>

(* The process is asked to stop: the instance is torn down and the turn it *)
(* runs is aborted.  It exits when both are over.                          *)
Shutdown ==
  /\ AtRest
  /\ ~stopping
  /\ stopping' = TRUE
  /\ gen' = None
  /\ closing' = closing \cup ({gen} \ {None})
  /\ marked' = FALSE
  /\ UNCHANGED <<logVars, msgVars, file, cache, turn, runner, pc, ghosts>>

Exit ==
  /\ AtRest
  /\ stopping
  /\ closing = {}
  /\ stopping' = FALSE
  /\ pc' = "down"
  /\ died' = 0
  /\ UNCHANGED <<logVars, msgVars, file, cache, gen, closing, marked, turn, runner, crashes>>

(* The process dies between any two steps.  The turn it dies in is one the *)
(* next boot has to close when its marker had been written.                *)
Crash ==
  /\ pc # "down"
  /\ crashes < MaxCrashes
  /\ crashes' = crashes + 1
  /\ died' = IF pc \in {"boot", "repair"} THEN died
             ELSE IF turn # 0 /\ pc \in {"rest", "stepping"} THEN turn ELSE 0
  /\ lost' = lost \cup hand
  /\ hand' = {}
  /\ pc' = "down"
  /\ gen' = None
  /\ closing' = {}
  /\ stopping' = FALSE
  /\ marked' = FALSE
  /\ turn' = 0
  /\ runner' = None
  /\ cache' = [g \in Gens |-> Fresh]
  /\ UNCHANGED <<logVars, copies, file>>

(* The process starts.  Boot recovery looks at the session that was active *)
(* and at no other.                                                        *)
Boot ==
  /\ pc = "down"
  /\ \/ pc' = "boot" /\ UNCHANGED died
     \/ pc' = "rest" /\ died' = 0
  /\ UNCHANGED <<logVars, msgVars, file, cache, genVars, turn, runner, crashes>>

(* Mutant: the log is not asked whether the turn was closed.               *)
RecoverSingleSignature ==
  /\ pc = "boot"
  /\ IF Usable(file) /\ ~file.clean /\ file.open # 0 /\ starts[file.open] > 0
     THEN ends' = [ends EXCEPT ![file.open] = @ + 1] /\ pc' = "repair"
     ELSE pc' = "rest" /\ UNCHANGED ends
  /\ UNCHANGED <<starts, msgVars, file, cache, genVars, turn, runner, ghosts>>

(* recoverOpenTurn(): repair on the double signature alone.                *)
Recover ==
  LET open == Loaded(file).open
      signed == Usable(file) /\ ~Loaded(file).clean /\ open # 0 /\ starts[open] > 0
  IN /\ pc = "boot"
     /\ \/ /\ ~signed
           /\ pc' = "rest"
           /\ UNCHANGED <<ends, file>>
        \/ /\ signed /\ ends[open] > 0
           /\ Write(Open(file, 0))
           /\ pc' = "rest"
           /\ UNCHANGED ends
        \/ /\ signed /\ ends[open] = 0
           /\ ends' = [ends EXCEPT ![open] = @ + 1]
           /\ pc' = "repair"
           /\ UNCHANGED file
     /\ UNCHANGED <<starts, msgVars, cache, genVars, turn, runner, ghosts>>

(* recordSynthesizedTurnEnd()                                              *)
RecordRepair ==
  /\ pc = "repair"
  /\ Write(Open(file, 0))
  /\ pc' = "rest"
  /\ UNCHANGED <<logVars, msgVars, cache, genVars, turn, runner, ghosts>>

Next ==
  \/ Compose \/ Rebuild \/ MarkForRebuild \/ Evict \/ ClearLog \/ Shutdown \/ Exit
  \/ StartTurn \/ AppendTurnStart \/ RecordTurnStart
  \/ StepBoundary \/ StepResumes
  \/ AppendTurnEnd \/ RecordTurnEnd
  \/ \E m \in Msgs : AppendMessage(m) \/ \E l \in Lanes : Push(m, l)
  \/ \E g \in Gens : MarkCleanShutdown(g)
  \/ Crash \/ Boot \/ Recover \/ RecordRepair

Spec == Init /\ [][Next]_vars

-----------------------------------------------------------------------------
(* Properties                                                              *)

(* Every variable has its type.                                            *)
TypeOK ==
  /\ starts \in [Turns -> 0..2] /\ ends \in [Turns -> 0..2]
  /\ copies \in [Msgs -> 0..2]
  /\ file \in Sidecars \cup {NoSidecar}
  /\ cache \in [Gens -> Sidecars]
  /\ gen \in Gens \cup {None} /\ closing \subseteq Gens
  /\ marked \in BOOLEAN /\ stopping \in BOOLEAN
  /\ turn \in {0} \cup Turns /\ runner \in Gens \cup {None}
  /\ hand \subseteq Msgs /\ lost \subseteq Msgs
  /\ pc \in {"rest", "taking", "starting", "stepping", "ending", "down", "boot", "repair"}
  /\ crashes \in 0..MaxCrashes /\ died \in {0} \cup Turns

(* Whatever crashes, whatever the sidecar says and however often a repair  *)
(* is repeated: a turn id is used once, a turn_end closes a started turn,  *)
(* and no turn is closed twice.                                            *)
LogWellFormed == \A t \in Turns : starts[t] <= 1 /\ ends[t] <= starts[t]

(* After boot recovery the turn the process died inside is closed in the   *)
(* log, also when the repair itself was cut short by a crash.              *)
CrashedTurnIsClosed ==
  died # 0 /\ pc \notin {"down", "boot"} => ends[died] = 1

(* The file claims a clean exit only while no turn is running.             *)
CleanExitIsHonest ==
  turn # 0 /\ Loaded(file).clean => pc \in {"taking", "starting", "down"}

(* The stage a message is in.                                              *)
Stage == [m \in Msgs |-> IF m \in hand THEN "taken"
                         ELSE IF m \in Queued THEN "queued"
                         ELSE IF m \in lost THEN "lost"
                         ELSE IF copies[m] > 0 THEN "delivered"
                         ELSE "new"]

Lifecycle == INSTANCE MessageLifecycle WITH status <- Stage

(* The lanes in the sidecar keep what the inbox promises its senders.      *)
KeepsMessages == Lifecycle!Spec
=============================================================================
