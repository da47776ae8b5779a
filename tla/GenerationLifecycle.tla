------------------------- MODULE GenerationLifecycle -------------------------
(***************************************************************************)
(* What whoever holds a composed generation of a session relies on         *)
(* (packages/runtime/src/session-registry.ts, lines 5-34 and 292-332): a   *)
(* session hands out one generation at a time, which is open for use; one  *)
(* that is at work is replaced or reclaimed by nobody and leaves only when *)
(* its session is deleted or the process ends, its turn then unwinds, and  *)
(* only after that its teardown finishes and its id may come back.         *)
(***************************************************************************)
CONSTANTS Sessions, Ids, None

VARIABLES
  current,  \* the generation a session hands out, or None
  phase,    \* where each generation is in its life
  deleted,  \* generations whose session was deleted under them
  over      \* the process is going down

lifecycleVars == <<current, phase, deleted, over>>

Generations == Sessions \X Ids

Held == {"idle", "busy"}

Phases == Held \cup {"free", "unwinding", "closing"}

(* The only ways a generation goes from one phase to another.              *)
Passages ==
  {<<"free", "idle">>, <<"free", "busy">>, <<"idle", "busy">>, <<"busy", "idle">>,
   <<"idle", "closing">>, <<"busy", "closing">>, <<"busy", "unwinding">>,
   <<"unwinding", "closing">>, <<"closing", "free">>}

HandsOut(x) == current[x[1]] = x[2]

Leaves(x) == phase[x] \in Held /\ phase'[x] \notin Held

Init ==
  /\ current \in [Sessions -> Ids \cup {None}]
  /\ phase = [x \in Generations |-> IF HandsOut(x) THEN "idle" ELSE "free"]
  /\ deleted = {}
  /\ over = FALSE

(* Several generations may move in one step: a swap moves two, a sweep or  *)
(* a configuration change any number.                                      *)
Moves ==
  /\ current' \in [Sessions -> Ids \cup {None}]
  /\ phase' \in [Generations -> Phases]
  /\ \A x \in Generations : phase'[x] # phase[x] => <<phase[x], phase'[x]>> \in Passages
  /\ \A x \in Generations : phase'[x] \in Held <=> HandsOut(x)'

(* Work is interrupted by nothing else than a delete or the end.           *)
KeepsWork ==
  \A x \in Generations : phase[x] = "busy" /\ Leaves(x) => x \in deleted' \/ over'

(* A deleted session hands out nothing at first.                           *)
Deletes ==
  \A x \in deleted' \ deleted : x \in Generations /\ Leaves(x) /\ current'[x[1]] = None

(* A process that goes down hands out nothing more.                        *)
Ends ==
  /\ over => over' /\ current' = current
  /\ over' /\ ~over => \A s \in Sessions : current'[s] = None

Next == Moves /\ KeepsWork /\ Deletes /\ Ends

Spec == Init /\ [][Next]_lifecycleVars
=============================================================================
