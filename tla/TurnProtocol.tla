----------------------------- MODULE TurnProtocol -----------------------------
(***************************************************************************)
(* What the log of one turn promises its readers: the model, which rejects *)
(* a history with an unanswered tool call, and the user interface          *)
(* (packages/agent-loop/src/loop.ts, lines 14-29).  Every tool call has    *)
(* its result before anything else is said, in the order of the calls, the *)
(* turn ends once, and "completed" is only said of a turn whose last word  *)
(* is the assistant's.                                                     *)
(***************************************************************************)
EXTENDS Naturals

CONSTANT MaxCalls   \* tool calls of one answer

VARIABLES
  phase,    \* "idle", "running" or "over"
  owed,     \* tool calls whose result row is missing
  replied   \* is the assistant's answer the last word?

protocolVars == <<phase, owed, replied>>

Init == phase = "idle" /\ owed = 0 /\ replied = FALSE

Begin ==
  /\ phase = "idle"
  /\ phase' = "running"
  /\ UNCHANGED <<owed, replied>>

(* A message of the user, a worker or the host.                            *)
Tell ==
  /\ phase = "running" /\ owed = 0
  /\ replied' = FALSE
  /\ UNCHANGED <<phase, owed>>

Call ==
  /\ phase = "running" /\ owed = 0
  /\ owed' \in 1..MaxCalls /\ replied' = FALSE
  /\ UNCHANGED phase

(* Results are written in the order of the calls: what is owed is a suffix.*)
Result ==
  /\ phase = "running"
  /\ owed' \in 0..(owed - 1)
  /\ UNCHANGED <<phase, replied>>

Reply ==
  /\ phase = "running" /\ owed = 0
  /\ replied' = TRUE
  /\ UNCHANGED <<phase, owed>>

End ==
  /\ phase = "running" /\ owed = 0
  /\ phase' = "over"
  /\ UNCHANGED <<owed, replied>>

Next == Begin \/ Tell \/ Call \/ Result \/ Reply \/ End

Spec == Init /\ [][Next]_protocolVars
=============================================================================
