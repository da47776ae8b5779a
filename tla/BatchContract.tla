---------------------------- MODULE BatchContract ----------------------------
(***************************************************************************)
(* What a swarm batch promises the turn that called it and the members it  *)
(* runs (packages/swarm/src/scheduler/core.ts): a member is tried, again   *)
(* and again if the provider limits the rate, until it has a verdict, and  *)
(* that is final; only an attempt earns another verdict than "aborted"; a  *)
(* member whose attempt has called a tool is never tried again; no more    *)
(* attempts are under way than there are slots; and the batch resolves     *)
(* once, when every member has its verdict.                                *)
(***************************************************************************)
EXTENDS Naturals, FiniteSets

CONSTANTS
  Members,
  Slots     \* attempts that may be under way at a time

VARIABLES
  stage,    \* where each member is
  resolved  \* has the batch returned?

contractVars == <<stage, resolved>>

Verdicts == {"completed", "failed", "aborted"}

AtWork == {"trying", "acting"}

Stages == {"waiting"} \cup AtWork \cup Verdicts

(* The only ways of a member from one stage to another.                    *)
Passages ==
  {<<"waiting", "trying">>, <<"trying", "acting">>, <<"trying", "waiting">>,
   <<"waiting", "aborted">>} \cup AtWork \X Verdicts

Init ==
  /\ stage = [m \in Members |-> "waiting"]
  /\ resolved = FALSE

(* One handler may settle a member and launch others.                      *)
Next ==
  /\ stage' \in [Members -> Stages]
  /\ \A m \in Members : stage'[m] # stage[m] => <<stage[m], stage'[m]>> \in Passages
  /\ Cardinality({m \in Members : stage'[m] \in AtWork}) <= Slots
  /\ resolved => resolved' /\ UNCHANGED stage
  /\ resolved' => \A m \in Members : stage'[m] \in Verdicts

Spec == Init /\ [][Next]_contractVars
=============================================================================
