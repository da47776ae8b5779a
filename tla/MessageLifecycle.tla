--------------------------- MODULE MessageLifecycle ---------------------------
(***************************************************************************)
(* What the inbox of a session promises its senders                        *)
(* (packages/runtime/src/inbox.ts, packages/session/src/checkpoint.ts): an *)
(* accepted message is queued durably, is taken out of its lane once, and  *)
(* becomes part of the session's log once.  Only a process that dies with  *)
(* the message in its hands loses it, and a message that reached the log   *)
(* is never queued again.                                                  *)
(***************************************************************************)
CONSTANT Msgs   \* the messages, each with its idempotency key

VARIABLE status   \* the stage of each message

Stages == {"new", "queued", "taken", "delivered", "lost"}

(* The only ways a message goes from one stage to another.                 *)
Passages == {<<"new", "queued">>, <<"queued", "taken">>,
             <<"taken", "delivered">>, <<"taken", "lost">>}

Init == status = [m \in Msgs |-> "new"]

(* Some messages go through the same passage together: a lane is drained   *)
(* as a whole, and a crash takes all that was in hand.                     *)
Move(S, p) ==
  /\ \A m \in S : status[m] = p[1]
  /\ status' = [m \in Msgs |-> IF m \in S THEN p[2] ELSE status[m]]

Next == \E S \in SUBSET Msgs, p \in Passages : Move(S, p)

Spec == Init /\ [][Next]_status
=============================================================================
