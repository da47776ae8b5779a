----------------------------- MODULE UserQuestions -----------------------------
(***************************************************************************)
(* The questions a turn puts to its user: ask_user_question parks a        *)
(* question in the process-wide table and waits for an answer, a dismissal *)
(* or the deadline, whichever settles it first                             *)
(* (apps/studio/src/question-registry.ts, user-questions.ts,               *)
(* runtime/question-view.ts).  A question is named by the call that asks.  *)
(***************************************************************************)
CONSTANT Questions

VARIABLE question   \* how far each question is

QuestionTypeOK ==
  question \in [Questions -> {"none", "parked", "answered", "timed_out", "cancelled"}]

QuestionInit == question = [q \in Questions |-> "none"]

(* The table of the questions that can be answered.                        *)
Pending == {q \in Questions : question[q] = "parked"}

(* park: the questions of a batch of calls are asked together; those that  *)
(* were settled have left the table.                                       *)
Park(asked) ==
  question' = [q \in Questions |-> IF q \in asked \cup Pending THEN "parked" ELSE "none"]

(* One settlement, ever.                                                   *)
Settle(q, how) ==
  /\ q \in Pending
  /\ question' = [question EXCEPT ![q] = how]

AnswerQuestion(q) == Settle(q, "answered")
DismissQuestion(q) == Settle(q, "cancelled")

(* Mutant: the timer of the deadline is never armed.                       *)
NeverExpire(q) == FALSE /\ UNCHANGED question

(* The timer of the deadline fires.                                        *)
ExpireQuestion(q) == Settle(q, "timed_out")
=============================================================================
