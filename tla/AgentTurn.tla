------------------------------- MODULE AgentTurn -------------------------------
(***************************************************************************)
(* A turn as a whole: the agent loop, the model request it reads, and the  *)
(* tools it runs, some of which ask the user a question.  The loop stops   *)
(* to wait when the turn is cancelled; the request, the tools and the      *)
(* questions do not know and come to their own end.                        *)
(***************************************************************************)
EXTENDS AgentLoop, ModelRequest

VARIABLE question

INSTANCE UserQuestions WITH Questions <- CallIds

vars == <<loopVars, requestVars, question>>

Init == LoopInit /\ RequestInit /\ QuestionInit

-----------------------------------------------------------------------------
(* The loop and its request                                                *)

LoopAlone ==
  /\ StartTurn \/ ReachStepLimit \/ NoticeCancel \/ BreakDown
     \/ BatchReturns \/ RecordResult \/ DropBatch \/ EndTurn
  /\ UNCHANGED <<requestVars, question>>

AskModel == BeginStep /\ Generate /\ UNCHANGED question

HearDelta ==
  /\ at \in {"model", "wrapup"} /\ ~signal
  /\ Speak
  /\ UNCHANGED <<loopVars, question>>

HearAnswer == TakeAnswer /\ Complete /\ UNCHANGED question

(* Some calls of the first batch are questions.                            *)
HearCalls ==
  \E n \in CallIds :
    /\ TakeCalls(n) /\ Complete
    /\ \E asked \in SUBSET (1..dispatched') : Park(asked)

HearFailure ==
  /\ \E failure \in Failures : GiveUp(failure)
  /\ TakeFailure("error") \/ TakeFailure("interrupted")
  /\ UNCHANGED question

(* A delta makes the guard convict the attempt.                            *)
HearCollapse ==
  /\ stage = "open" /\ reader = "loop"
  /\ RetryCollapsed
  /\ Close
  /\ UNCHANGED question

(* The attempt that collapses once too often makes room for the request    *)
(* that closes the turn.                                                   *)
HearLastCollapse ==
  /\ stage = "open" /\ reader = "loop"
  /\ WrapUp
  /\ Generate
  /\ UNCHANGED question

(* The closing answer is complete, or its request failed.                  *)
HearClosing ==
  /\ ~signal
  /\ Complete \/ \E failure \in Failures : GiveUp(failure)
  /\ EndWrapUp(voices # {})
  /\ UNCHANGED question

HearCancel ==
  /\ DropResponse /\ Abandon(TRUE)
  /\ UNCHANGED question

(* The request that closes a turn is given up without a closing hook.      *)
HearCancelInWrapUp ==
  /\ signal
  /\ EndWrapUp(voices # {}) /\ Abandon(FALSE)
  /\ UNCHANGED question

-----------------------------------------------------------------------------
(* The tools and the user                                                  *)

DispatchNext ==
  /\ NextBatch
  /\ \E asked \in SUBSET ((dispatched + 1)..dispatched') : Park(asked)
  /\ UNCHANGED requestVars

(* The questions of the step are settled and have left the table.          *)
NextStep == Continue /\ Park({}) /\ UNCHANGED requestVars

FinishTool(c) ==
  /\ c \notin Pending
  /\ ToolReturns(c)
  /\ UNCHANGED <<requestVars, question>>

(* A question is a tool call that waits for the user; the cancel of the    *)
(* turn does not reach it (packages/tools/src/tools/ask-user.ts).          *)
UserSettles(c) ==
  /\ AnswerQuestion(c) \/ DismissQuestion(c)
  /\ ToolReturns(c)
  /\ UNCHANGED requestVars

DeadlineSettles(c) == ExpireQuestion(c) /\ ToolReturns(c) /\ UNCHANGED requestVars

Environment ==
  /\ Arrive \/ Cancel
  /\ UNCHANGED <<requestVars, question>>

Request == Decorators /\ UNCHANGED <<loopVars, question>>

Hear ==
  \/ HearDelta \/ HearAnswer \/ HearCalls \/ HearFailure
  \/ HearCollapse \/ HearLastCollapse \/ HearClosing

LoopSteps ==
  LoopAlone \/ AskModel \/ HearCancel \/ HearCancelInWrapUp \/ DispatchNext \/ NextStep

Next ==
  \/ LoopSteps \/ Hear \/ Request
  \/ \E c \in CallIds : FinishTool(c) \/ UserSettles(c) \/ DeadlineSettles(c)
  \/ Environment

(* The loop runs as long as it can; the timeouts of the client bound the   *)
(* waits of the decorators; a question has its deadline.  Nothing makes a  *)
(* response that is being read come to its end (packages/llm/src/          *)
(* timeouts.ts has no limit on a whole request), any other tool return, or *)
(* the user speak.                                                         *)
Spec ==
  /\ Init /\ [][Next]_vars
  /\ WF_vars(LoopSteps) /\ WF_vars(Request)
  /\ \A c \in CallIds : WF_vars(DeadlineSettles(c))

-----------------------------------------------------------------------------
(* Properties                                                              *)

AgentTypeOK == LoopTypeOK /\ RequestTypeOK /\ QuestionTypeOK

(* The result rows tell the truth about the executions, although a cancel  *)
(* can fall before, into and between the batches and while a result is     *)
(* spilled: a row with a result has one, a call "cancelled before          *)
(* execution" never started, and one that "may have completed" did start.  *)
ToolRowsAreHonest ==
  \A c \in CallIds :
    /\ said[c] = "result" => tool[c] = "returned"
    /\ said[c] = "never" => tool[c] = "none"
    /\ said[c] = "uncertain" => tool[c] # "none"

(* A turn is "completed" only if nobody cancelled it and its last word is  *)
(* the assistant's; "cancelled" only if somebody did; and a message that   *)
(* still waits when a turn ends by itself has used up the extensions       *)
(* (driveSteps).                                                           *)
OutcomeIsHonest ==
  outcome # "none" =>
    /\ outcome = "completed" => ~signal /\ tail = "answer"
    /\ outcome = "cancelled" => signal
    /\ lane > 0 /\ outcome \notin {"cancelled", "step_limit"} => extensions = MaxExtensions

(* The reader of one response hears one upstream request only, the last,   *)
(* over all retries and targets, and there are never more requests than    *)
(* the retries of all targets allow (the "produced" lock).                 *)
OneVoice == voices \subseteq {sent} /\ sent <= MostRequests

(* The log is what TurnProtocol promises.                                  *)
Log == INSTANCE TurnProtocol WITH
  phase <- CASE at = "idle" -> "idle" [] at = "over" -> "over" [] OTHER -> "running",
  owed <- calls - answered,
  replied <- tail = "answer"

LogKeepsProtocol == Log!Spec

WaitsForTool ==
  at = "tools" /\ \E c \in CallIds \ Pending : tool[c] = "running"

(* The hypothesis that no response is read for ever: it ends, breaks or is *)
(* cut off by the repetition guard.                                        *)
ResponsesEnd == (at = "model" ~> at # "model") /\ (at = "wrapup" ~> at # "wrapup")

(* A cancelled turn ends whatever the model, the tools and the user do;    *)
(* and if no response is read for ever, every turn ends by its own limits  *)
(* (steps, extensions, retries, batches), unless it waits for a tool that  *)
(* does not return.                                                        *)
TurnEnds ==
  /\ signal ~> at = "over"
  /\ ResponsesEnd => (at = "top" ~> at = "over" \/ WaitsForTool)

(* What a turn leaves behind comes to its end: the request that nobody     *)
(* reads stops, unless it was given up without a closing hook, and the     *)
(* questions are settled.                                                  *)
LeftoversEnd ==
  at = "over" ~> Pending = {} /\ (stage = "idle" \/ reader = "nobody")

(* A question waits for its user only as long as its call waits for it     *)
(* (packages/core/src/question.ts, line 97).                               *)
QuestionsEndWithTheirTurn == Pending # {} => at = "tools"

(* A cancelled turn sends no further request: "the user asked for the turn *)
(* to stop, and a retry would keep a cancelled turn alive behind their     *)
(* back" (packages/llm/src/retry.ts, lines 314-316).                       *)
CancelledTurnSendsNothing == [][signal => sent' <= sent]_vars
=============================================================================
