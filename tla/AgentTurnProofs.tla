---------------------------- MODULE AgentTurnProofs ----------------------------
(***************************************************************************)
(* Proofs about AgentTurn.  Every step of the composition is a step of the *)
(* loop or leaves it alone, and the same of the request and the questions, *)
(* so the invariants of the components are proved one by one.              *)
(***************************************************************************)
EXTENDS AgentTurn, TLAPS

LoopAction ==
  \/ StartTurn \/ ReachStepLimit \/ NoticeCancel \/ BeginStep \/ BreakDown
  \/ TakeAnswer \/ (\E n \in CallIds : TakeCalls(n))
  \/ TakeFailure("error") \/ TakeFailure("interrupted")
  \/ RetryCollapsed \/ WrapUp \/ (\E text \in BOOLEAN : EndWrapUp(text)) \/ DropResponse
  \/ (\E c \in CallIds : ToolReturns(c))
  \/ BatchReturns \/ RecordResult \/ NextBatch \/ Continue \/ DropBatch \/ EndTurn
  \/ Arrive \/ Cancel

RequestAction ==
  \/ Generate \/ Decorators \/ Speak \/ Close
  \/ (\E closes \in BOOLEAN : Abandon(closes))

QuestionAction ==
  \/ (\E asked : Park(asked))
  \/ (\E q \in CallIds : AnswerQuestion(q) \/ DismissQuestion(q) \/ ExpireQuestion(q))

(* Each step, seen by each component.                                      *)
LEMMA StepsProject ==
  ASSUME [Next]_vars
  PROVE  /\ [LoopAction]_loopVars
         /\ [RequestAction]_requestVars
         /\ [QuestionAction]_question
<1> USE DEF LoopAction, RequestAction, QuestionAction, loopVars, requestVars, stepVars
<1>1. ASSUME LoopAlone PROVE LoopAction /\ UNCHANGED <<requestVars, question>>
  BY <1>1, Zenon DEF LoopAlone
<1>2. CASE LoopAlone
  BY <1>1, <1>2
<1>3. CASE AskModel
  BY <1>3 DEF AskModel
<1>4. CASE HearCancel \/ HearCancelInWrapUp
  <2>1. (voices # {}) \in BOOLEAN
    OBVIOUS
  <2> QED
    BY <1>4, <2>1 DEF HearCancel, HearCancelInWrapUp
<1>5. CASE DispatchNext \/ NextStep
  BY <1>5 DEF DispatchNext, NextStep
<1>6. CASE HearDelta
  BY <1>6 DEF HearDelta
<1>7. CASE HearAnswer
  BY <1>7 DEF HearAnswer, Complete
<1>8. CASE HearCalls
  BY <1>8 DEF HearCalls, Complete
<1>9. CASE HearFailure
  BY <1>9 DEF HearFailure, GiveUp
<1>10. CASE HearCollapse \/ HearLastCollapse
  BY <1>10 DEF HearCollapse, HearLastCollapse
<1>11. CASE HearClosing
  <2>1. (voices # {}) \in BOOLEAN
    OBVIOUS
  <2> QED
    BY <1>11, <2>1 DEF HearClosing, Complete, GiveUp
<1>12. CASE Request
  BY <1>12 DEF Request
<1>13. ASSUME NEW c \in CallIds, FinishTool(c) \/ UserSettles(c) \/ DeadlineSettles(c)
       PROVE  LoopAction /\ UNCHANGED requestVars /\ [QuestionAction]_question
  BY <1>13 DEF FinishTool, UserSettles, DeadlineSettles
<1>14. CASE Environment
  BY <1>14 DEF Environment
<1>15. CASE UNCHANGED vars
  BY <1>15 DEF vars
<1> QED
  BY <1>2, <1>3, <1>4, <1>5, <1>6, <1>7, <1>8, <1>9, <1>10, <1>11, <1>12, <1>13,
     <1>14, <1>15 DEF Next, LoopSteps, Hear

-----------------------------------------------------------------------------
(* The request                                                             *)

Budget == MaxRetries + 1

(* The requests sent so far are those of the targets left behind, the      *)
(* retries of this one, and, unless it waits, its present one.             *)
SentInv ==
  /\ stage = "waiting" => sent <= (attempt - 1) * Budget + retry
  /\ stage = "leaving" => sent <= (attempt - 1) * Budget /\ retry = 0
  /\ stage \in {"idle", "sending", "open"} =>
       sent <= (attempt - 1) * Budget + retry + 1

(* Nobody hears anything before the deltas of an open stream, and an       *)
(* attempt that was heard is not repeated.                                 *)
VoiceInv ==
  /\ voices \subseteq {sent}
  /\ ~produced => voices = {}
  /\ stage \in {"sending", "waiting", "leaving"} => ~produced
  /\ stage # "idle" => sent > 0

RequestInv == RequestTypeOK /\ SentInv /\ VoiceInv

LEMMA RequestStarts ==
  ASSUME RequestInit
  PROVE  RequestInv
<1>1. (1 - 1) * Budget = 0 /\ Budget \in Nat
  BY RequestAssumption DEF Budget
<1> HIDE DEF Budget
<1>2. RequestTypeOK
  <2>1. chainLength \in ChainLengths /\ chainLength \in Nat \ {0} /\ 0 \in 0..MaxRetries
    BY RequestAssumption DEF RequestInit
  <2>2. 1 \in 1..chainLength
    BY <2>1
  <2>3. produced \in BOOLEAN /\ held \in BOOLEAN
    BY DEF RequestInit
  <2> QED
    BY <2>1, <2>2, <2>3 DEF RequestInit, RequestTypeOK, Stages, Readers
<1> QED
  BY <1>1, <1>2 DEF RequestInit, RequestInv, SentInv, VoiceInv

(* One target uses up its requests before the next one is asked.           *)
LEMMA TargetsAddUp ==
  ASSUME NEW a \in Nat, NEW b \in Nat
  PROVE  /\ (a + 1) * b = a * b + b
         /\ a * b \in Nat
BY SMT

LEMMA MoreTargetsMoreRequests ==
  ASSUME NEW a \in Nat, NEW n \in Nat, NEW b \in Nat, a <= n
  PROVE  a * b <= n * b
BY SMT

LEMMA RequestStepKeeps ==
  ASSUME RequestInv, [RequestAction]_requestVars
  PROVE  RequestInv'
<1> DEFINE left == (attempt - 1) * Budget
<1>1. /\ chainLength \in Nat \ {0} /\ MaxRetries \in Nat /\ Budget \in Nat
      /\ attempt \in Nat \ {0} /\ attempt <= chainLength /\ retry \in 0..MaxRetries
      /\ sent \in Nat
  BY RequestAssumption DEF RequestInv, RequestTypeOK, Budget
<1>2. left \in Nat /\ attempt * Budget = left + Budget
  <2>1. attempt - 1 \in Nat /\ (attempt - 1) + 1 = attempt
    BY <1>1
  <2> HIDE DEF Budget
  <2> QED
    BY <1>1, <2>1, TargetsAddUp
<1>3. ASSUME Generate PROVE RequestInv'
  <2>1. (1 - 1) * Budget' = 0
    BY <1>1 DEF Budget
  <2>2. held' \in BOOLEAN
    BY <1>3 DEF Generate
  <2>3. chainLength' \in ChainLengths /\ 1 \in 1..chainLength' /\ 0 \in 0..MaxRetries
    BY <1>1, <1>3 DEF Generate, RequestInv, RequestTypeOK
  <2>4. produced' \in BOOLEAN
    BY <1>3 DEF Generate
  <2>5. RequestTypeOK'
    BY <1>1, <1>3, <2>2, <2>3, <2>4 DEF Generate, RequestInv, RequestTypeOK, Stages, Readers
  <2> HIDE DEF Budget
  <2> QED
    BY <1>3, <2>1, <2>5 DEF Generate, RequestInv, SentInv, VoiceInv
<1> DEFINE Same == attempt' = attempt /\ chainLength' = chainLength
<1>4. Same => left' = left
  BY DEF Budget
<1> HIDE DEF left
<1>5. SentInv <=> /\ stage = "waiting" => sent <= left + retry
                  /\ stage = "leaving" => sent <= left /\ retry = 0
                  /\ stage \in {"idle", "sending", "open"} => sent <= left + retry + 1
  BY DEF SentInv, left
<1>6. SentInv' <=> /\ stage' = "waiting" => sent' <= left' + retry'
                   /\ stage' = "leaving" => sent' <= left' /\ retry' = 0
                   /\ stage' \in {"idle", "sending", "open"} => sent' <= left' + retry' + 1
  BY DEF SentInv, left
<1> USE DEF RequestInv, RequestTypeOK, VoiceInv, Stages, Readers
<1>7. CASE Respond
  BY <1>1, <1>2, <1>4, <1>5, <1>6, <1>7, SMT DEF Respond
<1>8. ASSUME NEW failure, BackOff(failure) PROVE RequestInv'
  BY <1>1, <1>2, <1>4, <1>5, <1>6, <1>8, SMT DEF BackOff, CanRetry, Retryable, InFlight
<1>9. ASSUME NEW failure, HandOver(failure) PROVE RequestInv'
  <2>1. left' = attempt * Budget
    BY <1>1, <1>9 DEF HandOver, left, Budget
  <2>2. sent <= left'
    BY <1>1, <1>2, <1>5, <1>9, <2>1 DEF HandOver, InFlight, Budget
  <2> QED
    BY <1>1, <1>6, <1>9, <2>2, SMT DEF HandOver, CanHandOver, Retryable, InFlight
<1>10. CASE Resend
  BY <1>1, <1>2, <1>4, <1>5, <1>6, <1>10, SMT DEF Resend
<1>11. CASE Speak
  BY <1>1, <1>2, <1>4, <1>5, <1>6, <1>11, SMT DEF Speak
<1>12. ASSUME Close PROVE RequestInv'
  <2>1. sent <= left + retry + 1
    BY <1>1, <1>2, <1>5
  <2> QED
    BY <1>1, <1>2, <1>4, <1>6, <1>12, <2>1, SMT DEF Close
<1>13. ASSUME NEW closes, Abandon(closes) PROVE RequestInv'
  BY <1>1, <1>2, <1>4, <1>5, <1>6, <1>13, SMT DEF Abandon
<1>14. CASE Fade
  BY <1>12, <1>14 DEF Fade
<1>15. CASE UNCHANGED requestVars
  BY <1>1, <1>2, <1>4, <1>5, <1>6, <1>15, SMT DEF requestVars
<1> QED
  BY <1>3, <1>7, <1>8, <1>9, <1>10, <1>11, <1>12, <1>13, <1>14, <1>15
     DEF RequestAction, Decorators

LEMMA RequestBound ==
  ASSUME RequestInv
  PROVE  OneVoice
<1>1. /\ chainLength \in Nat \ {0} /\ Budget \in Nat /\ MaxRetries \in Nat
      /\ attempt \in Nat \ {0} /\ attempt <= chainLength /\ retry \in 0..MaxRetries
      /\ sent \in Nat
  BY RequestAssumption DEF RequestInv, RequestTypeOK, Budget
<1>2. /\ attempt * Budget = (attempt - 1) * Budget + Budget
      /\ (attempt - 1) * Budget \in Nat
  <2>1. attempt - 1 \in Nat /\ (attempt - 1) + 1 = attempt
    BY <1>1
  <2> HIDE DEF Budget
  <2> QED
    BY <1>1, <2>1, TargetsAddUp
<1>3. attempt * Budget <= chainLength * Budget
  BY <1>1, MoreTargetsMoreRequests
<1>4. chainLength * Budget = MostRequests
  BY DEF Budget, MostRequests
<1> DEFINE left == (attempt - 1) * Budget
           all  == attempt * Budget
<1>5. /\ stage = "waiting" => sent <= left + retry
      /\ stage = "leaving" => sent <= left /\ retry = 0
      /\ stage \in {"idle", "sending", "open"} => sent <= left + retry + 1
      /\ stage \in Stages
  BY DEF RequestInv, SentInv, RequestTypeOK
<1>6. Budget = MaxRetries + 1
  BY DEF Budget
<1>7. all \in Nat
  BY <1>1, <1>2
<1> HIDE DEF left, all
<1>8. sent <= all
  BY <1>1, <1>2, <1>5, <1>6 DEF Stages, left, all
<1> QED
  BY <1>3, <1>4, <1>8, <1>1, <1>7 DEF RequestInv, VoiceInv, OneVoice, all, MostRequests

-----------------------------------------------------------------------------
(* The loop                                                                *)

(* Between two steps there are no calls.                                   *)
Fresh ==
  /\ calls = 0 /\ dispatched = 0 /\ answered = 0
  /\ \A c \in CallIds : tool[c] = "none" /\ said[c] = "none"

(* While the calls of a step are worked off, a prefix of them is answered  *)
(* and a longer one dispatched.                                            *)
BatchInv ==
  /\ answered <= dispatched
  /\ at = "tools" => answered < dispatched
  /\ \A c \in CallIds :
       /\ c <= answered => tool[c] = "returned"
       /\ at = "recording" /\ c <= dispatched => tool[c] = "returned"
       /\ c <= dispatched <=> tool[c] # "none"
       /\ answered < c => said[c] = "none"

LoopInv ==
  /\ LoopTypeOK
  /\ lane <= arrived
  /\ at \in {"idle", "top", "model", "wrapup"} => Fresh
  /\ at = "idle" => tail = "none"
  /\ at = "model" => steps > 0
  /\ at \in {"tools", "recording"} => BatchInv /\ tail \in {"call", "result"}
  /\ at \in {"ending", "over"} => answered = calls
  /\ outcome # "none" => at \in {"ending", "over"}
  /\ ToolRowsAreHonest
  /\ OutcomeIsHonest

LEMMA Bounds ==
  /\ MaxCalls \in Nat \ {0} /\ MaxParallel \in Nat \ {0}
  /\ MaxSteps \in Nat /\ MaxExtensions \in Nat /\ MaxArrivals \in Nat
  /\ RepetitionRetries \in Nat
BY LoopAssumption

LEMMA LoopStarts ==
  ASSUME LoopInit
  PROVE  LoopInv
<1>1. LoopTypeOK
  <2>1. signal \in BOOLEAN
    BY DEF LoopInit
  <2>2. tool \in [CallIds -> {"none", "running", "returned"}]
    BY DEF LoopInit, NoCalls
  <2>3. said \in [CallIds -> {"none", "result", "uncertain", "never"}]
    BY DEF LoopInit, NoCalls
  <2> QED
    BY <2>1, <2>2, <2>3, Bounds DEF LoopInit, LoopTypeOK, Points, Outcomes
<1> QED
  BY <1>1 DEF LoopInit, LoopInv, Fresh, BatchInv, ToolRowsAreHonest, OutcomeIsHonest, NoCalls

(* Steps that touch neither the calls nor their rows.                      *)
LEMMA QuietStepKeeps ==
  ASSUME LoopInv, UNCHANGED <<calls, dispatched, answered, said, tool>>,
         \/ StartTurn \/ ReachStepLimit \/ NoticeCancel \/ BeginStep \/ BreakDown
         \/ TakeAnswer \/ TakeFailure("error") \/ TakeFailure("interrupted")
         \/ RetryCollapsed \/ WrapUp \/ (\E text \in BOOLEAN : EndWrapUp(text))
         \/ DropResponse \/ BatchReturns \/ EndTurn \/ Arrive \/ Cancel
  PROVE  LoopInv'
<1> USE Bounds DEF LoopInv, LoopTypeOK, Points, Outcomes
<1>1. Fresh' <=> Fresh
  BY DEF Fresh
<1>2. ToolRowsAreHonest'
  BY DEF ToolRowsAreHonest
<1>3. at' = at => (BatchInv' <=> BatchInv)
  BY DEF BatchInv
<1>4. CASE StartTurn
  BY <1>1, <1>2, <1>4, SMT DEF StartTurn, OutcomeIsHonest
<1>5. CASE ReachStepLimit
  BY <1>1, <1>2, <1>5, SMT DEF ReachStepLimit, Decide, OutcomeIsHonest, Fresh
<1>6. CASE NoticeCancel
  BY <1>1, <1>2, <1>6, SMT DEF NoticeCancel, Decide, OutcomeIsHonest, Fresh
<1>7. CASE BeginStep
  BY <1>1, <1>2, <1>7, SMT DEF BeginStep, OutcomeIsHonest
<1>8. CASE BreakDown
  BY <1>1, <1>2, <1>8, SMT DEF BreakDown, Decide, OutcomeIsHonest, Fresh
<1>9. CASE TakeAnswer
  BY <1>1, <1>2, <1>9, SMT DEF TakeAnswer, Finalize, Decide, OutcomeIsHonest, Fresh
<1>10. CASE TakeFailure("error") \/ TakeFailure("interrupted")
  BY <1>1, <1>2, <1>10, SMT DEF TakeFailure, Finalize, Decide, OutcomeIsHonest, Fresh
<1>11. CASE RetryCollapsed
  BY <1>1, <1>2, <1>11, SMT DEF RetryCollapsed, OutcomeIsHonest
<1>12. CASE WrapUp
  BY <1>1, <1>2, <1>12, SMT DEF WrapUp, OutcomeIsHonest
<1>13. ASSUME NEW text \in BOOLEAN, EndWrapUp(text) PROVE LoopInv'
  BY <1>1, <1>2, <1>13, SMT DEF EndWrapUp, Finalize, Decide, OutcomeIsHonest, Fresh
<1>14. CASE DropResponse
  BY <1>1, <1>2, <1>14, SMT DEF DropResponse, Decide, OutcomeIsHonest, Fresh
<1>15. CASE BatchReturns
  <2>1. BatchInv'
    BY <1>15, SMT DEF BatchReturns, BatchInv, CallIds
  <2> QED
    BY <1>1, <1>2, <1>15, <2>1 DEF BatchReturns, OutcomeIsHonest
<1>16. CASE EndTurn
  BY <1>1, <1>2, <1>16, SMT DEF EndTurn, OutcomeIsHonest
<1>17. CASE Arrive
  <2>1. lane' \in 0..MaxArrivals
    BY <1>17 DEF Arrive
  <2> QED
    BY <1>1, <1>2, <1>3, <1>17, <2>1, SMT DEF Arrive, Awaiting, OutcomeIsHonest
<1>18. CASE Cancel
  BY <1>1, <1>2, <1>3, <1>18, SMT DEF Cancel, Awaiting, OutcomeIsHonest
<1> QED
  BY <1>4, <1>5, <1>6, <1>7, <1>8, <1>9, <1>10, <1>11, <1>12, <1>13, <1>14, <1>15,
     <1>16, <1>17, <1>18

(* Dispatch starts the calls after from, and at least one of them.         *)
LEMMA DispatchStarts ==
  ASSUME NEW n \in CallIds, NEW from \in 0..n, from < n, Dispatch(from, n)
  PROVE  /\ at' = "tools" /\ dispatched' \in (from + 1)..n
         /\ \A c \in CallIds :
              tool'[c] = IF from < c /\ c <= dispatched' THEN "running" ELSE tool[c]
         /\ LoopInv => tool' \in [CallIds -> {"none", "running", "returned"}]
<1>1. dispatched' \in (from + 1)..n
  BY Bounds DEF Dispatch, CallIds
<1>2. tool' = [c \in CallIds |-> IF c \in (from + 1)..dispatched' THEN "running" ELSE tool[c]]
  BY DEF Dispatch
<1>3. \A c \in CallIds : c \in (from + 1)..dispatched' <=> from < c /\ c <= dispatched'
  BY <1>1, Bounds DEF CallIds
<1> QED
  BY <1>1, <1>2, <1>3 DEF Dispatch, LoopInv, LoopTypeOK

LEMMA CallStepKeeps ==
  ASSUME LoopInv,
         \/ (\E n \in CallIds : TakeCalls(n)) \/ (\E c \in CallIds : ToolReturns(c))
         \/ RecordResult \/ NextBatch \/ Continue \/ DropBatch
  PROVE  LoopInv'
<1> USE Bounds DEF LoopInv
<1>1. ASSUME NEW n \in CallIds, TakeCalls(n) PROVE LoopInv'
  <2>1. /\ 0 \in 0..n /\ 0 < n /\ at = "model" /\ Fresh /\ n \in 0..MaxCalls
    BY <1>1 DEF TakeCalls, CallIds
  <2>2. /\ at' = "tools" /\ dispatched' \in 1..n
        /\ \A c \in CallIds : tool'[c] = IF c <= dispatched' THEN "running" ELSE tool[c]
        /\ tool' \in [CallIds -> {"none", "running", "returned"}]
    BY <1>1, <2>1, DispatchStarts DEF TakeCalls, CallIds
  <2>3. LoopTypeOK'
    BY <1>1, <2>1, <2>2 DEF TakeCalls, LoopTypeOK, Points, Fresh
  <2>4. BatchInv'
    BY <1>1, <2>1, <2>2 DEF TakeCalls, BatchInv, Fresh, CallIds
  <2>5. ToolRowsAreHonest'
    BY <1>1, <2>1 DEF TakeCalls, Fresh, ToolRowsAreHonest
  <2> QED
    BY <1>1, <2>1, <2>2, <2>3, <2>4, <2>5 DEF TakeCalls, OutcomeIsHonest
<1>2. ASSUME NEW c \in CallIds, ToolReturns(c) PROVE LoopInv'
  <2>1. /\ tool' \in [CallIds -> {"none", "running", "returned"}]
        /\ \A d \in CallIds : tool'[d] = IF d = c THEN "returned" ELSE tool[d]
        /\ tool[c] = "running"
    BY <1>2 DEF ToolReturns, LoopTypeOK
  <2>2. LoopTypeOK'
    BY <1>2, <2>1 DEF ToolReturns, LoopTypeOK, stepVars
  <2>3. BatchInv => BatchInv'
    BY <1>2, <2>1 DEF ToolReturns, BatchInv, stepVars
  <2>4. Fresh => Fresh'
    BY <1>2, <2>1 DEF ToolReturns, Fresh, stepVars
  <2>5. ToolRowsAreHonest'
    BY <1>2, <2>1 DEF ToolReturns, ToolRowsAreHonest, stepVars
  <2> QED
    BY <1>2, <2>2, <2>3, <2>4, <2>5 DEF ToolReturns, OutcomeIsHonest, stepVars
<1>3. CASE RecordResult
  <2>1. /\ at = "recording" /\ BatchInv /\ answered + 1 \in CallIds
        /\ answered + 1 \in 0..calls /\ answered + 1 <= dispatched
    BY <1>3 DEF RecordResult, LoopTypeOK, CallIds
  <2>2. /\ said' \in [CallIds -> {"none", "result", "uncertain", "never"}]
        /\ \A c \in CallIds : said'[c] = IF c = answered + 1 THEN "result" ELSE said[c]
    BY <1>3, <2>1 DEF RecordResult, LoopTypeOK
  <2>3. LoopTypeOK'
    BY <1>3, <2>1, <2>2 DEF RecordResult, LoopTypeOK
  <2>4. BatchInv'
    BY <1>3, <2>1, <2>2 DEF RecordResult, BatchInv, LoopTypeOK, CallIds
  <2>5. ToolRowsAreHonest'
    BY <1>3, <2>1, <2>2 DEF RecordResult, ToolRowsAreHonest, BatchInv
  <2> QED
    BY <1>3, <2>1, <2>3, <2>4, <2>5 DEF RecordResult, OutcomeIsHonest
<1>4. CASE NextBatch
  <2>1. /\ calls \in CallIds /\ dispatched \in 0..calls /\ dispatched < calls
        /\ BatchInv /\ answered = dispatched /\ tail \in {"call", "result"}
    BY <1>4 DEF NextBatch, LoopTypeOK, CallIds
  <2>2. /\ at' = "tools" /\ dispatched' \in (dispatched + 1)..calls
        /\ \A c \in CallIds : tool'[c] = IF dispatched < c /\ c <= dispatched'
                                           THEN "running" ELSE tool[c]
        /\ tool' \in [CallIds -> {"none", "running", "returned"}]
    BY <1>4, <2>1, DispatchStarts DEF NextBatch
  <2>3. LoopTypeOK'
    BY <1>4, <2>1, <2>2 DEF NextBatch, LoopTypeOK, Points
  <2>4. BatchInv'
    BY <1>4, <2>1, <2>2 DEF NextBatch, BatchInv, CallIds
  <2>5. ToolRowsAreHonest'
    BY <1>4, <2>1, <2>2 DEF NextBatch, ToolRowsAreHonest, BatchInv, CallIds
  <2> QED
    BY <1>4, <2>1, <2>2, <2>3, <2>4, <2>5 DEF NextBatch, OutcomeIsHonest
<1>5. CASE Continue
  <2>1. Fresh' /\ tool' \in [CallIds -> {"none", "running", "returned"}]
        /\ said' \in [CallIds -> {"none", "result", "uncertain", "never"}]
    BY <1>5 DEF Continue, NoCalls, Fresh
  <2>2. LoopTypeOK'
    BY <1>5, <2>1 DEF Continue, LoopTypeOK, Points
  <2> QED
    BY <1>5, <2>1, <2>2 DEF Continue, OutcomeIsHonest, ToolRowsAreHonest, Fresh
<1>6. CASE DropBatch
  <2>1. /\ at = "tools" /\ BatchInv /\ calls \in 0..MaxCalls
        /\ answered \in Nat /\ dispatched \in Nat
    BY <1>6 DEF DropBatch, LoopTypeOK
  <2>2. /\ said' \in [CallIds -> {"none", "result", "uncertain", "never"}]
        /\ \A c \in CallIds :
             said'[c] = IF c \notin (answered + 1)..calls THEN said[c]
                        ELSE IF c <= dispatched THEN "uncertain" ELSE "never"
    BY <1>6 DEF DropBatch, LoopTypeOK
  <2>3. LoopTypeOK'
    BY <1>6, <2>1, <2>2 DEF DropBatch, Decide, LoopTypeOK, Points, Outcomes
  <2>4. ToolRowsAreHonest'
    BY <1>6, <2>1, <2>2 DEF DropBatch, ToolRowsAreHonest, BatchInv
  <2> QED
    BY <1>6, <2>3, <2>4 DEF DropBatch, Decide, OutcomeIsHonest
<1> QED
  BY <1>1, <1>2, <1>3, <1>4, <1>5, <1>6

LEMMA LoopStepKeeps ==
  ASSUME LoopInv, [LoopAction]_loopVars
  PROVE  LoopInv'
<1>1. CASE UNCHANGED loopVars
  BY <1>1 DEF loopVars, LoopInv, LoopTypeOK, Fresh, BatchInv, ToolRowsAreHonest, OutcomeIsHonest
<1>2. CASE \/ (\E n \in CallIds : TakeCalls(n)) \/ (\E c \in CallIds : ToolReturns(c))
           \/ RecordResult \/ NextBatch \/ Continue \/ DropBatch
  BY <1>2, CallStepKeeps
<1>3. CASE \/ StartTurn \/ ReachStepLimit \/ NoticeCancel \/ BeginStep \/ BreakDown
           \/ TakeAnswer \/ TakeFailure("error") \/ TakeFailure("interrupted")
           \/ RetryCollapsed \/ WrapUp \/ (\E text \in BOOLEAN : EndWrapUp(text))
           \/ DropResponse \/ BatchReturns \/ EndTurn \/ Arrive \/ Cancel
  <2>1. UNCHANGED <<calls, dispatched, answered, said, tool>>
    BY <1>3 DEF StartTurn, ReachStepLimit, NoticeCancel, BeginStep, BreakDown, TakeAnswer,
      TakeFailure, RetryCollapsed, WrapUp, EndWrapUp, DropResponse, BatchReturns, EndTurn,
      Arrive, Cancel, stepVars
  <2> QED
    BY <1>3, <2>1, QuietStepKeeps
<1> QED
  BY <1>1, <1>2, <1>3 DEF LoopAction

-----------------------------------------------------------------------------
(* The questions                                                           *)

LEMMA QuestionStepKeeps ==
  ASSUME QuestionTypeOK, [QuestionAction]_question
  PROVE  QuestionTypeOK'
BY DEF QuestionTypeOK, QuestionAction, Park, AnswerQuestion, DismissQuestion,
       ExpireQuestion, Settle

-----------------------------------------------------------------------------
(* The turn                                                                *)

IInv == LoopInv /\ RequestInv /\ QuestionTypeOK

(* The components keep their invariants together.                          *)
THEOREM AgentInvariant == Spec => []IInv
<1>1. Init => IInv
  BY LoopStarts, RequestStarts DEF Init, IInv, QuestionInit, QuestionTypeOK
<1>2. IInv /\ [Next]_vars => IInv'
  BY StepsProject, LoopStepKeeps, RequestStepKeeps, QuestionStepKeeps DEF IInv
<1> QED
  BY <1>1, <1>2, PTL DEF Spec

(* Types of the loop, the request and the questions, for any limits of the *)
(* configuration.                                                          *)
THEOREM AgentTypes == Spec => []AgentTypeOK
<1>1. IInv => AgentTypeOK
  BY DEF IInv, LoopInv, RequestInv, AgentTypeOK
<1> QED
  BY <1>1, AgentInvariant, PTL

(* The result rows of a step say what became of its executions.            *)
THEOREM ToolRowsTellTheTruth == Spec => []ToolRowsAreHonest
<1>1. IInv => ToolRowsAreHonest
  BY DEF IInv, LoopInv
<1> QED
  BY <1>1, AgentInvariant, PTL

(* The outcome of a turn agrees with its cancel, its last word and what    *)
(* still waits for it.                                                     *)
THEOREM OutcomeTellsTheTruth == Spec => []OutcomeIsHonest
<1>1. IInv => OutcomeIsHonest
  BY DEF IInv, LoopInv
<1> QED
  BY <1>1, AgentInvariant, PTL

(* A response has one voice, over all retries and targets, and the number  *)
(* of requests is bounded by the chain.                                    *)
THEOREM ResponsesHaveOneVoice == Spec => []OneVoice
<1>1. IInv => OneVoice
  BY RequestBound DEF IInv
<1> QED
  BY <1>1, AgentInvariant, PTL

-----------------------------------------------------------------------------
(* The log implements TurnProtocol                                         *)

LogPhase == CASE at = "idle" -> "idle" [] at = "over" -> "over" [] OTHER -> "running"
Owed == calls - answered
Replied == tail = "answer"

LEMMA LogInitially ==
  ASSUME LoopInit
  PROVE  Log!Init
BY DEF LoopInit, Log!Init

LEMMA PhaseCases ==
  /\ at = "idle" => LogPhase = "idle"
  /\ at = "over" => LogPhase = "over"
  /\ at \notin {"idle", "over"} => LogPhase = "running"
BY DEF LogPhase

(* The steps of the protocol, in the terms of the loop.                    *)
LEMMA ProtocolSteps ==
  /\ LogPhase = "idle" /\ LogPhase' = "running" /\ Owed' = Owed /\ (Replied' <=> Replied)
       => Log!Next
  /\ LogPhase = "running" /\ LogPhase' = "running" /\ Owed = 0 /\ Owed' = 0
       => Log!Next
  /\ LogPhase = "running" /\ LogPhase' = "running" /\ Owed = 0 /\ Owed' \in 1..MaxCalls /\ ~Replied'
       => Log!Next
  /\ LogPhase = "running" /\ LogPhase' = "running" /\ Owed' \in 0..(Owed - 1) /\ (Replied' <=> Replied)
       => Log!Next
  /\ LogPhase = "running" /\ LogPhase' = "over" /\ Owed = 0 /\ Owed' = 0 /\ (Replied' <=> Replied)
       => Log!Next
  /\ LogPhase' = LogPhase /\ Owed' = Owed /\ (Replied' <=> Replied)
       => UNCHANGED Log!protocolVars
<1> USE DEF LogPhase, Owed, Replied
<1>1. LogPhase = "idle" /\ LogPhase' = "running" /\ Owed' = Owed /\ (Replied' <=> Replied) => Log!Begin
  BY DEF Log!Begin
<1>2. LogPhase = "running" /\ LogPhase' = "running" /\ Owed = 0 /\ Owed' = 0 /\ Replied' => Log!Reply
  BY DEF Log!Reply
<1>3. LogPhase = "running" /\ LogPhase' = "running" /\ Owed = 0 /\ Owed' = 0 /\ ~Replied' => Log!Tell
  BY DEF Log!Tell
<1>4. LogPhase = "running" /\ LogPhase' = "running" /\ Owed = 0 /\ Owed' \in 1..MaxCalls /\ ~Replied' => Log!Call
  BY DEF Log!Call
<1>5. LogPhase = "running" /\ LogPhase' = "running" /\ Owed' \in 0..(Owed - 1) /\ (Replied' <=> Replied) => Log!Result
  BY DEF Log!Result
<1>6. LogPhase = "running" /\ LogPhase' = "over" /\ Owed = 0 /\ Owed' = 0 /\ (Replied' <=> Replied) => Log!End
  BY DEF Log!End
<1>7. LogPhase' = LogPhase /\ Owed' = Owed /\ (Replied' <=> Replied) => UNCHANGED Log!protocolVars
  BY DEF Log!protocolVars
<1> HIDE DEF LogPhase, Owed, Replied
<1> QED
  BY <1>1, <1>2, <1>3, <1>4, <1>5, <1>6, <1>7 DEF Log!Next

LEMMA LogStep ==
  ASSUME LoopInv, [LoopAction]_loopVars
  PROVE  Log!Next \/ UNCHANGED Log!protocolVars
<1> USE DEF LoopInv
<1>1. /\ answered \in Nat /\ calls \in Nat /\ dispatched \in Nat /\ at \in Points
      /\ answered <= calls /\ dispatched <= calls
  BY Bounds DEF LoopTypeOK
<1>2. Owed = 0 <=> answered = calls
  BY <1>1 DEF Owed
<1>3. PhaseCases!1' /\ PhaseCases!2' /\ PhaseCases!3'
  BY DEF LogPhase
<1>4. ASSUME calls' = calls, answered' = answered PROVE Owed' = Owed
  BY <1>4 DEF Owed
<1>5. ASSUME tail' = tail PROVE Replied' <=> Replied
  BY <1>5 DEF Replied
<1>6. ASSUME at' = at PROVE LogPhase' = LogPhase
  BY <1>6 DEF LogPhase
<1> DEFINE Running == at \notin {"idle", "over"}
           Between == at \in {"top", "model", "wrapup"}
<1>7. CASE StartTurn
  BY <1>3, <1>4, <1>7, PhaseCases, ProtocolSteps DEF StartTurn, stepVars, Replied
(* A row of conversation, or none, while no result is owed.                *)
<1>8. ASSUME Between, Running', UNCHANGED <<calls, answered>>
      PROVE  Log!Next
  <2>1. Owed = 0 /\ Owed' = 0
    BY <1>2, <1>4, <1>8 DEF Fresh
  <2> QED
    BY <1>3, <1>8, <2>1, PhaseCases, ProtocolSteps
<1>9. CASE \/ ReachStepLimit \/ NoticeCancel \/ BeginStep \/ BreakDown
           \/ TakeAnswer \/ TakeFailure("error") \/ TakeFailure("interrupted")
           \/ RetryCollapsed \/ WrapUp \/ (\E text \in BOOLEAN : EndWrapUp(text))
           \/ DropResponse
  BY <1>8, <1>9 DEF ReachStepLimit, NoticeCancel, BeginStep, BreakDown, TakeAnswer,
    TakeFailure, RetryCollapsed, WrapUp, EndWrapUp, DropResponse, Decide, Finalize, stepVars
<1>10. ASSUME NEW n \in CallIds, TakeCalls(n) PROVE Log!Next
  <2>1. at = "model" /\ at' = "tools" /\ Owed = 0 /\ ~Replied'
    BY <1>2, <1>10 DEF TakeCalls, Dispatch, Fresh, Replied
  <2>2. Owed' \in 1..MaxCalls
    BY <1>1, <1>10, Bounds DEF TakeCalls, Fresh, Owed, CallIds
  <2> QED
    BY <1>3, <2>1, <2>2, PhaseCases, ProtocolSteps
<1>11. CASE RecordResult
  <2>1. at = "recording" /\ at' = "recording" /\ ~Replied /\ ~Replied'
    BY <1>11 DEF RecordResult, Replied
  <2>2. Owed' \in 0..(Owed - 1)
    BY <1>1, <1>11 DEF RecordResult, Owed
  <2> QED
    BY <1>3, <2>1, <2>2, PhaseCases, ProtocolSteps
<1>12. CASE DropBatch
  <2>1. at = "tools" /\ at' = "ending" /\ ~Replied /\ ~Replied'
    BY <1>12 DEF DropBatch, Decide, Replied
  <2>2. Owed' \in 0..(Owed - 1)
    BY <1>1, <1>12 DEF DropBatch, BatchInv, Owed
  <2> QED
    BY <1>3, <2>1, <2>2, PhaseCases, ProtocolSteps
<1>13. CASE EndTurn
  <2>1. at = "ending" /\ at' = "over" /\ Owed = 0 /\ Owed' = 0 /\ (Replied' <=> Replied)
    BY <1>2, <1>4, <1>5, <1>13 DEF EndTurn, stepVars
  <2> QED
    BY <1>3, <2>1, PhaseCases, ProtocolSteps
<1>14. CASE Continue
  <2>1. at = "recording" /\ at' = "top" /\ Owed = 0 /\ Owed' = 0
    BY <1>1, <1>14 DEF Continue, Owed
  <2> QED
    BY <1>3, <2>1, PhaseCases, ProtocolSteps
(* Steps that write no row.                                                *)
<1>15. ASSUME UNCHANGED <<calls, answered, tail>>, Running, Running' \/ at' = at
       PROVE  UNCHANGED Log!protocolVars
  BY <1>3, <1>4, <1>5, <1>6, <1>15, PhaseCases, ProtocolSteps
<1>16. CASE \/ (\E c \in CallIds : ToolReturns(c)) \/ BatchReturns \/ NextBatch
            \/ Arrive \/ Cancel \/ UNCHANGED loopVars
  <2>1. UNCHANGED <<calls, answered, tail>>
    BY <1>16 DEF ToolReturns, BatchReturns, NextBatch, Arrive, Cancel, loopVars, stepVars
  <2>2. at' = at \/ (Running /\ Running')
    BY <1>16 DEF ToolReturns, BatchReturns, NextBatch, Dispatch, Arrive, Cancel, loopVars
  <2>3. CASE at' = at
    BY <1>4, <1>5, <1>6, <2>1, <2>3, ProtocolSteps
  <2> QED
    BY <1>15, <2>1, <2>2, <2>3
<1> QED
  BY <1>7, <1>9, <1>10, <1>11, <1>12, <1>13, <1>14, <1>16 DEF LoopAction

(* The log keeps the protocol its readers rely on: every call answered in  *)
(* order before anything else is said, one end, whatever is cancelled.     *)
THEOREM LogImplementsProtocol == Spec => LogKeepsProtocol
<1>1. Init => Log!Init
  BY LogInitially DEF Init
<1>2. IInv /\ [Next]_vars => [Log!Next]_(Log!protocolVars)
  BY StepsProject, LogStep DEF IInv
<1> QED
  BY <1>1, <1>2, AgentInvariant, PTL DEF Spec, LogKeepsProtocol, Log!Spec
=============================================================================
