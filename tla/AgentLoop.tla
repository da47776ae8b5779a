------------------------------- MODULE AgentLoop -------------------------------
(***************************************************************************)
(* One turn of the agent loop (packages/agent-loop/src/loop.ts): it asks   *)
(* the model, writes the answer or the tool calls to the log, dispatches   *)
(* the calls in batches, writes their results, takes in what arrived       *)
(* meanwhile and asks again, until there is an answer, a limit, an error   *)
(* or a cancel.  The signal can fire whenever the loop awaits something.   *)
(*                                                                         *)
(* The module has the actions of the loop; AgentTurn joins them with the   *)
(* model request and with the tools.                                       *)
(***************************************************************************)
EXTENDS Naturals

CONSTANTS
  MaxSteps,           \* max_steps of the configuration, 0: no limit
  MaxParallel,        \* max_parallel_tool_calls
  MaxExtensions,      \* MAX_STEER_EXTENSIONS
  RepetitionRetries,  \* repetitionRetries: collapsed attempts of a step
  MaxCalls,           \* bound: tool calls of one answer
  MaxArrivals         \* bound: messages that arrive during the turn

ASSUME LoopAssumption ==
  /\ {MaxParallel, MaxCalls} \subseteq Nat \ {0}
  /\ {MaxSteps, MaxExtensions, RepetitionRetries, MaxArrivals} \subseteq Nat

VARIABLES
  at,          \* what the loop awaits
  signal,      \* has the turn been cancelled?
  lane,        \* messages waiting for the next step boundary
  arrived,     \* messages that have arrived for the turn so far
  steps,       \* stepsDone
  extensions,  \* steps granted because a message was still waiting
  retries,     \* collapsed attempts of this step
  calls,       \* tool calls of this step
  dispatched,  \* how many of them were dispatched
  answered,    \* how many of them have their result row
  tool,        \* the execution of each call
  said,        \* what the result row of each call says
  tail,        \* the last conversation row of the log
  outcome      \* how the turn ended

loopVars == <<at, signal, lane, arrived, steps, extensions, retries, calls,
              dispatched, answered, tool, said, tail, outcome>>

stepVars == <<calls, dispatched, answered, said>>

CallIds == 1..MaxCalls

NoCalls == [c \in CallIds |-> "none"]

(* "wrapup" reads the answer that closes a turn whose model keeps          *)
(* collapsing; "recording" awaits the spill of a result; "ending" has the  *)
(* outcome and not yet the turn_end row.                                   *)
Points == {"idle", "top", "model", "wrapup", "tools", "recording", "ending", "over"}

Outcomes == {"completed", "cancelled", "error", "step_limit", "interrupted"}

LoopTypeOK ==
  /\ at \in Points
  /\ signal \in BOOLEAN
  /\ lane \in 0..MaxArrivals /\ arrived \in 0..MaxArrivals
  /\ steps \in Nat /\ extensions \in 0..MaxExtensions
  /\ retries \in Nat
  /\ calls \in 0..MaxCalls
  /\ dispatched \in 0..calls /\ answered \in 0..calls
  /\ tool \in [CallIds -> {"none", "running", "returned"}]
  /\ said \in [CallIds -> {"none", "result", "uncertain", "never"}]
  /\ tail \in {"none", "user", "call", "result", "answer"}
  /\ outcome \in Outcomes \cup {"none"}

LoopInit ==
  /\ at = "idle" /\ signal = FALSE
  /\ lane = 0 /\ arrived = 0
  /\ steps = 0 /\ extensions = 0 /\ retries = 0
  /\ calls = 0 /\ dispatched = 0 /\ answered = 0
  /\ tool = NoCalls /\ said = NoCalls
  /\ tail = "none" /\ outcome = "none"

(* Nothing else happens while the loop runs from one await to the next.    *)
Awaiting == at \in {"idle", "model", "wrapup", "tools", "recording"}

-----------------------------------------------------------------------------
(* Where a step can lead                                                   *)

(* The turn is decided; its turn_end row is next.                          *)
Decide(o) ==
  /\ at' = "ending" /\ outcome' = o
  /\ UNCHANGED extensions

(* Mutant: the close guard forgets the messages that wait.                 *)
FinalizeAtOnce(o) == Decide(o)

(* A final verdict of a step, unless a message still waits and the turn    *)
(* may be extended.  The retries of the step are not given back.           *)
Finalize(o) ==
  IF lane > 0 /\ extensions < MaxExtensions
    THEN at' = "top" /\ extensions' = extensions + 1 /\ UNCHANGED outcome
    ELSE Decide(o)

(* Mutant: the last batch is counted as a full one.                        *)
DispatchFullBatch(from, n) ==
  /\ at' = "tools"
  /\ dispatched' = from + MaxParallel
  /\ tool' = [c \in CallIds |-> IF c \in (from + 1)..n THEN "running" ELSE tool[c]]

(* The next batch of the n calls of a step is dispatched; the abort signal *)
(* is only looked at while the batch is awaited.                           *)
Dispatch(from, n) ==
  LET upTo == IF from + MaxParallel < n THEN from + MaxParallel ELSE n
  IN  /\ at' = "tools"
      /\ dispatched' = upTo
      /\ tool' = [c \in CallIds |-> IF c \in (from + 1)..upTo THEN "running" ELSE tool[c]]

-----------------------------------------------------------------------------
(* The turn begins, and what can happen to it at any time                  *)

(* runTurn: turn_start, what the drain brought, and the input.             *)
StartTurn ==
  /\ at = "idle"
  /\ at' = "top" /\ tail' = "user" /\ lane' = 0
  /\ UNCHANGED <<signal, arrived, steps, extensions, retries, tool, outcome, stepVars>>

(* A message arrives for the next step.                                    *)
Arrive ==
  /\ Awaiting /\ arrived < MaxArrivals
  /\ lane' = lane + 1 /\ arrived' = arrived + 1
  /\ UNCHANGED <<at, signal, steps, extensions, retries, tool, tail, outcome, stepVars>>

Cancel ==
  /\ Awaiting /\ ~signal
  /\ signal' = TRUE
  /\ UNCHANGED <<at, lane, arrived, steps, extensions, retries, tool, tail, outcome, stepVars>>

-----------------------------------------------------------------------------
(* driveSteps: the top of the loop                                         *)

AtStepLimit == MaxSteps > 0 /\ steps >= MaxSteps

ReachStepLimit ==
  /\ at = "top" /\ AtStepLimit
  /\ Decide("step_limit")
  /\ UNCHANGED <<signal, lane, arrived, steps, retries, tool, tail, stepVars>>

NoticeCancel ==
  /\ at = "top" /\ ~AtStepLimit /\ signal
  /\ steps' = steps + 1
  /\ Decide("cancelled")
  /\ UNCHANGED <<signal, lane, arrived, retries, tool, tail, stepVars>>

(* injectPending, then the request.                                        *)
BeginStep ==
  /\ at = "top" /\ ~AtStepLimit /\ ~signal
  /\ at' = "model" /\ steps' = steps + 1
  /\ lane' = 0
  /\ tail' = IF lane > 0 THEN "user" ELSE tail
  /\ UNCHANGED <<signal, arrived, extensions, retries, tool, outcome, stepVars>>

(* A seam throws while the request is built.                               *)
BreakDown ==
  /\ at = "top" /\ ~AtStepLimit /\ ~signal
  /\ steps' = steps + 1 /\ lane' = 0
  /\ tail' = IF lane > 0 THEN "user" ELSE tail
  /\ Decide("error")
  /\ UNCHANGED <<signal, arrived, retries, tool, stepVars>>

-----------------------------------------------------------------------------
(* The response of the model                                               *)

(* An answer without tool calls.                                           *)
TakeAnswer ==
  /\ at = "model" /\ ~signal
  /\ tail' = "answer"
  /\ Finalize("completed")
  /\ UNCHANGED <<signal, lane, arrived, steps, retries, tool, stepVars>>

(* An answer with n tool calls: all their rows first, then the first batch.*)
TakeCalls(n) ==
  /\ at = "model" /\ ~signal
  /\ calls' = n
  /\ tail' = "call"
  /\ Dispatch(0, n)
  /\ UNCHANGED <<signal, lane, arrived, steps, extensions, retries, answered, said, outcome>>

(* The request failed for good, or its stream broke.                       *)
TakeFailure(o) ==
  /\ at = "model" /\ ~signal
  /\ Finalize(o)
  /\ UNCHANGED <<signal, lane, arrived, steps, retries, tool, tail, stepVars>>

(* Mutant: the attempt is repeated and not debited.                        *)
RetryCollapsedForFree ==
  /\ at = "model" /\ ~signal /\ retries < RepetitionRetries
  /\ at' = "top" /\ steps' = steps - 1
  /\ UNCHANGED <<signal, lane, arrived, extensions, retries, tool, tail, outcome, stepVars>>

(* The guard convicts a collapsed attempt that may be repeated: it costs   *)
(* no step.                                                                *)
RetryCollapsed ==
  /\ at = "model" /\ ~signal /\ retries < RepetitionRetries
  /\ at' = "top" /\ retries' = retries + 1 /\ steps' = steps - 1
  /\ UNCHANGED <<signal, lane, arrived, extensions, tool, tail, outcome, stepVars>>

(* ... or that may not: the model is asked once more to close the turn.    *)
WrapUp ==
  /\ at = "model" /\ ~signal /\ retries >= RepetitionRetries
  /\ at' = "wrapup" /\ tail' = "user"
  /\ UNCHANGED <<signal, lane, arrived, steps, extensions, retries, tool, outcome, stepVars>>

(* The closing answer ends in any way, the cancel included: what it said   *)
(* so far is the answer, and the turn is interrupted.                      *)
EndWrapUp(text) ==
  /\ at = "wrapup"
  /\ tail' = IF text THEN "answer" ELSE tail
  /\ Finalize("interrupted")
  /\ UNCHANGED <<signal, lane, arrived, steps, retries, tool, stepVars>>

(* The cancel wins the race against the response.                          *)
DropResponse ==
  /\ at = "model" /\ signal
  /\ Decide("cancelled")
  /\ UNCHANGED <<signal, lane, arrived, steps, retries, tool, tail, stepVars>>

-----------------------------------------------------------------------------
(* dispatchToolCalls                                                       *)

(* A call returns, possibly after the loop stopped to wait for it.         *)
ToolReturns(c) ==
  /\ tool[c] = "running"
  /\ tool' = [tool EXCEPT ![c] = "returned"]
  /\ UNCHANGED <<at, signal, lane, arrived, steps, extensions, retries, tail, outcome, stepVars>>

BatchReturns ==
  /\ at = "tools" /\ ~signal
  /\ \A c \in (answered + 1)..dispatched : tool[c] = "returned"
  /\ at' = "recording"
  /\ UNCHANGED <<signal, lane, arrived, steps, extensions, retries, tool, tail, outcome, stepVars>>

(* recordToolResult: the row of the next call, after its text was spilled. *)
(* The cancel is not looked at.                                            *)
RecordResult ==
  /\ at = "recording" /\ answered < dispatched
  /\ answered' = answered + 1
  /\ said' = [said EXCEPT ![answered + 1] = "result"]
  /\ tail' = "result"
  /\ UNCHANGED <<at, signal, lane, arrived, steps, extensions, retries, calls,
                 dispatched, tool, outcome>>

(* The next batch, cancelled or not.                                       *)
NextBatch ==
  /\ at = "recording" /\ answered = dispatched /\ dispatched < calls
  /\ Dispatch(dispatched, calls)
  /\ UNCHANGED <<signal, lane, arrived, steps, extensions, retries, calls,
                 answered, said, tail, outcome>>

(* Every call has its result: the next step.                               *)
Continue ==
  /\ at = "recording" /\ answered = dispatched /\ dispatched = calls
  /\ at' = "top" /\ retries' = 0
  /\ calls' = 0 /\ dispatched' = 0 /\ answered' = 0
  /\ tool' = NoCalls /\ said' = NoCalls
  /\ UNCHANGED <<signal, lane, arrived, steps, extensions, tail, outcome>>

(* Mutant: every call without a row is said to have never started.         *)
DropBatchAsNever ==
  /\ at = "tools" /\ signal
  /\ said' = [c \in CallIds |-> IF c \in (answered + 1)..calls THEN "never" ELSE said[c]]
  /\ answered' = calls
  /\ tail' = "result"
  /\ Decide("cancelled")
  /\ UNCHANGED <<signal, lane, arrived, steps, retries, calls, dispatched, tool>>

(* Mutant: a cancelled batch leaves its calls without results.             *)
DropBatchSilently ==
  /\ at = "tools" /\ signal
  /\ Decide("cancelled")
  /\ UNCHANGED <<signal, lane, arrived, steps, retries, tool, tail, stepVars>>

(* Mutant: the batch is awaited to its end before the cancel is noticed.   *)
DropBatchWhenDone ==
  /\ at = "tools" /\ signal
  /\ \A c \in (answered + 1)..dispatched : tool[c] = "returned"
  /\ said' = [c \in CallIds |-> IF c \notin (answered + 1)..calls THEN said[c]
                                ELSE IF c <= dispatched THEN "uncertain" ELSE "never"]
  /\ answered' = calls
  /\ tail' = "result"
  /\ Decide("cancelled")
  /\ UNCHANGED <<signal, lane, arrived, steps, retries, calls, dispatched, tool>>

(* The cancel wins the race against the batch: synthesizeCancelledResults  *)
(* writes a row for every call without one.                                *)
DropBatch ==
  /\ at = "tools" /\ signal
  /\ said' = [c \in CallIds |-> IF c \notin (answered + 1)..calls THEN said[c]
                                ELSE IF c <= dispatched THEN "uncertain" ELSE "never"]
  /\ answered' = calls
  /\ tail' = "result"
  /\ Decide("cancelled")
  /\ UNCHANGED <<signal, lane, arrived, steps, retries, calls, dispatched, tool>>

(* The one turn_end row.                                                   *)
EndTurn ==
  /\ at = "ending"
  /\ at' = "over"
  /\ UNCHANGED <<signal, lane, arrived, steps, extensions, retries, tool, tail, outcome, stepVars>>
=============================================================================
