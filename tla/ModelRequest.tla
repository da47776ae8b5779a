----------------------------- MODULE ModelRequest -----------------------------
(***************************************************************************)
(* One call of the language model: the retry decorator of every target     *)
(* (packages/llm/src/retry.ts) inside the fallback chain over the targets  *)
(* (packages/llm/src/fallback.ts), as the host stacks them                 *)
(* (apps/studio/src/runtime/fallback-host.ts).  An upstream request is     *)
(* repeated, or handed to the next target, only while nothing of it was    *)
(* shown.  Neither decorator sees the turn's cancel signal: a reader that  *)
(* goes away is noticed when the generator next has something to give.     *)
(*                                                                         *)
(* The module has the actions of this component; AgentTurn joins them with *)
(* what the reader of the stream does.                                     *)
(***************************************************************************)
EXTENDS Naturals

CONSTANTS
  ChainLengths,   \* how many targets a chain may have; 1: fallback is off
  MaxRetries      \* retries of one target (maxRetries)

ASSUME RequestAssumption == ChainLengths \subseteq Nat \ {0} /\ MaxRetries \in Nat

VARIABLES
  chainLength,  \* the number of targets of the session's chain
  stage,        \* where the decorators are
  attempt,      \* the target in use, counted from 1
  retry,        \* retries of this target so far
  produced,     \* did a text or thinking delta of this attempt get out?
  reader,       \* who reads the stream
  held,         \* does the caller of generate() have the stream already?
  sent,         \* upstream requests of this call of generate()
  voices        \* those of them whose deltas reached the reader

requestVars == <<chainLength, stage, attempt, retry, produced, reader, held, sent, voices>>

(* "waiting" is the back off before the same target is asked again,        *)
(* "leaving" what a target's Retry-After delays the next one.              *)
Stages == {"idle", "sending", "waiting", "leaving", "open"}

(* "closing" has asked for the end of the stream, "nobody" has forgotten   *)
(* it: see closeStream and the callers of raceAbort.                       *)
Readers == {"none", "loop", "closing", "nobody"}

(* A failure that is not worth another try; one that asks for a longer     *)
(* wait than the policy of one target allows; any other one.               *)
Failures == {"fatal", "over_cap", "transient"}

MostRequests == chainLength * (MaxRetries + 1)

RequestTypeOK ==
  /\ chainLength \in ChainLengths
  /\ stage \in Stages
  /\ attempt \in 1..chainLength
  /\ retry \in 0..MaxRetries
  /\ produced \in BOOLEAN /\ held \in BOOLEAN
  /\ reader \in Readers
  /\ sent \in Nat
  /\ voices \subseteq 1..sent

RequestInit ==
  /\ chainLength \in ChainLengths
  /\ stage = "idle" /\ reader = "none"
  /\ attempt = 1 /\ retry = 0
  /\ produced = FALSE /\ held = FALSE
  /\ sent = 0 /\ voices = {}

-----------------------------------------------------------------------------
(* What the decorators do                                                  *)

(* Mutant: what was shown already does not lock the attempt.               *)
RetryableAnyway(failure) == failure # "fatal"

Retryable(failure) == failure # "fatal" /\ ~produced

CanRetry(failure) == Retryable(failure) /\ failure # "over_cap" /\ retry < MaxRetries

CanHandOver(failure) == Retryable(failure) /\ attempt < chainLength

InFlight == stage \in {"sending", "open"}

(* generate(): a fallback chain is a stream at once and asks nobody before *)
(* it is read; the retry decorator alone gives no stream before there is   *)
(* a response.                                                             *)
Generate ==
  /\ stage' = "sending" /\ reader' = "loop"
  /\ attempt' = 1 /\ retry' = 0
  /\ produced' = FALSE /\ held' = (chainLength > 1)
  /\ sent' = 1 /\ voices' = {}
  /\ UNCHANGED chainLength

(* The response headers are there.                                         *)
Respond ==
  /\ stage = "sending"
  /\ stage' = "open" /\ held' = TRUE
  /\ UNCHANGED <<chainLength, attempt, retry, produced, reader, sent, voices>>

(* The attempt fails and is repeated after a back off.                     *)
BackOff(failure) ==
  /\ InFlight /\ CanRetry(failure)
  /\ stage = "open" => reader # "nobody"
  /\ stage' = "waiting" /\ retry' = retry + 1
  /\ UNCHANGED <<chainLength, attempt, produced, reader, held, sent, voices>>

(* The attempt fails and the next target of the chain takes over.          *)
HandOver(failure) ==
  /\ InFlight /\ ~CanRetry(failure) /\ CanHandOver(failure)
  /\ stage' = "leaving" /\ attempt' = attempt + 1 /\ retry' = 0
  /\ UNCHANGED <<chainLength, produced, reader, held, sent, voices>>

(* The wait is over: one more upstream request, whoever reads.             *)
Resend ==
  /\ stage \in {"waiting", "leaving"}
  /\ stage' = "sending" /\ sent' = sent + 1
  /\ UNCHANGED <<chainLength, attempt, retry, produced, reader, held, voices>>

(* A delta reaches the reader.                                             *)
Speak ==
  /\ stage = "open" /\ reader = "loop"
  /\ produced' = TRUE /\ voices' = voices \cup {sent}
  /\ UNCHANGED <<chainLength, stage, attempt, retry, reader, held, sent>>

(* The stream is over for its reader.                                      *)
Close ==
  /\ stage' = "idle" /\ reader' = "none"
  /\ UNCHANGED <<chainLength, attempt, retry, produced, held, sent, voices>>

(* The attempt fails and the failure goes to the reader.                   *)
GiveUp(failure) ==
  /\ InFlight /\ ~CanRetry(failure) /\ ~CanHandOver(failure)
  /\ reader = "loop"
  /\ Close

(* The terminal event of a complete response.                              *)
Complete ==
  /\ stage = "open" /\ reader = "loop"
  /\ Close

(* The reader goes away while the decorators are busy: its return() waits  *)
(* behind the pending next().  A stream that nobody holds yet is closed    *)
(* when it arrives, if the caller asked for that.                          *)
Abandon(closes) ==
  /\ reader' = IF held \/ closes THEN "closing" ELSE "nobody"
  /\ UNCHANGED <<chainLength, stage, attempt, retry, produced, held, sent, voices>>

(* Whatever an abandoned stream has to give next ends it: a delta, the     *)
(* terminal event, or a failure that cannot be repeated.                   *)
Fade ==
  /\ \/ stage = "open" /\ reader = "closing"
     \/ /\ stage = "sending" /\ reader \in {"closing", "nobody"}
        /\ \E failure \in Failures : ~CanRetry(failure) /\ ~CanHandOver(failure)
  /\ Close

Decorators ==
  \/ Respond
  \/ \E failure \in Failures : BackOff(failure) \/ HandOver(failure)
  \/ Resend
  \/ Fade
=============================================================================
