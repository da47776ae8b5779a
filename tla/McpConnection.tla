----------------------------- MODULE McpConnection -----------------------------
(***************************************************************************)
(* One MCP server of a session generation: its connection, the reconnect   *)
(* budget that supervises it and the dispatches that meet a lost server    *)
(* (packages/mcp/src: connection.ts, reconnect.ts, session.ts).            *)
(*                                                                         *)
(* Every attempt opens a process of its own.  A handler runs from one      *)
(* await to the next; the continuations of one settled promise run as one  *)
(* step.  A process that is told to end lives on until it does, which      *)
(* nobody waits for before the next one is opened.  Time is a counter of   *)
(* ticks.                                                                  *)
(***************************************************************************)
EXTENDS Integers, FiniteSets

CONSTANTS
  Calls,         \* tool dispatches that may be under way together
  Supervised,    \* isSupervisable: stdio with reconnection enabled
  MaxAttempts,   \* the reconnect policy
  InitialDelay,
  MaxDelay,      \* also the stability window
  Never,         \* no moment
  None,          \* no process
  MaxOpens,      \* bound: processes opened
  MaxTimers,     \* bound: retries armed together
  MaxOrphans,    \* bound: live processes without a transport, for a refusal
  MaxNow         \* bound: the clock

ASSUME McpAssumption ==
  /\ {MaxAttempts, InitialDelay, MaxDelay, MaxOpens, MaxTimers} \subseteq Nat \ {0}
  /\ {MaxNow, MaxOrphans} \subseteq Nat
  /\ Supervised \in BOOLEAN
  /\ Never \notin Int /\ None \notin Int
  /\ Calls \cap {"start", "timer"} = {}

Procs == 1..MaxOpens
Slots == 1..MaxTimers

VARIABLES
  state,      \* the state of the connection
  transport,  \* the process of its transport and client
  tries,      \* attempts: what the budget has counted
  lastReady,  \* lastReadyAt
  due,        \* the armed retries
  handle,     \* cancelPending: the slot of the retry that can be cancelled, or 0
  proc,       \* what becomes of each process
  opener,     \* who awaits the attempt of each process: the start, a retry, a call
  call,       \* the process each dispatch runs on
  discovering,\* the start awaits tools/list
  face,       \* are the tools of the server in the session's surface?
  now,        \* the clock
  crossed     \* history: a dispatch or the disposal met an attempt under way,
              \* or a live process, or one that was let go before, was taken
              \* for a loss

connVars == <<state, transport, tries, lastReady, due, handle>>
vars == <<connVars, proc, opener, call, discovering, face, now, crossed>>

Most(x, y) == IF x >= y THEN x ELSE y

Opening == {p \in Procs : proc[p] = "opening"}
Up == {p \in Procs : proc[p] = "up"}

(* Mutant: the back off is not capped.                                     *)
DelayUncapped(n) == InitialDelay * 2 ^ (Most(n, 1) - 1)

(* backoffDelayMs(): the exponential delay, capped by MaxDelay.            *)
Delay(n) ==
  LET exponential == InitialDelay * 2 ^ (Most(n, 1) - 1)
  IN IF exponential \in 1..MaxDelay THEN exponential ELSE MaxDelay

(* The window has passed since the connection last became ready.           *)
IsStable == lastReady # Never /\ now - lastReady >= MaxDelay

Init ==
  /\ state = "idle" /\ transport = None
  /\ tries = 0 /\ lastReady = Never
  /\ due = [s \in Slots |-> Never] /\ handle = 0
  /\ proc = [p \in Procs |-> "unborn"]
  /\ opener = [p \in Procs |-> "start"]
  /\ call = [c \in Calls |-> None]
  /\ discovering = FALSE /\ face = FALSE
  /\ now = 0 /\ crossed = FALSE

-----------------------------------------------------------------------------
(* attempt(): a new process, awaited by w.                                 *)
Opens(w) ==
  \E p \in Procs :
    /\ proc[p] = "unborn" /\ \A q \in 1..(p - 1) : proc[q] # "unborn"
    /\ proc' = [proc EXCEPT ![p] = "opening"]
    /\ opener' = [opener EXCEPT ![p] = w]
    /\ state' = "connecting"

(* Mutant: the last retry of the budget is armed once too often.           *)
MayRetryOnceMore(spent) == Supervised /\ spent <= MaxAttempts

MayRetry(spent) == Supervised /\ spent < MaxAttempts

(* scheduleRetry(): arm a retry, or keep the state without one.            *)
SchedulesRetry(otherwise) ==
  LET spent == IF IsStable THEN 0 ELSE tries
  IN /\ tries' = spent
     /\ IF MayRetry(spent)
        THEN \E s \in Slots :
               /\ due[s] = Never /\ \A r \in 1..(s - 1) : due[r] # Never
               /\ due' = [due EXCEPT ![s] = now + Delay(spent)]
               /\ handle' = s
               /\ state' = "backoff"
        ELSE state' = otherwise /\ UNCHANGED <<due, handle>>

Cancelled == IF handle = 0 THEN due ELSE [due EXCEPT ![handle] = Never]

(* start(): the first attempt counts for the budget.                       *)
Start ==
  /\ state = "idle"
  /\ tries' = 1
  /\ Opens("start")
  /\ UNCHANGED <<transport, lastReady, due, handle, call, discovering, face, now, crossed>>

(* The handshake succeeds.  The start goes on to tools/list, a dispatch    *)
(* goes on to its call, a retry does nothing more.                         *)
Connects(p) ==
  /\ proc[p] = "opening"
  /\ proc' = [proc EXCEPT ![p] = "up"]
  /\ transport' = p
  /\ state' = "ready"
  /\ lastReady' = now
  /\ discovering' = (discovering \/ opener[p] = "start")
  /\ call' = [c \in Calls |-> IF opener[p] = c THEN p ELSE call[c]]
  /\ UNCHANGED <<tries, due, handle, opener, face, now, crossed>>

(* The handshake fails: the process is gone or is told to end, which       *)
(* nobody awaits, and the failure goes to the supervisor, which a dispatch *)
(* does not do any more after the disposal.                                *)
ConnectFails(p) ==
  /\ proc[p] = "opening"
  /\ \E fate \in {"leaving", "gone"} : proc' = [proc EXCEPT ![p] = fate]
  /\ transport' = None
  /\ IF state = "disposed" /\ opener[p] \in Calls
     THEN UNCHANGED <<state, tries, due, handle>>
     ELSE SchedulesRetry(IF state = "disposed" THEN "disposed" ELSE "failed")
  /\ UNCHANGED <<lastReady, opener, call, discovering, face, now, crossed>>

IsDue(s) == due[s] # Never /\ due[s] <= now

(* A retry fires.                                                          *)
RetryFires(s) ==
  /\ IsDue(s)
  /\ due' = [due EXCEPT ![s] = Never]
  /\ handle' = 0
  /\ tries' = tries + 1
  /\ IF state = "disposed" THEN UNCHANGED <<state, proc, opener>>
     ELSE Opens("timer")
  /\ UNCHANGED <<transport, lastReady, call, discovering, face, now, crossed>>

(* refresh() and discover() of the start: they keep what was known before. *)
Discovers ==
  /\ discovering
  /\ discovering' = FALSE
  /\ \E ok \in BOOLEAN : face' = (face \/ (ok /\ transport \in Up))
  /\ UNCHANGED <<connVars, proc, opener, call, now, crossed>>

IsWaiting(c) == call[c] # None \/ \E p \in Opening : opener[p] = c

(* The history of what met what: an attempt is under way, if that matters. *)
Crosses(matters) == crossed' = (crossed \/ (matters /\ Opening # {}))

(* Mutant: a retry that is armed goes on while the call reconnects.        *)
DispatchWithRetry(c) ==
  /\ face /\ ~IsWaiting(c)
  /\ state # "disposed"
  /\ IF state = "ready"
     THEN call' = [call EXCEPT ![c] = transport] /\ UNCHANGED <<state, due, handle, proc, opener>>
     ELSE Opens(c) /\ UNCHANGED <<due, handle, call>>
  /\ Crosses(state # "ready")
  /\ UNCHANGED <<transport, tries, lastReady, discovering, face, now>>

(* Mutant: the call cancels the retry and leaves it at that.               *)
DispatchGivesUp(c) ==
  /\ face /\ ~IsWaiting(c)
  /\ state # "disposed"
  /\ IF state = "ready"
     THEN call' = [call EXCEPT ![c] = transport] /\ UNCHANGED <<due, handle>>
     ELSE due' = Cancelled /\ handle' = 0 /\ UNCHANGED call
  /\ Crosses(state # "ready")
  /\ UNCHANGED <<state, proc, opener, transport, tries, lastReady, discovering, face, now>>

(* callTool(): on a live connection, or after one attempt to reconnect     *)
(* that takes the place of the retry.                                      *)
Dispatch(c) ==
  /\ face /\ ~IsWaiting(c)
  /\ state # "disposed"
  /\ IF state = "ready"
     THEN call' = [call EXCEPT ![c] = transport] /\ UNCHANGED <<state, due, handle, proc, opener>>
     ELSE Opens(c) /\ due' = Cancelled /\ handle' = 0 /\ UNCHANGED call
  /\ Crosses(state # "ready")
  /\ UNCHANGED <<transport, tries, lastReady, discovering, face, now>>

(* The call is answered, or fails in a way that says nothing of the        *)
(* connection.                                                             *)
CallReturns(c) ==
  /\ call[c] # None
  /\ call' = [call EXCEPT ![c] = None]
  /\ UNCHANGED <<connVars, proc, opener, discovering, face, now, crossed>>

(* markLost() has something to do.                                         *)
IsLoss == state \notin {"disposed", "failed"}

(* The failure of a call is taken for the loss of the server: the          *)
(* transport there is, its own or not, is let go and not closed.           *)
LosesServer(c) ==
  /\ call' = [call EXCEPT ![c] = None]
  /\ IF IsLoss
     THEN /\ transport' = None
          /\ SchedulesRetry("failed")
     ELSE UNCHANGED connVars
  /\ crossed' = (crossed \/ (IsLoss /\ (call[c] \in Up \/ call[c] # transport)))
  /\ UNCHANGED <<lastReady, proc, opener, discovering, face, now>>

(* The call finds its process gone.                                        *)
CallFindsItGone(c) ==
  /\ call[c] # None /\ call[c] \notin Up
  /\ LosesServer(c)

(* Its turn was cancelled before it was sent, and classifyError() has no   *)
(* other name for that: the process goes on without a transport.           *)
CallIsRefused(c) ==
  /\ call[c] \in Up
  /\ Cardinality(Up \ {transport}) < MaxOrphans
  /\ LosesServer(c)

(* The process of the server ends by itself, or at last as it was told to. *)
Exits(p) ==
  /\ proc[p] \in {"up", "leaving"}
  /\ proc' = [proc EXCEPT ![p] = "gone"]
  /\ UNCHANGED <<connVars, opener, call, discovering, face, now, crossed>>

(* Mutant: the transport is let go and not closed.                         *)
ReapedNot == proc

(* closeTransport(): the process of the transport, if it is still up, is   *)
(* told to end.                                                            *)
Reaped == IF transport \in Up THEN [proc EXCEPT ![transport] = "leaving"] ELSE proc

(* dispose(): cancels the retry and closes the transport.  What follows    *)
(* the awaited close, which a deadline ends, touches the status row only.  *)
Dispose ==
  /\ state # "disposed"
  /\ state' = "disposed"
  /\ due' = Cancelled /\ handle' = 0
  /\ proc' = Reaped
  /\ transport' = None
  /\ Crosses(TRUE)
  /\ UNCHANGED <<tries, lastReady, opener, call, discovering, face, now>>

Tick ==
  /\ now < MaxNow
  /\ \A s \in Slots : ~IsDue(s)
  /\ now' = now + 1
  /\ UNCHANGED <<connVars, proc, opener, call, discovering, face, crossed>>

Next ==
  \/ Start \/ Discovers \/ Dispose \/ Tick
  \/ \E p \in Procs : Connects(p) \/ ConnectFails(p) \/ Exits(p)
  \/ \E s \in Slots : RetryFires(s)
  \/ \E c \in Calls :
       Dispatch(c) \/ CallReturns(c) \/ CallFindsItGone(c) \/ CallIsRefused(c)

Spec == Init /\ [][Next]_vars

-----------------------------------------------------------------------------
(* Properties                                                              *)

Moment == Nat \cup {Never}

(* Every variable has its type, and no retry is further away than MaxDelay.*)
TypeOK ==
  /\ state \in {"idle", "connecting", "ready", "backoff", "failed", "disposed"}
  /\ transport \in Procs \cup {None}
  /\ tries \in Nat /\ now \in Nat
  /\ lastReady \in Moment /\ due \in [Slots -> Moment]
  /\ handle \in Slots \cup {0}
  /\ \A s \in Slots : due[s] # Never => due[s] <= now + MaxDelay
  /\ proc \in [Procs -> {"unborn", "opening", "up", "leaving", "gone"}]
  /\ opener \in [Procs -> Calls \cup {"start", "timer"}]
  /\ call \in [Calls -> Procs \cup {None}]
  /\ {discovering, face, crossed} \subseteq BOOLEAN

(* A connection that says it is ready has a transport, and one that says   *)
(* it backs off has a retry armed, whatever meets whatever.                *)
StateIsHonest ==
  /\ state = "ready" => transport # None
  /\ state = "backoff" => \E s \in Slots : due[s] # Never

(* As long as no dispatch and no disposal meets an attempt under way, and  *)
(* no live process or later transport is taken for lost, one process of    *)
(* the server at most is being opened or used: a retry or a call opens the *)
(* next only after the one before it has died or was told to end.  The     *)
(* budget of retries is kept, and a disposed generation has told every     *)
(* process it opened to end.  (That a process which was told to end is     *)
(* gone before the next one is opened is not so: see the README.)          *)
OneProcessInUse ==
  ~crossed =>
    /\ Cardinality(Opening \cup Up) <= 1
    /\ tries <= MaxAttempts
    /\ state = "disposed" => Opening \cup Up = {}

(* The disposal is final: nothing of the connection survives it.           *)
DisposeIsFinal == [][state = "disposed" => state' = "disposed"]_vars
=============================================================================
