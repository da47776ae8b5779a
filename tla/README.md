# Celestea Agent in TLA+

Celestea Agent is a self-hosted workbench for coding agents, a TypeScript
monorepo. One Node process (`apps/studio`) serves a web frontend, keeps a
composed *generation* of services per session, runs the agent's turns in them
and writes everything a turn does to a log of the session. This directory holds
a model of the parts of it that are hard to test: state that several callbacks,
timers and promises share, and state that has to survive a crash.

Everything in the process runs on one JavaScript thread. What is between two
`await`s is one atomic step; what interleaves are the continuations of
promises, timers and requests. That is what an action is in these modules.

## The parts of the system

| Part | State | Operations | What is hard |
|---|---|---|---|
| Session runtime registry (`packages/runtime/src/session-registry.ts`, driven by `apps/studio/src/runtime/real-runtime-adapter.ts`) | one entry per session: generation, epoch, mark, slot, last use | ensure, beginTurn, endTurn, invalidate, evict, sweep, release, shutdown | teardown runs beside the next generation; marks must survive until a boundary; pins come and go |
| Checkpoint and boot recovery (`packages/session/src/checkpoint*.ts`, `packages/runtime/src/{recovery,inbox,inbox-checkpoint}.ts`) | the log, the sidecar file, one cached copy per generation, two lanes, delivered ids | turn start and end, push, drain, clean shutdown, recovery | a crash between any two file operations; two generations with two copies of one file |
| Swarm batch (`packages/swarm/src/scheduler`) | queue, attempts in flight, results, rate-limit gate, four kinds of timers | launch, settle, requeue, time out, abort | late answers, timers that must always exist, caps that recover, a stop |
| MCP connection (`packages/mcp/src`) | state, transport, retry budget, armed retry | connect, discover, call, reconnect, lose, dispose | every handshake is awaited and anything may happen meanwhile |
| Inbox, mailbox and auto-wake (`packages/runtime/src/{inbox,autowake,gen}.ts`, `packages/workers/src/mailbox.ts`) | lanes, queues, a parked loop | push, drain, poll, requeue, wake | who drains what is left when a turn ends early; rebuilds between poll and requeue |
| Session log and compaction (`packages/session/src/{log,compression*.ts}`, `packages/runtime/src/compact`, `apps/studio/src/runtime/session-lifecycle.ts`) | segments, descriptor, mirror, sidecar of the compressions, markers | open, append, roll, compress, clear, compact | a rewrite awaits a summary while the session may be opened again; it renumbers what others refer to; a crash between its writes |
| Agent loop (`packages/agent-loop/src/loop.ts`, `repetition-driver.ts`) | step, batch of tool calls, what waits for the next step, collapsed attempts, cancel signal | turn, step, dispatch, spill, steer, retry a collapsed answer, wrap up, cancel | one turn_end and one honest result per call whatever is cancelled when |
| LLM client (`packages/llm/src/{retry,fallback}.ts`, `apps/studio/src/runtime/fallback-host.ts`) | target of the chain, retries, whether it spoke, the reader | request, retry, back off, hand over, stream, close | trying again is only legal before the first token; nobody tells the chain of a cancel |
| User questions (`apps/studio/src/{question-registry,user-questions}.ts`) | parked questions, their deadlines | ask, answer, dismiss, expire | a settlement races the end of the turn that asked |
| Workers (`packages/workers/src`) | one table file, a view of it per conversation, drivers, reports | spawn, drive, report, stop, watch, respawn, shut down, recover | every write is made from an old view; a report and its row are two writes; restarts |
| Grants (`apps/studio/src/store/grants.ts`) | grants | grant, consume, expire | expiry against the generation that composed it |
| Tools, sandbox, desktop, ledger, HTTP, frontend, CLI | mostly I/O | | see `PROJECT.json` |

They meet like this. A request or the auto-wake supervisor asks the adapter for
a turn; the adapter asks the registry for the session's entry, which may be
rebuilt there, and takes its slot. The generation's turn runner writes the
sidecar, drains the lanes of its inbox into the log and runs the agent loop,
whose tool calls reach the swarm, the MCP servers, the workers and the user.
When the configuration changes, when a session is deleted, compacted or idle,
and when the process stops, the registry has generations torn down; their
teardown waits for the turn and writes the clean mark to the sidecar. The next
boot reads the sidecar and closes what the last process left open.

What makes each part correct: the registry never hands out, rebuilds or tears
down what is in use, and never skips a rebuild; the log and the sidecar agree
after any crash and no message is delivered twice; a batch settles each of its
members once and always ends; a connection uses one process at a time, has honest state
and tells what it opened to end; a rewrite of the log loses no history and takes no file
from under anyone; a turn ends, once, and its log says truly what became of each
tool call; a response is the voice of one upstream request; a worker gets one
verdict, which stays, and is not called done without its report.

## Modules

| Module | Models | Checked by | Proved in |
|---|---|---|---|
| `SessionRegistry` | the registry and its callers | `MCSessionRegistry` | `SessionRegistryProofs` |
| `GenerationLifecycle` | the abstract life of a generation; `SessionRegistry` implements it | `MCSessionRegistry` | `SessionRegistryProofs` |
| `Checkpoint` | log, sidecar, lanes and recovery of the active session | `MCCheckpoint` | `CheckpointProofs` |
| `MessageLifecycle` | the abstract life of a message; `Checkpoint` implements it | `MCCheckpoint` | `CheckpointProofs` |
| `AgentLoop`, `ModelRequest`, `UserQuestions` | the loop, one call of the model, the parked questions: actions only | through `AgentTurn` | through `AgentTurn` |
| `AgentTurn` | a turn as a whole: the three joined | `MCAgentTurn` | `AgentTurnProofs` |
| `TurnProtocol` | what the log of a turn promises; `AgentTurn` implements it | `MCAgentTurn` | `AgentTurnProofs` |
| `Workers` | the worker table of one process after another | `MCWorkers` | `WorkersProofs` |
| `SwarmScheduler` | one batch | `MCSwarmScheduler` | `SwarmSchedulerProofs` |
| `BatchContract` | what a batch promises its turn and its members; `SwarmScheduler` implements it | `MCSwarmScheduler` | `SwarmSchedulerProofs` |
| `McpConnection` | one supervised stdio server | `MCMcpConnection` | `McpConnectionProofs` |
| `Compaction` | the log of one session, its compressions and its compactions | `MCCompaction` | `CompactionProofs` |
| `NumberFacts` | nothing: least, greatest and k-th element of a set of naturals | | itself |

`PROJECT.json` maps every definition to the lines it translates. A definition
whose comment starts with "Mutant" is a plausible bug: put in the place of the
definition next to it, it must break the property it is listed with.

### SessionRegistry and GenerationLifecycle

A generation is a pair of a session and an id; ids are used again when a
generation is closed and its turn has unwound, so `GenIds` bounds how many
generations of one session exist at a time. `gen`, `stale`, `marked`, `inFlight`
are the fields of the entries; the wall clock is reduced to the order of last
use (`older`, for the LRU victim) and the set of sessions past the TTL. `Ensure`
is the heart: `EnsureExisting` settles the epoch (rebuild, mark, or nothing),
`EnsureNew` makes room and builds. `StartTurn`, `StartAutowakeTurn`, `Inject`
are the adapter's operations, each with all that it does before the first await;
`EnsureFails` is a build or an admission that throws, after what makeRoom() had
already dropped. `EndTurn(s, g)` ends a turn on the entry it began with, which a
release may have detached. `SweepStart` filters the keys, `SweepNext` evicts one
after each await, `SettleDeferred` rebuilds. `DisposeDone` is the end of a
teardown, which waits for the generation's turn. `GenerationLifecycle` says what
the holder of a generation relies on: it is handed out alone and open for use,
work on it is interrupted by a delete or the end of the process and by nothing
else, its turn unwinds before its teardown ends, and then its id may come back.
`KeepsLifecycle` is the refinement; `Phase` computes where each generation is.

### Checkpoint and MessageLifecycle

`starts`, `ends`, `copies` count rows of the log; `file` is `checkpoint.json`;
`cache[g]` is the copy the store of generation `g` loaded once and writes as a
whole. `pc` is where in a synchronous block the process is, because a crash may
come between two file operations that nothing else can come between: a turn
start is a drain (`Take`), the rows of the messages (`AppendMessage`), the
`turn_start` row and the sidecar mark. A crash forgets everything but the log
and the file; `Boot`, `Recover` and `RecordRepair` are the next process.
`MessageLifecycle` says what a sender relies on: a message is queued, taken,
delivered, never twice, and is lost only when the process dies with it in hand.
`KeepsMessages` is the refinement.

Two things the code does break parts of it, and are constants: a turn that
starts with the rebuild of its generation (`ConfigDuringTurn`: the mark comes
from a configuration change during the turn before, from one while live workers
deferred the rebuild, or from a build that failed) and a sidecar write that
fails (`SidecarFails`). Without them everything holds, so what the run and the
theorems say of the clean mark and of the messages is said of sessions none of
whose turns begins with a rebuild, whatever left the mark; with them the log
stays well formed.

### SwarmScheduler and BatchContract

The scheduler's fields are one record and every handler is a function from the
record to the next, as the code runs one synchronous block. `Scheduled` is
`schedule()`, which every handler ends with. Time is a counter; the clock does
not pass a timer that is due. The executor calls markReady synchronously, so a
member is ready as soon as it is in flight. `turn` and `held` are the cancel
signal of the turn around the batch and what the swarm was wired to at
composition; `HostSignal` says whether the host gives a live signal as well
(`tool.ts` accepts one, the studio passes none). `RetryBase` is at least 1: with
0, which the configuration allows, the schedule() inside markReady() could
launch again in the same block, which the model leaves out. `BatchContract` is
what the turn and the members rely on: a member waits, is tried, perhaps waits
again, acts once it has called a tool and is then not tried again; a verdict
other than "aborted" comes from an attempt and is final, slots are kept, and the
batch resolves once. `KeepsContract` is the refinement.

### McpConnection

The continuations of one promise are one step, so an attempt is opened, and
later connects or fails; in between anything may happen. `opener` says who
awaits the attempt, because that decides what comes after it: the start goes on
to `tools/list`, a call to its call, a retry to nothing. `due` holds the armed
retries and `handle` the only one that can be cancelled. `CallIsRefused` is a
call on a live process whose signal was aborted before it was sent: the
classifier has no other name for that than a failed connection, so the transport
is let go and the process lives on without one (`MaxOrphans` bounds how many do
before the next refusal).

A process is opening, up, leaving or gone. Nobody awaits the end of one whose
handshake failed (`connection.ts:112`), and the disposal awaits it after it has
written its state, so both only make a process "leaving"; when it is gone is its
own matter (`Exits`). A leaving process can therefore live next to the one that
a retry opens. What is claimed (`OneProcessInUse`) is about the processes that
the connection opens or uses: one at a time, and none that a disposed generation
has not told to end. `crossed` is a history variable, and the claim excludes what
sets it: a dispatch or the disposal while an attempt is under way, and a loss
declared of a live process or of another transport than the call was on. Each of
the three does break the claim, and is among the disagreements below. Not
modelled: HTTP servers (never supervised), and a close that misses its deadline,
whose process stays "leaving".

### Compaction

`rolled`, `log`, `backup`, `sidecar` are the files of the session; `descriptor`,
`mirror`, `view`, `turn`, `pinned` are its instance, and `descriptor` says where
a row goes: to the path, or to a file that a rename has replaced ("adrift"). A
turn is the pair of rows that bound it, so what is kept or lost is counted in
turns. `edition` numbers the numberings: a rewrite and a clear each make a new
one, and the intervals of the sidecar are over the one its writer saw (`view`).
`Compact` is `compactSession()` up to its first await, `Evicted` reads the log
when the old instance is torn down, and `RewriteEnds` is all that follows the
summary, because it runs in one synchronous block: copy, rename, removal of the
sidecar, rebind, end marker. `RewriteStops` is the same block with a failure
after the rename; followed by `Crash` it is also a crash inside the block.
`unfinished` and `crossed` are history: the first says what the markers should
say, the second that something met a compaction under way (a session opened, a
second request) or that a crash cut a clear short. A rebuild of an instance is
`Retire` and `Open`. `ClearsLog` empties the file and removes the rolled segments
in one step, where the code does one after the other: a crash between them, which
would leave the old segments before an empty file, is not modelled. Nor are torn
tails, which `open()` truncates, a row whose write fails (it stays in the mirror
alone), a failed write of the sidecar, and the rows of a turn between its two
bounds.

### AgentLoop, ModelRequest, UserQuestions, AgentTurn, TurnProtocol

`AgentLoop` has the control of `loop.ts`: `at` is what the loop awaits ("model",
"tools", "spill" while a large result is written to a file, "wrapup" for the
closing request of the repetition guard, "top" where nothing is awaited between
two steps). `signal` may become true at any of them. A batch is
`dispatched - answered` calls; `tool[c]` is what the execution of a call did and
`said[c]` what its result row says of it, and the two are written at different
times by different actions. `lane` counts the messages that wait for the next
step. `Finalize` is `finish()` with its rules of precedence between a cancel, the
step limit, an error and waiting messages.

`ModelRequest` is the retry decorator of each target inside the fallback chain,
as `fallback-host.ts` stacks them. `produced` is the lock: a target that spoke is
neither tried again nor handed over. `voices` collects the upstream requests
whose deltas reached the reader. When the loop goes away (`Abandon`) the reader
is "closing" (the stream is asked to end, which it notices when it next has
something to give) or "nobody" (the wrap-up has no such hook); the decorators go
on in both cases, as they see no signal.

`UserQuestions` has the one settlement of a parked question; a question is a tool
call, so an answer is what makes that call return. `AgentTurn` joins the three:
each action is one continuation of the process, with what it does to the loop,
to the request and to the table of questions.

`TurnProtocol` is the reader's view of the log, in three variables: is the turn
running, how many calls are without a result, is the answer the last word.

### Workers

The table file is shared by all conversations of the process; each has a
registry with its own view (`rows[h]`), and every write goes through `Merge`: own
rows win, all others are as the file has them. A failing write (`Persist`) leaves
the view ahead of the file, with the edit alone or with the merge as well, and the
next one repairs it. `driver` is the loop of each worker: in the turn of its
brief, parked for messages, or stopped while the turn of the brief still runs. A registry without drivers (`attached`) only keeps
rows, which its watchdog then finds abandoned. `EndBrief` is `closeLoop()`:
report, verdict, row; `CrashAfterReport` is the process dying between the first
and the last of them. `Boot` with `Recover` is the next process taking over the
rows of dead ones, with process ids that may have been recycled.

Whether a worker has a report is asked of the directory that all conversations
share, by name (`Reported`): a file counts for a worker when its name is the
sanitized name of the worker or goes on after it with a "-" (`watchdog.ts:164`).
The strings are left out and their relation kept: `Claims[w]` is the set of the
workers whose reports are found for `w`, any relation that contains identity. So
`DoneHasReport` says that a file was there which is found for the worker, and no
more: it may be that of a worker whose name goes on with "-", and in the run
`workers_table` it sometimes is.

Not modelled: the messages to workers and the receipts they send (they are in
the disagreements below), the age of leases (a recycled id stands for a young
one), the lock of the table, which is assumed to exclude, two live processes on
one table, a watchdog that is switched off, and its round over a results
directory that cannot be read (`watchdog.ts:237`), which only leaves the row as
it is. `AbandonedRowsSettle` is about the view of an open registry; the file
follows with the next write that succeeds. `Names` says which names the model of a conversation gives; the
passing run and the proof assume that no two conversations use the same.

## Runs

| Run | Question | Bounds |
|---|---|---|
| `registry_lifecycle` | Is anything in use ever torn down or handed out while it is being torn down; does a turn run on current configuration; do teardowns and rebuilds happen? | the detached instance and a session, two generations each, cap of one turn; an armed reclaimer, builds that do not throw, no auto-wake |
| `registry_capacity` | Are instances and turns admitted within the caps while pins come and go, with auto-wake and sweeps; and does every generation keep its life when builds throw? | two sessions and the detached instance, a generation each, caps of one; builds that throw |
| `checkpoint_recovery` | After two crashes anywhere, is the open turn closed, the clean mark honest, every message accounted for? | two messages, three turns, two crashes, two generations |
| `checkpoint_faulty` | Does the log stay well formed when writes fail and rebuilds fuse with turns? | one message, two turns, two crashes |
| `swarm_batch` | Is every member settled once and for all; are launches within the caps, spaced, and never a replay (`LaunchesAreLawful`); does the batch always end? | three members, two slots, two retries, 12 ticks |
| `swarm_deaf` | Does the stop of a turn reach its batch as the studio wires it? It does not. | two members |
| `mcp_supervision` | One process in use, a bounded count of retries, and nothing that a disposal has not told to end, while nothing crossed (`OneProcessInUse`); honest state, whatever crossed? | two interchangeable calls (symmetry), four processes, one of them without a transport, three attempts, 6 ticks |
| `compaction_rewrite` | Do two compactions, turns, compressions, clears, evictions and crashes in any order keep the history, tell the truth in the markers, keep the sidecar and the mirror with the log? | two interchangeable requests (symmetry), six turns, three numberings, one rolled segment; threshold 3, one turn kept at each end |
| `compaction_race` | Does an instance ever append to a replaced file? It does. | one request |
| `agent_turn` | With a cancel at any await, do the result rows say what happened, does the outcome agree with the turn, does the reader hear one request, does the log keep its protocol, do the turn and what it leaves behind end? | two steps and one extension, three calls in batches of two, any of them a question, two arriving messages, one collapsed attempt to retry, a chain of one or of two targets with one retry each |
| `workers_table` | Are verdicts final, is DONE backed by a report that is found for the worker, is a row that nobody drives settled? | two conversations with a worker each, both to report, one of them with drivers; the reports of one are found for the other too; one crash, one failing write, two process ids, one re-dispatch, recovery armed |
| `workers_clash` | The first of these with one name in two conversations? It is not. | one process, no faults |

Why the bounds are enough. A registry hazard needs a generation, its successor
and someone who holds the old one: two ids per session; the cap needs one more
session than it admits. A recovery hazard needs a turn, its successor, and a
crash in the repair of a crash. In the swarm every interaction of the gate is
between an attempt in flight, one that backs off and one that waits: three
members; the clock bound is above the moment the latest timer of a batch can
fire in these configurations, as the liveness property would fail otherwise. An
MCP streak needs a first attempt, a full budget of retries and a call that
reconnects next to them. A compaction needs one turn more than the threshold, so
that head, tail and what is dropped between them are all there, turns enough to
compact the result again, and a second request for every meeting of two. A batch
of two out of three calls has a call before, in and after it when the cancel
falls; two steps and an extension reach the cap with and without a message that
waits; a second target is enough for a hand-over before and after the first one
spoke. A worker hazard needs one writer with an old view and one settled row; a
crash needs a next process, whose id may be the old one.

`FreshAtTurnStart` is checked with builds that do not throw, because the fair run
has none; that builds which throw do not break it is what the theorem `FreshTurns`
adds, which assumes nothing of `BuildFails`.

`CHECK_DEADLOCK FALSE` stands in every configuration: the process may be shut
down, a batch ends, a connection is disposed, and bounded counters run out.

## Fairness

- Registry (`Fairness`): turns end and teardowns finish. The reclaimer keeps
  coming back to a marked entry where it is armed, and it is armed only with a
  period of its own or an idle time to derive one from
  (`session-registry.ts:368`): with neither, nothing comes back and the mark
  waits for the next turn. `IdleTtl` stands for an armed reclaimer. Its pass
  stops at the first build that throws (`session-registry.ts:339`), so it
  settles a mark only if the builds before it do not. The fairness, and
  `DeferredRebuildHappens`, are therefore conditional on `IdleTtl` and
  `~BuildFails`. Nothing is assumed of users, of workers or of configuration
  changes.
- Swarm: timers fire, time passes, and the batch is started. Executors need
  never return.
- Agent turn: the loop runs when it can; an upstream request that has not spoken
  yet answers or fails, a back off ends, and a stream that was abandoned is closed
  at its next delta, its end or its silence, because the client arms timeouts for the connection, the
  first byte and the silence between two. These are the defaults of
  `timeouts.ts`; a tier that is set to 0 is not armed, and with it goes the
  fairness of `Request`. A parked question has a deadline. Nothing is assumed of
  the stream that is being read: there is no limit on a whole response, and one
  may speak for ever. `TurnEnds` therefore has two parts. A cancelled turn ends
  whatever the stream, the tools and the user do. A turn that is not cancelled
  ends under the hypothesis that no response is read for ever (`ResponsesEnd`),
  unless it waits for a tool that does not return.
- Workers: the watchdog comes back to every row of an open registry. Nothing
  makes the turn of a brief end.
- MCP and compaction: none, only safety is stated.

## Proofs

`SessionRegistryProofs` proves, for any set of sessions, any set of ids and any
caps, the type invariant and the safety properties of the runs. The inductive
invariant adds to them what ties the auxiliary sets together: an in-flight
session is registered and runs its turn on its generation, a running turn or
live worker of an unregistered generation is closing, and a released generation
is closing. The two parts that need the release are stated for a process that
has not shut down. `FreshTurns` is a property of steps and needs no more than
the types. The caps are counted with the cardinality theorems: the turns in
`TurnCapHolds`; the instances in `AdmissionStaysWithinCaps`, where only ensure()
of a key that is not in the map admits one (`OnlyEnsureAdmits`), and makeRoom()
has by then evicted enough of what counts, whatever pins came and went before,
or it throws and nobody is admitted (`AdmittedWithinCap`). `KeepsLifecycle` is
proved step by step (`NextLifecycle`): `Passes` lists what a step may do to one
generation, every swap of the registry does no more (`SwapPasses`), and that a
busy generation is not among those swapped is the invariant of the next state.

`CheckpointProofs` has three layers. `LogWellFormed` needs no condition: the
invariant says that a turn runs only between its two rows, that recovery adds a
`turn_end` only to a turn whose last row is its start, and that the number of
the next turn is fresh because it is one above the largest in the log. The other
two layers assume `Quiet` (no rebuild fused with a turn start, no failing write):
the sidecar then agrees with the log step by step (`CrashInv`: where `pc` stands
determines what the file says of the open turn, and the copy of every generation
that may still write is the file), and the lanes agree with the messages
(`MsgInv`: a message is in at most one place). From the last one every step of
`Checkpoint` is a step of `MessageLifecycle` or none.

`CompactionProofs` has three layers. `IInv` is about who may be under way next
to whom, and is one sentence: a request under way that nothing met is the only
one, its session is closed, and the rows it summarises are still the log
(`Alone`). The copy that the rewrite makes is then the history the summary
stands for (`HistoryIsAlwaysKept`), and no instance is adrift unless something
met a compaction. That a turn or live workers have an instance
(`WorkHasAnInstance`) is what keeps a turn that ends from appending meanwhile.

`TInv` is about rows. What is kept of the turns of a log is a function of their
ranks: the k-th complete turn is the one with k - 1 before it, and every rank up
to the count is taken by exactly one (`RankIsTaken` of `NumberFacts`), so the
plan is made of turns of the log wherever it cuts. The types need two facts
besides themselves: a request that awaits its summary has read as many complete
turns as a plan takes (`ReadIsEnough`), and the `open` of a running turn is in
the mirror (`TurnIsRecorded`), where its end looks for the id.

`LogInv` is about the log and what speaks of it: the mirror is the log, but for
one end marker; the markers tell what `unfinished` remembers; a sidecar of
another numbering has been told of (`SidecarFitsOrTold`: `unfinished` in place of
the marker, which a later step can then restore); the view of an open instance
is the numbering of the log (`ViewFits`); and the ids grow. The last needs to
know of the number that comes next that it is above all ids in the log
(`NextIsNew`), also when it is read from a mirror that lacks the end marker.

`AgentTurnProofs` first shows that every step of `AgentTurn` is, seen from the
loop, a step of the loop or none, and seen from the request one of the request
or none (`StepsProject`); the two invariants are then proved apart. `RequestInv`
says that a target that may still be repeated has not spoken, and bounds the
requests by counting targets and retries. `LoopInv` says where the loop can be
with calls outstanding, that the calls of the batch under way are exactly those
that were dispatched and not answered, and that a call beyond it never started;
`ToolRowsAreHonest` and `OutcomeIsHonest` follow. `LogKeepsProtocol` is the
refinement, step by step, under `LoopInv`.

`WorkersProofs` rests on one observation: every write of a view is an edit that
changes rows of its own registry only, which were new to it or still running.
With `SyncInv`, that a view is never behind the table in its own rows, a settled
row is written back as it is. `VerdictsAreFinal` assumes `DisjointNames`; the
run `workers_clash` shows that it has to. `DoneWorkersHaveReports` holds for any
relation `Claims` that contains identity: reports are never removed, so a file
that was found stays found. Both views a failed write can leave are covered.

`McpConnectionProofs` proves the types and `StateIsHonest`, which are inductive
as they stand: whoever takes the transport or the retry of a connection also
takes it out of the state that speaks of them. `OneProcessInUse` needs
`Orderly`: as long as nothing crossed, an attempt has the connection for itself,
only the process of the transport is up, a connection with a transport is ready,
and at most one retry is armed, which the budget still pays for.

`SwarmSchedulerProofs` follows the form of the code, where every handler edits
the batch and hands it to schedule(). `Schedules` says what schedule() makes of
any sound batch: some of the queued members are in flight, each member still is
in one place, and whoever waits has a timer. `Edits` says what a handler may do
before it: settle the member, put it back at the head of the queue, or let the
head of the queue go. Together they give the invariant, with two parts the
properties do not state: nobody in the queue has called a tool (or a retry would
be a replay), and a batch that is over has no launch timer. The queue is counted
with the cardinality theorems; that the gate finds a member whose back off is
over is the least number principle, proved from well-foundedness (`LeastNat` of
`NumberFacts`). `KeepsContract` follows step by step (`NextContract`): a handler
owes the results of whoever is not in flight (`Final`, `Earned`) and lawful
launches, and the invariant does the rest, because a member that acted and lost
its attempt without a verdict would have to be in the queue.

Every safety property of a passing run is stated by a theorem. Only
model-checked is liveness, which is beyond the prover: `TeardownFinishes`,
`DeferredRebuildHappens`, `RunResolves`, `TurnEnds`, `LeftoversEnd`,
`AbandonedRowsSettle`. So is that the runs which end in a violation reach it.

## Where the code and its documentation disagree

The runs that end in a violation, with what they contradict, are listed in
`PROJECT.json` under "findings": a swarm batch that never hears the stop of its
turn; a compaction that replaces the file of a session that was opened while it
summarised; a worker whose row, settled or not, is replaced by that of another
conversation that chose the same name.

More of the kind, seen in traces while the modules were written and then put
under a condition of a property rather than in a run of their own:

- `evictIdle()` filters its keys once and awaits between them; a session used
  meanwhile is reclaimed all the same (`SweepNext` does not look at `pastTtl`).
- `invalidateAll()` stops at the first build that throws; the instances after it
  are behind the epoch and not marked. They are still rebuilt at their next
  `ensure()`, so a turn of the user is not affected.
- A turn that an auto-wake starts while configuration changed runs on the
  generation of before: `real-runtime-adapter.ts:385` takes the runtime without
  the settlement of the epoch that a user's turn begins with, where
  `session-registry.ts:254` has busy instances "rebuild at their next turn
  boundary" (`StartAutowakeTurn`; `FreshAtTurnStart` is checked, and proved, with
  `Autowake` off).
- A turn that starts with the rebuild of its generation (`session-registry.ts:443`)
  can be overwritten in the sidecar by the clean mark of the generation before,
  whose store writes its own cached copy; a crash in that turn then reads as a
  clean exit, against `runtime.ts:427`. `CleanExitIsHonest` is broken with
  `ConfigDuringTurn`. The same stale copy brings drained messages back into the
  lanes: after a crash they are injected a second time.
- `connection.ts:103` writes the state after a handshake it awaited without
  looking for a disposal that came meanwhile: the state of a disposed connection
  goes back to ready, where `session.ts:6` says that "nothing survives the
  generation" and `connection.test.ts:159` tests that connections "stay dead" (`DisposeIsFinal` in `McpConnection` fails).
- `drain()` saves the emptied lane before the rows reach the log; a crash in
  between loses the messages ("lost" in `MessageLifecycle`), where
  `inbox.ts:26` says that they survive.
- The slot of a timed out attempt is given away while its executor may still
  run, so executors can exceed maxConcurrency; `LaunchesAreLawful` counts the
  attempts in flight.
- A failed handshake is followed by `void opened.close()` (`connection.ts:112`),
  which has nothing to close at the transport (`sdk-transport.ts:82`), and by the
  armed retry: the process on its way out can live beside the next one, where
  `connection.ts:13` says that "overlapping old and new child processes are worse
  than a stopped one". `OneProcessInUse` counts processes opening or in use, not
  those leaving.
- Two MCP calls that find the same process gone arm two retries, one of which
  cannot be cancelled (`connection.ts:174`: the second finds the connection
  backing off, not failed), so two processes can be in use side by side and the
  budget count can exceed its limit. The same comes of a dispatch that meets an
  attempt under way. `OneProcessInUse` is about connections that nothing has
  `crossed`.
- A call whose turn was cancelled before it is sent fails with an error that
  `errors.ts:54` calls a failed connection, so `session.ts:124` drops the
  transport of a server that is alive, although `errors.ts:47` says that the
  classification never decides control flow. Nobody closes that transport: the
  retry opens a second process next to it.
- The time spent in back off counts as time of stability, because the moment of
  the last ready is kept when a connection is lost: a server that was up once
  and fails for good is retried for ever.
- `startOne()` asks a server for its tools after the first attempt alone. A
  server that the supervised retry brings up later (`connection.ts:130`) is
  connected and has no tools in the session, where `engine-mcp.ts:250` says that
  it lands there.
- The end marker of a compaction is appended to the file after the instance was
  opened on it, so the mirror of that instance holds the start alone, and
  `recovery.unpaired_compaction` of the status, which reads the mirror
  (`recovery-view.ts:79`), is true until the instance is rebuilt. `MirrorIsLog`
  therefore allows the mirror to lack one end marker.
- A compaction reads and replaces the current file and no rolled segment. After
  a roll its numbers from 1 repeat those of the segments, against the uniqueness
  `turn-id.ts:61` verifies (`IdsGrow` is about a log without segments), and a
  turn that the roll cut in two keeps its first half.
- Two compactions of one session that meet: the second copies what the first
  left over the only backup, so what both summarised is gone, where
  `rewrite.ts:5` calls it always recoverable (the second half of `HistoryIsKept`
  is for compactions that nothing met).
- `clear()` empties the log before the sidecar. After a crash in between the
  next turns are under the compressions of the old ones, and no marker tells of
  it (`ClearCutShort` sets `crossed`).
- `ask_user_question` does not pass the signal of its turn on
  (`packages/tools/src/tools/ask-user.ts:159`): the question of a cancelled turn
  stays on the user's screen until its deadline, where `packages/core/src/question.ts:97`
  has the abort settle it. `QuestionsEndWithTheirTurn` in `AgentTurn` fails.
- The retry decorator sees no cancel either, and its generator has nothing to
  release out of band (`cancel.ts:113`), so the chain of a cancelled turn sends
  the requests it still has, where `retry.ts:314` says that it must not.
  `CancelledTurnSendsNothing` in `AgentTurn` fails. What does hold is that it
  comes to an end (`LeftoversEnd`).
- The wrap-up request has no closing hook: a cancel leaves it to itself, keeps
  what it said as the answer, and the turn counts as interrupted, not cancelled
  (`HearCancelInWrapUp`).
- `loop.ts:26` says that the signal is looked at between two batches; after the
  spill of a large result it is not, and one more batch is dispatched.
- A turn that has its answer when it reaches the step cap with a message waiting
  is reported as having hit the limit; an error with a message waiting is
  followed by another step and forgotten; the attempts counted "in THIS step"
  (`loop.ts:452`) are not reset by an extension.
- `stop_worker` settles the row and leaves the turn of the brief running; that
  turn then sends its receipt "DONE OK". A report that cannot be written makes
  the row FAILED and the receipt still says DONE. Rows settled by the watchdog,
  the shutdown or the recovery send none.
- A message to a worker that is stopped or adopted is answered "delivered".
- A report is found by the prefix of its name in a directory that all
  conversations share. `watchdog.ts:154` has the rule that "a report belongs to a
  wid only when the file name carries the wid as a complete STEM SEGMENT", so
  that no worker is frozen as DONE without a deliverable of its own; but a "-" may
  be part of a name, and the report of worker "a-b" still makes an abandoned
  worker "a" DONE (`Claims`), as "a/b" and "a_b" have one stem.
- The report of a failed brief counts as a deliverable: after a crash between
  report and row, the armed recovery calls the worker DONE, where
  `receipt.ts:126` says that an error of the turn fails it. `DoneHasReport`
  therefore asks for a report and not for what it says.
- `registry.ts:813` speaks of one atomic write of verdict and receipt token;
  they are two.

## What is not modelled

`PROJECT.json` gives the reason for each part. In short: pure conversions and
predicates over strings (configuration, paths, wire formats, tool schemas) are
the matter of unit tests, processes and devices are I/O, the frontend shows what
it is sent. The parts with protocols of their own are in the plan.

## Plan

What would come next, in this order:

1. `Delivery`: lanes, mailbox and auto-wake, composed with the turn boundary. A
   message that is accepted is eventually in a turn; none is consumed twice over
   a rebuild; receipts of workers. Refines `MessageLifecycle`. From reading the
   code, two things to settle there: the eviction of an idle instance purges the
   receipts still queued in its mailbox (`runtime.ts:439`) although their rows say
   that they were delivered, and a receipt that a rebuild carries over
   (`gen.ts:157`) goes on as a plain relay, without its kind and so without the
   key `receipt:<wid>:<attempt>`.
2. `Workers` with two live processes and the lease, and the lock of the table as
   it is taken and stolen (`registry-tsv.ts:161`).
3. `Grants`, and the benching of targets over several requests.
4. `McpConnection` composed with the generations of `SessionRegistry`, whose
   teardown does not await the disposal (`generation-hooks.ts:23`).
5. The memory of 512 delivered ids (`inbox.ts:118`), which `Checkpoint` has
   without a bound.
