------------------------------ MODULE Compaction ------------------------------
(***************************************************************************)
(* The log of one session on disk and what rewrites it: the append-only    *)
(* log with its mirror in memory (packages/session/src/log), the           *)
(* compaction that summarises it and replaces the file                     *)
(* (packages/runtime/src/compact), and the host that evicts the instance   *)
(* before and opens it again after (studio's session-lifecycle.ts).        *)
(*                                                                         *)
(* A turn is the two rows that bound it; its other rows go where these go. *)
(* The rewrite and what follows it run in one synchronous block, so a      *)
(* crash between two writes is a stop of the block and then a crash.       *)
(***************************************************************************)
EXTENDS Integers, SequencesExt

CONSTANTS
  Requests,     \* compactions that may be asked for together
  Threshold,    \* COMPACT_THRESHOLD
  KeepTurns,    \* COMPACT_KEEP_TURNS
  HeadTurns,    \* COMPACT_HEAD_TURNS
  None,         \* no sidecar
  Initial,      \* bound: turns in the log at first
  MaxTurns,     \* bound: turns of the session
  MaxEditions   \* bound: numberings of the log

ASSUME CompactionAssumption ==
  /\ {Threshold, HeadTurns, Initial, MaxTurns, MaxEditions} \subseteq Nat
  /\ KeepTurns \in 1..Threshold
  /\ Initial <= MaxTurns
  /\ None \notin Int

VARIABLES
  rolled,     \* the rows of the rolled segment
  log,        \* the rows of the current file
  backup,     \* the rows of cli-main.jsonl.precompact, if any
  edition,    \* which numbering of its turns the log has
  sidecar,    \* compression.json: the numbering its intervals are over
  descriptor, \* what the instance of the session appends to
  mirror,     \* the rows in its memory
  view,       \* the numbering of the mirror
  turn,       \* its turn in flight, or 0
  pinned,     \* its workers are alive
  said,       \* turns so far
  pc,         \* where each compaction is
  had,        \* before: had the session an instance?
  read,       \* the rows each compaction summarises
  unfinished, \* history: the last rewrite was not followed by its end
  crossed     \* history: something met a compaction under way, or a clear was
              \* cut short

diskVars == <<rolled, log, backup, edition, sidecar>>
instanceVars == <<descriptor, mirror, view, turn, pinned, said>>
requestVars == <<pc, had, read>>
vars == <<diskVars, instanceVars, requestVars, unfinished, crossed>>

Least(x, y) == IF x <= y THEN x ELSE y

Row(kind, t, n) == [kind |-> kind, turn |-> t, id |-> n]
Mark(kind) == Row(kind, 0, 0)
IsBoundary(row) == row.kind \in {"open", "close"}

(* The turns ts as rows, numbered from n.                                  *)
Turns(ts, n) ==
  [i \in 1..(2 * Len(ts)) |->
     LET k == (i + 1) \div 2
     IN Row(IF i % 2 = 1 THEN "open" ELSE "close", ts[k], n + k - 1)]

Stream == rolled \o log
UnderWay == {c \in Requests : pc[c] # "idle"}

(* nextTurnNumber()                                                        *)
NextId(rows) ==
  Max({0} \cup {rows[i].id + 1 : i \in {j \in DOMAIN rows : IsBoundary(rows[j])}})

(* The rows that open a turn which the next boundary closes.               *)
Completed(rows) ==
  {i \in DOMAIN rows :
     /\ rows[i].kind = "open"
     /\ \E j \in DOMAIN rows :
          /\ i < j /\ rows[j].kind = "close"
          /\ \A k \in (i + 1)..(j - 1) : ~IsBoundary(rows[k])}

(* The k-th of a finite set of numbers.                                    *)
Ranked(S, k) == CHOOSE i \in S : Cardinality({j \in S : j <= i}) = k

(* splitCompleteTurns(): a turn that starts anew drops the fragment before *)
(* it, and a row outside a turn is dropped.                                *)
CompleteTurns(rows) ==
  [k \in 1..Cardinality(Completed(rows)) |-> rows[Ranked(Completed(rows), k)].turn]

IsEnough(rows) == Len(CompleteTurns(rows)) > Threshold

(* Mutant: the tail is numbered as if no head were kept.                   *)
PlanHeadForgotten(rows) ==
  LET ts == CompleteTurns(rows)
      tail == SubSeq(ts, Len(ts) - KeepTurns + 1, Len(ts))
      head == SubSeq(ts, 1, Least(HeadTurns, Len(ts) - KeepTurns))
  IN Turns(<<0>> \o head, 1) \o Turns(tail, 2)

(* planCompaction(): the summary (turn 0), the oldest and the newest turns,*)
(* numbered from 1.                                                        *)
Plan(rows) ==
  LET ts == CompleteTurns(rows)
      tail == SubSeq(ts, Len(ts) - KeepTurns + 1, Len(ts))
      head == SubSeq(ts, 1, Least(HeadTurns, Len(ts) - KeepTurns))
  IN Turns(<<0>> \o head \o tail, 1)

Init ==
  /\ rolled = <<>> /\ log = Turns([t \in 1..Initial |-> t], 0) /\ backup = <<>>
  /\ edition = 0 /\ sidecar = None
  /\ descriptor = "none" /\ mirror = <<>> /\ view = 0
  /\ turn = 0 /\ pinned = FALSE /\ said = Initial
  /\ pc = [c \in Requests |-> "idle"]
  /\ had = [c \in Requests |-> FALSE]
  /\ read = [c \in Requests |-> <<>>]
  /\ unfinished = FALSE /\ crossed = FALSE

-----------------------------------------------------------------------------
(* PersistentSessionLog.open() over the given rows.                        *)
OpensOn(rows, numbering) ==
  /\ descriptor' = "path"
  /\ mirror' = rows
  /\ view' = numbering
  /\ UNCHANGED <<turn, pinned, said>>

(* ensure(): the session is opened.                                        *)
Open ==
  /\ descriptor = "none"
  /\ OpensOn(Stream, edition)
  /\ crossed' = (crossed \/ UnderWay # {})
  /\ UNCHANGED <<diskVars, requestVars, unfinished>>

(* Mutant: evict() does not look at the turn.                              *)
MayEvictBusy == ~pinned

(* evict() has nothing against it.                                         *)
MayEvict == turn = 0 /\ ~pinned

(* The idle instance is reclaimed, or torn down for a rebuild.             *)
Retire ==
  /\ descriptor # "none" /\ MayEvict
  /\ descriptor' = "none"
  /\ UNCHANGED <<diskVars, mirror, view, turn, pinned, said, requestVars, unfinished, crossed>>

(* append(): the file is rolled first when it is large, and the descriptor *)
(* is opened again; otherwise the row goes where the descriptor points.    *)
(* Bound: one segment is rolled.                                           *)
Appends(row) ==
  /\ mirror' = Append(mirror, row)
  /\ \/ /\ log' = IF descriptor = "path" THEN Append(log, row) ELSE log
        /\ UNCHANGED <<rolled, descriptor>>
     \/ /\ rolled = <<>> /\ log # <<>>
        /\ rolled' = log /\ log' = <<row>>
        /\ descriptor' = "path"
  /\ UNCHANGED <<backup, edition, sidecar, view, pinned>>

StartTurn ==
  /\ descriptor # "none" /\ turn = 0 /\ said < MaxTurns
  /\ Appends(Row("open", said + 1, NextId(mirror)))
  /\ turn' = said + 1 /\ said' = said + 1
  /\ UNCHANGED <<requestVars, unfinished, crossed>>

EndTurn ==
  /\ turn # 0
  /\ Appends(Row("close", turn, NextId(mirror) - 1))
  /\ turn' = 0
  /\ UNCHANGED <<said, requestVars, unfinished, crossed>>

(* compress and decompress of the turn: the intervals are over its mirror. *)
Compress ==
  /\ turn # 0
  /\ sidecar' \in {None, view}
  /\ UNCHANGED <<rolled, log, backup, edition, instanceVars, requestVars, unfinished, crossed>>

(* Workers of the session start and settle.                                *)
Workers ==
  /\ descriptor # "none"
  /\ turn # 0 \/ pinned
  /\ pinned' = ~pinned
  /\ UNCHANGED <<diskVars, descriptor, mirror, view, turn, said, requestVars, unfinished, crossed>>

(* clear(): the files of the log, then the sidecar; the descriptor is      *)
(* opened again.                                                           *)
ClearsLog ==
  /\ descriptor # "none" /\ turn = 0 /\ edition < MaxEditions
  /\ rolled' = <<>> /\ log' = <<>>
  /\ edition' = edition + 1
  /\ unfinished' = FALSE
  /\ UNCHANGED <<backup, said>>

Clear ==
  /\ ClearsLog
  /\ sidecar' = None
  /\ descriptor' = "path" /\ mirror' = <<>> /\ view' = edition + 1
  /\ UNCHANGED <<turn, pinned, requestVars, crossed>>

(* The process ends, and with it all that is in memory.                    *)
Dies ==
  /\ descriptor' = "none" /\ mirror' = <<>> /\ view' = 0
  /\ turn' = 0 /\ pinned' = FALSE
  /\ pc' = [c \in Requests |-> "idle"]
  /\ had' = [c \in Requests |-> FALSE]
  /\ read' = [c \in Requests |-> <<>>]

(* ... between the two writes of clear().                                  *)
ClearCutShort ==
  /\ ClearsLog /\ Dies
  /\ crossed' = TRUE
  /\ UNCHANGED sidecar

Crash ==
  /\ descriptor # "none" \/ UnderWay # {}
  /\ Dies
  /\ UNCHANGED <<diskVars, said, unfinished, crossed>>

-----------------------------------------------------------------------------
(* The compaction                                                          *)

(* Mutant: the verdict of evict() is discarded.                            *)
CompactAnyway(c) ==
  /\ pc[c] = "idle" /\ turn = 0
  /\ had' = [had EXCEPT ![c] = descriptor # "none"]
  /\ IF descriptor = "none"
     THEN IsEnough(log) /\ pc' = [pc EXCEPT ![c] = "summing"] /\ read' = [read EXCEPT ![c] = log]
     ELSE pc' = [pc EXCEPT ![c] = "evicting"] /\ UNCHANGED read
  /\ descriptor' = IF MayEvict THEN "none" ELSE descriptor
  /\ crossed' = (crossed \/ UnderWay # {})
  /\ UNCHANGED <<diskVars, mirror, view, turn, pinned, said, unfinished>>

(* compactSession() up to its first await: the instance leaves the         *)
(* registry; without one the log is read at once.                          *)
Compact(c) ==
  /\ pc[c] = "idle" /\ MayEvict
  /\ had' = [had EXCEPT ![c] = descriptor # "none"]
  /\ IF descriptor = "none"
     THEN IsEnough(log) /\ pc' = [pc EXCEPT ![c] = "summing"] /\ read' = [read EXCEPT ![c] = log]
     ELSE pc' = [pc EXCEPT ![c] = "evicting"] /\ UNCHANGED read
  /\ descriptor' = "none"
  /\ crossed' = (crossed \/ UnderWay # {})
  /\ UNCHANGED <<diskVars, mirror, view, turn, pinned, said, unfinished>>

(* The request is answered.                                                *)
Answers(c) ==
  /\ pc' = [pc EXCEPT ![c] = "idle"]
  /\ had' = [had EXCEPT ![c] = FALSE]
  /\ read' = [read EXCEPT ![c] = <<>>]

(* The instance is torn down.  The log is read (the current file alone);   *)
(* when it is short, nothing is written and the session is opened again.   *)
Evicted(c) ==
  /\ pc[c] = "evicting"
  /\ IF IsEnough(log)
     THEN /\ pc' = [pc EXCEPT ![c] = "summing"] /\ read' = [read EXCEPT ![c] = log]
          /\ UNCHANGED <<had, instanceVars>>
     ELSE /\ Answers(c)
          /\ IF descriptor = "none"
             THEN OpensOn(Stream, edition) \/ UNCHANGED instanceVars
             ELSE UNCHANGED instanceVars
  /\ UNCHANGED <<diskVars, unfinished, crossed>>

(* The summary, or the rewrite before its rename, fails.                   *)
RewriteFails(c) ==
  /\ pc[c] = "summing"
  /\ Answers(c)
  /\ backup' \in {backup, log}
  /\ UNCHANGED <<rolled, log, edition, sidecar, instanceVars, unfinished, crossed>>

(* Mutant: the pair is closed inside the rewrite.                          *)
RewrittenClosed(c) == <<Mark("start")>> \o Plan(read[c]) \o <<Mark("end")>>

Rewritten(c) == <<Mark("start")>> \o Plan(read[c])

(* Mutant: the file is replaced without a copy.                            *)
ReplacesUnsaved(c, rows) ==
  /\ pc[c] = "summing" /\ edition < MaxEditions
  /\ Answers(c)
  /\ log' = rows
  /\ edition' = edition + 1
  /\ UNCHANGED <<rolled, backup, crossed>>

(* rewriteAtomic(): a copy of the file as it is now, and the rename.       *)
Replaces(c, rows) ==
  /\ pc[c] = "summing" /\ edition < MaxEditions
  /\ Answers(c)
  /\ backup' = log
  /\ log' = rows
  /\ edition' = edition + 1
  /\ UNCHANGED <<rolled, crossed>>

(* An instance that is open keeps its descriptor on the unlinked file.     *)
Outlives ==
  /\ descriptor' = IF descriptor = "none" THEN "none" ELSE "adrift"
  /\ UNCHANGED <<mirror, view, turn, pinned, said>>

(* The session is opened on the new log, when it was open before.          *)
Rebinds(c) ==
  IF had[c] /\ descriptor = "none"
  THEN OpensOn(rolled \o Rewritten(c), edition + 1)
  ELSE Outlives

(* The rewrite, and a failure in what follows: the sidecar is not removed, *)
(* the session not opened or the end not appended.                         *)
RewriteStops(c) ==
  /\ Replaces(c, Rewritten(c))
  /\ \/ sidecar' \in {sidecar, None} /\ Outlives
     \/ sidecar' = None /\ Rebinds(c)
  /\ unfinished' = TRUE

(* Mutant: the sidecar stays.                                              *)
RewriteEndsKeepsSidecar(c) ==
  /\ Replaces(c, Append(Rewritten(c), Mark("end")))
  /\ Rebinds(c)
  /\ unfinished' = FALSE
  /\ UNCHANGED sidecar

(* The rewrite, the removal of the sidecar, the rebind, the end marker.    *)
RewriteEnds(c) ==
  /\ Replaces(c, Append(Rewritten(c), Mark("end")))
  /\ sidecar' = None
  /\ Rebinds(c)
  /\ unfinished' = FALSE

Next ==
  \/ Open \/ Retire \/ StartTurn \/ EndTurn \/ Compress \/ Workers
  \/ Clear \/ ClearCutShort \/ Crash
  \/ \E c \in Requests :
       \/ Compact(c) \/ Evicted(c)
       \/ RewriteFails(c) \/ RewriteStops(c) \/ RewriteEnds(c)

Spec == Init /\ [][Next]_vars

-----------------------------------------------------------------------------
(* Properties                                                              *)

(* hasUnpairedCompactionStart()                                            *)
IsUnpaired(rows) ==
  \E i \in DOMAIN rows :
    rows[i].kind = "start" /\ \A j \in (i + 1)..Len(rows) : rows[j].kind # "end"

TurnsIn(rows) == {rows[i].turn : i \in DOMAIN rows} \ {0}
SavedTurns == TurnsIn(backup)
Rows == [kind : {"open", "close", "start", "end"}, turn : 0..MaxTurns, id : Nat]

(* Every variable has its type; a turn and its workers have an instance,   *)
(* and a compaction that awaits an eviction asked for it.                  *)
TypeOK ==
  /\ {rolled, log, backup, mirror} \subseteq Seq(Rows)
  /\ edition \in 0..MaxEditions /\ view \in 0..MaxEditions
  /\ sidecar \in 0..MaxEditions \cup {None}
  /\ descriptor \in {"none", "path", "adrift"}
  /\ said \in 0..MaxTurns /\ turn \in 0..said
  /\ pc \in [Requests -> {"idle", "evicting", "summing"}]
  /\ had \in [Requests -> BOOLEAN] /\ read \in [Requests -> Seq(Rows)]
  /\ {pinned, unfinished, crossed} \subseteq BOOLEAN
  /\ turn # 0 \/ pinned => descriptor # "none"
  /\ \A c \in Requests : pc[c] = "evicting" => had[c]

(* The rows the model sees are those a restart would replay: as long as    *)
(* nothing meets a compaction, no rewrite takes the file from under an     *)
(* instance and none is opened on the rows of before.  One end marker may  *)
(* be missing: it never gets into the mirror of the instance that was      *)
(* opened just before it was written.                                      *)
MirrorIsLog ==
  descriptor # "none" /\ ~crossed =>
    \/ mirror = Stream
    \/ \E i \in DOMAIN Stream : Stream[i].kind = "end" /\ mirror = RemoveAt(Stream, i)

(* The history is always recoverable: a rewrite leaves every turn of the   *)
(* file it replaces, and every turn its summary stands for, in the new log *)
(* or in the copy.                                                         *)
HistoryIsKept ==
  [][\A c \in Requests :
       pc[c] = "summing" /\ edition' # edition /\ log' # <<>> =>
         /\ TurnsIn(log) \subseteq TurnsIn(log') \cup SavedTurns'
         /\ ~crossed => TurnsIn(read[c]) \subseteq TurnsIn(log') \cup SavedTurns']_vars

(* The markers on disk tell a rewrite that was not followed by its end     *)
(* from one that was, over crashes, further turns and rolled segments.     *)
UnfinishedIsVisible == IsUnpaired(Stream) <=> unfinished

(* The intervals of the sidecar are over the numbering of the log, or the  *)
(* log says that a compaction was left unfinished.                         *)
SidecarFits == sidecar \in {None, edition} \/ IsUnpaired(Stream) \/ crossed

(* As long as no segment was rolled, the ids of the turns grow: no two     *)
(* turns of the log have the same id, whatever was renumbered.             *)
IdsGrow ==
  rolled = <<>> =>
    \A i, j \in DOMAIN log :
      i < j /\ log[i].kind = "open" /\ log[j].kind = "open" => log[i].id < log[j].id

(* No instance appends to a file that a rewrite has replaced.              *)
NoRowAdrift == descriptor # "adrift"
=============================================================================
