-------------------------------- MODULE Workers --------------------------------
(***************************************************************************)
(* The worker table (packages/workers/src): one file, shared by the worker *)
(* registries of all conversations of the process.  Each registry works on *)
(* its own view of the table, writes its own rows over what the file holds *)
(* and drives its workers; a watchdog settles the rows nobody drives, and  *)
(* the boot of the next process those that a dead process left behind.     *)
(***************************************************************************)
EXTENDS Naturals, FiniteSets

CONSTANTS
  Hosts,       \* the conversations
  Wids,        \* the names of workers
  Pids,        \* process ids; a later process may get an earlier one's
  NoRow,
  Names,       \* Names[h]: the names the model of h gives its workers
  Driving,     \* the conversations whose registry is given drivers
  Reporting,   \* the workers that are spawned with a report_to
  Claims,      \* Claims[w]: the workers whose reports are found for w
  MaxRetries,  \* maxRetries of the watchdog
  Recover,     \* CELESTEA_WORKER_RECOVER=1
  MaxCrashes,  \* bound: crashes
  MaxFaults    \* bound: failed writes of the table

Status == {"RUNNING", "DONE", "FAILED", "STOPPED"}

(* attempt= and retries= grow together.                                    *)
Row == [host : Hosts, proc : Pids, status : Status, attempt : 0..MaxRetries]

ASSUME WorkersAssumption ==
  /\ Names \in [Hosts -> SUBSET Wids] /\ Reporting \subseteq Wids
  /\ Claims \in [Wids -> SUBSET Wids] /\ \A w \in Wids : w \in Claims[w]
  /\ Driving \subseteq Hosts
  /\ {MaxRetries, MaxCrashes, MaxFaults} \subseteq Nat
  /\ Pids \subseteq Nat \ {0}
  /\ Recover \in BOOLEAN
  /\ NoRow \notin Row

VARIABLES
  pid,       \* the process that runs, 0: none
  table,     \* the rows of the file
  reports,   \* report files: name, attempt, did the brief fail?
  open,      \* the conversations with a registry
  closing,   \* those whose registry waits for its drivers to stop
  attached,  \* those whose registry can drive workers
  rows,      \* the view of each registry
  driver,    \* the driver loop of each worker
  briefs,    \* the workers whose brief a registry remembers
  crashes, faults

vars == <<pid, table, reports, open, closing, attached, rows, driver, briefs,
          crashes, faults>>

(* A driver is in the turn of its brief, or parked and answering messages; *)
(* one that is stopped finishes the turn of its brief first.               *)
DriverStates == {"none", "brief", "parked", "stopping"}

TypeOK ==
  /\ pid \in Pids \cup {0}
  /\ table \in [Wids -> Row \cup {NoRow}]
  /\ reports \subseteq Wids \X (0..MaxRetries) \X BOOLEAN
  /\ open \subseteq Hosts /\ closing \subseteq open /\ attached \subseteq open
  /\ rows \in [Hosts -> [Wids -> Row \cup {NoRow}]]
  /\ driver \in [Hosts -> [Wids -> DriverStates]]
  /\ briefs \in [Hosts -> SUBSET Wids]
  /\ crashes \in 0..MaxCrashes /\ faults \in 0..MaxFaults

EmptyTable == [w \in Wids |-> NoRow]
NoDriver == [w \in Wids |-> "none"]

Init ==
  /\ pid = 0 /\ table = EmptyTable /\ reports = {}
  /\ open = {} /\ closing = {} /\ attached = {}
  /\ rows = [h \in Hosts |-> EmptyTable]
  /\ driver = [h \in Hosts |-> NoDriver]
  /\ briefs = [h \in Hosts |-> {}]
  /\ crashes = 0 /\ faults = 0

-----------------------------------------------------------------------------
(* Rows and their table                                                    *)

(* ownEntries: the rows of this process and conversation.                  *)
Mine(h, view) ==
  {w \in Wids : view[w] # NoRow /\ view[w].host = h /\ view[w].proc = pid}

Open(h, view) == {w \in Mine(h, view) : view[w].status = "RUNNING"}

(* A report of any attempt counts, whatever it says.  All conversations    *)
(* share one directory, and a file is found for w when its name is the     *)
(* sanitized name of w or goes on after it with a "-": the report of "a-b" *)
(* is found for "a" too, and that of "a/b" for "a_b".                      *)
Reported(w) == \E r \in reports : r[1] \in Claims[w]

Settle(view, w, status) == [view EXCEPT ![w].status = status]

(* Mutant: every row of the view wins over the file.                       *)
MergeWholeView(h, view) ==
  [w \in Wids |-> IF view[w] # NoRow THEN view[w] ELSE table[w]]

Merge(h, view) == [w \in Wids |-> IF w \in Mine(h, view) THEN view[w] ELSE table[w]]

(* persist: read, merge and replace the file; it may fail and is not       *)
(* repeated.                                                               *)
Write(h, view) ==
  \/ table' = Merge(h, view) /\ UNCHANGED faults
  \/ faults < MaxFaults /\ faults' = faults + 1 /\ UNCHANGED table

(* The view is what was merged, also if the file could not be replaced;    *)
(* it stays as it was if the table could not be locked or read.            *)
Persist(h, view) ==
  /\ Write(h, view)
  /\ \/ rows' = [rows EXCEPT ![h] = Merge(h, view)]
     \/ faults' # faults /\ rows' = [rows EXCEPT ![h] = view]

-----------------------------------------------------------------------------
(* The process                                                             *)

Forget ==
  /\ open' = {} /\ closing' = {} /\ attached' = {}
  /\ rows' = [h \in Hosts |-> EmptyTable]
  /\ driver' = [h \in Hosts |-> NoDriver]
  /\ briefs' = [h \in Hosts |-> {}]

(* claim, then finalize: the brief is lost with the memory.                *)
Take(row, w) ==
  [row EXCEPT !.proc = pid', !.status = IF Reported(w) THEN "DONE" ELSE "FAILED"]

(* applyRecovery: the rows of processes that are gone are claimed and      *)
(* settled; a process id that was recycled hides them while their lease is *)
(* young.  A failing write ends it early, possibly between the claim of a  *)
(* row and its verdict.                                                    *)
Converge ==
  \E recycled \in SUBSET (Pids \ {pid'}) :
    LET stale == {w \in Wids : /\ table[w] # NoRow /\ table[w].status = "RUNNING"
                               /\ table[w].proc \notin recycled \cup {pid'}}
    IN  \/ /\ table' = [w \in Wids |-> IF w \in stale THEN Take(table[w], w) ELSE table[w]]
           /\ UNCHANGED faults
        \/ /\ stale # {} /\ faults < MaxFaults /\ faults' = faults + 1
           /\ \E settled \in SUBSET stale : \E claimed \in SUBSET (stale \ settled) :
                /\ Cardinality(claimed) <= 1
                /\ table' = [w \in Wids |->
                     IF w \in settled THEN Take(table[w], w)
                     ELSE IF w \in claimed THEN [table[w] EXCEPT !.proc = pid']
                     ELSE table[w]]

Boot(p) ==
  /\ pid = 0 /\ pid' = p
  /\ IF Recover THEN Converge ELSE UNCHANGED <<table, faults>>
  /\ UNCHANGED <<reports, open, closing, attached, rows, driver, briefs, crashes>>

Leave ==
  /\ pid # 0 /\ open = {}
  /\ pid' = 0
  /\ UNCHANGED <<table, reports, open, closing, attached, rows, driver, briefs,
                 crashes, faults>>

Die ==
  /\ pid # 0 /\ crashes < MaxCrashes
  /\ pid' = 0 /\ crashes' = crashes + 1
  /\ Forget
  /\ UNCHANGED <<table, faults>>

Crash == Die /\ UNCHANGED reports

-----------------------------------------------------------------------------
(* A registry                                                              *)

(* It reads the table; drivers are attached later, if there are any.       *)
OpenRegistry(h) ==
  /\ pid # 0 /\ h \notin open
  /\ open' = open \cup {h}
  /\ rows' = [rows EXCEPT ![h] = table]
  /\ UNCHANGED <<pid, table, reports, closing, attached, driver, briefs, crashes, faults>>

AttachDrivers(h) ==
  /\ h \in (open \cap Driving) \ attached
  /\ attached' = attached \cup {h}
  /\ UNCHANGED <<pid, table, reports, open, closing, rows, driver, briefs, crashes, faults>>

(* abortAllNow: parked drivers are gone, the others finish their turn.     *)
BeginClose(h) ==
  /\ h \in open \ closing
  /\ closing' = closing \cup {h}
  /\ briefs' = [briefs EXCEPT ![h] = {w \in @ : driver[h][w] # "parked"}]
  /\ driver' = [driver EXCEPT ![h] = [w \in Wids |->
       CASE @[w] = "brief" -> "stopping"
         [] @[w] = "parked" -> "none"
         [] OTHER -> @[w]]]
  /\ UNCHANGED <<pid, table, reports, open, attached, rows, crashes, faults>>

(* shutdown and release, once the aborted drivers are joined: what still   *)
(* runs is abandoned, and so is a driver that was started meanwhile.       *)
SettleOpenRows(h) ==
  IF Open(h, rows[h]) = {}
    THEN UNCHANGED <<table, faults>>
    ELSE Write(h, [w \in Wids |-> IF w \in Open(h, rows[h])
                                    THEN [rows[h][w] EXCEPT !.status = "FAILED"]
                                    ELSE rows[h][w]])

FinishClose(h) ==
  /\ h \in closing
  /\ \A w \in Wids : driver[h][w] # "stopping"
  /\ SettleOpenRows(h)
  /\ open' = open \ {h} /\ closing' = closing \ {h} /\ attached' = attached \ {h}
  /\ rows' = [rows EXCEPT ![h] = EmptyTable]
  /\ driver' = [driver EXCEPT ![h] = NoDriver]
  /\ briefs' = [briefs EXCEPT ![h] = {}]
  /\ UNCHANGED <<pid, reports, crashes>>

(* Every driven row has its lease renewed.                                 *)
Heartbeat(h) ==
  /\ \E w \in Open(h, rows[h]) : driver[h][w] \in {"brief", "parked"}
  /\ Persist(h, rows[h])
  /\ UNCHANGED <<pid, reports, open, closing, attached, driver, briefs, crashes>>

-----------------------------------------------------------------------------
(* The tools of the coordinator                                            *)

(* spawn_worker: the name must be new in the view of the registry.         *)
Spawn(h, w) ==
  /\ h \in open /\ w \in Names[h] /\ rows[h][w] = NoRow
  /\ Persist(h, [rows[h] EXCEPT ![w] =
       [host |-> h, proc |-> pid, status |-> "RUNNING", attempt |-> 0]])
  /\ briefs' = [briefs EXCEPT ![h] = @ \cup {w}]
  /\ driver' = [driver EXCEPT ![h][w] = IF h \in attached THEN "brief" ELSE "none"]
  /\ UNCHANGED <<pid, reports, open, closing, attached, crashes>>

(* stop_worker: the row is settled, the turn of the brief goes on.         *)
Stop(h, w) ==
  /\ w \in Open(h, rows[h])
  /\ Persist(h, Settle(rows[h], w, "STOPPED"))
  /\ driver' = [driver EXCEPT ![h][w] = IF @ = "brief" THEN "stopping" ELSE @]
  /\ UNCHANGED <<pid, reports, open, closing, attached, briefs, crashes>>

-----------------------------------------------------------------------------
(* The driver loop                                                         *)

(* The report of a brief's turn, if somebody wants it and it can be        *)
(* written.                                                                *)
Report(w, attempt, failed, written) ==
  reports' = IF w \in Reporting /\ written
               THEN reports \cup {<<w, attempt, failed>>} ELSE reports

(* Mutant: a report that could not be written does not count.              *)
VerdictOfBrief(w, failed, written) == IF failed THEN "FAILED" ELSE "DONE"

(* verdictOf: no report, no deliverable.                                   *)
Verdict(w, failed, written) ==
  IF failed \/ (w \in Reporting /\ ~written) THEN "FAILED" ELSE "DONE"

(* The turn of the brief is over: closeLoop writes the report and settles  *)
(* the row, unless it has its verdict; the loop parks, unless it was       *)
(* stopped meanwhile.                                                      *)
EndBrief(h, w) ==
  /\ driver[h][w] \in {"brief", "stopping"}
  /\ \E failed, written \in BOOLEAN :
       /\ Report(w, rows[h][w].attempt, failed, written)
       /\ IF rows[h][w].status = "RUNNING"
            THEN Persist(h, Settle(rows[h], w, Verdict(w, failed, written)))
            ELSE UNCHANGED <<table, rows, faults>>
  /\ IF driver[h][w] = "brief" /\ h \notin closing
       THEN driver' = [driver EXCEPT ![h][w] = "parked"] /\ UNCHANGED briefs
       ELSE /\ driver' = [driver EXCEPT ![h][w] = "none"]
            /\ briefs' = [briefs EXCEPT ![h] = @ \ {w}]
  /\ UNCHANGED <<pid, open, closing, attached, crashes>>

(* The process dies when the report is written and the row is not settled. *)
CrashAfterReport(h, w) ==
  /\ driver[h][w] \in {"brief", "stopping"}
  /\ \E failed \in BOOLEAN : Report(w, rows[h][w].attempt, failed, TRUE)
  /\ Die

-----------------------------------------------------------------------------
(* The watchdog: a RUNNING row that nobody drives                          *)

Abandoned(h, w) == w \in Open(h, rows[h]) /\ driver[h][w] = "none"

(* Mutant: the limit is not looked at.                                     *)
CanAlwaysRespawn(h, w) == w \in briefs[h]

CanRespawn(h, w) == rows[h][w].attempt < MaxRetries /\ w \in briefs[h]

SettleAbandoned(h, w) ==
  /\ Abandoned(h, w)
  /\ Reported(w) \/ ~CanRespawn(h, w)
  /\ Persist(h, Settle(rows[h], w, IF Reported(w) THEN "DONE" ELSE "FAILED"))
  /\ briefs' = [briefs EXCEPT ![h] = @ \ {w}]
  /\ UNCHANGED <<pid, reports, open, closing, attached, driver, crashes>>

(* Mutant: the attempt is not counted.                                     *)
NextAttempt(row) == row

(* The next attempt of the row.                                            *)
Again(row) == [row EXCEPT !.attempt = @ + 1]

Respawn(h, w) ==
  /\ Abandoned(h, w) /\ ~Reported(w) /\ CanRespawn(h, w)
  /\ Persist(h, [rows[h] EXCEPT ![w] = Again(@)])
  /\ driver' = [driver EXCEPT ![h][w] = IF h \in attached THEN "brief" ELSE "none"]
  /\ UNCHANGED <<pid, reports, open, closing, attached, briefs, crashes>>

Watch(h, w) == SettleAbandoned(h, w) \/ Respawn(h, w)

-----------------------------------------------------------------------------
Process == (\E p \in Pids : Boot(p)) \/ Leave \/ Crash

Registry(h) ==
  OpenRegistry(h) \/ AttachDrivers(h) \/ BeginClose(h) \/ FinishClose(h) \/ Heartbeat(h)

Worker(h, w) ==
  Spawn(h, w) \/ Stop(h, w) \/ EndBrief(h, w) \/ CrashAfterReport(h, w) \/ Watch(h, w)

Next ==
  \/ Process
  \/ \E h \in Hosts : Registry(h)
  \/ \E h \in Hosts, w \in Wids : Worker(h, w)

(* The watchdog sweeps while a registry is open; nothing makes a turn end. *)
Spec == Init /\ [][Next]_vars /\ \A h \in Hosts, w \in Wids : WF_vars(Watch(h, w))

-----------------------------------------------------------------------------
(* Properties                                                              *)

(* A verdict in the table is final, although every registry writes from a  *)
(* view that may be old, writes fail, and processes die and take over each *)
(* other's rows: "so a sibling's terminal row is never rolled back"        *)
(* (registry.ts, persist).                                                 *)
TerminalRowsFrozen ==
  [][\A w \in Wids :
       table[w] # NoRow /\ table[w].status # "RUNNING" => table'[w] = table[w]]_vars

(* A worker that reports is DONE only if there is a report that is found   *)
(* for it, whoever settled its row: its driver, the watchdog or the next   *)
(* boot.  It is its own report if the names of the workers keep them apart *)
(* (Claims[w] = {w}), and not always otherwise: see the README.            *)
DoneHasReport ==
  \A w \in Wids :
    table[w] # NoRow /\ table[w].status = "DONE" /\ w \in Reporting => Reported(w)

(* A row that nobody drives is settled or driven again: re-dispatching it  *)
(* comes to an end (Watchdog.tickOne).                                     *)
AbandonedRowsSettle ==
  \A h \in Hosts, w \in Wids : Abandoned(h, w) ~> ~Abandoned(h, w)
=============================================================================
