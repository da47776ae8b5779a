----------------------------- MODULE WorkersProofs -----------------------------
(***************************************************************************)
(* Proofs about Workers.  Every write of the table is an edit of a         *)
(* registry's view: it changes rows of this registry that were new to it   *)
(* or still running.  That, and the view never being behind the table in   *)
(* its own rows, makes the verdicts final.                                 *)
(***************************************************************************)
EXTENDS Workers, TLAPS

View == [Wids -> Row \cup {NoRow}]

Terminal(row) == row # NoRow /\ row.status # "RUNNING"

(* Does a row of a reporting worker claim more than the reports show?      *)
RowIsHonest(w, row) ==
  row # NoRow /\ row.status = "DONE" /\ w \in Reporting => \E r \in reports : r[1] \in Claims[w]

(* ... than the reports will show after the step?                          *)
RowStaysHonest(w, row) ==
  row # NoRow /\ row.status = "DONE" /\ w \in Reporting => \E r \in reports' : r[1] \in Claims[w]

(* The rows of a worker belong to a conversation that uses its name, and   *)
(* a registry that is not open has no view and no drivers.                 *)
PlaceInv ==
  /\ open # {} => pid # 0
  /\ \A w \in Wids : table[w] # NoRow => w \in Names[table[w].host]
  /\ \A h \in Hosts, w \in Wids : rows[h][w] # NoRow => w \in Names[rows[h][w].host]
  /\ \A h \in Hosts, w \in Wids : h \notin open => rows[h][w] = NoRow /\ driver[h][w] = "none"

(* A driver drives a row of its own registry and process.                  *)
DriverInv ==
  \A h \in Hosts, w \in Wids : driver[h][w] # "none" => w \in Mine(h, rows[h])

HonestInv ==
  \A w \in Wids :
    /\ RowIsHonest(w, table[w])
    /\ \A h \in Hosts : RowIsHonest(w, rows[h][w])

(* No two conversations use the same name for a worker.                    *)
DisjointNames ==
  \A h, k \in Hosts : h # k => Names[h] \cap Names[k] = {}

(* The view of a registry is not behind the table in its own rows.         *)
SyncInv ==
  DisjointNames =>
    \A h \in open : \A w \in Names[h] : table[w] # NoRow =>
      rows[h][w] # NoRow /\ (Terminal(table[w]) => rows[h][w] = table[w])

IInv == TypeOK /\ PlaceInv /\ DriverInv /\ HonestInv /\ SyncInv

VerdictsKept ==
  DisjointNames => \A w \in Wids : Terminal(table[w]) => table'[w] = table[w]

(* What every step does.                                                   *)
IsSound == IInv' /\ VerdictsKept

-----------------------------------------------------------------------------
(* Rows                                                                    *)

WithStatus(row, status) == [row EXCEPT !.status = status]
WithProc(row, p) == [row EXCEPT !.proc = p]
WithBoth(row, p, status) == [row EXCEPT !.proc = p, !.status = status]

LEMMA RowEdits ==
  ASSUME NEW row \in Row, NEW status \in Status, NEW p \in Pids
  PROVE  /\ WithStatus(row, status) \in Row
         /\ WithStatus(row, status).status = status
         /\ WithStatus(row, status).host = row.host
         /\ WithStatus(row, status).proc = row.proc
         /\ WithProc(row, p) \in Row
         /\ WithProc(row, p).host = row.host
         /\ WithProc(row, p).status = row.status
         /\ WithBoth(row, p, status) \in Row
         /\ WithBoth(row, p, status).host = row.host
         /\ WithBoth(row, p, status).status = status
BY DEF Row, WithStatus, WithProc, WithBoth

LEMMA NextAttempts ==
  ASSUME NEW row \in Row, row.attempt < MaxRetries
  PROVE  /\ Again(row) \in Row
         /\ Again(row).host = row.host
         /\ Again(row).proc = row.proc
         /\ Again(row).status = row.status
BY WorkersAssumption DEF Again, Row

LEMMA NoRowIsNoRow ==
  ASSUME NEW row \in Row
  PROVE  row # NoRow
BY WorkersAssumption

-----------------------------------------------------------------------------
(* Edits of a view                                                         *)

(* What a registry may write over its view.                                *)
Edits(h, view) ==
  /\ h \in open
  /\ view \in View
  /\ \A w \in Wids : view[w] # rows[h][w] =>
       /\ w \in Names[h]
       /\ view[w] # NoRow /\ view[w].host = h /\ view[w].proc = pid
       /\ rows[h][w] # NoRow => rows[h][w].status = "RUNNING" /\ w \in Mine(h, rows[h])
       /\ RowStaysHonest(w, view[w])

LEMMA HonestyLasts ==
  ASSUME reports \subseteq reports', NEW w, NEW row, RowIsHonest(w, row)
  PROVE  RowStaysHonest(w, row)
BY DEF RowIsHonest, RowStaysHonest

LEMMA InitInvariant == Init => IInv
BY WorkersAssumption
   DEF Init, IInv, TypeOK, PlaceInv, DriverInv, HonestInv, SyncInv, RowIsHonest, EmptyTable, NoDriver,
       DriverStates

(* What the merge of an edited view with the table is.                     *)
LEMMA MergeKeeps ==
  ASSUME IInv, NEW h \in Hosts, NEW view, Edits(h, view), reports \subseteq reports'
  PROVE  /\ Merge(h, view) \in View
         /\ \A w \in Wids :
              /\ Merge(h, view)[w] = IF w \in Mine(h, view) THEN view[w] ELSE table[w]
              /\ Merge(h, view)[w] # NoRow => w \in Names[Merge(h, view)[w].host]
              /\ RowStaysHonest(w, Merge(h, view)[w])
<1>1. /\ Merge(h, view) \in View
      /\ \A w \in Wids : Merge(h, view)[w] = IF w \in Mine(h, view) THEN view[w] ELSE table[w]
  BY DEF Merge, View, Edits, IInv, TypeOK
<1>2. \A w \in Wids : view[w] # NoRow => w \in Names[view[w].host]
  BY DEF Edits, IInv, PlaceInv
<1>3. \A w \in Wids : RowStaysHonest(w, view[w]) /\ RowStaysHonest(w, table[w])
  BY HonestyLasts DEF Edits, IInv, HonestInv
<1> QED
  BY <1>1, <1>2, <1>3 DEF IInv, PlaceInv

(* What a write of an edited view keeps.                                   *)
LEMMA WriteKeeps ==
  ASSUME IInv, NEW h \in Hosts, NEW view, Edits(h, view), Write(h, view),
         reports \subseteq reports'
  PROVE  /\ table' \in View
         /\ faults' \in 0..MaxFaults
         /\ \A w \in Wids : table'[w] # NoRow => w \in Names[table'[w].host]
         /\ \A w \in Wids : RowStaysHonest(w, table'[w])
         /\ \A w \in Wids : view[w] # NoRow => w \in Names[view[w].host]
         /\ \A w \in Wids : RowStaysHonest(w, view[w])
         /\ faults' = faults => \A w \in Mine(h, view) : table'[w] = view[w]
         /\ \A w \in Wids \ Names[h] : table'[w] = table[w]
         /\ VerdictsKept
<1> USE DEF IInv, TypeOK, PlaceInv
<1>1. \A w \in Wids : view[w] # NoRow => w \in Names[view[w].host]
  BY DEF Edits
<1>2. \A w \in Wids : RowStaysHonest(w, view[w]) /\ RowStaysHonest(w, table[w])
  BY HonestyLasts DEF Edits, HonestInv
<1>3. CASE table' = Merge(h, view) /\ UNCHANGED faults
  <2>1. /\ table' \in View
        /\ \A w \in Wids : table'[w] = IF w \in Mine(h, view) THEN view[w] ELSE table[w]
    BY <1>3, MergeKeeps
  <2>2. VerdictsKept
    BY <2>1 DEF VerdictsKept, Terminal, SyncInv, Edits, Mine
  <2>3. \A w \in Wids \ Names[h] : table'[w] = table[w]
    BY <1>1, <2>1 DEF Mine
  <2> QED
    BY <1>1, <1>2, <1>3, <2>1, <2>2, <2>3 DEF Mine
<1>4. CASE faults < MaxFaults /\ faults' = faults + 1 /\ UNCHANGED table
  <2>1. faults' \in 0..MaxFaults /\ faults' # faults
    BY <1>4, WorkersAssumption
  <2> QED
    BY <1>1, <1>2, <1>4, <2>1 DEF View, VerdictsKept
<1> QED
  BY <1>3, <1>4 DEF Write

(* What a registry that persists its view keeps of the invariants.         *)
LEMMA PersistKeeps ==
  ASSUME IInv, NEW h \in Hosts, NEW view, Edits(h, view), Persist(h, view),
         reports \subseteq reports', UNCHANGED <<pid, open>>
  PROVE  /\ table' \in View /\ rows' \in [Hosts -> View] /\ faults' \in 0..MaxFaults
         /\ \A w \in Wids : table'[w] # NoRow => w \in Names[table'[w].host]
         /\ \A k \in Hosts, w \in Wids : rows'[k][w] # NoRow => w \in Names[rows'[k][w].host]
         /\ \A k \in Hosts, w \in Wids : k \notin open => rows'[k][w] = NoRow
         /\ HonestInv'
         /\ \A k \in Hosts \ {h} : rows'[k] = rows[k]
         /\ \A w \in Wids : w \in Mine(h, view) => rows'[h][w] = view[w]
         /\ \A k \in Hosts, w \in Wids :
              w \in Mine(k, rows[k]) => w \in Mine(k, rows[k])'
         /\ rows'[h] = table' \/ (rows'[h] \in {view, Merge(h, view)} /\ table' = table)
         /\ \A w \in Wids \ Names[h] : table'[w] = table[w]
         /\ VerdictsKept
<1> USE DEF IInv, TypeOK, PlaceInv
<1> DEFINE merged == Merge(h, view)
<1>0. /\ merged \in View
      /\ \A w \in Wids : merged[w] # NoRow => w \in Names[merged[w].host]
      /\ \A w \in Wids : RowStaysHonest(w, merged[w])
      /\ \A w \in Mine(h, view) : merged[w] = view[w]
  BY MergeKeeps DEF Mine
<1>1. PICK kept \in {view, merged} :
        /\ rows' = [rows EXCEPT ![h] = kept]
        /\ faults' = faults => kept = merged
  BY DEF Persist
<1>written. Write(h, view)
  BY DEF Persist
<1>2. /\ table' \in View /\ faults' \in 0..MaxFaults /\ view \in View
      /\ \A w \in Wids : table'[w] # NoRow => w \in Names[table'[w].host]
      /\ \A w \in Wids : RowStaysHonest(w, table'[w])
      /\ \A w \in Wids : view[w] # NoRow => w \in Names[view[w].host]
      /\ \A w \in Wids : RowStaysHonest(w, view[w])
      /\ faults' = faults => \A w \in Mine(h, view) : table'[w] = view[w]
      /\ h \in open
      /\ \A w \in Wids \ Names[h] : table'[w] = table[w]
      /\ VerdictsKept
  BY <1>written, WriteKeeps DEF Edits
<1>3. /\ rows'[h] = kept
      /\ rows'[h] = table' \/ table' = table
      /\ \A k \in Hosts \ {h} : rows'[k] = rows[k]
      /\ rows' \in [Hosts -> View]
  BY <1>0, <1>1, <1>2, <1>written, WorkersAssumption DEF View, Write
<1>4. \A k \in Hosts, w \in Wids : rows'[k][w] # NoRow => w \in Names[rows'[k][w].host]
  BY <1>0, <1>2, <1>3
<1>5. \A k \in Hosts, w \in Wids : k \notin open => rows'[k][w] = NoRow
  BY <1>2, <1>3
<1>6. \A k \in Hosts, w \in Wids : RowStaysHonest(w, rows'[k][w])
  BY <1>0, <1>2, <1>3, HonestyLasts DEF HonestInv
<1>7. HonestInv'
  BY <1>2, <1>6 DEF HonestInv, RowIsHonest, RowStaysHonest
<1>8. \A w \in Wids : w \in Mine(h, view) => rows'[h][w] = view[w]
  BY <1>0, <1>3
<1>9. \A w \in Wids : w \in Mine(h, rows[h]) => w \in Mine(h, view)
  BY DEF Mine, Edits
<1>10. ASSUME NEW k \in Hosts, NEW w \in Wids, w \in Mine(k, rows[k])
       PROVE  w \in Mine(k, rows[k])'
  <2>1. CASE k = h
    BY <1>8, <1>9, <1>10, <2>1 DEF Mine
  <2>2. CASE k # h
    BY <1>3, <1>10, <2>2 DEF Mine
  <2> QED
    BY <2>1, <2>2
<1> QED
  BY <1>2, <1>3, <1>4, <1>5, <1>7, <1>8, <1>10

ReportType == Wids \X (0..MaxRetries) \X BOOLEAN

(* An action that persists its view keeps the invariant if it starts       *)
(* drivers only for rows that are its own.                                 *)
LEMMA PersistSuffices ==
  ASSUME IInv, NEW h \in Hosts, NEW view, Edits(h, view), Persist(h, view),
         reports \subseteq reports', reports' \subseteq ReportType,
         driver' \in [Hosts -> [Wids -> DriverStates]],
         briefs' \in [Hosts -> SUBSET Wids],
         \A k \in Hosts, w \in Wids :
           driver'[k][w] # "none" =>
             driver[k][w] # "none" \/ (k = h /\ w \in Mine(h, view)),
         UNCHANGED <<pid, open, closing, attached, crashes>>
  PROVE  IsSound
<1>1. /\ table' \in View /\ rows' \in [Hosts -> View] /\ faults' \in 0..MaxFaults
      /\ \A w \in Wids : table'[w] # NoRow => w \in Names[table'[w].host]
      /\ \A k \in Hosts, w \in Wids : rows'[k][w] # NoRow => w \in Names[rows'[k][w].host]
      /\ \A k \in Hosts, w \in Wids : k \notin open => rows'[k][w] = NoRow
      /\ HonestInv'
      /\ \A w \in Wids : w \in Mine(h, view) => rows'[h][w] = view[w]
      /\ \A k \in Hosts, w \in Wids :
           w \in Mine(k, rows[k]) => w \in Mine(k, rows[k])'
      /\ rows'[h] = table' \/ (rows'[h] \in {view, Merge(h, view)} /\ table' = table)
      /\ \A k \in Hosts \ {h} : rows'[k] = rows[k]
      /\ \A w \in Wids \ Names[h] : table'[w] = table[w]
      /\ VerdictsKept
  BY PersistKeeps
<1>2. TypeOK'
  BY <1>1 DEF IInv, TypeOK, View, ReportType
<1>3. PlaceInv'
  <2>1. h \in open
    BY DEF Edits
  <2> QED
    BY <1>1, <2>1 DEF IInv, PlaceInv
<1>4. DriverInv'
  <2> SUFFICES ASSUME NEW k \in Hosts, NEW w \in Wids, driver'[k][w] # "none"
               PROVE  w \in Mine(k, rows[k])'
    BY DEF DriverInv
  <2>1. CASE driver[k][w] # "none"
    BY <1>1, <2>1 DEF IInv, DriverInv
  <2>2. CASE k = h /\ w \in Mine(h, view)
    BY <1>1, <2>2 DEF Mine
  <2> QED
    BY <2>1, <2>2
<1>5. SyncInv'
  <2> SUFFICES ASSUME DisjointNames, NEW k \in open, NEW w \in Names[k], table'[w] # NoRow
               PROVE  rows'[k][w] # NoRow /\ (Terminal(table'[w]) => rows'[k][w] = table'[w])
    BY DEF SyncInv, Terminal
  <2>1. k \in Hosts /\ w \in Wids
    BY WorkersAssumption DEF IInv, TypeOK
  <2>2. CASE k # h
    <3>1. w \notin Names[h]
      BY <2>1, <2>2 DEF DisjointNames
    <3> QED
      BY <1>1, <2>1, <2>2, <3>1 DEF IInv, SyncInv
  <2>3. CASE rows'[k] = table'
    BY <2>3
  <2>4. CASE k = h /\ rows'[h] = view /\ table' = table
    BY <2>1, <2>4 DEF IInv, SyncInv, Edits, Terminal
  <2>5. CASE k = h /\ rows'[h] = Merge(h, view) /\ table' = table
    <3>1. rows'[h][w] = IF w \in Mine(h, view) THEN view[w] ELSE table[w]
      BY <2>1, <2>5, MergeKeeps
    <3> QED
      BY <2>1, <2>5, <3>1 DEF IInv, SyncInv, Edits, Terminal, Mine
  <2> QED
    BY <1>1, <2>2, <2>3, <2>4, <2>5
<1> QED
  BY <1>1, <1>2, <1>3, <1>4, <1>5 DEF IInv, IsSound

(* Settling a running row of its own is an edit.                           *)
LEMMA SettleEdits ==
  ASSUME IInv, NEW h \in Hosts, NEW w \in Open(h, rows[h]), NEW status \in Status,
         status = "DONE" /\ w \in Reporting => \E r \in reports' : r[1] \in Claims[w]
  PROVE  Edits(h, Settle(rows[h], w, status))
<1> DEFINE view == Settle(rows[h], w, status)
<1>1. w \in Wids /\ rows[h][w] \in Row /\ w \in Mine(h, rows[h]) /\ rows[h][w].status = "RUNNING"
  BY DEF Open, Mine, IInv, TypeOK
<1>2. /\ view[w] = WithStatus(rows[h][w], status)
      /\ \A v \in Wids \ {w} : view[v] = rows[h][v]
      /\ DOMAIN view = Wids /\ view = [v \in Wids |-> view[v]]
  BY <1>1 DEF Settle, IInv, TypeOK, WithStatus
<1>3. /\ view[w] \in Row /\ view[w].host = h /\ view[w].proc = pid
      /\ view[w].status = status /\ pid \in Pids
  <2>1. rows[h][w].host = h /\ rows[h][w].proc = pid /\ pid \in Pids
    BY <1>1 DEF Mine, Row
  <2> HIDE DEF view
  <2> QED
    BY <1>1, <1>2, <2>1, RowEdits
<1>4. h \in open /\ w \in Names[h]
  BY <1>1 DEF IInv, PlaceInv, Mine
<1>5. view \in View
  BY <1>1, <1>2, <1>3 DEF IInv, TypeOK, View
<1> HIDE DEF view
<1>6. Edits(h, view)
  BY <1>1, <1>2, <1>3, <1>4, <1>5, NoRowIsNoRow DEF Edits, RowStaysHonest
<1> QED
  BY <1>6 DEF view

-----------------------------------------------------------------------------
(* The steps                                                               *)

LEMMA QuietSuffices ==
  ASSUME IInv, UNCHANGED <<table, rows, pid, open, faults>>,
         reports \subseteq reports', reports' \subseteq ReportType,
         closing' \subseteq open, attached' \subseteq open,
         driver' \in [Hosts -> [Wids -> DriverStates]],
         briefs' \in [Hosts -> SUBSET Wids],
         \A k \in Hosts, w \in Wids : driver'[k][w] # "none" => driver[k][w] # "none",
         UNCHANGED crashes
  PROVE  IsSound
<1>1. TypeOK'
  BY DEF IInv, TypeOK, ReportType
<1>2. PlaceInv'
  BY DEF IInv, PlaceInv
<1>3. DriverInv'
  BY DEF IInv, DriverInv, Mine
<1>4. HonestInv'
  BY HonestyLasts DEF IInv, HonestInv, RowIsHonest, RowStaysHonest
<1>5. SyncInv' /\ VerdictsKept
  BY DEF IInv, SyncInv, VerdictsKept, Terminal
<1> QED
  BY <1>1, <1>2, <1>3, <1>4, <1>5 DEF IInv, IsSound

(* The table is the only thing a process without registries changes.       *)
LEMMA NoRegistryKeeps ==
  ASSUME IInv, open' = {}, closing' = {}, attached' = {},
         \A h \in Hosts, w \in Wids : rows'[h][w] = NoRow /\ driver'[h][w] = "none",
         rows' \in [Hosts -> View], driver' \in [Hosts -> [Wids -> DriverStates]],
         briefs' \in [Hosts -> SUBSET Wids],
         table' \in View, reports \subseteq reports', reports' \subseteq ReportType,
         pid' \in Pids \cup {0}, crashes' \in 0..MaxCrashes, faults' \in 0..MaxFaults,
         \A w \in Wids : table'[w] # NoRow => w \in Names[table'[w].host],
         \A w \in Wids : RowStaysHonest(w, table'[w]),
         \A w \in Wids : Terminal(table[w]) => table'[w] = table[w]
  PROVE  IsSound
<1>1. TypeOK'
  BY DEF IInv, TypeOK, ReportType, View
<1>2. PlaceInv'
  BY DEF IInv, PlaceInv
<1>3. DriverInv'
  BY DEF IInv, DriverInv, Mine
<1>4. HonestInv'
  BY DEF HonestInv, RowIsHonest, RowStaysHonest
<1>5. SyncInv' /\ VerdictsKept
  BY DEF SyncInv, VerdictsKept
<1> QED
  BY <1>1, <1>2, <1>3, <1>4, <1>5 DEF IInv, IsSound

LEMMA DieKeeps ==
  ASSUME IInv, Die, reports \subseteq reports', reports' \subseteq ReportType
  PROVE  IsSound
<1>1. /\ open' = {} /\ closing' = {} /\ attached' = {}
      /\ \A h \in Hosts, w \in Wids : rows'[h][w] = NoRow /\ driver'[h][w] = "none"
      /\ rows' \in [Hosts -> View] /\ driver' \in [Hosts -> [Wids -> DriverStates]]
      /\ briefs' \in [Hosts -> SUBSET Wids]
      /\ UNCHANGED <<table, faults>> /\ pid' = 0
  BY DEF Die, Forget, EmptyTable, NoDriver, View, DriverStates
<1>2. crashes' \in 0..MaxCrashes
  BY WorkersAssumption DEF Die, IInv, TypeOK
<1>3. \A w \in Wids : RowStaysHonest(w, table'[w])
  BY <1>1, HonestyLasts DEF IInv, HonestInv
<1>4. /\ table' \in View /\ faults' \in 0..MaxFaults
      /\ \A w \in Wids : table'[w] # NoRow => w \in Names[table'[w].host]
  BY <1>1 DEF IInv, TypeOK, PlaceInv, View
<1> QED
  BY <1>1, <1>2, <1>3, <1>4, NoRegistryKeeps

(* A recovered row keeps its place and its honesty.                        *)
LEMMA TakenRows ==
  ASSUME IInv, pid' \in Pids, UNCHANGED reports, NEW w \in Wids,
         table[w] # NoRow, table[w].status = "RUNNING"
  PROVE  LET taken == Take(table[w], w)
             claimed == [table[w] EXCEPT !.proc = pid']
         IN  /\ taken \in Row /\ taken.host = table[w].host /\ RowStaysHonest(w, taken)
             /\ claimed \in Row /\ claimed.host = table[w].host /\ RowStaysHonest(w, claimed)
<1> DEFINE verdict == IF Reported(w) THEN "DONE" ELSE "FAILED"
           taken == WithBoth(table[w], pid', verdict)
           claimed == WithProc(table[w], pid')
<1>1. table[w] \in Row /\ verdict \in Status
  BY DEF IInv, TypeOK, Status
<1>2. taken = Take(table[w], w) /\ claimed = [table[w] EXCEPT !.proc = pid']
  BY DEF Take, WithBoth, WithProc
<1>3. verdict = "DONE" => \E r \in reports' : r[1] \in Claims[w]
  BY DEF Reported
<1> HIDE DEF verdict
<1>4. /\ taken \in Row /\ taken.host = table[w].host /\ taken.status = verdict
      /\ claimed \in Row /\ claimed.host = table[w].host /\ claimed.status = "RUNNING"
  BY <1>1, RowEdits
<1> HIDE DEF taken, claimed
<1>5. RowStaysHonest(w, taken) /\ RowStaysHonest(w, claimed)
  BY <1>3, <1>4 DEF RowStaysHonest
<1> QED
  BY <1>2, <1>4, <1>5

LEMMA ConvergeKeeps ==
  ASSUME IInv, Converge, pid' \in Pids, UNCHANGED reports
  PROVE  /\ table' \in View /\ faults' \in 0..MaxFaults
         /\ \A w \in Wids : table'[w] # NoRow => w \in Names[table'[w].host]
         /\ \A w \in Wids : RowStaysHonest(w, table'[w])
         /\ \A w \in Wids : Terminal(table[w]) => table'[w] = table[w]
<1> DEFINE claim(w) == [table[w] EXCEPT !.proc = pid']
<1>1. faults' \in 0..MaxFaults
  BY WorkersAssumption DEF Converge, IInv, TypeOK
<1>2. table' = [w \in Wids |-> table'[w]]
  BY DEF Converge
<1>3. ASSUME NEW w \in Wids
      PROVE  \/ table'[w] = table[w]
             \/ /\ table[w] # NoRow /\ table[w].status = "RUNNING"
                /\ table'[w] = Take(table[w], w) \/ table'[w] = claim(w)
  <2> DEFINE stale(recycled) ==
        {v \in Wids : /\ table[v] # NoRow /\ table[v].status = "RUNNING"
                      /\ table[v].proc \notin recycled \cup {pid'}}
  <2> DEFINE all(s) == [v \in Wids |-> IF v \in s THEN Take(table[v], v) ELSE table[v]]
             some(s, c) == [v \in Wids |-> IF v \in s THEN Take(table[v], v)
                                           ELSE IF v \in c THEN claim(v) ELSE table[v]]
  <2>1. PICK recycled \in SUBSET (Pids \ {pid'}) :
          \/ table' = all(stale(recycled)) /\ UNCHANGED faults
          \/ /\ stale(recycled) # {} /\ faults < MaxFaults /\ faults' = faults + 1
             /\ \E settled \in SUBSET stale(recycled) :
                \E claimed \in SUBSET (stale(recycled) \ settled) :
                  Cardinality(claimed) <= 1 /\ table' = some(settled, claimed)
    BY Zenon DEF Converge
  <2>2. w \in stale(recycled) => table[w] # NoRow /\ table[w].status = "RUNNING"
    OBVIOUS
  <2> HIDE DEF claim, stale
  <2>3. CASE table' = all(stale(recycled))
    BY <2>2, <2>3
  <2>4. ASSUME NEW settled \in SUBSET stale(recycled),
               NEW claimed \in SUBSET (stale(recycled) \ settled),
               table' = some(settled, claimed)
        PROVE  \/ table'[w] = table[w]
               \/ /\ table[w] # NoRow /\ table[w].status = "RUNNING"
                  /\ table'[w] = Take(table[w], w) \/ table'[w] = claim(w)
    BY <2>2, <2>4
  <2> HIDE DEF all, some
  <2> QED
    BY <2>1, <2>3, <2>4
<1>4. ASSUME NEW w \in Wids
      PROVE  /\ table'[w] \in Row \cup {NoRow}
             /\ table'[w] # NoRow => w \in Names[table'[w].host]
             /\ RowStaysHonest(w, table'[w])
             /\ Terminal(table[w]) => table'[w] = table[w]
  <2>1. CASE table'[w] = table[w]
    BY <2>1, HonestyLasts DEF IInv, TypeOK, PlaceInv, HonestInv
  <2>2. CASE /\ table[w] # NoRow /\ table[w].status = "RUNNING"
             /\ table'[w] = Take(table[w], w) \/ table'[w] = claim(w)
    BY <2>2, TakenRows DEF IInv, PlaceInv, Terminal
  <2> QED
    BY <1>3, <2>1, <2>2
<1> QED
  BY <1>1, <1>2, <1>4 DEF View

LEMMA ProcessKeeps ==
  ASSUME IInv, Process
  PROVE  IsSound
<1>1. ASSUME NEW p \in Pids, Boot(p) PROVE IsSound
  <2>1. open = {}
    BY <1>1 DEF Boot, IInv, PlaceInv
  <2>2. /\ table' \in View /\ faults' \in 0..MaxFaults
        /\ \A w \in Wids : table'[w] # NoRow => w \in Names[table'[w].host]
        /\ \A w \in Wids : RowStaysHonest(w, table'[w])
        /\ \A w \in Wids : Terminal(table[w]) => table'[w] = table[w]
    <3>1. CASE Recover
      BY <1>1, <3>1, ConvergeKeeps DEF Boot
    <3>2. CASE ~Recover
      BY <1>1, <3>2, HonestyLasts DEF Boot, IInv, TypeOK, PlaceInv, HonestInv, View
    <3> QED
      BY <3>1, <3>2
  <2>3. /\ open' = {} /\ closing' = {} /\ attached' = {}
        /\ \A h \in Hosts, w \in Wids : rows'[h][w] = NoRow /\ driver'[h][w] = "none"
        /\ rows' \in [Hosts -> View] /\ driver' \in [Hosts -> [Wids -> DriverStates]]
        /\ briefs' \in [Hosts -> SUBSET Wids]
        /\ reports \subseteq reports' /\ reports' \subseteq ReportType
        /\ pid' \in Pids \cup {0} /\ crashes' \in 0..MaxCrashes
        /\ faults' \in 0..MaxFaults
    BY <1>1, <2>1, <2>2 DEF Boot, IInv, TypeOK, PlaceInv, View, ReportType
  <2> QED
    BY <2>2, <2>3, NoRegistryKeeps
<1>2. CASE Leave
  <2>1. /\ open' = {} /\ closing' = {} /\ attached' = {}
        /\ \A h \in Hosts, w \in Wids : rows'[h][w] = NoRow /\ driver'[h][w] = "none"
        /\ rows' \in [Hosts -> View] /\ driver' \in [Hosts -> [Wids -> DriverStates]]
        /\ briefs' \in [Hosts -> SUBSET Wids] /\ table' \in View
        /\ reports \subseteq reports' /\ reports' \subseteq ReportType
        /\ pid' \in Pids \cup {0} /\ crashes' \in 0..MaxCrashes /\ faults' \in 0..MaxFaults
        /\ \A w \in Wids : table'[w] # NoRow => w \in Names[table'[w].host]
    BY <1>2 DEF Leave, IInv, TypeOK, PlaceInv, View, ReportType
  <2>2. \A w \in Wids : RowStaysHonest(w, table'[w]) /\ table'[w] = table[w]
    BY <1>2, HonestyLasts DEF Leave, IInv, HonestInv
  <2> QED
    BY <2>1, <2>2, NoRegistryKeeps
<1>3. CASE Crash
  BY <1>3, DieKeeps DEF Crash, IInv, TypeOK, ReportType
<1> QED
  BY <1>1, <1>2, <1>3 DEF Process

LEMMA RegistryKeeps ==
  ASSUME IInv, NEW h \in Hosts, Registry(h)
  PROVE  IsSound
<1>1. CASE OpenRegistry(h)
  <2>1. /\ rows' \in [Hosts -> View] /\ rows'[h] = table
        /\ \A k \in Hosts \ {h} : rows'[k] = rows[k]
    BY <1>1 DEF OpenRegistry, IInv, TypeOK, View
  <2>2. TypeOK'
    BY <1>1, <2>1 DEF OpenRegistry, IInv, TypeOK, View
  <2>3. PlaceInv'
    BY <1>1, <2>1 DEF OpenRegistry, IInv, PlaceInv
  <2>4. DriverInv'
    BY <1>1, <2>1 DEF OpenRegistry, IInv, PlaceInv, DriverInv, Mine
  <2>5. HonestInv'
    BY <1>1, <2>1 DEF OpenRegistry, IInv, HonestInv, RowIsHonest
  <2>6. SyncInv' /\ VerdictsKept
    BY <1>1, <2>1 DEF OpenRegistry, IInv, SyncInv, VerdictsKept, TypeOK
  <2> QED
    BY <2>2, <2>3, <2>4, <2>5, <2>6 DEF IInv, IsSound
<1>2. CASE AttachDrivers(h)
  BY <1>2, QuietSuffices DEF AttachDrivers, IInv, TypeOK, ReportType
<1>3. CASE BeginClose(h)
  <2>1. driver' \in [Hosts -> [Wids -> DriverStates]]
    BY <1>3 DEF BeginClose, IInv, TypeOK, DriverStates
  <2>2. \A k \in Hosts, w \in Wids : driver'[k][w] # "none" => driver[k][w] # "none"
    BY <1>3 DEF BeginClose, IInv, TypeOK
  <2>3. briefs' \in [Hosts -> SUBSET Wids]
    BY <1>3 DEF BeginClose, IInv, TypeOK
  <2> QED
    BY <1>3, <2>1, <2>2, <2>3, QuietSuffices DEF BeginClose, IInv, TypeOK, ReportType
<1>4. CASE FinishClose(h)
  <2> DEFINE view == [w \in Wids |-> IF w \in Open(h, rows[h])
                                       THEN [rows[h][w] EXCEPT !.status = "FAILED"]
                                       ELSE rows[h][w]]
  <2>1. Edits(h, view)
    <3>1. ASSUME NEW w \in Open(h, rows[h])
          PROVE  /\ view[w] \in Row /\ view[w].host = h /\ view[w].proc = pid
                 /\ view[w].status = "FAILED" /\ view[w] # NoRow
                 /\ w \in Names[h] /\ rows[h][w].status = "RUNNING" /\ w \in Mine(h, rows[h])
      <4>1. /\ w \in Wids /\ rows[h][w] \in Row /\ w \in Mine(h, rows[h])
            /\ rows[h][w].status = "RUNNING" /\ w \in Names[h]
            /\ rows[h][w].host = h /\ rows[h][w].proc = pid /\ pid \in Pids
        BY DEF Open, Mine, IInv, TypeOK, PlaceInv, Row
      <4>2. view[w] = WithStatus(rows[h][w], "FAILED")
        BY <4>1 DEF WithStatus
      <4> HIDE DEF view
      <4> QED
        BY <4>1, <4>2, RowEdits, NoRowIsNoRow DEF Status
    <3>2. \A w \in Wids \ Open(h, rows[h]) : view[w] = rows[h][w]
      OBVIOUS
    <3>3. h \in open
      BY <1>4 DEF FinishClose, IInv, TypeOK
    <3>4. view = [w \in Wids |-> view[w]]
      OBVIOUS
    <3>5. \A w \in Wids : view[w] \in Row \cup {NoRow}
      <4> HIDE DEF view
      <4> QED
        BY <3>1, <3>2 DEF IInv, TypeOK
    <3>6. view \in View
      <4> HIDE DEF view
      <4> QED
        BY <3>4, <3>5 DEF View
    <3> HIDE DEF view
    <3> QED
      BY <3>1, <3>2, <3>3, <3>6 DEF Edits, RowStaysHonest
  <2>2. /\ table' \in View /\ faults' \in 0..MaxFaults
        /\ \A w \in Wids : table'[w] # NoRow => w \in Names[table'[w].host]
        /\ \A w \in Wids : RowStaysHonest(w, table'[w])
        /\ \A w \in Wids \ Names[h] : table'[w] = table[w]
        /\ VerdictsKept
    <3>1. CASE UNCHANGED <<table, faults>>
      BY <3>1, <1>4, HonestyLasts
         DEF FinishClose, IInv, TypeOK, PlaceInv, HonestInv, View, VerdictsKept
    <3>2. CASE Write(h, view)
      <4> HIDE DEF view
      <4>1. reports \subseteq reports'
        BY <1>4 DEF FinishClose
      <4> QED
        BY <3>2, <2>1, <4>1, WriteKeeps
    <3> QED
      BY <1>4, <3>1, <3>2 DEF FinishClose, SettleOpenRows
  <2> HIDE DEF view
  <2>3. /\ rows' \in [Hosts -> View] /\ driver' \in [Hosts -> [Wids -> DriverStates]]
        /\ briefs' \in [Hosts -> SUBSET Wids]
        /\ \A w \in Wids : rows'[h][w] = NoRow /\ driver'[h][w] = "none"
        /\ \A k \in Hosts \ {h} : rows'[k] = rows[k] /\ driver'[k] = driver[k]
    BY <1>4 DEF FinishClose, EmptyTable, NoDriver, DriverStates, IInv, TypeOK, View
  <2>4. TypeOK'
    BY <1>4, <2>2, <2>3 DEF FinishClose, IInv, TypeOK, View
  <2>5. PlaceInv'
    BY <1>4, <2>2, <2>3 DEF FinishClose, IInv, PlaceInv
  <2>6. DriverInv'
    BY <1>4, <2>3 DEF FinishClose, IInv, DriverInv, Mine
  <2>7. \A k \in Hosts, w \in Wids : RowStaysHonest(w, rows'[k][w])
    BY <1>4, <2>3, HonestyLasts DEF FinishClose, IInv, HonestInv, RowStaysHonest
  <2>8. HonestInv'
    BY <2>2, <2>7 DEF HonestInv, RowIsHonest, RowStaysHonest
  <2>9. SyncInv'
    <3> SUFFICES ASSUME DisjointNames, NEW k \in open', NEW w \in Names[k], table'[w] # NoRow
                 PROVE  rows'[k][w] # NoRow /\ (Terminal(table'[w]) => rows'[k][w] = table'[w])
      BY DEF SyncInv, Terminal
    <3>1. k \in open /\ k \in Hosts /\ k # h /\ w \in Wids
      BY <1>4, WorkersAssumption DEF FinishClose, IInv, TypeOK
    <3>2. w \notin Names[h]
      BY <3>1 DEF DisjointNames
    <3> QED
      BY <2>2, <2>3, <3>1, <3>2 DEF IInv, SyncInv
  <2> QED
    BY <2>2, <2>4, <2>5, <2>6, <2>8, <2>9 DEF IInv, IsSound
<1>5. CASE Heartbeat(h)
  <2>1. Edits(h, rows[h])
    BY <1>5 DEF Heartbeat, Edits, Open, Mine, IInv, TypeOK, PlaceInv, View
  <2>2. /\ Persist(h, rows[h]) /\ UNCHANGED <<pid, open, closing, attached, crashes>>
        /\ reports \subseteq reports' /\ reports' \subseteq ReportType
        /\ driver' \in [Hosts -> [Wids -> DriverStates]] /\ briefs' \in [Hosts -> SUBSET Wids]
        /\ \A k \in Hosts, w \in Wids : driver'[k][w] # "none" => driver[k][w] # "none"
    BY <1>5 DEF Heartbeat, IInv, TypeOK, ReportType
  <2> QED
    BY <2>1, <2>2, PersistSuffices
<1> QED
  BY <1>1, <1>2, <1>3, <1>4, <1>5 DEF Registry

LEMMA WorkerKeeps ==
  ASSUME IInv, NEW h \in Hosts, NEW w \in Wids, Worker(h, w)
  PROVE  IsSound
<1>1. CASE Spawn(h, w)
  <2> DEFINE new == [host |-> h, proc |-> pid, status |-> "RUNNING", attempt |-> 0]
             view == [rows[h] EXCEPT ![w] = new]
  <2>1. pid \in Pids /\ h \in open /\ w \in Names[h] /\ rows[h][w] = NoRow
    BY <1>1 DEF Spawn, IInv, TypeOK, PlaceInv
  <2>2. /\ new \in Row /\ new.host = h /\ new.proc = pid /\ new.status = "RUNNING"
        /\ new # NoRow
    BY <2>1, WorkersAssumption DEF Row, Status
  <2>3. Persist(h, view)
    BY <1>1 DEF Spawn
  <2> HIDE DEF new
  <2>4. view \in View /\ view[w] = new /\ \A v \in Wids \ {w} : view[v] = rows[h][v]
    BY <2>2 DEF IInv, TypeOK, View
  <2> HIDE DEF view
  <2>5. Edits(h, view) /\ w \in Mine(h, view)
    BY <2>1, <2>2, <2>4 DEF Edits, RowStaysHonest, Mine
  <2>6. /\ driver' \in [Hosts -> [Wids -> DriverStates]]
        /\ \A k \in Hosts, v \in Wids :
             driver'[k][v] # "none" => driver[k][v] # "none" \/ (k = h /\ v = w)
    BY <1>1 DEF Spawn, IInv, TypeOK, DriverStates
  <2>7. /\ UNCHANGED <<pid, open, closing, attached, crashes>>
        /\ reports \subseteq reports' /\ reports' \subseteq ReportType
        /\ briefs' \in [Hosts -> SUBSET Wids]
    BY <1>1 DEF Spawn, IInv, TypeOK, ReportType
  <2> QED
    BY <2>3, <2>5, <2>6, <2>7, PersistSuffices
<1>2. CASE Stop(h, w)
  <2>1. Edits(h, Settle(rows[h], w, "STOPPED"))
    BY <1>2, SettleEdits DEF Stop, Status
  <2>2. /\ driver' \in [Hosts -> [Wids -> DriverStates]]
        /\ \A k \in Hosts, v \in Wids : driver'[k][v] # "none" => driver[k][v] # "none"
    BY <1>2 DEF Stop, IInv, TypeOK, DriverStates
  <2>3. /\ Persist(h, Settle(rows[h], w, "STOPPED"))
        /\ UNCHANGED <<pid, open, closing, attached, crashes>>
        /\ reports \subseteq reports' /\ reports' \subseteq ReportType
        /\ briefs' \in [Hosts -> SUBSET Wids]
    BY <1>2 DEF Stop, IInv, TypeOK, ReportType
  <2> QED
    BY <2>1, <2>2, <2>3, PersistSuffices
<1>3. CASE EndBrief(h, w)
  <2>1. w \in Mine(h, rows[h]) /\ rows[h][w] \in Row
    BY <1>3 DEF EndBrief, IInv, TypeOK, DriverInv, Mine
  <2>2. PICK failed \in BOOLEAN, written \in BOOLEAN :
          /\ Report(w, rows[h][w].attempt, failed, written)
          /\ IF rows[h][w].status = "RUNNING"
               THEN Persist(h, Settle(rows[h], w, Verdict(w, failed, written)))
               ELSE UNCHANGED <<table, rows, faults>>
    BY <1>3 DEF EndBrief
  <2>3. /\ reports \subseteq reports' /\ reports' \subseteq ReportType
        /\ w \in Reporting /\ written => \E r \in reports' : r[1] \in Claims[w]
    <3>1. <<w, rows[h][w].attempt, failed>> \in ReportType
      BY <2>1, <2>2 DEF ReportType, Row
    <3>2. <<w, rows[h][w].attempt, failed>>[1] \in Claims[w]
      BY WorkersAssumption
    <3> QED
      BY <2>2, <3>1, <3>2 DEF Report, IInv, TypeOK, ReportType
  <2>4. /\ driver' \in [Hosts -> [Wids -> DriverStates]]
        /\ \A k \in Hosts, v \in Wids : driver'[k][v] # "none" => driver[k][v] # "none"
    <3>1. PICK next \in {"parked", "none"} : driver' = [driver EXCEPT ![h][w] = next]
      BY <1>3 DEF EndBrief
    <3>2. driver[h][w] # "none"
      BY <1>3 DEF EndBrief
    <3> QED
      BY <3>1, <3>2 DEF IInv, TypeOK, DriverStates
  <2>5. /\ UNCHANGED <<pid, open, closing, attached, crashes>>
        /\ briefs' \in [Hosts -> SUBSET Wids]
    BY <1>3 DEF EndBrief, IInv, TypeOK
  <2>6. CASE rows[h][w].status = "RUNNING"
    <3> DEFINE verdict == Verdict(w, failed, written)
    <3>1. verdict \in Status /\ (verdict = "DONE" /\ w \in Reporting => written)
      BY DEF Verdict, Status
    <3> HIDE DEF verdict
    <3>2. w \in Open(h, rows[h])
      BY <2>1, <2>6 DEF Open
    <3>3. verdict = "DONE" /\ w \in Reporting => \E r \in reports' : r[1] \in Claims[w]
      BY <2>3, <3>1
    <3>4. Edits(h, Settle(rows[h], w, verdict))
      BY <3>1, <3>2, <3>3, SettleEdits
    <3>5. Persist(h, Settle(rows[h], w, verdict))
      BY <2>2, <2>6 DEF verdict
    <3> QED
      BY <2>3, <2>4, <2>5, <3>4, <3>5, PersistSuffices
  <2>7. CASE rows[h][w].status # "RUNNING"
    <3>1. UNCHANGED <<table, rows, faults>> /\ closing \subseteq open /\ attached \subseteq open
      BY <2>2, <2>7 DEF IInv, TypeOK
    <3> QED
      BY <2>3, <2>4, <2>5, <3>1, QuietSuffices
  <2> QED
    BY <2>6, <2>7
<1>4. CASE CrashAfterReport(h, w)
  <2>1. rows[h][w] \in Row
    BY <1>4 DEF CrashAfterReport, IInv, TypeOK, DriverInv, Mine
  <2>2. PICK failed \in BOOLEAN : Report(w, rows[h][w].attempt, failed, TRUE)
    BY <1>4 DEF CrashAfterReport
  <2>3. reports \subseteq reports' /\ reports' \subseteq ReportType
    <3>1. <<w, rows[h][w].attempt, failed>> \in ReportType
      BY <2>1, <2>2 DEF ReportType, Row
    <3> QED
      BY <2>2, <3>1 DEF Report, IInv, TypeOK, ReportType
  <2> QED
    BY <1>4, <2>3, DieKeeps DEF CrashAfterReport
<1>5. CASE SettleAbandoned(h, w)
  <2> DEFINE verdict == IF Reported(w) THEN "DONE" ELSE "FAILED"
  <2>1. verdict \in Status /\ Persist(h, Settle(rows[h], w, verdict))
        /\ w \in Open(h, rows[h])
    BY <1>5 DEF SettleAbandoned, Abandoned, Status
  <2>2. verdict = "DONE" => \E r \in reports' : r[1] \in Claims[w]
    BY <1>5 DEF SettleAbandoned, Reported
  <2> HIDE DEF verdict
  <2>3. Edits(h, Settle(rows[h], w, verdict))
    BY <2>1, <2>2, SettleEdits
  <2>4. /\ UNCHANGED <<pid, open, closing, attached, crashes>>
        /\ driver' \in [Hosts -> [Wids -> DriverStates]]
        /\ \A k \in Hosts, v \in Wids : driver'[k][v] # "none" => driver[k][v] # "none"
        /\ reports \subseteq reports' /\ reports' \subseteq ReportType
        /\ briefs' \in [Hosts -> SUBSET Wids]
    BY <1>5 DEF SettleAbandoned, IInv, TypeOK, ReportType
  <2> QED
    BY <2>1, <2>3, <2>4, PersistSuffices
<1>6. CASE Respawn(h, w)
  <2> DEFINE again == Again(rows[h][w])
             view == [rows[h] EXCEPT ![w] = again]
  <2>1. /\ w \in Mine(h, rows[h]) /\ rows[h][w].status = "RUNNING"
        /\ rows[h][w] \in Row /\ rows[h][w].attempt < MaxRetries
    BY <1>6 DEF Respawn, Abandoned, Open, Mine, CanRespawn, IInv, TypeOK
  <2>2. /\ again \in Row /\ again.host = h /\ again.proc = pid /\ again.status = "RUNNING"
        /\ again # NoRow
    BY <2>1, NextAttempts, NoRowIsNoRow DEF Mine
  <2>3. Persist(h, view) /\ h \in open /\ w \in Names[h]
    BY <1>6, <2>1 DEF Respawn, Mine, IInv, PlaceInv, TypeOK
  <2> HIDE DEF again
  <2>4. view \in View /\ view[w] = again /\ \A v \in Wids \ {w} : view[v] = rows[h][v]
    BY <2>2 DEF IInv, TypeOK, View
  <2> HIDE DEF view
  <2>5. Edits(h, view) /\ w \in Mine(h, view)
    BY <2>1, <2>2, <2>3, <2>4 DEF Edits, RowStaysHonest, Mine
  <2>6. /\ driver' \in [Hosts -> [Wids -> DriverStates]]
        /\ \A k \in Hosts, v \in Wids :
             driver'[k][v] # "none" => driver[k][v] # "none" \/ (k = h /\ v = w)
    BY <1>6 DEF Respawn, IInv, TypeOK, DriverStates
  <2>7. /\ UNCHANGED <<pid, open, closing, attached, crashes>>
        /\ reports \subseteq reports' /\ reports' \subseteq ReportType
        /\ briefs' \in [Hosts -> SUBSET Wids]
    BY <1>6 DEF Respawn, IInv, TypeOK, ReportType
  <2> QED
    BY <2>3, <2>5, <2>6, <2>7, PersistSuffices
<1> QED
  BY <1>1, <1>2, <1>3, <1>4, <1>5, <1>6 DEF Worker, Watch

(* Every step keeps the invariant and, with disjoint names, the verdicts.  *)
LEMMA StepsAreSound ==
  ASSUME IInv, [Next]_vars
  PROVE  IsSound
<1>1. CASE UNCHANGED vars
  <2>1. TypeOK' /\ PlaceInv'
    BY <1>1 DEF vars, IInv, TypeOK, PlaceInv
  <2>2. DriverInv' /\ HonestInv'
    BY <1>1 DEF vars, IInv, DriverInv, HonestInv, RowIsHonest, Mine
  <2>3. SyncInv' /\ VerdictsKept
    BY <1>1 DEF vars, IInv, SyncInv, VerdictsKept, Terminal
  <2> QED
    BY <2>1, <2>2, <2>3 DEF IInv, IsSound
<1> QED
  BY <1>1, ProcessKeeps, RegistryKeeps, WorkerKeeps DEF Next

(* The invariant of the table, the views and the drivers.                  *)
THEOREM WorkersInvariant == Spec => []IInv
<1>1. IInv /\ [Next]_vars => IInv'
  BY StepsAreSound DEF IsSound
<1> QED
  BY InitInvariant, <1>1, PTL DEF Spec

(* Types of every variable, for any conversations, workers and processes.  *)
THEOREM WorkersTypeOK == Spec => []TypeOK
<1>1. IInv => TypeOK
  BY DEF IInv
<1> QED
  BY <1>1, WorkersInvariant, PTL

(* A reporting worker is DONE only with a report that is found for it,     *)
(* whatever crashes, fails or is taken over, and whichever names claim     *)
(* each other's reports; with names that do not, it is its own             *)
(* (watchdog.ts, receipt.ts, recover-apply.ts).                            *)
THEOREM DoneWorkersHaveReports == Spec => []DoneHasReport
<1>1. IInv => DoneHasReport
  BY DEF IInv, HonestInv, RowIsHonest, DoneHasReport, Reported
<1> QED
  BY <1>1, WorkersInvariant, PTL

(* As long as no two conversations use the same name, a verdict is final.  *)
THEOREM VerdictsAreFinal ==
  ASSUME DisjointNames
  PROVE  Spec => TerminalRowsFrozen
<1>1. IInv /\ [Next]_vars =>
        [\A w \in Wids :
           table[w] # NoRow /\ table[w].status # "RUNNING" => table'[w] = table[w]]_vars
  BY StepsAreSound DEF IsSound, VerdictsKept, Terminal
<1> QED
  BY <1>1, WorkersInvariant, PTL DEF Spec, TerminalRowsFrozen
=============================================================================
