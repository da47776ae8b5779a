--------------------------- MODULE CompactionProofs ---------------------------
(***************************************************************************)
(* Proofs about Compaction, for any number of turns, requests, rewrites    *)
(* and crashes.  First who may be under way next to whom (IInv), which     *)
(* gives the history and the descriptor; then what the operators make of   *)
(* rows; from that the types (TInv); and last the log with its mirror, its *)
(* markers, its sidecar and its numbers (LogInv), which needs the other    *)
(* two.                                                                    *)
(***************************************************************************)
EXTENDS Compaction, NumberFacts, SequenceTheorems, TLAPS

(* A request that is under way is alone, keeps the session closed and, when*)
(* it awaits the summary, has read the log as it still is - unless         *)
(* something met it.                                                       *)
Alone(c) ==
  pc[c] # "idle" /\ ~crossed =>
    /\ descriptor = "none"
    /\ \A d \in Requests : pc[d] # "idle" => d = c
    /\ pc[c] = "summing" => read[c] = log

(* No instance outlives a rewrite, unless something met it.                *)
AdriftOnlyAfterMeeting == descriptor = "adrift" => crossed

(* A turn and live workers have an instance.                               *)
WorkHasAnInstance == turn # 0 \/ pinned => descriptor # "none"

(* The requests as functions.                                              *)
RequestsTyped ==
  /\ pc \in [Requests -> {"idle", "evicting", "summing"}]
  /\ read = [c \in Requests |-> read[c]]

IInv ==
  /\ RequestsTyped
  /\ \A c \in Requests : Alone(c)
  /\ AdriftOnlyAfterMeeting
  /\ WorkHasAnInstance

LEMMA InitInvariant == Init => IInv
BY DEF Init, IInv, RequestsTyped, Alone, AdriftOnlyAfterMeeting, WorkHasAnInstance

(* Nothing is under way in a session that is open, if nothing met.         *)
LEMMA NobodyUnderWay ==
  ASSUME IInv, descriptor # "none", ~crossed
  PROVE  UnderWay = {}
BY DEF IInv, Alone, UnderWay

(* A step of the session that leaves the requests alone.                   *)
LEMMA SessionStep ==
  ASSUME IInv, UNCHANGED requestVars, crossed => crossed',
         ~crossed' => ~crossed /\ UnderWay = {},
         descriptor' = "adrift" => descriptor = "adrift",
         WorkHasAnInstance'
  PROVE  IInv'
<1>1. RequestsTyped'
  BY DEF IInv, RequestsTyped, requestVars
<1>2. ASSUME NEW c \in Requests PROVE Alone(c)'
  BY DEF IInv, Alone, UnderWay, requestVars
<1>3. AdriftOnlyAfterMeeting'
  BY DEF IInv, AdriftOnlyAfterMeeting
<1> QED  BY <1>1, <1>2, <1>3 DEF IInv

(* The answer to the only request leaves none.                             *)
LEMMA AnswersLeavesNone ==
  ASSUME IInv, NEW c \in Requests, pc[c] # "idle", Answers(c)
  PROVE  RequestsTyped' /\ (~crossed => \A d \in Requests : pc'[d] = "idle")
<1>1. RequestsTyped'
  BY DEF IInv, RequestsTyped, Answers
<1> QED  BY <1>1 DEF IInv, RequestsTyped, Answers, Alone

(* A step that answers a request.                                          *)
LEMMA AnswerStep ==
  ASSUME IInv, NEW c \in Requests, pc[c] # "idle", Answers(c), UNCHANGED crossed,
         ~crossed => descriptor' # "adrift",
         WorkHasAnInstance'
  PROVE  IInv'
<1>1. RequestsTyped' /\ (~crossed => \A d \in Requests : pc'[d] = "idle")
  BY AnswersLeavesNone
<1>2. ASSUME NEW d \in Requests PROVE Alone(d)'
  BY <1>1 DEF Alone
<1> QED  BY <1>1, <1>2 DEF IInv, AdriftOnlyAfterMeeting

(* What opening and outliving do to the instance.                          *)
LEMMA InstanceStep ==
  ASSUME IInv, NEW rows, NEW n, OpensOn(rows, n) \/ Outlives \/ UNCHANGED instanceVars
  PROVE  /\ WorkHasAnInstance'
         /\ descriptor = "none" => descriptor' # "adrift"
BY DEF IInv, WorkHasAnInstance, OpensOn, Outlives, instanceVars

(* A compaction begins.                                                    *)
LEMMA CompactStep ==
  ASSUME IInv, NEW c \in Requests, Compact(c)
  PROVE  IInv'
<1>1. RequestsTyped'
  BY DEF IInv, RequestsTyped, Compact
<1>2. descriptor' = "none" /\ turn' = 0 /\ ~pinned'
  BY DEF Compact, MayEvict
<1>3. ASSUME NEW d \in Requests, pc'[d] # "idle", ~crossed' PROVE d = c
  BY <1>3 DEF IInv, RequestsTyped, Compact, UnderWay
<1>4. pc'[c] = "summing" => read'[c] = log'
  BY DEF IInv, RequestsTyped, Compact, diskVars
<1>5. ASSUME NEW d \in Requests PROVE Alone(d)'
  BY <1>2, <1>3, <1>4 DEF Alone
<1> QED
  BY <1>1, <1>2, <1>5 DEF IInv, AdriftOnlyAfterMeeting, WorkHasAnInstance

(* The instance is torn down and the log read.                             *)
LEMMA EvictedStep ==
  ASSUME IInv, NEW c \in Requests, Evicted(c)
  PROVE  IInv'
<1>1. CASE IsEnough(log)
  <2>1. RequestsTyped'
    BY <1>1 DEF IInv, RequestsTyped, Evicted
  <2>2. /\ pc' = [pc EXCEPT ![c] = "summing"] /\ pc[c] = "evicting"
        /\ read' = [read EXCEPT ![c] = log]
        /\ UNCHANGED <<log, descriptor, turn, pinned, crossed>>
    BY <1>1 DEF Evicted, diskVars, instanceVars
  <2>3. ASSUME NEW d \in Requests PROVE Alone(d)'
    BY <2>2 DEF IInv, RequestsTyped, Alone
  <2> QED
    BY <2>1, <2>2, <2>3 DEF IInv, AdriftOnlyAfterMeeting, WorkHasAnInstance
<1>2. CASE ~IsEnough(log)
  <2>1. /\ pc[c] # "idle" /\ Answers(c) /\ UNCHANGED crossed
        /\ OpensOn(Stream, edition) \/ UNCHANGED instanceVars
    BY <1>2 DEF Evicted
  <2>2. WorkHasAnInstance' /\ (descriptor = "none" => descriptor' # "adrift")
    BY <2>1, InstanceStep
  <2>3. ~crossed => descriptor = "none"
    BY <2>1 DEF IInv, Alone
  <2> QED  BY <2>1, <2>2, <2>3, AnswerStep
<1> QED  BY <1>1, <1>2

(* The rewrite, with its end or without.                                   *)
LEMMA RewriteStep ==
  ASSUME IInv, NEW c \in Requests, NEW rows, Replaces(c, rows), Rebinds(c) \/ Outlives
  PROVE  IInv'
<1>1. pc[c] # "idle" /\ Answers(c) /\ UNCHANGED crossed
  BY DEF Replaces
<1>2. OpensOn(rolled \o Rewritten(c), edition + 1) \/ Outlives
  BY DEF Rebinds
<1>3. WorkHasAnInstance' /\ (descriptor = "none" => descriptor' # "adrift")
  BY <1>2, InstanceStep
<1>4. ~crossed => descriptor = "none"
  BY <1>1 DEF IInv, Alone
<1> QED  BY <1>1, <1>3, <1>4, AnswerStep

LEMMA RewriteFailsStep ==
  ASSUME IInv, NEW c \in Requests, RewriteFails(c)
  PROVE  IInv'
<1>1. pc[c] # "idle" /\ Answers(c) /\ UNCHANGED crossed /\ UNCHANGED instanceVars
  BY DEF RewriteFails
<1>2. ~crossed => descriptor' # "adrift"
  BY <1>1 DEF IInv, Alone, instanceVars
<1>3. WorkHasAnInstance'
  BY <1>1 DEF IInv, WorkHasAnInstance, instanceVars
<1> QED  BY <1>1, <1>2, <1>3, AnswerStep

(* The process ends, between two steps or within clear().                  *)
LEMMA DeathStep ==
  ASSUME IInv, Dies, crossed => crossed'
  PROVE  IInv'
<1>1. RequestsTyped' /\ \A d \in Requests : pc'[d] = "idle"
  BY DEF Dies, RequestsTyped
<1>2. descriptor' = "none" /\ turn' = 0 /\ ~pinned'
  BY DEF Dies
<1> QED
  BY <1>1, <1>2 DEF IInv, Alone, AdriftOnlyAfterMeeting, WorkHasAnInstance

(* Every step keeps the invariant.                                         *)
LEMMA NextInvariant == IInv /\ [Next]_vars => IInv'
<1> SUFFICES ASSUME IInv, [Next]_vars PROVE IInv'
  OBVIOUS
<1>1. CASE Open
  <2>1. WorkHasAnInstance' /\ descriptor' # "adrift"
    BY <1>1 DEF Open, OpensOn, WorkHasAnInstance
  <2> QED  BY <1>1, <2>1, SessionStep DEF Open
<1>2. CASE Retire
  <2>1. WorkHasAnInstance' /\ descriptor' # "adrift"
    BY <1>2 DEF Retire, MayEvict, WorkHasAnInstance
  <2> QED  BY <1>2, <2>1, NobodyUnderWay, SessionStep DEF Retire
<1>3. CASE StartTurn \/ EndTurn
  <2>1. /\ descriptor # "none" /\ UNCHANGED requestVars /\ UNCHANGED <<crossed, pinned>>
        /\ \E row : Appends(row)
    BY <1>3 DEF StartTurn, EndTurn, Appends, IInv, WorkHasAnInstance
  <2>2. descriptor' # "none" /\ (descriptor' = "adrift" => descriptor = "adrift")
    BY <2>1 DEF Appends
  <2> QED  BY <2>1, <2>2, NobodyUnderWay, SessionStep DEF WorkHasAnInstance
<1>4. CASE Compress \/ Workers
  <2>1. /\ descriptor # "none" /\ UNCHANGED <<descriptor, crossed>> /\ UNCHANGED requestVars
    BY <1>4 DEF Compress, Workers, instanceVars, IInv, WorkHasAnInstance
  <2> QED  BY <2>1, NobodyUnderWay, SessionStep DEF WorkHasAnInstance
<1>5. CASE Clear
  <2>1. /\ descriptor # "none" /\ descriptor' = "path"
        /\ UNCHANGED crossed /\ UNCHANGED requestVars
    BY <1>5 DEF Clear, ClearsLog
  <2> QED  BY <2>1, NobodyUnderWay, SessionStep DEF WorkHasAnInstance
<1>6. CASE ClearCutShort \/ Crash
  BY <1>6, DeathStep DEF ClearCutShort, Crash
<1>7. CASE \E c \in Requests : \/ Compact(c) \/ Evicted(c)
                              \/ RewriteFails(c) \/ RewriteStops(c) \/ RewriteEnds(c)
  <2>1. PICK c \in Requests : \/ Compact(c) \/ Evicted(c)
                             \/ RewriteFails(c) \/ RewriteStops(c) \/ RewriteEnds(c)
    BY <1>7
  <2>2. RewriteStops(c) \/ RewriteEnds(c) =>
          /\ \E rows : Replaces(c, rows)
          /\ Rebinds(c) \/ Outlives
    BY DEF RewriteStops, RewriteEnds
  <2> QED
    BY <2>1, <2>2, CompactStep, EvictedStep, RewriteFailsStep, RewriteStep
<1>8. CASE UNCHANGED vars
  BY <1>8 DEF vars, diskVars, instanceVars, requestVars, IInv, RequestsTyped, Alone,
              AdriftOnlyAfterMeeting, WorkHasAnInstance
<1> QED
  BY <1>1, <1>2, <1>3, <1>4, <1>5, <1>6, <1>7, <1>8 DEF Next

-----------------------------------------------------------------------------
(* A rewrite takes the file from under an instance only after something    *)
(* met a compaction: with the session left alone until the answer, no row  *)
(* goes to the unlinked file.                                              *)
THEOREM NoRowAdriftWhenLeftAlone == Spec => [](descriptor = "adrift" => crossed)
<1>1. IInv => (descriptor = "adrift" => crossed)
  BY DEF IInv, AdriftOnlyAfterMeeting
<1> QED  BY <1>1, InitInvariant, NextInvariant, PTL DEF Spec

(* What a rewrite replaces.                                                *)
LEMMA RewriteKeepsHistory ==
  ASSUME IInv, NEW c \in Requests, pc[c] = "summing",
         NEW d \in Requests, NEW rows, Replaces(d, rows)
  PROVE  /\ TurnsIn(log) \subseteq SavedTurns'
         /\ ~crossed => TurnsIn(read[c]) \subseteq SavedTurns'
<1>1. backup' = log /\ pc[d] = "summing"
  BY DEF Replaces
<1>2. SavedTurns' = TurnsIn(log)
  BY <1>1 DEF SavedTurns, TurnsIn
<1>3. ~crossed => read[c] = log
  BY DEF IInv, Alone
<1> QED  BY <1>2, <1>3

(* The history is always recoverable: whatever the summary left out is in  *)
(* the copy, for any number of turns, requests and crashes.                *)
THEOREM HistoryIsAlwaysKept == Spec => HistoryIsKept
<1>1. IInv /\ [Next]_vars =>
        [\A c \in Requests :
           pc[c] = "summing" /\ edition' # edition /\ log' # <<>> =>
             /\ TurnsIn(log) \subseteq TurnsIn(log') \cup SavedTurns'
             /\ ~crossed => TurnsIn(read[c]) \subseteq TurnsIn(log') \cup SavedTurns']_vars
  <2> SUFFICES ASSUME IInv, Next, NEW c \in Requests,
                      pc[c] = "summing", edition' # edition, log' # <<>>
               PROVE  /\ TurnsIn(log) \subseteq SavedTurns'
                      /\ ~crossed => TurnsIn(read[c]) \subseteq SavedTurns'
    OBVIOUS
  <2>1. \E d \in Requests : RewriteStops(d) \/ RewriteEnds(d)
    BY DEF Next, Open, Retire, StartTurn, EndTurn, Appends, Compress, Workers, Clear,
           ClearCutShort, ClearsLog, Crash, Compact, Evicted, RewriteFails, diskVars
  <2>2. PICK d \in Requests : \E rows : Replaces(d, rows)
    BY <2>1 DEF RewriteStops, RewriteEnds
  <2> QED  BY <2>2, RewriteKeepsHistory
<1> QED  BY <1>1, InitInvariant, NextInvariant, PTL DEF Spec, HistoryIsKept

-----------------------------------------------------------------------------
(* Rows, their numbers and their markers.                                  *)

LEMMA AFunctionIsASeq ==
  ASSUME NEW n \in Nat, NEW S, NEW f \in [1..n -> S]
  PROVE  f \in Seq(S) /\ Len(f) = n
<1>1. f \in Seq(S)
  BY SeqDef
<1>2. Len(f) \in Nat /\ DOMAIN f = 1..Len(f)
  BY <1>1, LenProperties
<1> QED  BY <1>1, <1>2

(* The two rows of the k-th turn are those whose half, rounded up, is k.   *)
LEMMA HalfRoundedUp ==
  ASSUME NEW i \in Nat
  PROVE  /\ (i + 1) \div 2 \in Nat
         /\ i % 2 = 1 => 2 * ((i + 1) \div 2) = i + 1
         /\ i % 2 # 1 => 2 * ((i + 1) \div 2) = i
OBVIOUS

(* The rows of turns: an open and a close for each, numbered one by one.   *)
LEMMA TurnsAreRows ==
  ASSUME NEW ts \in Seq(0..MaxTurns), NEW n \in Nat
  PROVE  /\ Turns(ts, n) \in Seq(Rows)
         /\ \A i \in DOMAIN Turns(ts, n) :
              /\ IsBoundary(Turns(ts, n)[i])
              /\ Turns(ts, n)[i].kind = "open" =>
                   2 * Turns(ts, n)[i].id = 2 * (n - 1) + i + 1
<1> DEFINE half(i) == (i + 1) \div 2
           row(i) == Row(IF i % 2 = 1 THEN "open" ELSE "close", ts[half(i)], n + half(i) - 1)
<1>1. Len(ts) \in Nat /\ 2 * Len(ts) \in Nat
  BY LenProperties
<1>2. ASSUME NEW i \in 1..(2 * Len(ts))
      PROVE  /\ half(i) \in 1..Len(ts)
             /\ i % 2 = 1 => 2 * half(i) = i + 1
  <2>1. i \in Nat /\ 1 <= i /\ i <= 2 * Len(ts)
    BY <1>1
  <2>2. half(i) \in Nat /\ (i % 2 = 1 => 2 * half(i) = i + 1) /\ (i % 2 # 1 => 2 * half(i) = i)
    BY <2>1, HalfRoundedUp
  <2> HIDE DEF half
  <2> QED  BY <1>1, <2>1, <2>2
<1>3. ASSUME NEW i \in 1..(2 * Len(ts))
      PROVE  /\ row(i) \in Rows /\ IsBoundary(row(i))
             /\ row(i).kind = "open" => 2 * row(i).id = 2 * (n - 1) + i + 1
  <2>1. ts[half(i)] \in 0..MaxTurns
    BY <1>2, ElementOfSeq
  <2>2. half(i) \in Nat /\ half(i) >= 1 /\ i \in Nat
    BY <1>1, <1>2
  <2>3. n + half(i) - 1 \in Nat /\ 2 * (n + half(i) - 1) = 2 * (n - 1) + 2 * half(i)
    <3> HIDE DEF half
    <3> QED  BY <2>2
  <2>4. CASE i % 2 = 1
    <3>1. 2 * half(i) = i + 1
      BY <1>2, <2>4
    <3> HIDE DEF half
    <3> QED  BY <2>1, <2>2, <2>3, <2>4, <3>1 DEF Row, Rows, IsBoundary
  <2>5. CASE i % 2 # 1
    <3> HIDE DEF half
    <3> QED  BY <2>1, <2>2, <2>3, <2>5 DEF Row, Rows, IsBoundary
  <2> QED  BY <2>4, <2>5
<1>4. Turns(ts, n) = [i \in 1..(2 * Len(ts)) |-> row(i)]
  BY DEF Turns
<1>5. Turns(ts, n) \in [1..(2 * Len(ts)) -> Rows]
  <2> HIDE DEF row
  <2> QED  BY <1>3, <1>4
<1>6. Turns(ts, n) \in Seq(Rows)
  BY <1>1, <1>5, AFunctionIsASeq
<1> HIDE DEF row
<1> QED  BY <1>3, <1>4, <1>6

(* The complete turns of rows are turns.                                   *)
LEMMA CompleteTurnsAreTurns ==
  ASSUME NEW rows \in Seq(Rows)
  PROVE  CompleteTurns(rows) \in Seq(0..MaxTurns)
<1> DEFINE C == Completed(rows)
<1>1. Len(rows) \in Nat /\ DOMAIN rows = 1..Len(rows) /\ \A i \in DOMAIN rows : rows[i] \in Rows
  BY LenProperties
<1>2. C \in SUBSET (1..Len(rows))
  BY <1>1 DEF Completed
<1>3. Cardinality(C) \in Nat
  <2>1. IsFiniteSet(1..Len(rows))
    BY <1>1, FS_Interval
  <2> QED  BY <1>2, <2>1, FS_Subset, FS_CardinalityType
<1> HIDE DEF C
<1>4. ASSUME NEW k \in 1..Cardinality(C) PROVE rows[Ranked(C, k)].turn \in 0..MaxTurns
  <2>1. \E i \in C : Cardinality({j \in C : j <= i}) = k
    BY <1>1, <1>2, RankIsTaken
  <2>2. Ranked(C, k) \in C
    BY <2>1 DEF Ranked
  <2> QED  BY <1>1, <1>2, <2>2 DEF Rows
<1>5. CompleteTurns(rows) \in [1..Cardinality(C) -> 0..MaxTurns]
  BY <1>4 DEF CompleteTurns, C
<1> QED  BY <1>3, <1>5, AFunctionIsASeq

(* The plan of a log that is long enough is rows of turns with growing ids.*)
LEMMA PlanIsTurns ==
  ASSUME NEW rows \in Seq(Rows), IsEnough(rows)
  PROVE  /\ Plan(rows) \in Seq(Rows)
         /\ \A i \in DOMAIN Plan(rows) :
              /\ IsBoundary(Plan(rows)[i])
              /\ Plan(rows)[i].kind = "open" => 2 * Plan(rows)[i].id = i + 1
<1> DEFINE ts == CompleteTurns(rows)
           kept == Len(ts) - KeepTurns
           tail == SubSeq(ts, kept + 1, Len(ts))
           head == SubSeq(ts, 1, Least(HeadTurns, kept))
<1>1. ts \in Seq(0..MaxTurns) /\ Len(ts) \in Nat /\ \A i \in 1..Len(ts) : ts[i] \in 0..MaxTurns
  BY CompleteTurnsAreTurns, LenProperties, ElementOfSeq
<1>2. kept \in Nat /\ kept <= Len(ts) /\ HeadTurns \in Nat /\ KeepTurns \in Nat
  BY <1>1, CompactionAssumption DEF IsEnough
<1>3. Least(HeadTurns, kept) \in Nat /\ Least(HeadTurns, kept) <= kept
  BY <1>2 DEF Least
<1>4. tail \in Seq(0..MaxTurns)
  <2>1. \A i \in (kept + 1)..Len(ts) : ts[i] \in 0..MaxTurns
    BY <1>1, <1>2
  <2>2. kept + 1 \in Int /\ Len(ts) \in Int
    BY <1>1, <1>2
  <2> HIDE DEF ts, kept
  <2> QED  BY <2>1, <2>2, SubSeqProperties
<1>5. head \in Seq(0..MaxTurns)
  <2>1. \A i \in 1..Least(HeadTurns, kept) : ts[i] \in 0..MaxTurns
    BY <1>1, <1>2, <1>3
  <2>2. Least(HeadTurns, kept) \in Int
    BY <1>3
  <2> HIDE DEF ts, kept
  <2> QED  BY <2>1, <2>2, SubSeqProperties
<1>6. <<0>> \o head \o tail \in Seq(0..MaxTurns)
  <2>1. <<0>> \in Seq(0..MaxTurns)
    BY CompactionAssumption
  <2> HIDE DEF head, tail
  <2> QED  BY <1>4, <1>5, <2>1, ConcatProperties
<1>7. Plan(rows) = Turns(<<0>> \o head \o tail, 1)
  BY DEF Plan
<1> HIDE DEF head, tail
<1>8. /\ Turns(<<0>> \o head \o tail, 1) \in Seq(Rows)
      /\ \A i \in DOMAIN Turns(<<0>> \o head \o tail, 1) :
           /\ IsBoundary(Turns(<<0>> \o head \o tail, 1)[i])
           /\ Turns(<<0>> \o head \o tail, 1)[i].kind = "open" =>
                2 * Turns(<<0>> \o head \o tail, 1)[i].id = 2 * (1 - 1) + i + 1
  BY <1>6, TurnsAreRows
<1>9. \A i \in DOMAIN Plan(rows) : 2 * (1 - 1) + i + 1 = i + 1
  BY <1>7, <1>8, LenProperties
<1> QED  BY <1>7, <1>8, <1>9

(* The next id is above that of every boundary, and no further than it must*)
(* be.                                                                     *)
LEMMA NextIdIsAbove ==
  ASSUME NEW rows \in Seq(Rows)
  PROVE  /\ NextId(rows) \in Nat
         /\ \A i \in DOMAIN rows : IsBoundary(rows[i]) => rows[i].id < NextId(rows)
         /\ \/ NextId(rows) = 0
            \/ \E i \in DOMAIN rows : IsBoundary(rows[i]) /\ NextId(rows) = rows[i].id + 1
<1> DEFINE B == {j \in DOMAIN rows : IsBoundary(rows[j])}
           N == {0} \cup {rows[i].id + 1 : i \in B}
           f == [i \in B \cup {0} |-> IF i = 0 THEN 0 ELSE rows[i].id + 1]
<1>1. Len(rows) \in Nat /\ DOMAIN rows = 1..Len(rows) /\ \A i \in DOMAIN rows : rows[i].id \in Nat
  <2>1. Len(rows) \in Nat /\ DOMAIN rows = 1..Len(rows) /\ \A i \in DOMAIN rows : rows[i] \in Rows
    BY LenProperties
  <2> QED  BY <2>1 DEF Rows
<1>2. N \in SUBSET Nat
  BY <1>1
<1>3. IsFiniteSet(N)
  <2>1. IsFiniteSet(B \cup {0})
    <3>1. IsFiniteSet(0..Len(rows))
      BY <1>1, FS_Interval
    <3>2. B \cup {0} \in SUBSET (0..Len(rows))
      BY <1>1
    <3> HIDE DEF B
    <3> QED  BY <3>1, <3>2, FS_Subset
  <2>2. f \in Surjection(B \cup {0}, N)
    <3>1. 0 \notin B
      BY <1>1
    <3> HIDE DEF B
    <3> QED  BY <3>1 DEF Surjection
  <2> HIDE DEF B, N, f
  <2> QED  BY <2>1, <2>2, FS_Surjection
<1>4. \E x \in N : \A y \in N : x >= y
  <2>1. N # {}
    OBVIOUS
  <2>2. PICK x \in N : \A y \in N : y <= x
    <3> HIDE DEF N
    <3> QED  BY <1>2, <1>3, <2>1, GreatestNat
  <2> QED  BY <1>2, <2>2
<1>5. Max(N) \in N /\ \A y \in N : Max(N) >= y
  <2> HIDE DEF N
  <2> QED  BY <1>4 DEF Max
<1>6. NextId(rows) = Max(N)
  BY DEF NextId
<1>7. ASSUME NEW i \in DOMAIN rows, IsBoundary(rows[i]) PROVE rows[i].id + 1 <= Max(N) /\ Max(N) \in Nat
  <2>1. rows[i].id + 1 \in N
    BY <1>7
  <2> HIDE DEF N
  <2> QED  BY <1>2, <1>5, <2>1
<1>8. Max(N) \in Nat
  BY <1>2, <1>5
<1>9. Max(N) = 0 \/ \E i \in B : Max(N) = rows[i].id + 1
  <2>1. \A y \in N : y = 0 \/ \E i \in B : y = rows[i].id + 1
    OBVIOUS
  <2> HIDE DEF N, B
  <2> QED  BY <1>5, <2>1
<1> HIDE DEF N
<1> QED  BY <1>1, <1>6, <1>7, <1>8, <1>9

LEMMA AppendedRows ==
  ASSUME NEW s \in Seq(Rows), NEW x \in Rows
  PROVE  /\ Append(s, x) \in Seq(Rows) /\ Len(Append(s, x)) = Len(s) + 1
         /\ DOMAIN s = 1..Len(s) /\ DOMAIN Append(s, x) = 1..(Len(s) + 1)
         /\ Len(s) \in Nat
         /\ \A i \in 1..Len(s) : Append(s, x)[i] = s[i]
         /\ Append(s, x)[Len(s) + 1] = x
<1>1. Append(s, x) \in Seq(Rows) /\ Len(Append(s, x)) = Len(s) + 1
      /\ \A i \in 1..Len(s) : Append(s, x)[i] = s[i]
      /\ Append(s, x)[Len(s) + 1] = x
  BY AppendProperties
<1>2. Len(s) \in Nat /\ DOMAIN s = 1..Len(s)
  BY LenProperties
<1>3. DOMAIN Append(s, x) = 1..Len(Append(s, x))
  BY <1>1, LenProperties
<1> QED  BY <1>1, <1>2, <1>3

(* A row after two sequences is after the second.                          *)
LEMMA AppendAfterBoth ==
  ASSUME NEW s \in Seq(Rows), NEW t \in Seq(Rows), NEW x \in Rows
  PROVE  s \o Append(t, x) = Append(s \o t, x)
<1>1. s \o t \in Seq(Rows) /\ <<x>> \in Seq(Rows)
  BY ConcatProperties
<1>2. Append(t, x) = t \o <<x>> /\ Append(s \o t, x) = (s \o t) \o <<x>>
  BY <1>1, AppendIsConcat
<1> QED  BY <1>1, <1>2, ConcatAssociative

(* The row that was appended last is removed again.                        *)
LEMMA RemoveLast ==
  ASSUME NEW s \in Seq(Rows), NEW x \in Rows
  PROVE  RemoveAt(Append(s, x), Len(s) + 1) = s
<1> DEFINE t == Append(s, x)
<1>1. t \in Seq(Rows) /\ Len(t) = Len(s) + 1 /\ Len(s) \in Nat
      /\ \A i \in 1..Len(s) : t[i] = s[i]
  BY AppendedRows
<1>2. SubSeq(t, Len(s) + 2, Len(t)) = <<>>
  BY <1>1, SubSeqEmpty
<1>3. SubSeq(t, 1, Len(s)) = s
  <2>1. t = s \o <<x>> /\ <<x>> \in Seq(Rows)
    BY AppendIsConcat
  <2>2. CASE Len(s) = 0
    BY <2>2, SubSeqEmpty, <1>1, EmptySeq
  <2>3. CASE Len(s) # 0
    <3>1. SubSeq(t, 1, Len(s)) = SubSeq(s, 1, Len(s))
      BY <1>1, <2>1, <2>3, SubSeqOfConcat1
    <3> QED  BY <3>1, SubSeqFull
  <2> QED  BY <2>2, <2>3
<1>4. RemoveAt(t, Len(s) + 1) = SubSeq(t, 1, Len(s)) \o SubSeq(t, Len(s) + 2, Len(t))
  <2>1. (Len(s) + 1) - 1 = Len(s) /\ (Len(s) + 1) + 1 = Len(s) + 2
    BY <1>1
  <2> QED  BY <2>1 DEF RemoveAt
<1> QED  BY <1>2, <1>3, <1>4, ConcatEmptySeq

(* A row removed before another is appended, or after.                     *)
LEMMA RemoveThenAppend ==
  ASSUME NEW s \in Seq(Rows), NEW x \in Rows, NEW i \in DOMAIN s
  PROVE  /\ RemoveAt(s, i) \in Seq(Rows)
         /\ Append(RemoveAt(s, i), x) = RemoveAt(Append(s, x), i)
<1> DEFINE t == Append(s, x)
           before == SubSeq(s, 1, i - 1)
           after == SubSeq(s, i + 1, Len(s))
<1>1. /\ t \in Seq(Rows) /\ Len(t) = Len(s) + 1 /\ Len(s) \in Nat
      /\ i \in Nat /\ 1 <= i /\ i <= Len(s)
      /\ \A j \in 1..Len(s) : s[j] \in Rows /\ t[j] = s[j]
      /\ t[Len(s) + 1] = x
  BY AppendedRows, ElementOfSeq
<1>2. before \in Seq(Rows) /\ after \in Seq(Rows)
  <2>1. \A j \in 1..(i - 1) : s[j] \in Rows
    BY <1>1
  <2>2. \A j \in (i + 1)..Len(s) : s[j] \in Rows
    BY <1>1
  <2> QED  BY <1>1, <2>1, <2>2, SubSeqProperties
<1>3. SubSeq(t, 1, i - 1) = before
  <2>1. t = s \o <<x>> /\ <<x>> \in Seq(Rows)
    BY AppendIsConcat
  <2>2. CASE i = 1
    BY <2>2, SubSeqEmpty, <1>1
  <2>3. CASE i # 1
    <3>1. 1 \in 1..Len(s) /\ i - 1 \in 1..Len(s)
      BY <1>1, <2>3
    <3> QED  BY <2>1, <3>1, SubSeqOfConcat1
  <2> QED  BY <2>2, <2>3
<1>4. SubSeq(t, i + 1, Len(t)) = Append(after, x)
  <2>1. i + 1 \in 1..Len(t) /\ Len(t) \in (i + 1)..Len(t)
    BY <1>1
  <2>2. SubSeq(t, i + 1, Len(t)) = SubSeq(t, i + 1, Len(t) - 1) \o <<t[Len(t)]>>
    BY <1>1, <2>1, SubSeqRecursiveSecond
  <2>3. Len(t) - 1 = Len(s) /\ t[Len(t)] = x
    BY <1>1
  <2>4. SubSeq(t, i + 1, Len(s)) = after
    <3>1. t = s \o <<x>> /\ <<x>> \in Seq(Rows)
      BY AppendIsConcat
    <3>2. CASE i = Len(s)
      BY <3>2, <1>1, SubSeqEmpty
    <3>3. CASE i # Len(s)
      <4>1. i + 1 \in 1..Len(s) /\ Len(s) \in 1..Len(s)
        BY <1>1, <3>3
      <4> QED  BY <3>1, <4>1, SubSeqOfConcat1
    <3> QED  BY <3>2, <3>3
  <2> HIDE DEF t, after
  <2> QED  BY <1>2, <2>2, <2>3, <2>4, AppendIsConcat
<1>5. RemoveAt(s, i) = before \o after /\ RemoveAt(t, i) = before \o Append(after, x)
  BY <1>3, <1>4 DEF RemoveAt
<1>6. RemoveAt(s, i) \in Seq(Rows)
  <2> HIDE DEF before, after
  <2> QED  BY <1>2, <1>5, ConcatProperties
<1>7. before \o Append(after, x) = Append(before \o after, x)
  <2> HIDE DEF before, after
  <2> QED  BY <1>2, AppendAfterBoth
<1> QED  BY <1>5, <1>6, <1>7

(* A boundary leaves the markers as they are.                              *)
LEMMA BoundaryIsNoMarker ==
  ASSUME NEW s \in Seq(Rows), NEW x \in Rows, IsBoundary(x)
  PROVE  IsUnpaired(Append(s, x)) <=> IsUnpaired(s)
<1> DEFINE t == Append(s, x)
<1>1. /\ Len(t) = Len(s) + 1 /\ Len(s) \in Nat
      /\ DOMAIN s = 1..Len(s) /\ DOMAIN t = 1..(Len(s) + 1)
      /\ \A i \in 1..Len(s) : t[i] = s[i]
      /\ t[Len(s) + 1] = x
  BY AppendedRows
<1>2. x.kind \notin {"start", "end"}
  BY DEF IsBoundary
<1> HIDE DEF t
<1>3. ASSUME NEW i \in DOMAIN t, t[i].kind = "start",
             \A j \in (i + 1)..Len(t) : t[j].kind # "end"
      PROVE  i \in DOMAIN s /\ s[i].kind = "start" /\ \A j \in (i + 1)..Len(s) : s[j].kind # "end"
  <2>1. i \in 1..Len(s)
    BY <1>1, <1>2, <1>3
  <2>2. \A j \in (i + 1)..Len(s) : j \in (i + 1)..Len(t) /\ j \in 1..Len(s)
    BY <1>1, <2>1
  <2> QED  BY <1>1, <1>3, <2>1, <2>2
<1>4. ASSUME NEW i \in DOMAIN s, s[i].kind = "start",
             \A j \in (i + 1)..Len(s) : s[j].kind # "end"
      PROVE  i \in DOMAIN t /\ t[i].kind = "start" /\ \A j \in (i + 1)..Len(t) : t[j].kind # "end"
  <2>1. \A j \in (i + 1)..Len(t) : j = Len(s) + 1 \/ (j \in (i + 1)..Len(s) /\ j \in 1..Len(s))
    BY <1>1
  <2> QED  BY <1>1, <1>2, <1>4, <2>1
<1> QED  BY <1>3, <1>4 DEF IsUnpaired, t

(* An end at the end pairs every start.                                    *)
LEMMA EndPairs ==
  ASSUME NEW s \in Seq(Rows), NEW x \in Rows, x.kind = "end"
  PROVE  ~IsUnpaired(Append(s, x))
<1> DEFINE t == Append(s, x)
<1>1. /\ Len(t) = Len(s) + 1 /\ Len(s) \in Nat /\ DOMAIN t = 1..(Len(s) + 1)
      /\ t[Len(s) + 1] = x
  BY AppendedRows
<1> HIDE DEF t
<1>2. ASSUME NEW i \in DOMAIN t, t[i].kind = "start"
      PROVE  Len(t) \in (i + 1)..Len(t) /\ t[Len(t)].kind = "end"
  BY <1>1, <1>2
<1> QED  BY <1>2 DEF IsUnpaired, t

(* A start followed by boundaries only is unpaired.                        *)
LEMMA StartThenBoundaries ==
  ASSUME NEW s \in Seq(Rows), NEW x \in Rows, x.kind = "start",
         NEW p \in Seq(Rows), \A i \in DOMAIN p : IsBoundary(p[i])
  PROVE  IsUnpaired(s \o (<<x>> \o p))
<1> DEFINE h == <<x>> \o p
           t == s \o h
<1>1. <<x>> \in Seq(Rows) /\ Len(<<x>>) = 1 /\ <<x>>[1] = x
  OBVIOUS
<1>2. /\ h \in Seq(Rows) /\ Len(h) = 1 + Len(p) /\ h[1] = x
      /\ \A i \in 2..(1 + Len(p)) : h[i] = p[i - 1]
  <2>1. /\ h \in Seq(Rows) /\ Len(h) = 1 + Len(p)
        /\ \A i \in 1..(1 + Len(p)) : h[i] = IF i <= 1 THEN <<x>>[i] ELSE p[i - 1]
    BY <1>1, ConcatProperties
  <2>2. Len(p) \in Nat
    BY LenProperties
  <2> HIDE DEF h
  <2> QED  BY <1>1, <2>1, <2>2
<1>3. Len(p) \in Nat /\ DOMAIN p = 1..Len(p) /\ Len(s) \in Nat
  BY LenProperties
<1>4. /\ t \in Seq(Rows) /\ Len(t) = Len(s) + (1 + Len(p))
      /\ t[Len(s) + 1] = x
      /\ \A i \in (Len(s) + 2)..Len(t) : IsBoundary(t[i])
  <2>1. /\ t \in Seq(Rows) /\ Len(t) = Len(s) + Len(h)
        /\ \A i \in 1..(Len(s) + Len(h)) : t[i] = IF i <= Len(s) THEN s[i] ELSE h[i - Len(s)]
    <3> HIDE DEF h
    <3> QED  BY <1>2, ConcatProperties
  <2> HIDE DEF h, t
  <2>2. t[Len(s) + 1] = h[1]
    <3>1. Len(s) + 1 \in 1..(Len(s) + Len(h)) /\ ~(Len(s) + 1 <= Len(s)) /\ (Len(s) + 1) - Len(s) = 1
      BY <1>2, <1>3
    <3> QED  BY <2>1, <3>1
  <2>3. ASSUME NEW i \in (Len(s) + 2)..Len(t) PROVE IsBoundary(t[i])
    <3>1. i \in 1..(Len(s) + Len(h)) /\ ~(i <= Len(s)) /\ i - Len(s) \in 2..(1 + Len(p))
          /\ (i - Len(s)) - 1 \in DOMAIN p
      BY <1>2, <1>3, <2>1
    <3>2. t[i] = p[(i - Len(s)) - 1]
      BY <1>2, <2>1, <3>1
    <3> QED  BY <3>1, <3>2
  <2> QED  BY <1>2, <2>1, <2>2, <2>3
<1> HIDE DEF t
<1>5. Len(s) + 1 \in DOMAIN t
  BY <1>3, <1>4, LenProperties
<1>6. \A j \in (Len(s) + 1 + 1)..Len(t) : t[j].kind # "end"
  <2>1. Len(s) + 1 + 1 = Len(s) + 2
    BY <1>3
  <2>2. \A j \in (Len(s) + 2)..Len(t) : t[j].kind # "end"
    BY <1>4 DEF IsBoundary
  <2> QED  BY <2>1, <2>2
<1> QED  BY <1>4, <1>5, <1>6 DEF IsUnpaired, t, h

-----------------------------------------------------------------------------
(* Types.                                                                  *)

(* What a compaction summarises is long enough, and a turn in flight has   *)
(* its first row in the memory of its instance.                            *)
ReadIsEnough == \A c \in Requests : pc[c] = "summing" => IsEnough(read[c])
TurnIsRecorded == turn # 0 => \E i \in DOMAIN mirror : IsBoundary(mirror[i])

TInv == TypeOK /\ ReadIsEnough /\ TurnIsRecorded

LEMMA TypesOfRows ==
  ASSUME TypeOK
  PROVE  /\ rolled \in Seq(Rows) /\ log \in Seq(Rows) /\ backup \in Seq(Rows)
         /\ mirror \in Seq(Rows) /\ Stream \in Seq(Rows)
         /\ \A c \in Requests : read[c] \in Seq(Rows)
<1>1. /\ rolled \in Seq(Rows) /\ log \in Seq(Rows) /\ backup \in Seq(Rows)
      /\ mirror \in Seq(Rows) /\ read \in [Requests -> Seq(Rows)]
  BY DEF TypeOK
<1>2. Stream \in Seq(Rows)
  BY <1>1, ConcatProperties DEF Stream
<1> QED  BY <1>1, <1>2

LEMMA MarksAreRows == Mark("start") \in Rows /\ Mark("end") \in Rows
BY CompactionAssumption DEF Mark, Row, Rows

(* What a rewrite writes.                                                  *)
LEMMA RewrittenIsRows ==
  ASSUME TInv, NEW c \in Requests, pc[c] = "summing"
  PROVE  /\ Rewritten(c) \in Seq(Rows)
         /\ Append(Rewritten(c), Mark("end")) \in Seq(Rows)
         /\ rolled \o Rewritten(c) \in Seq(Rows)
<1>1. Plan(read[c]) \in Seq(Rows) /\ rolled \in Seq(Rows)
  BY TypesOfRows, PlanIsTurns DEF TInv, ReadIsEnough
<1>2. Rewritten(c) \in Seq(Rows)
  BY <1>1, MarksAreRows, ConcatProperties DEF Rewritten
<1> QED  BY <1>1, <1>2, MarksAreRows, AppendedRows, ConcatProperties

LEMMA InitTypes == Init => TInv
<1> SUFFICES ASSUME Init PROVE TInv
  OBVIOUS
<1>1. log \in Seq(Rows)
  <2> DEFINE ts == [t \in 1..Initial |-> t]
  <2>1. Initial \in Nat /\ MaxTurns \in Nat /\ Initial <= MaxTurns
    BY CompactionAssumption
  <2>2. ts \in [1..Initial -> 0..MaxTurns]
    BY <2>1
  <2>3. ts \in Seq(0..MaxTurns)
    BY <2>1, <2>2, AFunctionIsASeq
  <2>4. log = Turns(ts, 0)
    BY DEF Init
  <2> HIDE DEF ts
  <2> QED  BY <2>3, <2>4, TurnsAreRows
<1>2. Initial \in 0..MaxTurns /\ MaxEditions \in Nat
  BY CompactionAssumption
<1>3. <<>> \in Seq(Rows)
  BY EmptySeq
<1>4. /\ pc \in [Requests -> {"idle", "evicting", "summing"}]
      /\ \A c \in Requests : pc[c] = "idle"
      /\ had \in [Requests -> BOOLEAN] /\ read \in [Requests -> Seq(Rows)]
  BY <1>3 DEF Init
<1>5. rolled = <<>> /\ backup = <<>> /\ mirror = <<>>
  BY DEF Init
<1>6. TypeOK
  <2>1. /\ said \in 0..MaxTurns /\ turn \in 0..said
        /\ edition \in 0..MaxEditions /\ view \in 0..MaxEditions
    BY <1>2 DEF Init
  <2> QED  BY <1>1, <1>3, <1>4, <1>5, <2>1 DEF Init, TypeOK
<1>7. ReadIsEnough /\ TurnIsRecorded
  BY <1>4 DEF Init, ReadIsEnough, TurnIsRecorded
<1> QED  BY <1>6, <1>7 DEF TInv

(* What an append writes.                                                  *)
LEMMA AppendTypes ==
  ASSUME TypeOK, NEW x \in Rows, Appends(x)
  PROVE  /\ rolled' \in Seq(Rows) /\ log' \in Seq(Rows) /\ backup' \in Seq(Rows)
         /\ mirror' \in Seq(Rows)
         /\ descriptor' \in {"none", "path", "adrift"}
         /\ descriptor # "none" => descriptor' # "none"
         /\ UNCHANGED <<edition, sidecar, view, pinned>>
<1>1. /\ rolled \in Seq(Rows) /\ log \in Seq(Rows) /\ backup \in Seq(Rows) /\ mirror \in Seq(Rows)
      /\ Append(mirror, x) \in Seq(Rows) /\ Append(log, x) \in Seq(Rows) /\ <<x>> \in Seq(Rows)
  BY TypesOfRows, AppendedRows
<1>2. descriptor \in {"none", "path", "adrift"}
  BY DEF TypeOK
<1> QED  BY <1>1, <1>2 DEF Appends

(* Opening and outliving keep the types of the instance.                   *)
LEMMA InstanceTypes ==
  ASSUME TypeOK, TurnIsRecorded, NEW rows \in Seq(Rows), NEW n \in 0..MaxEditions,
         \/ OpensOn(rows, n) /\ descriptor = "none"
         \/ Outlives
         \/ UNCHANGED instanceVars,
         UNCHANGED said
  PROVE  /\ mirror' \in Seq(Rows) /\ view' \in 0..MaxEditions
         /\ descriptor' \in {"none", "path", "adrift"}
         /\ turn' \in 0..said' /\ pinned' \in BOOLEAN
         /\ turn' # 0 \/ pinned' => descriptor' # "none"
         /\ TurnIsRecorded'
BY DEF TypeOK, OpensOn, Outlives, instanceVars, TurnIsRecorded

LEMMA AnswerTypes ==
  ASSUME TInv, NEW c \in Requests, Answers(c)
  PROVE  /\ pc' \in [Requests -> {"idle", "evicting", "summing"}]
         /\ had' \in [Requests -> BOOLEAN] /\ read' \in [Requests -> Seq(Rows)]
         /\ \A d \in Requests : pc'[d] = "evicting" => had'[d]
         /\ ReadIsEnough'
<1>1. <<>> \in Seq(Rows)
  BY EmptySeq
<1>2. /\ pc \in [Requests -> {"idle", "evicting", "summing"}]
      /\ had \in [Requests -> BOOLEAN] /\ read \in [Requests -> Seq(Rows)]
      /\ \A d \in Requests : pc[d] = "evicting" => had[d]
      /\ \A d \in Requests : pc[d] = "summing" => IsEnough(read[d])
  BY DEF TInv, TypeOK, ReadIsEnough
<1>3. /\ pc' = [pc EXCEPT ![c] = "idle"] /\ had' = [had EXCEPT ![c] = FALSE]
      /\ read' = [read EXCEPT ![c] = <<>>]
  BY DEF Answers
<1>4. /\ pc' \in [Requests -> {"idle", "evicting", "summing"}]
      /\ had' \in [Requests -> BOOLEAN] /\ read' \in [Requests -> Seq(Rows)]
      /\ \A d \in Requests : pc'[d] = "evicting" => had'[d]
  BY <1>1, <1>2, <1>3
<1>5. ASSUME NEW d \in Requests, pc'[d] = "summing" PROVE IsEnough(read'[d])
  <2>1. d # c /\ pc[d] = "summing" /\ read'[d] = read[d]
    BY <1>2, <1>3, <1>5
  <2> QED  BY <1>2, <2>1
<1> QED  BY <1>4, <1>5 DEF ReadIsEnough, IsEnough, CompleteTurns

LEMMA RewriteTypes ==
  ASSUME TInv, NEW c \in Requests, NEW rows \in Seq(Rows), Replaces(c, rows),
         Rebinds(c) \/ Outlives, UNCHANGED <<rolled, crossed>>,
         sidecar' \in {sidecar, None}, unfinished' \in BOOLEAN
  PROVE  TInv'
<1>1. /\ pc[c] = "summing" /\ Answers(c) /\ backup' = log /\ log' = rows
      /\ edition' = edition + 1 /\ edition + 1 \in 0..MaxEditions
  <2>1. edition \in 0..MaxEditions /\ MaxEditions \in Nat
    BY CompactionAssumption DEF TInv, TypeOK
  <2> QED  BY <2>1 DEF Replaces
<1>2. \/ OpensOn(rolled \o Rewritten(c), edition + 1) /\ descriptor = "none"
      \/ Outlives
  BY DEF Rebinds
<1>3. rolled \o Rewritten(c) \in Seq(Rows)
  BY <1>1, RewrittenIsRows
<1>4. UNCHANGED said
  BY <1>2 DEF OpensOn, Outlives
<1>5. /\ mirror' \in Seq(Rows) /\ view' \in 0..MaxEditions
      /\ descriptor' \in {"none", "path", "adrift"}
      /\ turn' \in 0..said' /\ pinned' \in BOOLEAN
      /\ turn' # 0 \/ pinned' => descriptor' # "none"
      /\ TurnIsRecorded'
  BY <1>1, <1>2, <1>3, <1>4, InstanceTypes DEF TInv
<1>6. /\ pc' \in [Requests -> {"idle", "evicting", "summing"}]
      /\ had' \in [Requests -> BOOLEAN] /\ read' \in [Requests -> Seq(Rows)]
      /\ \A d \in Requests : pc'[d] = "evicting" => had'[d]
      /\ ReadIsEnough'
  BY <1>1, AnswerTypes
<1>7. rolled' \in Seq(Rows) /\ log' \in Seq(Rows) /\ backup' \in Seq(Rows)
  BY <1>1, TypesOfRows DEF TInv
<1>8. sidecar' \in 0..MaxEditions \cup {None} /\ crossed' \in BOOLEAN /\ said' \in 0..MaxTurns
  BY <1>4 DEF TInv, TypeOK
<1> QED  BY <1>1, <1>5, <1>6, <1>7, <1>8 DEF TInv, TypeOK

LEMMA DeathTypes ==
  ASSUME TInv, Dies, UNCHANGED said,
         {rolled', log', backup'} \subseteq Seq(Rows), edition' \in 0..MaxEditions,
         UNCHANGED sidecar, {unfinished', crossed'} \subseteq BOOLEAN
  PROVE  TInv'
<1>1. <<>> \in Seq(Rows) /\ MaxEditions \in Nat
  BY EmptySeq, CompactionAssumption
<1>2. /\ mirror' \in Seq(Rows) /\ view' \in 0..MaxEditions /\ descriptor' = "none"
      /\ turn' = 0 /\ pinned' = FALSE
      /\ pc' \in [Requests -> {"idle", "evicting", "summing"}]
      /\ had' \in [Requests -> BOOLEAN] /\ read' \in [Requests -> Seq(Rows)]
      /\ \A d \in Requests : pc'[d] = "idle"
  BY <1>1 DEF Dies
<1>3. said' \in 0..MaxTurns /\ turn' \in 0..said' /\ sidecar' \in 0..MaxEditions \cup {None}
  <2>1. MaxTurns \in Nat
    BY CompactionAssumption
  <2> QED  BY <1>2, <2>1 DEF TInv, TypeOK
<1> QED  BY <1>2, <1>3 DEF TInv, TypeOK, ReadIsEnough, TurnIsRecorded

(* A turn starts or ends.                                                  *)
LEMMA TurnTypes ==
  ASSUME TInv, StartTurn \/ EndTurn
  PROVE  /\ TInv'
         /\ \E x \in Rows : /\ IsBoundary(x) /\ Appends(x)
                            /\ x.kind = "open" => x.id = NextId(mirror)
         /\ descriptor # "none" /\ UNCHANGED <<unfinished, crossed>>
<1>1. mirror \in Seq(Rows) /\ Len(mirror) \in Nat /\ DOMAIN mirror = 1..Len(mirror)
  BY TypesOfRows, LenProperties DEF TInv
<1>2. /\ NextId(mirror) \in Nat
      /\ \A i \in DOMAIN mirror : mirror[i].id \in Nat
      /\ \A i \in DOMAIN mirror : IsBoundary(mirror[i]) => mirror[i].id < NextId(mirror)
  <2>1. \A i \in DOMAIN mirror : mirror[i] \in Rows
    BY <1>1, ElementOfSeq
  <2>2. \A i \in DOMAIN mirror : mirror[i].id \in Nat
    BY <2>1 DEF Rows
  <2> QED  BY <1>1, <2>2, NextIdIsAbove
<1>3. said \in 0..MaxTurns /\ turn \in 0..said /\ MaxTurns \in Nat
  BY CompactionAssumption DEF TInv, TypeOK
<1>4. \E x \in Rows : /\ IsBoundary(x) /\ Appends(x)
                      /\ x.kind = "open" => x.id = NextId(mirror)
                      /\ said' \in 0..MaxTurns /\ turn' \in 0..said'
                      /\ turn' # 0 => mirror' = Append(mirror, x)
                      /\ descriptor # "none" /\ UNCHANGED <<requestVars, unfinished, crossed>>
  <2>1. CASE StartTurn
    <3> DEFINE x == Row("open", said + 1, NextId(mirror))
    <3>1. said + 1 \in 0..MaxTurns
      BY <1>3, <2>1 DEF StartTurn
    <3>2. x \in Rows /\ IsBoundary(x) /\ (x.kind = "open" => x.id = NextId(mirror))
      BY <1>2, <3>1 DEF Row, Rows, IsBoundary
    <3>3. /\ Appends(x) /\ said' = said + 1 /\ turn' = said + 1 /\ mirror' = Append(mirror, x)
          /\ descriptor # "none" /\ UNCHANGED <<requestVars, unfinished, crossed>>
      BY <2>1 DEF StartTurn, Appends
    <3> HIDE DEF x
    <3> QED  BY <1>3, <3>1, <3>2, <3>3
  <2>2. CASE EndTurn
    <3> DEFINE x == Row("close", turn, NextId(mirror) - 1)
    <3>1. NextId(mirror) - 1 \in Nat
      <4>1. PICK i \in DOMAIN mirror : IsBoundary(mirror[i])
        BY <2>2 DEF TInv, TurnIsRecorded, EndTurn
      <4> QED  BY <1>2, <4>1
    <3>2. x \in Rows /\ IsBoundary(x) /\ x.kind # "open"
      <4>1. turn \in 0..MaxTurns
        BY <1>3
      <4> QED  BY <3>1, <4>1 DEF Row, Rows, IsBoundary
    <3>3. /\ Appends(x) /\ said' = said /\ turn' = 0
          /\ descriptor # "none" /\ UNCHANGED <<requestVars, unfinished, crossed>>
      BY <2>2 DEF EndTurn, TInv, TypeOK
    <3> HIDE DEF x
    <3> QED  BY <1>3, <3>2, <3>3
  <2> QED  BY <2>1, <2>2
<1>5. PICK x \in Rows : /\ IsBoundary(x) /\ Appends(x)
                        /\ x.kind = "open" => x.id = NextId(mirror)
                        /\ said' \in 0..MaxTurns /\ turn' \in 0..said'
                        /\ turn' # 0 => mirror' = Append(mirror, x)
                        /\ descriptor # "none" /\ UNCHANGED <<requestVars, unfinished, crossed>>
  BY <1>4
<1>6. /\ rolled' \in Seq(Rows) /\ log' \in Seq(Rows) /\ backup' \in Seq(Rows)
      /\ mirror' \in Seq(Rows)
      /\ descriptor' \in {"none", "path", "adrift"} /\ descriptor' # "none"
      /\ UNCHANGED <<edition, sidecar, view, pinned>>
  BY <1>5, AppendTypes DEF TInv
<1>7. TypeOK'
  BY <1>5, <1>6 DEF TInv, TypeOK, requestVars
<1>8. ReadIsEnough'
  BY <1>5 DEF TInv, ReadIsEnough, requestVars
<1>9. TurnIsRecorded'
  BY <1>1, <1>5, AppendedRows DEF TurnIsRecorded
<1> QED  BY <1>5, <1>7, <1>8, <1>9 DEF TInv

(* A compaction begins.                                                    *)
LEMMA CompactTypes ==
  ASSUME TInv, NEW c \in Requests, Compact(c)
  PROVE  TInv'
<1>1. /\ pc \in [Requests -> {"idle", "evicting", "summing"}]
      /\ had \in [Requests -> BOOLEAN] /\ read \in [Requests -> Seq(Rows)]
      /\ log \in Seq(Rows)
  BY TypesOfRows DEF TInv, TypeOK
<1>2. /\ had' = [had EXCEPT ![c] = descriptor # "none"]
      /\ \/ /\ IsEnough(log) /\ pc' = [pc EXCEPT ![c] = "summing"]
            /\ read' = [read EXCEPT ![c] = log]
         \/ /\ descriptor # "none" /\ pc' = [pc EXCEPT ![c] = "evicting"] /\ read' = read
      /\ descriptor' = "none" /\ turn' = 0 /\ pinned' = FALSE
      /\ crossed' \in BOOLEAN
      /\ UNCHANGED <<diskVars, mirror, view, said, unfinished>>
  BY DEF Compact, MayEvict, TInv, TypeOK
<1>3. /\ pc' \in [Requests -> {"idle", "evicting", "summing"}]
      /\ had' \in [Requests -> BOOLEAN] /\ read' \in [Requests -> Seq(Rows)]
  BY <1>1, <1>2
<1>4. ASSUME NEW d \in Requests, pc'[d] = "evicting" PROVE had'[d]
  BY <1>1, <1>2, <1>4 DEF TInv, TypeOK
<1>5. ASSUME NEW d \in Requests, pc'[d] = "summing" PROVE IsEnough(read'[d])
  <2>1. \/ pc[d] = "summing" /\ read'[d] = read[d]
        \/ read'[d] = log /\ IsEnough(log)
    BY <1>1, <1>2, <1>5
  <2> QED  BY <2>1 DEF TInv, ReadIsEnough
<1>6. ReadIsEnough'
  BY <1>5 DEF ReadIsEnough, IsEnough, CompleteTurns
<1>7. said \in 0..MaxTurns /\ 0 \in 0..said
  BY CompactionAssumption DEF TInv, TypeOK
<1>8. TypeOK'
  BY <1>2, <1>3, <1>4, <1>7 DEF TInv, TypeOK, diskVars
<1> QED  BY <1>2, <1>6, <1>8 DEF TInv, TurnIsRecorded

(* The instance is torn down and the log read.                             *)
LEMMA EvictedTypes ==
  ASSUME TInv, NEW c \in Requests, Evicted(c)
  PROVE  TInv'
<1>0. /\ pc \in [Requests -> {"idle", "evicting", "summing"}]
      /\ had \in [Requests -> BOOLEAN] /\ read \in [Requests -> Seq(Rows)]
      /\ log \in Seq(Rows) /\ Stream \in Seq(Rows) /\ edition \in 0..MaxEditions
  BY TypesOfRows DEF TInv, TypeOK
<1>1. CASE IsEnough(log)
  <2>1. /\ pc' = [pc EXCEPT ![c] = "summing"] /\ read' = [read EXCEPT ![c] = log]
        /\ UNCHANGED <<had, instanceVars, diskVars, unfinished, crossed>>
    BY <1>1 DEF Evicted
  <2>2. /\ pc' \in [Requests -> {"idle", "evicting", "summing"}]
        /\ read' \in [Requests -> Seq(Rows)]
        /\ \A d \in Requests : pc'[d] = "evicting" => pc[d] = "evicting"
    BY <1>0, <2>1
  <2>3. ASSUME NEW d \in Requests, pc'[d] = "summing" PROVE IsEnough(read'[d])
    <3>1. \/ pc[d] = "summing" /\ read'[d] = read[d]
          \/ read'[d] = log
      BY <1>0, <2>1, <2>3
    <3> QED  BY <1>1, <3>1 DEF TInv, ReadIsEnough
  <2>4. ReadIsEnough'
    BY <2>3 DEF ReadIsEnough, IsEnough, CompleteTurns
  <2>5. TypeOK'
    BY <2>1, <2>2 DEF TInv, TypeOK, instanceVars, diskVars
  <2>6. TurnIsRecorded'
    BY <2>1 DEF TInv, TurnIsRecorded, instanceVars
  <2> QED  BY <2>4, <2>5, <2>6 DEF TInv
<1>2. CASE ~IsEnough(log)
  <2>1. /\ Answers(c)
        /\ \/ OpensOn(Stream, edition) /\ descriptor = "none"
           \/ UNCHANGED instanceVars
        /\ UNCHANGED <<diskVars, unfinished, crossed>>
    BY <1>2 DEF Evicted
  <2>2. UNCHANGED said
    BY <2>1 DEF OpensOn, instanceVars
  <2>3. /\ mirror' \in Seq(Rows) /\ view' \in 0..MaxEditions
        /\ descriptor' \in {"none", "path", "adrift"}
        /\ turn' \in 0..said' /\ pinned' \in BOOLEAN
        /\ turn' # 0 \/ pinned' => descriptor' # "none"
        /\ TurnIsRecorded'
    BY <1>0, <2>1, <2>2, InstanceTypes DEF TInv
  <2>4. /\ pc' \in [Requests -> {"idle", "evicting", "summing"}]
        /\ had' \in [Requests -> BOOLEAN] /\ read' \in [Requests -> Seq(Rows)]
        /\ \A d \in Requests : pc'[d] = "evicting" => had'[d]
        /\ ReadIsEnough'
    BY <2>1, AnswerTypes
  <2> QED  BY <2>1, <2>2, <2>3, <2>4 DEF TInv, TypeOK, diskVars
<1> QED  BY <1>1, <1>2

LEMMA RewriteFailsTypes ==
  ASSUME TInv, NEW c \in Requests, RewriteFails(c)
  PROVE  TInv'
<1>1. /\ Answers(c) /\ backup' \in {backup, log}
      /\ UNCHANGED <<rolled, log, edition, sidecar, instanceVars, unfinished, crossed>>
  BY DEF RewriteFails
<1>2. /\ pc' \in [Requests -> {"idle", "evicting", "summing"}]
      /\ had' \in [Requests -> BOOLEAN] /\ read' \in [Requests -> Seq(Rows)]
      /\ \A d \in Requests : pc'[d] = "evicting" => had'[d]
      /\ ReadIsEnough'
  BY <1>1, AnswerTypes
<1>3. backup' \in Seq(Rows)
  BY <1>1, TypesOfRows DEF TInv
<1> QED  BY <1>1, <1>2, <1>3 DEF TInv, TypeOK, TurnIsRecorded, instanceVars

LEMMA NextTypes == TInv /\ [Next]_vars => TInv'
<1> SUFFICES ASSUME TInv, [Next]_vars PROVE TInv'
  OBVIOUS
<1>0. /\ {rolled, log, backup, mirror} \subseteq Seq(Rows)
      /\ Stream \in Seq(Rows) /\ <<>> \in Seq(Rows)
      /\ edition \in 0..MaxEditions /\ view \in 0..MaxEditions /\ MaxEditions \in Nat
      /\ unfinished \in BOOLEAN /\ crossed \in BOOLEAN /\ pinned \in BOOLEAN
  BY TypesOfRows, EmptySeq, CompactionAssumption DEF TInv, TypeOK
<1>1. CASE Open
  <2>1. /\ OpensOn(Stream, edition) /\ descriptor = "none" /\ UNCHANGED said
        /\ crossed' \in BOOLEAN
        /\ UNCHANGED <<diskVars, requestVars, unfinished>>
    BY <1>1 DEF Open, OpensOn
  <2>2. /\ mirror' \in Seq(Rows) /\ view' \in 0..MaxEditions
        /\ descriptor' \in {"none", "path", "adrift"}
        /\ turn' \in 0..said' /\ pinned' \in BOOLEAN
        /\ turn' # 0 \/ pinned' => descriptor' # "none"
        /\ TurnIsRecorded'
    BY <1>0, <2>1, InstanceTypes DEF TInv
  <2>3. TypeOK'
    BY <2>1, <2>2 DEF TInv, TypeOK, diskVars, requestVars
  <2> QED  BY <2>1, <2>2, <2>3 DEF TInv, ReadIsEnough, requestVars
<1>2. CASE Retire
  BY <1>2 DEF Retire, MayEvict, TInv, TypeOK, ReadIsEnough, TurnIsRecorded, diskVars, requestVars
<1>3. CASE StartTurn \/ EndTurn
  BY <1>3, TurnTypes
<1>4. CASE Compress
  BY <1>0, <1>4 DEF Compress, TInv, TypeOK, ReadIsEnough, TurnIsRecorded, instanceVars, requestVars
<1>5. CASE Workers
  BY <1>0, <1>5 DEF Workers, TInv, TypeOK, ReadIsEnough, TurnIsRecorded, diskVars, requestVars
<1>6. CASE Clear
  <2>1. edition + 1 \in 0..MaxEditions
    BY <1>0, <1>6 DEF Clear, ClearsLog
  <2>2. turn = 0 /\ UNCHANGED <<turn, said, pinned, requestVars, crossed, backup>>
        /\ descriptor' = "path" /\ mirror' = <<>> /\ view' = edition + 1 /\ edition' = edition + 1
        /\ rolled' = <<>> /\ log' = <<>> /\ unfinished' = FALSE /\ sidecar' = None
    BY <1>6 DEF Clear, ClearsLog
  <2> QED  BY <1>0, <2>1, <2>2 DEF TInv, TypeOK, ReadIsEnough, TurnIsRecorded, requestVars
<1>7. CASE ClearCutShort
  <2>1. edition + 1 \in 0..MaxEditions
    BY <1>0, <1>7 DEF ClearCutShort, ClearsLog
  <2> QED  BY <1>0, <1>7, <2>1, DeathTypes DEF ClearCutShort, ClearsLog
<1>8. CASE Crash
  BY <1>0, <1>8, DeathTypes DEF Crash, diskVars
<1>9. ASSUME NEW c \in Requests,
             Compact(c) \/ Evicted(c) \/ RewriteFails(c) \/ RewriteStops(c) \/ RewriteEnds(c)
      PROVE  TInv'
  <2>1. CASE Compact(c)
    BY <2>1, CompactTypes
  <2>2. CASE Evicted(c)
    BY <2>2, EvictedTypes
  <2>3. CASE RewriteFails(c)
    BY <2>3, RewriteFailsTypes
  <2>4. CASE RewriteStops(c)
    <3>1. pc[c] = "summing" /\ Replaces(c, Rewritten(c)) /\ (Rebinds(c) \/ Outlives)
          /\ sidecar' \in {sidecar, None} /\ unfinished' \in BOOLEAN
          /\ UNCHANGED <<rolled, crossed>>
      BY <2>4 DEF RewriteStops, Replaces
    <3> QED  BY <3>1, RewrittenIsRows, RewriteTypes
  <2>5. CASE RewriteEnds(c)
    <3>1. pc[c] = "summing" /\ Replaces(c, Append(Rewritten(c), Mark("end"))) /\ Rebinds(c)
          /\ sidecar' \in {sidecar, None} /\ unfinished' \in BOOLEAN
          /\ UNCHANGED <<rolled, crossed>>
      BY <2>5 DEF RewriteEnds, Replaces
    <3> QED  BY <3>1, RewrittenIsRows, RewriteTypes
  <2> QED  BY <1>9, <2>1, <2>2, <2>3, <2>4, <2>5
<1>10. CASE UNCHANGED vars
  BY <1>10 DEF vars, diskVars, instanceVars, requestVars, TInv, TypeOK, ReadIsEnough, TurnIsRecorded
<1> QED
  BY <1>1, <1>2, <1>3, <1>4, <1>5, <1>6, <1>7, <1>8, <1>9, <1>10 DEF Next

(* Every variable of the log, of its instance and of the compactions has   *)
(* its type, whatever the plan makes of the rows it is given.              *)
THEOREM TypesAlwaysOK == Spec => []TypeOK
<1>1. TInv => TypeOK
  BY DEF TInv
<1> QED  BY <1>1, InitTypes, NextTypes, PTL DEF Spec

-----------------------------------------------------------------------------
(* The log, its mirror, its numbers and its sidecar.                       *)

(* The mirror has the numbering of the log, unless something met.          *)
ViewFits == descriptor # "none" /\ ~crossed => view = edition

(* The sidecar fits, or a rewrite was left without its end.                *)
SidecarFitsOrTold == sidecar \in {None, edition} \/ unfinished \/ crossed

(* The id of the next turn is above those of the log it goes to.           *)
NextIsNew ==
  descriptor = "path" /\ rolled = <<>> =>
    \A i \in DOMAIN log : log[i].kind = "open" => log[i].id < NextId(mirror)

LogInv ==
  /\ MirrorIsLog /\ ViewFits
  /\ UnfinishedIsVisible /\ SidecarFitsOrTold
  /\ IdsGrow /\ NextIsNew

LEMMA InitLog == Init => LogInv
<1> SUFFICES ASSUME Init PROVE LogInv
  OBVIOUS
<1> DEFINE ts == [t \in 1..Initial |-> t]
<1>1. ts \in Seq(0..MaxTurns)
  <2>1. Initial \in Nat /\ MaxTurns \in Nat /\ Initial <= MaxTurns
    BY CompactionAssumption
  <2>2. ts \in [1..Initial -> 0..MaxTurns]
    BY <2>1
  <2> QED  BY <2>1, <2>2, AFunctionIsASeq
<1>2. log = Turns(ts, 0) /\ rolled = <<>>
  BY DEF Init
<1> HIDE DEF ts
<1>3. /\ log \in Seq(Rows)
      /\ \A i \in DOMAIN log :
           IsBoundary(log[i]) /\ (log[i].kind = "open" => 2 * log[i].id = 2 * (0 - 1) + i + 1)
  BY <1>1, <1>2, TurnsAreRows
<1>4. DOMAIN log = 1..Len(log) /\ Len(log) \in Nat /\ \A i \in DOMAIN log : log[i] \in Rows
  BY <1>3, LenProperties
<1>5. IdsGrow
  <2> SUFFICES ASSUME NEW i \in DOMAIN log, NEW j \in DOMAIN log, i < j,
                      log[i].kind = "open", log[j].kind = "open"
               PROVE  log[i].id < log[j].id
    BY DEF IdsGrow
  <2>1. log[i].id \in Nat /\ log[j].id \in Nat /\ i \in Nat /\ j \in Nat
    BY <1>4 DEF Rows
  <2>2. 2 * log[i].id = 2 * (0 - 1) + i + 1 /\ 2 * log[j].id = 2 * (0 - 1) + j + 1
    BY <1>3
  <2> QED  BY <2>1, <2>2
<1>6. UnfinishedIsVisible
  <2>1. Stream = log
    BY <1>2, <1>3, ConcatEmptySeq DEF Stream
  <2>2. ~IsUnpaired(log)
    BY <1>3 DEF IsUnpaired, IsBoundary
  <2> QED  BY <2>1, <2>2 DEF UnfinishedIsVisible, Init
<1>7. MirrorIsLog /\ ViewFits /\ SidecarFitsOrTold /\ NextIsNew
  BY DEF Init, MirrorIsLog, ViewFits, SidecarFitsOrTold, NextIsNew
<1> QED  BY <1>5, <1>6, <1>7 DEF LogInv

(* A step that leaves the rows of the log as they are.                     *)
LEMMA SameRows ==
  ASSUME TInv, LogInv, UNCHANGED <<rolled, log, edition, unfinished>>,
         crossed' \in {crossed, TRUE},
         \/ descriptor' = "none"
         \/ descriptor' = descriptor /\ mirror' = mirror /\ view' = view
         \/ descriptor' = "path" /\ mirror' = Stream /\ view' = edition,
         sidecar' \in {sidecar, None} \/ (descriptor # "none" /\ sidecar' = view)
  PROVE  LogInv'
<1>1. Stream' = Stream
  BY DEF Stream
<1>2. UnfinishedIsVisible'
  BY <1>1 DEF LogInv, UnfinishedIsVisible, IsUnpaired
<1>3. IdsGrow'
  BY DEF LogInv, IdsGrow
<1>4. MirrorIsLog'
  BY <1>1 DEF LogInv, MirrorIsLog, RemoveAt
<1>5. ViewFits'
  BY DEF LogInv, ViewFits
<1>6. SidecarFitsOrTold'
  BY DEF LogInv, ViewFits, SidecarFitsOrTold
<1>7. NextIsNew'
  <2>1. CASE UNCHANGED <<descriptor, mirror, view>>
    BY <2>1 DEF LogInv, NextIsNew, NextId
  <2>2. CASE descriptor' = "path" /\ mirror' = Stream
    <3> SUFFICES ASSUME rolled = <<>>, NEW i \in DOMAIN log, log[i].kind = "open"
                 PROVE  log[i].id < NextId(log)
      <4>1. log \in Seq(Rows)
        BY TypesOfRows DEF TInv
      <4>2. rolled = <<>> => mirror' = log
        BY <2>2, <4>1, ConcatEmptySeq DEF Stream
      <4> QED  BY <4>2 DEF NextIsNew
    <3> QED  BY TypesOfRows, NextIdIsAbove DEF TInv, IsBoundary
  <2> QED  BY <2>1, <2>2 DEF NextIsNew
<1> QED  BY <1>2, <1>3, <1>4, <1>5, <1>6, <1>7 DEF LogInv

(* A turn starts or ends.                                                  *)
LEMMA TurnLog ==
  ASSUME TInv, IInv, LogInv, NEW x \in Rows, IsBoundary(x), Appends(x),
         x.kind = "open" => x.id = NextId(mirror),
         descriptor # "none", UNCHANGED <<unfinished, crossed>>
  PROVE  LogInv'
<1>1. /\ rolled \in Seq(Rows) /\ log \in Seq(Rows) /\ mirror \in Seq(Rows) /\ Stream \in Seq(Rows)
      /\ Append(log, x) \in Seq(Rows) /\ Append(mirror, x) \in Seq(Rows)
      /\ descriptor \in {"none", "path", "adrift"}
  BY TypesOfRows, AppendedRows DEF TInv, TypeOK
<1>2. mirror' = Append(mirror, x) /\ UNCHANGED <<edition, sidecar, view>>
  BY DEF Appends
<1>3. \/ descriptor = "adrift" /\ UNCHANGED <<rolled, log, descriptor>>
      \/ descriptor = "path" /\ log' = Append(log, x) /\ UNCHANGED <<rolled, descriptor>>
      \/ rolled = <<>> /\ log # <<>> /\ rolled' = log /\ log' = <<x>> /\ descriptor' = "path"
  BY <1>1 DEF Appends
<1>4. \/ descriptor = "adrift" /\ Stream' = Stream
      \/ Stream' = Append(Stream, x)
  <2>1. CASE descriptor = "adrift" /\ UNCHANGED <<rolled, log, descriptor>>
    BY <2>1 DEF Stream
  <2>2. CASE descriptor = "path" /\ log' = Append(log, x) /\ UNCHANGED <<rolled, descriptor>>
    BY <1>1, <2>2, AppendAfterBoth DEF Stream
  <2>3. CASE rolled = <<>> /\ log # <<>> /\ rolled' = log /\ log' = <<x>> /\ descriptor' = "path"
    <3>1. Stream = log /\ Stream' = log \o <<x>>
      BY <1>1, <2>3, ConcatEmptySeq DEF Stream
    <3> QED  BY <1>1, <3>1, AppendIsConcat
  <2> QED  BY <1>3, <2>1, <2>2, <2>3
<1>5. MirrorIsLog'
  <2> SUFFICES ASSUME ~crossed
               PROVE  \/ mirror' = Stream'
                      \/ \E i \in DOMAIN Stream' :
                           Stream'[i].kind = "end" /\ mirror' = RemoveAt(Stream', i)
    BY DEF MirrorIsLog, RemoveAt
  <2>1. Stream' = Append(Stream, x)
    BY <1>4 DEF IInv, AdriftOnlyAfterMeeting
  <2>2. CASE mirror = Stream
    BY <1>2, <2>1, <2>2
  <2>3. ASSUME NEW i \in DOMAIN Stream, Stream[i].kind = "end", mirror = RemoveAt(Stream, i)
        PROVE  /\ i \in DOMAIN Stream' /\ Stream'[i].kind = "end"
               /\ mirror' = RemoveAt(Stream', i)
    <3>1. mirror' = RemoveAt(Append(Stream, x), i)
      BY <1>1, <1>2, <2>3, RemoveThenAppend
    <3>2. i \in DOMAIN Append(Stream, x) /\ Append(Stream, x)[i] = Stream[i]
      BY <1>1, AppendedRows
    <3> QED  BY <2>1, <2>3, <3>1, <3>2
  <2> QED  BY <2>2, <2>3 DEF LogInv, MirrorIsLog
<1>6. UnfinishedIsVisible'
  <2>1. IsUnpaired(Stream') <=> IsUnpaired(Stream)
    BY <1>1, <1>4, BoundaryIsNoMarker
  <2> QED  BY <2>1 DEF LogInv, UnfinishedIsVisible, IsUnpaired
<1>7. ViewFits' /\ SidecarFitsOrTold'
  BY <1>2 DEF LogInv, ViewFits, SidecarFitsOrTold
<1>8. rolled' = <<>> =>
        /\ rolled = <<>> /\ UNCHANGED descriptor
        /\ log' = log \/ (descriptor = "path" /\ log' = Append(log, x))
  BY <1>3
<1>9. \A i \in DOMAIN log : log[i].id \in Nat /\ i \in 1..Len(log)
  <2>1. DOMAIN log = 1..Len(log) /\ \A i \in DOMAIN log : log[i] \in Rows
    BY <1>1, LenProperties
  <2> QED  BY <2>1 DEF Rows
<1>10. IdsGrow'
  <2> SUFFICES ASSUME rolled' = <<>>, NEW i \in DOMAIN log', NEW j \in DOMAIN log', i < j,
                      log'[i].kind = "open", log'[j].kind = "open"
               PROVE  log'[i].id < log'[j].id
    BY DEF IdsGrow
  <2>1. CASE log' = log
    BY <1>8, <2>1 DEF LogInv, IdsGrow
  <2>2. CASE descriptor = "path" /\ log' = Append(log, x)
    <3>1. /\ DOMAIN log = 1..Len(log) /\ DOMAIN log' = 1..(Len(log) + 1) /\ Len(log) \in Nat
          /\ \A k \in 1..Len(log) : log'[k] = log[k]
          /\ log'[Len(log) + 1] = x
      BY <1>1, <2>2, AppendedRows
    <3>2. i \in DOMAIN log /\ log'[i] = log[i]
      BY <3>1
    <3>3. CASE j \in DOMAIN log
      BY <1>8, <3>1, <3>2, <3>3 DEF LogInv, IdsGrow
    <3>4. CASE j = Len(log) + 1
      BY <1>8, <2>2, <3>1, <3>2, <3>4 DEF LogInv, NextIsNew
    <3> QED  BY <3>1, <3>3, <3>4
  <2> QED  BY <1>8, <2>1, <2>2
<1>11. NextIsNew'
  <2> SUFFICES ASSUME descriptor' = "path", rolled' = <<>>,
                      NEW i \in DOMAIN log', log'[i].kind = "open"
               PROVE  log'[i].id < NextId(mirror')
    BY DEF NextIsNew, NextId
  <2>1. log' = Append(log, x) /\ descriptor = "path" /\ rolled = <<>>
    BY <1>3, <1>8
  <2>2. /\ DOMAIN log = 1..Len(log) /\ DOMAIN log' = 1..(Len(log) + 1) /\ Len(log) \in Nat
        /\ \A k \in 1..Len(log) : log'[k] = log[k]
        /\ log'[Len(log) + 1] = x
    BY <1>1, <2>1, AppendedRows
  <2>3. /\ NextId(mirror) \in Nat /\ NextId(mirror') \in Nat
        /\ NextId(mirror) <= NextId(mirror')
        /\ x.id < NextId(mirror')
    <3>1. /\ DOMAIN mirror = 1..Len(mirror) /\ DOMAIN mirror' = 1..(Len(mirror) + 1)
          /\ Len(mirror) \in Nat
          /\ \A k \in 1..Len(mirror) : mirror'[k] = mirror[k]
          /\ mirror'[Len(mirror) + 1] = x
      BY <1>1, <1>2, AppendedRows
    <3>2. /\ NextId(mirror) \in Nat /\ NextId(mirror') \in Nat
          /\ \A k \in DOMAIN mirror' : IsBoundary(mirror'[k]) => mirror'[k].id < NextId(mirror')
          /\ \/ NextId(mirror) = 0
             \/ \E k \in DOMAIN mirror : IsBoundary(mirror[k]) /\ NextId(mirror) = mirror[k].id + 1
      BY <1>1, <1>2, NextIdIsAbove
    <3>3. \A k \in DOMAIN mirror : mirror[k].id \in Nat
      <4>1. \A k \in DOMAIN mirror : mirror[k] \in Rows
        BY <1>1, LenProperties
      <4> QED  BY <4>1 DEF Rows
    <3> QED  BY <3>1, <3>2, <3>3
  <2>4. CASE i \in DOMAIN log
    <3>1. log'[i] = log[i] /\ log[i].id < NextId(mirror) /\ log[i].id \in Nat
      BY <1>9, <2>1, <2>2, <2>4 DEF LogInv, NextIsNew
    <3> QED  BY <2>3, <3>1
  <2>5. CASE i = Len(log) + 1
    BY <2>2, <2>3, <2>5
  <2> QED  BY <2>2, <2>4, <2>5
<1> QED  BY <1>5, <1>6, <1>7, <1>10, <1>11 DEF LogInv

(* The log is cleared, whether or not its sidecar goes too.                *)
LEMMA ClearLog ==
  ASSUME TInv, ClearsLog,
         \/ crossed' /\ descriptor' = "none"
         \/ sidecar' = None /\ mirror' = <<>> /\ view' = edition'
  PROVE  LogInv'
<1>1. rolled' = <<>> /\ log' = <<>> /\ unfinished' = FALSE
  BY DEF ClearsLog
<1>2. Stream' = <<>>
  BY <1>1 DEF Stream
<1>3. UnfinishedIsVisible'
  BY <1>1, <1>2 DEF UnfinishedIsVisible, IsUnpaired
<1>4. IdsGrow' /\ NextIsNew'
  BY <1>1 DEF IdsGrow, NextIsNew
<1>5. MirrorIsLog' /\ ViewFits' /\ SidecarFitsOrTold'
  BY <1>2 DEF MirrorIsLog, ViewFits, SidecarFitsOrTold
<1> QED  BY <1>3, <1>4, <1>5 DEF LogInv

(* The rows of a rewrite: a start, then boundaries whose ids grow.         *)
LEMMA RewrittenGrows ==
  ASSUME TInv, NEW c \in Requests, pc[c] = "summing"
  PROVE  /\ IsUnpaired(rolled \o Rewritten(c))
         /\ \A i \in DOMAIN Rewritten(c) :
              Rewritten(c)[i].kind = "open" => 2 * Rewritten(c)[i].id = i
<1> DEFINE p == Plan(read[c])
           s == Mark("start")
<1>1. /\ p \in Seq(Rows) /\ rolled \in Seq(Rows)
      /\ \A i \in DOMAIN p : IsBoundary(p[i]) /\ (p[i].kind = "open" => 2 * p[i].id = i + 1)
  BY TypesOfRows, PlanIsTurns DEF TInv, ReadIsEnough
<1>2. s \in Rows /\ s.kind = "start" /\ Rewritten(c) = <<s>> \o p
  BY MarksAreRows DEF Mark, Row, Rewritten
<1> HIDE DEF p, s
<1>3. IsUnpaired(rolled \o Rewritten(c))
  BY <1>1, <1>2, StartThenBoundaries
<1>4. ASSUME NEW i \in DOMAIN Rewritten(c), Rewritten(c)[i].kind = "open"
      PROVE  2 * Rewritten(c)[i].id = i
  <2>1. /\ <<s>> \in Seq(Rows) /\ Len(<<s>>) = 1 /\ <<s>>[1] = s
        /\ Len(p) \in Nat /\ DOMAIN p = 1..Len(p)
    BY <1>1, <1>2, LenProperties
  <2>2. /\ Rewritten(c) \in Seq(Rows) /\ Len(Rewritten(c)) = 1 + Len(p)
        /\ \A k \in 1..(1 + Len(p)) : Rewritten(c)[k] = IF k <= 1 THEN <<s>>[k] ELSE p[k - 1]
    BY <1>1, <1>2, <2>1, ConcatProperties
  <2>3. i \in 1..(1 + Len(p)) /\ i \in Nat
    BY <2>1, <2>2, LenProperties
  <2>4. i # 1
    BY <1>2, <1>4, <2>1, <2>2, <2>3
  <2>5. i - 1 \in DOMAIN p /\ Rewritten(c)[i] = p[i - 1] /\ i - 1 + 1 = i
    BY <2>1, <2>2, <2>3, <2>4
  <2> QED  BY <1>1, <1>4, <2>5
<1> QED  BY <1>3, <1>4

(* The log is rewritten, with its end or without.                          *)
LEMMA RewriteLog ==
  ASSUME TInv, IInv, NEW c \in Requests, RewriteStops(c) \/ RewriteEnds(c)
  PROVE  LogInv'
<1> DEFINE w == Rewritten(c)
           m == Mark("end")
<1>1. /\ pc[c] = "summing" /\ edition' = edition + 1 /\ UNCHANGED <<rolled, crossed>>
      /\ \/ log' = w /\ unfinished' = TRUE
         \/ log' = Append(w, m) /\ unfinished' = FALSE /\ sidecar' = None
      /\ Rebinds(c) \/ Outlives
  BY DEF RewriteStops, RewriteEnds, Replaces
<1>2. /\ w \in Seq(Rows) /\ Append(w, m) \in Seq(Rows) /\ rolled \o w \in Seq(Rows)
      /\ m \in Rows /\ m.kind = "end" /\ rolled \in Seq(Rows)
  BY <1>1, RewrittenIsRows, MarksAreRows, TypesOfRows DEF Mark, Row, TInv
<1>3. /\ IsUnpaired(rolled \o w)
      /\ \A i \in DOMAIN w : w[i].kind = "open" => 2 * w[i].id = i
  BY <1>1, RewrittenGrows
<1>4. \/ descriptor' = "path" /\ mirror' = rolled \o w /\ view' = edition'
      \/ descriptor' = "none"
      \/ descriptor # "none" /\ descriptor' = "adrift"
  BY <1>1 DEF Rebinds, OpensOn, Outlives
<1>5. ~crossed => descriptor = "none"
  BY <1>1 DEF IInv, Alone
<1> HIDE DEF w, m
<1>6. \/ log' = w /\ Stream' = rolled \o w
      \/ log' = Append(w, m) /\ Stream' = Append(rolled \o w, m)
  <2>1. rolled \o Append(w, m) = Append(rolled \o w, m)
    BY <1>2, AppendAfterBoth
  <2>2. Stream' = rolled \o log'
    BY <1>1 DEF Stream
  <2>3. log' = w \/ log' = Append(w, m)
    BY <1>1
  <2> QED  BY <2>1, <2>2, <2>3
<1>7. /\ \A i \in DOMAIN log' : i \in Nat
      /\ \A i \in DOMAIN log' : log'[i].kind = "open" =>
           i \in DOMAIN w /\ log'[i] = w[i] /\ w[i].id \in Nat /\ 2 * log'[i].id = i
  <2>1. DOMAIN w = 1..Len(w) /\ Len(w) \in Nat /\ \A i \in DOMAIN w : w[i].id \in Nat
    <3>1. DOMAIN w = 1..Len(w) /\ Len(w) \in Nat /\ \A i \in DOMAIN w : w[i] \in Rows
      BY <1>2, LenProperties
    <3> QED  BY <3>1 DEF Rows
  <2>2. CASE log' = w
    BY <1>3, <2>1, <2>2
  <2>3. CASE log' = Append(w, m)
    <3>1. /\ DOMAIN log' = 1..(Len(w) + 1)
          /\ \A i \in 1..Len(w) : log'[i] = w[i]
          /\ log'[Len(w) + 1] = m
      BY <1>2, <2>3, AppendedRows
    <3> QED  BY <1>2, <1>3, <2>1, <3>1
  <2> QED  BY <1>1, <2>2, <2>3
<1>8. IdsGrow'
  <2> SUFFICES ASSUME NEW i \in DOMAIN log', NEW j \in DOMAIN log', i < j,
                      log'[i].kind = "open", log'[j].kind = "open"
               PROVE  log'[i].id < log'[j].id
    BY DEF IdsGrow
  <2> QED  BY <1>7
<1>9. NextIsNew'
  <2> SUFFICES ASSUME descriptor' = "path", rolled' = <<>>,
                      NEW i \in DOMAIN log', log'[i].kind = "open"
               PROVE  log'[i].id < NextId(mirror')
    BY DEF NextIsNew, NextId
  <2>1. mirror' = w
    BY <1>1, <1>2, <1>4, ConcatEmptySeq
  <2>2. i \in DOMAIN w /\ log'[i] = w[i] /\ IsBoundary(w[i])
    BY <1>7 DEF IsBoundary
  <2> QED  BY <1>2, <2>1, <2>2, NextIdIsAbove
<1>10. UnfinishedIsVisible'
  <2>1. CASE log' = w /\ Stream' = rolled \o w /\ unfinished' = TRUE
    BY <1>3, <2>1 DEF UnfinishedIsVisible, IsUnpaired
  <2>2. CASE Stream' = Append(rolled \o w, m) /\ unfinished' = FALSE
    <3>1. ~IsUnpaired(Append(rolled \o w, m))
      BY <1>2, EndPairs
    <3> QED  BY <2>2, <3>1 DEF UnfinishedIsVisible, IsUnpaired
  <2>3. w # Append(w, m)
    BY <1>2, AppendedRows
  <2> QED  BY <1>1, <1>6, <2>1, <2>2, <2>3
<1>11. MirrorIsLog'
  <2> SUFFICES ASSUME ~crossed, mirror' = rolled \o w
               PROVE  \/ mirror' = Stream'
                      \/ \E i \in DOMAIN Stream' :
                           Stream'[i].kind = "end" /\ mirror' = RemoveAt(Stream', i)
    BY <1>1, <1>4, <1>5 DEF MirrorIsLog, RemoveAt
  <2>1. CASE Stream' = rolled \o w
    BY <2>1
  <2>2. CASE Stream' = Append(rolled \o w, m)
    <3> DEFINE i == Len(rolled \o w) + 1
    <3>1. i \in DOMAIN Stream' /\ Stream'[i] = m
      BY <1>2, <2>2, AppendedRows
    <3>2. RemoveAt(Stream', i) = rolled \o w
      BY <1>2, <2>2, RemoveLast
    <3> QED  BY <1>2, <3>1, <3>2
  <2> QED  BY <1>6, <2>1, <2>2
<1>12. ViewFits' /\ SidecarFitsOrTold'
  BY <1>1, <1>4, <1>5 DEF ViewFits, SidecarFitsOrTold
<1> QED  BY <1>8, <1>9, <1>10, <1>11, <1>12 DEF LogInv

LEMMA NextLog == TInv /\ IInv /\ LogInv /\ [Next]_vars => LogInv'
<1> SUFFICES ASSUME TInv, IInv, LogInv, [Next]_vars PROVE LogInv'
  OBVIOUS
<1>0. crossed \in BOOLEAN
  BY DEF TInv, TypeOK
<1>1. CASE Open
  <2>1. /\ UNCHANGED <<rolled, log, edition, unfinished>> /\ sidecar' = sidecar
        /\ crossed' \in {crossed, TRUE}
        /\ descriptor' = "path" /\ mirror' = Stream /\ view' = edition
    BY <1>0, <1>1 DEF Open, OpensOn, diskVars
  <2> QED  BY <2>1, SameRows
<1>2. CASE Retire \/ Compress \/ Workers
  <2>1. /\ UNCHANGED <<rolled, log, edition, unfinished>> /\ crossed' \in {crossed, TRUE}
        /\ \/ descriptor' = "none"
           \/ descriptor' = descriptor /\ mirror' = mirror /\ view' = view
        /\ sidecar' \in {sidecar, None} \/ (descriptor # "none" /\ sidecar' = view)
    BY <1>2 DEF Retire, Compress, Workers, diskVars, instanceVars, IInv, WorkHasAnInstance
  <2> QED  BY <2>1, SameRows
<1>3. CASE StartTurn \/ EndTurn
  BY <1>3, TurnTypes, TurnLog
<1>4. CASE Clear \/ ClearCutShort
  <2>1. CASE Clear
    BY <2>1, ClearLog DEF Clear, ClearsLog
  <2>2. CASE ClearCutShort
    BY <2>2, ClearLog DEF ClearCutShort, Dies
  <2> QED  BY <1>4, <2>1, <2>2
<1>5. CASE Crash
  <2>1. /\ UNCHANGED <<rolled, log, edition, unfinished, sidecar>>
        /\ crossed' \in {crossed, TRUE} /\ descriptor' = "none"
    BY <1>5 DEF Crash, Dies, diskVars
  <2> QED  BY <2>1, SameRows
<1>6. ASSUME NEW c \in Requests, Compact(c) \/ Evicted(c) \/ RewriteFails(c)
      PROVE  LogInv'
  <2>1. /\ UNCHANGED <<rolled, log, edition, unfinished, sidecar>>
        /\ crossed' \in {crossed, TRUE}
        /\ \/ descriptor' = "none"
           \/ descriptor' = descriptor /\ mirror' = mirror /\ view' = view
           \/ descriptor' = "path" /\ mirror' = Stream /\ view' = edition
    BY <1>0, <1>6 DEF Compact, Evicted, RewriteFails, OpensOn, diskVars, instanceVars
  <2> QED  BY <2>1, SameRows
<1>7. ASSUME NEW c \in Requests, RewriteStops(c) \/ RewriteEnds(c)
      PROVE  LogInv'
  BY <1>7, RewriteLog
<1>8. CASE UNCHANGED vars
  <2>1. /\ UNCHANGED <<rolled, log, edition, unfinished, crossed, sidecar>>
        /\ descriptor' = descriptor /\ mirror' = mirror /\ view' = view
    BY <1>8 DEF vars, diskVars, instanceVars
  <2> QED  BY <2>1, SameRows
<1> QED
  BY <1>1, <1>2, <1>3, <1>4, <1>5, <1>6, <1>7, <1>8 DEF Next

(* The three invariants hold together.                                     *)
LEMMA AllAlways == Spec => [](TInv /\ IInv /\ LogInv)
<1>1. Init => TInv /\ IInv /\ LogInv
  BY InitTypes, InitInvariant, InitLog
<1>2. TInv /\ IInv /\ LogInv /\ [Next]_vars => (TInv /\ IInv /\ LogInv)'
  BY NextTypes, NextInvariant, NextLog
<1> QED  BY <1>1, <1>2, PTL DEF Spec

(* What the session has in memory is what a restart would replay, but for  *)
(* an end marker: nothing short of a meeting leaves an instance with other *)
(* rows than the log's, for any number of turns, rewrites and crashes.     *)
THEOREM MirrorIsAlwaysLog == Spec => []MirrorIsLog
<1>1. LogInv => MirrorIsLog
  BY DEF LogInv
<1> QED  BY <1>1, AllAlways, PTL

(* The markers on disk always tell an unfinished rewrite from a finished   *)
(* one: no later turn, rolled segment, clear or crash confuses them.       *)
THEOREM UnfinishedIsAlwaysVisible == Spec => []UnfinishedIsVisible
<1>1. LogInv => UnfinishedIsVisible
  BY DEF LogInv
<1> QED  BY <1>1, AllAlways, PTL

(* Intervals of another numbering are never applied to a log that looks    *)
(* finished, unless something met a compaction.                            *)
THEOREM SidecarAlwaysFits == Spec => []SidecarFits
<1>1. LogInv => SidecarFits
  BY DEF LogInv, SidecarFits, SidecarFitsOrTold, UnfinishedIsVisible
<1> QED  BY <1>1, AllAlways, PTL

(* No two turns of a log that was not rolled have the same id: neither the *)
(* renumbering of a plan nor the turns after it repeat one.                *)
THEOREM IdsAlwaysGrow == Spec => []IdsGrow
<1>1. LogInv => IdsGrow
  BY DEF LogInv
<1> QED  BY <1>1, AllAlways, PTL

=============================================================================
