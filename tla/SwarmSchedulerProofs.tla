------------------------ MODULE SwarmSchedulerProofs ------------------------
(***************************************************************************)
(* Proofs about SwarmScheduler, for any number of members and any limits.  *)
(* Every handler is an edit of the batch followed by schedule(), which     *)
(* launches some of the queued members (Launches) and leaves a timer for   *)
(* the others (Awake).  What the operators do to a batch is proved first,  *)
(* then what the handlers do with them.                                    *)
(***************************************************************************)
EXTENDS SwarmScheduler, NumberFacts, SequenceTheorems

Elems(s) == {s[i] : i \in 1..Len(s)}

Distinct(s) == \A i, j \in 1..Len(s) : s[i] = s[j] => i = j

(* A batch that is not over: each member in one place, the cap kept.       *)
Placed(b) ==
  /\ Distinct(b.pending)
  /\ Queue(b) \cap b.active = {}
  /\ \A m \in Members : b.result[m] = Unsettled <=> m \in Queue(b) \cup b.active
  /\ Cardinality(b.active) <= MaxConcurrency

Sound(b) ==
  IF b.finished THEN IsComplete(b) /\ b.active = {} /\ b.launchAt = NoTimer
  ELSE Placed(b)

(* Somebody is left, and something will move the queue.                    *)
Awake(b) ==
  ~b.finished =>
    /\ ~IsComplete(b)
    /\ b.pending # <<>> =>
         IF b.limited THEN b.wake # NoTimer
         ELSE b.launchAt # NoTimer \/ AtConcurrencyLimit(b)

(* c is b with the queued members L in flight.                             *)
Launches(b, c, L) ==
  /\ c \in Batches
  /\ L \subseteq Queue(b)
  /\ c.active = b.active \cup L
  /\ Queue(c) = Queue(b) \ L /\ Distinct(c.pending)
  /\ Cardinality(c.active) <= MaxConcurrency
  /\ c.result = b.result /\ c.finished = b.finished /\ c.limited = b.limited

(* ... as the gate wants them.                                             *)
Spaced(b, c, L) ==
  b.limited /\ L # {} =>
    /\ Cardinality(L) = 1
    /\ \A m \in L : b.readyAt[m] <= now
    /\ b.nextLaunch <= now \/ c.lastRecovery = now

IInv ==
  /\ TypeOK
  /\ Sound(batch)
  /\ IF turn = "none" THEN batch = Idle ELSE Awake(batch)
  /\ ~batch.finished => Queue(batch) \cap touched = {}

-----------------------------------------------------------------------------
(* Numbers, sequences and sets                                             *)

LEMMA MembersAreFinite ==
  ASSUME NEW S \in SUBSET Members
  PROVE  IsFiniteSet(S) /\ Cardinality(S) \in Nat
<1>1. IsFiniteSet(Members)
  BY SwarmAssumption, FS_Interval DEF Members
<1> QED
  BY <1>1, FS_Subset, FS_CardinalityType

LEMMA DistinctCount ==
  ASSUME NEW s \in Seq(Members), Distinct(s)
  PROVE  Cardinality(Elems(s)) = Len(s)
<1>1. Len(s) \in Nat /\ s \in [1..Len(s) -> Members]
  BY LenProperties
<1>2. s \in Bijection(1..Len(s), Elems(s))
  BY <1>1 DEF Bijection, Injection, Surjection, IsInjective, Elems, Distinct
<1>3. ExistsBijection(1..Len(s), Elems(s))
  BY <1>2 DEF ExistsBijection
<1> QED
  BY <1>1, <1>3, FS_CountingElements

(* The first k elements go.                                                *)
LEMMA DropFirst ==
  ASSUME NEW s \in Seq(Members), Distinct(s), NEW k \in 0..Len(s)
  PROVE  LET t == SubSeq(s, k + 1, Len(s))
             L == {s[i] : i \in 1..k}
         IN  /\ t \in Seq(Members) /\ Distinct(t)
             /\ L \subseteq Elems(s) /\ Elems(t) = Elems(s) \ L
             /\ IsFiniteSet(L) /\ Cardinality(L) <= k
<1> DEFINE t == SubSeq(s, k + 1, Len(s))
           L == {s[i] : i \in 1..k}
<1>1. Len(s) \in Nat /\ k \in Nat /\ k <= Len(s) /\ \A i \in 1..Len(s) : s[i] \in Members
  BY LenProperties, ElementOfSeq
<1>2. /\ t \in Seq(Members) /\ Len(t) = Len(s) - k
      /\ \A i \in 1..(Len(s) - k) : t[i] = s[k + i]
  <2>1. /\ t \in Seq(Members)
        /\ Len(t) = IF k + 1 <= Len(s) THEN Len(s) - (k + 1) + 1 ELSE 0
        /\ \A i \in 1..(Len(s) - (k + 1) + 1) : t[i] = s[(k + 1) + i - 1]
    <3>1. \A i \in (k + 1)..Len(s) : s[i] \in Members
      BY <1>1
    <3>2. k + 1 \in Int /\ Len(s) \in Int
      BY <1>1
    <3> HIDE DEF t
    <3> QED
      BY <3>1, <3>2, SubSeqProperties DEF t
  <2>2. \A i \in 1..(Len(s) - k) : i \in 1..(Len(s) - (k + 1) + 1) /\ (k + 1) + i - 1 = k + i
    BY <1>1
  <2> HIDE DEF t
  <2> QED
    BY <1>1, <2>1, <2>2
<1>3. Elems(t) = Elems(s) \ L
  <2> HIDE DEF t
  <2>1. ASSUME NEW x \in Elems(t) PROVE x \in Elems(s) \ L
    <3>1. PICK i \in 1..(Len(s) - k) : x = s[k + i]
      BY <1>2 DEF Elems
    <3>2. k + i \in 1..Len(s) /\ k + i \notin 1..k /\ 1..k \subseteq 1..Len(s)
      BY <1>1
    <3>3. \A j \in 1..k : s[j] # s[k + i]
      BY <3>2 DEF Distinct
    <3>4. x \in Elems(s)
      BY <3>1, <3>2 DEF Elems
    <3> QED
      BY <3>1, <3>3, <3>4
  <2>2. ASSUME NEW x \in Elems(s) \ L PROVE x \in Elems(t)
    <3>1. PICK i \in 1..Len(s) : x = s[i]
      BY DEF Elems
    <3>2. i \notin 1..k
      BY <3>1
    <3>3. i - k \in 1..Len(t) /\ t[i - k] = s[k + (i - k)] /\ k + (i - k) = i
      BY <1>1, <1>2, <3>2
    <3> QED
      BY <3>1, <3>3 DEF Elems
  <2> QED
    BY <2>1, <2>2
<1>4. Distinct(t)
  <2> HIDE DEF t
  <2> SUFFICES ASSUME NEW i \in 1..Len(t), NEW j \in 1..Len(t), t[i] = t[j] PROVE i = j
    BY DEF Distinct
  <2>1. s[k + i] = s[k + j] /\ k + i \in 1..Len(s) /\ k + j \in 1..Len(s)
    BY <1>1, <1>2
  <2> QED
    BY <1>1, <2>1 DEF Distinct
<1>5. L \subseteq Elems(s)
  BY <1>1 DEF Elems
<1>6. IsFiniteSet(L) /\ Cardinality(L) <= k
  <2>1. [i \in 1..k |-> s[i]] \in Surjection(1..k, L)
    BY DEF Surjection
  <2>2. ExistsSurjection(1..k, L)
    BY <2>1 DEF ExistsSurjection
  <2> QED
    BY <1>1, <2>2, FS_NatSurjection, FS_SurjCardinalityBound
<1> QED
  BY <1>2, <1>3, <1>4, <1>5, <1>6

(* The k-th element goes.                                                  *)
LEMMA DropOne ==
  ASSUME NEW s \in Seq(Members), Distinct(s), NEW k \in 1..Len(s)
  PROVE  LET t == SubSeq(s, 1, k - 1) \o SubSeq(s, k + 1, Len(s))
         IN  t \in Seq(Members) /\ Distinct(t) /\ Elems(t) = Elems(s) \ {s[k]}
<1> DEFINE u == SubSeq(s, 1, k - 1)
           v == SubSeq(s, k + 1, Len(s))
           t == u \o v
<1>1. Len(s) \in Nat /\ k \in Nat /\ 1 <= k /\ k <= Len(s) /\ \A i \in 1..Len(s) : s[i] \in Members
  BY LenProperties, ElementOfSeq
<1>2. /\ u \in Seq(Members) /\ Len(u) = k - 1
      /\ \A i \in 1..(k - 1) : u[i] = s[i]
  <2>1. \A i \in 1..(k - 1) : s[i] \in Members
    BY <1>1
  <2>2. 1 \in Int /\ k - 1 \in Int
    BY <1>1
  <2>3. /\ u \in Seq(Members)
        /\ Len(u) = IF 1 <= k - 1 THEN (k - 1) - 1 + 1 ELSE 0
        /\ \A i \in 1..((k - 1) - 1 + 1) : u[i] = s[1 + i - 1]
    <3> HIDE DEF u
    <3> QED
      BY <2>1, <2>2, SubSeqProperties DEF u
  <2>4. \A i \in 1..(k - 1) : i \in 1..((k - 1) - 1 + 1) /\ 1 + i - 1 = i
    BY <1>1
  <2> HIDE DEF u
  <2> QED
    BY <1>1, <2>3, <2>4
<1>3. /\ v \in Seq(Members) /\ Len(v) = Len(s) - k
      /\ \A i \in 1..(Len(s) - k) : v[i] = s[k + i]
  <2>1. \A i \in (k + 1)..Len(s) : s[i] \in Members
    BY <1>1
  <2>2. k + 1 \in Int /\ Len(s) \in Int
    BY <1>1
  <2>3. /\ v \in Seq(Members)
        /\ Len(v) = IF k + 1 <= Len(s) THEN Len(s) - (k + 1) + 1 ELSE 0
        /\ \A i \in 1..(Len(s) - (k + 1) + 1) : v[i] = s[(k + 1) + i - 1]
    <3> HIDE DEF v
    <3> QED
      BY <2>1, <2>2, SubSeqProperties DEF v
  <2>4. \A i \in 1..(Len(s) - k) : i \in 1..(Len(s) - (k + 1) + 1) /\ (k + 1) + i - 1 = k + i
    BY <1>1
  <2> HIDE DEF v
  <2> QED
    BY <1>1, <2>3, <2>4
<1> HIDE DEF u, v
<1>4. /\ t \in Seq(Members) /\ Len(t) = Len(s) - 1
      /\ \A i \in 1..(Len(s) - 1) : t[i] = IF i < k THEN s[i] ELSE s[i + 1]
  <2>1. /\ t \in Seq(Members) /\ Len(t) = Len(u) + Len(v)
        /\ \A i \in 1..(Len(u) + Len(v)) : t[i] = IF i <= Len(u) THEN u[i] ELSE v[i - Len(u)]
    BY <1>2, <1>3, ConcatProperties
  <2> HIDE DEF t
  <2>2. ASSUME NEW i \in 1..(Len(s) - 1) PROVE t[i] = IF i < k THEN s[i] ELSE s[i + 1]
    <3>1. CASE i < k
      BY <1>1, <1>2, <1>3, <2>1, <3>1
    <3>2. CASE ~(i < k)
      <4>1. i - (k - 1) \in 1..(Len(s) - k) /\ k + (i - (k - 1)) = i + 1
        BY <1>1, <3>2
      <4> QED
        <5>1. t[i] = v[i - (k - 1)]
          <6>1. i \in 1..(Len(u) + Len(v)) /\ ~(i <= Len(u)) /\ Len(u) = k - 1
            BY <1>1, <1>2, <1>3, <3>2
          <6>2. t[i] = v[i - Len(u)]
            BY <2>1, <6>1
          <6> QED
            BY <6>1, <6>2
        <5>2. v[i - (k - 1)] = s[i + 1]
          BY <1>3, <4>1
        <5> QED
          BY <3>2, <5>1, <5>2
    <3> QED
      BY <3>1, <3>2
  <2> QED
    BY <1>1, <1>2, <1>3, <2>1, <2>2
<1> HIDE DEF t
<1>5. Distinct(t)
  <2> SUFFICES ASSUME NEW i \in 1..Len(t), NEW j \in 1..Len(t), t[i] = t[j] PROVE i = j
    BY DEF Distinct
  <2> DEFINE at(n) == IF n < k THEN n ELSE n + 1
  <2>1. at(i) \in 1..Len(s) /\ at(j) \in 1..Len(s) /\ s[at(i)] = s[at(j)]
    BY <1>1, <1>4
  <2>2. at(i) = at(j)
    BY <2>1 DEF Distinct
  <2> QED
    BY <1>1, <2>2
<1>6. Elems(t) = Elems(s) \ {s[k]}
  <2>1. ASSUME NEW x \in Elems(t) PROVE x \in Elems(s) \ {s[k]}
    <3>1. PICK i \in 1..(Len(s) - 1) : x = t[i]
      BY <1>4 DEF Elems
    <3>2. PICK j \in 1..Len(s) : x = s[j] /\ j # k
      <4>1. CASE i < k
        BY <1>1, <1>4, <3>1, <4>1
      <4>2. CASE ~(i < k)
        BY <1>1, <1>4, <3>1, <4>2
      <4> QED
        BY <4>1, <4>2
    <3> QED
      BY <3>2 DEF Elems, Distinct
  <2>2. ASSUME NEW x \in Elems(s) \ {s[k]} PROVE x \in Elems(t)
    <3>1. PICK j \in 1..Len(s) : x = s[j]
      BY DEF Elems
    <3>2. j # k
      BY <3>1
    <3>3. PICK i \in 1..(Len(s) - 1) : t[i] = x
      <4>1. CASE j < k
        BY <1>1, <1>4, <3>1, <4>1
      <4>2. CASE ~(j < k)
        <5>1. j - 1 \in 1..(Len(s) - 1) /\ ~(j - 1 < k) /\ (j - 1) + 1 = j
          BY <1>1, <3>2, <4>2
        <5> QED
          BY <1>4, <3>1, <5>1
      <4> QED
        BY <4>1, <4>2
    <3> QED
      BY <1>4, <3>3 DEF Elems
  <2> QED
    BY <2>1, <2>2
<1> QED
  BY <1>4, <1>5, <1>6 DEF t, u, v

(* A new element comes first.                                              *)
LEMMA PutFirst ==
  ASSUME NEW s \in Seq(Members), Distinct(s), NEW m \in Members, m \notin Elems(s)
  PROVE  LET t == <<m>> \o s
         IN  t \in Seq(Members) /\ Distinct(t) /\ Elems(t) = Elems(s) \cup {m} /\ t # <<>>
<1> DEFINE t == <<m>> \o s
<1>1. <<m>> \in Seq(Members) /\ Len(<<m>>) = 1 /\ <<m>>[1] = m
  OBVIOUS
<1>2. Len(s) \in Nat
  BY LenProperties
<1>3. /\ t \in Seq(Members) /\ Len(t) = 1 + Len(s)
      /\ \A i \in 1..(1 + Len(s)) : t[i] = IF i = 1 THEN m ELSE s[i - 1]
  <2>1. /\ t \in Seq(Members) /\ Len(t) = Len(<<m>>) + Len(s)
        /\ \A i \in 1..(Len(<<m>>) + Len(s)) :
             t[i] = IF i <= Len(<<m>>) THEN <<m>>[i] ELSE s[i - Len(<<m>>)]
    BY <1>1, ConcatProperties
  <2> HIDE DEF t
  <2> QED
    BY <1>1, <1>2, <2>1
<1> HIDE DEF t
<1>4. Distinct(t)
  <2> SUFFICES ASSUME NEW i \in 1..Len(t), NEW j \in 1..Len(t), t[i] = t[j] PROVE i = j
    BY DEF Distinct
  <2>1. CASE i = 1 /\ j # 1
    <3>1. j - 1 \in 1..Len(s) /\ s[j - 1] = m
      BY <1>2, <1>3, <2>1
    <3> QED
      BY <3>1 DEF Elems
  <2>2. CASE i # 1 /\ j = 1
    <3>1. i - 1 \in 1..Len(s) /\ s[i - 1] = m
      BY <1>2, <1>3, <2>2
    <3> QED
      BY <3>1 DEF Elems
  <2>3. CASE i # 1 /\ j # 1
    <3>1. i - 1 \in 1..Len(s) /\ j - 1 \in 1..Len(s) /\ s[i - 1] = s[j - 1]
      BY <1>2, <1>3, <2>3
    <3>2. i - 1 = j - 1
      BY <3>1 DEF Distinct
    <3> QED
      BY <1>2, <1>3, <3>2
  <2> QED
    BY <2>1, <2>2, <2>3
<1>5. Elems(t) = Elems(s) \cup {m}
  <2>1. ASSUME NEW x \in Elems(t) PROVE x \in Elems(s) \cup {m}
    <3>1. PICK i \in 1..(1 + Len(s)) : x = IF i = 1 THEN m ELSE s[i - 1]
      BY <1>3 DEF Elems
    <3>2. i # 1 => i - 1 \in 1..Len(s)
      BY <1>2
    <3> QED
      BY <3>1, <3>2 DEF Elems
  <2>2. m \in Elems(t)
    <3>1. 1 \in 1..Len(t) /\ t[1] = m
      BY <1>2, <1>3
    <3> QED
      BY <3>1 DEF Elems
  <2>3. ASSUME NEW x \in Elems(s) PROVE x \in Elems(t)
    <3>1. PICK i \in 1..Len(s) : x = s[i]
      BY DEF Elems
    <3>2. i + 1 \in 1..Len(t) /\ t[i + 1] = s[(i + 1) - 1] /\ (i + 1) - 1 = i
      BY <1>2, <1>3
    <3> QED
      BY <3>1, <3>2 DEF Elems
  <2> QED
    BY <2>1, <2>2, <2>3
<1>6. t # <<>>
  BY <1>2, <1>3, EmptySeq
<1> QED
  BY <1>3, <1>4, <1>5, <1>6 DEF t

-----------------------------------------------------------------------------
(* The operators                                                           *)

LEMMA TimerTypes ==
  ASSUME now \in Nat, NEW length \in Nat
  PROVE  Expiry(length) \in Timer
BY DEF Expiry, Timer

LEMMA QueueIsElems ==
  ASSUME NEW b \in Batches
  PROVE  /\ b.pending \in Seq(Members)
         /\ Queue(b) = Elems(b.pending)
         /\ Queue(b) \subseteq Members
         /\ b.pending = <<>> <=> Queue(b) = {}
<1>1. b.pending \in Seq(Members)
  BY DEF Batches
<1>2. Queue(b) = Elems(b.pending)
  BY DEF Queue, Elems
<1>3. Len(b.pending) \in Nat /\ \A i \in 1..Len(b.pending) : b.pending[i] \in Members
  BY <1>1, LenProperties, ElementOfSeq
<1>4. b.pending = <<>> <=> Len(b.pending) = 0
  BY <1>1, EmptySeq
<1>5. Len(b.pending) # 0 <=> Elems(b.pending) # {}
  <2>1. Len(b.pending) # 0 => 1 \in 1..Len(b.pending)
    BY <1>3
  <2>2. Len(b.pending) = 0 => 1..Len(b.pending) = {}
    BY <1>3
  <2> QED
    BY <2>1, <2>2 DEF Elems
<1>6. Elems(b.pending) \subseteq Members
  BY <1>3 DEF Elems
<1> QED
  BY <1>1, <1>2, <1>4, <1>5, <1>6

LEMMA NextReadyIsReady ==
  ASSUME NEW b \in Batches, b.pending # <<>>
  PROVE  /\ NextReadyAt(b) \in Nat
         /\ \E m \in Queue(b) : b.readyAt[m] = NextReadyAt(b)
<1> DEFINE S == {b.readyAt[m] : m \in Queue(b)}
<1>1. Queue(b) # {} /\ Queue(b) \subseteq Members
  BY QueueIsElems
<1>2. \A m \in Members : b.readyAt[m] \in Nat
  BY DEF Batches
<1>3. S \in SUBSET Nat /\ S # {}
  BY <1>1, <1>2
<1>4. PICK r \in S : \A y \in S : r <= y
  <2> HIDE DEF S
  <2> QED
    BY <1>3, LeastNat
<1>5. IsReadyAt(b, r)
  BY <1>4 DEF IsReadyAt
<1>6. NextReadyAt(b) \in S /\ IsReadyAt(b, NextReadyAt(b))
  BY <1>4, <1>5 DEF NextReadyAt
<1> QED
  BY <1>3, <1>6 DEF IsReadyAt

LEMMA RecoveryIsNat ==
  ASSUME now \in Nat, NEW b \in Batches
  PROVE  RecoveryAt(b) \in Nat
<1>1. b.lastLimit \in Nat /\ b.lastRecovery \in Nat
  BY DEF Batches
<1> QED
  BY <1>1, SwarmAssumption DEF RecoveryAt, Most

LEMMA WakeupIsNat ==
  ASSUME now \in Nat, NEW b \in Batches, b.pending # <<>>
  PROVE  NextWakeup(b) \in Nat
<1>1. RecoveryAt(b) \in Nat /\ NextReadyAt(b) \in Nat
  BY RecoveryIsNat, NextReadyIsReady
<1>2. b.nextLaunch \in Nat
  BY DEF Batches
<1>3. NextAllowedAt(b) \in Nat
  BY <1>1, <1>2 DEF NextAllowedAt, Most
<1>4. RecoveryInterval \in Nat
  BY SwarmAssumption
<1> QED
  BY <1>1, <1>3, <1>4 DEF NextWakeup, Least

(* c differs from b in its timers and its accounts only.                   *)
SamePlaces(b, c) ==
  /\ c \in Batches
  /\ c.pending = b.pending /\ c.active = b.active /\ c.result = b.result
  /\ c.finished = b.finished /\ c.limited = b.limited /\ c.readyAt = b.readyAt

LEMMA SamePlacesSameQueue ==
  ASSUME NEW b, NEW c, SamePlaces(b, c)
  PROVE  Queue(c) = Queue(b)
BY DEF SamePlaces, Queue

LEMMA RecoveredPlaces ==
  ASSUME now \in Nat, NEW b \in Batches
  PROVE  /\ SamePlaces(b, Recovered(b))
         /\ Recovered(b).nextLaunch = b.nextLaunch \/ Recovered(b).lastRecovery = now
<1> DEFINE c == [b EXCEPT !.capacity = @ + 1, !.lastRecovery = now, !.nextLaunch = Least(@, now)]
<1>1. b.capacity + 1 \in Nat \ {0} /\ Least(b.nextLaunch, now) \in Nat
  BY DEF Batches, Least
<1>2. SamePlaces(b, c) /\ c.lastRecovery = now
  BY <1>1 DEF Batches, SamePlaces
<1>3. SamePlaces(b, b)
  BY DEF SamePlaces
<1> HIDE DEF c
<1>4. Recovered(b) = IF RecoveryAt(b) > now THEN b ELSE c
  BY DEF Recovered, c
<1> QED
  BY <1>2, <1>3, <1>4

LEMMA ArmedPlaces ==
  ASSUME now \in Nat, NEW b \in Batches
  PROVE  /\ SamePlaces(b, Armed(b))
         /\ b.pending # <<>> => Armed(b).wake # NoTimer
         /\ Armed(b).lastRecovery = b.lastRecovery /\ Armed(b).nextLaunch = b.nextLaunch
<1> DEFINE c == [b EXCEPT !.wake = NextWakeup(b)]
<1>1. CASE b.pending # <<>>
  <2>1. NextWakeup(b) \in Nat
    BY <1>1, WakeupIsNat
  <2>2. NextWakeup(b) \in Timer /\ NextWakeup(b) # NoTimer
    BY <2>1, SwarmAssumption DEF Timer
  <2>3. /\ SamePlaces(b, c) /\ c.wake = NextWakeup(b)
        /\ c.lastRecovery = b.lastRecovery /\ c.nextLaunch = b.nextLaunch
    BY <2>2 DEF Batches, SamePlaces
  <2>4. Armed(b) = c
    BY <1>1 DEF Armed
  <2> HIDE DEF c
  <2> QED
    BY <2>2, <2>3, <2>4
<1>2. CASE b.pending = <<>>
  BY <1>2 DEF Armed, SamePlaces
<1> QED
  BY <1>1, <1>2

LEMMA LaunchedPlaces ==
  ASSUME now \in Nat, NEW b \in Batches, NEW M \in SUBSET Members
  PROVE  LET c == Launched(b, M)
         IN  /\ c \in Batches
             /\ c.active = b.active \cup M
             /\ c.pending = b.pending /\ c.result = b.result /\ c.readyAt = b.readyAt
             /\ c.finished = b.finished /\ c.limited = b.limited
             /\ c.launched = b.launched /\ c.launchAt = b.launchAt
             /\ c.lastRecovery = b.lastRecovery
<1> DEFINE timers == [m \in Members |-> IF m \in M THEN Expiry(b.timeout) ELSE b.deadline[m]]
           begun == IF b.limited THEN b.started ELSE b.started + Cardinality(M)
<1>1. timers \in [Members -> Timer]
  <2>1. Expiry(b.timeout) \in Timer /\ \A m \in Members : b.deadline[m] \in Timer
    BY TimerTypes DEF Batches
  <2> QED
    BY <2>1
<1>2. begun \in Nat
  <2>1. Cardinality(M) \in Nat
    BY MembersAreFinite
  <2>2. b.started \in Nat
    BY DEF Batches
  <2> QED
    BY <2>1, <2>2
<1> DEFINE c == [b EXCEPT !.active = @ \cup M, !.deadline = timers, !.started = begun]
<1>3. Launched(b, M) = c
  BY DEF Launched
<1> HIDE DEF timers, begun
<1>4. /\ c \in Batches
      /\ c.active = b.active \cup M
      /\ c.pending = b.pending /\ c.result = b.result /\ c.readyAt = b.readyAt
      /\ c.finished = b.finished /\ c.limited = b.limited
      /\ c.launched = b.launched /\ c.launchAt = b.launchAt
      /\ c.lastRecovery = b.lastRecovery
  BY <1>1, <1>2 DEF Batches
<1> HIDE DEF c
<1> QED
  BY <1>3, <1>4

LEMMA NothingLaunched ==
  ASSUME NEW b, NEW c, SamePlaces(b, c), Placed(b)
  PROVE  Launches(b, c, {}) /\ Spaced(b, c, {})
<1>1. Queue(c) = Queue(b)
  BY SamePlacesSameQueue
<1> QED
  BY <1>1 DEF SamePlaces, Placed, Launches, Spaced

(* A queued member whose back off is over is found.                        *)
LEMMA FirstReadyExists ==
  ASSUME now \in Nat, NEW b \in Batches, b.pending # <<>>, NextReadyAt(b) <= now
  PROVE  \E k \in 1..Len(b.pending) : IsFirstReady(b, k)
<1> DEFINE S == {i \in 1..Len(b.pending) : b.readyAt[b.pending[i]] <= now}
<1>1. Len(b.pending) \in Nat /\ \A i \in 1..Len(b.pending) : b.pending[i] \in Members
  BY QueueIsElems, LenProperties, ElementOfSeq
<1>2. \A m \in Members : b.readyAt[m] \in Nat
  BY DEF Batches
<1>3. S # {}
  BY NextReadyIsReady DEF Queue
<1>4. S \in SUBSET Nat
  BY <1>1
<1>5. PICK k \in S : \A j \in S : k <= j
  <2> HIDE DEF S
  <2> QED
    BY <1>3, <1>4, LeastNat
<1>6. ASSUME NEW j \in 1..(k - 1) PROVE b.readyAt[b.pending[j]] > now
  <2>1. j \in 1..Len(b.pending) /\ ~(k <= j)
    BY <1>1, <1>5
  <2>2. ~(b.readyAt[b.pending[j]] <= now)
    BY <1>5, <2>1
  <2>3. b.readyAt[b.pending[j]] \in Nat
    BY <1>1, <1>2, <2>1
  <2> QED
    BY <2>2, <2>3
<1> QED
  BY <1>5, <1>6 DEF IsFirstReady

(* Members that leave the queue and are launched.                          *)
LEMMA LaunchesThem ==
  ASSUME NEW b \in Batches, Placed(b), NEW c \in Batches, NEW L \in SUBSET Queue(b),
         c.active = b.active \cup L, Queue(c) = Queue(b) \ L, Distinct(c.pending),
         Cardinality(b.active) + Cardinality(L) <= MaxConcurrency,
         c.result = b.result, c.finished = b.finished, c.limited = b.limited
  PROVE  Launches(b, c, L)
<1>1. L \in SUBSET Members /\ b.active \in SUBSET Members
  BY QueueIsElems DEF Batches
<1>2. b.active \cap L = {}
  BY DEF Placed
<1>3. Cardinality(c.active) = Cardinality(b.active) + Cardinality(L)
  <2>1. /\ IsFiniteSet(L) /\ Cardinality(L) \in Nat
        /\ IsFiniteSet(b.active) /\ Cardinality(b.active) \in Nat
    BY <1>1, MembersAreFinite
  <2>2. Cardinality(b.active \cup L) = Cardinality(b.active) + Cardinality(L) - Cardinality(b.active \cap L)
    BY <2>1, FS_Union
  <2>3. Cardinality(b.active \cap L) = 0
    BY <1>2, FS_EmptySet
  <2> QED
    BY <2>1, <2>2, <2>3
<1> QED
  BY <1>3 DEF Launches

LEMMA RateLimitedLaunchWorks ==
  ASSUME now \in Nat, NEW b \in Batches, Placed(b), b.limited
  PROVE  LET c == RateLimitedLaunch(b)
         IN  \E L : /\ Launches(b, c, L) /\ Spaced(b, c, L)
                    /\ c.pending # <<>> => c.wake # NoTimer
<1> DEFINE a == [b EXCEPT !.wake = NoTimer]
<1>1. SamePlaces(b, a) /\ a.nextLaunch = b.nextLaunch
  BY DEF SamePlaces, Batches, Timer
<1> HIDE DEF a
<1>2. a \in Batches
  BY <1>1 DEF SamePlaces
<1>3. CASE b.pending = <<>>
  <2>1. RateLimitedLaunch(b) = a
    BY <1>3 DEF RateLimitedLaunch, a
  <2> QED
    BY <1>1, <1>3, <2>1, NothingLaunched DEF SamePlaces
<1>4. CASE b.pending # <<>>
  <2> DEFINE d == Recovered(a)
  <2>1. /\ SamePlaces(a, d)
        /\ d.nextLaunch = b.nextLaunch \/ d.lastRecovery = now
    BY <1>1, <1>2, RecoveredPlaces
  <2> HIDE DEF d
  <2>2. SamePlaces(b, d) /\ d \in Batches /\ d.pending # <<>>
    BY <1>1, <1>4, <2>1 DEF SamePlaces
  <2>3. CASE ~MayLaunch(d)
    <3>1. RateLimitedLaunch(b) = Armed(d)
      BY <1>4, <2>3 DEF RateLimitedLaunch, a, d
    <3>2. SamePlaces(d, Armed(d)) /\ Armed(d).wake # NoTimer
      BY <2>2, ArmedPlaces
    <3>3. SamePlaces(b, Armed(d))
      BY <2>2, <3>2 DEF SamePlaces
    <3> QED
      BY <3>1, <3>2, <3>3, NothingLaunched
  <2>4. CASE MayLaunch(d)
    <3> DEFINE k == CHOOSE i \in 1..Len(d.pending) : IsFirstReady(d, i)
               m == d.pending[k]
               rest == SubSeq(d.pending, 1, k - 1) \o SubSeq(d.pending, k + 1, Len(d.pending))
               l == Launched(d, {m})
               e == [l EXCEPT !.pending = rest, !.nextLaunch = now + RetryBase]
    <3>1. NextReadyAt(d) <= now /\ d.nextLaunch <= now
      <4>1. NextReadyAt(d) \in Nat /\ d.nextLaunch \in Nat
        BY <2>2, NextReadyIsReady DEF Batches
      <4>2. NextAllowedAt(d) <= now
        BY <2>4 DEF MayLaunch
      <4> QED
        BY <4>1, <4>2 DEF NextAllowedAt, Most
    <3>2. k \in 1..Len(d.pending) /\ IsFirstReady(d, k)
      BY <2>2, <3>1, FirstReadyExists
    <3>3. RateLimitedLaunch(b) = Armed(e)
      BY <1>4, <2>4 DEF RateLimitedLaunch, a, d
    <3> HIDE DEF k
    <3>4. d.pending \in Seq(Members) /\ Distinct(d.pending) /\ Queue(d) = Queue(b)
      BY <2>2, QueueIsElems, SamePlacesSameQueue DEF Placed, SamePlaces
    <3>5. rest \in Seq(Members) /\ Distinct(rest) /\ Elems(rest) = Elems(d.pending) \ {m}
      BY <3>2, <3>4, DropOne
    <3>6. m \in Members /\ m \in Queue(d) /\ d.readyAt[m] <= now
      BY <3>2, <3>4, ElementOfSeq DEF Queue, IsFirstReady
    <3> HIDE DEF m, rest
    <3>7. /\ l \in Batches
          /\ l.active = d.active \cup {m}
          /\ l.result = d.result /\ l.finished = d.finished /\ l.limited = d.limited
          /\ l.lastRecovery = d.lastRecovery
      BY <2>2, <3>6, LaunchedPlaces
    <3>8. now + RetryBase \in Nat
      BY SwarmAssumption
    <3> HIDE DEF l
    <3>9. /\ e \in Batches /\ e.pending = rest
          /\ e.active = l.active /\ e.result = l.result
          /\ e.finished = l.finished /\ e.limited = l.limited
          /\ e.lastRecovery = l.lastRecovery
      BY <3>5, <3>7, <3>8 DEF Batches
    <3> HIDE DEF e
    <3>10. Queue(e) = Queue(b) \ {m}
      BY <2>2, <3>4, <3>5, <3>9, QueueIsElems
    <3> DEFINE c == Armed(e)
    <3>11. /\ SamePlaces(e, c) /\ Queue(c) = Queue(e)
           /\ c.pending # <<>> => c.wake # NoTimer
           /\ c.lastRecovery = e.lastRecovery
      BY <3>9, ArmedPlaces, SamePlacesSameQueue DEF SamePlaces
    <3> HIDE DEF c
    <3>12. Cardinality(b.active) + Cardinality({m}) <= MaxConcurrency
      <4>1. Cardinality(b.active) < MaxConcurrency
        <5>1. Cardinality(b.active) \in Nat
          BY MembersAreFinite DEF Batches
        <5>2. ~(Cardinality(b.active) >= MaxConcurrency)
          BY <2>2, <2>4 DEF MayLaunch, AtConcurrencyLimit, SamePlaces
        <5> QED
          BY <5>1, <5>2, SwarmAssumption
      <4>2. Cardinality({m}) = 1 /\ Cardinality(b.active) \in Nat /\ MaxConcurrency \in Nat
        BY MembersAreFinite, FS_Singleton, SwarmAssumption DEF Batches
      <4> QED
        BY <4>1, <4>2
    <3>13. Launches(b, c, {m})
      <4>1. c \in Batches /\ c.pending = rest /\ c.active = b.active \cup {m}
        BY <2>2, <3>7, <3>9, <3>11 DEF SamePlaces
      <4>2. c.result = b.result /\ c.finished = b.finished /\ c.limited = b.limited
        BY <2>2, <3>7, <3>9, <3>11 DEF SamePlaces
      <4>3. {m} \in SUBSET Queue(b) /\ Queue(c) = Queue(b) \ {m} /\ Distinct(c.pending)
        BY <3>4, <3>5, <3>6, <3>10, <3>11, <4>1
      <4> QED
        BY <3>12, <4>1, <4>2, <4>3, LaunchesThem
    <3>14. Spaced(b, c, {m})
      <4>1. Cardinality({m}) = 1
        BY FS_Singleton
      <4>2. b.readyAt[m] <= now
        BY <2>2, <3>6 DEF SamePlaces
      <4>3. b.nextLaunch <= now \/ c.lastRecovery = now
        BY <2>1, <3>1, <3>7, <3>9, <3>11
      <4> QED
        BY <4>1, <4>2, <4>3 DEF Spaced
    <3> QED
      BY <3>3, <3>11, <3>13, <3>14 DEF c
  <2> QED
    BY <2>3, <2>4
<1> QED
  BY <1>3, <1>4

LEMMA NormalLaunchWorks ==
  ASSUME now \in Nat, NEW b \in Batches, Placed(b), ~b.limited
  PROVE  LET c == NormalLaunch(b)
         IN  \E L : /\ Launches(b, c, L)
                    /\ c.pending # <<>> => c.launchAt # NoTimer \/ AtConcurrencyLimit(c)
<1> DEFINE room == MaxConcurrency - Cardinality(b.active)
           wave == Most(0, Least(LaunchLimit - b.launched, Least(Len(b.pending), room)))
           L == {b.pending[i] : i \in 1..wave}
           l == Launched(b, L)
           rest == SubSeq(b.pending, wave + 1, Len(b.pending))
           c == [l EXCEPT !.pending = rest, !.launched = @ + wave]
           d == [c EXCEPT !.launchAt = now + LaunchInterval]
<1>1. b.pending \in Seq(Members) /\ Queue(b) = Elems(b.pending) /\ Queue(b) \subseteq Members
  BY QueueIsElems
<1>2. Cardinality(b.active) \in Nat /\ b.launched \in Nat /\ Len(b.pending) \in Nat
  BY <1>1, MembersAreFinite, LenProperties DEF Batches
<1>3. MaxConcurrency \in Nat /\ LaunchLimit \in Nat /\ Cardinality(b.active) <= MaxConcurrency
  BY SwarmAssumption DEF Placed
<1>4. wave \in 0..Len(b.pending) /\ wave <= room /\ room \in Nat
  BY <1>2, <1>3 DEF Most, Least
<1>5. NormalLaunch(b) = IF c.pending = <<>> \/ c.launchAt # NoTimer \/ AtConcurrencyLimit(c) THEN c ELSE d
  <2>1. rest = SubSeq(l.pending, wave + 1, Len(l.pending))
    <3>1. L \in SUBSET Members
      BY <1>1, <1>2, <1>4, ElementOfSeq
    <3> HIDE DEF L
    <3> QED
      BY <3>1, LaunchedPlaces
  <2> QED
    BY <2>1 DEF NormalLaunch
<1> HIDE DEF room, wave
<1>6. /\ rest \in Seq(Members) /\ Distinct(rest)
      /\ L \subseteq Queue(b) /\ Elems(rest) = Queue(b) \ L
      /\ Cardinality(L) <= wave
  <2>1. Distinct(b.pending) /\ wave \in 0..Len(b.pending)
    BY <1>4 DEF Placed
  <2>2. /\ rest \in Seq(Members) /\ Distinct(rest)
        /\ L \subseteq Elems(b.pending) /\ Elems(rest) = Elems(b.pending) \ L
        /\ Cardinality(L) <= wave
    BY <1>1, <2>1, DropFirst
  <2> HIDE DEF L, rest
  <2> QED
    BY <1>1, <2>2
<1> HIDE DEF L, rest
<1>7. /\ l \in Batches /\ l.active = b.active \cup L /\ l.launched = b.launched
      /\ l.result = b.result /\ l.finished = b.finished /\ l.limited = b.limited
  BY <1>1, <1>6, LaunchedPlaces
<1> HIDE DEF l
<1>8. /\ c \in Batches /\ c.pending = rest
      /\ c.active = l.active /\ c.result = l.result
      /\ c.finished = l.finished /\ c.limited = l.limited
  <2>1. l.launched + wave \in Nat
    BY <1>2, <1>4, <1>7
  <2> QED
    BY <1>6, <1>7, <2>1 DEF Batches
<1> HIDE DEF c
<1>9. Launches(b, c, L)
  <2>1. Cardinality(b.active) + Cardinality(L) <= MaxConcurrency
    <3>1. Cardinality(L) \in Nat
      BY <1>1, <1>6, MembersAreFinite
    <3> QED
      BY <1>2, <1>3, <1>4, <1>6, <3>1 DEF room
  <2>2. Queue(c) = Queue(b) \ L /\ Distinct(c.pending)
    BY <1>6, <1>8, QueueIsElems
  <2> QED
    BY <1>6, <1>7, <1>8, <2>1, <2>2, LaunchesThem
<1>10. CASE c.pending = <<>> \/ c.launchAt # NoTimer \/ AtConcurrencyLimit(c)
  BY <1>5, <1>9, <1>10
<1>11. CASE ~(c.pending = <<>> \/ c.launchAt # NoTimer \/ AtConcurrencyLimit(c))
  <2>1. now + LaunchInterval \in Timer /\ now + LaunchInterval # NoTimer
    BY SwarmAssumption DEF Timer
  <2>2. /\ d \in Batches /\ d.launchAt # NoTimer /\ d.pending = c.pending
        /\ d.active = c.active /\ d.result = c.result
        /\ d.finished = c.finished /\ d.limited = c.limited
    BY <1>8, <2>1 DEF Batches
  <2> HIDE DEF d
  <2>3. Launches(b, d, L)
    BY <1>9, <2>2 DEF Launches, Queue
  <2> QED
    BY <1>5, <1>11, <2>2, <2>3
<1> QED
  BY <1>10, <1>11

LEMMA FinishedEnds ==
  ASSUME NEW b \in Batches
  PROVE  LET c == Finished(b)
         IN  /\ c \in Batches /\ c.finished /\ c.active = {}
             /\ c.launchAt = NoTimer /\ c.result = b.result
<1> DEFINE off == [m \in Members |-> NoTimer]
           c == [b EXCEPT !.finished = TRUE, !.active = {}, !.wake = NoTimer, !.launchAt = NoTimer,
                          !.budget = NoTimer, !.deadline = off]
<1>1. off \in [Members -> Timer] /\ NoTimer \in Timer
  BY DEF Timer
<1>2. Finished(b) = c
  BY DEF Finished
<1> HIDE DEF off
<1>3. /\ c \in Batches /\ c.finished /\ c.active = {}
      /\ c.launchAt = NoTimer /\ c.result = b.result
  BY <1>1 DEF Batches
<1> HIDE DEF c
<1> QED
  BY <1>2, <1>3

(* What schedule() makes of a batch.                                       *)
Schedules(b, c) ==
  /\ c \in Batches /\ Sound(c) /\ Awake(c)
  /\ c.result = b.result /\ (b.finished => c.finished)
  /\ ~c.finished => Queue(c) \subseteq Queue(b)
  /\ c.active \ b.active \subseteq Queue(b)
  /\ Spaced(b, c, c.active \ b.active)

LEMMA ScheduledWorks ==
  ASSUME now \in Nat, NEW b \in Batches, Sound(b)
  PROVE  Schedules(b, Scheduled(b))
<1>1. CASE b.finished
  <2>1. Scheduled(b) = b
    BY <1>1 DEF Scheduled
  <2> QED
    BY <1>1, <2>1 DEF Schedules, Awake, Spaced
<1>2. CASE ~b.finished /\ IsComplete(b)
  <2> DEFINE c == Finished(b)
  <2>1. Scheduled(b) = c
    BY <1>2 DEF Scheduled
  <2>2. /\ c \in Batches /\ c.finished /\ c.active = {}
        /\ c.launchAt = NoTimer /\ c.result = b.result
    BY FinishedEnds
  <2> HIDE DEF c
  <2>3. IsComplete(c)
    BY <1>2, <2>2 DEF IsComplete
  <2> QED
    BY <2>1, <2>2, <2>3 DEF Schedules, Sound, Awake, Spaced
<1>3. CASE ~b.finished /\ ~IsComplete(b)
  <2> DEFINE c == Scheduled(b)
  <2>1. PICK L : /\ Launches(b, c, L) /\ Spaced(b, c, L)
                 /\ c.pending # <<>> =>
                      IF b.limited THEN c.wake # NoTimer
                      ELSE c.launchAt # NoTimer \/ AtConcurrencyLimit(c)
    <3>1. CASE b.limited
      <4>1. c = RateLimitedLaunch(b)
        BY <1>3, <3>1 DEF Scheduled
      <4> HIDE DEF c
      <4> QED
        BY <1>3, <3>1, <4>1, RateLimitedLaunchWorks DEF Sound
    <3>2. CASE ~b.limited
      <4>1. c = NormalLaunch(b)
        BY <1>3, <3>2 DEF Scheduled
      <4> HIDE DEF c
      <4> QED
        BY <1>3, <3>2, <4>1, NormalLaunchWorks DEF Sound, Spaced
    <3> QED
      BY <3>1, <3>2
  <2> HIDE DEF c
  <2>2. c.active \ b.active = L
    BY <1>3, <2>1 DEF Launches, Sound, Placed
  <2>3. Placed(c)
    BY <1>3, <2>1 DEF Launches, Sound, Placed
  <2>4. ~c.finished /\ ~IsComplete(c)
    BY <1>3, <2>1 DEF Launches, IsComplete
  <2>5. Awake(c)
    BY <2>1, <2>4 DEF Awake, Launches
  <2>6. Schedules(b, c)
    BY <2>1, <2>2, <2>3, <2>4, <2>5 DEF Schedules, Launches, Sound
  <2> QED
    BY <2>6 DEF c
<1> QED
  BY <1>1, <1>2, <1>3

LEMMA ReleasedPlaces ==
  ASSUME NEW b \in Batches, NEW m \in Members
  PROVE  LET c == Released(b, m)
         IN  /\ c \in Batches /\ c.active = b.active \ {m}
             /\ c.pending = b.pending /\ c.result = b.result /\ c.readyAt = b.readyAt
             /\ c.finished = b.finished /\ c.limited = b.limited
             /\ c.nextLaunch = b.nextLaunch
<1> DEFINE off == [b.deadline EXCEPT ![m] = NoTimer]
           c == [b EXCEPT !.active = @ \ {m}, !.deadline = off]
<1>1. off \in [Members -> Timer]
  BY DEF Batches, Timer
<1>2. Released(b, m) = c
  BY DEF Released
<1> HIDE DEF off
<1>3. /\ c \in Batches /\ c.active = b.active \ {m}
      /\ c.pending = b.pending /\ c.result = b.result /\ c.readyAt = b.readyAt
      /\ c.finished = b.finished /\ c.limited = b.limited
      /\ c.nextLaunch = b.nextLaunch
  BY <1>1 DEF Batches
<1> HIDE DEF c
<1> QED
  BY <1>2, <1>3

LEMMA SettledPlaces ==
  ASSUME NEW b \in Batches, Placed(b), ~b.finished, NEW m \in b.active, NEW o \in Outcomes
  PROVE  LET c == Settled(b, m, o)
         IN  /\ c \in Batches /\ ~c.finished /\ Placed(c)
             /\ Queue(c) = Queue(b) /\ c.active = b.active \ {m}
             /\ \A n \in Members \ {m} : c.result[n] = b.result[n]
             /\ c.limited = b.limited /\ c.readyAt = b.readyAt /\ c.nextLaunch = b.nextLaunch
<1> DEFINE r == Released(b, m)
           verdicts == [r.result EXCEPT ![m] = o]
           c == [r EXCEPT !.result = verdicts]
<1>1. m \in Members /\ b.active \in SUBSET Members
  BY DEF Batches
<1>2. /\ r \in Batches /\ r.active = b.active \ {m}
      /\ r.pending = b.pending /\ r.result = b.result /\ r.readyAt = b.readyAt
      /\ r.finished = b.finished /\ r.limited = b.limited
      /\ r.nextLaunch = b.nextLaunch
  BY <1>1, ReleasedPlaces
<1>3. Settled(b, m, o) = c
  BY DEF Settled
<1> HIDE DEF r
<1>4. /\ verdicts \in [Members -> Outcomes \cup {Unsettled}]
      /\ verdicts[m] = o /\ \A n \in Members \ {m} : verdicts[n] = b.result[n]
  <2>1. r.result \in [Members -> Outcomes \cup {Unsettled}]
    BY <1>2 DEF Batches
  <2> QED
    BY <1>1, <1>2, <2>1
<1> HIDE DEF verdicts
<1>5. /\ c \in Batches /\ c.active = r.active /\ c.result = verdicts
      /\ c.pending = r.pending /\ c.readyAt = r.readyAt
      /\ c.finished = r.finished /\ c.limited = r.limited
      /\ c.nextLaunch = r.nextLaunch
  BY <1>2, <1>4 DEF Batches
<1> HIDE DEF c
<1>6. Queue(c) = Queue(b)
  BY <1>2, <1>5 DEF Queue
<1>7. Cardinality(c.active) <= MaxConcurrency
  <2>1. IsFiniteSet(b.active) /\ Cardinality(b.active) \in Nat /\ Cardinality(c.active) \in Nat
    BY <1>1, <1>2, <1>5, MembersAreFinite
  <2>2. Cardinality(c.active) <= Cardinality(b.active)
    BY <1>2, <1>5, <2>1, FS_Subset
  <2> QED
    BY <2>1, <2>2, SwarmAssumption DEF Placed
<1>8. Placed(c)
  <2>1. Distinct(c.pending) /\ Queue(c) \cap c.active = {}
    BY <1>2, <1>5, <1>6 DEF Placed
  <2>2. ASSUME NEW n \in Members PROVE c.result[n] = Unsettled <=> n \in Queue(c) \cup c.active
    <3>1. CASE n = m
      BY <1>2, <1>4, <1>5, <1>6, <3>1, SwarmAssumption DEF Placed
    <3>2. CASE n # m
      BY <1>2, <1>4, <1>5, <1>6, <3>2 DEF Placed
    <3> QED
      BY <3>1, <3>2
  <2> QED
    BY <1>7, <2>1, <2>2 DEF Placed
<1> QED
  BY <1>2, <1>3, <1>4, <1>5, <1>6, <1>8

LEMMA ShrunkPlaces ==
  ASSUME now \in Nat, NEW b \in Batches, NEW force
  PROVE  SamePlaces(b, Shrunk(b, force))
<1> DEFINE c == [b EXCEPT !.capacity = Most(1, @ - 1), !.lastShrink = now]
<1>1. Most(1, b.capacity - 1) \in Nat \ {0}
  BY DEF Batches, Most
<1>2. SamePlaces(b, c) /\ SamePlaces(b, b)
  BY <1>1 DEF Batches, SamePlaces
<1>3. Shrunk(b, force) = b \/ Shrunk(b, force) = c
  BY DEF Shrunk
<1> HIDE DEF c
<1> QED
  BY <1>2, <1>3

LEMMA LimitedPlaces ==
  ASSUME now \in Nat, NEW b \in Batches
  PROVE  LET c == Limited(b)
         IN  /\ c \in Batches /\ c.limited
             /\ c.pending = b.pending /\ c.active = b.active /\ c.result = b.result
             /\ c.finished = b.finished /\ c.readyAt = b.readyAt
<1> DEFINE a == [b EXCEPT !.limited = TRUE, !.capacity = Most(1, b.started),
                          !.nextLaunch = Most(@, now + RetryBase)]
<1>1. Most(1, b.started) \in Nat \ {0} /\ Most(b.nextLaunch, now + RetryBase) \in Nat
  <2>1. b.started \in Nat /\ b.nextLaunch \in Nat /\ RetryBase \in Nat
    BY SwarmAssumption DEF Batches
  <2> QED
    BY <2>1 DEF Most
<1>2. /\ a \in Batches /\ a.limited
      /\ a.pending = b.pending /\ a.active = b.active /\ a.result = b.result
      /\ a.finished = b.finished /\ a.readyAt = b.readyAt
  BY <1>1 DEF Batches
<1>3. Limited(b) = IF b.limited THEN Shrunk(b, FALSE) ELSE Shrunk(a, TRUE)
  BY DEF Limited
<1> HIDE DEF a
<1>4. SamePlaces(b, Shrunk(b, FALSE)) /\ SamePlaces(a, Shrunk(a, TRUE))
  BY <1>2, ShrunkPlaces
<1> QED
  BY <1>2, <1>3, <1>4 DEF SamePlaces

LEMMA RequeuedPlaces ==
  ASSUME now \in Nat, NEW b \in Batches, Placed(b), ~b.finished, NEW m \in b.active, NEW delay \in Nat
  PROVE  LET c == Requeued(b, m, delay)
         IN  /\ c \in Batches /\ ~c.finished /\ Placed(c) /\ c.limited
             /\ Queue(c) = Queue(b) \cup {m} /\ c.active = b.active \ {m}
             /\ c.result = b.result
             /\ \A n \in Members \ {m} : c.readyAt[n] = b.readyAt[n]
             /\ ~(c.nextLaunch <= now)
<1> DEFINE r == Released(b, m)
           counts == [r.retries EXCEPT ![m] = @ + 1]
           ready == [r.readyAt EXCEPT ![m] = now + delay]
           queue == <<m>> \o r.pending
           a == [r EXCEPT !.lastLimit = now, !.retries = counts, !.batchRetries = @ + 1,
                          !.readyAt = ready, !.pending = queue]
           l == Limited(a)
           c == [l EXCEPT !.nextLaunch = Most(@, now + RetryBase)]
<1>1. m \in Members /\ b.active \in SUBSET Members
  BY DEF Batches
<1>2. /\ r \in Batches /\ r.active = b.active \ {m}
      /\ r.pending = b.pending /\ r.result = b.result /\ r.readyAt = b.readyAt
      /\ r.finished = b.finished
  BY <1>1, ReleasedPlaces
<1>3. Requeued(b, m, delay) = c
  BY DEF Requeued
<1> HIDE DEF r
<1>4. counts \in [Members -> Nat] /\ r.batchRetries + 1 \in Nat
  <2>1. r.retries \in [Members -> Nat] /\ r.batchRetries \in Nat
    BY <1>2 DEF Batches
  <2> QED
    BY <1>1, <2>1
<1>5. ready \in [Members -> Nat] /\ \A n \in Members \ {m} : ready[n] = b.readyAt[n]
  <2>1. r.readyAt \in [Members -> Nat] /\ now + delay \in Nat
    BY <1>2 DEF Batches
  <2> QED
    BY <1>1, <1>2, <2>1
<1>6. queue \in Seq(Members) /\ Distinct(queue) /\ Elems(queue) = Queue(b) \cup {m}
  <2>1. b.pending \in Seq(Members) /\ Distinct(b.pending) /\ Queue(b) = Elems(b.pending)
    BY QueueIsElems DEF Placed
  <2>2. m \notin Elems(b.pending)
    BY <2>1 DEF Placed
  <2>3. queue = <<m>> \o b.pending
    BY <1>2
  <2> QED
    BY <1>1, <2>1, <2>2, <2>3, PutFirst
<1> HIDE DEF counts, ready, queue
<1>7. /\ a \in Batches /\ a.pending = queue /\ a.readyAt = ready
      /\ a.active = r.active /\ a.result = r.result /\ a.finished = r.finished
  BY <1>2, <1>4, <1>5, <1>6 DEF Batches
<1> HIDE DEF a
<1>8. /\ l \in Batches /\ l.limited
      /\ l.pending = a.pending /\ l.active = a.active /\ l.result = a.result
      /\ l.finished = a.finished /\ l.readyAt = a.readyAt
  BY <1>7, LimitedPlaces
<1> HIDE DEF l
<1>9. Most(l.nextLaunch, now + RetryBase) \in Nat /\ ~(Most(l.nextLaunch, now + RetryBase) <= now)
  <2>1. l.nextLaunch \in Nat /\ RetryBase \in Nat \ {0}
    BY <1>8, SwarmAssumption DEF Batches
  <2> QED
    BY <2>1 DEF Most
<1>10. /\ c \in Batches /\ c.nextLaunch = Most(l.nextLaunch, now + RetryBase)
       /\ c.limited = l.limited /\ c.pending = l.pending /\ c.active = l.active
       /\ c.result = l.result /\ c.finished = l.finished /\ c.readyAt = l.readyAt
  BY <1>8, <1>9 DEF Batches
<1> HIDE DEF c
<1>11. Queue(c) = Queue(b) \cup {m} /\ c.active = b.active \ {m} /\ c.result = b.result
  BY <1>2, <1>6, <1>7, <1>8, <1>10, QueueIsElems
<1>12. Cardinality(c.active) <= MaxConcurrency
  <2>1. IsFiniteSet(b.active) /\ Cardinality(b.active) \in Nat /\ Cardinality(c.active) \in Nat
    BY <1>1, <1>11, MembersAreFinite
  <2>2. Cardinality(c.active) <= Cardinality(b.active)
    BY <1>11, <2>1, FS_Subset
  <2> QED
    BY <2>1, <2>2, SwarmAssumption DEF Placed
<1>13. Placed(c)
  <2>1. Distinct(c.pending)
    BY <1>6, <1>7, <1>8, <1>10
  <2> QED
    BY <1>1, <1>11, <1>12, <2>1 DEF Placed
<1>14. ~c.finished /\ c.limited /\ ~(c.nextLaunch <= now)
  BY <1>2, <1>7, <1>8, <1>9, <1>10
<1>15. \A n \in Members \ {m} : c.readyAt[n] = b.readyAt[n]
  BY <1>5, <1>7, <1>8, <1>10
<1> QED
  BY <1>3, <1>10, <1>11, <1>13, <1>14, <1>15

LEMMA AbortedEnds ==
  ASSUME NEW b \in Batches
  PROVE  LET c == Aborted(b)
         IN  /\ c \in Batches /\ c.finished /\ Sound(c)
             /\ \A m \in Members : b.result[m] # Unsettled => c.result[m] = b.result[m]
             /\ \A m \in Members : b.result[m] = Unsettled => c.result[m] = "aborted"
<1> DEFINE verdicts == [m \in Members |-> IF b.result[m] = Unsettled THEN "aborted" ELSE b.result[m]]
           a == [b EXCEPT !.result = verdicts]
           c == Finished(a)
<1>1. /\ verdicts \in [Members -> Outcomes \cup {Unsettled}]
      /\ \A m \in Members : verdicts[m] # Unsettled
      /\ \A m \in Members : b.result[m] # Unsettled => verdicts[m] = b.result[m]
      /\ \A m \in Members : b.result[m] = Unsettled => verdicts[m] = "aborted"
  <2>1. \A m \in Members : b.result[m] \in Outcomes \cup {Unsettled}
    BY DEF Batches
  <2>2. "aborted" \in Outcomes /\ Unsettled \notin Outcomes
    BY SwarmAssumption DEF Outcomes
  <2> QED
    BY <2>1, <2>2
<1>2. Aborted(b) = c
  BY DEF Aborted
<1> HIDE DEF verdicts
<1>3. a \in Batches /\ a.result = verdicts
  BY <1>1 DEF Batches
<1> HIDE DEF a
<1>4. /\ c \in Batches /\ c.finished /\ c.active = {}
      /\ c.launchAt = NoTimer /\ c.result = verdicts
  BY <1>3, FinishedEnds
<1> HIDE DEF c
<1> QED
  BY <1>1, <1>2, <1>4 DEF Sound, IsComplete

-----------------------------------------------------------------------------
(* The handlers                                                            *)

(* e is b as a handler leaves it to schedule().                            *)
Edits(b, e) ==
  /\ e \in Batches /\ Sound(e)
  /\ \A m \in Members :
       b.result[m] # Unsettled \/ m \notin b.active => e.result[m] = b.result[m]
  /\ ~e.finished => Queue(e) \cap touched = {}
  /\ (e.active \ b.active) \cap touched = {}
  /\ b.limited =>
       /\ e.active \subseteq b.active /\ e.limited
       /\ \A m \in Queue(e) \ b.active : e.readyAt[m] = b.readyAt[m]
       /\ e.nextLaunch <= now => b.nextLaunch <= now

Lawful ==
  LaunchedNow # {} =>
    /\ Cardinality(batch'.active) <= MaxConcurrency
    /\ IsSpaced
    /\ LaunchedNow \cap touched = {}

Final == \A m \in Members : batch.result[m] # Unsettled => batch'.result[m] = batch.result[m]

(* Whoever is not in flight has done nothing to fail or to complete.       *)
Earned ==
  \A m \in Members :
    batch.result[m] = Unsettled /\ m \notin batch.active =>
      batch'.result[m] \in {Unsettled, "aborted"}

(* What a step owes to the invariant and to the step properties.           *)
Carried ==
  /\ batch' \in Batches /\ Sound(batch') /\ Awake(batch')
  /\ ~batch'.finished => Queue(batch') \cap touched = {}
  /\ Lawful /\ Final /\ Earned

LEMMA ScheduledCarries ==
  ASSUME now \in Nat, batch \in Batches, NEW e, Edits(batch, e), batch' = Scheduled(e)
  PROVE  Carried
<1> DEFINE c == batch'
           L == c.active \ e.active
<1>1. e \in Batches /\ Sound(e)
  BY DEF Edits
<1>2. Schedules(e, c)
  BY <1>1, ScheduledWorks
<1> HIDE DEF c
<1>3. c \in Batches /\ Sound(c) /\ Awake(c)
  BY <1>2 DEF Schedules
<1>4. ~c.finished => Queue(c) \cap touched = {}
  BY <1>2 DEF Schedules, Edits
<1>5. Final /\ Earned
  <2>1. c.result = e.result
    BY <1>2 DEF Schedules
  <2> QED
    BY <2>1 DEF Final, Earned, Edits, c
<1>6. Lawful
  <2> SUFFICES ASSUME LaunchedNow # {}
               PROVE  /\ Cardinality(c.active) <= MaxConcurrency
                      /\ IsSpaced /\ LaunchedNow \cap touched = {}
    BY DEF Lawful, c
  <2>1. LaunchedNow = c.active \ batch.active
    BY DEF LaunchedNow, c
  <2>2. ~c.finished /\ ~e.finished
    BY <1>2, <1>3, <2>1 DEF Schedules, Sound
  <2>3. Cardinality(c.active) <= MaxConcurrency
    BY <1>3, <2>2 DEF Sound, Placed
  <2>4. L \subseteq Queue(e) /\ LaunchedNow \subseteq L \cup (e.active \ batch.active)
    BY <1>2, <2>1 DEF Schedules
  <2>5. LaunchedNow \cap touched = {}
    BY <2>2, <2>4 DEF Edits
  <2>6. ASSUME batch.limited
        PROVE  /\ Cardinality(LaunchedNow) = 1
               /\ \A m \in LaunchedNow : batch.readyAt[m] <= now
               /\ batch.nextLaunch <= now \/ c.lastRecovery = now
    <3>1. LaunchedNow \subseteq L /\ L # {} /\ e.limited
      BY <2>1, <2>4, <2>6 DEF Edits
    <3>2. /\ Cardinality(L) = 1
          /\ \A m \in L : e.readyAt[m] <= now
          /\ e.nextLaunch <= now \/ c.lastRecovery = now
      BY <1>2, <3>1 DEF Schedules, Spaced
    <3>3. L \in SUBSET Members
      BY <1>3 DEF Batches
    <3> HIDE DEF L
    <3>4. Cardinality(LaunchedNow) = 1
      <4>1. IsFiniteSet(L) /\ IsFiniteSet(LaunchedNow) /\ Cardinality(LaunchedNow) \in Nat
        BY <3>1, <3>3, MembersAreFinite
      <4>2. Cardinality(LaunchedNow) <= 1
        BY <3>1, <3>2, <4>1, FS_Subset
      <4>3. Cardinality(LaunchedNow) # 0
        BY <4>1, FS_EmptySet
      <4> QED
        BY <4>1, <4>2, <4>3
    <3>5. \A m \in LaunchedNow : m \in Queue(e) \ batch.active
      BY <2>1, <2>4, <3>1
    <3>6. \A m \in LaunchedNow : batch.readyAt[m] <= now
      BY <2>6, <3>1, <3>2, <3>5 DEF Edits
    <3> QED
      BY <2>6, <3>2, <3>4, <3>6 DEF Edits
  <2>7. IsSpaced
    BY <2>6 DEF IsSpaced, c
  <2> QED
    BY <2>3, <2>5, <2>7
<1> QED
  BY <1>3, <1>4, <1>5, <1>6 DEF Carried, c

(* Nothing in flight that was not before.                                  *)
LEMMA NoLaunchCarries ==
  ASSUME batch' \in Batches, Sound(batch'), Awake(batch'),
         ~batch'.finished => Queue(batch') \cap touched = {},
         batch'.active \subseteq batch.active, Final, Earned
  PROVE  Carried
<1>1. LaunchedNow = {}
  BY DEF LaunchedNow
<1> QED
  BY <1>1 DEF Carried, Lawful

LEMMA UnchangedCarries ==
  ASSUME IInv, turn # "none", UNCHANGED batch
  PROVE  Carried
<1>1. batch' = batch
  OBVIOUS
<1>2. Final /\ Earned
  BY <1>1 DEF Final, Earned
<1> QED
  BY <1>1, <1>2, NoLaunchCarries DEF IInv, TypeOK

LEMMA AbortCarries ==
  ASSUME batch \in Batches, batch' = Aborted(batch)
  PROVE  Carried
<1> DEFINE c == batch'
<1>1. /\ c \in Batches /\ c.finished /\ Sound(c)
      /\ \A m \in Members : batch.result[m] # Unsettled => c.result[m] = batch.result[m]
      /\ \A m \in Members : batch.result[m] = Unsettled => c.result[m] = "aborted"
  BY AbortedEnds
<1> HIDE DEF c
<1>2. c.active = {} /\ Awake(c)
  BY <1>1 DEF Sound, Awake
<1>3. Final /\ Earned
  BY <1>1 DEF Final, Earned, c
<1> QED
  BY <1>1, <1>2, <1>3, NoLaunchCarries DEF c

(* A member in flight belongs to a batch that is not over.                 *)
LEMMA InFlight ==
  ASSUME IInv, NEW m \in batch.active
  PROVE  /\ now \in Nat /\ batch \in Batches /\ m \in Members
         /\ ~batch.finished /\ Placed(batch) /\ batch.result[m] = Unsettled
         /\ Queue(batch) \cap touched = {}
<1>1. now \in Nat /\ batch \in Batches /\ Sound(batch)
  BY DEF IInv, TypeOK
<1>2. ~batch.finished /\ Placed(batch)
  BY <1>1 DEF Sound
<1>3. m \in Members
  BY <1>1 DEF Batches
<1> QED
  BY <1>1, <1>2, <1>3 DEF Placed, IInv

LEMMA SettlingCarries ==
  ASSUME IInv, NEW m \in batch.active, NEW o \in Outcomes,
         batch' = Scheduled(Settled(batch, m, o))
  PROVE  Carried
<1> DEFINE e == Settled(batch, m, o)
<1>1. /\ now \in Nat /\ batch \in Batches /\ m \in Members
      /\ ~batch.finished /\ Placed(batch) /\ batch.result[m] = Unsettled
      /\ Queue(batch) \cap touched = {}
  BY InFlight
<1>2. /\ e \in Batches /\ ~e.finished /\ Placed(e)
      /\ Queue(e) = Queue(batch) /\ e.active = batch.active \ {m}
      /\ \A n \in Members \ {m} : e.result[n] = batch.result[n]
      /\ e.limited = batch.limited /\ e.readyAt = batch.readyAt /\ e.nextLaunch = batch.nextLaunch
  BY <1>1, SettledPlaces
<1>3. batch' = Scheduled(e)
  OBVIOUS
<1> HIDE DEF e
<1>4. Edits(batch, e)
  BY <1>1, <1>2 DEF Edits, Sound
<1> QED
  BY <1>1, <1>3, <1>4, ScheduledCarries

LEMMA RequeuingCarries ==
  ASSUME IInv, NEW m \in batch.active, m \notin touched, NEW delay \in Nat,
         batch' = Scheduled(Requeued(batch, m, delay))
  PROVE  Carried
<1> DEFINE e == Requeued(batch, m, delay)
<1>1. /\ now \in Nat /\ batch \in Batches /\ m \in Members
      /\ ~batch.finished /\ Placed(batch) /\ batch.result[m] = Unsettled
      /\ Queue(batch) \cap touched = {}
  BY InFlight
<1>2. /\ e \in Batches /\ ~e.finished /\ Placed(e) /\ e.limited
      /\ Queue(e) = Queue(batch) \cup {m} /\ e.active = batch.active \ {m}
      /\ e.result = batch.result
      /\ \A n \in Members \ {m} : e.readyAt[n] = batch.readyAt[n]
      /\ ~(e.nextLaunch <= now)
  BY <1>1, RequeuedPlaces
<1>3. batch' = Scheduled(e)
  OBVIOUS
<1> HIDE DEF e
<1>4. Queue(e) \subseteq Members
  BY <1>2, QueueIsElems
<1>5. Edits(batch, e)
  BY <1>1, <1>2, <1>4 DEF Edits, Sound
<1> QED
  BY <1>1, <1>3, <1>5, ScheduledCarries

-----------------------------------------------------------------------------
(* The steps                                                               *)

LEMMA RunCarries ==
  ASSUME IInv, Run
  PROVE  Carried
<1>1. PICK limit \in Limits :
        batch' = Scheduled([batch EXCEPT !.timeout = limit[1], !.budget = Expiry(limit[2])])
  BY DEF Run
<1> DEFINE e == [batch EXCEPT !.timeout = limit[1], !.budget = Expiry(limit[2])]
<1>2. now \in Nat /\ batch \in Batches /\ Sound(batch)
  BY DEF IInv, TypeOK
<1>3. limit[1] \in Nat /\ Expiry(limit[2]) \in Timer
  <2>1. limit[1] \in Nat /\ limit[2] \in Nat
    BY SwarmAssumption
  <2> QED
    BY <1>2, <2>1, TimerTypes
<1>4. SamePlaces(batch, e) /\ e.launchAt = batch.launchAt /\ e.nextLaunch = batch.nextLaunch
  BY <1>2, <1>3 DEF Batches, SamePlaces
<1>5. batch' = Scheduled(e)
  BY <1>1
<1> HIDE DEF e
<1>6. Queue(e) = Queue(batch)
  BY <1>4, SamePlacesSameQueue
<1>7. Sound(e)
  BY <1>2, <1>4, <1>6 DEF SamePlaces, Sound, Placed, IsComplete
<1>8. Edits(batch, e)
  BY <1>4, <1>6, <1>7 DEF Edits, SamePlaces, IInv
<1> QED
  BY <1>2, <1>5, <1>8, ScheduledCarries

LEMMA WakeTimerCarries ==
  ASSUME IInv, WakeTimer
  PROVE  Carried
<1> DEFINE e == [batch EXCEPT !.wake = NoTimer]
<1>1. now \in Nat /\ batch \in Batches /\ Sound(batch)
  BY DEF IInv, TypeOK
<1>2. SamePlaces(batch, e) /\ e.launchAt = batch.launchAt /\ e.nextLaunch = batch.nextLaunch
  BY <1>1 DEF Batches, SamePlaces, Timer
<1>3. batch' = Scheduled(e)
  BY DEF WakeTimer
<1> HIDE DEF e
<1>4. Queue(e) = Queue(batch)
  BY <1>2, SamePlacesSameQueue
<1>5. Sound(e)
  BY <1>1, <1>2, <1>4 DEF SamePlaces, Sound, Placed, IsComplete
<1>6. Edits(batch, e)
  BY <1>2, <1>4, <1>5 DEF Edits, SamePlaces, IInv
<1> QED
  BY <1>1, <1>3, <1>6, ScheduledCarries

LEMMA LaunchTimerCarries ==
  ASSUME IInv, turn # "none", LaunchTimer
  PROVE  Carried
<1> DEFINE b == [batch EXCEPT !.launchAt = NoTimer]
           m == Head(b.pending)
           l == Launched(b, {m})
           e == [l EXCEPT !.pending = Tail(@), !.launched = @ + 1]
<1>1. now \in Nat /\ batch \in Batches /\ Sound(batch) /\ Awake(batch)
  BY DEF IInv, TypeOK
<1>2. ~batch.finished /\ Placed(batch)
  BY <1>1 DEF LaunchTimer, IsDue, Sound
<1>3. SamePlaces(batch, b) /\ b.wake = batch.wake
  BY <1>1 DEF Batches, SamePlaces, Timer
<1>4. batch' = IF b.limited \/ b.pending = <<>> \/ AtConcurrencyLimit(b) THEN b ELSE Scheduled(e)
  BY DEF LaunchTimer
<1> HIDE DEF b
<1>5. b \in Batches /\ Queue(b) = Queue(batch) /\ Placed(b)
  BY <1>2, <1>3, SamePlacesSameQueue DEF SamePlaces, Placed
<1>6. CASE b.limited \/ b.pending = <<>> \/ AtConcurrencyLimit(b)
  <2>1. batch' = b
    BY <1>4, <1>6
  <2>2. Sound(b) /\ Awake(b)
    BY <1>1, <1>2, <1>3, <1>5, <1>6 DEF SamePlaces, Sound, Awake, IsComplete, AtConcurrencyLimit
  <2>3. Queue(b) \cap touched = {}
    BY <1>2, <1>5 DEF IInv
  <2>4. Final /\ Earned /\ b.active \subseteq batch.active
    BY <1>3, <2>1 DEF Final, Earned, SamePlaces
  <2> QED
    BY <1>5, <2>1, <2>2, <2>3, <2>4, NoLaunchCarries
<1>7. CASE ~(b.limited \/ b.pending = <<>> \/ AtConcurrencyLimit(b))
  <2>1. b.pending \in Seq(Members) /\ Queue(b) = Elems(b.pending) /\ Distinct(b.pending)
    BY <1>5, QueueIsElems DEF Placed
  <2>2. Len(b.pending) \in Nat /\ 1 \in 1..Len(b.pending) /\ m = b.pending[1] /\ m \in Members
    BY <1>7, <2>1, LenProperties, EmptySeq, ElementOfSeq
  <2> DEFINE rest == Tail(b.pending)
  <2>3. rest \in Seq(Members) /\ Distinct(rest) /\ Elems(rest) = Queue(b) \ {m} /\ m \in Queue(b)
    <3> DEFINE tail == SubSeq(b.pending, 1 + 1, Len(b.pending))
               L == {b.pending[i] : i \in 1..1}
    <3>1. rest = tail
      BY <2>1
    <3>2. L = {m}
      BY <2>2
    <3>3. 1 \in 0..Len(b.pending)
      BY <2>2
    <3>4. /\ tail \in Seq(Members) /\ Distinct(tail)
          /\ L \subseteq Elems(b.pending) /\ Elems(tail) = Elems(b.pending) \ L
      BY <2>1, <3>3, DropFirst
    <3> HIDE DEF L, rest, tail
    <3> QED
      BY <2>1, <3>1, <3>2, <3>4
  <2> HIDE DEF m
  <2>4. /\ l \in Batches /\ l.active = b.active \cup {m}
        /\ l.pending = b.pending /\ l.result = b.result
        /\ l.finished = b.finished /\ l.limited = b.limited
    BY <1>1, <1>5, <2>2, LaunchedPlaces
  <2>5. e = [l EXCEPT !.pending = rest, !.launched = @ + 1]
    BY <2>4
  <2> HIDE DEF l, rest, e
  <2>6. /\ e \in Batches /\ e.pending = rest /\ e.active = l.active
        /\ e.result = l.result /\ e.finished = l.finished /\ e.limited = l.limited
    <3>1. l.launched + 1 \in Nat
      BY <2>4 DEF Batches
    <3> QED
      BY <2>3, <2>4, <2>5, <3>1 DEF Batches
  <2>7. Queue(e) = Queue(b) \ {m} /\ e.active = b.active \cup {m}
    BY <2>3, <2>4, <2>6, QueueIsElems
  <2>8. Launches(b, e, {m})
    <3>1. Cardinality(b.active) + Cardinality({m}) <= MaxConcurrency
      <4>1. Cardinality(b.active) \in Nat /\ Cardinality({m}) = 1 /\ MaxConcurrency \in Nat
        BY <1>5, MembersAreFinite, FS_Singleton, SwarmAssumption DEF Batches
      <4>2. ~(Cardinality(b.active) >= MaxConcurrency)
        BY <1>7 DEF AtConcurrencyLimit
      <4> QED
        BY <4>1, <4>2
    <3> QED
      BY <1>5, <2>3, <2>4, <2>6, <2>7, <3>1, LaunchesThem
  <2>9. Sound(e)
    BY <1>2, <1>3, <1>5, <2>8 DEF Launches, SamePlaces, Sound, Placed
  <2>10. Edits(batch, e)
    <3>1. ~batch.limited /\ e.result = batch.result
      BY <1>3, <1>7, <2>4, <2>6 DEF SamePlaces
    <3>2. Queue(batch) \cap touched = {} /\ Queue(e) \subseteq Queue(batch)
      BY <1>2, <1>5, <2>7 DEF IInv
    <3>3. e.active \ batch.active \subseteq {m} /\ m \in Queue(batch)
      BY <1>3, <1>5, <2>3, <2>7 DEF SamePlaces
    <3> QED
      BY <2>6, <2>9, <3>1, <3>2, <3>3 DEF Edits
  <2>11. batch' = Scheduled(e)
    BY <1>4, <1>7
  <2> QED
    BY <1>1, <2>10, <2>11, ScheduledCarries
<1> QED
  BY <1>6, <1>7

(* The first batch.                                                        *)
LEMMA IdleIsSound == Idle \in Batches /\ Placed(Idle) /\ Sound(Idle)
<1> DEFINE line == [i \in Members |-> i]
<1>1. N \in Nat /\ Members = 1..N
  BY SwarmAssumption DEF Members
<1>2. line \in Seq(Members) /\ Len(line) = N /\ \A i \in 1..N : line[i] = i
  BY <1>1
<1>3. /\ [m \in Members |-> Unsettled] \in [Members -> Outcomes \cup {Unsettled}]
      /\ [m \in Members |-> 0] \in [Members -> Nat]
      /\ [m \in Members |-> NoTimer] \in [Members -> Timer]
      /\ NoTimer \in Timer
  BY DEF Timer
<1>4. Idle.pending = line
  BY DEF Idle
<1> HIDE DEF line
<1>5. Idle \in Batches
  BY <1>2, <1>3, <1>4 DEF Idle, Batches
<1>6. Queue(Idle) = Members
  BY <1>1, <1>2, <1>4 DEF Queue
<1>7. Distinct(Idle.pending)
  BY <1>2, <1>4 DEF Distinct
<1>8. Idle.active = {} /\ ~Idle.finished /\ \A m \in Members : Idle.result[m] = Unsettled
  BY DEF Idle
<1>9. Cardinality(Idle.active) <= MaxConcurrency
  BY <1>8, FS_EmptySet, SwarmAssumption
<1> QED
  BY <1>5, <1>6, <1>7, <1>8, <1>9 DEF Placed, Sound

LEMMA InitInv == Init => IInv
<1> SUFFICES ASSUME Init PROVE IInv
  OBVIOUS
<1>1. batch \in Batches /\ Sound(batch)
  BY IdleIsSound DEF Init
<1> QED
  BY <1>1 DEF Init, IInv, TypeOK

LEMMA CarriedKeepsInv ==
  ASSUME Carried, now' \in Nat, touched \subseteq Members, touched' = touched,
         unwinding' \subseteq Members, turn' \in {"live", "aborted"}, held' \in BOOLEAN
  PROVE  IInv'
<1>1. batch' \in Batches /\ Sound(batch)' /\ Awake(batch)'
  BY DEF Carried
<1>2. (~batch.finished => Queue(batch) \cap touched = {})'
  BY DEF Carried, Queue
<1> QED
  BY <1>1, <1>2 DEF IInv, TypeOK

(* The steps that leave the batch alone.                                   *)
LEMMA BatchUnchanged ==
  ASSUME UNCHANGED batch
  PROVE  Lawful /\ Final /\ Earned
BY DEF Lawful, Final, Earned, LaunchedNow

(* Before the batch runs there is nobody to act and no timer.              *)
LEMMA RunsFirst ==
  ASSUME IInv,
         \/ \E m \in Members : m \in batch.active
         \/ IsDue(batch.launchAt) \/ IsDue(batch.wake) \/ IsDue(batch.budget)
  PROVE  turn \in {"live", "aborted"}
<1>1. Idle.active = {} /\ Idle.launchAt = NoTimer /\ Idle.wake = NoTimer /\ Idle.budget = NoTimer
  BY DEF Idle
<1> QED
  BY <1>1 DEF IInv, TypeOK, IsDue

LEMMA StepInv ==
  ASSUME IInv, Next
  PROVE  IInv' /\ Lawful /\ Final /\ Earned
<1>0. /\ now \in Nat /\ batch \in Batches /\ Sound(batch)
      /\ touched \subseteq Members /\ unwinding \subseteq Members
      /\ turn \in {"none", "live", "aborted"} /\ held \in BOOLEAN
  BY DEF IInv, TypeOK
<1>c. ASSUME Carried PROVE Lawful /\ Final /\ Earned
  BY <1>c DEF Carried
<1>1. CASE Run
  <2>1. Carried
    BY <1>1, RunCarries
  <2> QED
    BY <1>0, <1>1, <1>c, <2>1, CarriedKeepsInv DEF Run
<1>2. CASE Stop
  <2>1. CASE Hears /\ ~batch.finished
    <3>1. batch' = Aborted(batch) /\ unwinding' = unwinding \cup batch.active
      BY <1>2, <2>1 DEF Stop
    <3>2. Carried
      BY <1>0, <3>1, AbortCarries
    <3>3. batch.active \subseteq Members
      BY <1>0 DEF Batches
    <3> QED
      BY <1>0, <1>2, <1>c, <3>1, <3>2, <3>3, CarriedKeepsInv DEF Stop
  <2>2. CASE ~(Hears /\ ~batch.finished)
    <3>1. UNCHANGED <<batch, unwinding>>
      BY <1>2, <2>2 DEF Stop
    <3>2. Carried
      BY <1>2, <3>1, UnchangedCarries DEF Stop
    <3> QED
      BY <1>0, <1>2, <1>c, <3>1, <3>2, CarriedKeepsInv DEF Stop
  <2> QED
    BY <2>1, <2>2
<1>3. CASE Tick
  <2>1. Carried
    BY <1>3, UnchangedCarries DEF Tick
  <2> QED
    BY <1>0, <1>3, <1>c, <2>1, CarriedKeepsInv DEF Tick, turnVars
<1>4. CASE LaunchTimer
  <2>1. turn \in {"live", "aborted"}
    BY <1>4, RunsFirst DEF LaunchTimer
  <2>2. Carried
    BY <1>4, <2>1, LaunchTimerCarries
  <2> QED
    BY <1>0, <1>4, <1>c, <2>1, <2>2, CarriedKeepsInv DEF LaunchTimer, turnVars
<1>5. CASE WakeTimer
  <2>1. turn \in {"live", "aborted"}
    BY <1>5, RunsFirst DEF WakeTimer
  <2>2. Carried
    BY <1>5, WakeTimerCarries
  <2> QED
    BY <1>0, <1>5, <1>c, <2>1, <2>2, CarriedKeepsInv DEF WakeTimer, turnVars
<1>6. CASE BudgetTimer
  <2>1. turn \in {"live", "aborted"}
    BY <1>6, RunsFirst DEF BudgetTimer
  <2>2. Carried
    BY <1>0, <1>6, AbortCarries DEF BudgetTimer
  <2>3. batch.active \subseteq Members
    BY <1>0 DEF Batches
  <2> QED
    BY <1>0, <1>6, <1>c, <2>1, <2>2, <2>3, CarriedKeepsInv DEF BudgetTimer, turnVars
<1>7. ASSUME NEW m \in Members, UsesTool(m)
      PROVE  IInv' /\ Lawful /\ Final /\ Earned
  <2>1. Lawful /\ Final /\ Earned
    BY <1>7, BatchUnchanged DEF UsesTool
  <2>2. m \in batch.active /\ batch' = batch /\ touched' = touched \cup {m}
        /\ now' = now /\ unwinding' = unwinding /\ turn' = turn /\ held' = held
    BY <1>7 DEF UsesTool, turnVars
  <2>3. ~batch.finished => (Queue(batch) \cap touched = {} /\ m \notin Queue(batch))
    BY <1>0, <2>2 DEF IInv, Sound, Placed
  <2>4. Sound(batch)' /\ (IF turn = "none" THEN batch = Idle ELSE Awake(batch))'
    BY <2>2 DEF IInv, Sound, Placed, Awake, IsComplete, AtConcurrencyLimit, Queue, Idle
  <2>5. (~batch.finished => Queue(batch) \cap touched = {})'
    BY <2>2, <2>3 DEF Queue
  <2> QED
    BY <1>0, <2>1, <2>2, <2>4, <2>5 DEF IInv, TypeOK
<1>8. ASSUME NEW m \in Members, HitsRateLimit(m)
      PROVE  IInv' /\ Lawful /\ Final /\ Earned
  <2>1. m \in batch.active /\ turn \in {"live", "aborted"}
    BY <1>8, RunsFirst DEF HitsRateLimit
  <2>2. Carried
    <3>1. CASE batch' = Scheduled(Settled(batch, m, "failed"))
      BY <2>1, <3>1, SettlingCarries DEF Outcomes
    <3>2. ASSUME ~IsDead(batch, m, m \in touched), NEW delay \in Delays(batch.retries[m] + 1),
                 batch' = Scheduled(Requeued(batch, m, delay))
          PROVE  Carried
      <4>1. delay \in Nat
        BY DEF Delays
      <4>2. m \notin touched
        BY <3>2 DEF IsDead
      <4> QED
        BY <2>1, <3>2, <4>1, <4>2, RequeuingCarries
    <3> QED
      BY <1>8, <3>1, <3>2 DEF HitsRateLimit
  <2> QED
    BY <1>0, <1>8, <1>c, <2>1, <2>2, CarriedKeepsInv DEF HitsRateLimit, turnVars
<1>9. ASSUME NEW m \in Members, TimesOut(m)
      PROVE  IInv' /\ Lawful /\ Final /\ Earned
  <2>1. m \in batch.active /\ turn \in {"live", "aborted"}
    BY <1>9, RunsFirst DEF TimesOut
  <2>2. Carried
    BY <1>9, <2>1, SettlingCarries DEF TimesOut, Outcomes
  <2> QED
    BY <1>0, <1>9, <1>c, <2>1, <2>2, CarriedKeepsInv DEF TimesOut, turnVars
<1>10. ASSUME NEW m \in Members, LateAnswer(m)
       PROVE  IInv' /\ Lawful /\ Final /\ Earned
  <2>1. Lawful /\ Final /\ Earned
    BY <1>10, BatchUnchanged DEF LateAnswer
  <2>2. /\ batch' = batch /\ touched' = touched /\ now' = now
        /\ unwinding' = unwinding \ {m} /\ turn' = turn /\ held' = held
    BY <1>10 DEF LateAnswer, turnVars
  <2>3. Sound(batch)' /\ (IF turn = "none" THEN batch = Idle ELSE Awake(batch))'
    BY <2>2 DEF IInv, Sound, Placed, Awake, IsComplete, AtConcurrencyLimit, Queue, Idle
  <2>4. (~batch.finished => Queue(batch) \cap touched = {})'
    BY <2>2 DEF Queue, IInv
  <2> QED
    BY <1>0, <2>1, <2>2, <2>3, <2>4 DEF IInv, TypeOK
<1>11. ASSUME NEW m \in Members, NEW o \in {"completed", "failed"}, Settles(m, o)
       PROVE  IInv' /\ Lawful /\ Final /\ Earned
  <2>1. m \in batch.active /\ turn \in {"live", "aborted"}
    BY <1>11, RunsFirst DEF Settles
  <2>2. Carried
    BY <1>11, <2>1, SettlingCarries DEF Settles, Outcomes
  <2> QED
    BY <1>0, <1>11, <1>c, <2>1, <2>2, CarriedKeepsInv DEF Settles, turnVars
<1> QED
  BY <1>1, <1>2, <1>3, <1>4, <1>5, <1>6, <1>7, <1>8, <1>9, <1>10, <1>11 DEF Next

LEMMA StutterInv ==
  ASSUME IInv, UNCHANGED vars
  PROVE  IInv' /\ Lawful /\ Final /\ Earned
<1>1. Lawful /\ Final /\ Earned
  BY BatchUnchanged DEF vars
<1>2. IInv'
  BY DEF IInv, TypeOK, vars, Sound, Placed, Awake, IsComplete, AtConcurrencyLimit, Queue
<1> QED
  BY <1>1, <1>2

THEOREM Invariance == Spec => []IInv
<1>1. IInv /\ [Next]_vars => IInv'
  BY StepInv, StutterInv
<1> QED
  BY <1>1, InitInv, PTL DEF Spec

-----------------------------------------------------------------------------
(* The properties                                                          *)

(* The fields of the scheduler have their types, the clock and the sets of *)
(* members theirs, for any batch and any limits.                           *)
THEOREM SwarmTypeOK == Spec => []TypeOK
<1>1. IInv => TypeOK
  BY DEF IInv
<1> QED
  BY <1>1, Invariance, PTL

(* No member is lost or in two places: queued, launched, settled.          *)
THEOREM MembersAreAccounted == Spec => []EveryMemberAccounted
<1>1. IInv => EveryMemberAccounted
  <2> SUFFICES ASSUME IInv PROVE EveryMemberAccounted
    OBVIOUS
  <2>1. batch \in Batches /\ Sound(batch)
    BY DEF IInv, TypeOK
  <2>2. CASE batch.finished
    BY <2>1, <2>2 DEF Sound, EveryMemberAccounted
  <2>3. CASE ~batch.finished
    <3>1. Placed(batch)
      BY <2>1, <2>3 DEF Sound
    <3>2. Len(batch.pending) = Cardinality(Queue(batch))
      BY <2>1, <3>1, QueueIsElems, DistinctCount DEF Placed
    <3> QED
      BY <2>3, <3>1, <3>2 DEF EveryMemberAccounted, Placed
  <2> QED
    BY <2>2, <2>3
<1> QED
  BY <1>1, Invariance, PTL

(* schedule() never leaves a queue without a timer or a full house.        *)
THEOREM BatchNeverStalls == Spec => []NeverStalls
<1>1. IInv => NeverStalls
  <2> SUFFICES ASSUME IInv, turn # "none", ~batch.finished PROVE NeverStalls
    BY DEF NeverStalls
  <2>1. batch \in Batches /\ Sound(batch) /\ Awake(batch)
    BY DEF IInv, TypeOK
  <2>2. PICK m \in Members : batch.result[m] = Unsettled
    BY <2>1 DEF Awake, IsComplete
  <2>3. m \in Queue(batch) \cup batch.active
    BY <2>1, <2>2 DEF Sound, Placed
  <2>4. batch.active # {} \/ batch.pending # <<>>
    BY <2>1, <2>3, QueueIsElems
  <2> QED
    BY <2>1, <2>4 DEF NeverStalls, Awake
<1> QED
  BY <1>1, Invariance, PTL

(* Whatever launches, a wave, a timer, a wakeup or a retry, keeps the cap, *)
(* the spacing, and away from members that have called a tool.             *)
THEOREM LaunchesStayLawful == Spec => LaunchesAreLawful
<1>1. IInv /\ [Next]_vars => [Lawful]_vars
  BY StepInv, StutterInv
<1>2. Lawful <=> (LaunchedNow # {} =>
                    /\ Cardinality(batch'.active) <= MaxConcurrency
                    /\ IsSpaced
                    /\ LaunchedNow \cap touched = {})
  BY DEF Lawful
<1> QED
  BY <1>1, <1>2, Invariance, PTL DEF Spec, LaunchesAreLawful

(* Neither a late answer nor an abort changes a result.                    *)
THEOREM ResultsStayFinal == Spec => ResultsAreFinal
<1>1. IInv /\ [Next]_vars => [Final]_vars
  BY StepInv, StutterInv
<1>2. Final <=> (\A m \in Members : batch.result[m] # Unsettled => batch'.result[m] = batch.result[m])
  BY DEF Final
<1> QED
  BY <1>1, <1>2, Invariance, PTL DEF Spec, ResultsAreFinal
-----------------------------------------------------------------------------
(* The scheduler implements BatchContract.                                 *)

(* Tools are called by the step that does nothing else.                    *)
LEMMA TouchesAlone ==
  ASSUME [Next]_vars
  PROVE  touched \subseteq touched' /\ (touched' # touched => batch' = batch)
<1>1. CASE \E m \in Members : UsesTool(m)
  BY <1>1 DEF UsesTool
<1>2. CASE UNCHANGED vars \/ Run \/ Stop \/ Tick \/ LaunchTimer \/ WakeTimer \/ BudgetTimer
  BY <1>2 DEF vars, Run, Stop, Tick, LaunchTimer, WakeTimer, BudgetTimer
<1>3. CASE \E m \in Members :
             \/ HitsRateLimit(m) \/ TimesOut(m) \/ LateAnswer(m)
             \/ \E o \in {"completed", "failed"} : Settles(m, o)
  BY <1>3 DEF HitsRateLimit, TimesOut, LateAnswer, Settles
<1> QED
  BY <1>1, <1>2, <1>3 DEF Next

(* The stage of a member, and who is at work: exactly those in flight.     *)
LEMMA StageOf ==
  ASSUME NEW r \in [Members -> Outcomes \cup {Unsettled}], NEW A, NEW T, NEW m \in Members,
         NEW s, s = IF r[m] # Unsettled THEN r[m]
                    ELSE IF m \notin A THEN "waiting"
                    ELSE IF m \in T THEN "acting" ELSE "trying"
  PROVE  /\ s \in Contract!Stages
         /\ s \in Contract!Verdicts <=> r[m] # Unsettled
         /\ s \in Contract!AtWork <=> r[m] = Unsettled /\ m \in A
<1>1. r[m] # Unsettled => r[m] \in Outcomes
  OBVIOUS
<1> QED
  BY <1>1 DEF Contract!Stages, Contract!Verdicts, Contract!AtWork, Outcomes

(* A member goes on by one of the passages, because of what a step owes.   *)
LEMMA MemberPasses ==
  ASSUME IInv, IInv', Lawful, Final, Earned,
         touched \subseteq touched', touched' # touched => batch' = batch,
         NEW m \in Members, Stage'[m] # Stage[m]
  PROVE  <<Stage[m], Stage'[m]>> \in Contract!Passages
<1>1. /\ batch \in Batches /\ Sound(batch) /\ batch' \in Batches /\ Sound(batch)'
  BY DEF IInv, TypeOK
<1>2. /\ Stage[m] = IF batch.result[m] # Unsettled THEN batch.result[m]
                    ELSE IF m \notin batch.active THEN "waiting"
                    ELSE IF m \in touched THEN "acting" ELSE "trying"
      /\ Stage'[m] = IF batch'.result[m] # Unsettled THEN batch'.result[m]
                     ELSE IF m \notin batch'.active THEN "waiting"
                     ELSE IF m \in touched' THEN "acting" ELSE "trying"
  BY DEF Stage
<1>3. batch.result[m] = Unsettled
  BY <1>2 DEF Final
<1>4. CASE m \notin batch.active
  <2>1. Stage[m] = "waiting"
    BY <1>2, <1>3, <1>4
  <2>2. CASE batch'.result[m] # Unsettled
    BY <1>2, <1>3, <1>4, <2>1, <2>2 DEF Earned, Contract!Passages
  <2>3. CASE batch'.result[m] = Unsettled
    <3>1. m \in batch'.active /\ m \in LaunchedNow
      BY <1>2, <1>4, <2>1, <2>3 DEF LaunchedNow
    <3>2. m \notin touched /\ touched' = touched
      BY <1>4, <3>1 DEF Lawful
    <3>3. Stage'[m] = "trying"
      BY <1>2, <2>3, <3>1, <3>2
    <3> QED
      BY <2>1, <3>3 DEF Contract!Passages
  <2> QED
    BY <2>2, <2>3
<1>5. CASE m \in batch.active
  <2>1. Stage[m] = IF m \in touched THEN "acting" ELSE "trying"
    BY <1>2, <1>3, <1>5
  <2>2. Stage[m] \in Contract!AtWork
    BY <2>1 DEF Contract!AtWork
  <2>3. CASE batch'.result[m] # Unsettled
    <3>1. batch'.result[m] \in Outcomes
      BY <1>1, <2>3 DEF Batches
    <3>2. Stage'[m] \in Contract!Verdicts
      BY <1>2, <2>3, <3>1 DEF Contract!Verdicts, Outcomes
    <3> QED
      BY <2>2, <3>2 DEF Contract!Passages
  <2>4. CASE batch'.result[m] = Unsettled /\ m \in batch'.active
    <3>1. Stage'[m] = IF m \in touched' THEN "acting" ELSE "trying"
      BY <1>2, <2>4
    <3> QED
      BY <2>1, <3>1 DEF Contract!Passages
  <2>5. CASE batch'.result[m] = Unsettled /\ m \notin batch'.active
    <3>1. ~batch'.finished
      BY <1>1, <2>5 DEF Sound, IsComplete
    <3>2. m \in Queue(batch')
      <4>1. Placed(batch')
        BY <1>1, <3>1 DEF Sound, Placed, Queue
      <4> QED
        BY <2>5, <4>1 DEF Placed
    <3>3. Queue(batch') \cap touched' = {}
      BY <3>1 DEF IInv, Queue
    <3>4. Stage[m] = "trying" /\ Stage'[m] = "waiting"
      BY <1>2, <2>1, <2>5, <3>2, <3>3
    <3> QED
      BY <3>4 DEF Contract!Passages
  <2> QED
    BY <2>3, <2>4, <2>5
<1> QED
  BY <1>4, <1>5

(* A batch that has resolved stays so.                                     *)
LEMMA ResolvedStays ==
  ASSUME IInv, IInv', Final, batch.finished
  PROVE  batch'.finished /\ UNCHANGED Stage
<1>1. IsComplete(batch) /\ Sound(batch)'
  BY DEF IInv, Sound
<1>2. \A m \in Members : batch.result[m] # Unsettled /\ batch'.result[m] = batch.result[m]
  BY <1>1 DEF IsComplete, Final
<1>3. batch'.finished
  <2>1. 1 \in Members
    BY SwarmAssumption DEF Members
  <2>2. Idle.result[1] = Unsettled
    BY <2>1 DEF Idle
  <2>3. batch' # Idle
    BY <1>2, <2>1, <2>2
  <2>4. Awake(batch')
    BY <2>3 DEF IInv, Awake, IsComplete, AtConcurrencyLimit, Idle
  <2> QED
    BY <1>2, <2>4 DEF Awake, IsComplete
<1>4. Stage' = Stage
  BY <1>2 DEF Stage
<1> QED
  BY <1>3, <1>4

(* Every step of the scheduler is a step of the contract or none.          *)
LEMMA NextContract ==
  ASSUME IInv, IInv', Lawful, Final, Earned,
         touched \subseteq touched', touched' # touched => batch' = batch
  PROVE  Contract!Next
<1>1. batch' \in Batches /\ Sound(batch)'
  BY DEF IInv, TypeOK
<1>2. \A m \in Members :
        /\ Stage'[m] \in Contract!Stages
        /\ Stage'[m] \in Contract!Verdicts <=> batch'.result[m] # Unsettled
        /\ Stage'[m] \in Contract!AtWork <=> batch'.result[m] = Unsettled /\ m \in batch'.active
  <2>1. batch'.result \in [Members -> Outcomes \cup {Unsettled}]
    BY <1>1 DEF Batches
  <2>2. \A m \in Members :
          Stage'[m] = IF batch'.result[m] # Unsettled THEN batch'.result[m]
                      ELSE IF m \notin batch'.active THEN "waiting"
                      ELSE IF m \in touched' THEN "acting" ELSE "trying"
    BY DEF Stage
  <2> QED
    BY <2>1, <2>2, StageOf
<1>3. Stage' \in [Members -> Contract!Stages]
  BY <1>2 DEF Stage
<1>4. \A m \in Members : Stage'[m] # Stage[m] => <<Stage[m], Stage'[m]>> \in Contract!Passages
  BY MemberPasses
<1>5. Cardinality({m \in Members : Stage'[m] \in Contract!AtWork}) <= MaxConcurrency
  <2> DEFINE W == {m \in Members : Stage'[m] \in Contract!AtWork}
  <2>1. W \subseteq batch'.active /\ batch'.active \in SUBSET Members
    BY <1>1, <1>2 DEF Batches
  <2>2. Cardinality(batch'.active) <= MaxConcurrency
    <3>1. CASE batch'.finished
      <4>1. batch'.active = {}
        BY <1>1, <3>1 DEF Sound
      <4>2. Cardinality({}) = 0
        BY FS_EmptySet, Zenon
      <4> QED
        BY <4>1, <4>2, SwarmAssumption
    <3>2. CASE ~batch'.finished
      BY <1>1, <3>2 DEF Sound, Placed
    <3> QED
      BY <3>1, <3>2
  <2> HIDE DEF W
  <2>3. IsFiniteSet(batch'.active) /\ Cardinality(batch'.active) \in Nat
    BY <2>1, MembersAreFinite
  <2>4. Cardinality(W) <= Cardinality(batch'.active) /\ Cardinality(W) \in Nat
    BY <2>1, <2>3, FS_Subset, FS_CardinalityType
  <2>5. Cardinality(W) <= MaxConcurrency
    BY <2>2, <2>3, <2>4, SwarmAssumption
  <2> QED
    BY <2>5 DEF W
<1>6. batch.finished => batch'.finished /\ UNCHANGED Stage
  BY ResolvedStays
<1>7. batch'.finished => \A m \in Members : Stage'[m] \in Contract!Verdicts
  BY <1>1, <1>2 DEF Sound, IsComplete
<1>8. Contract!Cardinality({m \in Members : Stage'[m] \in Contract!AtWork})
        = Cardinality({m \in Members : Stage'[m] \in Contract!AtWork})
  BY DEF Contract!Cardinality, Cardinality
<1> QED
  BY <1>3, <1>4, <1>5, <1>6, <1>7, <1>8 DEF Contract!Next

(* The scheduler keeps its contract with the turn and with the members,    *)
(* for any number of them, any limits, any jitter and any late answer.     *)
THEOREM BatchKeepsContract == Spec => KeepsContract
<1>1. Init => Contract!Init
  <2> SUFFICES ASSUME Init PROVE Contract!Init
    OBVIOUS
  <2>1. \A m \in Members : Idle.result[m] = Unsettled
    BY DEF Idle
  <2>2. Idle.active = {} /\ Idle.finished = FALSE
    BY DEF Idle
  <2> QED
    BY <2>1, <2>2 DEF Init, Stage, Contract!Init
<1>2. IInv /\ IInv' /\ [Next]_vars => [Contract!Next]_(Contract!contractVars)
  <2> SUFFICES ASSUME IInv, IInv', [Next]_vars PROVE Contract!Next
    OBVIOUS
  <2>1. Lawful /\ Final /\ Earned
    BY StepInv, StutterInv
  <2> QED
    BY <2>1, TouchesAlone, NextContract
<1> QED
  BY <1>1, <1>2, Invariance, PTL DEF Spec, KeepsContract, Contract!Spec
=============================================================================
