-------------------------- MODULE McpConnectionProofs --------------------------
(***************************************************************************)
(* Proofs about McpConnection, for any policy and any number of calls.     *)
(* What holds whatever meets whatever (the types, the honest state) is     *)
(* inductive as it stands.  What holds while nothing has crossed needs to  *)
(* know what each state of the connection says about its processes, its    *)
(* calls and its retries: Orderly.                                         *)
(***************************************************************************)
EXTENDS McpConnection, FiniteSetTheorems, TLAPS

Used == Opening \cup Up

(* One after the other: an attempt has the connection for itself, only a   *)
(* ready connection has a transport, only the process of the transport is  *)
(* up, and one retry, which the budget pays for, waits.                    *)
Orderly ==
  /\ \A p, q \in Opening : p = q
  /\ \A p \in Opening : state = "connecting"
  /\ \A p \in Up : transport = p
  /\ transport # None => state = "ready"
  /\ \A s \in Slots : due[s] # Never => state = "backoff" /\ handle = s /\ tries < MaxAttempts
  /\ tries <= MaxAttempts

IInv == TypeOK /\ StateIsHonest /\ (~crossed => Orderly)

-----------------------------------------------------------------------------
LEMMA DelayIsBounded == \A n : Delay(n) \in 1..MaxDelay
BY McpAssumption DEF Delay

(* What a failure leaves, whatever the budget says.                        *)
LEMMA RetriesAreScheduled ==
  ASSUME TypeOK, NEW otherwise, SchedulesRetry(otherwise)
  PROVE  /\ tries' \in Nat /\ tries' <= tries
         /\ due' \in [Slots -> Moment] /\ handle' \in Slots \cup {0}
         /\ \A s \in Slots : due'[s] # Never => due'[s] <= now + MaxDelay
         /\ \/ state' = otherwise /\ due' = due /\ handle' = handle
            \/ /\ state' = "backoff" /\ tries' < MaxAttempts /\ handle' \in Slots
               /\ due'[handle'] # Never
               /\ \A s \in Slots \ {handle'} : due'[s] = due[s]
<1> DEFINE spent == IF IsStable THEN 0 ELSE tries
<1>1. spent \in Nat /\ spent <= tries /\ tries' = spent
  BY DEF SchedulesRetry, TypeOK
<1> HIDE DEF spent
<1>2. CASE MayRetry(spent)
  <2>1. PICK s \in Slots :
          /\ due[s] = Never /\ due' = [due EXCEPT ![s] = now + Delay(spent)]
          /\ handle' = s /\ state' = "backoff"
    BY <1>2 DEF SchedulesRetry, spent
  <2>2. now + Delay(spent) \in Nat /\ now + Delay(spent) <= now + MaxDelay
        /\ now + Delay(spent) # Never
    <3>1. Delay(spent) \in 1..MaxDelay
      BY DelayIsBounded
    <3> QED
      BY <3>1, McpAssumption DEF TypeOK
  <2>3. spent < MaxAttempts
    BY <1>2 DEF MayRetry
  <2>4. due' \in [Slots -> Moment]
    BY <2>1, <2>2 DEF TypeOK, Moment
  <2>5. \A r \in Slots : due'[r] # Never => due'[r] <= now + MaxDelay
    BY <2>1, <2>2 DEF TypeOK
  <2> QED
    BY <1>1, <2>1, <2>2, <2>3, <2>4, <2>5 DEF TypeOK
<1>3. CASE ~MayRetry(spent)
  BY <1>1, <1>3 DEF SchedulesRetry, spent, TypeOK
<1> QED
  BY <1>2, <1>3

LEMMA OpensOne ==
  ASSUME TypeOK, NEW w \in Calls \cup {"start", "timer"}, Opens(w)
  PROVE  /\ state' = "connecting"
         /\ proc' \in [Procs -> {"unborn", "opening", "up", "leaving", "gone"}]
         /\ opener' \in [Procs -> Calls \cup {"start", "timer"}]
         /\ Up' = Up
         /\ \E p \in Procs : Opening' = Opening \cup {p}
<1>1. PICK p \in Procs :
        /\ proc[p] = "unborn" /\ proc' = [proc EXCEPT ![p] = "opening"]
        /\ opener' = [opener EXCEPT ![p] = w] /\ state' = "connecting"
  BY DEF Opens
<1>2. Opening' = Opening \cup {p} /\ Up' = Up
  BY <1>1 DEF Opening, Up, TypeOK
<1> QED
  BY <1>1, <1>2 DEF TypeOK

LEMMA CancelledIsArmed ==
  ASSUME TypeOK
  PROVE  /\ Cancelled \in [Slots -> Moment]
         /\ \A s \in Slots : Cancelled[s] = due[s] \/ Cancelled[s] = Never
         /\ handle # 0 => Cancelled[handle] = Never
BY DEF Cancelled, TypeOK, Moment

LEMMA InitOK == Init => IInv
<1> SUFFICES ASSUME Init PROVE IInv
  OBVIOUS
<1>1. TypeOK
  BY McpAssumption DEF Init, TypeOK, Moment
<1>2. StateIsHonest
  BY DEF Init, StateIsHonest
<1>3. Orderly
  BY McpAssumption DEF Init, Orderly, Opening, Up
<1> QED
  BY <1>1, <1>2, <1>3 DEF IInv

-----------------------------------------------------------------------------
(* Types and the honest state: every step, whatever has crossed            *)

LEMMA StepsKeepTypes ==
  ASSUME TypeOK, StateIsHonest, [Next]_vars
  PROVE  TypeOK' /\ StateIsHonest'
<1> USE DEF TypeOK, Moment
<1>1. CASE Start
  <2>1. Opens("start") /\ tries' = 1
        /\ UNCHANGED <<transport, lastReady, due, handle, call, discovering, face, now, crossed>>
    BY <1>1 DEF Start
  <2> QED
    BY <2>1, OpensOne DEF StateIsHonest
<1>2. CASE Discovers
  <2>1. discovering' = FALSE /\ face' \in BOOLEAN
        /\ UNCHANGED <<connVars, proc, opener, call, now, crossed>>
    BY <1>2, Zenon DEF Discovers, TypeOK
  <2> QED
    BY <2>1 DEF StateIsHonest, connVars
<1>3. CASE Dispose
  <2>1. crossed' \in BOOLEAN
    BY <1>3, Zenon DEF Dispose, Crosses
  <2>2. /\ state' = "disposed" /\ due' = Cancelled /\ handle' = 0 /\ proc' = Reaped
        /\ transport' = None
        /\ UNCHANGED <<tries, lastReady, opener, call, discovering, face, now>>
    BY <1>3 DEF Dispose
  <2>3. Reaped \in [Procs -> {"unborn", "opening", "up", "leaving", "gone"}]
    BY DEF Reaped
  <2> QED
    BY <2>1, <2>2, <2>3, CancelledIsArmed DEF StateIsHonest
<1>4. CASE Tick
  <2>1. now' = now + 1 /\ UNCHANGED <<connVars, proc, opener, call, discovering, face, crossed>>
    BY <1>4 DEF Tick
  <2>2. now' \in Nat /\ \A s \in Slots : due'[s] # Never => due'[s] <= now' + MaxDelay
    BY <2>1, McpAssumption DEF connVars
  <2> QED
    BY <2>1, <2>2 DEF connVars, StateIsHonest
<1>5. ASSUME NEW p \in Procs, Connects(p) PROVE TypeOK' /\ StateIsHonest'
  <2>1. discovering' \in BOOLEAN
    BY <1>5, Zenon DEF Connects, TypeOK
  <2>2. call' \in [Calls -> Procs \cup {None}]
    BY <1>5 DEF Connects
  <2>3. p # None
    BY McpAssumption DEF Procs
  <2> QED
    BY <1>5, <2>1, <2>2, <2>3 DEF Connects, StateIsHonest
<1>6. ASSUME NEW p \in Procs, ConnectFails(p) PROVE TypeOK' /\ StateIsHonest'
  <2>1. /\ proc' \in [Procs -> {"unborn", "opening", "up", "leaving", "gone"}]
        /\ transport' = None
        /\ UNCHANGED <<lastReady, opener, call, discovering, face, now, crossed>>
    BY <1>6 DEF ConnectFails
  <2>2. CASE state = "disposed" /\ UNCHANGED <<state, tries, due, handle>>
    BY <2>1, <2>2 DEF StateIsHonest
  <2>3. ASSUME NEW o \in {"disposed", "failed"}, SchedulesRetry(o)
        PROVE  TypeOK' /\ StateIsHonest'
    BY <2>1, <2>3, RetriesAreScheduled DEF StateIsHonest
  <2> QED
    BY <1>6, <2>2, <2>3 DEF ConnectFails
<1>7. ASSUME NEW p \in Procs, Exits(p) PROVE TypeOK' /\ StateIsHonest'
  BY <1>7 DEF Exits, connVars, StateIsHonest
<1>8. ASSUME NEW s \in Slots, RetryFires(s) PROVE TypeOK' /\ StateIsHonest'
  <2>1. /\ due' = [due EXCEPT ![s] = Never] /\ handle' = 0 /\ tries' = tries + 1
        /\ UNCHANGED <<transport, lastReady, call, discovering, face, now, crossed>>
    BY <1>8 DEF RetryFires
  <2>2. CASE state = "disposed"
    BY <1>8, <2>1, <2>2 DEF RetryFires, StateIsHonest
  <2>3. CASE state # "disposed"
    <3>1. Opens("timer")
      BY <1>8, <2>3 DEF RetryFires
    <3> QED
      BY <2>1, <3>1, OpensOne DEF StateIsHonest
  <2> QED
    BY <2>2, <2>3
<1>9. ASSUME NEW c \in Calls, Dispatch(c) PROVE TypeOK' /\ StateIsHonest'
  <2>1. crossed' \in BOOLEAN
    BY <1>9, Zenon DEF Dispatch, Crosses
  <2>2. UNCHANGED <<transport, tries, lastReady, discovering, face, now>>
    BY <1>9 DEF Dispatch
  <2>3. CASE state = "ready"
    <3>1. call' = [call EXCEPT ![c] = transport] /\ UNCHANGED <<state, due, handle, proc, opener>>
      BY <1>9, <2>3 DEF Dispatch
    <3> QED
      BY <2>1, <2>2, <3>1 DEF StateIsHonest
  <2>4. CASE state # "ready"
    <3>1. Opens(c) /\ due' = Cancelled /\ handle' = 0 /\ UNCHANGED call
      BY <1>9, <2>4 DEF Dispatch
    <3> QED
      BY <2>1, <2>2, <3>1, OpensOne, CancelledIsArmed DEF StateIsHonest
  <2> QED
    BY <2>3, <2>4
<1>10. ASSUME NEW c \in Calls, CallReturns(c) PROVE TypeOK' /\ StateIsHonest'
  BY <1>10 DEF CallReturns, connVars, StateIsHonest
<1>11. ASSUME NEW c \in Calls, CallFindsItGone(c) \/ CallIsRefused(c)
       PROVE  TypeOK' /\ StateIsHonest'
  <2>1. /\ LosesServer(c) /\ crossed' \in BOOLEAN
        /\ call' = [call EXCEPT ![c] = None]
        /\ UNCHANGED <<lastReady, proc, opener, discovering, face, now>>
    <3>1. LosesServer(c)
      BY <1>11 DEF CallFindsItGone, CallIsRefused
    <3>2. crossed' \in BOOLEAN
      BY <3>1, Zenon DEF LosesServer, TypeOK
    <3> QED
      BY <3>1, <3>2 DEF LosesServer
  <2>2. CASE UNCHANGED connVars
    BY <2>1, <2>2 DEF connVars, StateIsHonest
  <2>3. CASE transport' = None /\ SchedulesRetry("failed")
    BY <2>1, <2>3, RetriesAreScheduled DEF StateIsHonest
  <2> QED
    BY <2>1, <2>2, <2>3 DEF LosesServer
<1>12. CASE UNCHANGED vars
  BY <1>12 DEF vars, connVars, StateIsHonest
<1> QED
  BY <1>1, <1>2, <1>3, <1>4, <1>5, <1>6, <1>7, <1>8, <1>9, <1>10, <1>11, <1>12 DEF Next

-----------------------------------------------------------------------------
(* The order, while nothing crosses                                        *)

LEMMA StepsKeepOrder ==
  ASSUME TypeOK, Orderly, ~crossed, ~crossed', [Next]_vars
  PROVE  Orderly'
<1> USE DEF TypeOK, Orderly
<1>1. CASE Start
  <2>1. /\ Opens("start") /\ tries' = 1 /\ state = "idle"
        /\ UNCHANGED <<transport, due, handle, call>>
    BY <1>1 DEF Start
  <2>2. Opening = {} /\ Up = {} /\ transport = None
    BY <2>1, McpAssumption DEF Up, Procs
  <2> QED
    BY <2>1, <2>2, OpensOne, McpAssumption
<1>2. CASE Discovers
  BY <1>2 DEF Discovers, connVars, Opening, Up
<1>3. CASE Dispose
  <2>1. Opening = {}
    BY <1>3 DEF Dispose, Crosses
  <2>2. /\ due' = Cancelled /\ proc' = Reaped /\ transport' = None /\ UNCHANGED tries
    BY <1>3 DEF Dispose
  <2>3. \A s \in Slots : due'[s] = Never
    BY <2>2, CancelledIsArmed DEF Slots, McpAssumption
  <2>4. Opening' = {} /\ Up' = {}
    BY <2>1, <2>2, McpAssumption DEF Reaped, Opening, Up, Procs
  <2> QED
    BY <2>1, <2>2, <2>3, <2>4
<1>4. CASE Tick
  BY <1>4 DEF Tick, connVars, Opening, Up
<1>5. ASSUME NEW p \in Procs, Connects(p) PROVE Orderly'
  <2>1. p \in Opening
    BY <1>5 DEF Connects, Opening
  <2>2. Opening = {p} /\ Up = {} /\ state = "connecting"
    BY <2>1, McpAssumption DEF Up, Procs
  <2>3. Opening' = {} /\ Up' = {p}
    BY <1>5, <2>2 DEF Connects, Opening, Up
  <2>4. transport' = p /\ state' = "ready" /\ UNCHANGED <<due, tries, handle>>
    BY <1>5 DEF Connects
  <2> QED
    BY <2>2, <2>3, <2>4
<1>6. ASSUME NEW p \in Procs, ConnectFails(p) PROVE Orderly'
  <2>1. p \in Opening
    BY <1>6 DEF ConnectFails, Opening
  <2>2. Opening = {p} /\ Up = {} /\ state = "connecting"
    BY <2>1, McpAssumption DEF Up, Procs
  <2>3. Opening' = {} /\ Up' = {} /\ transport' = None
    BY <1>6, <2>2 DEF ConnectFails, Opening, Up
  <2>4. SchedulesRetry("failed")
    BY <1>6, <2>2 DEF ConnectFails
  <2> QED
    BY <2>2, <2>3, <2>4, RetriesAreScheduled, McpAssumption
<1>7. ASSUME NEW p \in Procs, Exits(p) PROVE Orderly'
  BY <1>7 DEF Exits, connVars, Opening, Up
<1>8. ASSUME NEW s \in Slots, RetryFires(s) PROVE Orderly'
  <2>1. /\ due[s] # Never /\ due' = [due EXCEPT ![s] = Never] /\ tries' = tries + 1
        /\ UNCHANGED transport
    BY <1>8 DEF RetryFires, IsDue
  <2>2. state = "backoff" /\ handle = s /\ tries < MaxAttempts
    BY <2>1
  <2>3. Opening = {} /\ Up = {} /\ transport = None /\ Opens("timer")
    BY <1>8, <2>2, McpAssumption DEF RetryFires, Up, Procs
  <2>4. \A r \in Slots : due'[r] = Never
    BY <2>1, <2>2
  <2> QED
    BY <2>1, <2>2, <2>3, <2>4, OpensOne, McpAssumption
<1>9. ASSUME NEW c \in Calls, Dispatch(c) PROVE Orderly'
  <2>1. state # "ready" => Opening = {}
    BY <1>9 DEF Dispatch, Crosses
  <2>2. UNCHANGED <<transport, tries>>
    BY <1>9 DEF Dispatch
  <2>3. CASE state = "ready"
    <3>1. UNCHANGED <<state, due, handle, proc>>
      BY <1>9, <2>3 DEF Dispatch
    <3> QED
      BY <2>2, <3>1 DEF Opening, Up
  <2>4. CASE state # "ready"
    <3>1. Opens(c) /\ due' = Cancelled /\ handle' = 0
      BY <1>9, <2>4 DEF Dispatch
    <3>2. Up = {} /\ transport = None
      BY <2>4, McpAssumption DEF Up, Procs
    <3>3. \A s \in Slots : due'[s] = Never
      BY <3>1, CancelledIsArmed DEF Slots, McpAssumption
    <3> QED
      BY <2>1, <2>2, <2>4, <3>1, <3>2, <3>3, OpensOne
  <2> QED
    BY <2>3, <2>4
<1>10. ASSUME NEW c \in Calls, CallReturns(c) PROVE Orderly'
  BY <1>10 DEF CallReturns, connVars, Opening, Up
<1>11. ASSUME NEW c \in Calls, CallFindsItGone(c) \/ CallIsRefused(c) PROVE Orderly'
  <2>1. LosesServer(c) /\ call[c] # None /\ call[c] \in Procs \cup {None} /\ UNCHANGED proc
    BY <1>11, McpAssumption DEF CallFindsItGone, CallIsRefused, LosesServer, Up, Procs
  <2>2. Opening' = Opening /\ Up' = Up
    BY <2>1 DEF Opening, Up
  <2>3. CASE ~IsLoss
    BY <2>1, <2>2, <2>3 DEF LosesServer, connVars
  <2>4. CASE IsLoss
    <3>1. call[c] \notin Up /\ call[c] = transport
      BY <2>1, <2>4 DEF LosesServer
    <3>2. state = "ready" /\ Up = {} /\ Opening = {}
      BY <2>1, <3>1
    <3>3. transport' = None /\ SchedulesRetry("failed")
      BY <2>1, <2>4 DEF LosesServer
    <3> QED
      BY <2>2, <3>2, <3>3, RetriesAreScheduled, McpAssumption
  <2> QED
    BY <2>3, <2>4
<1>12. CASE UNCHANGED vars
  BY <1>12 DEF vars, connVars, Opening, Up
<1> QED
  BY <1>1, <1>2, <1>3, <1>4, <1>5, <1>6, <1>7, <1>8, <1>9, <1>10, <1>11, <1>12
  DEF Next

(* Nothing is forgotten.                                                   *)
LEMMA CrossedStays == ASSUME [Next]_vars PROVE crossed => crossed'
BY Zenon DEF Next, vars, connVars, Start, Discovers, Dispose, Tick, Connects, ConnectFails,
  Exits, RetryFires, Dispatch, CallReturns, CallFindsItGone, CallIsRefused, LosesServer, Crosses

LEMMA McpInvariant == Spec => []IInv
<1>1. ASSUME IInv, [Next]_vars PROVE IInv'
  <2>1. TypeOK' /\ StateIsHonest'
    BY <1>1, StepsKeepTypes DEF IInv
  <2>2. ~crossed' => Orderly'
    BY <1>1, StepsKeepOrder, CrossedStays DEF IInv
  <2> QED
    BY <2>1, <2>2 DEF IInv
<1> QED
  BY <1>1, InitOK, PTL DEF Spec

-----------------------------------------------------------------------------
(* Every variable keeps its type and no retry is armed for later than the  *)
(* longest delay, for any policy (connection.ts, reconnect.ts).            *)
THEOREM McpTypeOK == Spec => []TypeOK
<1>1. IInv => TypeOK
  BY DEF IInv
<1> QED
  BY <1>1, McpInvariant, PTL

(* A connection that is ready has a transport and one that backs off has a *)
(* retry armed, whichever dispatches, losses and disposals meet            *)
(* (connection.ts).                                                        *)
THEOREM ConnectionStateIsHonest == Spec => []StateIsHonest
<1>1. IInv => StateIsHonest
  BY DEF IInv
<1> QED
  BY <1>1, McpInvariant, PTL

(* While nothing crosses, one process at most is being opened or used, the *)
(* budget holds and a disposal tells every process to end, for any policy, *)
(* calls and bounds, and however long the processes that were told to end  *)
(* take to do so (connection.ts, reconnect.ts).                            *)
THEOREM ProcessesComeOneByOne == Spec => []OneProcessInUse
<1>1. IInv => OneProcessInUse
  <2> SUFFICES ASSUME IInv, ~crossed
               PROVE  /\ Cardinality(Used) <= 1
                      /\ tries <= MaxAttempts
                      /\ state = "disposed" => Used = {}
    BY DEF OneProcessInUse, Used
  <2>0. \A p \in Up : p = transport /\ state = "ready"
    BY McpAssumption DEF IInv, Orderly, Up, Procs
  <2>1. \A p, q \in Used : p = q
    BY <2>0 DEF IInv, Orderly, Used
  <2>2. Cardinality(Used) <= 1
    <3>1. CASE Used = {}
      BY <3>1, FS_EmptySet
    <3>2. CASE Used # {}
      <4>1. PICK p : Used = {p}
        BY <2>1, <3>2
      <4> QED
        BY <4>1, FS_Singleton
    <3> QED
      BY <3>1, <3>2
  <2> QED
    BY <2>0, <2>2 DEF IInv, Orderly, Used
<1> QED
  BY <1>1, McpInvariant, PTL
=============================================================================
