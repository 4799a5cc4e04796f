------------------------ MODULE ConnectivityProofs ------------------------
(***************************************************************************)
(* TLAPS proofs about Connectivity, for every polling frequency, timeout   *)
(* and leeway.                                                             *)
(*                                                                         *)
(* The status that the monitor stores bounds the age of its last success:  *)
(* the success lies at most timeDiff before the last attempt, which is     *)
(* lastAttempt old.  With the two comparisons of QueryArrayStatus this     *)
(* gives ConnectedIsRecent.                                                *)
(***************************************************************************)
EXTENDS Connectivity, TLAPS

StatusBoundsSuccess == reached <= lastAttempt + timeDiff
IInv == TypeOK /\ StatusBoundsSuccess

LEMMA CapType == Cap \in Nat /\ tolerance \in Nat /\ Cap > 0
  BY PollingAssumption DEF Cap, tolerance

\* Ages stay ages, and grow by one second up to Cap.
LEMMA OlderType ==
  ASSUME NEW age \in Ages
  PROVE  /\ Older(age) \in Ages
         /\ age < Cap => Older(age) = age + 1
         /\ age = Cap => Older(age) = Cap
  BY CapType DEF Older, Ages

LEMMA SumType ==
  ASSUME NEW x \in Ages, NEW y \in Ages
  PROVE  /\ Sum(x, y) \in Ages
         /\ Sum(x, y) = x + y \/ Sum(x, y) = Cap
  BY CapType DEF Sum, Ages

LEMMA InitIInv == Init => IInv
<1> SUFFICES ASSUME Init PROVE IInv
  OBVIOUS
<1>1. 0 \in Ages /\ Cap \in Ages
  BY CapType DEF Ages
<1>2. TypeOK
  BY <1>1, Zenon DEF Init, Fresh, TypeOK
<1>3. StatusBoundsSuccess
  BY CapType DEF Init, Fresh, StatusBoundsSuccess
<1> QED BY <1>2, <1>3 DEF IInv

LEMMA NextIInv == IInv /\ [Next]_vars => IInv'
<1> SUFFICES ASSUME IInv, [Next]_vars PROVE IInv'
  OBVIOUS
<1> USE DEF IInv
<1>1. ASSUME NEW ok \in BOOLEAN, StoreStatus(ok) PROVE IInv'
  <2>1. timeDiff \in Ages /\ lastAttempt \in Ages /\ reached \in Ages
    BY DEF TypeOK
  <2>2. /\ Sum(timeDiff, lastAttempt) \in Ages
        /\ Sum(timeDiff, lastAttempt) = timeDiff + lastAttempt \/ Sum(timeDiff, lastAttempt) = Cap
    BY <2>1, SumType
  <2>3. TypeOK'
    BY <1>1, <2>2, CapType DEF StoreStatus, TypeOK, Ages
  <2>4. StatusBoundsSuccess'
    <3>1. CASE ok
      BY <1>1, <3>1 DEF StoreStatus, StatusBoundsSuccess
    <3>2. CASE ~ok
      <4>1. timeDiff' = Sum(timeDiff, lastAttempt) /\ lastAttempt' = 0 /\ reached' = reached
        BY <1>1, <3>2 DEF StoreStatus
      <4> QED BY <4>1, <2>1, <2>2, CapType DEF StatusBoundsSuccess, Ages
    <3> QED BY <3>1, <3>2
  <2> QED BY <2>3, <2>4
<1>2. CASE Wake
  BY <1>2, CapType DEF Wake, status, TypeOK, StatusBoundsSuccess, Ages
<1>3. CASE Tick
  <2>1. lastAttempt \in Ages /\ reached \in Ages /\ elapsed \in Ages /\ timeDiff \in Ages
    BY DEF TypeOK
  <2>2. TypeOK'
    BY <1>3, <2>1, OlderType DEF Tick, TypeOK
  <2>3. StatusBoundsSuccess'
    <3>1. /\ reached' = Older(reached) /\ lastAttempt' = Older(lastAttempt)
          /\ timeDiff' = timeDiff
      BY <1>3 DEF Tick
    <3>2. Older(reached) \in Ages /\ Older(reached) <= reached + 1
      BY <2>1, OlderType, CapType DEF Ages
    <3>3. Older(lastAttempt) = lastAttempt + 1 \/ Older(lastAttempt) = Cap
      BY <2>1, OlderType, CapType DEF Ages
    <3> QED BY <2>1, <3>1, <3>2, <3>3, CapType DEF StatusBoundsSuccess, Ages
  <2> QED BY <2>2, <2>3
<1>4. CASE OtherProbe \/ LinkChanges \/ MxChanges \/ NodeDies
  BY <1>4 DEF OtherProbe, LinkChanges, MxChanges, NodeDies, status, TypeOK, StatusBoundsSuccess
<1>5. CASE NodeStarts
  <2>1. 0 \in Ages /\ Cap \in Ages
    BY CapType DEF Ages
  <2>2. TypeOK'
    BY <1>5, <2>1, Zenon DEF NodeStarts, TypeOK
  <2>3. StatusBoundsSuccess'
    BY <1>5, CapType DEF NodeStarts, StatusBoundsSuccess
  <2> QED BY <2>2, <2>3
<1>6. CASE UNCHANGED vars
  BY <1>6 DEF vars, status, TypeOK, StatusBoundsSuccess
<1> QED BY <1>1, <1>2, <1>3, <1>4, <1>5, <1>6 DEF Next

\* The variables of the monitor keep their types, and the stored status bounds the age of
\* its last success.
THEOREM Invariance == Spec => []IInv
<1>1. Init => IInv
  BY InitIInv
<1>2. IInv /\ [Next]_vars => IInv'
  BY NextIInv
<1> QED BY <1>1, <1>2, PTL DEF Spec

\* QueryArrayStatus reports an array connected only if requireProbe succeeded on the
\* running plugin within three polling periods and the leeway.
THEOREM ConnectedIsRecentHolds == Spec => []ConnectedIsRecent
<1>1. IInv => ConnectedIsRecent
  <2> SUFFICES ASSUME IInv, Connected PROVE reached <= 3 * tolerance + Leeway
    BY DEF ConnectedIsRecent
  <2>1. lastAttempt <= tolerance * 2 /\ timeDiff <= tolerance + Leeway
    BY DEF Connected, QueryArrayStatus
  <2>2. reached \in Nat /\ lastAttempt \in Nat /\ timeDiff \in Nat
    BY CapType DEF IInv, TypeOK, Ages
  <2>3. reached <= lastAttempt + timeDiff
    BY DEF IInv, StatusBoundsSuccess
  <2> QED BY <2>1, <2>2, <2>3, CapType, PollingAssumption
<1> QED BY <1>1, Invariance, PTL
=============================================================================
