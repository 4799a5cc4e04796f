-------------------------- MODULE NfsQuotaProofs --------------------------
(***************************************************************************)
(* TLAPS proofs about NfsQuota, for all sizes, percentages and parameters. *)
(***************************************************************************)
EXTENDS NfsQuota, TLAPS

\* The quota of one expansion is usable if the one before was: the soft limit is
\* multiplied by a quotient that is at least one and rounded down.
LEMMA UpdatedSoftLimitLemma ==
  ASSUME NEW h \in Nat, NEW t \in Nat, NEW s \in Nat, 0 < t, t < h, h <= s
  PROVE  LET f == s \div h IN t * f \in Nat /\ 0 < t * f /\ t * f < s
<1> DEFINE f == s \div h
<1>1. f \in Nat /\ s % h \in 0 .. h - 1 /\ s = h * f + (s % h)
  OBVIOUS
<1>2. f # 0
  BY <1>1
<1> HIDE DEF f
<1>3. t * f \in Nat /\ 0 < t * f
  BY <1>1, <1>2
<1>4. t * f < h * f
  BY <1>1, <1>2
<1>5. h * f \in Nat /\ h * f <= s
  BY <1>1
<1>6. t * f < s
  BY <1>3, <1>4, <1>5
<1> QED BY <1>3, <1>6 DEF f

LEMMA SizeType == Size \in Nat \ {0}
  BY SizesAssumption DEF Size

LEMMA SoftLimitType ==
  ASSUME percent \in Nat, NEW s \in Nat
  PROVE  SoftLimit(s) \in Nat
<1>1. percent * s \in Nat
  OBVIOUS
<1> QED BY <1>1 DEF SoftLimit

Making == {"params", "enable", "limits", "rollback"}
Expanding == {"expand", "resize", "getquota", "setquota"}

\* The inductive invariant: what each place of a handler knows of the file system.
IInv ==
  /\ TypeOK
  /\ QuotaUsable
  /\ CreatedExists
  /\ FileSystemAsReported
  /\ ~created => expanded = 0
  /\ pc \in {"lookup", "create"} => want = Size
  /\ pc \in Making \cup {"reread"} => fsSize = want /\ want = Size
  /\ pc \in Making => ~created
  /\ pc \in Expanding => created
  /\ pc = "resize" => fsSize < want
  /\ pc \in {"getquota", "setquota"} => fsSize = want
  /\ pc = "setquota" => quota # NoQuota

USE DEF TypeOK, QuotaUsable, CreatedExists, FileSystemAsReported, PCs, Making, Expanding,
        NoQuota, storageClass, array

LEMMA InitInv == Init => IInv
<1> SUFFICES ASSUME Init PROVE IInv
  OBVIOUS
<1>1. TypeOK
  BY DEF Init
<1>2. QuotaUsable /\ CreatedExists /\ FileSystemAsReported
  BY DEF Init
<1> QED BY <1>1, <1>2 DEF Init, IInv

LEMMA StartInv ==
  ASSUME IInv, StartCreate \/ (\E s \in FsExpansions : StartExpand(s))
  PROVE  IInv'
<1>1. CASE StartCreate
  BY <1>1, SizeType DEF IInv, StartCreate
<1>2. ASSUME NEW s \in FsExpansions, StartExpand(s) PROVE IInv'
  BY <1>2, SizeType, SizesAssumption DEF IInv, StartExpand
<1> QED BY <1>1, <1>2

LEMMA ErrorInv ==
  ASSUME IInv, Error, UNCHANGED <<storageClass, array>>
  PROVE  IInv'
  BY DEF IInv, Error, End

\* What a handler leaves when it answers that the volume is created.
LEMMA AnswerCreatedInv ==
  ASSUME IInv, AnswerCreated, UNCHANGED <<storageClass, array>>, fsSize = Size
  PROVE  IInv'
<1>1. TypeOK'
  BY DEF IInv, AnswerCreated, End
<1>2. QuotaUsable'
  BY DEF IInv
<1>3. CreatedExists'
  BY SizeType DEF Size
<1>4. FileSystemAsReported' /\ created'
  BY DEF IInv, AnswerCreated
<1> QED BY <1>1, <1>2, <1>3, <1>4 DEF IInv, AnswerCreated, End

\* What a handler leaves when it answers that the volume has the size of its request.
LEMMA AnswerExpandedInv ==
  ASSUME IInv, AnswerExpanded, UNCHANGED storageClass, UNCHANGED quotaOn, created,
         fsSize' = want, fsSize <= want, QuotaUsable',
         quota' \in [hard : Nat, soft : Nat], fsSize' = 0 => quota' = NoQuota
  PROVE  IInv'
<1>1. TypeOK'
  BY DEF IInv, AnswerExpanded, End
<1>3. CreatedExists'
  BY SizeType DEF IInv, Size, AnswerExpanded
<1>4. FileSystemAsReported' /\ created'
  BY DEF IInv, AnswerExpanded
<1> QED BY <1>1, <1>3, <1>4 DEF IInv, AnswerExpanded, End

\* CreateVolume up to the tree quota.
LEMMA CreateInv ==
  ASSUME IInv, NEW o \in Outcomes,
         Lookup(o) \/ CreateFileSystem(o) \/ QuotaParameters(o) \/ EnableQuota(o)
  PROVE  IInv'
<1>1. CASE Lookup(o)
  <2>1. CASE AnswerCreated /\ fsSize = want
    <3>1. want = Size
      BY <1>1 DEF IInv, Lookup
    <3> QED BY <1>1, <2>1, <3>1, AnswerCreatedInv DEF Lookup
  <2>2. CASE Error
    BY <1>1, <2>2, ErrorInv DEF Lookup
  <2>3. CASE Goto("create") /\ pc = "lookup"
    BY <1>1, <2>3, SizeType DEF IInv, Lookup, Goto
  <2> QED BY <1>1, <2>1, <2>2, <2>3 DEF Lookup
<1>2. CASE CreateFileSystem(o)
  <2>1. CASE Error /\ UNCHANGED <<fsSize, quotaOn>>
    BY <1>2, <2>1, ErrorInv DEF CreateFileSystem
  <2>2. CASE fsSize = 0 /\ fsSize' = want /\ quotaOn' = FALSE
             /\ (Error \/ Goto("params") \/ Goto("reread"))
    <3>1. ~created /\ quota = NoQuota /\ expanded = 0 /\ want = Size
      BY <1>2, <2>2, SizeType DEF IInv, CreateFileSystem
    <3>2. UNCHANGED <<storageClass, quota, created, expanded>>
          /\ pc' \in {"idle", "params", "reread"} /\ seen' \in BOOLEAN /\ want' \in Nat
          /\ (pc' = "idle" \/ want' = want)
      BY <1>2, <2>2, SizeType DEF CreateFileSystem, IInv, Error, End, Goto
    <3>3. TypeOK'
      BY <2>2, <3>1, <3>2, SizeType DEF IInv
    <3>4. QuotaUsable' /\ CreatedExists' /\ FileSystemAsReported'
      BY <2>2, <3>1, <3>2, SizeType DEF IInv
    <3> QED BY <2>2, <3>1, <3>2, <3>3, <3>4 DEF IInv, Size
  <2> QED BY <1>2, <2>1, <2>2 DEF CreateFileSystem
<1>3. CASE QuotaParameters(o)
  <2>1. CASE Error
    BY <1>3, <2>1, ErrorInv DEF QuotaParameters
  <2>2. CASE Goto("rollback") \/ Goto("enable")
    BY <1>3, <2>2 DEF IInv, QuotaParameters, Goto
  <2> QED BY <1>3, <2>1, <2>2, SizesAssumption DEF QuotaParameters, IInv
<1>4. CASE EnableQuota(o)
  BY <1>4 DEF IInv, EnableQuota, Goto
<1> QED BY <1>1, <1>2, <1>3, <1>4

\* CreateVolume from the tree quota on.
LEMMA QuotaInv ==
  ASSUME IInv, NEW o \in Outcomes, CreateTreeQuota(o) \/ Rollback(o) \/ Reread(o)
  PROVE  IInv'
<1>1. CASE CreateTreeQuota(o)
  <2>1. CASE Goto("rollback") /\ UNCHANGED quota
    BY <1>1, <2>1 DEF IInv, CreateTreeQuota, Goto
  <2>2. CASE /\ SoftLimit(want) < want /\ SoftLimit(want) # 0
             /\ quota' = [hard |-> want, soft |-> SoftLimit(want)]
             /\ Goto("reread") \/ Goto("rollback")
    <3>1. SoftLimit(want) \in Nat
      BY SoftLimitType, SizesAssumption DEF IInv
    <3>2. want \in Nat /\ fsSize = want /\ want = Size /\ ~created /\ expanded = 0
      BY <1>1 DEF IInv, CreateTreeQuota
    <3>3. UNCHANGED <<storageClass, fsSize, quotaOn, want, seen, created, expanded>>
          /\ pc' \in {"reread", "rollback"}
      BY <1>1, <2>2 DEF CreateTreeQuota, Goto
    <3>4. quota' \in [hard : Nat, soft : Nat] /\ QuotaUsable'
      BY <2>2, <3>1, <3>2, <3>3
    <3>5. TypeOK'
      BY <3>2, <3>3, <3>4, SizeType DEF IInv
    <3> QED BY <3>2, <3>3, <3>4, <3>5 DEF IInv, Size
  <2> QED BY <1>1, <2>1, <2>2 DEF CreateTreeQuota
<1>2. CASE Rollback(o)
  <2>1. CASE UNCHANGED array
    BY <1>2, <2>1, ErrorInv DEF Rollback
  <2>2. CASE fsSize' = 0 /\ quotaOn' = FALSE /\ quota' = NoQuota
    <3>1. ~created /\ expanded = 0
      BY <1>2 DEF IInv, Rollback
    <3>2. UNCHANGED <<storageClass, created, expanded>> /\ pc' = "idle" /\ want' = 0
          /\ seen' = FALSE
      BY <1>2 DEF Rollback, Error, End
    <3>3. TypeOK'
      BY <2>2, <3>2 DEF IInv
    <3> QED BY <2>2, <3>1, <3>2, <3>3 DEF IInv
  <2> QED BY <1>2, <2>1, <2>2 DEF Rollback
<1>3. CASE Reread(o)
  <2>1. fsSize = Size
    BY <1>3 DEF IInv, Reread
  <2> QED BY <1>3, <2>1, ErrorInv, AnswerCreatedInv DEF Reread
<1> QED BY <1>1, <1>2, <1>3

\* ControllerExpandVolume.
LEMMA ExpandInv ==
  ASSUME IInv, NEW o \in Outcomes,
         Expand(o) \/ Resize(o) \/ GetTreeQuota(o) \/ ModifyTreeQuota(o)
  PROVE  IInv'
<1>1. CASE Expand(o)
  <2>1. CASE Error
    BY <1>1, <2>1, ErrorInv DEF Expand
  <2>2. CASE AnswerExpanded /\ want = fsSize
    <3>1. created /\ fsSize' = want /\ fsSize <= want /\ UNCHANGED <<storageClass, quotaOn, quota>>
      BY <1>1, <2>2 DEF IInv, Expand
    <3>2. QuotaUsable' /\ quota' \in [hard : Nat, soft : Nat] /\ (fsSize' = 0 => quota' = NoQuota)
      BY <2>2, <3>1 DEF IInv
    <3> QED BY <2>2, <3>1, <3>2, AnswerExpandedInv
  <2>3. CASE want > fsSize /\ pc' = "resize" /\ seen' = quotaOn /\ UNCHANGED <<want, created, expanded>>
    BY <1>1, <2>3 DEF IInv, Expand
  <2>4. want < fsSize \/ want = fsSize \/ want > fsSize
    BY DEF IInv
  <2>5. o = "ok" \/ o = "failed"
    BY <1>1 DEF Expand
  <2> QED BY <1>1, <2>1, <2>2, <2>3, <2>4, <2>5 DEF Expand
<1>2. CASE Resize(o)
  <2>1. /\ pc = "resize" /\ created /\ fsSize < want /\ fsSize \in Nat /\ want \in Nat
        /\ UNCHANGED <<storageClass, quotaOn, quota>>
        /\ fsSize' \in {fsSize, want}
    BY <1>2 DEF IInv, Resize
  <2>2. QuotaUsable' /\ quota' \in [hard : Nat, soft : Nat] /\ (fsSize' = 0 => quota' = NoQuota)
    BY <2>1 DEF IInv
  <2>3. CASE Error
    <3>1. /\ created' = created /\ expanded' = expanded
          /\ pc' = "idle" /\ want' = 0 /\ seen' = FALSE
      BY <2>3 DEF Error, End
    <3>2. CreatedExists' /\ FileSystemAsReported'
      BY <2>1, <3>1, SizeType DEF IInv, Size
    <3>3. TypeOK'
      BY <2>1, <2>2, <3>1 DEF IInv
    <3> QED BY <2>1, <2>2, <3>1, <3>2, <3>3 DEF IInv
  <2>4. CASE Goto("getquota") /\ fsSize' = want
    <3>1. CreatedExists' /\ FileSystemAsReported'
      BY <2>1, <2>4, SizeType DEF IInv, Size, Goto
    <3> QED BY <2>1, <2>2, <2>4, <3>1 DEF IInv, Goto
  <2>5. CASE AnswerExpanded /\ fsSize' = want
    BY <2>1, <2>2, <2>5, AnswerExpandedInv
  <2> QED BY <1>2, <2>3, <2>4, <2>5 DEF Resize
<1>3. CASE GetTreeQuota(o)
  <2>1. CASE Goto("setquota") /\ quota # NoQuota
    BY <1>3, <2>1 DEF IInv, GetTreeQuota, Goto
  <2> QED BY <1>3, <2>1, ErrorInv DEF GetTreeQuota
<1>4. CASE ModifyTreeQuota(o)
  <2>1. /\ created /\ fsSize = want /\ quota # NoQuota /\ fsSize \in Nat /\ want \in Nat
        /\ UNCHANGED <<storageClass, fsSize, quotaOn>>
    BY <1>4 DEF IInv, ModifyTreeQuota
  <2>2. quota.hard \in Nat /\ quota.soft \in Nat /\ 0 < quota.soft
        /\ quota.soft < quota.hard /\ quota.hard <= want
    BY <2>1 DEF IInv
  <2>3. LET f == UpdatedSoftLimit(quota, want) IN f \in Nat /\ 0 < f /\ f < want
    BY <2>1, <2>2, UpdatedSoftLimitLemma DEF UpdatedSoftLimit
  <2> HIDE DEF UpdatedSoftLimit
  <2>4. QuotaUsable' /\ quota' \in [hard : Nat, soft : Nat] /\ (fsSize' = 0 => quota' = NoQuota)
    <3>1. CASE quota' = quota
      BY <2>1, <3>1 DEF IInv
    <3>2. CASE quota' = [hard |-> want, soft |-> UpdatedSoftLimit(quota, want)]
      BY <2>1, <2>3, <3>2
    <3> QED BY <1>4, <3>1, <3>2 DEF ModifyTreeQuota
  <2>5. CASE AnswerExpanded
    BY <2>1, <2>4, <2>5, AnswerExpandedInv
  <2>6. CASE Error
    <3>1. /\ created' = created /\ expanded' = expanded
          /\ pc' = "idle" /\ want' = 0 /\ seen' = FALSE
      BY <2>6 DEF Error, End
    <3> QED BY <2>1, <2>4, <3>1, SizeType DEF IInv, Size
  <2> QED BY <1>4, <2>5, <2>6 DEF ModifyTreeQuota
<1> QED BY <1>1, <1>2, <1>3, <1>4

LEMMA NextInv == IInv /\ [Next]_vars => IInv'
<1> SUFFICES ASSUME IInv, [Next]_vars PROVE IInv'
  OBVIOUS
<1>1. CASE UNCHANGED vars
  BY <1>1 DEF IInv, vars, driver
<1>2. CASE StartCreate \/ (\E s \in FsExpansions : StartExpand(s))
  BY <1>2, StartInv
<1>3. ASSUME NEW o \in Outcomes, Step(o) PROVE IInv'
  BY <1>3, CreateInv, QuotaInv, ExpandInv DEF Step
<1>4. CASE Crash
  BY <1>4, ErrorInv DEF Crash
<1> QED BY <1>1, <1>2, <1>3, <1>4 DEF Next

LEMMA SpecInv == Spec => []IInv
  BY InitInv, NextInv, PTL DEF Spec

\* The variables of the NFS handlers keep their types, for all sizes and parameters.
THEOREM TypeCorrect == Spec => []TypeOK
<1>1. IInv => TypeOK
  BY DEF IInv
<1> QED BY <1>1, SpecInv, PTL

\* However creation, rollback and expansions fail, a tree quota has a positive soft
\* limit below its hard limit, and a hard limit the file system can hold.
THEOREM QuotaUsableHolds == Spec => []QuotaUsable
<1>1. IInv => QuotaUsable
  BY DEF IInv
<1> QED BY <1>1, SpecInv, PTL

\* No file system is smaller than its claim once it was reported created, nor than the size
\* ControllerExpandVolume reported: the rollback of CreateVolume takes none of these away.
THEOREM SizeAsReportedHolds == Spec => []SizeAsReported
<1>1. IInv => SizeAsReported
  BY DEF IInv, SizeAsReported
<1> QED BY <1>1, SpecInv, PTL
=============================================================================
