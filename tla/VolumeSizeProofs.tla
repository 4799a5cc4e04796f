------------------------- MODULE VolumeSizeProofs -------------------------
(***************************************************************************)
(* What validateVolSize computes, for all units, sizes and limits: the     *)
(* TLAPS proofs of the properties of VolumeSize that do not depend on the  *)
(* width of an integer.                                                    *)
(***************************************************************************)
EXTENDS VolumeSize, TLAPS

\* Division with remainder.
LEMMA DivMod ==
  ASSUME NEW a \in Nat, NEW b \in Nat \ {0}
  PROVE  /\ a \div b \in Nat /\ a % b \in 0 .. b - 1
         /\ a = b * (a \div b) + (a % b)
  OBVIOUS

LEMMA DivUnique ==
  ASSUME NEW a \in Nat, NEW b \in Nat \ {0}, NEW q \in Nat, NEW r \in 0 .. b - 1,
         a = b * q + r
  PROVE  a \div b = q /\ a % b = r
  OBVIOUS

LEMMA TimesMonotone ==
  ASSUME NEW a \in Int, NEW b \in Int, NEW k \in Nat, a <= b
  PROVE  a * k <= b * k
  OBVIOUS

\* RoundToMultiple gives the next multiple of MultipleGiB: m times it, m > 0.
LEMMA RoundLemma ==
  ASSUME NEW g \in Nat \ {0}
  PROVE  \E m \in Nat \ {0} : /\ RoundToMultiple(g) = MultipleGiB * m
                              /\ g <= RoundToMultiple(g)
                              /\ RoundToMultiple(g) < g + MultipleGiB
<1> DEFINE q == g \div MultipleGiB
           r == g % MultipleGiB
<1>1. q \in Nat /\ r \in 0 .. MultipleGiB - 1 /\ g = MultipleGiB * q + r
  BY DivMod, UnitsAssumption
<1>2. CASE r > 0
  <2>1. RoundToMultiple(g) = MultipleGiB * q + MultipleGiB
    BY <1>1, <1>2, UnitsAssumption DEF RoundToMultiple
  <2>2. MultipleGiB * q + MultipleGiB = MultipleGiB * (q + 1)
    BY <1>1, UnitsAssumption
  <2>3. g <= RoundToMultiple(g) /\ RoundToMultiple(g) < g + MultipleGiB
    BY <2>1, <1>1, <1>2, UnitsAssumption
  <2> QED BY <2>1, <2>2, <2>3, <1>1
<1>3. CASE r = 0
  <2>1. RoundToMultiple(g) = g
    BY <1>3, UnitsAssumption DEF RoundToMultiple
  <2>2. g = MultipleGiB * q
    BY <1>1, <1>3, UnitsAssumption
  <2>3. q \in Nat \ {0}
    BY <1>1, <2>2, UnitsAssumption
  <2>4. g <= g /\ g < g + MultipleGiB
    BY UnitsAssumption
  <2> HIDE DEF q
  <2> WITNESS q \in Nat \ {0}
  <2> QED BY <2>1, <2>2, <2>4
<1>4. r > 0 \/ r = 0
  <2> HIDE DEF r
  <2> QED BY <1>1
<1> QED BY <1>2, <1>3, <1>4

\* The rounding up to whole GiB.
LEMMA CeilLemma ==
  ASSUME NEW k \in Nat
  PROVE  LET c == (k + KiBInGiB - 1) \div KiBInGiB
         IN c \in Nat /\ k <= c * KiBInGiB /\ c * KiBInGiB < k + KiBInGiB
<1> DEFINE a == k + KiBInGiB - 1
           c == a \div KiBInGiB
<1>1. a \in Nat /\ KiBInGiB \in Nat \ {0}
  BY UnitsAssumption
<1>2. c \in Nat /\ a % KiBInGiB \in 0 .. KiBInGiB - 1 /\ a = KiBInGiB * c + (a % KiBInGiB)
  BY <1>1, DivMod
<1>3. KiBInGiB * c = c * KiBInGiB
  BY <1>1, <1>2
<1> HIDE DEF c
<1>4. k <= c * KiBInGiB /\ c * KiBInGiB < k + KiBInGiB
  BY <1>1, <1>2, <1>3
<1> QED BY <1>2, <1>4 DEF c

\* The KiB validateVolSize starts from.
RequiredKiB(r) == IF r = 0 THEN DefaultKiB ELSE r \div BytesInKiB

LEMMA RequiredKiBType ==
  ASSUME NEW r \in Nat
  PROVE  RequiredKiB(r) \in Nat
  BY DivMod, UnitsAssumption DEF RequiredKiB

\* The size in KiB is a positive multiple of the allocation unit, the smallest one
\* that covers the KiB required.
LEMMA SizeLemma ==
  ASSUME NEW r \in Nat
  PROVE  /\ \E m \in Nat \ {0} : SizeGiB(r) = MultipleGiB * m
         /\ RequiredKiB(r) <= SizeGiB(r) * KiBInGiB
         /\ \/ SizeGiB(r) * KiBInGiB - MultipleGiB * KiBInGiB < RequiredKiB(r)
            \/ SizeGiB(r) = MultipleGiB
<1> DEFINE k == RequiredKiB(r)
           c == (k + KiBInGiB - 1) \div KiBInGiB
           g == IF c < 1 THEN 1 ELSE c
           G == RoundToMultiple(g)
<1>1. k \in Nat
  BY RequiredKiBType
<1>2. c \in Nat /\ k <= c * KiBInGiB /\ c * KiBInGiB < k + KiBInGiB
  BY <1>1, CeilLemma
<1>3. SizeGiB(r) = G
  BY DEF SizeGiB, RequiredKiB
<1>4. g \in Nat \ {0} /\ c <= g
  BY <1>2
<1>5. PICK m \in Nat \ {0} : G = MultipleGiB * m /\ g <= G /\ G < g + MultipleGiB
  BY <1>4, RoundLemma
<1> HIDE DEF k, G
<1>6. G \in Nat
  BY <1>5, UnitsAssumption
<1>7. k <= G * KiBInGiB
  <2>1. c * KiBInGiB <= G * KiBInGiB
    BY <1>2, <1>4, <1>5, <1>6, TimesMonotone, UnitsAssumption
  <2>2. c * KiBInGiB \in Nat /\ G * KiBInGiB \in Nat
    BY <1>2, <1>6, UnitsAssumption
  <2> HIDE DEF c
  <2> QED BY <2>1, <2>2, <1>1, <1>2
<1>8. CASE c >= 1
  <2>1. G - MultipleGiB <= c - 1
    BY <1>2, <1>5, <1>6, <1>8, UnitsAssumption
  <2> HIDE DEF c, g
  <2>2. (G - MultipleGiB) * KiBInGiB <= (c - 1) * KiBInGiB
    BY <2>1, <1>2, <1>6, TimesMonotone, UnitsAssumption
  <2>3. (c - 1) * KiBInGiB = c * KiBInGiB - KiBInGiB
    BY <1>2, UnitsAssumption
  <2>4. (G - MultipleGiB) * KiBInGiB = G * KiBInGiB - MultipleGiB * KiBInGiB
    BY <1>6, UnitsAssumption
  <2>5. /\ c * KiBInGiB \in Nat /\ G * KiBInGiB \in Nat /\ MultipleGiB * KiBInGiB \in Nat
        /\ KiBInGiB \in Nat
    BY <1>2, <1>6, UnitsAssumption
  <2>6. G * KiBInGiB - MultipleGiB * KiBInGiB < k
    BY <2>2, <2>3, <2>4, <2>5, <1>1, <1>2
  <2> QED BY <2>6, <1>3, <1>5, <1>7 DEF k
<1>9. CASE c < 1
  <2>1. g = 1
    BY <1>9
  <2>2. MultipleGiB * m <= MultipleGiB
    BY <2>1, <1>5, UnitsAssumption
  <2>3. MultipleGiB <= MultipleGiB * m
    BY UnitsAssumption
  <2>4. G = MultipleGiB
    BY <2>2, <2>3, <1>5, UnitsAssumption
  <2> QED BY <2>4, <1>3, <1>5, <1>7 DEF k
<1> QED BY <1>2, <1>8, <1>9

\* Asking for a size that SizeGiB gave gives that size.
LEMMA FixpointLemma ==
  ASSUME NEW m \in Nat \ {0}
  PROVE  SizeGiB(MultipleGiB * m * KiBInGiB * BytesInKiB) = MultipleGiB * m
<1> DEFINE G == MultipleGiB * m
           s == G * KiBInGiB
           r == s * BytesInKiB
<1>1. G \in Nat \ {0} /\ s \in Nat \ {0} /\ r \in Nat \ {0}
  BY UnitsAssumption
<1>2. G % MultipleGiB = 0
  BY <1>1, DivUnique, UnitsAssumption
<1> HIDE DEF G
<1>3. r \div BytesInKiB = s
  <2> HIDE DEF s
  <2>1. r = BytesInKiB * s + 0 /\ 0 \in 0 .. BytesInKiB - 1
    BY <1>1, UnitsAssumption
  <2> HIDE DEF r
  <2> QED BY <2>1, <1>1, DivUnique, UnitsAssumption
<1>4. (s + KiBInGiB - 1) \div KiBInGiB = G
  <2>1. s + KiBInGiB - 1 = KiBInGiB * G + (KiBInGiB - 1) /\ KiBInGiB - 1 \in 0 .. KiBInGiB - 1
    BY <1>1, UnitsAssumption
  <2>2. s + KiBInGiB - 1 \in Nat
    BY <1>1, UnitsAssumption
  <2> QED BY <2>1, <2>2, <1>1, DivUnique, UnitsAssumption
<1>5. RoundToMultiple(G) = G
  BY <1>1, <1>2 DEF RoundToMultiple
<1> HIDE DEF s, r
<1>6. SizeGiB(r) = G
  BY <1>1, <1>3, <1>4, <1>5 DEF SizeGiB
<1> QED BY <1>6 DEF r, s, G

-----------------------------------------------------------------------------
(* The invariant of the client: its size is that of its request.           *)

Asked == required \in Sizes /\ limit \in Sizes /\ size = validateVolSize(required, limit)

LEMMA AskedInvariant == Spec => []Asked
<1>1. Init => Asked
  BY UnitsAssumption DEF Init, Asked, Sizes
<1>2. Asked /\ [Next]_vars => Asked'
  <2> SUFFICES ASSUME Asked, [Next]_vars PROVE Asked'
    OBVIOUS
  <2>1. CASE UNCHANGED vars
    BY <2>1 DEF Asked, vars
  <2>2. ASSUME NEW x \in Sizes, Ask(x, limit) \/ Ask(required, x) PROVE Asked'
    BY <2>2 DEF Asked, Ask
  <2> QED BY <2>1, <2>2 DEF Next
<1> QED BY <1>1, <1>2, PTL DEF Spec

\* An accepted size is that of SizeGiB, for a size and a limit that are not negative.
LEMMA AcceptedSize ==
  ASSUME Asked, Accepted
  PROVE  required \in Nat /\ size = SizeGiB(required) * KiBInGiB
<1>1. required \in Int /\ ~(required < 0)
  BY UnitsAssumption DEF Asked, Accepted, validateVolSize, Sizes
<1> QED BY <1>1 DEF Asked, Accepted, validateVolSize

\* Whatever is asked for, the size of an accepted request is positive and a multiple
\* of the allocation unit (the last conversions of validateVolSize).
THEOREM TypeCorrect == Spec => []TypeOK
<1>1. Asked => TypeOK
  <2> SUFFICES ASSUME Asked, Accepted
               PROVE  size > 0 /\ size % (MultipleGiB * KiBInGiB) = 0
    BY DEF Asked, TypeOK
  <2>1. PICK m \in Nat \ {0} : SizeGiB(required) = MultipleGiB * m
    BY AcceptedSize, SizeLemma
  <2>2. size = MultipleGiB * m * KiBInGiB
    BY <2>1, AcceptedSize
  <2>3. size = (MultipleGiB * KiBInGiB) * m + 0
    BY <2>2, UnitsAssumption
  <2>4. MultipleGiB * KiBInGiB \in Nat \ {0}
    BY UnitsAssumption
  <2>5. size \in Nat \ {0}
    BY <2>2, UnitsAssumption
  <2>6. 0 \in 0 .. MultipleGiB * KiBInGiB - 1
    BY <2>4
  <2> QED BY <2>3, <2>4, <2>5, <2>6, DivUnique
<1> QED BY <1>1, AskedInvariant, PTL

\* An accepted size covers the whole KiB required and no smaller multiple of the
\* allocation unit does: validateVolSize gives neither too little nor too much.
THEOREM SmallestCoverHolds == Spec => []SmallestCover
<1>1. Asked => SmallestCover
  <2> SUFFICES ASSUME Asked, Accepted, required > 0
               PROVE  LET kib == required \div BytesInKiB
                          unit == MultipleGiB * KiBInGiB
                      IN size >= kib /\ (size - unit < kib \/ size = unit)
    BY DEF SmallestCover
  <2>1. required \in Nat /\ size = SizeGiB(required) * KiBInGiB
    BY AcceptedSize
  <2>2. RequiredKiB(required) = required \div BytesInKiB
    BY <2>1 DEF RequiredKiB
  <2>3. /\ RequiredKiB(required) <= size
        /\ \/ size - MultipleGiB * KiBInGiB < RequiredKiB(required)
           \/ size = MultipleGiB * KiBInGiB
    BY <2>1, SizeLemma
  <2>4. RequiredKiB(required) \in Nat /\ size \in Int
    <3>1. \E m \in Nat \ {0} : SizeGiB(required) = MultipleGiB * m
      BY <2>1, SizeLemma
    <3> QED BY <2>1, <3>1, RequiredKiBType, UnitsAssumption
  <2> QED BY <2>2, <2>3, <2>4
<1> QED BY <1>1, AskedInvariant, PTL

\* The capacity a volume is reported with is a fixpoint of validateVolSize: a retry of
\* CreateVolume or ControllerExpandVolume with it compares equal.
THEOREM IdempotentHolds == Spec => []Idempotent
<1>1. Asked => Idempotent
  <2> SUFFICES ASSUME Asked, Accepted
               PROVE  validateVolSize(size * BytesInKiB, 0) = size
    BY DEF Idempotent
  <2>1. required \in Nat /\ size = SizeGiB(required) * KiBInGiB
    BY AcceptedSize
  <2>2. PICK m \in Nat \ {0} : SizeGiB(required) = MultipleGiB * m
    BY <2>1, SizeLemma
  <2>3. SizeGiB(size * BytesInKiB) = SizeGiB(required)
    BY <2>1, <2>2, FixpointLemma
  <2>4. ~(size * BytesInKiB < 0)
    BY <2>1, <2>2, UnitsAssumption
  <2> QED BY <2>1, <2>3, <2>4 DEF validateVolSize
<1> QED BY <1>1, AskedInvariant, PTL
=============================================================================
