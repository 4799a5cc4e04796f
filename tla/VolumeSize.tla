---------------------------- MODULE VolumeSize ----------------------------
(***************************************************************************)
(* The size of a block volume: validateVolSize (service/controller.go),    *)
(* which CreateVolume and ControllerExpandVolume apply to the capacity     *)
(* range of a request.  The units are parameters, since only the ratios    *)
(* matter; the driver has BytesInKiB = 1024, KiBInGiB = 1048576,           *)
(* MultipleGiB = 8, DefaultKiB = 16 GiB and 64-bit integers.               *)
(***************************************************************************)
EXTENDS Integers, VolumeSizeUnits

\* What int64 arithmetic makes of an integer.
Wrap(x) == ((x + 2^(Width - 1)) % 2^Width) - 2^(Width - 1)

RoundToMultiple(gib) ==
  IF gib % MultipleGiB > 0 THEN gib - (gib % MultipleGiB) + MultipleGiB ELSE gib

\* Variant: KiB are cut off to whole GiB.
SizeGiBDown(req) ==
  LET kib == IF req = 0 THEN DefaultKiB ELSE req \div BytesInKiB
      floor == kib \div KiBInGiB
  IN RoundToMultiple(IF floor < 1 THEN 1 ELSE floor)

\* The size in GiB for a required number of bytes: whole KiB, rounded up to whole
\* GiB, at least one, rounded up to the multiple.
SizeGiB(req) ==
  LET kib == IF req = 0 THEN DefaultKiB ELSE req \div BytesInKiB
      ceil == (kib + KiBInGiB - 1) \div KiBInGiB
  IN RoundToMultiple(IF ceil < 1 THEN 1 ELSE ceil)

\* Variant: the limit is compared before the size is rounded.
ValidateBeforeRounding(req, lim) ==
  IF req < 0 \/ lim < 0 \/ (lim # 0 /\ req > lim)
  THEN OutOfRange ELSE SizeGiB(req) * KiBInGiB

\* The size in KiB, or OutOfRange.
validateVolSize(req, lim) ==
  IF req < 0 \/ lim < 0 \/ (lim # 0 /\ Wrap(SizeGiB(req) * BytesInGiB) > lim)
  THEN OutOfRange ELSE SizeGiB(req) * KiBInGiB

-----------------------------------------------------------------------------
(* A client that varies the required size and the limit it asks for.       *)

vars == <<required, limit, size>>

Sizes == -1 .. MaxRequest

Init == required = 0 /\ limit = 0 /\ size = validateVolSize(0, 0)

Ask(r, l) ==
  /\ required' = r
  /\ limit' = l
  /\ size' = validateVolSize(r, l)

Next == \E x \in Sizes : Ask(x, limit) \/ Ask(required, x)

Spec == Init /\ [][Next]_vars

-----------------------------------------------------------------------------
(* Properties.                                                             *)

\* Every variable has its type; an accepted size is a positive multiple of the
\* allocation unit of the array.
TypeOK ==
  /\ required \in Sizes /\ limit \in Sizes
  /\ Accepted => size > 0 /\ size % (MultipleGiB * KiBInGiB) = 0

\* Asking for the capacity a volume was reported with gives the same size: the
\* idempotent retry of an expansion, or a clone of a volume, compares equal.
Idempotent == Accepted => validateVolSize(size * BytesInKiB, 0) = size
=============================================================================
