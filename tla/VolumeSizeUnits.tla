-------------------------- MODULE VolumeSizeUnits --------------------------
(* The units of VolumeSize, a request and its answer, and what is promised of it. *)
EXTENDS Integers

CONSTANTS
  BytesInKiB,   \* bytes in a kibibyte
  KiBInGiB,     \* kibibytes in a gibibyte
  MultipleGiB,  \* volumes are created in multiples of this many GiB
  DefaultKiB,   \* the size for a request without a size
  Width,        \* bits of an integer
  MaxRequest    \* bound of the sizes TLC asks for, in bytes

ASSUME UnitsAssumption ==
  /\ BytesInKiB \in Nat \ {0}
  /\ KiBInGiB \in Nat \ {0}
  /\ MultipleGiB \in Nat \ {0}
  /\ DefaultKiB \in Nat
  /\ Width \in Nat \ {0}
  /\ MaxRequest \in Nat

BytesInGiB == KiBInGiB * BytesInKiB

OutOfRange == -1

VARIABLES
  required, limit,  \* the capacity range of a request, in bytes
  size              \* the size it gets, in KiB, or OutOfRange

Accepted == size # OutOfRange

\* The size is the smallest multiple of the allocation unit that covers the whole
\* KiB of the request.
SmallestCover ==
  Accepted /\ required > 0 =>
    LET kib == required \div BytesInKiB
        unit == MultipleGiB * KiBInGiB
    IN size >= kib /\ (size - unit < kib \/ size = unit)

\* A volume is never larger than the limit of the request, for a request that
\* leaves room to round it up within the width of an integer.
LimitRespected ==
  Accepted /\ limit # 0 /\ required + MultipleGiB * BytesInGiB < 2^(Width - 1) =>
    size * BytesInKiB <= limit
=============================================================================
