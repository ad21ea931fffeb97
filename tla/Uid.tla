--------------------------------- MODULE Uid ---------------------------------
(***************************************************************************)
(* Which bucket of the client map a uid belongs to:                        *)
(* strtoul(uid, NULL, 16) % hash_size (hash_map.c:90, 130, 168).  A user's *)
(* uid is the hexadecimal SHA-512 of the name, far longer than an unsigned *)
(* long, and strtoul does not wrap around: it returns ULONG_MAX.           *)
(*                                                                         *)
(* A uid is a sequence of digits below Base; Base itself stands for any    *)
(* character that is not a digit, at which strtoul stops ("server").       *)
(***************************************************************************)
EXTENDS Naturals, Sequences, SequencesExt

CONSTANTS Base,       \* 16 in the code
          UlongMax,   \* 2^64 - 1 in the code
          HashSize    \* MAX_CLIENTS, 100 in the code

ASSUME UidAssumption == /\ Base \in Nat \ {0, 1} /\ HashSize \in Nat \ {0}
                        /\ UlongMax \in Nat /\ UlongMax >= Base

(* The digits strtoul converts. *)
Digits(s) ==
    SubSeq(s, 1, CHOOSE n \in 0..Len(s) : /\ \A i \in 1..n : s[i] < Base
                                          /\ n < Len(s) => s[n + 1] = Base)

StrToULong(s) ==
    FoldLeft(LAMBDA acc, d : IF acc * Base + d > UlongMax THEN UlongMax ELSE acc * Base + d,
             0, Digits(s))

(* Mutant: the conversion wraps around like a hand-written loop would. *)
Bucket_Wraps(s) ==
    FoldLeft(LAMBDA acc, d : (acc * Base + d) % (UlongMax + 1), 0, Digits(s)) % HashSize

Bucket(s) == StrToULong(s) % HashSize
=============================================================================
