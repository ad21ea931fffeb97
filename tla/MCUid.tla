-------------------------------- MODULE MCUid --------------------------------
(* strtoul and the buckets, over every string of up to MaxLen characters. *)
EXTENDS Uid
CONSTANT MaxLen

Strings == UNION {[1..n -> 0..Base] : n \in 0..MaxLen}

(* The number that the digits of s write, however large. *)
Written(s) ==
    LET upTo[n \in 0..Len(s)] == IF n = 0 THEN 0 ELSE upTo[n - 1] * Base + s[n]
    IN upTo[Len(s)]

(* strtoul as its manual page defines it: the number written by the leading *)
(* digits, or ULONG_MAX where that does not fit.                            *)
ASSUME MatchesReference ==
    \A s \in Strings : LET n == Written(Digits(s))
                       IN StrToULong(s) = IF n > UlongMax THEN UlongMax ELSE n
=============================================================================
