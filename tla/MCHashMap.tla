------------------------------ MODULE MCHashMap ------------------------------
(***************************************************************************)
(* Two sessions of one account, one of another and the router, on a map of *)
(* two buckets, with the buckets module Uid computes for their uids.       *)
(* Numbers are reduced, not the arithmetic: two-bit digits, three-bit      *)
(* unsigned longs, uids of four digits.                                    *)
(***************************************************************************)
EXTENDS HashMap, MCUid
CONSTANTS h1, h2, h3, router

alice == <<1, 2, 0, 0>>
bob == <<2, 1, 1, 1>>

MCHandlers == {h1, h2, h3}
MCOthers == {router}
MCUids == {alice, bob}
MCUidOf == h1 :> alice @@ h2 :> alice @@ h3 :> bob

(* A uid does not fit into an unsigned long, and strtoul saturates: all the  *)
(* users of the server share one bucket, and its hash table is one list that *)
(* every operation locks as a whole (hash_map.c:90, 130, 168).               *)
ASSUME UidsSaturate == \A u \in MCUids : StrToULong(u) = UlongMax
=============================================================================
