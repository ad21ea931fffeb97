------------------------------- MODULE MCServer -------------------------------
(* Two connections; alice has an account, bob may register. *)
EXTENDS Server, TLC
CONSTANTS s1, s2, alice, bob

Two == {s1, s2}
Both == {alice, bob}
OnlyAlice == {alice}
Shared2 == s1 :> {alice} @@ s2 :> {alice, bob}
AnyUid == {"null", "wild"}
NullUid == {"null"}
AnyPing == BOOLEAN
NoPing == {FALSE}
AnyFree == {"abort", "survive"}
FreeAborts == {"abort"}
FreeSurvives == {"survive"}
=============================================================================
