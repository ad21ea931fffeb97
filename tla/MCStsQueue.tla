----------------------------- MODULE MCStsQueue -----------------------------
(* Two threads push, the router pops. *)
EXTENDS StsQueue
CONSTANTS p1, p2, router, m1, m2, m3, a1, a2, a3

MCProducers == {p1, p2}
MCConsumers == {router}
MCMsgs == {m1, m2, m3}
MCAddrs == {a1, a2, a3}
Works == {TRUE}
Broken == {FALSE}
=============================================================================
