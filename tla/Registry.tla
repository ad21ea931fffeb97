------------------------------- MODULE Registry -------------------------------
(***************************************************************************)
(* What the server's threads expect of the client map: a table from uids   *)
(* to connections in which every call takes effect at one instant between  *)
(* its invocation and its return.                                          *)
(***************************************************************************)
CONSTANTS Threads,   \* every thread that uses the map
          Handlers,  \* those that own a connection, named like the connection
          Uids, UidOf, NULL

VARIABLES registered,  \* the connection each uid leads to, or NULL
          answer       \* what the call a thread is in has found, or "none"

vars == <<registered, answer>>

Init == /\ registered = [u \in Uids |-> NULL]
        /\ answer = [t \in Threads |-> "none"]

Respond(t, a) == /\ answer[t] = "none"
                 /\ answer' = [answer EXCEPT ![t] = a]

Find(t, u) == Respond(t, registered[u]) /\ UNCHANGED registered

Insert(h) ==
    /\ Respond(h, IF registered[UidOf[h]] = NULL THEN "new" ELSE "replaced")
    /\ registered' = [registered EXCEPT ![UidOf[h]] = h]

Erase(t, u) == Respond(t, "erased") /\ registered' = [registered EXCEPT ![u] = NULL]

Return(t) == /\ answer[t] # "none"
             /\ answer' = [answer EXCEPT ![t] = "none"]
             /\ UNCHANGED registered

Next == \/ \E t \in Threads, u \in Uids : Find(t, u) \/ Erase(t, u)
        \/ \E h \in Handlers : Insert(h)
        \/ \E t \in Threads : Return(t)

Spec == Init /\ [][Next]_vars
=============================================================================
