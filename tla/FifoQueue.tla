------------------------------ MODULE FifoQueue ------------------------------
(***************************************************************************)
(* What the server expects of its message queue: a message that was pushed *)
(* is handed out exactly once, in the order in which the messages arrived. *)
(* StsQueue is the linked list that is meant to provide this.              *)
(***************************************************************************)
EXTENDS Naturals, Sequences

CONSTANT Msgs     \* the messages the server's threads hand to push()

VARIABLES queue,  \* messages waiting for the router, oldest first
          taken   \* messages pop() has returned, in that order

vars == <<queue, taken>>

Init == queue = <<>> /\ taken = <<>>

Push(m) == /\ \A i \in 1..Len(queue) : queue[i] # m
           /\ \A i \in 1..Len(taken) : taken[i] # m
           /\ queue' = Append(queue, m)
           /\ UNCHANGED taken

Pop == /\ queue # <<>>
       /\ taken' = Append(taken, Head(queue))
       /\ queue' = Tail(queue)

Next == Pop \/ \E m \in Msgs : Push(m)

Spec == Init /\ [][Next]_vars
=============================================================================
