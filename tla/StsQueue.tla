------------------------------- MODULE StsQueue -------------------------------
(***************************************************************************)
(* The "simple thread-safe queue" of common/src/sts_queue.c, one step per  *)
(* access to shared memory: a singly linked list with head and tail        *)
(* pointers, whose elements are malloc'ed by push() and freed by pop().    *)
(*                                                                         *)
(* create() mallocs the mutex and never initialises it.  What such a mutex *)
(* does is undefined: with zeroed memory it excludes, and with the fill    *)
(* pattern of the sanitised build (common/Makefile) pthread_mutex_lock     *)
(* returns EINVAL, which nobody looks at, and excludes no one.  Init       *)
(* chooses among MutexOutcomes.                                            *)
(***************************************************************************)
EXTENDS Naturals, Sequences, FiniteSets, Functions

CONSTANTS Producers,     \* threads that call push(): handlers, pinger, CLI
          Consumers,     \* threads that call pop(): handle_msg_queue
          Msgs,          \* messages, each pushed at most once
          Addrs,         \* heap addresses malloc(sizeof(sts_element)) may return
          NULL,
          MutexOutcomes  \* what the uninitialised mutex may do: TRUE excludes

Threads == Producers \cup Consumers

ASSUME QueueAssumption ==
    /\ NULL \notin Addrs /\ NULL \notin Threads /\ NULL \notin Msgs
    /\ Producers \cap Consumers = {}
    /\ MutexOutcomes \subseteq BOOLEAN

VARIABLES head, tail,    \* header->head, header->tail
          next, value,   \* the fields of every element
          allocated,     \* addresses malloc has handed out and free not taken back
          excludes,      \* does this queue's mutex work?
          mutex,         \* the thread that holds it, or NULL
          pc,            \* what each thread executes next
          elem,          \* push: its new element; pop: its local `head`
          seen,          \* push: its local `oldTail`; pop: head->next, once read
          fault,         \* a freed element was read, written or freed again
          pushed,        \* history: messages handed to push()
          taken,         \* history: messages pop() unlinked, in order
          chain          \* history: the linked elements, oldest first

heapVars == <<next, value, allocated>>
histVars == <<pushed, taken, chain>>
vars == <<head, tail, heapVars, excludes, mutex, pc, elem, seen, fault, histVars>>

Ptr == Addrs \cup {NULL}

PushPoints == {"pushLock", "pushTest", "setHead", "readTail", "link", "setTail", "pushUnlock"}
PopPoints  == {"popTest", "popNext", "popAdvance", "popFree", "popUnlock"}

TypeOK ==
    /\ head \in Ptr /\ tail \in Ptr
    /\ next \in [Addrs -> Ptr]
    /\ value \in [Addrs -> Msgs \cup {NULL}]
    /\ allocated \subseteq Addrs
    /\ excludes \in BOOLEAN /\ fault \in BOOLEAN
    /\ mutex \in Threads \cup {NULL}
    /\ pc \in [Threads -> {"idle"} \cup PushPoints \cup PopPoints]
    /\ elem \in [Threads -> Ptr]
    /\ seen \in [Threads -> Ptr]
    /\ pushed \subseteq Msgs
    /\ taken \in Seq(Msgs)
    /\ chain \in Seq(Addrs)

(* create() *)
Init ==
    /\ head = NULL /\ tail = NULL
    /\ next = [a \in Addrs |-> NULL]
    /\ value = [a \in Addrs |-> NULL]
    /\ allocated = {}
    /\ excludes \in MutexOutcomes
    /\ mutex = NULL
    /\ pc = [t \in Threads |-> "idle"]
    /\ elem = [t \in Threads |-> NULL]
    /\ seen = [t \in Threads |-> NULL]
    /\ fault = FALSE
    /\ pushed = {} /\ taken = <<>> /\ chain = <<>>

-----------------------------------------------------------------------------
(* Thread t is at `from`; the process is still alive. *)
At(t, from) == ~fault /\ pc[t] = from

Goto(t, to) == pc' = [pc EXCEPT ![t] = to]

(* pthread_mutex_lock: waits for the holder only if the mutex works. *)
Lock(t) == /\ excludes => mutex = NULL
           /\ mutex' = IF excludes THEN t ELSE mutex

Unlock(t) == mutex' = IF excludes THEN NULL ELSE mutex

(* Touching an element that was freed: the sanitised build aborts. *)
Abort == /\ fault' = TRUE
         /\ UNCHANGED <<head, tail, heapVars, excludes, mutex, pc, elem, seen, histVars>>

-----------------------------------------------------------------------------
(* Mutant: element->value is left as malloc returned it. *)
PushAlloc_NoValue(t, m, a) ==
    /\ At(t, "idle") /\ t \in Producers
    /\ m \notin pushed /\ a \notin allocated
    /\ pushed' = pushed \cup {m}
    /\ allocated' = allocated \cup {a}
    /\ next' = [next EXCEPT ![a] = NULL]
    /\ elem' = [elem EXCEPT ![t] = a]
    /\ Goto(t, "pushLock")
    /\ UNCHANGED <<head, tail, value, excludes, mutex, seen, fault, taken, chain>>

(* push(header, m), its element at address a *)
PushAlloc(t, m, a) ==
    /\ At(t, "idle") /\ t \in Producers
    /\ m \notin pushed /\ a \notin allocated
    /\ pushed' = pushed \cup {m}
    /\ allocated' = allocated \cup {a}
    /\ value' = [value EXCEPT ![a] = m]
    /\ next' = [next EXCEPT ![a] = NULL]
    /\ elem' = [elem EXCEPT ![t] = a]
    /\ Goto(t, "pushLock")
    /\ UNCHANGED <<head, tail, excludes, mutex, seen, fault, taken, chain>>

PushLock(t) ==
    /\ At(t, "pushLock") /\ Lock(t) /\ Goto(t, "pushTest")
    /\ UNCHANGED <<head, tail, heapVars, excludes, elem, seen, fault, histVars>>

PushTest(t) ==
    /\ At(t, "pushTest")
    /\ Goto(t, IF head = NULL THEN "setHead" ELSE "readTail")
    /\ UNCHANGED <<head, tail, heapVars, excludes, mutex, elem, seen, fault, histVars>>

PushSetHead(t) ==
    /\ At(t, "setHead")
    /\ head' = elem[t]
    /\ chain' = <<elem[t]>>
    /\ Goto(t, "setTail")
    /\ UNCHANGED <<tail, heapVars, excludes, mutex, elem, seen, fault, pushed, taken>>

(* Mutant: the new element is linked after the head. *)
PushReadTail_Head(t) ==
    /\ At(t, "readTail")
    /\ seen' = [seen EXCEPT ![t] = head]
    /\ Goto(t, "link")
    /\ UNCHANGED <<head, tail, heapVars, excludes, mutex, elem, fault, histVars>>

PushReadTail(t) ==
    /\ At(t, "readTail")
    /\ seen' = [seen EXCEPT ![t] = tail]
    /\ Goto(t, "link")
    /\ UNCHANGED <<head, tail, heapVars, excludes, mutex, elem, fault, histVars>>

(* Mutant: the old tail is not linked to the new element. *)
PushLink_Forgotten(t) ==
    /\ At(t, "link") /\ Goto(t, "setTail")
    /\ UNCHANGED <<head, tail, heapVars, excludes, mutex, elem, seen, fault, histVars>>

PushLink(t) ==
    /\ At(t, "link")
    /\ IF seen[t] \in allocated
       THEN /\ next' = [next EXCEPT ![seen[t]] = elem[t]]
            /\ chain' = Append(chain, elem[t])
            /\ Goto(t, "setTail")
            /\ UNCHANGED <<head, tail, value, allocated, excludes, mutex, elem, seen,
                           fault, pushed, taken>>
       ELSE Abort

(* Mutant: the list is rewired but the tail pointer stays behind. *)
PushSetTail_Forgotten(t) ==
    /\ At(t, "setTail") /\ Goto(t, "pushUnlock")
    /\ UNCHANGED <<head, tail, heapVars, excludes, mutex, elem, seen, fault, histVars>>

PushSetTail(t) ==
    /\ At(t, "setTail")
    /\ tail' = elem[t]
    /\ Goto(t, "pushUnlock")
    /\ UNCHANGED <<head, heapVars, excludes, mutex, elem, seen, fault, histVars>>

(* Mutant: push returns with the mutex still locked. *)
PushUnlock_Forgotten(t) ==
    /\ At(t, "pushUnlock") /\ Goto(t, "idle")
    /\ UNCHANGED <<head, tail, heapVars, excludes, mutex, elem, seen, fault, histVars>>

PushUnlock(t) ==
    /\ At(t, "pushUnlock") /\ Unlock(t) /\ Goto(t, "idle")
    /\ UNCHANGED <<head, tail, heapVars, excludes, elem, seen, fault, histVars>>

-----------------------------------------------------------------------------
(* pop(header) *)
PopLock(t) ==
    /\ At(t, "idle") /\ t \in Consumers /\ Lock(t) /\ Goto(t, "popTest")
    /\ UNCHANGED <<head, tail, heapVars, excludes, elem, seen, fault, histVars>>

PopTest(t) ==
    /\ At(t, "popTest")
    /\ elem' = [elem EXCEPT ![t] = head]
    /\ Goto(t, IF head = NULL THEN "popUnlock" ELSE "popNext")
    /\ UNCHANGED <<head, tail, heapVars, excludes, mutex, seen, fault, histVars>>

PopNext(t) ==
    /\ At(t, "popNext")
    /\ IF elem[t] \in allocated
       THEN /\ seen' = [seen EXCEPT ![t] = next[elem[t]]]
            /\ Goto(t, "popAdvance")
            /\ UNCHANGED <<head, tail, heapVars, excludes, mutex, elem, fault, histVars>>
       ELSE Abort

(* header->head = head->next; value = head->value, which nobody writes to    *)
(* once its push() has set it.                                               *)
PopAdvance(t) ==
    /\ At(t, "popAdvance")
    /\ IF elem[t] \in allocated
       THEN /\ head' = seen[t]
            /\ taken' = Append(taken, value[elem[t]])
            /\ chain' = IF chain = <<>> THEN <<>> ELSE Tail(chain)
            /\ Goto(t, "popFree")
            /\ UNCHANGED <<tail, heapVars, excludes, mutex, elem, seen, fault, pushed>>
       ELSE Abort

(* Mutant: pop() frees the new head instead of the one it unlinked. *)
PopFree_NewHead(t) ==
    /\ At(t, "popFree")
    /\ allocated' = allocated \ {head}
    /\ Goto(t, "popUnlock")
    /\ UNCHANGED <<head, tail, next, value, excludes, mutex, elem, seen, fault, histVars>>

PopFree(t) ==
    /\ At(t, "popFree")
    /\ IF elem[t] \in allocated
       THEN /\ allocated' = allocated \ {elem[t]}
            /\ Goto(t, "popUnlock")
            /\ UNCHANGED <<head, tail, next, value, excludes, mutex, elem, seen, fault,
                           histVars>>
       ELSE Abort

PopUnlock(t) ==
    /\ At(t, "popUnlock") /\ Unlock(t) /\ Goto(t, "idle")
    /\ UNCHANGED <<head, tail, heapVars, excludes, elem, seen, fault, histVars>>

-----------------------------------------------------------------------------
Push(t) == \/ \E m \in Msgs, a \in Addrs : PushAlloc(t, m, a)
           \/ PushLock(t) \/ PushTest(t) \/ PushSetHead(t) \/ PushReadTail(t)
           \/ PushLink(t) \/ PushSetTail(t) \/ PushUnlock(t)

Pop(t) == PopLock(t) \/ PopTest(t) \/ PopNext(t) \/ PopAdvance(t) \/ PopFree(t) \/ PopUnlock(t)

Next == \/ \E t \in Producers : Push(t)
        \/ \E t \in Consumers : Pop(t)

Spec == Init /\ [][Next]_vars

(* A thread inside push() runs on; the router calls pop() for ever, sleeping *)
(* 50 ms between two calls (server.c:394), so that a thread which waits for  *)
(* the mutex finds it free again and again and is given it in the end.       *)
Fairness ==
    /\ \A t \in Producers : /\ WF_vars(pc[t] # "idle" /\ Push(t))
                            /\ SF_vars(PushLock(t))
    /\ \A t \in Consumers : WF_vars(Pop(t))

FairSpec == Spec /\ Fairness

-----------------------------------------------------------------------------
(* The elements that a walk from header->head along `next` meets. *)
Linked ==
    LET reach[k \in 0..Cardinality(Addrs)] ==
          IF k = 0 THEN {head} ELSE reach[k - 1] \cup {next[a] : a \in reach[k - 1] \ {NULL}}
    IN reach[Cardinality(Addrs)] \ {NULL}

(* Between calls, every message that was pushed has been handed out by pop() *)
(* or can still be reached from header->head: none is lost when push() and   *)
(* pop() interleave (sts_queue.c:40-51, 58-73).                              *)
NothingLost ==
    (~fault /\ \A t \in Threads : pc[t] = "idle") =>
        pushed = Range(taken) \cup {value[a] : a \in Linked}

(* No thread reads, writes or frees an element that pop() has freed: neither *)
(* the stale header->tail (sts_queue.c:48-49), which pop() never resets, nor *)
(* a head that another thread unlinked (sts_queue.c:69-73).                  *)
MemorySafe == ~fault

(* What the calls leave behind, and what a thread inside the mutex may rely on. *)
Inside(t) == pc[t] \notin {"idle", "pushLock"}

HoldsMutex == \A t \in Threads : Inside(t) <=> mutex = t

(* u's element is not linked: not yet by its push(), or no more by its pop(). *)
Owns(u) == pc[u] \in {"pushLock", "pushTest", "setHead", "readTail", "link", "popFree"}

PrivateElements ==
    \A t \in Threads : Owns(t) =>
        /\ elem[t] \in allocated /\ (pc[t] = "popFree" \/ next[elem[t]] = NULL)
        /\ \A i \in 1..Len(chain) : chain[i] # elem[t]
        /\ \A u \in Threads \ {t} : Owns(u) => elem[u] # elem[t]

ChainIsList ==
    /\ chain = <<>> <=> head = NULL
    /\ chain # <<>> => head = chain[1] /\ next[chain[Len(chain)]] = NULL
    /\ \A i \in 1..Len(chain) : chain[i] \in allocated
    /\ \A i, j \in 1..Len(chain) : chain[i] = chain[j] => i = j
    /\ \A i \in 1..Len(chain) : i < Len(chain) => next[chain[i]] = chain[i + 1]

TailIsLast ==
    (chain # <<>> /\ \A t \in Threads : pc[t] # "setTail") => tail = chain[Len(chain)]

LocalsAgree ==
    \A t \in Threads :
         /\ pc[t] = "setHead" => chain = <<>>
         /\ pc[t] \in {"readTail", "link"} => chain # <<>>
         /\ pc[t] = "link" => seen[t] = tail
         /\ pc[t] = "setTail" => chain # <<>> /\ elem[t] = chain[Len(chain)]
         /\ pc[t] \in {"popNext", "popAdvance"} => chain # <<>> /\ elem[t] = head
         /\ pc[t] = "popAdvance" => seen[t] = next[head]

(* While the mutex excludes, the linked elements are exactly the list from   *)
(* header->head, header->tail is its last element except between the two     *)
(* assignments of a push(), and every local pointer is still valid where it  *)
(* is used: the inductive invariant behind MemorySafe.                       *)
ListInv == excludes => HoldsMutex /\ PrivateElements /\ ChainIsList /\ TailIsLast /\ LocalsAgree

(* The linked list implements the FIFO queue: push() takes effect when its   *)
(* element is linked, pop() when it advances header->head.                   *)
Fifo == INSTANCE FifoQueue WITH queue <- [i \in 1..Len(chain) |-> value[chain[i]]]
ImplementsFifo == Fifo!Spec

(* Every message handed to push() is returned by pop() in the end. *)
Delivered == \A m \in Msgs : m \in pushed ~> m \in Range(taken)
=============================================================================
