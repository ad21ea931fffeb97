---------------------------- MODULE StsQueueProofs ----------------------------
(***************************************************************************)
(* Proofs about StsQueue for any number of threads, messages and           *)
(* addresses: its variables stay in their types whatever the mutex does,   *)
(* and as long as the mutex excludes no freed element is ever touched.     *)
(***************************************************************************)
EXTENDS StsQueue, SequenceTheorems, TLAPS

(* TypeOK is not inductive: pop() hands out value[elem], push() links elem. *)
Initialised ==
    /\ \A t \in Threads : pc[t] \in PushPoints => elem[t] \in Addrs
    /\ \A a \in allocated : value[a] \in Msgs

TypeInv == TypeOK /\ Initialised

(* The initial state has the right types. *)
LEMMA TypeInit == Init => TypeInv
<1> SUFFICES ASSUME Init PROVE TypeInv
  OBVIOUS
<1>1. TypeOK
  <2>1. taken \in Seq(Msgs) /\ chain \in Seq(Addrs)
    BY DEF Init
  <2>2. excludes \in BOOLEAN
    BY QueueAssumption DEF Init
  <2> QED
    BY <2>1, <2>2 DEF Init, TypeOK, Ptr
<1>2. Initialised
  BY DEF Init, Initialised, PushPoints
<1> QED
  BY <1>1, <1>2 DEF TypeInv

(* So has every state a step leads to. *)
LEMMA TypeStep == TypeInv /\ [Next]_vars => TypeInv'
<1> SUFFICES ASSUME TypeInv, [Next]_vars PROVE TypeInv'
  OBVIOUS
<1> USE QueueAssumption DEF TypeInv, TypeOK, Initialised, Ptr, Threads, PushPoints, PopPoints
<1>1. ASSUME NEW t \in Producers, NEW m \in Msgs, NEW a \in Addrs, PushAlloc(t, m, a)
      PROVE  TypeInv'
  BY <1>1 DEF PushAlloc, At, Goto
<1>2. ASSUME NEW t \in Producers, PushLock(t) PROVE TypeInv'
  BY <1>2 DEF PushLock, At, Lock, Goto, heapVars, histVars
<1>3. ASSUME NEW t \in Producers, PushTest(t) PROVE TypeInv'
  BY <1>3 DEF PushTest, At, Goto, heapVars, histVars
<1>4. ASSUME NEW t \in Producers, PushSetHead(t) PROVE TypeInv'
  BY <1>4 DEF PushSetHead, At, Goto, heapVars
<1>5. ASSUME NEW t \in Producers, PushReadTail(t) PROVE TypeInv'
  BY <1>5 DEF PushReadTail, At, Goto, heapVars, histVars
<1>6. ASSUME NEW t \in Producers, PushLink(t) PROVE TypeInv'
  <2>1. elem[t] \in Addrs
    BY <1>6 DEF PushLink, At
  <2>2. CASE seen[t] \in allocated
    <3>1. next' \in [Addrs -> Ptr]
      <4>1. next' = [next EXCEPT ![seen[t]] = elem[t]]
        BY <1>6, <2>2 DEF PushLink
      <4>2. next \in [Addrs -> Ptr] /\ elem[t] \in Ptr
        BY <2>1
      <4> QED
        BY ONLY <4>1, <4>2
    <3>2. chain' \in Seq(Addrs)
      <4>1. chain' = Append(chain, elem[t]) /\ chain \in Seq(Addrs)
        BY <1>6, <2>2 DEF PushLink
      <4> QED
        BY ONLY <2>1, <4>1
    <3> QED
      BY <1>6, <2>2, <3>1, <3>2 DEF PushLink, At, Goto
  <2>3. CASE seen[t] \notin allocated
    BY <1>6, <2>3 DEF PushLink, Abort, heapVars, histVars
  <2> QED
    BY <2>2, <2>3
<1>7. ASSUME NEW t \in Producers, PushSetTail(t) PROVE TypeInv'
  BY <1>7 DEF PushSetTail, At, Goto, heapVars, histVars
<1>8. ASSUME NEW t \in Producers, PushUnlock(t) PROVE TypeInv'
  BY <1>8 DEF PushUnlock, At, Unlock, Goto, heapVars, histVars
<1>9. ASSUME NEW t \in Consumers, PopLock(t) PROVE TypeInv'
  BY <1>9 DEF PopLock, At, Lock, Goto, heapVars, histVars
<1>10. ASSUME NEW t \in Consumers, PopTest(t) PROVE TypeInv'
  BY <1>10 DEF PopTest, At, Goto, heapVars, histVars
<1>11. ASSUME NEW t \in Consumers, PopNext(t) PROVE TypeInv'
  <2>1. CASE elem[t] \in allocated
    <3>1. seen' \in [Threads -> Ptr]
      BY <1>11, <2>1 DEF PopNext
    <3> QED
      BY <1>11, <2>1, <3>1 DEF PopNext, At, Goto, heapVars, histVars
  <2>2. CASE elem[t] \notin allocated
    BY <1>11, <2>2 DEF PopNext, Abort, heapVars, histVars
  <2> QED
    BY <2>1, <2>2
<1>12. ASSUME NEW t \in Consumers, PopAdvance(t) PROVE TypeInv'
  <2>1. CASE elem[t] \in allocated
    <3>1. taken' \in Seq(Msgs)
      <4>1. value[elem[t]] \in Msgs /\ taken' = Append(taken, value[elem[t]])
        BY <1>12, <2>1 DEF PopAdvance
      <4>2. taken \in Seq(Msgs)
        OBVIOUS
      <4> HIDE DEF TypeInv
      <4> QED
        BY <4>1, <4>2
    <3>2. chain' \in Seq(Addrs)
      <4>1. chain' = IF chain = <<>> THEN <<>> ELSE Tail(chain)
        BY <1>12, <2>1 DEF PopAdvance
      <4>2. chain \in Seq(Addrs)
        OBVIOUS
      <4> HIDE DEF TypeInv
      <4>3. CASE chain = <<>>
        BY <4>1, <4>3
      <4>4. CASE chain # <<>>
        BY <4>1, <4>2, <4>4
      <4> QED
        BY <4>3, <4>4
    <3>3. head' \in Ptr
      BY <1>12, <2>1 DEF PopAdvance
    <3> QED
      BY <1>12, <2>1, <3>1, <3>2, <3>3 DEF PopAdvance, Goto, heapVars
  <2>2. CASE elem[t] \notin allocated
    BY <1>12, <2>2 DEF PopAdvance, Abort, heapVars, histVars
  <2> QED
    BY <2>1, <2>2
<1>13. ASSUME NEW t \in Consumers, PopFree(t) PROVE TypeInv'
  <2>1. CASE elem[t] \in allocated
    BY <1>13, <2>1 DEF PopFree, Goto, histVars
  <2>2. CASE elem[t] \notin allocated
    BY <1>13, <2>2 DEF PopFree, Abort, heapVars, histVars
  <2> QED
    BY <2>1, <2>2
<1>14. ASSUME NEW t \in Consumers, PopUnlock(t) PROVE TypeInv'
  BY <1>14 DEF PopUnlock, At, Unlock, Goto, heapVars, histVars
<1>15. ASSUME UNCHANGED vars PROVE TypeInv'
  BY <1>15 DEF vars, heapVars, histVars
<1> QED
  BY <1>1, <1>2, <1>3, <1>4, <1>5, <1>6, <1>7, <1>8, <1>9, <1>10, <1>11, <1>12, <1>13, <1>14,
     <1>15
     DEF Next, Push, Pop

(* Whatever the mutex does, the queue's variables keep their types: pop()   *)
(* never hands out a value that push() did not write (sts_queue.c:35, 72).  *)
THEOREM TypeCorrect == Spec => []TypeOK
<1>1. TypeInv => TypeOK
  BY DEF TypeInv
<1> QED
  BY <1>1, TypeInit, TypeStep, PTL DEF Spec
-----------------------------------------------------------------------------
(* What a list gains at its tail and loses at its head. *)
LEMMA AppendFacts ==
    ASSUME NEW S, NEW s \in Seq(S), NEW e \in S
    PROVE  /\ Len(Append(s, e)) = Len(s) + 1 /\ Append(s, e) # <<>>
           /\ \A i \in 1..Len(s) : Append(s, e)[i] = s[i]
           /\ Append(s, e)[Len(s) + 1] = e
OBVIOUS

(* What is left of a list when its head is taken. *)
LEMMA TailFacts ==
    ASSUME NEW S, NEW s \in Seq(S), s # <<>>
    PROVE  /\ Len(s) \in Nat \ {0} /\ Len(Tail(s)) = Len(s) - 1
           /\ \A i \in 1..Len(Tail(s)) : Tail(s)[i] = s[i + 1] /\ i + 1 \in 1..Len(s)
           /\ Tail(s) = <<>> <=> Len(s) = 1
<1>1. Len(s) \in Nat \ {0} /\ Len(Tail(s)) = Len(s) - 1
  OBVIOUS
<1>2. \A i \in 1..Len(Tail(s)) : Tail(s)[i] = s[i + 1] /\ i + 1 \in 1..Len(s)
  BY <1>1
<1>3. Tail(s) \in Seq(S)
  OBVIOUS
<1>4. Tail(s) = <<>> <=> Len(s) = 1
  <2>1. CASE Tail(s) = <<>>
    BY <2>1, <1>1
  <2>2. CASE Tail(s) # <<>>
    <3>1. Len(Tail(s)) \in Nat \ {0}
      BY <2>2, <1>3, EmptySeq
    <3> QED
      BY <3>1, <2>2, <1>1
  <2> QED
    BY <2>1, <2>2
<1> QED
  BY <1>1, <1>2, <1>4

(* A list that is not a singleton has a second element. *)
LEMMA SecondIndex == \A n \in Nat \ {0} : n # 1 => 1 \in 1..n /\ 2 \in 1..n /\ 1 < n
OBVIOUS

-----------------------------------------------------------------------------
(* While the mutex excludes. *)
Guarded == /\ TypeInv /\ excludes /\ ~fault
           /\ HoldsMutex /\ PrivateElements /\ ChainIsList /\ TailIsLast /\ LocalsAgree

(* The guarded state holds in an empty queue. *)
LEMMA GuardedInit == Init /\ excludes => Guarded
<1> SUFFICES ASSUME Init, excludes PROVE Guarded
  OBVIOUS
<1>1. chain = <<>> /\ Len(chain) = 0 /\ \A t \in Threads : pc[t] = "idle"
  BY DEF Init
<1>2. HoldsMutex
  BY <1>1, QueueAssumption DEF Init, HoldsMutex, Inside
<1>3. PrivateElements /\ LocalsAgree
  BY <1>1 DEF PrivateElements, LocalsAgree, Owns, Threads
<1>4. ChainIsList /\ TailIsLast
  BY <1>1 DEF Init, ChainIsList, TailIsLast
<1> QED
  BY <1>2, <1>3, <1>4, TypeInit DEF Guarded, Init

(* Only one thread is between lock and unlock. *)
LEMMA Alone == ASSUME Guarded, NEW t \in Threads, Inside(t), NEW u \in Threads, Inside(u)
               PROVE  t = u
BY DEF Guarded, HoldsMutex

(* A new element is nobody else's (sts_queue.c:31-36). *)
LEMMA StepPushAlloc ==
    ASSUME Guarded, TypeInv', NEW t \in Producers, NEW m \in Msgs, NEW a \in Addrs,
           PushAlloc(t, m, a)
    PROVE  Guarded'
<1> USE DEF Guarded
<1> USE QueueAssumption DEF Threads
<1>0. /\ pc \in [Threads -> {"idle"} \cup PushPoints \cup PopPoints] /\ elem \in [Threads -> Ptr]
      /\ next \in [Addrs -> Ptr] /\ allocated \subseteq Addrs /\ chain \in Seq(Addrs)
  BY DEF TypeInv, TypeOK
<1>1. /\ pc[t] = "idle" /\ pc' = [pc EXCEPT ![t] = "pushLock"]
      /\ elem' = [elem EXCEPT ![t] = a] /\ next' = [next EXCEPT ![a] = NULL]
      /\ a \notin allocated /\ allocated' = allocated \cup {a}
      /\ UNCHANGED <<head, tail, excludes, mutex, seen, fault, taken, chain>>
  BY DEF PushAlloc, At, Goto
<1>2. HoldsMutex'
  BY <1>0, <1>1 DEF HoldsMutex, Inside
<1>3. \A i \in 1..Len(chain) : chain[i] # a
  BY <1>1 DEF ChainIsList
<1>4. PrivateElements'
  <2>1. \A u \in Threads \ {t} : Owns(u) => elem[u] # a
    BY <1>1 DEF PrivateElements, LocalsAgree, Owns
  <2> QED
    BY <1>0, <1>1, <1>3, <2>1 DEF PrivateElements, Owns
<1>5. ChainIsList'
  BY <1>0, <1>1, <1>3 DEF ChainIsList
<1>6. TailIsLast'
  BY <1>0, <1>1 DEF TailIsLast
<1>7. LocalsAgree'
  <2>1. chain # <<>> => head \in Addrs /\ head # a
    BY <1>0, <1>1, <1>3 DEF ChainIsList
  <2>2. chain # <<>> => next'[head] = next[head]
    BY <1>0, <1>1, <2>1
  <2> QED
    BY <1>0, <1>1, <2>2 DEF LocalsAgree
<1> QED
  BY <1>1, <1>2, <1>4, <1>5, <1>6, <1>7

(* push() enters its critical section (sts_queue.c:38). *)
LEMMA StepPushLock ==
    ASSUME Guarded, TypeInv', NEW t \in Producers, PushLock(t)
    PROVE  Guarded'
<1> USE QueueAssumption DEF Guarded, Threads
<1>0. /\ pc \in [Threads -> {"idle"} \cup PushPoints \cup PopPoints] /\ elem \in [Threads -> Ptr]
      /\ next \in [Addrs -> Ptr] /\ allocated \subseteq Addrs /\ chain \in Seq(Addrs)
      /\ seen \in [Threads -> Ptr]
  BY DEF TypeInv, TypeOK
<1>1. /\ pc[t] = "pushLock" /\ pc' = [pc EXCEPT ![t] = "pushTest"]
      /\ mutex = NULL /\ mutex' = t
      /\ UNCHANGED <<head, tail, next, value, allocated, excludes, elem, seen, fault, chain>>
  BY DEF PushLock, At, Lock, Goto, heapVars, histVars
<1>a. \A u \in Threads : pc[u] \in {"idle", "pushLock"}
  BY <1>1 DEF HoldsMutex, Inside
<1>2. HoldsMutex'
  BY <1>0, <1>1, <1>a DEF HoldsMutex, Inside
<1>3. PrivateElements'
  BY <1>0, <1>1, <1>a DEF PrivateElements, Owns
<1>4. ChainIsList'
  BY <1>0, <1>1 DEF ChainIsList
<1>5. TailIsLast'
  BY <1>0, <1>1, <1>a DEF TailIsLast
<1>6. LocalsAgree'
  BY <1>0, <1>1, <1>a DEF LocalsAgree
<1> QED
  BY <1>1, <1>2, <1>3, <1>4, <1>5, <1>6

(* The test of head decides between an empty and a longer list (sts_queue.c:39-40). *)
LEMMA StepPushTest ==
    ASSUME Guarded, TypeInv', NEW t \in Producers, PushTest(t)
    PROVE  Guarded'
<1> USE QueueAssumption DEF Guarded, Threads
<1>0. /\ pc \in [Threads -> {"idle"} \cup PushPoints \cup PopPoints] /\ elem \in [Threads -> Ptr]
      /\ next \in [Addrs -> Ptr] /\ allocated \subseteq Addrs /\ chain \in Seq(Addrs)
      /\ seen \in [Threads -> Ptr]
  BY DEF TypeInv, TypeOK
<1>1. /\ pc[t] = "pushTest" /\ pc' = [pc EXCEPT ![t] =
                                              IF head = NULL THEN "setHead" ELSE "readTail"]
      /\ UNCHANGED <<mutex, head, tail, next, value, allocated, excludes, elem, seen, fault,
                     chain>>
  BY DEF PushTest, At, Goto, heapVars, histVars
<1>a. \A u \in Threads \ {t} : pc[u] \in {"idle", "pushLock"}
  BY <1>1, Alone DEF Inside
<1>2. HoldsMutex'
  BY <1>0, <1>1, <1>a DEF HoldsMutex, Inside
<1>3. PrivateElements'
  BY <1>0, <1>1, <1>a DEF PrivateElements, Owns
<1>4. ChainIsList'
  BY <1>0, <1>1 DEF ChainIsList
<1>5. TailIsLast'
  BY <1>0, <1>1, <1>a DEF TailIsLast
<1>6. LocalsAgree'
  BY <1>0, <1>1, <1>a DEF LocalsAgree, ChainIsList
<1> QED
  BY <1>1, <1>2, <1>3, <1>4, <1>5, <1>6

(* The local seen is the last element (sts_queue.c:48). *)
LEMMA StepPushReadTail ==
    ASSUME Guarded, TypeInv', NEW t \in Producers, PushReadTail(t)
    PROVE  Guarded'
<1> USE QueueAssumption DEF Guarded, Threads
<1>0. /\ pc \in [Threads -> {"idle"} \cup PushPoints \cup PopPoints] /\ elem \in [Threads -> Ptr]
      /\ next \in [Addrs -> Ptr] /\ allocated \subseteq Addrs /\ chain \in Seq(Addrs)
      /\ seen \in [Threads -> Ptr]
  BY DEF TypeInv, TypeOK
<1>1. /\ pc[t] = "readTail" /\ pc' = [pc EXCEPT ![t] = "link"]
      /\ seen' = [seen EXCEPT ![t] = tail]
      /\ UNCHANGED <<mutex, head, tail, next, value, allocated, excludes, elem, fault, chain>>
  BY DEF PushReadTail, At, Goto, heapVars, histVars
<1>a. \A u \in Threads \ {t} : pc[u] \in {"idle", "pushLock"}
  BY <1>1, Alone DEF Inside
<1>2. HoldsMutex'
  BY <1>0, <1>1, <1>a DEF HoldsMutex, Inside
<1>3. PrivateElements'
  BY <1>0, <1>1, <1>a DEF PrivateElements, Owns
<1>4. ChainIsList'
  BY <1>0, <1>1 DEF ChainIsList
<1>5. TailIsLast'
  BY <1>0, <1>1, <1>a DEF TailIsLast
<1>6. LocalsAgree'
  BY <1>0, <1>1, <1>a DEF LocalsAgree
<1> QED
  BY <1>1, <1>2, <1>3, <1>4, <1>5, <1>6

(* tail is the last element again (sts_queue.c:43, 50). *)
LEMMA StepPushSetTail ==
    ASSUME Guarded, TypeInv', NEW t \in Producers, PushSetTail(t)
    PROVE  Guarded'
<1> USE QueueAssumption DEF Guarded, Threads
<1>0. /\ pc \in [Threads -> {"idle"} \cup PushPoints \cup PopPoints] /\ elem \in [Threads -> Ptr]
      /\ next \in [Addrs -> Ptr] /\ allocated \subseteq Addrs /\ chain \in Seq(Addrs)
      /\ seen \in [Threads -> Ptr]
  BY DEF TypeInv, TypeOK
<1>1. /\ pc[t] = "setTail" /\ pc' = [pc EXCEPT ![t] = "pushUnlock"]
      /\ tail' = elem[t]
      /\ UNCHANGED <<mutex, head, next, value, allocated, excludes, elem, seen, fault, chain>>
  BY DEF PushSetTail, At, Goto, heapVars, histVars
<1>a. \A u \in Threads \ {t} : pc[u] \in {"idle", "pushLock"}
  BY <1>1, Alone DEF Inside
<1>2. HoldsMutex'
  BY <1>0, <1>1, <1>a DEF HoldsMutex, Inside
<1>3. PrivateElements'
  BY <1>0, <1>1, <1>a DEF PrivateElements, Owns
<1>4. ChainIsList'
  BY <1>0, <1>1 DEF ChainIsList
<1>5. TailIsLast'
  BY <1>0, <1>1, <1>a DEF TailIsLast, LocalsAgree
<1>6. LocalsAgree'
  BY <1>0, <1>1, <1>a DEF LocalsAgree
<1> QED
  BY <1>1, <1>2, <1>3, <1>4, <1>5, <1>6

(* push() leaves its critical section (sts_queue.c:52). *)
LEMMA StepPushUnlock ==
    ASSUME Guarded, TypeInv', NEW t \in Producers, PushUnlock(t)
    PROVE  Guarded'
<1> USE QueueAssumption DEF Guarded, Threads
<1>0. /\ pc \in [Threads -> {"idle"} \cup PushPoints \cup PopPoints] /\ elem \in [Threads -> Ptr]
      /\ next \in [Addrs -> Ptr] /\ allocated \subseteq Addrs /\ chain \in Seq(Addrs)
      /\ seen \in [Threads -> Ptr]
  BY DEF TypeInv, TypeOK
<1>1. /\ pc[t] = "pushUnlock" /\ pc' = [pc EXCEPT ![t] = "idle"]
      /\ mutex' = NULL
      /\ UNCHANGED <<head, tail, next, value, allocated, excludes, elem, seen, fault, chain>>
  BY DEF PushUnlock, At, Unlock, Goto, heapVars, histVars
<1>a. \A u \in Threads \ {t} : pc[u] \in {"idle", "pushLock"}
  BY <1>1, Alone DEF Inside
<1>2. HoldsMutex'
  BY <1>0, <1>1, <1>a DEF HoldsMutex, Inside
<1>3. PrivateElements'
  BY <1>0, <1>1, <1>a DEF PrivateElements, Owns
<1>4. ChainIsList'
  BY <1>0, <1>1 DEF ChainIsList
<1>5. TailIsLast'
  BY <1>0, <1>1, <1>a DEF TailIsLast
<1>6. LocalsAgree'
  BY <1>0, <1>1, <1>a DEF LocalsAgree
<1> QED
  BY <1>1, <1>2, <1>3, <1>4, <1>5, <1>6

(* pop() enters its critical section (sts_queue.c:57). *)
LEMMA StepPopLock ==
    ASSUME Guarded, TypeInv', NEW t \in Consumers, PopLock(t)
    PROVE  Guarded'
<1> USE QueueAssumption DEF Guarded, Threads
<1>0. /\ pc \in [Threads -> {"idle"} \cup PushPoints \cup PopPoints] /\ elem \in [Threads -> Ptr]
      /\ next \in [Addrs -> Ptr] /\ allocated \subseteq Addrs /\ chain \in Seq(Addrs)
      /\ seen \in [Threads -> Ptr]
  BY DEF TypeInv, TypeOK
<1>1. /\ pc[t] = "idle" /\ pc' = [pc EXCEPT ![t] = "popTest"]
      /\ mutex = NULL /\ mutex' = t
      /\ UNCHANGED <<head, tail, next, value, allocated, excludes, elem, seen, fault, chain>>
  BY DEF PopLock, At, Lock, Goto, heapVars, histVars
<1>a. \A u \in Threads : pc[u] \in {"idle", "pushLock"}
  BY <1>1 DEF HoldsMutex, Inside
<1>2. HoldsMutex'
  BY <1>0, <1>1, <1>a DEF HoldsMutex, Inside
<1>3. PrivateElements'
  BY <1>0, <1>1, <1>a DEF PrivateElements, Owns
<1>4. ChainIsList'
  BY <1>0, <1>1 DEF ChainIsList
<1>5. TailIsLast'
  BY <1>0, <1>1, <1>a DEF TailIsLast
<1>6. LocalsAgree'
  BY <1>0, <1>1, <1>a DEF LocalsAgree
<1> QED
  BY <1>1, <1>2, <1>3, <1>4, <1>5, <1>6

(* The local head is the first element (sts_queue.c:58-65). *)
LEMMA StepPopTest ==
    ASSUME Guarded, TypeInv', NEW t \in Consumers, PopTest(t)
    PROVE  Guarded'
<1> USE QueueAssumption DEF Guarded, Threads
<1>0. /\ pc \in [Threads -> {"idle"} \cup PushPoints \cup PopPoints] /\ elem \in [Threads -> Ptr]
      /\ next \in [Addrs -> Ptr] /\ allocated \subseteq Addrs /\ chain \in Seq(Addrs)
      /\ seen \in [Threads -> Ptr]
  BY DEF TypeInv, TypeOK
<1>1. /\ pc[t] = "popTest" /\ pc' = [pc EXCEPT ![t] =
                                              IF head = NULL THEN "popUnlock" ELSE "popNext"]
      /\ elem' = [elem EXCEPT ![t] = head]
      /\ UNCHANGED <<mutex, head, tail, next, value, allocated, excludes, seen, fault, chain>>
  BY DEF PopTest, At, Goto, heapVars, histVars
<1>a. \A u \in Threads \ {t} : pc[u] \in {"idle", "pushLock"}
  BY <1>1, Alone DEF Inside
<1>2. HoldsMutex'
  BY <1>0, <1>1, <1>a DEF HoldsMutex, Inside
<1>3. PrivateElements'
  BY <1>0, <1>1, <1>a DEF PrivateElements, Owns
<1>4. ChainIsList'
  BY <1>0, <1>1 DEF ChainIsList
<1>5. TailIsLast'
  BY <1>0, <1>1, <1>a DEF TailIsLast
<1>6. LocalsAgree'
  BY <1>0, <1>1, <1>a DEF LocalsAgree, ChainIsList
<1> QED
  BY <1>1, <1>2, <1>3, <1>4, <1>5, <1>6

(* pop() leaves its critical section (sts_queue.c:75). *)
LEMMA StepPopUnlock ==
    ASSUME Guarded, TypeInv', NEW t \in Consumers, PopUnlock(t)
    PROVE  Guarded'
<1> USE QueueAssumption DEF Guarded, Threads
<1>0. /\ pc \in [Threads -> {"idle"} \cup PushPoints \cup PopPoints] /\ elem \in [Threads -> Ptr]
      /\ next \in [Addrs -> Ptr] /\ allocated \subseteq Addrs /\ chain \in Seq(Addrs)
      /\ seen \in [Threads -> Ptr]
  BY DEF TypeInv, TypeOK
<1>1. /\ pc[t] = "popUnlock" /\ pc' = [pc EXCEPT ![t] = "idle"]
      /\ mutex' = NULL
      /\ UNCHANGED <<head, tail, next, value, allocated, excludes, elem, seen, fault, chain>>
  BY DEF PopUnlock, At, Unlock, Goto, heapVars, histVars
<1>a. \A u \in Threads \ {t} : pc[u] \in {"idle", "pushLock"}
  BY <1>1, Alone DEF Inside
<1>2. HoldsMutex'
  BY <1>0, <1>1, <1>a DEF HoldsMutex, Inside
<1>3. PrivateElements'
  BY <1>0, <1>1, <1>a DEF PrivateElements, Owns
<1>4. ChainIsList'
  BY <1>0, <1>1 DEF ChainIsList
<1>5. TailIsLast'
  BY <1>0, <1>1, <1>a DEF TailIsLast
<1>6. LocalsAgree'
  BY <1>0, <1>1, <1>a DEF LocalsAgree
<1> QED
  BY <1>1, <1>2, <1>3, <1>4, <1>5, <1>6

(* The first element of an empty list (sts_queue.c:41-42). *)
LEMMA StepPushSetHead ==
    ASSUME Guarded, TypeInv', NEW t \in Producers, PushSetHead(t)
    PROVE  Guarded'
<1> USE QueueAssumption DEF Guarded, Threads
<1>0. /\ pc \in [Threads -> {"idle"} \cup PushPoints \cup PopPoints] /\ elem \in [Threads -> Ptr]
      /\ next \in [Addrs -> Ptr] /\ allocated \subseteq Addrs /\ chain \in Seq(Addrs)
      /\ seen \in [Threads -> Ptr]
  BY DEF TypeInv, TypeOK
<1>1. /\ pc[t] = "setHead" /\ pc' = [pc EXCEPT ![t] = "setTail"]
      /\ head' = elem[t] /\ chain' = <<elem[t]>>
      /\ UNCHANGED <<mutex, tail, next, value, allocated, excludes, elem, seen, fault>>
  BY DEF PushSetHead, At, Goto, heapVars
<1>a. \A u \in Threads \ {t} : pc[u] \in {"idle", "pushLock"}
  BY <1>1, Alone DEF Inside
<1>b. /\ elem[t] \in allocated /\ next[elem[t]] = NULL
      /\ \A u \in Threads \ {t} : Owns(u) => elem[u] # elem[t]
  BY <1>1 DEF PrivateElements, Owns
<1>c. Len(chain') = 1 /\ chain'[1] = elem[t] /\ chain' # <<>>
  BY <1>1
<1>2. HoldsMutex'
  BY <1>0, <1>1, <1>a DEF HoldsMutex, Inside
<1>3. PrivateElements'
  BY <1>0, <1>1, <1>a, <1>b, <1>c DEF PrivateElements, Owns
<1>4. ChainIsList'
  BY <1>0, <1>1, <1>b, <1>c DEF ChainIsList
<1>5. TailIsLast'
  BY <1>0, <1>1 DEF TailIsLast
<1>6. LocalsAgree'
  BY <1>0, <1>1, <1>a, <1>c DEF LocalsAgree
<1> QED
  BY <1>1, <1>2, <1>3, <1>4, <1>5, <1>6

(* The new element is linked behind the last one (sts_queue.c:49). *)
LEMMA StepPushLink ==
    ASSUME Guarded, TypeInv', NEW t \in Producers, PushLink(t)
    PROVE  Guarded'
<1> USE QueueAssumption DEF Guarded, Threads
<1>0. /\ pc \in [Threads -> {"idle"} \cup PushPoints \cup PopPoints] /\ elem \in [Threads -> Ptr]
      /\ next \in [Addrs -> Ptr] /\ allocated \subseteq Addrs /\ chain \in Seq(Addrs)
      /\ seen \in [Threads -> Ptr]
  BY DEF TypeInv, TypeOK
<1>1. pc[t] = "link"
  BY DEF PushLink, At
<1>a. \A u \in Threads \ {t} : pc[u] \in {"idle", "pushLock"}
  BY <1>1, Alone DEF Inside
<1>b. chain # <<>> /\ Len(chain) \in Nat \ {0}
  BY <1>0, <1>1 DEF LocalsAgree
<1>c. /\ seen[t] = chain[Len(chain)] /\ seen[t] \in allocated
      /\ next[seen[t]] = NULL
  <2>1. seen[t] = tail /\ tail = chain[Len(chain)]
    BY <1>1, <1>a, <1>b DEF LocalsAgree, TailIsLast
  <2> QED
    BY <2>1, <1>b DEF ChainIsList
<1>d. /\ pc' = [pc EXCEPT ![t] = "setTail"]
      /\ next' = [next EXCEPT ![seen[t]] = elem[t]] /\ chain' = Append(chain, elem[t])
      /\ UNCHANGED <<mutex, head, tail, value, allocated, excludes, elem, seen, fault>>
  BY <1>c DEF PushLink, Goto
<1>e. /\ elem[t] \in allocated /\ next[elem[t]] = NULL
      /\ \A i \in 1..Len(chain) : chain[i] # elem[t]
      /\ \A u \in Threads \ {t} : Owns(u) => elem[u] # elem[t]
  BY <1>1 DEF PrivateElements, Owns
<1>f. /\ Len(chain') = Len(chain) + 1 /\ chain' # <<>>
      /\ \A i \in 1..Len(chain) : chain'[i] = chain[i]
      /\ chain'[Len(chain) + 1] = elem[t]
  <2>1. elem[t] \in Addrs /\ chain \in Seq(Addrs)
    BY <1>0, <1>e
  <2> QED
    BY <2>1, <1>d, AppendFacts
<1>2. HoldsMutex'
  BY <1>0, <1>1, <1>a, <1>d DEF HoldsMutex, Inside
<1>3. PrivateElements'
  <2> SUFFICES ASSUME NEW u \in Threads, Owns(u)'
               PROVE  /\ elem'[u] \in allocated' /\ (pc'[u] = "popFree" \/ next'[elem'[u]] = NULL)
                      /\ \A i \in 1..Len(chain') : chain'[i] # elem'[u]
                      /\ \A v \in Threads \ {u} : Owns(v)' => elem'[v] # elem'[u]
    BY DEF PrivateElements
  <2>1. u # t /\ Owns(u) /\ pc'[u] = pc[u] /\ elem'[u] = elem[u]
    BY <1>0, <1>d DEF Owns
  <2>2. /\ elem[u] \in allocated /\ (pc[u] = "popFree" \/ next[elem[u]] = NULL)
        /\ \A i \in 1..Len(chain) : chain[i] # elem[u]
        /\ elem[u] # elem[t]
    BY <2>1, <1>e DEF PrivateElements
  <2>3. elem[u] # seen[t]
    BY <2>2, <1>b, <1>c
  <2>4. \A v \in Threads \ {u} : Owns(v)' => elem'[v] # elem'[u]
    BY <1>0, <1>d, <2>1 DEF PrivateElements, Owns
  <2> QED
    BY <1>0, <1>d, <1>f, <1>b, <2>1, <2>2, <2>3, <2>4
<1>4. ChainIsList'
  <2>1. head' = chain'[1] /\ head' # NULL
    BY <1>b, <1>d, <1>f, <1>0 DEF ChainIsList
  <2>2. next'[elem[t]] = NULL
    BY <1>0, <1>b, <1>c, <1>d, <1>e
  <2>3. \A i \in 1..Len(chain') : chain'[i] \in allocated'
    BY <1>b, <1>d, <1>e, <1>f DEF ChainIsList
  <2>4. \A i, j \in 1..Len(chain') : chain'[i] = chain'[j] => i = j
    BY <1>b, <1>e, <1>f DEF ChainIsList
  <2>5. ASSUME NEW i \in 1..Len(chain'), i < Len(chain')
        PROVE  next'[chain'[i]] = chain'[i + 1]
    <3>1. CASE i = Len(chain)
      BY <3>1, <1>0, <1>b, <1>c, <1>d, <1>f
    <3>2. CASE i < Len(chain)
      <4>1. /\ i \in 1..Len(chain) /\ i + 1 \in 1..Len(chain)
            /\ chain'[i] = chain[i] /\ chain'[i + 1] = chain[i + 1]
        BY <3>2, <1>b, <1>f
      <4>2. next[chain[i]] = chain[i + 1] /\ chain[i] # seen[t] /\ chain[i] \in Addrs
        BY <3>2, <4>1, <1>0, <1>b, <1>c DEF ChainIsList
      <4> QED
        BY <4>1, <4>2, <1>0, <1>d
    <3> QED
      BY <3>1, <3>2, <2>5, <1>b, <1>f
  <2> QED
    BY <1>b, <1>f, <2>1, <2>2, <2>3, <2>4, <2>5 DEF ChainIsList
<1>5. TailIsLast'
  BY <1>0, <1>d DEF TailIsLast
<1>6. LocalsAgree'
  BY <1>0, <1>1, <1>a, <1>b, <1>d, <1>f DEF LocalsAgree
<1> QED
  BY <1>d, <1>2, <1>3, <1>4, <1>5, <1>6

(* What follows the first element is read (sts_queue.c:69). *)
LEMMA StepPopNext ==
    ASSUME Guarded, TypeInv', NEW t \in Consumers, PopNext(t)
    PROVE  Guarded'
<1> USE QueueAssumption DEF Guarded, Threads
<1>0. /\ pc \in [Threads -> {"idle"} \cup PushPoints \cup PopPoints] /\ elem \in [Threads -> Ptr]
      /\ next \in [Addrs -> Ptr] /\ allocated \subseteq Addrs /\ chain \in Seq(Addrs)
      /\ seen \in [Threads -> Ptr]
  BY DEF TypeInv, TypeOK
<1>1. pc[t] = "popNext"
  BY DEF PopNext, At
<1>a. \A u \in Threads \ {t} : pc[u] \in {"idle", "pushLock"}
  BY <1>1, Alone DEF Inside
<1>b. chain # <<>> /\ elem[t] = head /\ elem[t] \in allocated
  BY <1>0, <1>1 DEF LocalsAgree, ChainIsList
<1>c. /\ pc' = [pc EXCEPT ![t] = "popAdvance"] /\ seen' = [seen EXCEPT ![t] = next[elem[t]]]
      /\ UNCHANGED <<mutex, head, tail, next, value, allocated, excludes, elem, fault, chain>>
  BY <1>b DEF PopNext, Goto, heapVars, histVars
<1>2. HoldsMutex'
  BY <1>0, <1>1, <1>a, <1>c DEF HoldsMutex, Inside
<1>3. PrivateElements'
  BY <1>0, <1>1, <1>a, <1>c DEF PrivateElements, Owns
<1>4. ChainIsList'
  BY <1>0, <1>c DEF ChainIsList
<1>5. TailIsLast'
  BY <1>0, <1>1, <1>a, <1>c DEF TailIsLast
<1>6. LocalsAgree'
  BY <1>0, <1>1, <1>a, <1>b, <1>c DEF LocalsAgree
<1> QED
  BY <1>c, <1>2, <1>3, <1>4, <1>5, <1>6

(* The first element is unlinked (sts_queue.c:66-72). *)
LEMMA StepPopAdvance ==
    ASSUME Guarded, TypeInv', NEW t \in Consumers, PopAdvance(t)
    PROVE  Guarded'
<1> USE QueueAssumption DEF Guarded, Threads
<1>0. /\ pc \in [Threads -> {"idle"} \cup PushPoints \cup PopPoints] /\ elem \in [Threads -> Ptr]
      /\ next \in [Addrs -> Ptr] /\ allocated \subseteq Addrs /\ chain \in Seq(Addrs)
      /\ seen \in [Threads -> Ptr]
  BY DEF TypeInv, TypeOK
<1>1. pc[t] = "popAdvance"
  BY DEF PopAdvance, At
<1>a. \A u \in Threads \ {t} : pc[u] \in {"idle", "pushLock"}
  BY <1>1, Alone DEF Inside
<1>b. chain # <<>> /\ Len(chain) \in Nat \ {0}
  BY <1>0, <1>1 DEF LocalsAgree
<1>c. elem[t] = chain[1] /\ elem[t] \in allocated
  BY <1>0, <1>1, <1>b DEF LocalsAgree, ChainIsList
<1>d. /\ pc' = [pc EXCEPT ![t] = "popFree"]
      /\ head' = next[elem[t]] /\ chain' = Tail(chain)
      /\ UNCHANGED <<mutex, tail, next, value, allocated, excludes, elem, seen, fault>>
  BY <1>0, <1>1, <1>b, <1>c DEF PopAdvance, Goto, heapVars, LocalsAgree
<1>e. /\ Len(chain') = Len(chain) - 1
      /\ \A i \in 1..Len(chain') : chain'[i] = chain[i + 1] /\ i + 1 \in 1..Len(chain)
      /\ chain' = <<>> <=> Len(chain) = 1
  BY <1>0, <1>b, <1>d, TailFacts
<1>2. HoldsMutex'
  BY <1>0, <1>1, <1>a, <1>d DEF HoldsMutex, Inside
<1>3. PrivateElements'
  <2>1. \A u \in Threads \ {t} : Owns(u)' => Owns(u) /\ elem[u] # elem[t]
    BY <1>0, <1>b, <1>c, <1>d DEF PrivateElements, Owns
  <2>2. \A i \in 1..Len(chain') : chain'[i] # elem[t]
    BY <1>b, <1>c, <1>e DEF ChainIsList
  <2>3. \A u \in Threads \ {t} : Owns(u) => \A i \in 1..Len(chain') : chain'[i] # elem[u]
    BY <1>e DEF PrivateElements
  <2> QED
    BY <1>0, <1>c, <1>d, <2>1, <2>2, <2>3 DEF PrivateElements, Owns
<1>4. ChainIsList'
  <2>1. CASE Len(chain) = 1
    BY <2>1, <1>b, <1>c, <1>d, <1>e DEF ChainIsList
  <2>2. CASE Len(chain) # 1
    <3>1. /\ head' = chain'[1] /\ head' # NULL /\ chain' # <<>>
          /\ chain'[Len(chain')] = chain[Len(chain)]
      <4>1. head' = chain[2] /\ chain[2] \in allocated
        <5>1. 1 \in 1..Len(chain) /\ 2 \in 1..Len(chain) /\ 1 < Len(chain)
          BY <2>2, <1>b, SecondIndex
        <5>2. next[chain[1]] = chain[1 + 1] /\ chain[2] \in allocated
          BY <5>1 DEF ChainIsList
        <5> QED
          BY <5>2, <1>c, <1>d
      <4>2. 1 \in 1..Len(chain') /\ Len(chain') \in 1..Len(chain')
        BY <2>2, <1>b, <1>e
      <4> QED
        BY <4>1, <4>2, <2>2, <1>0, <1>b, <1>e
    <3>2. \A i \in 1..Len(chain') : chain'[i] \in allocated'
      BY <1>d, <1>e DEF ChainIsList
    <3>3. \A i, j \in 1..Len(chain') : chain'[i] = chain'[j] => i = j
      BY <1>b, <1>e DEF ChainIsList
    <3>4. \A i \in 1..Len(chain') : i < Len(chain') => next'[chain'[i]] = chain'[i + 1]
      BY <1>b, <1>d, <1>e DEF ChainIsList
    <3>5. next'[chain'[Len(chain')]] = NULL
      BY <3>1, <1>b, <1>d DEF ChainIsList
    <3> QED
      BY <3>1, <3>2, <3>3, <3>4, <3>5 DEF ChainIsList
  <2> QED
    BY <2>1, <2>2
<1>5. TailIsLast'
  <2> SUFFICES ASSUME chain' # <<>> PROVE tail' = chain'[Len(chain')]
    BY DEF TailIsLast
  <2>1. tail = chain[Len(chain)]
    BY <1>1, <1>a, <1>b DEF TailIsLast
  <2> QED
    BY <2>1, <1>b, <1>d, <1>e
<1>6. LocalsAgree'
  BY <1>0, <1>1, <1>a, <1>d DEF LocalsAgree
<1> QED
  BY <1>d, <1>2, <1>3, <1>4, <1>5, <1>6

(* The unlinked element is freed, which nobody else knows (sts_queue.c:73). *)
LEMMA StepPopFree ==
    ASSUME Guarded, TypeInv', NEW t \in Consumers, PopFree(t)
    PROVE  Guarded'
<1> USE QueueAssumption DEF Guarded, Threads
<1>0. /\ pc \in [Threads -> {"idle"} \cup PushPoints \cup PopPoints] /\ elem \in [Threads -> Ptr]
      /\ next \in [Addrs -> Ptr] /\ allocated \subseteq Addrs /\ chain \in Seq(Addrs)
      /\ seen \in [Threads -> Ptr]
  BY DEF TypeInv, TypeOK
<1>1. pc[t] = "popFree"
  BY DEF PopFree, At
<1>a. \A u \in Threads \ {t} : pc[u] \in {"idle", "pushLock"}
  BY <1>1, Alone DEF Inside
<1>b. /\ elem[t] \in allocated
      /\ \A i \in 1..Len(chain) : chain[i] # elem[t]
      /\ \A u \in Threads \ {t} : Owns(u) => elem[u] # elem[t]
  BY <1>1 DEF PrivateElements, Owns
<1>c. /\ pc' = [pc EXCEPT ![t] = "popUnlock"]
      /\ allocated' = allocated \ {elem[t]}
      /\ UNCHANGED <<mutex, head, tail, next, value, excludes, elem, seen, fault, chain>>
  BY <1>b DEF PopFree, Goto, histVars
<1>2. HoldsMutex'
  BY <1>0, <1>1, <1>a, <1>c DEF HoldsMutex, Inside
<1>3. PrivateElements'
  BY <1>0, <1>b, <1>c DEF PrivateElements, Owns
<1>4. ChainIsList'
  BY <1>b, <1>c DEF ChainIsList
<1>5. TailIsLast'
  BY <1>0, <1>1, <1>a, <1>c DEF TailIsLast
<1>6. LocalsAgree'
  BY <1>0, <1>1, <1>a, <1>c DEF LocalsAgree
<1> QED
  BY <1>c, <1>2, <1>3, <1>4, <1>5, <1>6

(* Every step keeps the guarded state. *)
LEMMA GuardedStep == Guarded /\ TypeInv' /\ [Next]_vars => Guarded'
<1> SUFFICES ASSUME Guarded, TypeInv', [Next]_vars PROVE Guarded'
  OBVIOUS
<1>1. CASE \E t \in Producers : Push(t)
  BY <1>1, StepPushAlloc, StepPushLock, StepPushTest, StepPushSetHead, StepPushReadTail,
     StepPushLink, StepPushSetTail, StepPushUnlock DEF Push
<1>2. CASE \E t \in Consumers : Pop(t)
  BY <1>2, StepPopLock, StepPopTest, StepPopNext, StepPopAdvance, StepPopFree, StepPopUnlock DEF Pop
<1>3. CASE UNCHANGED vars
  BY <1>3 DEF vars, heapVars, histVars, Guarded, HoldsMutex, Inside, PrivateElements, Owns,
              ChainIsList, TailIsLast, LocalsAgree
<1> QED
  BY <1>1, <1>2, <1>3 DEF Next

(* The mutex's behaviour is fixed when the queue is created. *)
LEMMA ExcludesConstant == [Next]_vars => excludes' = excludes
BY DEF Next, Push, Pop, PushAlloc, PushLock, PushTest, PushSetHead, PushReadTail, PushLink,
       PushSetTail, PushUnlock, PopLock, PopTest, PopNext, PopAdvance, PopFree, PopUnlock, Abort,
       vars

ListIInv == TypeInv /\ (excludes => Guarded)

(* The inductive invariant holds in every reachable state. *)
LEMMA ListIInvariant == Spec => []ListIInv
<1>1. Init => ListIInv
  BY TypeInit, GuardedInit DEF ListIInv
<1>2. ListIInv /\ [Next]_vars => ListIInv'
  BY TypeStep, GuardedStep, ExcludesConstant DEF ListIInv
<1> QED
  BY <1>1, <1>2, PTL DEF Spec

(* Where the mutex excludes, the linked elements are the list from head to   *)
(* tail and every local pointer of push() and pop() is valid.                *)
THEOREM ListCorrect == Spec => []ListInv
<1>1. ListIInv => ListInv
  BY DEF ListIInv, ListInv, Guarded
<1> QED
  BY <1>1, ListIInvariant, PTL

(* Had create() initialised the mutex, no push() or pop() would ever touch   *)
(* an element that was freed (sts_queue.c:48-49, 69-73).                     *)
THEOREM SafeWithMutex == ASSUME MutexOutcomes = {TRUE} PROVE Spec => []MemorySafe
<1>1. Init => excludes
  BY DEF Init
<1>2. excludes /\ [Next]_vars => excludes'
  BY ExcludesConstant
<1>3. ListIInv /\ excludes => MemorySafe
  BY DEF ListIInv, Guarded, MemorySafe
<1> QED
  BY <1>1, <1>2, <1>3, ListIInvariant, PTL DEF Spec
-----------------------------------------------------------------------------
(* That the list implements the FIFO queue needs to know that a message goes *)
(* in once: what a push() is about to link is neither in the list, nor has   *)
(* it been handed out, nor is another push() about to link it.               *)
Pending(t) == pc[t] \in {"pushLock", "pushTest", "setHead", "readTail", "link"}

Fresh ==
    /\ \A i \in 1..Len(chain) : value[chain[i]] \in pushed
    /\ \A i \in 1..Len(taken) : taken[i] \in pushed
    /\ \A t \in Threads : Pending(t) =>
          /\ value[elem[t]] \in pushed
          /\ \A i \in 1..Len(chain) : value[chain[i]] # value[elem[t]]
          /\ \A i \in 1..Len(taken) : taken[i] # value[elem[t]]
          /\ \A u \in Threads \ {t} : Pending(u) => value[elem[u]] # value[elem[t]]

(* The messages in the list, oldest first: the queue that StsQueue implements. *)
Waiting == [i \in 1..Len(chain) |-> value[chain[i]]]

WaitingOK == /\ Waiting \in Seq(Msgs) /\ Len(Waiting) = Len(chain) /\ Len(chain) \in Nat
             /\ \A i \in 1..Len(chain) : Waiting[i] = value[chain[i]]

LEMMA WaitingFacts == Guarded => WaitingOK
<1> SUFFICES ASSUME Guarded PROVE WaitingOK
  OBVIOUS
<1>1. chain \in Seq(Addrs) /\ Len(chain) \in Nat
  BY DEF Guarded, TypeInv, TypeOK
<1>2. \A i \in 1..Len(chain) : value[chain[i]] \in Msgs
  BY DEF Guarded, ChainIsList, TypeInv, Initialised
<1> QED
  BY <1>1, <1>2 DEF Waiting, WaitingOK

(* Most steps move no message. *)
Keeps == /\ UNCHANGED <<chain, value, pushed, taken>>
         /\ \A t \in Threads : Pending(t)' => Pending(t) /\ elem'[t] = elem[t]

(* push() links its element. *)
Links(t) == /\ Pending(t) /\ ~Pending(t)'
            /\ chain' = Append(chain, elem[t])
            /\ UNCHANGED <<value, pushed, taken, elem>>
            /\ \A u \in Threads \ {t} : Pending(u)' <=> Pending(u)

LEMMA QueueKinds ==
  ASSUME Guarded, [Next]_vars
  PROVE  \/ Keeps
         \/ \E t \in Producers, m \in Msgs, a \in Addrs : PushAlloc(t, m, a)
         \/ \E t \in Producers : Links(t)
         \/ \E t \in Consumers : PopAdvance(t) /\ pc[t] = "popAdvance" /\ elem[t] \in allocated
<1>0. /\ pc \in [Threads -> {"idle"} \cup PushPoints \cup PopPoints] /\ elem \in [Threads -> Ptr]
      /\ chain \in Seq(Addrs)
  BY DEF Guarded, TypeInv, TypeOK
<1>1. ASSUME NEW t \in Producers,
             PushLock(t) \/ PushTest(t) \/ PushReadTail(t) \/ PushSetTail(t) \/ PushUnlock(t)
      PROVE  Keeps
  BY <1>0, <1>1 DEF PushLock, PushTest, PushReadTail, PushSetTail, PushUnlock, At, Goto, Keeps,
                    Pending, heapVars, histVars
<1>2. ASSUME NEW t \in Producers, PushSetHead(t) PROVE Links(t)
  <2>1. chain = <<>> /\ t \in Threads /\ elem[t] \in Addrs
    BY <1>2 DEF Threads, Guarded, LocalsAgree, PushSetHead, At, TypeInv, Initialised, PushPoints
  <2>2. chain' = Append(chain, elem[t])
    BY <1>2, <2>1 DEF PushSetHead
  <2> QED
    BY <1>0, <1>2, <2>1, <2>2 DEF PushSetHead, At, Goto, Links, Pending, heapVars
<1>3. ASSUME NEW t \in Producers, PushLink(t) PROVE Links(t) \/ Keeps
  BY <1>0, <1>3 DEF Threads, PushLink, Abort, At, Goto, Links, Keeps, Pending, heapVars, histVars
<1>4. ASSUME NEW t \in Consumers, PopLock(t) \/ PopTest(t) \/ PopNext(t) \/ PopFree(t)
                                \/ PopUnlock(t)
      PROVE  Keeps
  BY <1>0, <1>4 DEF PopLock, PopTest, PopNext, PopFree, PopUnlock, Abort, At, Goto, Keeps, Pending,
                    heapVars, histVars
<1>5. ASSUME NEW t \in Consumers, PopAdvance(t), elem[t] \notin allocated PROVE Keeps
  BY <1>5 DEF PopAdvance, Abort, Keeps, Pending, heapVars, histVars
<1>6. CASE UNCHANGED vars
  BY <1>6 DEF vars, heapVars, histVars, Keeps, Pending
<1> QED
  BY <1>1, <1>2, <1>3, <1>4, <1>5, <1>6 DEF Next, Push, Pop, PopAdvance, At

(* A step that moves no message. *)
LEMMA KeepStep ==
  ASSUME Fresh, Keeps
  PROVE  Fresh' /\ Waiting' = Waiting /\ taken' = taken
BY DEF Fresh, Keeps, Waiting

(* A new message is nowhere yet. *)
LEMMA AllocStep ==
  ASSUME Guarded, Fresh, NEW t \in Producers, NEW m \in Msgs, NEW a \in Addrs, PushAlloc(t, m, a)
  PROVE  Fresh' /\ Waiting' = Waiting /\ taken' = taken
<1>1. /\ elem \in [Threads -> Ptr] /\ value \in [Addrs -> Msgs \cup {NULL}] /\ t \in Threads
      /\ pc \in [Threads -> {"idle"} \cup PushPoints \cup PopPoints]
  BY DEF Guarded, TypeInv, TypeOK, Threads
<1>2. /\ m \notin pushed /\ a \notin allocated /\ pushed' = pushed \cup {m}
      /\ value' = [value EXCEPT ![a] = m] /\ elem' = [elem EXCEPT ![t] = a]
      /\ pc' = [pc EXCEPT ![t] = "pushLock"] /\ UNCHANGED <<chain, taken>>
  BY DEF PushAlloc, Goto
<1>3. \A i \in 1..Len(chain) : value'[chain[i]] = value[chain[i]]
  BY <1>1, <1>2 DEF Guarded, ChainIsList
<1>4. value'[elem'[t]] = m
  BY <1>1, <1>2
<1>5. \A u \in Threads \ {t} : /\ Pending(u)' <=> Pending(u)
                               /\ elem'[u] = elem[u]
                               /\ Pending(u) => value'[elem[u]] = value[elem[u]]
  BY <1>1, <1>2 DEF Pending, Guarded, PrivateElements, Owns
<1> QED
  BY <1>2, <1>3, <1>4, <1>5 DEF Fresh, Waiting

(* What push() links goes to the end of the queue. *)
LEMMA LinkStep ==
  ASSUME Guarded, Guarded', Fresh, NEW t \in Producers, Links(t)
  PROVE  Fresh' /\ \E m \in Msgs : Fifo!Push(m)
<1> DEFINE n == Len(chain)
           m == value[elem[t]]
<1>0. WaitingOK /\ WaitingOK'
  BY WaitingFacts, PTL
<1>1. chain \in Seq(Addrs) /\ taken \in Seq(Msgs) /\ n \in Nat /\ t \in Threads
  BY DEF Guarded, TypeInv, TypeOK, Threads
<1>2. elem[t] \in Addrs /\ m \in Msgs
  BY <1>1 DEF Links, Pending, Guarded, PrivateElements, Owns, TypeInv, TypeOK, Initialised
<1>3. /\ Len(chain') = n + 1 /\ chain'[n + 1] = elem[t]
      /\ \A i \in 1..n : chain'[i] = chain[i]
  BY <1>1, <1>2, AppendFacts DEF Links
<1>4. UNCHANGED <<value, pushed, taken, elem>> /\ Pending(t)
  BY DEF Links
<1>5. Fresh'
  <2>1. \A u \in Threads : Pending(u)' => u # t /\ Pending(u)
    BY DEF Links
  <2>2. \A i \in 1..Len(chain') : \/ i \in 1..n /\ value'[chain'[i]] = value[chain[i]]
                                  \/ value'[chain'[i]] = m
    BY <1>1, <1>3, <1>4
  <2>3. m \in pushed /\ \A u \in Threads \ {t} : Pending(u) => value[elem[u]] # m
    BY <1>1, <1>4 DEF Fresh
  <2> QED
    BY <1>4, <2>1, <2>2, <2>3 DEF Fresh, Pending
<1>6. Waiting' = Append(Waiting, m)
  <2>1. Waiting' \in Seq(Msgs) /\ Len(Waiting') = n + 1
    BY <1>0, <1>3 DEF WaitingOK
  <2>2. Append(Waiting, m) \in Seq(Msgs) /\ Len(Append(Waiting, m)) = n + 1
    BY <1>0, <1>2 DEF WaitingOK
  <2>3. ASSUME NEW i \in 1..(n + 1) PROVE Waiting'[i] = Append(Waiting, m)[i]
    <3>1. CASE i = n + 1
      BY <1>1, <1>2, <1>3, <1>4, <3>1, <1>0 DEF WaitingOK, Waiting
    <3>2. CASE i # n + 1
      BY <1>1, <1>2, <1>3, <1>4, <3>2, <1>0 DEF WaitingOK, Waiting
    <3> QED
      BY <3>1, <3>2
  <2> QED
    BY <2>1, <2>2, <2>3, SeqEqual
<1>7. /\ \A i \in 1..Len(Waiting) : Waiting[i] # m
      /\ \A i \in 1..Len(taken) : taken[i] # m
  BY <1>0, <1>1, <1>4 DEF WaitingOK, Fresh
<1>8. ASSUME NEW x \in Msgs, x = m PROVE Fifo!Push(x)
  BY <1>4, <1>6, <1>7, <1>8 DEF Fifo!Push, Waiting
<1>9. \E x \in Msgs : x = m
  BY <1>2
<1> QED
  BY <1>5, <1>8, <1>9

(* pop() hands out the oldest message and leaves the others. *)
LEMMA AdvanceStep ==
  ASSUME Guarded, Guarded', Fresh, NEW t \in Consumers, PopAdvance(t), pc[t] = "popAdvance",
         elem[t] \in allocated
  PROVE  Fresh' /\ Fifo!Pop
<1> DEFINE n == Len(chain)
<1>0. WaitingOK /\ WaitingOK'
  BY WaitingFacts, PTL
<1>1. /\ chain \in Seq(Addrs) /\ taken \in Seq(Msgs) /\ n \in Nat /\ Len(taken) \in Nat
      /\ t \in Threads /\ pc \in [Threads -> {"idle"} \cup PushPoints \cup PopPoints]
  BY DEF Guarded, TypeInv, TypeOK, Threads
<1>2. chain # <<>> /\ elem[t] = chain[1]
  BY <1>1 DEF Guarded, LocalsAgree, ChainIsList
<1>3. /\ pc' = [pc EXCEPT ![t] = "popFree"] /\ UNCHANGED <<value, pushed, elem>>
      /\ taken' = Append(taken, value[chain[1]]) /\ chain' = Tail(chain)
  BY <1>2 DEF PopAdvance, Goto, heapVars
<1>4. /\ n \in Nat \ {0} /\ 1 \in 1..n /\ Len(chain') = n - 1
      /\ \A i \in 1..Len(chain') : chain'[i] = chain[i + 1] /\ i + 1 \in 1..n
  BY <1>1, <1>2, <1>3, TailFacts
<1>5. value[chain[1]] \in Msgs
  BY <1>0, <1>4 DEF WaitingOK
<1>6. Fresh'
  <2>1. \A u \in Threads : Pending(u)' => Pending(u)
    BY <1>1, <1>3 DEF Pending
  <2>2. \A i \in 1..Len(taken') : \/ i \in 1..Len(taken) /\ taken'[i] = taken[i]
                                  \/ taken'[i] = value[chain[1]]
    BY <1>1, <1>3, <1>5, AppendFacts
  <2> QED
    BY <1>3, <1>4, <2>1, <2>2 DEF Fresh
<1>7. Waiting # <<>> /\ Head(Waiting) = value[chain[1]]
  BY <1>0, <1>4 DEF WaitingOK
<1>8. Waiting' = Tail(Waiting)
  <2>1. Waiting' \in Seq(Msgs) /\ Len(Waiting') = n - 1
    BY <1>0, <1>4 DEF WaitingOK
  <2>2. /\ Tail(Waiting) \in Seq(Msgs) /\ Len(Tail(Waiting)) = n - 1
        /\ \A i \in 1..(n - 1) : Tail(Waiting)[i] = Waiting[i + 1]
    BY <1>0, <1>4, <1>7, TailFacts DEF WaitingOK
  <2>3. ASSUME NEW i \in 1..(n - 1) PROVE Waiting'[i] = Tail(Waiting)[i]
    <3>1. Waiting'[i] = value'[chain'[i]]
      BY <1>4 DEF Waiting
    <3> QED
      BY <1>0, <1>3, <1>4, <2>2, <3>1 DEF WaitingOK
  <2> QED
    BY <2>1, <2>2, <2>3, SeqEqual
<1> QED
  BY <1>3, <1>6, <1>7, <1>8 DEF Fifo!Pop, Waiting

(* Had create() initialised the mutex, the list would be a FIFO queue: push() *)
(* takes effect when its element is linked, pop() when head is advanced       *)
(* (sts_queue.c:40-49, 69-70).                                                *)
THEOREM QueueIsFifo == ASSUME MutexOutcomes = {TRUE} PROVE Spec => ImplementsFifo
<1>1. Init => Guarded /\ Fresh /\ Fifo!Init
  <2> SUFFICES ASSUME Init PROVE Guarded /\ Fresh /\ Fifo!Init
    OBVIOUS
  <2>1. excludes /\ chain = <<>> /\ taken = <<>> /\ \A t \in Threads : pc[t] = "idle"
    BY DEF Init
  <2>2. Waiting = <<>>
    BY <2>1 DEF Waiting
  <2> QED
    BY <2>1, <2>2, GuardedInit DEF Fresh, Pending, Fifo!Init, Waiting
<1>2. Guarded /\ Fresh /\ [Next]_vars => Guarded' /\ Fresh' /\ [Fifo!Next]_(Fifo!vars)
  <2> SUFFICES ASSUME Guarded, Fresh, [Next]_vars
               PROVE  Guarded' /\ Fresh' /\ [Fifo!Next]_(Fifo!vars)
    OBVIOUS
  <2>1. Guarded'
    BY GuardedStep, TypeStep DEF Guarded
  <2>2. Waiting' = Waiting /\ taken' = taken => UNCHANGED Fifo!vars
    BY DEF Waiting, Fifo!vars
  <2> QED
    BY <2>1, <2>2, QueueKinds, KeepStep, AllocStep, LinkStep, AdvanceStep DEF Fifo!Next
<1> QED
  BY <1>1, <1>2, PTL DEF Spec, ImplementsFifo, Fifo!Spec
=============================================================================
