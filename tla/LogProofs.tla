------------------------------- MODULE LogProofs -------------------------------
(***************************************************************************)
(* Type correctness and consistency of the log, for any threads, files,    *)
(* slots and number of retries, whatever other processes do.               *)
(***************************************************************************)
EXTENDS Log, TLAPS

LogIInv == LogTypeOK /\ LogConsistent

(* The state of a call when it begins, when it goes on and when it ends. *)
CallsTyped == /\ call \in [Threads -> CallStates]
              /\ \A t \in Threads :
                   call[t].op \in {"open", "log", "flock", "write"} => call[t].file \in Files

LEMMA CallStateTypes ==
  /\ NoCall \in CallStates /\ NoCall.op = "none"
  /\ \A op \in Ops, f \in Files \cup {NULL} : [op |-> op, file |-> f, tries |-> 0] \in CallStates
<1>1. 0 \in 0..(MaxRetries + 1)
  BY LogAssumption
<1> QED
  BY <1>1 DEF CallStates, NoCall, Ops

LEMMA CallGoesOn ==
  ASSUME CallsTyped, NEW t \in Threads, NEW op \in Ops,
         call' = [call EXCEPT ![t].op = op],
         op \in {"open", "log", "flock", "write"} => call[t].file \in Files
  PROVE  CallsTyped'
  BY DEF CallsTyped, CallStates

LEMMA CallRetries ==
  ASSUME CallsTyped, NEW t \in Threads, call[t].tries < MaxRetries,
         call' = [call EXCEPT ![t].tries = @ + 1]
  PROVE  CallsTyped'
<1>1. call[t].tries + 1 \in 0..(MaxRetries + 1)
  BY LogAssumption DEF CallsTyped, CallStates
<1> QED
  BY <1>1 DEF CallsTyped, CallStates

LEMMA CallReplaced ==
  ASSUME CallsTyped, NEW t \in Threads, NEW c \in CallStates, call' = [call EXCEPT ![t] = c],
         c.op \in {"open", "log", "flock", "write"} => c.file \in Files
  PROVE  CallsTyped'
  BY DEF CallsTyped

LEMMA CallReturns ==
  ASSUME CallsTyped, NEW t \in Threads, Return(t)
  PROVE  CallsTyped'
  BY CallReplaced, CallStateTypes DEF Return

LEMMA TypesOfCalls == LogTypeOK => CallsTyped
  BY DEF LogTypeOK, CallsTyped

LEMMA LogInitial == LogInit => LogIInv
<1> SUFFICES ASSUME LogInit PROVE LogIInv
  OBVIOUS
<1> USE LogAssumption DEF LogInit, LogFresh
<1>1. LogTypeOK
  BY CallStateTypes DEF LogTypeOK
<1>2. \A t \in Threads : ~Writing(t) /\ call[t].op = "none"
  BY DEF Writing, NoCall
<1>3. LogConsistent
  BY <1>2 DEF LogConsistent, Writing
<1> QED
  BY <1>1, <1>3 DEF LogIInv

(* A call may begin at any time: nothing but the caller's own state changes. *)
LEMMA CallsKeep ==
  ASSUME LogIInv, NEW t \in Threads, NEW f,
         CallInit(t, f) \/ CallLog(t, f) \/ CallFinish(t)
  PROVE  LogIInv'
<1> USE LogAssumption DEF LogIInv, LogTypeOK, Free
<1>1. LogTypeOK'
  <2>1. PICK op \in {"open", "log", "wait"}, g \in Files \cup {NULL} :
          /\ op \in {"open", "log"} => g \in Files
          /\ call' = [call EXCEPT ![t] = [op |-> op, file |-> g, tries |-> 0]]
    BY DEF CallInit, CallLog, CallFinish
  <2>2. [op |-> op, file |-> g, tries |-> 0] \in CallStates
    BY CallStateTypes DEF Ops
  <2>3. CallsTyped'
    BY <2>1, <2>2, TypesOfCalls, CallReplaced
  <2> QED
    BY <2>3 DEF CallsTyped, CallInit, CallLog, CallFinish
<1>2. UNCHANGED <<array, logMutex, fileLock>>
  BY DEF CallInit, CallLog, CallFinish
<1>3. \A u \in Threads : /\ Writing(u)' <=> Writing(u)
                         /\ Writing(u) => call'[u] = call[u]
                         /\ call'[u].op = "write" <=> call[u].op = "write"
  BY DEF CallInit, CallLog, CallFinish, Writing
<1>4. LogConsistent'
  <2>1. \A u \in Threads : Writing(u)' <=> logMutex' = u
    BY <1>2, <1>3 DEF LogConsistent
  <2>2. \A u \in Threads : Writing(u)' => IsOpen(call[u].file)'
    BY <1>2, <1>3 DEF LogConsistent, IsOpen
  <2>3. \A g \in Files : fileLock'[g] = "this" <=>
          \E u \in Threads : call'[u].op = "write" /\ call'[u].file = g
    BY <1>2, <1>3 DEF LogConsistent, Writing
  <2> QED
    BY <2>1, <2>2, <2>3 DEF LogConsistent
<1> QED
  BY <1>1, <1>4

(* While the mutex is free nobody is between finding a file and writing it. *)
LEMMA FreeMutex ==
  ASSUME LogIInv, logMutex = NULL
  PROVE  /\ \A t \in Threads : ~Writing(t)
         /\ \A f \in Files : fileLock[f] # "this"
  BY LogAssumption DEF LogIInv, LogConsistent, Writing

LEMMA OpenKeeps ==
  ASSUME LogIInv, NEW t \in Threads, Open(t)
  PROVE  LogIInv'
<1> USE LogAssumption DEF LogIInv
<1>1. LogTypeOK'
  <2>1. CallsTyped'
    BY TypesOfCalls, CallReturns DEF Open
  <2>2. array' \in [Slots -> Files \cup {NULL}]
    BY DEF Open, LogTypeOK
  <2> QED
    BY <2>1, <2>2 DEF LogTypeOK, CallsTyped, Open
<1>2. logMutex = NULL /\ UNCHANGED <<logMutex, fileLock>>
  BY DEF Open
<1>3. \A u \in Threads : ~Writing(u)'
  BY <1>2, FreeMutex DEF Open, Return, NoCall, Writing, LogTypeOK
<1>4. LogConsistent'
  BY <1>2, <1>3, FreeMutex DEF LogConsistent, Writing
<1> QED
  BY <1>1, <1>4

LEMMA LookUpKeeps ==
  ASSUME LogIInv, NEW t \in Threads, LookUp(t)
  PROVE  LogIInv'
<1> USE LogAssumption DEF LogIInv
<1>1. LogTypeOK'
  <2>1. call[t].file \in Files
    BY DEF LookUp, LogTypeOK
  <2>2. CallsTyped'
    BY <2>1, TypesOfCalls, CallGoesOn, CallReturns DEF LookUp, Ops
  <2> QED
    BY <2>2 DEF LogTypeOK, CallsTyped, LookUp
<1>2. /\ \A u \in Threads : ~Writing(u)
      /\ \A f \in Files : fileLock[f] # "this"
  BY FreeMutex DEF LookUp
<1>3. UNCHANGED <<array, fileLock>>
  BY DEF LookUp
<1>4. CASE IsOpen(call[t].file)
  <2>1. /\ logMutex' = t /\ call'[t].op = "flock" /\ call'[t].file = call[t].file
        /\ \A u \in Threads \ {t} : call'[u] = call[u]
    BY <1>4 DEF LookUp, LogTypeOK, CallStates
  <2>2. \A u \in Threads : Writing(u)' <=> u = t
    BY <1>2, <2>1 DEF Writing
  <2>3. \A u \in Threads : call'[u].op # "write"
    BY <1>2, <2>1 DEF Writing
  <2> QED
    BY <1>1, <1>2, <1>3, <1>4, <2>1, <2>2, <2>3 DEF LogConsistent, IsOpen
<1>5. CASE ~IsOpen(call[t].file)
  <2>1. /\ logMutex' = NULL
        /\ \A u \in Threads : ~Writing(u)'
    BY <1>2, <1>5 DEF LookUp, LogTypeOK, Return, NoCall, Writing
  <2> QED
    BY <1>1, <1>2, <1>3, <2>1 DEF LogConsistent, Writing
<1> QED
  BY <1>4, <1>5

(* Only the holder of the mutex is between finding a file and writing it. *)
LEMMA HolderOnly ==
  ASSUME LogIInv, NEW t \in Threads, Writing(t)
  PROVE  /\ logMutex = t
         /\ \A u \in Threads \ {t} : ~Writing(u)
  BY DEF LogIInv, LogConsistent

LEMMA TryFileLockKeeps ==
  ASSUME LogIInv, NEW t \in Threads, TryFileLock(t)
  PROVE  LogIInv'
<1> USE LogAssumption DEF LogIInv
<1>1. Writing(t) /\ call[t].op = "flock" /\ call[t].file \in Files
  BY DEF TryFileLock, Writing, LogTypeOK
<1>2. LogTypeOK'
  <2>1. CallsTyped'
    BY <1>1, TypesOfCalls, CallGoesOn, CallRetries, CallReturns DEF TryFileLock, Ops
  <2>2. fileLock' \in [Files -> {"this", "other", "nobody"}]
    BY DEF TryFileLock, LogTypeOK
  <2> QED
    BY <2>1, <2>2 DEF LogTypeOK, CallsTyped, TryFileLock
<1>3. UNCHANGED array /\ IsOpen(call[t].file)
  BY <1>1 DEF TryFileLock, LogConsistent
<1>4. \A u \in Threads \ {t} : ~Writing(u) /\ call'[u] = call[u]
  BY <1>1, HolderOnly DEF TryFileLock, Return, LogTypeOK
<1>5. logMutex = t
  BY <1>1, HolderOnly
<1>6. \A f \in Files : fileLock[f] # "this"
  BY <1>1, <1>4 DEF LogConsistent, Writing
<1>7. CASE /\ fileLock' = [fileLock EXCEPT ![call[t].file] = "this"]
           /\ call' = [call EXCEPT ![t].op = "write"]
           /\ UNCHANGED logMutex
  <2>1. call'[t].op = "write" /\ call'[t].file = call[t].file
    BY <1>7 DEF LogTypeOK
  <2>2. \A u \in Threads : Writing(u)' <=> logMutex' = u
    BY <1>4, <1>5, <1>7, <2>1 DEF Writing
  <2>3. \A u \in Threads : Writing(u)' => IsOpen(call[u].file)'
    BY <1>3, <1>4, <2>1 DEF Writing, IsOpen
  <2>4. \A f \in Files : fileLock'[f] = "this" <=> f = call[t].file
    BY <1>1, <1>6, <1>7 DEF LogTypeOK
  <2>5. \A f \in Files : (\E u \in Threads : call'[u].op = "write" /\ call'[u].file = f)
                             <=> f = call[t].file
    BY <1>4, <2>1 DEF Writing
  <2> QED
    BY <1>2, <2>2, <2>3, <2>4, <2>5 DEF LogConsistent
<1>8. CASE /\ call' = [call EXCEPT ![t].tries = @ + 1]
           /\ UNCHANGED <<logMutex, fileLock>>
  <2>1. call'[t].op = "flock" /\ call'[t].file = call[t].file
    BY <1>1, <1>8 DEF LogTypeOK
  <2> QED
    BY <1>2, <1>3, <1>4, <1>5, <1>6, <1>8, <2>1 DEF LogConsistent, Writing, IsOpen
<1>9. CASE Return(t) /\ logMutex' = NULL /\ UNCHANGED fileLock
  <2>1. call'[t].op = "none"
    BY <1>9 DEF LogTypeOK, Return, NoCall
  <2> QED
    BY <1>2, <1>4, <1>6, <1>9, <2>1 DEF LogConsistent, Writing
<1> QED
  BY <1>7, <1>8, <1>9 DEF TryFileLock

LEMMA WriteLineKeeps ==
  ASSUME LogIInv, NEW t \in Threads, WriteLine(t)
  PROVE  LogIInv'
<1> USE LogAssumption DEF LogIInv
<1>1. Writing(t) /\ call[t].op = "write" /\ call[t].file \in Files
  BY DEF WriteLine, Writing, LogTypeOK
<1>2. LogTypeOK'
  <2>1. CallsTyped'
    BY TypesOfCalls, CallReturns DEF WriteLine
  <2> QED
    BY <2>1 DEF LogTypeOK, CallsTyped, WriteLine
<1>3. \A u \in Threads : ~Writing(u)'
  BY <1>1, HolderOnly DEF WriteLine, Return, NoCall, LogTypeOK, Writing
<1>4. \A f \in Files : fileLock'[f] # "this"
  <2>1. \A f \in Files : fileLock[f] = "this" => f = call[t].file
    BY <1>1, HolderOnly DEF LogConsistent, Writing
  <2> QED
    BY <2>1, <1>1 DEF WriteLine, LogTypeOK
<1>5. logMutex' = NULL
  BY DEF WriteLine
<1> QED
  BY <1>2, <1>3, <1>4, <1>5 DEF LogConsistent, Writing

LEMMA FinishWaitedKeeps ==
  ASSUME LogIInv, NEW t \in Threads, FinishWaited(t)
  PROVE  LogIInv'
<1> USE LogAssumption DEF LogIInv
<1>1. LogTypeOK'
  <2>1. CallsTyped'
    BY TypesOfCalls, CallGoesOn DEF FinishWaited, Ops
  <2> QED
    BY <2>1 DEF LogTypeOK, CallsTyped, FinishWaited
<1>2. /\ UNCHANGED <<array, logMutex, fileLock>>
      /\ \A u \in Threads \ {t} : call'[u] = call[u]
      /\ call[t].op = "wait" /\ call'[t].op = "close"
  BY DEF FinishWaited, LogTypeOK
<1>3. \A u \in Threads : /\ Writing(u)' <=> Writing(u)
                         /\ Writing(u) => call'[u] = call[u]
                         /\ call'[u].op = "write" <=> call[u].op = "write"
  BY <1>2 DEF Writing
<1>4. \A u \in Threads : Writing(u)' <=> logMutex' = u
  BY <1>2, <1>3 DEF LogConsistent
<1>5. \A u \in Threads : Writing(u)' => IsOpen(call[u].file)'
  BY <1>2, <1>3 DEF LogConsistent, IsOpen
<1>6. \A g \in Files : fileLock'[g] = "this" <=>
        \E u \in Threads : call'[u].op = "write" /\ call'[u].file = g
  BY <1>2, <1>3 DEF LogConsistent, Writing
<1> QED
  BY <1>1, <1>4, <1>5, <1>6 DEF LogConsistent

LEMMA CloseAllKeeps ==
  ASSUME LogIInv, NEW t \in Threads, CloseAll(t)
  PROVE  LogIInv'
<1> USE LogAssumption DEF LogIInv
<1>1. LogTypeOK'
  <2>1. CallsTyped'
    BY TypesOfCalls, CallReturns DEF CloseAll
  <2> QED
    BY <2>1 DEF LogTypeOK, CallsTyped, CloseAll
<1>2. /\ \A u \in Threads : ~Writing(u)'
      /\ \A f \in Files : fileLock'[f] # "this"
      /\ logMutex' = NULL
  BY FreeMutex DEF CloseAll, Return, NoCall, Writing, LogTypeOK
<1> QED
  BY <1>1, <1>2 DEF LogConsistent, Writing

LEMMA OtherProcessKeeps ==
  ASSUME LogIInv, OtherProcess
  PROVE  LogIInv'
<1> USE LogAssumption DEF LogIInv
<1>1. PICK g \in Files : OtherLocks(g) \/ OtherUnlocks(g)
  BY DEF OtherProcess
<1>2. LogTypeOK'
  BY <1>1 DEF LogTypeOK, OtherLocks, OtherUnlocks, Ops, Slots
<1>3. /\ UNCHANGED <<array, logMutex, call>>
      /\ \A f \in Files : fileLock'[f] = "this" <=> fileLock[f] = "this"
  BY <1>1 DEF OtherLocks, OtherUnlocks, LogTypeOK
<1> QED
  BY <1>2, <1>3 DEF LogConsistent, Writing, IsOpen

LEMMA LogEndsKeeps ==
  ASSUME LogIInv, LogEnds
  PROVE  LogIInv'
<1> USE LogAssumption DEF LogIInv
<1>1. LogTypeOK'
  BY CallStateTypes DEF LogTypeOK, LogEnds
<1>2. /\ \A u \in Threads : ~Writing(u)'
      /\ \A f \in Files : fileLock'[f] # "this"
      /\ logMutex' = NULL
  BY DEF LogEnds, NoCall, Writing, LogTypeOK
<1> QED
  BY <1>1, <1>2 DEF LogConsistent, Writing

LEMMA LogStep == LogIInv /\ [LogNext]_logVars => LogIInv'
<1> SUFFICES ASSUME LogIInv, [LogNext]_logVars PROVE LogIInv'
  OBVIOUS
<1>1. CASE UNCHANGED logVars
  BY <1>1 DEF logVars, LogIInv, LogTypeOK, LogConsistent, Writing, IsOpen
<1>2. ASSUME NEW t \in Threads, LogRuns(t) PROVE LogIInv'
  BY <1>2, OpenKeeps, LookUpKeeps, TryFileLockKeeps, WriteLineKeeps, FinishWaitedKeeps,
     CloseAllKeeps DEF LogRuns
<1>3. ASSUME NEW t \in Threads, CallFinish(t) PROVE LogIInv'
  BY <1>3, CallsKeep
<1>4. ASSUME NEW t \in Threads, NEW f \in Files, CallInit(t, f) \/ CallLog(t, f) PROVE LogIInv'
  BY <1>4, CallsKeep
<1> QED
  BY <1>1, <1>2, <1>3, <1>4, OtherProcessKeeps, LogEndsKeeps DEF LogNext

(* The variables of the log keep their types (log.c). *)
THEOREM LogTypeCorrect == LogSpec => []LogTypeOK
<1>1. LogIInv => LogTypeOK
  BY DEF LogIInv
<1> QED
  BY <1>1, LogInitial, LogStep, PTL DEF LogSpec

(* Whoever writes a line holds the mutex, its file is open and locked by     *)
(* this process, and no lock is left behind (log.c:76-141, 150-162).         *)
THEOREM LogIsConsistent == LogSpec => []LogConsistent
<1>1. LogIInv => LogConsistent
  BY DEF LogIInv
<1> QED
  BY <1>1, LogInitial, LogStep, PTL DEF LogSpec
=============================================================================
