---------------------------------- MODULE Log ----------------------------------
(***************************************************************************)
(* The log files of the server (common/src/log.c), which all its threads   *)
(* write.  log_mutex guards the table of open files and is held while a    *)
(* line is written; another process may hold the lock (flock) of a file,   *)
(* and then log_message tries again every millisecond, for at most five    *)
(* seconds, without releasing log_mutex.                                   *)
(*                                                                         *)
(* What a thread does between locking and unlocking log_mutex without      *)
(* waiting is one action.  Wording, levels, timestamps, a missing logs     *)
(* directory, and errors of flock other than "would block" are left out.   *)
(***************************************************************************)
EXTENDS Integers

CONSTANTS Threads,     \* threads of the process
          Files,       \* log files
          NULL,
          Unreliable,  \* files that cannot always be opened
          MaxLogFiles, \* MAX_LOG_FILES
          MaxRetries   \* LOCKED_FILE_TIMEOUT / LOCKED_FILE_RETRY_TIME

ASSUME LogAssumption ==
    /\ NULL \notin Threads \cup Files
    /\ Unreliable \subseteq Files
    /\ MaxLogFiles \in Nat \ {0}
    /\ MaxRetries \in Nat

VARIABLES
    array,        \* loggers.array: the file open in each slot, or NULL
    logMutex,     \* the thread that holds loggers.log_mutex, or NULL
    initializing, \* loggers.is_initializing
    call,         \* what each thread is doing in this module, for which file
    fileLock,     \* who has the lock of each file: "this" process, "other", or nobody
    unopened      \* history: files init_logging has not been called for

logVars == <<array, logMutex, initializing, call, fileLock, unopened>>

Slots == 1..MaxLogFiles
Ops == {"none", "open", "log", "flock", "write", "wait", "close"}
CallStates == [op : Ops, file : Files \cup {NULL}, tries : 0..(MaxRetries + 1)]

LogTypeOK ==
    /\ array \in [Slots -> Files \cup {NULL}]
    /\ logMutex \in Threads \cup {NULL}
    /\ initializing \in BOOLEAN
    /\ call \in [Threads -> CallStates]
    /\ \A t \in Threads : call[t].op \in {"open", "log", "flock", "write"} => call[t].file \in Files
    /\ fileLock \in [Files -> {"this", "other", "nobody"}]
    /\ unopened \subseteq Files

NoCall == [op |-> "none", file |-> NULL, tries |-> 0]

(* The process has just started. *)
LogFresh ==
    /\ array = [i \in Slots |-> NULL]
    /\ logMutex = NULL
    /\ initializing = FALSE
    /\ call = [t \in Threads |-> NoCall]
    /\ unopened = Files

LogInit == LogFresh /\ fileLock = [f \in Files |-> "nobody"]

-----------------------------------------------------------------------------
Free(t) == call[t].op = "none"

IsOpen(f) == \E i \in Slots : array[i] = f

Return(t) == call' = [call EXCEPT ![t] = NoCall]

(* Thread t calls init_logging(f), log_message(.., f, ..) or finish_logging(). *)
CallInit(t, f) ==
    /\ Free(t) /\ f \in Files
    /\ call' = [call EXCEPT ![t] = [op |-> "open", file |-> f, tries |-> 0]]
    /\ initializing' = TRUE
    /\ unopened' = unopened \ {f}
    /\ UNCHANGED <<array, logMutex, fileLock>>

CallLog(t, f) ==
    /\ Free(t) /\ f \in Files
    /\ call' = [call EXCEPT ![t] = [op |-> "log", file |-> f, tries |-> 0]]
    /\ UNCHANGED <<array, logMutex, initializing, fileLock, unopened>>

CallFinish(t) ==
    /\ Free(t)
    /\ call' = [call EXCEPT ![t] = [op |-> "wait", file |-> NULL, tries |-> 0]]
    /\ UNCHANGED <<array, logMutex, initializing, fileLock, unopened>>

(* The first free slot takes the file, if there is one and fopen succeeds. *)
FirstFree(i) == array[i] = NULL /\ \A j \in 1..(i - 1) : array[j] # NULL

Open(t) ==
    /\ call[t].op = "open" /\ logMutex = NULL
    /\ \/ \E i \in Slots : FirstFree(i) /\ array' = [array EXCEPT ![i] = call[t].file]
       \/ (call[t].file \in Unreliable \/ \A i \in Slots : array[i] # NULL) /\ UNCHANGED array
    /\ initializing' = FALSE
    /\ Return(t)
    /\ UNCHANGED <<logMutex, fileLock, unopened>>

(* log_message takes the mutex and looks the file up; if it is not open the *)
(* line is lost.                                                            *)
LookUp(t) ==
    /\ call[t].op = "log" /\ logMutex = NULL
    /\ IF IsOpen(call[t].file)
       THEN logMutex' = t /\ call' = [call EXCEPT ![t].op = "flock"]
       ELSE Return(t) /\ UNCHANGED logMutex
    /\ UNCHANGED <<array, initializing, fileLock, unopened>>

(* Mutant: the retries are not limited. *)
TryFileLock_ForEver(t) ==
    /\ call[t].op = "flock"
    /\ fileLock[call[t].file] = "nobody"
    /\ fileLock' = [fileLock EXCEPT ![call[t].file] = "this"]
    /\ call' = [call EXCEPT ![t].op = "write"]
    /\ UNCHANGED <<array, logMutex, initializing, unopened>>

(* One try to lock the file; after the last one the line is given up. *)
TryFileLock(t) ==
    /\ call[t].op = "flock"
    /\ \/ /\ fileLock[call[t].file] = "nobody"
          /\ fileLock' = [fileLock EXCEPT ![call[t].file] = "this"]
          /\ call' = [call EXCEPT ![t].op = "write"]
          /\ UNCHANGED logMutex
       \/ /\ fileLock[call[t].file] # "nobody" /\ call[t].tries < MaxRetries
          /\ call' = [call EXCEPT ![t].tries = @ + 1]
          /\ UNCHANGED <<logMutex, fileLock>>
       \/ /\ fileLock[call[t].file] # "nobody" /\ call[t].tries = MaxRetries
          /\ Return(t) /\ logMutex' = NULL
          /\ UNCHANGED fileLock
    /\ UNCHANGED <<array, initializing, unopened>>

(* the line, fflush, LOCK_UN, unlock *)
WriteLine(t) ==
    /\ call[t].op = "write"
    /\ fileLock' = [fileLock EXCEPT ![call[t].file] = "nobody"]
    /\ logMutex' = NULL
    /\ Return(t)
    /\ UNCHANGED <<array, initializing, unopened>>

(* finish_logging waits until no initialisation is announced ... *)
FinishWaited(t) ==
    /\ call[t].op = "wait" /\ ~initializing
    /\ call' = [call EXCEPT ![t].op = "close"]
    /\ UNCHANGED <<array, logMutex, initializing, fileLock, unopened>>

(* Mutant: the files are closed without the mutex. *)
CloseAll_Unlocked(t) ==
    /\ call[t].op = "close"
    /\ array' = [i \in Slots |-> NULL]
    /\ Return(t)
    /\ UNCHANGED <<logMutex, initializing, fileLock, unopened>>

(* ... and closes every file. *)
CloseAll(t) ==
    /\ call[t].op = "close" /\ logMutex = NULL
    /\ array' = [i \in Slots |-> NULL]
    /\ Return(t)
    /\ UNCHANGED <<logMutex, initializing, fileLock, unopened>>

LogRuns(t) == Open(t) \/ LookUp(t) \/ TryFileLock(t) \/ WriteLine(t) \/ FinishWaited(t) \/ CloseAll(t)

(* Another process that writes the same file. *)
OtherLocks(f) ==
    /\ fileLock[f] = "nobody"
    /\ fileLock' = [fileLock EXCEPT ![f] = "other"]
    /\ UNCHANGED <<array, logMutex, initializing, call, unopened>>

OtherUnlocks(f) ==
    /\ fileLock[f] = "other"
    /\ fileLock' = [fileLock EXCEPT ![f] = "nobody"]
    /\ UNCHANGED <<array, logMutex, initializing, call, unopened>>

OtherProcess == \E f \in Files : OtherLocks(f) \/ OtherUnlocks(f)

(* The process ends, wherever its threads are: the kernel closes its files  *)
(* and releases their locks.                                                *)
LogEnds ==
    /\ array' = [i \in Slots |-> NULL] /\ logMutex' = NULL /\ initializing' = FALSE
    /\ call' = [t \in Threads |-> NoCall]
    /\ fileLock' = [f \in Files |-> IF fileLock[f] = "this" THEN "nobody" ELSE fileLock[f]]
    /\ unopened' = Files

(* Any thread may call at any time. *)
LogNext ==
    \/ \E t \in Threads : \/ LogRuns(t) \/ CallFinish(t)
                          \/ \E f \in Files : CallInit(t, f) \/ CallLog(t, f)
    \/ OtherProcess
    \/ LogEnds

LogSpec == LogInit /\ [][LogNext]_logVars

-----------------------------------------------------------------------------
(* Between finding a file and writing to it, a thread waits for up to five   *)
(* seconds: it has the mutex all that time, the file it found is still open, *)
(* the file's lock is held for the thread that writes and for nobody after   *)
(* it, and a thread that holds the mutex is always on its way to release it  *)
(* (log.c:76-141, 150-162).                                                  *)
Writing(t) == call[t].op \in {"flock", "write"}

LogConsistent ==
    /\ \A t \in Threads : Writing(t) <=> logMutex = t
    /\ \A t \in Threads : Writing(t) => IsOpen(call[t].file)
    /\ \A f \in Files : fileLock[f] = "this" <=>
         \E t \in Threads : call[t].op = "write" /\ call[t].file = f
=============================================================================
