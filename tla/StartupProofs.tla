----------------------------- MODULE StartupProofs -----------------------------
(***************************************************************************)
(* The start of the server, for any number of threads, files, tables,      *)
(* attempts and keys, and any number of failures and crashes: it uses the  *)
(* log as Log says, and what it serves with belongs together.              *)
(***************************************************************************)
EXTENDS Startup, LogProofs

(* Where the key has been looked after, and where all the tables are there. *)
KeyChecked == {"checkCert", "createCert", "writeCert", "load"}
PairLoaded == {"sslReady", "bind", "listen", "services"}
TablesThere == {"dbReady", "socket", "context", "checkKey", "createKey", "writeKey"}
                  \cup KeyChecked \cup PairLoaded

(* The part of the invariant that is about the main thread and the files. *)
StartTypes ==
    /\ main \in [pc : MainPoints, tries : Nat, calls : Seq(Calls)]
    /\ main.tries <= NumTables + MaxDbAttempts + MaxBindAttempts
    /\ tables \in 0..NumTables
    /\ key \in Keys \cup {"absent", "partial"} /\ cert \in Keys \cup {"absent", "partial"}

Ordered ==
    /\ main.pc = "tables" => main.tries <= tables
    /\ main.pc \in TablesThere => tables = NumTables
    /\ main.pc = "createKey" => key = "absent"
    /\ main.pc = "writeKey" => key = "partial"
    /\ main.pc = "createCert" => cert = "absent"
    /\ main.pc = "writeCert" => cert = "partial"
    /\ main.pc \in KeyChecked => key # "absent"
    /\ main.pc \in PairLoaded => key = cert /\ cert \in Keys

StartIInv == StartTypes /\ Ordered

-----------------------------------------------------------------------------
LEMMA ThreadsAndFiles ==
  /\ "main" \in Threads /\ "cli" \in Threads /\ "info" \in Threads
  /\ "server" \in Files /\ "system" \in Files /\ Contended \subseteq Files
  BY StartupAssumption

(* Every step of the start is a step of the log, or none of its business. *)
LEMMA StartupStepIsLogStep == [Next]_vars => [LogNext]_logVars
<1> SUFFICES ASSUME [Next]_vars PROVE [LogNext]_logVars
  OBVIOUS
<1>1. ASSUME UNCHANGED logVars PROVE [LogNext]_logVars
  BY <1>1
<1>2. ASSUME NEW t \in Threads, NEW f \in Files,
             CallInit(t, f) \/ CallLog(t, f) \/ CallFinish(t)
      PROVE  LogNext
  BY <1>2 DEF LogNext
<1>3. CASE UNCHANGED vars
  BY <1>3 DEF vars
<1>4. CASE Start
  BY <1>4 DEF Start, Silently
<1>5. CASE MainRuns
  <2>1. ASSUME MainLogs PROVE LogNext
    BY <2>1, <1>2, ThreadsAndFiles DEF MainLogs
  <2>2. ASSUME NEW n \in CoreCounts, CheckCores(n) PROVE [LogNext]_logVars
    BY <2>1, <2>2 DEF CheckCores, Silently
  <2>3. CASE InitServerLog
    BY <2>3, <1>2, ThreadsAndFiles DEF InitServerLog
  <2>4. CASE \/ LogStarted \/ TablesDone \/ LogDbReady \/ CheckKey \/ CheckCert \/ WriteCert
            \/ LogSslReady
    BY <2>1, <2>4 DEF LogStarted, TablesDone, LogDbReady, CheckKey, CheckCert, WriteCert, LogSslReady
  <2>5. CASE \/ ConnectDb \/ CreateTable \/ CreateSocket \/ CreateContext \/ CreateKey
            \/ CreateCert \/ Bind
    BY <2>5 DEF ConnectDb, CreateTable, CreateSocket, CreateContext, CreateKey, CreateCert, Bind,
                Silently
  <2>6. ASSUME NEW k \in Keys, WriteKey(k) PROVE [LogNext]_logVars
    BY <2>1, <2>6 DEF WriteKey, Silently
  <2>7. CASE LoadPair \/ Listen
    BY <2>1, <2>7 DEF LoadPair, Listen, Silently
  <2>8. CASE FollowCalls
    <3>1. \/ \E f \in Files : CallLog("main", f) \/ CallInit("main", f)
          \/ CallFinish("main")
          \/ UNCHANGED logVars
      BY <2>8, ThreadsAndFiles DEF FollowCalls, CallLog, CallInit, Silently
    <3> QED
      BY <3>1, ThreadsAndFiles DEF LogNext
  <2> QED
    BY <1>5, <2>2, <2>3, <2>4, <2>5, <2>6, <2>7, <2>8 DEF MainRuns
<1>6. CASE InfoLogs \/ CliLogs \/ CliExit
  BY <1>2, <1>6, ThreadsAndFiles DEF InfoLogs, CliLogs, CliExit
<1>7. CASE Exit \/ Crash
  BY <1>7 DEF Exit, Crash, ProcessEnds, LogNext
<1>8. CASE Contention
  BY <1>8, ThreadsAndFiles DEF Contention, LogNext, OtherProcess
<1>9. ASSUME NEW t \in Threads, Logging(t) PROVE LogNext
  BY <1>9 DEF Logging, LogNext
<1>10. ASSUME NEW file \in {"key", "cert"}, RemoveFile(file) PROVE UNCHANGED logVars
  BY <1>10 DEF RemoveFile, Silently
<1> QED
  BY <1>3, <1>4, <1>5, <1>6, <1>7, <1>8, <1>9, <1>10 DEF Next

(* The server's start uses the log as any program may, so what holds of the *)
(* log holds here (server.c:518-691 over log.c).                            *)
THEOREM StartupImplementsLog == Spec => LogSpec
<1>1. Init => LogInit
  BY DEF Init
<1> QED
  BY <1>1, StartupStepIsLogStep, PTL DEF Spec, LogSpec

(* Whoever writes a line while the server starts, fails, exits or is        *)
(* restarted holds the mutex and finds its file open (log.c:76-141).        *)
THEOREM StartupLogIsConsistent == Spec => []LogConsistent
  BY StartupImplementsLog, LogIsConsistent, PTL

-----------------------------------------------------------------------------
(* What the auxiliary definitions do to `main`. *)
LEMMA DownTypes ==
  /\ Down \in [pc : MainPoints, tries : Nat, calls : Seq(Calls)]
  /\ Down.pc = "down" /\ Down.tries = 0
  BY DEF Down, MainPoints

LEMMA GotoTypes ==
  ASSUME NEW to \in MainPoints, MainGoto(to)
  PROVE  /\ main' \in [pc : MainPoints, tries : Nat, calls : Seq(Calls)]
         /\ main'.pc = to /\ main'.tries = 0
  BY DownTypes DEF MainGoto

LEMMA TriesBound == NumTables + MaxDbAttempts + MaxBindAttempts \in Nat
  BY StartupAssumption

LEMMA CallsTypes ==
  ASSUME NEW to \in MainPoints, NEW calls \in Seq(Calls), MainCalls(to, calls)
  PROVE  /\ main' \in [pc : MainPoints, tries : Nat, calls : Seq(Calls)]
         /\ main'.pc = to /\ main'.tries = 0
  BY DEF MainCalls

LEMMA RetryTypes ==
  ASSUME StartTypes, main' = [main EXCEPT !.tries = @ + 1]
  PROVE  /\ main' \in [pc : MainPoints, tries : Nat, calls : Seq(Calls)]
         /\ main'.pc = main.pc /\ main'.tries = main.tries + 1
  BY DEF StartTypes

LEMMA FollowTypes ==
  ASSUME StartTypes, main.calls # <<>>, main' = [main EXCEPT !.calls = Tail(@)]
  PROVE  /\ main' \in [pc : MainPoints, tries : Nat, calls : Seq(Calls)]
         /\ main'.pc = main.pc /\ main'.tries = main.tries
<1>1. Tail(main.calls) \in Seq(Calls)
  BY DEF StartTypes
<1> QED
  BY <1>1 DEF StartTypes

(* The series of calls that are made without a decision in between. *)
LEMMA SeriesTypes ==
  /\ GiveUp \in Seq(Calls) /\ SslFailure \in Seq(Calls) /\ GenerationFailure \in Seq(Calls)
  /\ ServiceCalls \in Seq(Calls)
  /\ <<Leave>> \in Seq(Calls) /\ <<CloseLogs, Leave>> \in Seq(Calls)
<1>1. /\ \A f \in Files : Line(f) \in Calls /\ OpenLog(f) \in Calls
      /\ \A t \in Services : Create(t) \in Calls
      /\ CloseLogs \in Calls /\ Leave \in Calls
  BY DEF Calls, Line, OpenLog, Create, CloseLogs, Leave
<1>2. {"server", "system", "requests", "clients"} \subseteq Files
  BY StartupAssumption
<1>3. GiveUp \in Seq(Calls) /\ <<Line("server"), CloseLogs>> \in Seq(Calls)
  BY <1>1, <1>2 DEF GiveUp
<1>4. SslFailure \in Seq(Calls)
  BY <1>3 DEF SslFailure
<1>5. GenerationFailure \in Seq(Calls)
  BY <1>1, <1>2 DEF GenerationFailure
<1>6. ServiceCalls \in Seq(Calls)
  <2>1. {"cli", "info", "router", "pinger", "acceptor"} \subseteq Services
    BY DEF Services
  <2> QED
    BY <1>1, <1>2, <2>1 DEF ServiceCalls
<1>7. <<Leave>> \in Seq(Calls) /\ <<CloseLogs, Leave>> \in Seq(Calls)
  BY <1>1
<1> QED
  BY <1>3, <1>4, <1>5, <1>6, <1>7

-----------------------------------------------------------------------------
LEMMA StartInitial == Init => StartIInv
  BY DownTypes, TriesBound, StartupAssumption
     DEF Init, StartIInv, StartTypes, Ordered, TablesThere, KeyChecked, PairLoaded

(* A step that fails: where it leads to nothing is promised. *)
LEMMA FailingKeeps ==
  ASSUME StartTypes, NEW calls \in Seq(Calls), MainCalls("failing", calls), UNCHANGED tables,
         key' \in Keys \cup {"absent", "partial"}, cert' \in Keys \cup {"absent", "partial"}
  PROVE  StartIInv'
<1>1. /\ main' \in [pc : MainPoints, tries : Nat, calls : Seq(Calls)]
      /\ main'.pc = "failing" /\ main'.tries = 0
  BY CallsTypes DEF MainPoints
<1> QED
  BY <1>1, TriesBound
     DEF StartIInv, StartTypes, Ordered, TablesThere, KeyChecked, PairLoaded

(* A step that goes on: what it must establish is what is known where it     *)
(* goes to.                                                                  *)
LEMMA GotoKeeps ==
  ASSUME StartTypes, NEW to \in MainPoints, MainGoto(to), UNCHANGED tables,
         key' \in Keys \cup {"absent", "partial"}, cert' \in Keys \cup {"absent", "partial"},
         to \in TablesThere => tables = NumTables,
         to = "createKey" => key' = "absent",
         to = "writeKey" => key' = "partial",
         to = "createCert" => cert' = "absent",
         to = "writeCert" => cert' = "partial",
         to \in KeyChecked => key' # "absent",
         to \in PairLoaded => key' = cert' /\ cert' \in Keys
  PROVE  StartIInv'
<1>1. /\ main' \in [pc : MainPoints, tries : Nat, calls : Seq(Calls)]
      /\ main'.pc = to /\ main'.tries = 0
  BY GotoTypes
<1>2. tables' \in 0..NumTables
  BY DEF StartTypes
<1>3. main'.tries <= tables'
  BY <1>1, <1>2, StartupAssumption
<1>4. main'.tries <= NumTables + MaxDbAttempts + MaxBindAttempts
  BY <1>1, TriesBound
<1> QED
  BY <1>1, <1>2, <1>3, <1>4 DEF StartIInv, StartTypes, Ordered

LEMMA RetryKeeps ==
  ASSUME StartIInv, main' = [main EXCEPT !.tries = @ + 1], UNCHANGED <<tables, files>>,
         \/ main.pc = "connect" /\ main.tries + 1 < MaxDbAttempts
         \/ main.pc = "bind" /\ main.tries + 1 < MaxBindAttempts
  PROVE  StartIInv'
<1>1. /\ main' \in [pc : MainPoints, tries : Nat, calls : Seq(Calls)]
      /\ main'.pc = main.pc /\ main'.tries = main.tries + 1
  BY RetryTypes DEF StartIInv
<1>2. main'.tries <= NumTables + MaxDbAttempts + MaxBindAttempts
  BY <1>1, StartupAssumption DEF StartIInv, StartTypes
<1> QED
  BY <1>1, <1>2 DEF StartIInv, StartTypes, Ordered, files

LEMMA CreateTableKeeps ==
  ASSUME StartIInv, CreateTable
  PROVE  StartIInv'
<1>1. CASE Fails(<<CloseLogs, Leave>>) /\ UNCHANGED tables
  BY <1>1, SeriesTypes, FailingKeeps DEF CreateTable, Fails, StartIInv, StartTypes, files
<1>2. CASE /\ tables' = IF main.tries < tables THEN tables ELSE tables + 1
           /\ main' = [main EXCEPT !.tries = @ + 1]
  <2>1. /\ main' \in [pc : MainPoints, tries : Nat, calls : Seq(Calls)]
        /\ main'.pc = "tables" /\ main'.tries = main.tries + 1
    BY <1>2, RetryTypes DEF StartIInv, CreateTable, MainAt
  <2>2. /\ main.tries < NumTables /\ main.tries <= tables
        /\ main.tries \in Nat /\ tables \in 0..NumTables
    BY DEF CreateTable, MainAt, StartIInv, StartTypes, Ordered
  <2>3. tables' \in 0..NumTables /\ main'.tries <= tables'
    BY <1>2, <2>1, <2>2, StartupAssumption
  <2>4. main'.tries <= NumTables + MaxDbAttempts + MaxBindAttempts
    BY <2>1, <2>2, StartupAssumption
  <2> QED
    BY <2>1, <2>3, <2>4
       DEF CreateTable, StartIInv, StartTypes, Ordered, files, TablesThere, KeyChecked, PairLoaded
<1> QED
  BY <1>1, <1>2 DEF CreateTable

(* One step for each thing run_server does; all but two either go on, try   *)
(* again, or fail.                                                          *)
LEMMA MainRunsKeeps ==
  ASSUME StartIInv, MainRuns
  PROVE  StartIInv'
<1> USE DEF StartIInv
<1>1. /\ tables \in 0..NumTables
      /\ key \in Keys \cup {"absent", "partial"} /\ cert \in Keys \cup {"absent", "partial"}
      /\ {"absent", "partial"} \cap Keys = {}
  BY StartupAssumption DEF StartTypes
<1>2. ASSUME NEW n \in CoreCounts, CheckCores(n) PROVE StartIInv'
  BY <1>1, <1>2, SeriesTypes, FailingKeeps, GotoKeeps
     DEF CheckCores, Fails, MainPoints, TablesThere, KeyChecked, PairLoaded, files
<1>3. CASE InitServerLog \/ LogStarted
  BY <1>1, <1>3, GotoKeeps
     DEF InitServerLog, LogStarted, MainPoints, TablesThere, KeyChecked, PairLoaded, files
<1>4. CASE ConnectDb
  <2>1. CASE MainGoto("tables")
    BY <1>1, <1>4, <2>1, GotoKeeps
       DEF ConnectDb, MainPoints, TablesThere, KeyChecked, PairLoaded, files
  <2>2. CASE main' = [main EXCEPT !.tries = @ + 1] /\ main.tries + 1 < MaxDbAttempts
    BY <1>4, <2>2, RetryKeeps DEF ConnectDb, MainAt
  <2>3. CASE Fails(<<CloseLogs, Leave>>)
    BY <1>1, <1>4, <2>3, SeriesTypes, FailingKeeps DEF ConnectDb, Fails, files
  <2> QED
    BY <1>4, <2>1, <2>2, <2>3 DEF ConnectDb
<1>5. CASE CreateTable
  BY <1>5, CreateTableKeeps
<1>6. CASE TablesDone
  <2>1. tables = NumTables
    BY <1>1, <1>6, StartupAssumption DEF TablesDone, MainAt, Ordered, StartTypes
  <2> QED
    BY <1>1, <1>6, <2>1, GotoKeeps
       DEF TablesDone, MainPoints, KeyChecked, PairLoaded, files
<1>7. CASE LogDbReady \/ CreateSocket \/ CreateContext
  <2>1. tables = NumTables
    BY <1>7 DEF LogDbReady, CreateSocket, CreateContext, MainAt, Ordered, TablesThere
  <2> QED
    BY <1>1, <1>7, <2>1, SeriesTypes, FailingKeeps, GotoKeeps
       DEF LogDbReady, CreateSocket, CreateContext, Fails, MainPoints, KeyChecked, PairLoaded, files
<1>8. CASE CheckKey \/ CreateKey
  <2>1. tables = NumTables
    BY <1>8 DEF CheckKey, CreateKey, MainAt, Ordered, TablesThere
  <2>2. CASE CheckKey
    BY <1>1, <2>1, <2>2, GotoKeeps DEF CheckKey, MainPoints, KeyChecked, PairLoaded, files
  <2>3. CASE CreateKey
    BY <1>1, <2>1, <2>3, SeriesTypes, FailingKeeps, GotoKeeps
       DEF CreateKey, Fails, MainPoints, KeyChecked, PairLoaded
  <2> QED
    BY <1>8, <2>2, <2>3
<1>9. ASSUME NEW k \in Keys, WriteKey(k) PROVE StartIInv'
  <2>1. tables = NumTables /\ key = "partial"
    BY <1>9 DEF WriteKey, MainAt, Ordered, TablesThere
  <2> QED
    BY <1>1, <1>9, <2>1, SeriesTypes, FailingKeeps, GotoKeeps
       DEF WriteKey, Fails, MainPoints, KeyChecked, PairLoaded
<1>10. CASE CheckCert \/ CreateCert \/ WriteCert
  <2>1. tables = NumTables /\ key # "absent"
    BY <1>10 DEF CheckCert, CreateCert, WriteCert, MainAt, Ordered, TablesThere, KeyChecked
  <2>2. CASE CheckCert
    BY <1>1, <2>1, <2>2, GotoKeeps DEF CheckCert, MainPoints, KeyChecked, PairLoaded, files
  <2>3. CASE CreateCert \/ WriteCert
    BY <1>1, <2>1, <2>3, SeriesTypes, FailingKeeps, GotoKeeps
       DEF CreateCert, WriteCert, Fails, MainPoints, KeyChecked, PairLoaded
  <2> QED
    BY <1>10, <2>2, <2>3
<1>11. CASE LoadPair
  <2>1. tables = NumTables /\ key # "absent"
    BY <1>11 DEF LoadPair, MainAt, Ordered, TablesThere, KeyChecked
  <2> QED
    BY <1>1, <1>11, <2>1, SeriesTypes, FailingKeeps, GotoKeeps
       DEF LoadPair, Fails, MainPoints, KeyChecked, PairLoaded, files
<1>12. CASE LogSslReady \/ Bind
  <2>1. tables = NumTables /\ key = cert /\ cert \in Keys
    BY <1>12 DEF LogSslReady, Bind, MainAt, Ordered, TablesThere, PairLoaded
  <2>5. CASE LogSslReady
    BY <1>1, <2>1, <2>5, GotoKeeps DEF LogSslReady, MainPoints, KeyChecked, files
  <2>2. CASE Bind /\ MainGoto("listen")
    BY <1>1, <2>1, <2>2, GotoKeeps DEF Bind, MainPoints, KeyChecked, files
  <2>3. CASE Bind /\ main' = [main EXCEPT !.tries = @ + 1] /\ main.tries + 1 < MaxBindAttempts
    BY <2>3, RetryKeeps DEF Bind, MainAt
  <2>4. CASE Bind /\ Fails(GiveUp)
    BY <1>1, <2>4, SeriesTypes, FailingKeeps DEF Bind, Fails, files
  <2> QED
    BY <1>12, <2>2, <2>3, <2>4, <2>5 DEF Bind
<1>13. CASE Listen
  <2>1. tables = NumTables /\ key = cert /\ cert \in Keys /\ UNCHANGED <<tables, files>>
    BY <1>13 DEF Listen, MainAt, Ordered, TablesThere, PairLoaded
  <2>2. CASE MainCalls("services", ServiceCalls)
    <3>1. /\ main' \in [pc : MainPoints, tries : Nat, calls : Seq(Calls)]
          /\ main'.pc = "services" /\ main'.tries = 0
      BY <2>2, SeriesTypes, CallsTypes DEF MainPoints
    <3> QED
      BY <1>1, <2>1, <3>1, TriesBound DEF StartTypes, Ordered, files, KeyChecked
  <2>3. CASE Fails(GiveUp)
    BY <1>1, <2>1, <2>3, SeriesTypes, FailingKeeps DEF Fails, files
  <2> QED
    BY <1>13, <2>2, <2>3 DEF Listen
<1>14. CASE FollowCalls
  <2>1. CASE main' = [main EXCEPT !.calls = Tail(@)]
    <3>1. /\ main' \in [pc : MainPoints, tries : Nat, calls : Seq(Calls)]
          /\ main'.pc = main.pc /\ main'.tries = main.tries
      BY <1>14, <2>1, FollowTypes DEF FollowCalls
    <3> QED
      BY <1>1, <1>14, <3>1 DEF FollowCalls, StartTypes, Ordered, files
  <2>2. CASE MainCalls("failing", <<CloseLogs, Leave>>)
    BY <1>1, <1>14, <2>2, SeriesTypes, FailingKeeps DEF FollowCalls, files
  <2> QED
    BY <1>14, <2>1, <2>2 DEF FollowCalls
<1> QED
  BY <1>2, <1>3, <1>4, <1>5, <1>6, <1>7, <1>8, <1>9, <1>10, <1>11, <1>12, <1>13, <1>14
     DEF MainRuns

LEMMA EndKeeps ==
  ASSUME StartIInv, main' = Down, UNCHANGED <<tables, files>>
  PROVE  StartIInv'
  BY DownTypes, TriesBound
     DEF StartIInv, StartTypes, Ordered, files, TablesThere, KeyChecked, PairLoaded

LEMMA StartStep == StartIInv /\ [Next]_vars => StartIInv'
<1> SUFFICES ASSUME StartIInv, [Next]_vars PROVE StartIInv'
  OBVIOUS
<1>1. ASSUME UNCHANGED <<main, tables, files>> PROVE StartIInv'
  BY <1>1 DEF StartIInv, StartTypes, Ordered, files
<1>2. CASE UNCHANGED vars
  BY <1>1, <1>2 DEF vars, startupVars
<1>3. CASE Start
  BY <1>3, GotoKeeps, StartupAssumption
     DEF Start, StartIInv, StartTypes, MainPoints, TablesThere, KeyChecked, PairLoaded, files
<1>4. CASE MainRuns
  BY <1>4, MainRunsKeeps
<1>5. CASE InfoLogs \/ CliLogs \/ CliExit \/ Contention \/ (\E t \in Threads : Logging(t))
  BY <1>1, <1>5 DEF InfoLogs, CliLogs, CliExit, Contention, Logging, startupVars
<1>6. CASE Exit \/ Crash
  BY <1>6, EndKeeps DEF Exit, Crash, ProcessEnds
<1>7. ASSUME NEW file \in {"key", "cert"}, RemoveFile(file) PROVE StartIInv'
  BY <1>7 DEF RemoveFile, StartIInv, StartTypes, Ordered, TablesThere, KeyChecked, PairLoaded
<1> QED
  BY <1>2, <1>3, <1>4, <1>5, <1>6, <1>7 DEF Next

(* Services run only if they have been created, and no more goes wrong than  *)
(* is allowed for.                                                           *)
ProcessTypes == running \subseteq Services /\ leaving \in BOOLEAN /\ faults \in 0..MaxFaults

LEMMA FaultTypes == Fault /\ faults \in 0..MaxFaults => faults' \in 0..MaxFaults
  BY StartupAssumption DEF Fault

LEMMA ProcessStep == StartIInv /\ ProcessTypes /\ [Next]_vars => ProcessTypes'
<1> SUFFICES ASSUME StartIInv, ProcessTypes, [Next]_vars PROVE ProcessTypes'
  OBVIOUS
<1>1. ASSUME UNCHANGED process, UNCHANGED faults \/ Fault PROVE ProcessTypes'
  BY <1>1, FaultTypes DEF ProcessTypes, process
<1>2. CASE UNCHANGED vars
  BY <1>1, <1>2 DEF vars, startupVars
<1>3. CASE MainRuns
  <2>1. CASE FollowCalls
    <3>1. Head(main.calls) \in Calls
      BY <2>1 DEF FollowCalls, StartIInv, StartTypes
    <3>2. Head(main.calls).op = "create" => Head(main.calls).arg \in Services
      BY <3>1 DEF Calls
    <3>3. running' \subseteq Services
      BY <2>1, <3>2 DEF FollowCalls, ProcessTypes
    <3>4. UNCHANGED leaving /\ (UNCHANGED faults \/ Fault)
      BY <2>1 DEF FollowCalls
    <3> QED
      BY <3>3, <3>4, FaultTypes DEF ProcessTypes
  <2>2. CASE ~FollowCalls
    BY <1>1, <1>3, <2>2
       DEF MainRuns, CheckCores, InitServerLog, LogStarted, ConnectDb, CreateTable, TablesDone,
           LogDbReady, CreateSocket, CreateContext, CheckKey, CreateKey, WriteKey, CheckCert,
           CreateCert, WriteCert, LoadPair, LogSslReady, Bind, Listen, Fails
  <2> QED
    BY <2>1, <2>2
<1>4. CASE Start \/ InfoLogs \/ CliLogs \/ Contention \/ (\E t \in Threads : Logging(t))
             \/ (\E file \in {"key", "cert"} : RemoveFile(file))
  BY <1>1, <1>4 DEF Start, InfoLogs, CliLogs, Contention, Logging, RemoveFile, startupVars
<1>5. CASE CliExit \/ Exit \/ Crash
  BY <1>5, FaultTypes DEF CliExit, Exit, Crash, ProcessEnds, ProcessTypes
<1> QED
  BY <1>2, <1>3, <1>4, <1>5 DEF Next

(* The variables of the start and of its log keep their types: what is left  *)
(* in the files is nothing, a part, or something a generation has made       *)
(* (server.c:518-691, server_openssl.c:70-189).                              *)
THEOREM StartupTypeCorrect == Spec => []TypeOK
<1>1. Init => ProcessTypes
  <2>1. Init => running \subseteq Services /\ leaving \in BOOLEAN
    BY Zenon DEF Init
  <2>2. Init => faults \in 0..MaxFaults
    BY StartupAssumption DEF Init
  <2> QED
    BY <2>1, <2>2 DEF ProcessTypes
<1>2. StartIInv /\ ProcessTypes /\ LogTypeOK => TypeOK
  BY DEF StartIInv, StartTypes, ProcessTypes, TypeOK
<1>3. Spec => []LogTypeOK
  BY StartupImplementsLog, LogTypeCorrect, PTL
<1> QED
  BY <1>1, <1>2, <1>3, StartInitial, StartStep, ProcessStep, PTL DEF Spec

(* A server that listens has every table and a certificate for the key it    *)
(* uses, after any history of starts, crashes, failures and removed files    *)
(* (server.c:534-621, server_openssl.c:14-53, 191-216).                      *)
THEOREM ServerServesOwnCertificate == Spec => []ServesOwnCertificate
<1>1. StartIInv => ServesOwnCertificate
  BY DEF StartIInv, Ordered, ServesOwnCertificate, PairLoaded, TablesThere
<1> QED
  BY <1>1, StartInitial, StartStep, PTL DEF Spec

(* A key and its certificate that are complete are never touched again by    *)
(* the server (server_openssl.c:193, 205).                                   *)
THEOREM PairIsKept == Spec => PairKept
<1>1. StartIInv /\ [Next]_vars =>
        [(key = cert /\ key \in Keys /\ main.pc # "down") => UNCHANGED files]_vars
  <2> SUFFICES ASSUME StartIInv, Next, key = cert, key \in Keys, main.pc # "down"
               PROVE  UNCHANGED files
    OBVIOUS
  <2>1. key # "absent" /\ key # "partial" /\ cert # "absent" /\ cert # "partial"
    BY StartupAssumption
  <2>2. CASE MainRuns
    BY <2>1, <2>2
       DEF MainRuns, CheckCores, InitServerLog, LogStarted, ConnectDb, CreateTable, TablesDone,
           LogDbReady, CreateSocket, CreateContext, CheckKey, CreateKey, WriteKey, CheckCert,
           CreateCert, WriteCert, LoadPair, LogSslReady, Bind, Listen, FollowCalls, files, MainAt, StartIInv, Ordered
  <2>3. CASE Start \/ InfoLogs \/ CliLogs \/ CliExit \/ Exit \/ Crash \/ Contention
             \/ (\E t \in Threads : Logging(t)) \/ (\E file \in {"key", "cert"} : RemoveFile(file))
    BY <2>3 DEF Start, InfoLogs, CliLogs, CliExit, Exit, Crash, ProcessEnds, Contention, Logging,
                RemoveFile, startupVars
  <2> QED
    BY <2>2, <2>3 DEF Next
<1> QED
  BY <1>1, StartInitial, StartStep, PTL DEF Spec, PairKept

-----------------------------------------------------------------------------
(* Which logs are open when: server.log once main has opened it, what a      *)
(* service logs to before the service runs, and what main is about to log to *)
(* now or by the time it comes to that call.                                 *)
Opened == MainPoints \ {"down", "cores", "init", "failing"}

OpenBy(f, i) == f \notin unopened \/ \E j \in 1..(i - 1) : main.calls[j] = OpenLog(f)

ServicesOpen ==
    /\ main.pc \in Opened => "server" \notin unopened
    /\ "cli" \in running => "server" \notin unopened
    /\ "info" \in running => "system" \notin unopened

CallsInOrder ==
    \A i \in 1..Len(main.calls) :
        /\ main.calls[i] = Create("cli") => OpenBy("server", i)
        /\ main.calls[i] = Create("info") => OpenBy("system", i)
        /\ main.pc = "services" /\ main.calls[i].op = "log" => OpenBy(main.calls[i].arg, i)

EarlyInv == ServicesOpen /\ CallsInOrder /\ EarlyLines

LEMMA EarlyInitial == Init => EarlyInv
<1> SUFFICES ASSUME Init PROVE EarlyInv
  OBVIOUS
<1>1. main = Down /\ running = {} /\ call = [t \in Threads |-> NoCall]
  BY DEF Init, LogInit, LogFresh
<1>2. \A t \in Threads : call[t].op # "log"
  BY <1>1 DEF NoCall
<1>3. main.pc = "down" /\ main.calls = <<>> /\ Len(main.calls) = 0
  BY <1>1 DEF Down
<1>4. ServicesOpen
  BY <1>1, <1>3 DEF ServicesOpen, Opened
<1>5. CallsInOrder
  BY <1>3 DEF CallsInOrder
<1> QED
  BY <1>2, <1>4, <1>5 DEF EarlyInv, EarlyLines

(* Steps that start no line for a file that is not open, and leave main      *)
(* where it is.                                                              *)
LEMMA QuietKeeps ==
  ASSUME EarlyInv, UNCHANGED <<main, running, unopened>>,
         \A t \in Threads : call'[t].op = "log" /\ call'[t].file \in unopened => call'[t] = call[t]
  PROVE  EarlyInv'
<1>1. ServicesOpen' /\ CallsInOrder'
  BY DEF EarlyInv, ServicesOpen, CallsInOrder, OpenBy
<1>2. EarlyLines'
  BY DEF EarlyInv, EarlyLines
<1> QED
  BY <1>1, <1>2 DEF EarlyInv

LEMMA LogRunsIsQuiet ==
  ASSUME LogTypeOK, NEW t \in Threads, LogRuns(t)
  PROVE  /\ UNCHANGED unopened
         /\ \A u \in Threads : call'[u].op = "log" => call'[u] = call[u]
<1>1. \A u \in Threads : u # t => call'[u] = call[u]
  BY DEF LogTypeOK, LogRuns, Open, LookUp, TryFileLock, WriteLine, FinishWaited, CloseAll, Return
<1>2. call'[t].op # "log"
  BY CallReturns, CallGoesOn, CallRetries
     DEF LogTypeOK, LogRuns, Open, LookUp, TryFileLock, WriteLine, FinishWaited, CloseAll, Return,
         NoCall, CallStates
<1>3. UNCHANGED unopened
  BY DEF LogRuns, Open, LookUp, TryFileLock, WriteLine, FinishWaited, CloseAll
<1> QED
  BY <1>1, <1>2, <1>3

LEMMA CallLogStarts ==
  ASSUME LogTypeOK, NEW t \in Threads, NEW f \in Files, CallLog(t, f)
  PROVE  /\ UNCHANGED unopened
         /\ call'[t].op = "log" /\ call'[t].file = f
         /\ \A u \in Threads : u # t => call'[u] = call[u]
  BY DEF LogTypeOK, CallLog

(* A service logs to a file that has been opened. *)
LEMMA ServiceLogs ==
  ASSUME EarlyInv, LogTypeOK, UNCHANGED <<main, running>>,
         \/ "cli" \in running /\ CallLog("cli", "server")
         \/ "info" \in running /\ CallLog("info", "system")
  PROVE  EarlyInv'
  BY ThreadsAndFiles, CallLogStarts, QuietKeeps DEF EarlyInv, ServicesOpen

-----------------------------------------------------------------------------
(* What main does, apart from making a call of its series. *)
LEMMA MainKeeps ==
  ASSUME EarlyInv, LogTypeOK, Free("main"), UNCHANGED running, CallsInOrder',
         Silently \/ MainLogs \/ CallInit("main", "server"),
         main'.pc \in MainPoints \ {"down", "cores"},
         main'.pc \in Opened => "server" \notin unopened'
  PROVE  EarlyInv'
<1>1. unopened' \subseteq unopened
  BY ThreadsAndFiles DEF Silently, MainLogs, CallLog, CallInit, logVars
<1>2. ServicesOpen'
  BY <1>1 DEF EarlyInv, ServicesOpen
<1>3. /\ \A t \in Threads : t # "main" => call'[t] = call[t]
      /\ call'["main"].op = "log" => call'["main"].file = "server"
  BY ThreadsAndFiles, CallLogStarts
     DEF LogTypeOK, Silently, MainLogs, CallInit, logVars, Free
<1>4. EarlyLines'
  <2> SUFFICES ASSUME NEW t \in Threads, call'[t].op = "log", call'[t].file \in unopened'
               PROVE  t = "main" /\ main'.pc \in {"init", "failing"}
    BY DEF EarlyLines
  <2>1. CASE t # "main"
    BY <1>1, <1>3, <2>1 DEF EarlyInv, EarlyLines
  <2>2. CASE t = "main"
    BY <1>3, <2>2 DEF Opened
  <2> QED
    BY <2>1, <2>2
<1> QED
  BY <1>2, <1>4 DEF EarlyInv

LEMMA GotoIsInOrder ==
  ASSUME NEW to \in MainPoints, MainGoto(to)
  PROVE  CallsInOrder' /\ main'.pc = to
<1>1. main'.calls = <<>> /\ Len(main'.calls) = 0 /\ main'.pc = to
  BY DEF MainGoto, Down
<1> QED
  BY <1>1 DEF CallsInOrder

(* The series that end in the process's end create nothing. *)
EndCalls == [op : {"log"}, arg : Files] \cup [op : {"finish", "exit"}, arg : {NULL}]

LEMMA EndSeries ==
  /\ GiveUp \in Seq(EndCalls) /\ SslFailure \in Seq(EndCalls)
  /\ GenerationFailure \in Seq(EndCalls)
  /\ <<Leave>> \in Seq(EndCalls) /\ <<CloseLogs, Leave>> \in Seq(EndCalls)
<1>1. Line("server") \in EndCalls /\ CloseLogs \in EndCalls /\ Leave \in EndCalls
  BY ThreadsAndFiles DEF EndCalls, Line, CloseLogs, Leave
<1>2. GiveUp \in Seq(EndCalls) /\ <<Line("server"), CloseLogs>> \in Seq(EndCalls)
  BY <1>1 DEF GiveUp
<1>3. SslFailure \in Seq(EndCalls)
  BY <1>2 DEF SslFailure
<1>4. GenerationFailure \in Seq(EndCalls)
  BY <1>1 DEF GenerationFailure
<1> QED
  BY <1>1, <1>2, <1>3, <1>4

LEMMA FailureIsInOrder ==
  ASSUME NEW calls \in Seq(EndCalls), MainCalls("failing", calls)
  PROVE  CallsInOrder' /\ main'.pc = "failing"
<1>1. main'.calls = calls /\ main'.pc = "failing"
  BY DEF MainCalls
<1>2. \A i \in 1..Len(calls) : calls[i].op # "create"
  BY DEF EndCalls
<1> QED
  BY <1>1, <1>2 DEF CallsInOrder, Create

(* The services' series opens a log before it is written or its service      *)
(* created, once server.log is open.                                         *)
LEMMA ServicesInOrder ==
  ASSUME "server" \notin unopened', MainCalls("services", ServiceCalls)
  PROVE  CallsInOrder' /\ main'.pc = "services"
<1>1. main'.calls = ServiceCalls /\ main'.pc = "services"
  BY DEF MainCalls
<1>2. Len(ServiceCalls) = 16
  BY DEF ServiceCalls
<1>3. /\ ServiceCalls[3] = OpenLog("system")
      /\ ServiceCalls[11] = OpenLog("requests") /\ ServiceCalls[12] = OpenLog("clients")
  BY DEF ServiceCalls
<1>4. \A i \in 1..16 :
        /\ ServiceCalls[i] = Create("info") => i = 5
        /\ ServiceCalls[i].op = "log" => \/ ServiceCalls[i].arg = "server"
                                         \/ ServiceCalls[i].arg = "system" /\ i = 4
                                         \/ ServiceCalls[i].arg = "requests" /\ i = 13
                                         \/ ServiceCalls[i].arg = "clients" /\ i = 14
  BY DEF ServiceCalls, Create, Line, OpenLog
<1> QED
  BY <1>1, <1>2, <1>3, <1>4 DEF CallsInOrder, OpenBy

(* A call is made: what has been opened by a later call has been opened      *)
(* already, or is opened now.                                                *)
LEMMA FollowIsInOrder ==
  ASSUME EarlyInv, StartTypes, main.calls # <<>>, main' = [main EXCEPT !.calls = Tail(@)],
         unopened' \subseteq unopened,
         \A f \in Files : Head(main.calls) = OpenLog(f) => f \notin unopened',
         unopened \subseteq Files
  PROVE  CallsInOrder'
<1>1. /\ main'.calls = Tail(main.calls) /\ main'.pc = main.pc
      /\ main.calls \in Seq(Calls) /\ Len(main.calls) \in Nat \ {0}
  BY DEF StartTypes
<1>2. /\ Len(main'.calls) = Len(main.calls) - 1
      /\ \A i \in 1..(Len(main.calls) - 1) : main'.calls[i] = main.calls[i + 1]
  BY <1>1
<1>3. ASSUME NEW i \in 1..(Len(main.calls) - 1), NEW f, OpenBy(f, i + 1)
      PROVE  OpenBy(f, i)'
  <2>1. CASE f \notin unopened
    BY <2>1 DEF OpenBy
  <2>2. ASSUME f \in unopened, NEW j \in 1..i, main.calls[j] = OpenLog(f)
        PROVE  OpenBy(f, i)'
    <3>1. CASE j = 1
      BY <1>1, <2>2, <3>1 DEF OpenBy
    <3>2. CASE j # 1
      <4>1. j - 1 \in 1..(i - 1) /\ main'.calls[j - 1] = main.calls[j]
        BY <1>1, <1>2, <2>2, <3>2
      <4> QED
        BY <2>2, <4>1 DEF OpenBy
    <3> QED
      BY <3>1, <3>2
  <2> QED
    BY <1>1, <1>3, <2>1, <2>2 DEF OpenBy
<1> QED
  BY <1>1, <1>2, <1>3 DEF EarlyInv, CallsInOrder

LEMMA FollowKeepsEarly ==
  ASSUME EarlyInv, StartTypes, LogTypeOK, FollowCalls
  PROVE  EarlyInv'
<1>1. /\ Free("main") /\ main.pc \in {"services", "failing"} /\ main.calls # <<>>
      /\ Head(main.calls) \in Calls /\ Head(main.calls) = main.calls[1]
      /\ 1 \in 1..Len(main.calls)
  BY DEF FollowCalls, StartTypes
<1>2. unopened \subseteq Files
  BY DEF LogTypeOK
<1>3. ASSUME NEW f, OpenBy(f, 1) PROVE f \notin unopened
  BY <1>3 DEF OpenBy
<1> DEFINE c == Head(main.calls)
           rest == main' = [main EXCEPT !.calls = Tail(@)]
<1>4. CASE c.op = "log" /\ rest /\ CallLog("main", c.arg) /\ UNCHANGED running
  <2>1. c.arg \in Files /\ c.op # "init"
    BY <1>1, <1>4 DEF Calls
  <2>2. /\ UNCHANGED unopened /\ call'["main"].file = c.arg
        /\ \A u \in Threads : u # "main" => call'[u] = call[u]
    BY <1>4, <2>1, ThreadsAndFiles, CallLogStarts
  <2>3. CallsInOrder' /\ main'.pc = main.pc
    BY <1>1, <1>2, <1>4, <2>1, <2>2, FollowIsInOrder, FollowTypes DEF OpenLog
  <2>4. main.pc = "services" => c.arg \notin unopened
    BY <1>1, <1>3, <1>4 DEF EarlyInv, CallsInOrder
  <2>5. ServicesOpen'
    BY <1>4, <2>2, <2>3 DEF EarlyInv, ServicesOpen
  <2>6. EarlyLines'
    BY <1>1, <2>2, <2>3, <2>4 DEF EarlyInv, EarlyLines
  <2> QED
    BY <2>3, <2>5, <2>6 DEF EarlyInv
<1>5. CASE c.op = "init" /\ rest /\ CallInit("main", c.arg) /\ UNCHANGED running
  <2>1. c.arg \in Files
    BY <1>1, <1>5 DEF Calls
  <2>2. /\ unopened' = unopened \ {c.arg} /\ call'["main"].op = "open"
        /\ \A u \in Threads : u # "main" => call'[u] = call[u]
    BY <1>5, ThreadsAndFiles DEF CallInit, LogTypeOK
  <2>3. CallsInOrder' /\ main'.pc = main.pc
    BY <1>1, <1>2, <1>5, <2>2, FollowIsInOrder, FollowTypes DEF OpenLog
  <2>4. ServicesOpen'
    BY <1>5, <2>2, <2>3 DEF EarlyInv, ServicesOpen
  <2>5. EarlyLines'
    BY <2>2 DEF EarlyInv, EarlyLines
  <2> QED
    BY <2>3, <2>4, <2>5 DEF EarlyInv
<1>6. CASE c.op = "finish" /\ rest /\ CallFinish("main") /\ UNCHANGED running
  <2>1. /\ unopened' = unopened /\ call'["main"].op = "wait"
        /\ \A u \in Threads : u # "main" => call'[u] = call[u]
    BY <1>6, ThreadsAndFiles DEF CallFinish, LogTypeOK
  <2>2. CallsInOrder' /\ main'.pc = main.pc
    BY <1>1, <1>2, <1>6, <2>1, FollowIsInOrder, FollowTypes DEF OpenLog
  <2>3. ServicesOpen'
    BY <1>6, <2>1, <2>2 DEF EarlyInv, ServicesOpen
  <2>4. EarlyLines'
    BY <2>1 DEF EarlyInv, EarlyLines
  <2> QED
    BY <2>2, <2>3, <2>4 DEF EarlyInv
<1>7. CASE c.op = "create" /\ rest /\ running' = running \cup {c.arg} /\ Silently
  <2>1. /\ c = Create("cli") => "server" \notin unopened
        /\ c = Create("info") => "system" \notin unopened
    BY <1>1, <1>3 DEF EarlyInv, CallsInOrder
  <2>2. c.arg = "cli" => c = Create("cli")
    BY <1>1, <1>7 DEF Calls, Create
  <2>3. c.arg = "info" => c = Create("info")
    BY <1>1, <1>7 DEF Calls, Create
  <2>4. CallsInOrder' /\ main'.pc = main.pc
    BY <1>1, <1>2, <1>7, FollowIsInOrder, FollowTypes DEF OpenLog, Silently, logVars
  <2>5. UNCHANGED <<call, unopened>>
    BY <1>7 DEF Silently, logVars
  <2>6. ServicesOpen'
    BY <1>7, <2>1, <2>2, <2>3, <2>4, <2>5 DEF EarlyInv, ServicesOpen
  <2>7. EarlyLines'
    BY <2>4, <2>5 DEF EarlyInv, EarlyLines
  <2> QED
    BY <2>4, <2>6, <2>7 DEF EarlyInv
<1>8. CASE /\ c.op = "create" /\ UNCHANGED running /\ CallLog("main", "server")
           /\ rest \/ MainCalls("failing", <<CloseLogs, Leave>>)
  <2>1. UNCHANGED unopened
    BY <1>8 DEF CallLog
  <2>2. CASE rest
    <3>1. CallsInOrder' /\ main'.pc = main.pc
      BY <1>1, <1>2, <1>8, <2>1, <2>2, FollowIsInOrder, FollowTypes DEF OpenLog
    <3>2. main'.pc \in Opened => "server" \notin unopened'
      BY <2>1, <3>1 DEF EarlyInv, ServicesOpen
    <3>3. main'.pc \in MainPoints \ {"down", "cores"}
      BY <1>1, <3>1 DEF MainPoints
    <3> QED
      BY <1>1, <1>8, <3>1, <3>2, <3>3, MainKeeps DEF MainLogs
  <2>3. CASE MainCalls("failing", <<CloseLogs, Leave>>)
    BY <1>1, <1>8, <2>3, EndSeries, FailureIsInOrder, MainKeeps DEF MainLogs, Opened, MainPoints
  <2> QED
    BY <1>8, <2>2, <2>3
<1> QED
  BY <1>4, <1>5, <1>6, <1>7, <1>8 DEF FollowCalls

-----------------------------------------------------------------------------
LEMMA MainRunsKeepEarly ==
  ASSUME EarlyInv, StartTypes, LogTypeOK, MainRuns
  PROVE  EarlyInv'
<1>1. ASSUME Free("main"), UNCHANGED running, Silently \/ MainLogs \/ CallInit("main", "server"),
             NEW to \in MainPoints \ {"down", "cores"}, MainGoto(to),
             to \in Opened => "server" \notin unopened'
      PROVE  EarlyInv'
  BY <1>1, GotoIsInOrder, MainKeeps
<1>2. ASSUME Free("main"), UNCHANGED running, Silently \/ MainLogs,
             NEW calls \in Seq(EndCalls), MainCalls("failing", calls)
      PROVE  EarlyInv'
  BY <1>2, FailureIsInOrder, MainKeeps DEF Opened, MainPoints
<1>3. ASSUME Free("main"),
             \/ UNCHANGED <<running, main>>
             \/ UNCHANGED running /\ main' = [main EXCEPT !.tries = @ + 1],
             Silently, main.pc \in Opened
      PROVE  EarlyInv'
  <2>1. UNCHANGED <<call, unopened>>
    BY <1>3 DEF Silently, logVars
  <2>2. main'.pc = main.pc /\ main'.calls = main.calls
    BY <1>3, RetryTypes DEF StartTypes
  <2> QED
    BY <1>3, <2>1, <2>2
       DEF EarlyInv, ServicesOpen, CallsInOrder, OpenBy, EarlyLines
<1>4. Silently \/ MainLogs => UNCHANGED unopened
  BY DEF Silently, MainLogs, CallLog, logVars
<1>5. main.pc \in Opened => "server" \notin unopened
  BY DEF EarlyInv, ServicesOpen
<1>6. ASSUME NEW n \in CoreCounts, CheckCores(n) PROVE EarlyInv'
  BY <1>1, <1>2, <1>6, EndSeries DEF CheckCores, MainAt, Fails, process, Opened, MainPoints
<1>7. CASE InitServerLog
  <2>1. "server" \notin unopened'
    BY <1>7 DEF InitServerLog, CallInit
  <2> QED
    BY <1>1, <1>7, <2>1 DEF InitServerLog, MainAt, process, Opened, MainPoints
<1>8. CASE LogStarted \/ TablesDone \/ LogDbReady \/ LogSslReady
  BY <1>1, <1>4, <1>5, <1>8
     DEF LogStarted, TablesDone, LogDbReady, LogSslReady, MainAt, process, Opened, MainPoints
<1>9. CASE ConnectDb \/ Bind
  BY <1>1, <1>2, <1>3, <1>4, <1>5, <1>9, EndSeries
     DEF ConnectDb, Bind, MainAt, Fails, process, Opened, MainPoints
<1>10. CASE CreateTable
  BY <1>2, <1>3, <1>10, EndSeries DEF CreateTable, MainAt, Fails, process, Opened, MainPoints
<1>11. CASE CreateSocket \/ CreateContext
  BY <1>1, <1>2, <1>4, <1>5, <1>11, EndSeries
     DEF CreateSocket, CreateContext, MainAt, Fails, process, Opened, MainPoints
<1>12. CASE CheckKey \/ CreateKey
  BY <1>1, <1>2, <1>4, <1>5, <1>12, EndSeries
     DEF CheckKey, CreateKey, MainAt, Fails, process, Opened, MainPoints
<1>13. ASSUME NEW k \in Keys, WriteKey(k) PROVE EarlyInv'
  BY <1>1, <1>2, <1>4, <1>5, <1>13, EndSeries
     DEF WriteKey, MainAt, Fails, process, Opened, MainPoints
<1>14. CASE CheckCert \/ CreateCert
  BY <1>1, <1>2, <1>4, <1>5, <1>14, EndSeries
     DEF CheckCert, CreateCert, MainAt, Fails, process, Opened, MainPoints
<1>15. CASE WriteCert
  BY <1>1, <1>4, <1>5, <1>15 DEF WriteCert, MainAt, process, Opened, MainPoints
<1>16. CASE LoadPair
  BY <1>1, <1>2, <1>4, <1>5, <1>16, EndSeries
     DEF LoadPair, MainAt, Fails, process, Opened, MainPoints
<1>17. CASE Listen
  <2>1. CASE MainCalls("services", ServiceCalls) /\ MainLogs
    <3>1. "server" \notin unopened' /\ Free("main") /\ UNCHANGED running
      BY <1>4, <1>5, <1>17, <2>1 DEF Listen, MainAt, process, Opened, MainPoints
    <3> QED
      BY <2>1, <3>1, ServicesInOrder, MainKeeps DEF MainPoints
  <2>2. CASE Fails(GiveUp) /\ Silently
    BY <1>2, <1>17, <2>2, EndSeries DEF Listen, MainAt, Fails, process
  <2> QED
    BY <1>17, <2>1, <2>2 DEF Listen
<1>18. CASE FollowCalls
  BY <1>18, FollowKeepsEarly
<1> QED
  BY <1>6, <1>7, <1>8, <1>9, <1>10, <1>11, <1>12, <1>13, <1>14, <1>15, <1>16, <1>17, <1>18
     DEF MainRuns

(* With the process everything is gone that could log. *)
LEMMA EndKeepsEarly ==
  ASSUME ProcessEnds
  PROVE  EarlyInv'
<1>1. main' = Down /\ running' = {} /\ call' = [t \in Threads |-> NoCall]
  BY DEF ProcessEnds, LogEnds
<1>2. \A t \in Threads : call'[t].op # "log"
  BY <1>1 DEF NoCall
<1>3. main'.pc = "down" /\ main'.calls = <<>> /\ Len(main'.calls) = 0
  BY <1>1 DEF Down
<1>4. ServicesOpen'
  BY <1>1, <1>3 DEF ServicesOpen, Opened
<1>5. CallsInOrder'
  BY <1>3 DEF CallsInOrder
<1> QED
  BY <1>2, <1>4, <1>5 DEF EarlyInv, EarlyLines

LEMMA EarlyStep == EarlyInv /\ StartIInv /\ LogTypeOK /\ [Next]_vars => EarlyInv'
<1> SUFFICES ASSUME EarlyInv, StartIInv, LogTypeOK, [Next]_vars PROVE EarlyInv'
  OBVIOUS
<1>1. CASE UNCHANGED vars
  BY <1>1, QuietKeeps DEF vars, startupVars, logVars, process
<1>2. CASE Start
  <2>1. UNCHANGED <<call, unopened, running>> /\ MainGoto("cores") /\ main.pc = "down"
    BY <1>2 DEF Start, Silently, logVars, process
  <2>2. CallsInOrder' /\ main'.pc = "cores"
    BY <2>1, GotoIsInOrder DEF MainPoints
  <2> QED
    BY <2>1, <2>2 DEF EarlyInv, ServicesOpen, EarlyLines, Opened
<1>3. CASE MainRuns
  BY <1>3, MainRunsKeepEarly DEF StartIInv
<1>4. CASE InfoLogs \/ CliLogs \/ CliExit
  BY <1>4, ServiceLogs DEF InfoLogs, CliLogs, CliExit, startupVars, process
<1>5. CASE Exit \/ Crash
  BY <1>5, EndKeepsEarly DEF Exit, Crash
<1>6. CASE Contention
  BY <1>6, QuietKeeps DEF Contention, OtherLocks, OtherUnlocks, startupVars, process
<1>7. ASSUME NEW t \in Threads, Logging(t) PROVE EarlyInv'
  BY <1>7, LogRunsIsQuiet, QuietKeeps DEF Logging, startupVars, process
<1>8. ASSUME NEW file \in {"key", "cert"}, RemoveFile(file) PROVE EarlyInv'
  BY <1>8, QuietKeeps DEF RemoveFile, Silently, logVars, process
<1> QED
  BY <1>1, <1>2, <1>3, <1>4, <1>5, <1>6, <1>7, <1>8 DEF Next

(* However often the server starts, fails and crashes, only its main thread, *)
(* before init_logging or in a failure there, logs to a file that nobody has *)
(* opened (server.c:522-530, 630-656).                                       *)
THEOREM ServicesLogToOpenFiles == Spec => []EarlyLines
<1>1. EarlyInv => EarlyLines
  BY DEF EarlyInv
<1>2. Spec => []LogTypeOK
  BY StartupImplementsLog, LogTypeCorrect, PTL
<1> QED
  BY <1>1, <1>2, EarlyInitial, EarlyStep, StartInitial, StartStep, PTL DEF Spec
=============================================================================
