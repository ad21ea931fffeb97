-------------------------------- MODULE Startup --------------------------------
(***************************************************************************)
(* The main thread of the server until it listens: run_server, setup_db,   *)
(* init_ssl and the generation of key and certificate.  Tables, key and    *)
(* certificate survive the process; a crash may come between any two       *)
(* steps, and a start finds what earlier ones have left.                   *)
(*                                                                         *)
(* Where calls follow one another without a decision, `main.calls` is the  *)
(* series still to be made.  Of what OpenSSL and SQLite do only success or *)
(* failure is modelled, of the files whether they are complete and which   *)
(* key a certificate is for.                                               *)
(***************************************************************************)
EXTENDS Log, Sequences

CONSTANTS Keys,           \* RSA keys that generations yield
          NumTables,      \* tables setup_db creates
          MaxDbAttempts,  \* DATABASE_CONNECTION_ATTEMPTS
          MaxBindAttempts,\* PORT_BIND_ATTEMPTS
          CoreCounts,     \* what get_nprocs() may return
          Contended,      \* log files that another process locks too
          MaxFaults       \* bound: failures, crashes and interventions

ASSUME StartupAssumption ==
    /\ {"absent", "partial"} \cap Keys = {}
    /\ NumTables \in Nat /\ MaxDbAttempts \in Nat \ {0} /\ MaxBindAttempts \in Nat \ {0}
    /\ CoreCounts \subseteq Nat \ {0} /\ MaxFaults \in Nat
    /\ {"main", "cli", "info"} \subseteq Threads /\ Contended \subseteq Files
    /\ {"server", "system", "requests", "clients"} \subseteq Files

VARIABLES
    main,    \* run_server: where it is, failed attempts of a loop, calls it is about to make
    running, \* service threads that have been created
    leaving, \* has somebody entered !exit?
    tables,  \* tables in the database
    key,     \* server.key: "absent", "partial" or a key
    cert,    \* server.crt: "absent", "partial" or the key it certifies
    faults   \* bound: failures, crashes and interventions that may still come

process == <<running, leaving>>
files == <<key, cert>>
startupVars == <<main, process, tables, files, faults>>
vars == <<logVars, startupVars>>

Services == {"cli", "info", "router", "pinger", "acceptor"}
MainPoints == {"down", "cores", "init", "started", "connect", "tables", "dbReady", "socket",
               "context", "checkKey", "createKey", "writeKey", "checkCert", "createCert",
               "writeCert", "load", "sslReady", "bind", "listen", "services", "failing"}

(* Calls that follow one another without a decision. *)
Line(f)    == [op |-> "log", arg |-> f]
OpenLog(f) == [op |-> "init", arg |-> f]
Create(t)  == [op |-> "create", arg |-> t]
CloseLogs  == [op |-> "finish", arg |-> NULL]
Leave      == [op |-> "exit", arg |-> NULL]
Calls == [op : {"log", "init"}, arg : Files] \cup [op : {"create"}, arg : Services]
            \cup [op : {"finish", "exit"}, arg : {NULL}]

TypeOK ==
    /\ LogTypeOK
    /\ main \in [pc : MainPoints, tries : Nat, calls : Seq(Calls)]
    /\ main.tries <= NumTables + MaxDbAttempts + MaxBindAttempts
    /\ running \subseteq Services /\ leaving \in BOOLEAN
    /\ tables \in 0..NumTables
    /\ key \in Keys \cup {"absent", "partial"} /\ cert \in Keys \cup {"absent", "partial"}
    /\ faults \in 0..MaxFaults

Down == [pc |-> "down", tries |-> 0, calls |-> <<>>]

Init ==
    /\ LogInit
    /\ main = Down /\ running = {} /\ leaving = FALSE
    /\ tables = 0 /\ key = "absent" /\ cert = "absent"
    /\ faults = MaxFaults

-----------------------------------------------------------------------------
MainAt(point) == main.pc = point /\ Free("main")

MainGoto(to) == main' = [Down EXCEPT !.pc = to]

MainCalls(to, calls) == main' = [pc |-> to, tries |-> 0, calls |-> calls]

MainLogs == CallLog("main", "server")

Silently == UNCHANGED logVars

(* A step that fails, or somebody who interferes. *)
Fault == faults > 0 /\ faults' = faults - 1

Fails(calls) == Fault /\ MainCalls("failing", calls)

Start == /\ main.pc = "down" /\ MainGoto("cores")
         /\ Silently /\ UNCHANGED <<process, tables, files, faults>>

(* A warning on two cores, an error on one; the log is not open yet. *)
CheckCores(n) ==
    /\ MainAt("cores")
    /\ \/ n > 2 /\ MainGoto("init") /\ Silently /\ UNCHANGED faults
       \/ n = 2 /\ MainGoto("init") /\ MainLogs /\ UNCHANGED faults
       \/ n = 1 /\ Fails(<<Leave>>) /\ MainLogs
    /\ UNCHANGED <<process, tables, files>>

InitServerLog == /\ MainAt("init") /\ CallInit("main", "server") /\ MainGoto("started")
                 /\ UNCHANGED <<process, tables, files, faults>>

LogStarted == /\ MainAt("started") /\ MainLogs /\ MainGoto("connect")
              /\ UNCHANGED <<process, tables, files, faults>>

(* connect_db, with five seconds between two attempts.  After the last one   *)
(* the handle is closed once more, which is undefined and ignored here.      *)
ConnectDb ==
    /\ MainAt("connect")
    /\ \/ MainGoto("tables") /\ UNCHANGED faults
       \/ /\ main.tries + 1 < MaxDbAttempts
          /\ main' = [main EXCEPT !.tries = @ + 1]
          /\ UNCHANGED faults
       \/ main.tries + 1 = MaxDbAttempts /\ Fails(<<CloseLogs, Leave>>)
    /\ Silently /\ UNCHANGED <<process, tables, files>>

(* Mutant: a table that is there already is counted as another one. *)
CreateTable_Again ==
    /\ MainAt("tables") /\ main.tries < NumTables
    /\ tables' = tables + 1
    /\ main' = [main EXCEPT !.tries = @ + 1]
    /\ Silently /\ UNCHANGED <<process, files, faults>>

(* CREATE TABLE IF NOT EXISTS, one after the other *)
CreateTable ==
    /\ MainAt("tables") /\ main.tries < NumTables
    /\ \/ /\ tables' = IF main.tries < tables THEN tables ELSE tables + 1
          /\ main' = [main EXCEPT !.tries = @ + 1]
          /\ UNCHANGED faults
       \/ Fails(<<CloseLogs, Leave>>) /\ UNCHANGED tables
    /\ Silently /\ UNCHANGED <<process, files>>

(* A line of setup_db, and one of run_server. *)
TablesDone == /\ MainAt("tables") /\ main.tries = NumTables
              /\ MainLogs /\ MainGoto("dbReady")
              /\ UNCHANGED <<process, tables, files, faults>>

LogDbReady == /\ MainAt("dbReady") /\ MainLogs /\ MainGoto("socket")
              /\ UNCHANGED <<process, tables, files, faults>>

(* Mutant: the process stays after such a failure. *)
GiveUp_Stays == <<Line("server"), CloseLogs>>

(* How a failure to open the socket, to bind or to listen ends. *)
GiveUp == <<Line("server"), CloseLogs, Leave>>

CreateSocket ==
    /\ MainAt("socket")
    /\ \/ MainGoto("context") /\ UNCHANGED faults
       \/ Fails(GiveUp)
    /\ Silently /\ UNCHANGED <<process, tables, files>>

(* A failure inside init_ssl: it logs and closes the logs, then its caller   *)
(* logs and closes them once more.                                           *)
SslFailure == <<Line("server"), CloseLogs>> \o GiveUp

(* SSL_CTX_new *)
CreateContext ==
    /\ MainAt("context")
    /\ \/ MainGoto("checkKey") /\ UNCHANGED faults
       \/ Fails(SslFailure)
    /\ Silently /\ UNCHANGED <<process, tables, files>>

(* Both generators log and report to check_and_generate_key_cert, which exits. *)
GenerationFailure == <<Line("server"), Line("server"), Leave>>

(* A line says whether server.key is there; if not, a key is generated, the  *)
(* file is created ...                                                       *)
CheckKey ==
    /\ MainAt("checkKey") /\ MainLogs
    /\ MainGoto(IF key = "absent" THEN "createKey" ELSE "checkCert")
    /\ UNCHANGED <<process, tables, files, faults>>

CreateKey ==
    /\ MainAt("createKey") /\ Silently
    /\ \/ MainGoto("writeKey") /\ key' = "partial" /\ UNCHANGED faults
       \/ Fails(GenerationFailure) /\ UNCHANGED key
    /\ UNCHANGED <<process, tables, cert>>

(* ... and written.  A failure leaves the file as it is; what fclose could   *)
(* no longer write is not noticed.                                           *)
WriteKey(k) ==
    /\ MainAt("writeKey") /\ k # cert
    /\ \/ key' = k /\ MainGoto("checkCert") /\ MainLogs /\ UNCHANGED faults
       \/ Fault /\ UNCHANGED key /\ MainGoto("checkCert") /\ MainLogs
       \/ Fails(GenerationFailure) /\ UNCHANGED key /\ Silently
    /\ UNCHANGED <<process, tables, cert>>

(* Mutant: a certificate is generated whenever the server starts. *)
CheckCert_Always ==
    /\ MainAt("checkCert") /\ MainLogs /\ MainGoto("createCert")
    /\ UNCHANGED <<process, tables, files, faults>>

(* The same for server.crt: a certificate for the key that can be read ... *)
CheckCert ==
    /\ MainAt("checkCert") /\ MainLogs
    /\ MainGoto(IF cert = "absent" THEN "createCert" ELSE "load")
    /\ UNCHANGED <<process, tables, files, faults>>

CreateCert ==
    /\ MainAt("createCert") /\ Silently
    /\ \/ /\ key # "partial"
          /\ MainGoto("writeCert") /\ cert' = "partial" /\ UNCHANGED faults
       \/ key = "partial" /\ MainCalls("failing", GenerationFailure) /\ UNCHANGED <<cert, faults>>
       \/ Fails(GenerationFailure) /\ UNCHANGED cert
    /\ UNCHANGED <<process, tables, key>>

(* ... and written; whether writing succeeds is not looked at. *)
WriteCert ==
    /\ MainAt("writeCert") /\ MainLogs /\ MainGoto("load")
    /\ \/ cert' = key /\ UNCHANGED faults
       \/ cert' = "partial" /\ Fault
    /\ UNCHANGED <<process, tables, key>>

(* Mutant: the private key is loaded without a check that it fits. *)
LoadPair_Unchecked ==
    /\ MainAt("load") /\ cert # "partial"
    /\ MainGoto("sslReady") /\ MainLogs
    /\ UNCHANGED <<process, tables, files, faults>>

(* SSL_CTX_use_certificate_file, SSL_CTX_use_PrivateKey_file, which checks  *)
(* that the two belong together, SSL_new                                    *)
LoadPair ==
    /\ MainAt("load")
    /\ \/ cert = key /\ key # "partial" /\ MainGoto("sslReady") /\ MainLogs /\ UNCHANGED faults
       \/ /\ cert # key \/ key = "partial"
          /\ MainCalls("failing", SslFailure) /\ Silently /\ UNCHANGED faults
       \/ Fails(SslFailure) /\ Silently
    /\ UNCHANGED <<process, tables, files>>

(* A line of init_ssl is written, run_server adds its own. *)
LogSslReady == /\ MainAt("sslReady") /\ MainLogs /\ MainGoto("bind")
               /\ UNCHANGED <<process, tables, files, faults>>

(* The port may be in use; the attempts come one second apart. *)
Bind ==
    /\ MainAt("bind") /\ Silently
    /\ \/ MainGoto("listen") /\ UNCHANGED faults
       \/ /\ main.tries + 1 < MaxBindAttempts
          /\ main' = [main EXCEPT !.tries = @ + 1] /\ UNCHANGED faults
       \/ main.tries + 1 = MaxBindAttempts /\ Fails(GiveUp)
    /\ UNCHANGED <<process, tables, files>>

(* Mutant: the statistics thread starts before its log is open. *)
ServiceCalls_LogLate ==
    <<Create("cli"), Line("server"), Create("info"), OpenLog("system"), Line("system"),
      Line("server"), Create("router"), Line("server"), Create("pinger"), Line("server"),
      OpenLog("requests"), OpenLog("clients"), Line("requests"), Line("clients"),
      Create("acceptor"), Line("server")>>

(* The service threads and the logs they need. *)
ServiceCalls ==
    <<Create("cli"), Line("server"), OpenLog("system"), Line("system"), Create("info"),
      Line("server"), Create("router"), Line("server"), Create("pinger"), Line("server"),
      OpenLog("requests"), OpenLog("clients"), Line("requests"), Line("clients"),
      Create("acceptor"), Line("server")>>

Listen ==
    /\ MainAt("listen")
    /\ \/ MainCalls("services", ServiceCalls) /\ MainLogs /\ UNCHANGED faults
       \/ Fails(GiveUp) /\ Silently
    /\ UNCHANGED <<process, tables, files>>

(* Without an acceptor the server ends; any other thread that cannot be      *)
(* created leaves only a warning.                                            *)
FollowCalls ==
    /\ main.pc \in {"services", "failing"} /\ Free("main") /\ main.calls # <<>>
    /\ LET c == Head(main.calls)
           rest == [main EXCEPT !.calls = Tail(@)]
       IN \/ /\ c.op \in {"log", "init", "finish"} /\ main' = rest
             /\ \/ c.op = "log" /\ CallLog("main", c.arg)
                \/ c.op = "init" /\ CallInit("main", c.arg)
                \/ c.op = "finish" /\ CallFinish("main")
             /\ UNCHANGED <<running, faults>>
          \/ /\ c.op = "create" /\ main' = rest /\ running' = running \cup {c.arg}
             /\ Silently /\ UNCHANGED faults
          \/ /\ c.op = "create" /\ Fault /\ UNCHANGED running
             /\ IF c.arg = "acceptor"
                THEN MainCalls("failing", <<CloseLogs, Leave>>) ELSE main' = rest
             /\ CallLog("main", "server")
    /\ UNCHANGED <<leaving, tables, files>>

MainRuns ==
    \/ \E n \in CoreCounts : CheckCores(n)
    \/ InitServerLog \/ LogStarted \/ ConnectDb \/ CreateTable \/ TablesDone
    \/ LogDbReady \/ CreateSocket \/ CreateContext
    \/ CheckKey \/ CreateKey \/ (\E k \in Keys : WriteKey(k))
    \/ CheckCert \/ CreateCert \/ WriteCert \/ LoadPair \/ LogSslReady
    \/ Bind \/ Listen \/ FollowCalls

-----------------------------------------------------------------------------
(* Of the other threads two are here, for what they log: handle_info_update  *)
(* every ten seconds, handle_cli when a command gives it a reason.           *)
InfoLogs == /\ "info" \in running /\ CallLog("info", "system")
            /\ UNCHANGED startupVars

CliLogs == /\ "cli" \in running /\ ~leaving /\ CallLog("cli", "server")
           /\ UNCHANGED startupVars

(* srv_exit: one line, then exit(), whatever the other threads are doing. *)
CliExit == /\ "cli" \in running /\ ~leaving /\ Fault /\ CallLog("cli", "server")
           /\ leaving' = TRUE
           /\ UNCHANGED <<main, running, tables, files>>

ProcessEnds == /\ LogEnds /\ main' = Down /\ running' = {} /\ leaving' = FALSE
               /\ UNCHANGED <<tables, files>>

Exit == /\ \/ leaving /\ Free("cli")
           \/ main.calls # <<>> /\ Head(main.calls) = Leave /\ Free("main")
        /\ ProcessEnds /\ UNCHANGED faults

Crash == main.pc # "down" /\ Fault /\ ProcessEnds

(* Another process that writes the same log files. *)
Contention == (\E f \in Contended : OtherLocks(f) \/ OtherUnlocks(f)) /\ UNCHANGED startupVars

(* The operator removes one of the files while the server is down. *)
RemoveFile(file) ==
    /\ main.pc = "down" /\ Fault
    /\ \/ file = "key" /\ key # "absent" /\ key' = "absent" /\ UNCHANGED cert
       \/ file = "cert" /\ cert # "absent" /\ cert' = "absent" /\ UNCHANGED key
    /\ Silently /\ UNCHANGED <<main, process, tables>>

Logging(t) == LogRuns(t) /\ UNCHANGED startupVars

Next == \/ Start \/ MainRuns \/ InfoLogs \/ CliLogs \/ CliExit \/ Exit \/ Crash \/ Contention
        \/ \E t \in Threads : Logging(t)
        \/ \E file \in {"key", "cert"} : RemoveFile(file)

Spec == Init /\ [][Next]_vars

(* docker-compose restarts the server when it has ended; a thread that waits *)
(* for log_mutex gets it if it is free again and again.                      *)
Fairness == /\ WF_vars(Start) /\ WF_vars(MainRuns) /\ WF_vars(Exit)
            /\ \A t \in Threads : SF_vars(Logging(t))

FairSpec == Spec /\ Fairness

-----------------------------------------------------------------------------
Serving == main.pc = "services" /\ main.calls = <<>> /\ Free("main")

(* Whatever earlier starts, crashes and removals have left behind, a server  *)
(* that listens has every table, and a certificate for the key it uses       *)
(* (server.c:534-621, server_openssl.c:14-53, 191-216).                      *)
ServesOwnCertificate ==
    main.pc \in {"sslReady", "bind", "listen", "services"} =>
        key = cert /\ cert \in Keys /\ tables = NumTables

(* A key and its certificate that are complete are never touched again by    *)
(* the server, so that clients meet the same certificate after each restart  *)
(* (server_openssl.c:193, 205).                                              *)
PairKept == [][(key = cert /\ key \in Keys /\ main.pc # "down") => UNCHANGED files]_vars

(* Only the main thread, before init_logging, logs to a file nobody has      *)
(* opened: the services' files are open before the services run              *)
(* (server.c:522, 526, 530, 630-656).                                        *)
EarlyLines ==
    \A t \in Threads : (call[t].op = "log" /\ call[t].file \in unopened) =>
                           t = "main" /\ main.pc \in {"init", "failing"}

(* No call of this module waits for ever, even if another process never      *)
(* gives back the lock of a file (log.c:98-111, 146-150).                    *)
LogReturns == \A t \in Threads : ~Free(t) ~> Free(t)

(* What no restart can mend: a file that a crash has left incomplete, or a   *)
(* certificate for another key.                                              *)
Stranded == \/ key = "partial" \/ cert = "partial"
            \/ key \in Keys /\ cert \in Keys /\ key # cert

(* When failures, crashes and interventions have come to an end the server   *)
(* serves, unless one of them has stranded it (docker-compose.yml;           *)
(* server_openssl.c:104-119, 173-182).                                       *)
Recovers == (<>[]Serving) \/ (<>[]Stranded)
=============================================================================
