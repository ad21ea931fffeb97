-------------------------------- MODULE Acceptor --------------------------------
(***************************************************************************)
(* Connections from accept to close: the acceptor (handle_connection_add), *)
(* one handler per connection (user_auth and handle_client, for what they  *)
(* open and close), the descriptors of the process, and the registry of    *)
(* threads, which run_server and the acceptor both extend.                 *)
(*                                                                         *)
(* A connection is known by the order of its arrival, in which the kernel  *)
(* also hands connections out.  open() and accept() return the lowest free *)
(* descriptor.  What the server logs, what its users type and how long     *)
(* they think is left out.  Only the acceptor takes thread_count_mutex, so *)
(* it does not appear.                                                     *)
(***************************************************************************)
EXTENDS Integers

CONSTANTS MaxConns,   \* bound: connections that arrive
          MaxThreads, \* MAX_THREADS, which equals MAX_CLIENTS
          MaxFds,     \* descriptors the process may have open for connections
          MaxEarly,   \* connections handed over before run_server has gone on: it is
                      \* held up by one line of the log, for five seconds at most
          NULL

Conns == 1..MaxConns
Fds == 1..MaxFds
Slots == 1..MaxThreads
Owners == [use : {"sock", "db"}, conn : Conns]

(* Threads: the services, the first four of them registered before the      *)
(* acceptor starts, and the handlers.                                       *)
Service(name) == [is |-> name, conn |-> 0]
HandlerOf(c)  == [is |-> "handler", conn |-> c]
Services == <<"cli", "info", "router", "pinger">>
ThreadIds == [is : {"cli", "info", "router", "pinger", "acceptor", "handler"}, conn : 0..MaxConns]

ASSUME AcceptorAssumption ==
    /\ MaxConns \in Nat /\ MaxFds \in Nat /\ MaxEarly \in Nat
    /\ MaxThreads \in Nat /\ MaxEarly < MaxThreads - 5
    /\ NULL \notin Fds \cup Owners \cup ThreadIds

VARIABLES
    arrived,   \* connections that have arrived
    accepted,  \* connections the acceptor has taken
    acc,       \* the acceptor: what it does next; the count it has loaded
    handler,   \* what each connection's handler does next
    fds,       \* for which connection and purpose a descriptor is open, or NULL
    sock,      \* req->sock of each connection
    req,       \* cl.req of each handler: the connection whose request it points to
    db,        \* the descriptor of the database its user_auth has opened
    main,      \* run_server's registration of the acceptor; the count it has loaded
    threads,   \* srv.threads
    count,     \* srv.thread_count
    raced,     \* history: have both been at the registry at the same time?
    doubled    \* history: has the second close of a refused connection hit an open descriptor?

connVars == <<arrived, accepted>>
fdVars == <<fds, sock, req, db, doubled>>
registryVars == <<main, threads, count, raced>>
vars == <<connVars, acc, handler, fdVars, registryVars>>

HandlerPoints == {"none", "connect", "auth", "refuse", "stray", "astray", "insert", "loop",
                  "second", "gone",
                  "dropped"} \* closed by the acceptor

TypeOK ==
    /\ arrived \in 0..MaxConns /\ accepted \in 0..arrived
    /\ acc \in [pc : {"test", "accept", "handshake", "spawn", "slot", "load", "store"},
                loaded : 0..MaxThreads]
    /\ handler \in [Conns -> HandlerPoints]
    /\ fds \in [Fds -> Owners \cup {NULL}]
    /\ sock \in [Conns -> Fds \cup {NULL}] /\ db \in [Conns -> Fds \cup {NULL}]
    /\ req \in [Conns -> Conns]
    /\ main \in [pc : {"slot", "load", "store", "done"}, loaded : 0..MaxThreads]
    /\ threads \in [Slots -> ThreadIds \cup {NULL}]
    /\ count \in 0..MaxThreads
    /\ raced \in BOOLEAN /\ doubled \in BOOLEAN

(* run_server has just created the acceptor's thread. *)
Init ==
    /\ arrived = 0 /\ accepted = 0
    /\ acc = [pc |-> "test", loaded |-> 0]
    /\ handler = [c \in Conns |-> "none"]
    /\ fds = [n \in Fds |-> NULL]
    /\ sock = [c \in Conns |-> NULL] /\ db = [c \in Conns |-> NULL]
    /\ req = [c \in Conns |-> c]
    /\ main = [pc |-> "slot", loaded |-> 0]
    /\ threads = [i \in Slots |-> IF i \in DOMAIN Services THEN Service(Services[i]) ELSE NULL]
    /\ count = 4
    /\ raced = FALSE /\ doubled = FALSE

-----------------------------------------------------------------------------
(* Descriptors. *)
NoFd == \A n \in Fds : fds[n] # NULL

LowestFree(n) == fds[n] = NULL /\ \A m \in 1..(n - 1) : fds[m] # NULL

OpenFor(n, use, c) ==
    /\ LowestFree(n)
    /\ fds' = [fds EXCEPT ![n] = [use |-> use, conn |-> c]]

(* close() of whatever these numbers stand for by now *)
Close(numbers) == fds' = [n \in Fds |-> IF n \in numbers THEN NULL ELSE fds[n]]

-----------------------------------------------------------------------------
Arrive == /\ arrived < MaxConns /\ arrived' = arrived + 1
          /\ UNCHANGED <<accepted, acc, handler, fdVars, registryVars>>

AccAt(point) == acc.pc = point

AccGoto(point) == acc' = [acc EXCEPT !.pc = point]

(* Mutant: the limit is one too low. *)
TestLimit_OneLess == /\ AccAt("test") /\ count < MaxThreads - 1 /\ AccGoto("accept")
                     /\ UNCHANGED <<connVars, handler, fdVars, registryVars>>

(* While the registry is full the acceptor only sleeps. *)
TestLimit == /\ AccAt("test") /\ count < MaxThreads /\ AccGoto("accept")
             /\ UNCHANGED <<connVars, handler, fdVars, registryVars>>

(* Mutant: the listening socket does not block. *)
Accept_NoWait ==
    /\ AccAt("accept")
    /\ main.pc = "done" \/ accepted < MaxEarly
    /\ accepted' = accepted + 1 /\ AccGoto("handshake")
    /\ UNCHANGED <<arrived, handler, fdVars, registryVars>>

Accept ==
    /\ AccAt("accept") /\ accepted < arrived
    /\ main.pc = "done" \/ accepted < MaxEarly
    /\ \/ /\ accepted' = accepted + 1
          /\ \E n \in Fds : /\ OpenFor(n, "sock", accepted + 1)
                            /\ sock' = [sock EXCEPT ![accepted + 1] = n]
          /\ AccGoto("handshake")
       \/ NoFd /\ AccGoto("test") /\ UNCHANGED <<accepted, fds, sock>>
    /\ UNCHANGED <<arrived, handler, req, db, doubled, registryVars>>

(* SSL_accept returns when the other side has done its part.  The handshake  *)
(* fails, or an allocation before or after it does; the connection is closed.*)
Handshake ==
    /\ AccAt("handshake")
    /\ \/ AccGoto("spawn") /\ UNCHANGED <<handler, fds>>
       \/ /\ AccGoto("test") /\ Close({sock[accepted]})
          /\ handler' = [handler EXCEPT ![accepted] = "dropped"]
    /\ UNCHANGED <<connVars, sock, req, db, doubled, registryVars>>

(* Mutant: a connection without a thread stays open. *)
Spawn_KeepsSocket ==
    /\ AccAt("spawn")
    /\ \/ /\ AccGoto("slot") /\ handler' = [handler EXCEPT ![accepted] = "connect"]
          /\ UNCHANGED fds
       \/ /\ AccGoto("test") /\ UNCHANGED fds
          /\ handler' = [handler EXCEPT ![accepted] = "dropped"]
    /\ UNCHANGED <<connVars, sock, req, db, doubled, registryVars>>

(* pthread_create *)
Spawn ==
    /\ AccAt("spawn")
    /\ \/ /\ AccGoto("slot") /\ handler' = [handler EXCEPT ![accepted] = "connect"]
          /\ UNCHANGED fds
       \/ /\ AccGoto("test") /\ Close({sock[accepted]})
          /\ handler' = [handler EXCEPT ![accepted] = "dropped"]
    /\ UNCHANGED <<connVars, sock, req, db, doubled, registryVars>>

-----------------------------------------------------------------------------
(* The registry: threads[thread_count] = tid; thread_count++, in three steps *)
(* because run_server does not take the mutex that the acceptor takes.       *)
MidAcc == acc.pc \in {"load", "store"}
MidMain == main.pc \in {"load", "store"}
Registering(c) == c = accepted /\ acc.pc = "slot"

AccSlot ==
    /\ AccAt("slot")
    /\ IF count < MaxThreads
       THEN /\ threads' = [threads EXCEPT ![count + 1] = HandlerOf(accepted)]
            /\ AccGoto("load") /\ raced' = (raced \/ MidMain)
       ELSE AccGoto("test") /\ UNCHANGED <<threads, raced>>
    /\ UNCHANGED <<connVars, handler, fdVars, main, count>>

AccLoad == /\ AccAt("load") /\ acc' = [pc |-> "store", loaded |-> count]
           /\ raced' = (raced \/ MidMain)
           /\ UNCHANGED <<connVars, handler, fdVars, main, threads, count>>

(* Mutant: the slot of a connection that has gone already is used again. *)
AccStore_Reuse ==
    /\ AccAt("store") /\ acc' = [pc |-> "test", loaded |-> 0]
    /\ count' = IF handler[accepted] = "gone" THEN acc.loaded ELSE acc.loaded + 1
    /\ raced' = (raced \/ MidMain)
    /\ UNCHANGED <<connVars, handler, fdVars, main, threads>>

AccStore == /\ AccAt("store") /\ count' = acc.loaded + 1
            /\ acc' = [pc |-> "test", loaded |-> 0]
            /\ raced' = (raced \/ MidMain)
            /\ UNCHANGED <<connVars, handler, fdVars, main, threads>>

MainRegisters ==
    /\ \/ /\ main.pc = "slot" /\ main' = [main EXCEPT !.pc = "load"]
          /\ threads' = [threads EXCEPT ![count + 1] = Service("acceptor")]
          /\ UNCHANGED count
       \/ /\ main.pc = "load" /\ main' = [pc |-> "store", loaded |-> count]
          /\ UNCHANGED <<threads, count>>
       \/ /\ main.pc = "store" /\ main' = [pc |-> "done", loaded |-> 0]
          /\ count' = main.loaded + 1 /\ UNCHANGED threads
    /\ raced' = (raced \/ MidAcc)
    /\ UNCHANGED <<connVars, acc, handler, fdVars>>

-----------------------------------------------------------------------------
HandlerGoto(c, from, to) == handler[c] = from /\ handler' = [handler EXCEPT ![c] = to]

(* connect_db; if it fails user_auth closes the socket. *)
ConnectDb(c) ==
    /\ \/ /\ HandlerGoto(c, "connect", "auth")
          /\ \E n \in Fds : OpenFor(n, "db", c) /\ db' = [db EXCEPT ![c] = n]
       \/ HandlerGoto(c, "connect", "second") /\ Close({sock[c]}) /\ UNCHANGED db
    /\ UNCHANGED <<connVars, acc, sock, req, doubled, registryVars>>

(* The other side has gone when user_auth wants a username: the socket is    *)
(* closed, the database is not.                                              *)
LeaveEarly(c) ==
    /\ HandlerGoto(c, "auth", "second") /\ Close({sock[c]})
    /\ UNCHANGED <<connVars, acc, sock, req, db, doubled, registryVars>>

(* The end of user_auth closes the database, *)
DbClosed(c, to) ==
    /\ HandlerGoto(c, "auth", to) /\ Close({db[c]})
    /\ db' = [db EXCEPT ![c] = NULL]
    /\ UNCHANGED <<connVars, acc, sock, req, doubled, registryVars>>

(* after a failure, *)
Refuse(c) == DbClosed(c, "refuse")

(* or after a login: the dialogue's cl points to its own record, or it has   *)
(* found a user online and points to that session's.                         *)
Served(c) == {a \in Conns \ {c} : handler[a] = "loop"}

Login(c) == DbClosed(c, "insert") \/ (Served(c) # {} /\ DbClosed(c, "stray"))

(* A failure closes the socket too. *)
CloseRefused(c) ==
    /\ HandlerGoto(c, "refuse", "second") /\ Close({sock[c]})
    /\ UNCHANGED <<connVars, acc, sock, req, db, doubled, registryVars>>

(* cl->req = req in the record of another session, which reads and closes    *)
(* this connection from now on.  What becomes of a record that is no more is *)
(* module Server's business.                                                 *)
TakeOver(c) ==
    /\ HandlerGoto(c, "stray", "astray")
    /\ \E a \in Served(c) : req' = [req EXCEPT ![a] = c]
    /\ UNCHANGED <<connVars, acc, fds, sock, db, doubled, registryVars>>

(* After user_auth has failed handle_client closes its socket once more. *)
CloseAgain(c) ==
    /\ HandlerGoto(c, "second", "gone") /\ Close({sock[c]})
    /\ doubled' = (doubled \/ fds[sock[c]] # NULL)
    /\ UNCHANGED <<connVars, acc, sock, req, db, registryVars>>

(* Mutant: the handler goes on after it has closed the socket. *)
Insert_GoesOn(c) ==
    /\ \/ HandlerGoto(c, "insert", "loop") /\ UNCHANGED fds
       \/ HandlerGoto(c, "insert", "loop") /\ Close({sock[c]})
    /\ UNCHANGED <<connVars, acc, sock, req, db, doubled, registryVars>>

(* The connection is served, or hash_map_insert fails: for want of memory,   *)
(* or of a uid, which a dialogue astray has written to another record.       *)
Insert(c) ==
    /\ \/ HandlerGoto(c, "insert", "loop") /\ UNCHANGED fds
       \/ /\ HandlerGoto(c, "insert", "gone") \/ HandlerGoto(c, "astray", "gone")
          /\ Close({sock[c]})
    /\ UNCHANGED <<connVars, acc, sock, req, db, doubled, registryVars>>

(* SSL_read(cl.req->ssl) has returned 0 or an error: close(cl.req->sock). *)
Leave(c) ==
    /\ HandlerGoto(c, "loop", "gone") /\ Close({sock[req[c]]})
    /\ UNCHANGED <<connVars, acc, sock, req, db, doubled, registryVars>>

(* What the acceptor does whether or not anybody does his part. *)
AcceptorRuns == TestLimit \/ Accept \/ Spawn \/ AccSlot \/ AccLoad \/ AccStore

HandlerRuns(c) == ConnectDb(c) \/ CloseRefused(c) \/ TakeOver(c) \/ CloseAgain(c) \/ Insert(c)

UserActs(c) == LeaveEarly(c) \/ Refuse(c) \/ Login(c) \/ Leave(c)

Next == \/ Arrive \/ AcceptorRuns \/ Handshake \/ MainRegisters
        \/ \E c \in Conns : HandlerRuns(c) \/ UserActs(c)

Spec == Init /\ [][Next]_vars

(* Threads run; the other side of a connection need not do anything. *)
Fairness == /\ WF_vars(AcceptorRuns) /\ WF_vars(MainRegisters)
            /\ \A c \in Conns : WF_vars(HandlerRuns(c))

FairSpec == Spec /\ Fairness

-----------------------------------------------------------------------------
(* Who may use which descriptor: the acceptor until it hands a connection    *)
(* over, the handler until user_auth or it closes.                           *)
HasSocket(c) == \/ c = accepted /\ acc.pc \in {"handshake", "spawn"}
                \/ handler[c] \in {"connect", "auth", "refuse", "stray", "astray", "insert", "loop"}
HasDb(c) == handler[c] = "auth"
LeftEarly(c) == handler[c] \in {"second", "gone"} /\ db[c] # NULL
TakenOver(c) == req[c] # c

Owner(use, c) == [use |-> use, conn |-> c]

(* Two connections never share a descriptor, and none writes to the other's  *)
(* socket or to a database file, until one of two things has happened: a     *)
(* refused connection's second close has met a descriptor that was opened in *)
(* between (server_auth.c:24, 61, 434; server.c:249), or a dialogue that     *)
(* found a user online has put its own request into that user's record       *)
(* (server_auth.c:276, 402; server.c:271, 312).                              *)
OwnDescriptors ==
    \/ doubled \/ \E a \in Conns : TakenOver(a)
    \/ \A c \in Conns : /\ HasSocket(c) => fds[sock[c]] = Owner("sock", c)
                        /\ HasDb(c) => fds[db[c]] = Owner("db", c)

(* Every descriptor that is open is used by the connection it was opened     *)
(* for, but for two leaks: the database of those who left before they gave a *)
(* name (server_auth.c:59-63), and the socket of a handler that has closed   *)
(* the one its overwritten cl.req named (server.c:312).  A close too many,   *)
(* or of somebody else's descriptor, leaks nothing.                          *)
DescriptorsAccounted ==
    \A n \in Fds : fds[n] # NULL =>
        LET c == fds[n].conn IN
        \/ fds[n].use = "sock" /\ (HasSocket(c) \/ (handler[c] = "gone" /\ TakenOver(c)))
        \/ fds[n].use = "db" /\ (HasDb(c) \/ LeftEarly(c))

(* Each thread that was ever handed a connection keeps a slot of its own,    *)
(* the connection long gone, so that the limit counts connections over the   *)
(* server's life; unless run_server registered the acceptor while the        *)
(* acceptor registered a handler (server.c:443, 503-509, 667-668).           *)
RegistryKept ==
    raced \/ LET last == IF MidAcc \/ MidMain THEN count + 1 ELSE count
                 InRegistry(x) == \E i \in 1..last : threads[i] = x
             IN /\ last <= MaxThreads
                /\ \A i \in 1..last : threads[i] # NULL
                /\ \A i, j \in 1..last : threads[i] = threads[j] => i = j
                /\ main.pc # "slot" => InRegistry(Service("acceptor"))
                /\ \A c \in Conns : (handler[c] \notin {"none", "dropped"} /\ ~Registering(c)) =>
                      InRegistry(HandlerOf(c))

(* Whoever connects is accepted in the end, unless the registry is full, no  *)
(* descriptor is free, or somebody stalls the handshake for ever             *)
(* (server.c:443-447, 449-462, 473).                                         *)
Waiting(c) == accepted < c /\ c <= arrived

Admitted ==
    ([]<>(acc.pc # "handshake")) =>
        \A c \in Conns : Waiting(c) ~> (~Waiting(c) \/ count >= MaxThreads \/ NoFd)
=============================================================================
