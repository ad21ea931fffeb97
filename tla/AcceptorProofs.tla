----------------------------- MODULE AcceptorProofs -----------------------------
(***************************************************************************)
(* What module Acceptor's runs check for three connections, for any number *)
(* of connections, threads and descriptors.                                *)
(***************************************************************************)
EXTENDS Acceptor, TLAPS

(* The acceptor has taken a connection and not yet finished with it. *)
InFlight == acc.pc \in {"handshake", "spawn", "slot", "load", "store"}

(* Connections that the acceptor has finished with. *)
Finished == IF InFlight THEN accepted - 1 ELSE accepted

(* There is room for the thread that is about to be registered: while        *)
(* run_server has not registered the acceptor, the count lags behind what    *)
(* has been accepted, and that is little.                                    *)
Counts ==
    /\ acc.pc \in {"accept", "handshake", "spawn", "slot", "load"} => count < MaxThreads
    /\ acc.pc = "store" => acc.loaded < MaxThreads
    /\ InFlight => accepted > 0
    /\ main.pc # "done" =>
          /\ accepted <= MaxEarly
          /\ count <= 4 + Finished
          /\ acc.pc = "store" => acc.loaded <= 3 + accepted
          /\ main.pc = "store" => main.loaded <= 4 + Finished

CountsInv == TypeOK /\ Counts

(* A connection has no handler before the acceptor has started one. *)
Handed ==
    /\ \A c \in Conns : c > accepted => handler[c] = "none"
    /\ acc.pc \in {"handshake", "spawn"} => handler[accepted] = "none"

(* Every open descriptor is the one that the connection it was opened for    *)
(* has noted, and that connection has not closed it.                         *)
SocketHeld(c) == HasSocket(c) \/ (handler[c] = "gone" /\ TakenOver(c))
DbHeld(c) == HasDb(c) \/ LeftEarly(c)

Noted(c) == \A n \in Fds :
               /\ fds[n] = Owner("sock", c) => SocketHeld(c) /\ sock[c] = n
               /\ fds[n] = Owner("db", c) => DbHeld(c) /\ db[c] = n

NotedInv == CountsInv /\ Handed /\ \A c \in Conns : Noted(c)

(* The descriptors in use are open and the user's own. *)
InUse(c) == /\ HasSocket(c) => sock[c] \in Fds /\ fds[sock[c]] = Owner("sock", c)
            /\ HasDb(c) => db[c] \in Fds /\ fds[db[c]] = Owner("db", c)

Meddled == doubled \/ \E a \in Conns : TakenOver(a)

DescriptorsInv == NotedInv /\ (Meddled \/ \A c \in Conns : InUse(c))

(* The registry: as long as the two threads have not met there, each slot up *)
(* to the last is some thread's own, and nobody is in it before his time.    *)
Last == IF MidAcc \/ MidMain THEN count + 1 ELSE count
Registered(x) == \E i \in 1..Last : threads[i] = x

Ordered ==
    /\ ~(MidAcc /\ MidMain)
    /\ acc.pc = "store" => acc.loaded = count
    /\ main.pc = "store" => main.loaded = count

Distinct ==
    /\ Last <= MaxThreads
    /\ \A i \in 1..Last : threads[i] # NULL
    /\ \A i, j \in 1..Last : threads[i] = threads[j] => i = j

AcceptorIn == main.pc # "slot" <=> Registered(Service("acceptor"))

Due(c) == handler[c] \notin {"none", "dropped"} /\ ~Registering(c)
Early(c) == c > accepted \/ (c = accepted /\ acc.pc \in {"handshake", "spawn", "slot"})

HandlerIn(c) == /\ Due(c) => Registered(HandlerOf(c))
                /\ Early(c) => ~Registered(HandlerOf(c))

Slotted == Distinct /\ AcceptorIn /\ \A c \in Conns : HandlerIn(c)

RegistryInv == CountsInv /\ Handed /\ (raced \/ (Ordered /\ Slotted))

-----------------------------------------------------------------------------
LEMMA CountsInitial == Init => CountsInv
<1> SUFFICES ASSUME Init PROVE CountsInv
  OBVIOUS
<1> USE AcceptorAssumption DEF AcceptorAssumption
<1>1. \A i \in DOMAIN Services : Service(Services[i]) \in ThreadIds
  <2>1. DOMAIN Services = 1..4
    BY DEF Services
  <2>2. \A i \in 1..4 : Services[i] \in {"cli", "info", "router", "pinger"}
    BY DEF Services
  <2> QED BY <2>1, <2>2 DEF Service, ThreadIds
<1>2. threads \in [Slots -> ThreadIds \cup {NULL}]
  BY <1>1 DEF Init
<1>3. TypeOK
  <2>1. MaxThreads > 5 /\ MaxThreads \in Nat
    OBVIOUS
  <2>2. /\ acc \in [pc : {"test", "accept", "handshake", "spawn", "slot", "load", "store"},
                   loaded : 0..MaxThreads]
        /\ main \in [pc : {"slot", "load", "store", "done"}, loaded : 0..MaxThreads]
        /\ count \in 0..MaxThreads
    BY <2>1 DEF Init
  <2>3. handler \in [Conns -> HandlerPoints]
    BY DEF Init, HandlerPoints
  <2>4. /\ fds \in [Fds -> Owners \cup {NULL}]
        /\ sock \in [Conns -> Fds \cup {NULL}] /\ db \in [Conns -> Fds \cup {NULL}]
        /\ req \in [Conns -> Conns]
    BY DEF Init
  <2>5. arrived \in 0..MaxConns /\ accepted \in 0..arrived
    BY DEF Init
  <2>6. raced \in BOOLEAN /\ doubled \in BOOLEAN
    BY Zenon DEF Init
  <2> QED BY <1>2, <2>2, <2>3, <2>4, <2>5, <2>6 DEF TypeOK
<1>4. Counts
  BY DEF Init, Counts, InFlight, Finished
<1> QED BY <1>3, <1>4 DEF CountsInv

(* A handler's or the client's steps leave all counters alone. *)
LEMMA CountsSame ==
  ASSUME Counts, UNCHANGED <<accepted, acc, main, count>>
  PROVE  Counts'
  BY DEF Counts, InFlight, Finished

(* A handler's steps, its own or those its client brings about, are about its *)
(* own connection; of the others' they change at most cl.req.                *)
LEMMA HandlerFrame ==
  ASSUME NEW c \in Conns, HandlerRuns(c) \/ UserActs(c)
  PROVE  /\ UNCHANGED <<arrived, accepted, acc, sock, registryVars>>
         /\ handler[c] \notin {"none", "dropped", "gone"}
         /\ \E to : handler' = [handler EXCEPT ![c] = to]
         /\ UNCHANGED db \/ \E n : db' = [db EXCEPT ![c] = n]
  BY DEF HandlerRuns, UserActs, ConnectDb, CloseRefused, TakeOver, CloseAgain, Insert, LeaveEarly,
         Refuse, Login, DbClosed, Leave, connVars, HandlerGoto

LEMMA CountsStep == CountsInv /\ [Next]_vars => CountsInv'
<1> SUFFICES ASSUME CountsInv, [Next]_vars PROVE CountsInv'
  OBVIOUS
<1> USE AcceptorAssumption DEF CountsInv, AcceptorAssumption
<1>1. CASE UNCHANGED vars
  BY <1>1, CountsSame DEF vars, connVars, fdVars, registryVars, TypeOK
<1>2. CASE Arrive
  BY <1>2, CountsSame DEF Arrive, fdVars, registryVars, TypeOK
<1>3. CASE TestLimit
  BY <1>3 DEF TestLimit, AccAt, AccGoto, connVars, fdVars, registryVars, TypeOK, Counts, InFlight, Finished
<1>4. CASE Accept
  <2>1. TypeOK'
    <3>1. accepted' \in 0..arrived' /\ arrived' \in 0..MaxConns
      BY <1>4 DEF Accept, TypeOK
    <3>2. fds' \in [Fds -> Owners \cup {NULL}]
      <4>1. accepted < arrived => accepted + 1 \in Conns
        BY DEF TypeOK, Conns
      <4> QED BY <1>4, <4>1 DEF Accept, OpenFor, TypeOK, Owners
    <3>3. sock' \in [Conns -> Fds \cup {NULL}]
      BY <1>4 DEF Accept, TypeOK
    <3>4. acc' \in [pc : {"test", "accept", "handshake", "spawn", "slot", "load", "store"},
                    loaded : 0..MaxThreads]
      BY <1>4 DEF Accept, AccGoto, TypeOK
    <3> QED BY <1>4, <3>1, <3>2, <3>3, <3>4 DEF Accept, registryVars, TypeOK
  <2>2. Counts'
    BY <1>4 DEF Accept, AccAt, AccGoto, registryVars, TypeOK, Counts, InFlight, Finished
  <2> QED BY <2>1, <2>2
<1>5. CASE Handshake \/ Spawn
  <2>1. TypeOK'
    BY <1>5 DEF Handshake, Spawn, AccAt, AccGoto, Close, connVars, registryVars, TypeOK, HandlerPoints
  <2>2. Counts'
    BY <1>5 DEF Handshake, Spawn, AccAt, AccGoto, connVars, registryVars, TypeOK, Counts, InFlight, Finished
  <2> QED BY <2>1, <2>2
<1>6. CASE AccSlot \/ AccLoad \/ AccStore
  <2>1. TypeOK'
    <3>1. HandlerOf(accepted) \in ThreadIds
      BY DEF HandlerOf, ThreadIds, TypeOK
    <3>2. raced' \in BOOLEAN
      BY <1>6 DEF AccSlot, AccLoad, AccStore, MidMain, TypeOK
    <3>3. threads' \in [Slots -> ThreadIds \cup {NULL}]
      BY <1>6, <3>1 DEF AccSlot, AccLoad, AccStore, TypeOK
    <3>4. acc' \in [pc : {"test", "accept", "handshake", "spawn", "slot", "load", "store"},
                    loaded : 0..MaxThreads] /\ count' \in 0..MaxThreads
      BY <1>6 DEF AccSlot, AccLoad, AccStore, AccAt, AccGoto, TypeOK, Counts
    <3> QED
      BY <1>6, <3>2, <3>3, <3>4 DEF AccSlot, AccLoad, AccStore, connVars, fdVars, TypeOK
  <2>2. Counts'
    BY <1>6 DEF AccSlot, AccLoad, AccStore, AccAt, AccGoto, connVars, TypeOK, Counts, InFlight, Finished
  <2> QED BY <2>1, <2>2
<1>7. CASE MainRegisters
  <2>1. TypeOK'
    <3>1. Service("acceptor") \in ThreadIds
      BY DEF Service, ThreadIds
    <3>2. raced' \in BOOLEAN
      BY <1>7 DEF MainRegisters, MidAcc, TypeOK
    <3>3. threads' \in [Slots -> ThreadIds \cup {NULL}]
      BY <1>7, <3>1 DEF MainRegisters, TypeOK
    <3>4. main' \in [pc : {"slot", "load", "store", "done"}, loaded : 0..MaxThreads]
          /\ count' \in 0..MaxThreads
      BY <1>7 DEF MainRegisters, TypeOK, Counts, Finished
    <3> QED
      BY <1>7, <3>2, <3>3, <3>4 DEF MainRegisters, connVars, fdVars, TypeOK
  <2>2. Counts'
    BY <1>7 DEF MainRegisters, connVars, TypeOK, Counts, InFlight, Finished
  <2> QED BY <2>1, <2>2
<1>8. ASSUME NEW c \in Conns, HandlerRuns(c) \/ UserActs(c) PROVE CountsInv'
  <2>1. UNCHANGED <<arrived, accepted, acc, main, threads, count, raced>>
    BY <1>8, HandlerFrame DEF registryVars
  <2>2. handler' \in [Conns -> HandlerPoints]
    BY <1>8 DEF HandlerRuns, UserActs, ConnectDb, CloseRefused, TakeOver, CloseAgain, Insert,
                LeaveEarly, Refuse, Login, DbClosed, Leave, HandlerGoto, HandlerPoints, TypeOK
  <2>3. fds' \in [Fds -> Owners \cup {NULL}]
    BY <1>8 DEF HandlerRuns, UserActs, ConnectDb, CloseRefused, TakeOver, CloseAgain, Insert,
                LeaveEarly, Refuse, Login, DbClosed, Leave, OpenFor, Close, Owners, TypeOK
  <2>4. /\ sock' \in [Conns -> Fds \cup {NULL}] /\ db' \in [Conns -> Fds \cup {NULL}]
        /\ req' \in [Conns -> Conns]
    BY <1>8 DEF HandlerRuns, UserActs, ConnectDb, CloseRefused, TakeOver, Served, CloseAgain,
                Insert, LeaveEarly, Refuse, Login, DbClosed, Leave, TypeOK
  <2>5. doubled' \in BOOLEAN
    BY <1>8 DEF HandlerRuns, UserActs, ConnectDb, CloseRefused, TakeOver, CloseAgain, Insert,
                LeaveEarly, Refuse, Login, DbClosed, Leave, TypeOK
  <2> QED
    BY <2>1, <2>2, <2>3, <2>4, <2>5, CountsSame DEF TypeOK
<1> QED
  BY <1>1, <1>2, <1>3, <1>4, <1>5, <1>6, <1>7, <1>8 DEF Next, AcceptorRuns

(* The variables keep their types: above all, thread_count stays within the  *)
(* array it is an index of, whatever the two threads that increment it do    *)
(* (server.c:443, 504, 667).                                                 *)
THEOREM AcceptorTypeCorrect == Spec => []TypeOK
<1>1. CountsInv => TypeOK
  BY DEF CountsInv
<1> QED
  BY <1>1, CountsInitial, CountsStep, PTL DEF Spec

-----------------------------------------------------------------------------
LEMMA HandedInitial == Init => Handed
  BY DEF Init, Handed

LEMMA HandedStep == CountsInv /\ Handed /\ [Next]_vars => Handed'
<1> SUFFICES ASSUME CountsInv, Handed, [Next]_vars PROVE Handed'
  OBVIOUS
<1> USE AcceptorAssumption DEF AcceptorAssumption, Handed
<1>0. accepted \in Nat /\ (InFlight => accepted \in Conns) /\ handler \in [Conns -> HandlerPoints]
  BY DEF CountsInv, TypeOK, Counts, Conns
<1>1. CASE UNCHANGED <<accepted, acc, handler>>
  BY <1>1
<1>2. CASE TestLimit \/ AccSlot \/ AccLoad \/ AccStore
  BY <1>2, <1>0 DEF TestLimit, AccSlot, AccLoad, AccStore, AccGoto, connVars, CountsInv, TypeOK
<1>3. CASE Accept
  <2>1. UNCHANGED handler /\ (accepted' = accepted \/ (accepted' = accepted + 1 /\ accepted + 1 \in Conns))
    BY <1>3, <1>0 DEF Accept, CountsInv, TypeOK, Conns
  <2>2. accepted' = accepted => acc'.pc = "test"
    BY <1>3, <1>0 DEF Accept, AccGoto, CountsInv, TypeOK
  <2> QED BY <2>1, <2>2, <1>0 DEF Conns
<1>4. CASE Handshake \/ Spawn
  BY <1>4, <1>0 DEF Handshake, Spawn, AccAt, AccGoto, connVars, CountsInv, TypeOK, InFlight, Conns
<1>5. ASSUME NEW c \in Conns, HandlerRuns(c) \/ UserActs(c) PROVE Handed'
  <2>1. UNCHANGED <<accepted, acc>> /\ handler[c] # "none"
    BY <1>5, HandlerFrame
  <2>2. \A d \in Conns : d # c => handler'[d] = handler[d]
    BY <1>5, <1>0, HandlerFrame
  <2> QED BY <2>1, <2>2, <1>0 DEF InFlight, Conns
<1> QED
  BY <1>1, <1>2, <1>3, <1>4, <1>5
     DEF Next, AcceptorRuns, vars, connVars, Arrive, MainRegisters

-----------------------------------------------------------------------------
LEMMA OwnersDiffer ==
  /\ \A c, d : Owner("sock", c) # Owner("db", d)
  /\ \A use, c, d : Owner(use, c) = Owner(use, d) => c = d
  /\ \A c \in Conns : Owner("sock", c) # NULL /\ Owner("db", c) # NULL
<1>1. \A c, d : Owner("sock", c) # Owner("db", d)
  <2> SUFFICES ASSUME NEW c, NEW d, Owner("sock", c) = Owner("db", d) PROVE FALSE
    OBVIOUS
  <2>1. Owner("sock", c).use = "sock" /\ Owner("db", d).use = "db"
    BY DEF Owner
  <2> QED BY <2>1
<1>2. ASSUME NEW use, NEW c, NEW d, Owner(use, c) = Owner(use, d) PROVE c = d
  <2>1. Owner(use, c).conn = c /\ Owner(use, d).conn = d
    BY DEF Owner
  <2> QED BY <2>1, <1>2
<1>3. \A c \in Conns : Owner("sock", c) # NULL /\ Owner("db", c) # NULL
  BY AcceptorAssumption DEF AcceptorAssumption, Owner, Owners
<1> QED BY <1>1, <1>2, <1>3

LEMMA DescriptorsInitial == Init => \A c \in Conns : Noted(c) /\ InUse(c)
  BY OwnersDiffer DEF Init, InUse, Noted, HasSocket, HasDb

(* What a connection has noted stays right when no descriptor is newly its   *)
(* own and it gives up nothing that stays open.                              *)
LEMMA NotedStays ==
  ASSUME NEW d \in Conns, Noted(d), sock'[d] = sock[d],
         \A n \in Fds :
            /\ fds'[n] = Owner("sock", d) => fds[n] = Owner("sock", d)
            /\ fds'[n] = Owner("db", d) => fds[n] = Owner("db", d)
            /\ (fds'[n] = Owner("sock", d) /\ sock[d] = n /\ SocketHeld(d)) => SocketHeld(d)'
            /\ (fds'[n] = Owner("db", d) /\ db[d] = n /\ DbHeld(d)) => DbHeld(d)' /\ db'[d] = n
  PROVE  Noted(d)'
<1> SUFFICES ASSUME NEW n \in Fds
             PROVE  /\ fds'[n] = Owner("sock", d) => SocketHeld(d)' /\ sock'[d] = n
                    /\ fds'[n] = Owner("db", d) => DbHeld(d)' /\ db'[d] = n
  BY DEF Noted, Owner
<1>1. /\ fds[n] = Owner("sock", d) => SocketHeld(d) /\ sock[d] = n
      /\ fds[n] = Owner("db", d) => DbHeld(d) /\ db[d] = n
  BY DEF Noted
<1> QED BY <1>1

(* What a connection uses stays its own when it starts to use nothing and    *)
(* nobody else touches it.                                                   *)
LEMMA InUseStays ==
  ASSUME NEW d \in Conns, InUse(d), sock'[d] = sock[d],
         HasSocket(d)' => HasSocket(d),
         HasDb(d)' => HasDb(d) /\ db'[d] = db[d],
         \A n \in Fds :
            /\ (HasSocket(d)' /\ fds[n] = Owner("sock", d)) => fds'[n] = fds[n]
            /\ (HasDb(d)' /\ fds[n] = Owner("db", d)) => fds'[n] = fds[n]
  PROVE  InUse(d)'
<1>1. HasSocket(d)' => sock'[d] \in Fds /\ fds'[sock'[d]] = Owner("sock", d)
  BY DEF InUse
<1>2. HasDb(d)' => db'[d] \in Fds /\ fds'[db'[d]] = Owner("db", d)
  BY DEF InUse
<1> QED BY <1>1, <1>2 DEF InUse, Owner

(* A step that leaves the descriptors and their users alone. *)
Apart(d) == /\ HasSocket(d)' <=> HasSocket(d)
            /\ HasDb(d)' <=> HasDb(d)
            /\ SocketHeld(d) => SocketHeld(d)'
            /\ LeftEarly(d)' <=> LeftEarly(d)
            /\ sock'[d] = sock[d] /\ db'[d] = db[d]

LEMMA DescriptorsSame ==
  ASSUME UNCHANGED <<sock, req, db, handler, accepted>>,
         acc.pc \in {"handshake", "spawn"} <=> acc'.pc \in {"handshake", "spawn"}
  PROVE  \A d \in Conns : Apart(d)
  BY DEF Apart, HasSocket, SocketHeld, HasDb, LeftEarly, TakenOver

(* The step of another connection: it opens one for itself, or closes some.  *)
LEMMA OthersNote ==
  ASSUME NEW d \in Conns, Noted(d), Apart(d),
         \A n \in Fds : \A use \in {"sock", "db"} : fds'[n] = Owner(use, d) => fds[n] = Owner(use, d)
  PROVE  Noted(d)'
<1>1. DbHeld(d) => DbHeld(d)'
  BY DEF Apart, DbHeld
<1> QED BY <1>1, NotedStays DEF Apart

LEMMA OthersUse ==
  ASSUME NEW d \in Conns, InUse(d), Apart(d),
         \A n \in Fds : \A use \in {"sock", "db"} : fds[n] = Owner(use, d) => fds'[n] = fds[n]
  PROVE  InUse(d)'
  BY InUseStays DEF Apart

(* close() makes nothing anybody's, and the numbers nobody's. *)
LEMMA Closing ==
  ASSUME NEW numbers, Close(numbers)
  PROVE  /\ \A n \in Fds : fds'[n] = IF n \in numbers THEN NULL ELSE fds[n]
         /\ \A n \in Fds : \A use \in {"sock", "db"} : \A d \in Conns :
                fds'[n] = Owner(use, d) => fds[n] = Owner(use, d) /\ n \notin numbers
<1>1. \A n \in Fds : fds'[n] = IF n \in numbers THEN NULL ELSE fds[n]
  BY DEF Close
<1>2. \A use \in {"sock", "db"} : \A d \in Conns : Owner(use, d) # NULL
  BY OwnersDiffer
<1> QED BY <1>1, <1>2

(* A handler's step, seen from another connection. *)
LEMMA HandlerApart ==
  ASSUME CountsInv, NEW c \in Conns, NEW d \in Conns, d # c, HandlerRuns(c) \/ UserActs(c)
  PROVE  Apart(d)
<1>1. /\ UNCHANGED <<accepted, acc, sock>>
      /\ handler'[d] = handler[d] /\ db'[d] = db[d]
  BY HandlerFrame DEF CountsInv, TypeOK
<1>2. TakenOver(d) => TakenOver(d)'
  <2>1. CASE UNCHANGED req
    BY <2>1 DEF TakenOver
  <2>2. CASE TakeOver(c)
    BY <2>2 DEF TakeOver, Served, TakenOver, CountsInv, TypeOK
  <2> QED
    BY <2>1, <2>2 DEF HandlerRuns, UserActs, ConnectDb, CloseRefused, CloseAgain, Insert,
                      LeaveEarly, Refuse, Login, DbClosed, Leave
<1> QED BY <1>1, <1>2 DEF Apart, HasSocket, SocketHeld, HasDb, LeftEarly

(* The handler's own connection: what it used before a step and what after.  *)
LEMMA HandlerHas ==
  ASSUME CountsInv, Handed, NEW c \in Conns, HandlerRuns(c) \/ UserActs(c)
  PROVE  /\ HasSocket(c) <=> handler[c] \in {"connect", "auth", "refuse", "stray", "astray",
                                             "insert", "loop"}
         /\ HasSocket(c)' <=> handler'[c] \in {"connect", "auth", "refuse", "stray", "astray",
                                               "insert", "loop"}
  BY HandlerFrame DEF HasSocket, Handed

-----------------------------------------------------------------------------
LEMMA NotedStep == NotedInv /\ [Next]_vars => NotedInv'
<1> SUFFICES ASSUME NotedInv, [Next]_vars PROVE NotedInv'
  OBVIOUS
<1> USE AcceptorAssumption DEF AcceptorAssumption
<1>1. CountsInv /\ Handed /\ CountsInv' /\ Handed'
  BY CountsStep, HandedStep DEF NotedInv
<1>2. /\ accepted \in Nat /\ (InFlight => accepted \in Conns)
      /\ fds \in [Fds -> Owners \cup {NULL}] /\ sock \in [Conns -> Fds \cup {NULL}]
      /\ db \in [Conns -> Fds \cup {NULL}] /\ handler \in [Conns -> HandlerPoints]
      /\ req \in [Conns -> Conns] /\ NULL \notin Fds
  <2>1. TypeOK /\ Counts
    BY <1>1 DEF CountsInv
  <2>2. InFlight => accepted \in Conns
    BY <2>1 DEF TypeOK, Counts, Conns
  <2> QED BY <2>1, <2>2 DEF TypeOK
<1> SUFFICES ASSUME NEW d \in Conns, Noted(d) PROVE Noted(d)'
  BY <1>1 DEF NotedInv
<1>3. ASSUME UNCHANGED fds, Apart(d) PROVE Noted(d)'
  BY <1>3, OthersNote
<1>4. CASE UNCHANGED vars \/ Arrive \/ MainRegisters
  BY <1>3, <1>4, DescriptorsSame DEF vars, connVars, fdVars, Arrive, MainRegisters
<1>5. CASE TestLimit \/ AccSlot \/ AccLoad \/ AccStore
  <2>1. /\ UNCHANGED <<fds, sock, req, db, handler, accepted>>
        /\ acc.pc \notin {"handshake", "spawn"} /\ acc'.pc \notin {"handshake", "spawn"}
    BY <1>1, <1>5 DEF TestLimit, AccSlot, AccLoad, AccStore, AccAt, AccGoto, connVars, fdVars,
                      CountsInv, TypeOK
  <2> QED BY <1>3, <2>1, DescriptorsSame
<1>6. CASE Accept
  <2>1. PICK new \in Conns : /\ new = accepted + 1 /\ handler[new] = "none"
                            /\ acc.pc = "accept" /\ UNCHANGED <<handler, req, db>>
    <3>1. acc.pc = "accept" /\ accepted < arrived /\ UNCHANGED <<handler, req, db>>
      BY <1>6 DEF Accept, AccAt
    <3>2. accepted + 1 \in Conns
      BY <1>1, <3>1 DEF CountsInv, TypeOK, Conns
    <3> QED BY <1>1, <1>2, <3>1, <3>2 DEF Handed
  <2>2. CASE UNCHANGED <<fds, sock, accepted>> /\ acc'.pc = "test"
    BY <1>3, <2>1, <2>2, DescriptorsSame
  <2>3. ASSUME NEW n \in Fds, OpenFor(n, "sock", accepted + 1), sock' = [sock EXCEPT ![new] = n],
               accepted' = new, acc'.pc = "handshake"
        PROVE  Noted(d)'
    <3>1. \A m \in Fds : fds'[m] = IF m = n THEN Owner("sock", new) ELSE fds[m]
      BY <1>2, <2>1, <2>3 DEF OpenFor, Owner
    <3>2. CASE d # new
      <4>1. Apart(d)
        BY <1>2, <2>1, <2>3, <3>2 DEF Apart, HasSocket, SocketHeld, HasDb, LeftEarly, TakenOver
      <4>2. \A m \in Fds : \A use \in {"sock", "db"} : fds'[m] = Owner(use, d) => fds[m] = Owner(use, d)
        BY <3>1, <3>2, OwnersDiffer
      <4> QED BY <4>1, <4>2, OthersNote
    <3>3. CASE d = new
      <4>1. ~SocketHeld(d) /\ ~DbHeld(d) /\ SocketHeld(d)' /\ sock'[d] = n
        BY <1>2, <2>1, <2>3, <3>3 DEF SocketHeld, HasSocket, DbHeld, HasDb, LeftEarly
      <4>2. \A m \in Fds : fds[m] # Owner("sock", d) /\ fds[m] # Owner("db", d)
        BY <4>1 DEF Noted
      <4>3. \A m \in Fds : (fds'[m] = Owner("sock", d) => m = n) /\ fds'[m] # Owner("db", d)
        BY <3>1, <4>2, OwnersDiffer
      <4> QED BY <4>1, <4>3 DEF Noted, Owner
    <3> QED BY <3>2, <3>3
  <2> QED BY <1>1, <1>6, <2>1, <2>2, <2>3 DEF Accept, AccGoto, CountsInv, TypeOK
<1>7. CASE Handshake \/ Spawn
  <2>1. PICK c \in Conns : c = accepted /\ handler[c] = "none" /\ acc.pc \in {"handshake", "spawn"}
    BY <1>1, <1>2, <1>7 DEF Handshake, Spawn, AccAt, InFlight, Handed
  <2>2. UNCHANGED <<accepted, sock, req, db>>
    BY <1>7 DEF Handshake, Spawn, connVars
  <2>3. UNCHANGED fds \/ Close({sock[c]})
    BY <1>7, <2>1 DEF Handshake, Spawn
  <2>4. \A n \in Fds : \A use \in {"sock", "db"} : fds'[n] = Owner(use, d) => fds[n] = Owner(use, d)
    BY <2>3, Closing
  <2>5. CASE d # c
    <3>1. Apart(d)
      BY <1>2, <1>7, <2>1, <2>2, <2>5
         DEF Handshake, Spawn, Apart, HasSocket, SocketHeld, HasDb, LeftEarly, TakenOver
    <3> QED BY <2>4, <3>1, OthersNote
  <2>6. CASE d = c
    <3>1. ~DbHeld(d)
      BY <2>1, <2>6 DEF DbHeld, HasDb, LeftEarly
    <3>2. HasSocket(d)' \/ Close({sock[d]})
      <4>1. Close({sock[c]}) \/ acc'.pc = "spawn" \/ handler'[c] = "connect"
        BY <1>1, <1>2, <1>7, <2>1 DEF Handshake, Spawn, AccGoto, CountsInv, TypeOK
      <4> QED BY <2>1, <2>2, <2>6, <4>1 DEF HasSocket
    <3>3. \A n \in Fds : fds'[n] = Owner("sock", d) /\ sock[d] = n => SocketHeld(d)'
      BY <3>2, Closing DEF SocketHeld
    <3> QED BY <2>2, <2>4, <3>1, <3>3, NotedStays
  <2> QED BY <2>5, <2>6
<1>8. ASSUME NEW c \in Conns, HandlerRuns(c) \/ UserActs(c) PROVE Noted(d)'
  <2>1. UNCHANGED <<accepted, acc, sock>> /\ handler[c] \notin {"none", "gone"}
    BY <1>8, HandlerFrame
  <2>2. ASSUME NEW from, NEW to, HandlerGoto(c, from, to) PROVE handler[c] = from /\ handler'[c] = to
    BY <1>2, <2>2 DEF HandlerGoto
  <2>3. CASE ConnectDb(c) /\ ~Close({sock[c]})
    <3>1. PICK n \in Fds : HandlerGoto(c, "connect", "auth") /\ OpenFor(n, "db", c)
                           /\ db' = [db EXCEPT ![c] = n]
      BY <2>3 DEF ConnectDb
    <3>2. \A m \in Fds : fds'[m] = IF m = n THEN Owner("db", c) ELSE fds[m]
      BY <1>2, <3>1 DEF OpenFor, Owner
    <3>3. CASE d # c
      <4>1. \A m \in Fds : \A use \in {"sock", "db"} : fds'[m] = Owner(use, d) => fds[m] = Owner(use, d)
        BY <3>2, <3>3, OwnersDiffer
      <4> QED BY <1>1, <1>8, <3>3, <4>1, HandlerApart, OthersNote
    <3>4. CASE d = c
      <4>1. ~DbHeld(d) /\ DbHeld(d)' /\ SocketHeld(d)' /\ db'[d] = n
        BY <1>2, <2>2, <3>1, <3>4 DEF DbHeld, HasDb, LeftEarly, SocketHeld, HasSocket
      <4>2. \A m \in Fds : /\ fds[m] = Owner("sock", d) => sock[d] = m
                           /\ fds[m] # Owner("db", d)
        BY <4>1 DEF Noted
      <4>3. \A m \in Fds : /\ fds'[m] = Owner("sock", d) => sock'[d] = m
                           /\ fds'[m] = Owner("db", d) => m = n
        BY <2>1, <3>2, <4>2, OwnersDiffer
      <4> QED BY <4>1, <4>3 DEF Noted, Owner
    <3> QED BY <3>3, <3>4
  <2>4. CASE ~(ConnectDb(c) /\ ~Close({sock[c]}))
    <3>1. UNCHANGED fds \/ \E numbers : Close(numbers)
      BY <1>8, <2>4 DEF HandlerRuns, UserActs, ConnectDb, CloseRefused, TakeOver, CloseAgain, Insert,
                        LeaveEarly, Refuse, Login, DbClosed, Leave
    <3>2. \A n \in Fds : \A use \in {"sock", "db"} : fds'[n] = Owner(use, d) => fds[n] = Owner(use, d)
      BY <3>1, Closing
    <3>3. CASE d # c
      BY <1>1, <1>8, <3>2, <3>3, HandlerApart, OthersNote
    <3>4. CASE d = c
      <4>1. /\ HasSocket(d) <=> handler[d] \in {"connect", "auth", "refuse", "stray", "astray",
                                                "insert", "loop"}
            /\ HasSocket(d)' <=> handler'[d] \in {"connect", "auth", "refuse", "stray", "astray",
                                                  "insert", "loop"}
        BY <1>1, <1>8, <3>4, HandlerHas
      <4>2. ASSUME NEW n \in Fds, fds'[n] = Owner("sock", d), sock[d] = n, SocketHeld(d)
            PROVE  SocketHeld(d)'
        <5>1. HasSocket(d)
          BY <2>1, <3>4, <4>2 DEF SocketHeld
        <5>2. ~Close({sock[d]})
          BY <4>2, Closing
        <5>3. CASE Leave(c)
          <6>1. req[d] # d /\ handler'[d] = "gone" /\ req' = req
            BY <2>2, <3>4, <5>2, <5>3 DEF Leave
          <6> QED BY <6>1 DEF SocketHeld, TakenOver
        <5>4. CASE HasSocket(d)'
          BY <5>4 DEF SocketHeld
        <5>5. HasSocket(d)' \/ Leave(c)
          <6>1. CASE DbClosed(c, "refuse") \/ DbClosed(c, "insert") \/ DbClosed(c, "stray")
            BY <2>2, <3>4, <4>1, <6>1 DEF DbClosed
          <6>2. CASE TakeOver(c) \/ (Insert(c) /\ UNCHANGED fds)
            BY <2>2, <3>4, <4>1, <4>2, <5>2, <6>2 DEF TakeOver, Insert
          <6>3. CASE CloseAgain(c)
            BY <2>2, <3>4, <4>1, <5>1, <6>3 DEF CloseAgain
          <6> QED
            BY <1>8, <2>4, <3>4, <5>2, <6>1, <6>2, <6>3
               DEF HandlerRuns, UserActs, ConnectDb, CloseRefused, Insert, LeaveEarly, Refuse, Login
        <5> QED BY <5>3, <5>4, <5>5
      <4>3. ASSUME NEW n \in Fds, fds'[n] = Owner("db", d), db[d] = n, DbHeld(d)
            PROVE  DbHeld(d)' /\ db'[d] = n
        <5>1. ~Close({db[d]})
          BY <4>3, Closing
        <5>2. db[d] # NULL
          BY <1>2, <4>3
        <5>3. handler[d] \in {"auth", "second"}
          BY <2>1, <3>4, <4>3 DEF DbHeld, HasDb, LeftEarly
        <5>4. ~DbClosed(c, "refuse") /\ ~DbClosed(c, "insert") /\ ~DbClosed(c, "stray")
          BY <3>4, <5>1 DEF DbClosed
        <5>5. LeaveEarly(c) \/ CloseAgain(c)
          BY <1>8, <2>2, <3>4, <5>3, <5>4
             DEF HandlerRuns, UserActs, ConnectDb, CloseRefused, TakeOver, Insert, Refuse, Login, Leave
        <5>6. handler'[d] \in {"second", "gone"} /\ db'[d] = db[d]
          BY <2>2, <3>4, <5>5 DEF LeaveEarly, CloseAgain
        <5> QED BY <4>3, <5>2, <5>6 DEF DbHeld, LeftEarly
      <4> QED BY <2>1, <3>2, <4>2, <4>3, NotedStays
    <3> QED BY <3>3, <3>4
  <2> QED BY <2>3, <2>4
<1> QED
  BY <1>4, <1>5, <1>6, <1>7, <1>8 DEF Next, AcceptorRuns

LEMMA DescriptorsStep == DescriptorsInv /\ [Next]_vars => DescriptorsInv'
<1> SUFFICES ASSUME DescriptorsInv, [Next]_vars PROVE DescriptorsInv'
  OBVIOUS
<1> USE AcceptorAssumption DEF AcceptorAssumption
<1>1. NotedInv /\ NotedInv' /\ CountsInv /\ Handed /\ CountsInv'
  BY NotedStep DEF DescriptorsInv, NotedInv
<1>2. /\ accepted \in Nat /\ (InFlight => accepted \in Conns)
      /\ fds \in [Fds -> Owners \cup {NULL}] /\ sock \in [Conns -> Fds \cup {NULL}]
      /\ db \in [Conns -> Fds \cup {NULL}] /\ handler \in [Conns -> HandlerPoints]
      /\ req \in [Conns -> Conns] /\ doubled \in BOOLEAN /\ NULL \notin Fds
  <2>1. TypeOK /\ Counts
    BY <1>1 DEF CountsInv
  <2>2. InFlight => accepted \in Conns
    BY <2>1 DEF TypeOK, Counts, Conns
  <2> QED BY <2>1, <2>2 DEF TypeOK
(* Who has meddled has done so for good. *)
<1>4. ASSUME NEW c \in Conns, TakeOver(c) PROVE Meddled'
  <2>1. PICK a \in Conns \ {c} : req' = [req EXCEPT ![a] = c]
    BY <1>4 DEF TakeOver, Served
  <2> QED BY <1>2, <2>1 DEF Meddled, TakenOver
<1>5. (\E c \in Conns : TakeOver(c)) \/ UNCHANGED req
  BY DEF Next, vars, AcceptorRuns, TestLimit, Accept, Handshake, Spawn, AccSlot, AccLoad, AccStore,
         MainRegisters, Arrive, HandlerRuns, UserActs, ConnectDb, CloseRefused, CloseAgain, Insert,
         LeaveEarly, Refuse, Login, DbClosed, Leave, fdVars
<1>6. doubled => doubled'
  BY DEF Next, vars, AcceptorRuns, TestLimit, Accept, Handshake, Spawn, AccSlot, AccLoad, AccStore,
         MainRegisters, Arrive, HandlerRuns, UserActs, ConnectDb, CloseRefused, TakeOver, CloseAgain,
         Insert, LeaveEarly, Refuse, Login, DbClosed, Leave, fdVars
<1>7. Meddled => Meddled'
  BY <1>4, <1>5, <1>6 DEF Meddled, TakenOver
<1> SUFFICES ASSUME ~Meddled', \A c \in Conns : InUse(c), NEW d \in Conns PROVE InUse(d)'
  BY <1>1, <1>7 DEF DescriptorsInv
<1>8. UNCHANGED req /\ ~doubled' /\ \A c \in Conns : req[c] = c
  BY <1>4, <1>5, <1>7 DEF Meddled, TakenOver
<1>9. ASSUME UNCHANGED fds, Apart(d) PROVE InUse(d)'
  BY <1>9, OthersUse
(* A close of what is the closer's own, or not open, is nobody else's. *)
<1>10. ASSUME NEW c \in Conns, NEW n, Close({n}), Apart(d), d # c,
              n \in Fds => fds[n] \in {NULL, Owner("sock", c), Owner("db", c)}
       PROVE  InUse(d)'
  <2>1. \A m \in Fds : \A use \in {"sock", "db"} : fds[m] = Owner(use, d) => m # n
    BY <1>10, OwnersDiffer
  <2>2. \A m \in Fds : \A use \in {"sock", "db"} : fds[m] = Owner(use, d) => fds'[m] = fds[m]
    BY <1>10, <2>1, Closing
  <2> QED BY <1>10, <2>2, OthersUse
<1>11. CASE UNCHANGED vars \/ Arrive \/ MainRegisters
  BY <1>9, <1>11, DescriptorsSame DEF vars, connVars, fdVars, Arrive, MainRegisters
<1>12. CASE TestLimit \/ AccSlot \/ AccLoad \/ AccStore
  <2>1. /\ UNCHANGED <<fds, sock, req, db, handler, accepted>>
        /\ acc.pc \notin {"handshake", "spawn"} /\ acc'.pc \notin {"handshake", "spawn"}
    BY <1>1, <1>12 DEF TestLimit, AccSlot, AccLoad, AccStore, AccAt, AccGoto, connVars, fdVars,
                       CountsInv, TypeOK
  <2> QED BY <1>9, <2>1, DescriptorsSame
<1>13. CASE Accept
  <2>1. PICK new \in Conns : /\ new = accepted + 1 /\ handler[new] = "none"
                            /\ acc.pc = "accept" /\ UNCHANGED <<handler, db>>
    <3>1. acc.pc = "accept" /\ accepted < arrived /\ UNCHANGED <<handler, db>>
      BY <1>13 DEF Accept, AccAt
    <3>2. accepted + 1 \in Conns
      BY <1>1, <3>1 DEF CountsInv, TypeOK, Conns
    <3> QED BY <1>1, <1>2, <3>1, <3>2 DEF Handed
  <2>2. CASE UNCHANGED <<fds, sock, accepted>> /\ acc'.pc = "test"
    BY <1>8, <1>9, <2>1, <2>2, DescriptorsSame
  <2>3. ASSUME NEW n \in Fds, OpenFor(n, "sock", accepted + 1), sock' = [sock EXCEPT ![new] = n],
               accepted' = new, acc'.pc = "handshake"
        PROVE  InUse(d)'
    <3>1. fds[n] = NULL /\ \A m \in Fds : fds'[m] = IF m = n THEN Owner("sock", new) ELSE fds[m]
      BY <1>2, <2>1, <2>3 DEF OpenFor, LowestFree, Owner
    <3>2. CASE d # new
      <4>1. Apart(d)
        BY <1>2, <1>8, <2>1, <2>3, <3>2 DEF Apart, HasSocket, SocketHeld, HasDb, LeftEarly, TakenOver
      <4>2. \A m \in Fds : \A use \in {"sock", "db"} : fds[m] = Owner(use, d) => fds'[m] = fds[m]
        BY <3>1, <3>2, OwnersDiffer
      <4> QED BY <4>1, <4>2, OthersUse
    <3>3. CASE d = new
      <4>1. ~HasDb(d)' /\ sock'[d] = n
        BY <1>2, <2>1, <2>3, <3>3 DEF HasDb
      <4>2. fds'[n] = Owner("sock", d)
        BY <3>1, <3>3
      <4> QED BY <4>1, <4>2 DEF InUse, Owner
    <3> QED BY <3>2, <3>3
  <2> QED BY <1>1, <1>13, <2>1, <2>2, <2>3 DEF Accept, AccGoto, CountsInv, TypeOK
<1>14. CASE Handshake \/ Spawn
  <2>1. PICK c \in Conns : c = accepted /\ handler[c] = "none" /\ acc.pc \in {"handshake", "spawn"}
    BY <1>1, <1>2, <1>14 DEF Handshake, Spawn, AccAt, InFlight, Handed
  <2>2. UNCHANGED <<accepted, sock, db>>
    BY <1>14 DEF Handshake, Spawn, connVars
  <2>3. HasSocket(c) /\ fds[sock[c]] = Owner("sock", c)
    BY <2>1 DEF HasSocket, InUse
  <2>4. UNCHANGED fds \/ Close({sock[c]})
    BY <1>14, <2>1 DEF Handshake, Spawn
  <2>5. CASE d # c
    <3>1. Apart(d)
      BY <1>2, <1>8, <1>14, <2>1, <2>2, <2>5
         DEF Handshake, Spawn, Apart, HasSocket, SocketHeld, HasDb, LeftEarly, TakenOver
    <3> QED BY <1>9, <1>10, <2>3, <2>4, <2>5, <3>1
  <2>6. CASE d = c
    <3>1. ~HasDb(d)'
      BY <1>2, <1>14, <2>1, <2>6 DEF Handshake, Spawn, HasDb
    <3>2. HasSocket(d)' => UNCHANGED fds
      <4>1. UNCHANGED fds \/ (acc'.pc = "test" /\ handler'[c] = "dropped")
        BY <1>1, <1>2, <1>14, <2>1 DEF Handshake, Spawn, AccGoto, CountsInv, TypeOK
      <4> QED BY <2>6, <4>1 DEF HasSocket
    <3> QED BY <2>2, <2>3, <2>6, <3>1, <3>2, InUseStays
  <2> QED BY <2>5, <2>6
<1>15. ASSUME NEW c \in Conns, HandlerRuns(c) \/ UserActs(c) PROVE InUse(d)'
  <2>1. UNCHANGED <<accepted, acc, sock>>
    BY <1>15, HandlerFrame
  <2>2. ASSUME NEW from, NEW to, HandlerGoto(c, from, to) PROVE handler[c] = from /\ handler'[c] = to
    BY <1>2, <2>2 DEF HandlerGoto
  <2>3. d # c => Apart(d)
    BY <1>1, <1>15, HandlerApart
  <2>4. /\ HasSocket(c) <=> handler[c] \in {"connect", "auth", "refuse", "stray", "astray",
                                            "insert", "loop"}
        /\ HasSocket(c)' <=> handler'[c] \in {"connect", "auth", "refuse", "stray", "astray",
                                              "insert", "loop"}
    BY <1>1, <1>15, HandlerHas
  <2>5. ASSUME NEW from \in {"connect", "auth", "refuse", "astray", "insert", "loop"},
               NEW to \in {"second", "gone"}, HandlerGoto(c, from, to), Close({sock[c]})
        PROVE  InUse(d)'
    <3>1. HasSocket(c) /\ ~HasSocket(c)' /\ ~HasDb(c)'
      BY <2>2, <2>4, <2>5 DEF HasDb
    <3>2. fds[sock[c]] = Owner("sock", c)
      BY <3>1 DEF InUse
    <3>3. CASE d # c
      BY <1>10, <2>3, <2>5, <3>2, <3>3
    <3>4. CASE d = c
      BY <3>1, <3>4 DEF InUse
    <3> QED BY <3>3, <3>4
  <2>6. CASE CloseAgain(c)
    <3>1. ~HasSocket(c)' /\ ~HasDb(c)' /\ fds[sock[c]] = NULL /\ Close({sock[c]})
      <4>1. /\ HandlerGoto(c, "second", "gone") /\ Close({sock[c]})
            /\ doubled' = (doubled \/ fds[sock[c]] # NULL)
        BY <2>6 DEF CloseAgain
      <4>2. handler'[c] = "gone"
        BY <2>2, <4>1
      <4> QED BY <1>8, <2>4, <4>1, <4>2 DEF HasDb
    <3>2. CASE d # c
      BY <1>10, <2>3, <3>1, <3>2
    <3>3. CASE d = c
      BY <3>1, <3>3 DEF InUse
    <3> QED BY <3>2, <3>3
  <2>7. CASE Insert(c) /\ UNCHANGED fds
    <3>1. HasSocket(c) /\ ~HasDb(c)'
      BY <2>2, <2>4, <2>7 DEF Insert, HasDb
    <3>2. CASE d # c
      BY <1>9, <2>3, <2>7, <3>2
    <3>3. CASE d = c
      BY <2>1, <2>7, <3>1, <3>3, InUseStays
    <3> QED BY <3>2, <3>3
  <2>8. ASSUME NEW n \in Fds, HandlerGoto(c, "connect", "auth"), OpenFor(n, "db", c),
               db' = [db EXCEPT ![c] = n]
        PROVE  InUse(d)'
    <3>1. fds[n] = NULL /\ \A m \in Fds : fds'[m] = IF m = n THEN Owner("db", c) ELSE fds[m]
      BY <1>2, <2>8 DEF OpenFor, LowestFree, Owner
    <3>2. \A m \in Fds : \A use \in {"sock", "db"} : fds[m] = Owner(use, d) => fds'[m] = fds[m]
      BY <3>1, OwnersDiffer
    <3>3. CASE d # c
      BY <2>3, <3>2, <3>3, OthersUse
    <3>4. CASE d = c
      <4>1. HasSocket(c) /\ db'[c] = n
        BY <1>2, <2>2, <2>4, <2>8
      <4>2. sock[c] \in Fds /\ fds[sock[c]] = Owner("sock", c)
        BY <4>1 DEF InUse
      <4>3. fds'[sock[c]] = Owner("sock", c) /\ fds'[n] = Owner("db", c)
        BY <3>1, <3>2, <3>4, <4>2
      <4> QED BY <2>1, <3>4, <4>1, <4>2, <4>3 DEF InUse, Owner
    <3> QED BY <3>3, <3>4
  <2>9. ASSUME NEW to \in {"refuse", "insert", "stray"}, DbClosed(c, to) PROVE InUse(d)'
    <3>1. /\ HandlerGoto(c, "auth", to) /\ Close({db[c]})
      BY <2>9 DEF DbClosed
    <3>2. HasSocket(c) /\ HasDb(c) /\ ~HasDb(c)'
      BY <2>2, <2>4, <3>1 DEF HasDb
    <3>3. fds[db[c]] = Owner("db", c)
      BY <3>2 DEF InUse
    <3>4. CASE d # c
      BY <1>10, <2>3, <3>1, <3>3, <3>4
    <3>5. CASE d = c
      <4>1. \A m \in Fds : fds[m] = Owner("sock", c) => m # db[c]
        BY <3>3, OwnersDiffer
      <4>2. \A m \in Fds : fds[m] = Owner("sock", c) => fds'[m] = fds[m]
        BY <3>1, <4>1, Closing
      <4> QED BY <2>1, <3>2, <3>5, <4>2, InUseStays
    <3> QED BY <3>4, <3>5
  <2>10. ConnectDb(c) => InUse(d)'
    BY <2>5, <2>8 DEF ConnectDb
  <2>11. LeaveEarly(c) \/ CloseRefused(c) \/ Leave(c) => InUse(d)'
    BY <1>8, <2>5 DEF LeaveEarly, CloseRefused, Leave
  <2>12. Insert(c) => InUse(d)'
    BY <2>5, <2>7 DEF Insert
  <2>13. Refuse(c) \/ Login(c) => InUse(d)'
    BY <2>9 DEF Refuse, Login
  <2>14. ~TakeOver(c)
    BY <1>4
  <2> QED BY <1>15, <2>6, <2>10, <2>11, <2>12, <2>13, <2>14 DEF HandlerRuns, UserActs
<1> QED
  BY <1>11, <1>12, <1>13, <1>14, <1>15 DEF Next, AcceptorRuns

(* Two connections never share a descriptor and none writes to another's,    *)
(* whatever their number, until a refused connection's second close has met  *)
(* a descriptor opened in between (server_auth.c:24, 61, 434; server.c:249)  *)
(* or a dialogue has put its request into another session's record           *)
(* (server_auth.c:276, 402; server.c:271, 312).                              *)
THEOREM ConnectionsKeepApart == Spec => []OwnDescriptors
<1>1. DescriptorsInv => OwnDescriptors
  BY DEF DescriptorsInv, OwnDescriptors, Meddled, InUse
<1>2. Init => DescriptorsInv
  BY CountsInitial, HandedInitial, DescriptorsInitial DEF DescriptorsInv, NotedInv
<1> QED
  BY <1>1, <1>2, DescriptorsStep, PTL DEF Spec

(* Whatever the handlers close of each other's, only two things stay open    *)
(* without a user: the databases of those who left before they gave a name   *)
(* (server_auth.c:59-63) and the sockets of those whose cl.req another       *)
(* dialogue had overwritten (server.c:312).                                  *)
THEOREM NoOtherLeak == Spec => []DescriptorsAccounted
<1>1. NotedInv => DescriptorsAccounted
  <2> SUFFICES ASSUME NotedInv, NEW n \in Fds, fds[n] # NULL
               PROVE  LET c == fds[n].conn IN
                      \/ fds[n].use = "sock" /\ (HasSocket(c) \/ (handler[c] = "gone" /\ TakenOver(c)))
                      \/ fds[n].use = "db" /\ (HasDb(c) \/ LeftEarly(c))
    BY DEF DescriptorsAccounted
  <2>1. fds[n] \in Owners
    BY DEF NotedInv, CountsInv, TypeOK
  <2>2. PICK use \in {"sock", "db"}, c \in Conns : fds[n] = Owner(use, c)
    BY <2>1 DEF Owners, Owner
  <2>3. fds[n].use = use /\ fds[n].conn = c
    BY <2>2 DEF Owner
  <2>4. Noted(c)
    BY DEF NotedInv
  <2> QED BY <2>2, <2>3, <2>4 DEF Noted, SocketHeld, DbHeld
<1>2. Init => NotedInv
  BY CountsInitial, HandedInitial, DescriptorsInitial DEF NotedInv
<1> QED
  BY <1>1, <1>2, NotedStep, PTL DEF Spec

-----------------------------------------------------------------------------
LEMMA ThreadsDiffer ==
  /\ \A c, d : HandlerOf(c) = HandlerOf(d) => c = d
  /\ \A c \in Conns : HandlerOf(c) # Service("acceptor") /\ HandlerOf(c) # NULL
  /\ Service("acceptor") # NULL
<1>1. ASSUME NEW c, NEW d, HandlerOf(c) = HandlerOf(d) PROVE c = d
  <2>1. HandlerOf(c).conn = c /\ HandlerOf(d).conn = d
    BY DEF HandlerOf
  <2> QED BY <2>1, <1>1
<1>2. ASSUME NEW c \in Conns PROVE HandlerOf(c) # Service("acceptor")
  <2>1. HandlerOf(c).is = "handler" /\ Service("acceptor").is = "acceptor"
    BY DEF HandlerOf, Service
  <2> QED BY <2>1
<1>3. ASSUME NEW c \in Conns PROVE HandlerOf(c) # NULL
  <2>1. HandlerOf(c) \in ThreadIds
    BY AcceptorAssumption DEF AcceptorAssumption, HandlerOf, ThreadIds, Conns
  <2> QED BY <2>1, AcceptorAssumption DEF AcceptorAssumption
<1>4. Service("acceptor") # NULL
  <2>1. Service("acceptor") \in ThreadIds
    BY AcceptorAssumption DEF AcceptorAssumption, Service, ThreadIds
  <2> QED BY <2>1, AcceptorAssumption DEF AcceptorAssumption
<1> QED BY <1>1, <1>2, <1>3, <1>4

LEMMA RegistryInitial == Init => Ordered /\ Slotted
<1> SUFFICES ASSUME Init PROVE Ordered /\ Slotted
  OBVIOUS
<1> USE AcceptorAssumption DEF AcceptorAssumption
<1>1. Last = 4 /\ 4 < MaxThreads
  BY DEF Init, Last, MidAcc, MidMain
<1>2. DOMAIN Services = 1..4 /\ Services \in [1..4 -> {"cli", "info", "router", "pinger"}]
      /\ \A i, j \in 1..4 : Services[i] = Services[j] => i = j
  BY DEF Services
<1>3. \A i \in 1..4 : threads[i] = Service(Services[i])
  BY <1>1, <1>2 DEF Init, Slots
<1>4. \A i \in 1..4 : threads[i].is = Services[i] /\ threads[i] \in ThreadIds
  BY <1>2, <1>3 DEF Service, ThreadIds
<1>5. \A i \in 1..4 : threads[i] # NULL
  BY <1>4
<1>6. \A i, j \in 1..4 : threads[i] = threads[j] => i = j
  BY <1>2, <1>4
<1>7. \A i \in 1..4 : threads[i] # Service("acceptor") /\ \A c \in Conns : threads[i] # HandlerOf(c)
  BY <1>2, <1>4 DEF Service, HandlerOf
<1>8. Ordered
  BY DEF Init, Ordered, MidAcc, MidMain
<1> QED
  BY <1>1, <1>5, <1>6, <1>7, <1>8
     DEF Init, Slotted, Distinct, AcceptorIn, HandlerIn, Due, Registered

LEMMA RegistryStep == RegistryInv /\ [Next]_vars => RegistryInv'
<1> SUFFICES ASSUME RegistryInv, [Next]_vars PROVE RegistryInv'
  OBVIOUS
<1> USE AcceptorAssumption DEF AcceptorAssumption
<1>1. CountsInv /\ Handed /\ CountsInv' /\ Handed'
  BY CountsStep, HandedStep DEF RegistryInv
<1>2. /\ accepted \in 0..MaxConns /\ (InFlight => accepted \in Conns)
      /\ handler \in [Conns -> HandlerPoints] /\ threads \in [Slots -> ThreadIds \cup {NULL}]
      /\ count \in 0..MaxThreads /\ raced \in BOOLEAN
      /\ acc \in [pc : {"test", "accept", "handshake", "spawn", "slot", "load", "store"},
                  loaded : 0..MaxThreads]
      /\ main \in [pc : {"slot", "load", "store", "done"}, loaded : 0..MaxThreads]
  <2>1. TypeOK /\ Counts
    BY <1>1 DEF CountsInv
  <2>2. InFlight => accepted \in Conns
    BY <2>1 DEF TypeOK, Counts, Conns
  <2> QED BY <2>1, <2>2 DEF TypeOK
<1>3. raced => raced'
  BY HandlerFrame DEF Next, vars, AcceptorRuns, TestLimit, Accept, Handshake, Spawn, AccSlot, AccLoad,
         AccStore, MainRegisters, Arrive, registryVars
<1> SUFFICES ASSUME ~raced', Ordered, Slotted PROVE Ordered' /\ Slotted'
  BY <1>1, <1>3 DEF RegistryInv
<1>4. ASSUME UNCHANGED threads, Last' = Last, Ordered',
             main'.pc # "slot" <=> main.pc # "slot",
             \A c \in Conns : (Due(c)' => Due(c)) /\ (Early(c)' => Early(c))
      PROVE  Ordered' /\ Slotted'
  <2>1. Registered(Service("acceptor"))' <=> Registered(Service("acceptor"))
    BY <1>4 DEF Registered, Service
  <2>2. ASSUME NEW c \in Conns PROVE Registered(HandlerOf(c))' <=> Registered(HandlerOf(c))
    BY <1>4 DEF Registered, HandlerOf
  <2>3. Distinct'
    BY <1>4 DEF Slotted, Distinct
  <2>4. AcceptorIn'
    BY <1>4, <2>1 DEF Slotted, AcceptorIn
  <2>5. ASSUME NEW c \in Conns PROVE HandlerIn(c)'
    BY <1>4, <2>2 DEF Slotted, HandlerIn
  <2> QED BY <1>4, <2>3, <2>4, <2>5 DEF Slotted
<1>5. CASE UNCHANGED <<accepted, acc, handler, registryVars>>
  <2>1. UNCHANGED threads /\ Last' = Last /\ Ordered' /\ main' = main
    BY <1>5 DEF registryVars, Last, MidAcc, MidMain, Ordered
  <2>2. \A c \in Conns : (Due(c)' => Due(c)) /\ (Early(c)' => Early(c))
    BY <1>5 DEF Due, Early, Registering
  <2> QED BY <1>4, <2>1, <2>2
<1>6. CASE TestLimit \/ Accept \/ Handshake \/ Spawn
  <2>1. /\ acc.pc \in {"test", "accept", "handshake", "spawn"}
        /\ acc'.pc \in {"test", "accept", "handshake", "spawn", "slot"}
        /\ UNCHANGED <<threads, count, main>>
    BY <1>2, <1>6 DEF TestLimit, Accept, Handshake, Spawn, AccAt, AccGoto, registryVars
  <2>2. Last' = Last /\ Ordered'
    BY <2>1 DEF Last, Ordered, MidAcc, MidMain
  <2>3. ASSUME NEW c \in Conns PROVE (Due(c)' => Due(c)) /\ (Early(c)' => Early(c))
    <3>1. CASE TestLimit
      BY <1>2, <3>1 DEF TestLimit, AccAt, AccGoto, connVars, Due, Early, Registering
    <3>2. CASE Accept
      BY <1>2, <3>2 DEF Accept, AccAt, AccGoto, Due, Early, Registering, Conns
    <3>3. CASE Handshake
      BY <1>2, <3>3 DEF Handshake, AccAt, AccGoto, connVars, Due, Early, Registering
    <3>4. CASE Spawn
      BY <1>2, <3>4 DEF Spawn, AccAt, AccGoto, connVars, Due, Early, Registering
    <3> QED BY <1>6, <3>1, <3>2, <3>3, <3>4
  <2> QED BY <1>4, <2>1, <2>2, <2>3
<1>7. CASE AccLoad \/ AccStore
  <2>1. MidAcc /\ ~MidMain /\ Last = count + 1
    BY <1>7 DEF AccLoad, AccStore, AccAt, MidAcc, Ordered, Last
  <2>2. UNCHANGED <<threads, main, accepted, handler>>
    BY <1>7 DEF AccLoad, AccStore, connVars
  <2>3. \/ acc'.pc = "store" /\ acc'.loaded = count /\ count' = count
        \/ acc'.pc = "test" /\ count' = count + 1
    BY <1>7 DEF AccLoad, AccStore, AccAt, Ordered
  <2>4. Last' = Last /\ Ordered'
    BY <2>1, <2>2, <2>3 DEF Last, Ordered, MidAcc, MidMain
  <2>5. \A c \in Conns : (Due(c)' => Due(c)) /\ (Early(c)' => Early(c))
    BY <2>1, <2>2, <2>3 DEF MidAcc, Due, Early, Registering
  <2> QED BY <1>4, <2>2, <2>4, <2>5
(* A new entry in the slot after the last one. *)
<1>8. ASSUME NEW x, x # NULL, ~MidAcc, ~MidMain, Last' = count + 1, count < MaxThreads,
             threads' = [threads EXCEPT ![count + 1] = x], ~Registered(x)
      PROVE  /\ Distinct'
             /\ \A y : (\E i \in 1..Last' : threads'[i] = y) <=> (Registered(y) \/ y = x)
  <2>1. Last = count /\ count + 1 \in Slots /\ count \in Nat
    BY <1>2, <1>8 DEF Last, Slots
  <2>2. \A i \in 1..count : i \in Slots /\ i # count + 1
    BY <1>2, <1>8 DEF Slots
  <2>3. threads'[count + 1] = x /\ \A i \in 1..count : threads'[i] = threads[i]
    BY <1>2, <1>8, <2>1, <2>2
  <2>4. 1..Last' = 1..count \cup {count + 1}
    BY <1>8, <2>1
  <2>5. Distinct'
    BY <1>8, <2>1, <2>3, <2>4 DEF Slotted, Distinct, Registered
  <2>6. \A y : (\E i \in 1..Last' : threads'[i] = y) <=> (Registered(y) \/ y = x)
    BY <2>1, <2>3, <2>4 DEF Registered
  <2> QED BY <2>5, <2>6
<1>9. CASE AccSlot
  <2>1. PICK a \in Conns : a = accepted
    BY <1>2, <1>9 DEF AccSlot, AccAt, InFlight
  <2>2. /\ acc.pc = "slot" /\ acc'.pc = "load" /\ ~MidAcc /\ ~MidMain /\ count < MaxThreads
        /\ threads' = [threads EXCEPT ![count + 1] = HandlerOf(a)]
        /\ UNCHANGED <<accepted, handler, main, count>>
    BY <1>1, <1>2, <1>9, <2>1 DEF AccSlot, AccAt, AccGoto, MidAcc, connVars, CountsInv, Counts
  <2>3. Last' = count + 1 /\ Ordered'
    BY <2>2 DEF Last, Ordered, MidAcc, MidMain
  <2>4. HandlerOf(a) # NULL /\ ~Registered(HandlerOf(a))
    BY <2>1, <2>2, ThreadsDiffer DEF Slotted, HandlerIn, Early
  <2>5. /\ Distinct'
        /\ \A y : (\E i \in 1..Last' : threads'[i] = y) <=> (Registered(y) \/ y = HandlerOf(a))
    BY <1>8, <2>2, <2>3, <2>4
  <2>6. AcceptorIn'
    <3>1. Registered(Service("acceptor"))' <=> Registered(Service("acceptor"))
      BY <2>1, <2>5, ThreadsDiffer DEF Registered, Service
    <3> QED BY <2>2, <3>1 DEF Slotted, AcceptorIn
  <2>7. ASSUME NEW c \in Conns PROVE HandlerIn(c)'
    <3>1. Registered(HandlerOf(c))' <=> (Registered(HandlerOf(c)) \/ c = a)
      BY <2>5, ThreadsDiffer DEF Registered, HandlerOf
    <3>2. (Due(c)' => Due(c) \/ c = a) /\ (Early(c)' => Early(c) /\ c # a)
      BY <1>2, <2>1, <2>2 DEF Due, Early, Registering
    <3> QED BY <3>1, <3>2 DEF Slotted, HandlerIn
  <2> QED BY <2>3, <2>5, <2>6, <2>7 DEF Slotted
<1>10. CASE MainRegisters
  <2>1. ~MidAcc /\ UNCHANGED <<accepted, acc, handler>>
    BY <1>10 DEF MainRegisters, connVars
  <2>2. \A c \in Conns : (Due(c)' => Due(c)) /\ (Early(c)' => Early(c))
    BY <2>1 DEF Due, Early, Registering
  <2>3. CASE main.pc \in {"load", "store"}
    <3>1. MidMain /\ Last = count + 1
      BY <2>3 DEF MidMain, Last
    <3>2. \/ main'.pc = "store" /\ main'.loaded = count /\ count' = count
          \/ main'.pc = "done" /\ count' = count + 1
      BY <1>10, <2>3 DEF MainRegisters, Ordered
    <3>3. UNCHANGED threads
      BY <1>10, <2>3 DEF MainRegisters
    <3>4. Last' = Last /\ Ordered'
      BY <2>1, <3>1, <3>2 DEF Last, Ordered, MidAcc, MidMain
    <3> QED BY <1>4, <2>2, <2>3, <3>2, <3>3, <3>4
  <2>4. CASE main.pc = "slot"
    <3>1. /\ main'.pc = "load" /\ UNCHANGED count /\ ~MidMain
          /\ threads' = [threads EXCEPT ![count + 1] = Service("acceptor")]
      BY <1>2, <1>10, <2>4 DEF MainRegisters, MidMain
    <3>2. count < MaxThreads
      BY <1>1, <1>2, <2>4 DEF CountsInv, TypeOK, Counts, Finished
    <3>3. Last' = count + 1 /\ Ordered'
      BY <2>1, <3>1 DEF Last, Ordered, MidAcc, MidMain
    <3>4. Service("acceptor") # NULL /\ ~Registered(Service("acceptor"))
      BY <2>4, ThreadsDiffer DEF Slotted, AcceptorIn
    <3>5. /\ Distinct'
          /\ \A y : (\E i \in 1..Last' : threads'[i] = y) <=> (Registered(y) \/ y = Service("acceptor"))
      BY <1>8, <2>1, <3>1, <3>2, <3>3, <3>4
    <3>6. AcceptorIn'
      BY <3>1, <3>5 DEF AcceptorIn, Registered, Service
    <3>7. ASSUME NEW c \in Conns PROVE HandlerIn(c)'
      <4>1. Registered(HandlerOf(c))' <=> Registered(HandlerOf(c))
        BY <3>5, ThreadsDiffer DEF Registered, HandlerOf
      <4> QED BY <2>2, <4>1 DEF Slotted, HandlerIn
    <3> QED BY <3>3, <3>5, <3>6, <3>7 DEF Slotted
  <2> QED BY <1>10, <2>3, <2>4 DEF MainRegisters
<1>11. ASSUME NEW c \in Conns, HandlerRuns(c) \/ UserActs(c) PROVE Ordered' /\ Slotted'
  <2>1. UNCHANGED <<accepted, acc, registryVars>> /\ handler[c] \notin {"none", "dropped"}
    BY <1>11, HandlerFrame
  <2>2. \A d \in Conns : d # c => handler'[d] = handler[d]
    BY <1>2, <1>11, HandlerFrame
  <2>3. \A d \in Conns : (Due(d)' => Due(d)) /\ (Early(d)' => Early(d))
    BY <2>1, <2>2 DEF Due, Early, Registering
  <2>4. UNCHANGED threads /\ Last' = Last /\ Ordered' /\ main' = main
    BY <2>1 DEF registryVars, Last, MidAcc, MidMain, Ordered
  <2> QED BY <1>4, <2>3, <2>4
<1> QED
  BY <1>5, <1>6, <1>7, <1>9, <1>10, <1>11 DEF Next, AcceptorRuns, Arrive, vars, connVars

(* Every thread that was handed a connection keeps a slot of its own         *)
(* (server.c:443, 503-509, 667-668), however many connections and threads    *)
(* there are, unless run_server and the acceptor have met at the registry.   *)
THEOREM SlotsAreKept == Spec => []RegistryKept
<1>1. RegistryInv => RegistryKept
  BY DEF RegistryInv, RegistryKept, Slotted, Distinct, AcceptorIn, HandlerIn, Due, Last, Registered
<1>2. Init => RegistryInv
  BY CountsInitial, HandedInitial, RegistryInitial DEF RegistryInv
<1> QED
  BY <1>1, <1>2, RegistryStep, PTL DEF Spec
=============================================================================
