-------------------------------- MODULE Server --------------------------------
(***************************************************************************)
(* The server process: one handle_client thread per connection, the router *)
(* (handle_msg_queue), the pinger (handle_client_ping) and the command     *)
(* line (handle_cli), which share the client map and the message queue.    *)
(*                                                                         *)
(* A client_connection lives on its handler's stack; the map, the router   *)
(* and, after "already online", user_auth hold pointers to it.  A pointer  *)
(* is modelled by the session whose record it points to.  All users' uids  *)
(* share one bucket of the map (module Uid), so the map is one list under  *)
(* one mutex.  The queue is the FIFO queue its mutex would make it (module *)
(* StsQueue).  Where the code reaches undefined behaviour the model stops  *)
(* and `fault` says what happened.                                         *)
(***************************************************************************)
EXTENDS Integers, SequencesExt

CONSTANTS Sessions,     \* connections the server accepts
          Users,        \* usernames; also their uids, get_hash is injective
          NULL,
          NamesOf,      \* the usernames a client types
          Accounts,     \* users in the database at start
          MaxAttempts,  \* USER_LOGIN_ATTEMPTS
          Cautious,     \* does a client leave once its user is online, and before its last attempt?
          UidGarbage,   \* what an uninitialised cl.uid may hold: "null", "wild"
          PingGarbage,  \* what an uninitialised cl.ping_sent may hold
          FreeOutcomes, \* what free() of a stack address may do: "abort", "survive"
          MaxRounds,    \* bound: rounds of the pinger
          MaxTexts,     \* bound: messages each client writes
          MaxCommands   \* bound: commands entered at the server

Unset == "unset"
Freed == "freed"
Others == {"pinger", "cli"}

ASSUME ServerAssumption ==
    /\ NULL \notin Sessions \cup Users \cup Others
    /\ Sessions \cap Others = {}
    /\ {Unset, Freed, "server"} \cap Users = {}
    /\ NamesOf \in [Sessions -> SUBSET Users]
    /\ Accounts \subseteq Users
    /\ MaxAttempts \in Nat /\ MaxAttempts >= 2
    /\ Cautious \in BOOLEAN
    /\ UidGarbage \subseteq {"null", "wild"}
    /\ PingGarbage \subseteq BOOLEAN /\ PingGarbage # {}
    /\ FreeOutcomes \subseteq {"abort", "survive"}
    /\ MaxRounds \in Nat /\ MaxTexts \in Nat /\ MaxCommands \in Nat

VARIABLES
    registered,  \* usernames in the users table
    pc,          \* what each handler executes next
    auth,        \* locals of its user_auth: attempts, username, the pointer cl
    cl,          \* its client_connection
    clients,     \* the list of the client map, head first
    mutex,       \* the thread that holds the list's mutex, or NULL
    cursor,      \* hash_map_iterate of each thread: index of its node (1 outside)
    queue,       \* srv.message_queue
    router,      \* handle_msg_queue: next step, message, recipient's record
    pinger,      \* handle_client_ping: next step, rounds done
    cli,         \* handle_cli: next step, recipient's record, commands done
    pings,       \* pings written to a connection and not yet answered
    texts,       \* messages each client has written
    rivals,      \* history: sessions that were in or near the map together with another
                 \* session of the same user
    fault        \* the undefined behaviour the server has run into, or "none"

mapVars == <<clients, mutex, cursor>>
handlerVars == <<registered, pc, auth, cl>>
envVars == <<pings, texts, rivals>>
serviceVars == <<router, pinger, cli>>
vars == <<handlerVars, mapVars, queue, serviceVars, envVars, fault>>

Threads == Sessions \cup Others
HandlerPoints == {"new", "username", "choice", "confirm", "password", "cleanup", "insert",
                  "assignId", "joinLock", "join", "setReady", "loop", "erase", "exit",
                  "refused", "gone"}
MessageTypes == {"ping", "quit", "join", "text"}
Messages == [type : MessageTypes, to : Users \cup {"server"}]
Faults == {"none", "stalePointer", "wildUid", "freedUid", "badFree"}

TypeOK ==
    /\ registered \subseteq Users
    /\ pc \in [Sessions -> HandlerPoints]
    /\ auth \in [Sessions -> [attempts : 0..MaxAttempts, username : Users \cup {NULL},
                              cl : Sessions]]
    /\ cl \in [Sessions -> [uid : Users \cup {Unset, Freed}, req : Sessions,
                            isReady : BOOLEAN, pingSent : BOOLEAN, id : Int]]
    /\ clients \in Seq(Sessions)
    /\ mutex \in Threads \cup {NULL}
    /\ cursor \in [Threads -> Nat]
    /\ queue \in Seq(Messages)
    /\ router \in [pc : {"pop", "find", "send", "mark", "free"},
                   msg : Messages \cup {NULL}, cl : Sessions \cup {NULL}]
    /\ pinger \in [pc : {"ping", "pinging", "kick", "kicking", "kickErase"}, rounds : Nat]
    /\ cli \in [pc : {"prompt", "kick", "quit", "text"}, cl : Sessions \cup {NULL}, done : Nat]
    /\ pings \in [Sessions -> Nat] /\ texts \in [Sessions -> 0..MaxTexts]
    /\ rivals \subseteq Sessions
    /\ fault \in Faults

Init ==
    /\ registered = Accounts
    /\ pc = [s \in Sessions |-> "new"]
    /\ auth = [s \in Sessions |-> [attempts |-> 0, username |-> NULL, cl |-> s]]
    /\ cl \in [Sessions -> [uid : {Unset}, req : Sessions, isReady : {FALSE},
                            pingSent : PingGarbage, id : {0}]]
    /\ \A s \in Sessions : cl[s].req = s
    /\ clients = <<>> /\ mutex = NULL
    /\ cursor = [t \in Threads |-> 1]
    /\ queue = <<>>
    /\ router = [pc |-> "pop", msg |-> NULL, cl |-> NULL]
    /\ pinger = [pc |-> "ping", rounds |-> 0]
    /\ cli = [pc |-> "prompt", cl |-> NULL, done |-> 0]
    /\ pings = [s \in Sessions |-> 0] /\ texts = [s \in Sessions |-> 0]
    /\ rivals = {}
    /\ fault = "none"

-----------------------------------------------------------------------------
At(s, point) == fault = "none" /\ pc[s] = point

Goto(s, to) == pc' = [pc EXCEPT ![s] = to]

Abort(what) == /\ fault' = what
               /\ UNCHANGED <<handlerVars, mapVars, queue, serviceVars, envVars>>

(* The handler has returned: its record is a dead stack frame. *)
Dead(s) == pc[s] \in {"refused", "gone"}

(* handle_client frees its request when it ends, though not when it fails. *)
Closed(s) == pc[s] = "gone"

Message(type, to) == [type |-> type, to |-> to]

Push(m) == queue' = Append(queue, m)

(* The walk of find, insert and erase: the first node with this uid, else    *)
(* the end of the list.  It compares the uid of every node up to there.      *)
Place(u) == CHOOSE i \in 1..(Len(clients) + 1) :
              /\ \A j \in 1..(i - 1) : cl[clients[j]].uid # u
              /\ i <= Len(clients) => cl[clients[i]].uid = u

Found(u) == Place(u) <= Len(clients)

WalkFault(u) ==
    LET walked == {clients[i] : i \in {j \in 1..Len(clients) : j <= Place(u)}}
    IN IF \E s \in walked : Dead(s) THEN "stalePointer"
       ELSE IF \E s \in walked : cl[s].uid = Freed THEN "freedUid"
       ELSE "none"

(* A step that first walks the list for u. *)
AfterWalk(u, Step) == /\ mutex = NULL
                      /\ IF WalkFault(u) # "none" THEN Abort(WalkFault(u)) ELSE Step

-----------------------------------------------------------------------------
(* user_auth.  Each step ends where the server waits for the client's next  *)
(* line, with a database query or a walk of the map in between.             *)

(* handle_client starts: connect_db, welcome, "enter username" *)
Accept(s) ==
    /\ At(s, "new") /\ Goto(s, "username")
    /\ UNCHANGED <<registered, auth, cl, mapVars, queue, serviceVars, envVars, fault>>

(* Mutant: the attempts are counted and not limited. *)
NextAttempt_Unlimited(s, a) ==
    /\ auth' = [auth EXCEPT ![s] = [a EXCEPT !.attempts = @ + 1]]
    /\ Goto(s, "username")

(* attempts++ and, if any are left, the loop's next round *)
NextAttempt(s, a) ==
    /\ auth' = [auth EXCEPT ![s] = [a EXCEPT !.attempts = @ + 1]]
    /\ Goto(s, IF a.attempts + 1 = MaxAttempts THEN "cleanup" ELSE "username")

Named(s, n) == [auth[s] EXCEPT !.username = n]

(* Is the user online?  A search that fails leaves cl alone. *)
CheckOnline(s, n) ==
    /\ n \in registered
    /\ AfterWalk(n,
         /\ IF Found(n)
            THEN NextAttempt(s, [Named(s, n) EXCEPT !.cl = clients[Place(n)]])
            ELSE auth' = [auth EXCEPT ![s] = Named(s, n)] /\ Goto(s, "password")
         /\ UNCHANGED fault)

(* The username arrives.  hash_map_find(user_map, uid, &cl) overwrites the   *)
(* parameter cl with a pointer to the online session's record.               *)
EnterUsername(s, n) ==
    /\ At(s, "username") /\ n \in NamesOf[s]
    /\ Cautious => auth[s].cl = s /\ auth[s].attempts < MaxAttempts - 1
    /\ \/ /\ n \notin registered /\ auth[s].attempts = 0
          /\ auth' = [auth EXCEPT ![s] = Named(s, n)]
          /\ Goto(s, "choice")
          /\ UNCHANGED fault
       \/ /\ n \notin registered /\ auth[s].attempts # 0
          /\ NextAttempt(s, Named(s, n))
          /\ UNCHANGED fault
       \/ CheckOnline(s, n)
    /\ UNCHANGED <<registered, cl, mapVars, queue, serviceVars, envVars>>

(* "Register?": y (then both passwords), n, or anything else *)
Choose(s, answer) ==
    /\ At(s, "choice")
    /\ CASE answer = "y" -> Goto(s, "confirm") /\ UNCHANGED auth
         [] answer = "n" -> NextAttempt(s, auth[s])
         [] OTHER        -> Goto(s, "cleanup") /\ UNCHANGED auth
    /\ UNCHANGED <<registered, cl, mapVars, queue, serviceVars, envVars, fault>>

(* The record user_auth writes to is the one its cl points to. *)
Record(s) == auth[s].cl

(* Mutant: the own record gets the uid and the connection, too. *)
LogIn_Both(s) == [cl EXCEPT ![Record(s)].uid = auth[s].username, ![Record(s)].req = s,
                            ![s].uid = auth[s].username, ![s].req = s]

LogIn(s) == [cl EXCEPT ![Record(s)].uid = auth[s].username, ![Record(s)].req = s]

(* Mutant: the account is used without having been written to the database. *)
Confirm_NoInsert(s, match) ==
    /\ At(s, "confirm") /\ match
    /\ cl' = LogIn(s)
    /\ Goto(s, "insert")
    /\ UNCHANGED <<registered, auth, mapVars, queue, serviceVars, envVars, fault>>

(* The password and its confirmation arrive: INSERT INTO users, which fails *)
(* if another session has registered the name meanwhile.                    *)
Confirm(s, match) ==
    /\ At(s, "confirm")
    /\ \/ /\ ~match
          /\ NextAttempt(s, auth[s])
          /\ UNCHANGED <<registered, cl>>
       \/ /\ match /\ auth[s].username \in registered
          /\ cl' = [cl EXCEPT ![Record(s)].uid = auth[s].username]
          /\ Goto(s, "cleanup")
          /\ UNCHANGED <<registered, auth>>
       \/ /\ match /\ auth[s].username \notin registered
          /\ registered' = registered \cup {auth[s].username}
          /\ cl' = LogIn(s)
          /\ Goto(s, "insert")
          /\ UNCHANGED auth
    /\ UNCHANGED <<mapVars, queue, serviceVars, envVars, fault>>

(* The password arrives and the users table confirms it, or not. *)
Password(s, correct) ==
    /\ At(s, "password")
    /\ \/ /\ ~correct
          /\ NextAttempt(s, auth[s])
          /\ UNCHANGED <<cl, fault>>
       \/ /\ correct
          /\ IF Dead(Record(s)) THEN fault' = "stalePointer" /\ UNCHANGED <<cl, pc>>
             ELSE cl' = LogIn(s) /\ Goto(s, "insert") /\ UNCHANGED fault
          /\ UNCHANGED auth
    /\ UNCHANGED <<registered, mapVars, queue, serviceVars, envVars>>

(* The client goes away while the server waits for a line of its login. *)
AbandonLogin(s) ==
    /\ fault = "none"
    /\ \/ pc[s] = "username" /\ Goto(s, "refused")
       \/ pc[s] \in {"choice", "confirm", "password"} /\ Goto(s, "cleanup")
    /\ UNCHANGED <<registered, auth, cl, mapVars, queue, serviceVars, envVars, fault>>

(* cleanup: free(cl->uid) if it is not NULL; handle_client returns *)
Cleanup(s) ==
    LET u == cl[Record(s)].uid IN
    /\ At(s, "cleanup")
    /\ IF Dead(Record(s)) THEN Abort("stalePointer")
       ELSE IF u = Freed THEN Abort("freedUid")
       ELSE \/ u = Unset /\ "wild" \in UidGarbage /\ Abort("wildUid")
            \/ /\ u = Unset => "null" \in UidGarbage
               /\ cl' = [cl EXCEPT ![Record(s)].uid = IF u = Unset THEN Unset ELSE Freed]
               /\ Goto(s, "refused")
               /\ UNCHANGED <<registered, auth, mapVars, queue, serviceVars, envVars, fault>>

-----------------------------------------------------------------------------
(* Sessions of the same user that have put their entry into the map and not   *)
(* yet taken it out.                                                          *)
Inserted == {"assignId", "joinLock", "join", "setReady", "loop", "erase"}

Fellows(s) == {r \in Sessions \ {s} : pc[r] \in Inserted /\ cl[r].uid = cl[s].uid}

Meets(s) == rivals' = IF Fellows(s) = {} THEN rivals ELSE rivals \cup Fellows(s) \cup {s}

(* handle_client after user_auth.  A uid that user_auth has written to        *)
(* another record leaves this one's uninitialised.                            *)
Insertion(s, list) ==
    LET u == cl[s].uid IN
    /\ At(s, "insert")
    /\ \/ u = Unset /\ "wild" \in UidGarbage /\ Abort("wildUid")
       \/ /\ u = Unset /\ "null" \in UidGarbage
          /\ Goto(s, "refused")
          /\ UNCHANGED <<registered, auth, cl, mapVars, queue, serviceVars, envVars, fault>>
       \/ /\ u # Unset
          /\ AfterWalk(u,
               /\ clients' = list /\ Meets(s)
               /\ Goto(s, "assignId")
               /\ UNCHANGED <<registered, auth, cl, mutex, cursor, queue, serviceVars, pings, texts,
                              fault>>)

(* Mutant: the list is not searched for an entry with this uid. *)
Insert_NoWalk(s) == Insertion(s, Append(clients, s))

Insert(s) == Insertion(s, IF Found(cl[s].uid) THEN [clients EXCEPT ![Place(cl[s].uid)] = s]
                          ELSE Append(clients, s))

(* cl.id = srv.client_map->current_elements - 1, without the mutex *)
AssignId(s) ==
    /\ At(s, "assignId") /\ Goto(s, "joinLock")
    /\ cl' = [cl EXCEPT ![s].id = Len(clients) - 1]
    /\ UNCHANGED <<registered, auth, mapVars, queue, serviceVars, envVars, fault>>

(* hash_map_iterate(2) by thread t *)
BeginIteration(t) == mutex = NULL /\ mutex' = t /\ UNCHANGED <<clients, cursor>>

Visiting(t) == cursor[t] <= Len(clients)
Current(t) == clients[cursor[t]]
Advance(t) == cursor' = [cursor EXCEPT ![t] = @ + 1] /\ UNCHANGED <<clients, mutex>>

EndIteration(t) == /\ ~Visiting(t) /\ mutex' = NULL
                   /\ cursor' = [cursor EXCEPT ![t] = 1]
                   /\ UNCHANGED clients

(* What reading the current connection in a callback runs into. *)
VisitFault(t) == IF Dead(Current(t)) THEN "stalePointer"
                 ELSE IF cl[Current(t)].uid = Freed /\ cl[Current(t)].isReady THEN "freedUid"
                 ELSE "none"

JoinLock(s) ==
    /\ At(s, "joinLock") /\ BeginIteration(s) /\ Goto(s, "join")
    /\ UNCHANGED <<registered, auth, cl, queue, serviceVars, envVars, fault>>

(* send_join_message *)
JoinVisit(s) ==
    /\ At(s, "join") /\ Visiting(s)
    /\ IF VisitFault(s) # "none" THEN Abort(VisitFault(s))
       ELSE /\ Advance(s)
            /\ IF cl[Current(s)].isReady /\ Current(s) # s
               THEN Push(Message("join", cl[Current(s)].uid)) ELSE UNCHANGED queue
            /\ UNCHANGED <<handlerVars, serviceVars, envVars, fault>>

(* Mutant: the iteration returns with the mutex locked. *)
JoinDone_StaysLocked(s) ==
    /\ At(s, "join") /\ ~Visiting(s) /\ Goto(s, "setReady")
    /\ UNCHANGED <<registered, auth, cl, mapVars, queue, serviceVars, envVars, fault>>

JoinDone(s) ==
    /\ At(s, "join") /\ EndIteration(s) /\ Goto(s, "setReady")
    /\ UNCHANGED <<registered, auth, cl, queue, serviceVars, envVars, fault>>

SetReady(s) ==
    /\ At(s, "setReady") /\ Goto(s, "loop")
    /\ cl' = [cl EXCEPT ![s].isReady = TRUE]
    /\ UNCHANGED <<registered, auth, mapVars, queue, serviceVars, envVars, fault>>

(* The handler's loop reads from the connection cl.req names. *)
Reads(s, Step) == IF Closed(cl[s].req) THEN Abort("stalePointer") ELSE Step

(* the client answers a ping *)
ReceiveAck(s) ==
    /\ At(s, "loop") /\ pings[cl[s].req] > 0
    /\ Reads(s, /\ pings' = [pings EXCEPT ![cl[s].req] = @ - 1]
                /\ cl' = [cl EXCEPT ![s].pingSent = FALSE]
                /\ UNCHANGED <<registered, pc, auth, mapVars, queue, serviceVars, texts, rivals,
                               fault>>)

(* any other message goes to the queue as it is *)
ReceiveText(s, to) ==
    /\ At(s, "loop") /\ texts[cl[s].req] < MaxTexts
    /\ Reads(s, /\ texts' = [texts EXCEPT ![cl[s].req] = @ + 1]
                /\ Push(Message("text", to))
                /\ UNCHANGED <<handlerVars, mapVars, serviceVars, pings, rivals, fault>>)

Disconnect(s) ==
    /\ At(s, "loop")
    /\ Reads(s, /\ Goto(s, "erase")
                /\ UNCHANGED <<registered, auth, cl, mapVars, queue, serviceVars, envVars, fault>>)

(* Mutant: the handler of a client that has gone leaves its entry behind. *)
EraseEntry_Forgotten(s) ==
    /\ At(s, "erase") /\ Goto(s, "exit")
    /\ UNCHANGED <<registered, auth, cl, mapVars, queue, serviceVars, envVars, fault>>

(* Mutant: the head of the list is taken out, whoever it is. *)
EraseEntry_Head(s) ==
    /\ At(s, "erase") /\ mutex = NULL /\ Goto(s, "exit")
    /\ clients' = IF clients = <<>> THEN <<>> ELSE Tail(clients)
    /\ UNCHANGED <<registered, auth, cl, mutex, cursor, queue, serviceVars, envVars, fault>>

EraseEntry(s) ==
    LET u == cl[s].uid IN
    /\ At(s, "erase")
    /\ IF u = Freed THEN Abort("freedUid")
       ELSE AfterWalk(u, /\ clients' = IF Found(u) THEN RemoveAt(clients, Place(u)) ELSE clients
                         /\ Goto(s, "exit")
                         /\ UNCHANGED <<registered, auth, cl, mutex, cursor, queue, serviceVars,
                                        envVars, fault>>)

(* close(cl.req->sock), free(req), the stack frame ends *)
Exit(s) ==
    /\ At(s, "exit")
    /\ Reads(s, /\ Goto(s, "gone")
                /\ UNCHANGED <<registered, auth, cl, mapVars, queue, serviceVars, envVars, fault>>)

-----------------------------------------------------------------------------
(* handle_msg_queue *)
RouterPop ==
    /\ fault = "none" /\ router.pc = "pop" /\ queue # <<>>
    /\ router' = [router EXCEPT !.pc = "find", !.msg = Head(queue)]
    /\ queue' = Tail(queue)
    /\ UNCHANGED <<handlerVars, mapVars, pinger, cli, envVars, fault>>

RouterGoto(to) == router' = [router EXCEPT !.pc = to]

(* Mutant: the router's thread ends with the message. *)
RouterDrop_Exits == router' = [pc |-> "exit", msg |-> NULL, cl |-> NULL]

(* Nobody is found: the message and the client_connection it has malloc'ed   *)
(* are freed.                                                                *)
RouterDrop == router' = [pc |-> "pop", msg |-> NULL, cl |-> NULL]

(* Mutant: the head of the list is taken for the recipient. *)
RouterFind_Head ==
    /\ fault = "none" /\ router.pc = "find" /\ mutex = NULL
    /\ IF clients # <<>>
       THEN router' = [router EXCEPT !.pc = "send", !.cl = clients[1]]
       ELSE RouterDrop
    /\ UNCHANGED <<handlerVars, mapVars, queue, pinger, cli, envVars, fault>>

(* The uid "server" belongs to another bucket, which is always empty. *)
RouterFind ==
    /\ fault = "none" /\ router.pc = "find"
    /\ \/ /\ router.msg.to = "server"
          /\ RouterDrop
          /\ UNCHANGED <<handlerVars, mapVars, queue, pinger, cli, envVars, fault>>
       \/ /\ router.msg.to # "server"
          /\ AfterWalk(router.msg.to,
               /\ IF Found(router.msg.to)
                  THEN router' = [router EXCEPT !.pc = "send", !.cl = clients[Place(router.msg.to)]]
                  ELSE RouterDrop
               /\ UNCHANGED <<handlerVars, mapVars, queue, pinger, cli, envVars, fault>>)

(* send_message(cl->req->ssl, msg), after the map's mutex has been released. *)
(* It waits for as long as the other side does not read.                     *)
RouterSend ==
    LET r == router.cl IN
    /\ fault = "none" /\ router.pc = "send"
    /\ IF Dead(r) \/ Closed(cl[r].req) THEN Abort("stalePointer")
       ELSE /\ IF router.msg.type = "ping"
               THEN pings' = [pings EXCEPT ![cl[r].req] = @ + 1] /\ RouterGoto("mark")
               ELSE UNCHANGED pings /\ RouterGoto("free")
            /\ UNCHANGED <<handlerVars, mapVars, queue, pinger, cli, texts, rivals, fault>>

(* cl->ping_sent = 1 *)
RouterMark ==
    /\ fault = "none" /\ router.pc = "mark"
    /\ IF Dead(router.cl) THEN Abort("stalePointer")
       ELSE /\ cl' = [cl EXCEPT ![router.cl].pingSent = TRUE]
            /\ RouterGoto("free")
            /\ UNCHANGED <<registered, pc, auth, mapVars, queue, pinger, cli, envVars, fault>>

(* free(cl): hash_map_find has replaced the malloc'ed pointer by one to the  *)
(* recipient's stack.                                                        *)
RouterFree ==
    /\ fault = "none" /\ router.pc = "free"
    /\ \/ "abort" \in FreeOutcomes /\ Abort("badFree")
       \/ /\ "survive" \in FreeOutcomes
          /\ RouterDrop
          /\ UNCHANGED <<handlerVars, mapVars, queue, pinger, cli, envVars, fault>>

-----------------------------------------------------------------------------
(* handle_client_ping: hash_map_iterate(send_ping), sleep(15),               *)
(* hash_map_iterate(kick_unresponsive)                                       *)
PingerGoto(to) == pinger' = [pinger EXCEPT !.pc = to]

PingerLock ==
    /\ fault = "none" /\ BeginIteration("pinger")
    /\ \/ pinger.pc = "ping" /\ pinger.rounds < MaxRounds /\ PingerGoto("pinging")
       \/ pinger.pc = "kick" /\ PingerGoto("kicking")
    /\ UNCHANGED <<handlerVars, queue, router, cli, envVars, fault>>

PingerUnlock ==
    /\ fault = "none" /\ EndIteration("pinger")
    /\ \/ pinger.pc = "pinging" /\ PingerGoto("kick")
       \/ pinger.pc = "kicking" /\ pinger' = [pc |-> "ping", rounds |-> pinger.rounds + 1]
    /\ UNCHANGED <<handlerVars, queue, router, cli, envVars, fault>>

SendPing ==
    /\ fault = "none" /\ pinger.pc = "pinging" /\ Visiting("pinger")
    /\ IF VisitFault("pinger") # "none" THEN Abort(VisitFault("pinger"))
       ELSE /\ Advance("pinger")
            /\ IF cl[Current("pinger")].isReady
               THEN Push(Message("ping", cl[Current("pinger")].uid)) ELSE UNCHANGED queue
            /\ UNCHANGED <<handlerVars, serviceVars, envVars, fault>>

(* send_quit_signal, sleep(5), hash_map_erase.  The erasure waits for the    *)
(* mutex that this very thread holds: after "kickErase" it has no step.      *)
KickUnresponsive ==
    /\ fault = "none" /\ pinger.pc = "kicking" /\ Visiting("pinger")
    /\ IF VisitFault("pinger") # "none" THEN Abort(VisitFault("pinger"))
       ELSE /\ IF cl[Current("pinger")].isReady /\ cl[Current("pinger")].pingSent
               THEN /\ Push(Message("quit", cl[Current("pinger")].uid))
                    /\ PingerGoto("kickErase")
                    /\ UNCHANGED mapVars
               ELSE Advance("pinger") /\ UNCHANGED <<queue, pinger>>
            /\ UNCHANGED <<handlerVars, router, cli, envVars, fault>>

Stuck == pinger.pc = "kickErase"

-----------------------------------------------------------------------------
(* handle_cli: kick <uid>, kickall, broadcast <text> *)
CliReady == fault = "none" /\ cli.pc = "prompt" /\ cli.done < MaxCommands

CliDone == cli' = [pc |-> "prompt", cl |-> NULL, done |-> cli.done + 1]

(* srv_kick: the map gives it a pointer ... *)
CliKick(u) ==
    /\ CliReady
    /\ AfterWalk(u, /\ IF Found(u)
                       THEN cli' = [cli EXCEPT !.pc = "kick", !.cl = clients[Place(u)]]
                       ELSE CliDone
                    /\ UNCHANGED <<handlerVars, mapVars, queue, router, pinger, envVars, fault>>)

(* ... which send_quit_signal uses after the mutex has been released. *)
CliSendQuit ==
    LET c == cli.cl IN
    /\ fault = "none" /\ cli.pc = "kick"
    /\ IF Dead(c) THEN Abort("stalePointer")
       ELSE IF cl[c].isReady /\ cl[c].uid = Freed THEN Abort("freedUid")
       ELSE /\ CliDone
            /\ IF cl[c].isReady THEN Push(Message("quit", cl[c].uid)) ELSE UNCHANGED queue
            /\ UNCHANGED <<handlerVars, mapVars, router, pinger, envVars, fault>>

(* srv_kick_all, srv_broadcast: the same iteration, with another message *)
CliLock(type) ==
    /\ CliReady /\ BeginIteration("cli")
    /\ cli' = [cli EXCEPT !.pc = type]
    /\ UNCHANGED <<handlerVars, queue, router, pinger, envVars, fault>>

CliVisit ==
    /\ fault = "none" /\ cli.pc \in {"quit", "text"} /\ Visiting("cli")
    /\ IF VisitFault("cli") # "none" THEN Abort(VisitFault("cli"))
       ELSE /\ Advance("cli")
            /\ IF cl[Current("cli")].isReady
               THEN Push(Message(cli.pc, cl[Current("cli")].uid)) ELSE UNCHANGED queue
            /\ UNCHANGED <<handlerVars, serviceVars, envVars, fault>>

CliUnlock ==
    /\ fault = "none" /\ cli.pc \in {"quit", "text"} /\ EndIteration("cli")
    /\ CliDone
    /\ UNCHANGED <<handlerVars, queue, router, pinger, envVars, fault>>

-----------------------------------------------------------------------------
(* What the client at the other end of a connection decides. *)
Client(s) == \/ Accept(s) \/ AbandonLogin(s)
             \/ \E n \in Users : EnterUsername(s, n)
             \/ \E a \in {"y", "n", "other"} : Choose(s, a)
             \/ \E b \in BOOLEAN : Confirm(s, b) \/ Password(s, b)
             \/ ReceiveAck(s) \/ Disconnect(s)
             \/ \E to \in Users \cup {"server"} : ReceiveText(s, to)

(* What the threads do by themselves, at once or when they get the mutex. *)
HandlerRuns(s) == \/ Cleanup(s) \/ Insert(s) \/ AssignId(s) \/ JoinLock(s) \/ JoinVisit(s)
                  \/ JoinDone(s) \/ SetReady(s) \/ EraseEntry(s) \/ Exit(s)

RouterRuns == RouterPop \/ RouterFind \/ RouterMark \/ RouterFree
PingerRuns == PingerLock \/ SendPing \/ KickUnresponsive \/ PingerUnlock
CliRuns == CliSendQuit \/ CliVisit \/ CliUnlock
Command == (\E u \in Users : CliKick(u)) \/ (\E type \in {"quit", "text"} : CliLock(type))

Next == \/ \E s \in Sessions : Client(s) \/ HandlerRuns(s)
        \/ RouterRuns \/ RouterSend \/ PingerRuns \/ CliRuns \/ Command

Spec == Init /\ [][Next]_vars

(* The server's threads run on, and one that waits for the mutex gets it if  *)
(* it is free again and again; nothing is assumed of the clients and of the  *)
(* operator, nor that a client reads what the router sends it.               *)
Fairness == /\ \A s \in Sessions : SF_vars(HandlerRuns(s))
            /\ SF_vars(RouterRuns) /\ SF_vars(PingerRuns) /\ WF_vars(CliRuns)

FairSpec == Spec /\ Fairness

-----------------------------------------------------------------------------
Entries == Range(clients)

(* Handler r has gone on with the dialogue after its user was found online,  *)
(* with cl pointing to that session's record, and has made the record its    *)
(* own or freed its uid.                                                     *)
Astray(r) ==
    LET c == Record(r) IN
    /\ c # r /\ auth[r].attempts > 0
    /\ cl[c].req = r \/ (pc[r] = "refused" /\ cl[c].uid = Freed)

NobodyAstray == \A r \in Sessions : ~Astray(r)

(* A record is in the map only while its handler runs: the map never leads  *)
(* to a dead stack frame, although one handler's exit may take out another's *)
(* entry (server.c:253, 311; hash_map.c:157).  A handler astray breaks this: *)
(* it renames an entry, and who leaves then takes out the wrong one of two.  *)
EntriesLive == NobodyAstray => \A s \in Entries : ~Dead(s) /\ pc[s] # "exit"

(* At most one entry per user, whoever logs in while another session of the *)
(* user is between its online check and its insertion (server_auth.c:276,    *)
(* server.c:253), as long as no handler is astray.                           *)
OneEntryPerUser ==
    NobodyAstray =>
        \A i, j \in 1..Len(clients) : cl[clients[i]].uid = cl[clients[j]].uid => i = j

(* Two handlers never read from the same connection or close the same       *)
(* socket.  A dialogue that has put its connection into another session's   *)
(* record (server_auth.c:276, 402) is served and closed by that session's    *)
(* handler; its own handler must not get as far, and does not, because its   *)
(* own record has no uid (server.c:253, 271, 312; hash_map.c:122).           *)
ConnectionsNotShared ==
    LET Serves == {"loop", "erase", "exit", "gone"}
    IN \A s, r \in Sessions :
          (s # r /\ pc[s] \in Serves /\ pc[r] \in Serves) => cl[s].req # cl[r].req

(* What is sent to a uid goes to a session that logged in as that user, as   *)
(* long as no handler is astray (server.c:378-382).                          *)
DeliveredToAddressee ==
    (NobodyAstray /\ fault = "none" /\ router.pc = "send" /\ ~Dead(router.cl)) =>
        /\ cl[router.cl].uid = router.msg.to
        /\ auth[router.cl].username = router.msg.to
        /\ router.msg.to \in registered

(* However many attempts fail and whatever record they are written to, a uid *)
(* in a record is the uid of a row of the users table (server_auth.c:148-193, *)
(* 317-379).                                                                 *)
AccountsExist == \A s \in Sessions : cl[s].uid \in Users => cl[s].uid \in registered

(* A client whose handler is ready can be found by its uid until it leaves,  *)
(* if no other session of its user has been in the map meanwhile.  If one    *)
(* has (both passed the online check before either was inserted), it may be  *)
(* that the other one is found; but nobody is found only after one of them   *)
(* has left and taken the entry with it (server_auth.c:276, server.c:253,    *)
(* 311), as long as no handler is astray.                                    *)
ReadyReachable ==
    NobodyAstray =>
        \A s \in Sessions : pc[s] = "loop" =>
            /\ s \notin rivals => Found(cl[s].uid) /\ clients[Place(cl[s].uid)] = s
            /\ \/ Found(cl[s].uid)
               \/ \E r \in rivals \ {s} : pc[r] \in {"exit", "gone"} /\ cl[r].uid = cl[s].uid

(* When a client disconnects its handler ends, unless the pinger has locked  *)
(* itself out or the server has failed (server.c:308-314).                   *)
LeavesEventually ==
    \A s \in Sessions : pc[s] = "erase" ~> pc[s] = "gone" \/ Stuck \/ fault # "none"

(* The router works off the queue, with the same exceptions, if every client *)
(* it writes to reads in the end: SSL_write has no timeout (server.c:381).   *)
QueueDrains ==
    ([]<>(router.pc # "send")) => (queue # <<>> ~> queue = <<>> \/ Stuck \/ fault # "none")

-----------------------------------------------------------------------------
(* What the documentation promises and the code does not keep. *)

(* "only one logged instance of a client is allowed" (README.md:98) *)
OneLoginPerUser ==
    \A s, r \in Sessions :
        (pc[s] = "loop" /\ pc[r] = "loop" /\ cl[s].uid = cl[r].uid) => s = r

(* "kick afk" (README.md:129): who is kicked is removed from the map. *)
KickedIsRemoved ==
    \A s \in Sessions :
        Stuck /\ Current("pinger") = s ~> s \notin Entries \/ fault # "none"
=============================================================================
