----------------------------- MODULE ServerProofs -----------------------------
(***************************************************************************)
(* What the run server_login checks for two sessions, for any number of    *)
(* sessions, users and attempts.                                           *)
(***************************************************************************)
EXTENDS Server, TLAPS, SequenceTheorems, WellFoundedInduction

PastAuth == {"assignId", "joinLock", "join", "setReady", "loop", "erase", "exit", "gone"}

Stays == PastAuth \ {"exit", "gone"}

(* All that the router does. *)
Routing == RouterRuns \/ RouterSend

(* The types, with what a handler's point implies for what it will use. *)
HandlerTypes ==
    /\ registered \subseteq Users
    /\ pc \in [Sessions -> HandlerPoints]
    /\ auth \in [Sessions -> [attempts : 0..MaxAttempts, username : Users \cup {NULL},
                              cl : Sessions]]
    /\ cl \in [Sessions -> [uid : Users \cup {Unset, Freed}, req : Sessions,
                            isReady : BOOLEAN, pingSent : BOOLEAN, id : Int]]
    /\ \A s \in Sessions :
          /\ pc[s] \in {"new", "username", "choice", "confirm", "password"} =>
                auth[s].attempts < MaxAttempts
          /\ pc[s] \in {"choice", "confirm", "password"} => auth[s].username \in Users
          /\ pc[s] \in PastAuth => cl[s].uid # Unset
          /\ cl[s].isReady => cl[s].uid # Unset

MapTypes ==
    /\ clients \in Seq(Sessions)
    /\ mutex \in Threads \cup {NULL}
    /\ cursor \in [Threads -> Nat \ {0}]

ServiceTypes ==
    /\ queue \in Seq(Messages)
    /\ router \in [pc : {"pop", "find", "send", "mark", "free"},
                   msg : Messages \cup {NULL}, cl : Sessions \cup {NULL}]
    /\ router.pc # "pop" => router.msg \in Messages
    /\ router.pc \in {"send", "mark", "free"} => router.cl \in Sessions
    /\ pinger \in [pc : {"ping", "pinging", "kick", "kicking", "kickErase"}, rounds : Nat]
    /\ cli \in [pc : {"prompt", "kick", "quit", "text"}, cl : Sessions \cup {NULL}, done : Nat]
    /\ cli.pc = "kick" => cli.cl \in Sessions

EnvTypes ==
    /\ pings \in [Sessions -> Nat] /\ texts \in [Sessions -> 0..MaxTexts]
    /\ rivals \subseteq Sessions
    /\ fault \in Faults

TypeInv == HandlerTypes /\ MapTypes /\ ServiceTypes /\ EnvTypes

-----------------------------------------------------------------------------
(* The walk of the list. *)

LEMMA Least ==
  ASSUME NEW T, T \subseteq Nat, T # {}
  PROVE  \E x \in T : \A y \in T : x <= y
<1> DEFINE R == OpToRel(<, Nat)
<1>1. IsWellFoundedOn(R, Nat)
  BY NatLessThanWellFounded
<1>2. \A x, y \in Nat : x < y => <<x, y>> \in R
  BY DEF OpToRel
<1> HIDE DEF R
<1>3. PICK x \in T : \A y \in T : ~(<<y, x>> \in R)
  BY <1>1, WFMin
<1>4. ASSUME NEW y \in T PROVE x <= y
  <2>1. x \in Nat /\ y \in Nat
    OBVIOUS
  <2>2. ~(y < x)
    BY <1>2, <1>3, <2>1, Zenon
  <2> QED BY <2>1, <2>2
<1> QED BY <1>3, <1>4

(* The walk ends at the first entry with the uid, or behind the last entry. *)
LEMMA WalkEnds ==
  ASSUME MapTypes, NEW u
  PROVE  /\ Place(u) \in 1..(Len(clients) + 1)
         /\ \A j \in 1..(Place(u) - 1) : cl[clients[j]].uid # u
         /\ Place(u) <= Len(clients) => cl[clients[Place(u)]].uid = u
<1>1. Len(clients) \in Nat
  BY DEF MapTypes
<1> DEFINE Stops(i) == /\ \A j \in 1..(i - 1) : cl[clients[j]].uid # u
                       /\ i <= Len(clients) => cl[clients[i]].uid = u
           With == {i \in 1..Len(clients) : cl[clients[i]].uid = u}
<1>2. \E i \in 1..(Len(clients) + 1) : Stops(i)
  <2>1. CASE With = {}
    <3>1. Len(clients) + 1 \in 1..(Len(clients) + 1) /\ Stops(Len(clients) + 1)
      BY <1>1, <2>1
    <3> QED BY <3>1
  <2>2. CASE With # {}
    <3> With \subseteq Nat
      OBVIOUS
    <3> HIDE DEF With
    <3>1. PICK i \in With : \A j \in With : i <= j
      BY <2>2, Least
    <3> USE DEF With
    <3>2. \A j \in 1..(i - 1) : j \in 1..Len(clients) /\ ~(i <= j)
      BY <1>1, <3>1
    <3>3. i \in 1..(Len(clients) + 1) /\ Stops(i)
      BY <1>1, <3>1, <3>2
    <3> QED BY <3>3
  <2> QED BY <2>1, <2>2
<1>3. Place(u) = CHOOSE i \in 1..(Len(clients) + 1) : Stops(i)
  BY DEF Place
<1> HIDE DEF Stops
<1>4. Place(u) \in 1..(Len(clients) + 1) /\ Stops(Place(u))
  BY <1>2, <1>3
<1> QED BY <1>4 DEF Stops

LEMMA FoundEntry ==
  ASSUME MapTypes, NEW u, Found(u)
  PROVE  /\ Place(u) \in 1..Len(clients)
         /\ clients[Place(u)] \in Sessions
         /\ cl[clients[Place(u)]].uid = u
<1>1. Place(u) \in 1..Len(clients) /\ cl[clients[Place(u)]].uid = u
  BY WalkEnds DEF Found, MapTypes
<1> QED BY <1>1 DEF MapTypes

LEMMA Replaced ==
  ASSUME NEW S, NEW list \in Seq(S), NEW p \in 1..Len(list), NEW x \in S
  PROVE  /\ [list EXCEPT ![p] = x] \in Seq(S) /\ Len([list EXCEPT ![p] = x]) = Len(list)
         /\ \A i \in 1..Len(list) : [list EXCEPT ![p] = x][i] = IF i = p THEN x ELSE list[i]
BY ExceptSeq

LEMMA Removed ==
  ASSUME NEW S, NEW list \in Seq(S), NEW p \in 1..Len(list)
  PROVE  /\ RemoveAt(list, p) \in Seq(S) /\ Len(RemoveAt(list, p)) = Len(list) - 1
         /\ \A i \in 1..(Len(list) - 1) : RemoveAt(list, p)[i] =
              IF i < p THEN list[i] ELSE list[i + 1]
<1> DEFINE a == RemoveAt(list, p)
           front == SubSeq(list, 1, p - 1)
           back == SubSeq(list, p + 1, Len(list))
<1>1. Len(list) \in Nat /\ p \in Nat
  OBVIOUS
<1>2. front \in Seq(S) /\ Len(front) = p - 1 /\ \A i \in 1..(p - 1) : front[i] = list[i]
  BY <1>1, SubSeqProperties
<1>3. /\ back \in Seq(S) /\ Len(back) = Len(list) - p
      /\ \A i \in 1..(Len(list) - p) : back[i] = list[p + i]
  BY <1>1, SubSeqProperties
<1>4. a = front \o back
  BY DEF RemoveAt
<1> HIDE DEF a, front, back
<1>5. a \in Seq(S) /\ Len(a) = Len(list) - 1
  <2>1. a \in Seq(S) /\ Len(a) = Len(front) + Len(back)
    BY <1>2, <1>3, <1>4, ConcatProperties
  <2> QED BY <1>1, <1>2, <1>3, <2>1
<1>6. ASSUME NEW i \in 1..(Len(list) - 1) PROVE a[i] = IF i < p THEN list[i] ELSE list[i + 1]
  <2>1. a[i] = IF i <= Len(front) THEN front[i] ELSE back[i - Len(front)]
    <3>1. i \in 1..(Len(front) + Len(back))
      BY <1>1, <1>2, <1>3
    <3>2. (front \o back)[i] = IF i <= Len(front) THEN front[i] ELSE back[i - Len(front)]
      BY <1>2, <1>3, <3>1, ConcatProperties
    <3> QED BY <1>4, <3>2
  <2>2. CASE i < p
    BY <1>1, <1>2, <2>1, <2>2
  <2>3. CASE i >= p
    <3>1. i - (p - 1) \in 1..(Len(list) - p) /\ p + (i - (p - 1)) = i + 1
      BY <1>1, <2>3
    <3> QED BY <1>1, <1>2, <1>3, <2>1, <2>3, <3>1
  <2> QED BY <1>1, <2>2, <2>3
<1> QED BY <1>5, <1>6 DEF a

-----------------------------------------------------------------------------
(* The types of the handlers. *)

LEMMA PointTypes ==
  ASSUME HandlerTypes, NEW s \in Sessions, NEW to \in HandlerPoints, Goto(s, to),
         UNCHANGED <<registered, auth, cl>>,
         to \in {"new", "username", "choice", "confirm", "password"} =>
           auth[s].attempts < MaxAttempts,
         to \in {"choice", "confirm", "password"} => auth[s].username \in Users,
         to \in PastAuth => cl[s].uid # Unset
  PROVE  HandlerTypes'
BY DEF HandlerTypes, Goto

LEMMA AnswerTypes ==
  ASSUME HandlerTypes, NEW s \in Sessions, NEW to \in HandlerPoints \ PastAuth, Goto(s, to),
         NEW a \in [attempts : 0..MaxAttempts, username : Users \cup {NULL}, cl : Sessions],
         auth' = [auth EXCEPT ![s] = a], UNCHANGED <<registered, cl>>,
         to \in {"new", "username", "choice", "confirm", "password"} => a.attempts < MaxAttempts,
         to \in {"choice", "confirm", "password"} => a.username \in Users
  PROVE  HandlerTypes'
BY DEF HandlerTypes, Goto

LEMMA AttemptTypes ==
  ASSUME HandlerTypes, NEW s \in Sessions, NEW a, NextAttempt(s, a), UNCHANGED <<registered, cl>>,
         a \in [attempts : 0..MaxAttempts, username : Users \cup {NULL}, cl : Sessions],
         a.attempts < MaxAttempts
  PROVE  HandlerTypes'
<1> DEFINE b == [a EXCEPT !.attempts = @ + 1]
           to == IF a.attempts + 1 = MaxAttempts THEN "cleanup" ELSE "username"
<1>1. MaxAttempts \in Nat
  BY ServerAssumption DEF ServerAssumption
<1>2. b \in [attempts : 0..MaxAttempts, username : Users \cup {NULL}, cl : Sessions]
  BY <1>1
<1>3. to \in HandlerPoints \ PastAuth /\ (to = "username" => b.attempts < MaxAttempts)
  BY <1>1 DEF HandlerPoints, PastAuth
<1>4. auth' = [auth EXCEPT ![s] = b] /\ Goto(s, to)
      /\ to \notin {"new", "choice", "confirm", "password"}
  BY DEF NextAttempt
<1> HIDE DEF b, to
<1> QED BY <1>2, <1>3, <1>4, AnswerTypes

LEMMA RecordTypes ==
  ASSUME HandlerTypes, NEW s \in Sessions, NEW to \in HandlerPoints, Goto(s, to),
         UNCHANGED auth, registered' \subseteq Users,
         cl' \in [Sessions -> [uid : Users \cup {Unset, Freed}, req : Sessions,
                               isReady : BOOLEAN, pingSent : BOOLEAN, id : Int]],
         \A r \in Sessions : /\ cl[r].uid # Unset => cl'[r].uid # Unset
                             /\ cl'[r].isReady => cl[r].isReady \/ cl[r].uid # Unset,
         to \notin {"new", "username", "choice", "confirm", "password"},
         to \in PastAuth => cl[s].uid # Unset
  PROVE  HandlerTypes'
BY DEF HandlerTypes, Goto

LEMMA PastPoints == PastAuth \subseteq HandlerPoints
BY DEF PastAuth, HandlerPoints

LEMMA RecordPointer ==
  ASSUME HandlerTypes, NEW s \in Sessions
  PROVE  Record(s) \in Sessions
BY DEF HandlerTypes, Record

LEMMA AbortKeeps ==
  ASSUME NEW what, Abort(what)
  PROVE  UNCHANGED <<registered, pc, auth, cl, clients, mutex, cursor, queue, router, pinger, cli,
                     pings, texts, rivals>>
BY DEF Abort, handlerVars, mapVars, serviceVars, envVars

LEMMA DialogueTypes ==
  ASSUME TypeInv, NEW s \in Sessions,
         \/ Accept(s) \/ AbandonLogin(s)
         \/ \E n \in Users : EnterUsername(s, n)
         \/ \E a \in {"y", "n", "other"} : Choose(s, a)
  PROVE  HandlerTypes'
<1> USE DEF TypeInv
<1>1. auth[s] \in [attempts : 0..MaxAttempts, username : Users \cup {NULL}, cl : Sessions]
  BY DEF HandlerTypes
<1>2. CASE Accept(s)
  <2>1. auth[s].attempts < MaxAttempts
    BY <1>2 DEF Accept, At, HandlerTypes
  <2> QED BY <1>2, <2>1, PointTypes DEF Accept, HandlerPoints, PastAuth
<1>3. CASE AbandonLogin(s)
  BY <1>3, PointTypes DEF AbandonLogin, HandlerPoints, PastAuth
<1>4. ASSUME NEW n \in Users, EnterUsername(s, n) PROVE HandlerTypes'
  <2> DEFINE a == Named(s, n)
  <2>1. /\ a \in [attempts : 0..MaxAttempts, username : Users \cup {NULL}, cl : Sessions]
        /\ a.attempts < MaxAttempts /\ a.username = n
    BY <1>1, <1>4 DEF EnterUsername, At, HandlerTypes, Named
  <2>2. UNCHANGED <<registered, cl>>
    BY <1>4 DEF EnterUsername
  <2>3. CASE auth' = [auth EXCEPT ![s] = a] /\ (Goto(s, "choice") \/ Goto(s, "password"))
    <3> HIDE DEF a
    <3> QED BY <2>1, <2>2, <2>3, AnswerTypes DEF HandlerPoints, PastAuth
  <2>4. CASE NextAttempt(s, a)
    <3> HIDE DEF a
    <3> QED BY <2>1, <2>2, <2>4, AttemptTypes
  <2>5. CASE Found(n) /\ NextAttempt(s, [a EXCEPT !.cl = clients[Place(n)]])
    <3> DEFINE b == [a EXCEPT !.cl = clients[Place(n)]]
    <3>1. clients[Place(n)] \in Sessions
      BY <2>5, FoundEntry
    <3>2. /\ b \in [attempts : 0..MaxAttempts, username : Users \cup {NULL}, cl : Sessions]
          /\ b.attempts < MaxAttempts
      <4> HIDE DEF a
      <4> QED BY <2>1, <3>1
    <3> HIDE DEF b
    <3> QED BY <2>2, <2>5, <3>2, AttemptTypes DEF b
  <2>6. CASE UNCHANGED <<pc, auth>>
    BY <2>2, <2>6 DEF HandlerTypes
  <2> QED BY <1>4, <2>3, <2>4, <2>5, <2>6, AbortKeeps DEF EnterUsername, CheckOnline, AfterWalk
<1>5. ASSUME NEW a, Choose(s, a) PROVE HandlerTypes'
  <2>1. auth[s].attempts < MaxAttempts /\ auth[s].username \in Users
    BY <1>5 DEF Choose, At, HandlerTypes
  <2>2. UNCHANGED <<registered, cl>>
    BY <1>5 DEF Choose
  <2>3. CASE Goto(s, "confirm") /\ UNCHANGED auth
    BY <2>1, <2>2, <2>3, PointTypes DEF HandlerPoints, PastAuth
  <2>4. CASE NextAttempt(s, auth[s])
    BY <1>1, <2>1, <2>2, <2>4, AttemptTypes
  <2>5. CASE Goto(s, "cleanup") /\ UNCHANGED auth
    BY <2>2, <2>5, PointTypes DEF HandlerPoints, PastAuth
  <2> QED BY <1>5, <2>3, <2>4, <2>5 DEF Choose
<1> QED BY <1>2, <1>3, <1>4, <1>5

(* What user_auth writes to a record. *)
LEMMA LoginTypes ==
  ASSUME HandlerTypes, NEW s \in Sessions, auth[s].username \in Users
  PROVE  /\ LogIn(s) \in [Sessions -> [uid : Users \cup {Unset, Freed}, req : Sessions,
                                       isReady : BOOLEAN, pingSent : BOOLEAN, id : Int]]
         /\ \A r \in Sessions :
               /\ LogIn(s)[r].uid = IF r = Record(s) THEN auth[s].username ELSE cl[r].uid
               /\ LogIn(s)[r].req = IF r = Record(s) THEN s ELSE cl[r].req
               /\ LogIn(s)[r].isReady => cl[r].isReady
<1> DEFINE c == Record(s)
           rec == [uid : Users \cup {Unset, Freed}, req : Sessions, isReady : BOOLEAN,
                   pingSent : BOOLEAN, id : Int]
           new == [cl[c] EXCEPT !.uid = auth[s].username, !.req = s]
<1>1. c \in Sessions /\ cl \in [Sessions -> rec]
  BY RecordPointer DEF HandlerTypes
<1>2. LogIn(s) = [cl EXCEPT ![c] = new]
  BY <1>1 DEF LogIn
<1>3. /\ new \in rec /\ new.uid = auth[s].username /\ new.req = s
      /\ new.isReady => cl[c].isReady
  <2>1. cl[c] \in rec /\ auth[s].username \in Users
    BY <1>1
  <2>2. new.uid = auth[s].username /\ new.req = s
    BY <2>1
  <2>3. new.isReady => cl[c].isReady
    BY <2>1
  <2>4. new \in rec
    BY <2>1
  <2> QED BY <2>2, <2>3, <2>4
<1> HIDE DEF c, rec, new
<1>4. /\ [cl EXCEPT ![c] = new] \in [Sessions -> rec]
      /\ \A r \in Sessions : [cl EXCEPT ![c] = new][r] = IF r = c THEN new ELSE cl[r]
  BY <1>1, <1>3
<1> QED BY <1>2, <1>3, <1>4 DEF c, rec

WithUid(c, u) == [cl EXCEPT ![c].uid = u]

LEMMA UidTypes ==
  ASSUME HandlerTypes, NEW c \in Sessions, NEW u \in Users \cup {Unset, Freed}
  PROVE  /\ WithUid(c, u) \in [Sessions -> [uid : Users \cup {Unset, Freed}, req : Sessions,
                                            isReady : BOOLEAN, pingSent : BOOLEAN, id : Int]]
         /\ \A r \in Sessions : /\ WithUid(c, u)[r].uid = IF r = c THEN u ELSE cl[r].uid
                                /\ WithUid(c, u)[r].req = cl[r].req
                                /\ WithUid(c, u)[r].isReady => cl[r].isReady
BY DEF HandlerTypes, WithUid

LEMMA NamesAreSet == Unset \notin Users /\ Freed \notin Users /\ Unset # Freed
BY ServerAssumption DEF ServerAssumption, Unset, Freed

LEMMA LoginStepTypes ==
  ASSUME TypeInv, NEW s \in Sessions,
         (\E b \in BOOLEAN : Confirm(s, b) \/ Password(s, b)) \/ Cleanup(s)
  PROVE  HandlerTypes'
<1> USE DEF TypeInv
<1>1. auth[s] \in [attempts : 0..MaxAttempts, username : Users \cup {NULL}, cl : Sessions]
  BY DEF HandlerTypes
<1>2. registered \subseteq Users /\ "insert" \in HandlerPoints /\ "cleanup" \in HandlerPoints
  BY DEF HandlerTypes, HandlerPoints
<1>3. CASE NextAttempt(s, auth[s]) /\ UNCHANGED <<registered, cl>> /\ auth[s].attempts < MaxAttempts
  BY <1>1, <1>3, AttemptTypes
<1>4. CASE /\ cl' = LogIn(s) /\ Goto(s, "insert") /\ UNCHANGED auth
           /\ registered' \subseteq Users /\ auth[s].username \in Users
  BY <1>2, <1>4, LoginTypes, RecordTypes, NamesAreSet DEF PastAuth
<1>5. ASSUME NEW b, Confirm(s, b) PROVE HandlerTypes'
  <2>1. auth[s].attempts < MaxAttempts /\ auth[s].username \in Users
    BY <1>5 DEF Confirm, At, HandlerTypes
  <2>2. CASE /\ cl' = [cl EXCEPT ![Record(s)].uid = auth[s].username]
             /\ Goto(s, "cleanup") /\ UNCHANGED <<registered, auth>>
    <3> DEFINE u == auth[s].username
    <3>1. Record(s) \in Sessions /\ u \in Users \cup {Unset, Freed} /\ u # Unset
      BY <2>1, RecordPointer, NamesAreSet
    <3>2. /\ cl' \in [Sessions -> [uid : Users \cup {Unset, Freed}, req : Sessions,
                                    isReady : BOOLEAN, pingSent : BOOLEAN, id : Int]]
          /\ \A r \in Sessions : /\ cl[r].uid # Unset => cl'[r].uid # Unset
                                 /\ cl'[r].isReady => cl[r].isReady
      <4>1. cl' = WithUid(Record(s), u)
        BY <2>2 DEF WithUid
      <4> HIDE DEF u
      <4> QED BY <3>1, <4>1, UidTypes
    <3> QED BY <1>2, <2>2, <3>2, RecordTypes DEF PastAuth
  <2> QED BY <1>2, <1>3, <1>4, <1>5, <2>1, <2>2 DEF Confirm
<1>6. ASSUME NEW b, Password(s, b) PROVE HandlerTypes'
  <2>1. auth[s].attempts < MaxAttempts /\ auth[s].username \in Users
    BY <1>6 DEF Password, At, HandlerTypes
  <2>2. CASE UNCHANGED <<registered, pc, auth, cl>>
    BY <2>2 DEF HandlerTypes
  <2> QED BY <1>2, <1>3, <1>4, <1>6, <2>1, <2>2 DEF Password
<1>7. CASE Cleanup(s)
  <2>1. CASE UNCHANGED <<registered, pc, auth, cl>>
    BY <2>1 DEF HandlerTypes
  <2>2. ASSUME cl' = [cl EXCEPT ![Record(s)].uid = IF cl[Record(s)].uid = Unset
                 THEN Unset ELSE Freed],
               Goto(s, "refused"), UNCHANGED <<registered, auth>>
        PROVE  HandlerTypes'
    <3> DEFINE u == IF cl[Record(s)].uid = Unset THEN Unset ELSE Freed
    <3>1. u \in Users \cup {Unset, Freed} /\ (cl[Record(s)].uid # Unset => u # Unset)
      BY NamesAreSet
    <3>2. "refused" \in HandlerPoints /\ "refused" \notin PastAuth
      BY DEF HandlerPoints, PastAuth
    <3>3. cl' = WithUid(Record(s), u)
      BY <2>2 DEF WithUid
    <3> HIDE DEF u
    <3>4. /\ cl' \in [Sessions -> [uid : Users \cup {Unset, Freed}, req : Sessions,
                                    isReady : BOOLEAN, pingSent : BOOLEAN, id : Int]]
          /\ \A r \in Sessions : /\ cl[r].uid # Unset => cl'[r].uid # Unset
                                 /\ cl'[r].isReady => cl[r].isReady
      BY <3>1, <3>3, UidTypes, RecordPointer
    <3> QED BY <1>2, <2>2, <3>2, <3>4, RecordTypes DEF PastAuth
  <2> QED BY <1>7, <2>1, <2>2, AbortKeeps DEF Cleanup
<1> QED BY <1>5, <1>6, <1>7

LEMMA RunTypes ==
  ASSUME TypeInv, NEW s \in Sessions,
         \/ Insert(s) \/ AssignId(s) \/ JoinLock(s) \/ JoinVisit(s) \/ JoinDone(s) \/ SetReady(s)
         \/ ReceiveAck(s) \/ Disconnect(s) \/ EraseEntry(s) \/ Exit(s)
         \/ \E to \in Users \cup {"server"} : ReceiveText(s, to)
  PROVE  HandlerTypes'
<1> USE DEF TypeInv
<1>1. pc[s] \in HandlerPoints /\ (pc[s] \in PastAuth => cl[s].uid # Unset)
  BY DEF HandlerTypes
<1>2. CASE UNCHANGED <<registered, pc, auth, cl>>
  BY <1>2 DEF HandlerTypes
<1>3. ASSUME NEW to \in PastAuth, Goto(s, to), UNCHANGED <<registered, auth, cl>>, cl[s].uid # Unset
      PROVE  HandlerTypes'
  BY <1>3, PointTypes, PastPoints DEF PastAuth
<1>4. CASE Insert(s)
  <2>1. CASE Goto(s, "refused") /\ UNCHANGED <<registered, auth, cl>>
    BY <2>1, PointTypes DEF HandlerPoints, PastAuth
  <2>2. CASE cl[s].uid # Unset /\ Goto(s, "assignId") /\ UNCHANGED <<registered, auth, cl>>
    BY <1>3, <2>2 DEF PastAuth
  <2> QED BY <1>2, <1>4, <2>1, <2>2, AbortKeeps DEF Insert, Insertion, AfterWalk
<1>5. CASE AssignId(s)
  <2>1. Goto(s, "joinLock") /\ UNCHANGED <<registered, auth>> /\ cl[s].uid # Unset
    BY <1>1, <1>5 DEF AssignId, At, PastAuth
  <2>2. /\ cl' \in [Sessions -> [uid : Users \cup {Unset, Freed}, req : Sessions,
                                 isReady : BOOLEAN, pingSent : BOOLEAN, id : Int]]
        /\ \A r \in Sessions : cl'[r].uid = cl[r].uid /\ cl'[r].isReady = cl[r].isReady
    <3>1. Len(clients) - 1 \in Int
      BY DEF MapTypes
    <3> QED BY <1>5, <3>1 DEF AssignId, HandlerTypes
  <2>3. "joinLock" \in PastAuth /\ registered \subseteq Users
    BY DEF PastAuth, HandlerTypes
  <2> QED BY <2>1, <2>2, <2>3, RecordTypes, PastPoints DEF PastAuth
<1>6. CASE SetReady(s)
  <2>1. Goto(s, "loop") /\ UNCHANGED <<registered, auth>> /\ cl[s].uid # Unset
    BY <1>1, <1>6 DEF SetReady, At, PastAuth
  <2>2. /\ cl' \in [Sessions -> [uid : Users \cup {Unset, Freed}, req : Sessions,
                                 isReady : BOOLEAN, pingSent : BOOLEAN, id : Int]]
        /\ \A r \in Sessions : cl'[r].uid = cl[r].uid /\ (r # s => cl'[r].isReady = cl[r].isReady)
    BY <1>6 DEF SetReady, HandlerTypes
  <2>3. "loop" \in PastAuth /\ registered \subseteq Users
    BY DEF PastAuth, HandlerTypes
  <2> QED BY <2>1, <2>2, <2>3, RecordTypes, PastPoints DEF PastAuth
<1>7. CASE ReceiveAck(s)
  <2>1. ASSUME cl' = [cl EXCEPT ![s].pingSent = FALSE], UNCHANGED <<registered, pc, auth>>
        PROVE  HandlerTypes'
    <3>1. cl' \in [Sessions -> [uid : Users \cup {Unset, Freed}, req : Sessions,
                                isReady : BOOLEAN, pingSent : BOOLEAN, id : Int]]
      BY <2>1 DEF HandlerTypes
    <3>2. \A r \in Sessions : cl'[r].uid = cl[r].uid /\ (cl'[r].isReady => cl[r].isReady)
      BY <2>1 DEF HandlerTypes
    <3> QED BY <2>1, <3>1, <3>2 DEF HandlerTypes
  <2> QED BY <1>2, <1>7, <2>1, AbortKeeps DEF ReceiveAck, Reads
<1>8. ASSUME NEW to, ReceiveText(s, to) PROVE HandlerTypes'
  BY <1>2, <1>8, AbortKeeps DEF ReceiveText, Reads, handlerVars
<1>9. CASE JoinLock(s) \/ JoinDone(s) \/ Disconnect(s) \/ Exit(s)
  <2>1. pc[s] \in PastAuth
    BY <1>9 DEF JoinLock, JoinDone, Disconnect, Exit, At, PastAuth
  <2> QED BY <1>1, <1>2, <1>3, <1>9, <2>1, AbortKeeps
          DEF JoinLock, JoinDone, Disconnect, Exit, Reads, PastAuth
<1>10. CASE JoinVisit(s)
  BY <1>2, <1>10, AbortKeeps DEF JoinVisit, handlerVars
<1>11. CASE EraseEntry(s)
  <2>1. pc[s] \in PastAuth
    BY <1>11 DEF EraseEntry, At, PastAuth
  <2> QED BY <1>1, <1>2, <1>3, <1>11, <2>1, AbortKeeps DEF EraseEntry, AfterWalk, PastAuth
<1> QED BY <1>4, <1>5, <1>6, <1>7, <1>8, <1>9, <1>10, <1>11

LEMMA MarkTypes == TypeInv /\ RouterMark => HandlerTypes'
<1> SUFFICES ASSUME TypeInv, RouterMark PROVE HandlerTypes'
  OBVIOUS
<1>1. CASE UNCHANGED <<registered, pc, auth, cl>>
  BY <1>1 DEF TypeInv, HandlerTypes
<1>2. ASSUME cl' = [cl EXCEPT ![router.cl].pingSent = TRUE], UNCHANGED <<registered, pc, auth>>
      PROVE  HandlerTypes'
  <2>1. router.cl \in Sessions
    BY DEF RouterMark, TypeInv, ServiceTypes
  <2>2. cl' \in [Sessions -> [uid : Users \cup {Unset, Freed}, req : Sessions,
                              isReady : BOOLEAN, pingSent : BOOLEAN, id : Int]]
    BY <1>2, <2>1 DEF TypeInv, HandlerTypes
  <2>3. \A r \in Sessions : cl'[r].uid = cl[r].uid /\ (cl'[r].isReady => cl[r].isReady)
    BY <1>2, <2>1 DEF TypeInv, HandlerTypes
  <2> QED BY <1>2, <2>2, <2>3 DEF TypeInv, HandlerTypes
<1> QED BY <1>1, <1>2, AbortKeeps DEF RouterMark

(* The steps of the services, but for the router's mark in a record. *)
ServiceRuns == \/ RouterPop \/ RouterFind \/ RouterSend \/ RouterFree
               \/ PingerRuns \/ CliRuns \/ Command

LEMMA ServicesLeaveHandlers == ServiceRuns => UNCHANGED <<registered, pc, auth, cl>>
<1>1. RouterPop \/ RouterFind \/ RouterSend \/ RouterFree => UNCHANGED <<registered, pc, auth, cl>>
  BY AbortKeeps DEF RouterPop, RouterFind, RouterSend, RouterFree, AfterWalk, handlerVars
<1>2. PingerRuns => UNCHANGED <<registered, pc, auth, cl>>
  BY AbortKeeps
     DEF PingerRuns, PingerLock, PingerUnlock, SendPing, KickUnresponsive, handlerVars
<1>3. CliRuns => UNCHANGED <<registered, pc, auth, cl>>
  BY AbortKeeps DEF CliRuns, CliSendQuit, CliVisit, CliUnlock, handlerVars
<1>4. Command => UNCHANGED <<registered, pc, auth, cl>>
  BY AbortKeeps DEF Command, CliKick, CliLock, AfterWalk, handlerVars
<1> QED BY <1>1, <1>2, <1>3, <1>4 DEF ServiceRuns

LEMMA HandlerStep == TypeInv /\ [Next]_vars => HandlerTypes'
<1> SUFFICES ASSUME TypeInv, [Next]_vars PROVE HandlerTypes'
  OBVIOUS
<1>1. ASSUME UNCHANGED <<registered, pc, auth, cl>> PROVE HandlerTypes'
  BY <1>1 DEF TypeInv, HandlerTypes
<1>2. ASSUME NEW s \in Sessions, Client(s) \/ HandlerRuns(s) PROVE HandlerTypes'
  BY <1>2, DialogueTypes, LoginStepTypes, RunTypes DEF Client, HandlerRuns
<1>3. CASE RouterMark
  BY <1>3, MarkTypes
<1>4. CASE ServiceRuns
  BY <1>1, <1>4, ServicesLeaveHandlers
<1>5. CASE UNCHANGED vars
  BY <1>1, <1>5 DEF vars, handlerVars
<1> QED BY <1>2, <1>3, <1>4, <1>5 DEF Next, Routing, RouterRuns, ServiceRuns

-----------------------------------------------------------------------------
(* The types of the map. *)

LEMMA IterationTypes ==
  ASSUME MapTypes, NEW t \in Threads,
         BeginIteration(t) \/ Advance(t) \/ EndIteration(t)
  PROVE  MapTypes'
BY DEF MapTypes, BeginIteration, Advance, EndIteration

LEMMA InsertTypes == TypeInv => \A s \in Sessions : Insert(s) => MapTypes'
<1> SUFFICES ASSUME TypeInv, NEW s \in Sessions, Insert(s) PROVE MapTypes'
  OBVIOUS
<1> DEFINE u == cl[s].uid
           list == IF Found(u) THEN [clients EXCEPT ![Place(u)] = s] ELSE Append(clients, s)
<1>1. MapTypes
  BY DEF TypeInv
<1>2. CASE UNCHANGED <<clients, mutex, cursor>>
  BY <1>1, <1>2 DEF MapTypes
<1>3. CASE clients' = list /\ UNCHANGED <<mutex, cursor>>
  <2>1. list \in Seq(Sessions)
    BY <1>1, FoundEntry, Replaced DEF MapTypes
  <2> HIDE DEF list
  <2> QED BY <1>1, <1>3, <2>1 DEF MapTypes
<1> QED BY <1>2, <1>3, AbortKeeps DEF Insert, Insertion, AfterWalk, mapVars

LEMMA EraseTypes == TypeInv => \A s \in Sessions : EraseEntry(s) => MapTypes'
<1> SUFFICES ASSUME TypeInv, NEW s \in Sessions, EraseEntry(s) PROVE MapTypes'
  OBVIOUS
<1> DEFINE u == cl[s].uid
           list == IF Found(u) THEN RemoveAt(clients, Place(u)) ELSE clients
<1>1. MapTypes
  BY DEF TypeInv
<1>2. CASE UNCHANGED <<clients, mutex, cursor>>
  BY <1>1, <1>2 DEF MapTypes
<1>3. CASE clients' = list /\ UNCHANGED <<mutex, cursor>>
  <2>1. list \in Seq(Sessions)
    BY <1>1, FoundEntry, Removed DEF MapTypes
  <2> HIDE DEF list
  <2> QED BY <1>1, <1>3, <2>1 DEF MapTypes
<1> QED BY <1>2, <1>3, AbortKeeps DEF EraseEntry, AfterWalk

LEMMA MapStep == TypeInv /\ [Next]_vars => MapTypes'
<1> SUFFICES ASSUME TypeInv, [Next]_vars PROVE MapTypes'
  OBVIOUS
<1> USE DEF TypeInv, Threads, Others
<1>1. ASSUME UNCHANGED <<clients, mutex, cursor>> PROVE MapTypes'
  BY <1>1 DEF MapTypes
<1>2. ASSUME NEW s \in Sessions, Client(s) PROVE MapTypes'
  <2>1. UNCHANGED <<clients, mutex, cursor>>
    BY <1>2, AbortKeeps
       DEF Client, Accept, AbandonLogin, EnterUsername, Choose, Confirm, Password, ReceiveAck,
           Disconnect, ReceiveText, Reads, mapVars
  <2> QED BY <1>1, <2>1
<1>3. ASSUME NEW s \in Sessions, HandlerRuns(s) PROVE MapTypes'
  <2>1. CASE Cleanup(s) \/ AssignId(s) \/ SetReady(s) \/ Exit(s)
    <3>1. UNCHANGED <<clients, mutex, cursor>>
      BY <2>1, AbortKeeps DEF Cleanup, AssignId, SetReady, Exit, Reads, mapVars
    <3> QED BY <1>1, <3>1
  <2>2. CASE JoinLock(s) \/ JoinVisit(s) \/ JoinDone(s)
    BY <1>1, <2>2, IterationTypes, AbortKeeps DEF JoinLock, JoinVisit, JoinDone
  <2> QED BY <1>3, <2>1, <2>2, InsertTypes, EraseTypes DEF HandlerRuns
<1>4. CASE Routing
  <2>1. UNCHANGED <<clients, mutex, cursor>>
    BY <1>4, AbortKeeps
       DEF Routing, RouterRuns, RouterPop, RouterFind, RouterSend, RouterMark, RouterFree,
           AfterWalk, mapVars
  <2> QED BY <1>1, <2>1
<1>5. CASE PingerRuns
  BY <1>1, <1>5, IterationTypes, AbortKeeps
     DEF PingerRuns, PingerLock, SendPing, KickUnresponsive, PingerUnlock, mapVars
<1>6. CASE CliRuns \/ Command
  BY <1>1, <1>6, IterationTypes, AbortKeeps
     DEF CliRuns, CliSendQuit, CliVisit, CliUnlock, Command, CliKick, CliLock, AfterWalk, mapVars
<1>7. CASE UNCHANGED vars
  BY <1>1, <1>7 DEF vars, mapVars
<1> QED BY <1>2, <1>3, <1>4, <1>5, <1>6, <1>7 DEF Next, Routing

-----------------------------------------------------------------------------
(* The types of the services and the queue. *)

LEMMA PushTypes ==
  ASSUME queue \in Seq(Messages), NEW m \in Messages, Push(m)
  PROVE  queue' \in Seq(Messages)
BY DEF Push

(* What an iteration reads has a user's uid, if it is ready. *)
LEMMA VisitedUid ==
  ASSUME TypeInv, NEW t \in Threads, Visiting(t), VisitFault(t) = "none"
  PROVE  /\ Current(t) \in Sessions
         /\ cl[Current(t)].isReady => cl[Current(t)].uid \in Users
<1>1. cursor[t] \in 1..Len(clients)
  BY DEF TypeInv, MapTypes, Visiting
<1>2. Current(t) \in Sessions
  BY <1>1 DEF TypeInv, MapTypes, Current
<1>3. ASSUME cl[Current(t)].isReady PROVE cl[Current(t)].uid \in Users
  <2>1. cl[Current(t)].uid # Unset /\ cl[Current(t)].uid \in Users \cup {Unset, Freed}
    BY <1>2, <1>3 DEF TypeInv, HandlerTypes
  <2>2. cl[Current(t)].uid # Freed
    BY <1>3 DEF VisitFault
  <2> QED BY <2>1, <2>2
<1> QED BY <1>2, <1>3

LEMMA UserMessage ==
  ASSUME NEW type \in MessageTypes, NEW to \in Users \cup {"server"}
  PROVE  Message(type, to) \in Messages
BY DEF Message, Messages

LEMMA OneMorePush ==
  ASSUME ServiceTypes, queue' \in Seq(Messages), UNCHANGED <<router, pinger, cli>>
  PROVE  ServiceTypes'
BY DEF ServiceTypes

LEMMA SessionServices ==
  ASSUME TypeInv, NEW s \in Sessions, Client(s) \/ HandlerRuns(s)
  PROVE  ServiceTypes'
<1>1. ServiceTypes /\ queue \in Seq(Messages)
  BY DEF TypeInv, ServiceTypes
<1>2. ASSUME UNCHANGED <<queue, router, pinger, cli>> PROVE ServiceTypes'
  BY <1>1, <1>2 DEF ServiceTypes
<1>3. ASSUME NEW to \in Users \cup {"server"}, ReceiveText(s, to) PROVE ServiceTypes'
  <2>1. CASE Push(Message("text", to)) /\ UNCHANGED <<router, pinger, cli>>
    BY <1>1, <2>1, UserMessage, PushTypes, OneMorePush DEF MessageTypes
  <2> QED BY <1>2, <1>3, <2>1, AbortKeeps DEF ReceiveText, Reads, serviceVars
<1>4. CASE JoinVisit(s)
  <2>1. CASE UNCHANGED <<queue, router, pinger, cli>>
    BY <1>2, <2>1
  <2>2. ASSUME Visiting(s), VisitFault(s) = "none", cl[Current(s)].isReady,
               Push(Message("join", cl[Current(s)].uid)), UNCHANGED <<router, pinger, cli>>
        PROVE  ServiceTypes'
    BY <1>1, <2>2, VisitedUid, UserMessage, PushTypes, OneMorePush DEF MessageTypes, Threads
  <2> QED BY <1>4, <2>1, <2>2, AbortKeeps DEF JoinVisit, serviceVars
<1>5. CASE HandlerRuns(s) /\ ~JoinVisit(s)
  <2>1. UNCHANGED <<queue, router, pinger, cli>>
    BY <1>5, AbortKeeps
       DEF HandlerRuns, Cleanup, Insert, Insertion, AssignId, JoinLock, JoinDone, SetReady,
           EraseEntry, Exit, AfterWalk, Reads, serviceVars
  <2> QED BY <1>2, <2>1
<1>6. CASE /\ ~\E to \in Users \cup {"server"} : ReceiveText(s, to)
           /\ Client(s)
  <2>1. UNCHANGED <<queue, router, pinger, cli>>
    BY <1>6, AbortKeeps
       DEF Client, Accept, AbandonLogin, EnterUsername, Choose, Confirm, Password, ReceiveAck,
           Disconnect, Reads, serviceVars
  <2> QED BY <1>2, <2>1
<1> QED BY <1>3, <1>4, <1>5, <1>6

LEMMA RouterServices == TypeInv /\ Routing => ServiceTypes'
<1> SUFFICES ASSUME TypeInv, Routing PROVE ServiceTypes'
  OBVIOUS
<1>1. ServiceTypes
  BY DEF TypeInv
<1>2. ASSUME UNCHANGED <<queue, router, pinger, cli>> PROVE ServiceTypes'
  BY <1>1, <1>2 DEF ServiceTypes
<1>3. ASSUME RouterDrop, UNCHANGED <<queue, pinger, cli>> PROVE ServiceTypes'
  BY <1>1, <1>3 DEF ServiceTypes, RouterDrop
<1>4. ASSUME NEW to \in {"mark", "free"}, router.pc \in {"send", "mark"}, RouterGoto(to),
             UNCHANGED <<queue, pinger, cli>>
      PROVE  ServiceTypes'
  BY <1>1, <1>4 DEF ServiceTypes, RouterGoto
<1>5. CASE RouterPop
  <2>1. Head(queue) \in Messages /\ Tail(queue) \in Seq(Messages)
    BY <1>1, <1>5 DEF ServiceTypes, RouterPop
  <2> QED BY <1>1, <1>5, <2>1 DEF ServiceTypes, RouterPop
<1>6. CASE RouterFind
  <2>1. ASSUME Found(router.msg.to), UNCHANGED <<queue, pinger, cli>>, router.pc = "find",
               router' = [router EXCEPT !.pc = "send", !.cl = clients[Place(router.msg.to)]]
        PROVE  ServiceTypes'
    <3>1. clients[Place(router.msg.to)] \in Sessions
      BY <2>1, FoundEntry DEF TypeInv
    <3> QED BY <1>1, <2>1, <3>1 DEF ServiceTypes
  <2> QED BY <1>2, <1>3, <1>6, <2>1, AbortKeeps DEF RouterFind, AfterWalk
<1>7. CASE RouterSend \/ RouterMark \/ RouterFree
  BY <1>2, <1>3, <1>4, <1>7, AbortKeeps DEF RouterSend, RouterMark, RouterFree
<1> QED BY <1>5, <1>6, <1>7 DEF Routing, RouterRuns

LEMMA PingerServices == TypeInv /\ PingerRuns => ServiceTypes'
<1> SUFFICES ASSUME TypeInv, PingerRuns PROVE ServiceTypes'
  OBVIOUS
<1>1. ServiceTypes /\ queue \in Seq(Messages) /\ "pinger" \in Threads
  BY DEF TypeInv, ServiceTypes, Threads, Others
<1>2. ASSUME UNCHANGED <<queue, router, cli>>, pinger' = pinger
              \/ \E to \in {"pinging", "kick", "kicking"} : PingerGoto(to)
      PROVE  ServiceTypes'
  BY <1>1, <1>2 DEF ServiceTypes, PingerGoto
<1>3. CASE PingerLock
  BY <1>2, <1>3 DEF PingerLock
<1>4. CASE PingerUnlock
  <2>1. CASE pinger' = [pc |-> "ping", rounds |-> pinger.rounds + 1]
            /\ UNCHANGED <<queue, router, cli>>
    BY <1>1, <2>1 DEF ServiceTypes
  <2> QED BY <1>2, <1>4, <2>1 DEF PingerUnlock
<1>5. ASSUME NEW type \in {"ping", "quit"}, Visiting("pinger"), VisitFault("pinger") = "none",
             cl[Current("pinger")].isReady, Push(Message(type, cl[Current("pinger")].uid))
      PROVE  queue' \in Seq(Messages)
  BY <1>1, <1>5, VisitedUid, UserMessage, PushTypes DEF MessageTypes
<1>6. CASE SendPing
  <2>1. UNCHANGED <<router, pinger, cli>>
    BY <1>6, AbortKeeps DEF SendPing, serviceVars
  <2>2. queue' \in Seq(Messages)
    BY <1>1, <1>5, <1>6, AbortKeeps DEF SendPing
  <2> QED BY <1>1, <2>1, <2>2, OneMorePush
<1>7. CASE KickUnresponsive
  <2>1. CASE UNCHANGED <<queue, pinger, router, cli>>
    BY <1>2, <2>1
  <2>2. CASE PingerGoto("kickErase") /\ UNCHANGED <<router, cli>> /\ queue' \in Seq(Messages)
    BY <1>1, <2>2 DEF ServiceTypes, PingerGoto
  <2> QED BY <1>5, <1>7, <2>1, <2>2, AbortKeeps DEF KickUnresponsive
<1> QED BY <1>3, <1>4, <1>6, <1>7 DEF PingerRuns

LEMMA CliServices == TypeInv /\ (CliRuns \/ Command) => ServiceTypes'
<1> SUFFICES ASSUME TypeInv, CliRuns \/ Command PROVE ServiceTypes'
  OBVIOUS
<1>1. ServiceTypes /\ queue \in Seq(Messages) /\ "cli" \in Threads
  BY DEF TypeInv, ServiceTypes, Threads, Others
<1>2. CASE UNCHANGED <<queue, router, pinger, cli>>
  BY <1>1, <1>2 DEF ServiceTypes
<1>3. ASSUME CliDone, queue' \in Seq(Messages), UNCHANGED <<router, pinger>> PROVE ServiceTypes'
  BY <1>1, <1>3 DEF ServiceTypes, CliDone
<1>4. ASSUME NEW u \in Users, CliKick(u) PROVE ServiceTypes'
  <2>1. ASSUME Found(u), cli' = [cli EXCEPT !.pc = "kick", !.cl = clients[Place(u)]],
               UNCHANGED <<queue, router, pinger>>
        PROVE  ServiceTypes'
    <3>1. clients[Place(u)] \in Sessions
      BY <2>1, FoundEntry DEF TypeInv
    <3> QED BY <1>1, <2>1, <3>1 DEF ServiceTypes
  <2> QED BY <1>1, <1>2, <1>3, <1>4, <2>1, AbortKeeps DEF CliKick, AfterWalk
<1>5. ASSUME NEW type \in {"quit", "text"}, CliLock(type) PROVE ServiceTypes'
  BY <1>1, <1>5 DEF CliLock, ServiceTypes
<1>6. CASE CliSendQuit
  <2>1. cli.cl \in Sessions
    BY <1>1, <1>6 DEF CliSendQuit, ServiceTypes
  <2>2. ASSUME cl[cli.cl].isReady, cl[cli.cl].uid # Freed, Push(Message("quit", cl[cli.cl].uid))
        PROVE  queue' \in Seq(Messages)
    <3>1. cl[cli.cl].uid \in Users
      BY <2>1, <2>2 DEF TypeInv, HandlerTypes
    <3> QED BY <1>1, <2>2, <3>1, UserMessage, PushTypes DEF MessageTypes
  <2> QED BY <1>1, <1>2, <1>3, <1>6, <2>2, AbortKeeps DEF CliSendQuit
<1>7. CASE CliVisit
  <2>1. UNCHANGED <<router, pinger, cli>>
    BY <1>7, AbortKeeps DEF CliVisit, serviceVars
  <2>2. ASSUME Visiting("cli"), VisitFault("cli") = "none", cl[Current("cli")].isReady,
               Push(Message(cli.pc, cl[Current("cli")].uid)), cli.pc \in {"quit", "text"}
        PROVE  queue' \in Seq(Messages)
    BY <1>1, <2>2, VisitedUid, UserMessage, PushTypes DEF MessageTypes
  <2>3. queue' \in Seq(Messages)
    BY <1>1, <1>7, <2>2, AbortKeeps DEF CliVisit
  <2> QED BY <1>1, <2>1, <2>3, OneMorePush
<1>8. CASE CliUnlock
  BY <1>1, <1>3, <1>8 DEF CliUnlock
<1> QED BY <1>4, <1>5, <1>6, <1>7, <1>8 DEF CliRuns, Command

LEMMA ServiceStep == TypeInv /\ [Next]_vars => ServiceTypes'
<1> SUFFICES ASSUME TypeInv, [Next]_vars PROVE ServiceTypes'
  OBVIOUS
<1>1. CASE UNCHANGED vars
  BY <1>1 DEF vars, serviceVars, TypeInv, ServiceTypes
<1> QED BY <1>1, SessionServices, RouterServices, PingerServices, CliServices DEF Next, Routing

-----------------------------------------------------------------------------
(* The types of what is counted, and of the fault. *)

LEMMA FaultTypes ==
  /\ \A u : WalkFault(u) \in Faults
  /\ \A t : VisitFault(t) \in Faults
  /\ {"stalePointer", "wildUid", "freedUid", "badFree"} \subseteq Faults
BY DEF WalkFault, VisitFault, Faults

LEMMA AbortTypes ==
  ASSUME EnvTypes, NEW what \in Faults, Abort(what)
  PROVE  EnvTypes'
BY DEF Abort, EnvTypes, envVars

LEMMA EnvStep == TypeInv /\ [Next]_vars => EnvTypes'
<1> SUFFICES ASSUME TypeInv, [Next]_vars PROVE EnvTypes'
  OBVIOUS
<1>1. EnvTypes
  BY DEF TypeInv
<1>2. ASSUME UNCHANGED <<pings, texts, rivals, fault>> PROVE EnvTypes'
  BY <1>1, <1>2 DEF EnvTypes
<1>3. ASSUME fault' = "stalePointer", UNCHANGED <<pings, texts, rivals>> PROVE EnvTypes'
  BY <1>1, <1>3 DEF EnvTypes, Faults
<1>4. ASSUME NEW s \in Sessions, Client(s) PROVE EnvTypes'
  <2>1. cl[s].req \in Sessions
    BY DEF TypeInv, HandlerTypes
  <2>2. CASE ReceiveAck(s)
    <3>1. ASSUME pings[cl[s].req] > 0, pings' = [pings EXCEPT ![cl[s].req] = @ - 1],
                UNCHANGED <<texts, rivals, fault>>
          PROVE  EnvTypes'
      <4>1. pings[cl[s].req] - 1 \in Nat
        BY <1>1, <2>1, <3>1 DEF EnvTypes
      <4> QED BY <1>1, <3>1, <4>1 DEF EnvTypes
    <3> QED BY <1>1, <2>2, <3>1, FaultTypes, AbortTypes DEF ReceiveAck, Reads
  <2>3. ASSUME NEW to, ReceiveText(s, to) PROVE EnvTypes'
    <3>1. ASSUME texts[cl[s].req] < MaxTexts, texts' = [texts EXCEPT ![cl[s].req] = @ + 1],
                UNCHANGED <<pings, rivals, fault>>
          PROVE  EnvTypes'
      <4>1. texts[cl[s].req] + 1 \in 0..MaxTexts
        BY <1>1, <2>1, <3>1, ServerAssumption DEF EnvTypes, ServerAssumption
      <4> QED BY <1>1, <3>1, <4>1 DEF EnvTypes
    <3> QED BY <1>1, <2>3, <3>1, FaultTypes, AbortTypes DEF ReceiveText, Reads
  <2>4. CASE Accept(s) \/ AbandonLogin(s)
    BY <1>2, <2>4 DEF Accept, AbandonLogin, envVars
  <2>5. ASSUME NEW n, EnterUsername(s, n) PROVE EnvTypes'
    <3>1. UNCHANGED <<pings, texts, rivals>> /\ fault' \in Faults
      BY <1>1, <2>5, FaultTypes DEF EnterUsername, CheckOnline, AfterWalk, Abort, envVars, EnvTypes
    <3> QED BY <1>1, <3>1 DEF EnvTypes
  <2>6. ASSUME NEW a, Choose(s, a) \/ Confirm(s, a) PROVE EnvTypes'
    BY <1>2, <2>6 DEF Choose, Confirm, envVars
  <2>7. ASSUME NEW b, Password(s, b) PROVE EnvTypes'
    BY <1>2, <1>3, <2>7 DEF Password, envVars
  <2>8. CASE Disconnect(s)
    BY <1>1, <1>2, <2>8, FaultTypes, AbortTypes DEF Disconnect, Reads, envVars
  <2> QED BY <1>4, <2>2, <2>3, <2>4, <2>5, <2>6, <2>7, <2>8 DEF Client
<1>5. ASSUME NEW s \in Sessions, HandlerRuns(s) PROVE EnvTypes'
  <2>1. CASE Cleanup(s) \/ Insert(s)
    <3>1. ASSUME Meets(s), UNCHANGED <<pings, texts, fault>> PROVE EnvTypes'
      BY <1>1, <3>1 DEF Meets, Fellows, EnvTypes
    <3> QED BY <1>1, <1>2, <2>1, <3>1, FaultTypes, AbortTypes
            DEF Cleanup, Insert, Insertion, AfterWalk, envVars
  <2>2. CASE AssignId(s) \/ JoinLock(s) \/ JoinVisit(s) \/ JoinDone(s) \/ SetReady(s)
    BY <1>1, <1>2, <2>2, FaultTypes, AbortTypes
       DEF AssignId, JoinLock, JoinVisit, JoinDone, SetReady, envVars
  <2>3. CASE EraseEntry(s) \/ Exit(s)
    BY <1>1, <1>2, <2>3, FaultTypes, AbortTypes DEF EraseEntry, Exit, AfterWalk, Reads, envVars
  <2> QED BY <1>5, <2>1, <2>2, <2>3 DEF HandlerRuns
<1>6. CASE Routing
  <2>1. CASE RouterSend
    <3>1. ASSUME router.cl \in Sessions, UNCHANGED <<texts, rivals, fault>>,
                 \/ pings' = [pings EXCEPT ![cl[router.cl].req] = @ + 1]
                 \/ UNCHANGED pings
          PROVE  EnvTypes'
      BY <1>1, <3>1 DEF EnvTypes, TypeInv, HandlerTypes
    <3>2. router.cl \in Sessions
      BY <2>1 DEF RouterSend, TypeInv, ServiceTypes
    <3> QED BY <1>1, <2>1, <3>1, <3>2, FaultTypes, AbortTypes DEF RouterSend
  <2>2. CASE RouterPop \/ RouterFind \/ RouterMark \/ RouterFree
    BY <1>1, <1>2, <2>2, FaultTypes, AbortTypes
       DEF RouterPop, RouterFind, RouterMark, RouterFree, AfterWalk, envVars
  <2> QED BY <1>6, <2>1, <2>2 DEF Routing, RouterRuns
<1>7. CASE PingerRuns
  BY <1>1, <1>2, <1>7, FaultTypes, AbortTypes
     DEF PingerRuns, PingerLock, SendPing, KickUnresponsive, PingerUnlock, envVars
<1>8. CASE CliRuns \/ Command
  BY <1>1, <1>2, <1>8, FaultTypes, AbortTypes
     DEF CliRuns, CliSendQuit, CliVisit, CliUnlock, Command, CliKick, CliLock, AfterWalk, envVars
<1>9. CASE UNCHANGED vars
  BY <1>2, <1>9 DEF vars, envVars
<1> QED BY <1>4, <1>5, <1>6, <1>7, <1>8, <1>9 DEF Next, Routing

LEMMA TypeInitial == Init => TypeInv
<1> SUFFICES ASSUME Init PROVE TypeInv
  OBVIOUS
<1> USE ServerAssumption DEF Init, ServerAssumption
<1>1. HandlerTypes
  <2>1. /\ cl \in [Sessions -> [uid : Users \cup {Unset, Freed}, req : Sessions,
                              isReady : BOOLEAN, pingSent : BOOLEAN, id : Int]]
        /\ \A s \in Sessions : cl[s] \in [uid : {Unset}, req : Sessions, isReady : {FALSE},
                                          pingSent : PingGarbage, id : {0}]
    <3> DEFINE first == [uid : {Unset}, req : Sessions, isReady : {FALSE},
                         pingSent : PingGarbage, id : {0}]
               rec == [uid : Users \cup {Unset, Freed}, req : Sessions,
                       isReady : BOOLEAN, pingSent : BOOLEAN, id : Int]
    <3>1. cl \in [Sessions -> first]
      OBVIOUS
    <3>2. ASSUME NEW x \in first PROVE x \in rec
      <4>1. {Unset} \subseteq Users \cup {Unset, Freed} /\ {0} \subseteq Int
        OBVIOUS
      <4>2. {FALSE} \subseteq BOOLEAN /\ PingGarbage \subseteq BOOLEAN
        BY Zenon
      <4> QED BY ONLY <4>1, <4>2, <3>2, Zenon
    <3> HIDE DEF first, rec
    <3>3. cl \in [Sessions -> rec] /\ \A s \in Sessions : cl[s] \in first
      BY <3>1, <3>2
    <3> QED BY <3>3 DEF first, rec
  <2>2. \A s \in Sessions : ~cl[s].isReady
    BY <2>1
  <2>3. auth \in [Sessions -> [attempts : 0..MaxAttempts, username : Users \cup {NULL},
                              cl : Sessions]]
    OBVIOUS
  <2>4. \A s \in Sessions : pc[s] = "new" /\ auth[s].attempts = 0
    OBVIOUS
  <2>5. pc \in [Sessions -> HandlerPoints]
    BY DEF HandlerPoints
  <2> QED BY <2>1, <2>2, <2>3, <2>4, <2>5 DEF HandlerTypes, PastAuth
<1>2. MapTypes
  BY DEF MapTypes
<1>3. ServiceTypes
  BY DEF ServiceTypes
<1>4. EnvTypes
  BY DEF EnvTypes, Faults
<1> QED BY <1>1, <1>2, <1>3, <1>4 DEF TypeInv

LEMMA TypeStep == TypeInv /\ [Next]_vars => TypeInv'
BY HandlerStep, MapStep, ServiceStep, EnvStep DEF TypeInv

(* The server's variables keep their types, whatever the clients, the        *)
(* operator and uninitialised memory do.                                     *)
THEOREM ServerTypeCorrect == Spec => []TypeOK
<1>1. TypeInv => TypeOK
  BY DEF TypeInv, HandlerTypes, MapTypes, ServiceTypes, EnvTypes, TypeOK
<1> QED BY <1>1, TypeInitial, TypeStep, PTL DEF Spec

-----------------------------------------------------------------------------
(* What the steps do to the records, the pointers to them and the list.     *)

SameRecords == \A s \in Sessions : cl'[s].uid = cl[s].uid /\ cl'[s].req = cl[s].req

Quiet == UNCHANGED <<registered, pc, auth, clients, rivals>> /\ SameRecords

Asked == {"username", "choice", "confirm", "password"}

(* Handler s goes on, and touches neither a record's owner nor the list. *)
Passes(s) ==
    /\ UNCHANGED <<registered, auth, clients, rivals>> /\ SameRecords
    /\ \E to \in HandlerPoints :
          /\ Goto(s, to)
          /\ \/ pc[s] = "new" /\ to = "username"
             \/ pc[s] = "choice" /\ to = "confirm"
             \/ pc[s] \in Asked /\ to \in {"cleanup", "refused"}
             \/ pc[s] = "insert" /\ to = "refused" /\ cl[s].uid = Unset
             \/ pc[s] \in Stays /\ to \in Stays
             \/ pc[s] = "exit" /\ to = "gone"

(* What find leaves in cl: the entry with the name that was typed. *)
OnlineRecord(s, a) == /\ a.username \in NamesOf[s]
                      /\ \E i \in 1..Len(clients) : /\ a.cl = clients[i]
                                                     /\ cl[clients[i]].uid = a.username

(* A line of the dialogue, with or without another attempt. *)
Answers(s) ==
    /\ UNCHANGED <<registered, clients, cl, rivals>> /\ pc[s] \in Asked
    /\ \E a \in [attempts : 0..MaxAttempts, username : Users \cup {NULL}, cl : Sessions] :
          /\ auth' = [auth EXCEPT ![s] = a]
          /\ a.username = auth[s].username \/ a.username \in NamesOf[s]
          /\ \/ /\ Goto(s, "choice") /\ a.cl = Record(s) /\ auth[s].attempts = 0
             \/ /\ Goto(s, "username") \/ Goto(s, "cleanup")
                /\ a.attempts > 0
                /\ a.cl = Record(s) \/ OnlineRecord(s, a)
             \/ /\ Goto(s, "password") /\ a.cl = Record(s) /\ a.attempts = auth[s].attempts
                /\ a.username \in registered

LogsIn(s) ==
    /\ pc[s] \in {"confirm", "password"} /\ auth[s].username \in Users
    /\ cl' = LogIn(s) /\ Goto(s, "insert") /\ UNCHANGED <<auth, clients, rivals>>
    /\ \/ registered' = registered \cup {auth[s].username}
       \/ pc[s] = "password" /\ UNCHANGED registered

Collides(s) ==
    /\ pc[s] = "confirm" /\ auth[s].username \in Users /\ auth[s].username \in registered
    /\ cl' = WithUid(Record(s), auth[s].username) /\ Goto(s, "cleanup")
    /\ UNCHANGED <<registered, auth, clients, rivals>>

Cleans(s) ==
    /\ pc[s] = "cleanup" /\ Goto(s, "refused")
    /\ UNCHANGED <<registered, auth, clients, rivals>>
    /\ \/ cl[Record(s)].uid = Unset /\ SameRecords
       \/ cl[Record(s)].uid # Unset /\ cl' = WithUid(Record(s), Freed)

Inserts(s) ==
    /\ pc[s] = "insert" /\ cl[s].uid # Unset /\ Goto(s, "assignId") /\ Meets(s)
    /\ UNCHANGED <<registered, auth, cl>>
    /\ clients' = IF Found(cl[s].uid) THEN [clients EXCEPT ![Place(cl[s].uid)] = s]
                  ELSE Append(clients, s)

Erases(s) ==
    /\ pc[s] = "erase" /\ Goto(s, "exit") /\ UNCHANGED <<registered, auth, cl, rivals>>
    /\ clients' = IF Found(cl[s].uid) THEN RemoveAt(clients, Place(cl[s].uid)) ELSE clients

Kinds(s) == \/ Passes(s) \/ Answers(s) \/ LogsIn(s) \/ Collides(s) \/ Cleans(s)
            \/ Inserts(s) \/ Erases(s)

LEMMA QuietSteps == UNCHANGED <<registered, pc, auth, cl, clients, rivals>> => Quiet
BY DEF Quiet, SameRecords

LEMMA AbortQuiet == ASSUME NEW what, Abort(what) PROVE Quiet
BY AbortKeeps, QuietSteps

LEMMA AttemptKind ==
  ASSUME TypeInv, NEW s \in Sessions, pc[s] \in Asked,
         UNCHANGED <<registered, clients, cl, rivals>>,
         NEW a, a \in [attempts : 0..MaxAttempts, username : Users \cup {NULL}, cl : Sessions],
         a.attempts < MaxAttempts, NextAttempt(s, a),
         a.username = auth[s].username \/ a.username \in NamesOf[s],
         a.cl = Record(s) \/ OnlineRecord(s, a)
  PROVE  Answers(s)
<1> DEFINE b == [a EXCEPT !.attempts = @ + 1]
<1>1. /\ b \in [attempts : 0..MaxAttempts, username : Users \cup {NULL}, cl : Sessions]
      /\ b.attempts > 0 /\ b.cl = a.cl /\ b.username = a.username
  BY ServerAssumption DEF ServerAssumption
<1>2. auth' = [auth EXCEPT ![s] = b] /\ (Goto(s, "username") \/ Goto(s, "cleanup"))
  BY DEF NextAttempt
<1>3. OnlineRecord(s, a) => OnlineRecord(s, b)
  BY <1>1 DEF OnlineRecord
<1> HIDE DEF b
<1> QED BY <1>1, <1>2, <1>3 DEF Answers

LEMMA DialogueKinds ==
  ASSUME TypeInv, NEW s \in Sessions,
         \/ Accept(s) \/ AbandonLogin(s)
         \/ \E n \in Users : EnterUsername(s, n)
         \/ \E a \in {"y", "n", "other"} : Choose(s, a)
  PROVE  Quiet \/ Passes(s) \/ Answers(s)
<1> USE DEF TypeInv
<1>1. auth[s] \in [attempts : 0..MaxAttempts, username : Users \cup {NULL}, cl : Sessions]
  BY DEF HandlerTypes
<1>2. CASE Accept(s) \/ AbandonLogin(s)
  BY <1>2 DEF Accept, AbandonLogin, At, Passes, SameRecords, Asked, HandlerPoints, mapVars, envVars
<1>3. ASSUME NEW n \in Users, EnterUsername(s, n) PROVE Quiet \/ Answers(s)
  <2> DEFINE a == Named(s, n)
  <2>1. /\ a \in [attempts : 0..MaxAttempts, username : Users \cup {NULL}, cl : Sessions]
        /\ a.attempts = auth[s].attempts /\ a.attempts < MaxAttempts
        /\ a.username = n /\ a.cl = Record(s)
    BY <1>1, <1>3 DEF EnterUsername, At, HandlerTypes, Named, Record
  <2>2. UNCHANGED <<registered, cl, clients, rivals>> /\ pc[s] \in Asked /\ n \in NamesOf[s]
    BY <1>3 DEF EnterUsername, At, mapVars, envVars, Asked
  <2>3. CASE /\ auth' = [auth EXCEPT ![s] = a]
             /\ \/ Goto(s, "choice") /\ auth[s].attempts = 0
                \/ Goto(s, "password") /\ n \in registered
    <3> HIDE DEF a
    <3> QED BY <2>1, <2>2, <2>3 DEF Answers
  <2>4. CASE NextAttempt(s, a)
    <3> HIDE DEF a
    <3> QED BY <2>1, <2>2, <2>4, AttemptKind
  <2>5. CASE Found(n) /\ NextAttempt(s, [a EXCEPT !.cl = clients[Place(n)]])
    <3> DEFINE b == [a EXCEPT !.cl = clients[Place(n)]]
    <3>1. /\ clients[Place(n)] \in Sessions /\ Place(n) \in 1..Len(clients)
          /\ cl[clients[Place(n)]].uid = n
      BY <2>5, FoundEntry
    <3>2. /\ b \in [attempts : 0..MaxAttempts, username : Users \cup {NULL}, cl : Sessions]
          /\ b.attempts < MaxAttempts /\ b.cl = clients[Place(n)] /\ b.username = n
      <4> HIDE DEF a
      <4> QED BY <2>1, <3>1
    <3>3. NextAttempt(s, b)
      BY <2>5
    <3> HIDE DEF b
    <3>4. OnlineRecord(s, b)
      BY <2>2, <3>1, <3>2 DEF OnlineRecord
    <3> QED BY <2>2, <3>2, <3>3, <3>4, AttemptKind
  <2>6. CASE UNCHANGED <<pc, auth>>
    BY <2>2, <2>6, QuietSteps
  <2> QED BY <1>3, <2>3, <2>4, <2>5, <2>6, AbortQuiet DEF EnterUsername, CheckOnline, AfterWalk
<1>4. ASSUME NEW a, Choose(s, a) PROVE Passes(s) \/ Answers(s)
  <2>1. /\ auth[s].attempts < MaxAttempts /\ pc[s] = "choice"
        /\ UNCHANGED <<registered, cl, clients, rivals>>
    BY <1>4 DEF Choose, At, HandlerTypes, mapVars, envVars
  <2>2. CASE (Goto(s, "confirm") \/ Goto(s, "cleanup")) /\ UNCHANGED auth
    BY <2>1, <2>2 DEF Passes, SameRecords, Asked, HandlerPoints
  <2>3. CASE NextAttempt(s, auth[s])
    BY <1>1, <2>1, <2>3, AttemptKind DEF Asked, Record
  <2> QED BY <1>4, <2>2, <2>3 DEF Choose
<1> QED BY <1>2, <1>3, <1>4

LEMMA LoginKinds ==
  ASSUME TypeInv, NEW s \in Sessions,
         (\E b \in BOOLEAN : Confirm(s, b) \/ Password(s, b)) \/ Cleanup(s)
  PROVE  Quiet \/ Kinds(s)
<1>1. auth[s] \in [attempts : 0..MaxAttempts, username : Users \cup {NULL}, cl : Sessions]
  BY DEF TypeInv, HandlerTypes
<1>2. ASSUME pc[s] \in {"confirm", "password"}, NextAttempt(s, auth[s]),
             UNCHANGED <<registered, clients, cl, rivals>>
      PROVE  Answers(s)
  BY <1>1, <1>2, AttemptKind DEF TypeInv, HandlerTypes, Asked, Record
<1>3. ASSUME NEW b, Confirm(s, b) PROVE Kinds(s)
  <2>1. pc[s] = "confirm" /\ auth[s].username \in Users /\ UNCHANGED <<clients, rivals>>
    BY <1>3 DEF Confirm, At, TypeInv, HandlerTypes, mapVars, envVars
  <2> QED BY <1>2, <1>3, <2>1 DEF Confirm, Kinds, LogsIn, Collides, WithUid
<1>4. ASSUME NEW b, Password(s, b) PROVE Quiet \/ Kinds(s)
  <2>1. pc[s] = "password" /\ auth[s].username \in Users
        /\ UNCHANGED <<registered, clients, rivals>>
    BY <1>4 DEF Password, At, TypeInv, HandlerTypes, mapVars, envVars
  <2> QED BY <1>2, <1>4, <2>1, QuietSteps DEF Password, Kinds, LogsIn
<1>5. CASE Cleanup(s)
  <2> DEFINE c == Record(s)
  <2>1. ASSUME Goto(s, "refused"), UNCHANGED <<registered, auth, clients, rivals>>,
               pc[s] = "cleanup",
               cl' = [cl EXCEPT ![c].uid = IF cl[c].uid = Unset THEN Unset ELSE Freed]
        PROVE  Cleans(s)
    <3>1. CASE cl[c].uid = Unset
      <4>1. cl' = WithUid(c, Unset)
        BY <2>1, <3>1 DEF WithUid
      <4>2. SameRecords
        BY <3>1, <4>1, UidTypes, RecordPointer DEF SameRecords, TypeInv
      <4> QED BY <2>1, <3>1, <4>2 DEF Cleans
    <3>2. CASE cl[c].uid # Unset
      BY <2>1, <3>2 DEF Cleans, WithUid
    <3> QED BY <3>1, <3>2
  <2> QED BY <1>5, <2>1, AbortQuiet DEF Cleanup, At, Kinds, mapVars, envVars
<1> QED BY <1>3, <1>4, <1>5

LEMMA RunKinds ==
  ASSUME TypeInv, NEW s \in Sessions,
         \/ Insert(s) \/ AssignId(s) \/ JoinLock(s) \/ JoinVisit(s) \/ JoinDone(s) \/ SetReady(s)
         \/ ReceiveAck(s) \/ Disconnect(s) \/ EraseEntry(s) \/ Exit(s)
         \/ \E to \in Users \cup {"server"} : ReceiveText(s, to)
  PROVE  Quiet \/ Kinds(s)
<1>1. CASE UNCHANGED <<registered, pc, auth, cl, clients, rivals>>
  BY <1>1, QuietSteps
<1>2. ASSUME NEW to, Goto(s, to), UNCHANGED <<registered, auth, clients, rivals>>, SameRecords,
             \/ pc[s] \in Stays /\ to \in Stays
             \/ pc[s] = "exit" /\ to = "gone"
      PROVE  Kinds(s)
  <2>1. Passes(s)
    BY <1>2, PastPoints DEF Passes, Stays, PastAuth
  <2> QED BY <2>1 DEF Kinds
<1>3. CASE Insert(s)
  <2>1. CASE pc[s] = "insert" /\ cl[s].uid = Unset /\ Goto(s, "refused")
            /\ UNCHANGED <<registered, auth, cl, clients, rivals>>
    BY <2>1 DEF Kinds, Passes, SameRecords, HandlerPoints
  <2>2. CASE Inserts(s)
    BY <2>2 DEF Kinds
  <2> QED BY <1>3, <2>1, <2>2, AbortQuiet
          DEF Insert, Insertion, AfterWalk, At, Inserts, mapVars, envVars
<1>4. CASE AssignId(s)
  <2>1. SameRecords
    BY <1>4 DEF AssignId, SameRecords, TypeInv, HandlerTypes
  <2> QED BY <1>2, <1>4, <2>1 DEF AssignId, At, Stays, PastAuth, mapVars, envVars
<1>5. CASE SetReady(s)
  <2>1. SameRecords
    BY <1>5 DEF SetReady, SameRecords, TypeInv, HandlerTypes
  <2> QED BY <1>2, <1>5, <2>1 DEF SetReady, At, Stays, PastAuth, mapVars, envVars
<1>6. CASE ReceiveAck(s)
  <2>1. ASSUME cl' = [cl EXCEPT ![s].pingSent = FALSE],
               UNCHANGED <<registered, pc, auth, clients, rivals>>
        PROVE  Quiet
    BY <2>1 DEF Quiet, SameRecords, TypeInv, HandlerTypes
  <2> QED BY <1>6, <2>1, AbortQuiet DEF ReceiveAck, Reads, mapVars, envVars
<1>7. ASSUME NEW to, ReceiveText(s, to) PROVE Quiet
  BY <1>7, QuietSteps, AbortQuiet DEF ReceiveText, Reads, handlerVars, mapVars, envVars
<1>8. CASE JoinVisit(s)
  BY <1>8, QuietSteps, AbortQuiet DEF JoinVisit, Advance, handlerVars, envVars
<1>9. CASE JoinLock(s) \/ JoinDone(s)
  <2>1. SameRecords
    BY <1>9 DEF JoinLock, JoinDone, SameRecords
  <2> QED BY <1>2, <1>9, <2>1
            DEF JoinLock, JoinDone, BeginIteration, EndIteration, At, Stays, PastAuth, envVars
<1>10. CASE Disconnect(s)
  <2>1. ASSUME Goto(s, "erase"), UNCHANGED <<registered, auth, cl, clients, rivals>>, pc[s] = "loop"
        PROVE  Kinds(s)
    BY <1>2, <2>1 DEF SameRecords, Stays, PastAuth
  <2> QED BY <1>10, <2>1, AbortQuiet DEF Disconnect, Reads, At, mapVars, envVars
<1>11. CASE Exit(s)
  <2>1. ASSUME Goto(s, "gone"), UNCHANGED <<registered, auth, cl, clients, rivals>>, pc[s] = "exit"
        PROVE  Kinds(s)
    BY <1>2, <2>1 DEF SameRecords, Stays, PastAuth
  <2> QED BY <1>11, <2>1, AbortQuiet DEF Exit, Reads, At, mapVars, envVars
<1>12. CASE EraseEntry(s)
  <2>1. CASE Erases(s)
    BY <2>1 DEF Kinds
  <2> QED BY <1>12, <2>1, AbortQuiet DEF EraseEntry, AfterWalk, At, Erases, envVars
<1> QED BY <1>3, <1>4, <1>5, <1>6, <1>7, <1>8, <1>9, <1>10, <1>11, <1>12

LEMMA ServiceKinds == TypeInv /\ (Routing \/ PingerRuns \/ CliRuns \/ Command) => Quiet
<1> SUFFICES ASSUME TypeInv, Routing \/ PingerRuns \/ CliRuns \/ Command PROVE Quiet
  OBVIOUS
<1>1. CASE RouterMark
  <2>1. ASSUME cl' = [cl EXCEPT ![router.cl].pingSent = TRUE],
               UNCHANGED <<registered, pc, auth, clients, rivals>>
        PROVE  Quiet
    BY <2>1 DEF Quiet, SameRecords, TypeInv, HandlerTypes
  <2> QED BY <1>1, <2>1, AbortQuiet DEF RouterMark, mapVars, envVars
<1>2. CASE ServiceRuns
  <2>1. UNCHANGED <<clients, rivals>>
    <3>1. CASE RouterPop \/ RouterFind \/ RouterSend \/ RouterFree
      BY <3>1, AbortKeeps
         DEF RouterPop, RouterFind, RouterSend, RouterFree, AfterWalk, mapVars, envVars
    <3>2. CASE PingerRuns
      BY <3>2, AbortKeeps
         DEF PingerRuns, PingerLock, PingerUnlock, SendPing, KickUnresponsive, BeginIteration,
             Advance, EndIteration, mapVars, envVars
    <3>3. CASE CliRuns \/ Command
      BY <3>3, AbortKeeps
         DEF CliRuns, CliSendQuit, CliVisit, CliUnlock, Command, CliKick, CliLock, AfterWalk,
             BeginIteration, Advance, EndIteration, mapVars, envVars
    <3> QED BY <1>2, <3>1, <3>2, <3>3 DEF ServiceRuns
  <2> QED BY <1>2, <2>1, ServicesLeaveHandlers, QuietSteps
<1> QED BY <1>1, <1>2 DEF Routing, RouterRuns, ServiceRuns

LEMMA StepKinds == TypeInv /\ [Next]_vars => Quiet \/ \E s \in Sessions : Kinds(s)
<1> SUFFICES ASSUME TypeInv, [Next]_vars PROVE Quiet \/ \E s \in Sessions : Kinds(s)
  OBVIOUS
<1>1. ASSUME NEW s \in Sessions, Client(s) \/ HandlerRuns(s) PROVE Quiet \/ Kinds(s)
  <2>1. Quiet \/ Passes(s) \/ Answers(s) => Quiet \/ Kinds(s)
    BY DEF Kinds
  <2> QED BY <1>1, <2>1, DialogueKinds, LoginKinds, RunKinds DEF Client, HandlerRuns
<1>2. CASE UNCHANGED vars
  BY <1>2, QuietSteps DEF vars, handlerVars, mapVars, envVars
<1> QED BY <1>1, <1>2, ServiceKinds DEF Next, Routing

-----------------------------------------------------------------------------
(* Pointers to records.  A dialogue points to another session's record only  *)
(* after a failed attempt, and that session is past its login by then.  A    *)
(* record that another session has made its own is still pointed to by it,   *)
(* and one that another session has freed by a session that was refused.     *)
PointerOK(s) ==
    Record(s) # s => /\ auth[s].attempts > 0
                     /\ pc[Record(s)] \in PastAuth
                     /\ pc[s] \notin {"new", "choice", "confirm"}

OwnerOK(s) ==
    cl[s].req # s => /\ Record(cl[s].req) = s
                     /\ pc[cl[s].req] \in PastAuth \cup {"insert", "refused"}

FreedOK(s) ==
    (cl[s].uid = Freed /\ pc[s] # "refused") =>
        \E r \in Sessions : r # s /\ pc[r] = "refused" /\ Record(r) = s

EntryOK == \A i \in 1..Len(clients) : pc[clients[i]] \in PastAuth

PointerInv == /\ \A s \in Sessions : PointerOK(s) /\ OwnerOK(s) /\ FreedOK(s)
              /\ EntryOK

(* Nobody else has written to a record. *)
Untouched == \A s \in Sessions : /\ cl[s].req = s
                                 /\ cl[s].uid = Freed => pc[s] = "refused"

(* What holds until somebody does: records are their sessions' own, entries  *)
(* are alive and of different users, and what the router has found is the    *)
(* addressee.                                                                *)
OwnUid(s) == cl[s].uid \in Users => /\ cl[s].uid = auth[s].username
                                    /\ pc[s] \in PastAuth \cup {"insert", "cleanup"}

Listed == /\ \A i \in 1..Len(clients) : pc[clients[i]] \in Stays
          /\ \A i, j \in 1..Len(clients) : cl[clients[i]].uid = cl[clients[j]].uid => i = j

(* Who is in the map together with another session of its user is known as   *)
(* its rival.                                                                *)
RivalsMet ==
    \A s, r \in Sessions : (s # r /\ pc[s] \in Stays /\ pc[r] \in Stays /\ cl[s].uid = cl[r].uid) =>
        s \in rivals /\ r \in rivals

HasEntry(s) == \E i \in 1..Len(clients) : clients[i] = s

UserHasEntry(s) == \E i \in 1..Len(clients) : cl[clients[i]].uid = cl[s].uid

RivalLeft(s) ==
    \E r \in rivals \ {s} : pc[r] \in {"exit", "gone"} /\ cl[r].uid = cl[s].uid

(* A session keeps its entry until it leaves, or a rival replaces it; its    *)
(* user has one until a rival leaves.                                        *)
Reach(s) == pc[s] \in Stays => /\ s \notin rivals => HasEntry(s)
                               /\ UserHasEntry(s) \/ RivalLeft(s)

Reached == RivalsMet /\ \A s \in Sessions : Reach(s)

Addressed == router.pc = "send" => /\ cl[router.cl].uid = router.msg.to
                                   /\ pc[router.cl] \in PastAuth

Orderly == Untouched => (\A s \in Sessions : OwnUid(s)) /\ Listed /\ Reached /\ Addressed

(* Every uid is the uid of an account. *)
Accounted == \A s \in Sessions : /\ cl[s].uid \in Users => cl[s].uid \in registered
                                 /\ pc[s] = "password" => auth[s].username \in registered

(* Whatever is touched: a record has no uid before its session logs in, and   *)
(* gets none if the session then writes to another's; so who gets past the   *)
(* insertion points to its own.                                              *)
OwnOK(s) == /\ pc[s] \in {"new"} \cup Asked => cl[s].uid = Unset
            /\ pc[s] = "insert" => Record(s) = s \/ cl[s].uid = Unset
            /\ pc[s] \in PastAuth => Record(s) = s

Owned == \A s \in Sessions : OwnOK(s)

ServerInv == TypeInv /\ PointerInv /\ Owned /\ Accounted /\ Orderly

-----------------------------------------------------------------------------
(* Each kind of step keeps the pointers in order. *)

LEMMA PointerTypes ==
  ASSUME TypeInv
  PROVE  /\ \A s \in Sessions : Record(s) \in Sessions /\ cl[s].req \in Sessions
         /\ \A i \in 1..Len(clients) : clients[i] \in Sessions
         /\ \A s \in Sessions : pc[s] \in PastAuth => cl[s].uid # Unset
         /\ pc \in [Sessions -> HandlerPoints]
BY DEF TypeInv, HandlerTypes, MapTypes, Record

LEMMA QuietPointers == TypeInv /\ PointerInv /\ Quiet => PointerInv'
<1> SUFFICES ASSUME TypeInv, PointerInv, Quiet PROVE PointerInv'
  OBVIOUS
<1>1. EntryOK'
  BY DEF PointerInv, EntryOK, Quiet
<1>2. ASSUME NEW s \in Sessions PROVE (PointerOK(s) /\ OwnerOK(s) /\ FreedOK(s))'
  <2>1. PointerOK(s) /\ OwnerOK(s) /\ FreedOK(s)
    BY DEF PointerInv
  <2>2. UNCHANGED <<pc, auth>> /\ cl'[s].uid = cl[s].uid /\ cl'[s].req = cl[s].req
    BY DEF Quiet, SameRecords
  <2>3. PointerOK(s)'
    BY <2>1, <2>2 DEF PointerOK, Record
  <2>4. OwnerOK(s)'
    BY <2>1, <2>2 DEF OwnerOK, Record
  <2>5. FreedOK(s)'
    BY <2>1, <2>2 DEF FreedOK, Record
  <2> QED BY <2>3, <2>4, <2>5
<1> QED BY <1>1, <1>2 DEF PointerInv

(* Handler s moves on; nobody is past the login for the first time but who   *)
(* inserts, and nobody leaves a point that the pointers rely on.             *)
LEMMA PassPointers ==
  ASSUME TypeInv, PointerInv, NEW s \in Sessions, Passes(s)
  PROVE  PointerInv'
<1>1. PICK to \in HandlerPoints :
        /\ pc' = [pc EXCEPT ![s] = to]
        /\ to \notin {"new", "choice"} /\ pc[s] # "refused"
        /\ to = "confirm" => pc[s] = "choice"
        /\ pc[s] \in PastAuth => to \in PastAuth
        /\ pc[s] \in PastAuth \cup {"insert"} => to \in PastAuth \cup {"insert", "refused"}
  BY DEF Passes, Goto, Asked, Stays, PastAuth
<1>2. UNCHANGED <<auth, clients>> /\ SameRecords
  BY DEF Passes
<1>3. /\ pc'[s] = to /\ \A r \in Sessions : r # s => pc'[r] = pc[r]
      /\ \A r \in Sessions : pc[r] \in PastAuth => pc'[r] \in PastAuth
      /\ \A r \in Sessions : pc[r] = "refused" => pc'[r] = "refused"
  BY <1>1, PointerTypes DEF PastAuth
<1>4. EntryOK'
  BY <1>2, <1>3, PointerTypes DEF PointerInv, EntryOK
<1>5. ASSUME NEW r \in Sessions PROVE (PointerOK(r) /\ OwnerOK(r) /\ FreedOK(r))'
  <2>1. PointerOK(r) /\ OwnerOK(r) /\ FreedOK(r)
    BY DEF PointerInv
  <2>2. cl'[r].uid = cl[r].uid /\ cl'[r].req = cl[r].req /\ Record(r)' = Record(r)
    BY <1>2 DEF SameRecords, Record
  <2>3. PointerOK(r)'
    BY <1>1, <1>2, <1>3, <2>1, <2>2, PointerTypes DEF PointerOK, PastAuth
  <2>4. OwnerOK(r)'
    BY <1>1, <1>2, <1>3, <2>1, <2>2, PointerTypes DEF OwnerOK, Record, PastAuth
  <2>5. FreedOK(r)'
    BY <1>1, <1>2, <1>3, <2>1, <2>2 DEF FreedOK, Record
  <2> QED BY <2>3, <2>4, <2>5
<1> QED BY <1>4, <1>5 DEF PointerInv

LEMMA AnswerPointers ==
  ASSUME TypeInv, PointerInv, NEW s \in Sessions, Answers(s)
  PROVE  PointerInv'
<1>1. PICK a \in [attempts : 0..MaxAttempts, username : Users \cup {NULL}, cl : Sessions] :
          /\ auth' = [auth EXCEPT ![s] = a]
          /\ \/ /\ Goto(s, "choice") /\ a.cl = Record(s) /\ auth[s].attempts = 0
             \/ /\ Goto(s, "username") \/ Goto(s, "cleanup")
                /\ a.attempts > 0
                /\ a.cl = Record(s) \/ \E i \in 1..Len(clients) : a.cl = clients[i]
             \/ /\ Goto(s, "password") /\ a.cl = Record(s) /\ a.attempts = auth[s].attempts
  BY DEF Answers, OnlineRecord
<1>2. pc[s] \in Asked /\ UNCHANGED <<clients, cl>>
  BY DEF Answers
<1>3. /\ \A r \in Sessions : r # s => pc'[r] = pc[r] /\ auth'[r] = auth[r]
      /\ auth'[s] = a /\ pc'[s] \in {"choice", "username", "cleanup", "password"}
      /\ pc'[s] = "choice" => a.cl = Record(s) /\ auth[s].attempts = 0
      /\ a.cl = Record(s) \/ \E i \in 1..Len(clients) : a.cl = clients[i]
      /\ a.attempts > 0 \/ (a.cl = Record(s) /\ a.attempts = auth[s].attempts) \/ pc'[s] = "choice"
  BY <1>1 DEF Goto, TypeInv, HandlerTypes
<1>4. \A r \in Sessions : pc[r] \in PastAuth \cup {"insert", "refused"} => r # s /\ pc'[r] = pc[r]
  BY <1>2, <1>3 DEF Asked, PastAuth
<1>5. EntryOK'
  BY <1>2, <1>4, PointerTypes DEF PointerInv, EntryOK
<1>6. PointerOK(s)'
  <2>1. Record(s)' = a.cl /\ auth'[s].attempts = a.attempts
    BY <1>3 DEF Record
  <2>2. PointerOK(s)
    BY DEF PointerInv
  <2>3. CASE a.cl = Record(s)
    BY <1>3, <1>4, <2>1, <2>2, <2>3, PointerTypes DEF PointerOK
  <2>4. CASE a.cl # Record(s)
    <3>1. pc[a.cl] \in PastAuth
      BY <1>3, <2>4 DEF PointerInv, EntryOK
    <3> QED BY <1>3, <1>4, <2>1, <2>4, <3>1 DEF PointerOK
  <2> QED BY <2>3, <2>4
<1>7. ASSUME NEW r \in Sessions, r # s PROVE PointerOK(r)'
  BY <1>3, <1>4, <1>7, PointerTypes DEF PointerInv, PointerOK, Record
<1>8. ASSUME NEW r \in Sessions PROVE (OwnerOK(r) /\ FreedOK(r))'
  <2>1. OwnerOK(r)'
    BY <1>2, <1>3, <1>4, PointerTypes DEF PointerInv, OwnerOK, Record
  <2>2. ASSUME cl[r].uid = Freed, pc'[r] # "refused"
        PROVE  \E q \in Sessions : q # r /\ pc'[q] = "refused" /\ Record(q)' = r
    <3>1. pc[r] # "refused"
      BY <1>4, <2>2
    <3>2. PICK q \in Sessions : q # r /\ pc[q] = "refused" /\ Record(q) = r
      BY <2>2, <3>1 DEF PointerInv, FreedOK
    <3> QED BY <1>3, <1>4, <3>2 DEF Record
  <2> QED BY <1>2, <2>1, <2>2 DEF FreedOK
<1> QED BY <1>5, <1>6, <1>7, <1>8 DEF PointerInv

LEMMA LoginPointers ==
  ASSUME TypeInv, PointerInv, NEW s \in Sessions, LogsIn(s)
  PROVE  PointerInv'
<1> DEFINE c == Record(s)
<1>1. c \in Sessions /\ Unset \notin Users /\ Freed \notin Users
  BY PointerTypes, NamesAreSet
<1>2. pc[s] \in {"confirm", "password"} /\ UNCHANGED <<auth, clients>>
  BY DEF LogsIn
<1>3. \A r \in Sessions : /\ cl'[r].uid = IF r = c THEN auth[s].username ELSE cl[r].uid
                          /\ cl'[r].req = IF r = c THEN s ELSE cl[r].req
  BY LoginTypes DEF LogsIn, TypeInv
<1>4. pc'[s] = "insert" /\ \A r \in Sessions : r # s => pc'[r] = pc[r]
  BY PointerTypes DEF LogsIn, Goto
<1>5. \A r \in Sessions : pc[r] \in PastAuth \cup {"insert", "refused"} => r # s /\ pc'[r] = pc[r]
  BY <1>2, <1>4 DEF PastAuth
<1>6. EntryOK'
  BY <1>2, <1>5, PointerTypes DEF PointerInv, EntryOK
<1>7. ASSUME NEW r \in Sessions PROVE (PointerOK(r) /\ OwnerOK(r) /\ FreedOK(r))'
  <2>1. PointerOK(r) /\ OwnerOK(r) /\ FreedOK(r) /\ Record(r)' = Record(r)
    BY <1>2 DEF PointerInv, Record
  <2>2. PointerOK(r)'
    BY <1>2, <1>4, <1>5, <2>1, PointerTypes DEF PointerOK
  <2>3. OwnerOK(r)'
    <3>1. CASE r = c
      BY <1>2, <1>3, <1>4, <2>1, <3>1 DEF OwnerOK, Record
    <3>2. CASE r # c
      BY <1>2, <1>3, <1>5, <2>1, <3>2, PointerTypes DEF OwnerOK, Record
    <3> QED BY <3>1, <3>2
  <2>4. ASSUME cl'[r].uid = Freed, pc'[r] # "refused"
        PROVE  \E q \in Sessions : q # r /\ pc'[q] = "refused" /\ Record(q)' = r
    <3>1. cl[r].uid = Freed /\ pc[r] # "refused"
      BY <1>1, <1>3, <1>5, <2>4 DEF LogsIn
    <3>2. PICK q \in Sessions : q # r /\ pc[q] = "refused" /\ Record(q) = r
      BY <2>1, <3>1 DEF FreedOK
    <3> QED BY <1>2, <1>5, <3>2 DEF Record
  <2> QED BY <2>2, <2>3, <2>4 DEF FreedOK
<1> QED BY <1>6, <1>7 DEF PointerInv

LEMMA CollidePointers ==
  ASSUME TypeInv, PointerInv, NEW s \in Sessions, Collides(s)
  PROVE  PointerInv'
<1>1. pc[s] = "confirm" /\ UNCHANGED <<auth, clients>> /\ Freed \notin Users
  BY NamesAreSet DEF Collides
<1>2. Record(s) = s
  BY <1>1 DEF PointerInv, PointerOK
<1>3. \A r \in Sessions : /\ cl'[r].uid = IF r = s THEN auth[s].username ELSE cl[r].uid
                          /\ cl'[r].req = cl[r].req
  BY <1>2, UidTypes DEF Collides, TypeInv
<1>4. pc'[s] = "cleanup" /\ \A r \in Sessions : r # s => pc'[r] = pc[r]
  BY PointerTypes DEF Collides, Goto
<1>5. \A r \in Sessions : pc[r] \in PastAuth \cup {"insert", "refused"} => r # s /\ pc'[r] = pc[r]
  BY <1>1, <1>4 DEF PastAuth
<1>6. EntryOK'
  BY <1>1, <1>5, PointerTypes DEF PointerInv, EntryOK
<1>7. ASSUME NEW r \in Sessions PROVE (PointerOK(r) /\ OwnerOK(r) /\ FreedOK(r))'
  <2>1. PointerOK(r) /\ OwnerOK(r) /\ FreedOK(r) /\ Record(r)' = Record(r)
    BY <1>1 DEF PointerInv, Record
  <2>2. PointerOK(r)'
    BY <1>1, <1>4, <1>5, <2>1, PointerTypes DEF PointerOK
  <2>3. OwnerOK(r)'
    BY <1>1, <1>3, <1>5, <2>1, PointerTypes DEF OwnerOK, Record
  <2>4. ASSUME cl'[r].uid = Freed, pc'[r] # "refused"
        PROVE  \E q \in Sessions : q # r /\ pc'[q] = "refused" /\ Record(q)' = r
    <3>1. cl[r].uid = Freed /\ pc[r] # "refused"
      BY <1>1, <1>3, <1>5, <2>4 DEF Collides
    <3>2. PICK q \in Sessions : q # r /\ pc[q] = "refused" /\ Record(q) = r
      BY <2>1, <3>1 DEF FreedOK
    <3> QED BY <1>1, <1>5, <3>2 DEF Record
  <2> QED BY <2>2, <2>3, <2>4 DEF FreedOK
<1> QED BY <1>6, <1>7 DEF PointerInv

(* A refused session frees a uid: its own, or that of the record it points   *)
(* to, to which it then is the witness.                                      *)
LEMMA CleanPointers ==
  ASSUME TypeInv, PointerInv, NEW s \in Sessions, Cleans(s)
  PROVE  PointerInv'
<1> DEFINE c == Record(s)
<1>1. pc[s] = "cleanup" /\ UNCHANGED <<auth, clients>> /\ c \in Sessions
  BY PointerTypes DEF Cleans
<1>2. \A r \in Sessions : /\ cl'[r].uid = cl[r].uid \/ (r = c /\ cl'[r].uid = Freed)
                          /\ cl'[r].req = cl[r].req
  BY <1>1, UidTypes DEF Cleans, SameRecords, TypeInv
<1>3. pc'[s] = "refused" /\ \A r \in Sessions : r # s => pc'[r] = pc[r]
  BY PointerTypes DEF Cleans, Goto
<1>4. \A r \in Sessions : pc[r] \in PastAuth \cup {"insert", "refused"} => r # s /\ pc'[r] = pc[r]
  BY <1>1, <1>3 DEF PastAuth
<1>5. EntryOK'
  BY <1>1, <1>4, PointerTypes DEF PointerInv, EntryOK
<1>6. ASSUME NEW r \in Sessions PROVE (PointerOK(r) /\ OwnerOK(r) /\ FreedOK(r))'
  <2>1. PointerOK(r) /\ OwnerOK(r) /\ FreedOK(r) /\ Record(r)' = Record(r)
    BY <1>1 DEF PointerInv, Record
  <2>2. PointerOK(r)'
    BY <1>1, <1>3, <1>4, <2>1, PointerTypes DEF PointerOK
  <2>3. OwnerOK(r)'
    BY <1>1, <1>2, <1>4, <2>1, PointerTypes DEF OwnerOK, Record
  <2>4. ASSUME cl'[r].uid = Freed, pc'[r] # "refused"
        PROVE  \E q \in Sessions : q # r /\ pc'[q] = "refused" /\ Record(q)' = r
    <3>1. r # s /\ pc[r] # "refused"
      BY <1>3, <1>4, <2>4
    <3>2. CASE cl[r].uid = Freed
      <4>1. PICK q \in Sessions : q # r /\ pc[q] = "refused" /\ Record(q) = r
        BY <2>1, <3>1, <3>2 DEF FreedOK
      <4> QED BY <1>1, <1>4, <4>1 DEF Record
    <3>3. CASE r = c
      BY <1>1, <1>3, <3>1, <3>3 DEF Record
    <3> QED BY <1>2, <2>4, <3>2, <3>3
  <2> QED BY <2>2, <2>3, <2>4 DEF FreedOK
<1> QED BY <1>5, <1>6 DEF PointerInv

(* The entries after an update of the list are old ones, or the session's. *)
LEMMA UpdatedList ==
  ASSUME TypeInv, NEW s \in Sessions, Inserts(s) \/ Erases(s)
  PROVE  /\ Len(clients') \in Nat
         /\ \A i \in 1..Len(clients') :
               (Inserts(s) /\ clients'[i] = s)
                \/ \E j \in 1..Len(clients) : clients'[i] = clients[j]
<1> DEFINE u == cl[s].uid
<1>1. clients \in Seq(Sessions) /\ Len(clients) \in Nat /\ MapTypes
  BY DEF TypeInv, MapTypes
<1>2. CASE Inserts(s)
  <2>1. CASE Found(u)
    <3>1. clients' = [clients EXCEPT ![Place(u)] = s] /\ Place(u) \in 1..Len(clients)
      BY <1>1, <1>2, <2>1, FoundEntry DEF Inserts
    <3> QED BY <1>1, <1>2, <3>1, Replaced
  <2>2. CASE ~Found(u)
    <3>1. clients' = Append(clients, s)
      BY <1>2, <2>2 DEF Inserts
    <3>2. Len(clients') = Len(clients) + 1 /\ clients'[Len(clients) + 1] = s
          /\ \A i \in 1..Len(clients) : clients'[i] = clients[i]
      BY <1>1, <3>1
    <3> QED BY <1>1, <1>2, <3>2
  <2> QED BY <2>1, <2>2
<1>3. CASE Erases(s)
  <2>1. CASE Found(u)
    <3>1. clients' = RemoveAt(clients, Place(u)) /\ Place(u) \in 1..Len(clients)
      BY <1>1, <1>3, <2>1, FoundEntry DEF Erases
    <3>2. Len(clients') = Len(clients) - 1
      BY <1>1, <3>1, Removed
    <3>3. ASSUME NEW i \in 1..Len(clients')
          PROVE \E j \in 1..Len(clients) : clients'[i] = clients[j]
      <4>1. clients'[i] = IF i < Place(u) THEN clients[i] ELSE clients[i + 1]
        BY <1>1, <3>1, <3>2, Removed
      <4>2. i \in 1..Len(clients) /\ i + 1 \in 1..Len(clients)
        BY <1>1, <3>2
      <4> QED BY <4>1, <4>2
    <3> QED BY <1>1, <3>1, <3>2, <3>3
  <2>2. CASE ~Found(u)
    BY <1>1, <1>3, <2>2 DEF Erases
  <2> QED BY <2>1, <2>2
<1> QED BY <1>2, <1>3

LEMMA UpdatePointers ==
  ASSUME TypeInv, PointerInv, NEW s \in Sessions, Inserts(s) \/ Erases(s)
  PROVE  PointerInv'
<1>1. pc[s] \in {"insert", "erase"} /\ UNCHANGED <<auth, cl>>
  BY DEF Inserts, Erases
<1>2. /\ pc'[s] \in {"assignId", "exit"}
      /\ \A r \in Sessions : r # s => pc'[r] = pc[r]
  BY PointerTypes DEF Inserts, Erases, Goto
<1>3. /\ \A r \in Sessions : pc[r] \in PastAuth => pc'[r] \in PastAuth
      /\ \A r \in Sessions : pc[r] = "refused" <=> pc'[r] = "refused"
      /\ pc'[s] \in PastAuth
  BY <1>1, <1>2 DEF PastAuth
<1>4. EntryOK'
  BY <1>3, UpdatedList, PointerTypes DEF PointerInv, EntryOK
<1>5. ASSUME NEW r \in Sessions PROVE (PointerOK(r) /\ OwnerOK(r) /\ FreedOK(r))'
  <2>1. PointerOK(r) /\ OwnerOK(r) /\ FreedOK(r) /\ Record(r)' = Record(r)
    BY <1>1 DEF PointerInv, Record
  <2>2. PointerOK(r)'
    BY <1>1, <1>2, <1>3, <2>1, PointerTypes DEF PointerOK
  <2>3. OwnerOK(r)'
    BY <1>1, <1>2, <1>3, <2>1, PointerTypes DEF OwnerOK, Record
  <2>4. FreedOK(r)'
    BY <1>1, <1>3, <2>1 DEF FreedOK, Record
  <2> QED BY <2>2, <2>3, <2>4
<1> QED BY <1>4, <1>5 DEF PointerInv

LEMMA PointerInitial == Init => PointerInv
<1> SUFFICES ASSUME Init PROVE PointerInv
  OBVIOUS
<1>1. clients = <<>> /\ \A s \in Sessions : cl[s].uid = Unset /\ cl[s].req = s /\ Record(s) = s
  BY DEF Init, Record
<1>2. EntryOK
  BY <1>1 DEF EntryOK
<1> QED BY <1>1, <1>2, NamesAreSet DEF PointerInv, PointerOK, OwnerOK, FreedOK

LEMMA PointerStep == TypeInv /\ PointerInv /\ [Next]_vars => PointerInv'
BY StepKinds, QuietPointers, PassPointers, AnswerPointers, LoginPointers, CollidePointers,
   CleanPointers, UpdatePointers DEF Kinds

-----------------------------------------------------------------------------
(* Uids are uids of accounts. *)

LEMMA AccountedInitial == Init => Accounted
<1> SUFFICES ASSUME Init PROVE Accounted
  OBVIOUS
<1>1. \A s \in Sessions : cl[s].uid = Unset /\ pc[s] = "new"
  BY DEF Init
<1> QED BY <1>1, NamesAreSet DEF Accounted

LEMMA AccountedStep == TypeInv /\ Accounted /\ [Next]_vars => Accounted'
<1> SUFFICES ASSUME TypeInv, Accounted, [Next]_vars PROVE Accounted'
  OBVIOUS
<1>1. CASE Quiet
  BY <1>1 DEF Quiet, SameRecords, Accounted
<1>2. ASSUME NEW s \in Sessions, Kinds(s) PROVE Accounted'
  <2>1. CASE Passes(s)
    <3>1. \A r \in Sessions : pc'[r] = "password" => pc[r] = "password"
      BY <2>1, PointerTypes DEF Passes, Goto, Stays, PastAuth
    <3> QED BY <2>1, <3>1 DEF Passes, SameRecords, Accounted
  <2>2. CASE Answers(s)
    <3>1. \A r \in Sessions : pc'[r] = "password" => auth'[r].username \in registered
      <4>1. PICK a : /\ auth' = [auth EXCEPT ![s] = a]
                     /\ pc'[s] = "password" => a.username \in registered
                     /\ \A r \in Sessions : r # s => pc'[r] = pc[r]
        BY <2>2, PointerTypes DEF Answers, Goto
      <4> QED BY <4>1 DEF Accounted, TypeInv, HandlerTypes
    <3> QED BY <2>2, <3>1 DEF Answers, Accounted
  <2>3. CASE LogsIn(s)
    <3>1. \A r \in Sessions : cl'[r].uid = IF r = Record(s) THEN auth[s].username ELSE cl[r].uid
      BY <2>3, LoginTypes DEF LogsIn, TypeInv
    <3>2. auth[s].username \in registered' /\ registered \subseteq registered'
      BY <2>3 DEF LogsIn, Accounted
    <3>3. UNCHANGED auth /\ \A r \in Sessions : pc'[r] = "password" => pc[r] = "password"
      BY <2>3, PointerTypes DEF LogsIn, Goto
    <3> QED BY <3>1, <3>2, <3>3 DEF Accounted
  <2>4. CASE Collides(s)
    <3>1. \A r \in Sessions : cl'[r].uid = IF r = Record(s) THEN auth[s].username ELSE cl[r].uid
      BY <2>4, UidTypes, RecordPointer DEF Collides, TypeInv
    <3>2. UNCHANGED <<registered, auth>> /\ auth[s].username \in registered
      BY <2>4 DEF Collides
    <3>3. \A r \in Sessions : pc'[r] = "password" => pc[r] = "password"
      BY <2>4, PointerTypes DEF Collides, Goto
    <3> QED BY <3>1, <3>2, <3>3 DEF Accounted
  <2>5. CASE Cleans(s)
    <3>1. \A r \in Sessions : cl'[r].uid = cl[r].uid \/ cl'[r].uid = Freed
      BY <2>5, UidTypes, RecordPointer DEF Cleans, SameRecords, TypeInv
    <3>2. /\ UNCHANGED <<registered, auth>>
          /\ \A r \in Sessions : pc'[r] = "password" => pc[r] = "password"
      BY <2>5, PointerTypes DEF Cleans, Goto
    <3> QED BY <3>1, <3>2, NamesAreSet DEF Accounted
  <2>6. CASE Inserts(s) \/ Erases(s)
    <3>1. \A r \in Sessions : pc'[r] = "password" => pc[r] = "password"
      BY <2>6, PointerTypes DEF Inserts, Erases, Goto
    <3> QED BY <2>6, <3>1 DEF Inserts, Erases, Accounted
  <2> QED BY <1>2, <2>1, <2>2, <2>3, <2>4, <2>5, <2>6 DEF Kinds
<1> QED BY <1>1, <1>2, StepKinds

(* However many attempts fail and whatever record they are written to, a uid *)
(* in a record is the uid of a row of the users table (server_auth.c:148-193, *)
(* 317-379).                                                                 *)
THEOREM UidsAreAccounts == Spec => []AccountsExist
<1>1. Accounted => AccountsExist
  BY DEF Accounted, AccountsExist
<1>2. Init => TypeInv /\ Accounted
  BY TypeInitial, AccountedInitial
<1>3. TypeInv /\ Accounted /\ [Next]_vars => (TypeInv /\ Accounted)'
  BY TypeStep, AccountedStep
<1> QED BY <1>1, <1>2, <1>3, PTL DEF Spec

-----------------------------------------------------------------------------
(* What was touched stays touched: the owner of a record does not get it     *)
(* back, since it logs in before anybody can point to it.                    *)
LEMMA UntouchedBefore ==
  ASSUME TypeInv, PointerInv, [Next]_vars, Untouched'
  PROVE  Untouched
<1>1. SUFFICES ASSUME NEW c \in Sessions, cl[c].req # c \/ (cl[c].uid = Freed /\ pc[c] # "refused")
               PROVE  FALSE
  BY DEF Untouched
<1>2. cl'[c].req = c /\ (cl'[c].uid = Freed => pc'[c] = "refused")
  BY DEF Untouched
<1>3. pc[c] \in PastAuth
  <2>1. CASE cl[c].req # c
    BY <2>1, PointerTypes DEF PointerInv, OwnerOK, PointerOK
  <2>2. CASE cl[c].uid = Freed /\ pc[c] # "refused"
    BY <2>2 DEF PointerInv, FreedOK, PointerOK
  <2> QED BY <1>1, <2>1, <2>2
<1>4. CASE Quiet
  BY <1>1, <1>2, <1>4 DEF Quiet, SameRecords
<1>5. ASSUME NEW s \in Sessions, Kinds(s) PROVE FALSE
  <2>1. pc'[c] # "refused"
    BY <1>3, <1>5, PointerTypes
       DEF Kinds, Passes, Answers, LogsIn, Collides, Cleans, Inserts, Erases, Goto,
           Asked, Stays, PastAuth
  <2>2. CASE Passes(s) \/ Answers(s) \/ Inserts(s) \/ Erases(s)
    BY <1>1, <1>2, <2>1, <2>2 DEF Passes, SameRecords, Answers, Inserts, Erases
  <2>3. CASE LogsIn(s)
    <3>1. c # s
      BY <1>3, <2>3 DEF LogsIn, PastAuth
    <3>2. /\ cl'[c].uid = IF c = Record(s) THEN auth[s].username ELSE cl[c].uid
          /\ cl'[c].req = IF c = Record(s) THEN s ELSE cl[c].req
      BY <2>3, LoginTypes DEF LogsIn, TypeInv
    <3> QED BY <1>1, <1>2, <2>1, <3>1, <3>2
  <2>4. CASE Collides(s)
    <3>1. c # s /\ Record(s) = s
      BY <1>3, <2>4 DEF Collides, PastAuth, PointerInv, PointerOK
    <3>2. cl'[c].uid = cl[c].uid /\ cl'[c].req = cl[c].req
      BY <2>4, <3>1, UidTypes DEF Collides, TypeInv
    <3> QED BY <1>1, <1>2, <2>1, <3>2
  <2>5. CASE Cleans(s)
    <3>1. /\ cl'[c].uid = cl[c].uid \/ cl'[c].uid = Freed
          /\ cl'[c].req = cl[c].req
      BY <2>5, UidTypes, RecordPointer DEF Cleans, SameRecords, TypeInv
    <3> QED BY <1>1, <1>2, <2>1, <3>1
  <2> QED BY <1>5, <2>2, <2>3, <2>4, <2>5 DEF Kinds
<1> QED BY <1>4, <1>5, StepKinds

(* A dialogue that has touched another's record is astray. *)
LEMMA NobodyTouches == PointerInv /\ TypeInv /\ NobodyAstray => Untouched
<1> SUFFICES ASSUME PointerInv, TypeInv, NobodyAstray, NEW c \in Sessions
             PROVE  cl[c].req = c /\ (cl[c].uid = Freed => pc[c] = "refused")
  BY DEF Untouched
<1>1. ASSUME cl[c].req # c PROVE FALSE
  BY <1>1, PointerTypes DEF PointerInv, OwnerOK, PointerOK, NobodyAstray, Astray
<1>2. ASSUME cl[c].uid = Freed, pc[c] # "refused" PROVE FALSE
  <2>1. PICK r \in Sessions : r # c /\ pc[r] = "refused" /\ Record(r) = c
    BY <1>2 DEF PointerInv, FreedOK
  <2> QED BY <1>2, <2>1 DEF PointerInv, PointerOK, NobodyAstray, Astray
<1> QED BY <1>1, <1>2

-----------------------------------------------------------------------------
(* While every record is its session's own, it has the uid its session has   *)
(* logged in with.                                                           *)
LEMMA OwnUidStep ==
  ASSUME TypeInv, PointerInv, [Next]_vars, Untouched', \A s \in Sessions : OwnUid(s)
  PROVE  \A s \in Sessions : OwnUid(s)'
<1>1. CASE Quiet
  BY <1>1 DEF Quiet, SameRecords, OwnUid
<1>2. ASSUME NEW s \in Sessions, Kinds(s), NEW r \in Sessions, cl'[r].uid \in Users
      PROVE  cl'[r].uid = auth'[r].username /\ pc'[r] \in PastAuth \cup {"insert", "cleanup"}
  <2>1. cl[r].uid \in Users => /\ cl[r].uid = auth[r].username
                               /\ pc[r] \in PastAuth \cup {"insert", "cleanup"}
    BY DEF OwnUid
  <2>2. CASE Passes(s)
    <3>1. UNCHANGED auth /\ cl'[r].uid = cl[r].uid
      BY <2>2 DEF Passes, SameRecords
    <3>2. pc'[r] \in PastAuth \cup {"insert", "cleanup"}
      BY <1>2, <2>1, <2>2, <3>1, PointerTypes, NamesAreSet DEF Passes, Goto, Asked, Stays, PastAuth
    <3> QED BY <1>2, <2>1, <3>1, <3>2
  <2>3. CASE Answers(s)
    <3>1. cl'[r].uid = cl[r].uid /\ pc[s] \in Asked
      BY <2>3 DEF Answers
    <3>2. r # s
      BY <1>2, <2>1, <3>1 DEF Asked, PastAuth
    <3>3. auth'[r] = auth[r] /\ pc'[r] = pc[r]
      BY <2>3, <3>2, PointerTypes DEF Answers, Goto, TypeInv, HandlerTypes
    <3> QED BY <1>2, <2>1, <3>1, <3>3
  <2>4. CASE LogsIn(s)
    <3>1. \A c \in Sessions : /\ cl'[c].uid = IF c = Record(s) THEN auth[s].username ELSE cl[c].uid
                              /\ cl'[c].req = IF c = Record(s) THEN s ELSE cl[c].req
      BY <2>4, LoginTypes DEF LogsIn, TypeInv
    <3>2. Record(s) = s
      BY <3>1, PointerTypes DEF Untouched
    <3>3. pc'[s] = "insert" /\ (r # s => pc'[r] = pc[r]) /\ UNCHANGED auth
      BY <2>4, PointerTypes DEF LogsIn, Goto
    <3> QED BY <1>2, <2>1, <3>1, <3>2, <3>3
  <2>5. CASE Collides(s)
    <3>1. Record(s) = s
      BY <2>5 DEF Collides, PointerInv, PointerOK
    <3>2. cl'[r].uid = IF r = s THEN auth[s].username ELSE cl[r].uid
      BY <2>5, <3>1, UidTypes DEF Collides, TypeInv
    <3>3. pc'[s] = "cleanup" /\ (r # s => pc'[r] = pc[r]) /\ UNCHANGED auth
      BY <2>5, PointerTypes DEF Collides, Goto
    <3> QED BY <1>2, <2>1, <3>2, <3>3
  <2>6. CASE Cleans(s)
    <3>1. pc'[s] = "refused" /\ (r # s => pc'[r] = pc[r]) /\ UNCHANGED auth
      BY <2>6, PointerTypes DEF Cleans, Goto
    <3>2. ASSUME Record(s) = s PROVE r # s /\ cl'[r].uid = cl[r].uid
      <4>1. CASE SameRecords /\ cl[s].uid = Unset
        BY <1>2, <4>1, NamesAreSet DEF SameRecords
      <4>2. CASE cl' = WithUid(s, Freed)
        <5>1. cl'[r].uid = IF r = s THEN Freed ELSE cl[r].uid
          BY <4>2, UidTypes DEF TypeInv
        <5> QED BY <1>2, <5>1, NamesAreSet
      <4> QED BY <2>6, <3>2, <4>1, <4>2 DEF Cleans
    <3>3. CASE Record(s) # s
      <4>1. pc[Record(s)] \in PastAuth /\ pc'[Record(s)] # "refused" /\ cl[Record(s)].uid # Unset
        BY <2>6, <3>3, PointerTypes DEF PointerInv, PointerOK, Cleans, Goto, PastAuth
      <4>2. cl'[Record(s)].uid = Freed
        BY <2>6, <4>1, UidTypes, PointerTypes DEF Cleans, TypeInv
      <4> QED BY <4>1, <4>2, PointerTypes DEF Untouched
    <3> QED BY <1>2, <2>1, <3>1, <3>2, <3>3
  <2>7. CASE Inserts(s) \/ Erases(s)
    <3>1. /\ pc[s] \in {"insert", "erase"} /\ pc'[s] \in PastAuth /\ (r # s => pc'[r] = pc[r])
          /\ UNCHANGED <<auth, cl>>
      BY <2>7, PointerTypes DEF Inserts, Erases, Goto, PastAuth
    <3> QED BY <1>2, <2>1, <3>1
  <2> QED BY <1>2, <2>2, <2>3, <2>4, <2>5, <2>6, <2>7 DEF Kinds
<1> QED BY <1>1, <1>2, StepKinds DEF OwnUid

(* What an entry's or a recipient's session does not lose. *)
LEMMA PastUids ==
  ASSUME TypeInv, PointerInv, [Next]_vars, Untouched', NEW c \in Sessions, pc[c] \in PastAuth
  PROVE  cl'[c].uid = cl[c].uid /\ pc'[c] \in PastAuth
<1>1. CASE Quiet
  BY <1>1 DEF Quiet, SameRecords
<1>2. ASSUME NEW s \in Sessions, Kinds(s) PROVE cl'[c].uid = cl[c].uid /\ pc'[c] \in PastAuth
  <2>1. pc'[c] \in PastAuth
    BY <1>2, PointerTypes
       DEF Kinds, Passes, Answers, LogsIn, Collides, Cleans, Inserts, Erases, Goto,
           Asked, Stays, PastAuth
  <2>2. CASE Passes(s) \/ Answers(s) \/ Inserts(s) \/ Erases(s)
    BY <2>1, <2>2 DEF Passes, SameRecords, Answers, Inserts, Erases
  <2>3. CASE LogsIn(s)
    <3>1. c # s
      BY <2>3 DEF LogsIn, PastAuth
    <3>2. /\ cl'[c].uid = IF c = Record(s) THEN auth[s].username ELSE cl[c].uid
          /\ cl'[c].req = IF c = Record(s) THEN s ELSE cl[c].req
      BY <2>3, LoginTypes DEF LogsIn, TypeInv
    <3> QED BY <2>1, <3>1, <3>2 DEF Untouched
  <2>4. CASE Collides(s)
    <3>1. c # s /\ Record(s) = s
      BY <2>4 DEF Collides, PastAuth, PointerInv, PointerOK
    <3> QED BY <2>1, <2>4, <3>1, UidTypes DEF Collides, TypeInv
  <2>5. CASE Cleans(s)
    <3>1. cl'[c].uid = cl[c].uid \/ cl'[c].uid = Freed
      BY <2>5, UidTypes, RecordPointer DEF Cleans, SameRecords, TypeInv
    <3>2. cl'[c].uid # Freed
      BY <2>1 DEF Untouched, PastAuth
    <3> QED BY <2>1, <3>1, <3>2
  <2> QED BY <1>2, <2>2, <2>3, <2>4, <2>5 DEF Kinds
<1> QED BY <1>1, <1>2, StepKinds

LEMMA ListKept ==
  ASSUME TypeInv, PointerInv, [Next]_vars, Untouched', Listed, Quiet \/ UNCHANGED clients,
         \A c \in Sessions : pc[c] \in Stays => pc'[c] \in Stays
  PROVE  Listed'
<1>1. UNCHANGED clients
  BY DEF Quiet
<1>2. \A i \in 1..Len(clients) : /\ clients[i] \in Sessions /\ pc'[clients[i]] \in Stays
                                 /\ cl'[clients[i]].uid = cl[clients[i]].uid
  BY PointerTypes, PastUids DEF Listed, Stays
<1> QED BY <1>1, <1>2 DEF Listed

LEMMA InsertedList ==
  ASSUME TypeInv, Listed, NEW s \in Sessions, Inserts(s)
  PROVE  Listed'
<1> DEFINE u == cl[s].uid
           n == Len(clients)
<1>1. /\ clients \in Seq(Sessions) /\ n \in Nat /\ MapTypes /\ UNCHANGED cl
      /\ \A i \in 1..n : pc[clients[i]] \in Stays /\ clients[i] \in Sessions
  BY PointerTypes DEF TypeInv, MapTypes, Inserts, Listed
<1>2. pc'[s] \in Stays /\ \A r \in Sessions : pc[r] \in Stays => pc'[r] \in Stays
  BY PointerTypes DEF Inserts, Goto, Stays, PastAuth
<1>3. \A i, j \in 1..n : cl[clients[i]].uid = cl[clients[j]].uid => i = j
  BY DEF Listed
<1>4. CASE Found(u)
  <2>1. clients' = [clients EXCEPT ![Place(u)] = s] /\ Place(u) \in 1..n
        /\ cl[clients[Place(u)]].uid = u
    BY <1>1, <1>4, FoundEntry DEF Inserts
  <2>2. Len(clients') = n /\ \A i \in 1..n : clients'[i] = IF i = Place(u) THEN s ELSE clients[i]
    BY <1>1, <2>1, Replaced
  <2>3. \A i \in 1..n : pc'[clients'[i]] \in Stays /\ cl'[clients'[i]].uid = cl[clients[i]].uid
    BY <1>1, <1>2, <2>1, <2>2
  <2> QED BY <1>3, <2>2, <2>3 DEF Listed
<1>5. CASE ~Found(u)
  <2>1. clients' = Append(clients, s)
    BY <1>5 DEF Inserts
  <2>2. /\ Len(clients') = n + 1 /\ clients'[n + 1] = s
        /\ \A i \in 1..n : clients'[i] = clients[i]
    BY <1>1, <2>1
  <2>3. \A i \in 1..n : cl[clients[i]].uid # u
    <3>1. Place(u) = n + 1
      BY <1>1, <1>5, WalkEnds DEF Found
    <3> QED BY <1>1, <3>1, WalkEnds
  <2>4. \A i \in 1..(n + 1) : pc'[clients'[i]] \in Stays
    BY <1>1, <1>2, <2>2
  <2>5. \A i, j \in 1..(n + 1) : cl'[clients'[i]].uid = cl'[clients'[j]].uid => i = j
    <3>1. \A i \in 1..(n + 1) : i = n + 1 \/ i \in 1..n
      BY <1>1
    <3> QED BY <1>1, <1>3, <2>2, <2>3, <3>1
  <2> QED BY <2>2, <2>4, <2>5 DEF Listed
<1> QED BY <1>4, <1>5

(* The entry that is removed is the session's own, if it has one. *)
LEMMA ErasedList ==
  ASSUME TypeInv, Listed, NEW s \in Sessions, Erases(s)
  PROVE  Listed'
<1> DEFINE u == cl[s].uid
           n == Len(clients)
<1>1. /\ clients \in Seq(Sessions) /\ n \in Nat /\ MapTypes /\ UNCHANGED cl
      /\ \A i \in 1..n : pc[clients[i]] \in Stays /\ clients[i] \in Sessions
  BY PointerTypes DEF TypeInv, MapTypes, Erases, Listed
<1>2. \A r \in Sessions : r # s => pc'[r] = pc[r]
  BY PointerTypes DEF Erases, Goto
<1>3. \A i, j \in 1..n : cl[clients[i]].uid = cl[clients[j]].uid => i = j
  BY DEF Listed
<1>4. CASE Found(u)
  <2>1. /\ clients' = RemoveAt(clients, Place(u)) /\ Place(u) \in 1..n
        /\ cl[clients[Place(u)]].uid = u
    BY <1>1, <1>4, FoundEntry DEF Erases
  <2> DEFINE from(i) == IF i < Place(u) THEN i ELSE i + 1
  <2>2. Len(clients') = n - 1
    BY <1>1, <2>1, Removed
  <2>3. ASSUME NEW i \in 1..(n - 1)
        PROVE  from(i) \in 1..n /\ from(i) # Place(u) /\ clients'[i] = clients[from(i)]
    <3>1. clients'[i] = IF i < Place(u) THEN clients[i] ELSE clients[i + 1]
      BY <1>1, <2>1, Removed
    <3> QED BY <1>1, <2>1, <3>1
  <2>4. \A i, j \in 1..(n - 1) : from(i) = from(j) => i = j
    BY <1>1, <2>1
  <2> HIDE DEF from
  <2>5. ASSUME NEW i \in 1..(n - 1) PROVE pc'[clients'[i]] \in Stays
    <3>1. clients[from(i)] # s
      BY <1>3, <2>1, <2>3
    <3> QED BY <1>1, <1>2, <2>3, <3>1
  <2>6. ASSUME NEW i \in 1..(n - 1), NEW j \in 1..(n - 1),
               cl'[clients'[i]].uid = cl'[clients'[j]].uid
        PROVE  i = j
    <3>1. from(i) = from(j)
      BY <1>1, <1>3, <2>3, <2>6
    <3> QED BY <2>4, <3>1
  <2> QED BY <2>2, <2>5, <2>6 DEF Listed
<1>5. CASE ~Found(u)
  <2>1. \A i \in 1..n : cl[clients[i]].uid # u
    <3>1. Place(u) = n + 1
      BY <1>1, <1>5, WalkEnds DEF Found
    <3> QED BY <1>1, <3>1, WalkEnds
  <2>2. \A i \in 1..n : clients[i] # s
    BY <2>1
  <2>3. clients' = clients
    BY <1>5 DEF Erases
  <2> QED BY <1>1, <1>2, <1>3, <2>2, <2>3 DEF Listed
<1> QED BY <1>4, <1>5

LEMMA ListedStep ==
  ASSUME TypeInv, PointerInv, [Next]_vars, Untouched', Listed
  PROVE  Listed'
<1>1. CASE Quiet
  BY <1>1, ListKept DEF Quiet
<1>2. ASSUME NEW s \in Sessions, Passes(s) \/ Answers(s) \/ LogsIn(s) \/ Collides(s) \/ Cleans(s)
      PROVE  Listed'
  <2>1. \A c \in Sessions : pc[c] \in Stays => pc'[c] \in Stays
    BY <1>2, PointerTypes
       DEF Passes, Answers, LogsIn, Collides, Cleans, Goto, Asked, Stays, PastAuth
  <2>2. UNCHANGED clients
    BY <1>2 DEF Passes, Answers, LogsIn, Collides, Cleans
  <2> QED BY <2>1, <2>2, ListKept
<1> QED BY <1>1, <1>2, StepKinds, InsertedList, ErasedList DEF Kinds

(* The router sends to what it has found, which does not change under it.    *)
LEMMA RouterSends ==
  ASSUME TypeInv, [Next]_vars, router'.pc = "send"
  PROVE  \/ router' = router
         \/ /\ Found(router.msg.to) /\ UNCHANGED <<pc, cl>>
            /\ router'.msg = router.msg /\ router'.cl = clients[Place(router.msg.to)]
<1>1. CASE RouterFind
  <2>1. ASSUME Found(router.msg.to), UNCHANGED <<pc, cl>>,
               router' = [router EXCEPT !.pc = "send", !.cl = clients[Place(router.msg.to)]]
        PROVE  router'.msg = router.msg /\ router'.cl = clients[Place(router.msg.to)]
    BY <2>1 DEF TypeInv, ServiceTypes
  <2>2. ~RouterDrop
    BY DEF RouterDrop
  <2> QED BY <1>1, <2>1, <2>2, AbortKeeps DEF RouterFind, AfterWalk, handlerVars
<1>2. CASE RouterPop \/ RouterSend \/ RouterMark \/ RouterFree
  <2>1. ~RouterDrop /\ \A to \in {"find", "mark", "free"} : ~RouterGoto(to)
    BY DEF RouterDrop, RouterGoto, TypeInv, ServiceTypes
  <2>2. ~RouterPop
    BY DEF RouterPop, TypeInv, ServiceTypes
  <2> QED BY <1>2, <2>1, <2>2, AbortKeeps DEF RouterSend, RouterMark, RouterFree
<1>3. ASSUME NEW s \in Sessions, Client(s) PROVE router' = router
  BY <1>3, AbortKeeps
     DEF Client, Accept, AbandonLogin, EnterUsername, CheckOnline, AfterWalk, Choose, Confirm,
         Password,
         ReceiveAck, Disconnect, ReceiveText, Reads, serviceVars
<1>4. ASSUME NEW s \in Sessions, HandlerRuns(s) PROVE router' = router
  BY <1>4, AbortKeeps
     DEF HandlerRuns, Cleanup, Insert, Insertion, AssignId, JoinLock, JoinVisit, JoinDone, SetReady,
         EraseEntry, Exit, AfterWalk, Reads, serviceVars
<1>5. CASE PingerRuns
  BY <1>5, AbortKeeps
     DEF PingerRuns, PingerLock, SendPing, KickUnresponsive, PingerUnlock, serviceVars
<1>6. CASE CliRuns \/ Command
  BY <1>6, AbortKeeps
     DEF CliRuns, CliSendQuit, CliVisit, CliUnlock, Command, CliKick, CliLock,
         AfterWalk, serviceVars
<1>7. CASE UNCHANGED vars
  BY <1>7 DEF vars, serviceVars
<1> QED BY <1>1, <1>2, <1>3, <1>4, <1>5, <1>6, <1>7 DEF Next, Routing, RouterRuns

LEMMA AddressedStep ==
  ASSUME TypeInv, PointerInv, [Next]_vars, Untouched', Addressed
  PROVE  Addressed'
<1> SUFFICES ASSUME router'.pc = "send"
             PROVE  cl'[router'.cl].uid = router'.msg.to /\ pc'[router'.cl] \in PastAuth
  BY DEF Addressed
<1>1. CASE router' = router
  <2>1. router.cl \in Sessions /\ router.pc = "send"
    BY <1>1 DEF TypeInv, ServiceTypes
  <2> QED BY <1>1, <2>1, PastUids DEF Addressed
<1>2. CASE /\ Found(router.msg.to) /\ UNCHANGED <<pc, cl>>
           /\ router'.msg = router.msg /\ router'.cl = clients[Place(router.msg.to)]
  <2>1. /\ Place(router.msg.to) \in 1..Len(clients)
        /\ cl[clients[Place(router.msg.to)]].uid = router.msg.to
    BY <1>2, FoundEntry DEF TypeInv
  <2> QED BY <1>2, <2>1 DEF PointerInv, EntryOK
<1> QED BY <1>1, <1>2, RouterSends

-----------------------------------------------------------------------------
(* The new list has the old entries but for one with the session's uid, and   *)
(* who inserts has an entry.                                                 *)
LEMMA EntriesAfter ==
  ASSUME TypeInv, NEW s \in Sessions, Inserts(s) \/ Erases(s)
  PROVE  /\ \A i \in 1..Len(clients) :
              \/ cl[clients[i]].uid = cl[s].uid
              \/ \E k \in 1..Len(clients') : clients'[k] = clients[i]
         /\ Inserts(s) => HasEntry(s)'
<1> DEFINE u == cl[s].uid
           n == Len(clients)
<1>1. clients \in Seq(Sessions) /\ n \in Nat /\ MapTypes
  BY DEF TypeInv, MapTypes
<1>2. CASE ~Found(u)
  <2>1. CASE Inserts(s)
    <3>1. clients' = Append(clients, s)
      BY <1>2, <2>1 DEF Inserts
    <3>2. /\ Len(clients') = n + 1 /\ clients'[n + 1] = s
          /\ \A i \in 1..n : clients'[i] = clients[i] /\ i \in 1..(n + 1)
      BY <1>1, <3>1
    <3>3. n + 1 \in 1..Len(clients')
      BY <1>1, <3>2
    <3> QED BY <2>1, <3>2, <3>3 DEF HasEntry
  <2>2. CASE Erases(s)
    <3>1. clients' = clients /\ ~Inserts(s)
      BY <1>2, <2>2 DEF Erases, Inserts
    <3> QED BY <3>1
  <2> QED BY <2>1, <2>2
<1>3. CASE Found(u)
  <2>1. Place(u) \in 1..n /\ cl[clients[Place(u)]].uid = u
    BY <1>1, <1>3, FoundEntry
  <2>2. CASE Inserts(s)
    <3>1. clients' = [clients EXCEPT ![Place(u)] = s]
      BY <1>3, <2>2 DEF Inserts
    <3>2. Len(clients') = n /\ \A i \in 1..n : clients'[i] = IF i = Place(u) THEN s ELSE clients[i]
      BY <1>1, <2>1, <3>1, Replaced
    <3> QED BY <2>1, <2>2, <3>2 DEF HasEntry
  <2>3. CASE Erases(s)
    <3>1. clients' = RemoveAt(clients, Place(u)) /\ ~Inserts(s)
      BY <1>3, <2>3 DEF Erases, Inserts
    <3>2. /\ Len(clients') = n - 1
          /\ \A i \in 1..(n - 1) : clients'[i] = IF i < Place(u) THEN clients[i] ELSE clients[i + 1]
      BY <1>1, <2>1, <3>1, Removed
    <3>3. ASSUME NEW i \in 1..n, i # Place(u)
          PROVE  \E k \in 1..Len(clients') : clients'[k] = clients[i]
      <4>1. CASE i < Place(u)
        <5>1. i \in 1..(n - 1) /\ clients'[i] = clients[i]
          BY <1>1, <2>1, <3>2, <4>1
        <5> QED BY <3>2, <5>1
      <4>2. CASE i > Place(u)
        <5>1. i - 1 \in 1..(n - 1) /\ ~(i - 1 < Place(u)) /\ (i - 1) + 1 = i
          BY <1>1, <2>1, <4>2
        <5>2. clients'[i - 1] = clients[i]
          BY <3>2, <5>1
        <5> QED BY <3>2, <5>1, <5>2
      <4> QED BY <1>1, <2>1, <3>3, <4>1, <4>2
    <3> QED BY <2>1, <3>1, <3>3
  <2> QED BY <2>2, <2>3
<1> QED BY <1>2, <1>3

(* Nothing changes for those in the map, and nobody joins them. *)
LEMMA ReachKept ==
  ASSUME TypeInv, PointerInv, [Next]_vars, Untouched', Reached, UNCHANGED <<clients, rivals>>,
         \A c \in Sessions : /\ pc'[c] \in Stays => pc[c] \in Stays
                             /\ pc[c] \in {"exit", "gone"} => pc'[c] \in {"exit", "gone"},
         \A i \in 1..Len(clients) : pc[clients[i]] \in PastAuth,
         rivals \subseteq Sessions
  PROVE  Reached'
<1>1. \A c \in Sessions : pc[c] \in PastAuth => cl'[c].uid = cl[c].uid
  BY PastUids
<1>2. \A c \in Sessions : pc[c] \in Stays \cup {"exit", "gone"} => cl'[c].uid = cl[c].uid
  BY <1>1 DEF Stays, PastAuth
<1>3. RivalsMet'
  BY <1>2 DEF Reached, RivalsMet
<1>4. ASSUME NEW s \in Sessions, pc'[s] \in Stays
      PROVE  (s \notin rivals' => HasEntry(s)') /\ (UserHasEntry(s)' \/ RivalLeft(s)')
  <2>1. /\ s \notin rivals => HasEntry(s)
        /\ UserHasEntry(s) \/ RivalLeft(s)
        /\ cl'[s].uid = cl[s].uid
    BY <1>2, <1>4 DEF Reached, Reach
  <2>2. UserHasEntry(s) => UserHasEntry(s)'
    BY <1>1, <2>1, PointerTypes DEF UserHasEntry
  <2>3. RivalLeft(s) => RivalLeft(s)'
    BY <1>2, <2>1 DEF RivalLeft
  <2>4. HasEntry(s) => HasEntry(s)'
    BY DEF HasEntry
  <2> QED BY <2>1, <2>2, <2>3, <2>4
<1> QED BY <1>3, <1>4 DEF Reached, Reach

LEMMA ReachUpdated ==
  ASSUME TypeInv, PointerInv, [Next]_vars, Untouched', Reached,
         NEW t \in Sessions, Inserts(t) \/ Erases(t)
  PROVE  Reached'
<1>1. /\ UNCHANGED cl /\ rivals \subseteq rivals' /\ pc[t] \in {"insert", "erase"}
      /\ Erases(t) => UNCHANGED rivals /\ pc[t] = "erase"
      /\ Inserts(t) => Meets(t)
  BY DEF Inserts, Erases, Meets
<1>2. /\ \A r \in Sessions : r # t => pc'[r] = pc[r]
      /\ pc'[t] = IF Inserts(t) THEN "assignId" ELSE "exit"
      /\ pc[t] = "insert" <=> Inserts(t)
  BY PointerTypes DEF Inserts, Erases, Goto
<1>3. ASSUME Inserts(t), NEW r \in Sessions, r # t, pc[r] \in Stays, cl[r].uid = cl[t].uid
      PROVE  t \in rivals' /\ r \in rivals'
  <2>1. r \in Fellows(t)
    BY <1>3 DEF Fellows, Inserted, Stays, PastAuth
  <2> QED BY <1>1, <1>3, <2>1 DEF Meets
<1>4. RivalsMet'
  <2> SUFFICES ASSUME NEW s \in Sessions, NEW r \in Sessions, s # r, pc'[s] \in Stays,
                      pc'[r] \in Stays, cl[s].uid = cl[r].uid
               PROVE  s \in rivals' /\ r \in rivals'
    BY <1>1 DEF RivalsMet
  <2>1. CASE s # t /\ r # t
    BY <1>1, <1>2, <2>1 DEF Reached, RivalsMet
  <2>2. CASE s = t \/ r = t
    <3>1. Inserts(t)
      BY <1>2, <2>2 DEF Stays
    <3> QED BY <1>2, <1>3, <2>2, <3>1
  <2> QED BY <2>1, <2>2
<1>5. ASSUME NEW s \in Sessions, pc'[s] \in Stays
      PROVE  (s \notin rivals' => HasEntry(s)') /\ (UserHasEntry(s)' \/ RivalLeft(s)')
  <2>1. CASE s = t
    <3>1. HasEntry(t)'
      BY <1>2, <1>5, <2>1, EntriesAfter DEF Stays
    <3> QED BY <2>1, <3>1 DEF HasEntry, UserHasEntry
  <2>2. CASE s # t
    <3>1. /\ pc[s] \in Stays
          /\ s \notin rivals => HasEntry(s)
          /\ UserHasEntry(s) \/ RivalLeft(s)
      BY <1>2, <1>5, <2>2 DEF Reached, Reach
    <3>2. ASSUME cl[s].uid = cl[t].uid PROVE s \in rivals' /\ t \in rivals'
      <4>1. CASE Inserts(t)
        BY <1>3, <2>2, <3>1, <3>2, <4>1
      <4>2. CASE Erases(t)
        <5>1. pc[t] \in Stays
          BY <1>1, <4>2 DEF Stays, PastAuth
        <5> QED BY <1>1, <2>2, <3>1, <3>2, <5>1 DEF Reached, RivalsMet
      <4> QED BY <4>1, <4>2
    <3>3. ASSUME s \notin rivals' PROVE HasEntry(s)'
      <4>1. PICK i \in 1..Len(clients) : clients[i] = s
        BY <1>1, <3>1, <3>3 DEF HasEntry
      <4> QED BY <3>2, <3>3, <4>1, EntriesAfter DEF HasEntry
    <3>4. CASE RivalLeft(s)
      <4>1. PICK r \in rivals \ {s} : pc[r] \in {"exit", "gone"} /\ cl[r].uid = cl[s].uid
        BY <3>4 DEF RivalLeft
      <4>2. r # t /\ r \in Sessions
        BY <1>1, <4>1 DEF TypeInv, EnvTypes
      <4> QED BY <1>1, <3>3, <1>2, <4>1, <4>2 DEF RivalLeft
    <3>5. CASE UserHasEntry(s)
      <4>1. PICK i \in 1..Len(clients) : cl[clients[i]].uid = cl[s].uid
        BY <3>5 DEF UserHasEntry
      <4>2. CASE \E k \in 1..Len(clients') : clients'[k] = clients[i]
        BY <1>1, <3>3, <4>1, <4>2 DEF UserHasEntry
      <4>3. CASE cl[clients[i]].uid = cl[t].uid /\ Inserts(t)
        <5>1. \E k \in 1..Len(clients') : clients'[k] = t
          BY <4>3, EntriesAfter DEF HasEntry
        <5> QED BY <1>1, <3>3, <4>1, <4>3, <5>1 DEF UserHasEntry
      <4>4. CASE cl[clients[i]].uid = cl[t].uid /\ Erases(t)
        <5>1. t \in rivals' \ {s} /\ pc'[t] = "exit" /\ cl'[t].uid = cl'[s].uid
          BY <1>1, <1>2, <2>2, <3>2, <4>1, <4>4
        <5> QED BY <3>3, <5>1 DEF RivalLeft
      <4> QED BY <4>2, <4>3, <4>4, EntriesAfter
    <3> QED BY <3>1, <3>3, <3>4, <3>5
  <2> QED BY <2>1, <2>2
<1> QED BY <1>4, <1>5 DEF Reached, Reach

LEMMA ReachedStep ==
  ASSUME TypeInv, PointerInv, [Next]_vars, Untouched', Reached
  PROVE  Reached'
<1>1. /\ \A i \in 1..Len(clients) : pc[clients[i]] \in PastAuth
      /\ rivals \subseteq Sessions
  BY DEF PointerInv, EntryOK, TypeInv, EnvTypes
<1>2. CASE Quiet
  <2>1. UNCHANGED <<pc, clients, rivals>>
    BY <1>2 DEF Quiet
  <2> QED BY <1>1, <2>1, ReachKept
<1>3. ASSUME NEW s \in Sessions, Passes(s) \/ Answers(s) \/ LogsIn(s) \/ Collides(s) \/ Cleans(s)
      PROVE  Reached'
  <2>1. \A c \in Sessions : /\ pc'[c] \in Stays => pc[c] \in Stays
                            /\ pc[c] \in {"exit", "gone"} => pc'[c] \in {"exit", "gone"}
    BY <1>3, PointerTypes
       DEF Passes, Answers, LogsIn, Collides, Cleans, Goto, Asked, Stays, PastAuth
  <2>2. UNCHANGED <<clients, rivals>>
    BY <1>3 DEF Passes, Answers, LogsIn, Collides, Cleans
  <2> QED BY <1>1, <2>1, <2>2, ReachKept
<1> QED BY <1>2, <1>3, StepKinds, ReachUpdated DEF Kinds

-----------------------------------------------------------------------------
(* Nobody writes to the record of a session that is not past its login but   *)
(* the session.                                                              *)
LEMMA OwnedStep == TypeInv /\ PointerInv /\ Owned /\ [Next]_vars => Owned'
<1> SUFFICES ASSUME TypeInv, PointerInv, Owned, [Next]_vars, NEW q \in Sessions
             PROVE  OwnOK(q)'
  BY DEF Owned
<1>1. OwnOK(q) /\ Record(q) \in Sessions
  BY PointerTypes DEF Owned
<1>2. CASE Quiet
  BY <1>1, <1>2 DEF Quiet, SameRecords, OwnOK, Record
<1>3. ASSUME NEW s \in Sessions, Kinds(s) PROVE OwnOK(q)'
  <2>1. CASE q # s
    <3>1. pc'[q] = pc[q] /\ Record(q)' = Record(q)
      BY <1>3, <2>1, PointerTypes
         DEF Kinds, Passes, Answers, LogsIn, Collides, Cleans, Inserts, Erases, Goto, Record,
             TypeInv, HandlerTypes
    <3>2. pc[q] \in {"new", "insert"} \cup Asked => Record(s) # q
      BY <2>1 DEF PointerInv, PointerOK, Asked, PastAuth
    <3>3. ASSUME Record(s) # q PROVE cl'[q].uid = cl[q].uid
      <4>1. CASE Passes(s) \/ Answers(s) \/ Inserts(s) \/ Erases(s)
        BY <4>1 DEF Passes, SameRecords, Answers, Inserts, Erases
      <4>2. CASE LogsIn(s)
        BY <3>3, <4>2, LoginTypes DEF LogsIn, TypeInv
      <4>3. CASE Collides(s) \/ Cleans(s)
        BY <3>3, <4>3, UidTypes, RecordPointer DEF Collides, Cleans, SameRecords, TypeInv
      <4> QED BY <1>3, <4>1, <4>2, <4>3 DEF Kinds
    <3> QED BY <1>1, <3>1, <3>2, <3>3 DEF OwnOK
  <2>2. CASE q = s
    <3>1. CASE Passes(s)
      BY <1>1, <2>2, <3>1, PointerTypes
         DEF Passes, SameRecords, OwnOK, Record, Goto, Asked, Stays, PastAuth
    <3>2. CASE Answers(s)
      <4>1. pc[s] \in Asked /\ UNCHANGED cl /\ pc'[s] \in Asked \cup {"cleanup"}
        BY <3>2, PointerTypes DEF Answers, Goto, Asked
      <4> QED BY <1>1, <2>2, <4>1 DEF OwnOK, Asked, PastAuth
    <3>3. CASE LogsIn(s)
      <4>1. pc[s] \in Asked /\ pc'[s] = "insert" /\ Record(s)' = Record(s)
        BY <3>3, PointerTypes DEF LogsIn, Goto, Asked, Record
      <4>2. Record(s) # s => cl'[s].uid = cl[s].uid
        BY <3>3, LoginTypes DEF LogsIn, TypeInv
      <4> QED BY <1>1, <2>2, <4>1, <4>2 DEF OwnOK, Asked, PastAuth
    <3>4. CASE Collides(s) \/ Cleans(s)
      <4>1. pc'[s] \in {"cleanup", "refused"}
        BY <3>4, PointerTypes DEF Collides, Cleans, Goto
      <4> QED BY <2>2, <4>1 DEF OwnOK, Asked, PastAuth
    <3>5. CASE Inserts(s) \/ Erases(s)
      <4>1. /\ pc'[s] \in {"assignId", "exit"} /\ Record(s)' = Record(s)
            /\ pc[s] = "erase" \/ (pc[s] = "insert" /\ cl[s].uid # Unset)
        BY <3>5, PointerTypes DEF Inserts, Erases, Goto, Record
      <4> QED BY <1>1, <2>2, <4>1 DEF OwnOK, Asked, PastAuth
    <3> QED BY <1>3, <3>1, <3>2, <3>3, <3>4, <3>5 DEF Kinds
  <2> QED BY <2>1, <2>2
<1> QED BY <1>2, <1>3, StepKinds

-----------------------------------------------------------------------------
LEMMA ServerInitial == Init => ServerInv
<1> SUFFICES ASSUME Init PROVE ServerInv
  OBVIOUS
<1>1. /\ clients = <<>> /\ router.pc = "pop"
      /\ \A s \in Sessions : cl[s].uid = Unset /\ pc[s] = "new"
  BY DEF Init
<1>2. Orderly
  BY <1>1, NamesAreSet
     DEF Orderly, OwnUid, Listed, Addressed, Reached, RivalsMet, Reach, Stays, PastAuth
<1>3. Owned
  BY <1>1 DEF Owned, OwnOK, PastAuth
<1> QED BY <1>2, <1>3, TypeInitial, PointerInitial, AccountedInitial DEF ServerInv

LEMMA ServerStep == ServerInv /\ [Next]_vars => ServerInv'
<1> SUFFICES ASSUME ServerInv, [Next]_vars PROVE ServerInv'
  OBVIOUS
<1>1. TypeInv /\ PointerInv /\ Owned /\ Accounted
  BY DEF ServerInv
<1>2. Orderly'
  <2> SUFFICES ASSUME Untouched'
               PROVE  (\A s \in Sessions : OwnUid(s)') /\ Listed' /\ Reached' /\ Addressed'
    BY DEF Orderly
  <2>1. (\A s \in Sessions : OwnUid(s)) /\ Listed /\ Reached /\ Addressed
    BY <1>1, UntouchedBefore DEF ServerInv, Orderly
  <2> QED BY <1>1, <2>1, OwnUidStep, ListedStep, ReachedStep, AddressedStep
<1> QED BY <1>1, <1>2, TypeStep, PointerStep, OwnedStep, AccountedStep DEF ServerInv

LEMMA ServerInvariant == Spec => []ServerInv
BY ServerInitial, ServerStep, PTL DEF Spec

LEMMA WhileNobodyAstray ==
  ServerInv /\ NobodyAstray =>
    Untouched /\ (\A s \in Sessions : OwnUid(s)) /\ Listed /\ Reached /\ Addressed
BY NobodyTouches DEF ServerInv, Orderly

(* The map never leads to a handler that has ended or is about to, for any   *)
(* number of sessions that replace and erase each other's entries, as long   *)
(* as no dialogue has gone on with another's record (server.c:253, 311).     *)
THEOREM MapLeadsToTheLiving == Spec => []EntriesLive
<1>1. ServerInv => EntriesLive
  <2> SUFFICES ASSUME ServerInv, NobodyAstray, NEW s \in Entries PROVE ~Dead(s) /\ pc[s] # "exit"
    BY DEF EntriesLive
  <2>1. clients \in Seq(Sessions) /\ DOMAIN clients = 1..Len(clients)
    BY DEF ServerInv, TypeInv, MapTypes
  <2>2. PICK i \in 1..Len(clients) : clients[i] = s
    BY <2>1 DEF Entries, Range
  <2>3. pc[s] \in Stays
    BY <2>2, WhileNobodyAstray DEF Listed
  <2> QED BY <2>3 DEF Dead, Stays, PastAuth
<1> QED BY <1>1, ServerInvariant, PTL

(* A user has at most one entry, with the same exception (server_auth.c:276, *)
(* server.c:253).                                                            *)
THEOREM UserHasOneEntry == Spec => []OneEntryPerUser
<1>1. ServerInv => OneEntryPerUser
  BY WhileNobodyAstray DEF OneEntryPerUser, Listed
<1> QED BY <1>1, ServerInvariant, PTL

(* Two handlers never read from the same connection or close the same        *)
(* socket, whatever records their dialogues have written to: the owner of a   *)
(* record that names another session's connection points to its own record   *)
(* itself, and that session, which points to the owner's, does not get past   *)
(* the insertion (server_auth.c:276, 402; server.c:253, 271, 312).            *)
THEOREM HandlersServeApart == Spec => []ConnectionsNotShared
<1>1. ServerInv => ConnectionsNotShared
  <2> SUFFICES ASSUME ServerInv, NEW s \in Sessions, NEW r \in Sessions, s # r,
                      pc[s] \in PastAuth, pc[r] \in PastAuth, cl[s].req = cl[r].req
               PROVE  FALSE
    BY DEF ConnectionsNotShared, PastAuth
  <2> DEFINE c == cl[s].req
  <2>1. Record(s) = s /\ Record(r) = r
    BY DEF ServerInv, Owned, OwnOK
  <2>2. c # s => Record(c) = s
    BY DEF ServerInv, PointerInv, OwnerOK
  <2>3. c # r => Record(c) = r
    BY DEF ServerInv, PointerInv, OwnerOK
  <2> QED BY <2>1, <2>2, <2>3
<1> QED BY <1>1, ServerInvariant, PTL

(* What the router sends goes to a session that has logged in as the user it *)
(* is addressed to, with the same exception (server.c:378-382).              *)
THEOREM MessagesReachTheirUser == Spec => []DeliveredToAddressee
<1>1. ServerInv => DeliveredToAddressee
  <2> SUFFICES ASSUME ServerInv, NobodyAstray, router.pc = "send"
               PROVE  /\ cl[router.cl].uid = router.msg.to
                      /\ auth[router.cl].username = router.msg.to
                      /\ router.msg.to \in registered
    BY DEF DeliveredToAddressee
  <2>1. router.cl \in Sessions /\ TypeInv
    BY DEF ServerInv, TypeInv, ServiceTypes
  <2>2. cl[router.cl].uid = router.msg.to /\ pc[router.cl] \in PastAuth
    BY WhileNobodyAstray DEF Addressed
  <2>3. cl[router.cl].uid \in Users
    <3>1. cl[router.cl].uid # Unset /\ cl[router.cl].uid \in Users \cup {Unset, Freed}
      BY <2>1, <2>2, PointerTypes DEF TypeInv, HandlerTypes
    <3>2. cl[router.cl].uid # Freed
      BY <2>1, <2>2, WhileNobodyAstray DEF Untouched, PastAuth
    <3> QED BY <3>1, <3>2
  <2> QED BY <2>1, <2>2, <2>3, WhileNobodyAstray DEF OwnUid, ServerInv, Accounted
<1> QED BY <1>1, ServerInvariant, PTL

(* A client whose handler is ready can be found by its uid until it leaves,  *)
(* if no other session of its user has been in the map meanwhile; otherwise  *)
(* somebody is found by it until one of them has left.  Any client may type   *)
(* any name, and the users' sessions may replace and erase each other's       *)
(* entries (server_auth.c:276; server.c:253, 311), with the same exception.   *)
THEOREM ReadyClientsAreReachable == Spec => []ReadyReachable
<1>1. ServerInv => ReadyReachable
  <2> SUFFICES ASSUME ServerInv, NobodyAstray, NEW s \in Sessions, pc[s] = "loop"
               PROVE  /\ s \notin rivals => Found(cl[s].uid) /\ clients[Place(cl[s].uid)] = s
                      /\ Found(cl[s].uid) \/ RivalLeft(s)
    BY DEF ReadyReachable, RivalLeft
  <2> DEFINE u == cl[s].uid
  <2>1. MapTypes /\ Len(clients) \in Nat
    BY DEF ServerInv, TypeInv, MapTypes
  <2>2. /\ s \notin rivals => HasEntry(s)
        /\ UserHasEntry(s) \/ RivalLeft(s)
    BY WhileNobodyAstray DEF Reached, Reach, Stays, PastAuth
  <2>3. ASSUME NEW i \in 1..Len(clients), cl[clients[i]].uid = u
        PROVE  Found(u) /\ Place(u) = i
    <3>1. ~(i \in 1..(Place(u) - 1))
      BY <2>1, <2>3, WalkEnds
    <3>2. Found(u)
      BY <2>1, <2>3, <3>1, WalkEnds DEF Found
    <3>3. Place(u) \in 1..Len(clients) /\ cl[clients[Place(u)]].uid = u
      BY <2>1, <3>2, FoundEntry
    <3> QED BY <2>3, <3>2, <3>3, WhileNobodyAstray DEF Listed
  <2> QED BY <2>2, <2>3 DEF HasEntry, UserHasEntry
<1> QED BY <1>1, ServerInvariant, PTL
=============================================================================
