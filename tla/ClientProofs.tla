------------------------------ MODULE ClientProofs ------------------------------
(***************************************************************************)
(* The client and the server's end of the login dialogue: whatever is lost *)
(* and whenever the threads run, window and server agree on what is being  *)
(* asked; and with at most six attempts (the code has three) they agree on *)
(* who has logged in.                                                      *)
(***************************************************************************)
EXTENDS Client, SequenceTheorems, TLAPS

Dialogue == {"username", "choice", "newPassword", "confirm", "password"}

(* Messages of a session, and those after which only such messages come. *)
OfSession == {"uid", "chat", "ping"}
OfLogin == {"authenticated", "created"} \cup OfSession

(* The types, attempts that are left as long as the dialogue lasts, and a    *)
(* connection that is left as long as one is being made.                     *)
TypeInv == /\ TypeOK
           /\ srv.pc \in Dialogue => srv.attempts < MaxAttempts
           /\ recon = "connect" => connects < MaxConnects

OnlyIn(s, whats) == \A i \in 1..Len(s) : s[i].what \in whats
Only(whats) == OnlyIn(toClient, whats)

(* What is on its way to the client, against where the server is. *)
Orderly(s, server) ==
    /\ \A i, j \in 1..Len(s) : i < j /\ s[i].what \in OfLogin => s[j].what \in OfSession
    /\ \A i \in 1..Len(s) : s[i].what \in OfLogin => server.pc \in {"session", "closed"}
    /\ \A i \in 1..Len(s) : s[i].what = "uid" => s[i].arg = server.name
    /\ server.attempts = 0 => \A i \in 1..Len(s) : s[i].what # "online"

Messages == Orderly(toClient, srv)

Clean == /\ ~flags.username /\ ~flags.password /\ ~flags.confirm /\ ~flags.choosing
         /\ ~flags.authenticated

(* The threads of the client: nobody reconnects while the first connection   *)
(* is alive, what an old connection has left is not handled in a new one,    *)
(* and a new one begins without prompts.                                     *)
Threads ==
    /\ connects = 0 => /\ ~up /\ ~flags.connected /\ srv.pc = "none" /\ ssl # "valid"
                       /\ recon # "connected" /\ recv.pc = "top"
    /\ connects = 0 \/ (connects = 1 /\ up) =>
         ~reconnect /\ ping = "top" /\ (recv.pc = "read" => recv.current)
    /\ up => srv.pc \in Dialogue \cup {"session"} /\ recon # "connect"
    /\ up /\ recon = "top" => flags.connected
    /\ flags.connected => recon = "top"
    /\ recv.current => recon # "connected" /\ (up => uid # NULL)
    /\ recon = "connect" => Clean
    /\ flags.authenticated =>
         recon = "top" /\ Only(OfSession) /\ srv.pc \in {"session", "closed"}
    /\ ~flags.connected /\ recon # "connected" /\ uid = Default => Only(OfSession)

-----------------------------------------------------------------------------
(* Whether a flag will be set when the messages s have been handled: those   *)
(* in On set it, those in Off clear it.                                      *)
Shown(now, On, Off, s) ==
    \/ now /\ \A i \in 1..Len(s) : s[i] \notin Off
    \/ \E i \in 1..Len(s) : s[i] \in On /\ \A j \in 1..Len(s) : j > i => s[j] \notin Off

Says(whats) == {m \in ServerMessages : m.what \in whats}
Counts(n) == {m \in ServerMessages : m.what = "attempts" /\ m.arg = n}

UsernameShown == Shown(flags.username, Says({"username"}), Says({"password", "choice", "online"}), toClient)
PasswordShown == Shown(flags.password, Says({"password"}), Says({"confirm", "authenticated", "online"}), toClient)
ConfirmShown == Shown(flags.confirm, Says({"confirm"}), Says({"created", "online"}), toClient)
ChoiceShown == Shown(flags.choosing, Says({"choice"}), Says({"online"}), toClient)
LoggedIn == Shown(flags.authenticated, Says({"authenticated", "created"}), Says({"online"}), toClient)
AttemptsShown(n) == Shown(flags.attempts = n, Counts(n), Says({"attempts", "online"}) \ Counts(n), toClient)

(* What the window will show when everything on its way has been handled. *)
Prompting ==
    up /\ uid = Default =>
        /\ srv.pc \in Dialogue => AttemptsShown(MaxAttempts - srv.attempts)
        /\ srv.pc = "username" => UsernameShown
        /\ srv.pc \in {"choice", "newPassword", "confirm", "password", "session"} => ~UsernameShown
        /\ srv.pc = "username" /\ srv.attempts = 0 => ~PasswordShown /\ ~ConfirmShown
        /\ srv.pc = "choice" => ChoiceShown /\ ~PasswordShown /\ ~ConfirmShown
        /\ srv.pc \in {"newPassword", "password"} => PasswordShown
        /\ srv.pc = "confirm" => ConfirmShown /\ ~PasswordShown
        /\ srv.pc = "session" => LoggedIn /\ ~PasswordShown

(* A client that has a uid already is the session's, or deaf. *)
Known ==
    up /\ uid # Default =>
        \/ /\ flags.authenticated /\ srv.pc = "session" /\ uid = srv.name
           /\ ~flags.username /\ ~flags.password
        \/ Clean /\ (texts = 0 => srv.pc = "username" /\ toServer = <<>>)

PromptsIInv == TypeInv /\ Messages /\ Threads /\ Prompting

-----------------------------------------------------------------------------
(* The prompts the user has not answered yet, or whose answers the server    *)
(* has not read yet, as a sequence: the answers on their way, the prompt in  *)
(* the window, the prompts on their way.                                     *)
Kinds == {"username", "password", "choice"}

KindOf(what) == IF what = "confirm" THEN "password" ELSE what

Answers(kind) == IF kind = "username" THEN Users
                 ELSE IF kind = "password" THEN Passwords ELSE Choices

Asking == ~answered /\ Mode # "text"

(* The prompts in s are those of p after the n-th. *)
Asks(s, p, n) ==
    \E f \in [(n + 1)..Len(p) -> 1..Len(s)] :
        /\ \A a, b \in (n + 1)..Len(p) : a < b => f[a] < f[b]
        /\ \A i \in 1..Len(s) : s[i].what \in Prompts <=> \E a \in (n + 1)..Len(p) : f[a] = i
        /\ \A a \in (n + 1)..Len(p) : KindOf(s[f[a]].what) = p[a]

Owes(p) ==
    /\ Len(toServer) <= Len(p)
    /\ \A i \in 1..Len(toServer) : toServer[i].text \in Answers(p[i])
    /\ Asking => /\ Len(toServer) < Len(p) /\ Mode = p[Len(toServer) + 1]
                 /\ Asks(toClient, p, Len(toServer) + 1)
    /\ ~Asking => Asks(toClient, p, Len(toServer))

One(p, a) == Len(p) = 1 /\ p[1] = a
Two(p, a, b) == Len(p) = 2 /\ p[1] = a /\ p[2] = b
Three(p, a, b, c) == Len(p) = 3 /\ p[1] = a /\ p[2] = b /\ p[3] = c

(* How far the user may be ahead of the server.  A wrong password brings two *)
(* prompts; an answer to the first is then read as a name.                   *)
Ahead(p, pc, attempts) ==
    LET u == "username"  w == "password" IN
    \/ /\ pc = "username"
       /\ \/ One(p, u)
          \/ Two(p, w, u) /\ attempts >= 1
          \/ Two(p, u, u) /\ attempts >= 2
          \/ Three(p, w, w, u) /\ attempts >= 3
          \/ Three(p, w, u, u) /\ attempts >= 4
          \/ Three(p, u, u, u) /\ attempts >= 5
    \/ /\ pc = "password"
       /\ \/ One(p, w)
          \/ Two(p, u, w) /\ attempts >= 2
          \/ Three(p, u, u, w) /\ attempts >= 5
    \/ pc = "choice" /\ One(p, "choice") /\ attempts = 0
    \/ pc \in {"newPassword", "confirm"} /\ One(p, w) /\ attempts = 0

(* The name that was typed last, on its way or where the server is. *)
LastName ==
    /\ \A i \in 1..Len(toServer) :
         toServer[i].text \in Users /\ (\A j \in 1..Len(toServer) : j > i => toServer[j].text \notin Users)
            => toServer[i].text = username
    /\ srv.pc \in Dialogue \ {"username"} /\ (\A i \in 1..Len(toServer) : toServer[i].text \notin Users)
            => username = srv.name

(* While one of these is on its way, the server waits for its answer. *)
Awaiting ==
    \A i \in 1..Len(toClient) :
        toClient[i].what \in {"confirm", "choice"} => srv.pc = toClient[i].what

InDialogue ==
    LastName /\ Awaiting /\ \E p \in Seq(Kinds) : Ahead(p, srv.pc, srv.attempts) /\ Owes(p)

InSession == /\ Only(Notices \cup {"attempts"}) /\ ~Asking /\ username = srv.name
             /\ \E i \in 1..Len(toClient) : toClient[i].what = "uid"

Identified ==
    up /\ uid = Default /\ texts = 0 =>
        /\ srv.pc \in Dialogue => InDialogue
        /\ srv.pc = "session" => InSession

SessionIInv == PromptsIInv /\ Known /\ Identified

-----------------------------------------------------------------------------
(* What the definitions of the messages come to. *)
Left(n) == [what |-> "attempts", arg |-> n]

LEMMA MessageTypes ==
  /\ \A what \in Prompts \cup Notices : Msg(what) \in ServerMessages /\ Msg(what).what = what
  /\ \A what \in Prompts \cup Notices, x \in Texts \cup {NULL} :
        MsgFor(what, x) \in ServerMessages /\ MsgFor(what, x).what = what /\ MsgFor(what, x).arg = x
  /\ \A n \in 1..MaxAttempts :
        Left(n) \in ServerMessages /\ Left(n).what = "attempts" /\ Left(n).arg = n
  BY DEF ServerMessages, Msg, MsgFor, Left

LEMMA MessageKinds ==
  ASSUME NEW m \in ServerMessages
  PROVE  \/ m.what \in Prompts \cup Notices /\ m.arg \in Texts \cup {NULL}
         \/ m.what = "attempts" /\ m.arg \in 1..MaxAttempts
  BY DEF ServerMessages

LEMMA SendOne ==
  ASSUME NEW M, NEW s \in Seq(M), NEW m \in M
  PROVE  s \o <<m>> = Append(s, m) /\ Append(s, m) \in Seq(M)
  BY AppendIsConcat, AppendProperties

LEMMA SendMore ==
  ASSUME NEW M, NEW s \in Seq(M), NEW t \in Seq(M), NEW m \in M
  PROVE  s \o Append(t, m) = Append(s \o t, m) /\ s \o t \in Seq(M)
<1>1. <<m>> \in Seq(M) /\ s \o t \in Seq(M) /\ Append(t, m) = t \o <<m>>
  BY SendOne, ConcatProperties
<1>2. s \o (t \o <<m>>) = (s \o t) \o <<m>>
  BY <1>1, ConcatAssociative
<1> QED
  BY <1>1, <1>2, SendOne

LEMMA Rounds ==
  /\ Round(0) = <<Left(MaxAttempts), Msg("info"), Msg("username")>>
  /\ \A a \in 1..(MaxAttempts - 1) : Round(a) = Append(<<Left(MaxAttempts - a)>>, Msg("username"))
<1>1. Round(0) = (<<Left(MaxAttempts)>> \o <<Msg("info")>>) \o <<Msg("username")>>
  BY ClientAssumption DEF Round, Left
<1>2. ASSUME NEW a \in 1..(MaxAttempts - 1)
      PROVE  Round(a) = (<<Left(MaxAttempts - a)>> \o <<>>) \o <<Msg("username")>>
  BY <1>2, ClientAssumption DEF Round, Left
<1>3. ASSUME NEW M, NEW x \in M, NEW y \in M, NEW z \in M
      PROVE  /\ (<<x>> \o <<y>>) \o <<z>> = <<x, y, z>>
             /\ (<<x>> \o <<>>) \o <<z>> = Append(<<x>>, z)
  <2>1. <<x>> \in Seq(M) /\ <<x, y>> \in Seq(M)
    OBVIOUS
  <2>2. <<x>> \o <<y>> = Append(<<x>>, y) /\ <<x>> \o <<>> = <<x>>
    BY <2>1, SendOne, ConcatEmptySeq
  <2>3. Append(<<x>>, y) = <<x, y>> /\ Append(<<x, y>>, z) = <<x, y, z>>
    <3>1. /\ Append(<<x>>, y) \in Seq(M) /\ Append(<<x, y>>, z) \in Seq(M) /\ <<x, y, z>> \in Seq(M)
      OBVIOUS
    <3>2. Len(Append(<<x>>, y)) = 2 /\ \A i \in 1..2 : Append(<<x>>, y)[i] = <<x, y>>[i]
      OBVIOUS
    <3>3. Len(Append(<<x, y>>, z)) = 3 /\ \A i \in 1..3 : Append(<<x, y>>, z)[i] = <<x, y, z>>[i]
      OBVIOUS
    <3> QED
      BY <2>1, <3>1, <3>2, <3>3, SeqEqual
  <2> QED
    BY <2>1, <2>2, <2>3, SendOne
<1>4. Left(MaxAttempts) \in ServerMessages /\ Msg("info") \in ServerMessages /\ Msg("username") \in ServerMessages
  BY MessageTypes, ClientAssumption DEF Prompts, Notices
<1>5. \A a \in 1..(MaxAttempts - 1) : Left(MaxAttempts - a) \in ServerMessages
  BY MessageTypes, ClientAssumption
<1> QED
  BY <1>1, <1>2, <1>3, <1>4, <1>5

-----------------------------------------------------------------------------
(* The ways in which the server goes on when it has read x. *)
Prompts1(x) ==
    /\ UNCHANGED up /\ srv'.attempts = srv.attempts
    /\ \/ /\ srv.pc = "username" /\ srv.attempts = 0 /\ x \notin Accounts
          /\ srv'.pc = "choice" /\ srv'.name = x /\ toClient' = Append(toClient, Msg("choice"))
       \/ /\ srv.pc = "username" /\ x \in Accounts
          /\ srv'.pc = "password" /\ srv'.name = x /\ toClient' = Append(toClient, Msg("password"))
       \/ /\ srv.pc = "choice"
          /\ srv'.pc = "newPassword" /\ srv'.name = srv.name
          /\ toClient' = Append(toClient, Msg("password"))
       \/ /\ srv.pc = "newPassword"
          /\ srv'.pc = "confirm" /\ srv'.name = srv.name
          /\ toClient' = Append(toClient, Msg("confirm"))

LogsIn(x) ==
    /\ UNCHANGED up /\ srv'.attempts = srv.attempts /\ srv'.name = srv.name /\ srv'.pc = "session"
    /\ \E notice \in {"authenticated", "created"} :
         /\ IF notice = "authenticated" THEN srv.pc = "password" /\ x = "good" ELSE srv.pc = "confirm"
         /\ toClient' = Append(Append(toClient, Msg(notice)), MsgFor("uid", srv.name))

(* What has been said when the next round begins. *)
Preface(x) ==
    IF srv.pc = "username" /\ x \in Accounts THEN Append(toClient, Msg("online"))
    ELSE IF srv.pc \in {"username", "confirm"} THEN Append(toClient, Msg("tryAgain"))
    ELSE IF srv.pc = "password" THEN Append(Append(toClient, Msg("password")), Msg("tryAgain"))
    ELSE toClient

Repeats(x) ==
    /\ up' = TRUE /\ srv.pc \in {"username", "choice", "confirm", "password"}
    /\ srv.attempts + 1 < MaxAttempts
    /\ srv.pc = "username" /\ srv.attempts = 0 => x \in Accounts
    /\ srv.pc = "password" => x # "good"
    /\ srv'.attempts = srv.attempts + 1 /\ srv'.pc = "username" /\ srv'.name = srv.name
    /\ toClient' = Append(Append(Preface(x), Left(MaxAttempts - srv'.attempts)), Msg("username"))

Closes ==
    /\ up' = FALSE /\ srv.pc \in Dialogue /\ srv'.pc = "closed" /\ srv'.name = srv.name
    /\ srv'.attempts \in {srv.attempts, srv.attempts + 1}
    /\ \/ toClient' = toClient \/ toClient' = Append(toClient, Msg("tryAgain"))
       \/ toClient' = Append(toClient, Msg("online")) /\ srv'.attempts # 0

ReadOn(x) == \/ Prompts1(x) \/ LogsIn(x) \/ Repeats(x) \/ Closes
             \/ srv.pc = "session" /\ UNCHANGED <<srv, toClient, up>>

LEMMA AnotherIs ==
  ASSUME TypeInv, srv.pc \in Dialogue, NEW notice \in Seq(ServerMessages),
         NEW again \in Seq(ServerMessages), AnotherAttempt(notice, again)
  PROVE  /\ srv'.attempts = srv.attempts + 1 /\ srv'.name = srv.name
         /\ \/ /\ srv.attempts + 1 = MaxAttempts
               /\ up' = FALSE /\ srv'.pc = "closed" /\ toClient' = toClient \o notice
            \/ /\ srv.attempts + 1 < MaxAttempts
               /\ up' = TRUE /\ srv'.pc = "username"
               /\ toClient' = Append(Append(toClient \o (notice \o again),
                                            Left(MaxAttempts - (srv.attempts + 1))), Msg("username"))
<1> DEFINE a == srv.attempts + 1
           L == Left(MaxAttempts - a)
           U == Msg("username")
<1>1. /\ toClient \in Seq(ServerMessages) /\ srv.attempts \in 0..MaxAttempts
      /\ srv.attempts < MaxAttempts /\ MaxAttempts \in Nat \ {0}
  BY ClientAssumption DEF TypeInv, TypeOK
<1>2. /\ srv'.attempts = a /\ srv'.name = srv.name
      /\ srv'.pc = IF a = MaxAttempts THEN "closed" ELSE "username"
  BY DEF AnotherAttempt, TypeInv, TypeOK
<1>3. CASE a = MaxAttempts
  <2>1. toClient' = toClient \o (notice \o <<>>)
    BY <1>1, <1>3 DEF AnotherAttempt, Send
  <2>2. up' = FALSE
    <3>1. up' = (a < MaxAttempts)
      BY Zenon DEF AnotherAttempt
    <3>2. (a < MaxAttempts) = FALSE
      BY <1>1, <1>3
    <3> QED
      BY <3>1, <3>2, Zenon
  <2> QED
    BY <1>1, <1>2, <1>3, <2>1, <2>2, ConcatEmptySeq
<1>4. CASE a < MaxAttempts
  <2>1. L \in ServerMessages /\ U \in ServerMessages
    BY <1>1, <1>4, MessageTypes DEF Prompts
  <2>2. toClient' = toClient \o (notice \o (again \o Append(<<L>>, U)))
    <3>1. Round(a) = Append(<<L>>, U)
      BY <1>1, <1>4, Rounds
    <3> QED
      BY <1>1, <1>4, <3>1 DEF AnotherAttempt, Send
  <2>8. up' = TRUE
    BY <1>1, <1>4 DEF AnotherAttempt
  <2>3. <<L>> \in Seq(ServerMessages) /\ again \o <<L>> = Append(again, L)
    BY <2>1, SendOne
  <2>4. again \o Append(<<L>>, U) = Append(Append(again, L), U)
    BY <2>1, <2>3, SendMore
  <2> HIDE DEF L, U
  <2>5. /\ Append(again, L) \in Seq(ServerMessages) /\ notice \o again \in Seq(ServerMessages)
        /\ Append(notice \o again, L) \in Seq(ServerMessages)
    BY <2>1, SendOne, SendMore
  <2>6. notice \o Append(Append(again, L), U) = Append(Append(notice \o again, L), U)
    BY <2>1, <2>5, SendMore
  <2>7. toClient \o Append(Append(notice \o again, L), U)
          = Append(Append(toClient \o (notice \o again), L), U)
    <3>1. ASSUME NEW t \in Seq(ServerMessages), NEW m \in ServerMessages
          PROVE  toClient \o Append(t, m) = Append(toClient \o t, m)
      BY <1>1, SendMore
    <3>2. toClient \o Append(notice \o again, L) = Append(toClient \o (notice \o again), L)
      BY <2>1, <2>5, <3>1
    <3>3. toClient \o Append(Append(notice \o again, L), U)
            = Append(toClient \o Append(notice \o again, L), U)
      BY <2>1, <2>5, <3>1
    <3> QED
      BY <3>2, <3>3
  <2> QED
    <3>1. toClient' = Append(Append(toClient \o (notice \o again), L), U)
      BY <2>2, <2>4, <2>6, <2>7
    <3>2. srv'.pc = "username"
      BY <1>1, <1>2, <1>4
    <3> QED
      BY <1>2, <1>4, <2>8, <3>1, <3>2 DEF L, U
<1>5. a = MaxAttempts \/ a < MaxAttempts
  BY <1>1
<1> QED
  BY <1>3, <1>4, <1>5

(* Everything the server may do with what it has read. *)
LEMMA ReadEffects ==
  ASSUME TypeInv, ServerReads
  PROVE  /\ toServer # <<>> /\ toServer' = Tail(toServer) /\ Alive /\ up
         /\ UNCHANGED <<cl, ssl, reconnect, threads, answered, bounds, fault>>
         /\ ReadOn(Head(toServer).text)
<1> DEFINE x == Head(toServer).text
           M == ServerMessages
<1>1. /\ toServer # <<>> /\ toServer' = Tail(toServer) /\ Alive /\ up
      /\ UNCHANGED <<cl, ssl, reconnect, threads, answered, bounds, fault>>
  BY DEF ServerReads
<1>2. /\ toClient \in Seq(M) /\ srv.attempts \in 0..MaxAttempts
      /\ MaxAttempts \in Nat \ {0} /\ (srv.pc \in Dialogue => srv.attempts < MaxAttempts)
      /\ srv.name \in Texts \cup {NULL}
  BY ClientAssumption DEF TypeInv, TypeOK
<1>3. ASSUME NEW y \in M, NEW z \in M
      PROVE  /\ toClient \o <<y>> = Append(toClient, y)
             /\ <<y>> \in Seq(M) /\ <<y, z>> \in Seq(M) /\ <<>> \in Seq(M)
             /\ toClient \o (<<y>> \o <<>>) = Append(toClient, y)
             /\ toClient \o (<<>> \o <<y>>) = Append(toClient, y)
             /\ toClient \o <<y, z>> = Append(Append(toClient, y), z)
             /\ toClient \o (<<>> \o <<y, z>>) = Append(Append(toClient, y), z)
             /\ toClient \o (<<>> \o <<>>) = toClient
             /\ toClient \o <<>> = toClient
  <2>1. <<y>> \in Seq(M) /\ <<y, z>> \in Seq(M) /\ <<>> \in Seq(M)
    OBVIOUS
  <2>2. <<y, z>> = Append(<<y>>, z)
    <3>1. Append(<<y>>, z) \in Seq(M) /\ Len(Append(<<y>>, z)) = 2
          /\ \A i \in 1..2 : Append(<<y>>, z)[i] = <<y, z>>[i]
      OBVIOUS
    <3> QED
      BY <2>1, <3>1, SeqEqual
  <2>3. toClient \o <<y>> = Append(toClient, y) /\ toClient \o <<>> = toClient
    BY <1>2, SendOne, ConcatEmptySeq
  <2>4. toClient \o <<y, z>> = Append(Append(toClient, y), z)
    BY <1>2, <2>1, <2>2, <2>3, SendMore
  <2>5. <<y>> \o <<>> = <<y>> /\ <<>> \o <<y>> = <<y>> /\ <<>> \o <<y, z>> = <<y, z>>
    BY <2>1, ConcatEmptySeq
  <2>6. <<>> \o <<>> = <<>>
    BY <2>1, ConcatEmptySeq
  <2> QED
    BY <2>1, <2>3, <2>4, <2>5, <2>6
<1>4. \A what \in Prompts \cup Notices : Msg(what) \in M
  BY MessageTypes
<1>5. /\ {"username", "password", "confirm", "choice"} \subseteq Prompts \cup Notices
      /\ {"tryAgain", "online", "authenticated", "created", "uid"} \subseteq Prompts \cup Notices
  BY DEF Prompts, Notices
<1>6. MsgFor("uid", srv.name) \in M
  BY <1>2, <1>5, MessageTypes
<1>7. ASSUME NEW notice \in {"authenticated", "created"}, LogIn(notice),
             IF notice = "authenticated" THEN srv.pc = "password" /\ x = "good" ELSE srv.pc = "confirm"
      PROVE  LogsIn(x)
  <2>1. toClient' = Append(Append(toClient, Msg(notice)), MsgFor("uid", srv.name))
    BY <1>3, <1>4, <1>5, <1>6, <1>7 DEF LogIn, Send
  <2>2. srv'.attempts = srv.attempts /\ srv'.name = srv.name /\ srv'.pc = "session"
    BY <1>7 DEF LogIn, TypeInv, TypeOK
  <2> QED
    BY <1>7, <2>1, <2>2 DEF LogsIn, LogIn
<1>8. ASSUME srv.pc \in {"choice", "confirm"}, Hangup
      PROVE  Closes
  BY <1>2, <1>8 DEF Hangup, Closes, Dialogue, TypeInv, TypeOK
<1>9. ASSUME NEW notice \in Seq(M), NEW again \in Seq(M), AnotherAttempt(notice, again),
             srv.pc \in {"username", "choice", "confirm", "password"},
             srv.pc = "username" /\ srv.attempts = 0 => x \in Accounts,
             srv.pc = "password" => x # "good",
             toClient \o (notice \o again) = Preface(x),
             \/ toClient \o notice = toClient \/ toClient \o notice = Append(toClient, Msg("tryAgain"))
             \/ toClient \o notice = Append(toClient, Msg("online"))
      PROVE  Repeats(x) \/ Closes
  <2>1. srv.pc \in Dialogue
    BY <1>9 DEF Dialogue
  <2>2. /\ srv'.attempts = srv.attempts + 1 /\ srv'.name = srv.name
        /\ \/ /\ srv.attempts + 1 = MaxAttempts
              /\ up' = FALSE /\ srv'.pc = "closed" /\ toClient' = toClient \o notice
           \/ /\ srv.attempts + 1 < MaxAttempts
              /\ up' = TRUE /\ srv'.pc = "username"
              /\ toClient' = Append(Append(toClient \o (notice \o again),
                                           Left(MaxAttempts - (srv.attempts + 1))), Msg("username"))
    BY <1>9, <2>1, AnotherIs, Zenon
  <2>3. CASE srv.attempts + 1 = MaxAttempts
    <3>1. up' = FALSE /\ srv'.pc = "closed" /\ toClient' = toClient \o notice
      BY <1>2, <2>2, <2>3
    <3> QED
      BY <1>2, <1>9, <2>1, <2>2, <3>1 DEF Closes
  <2>4. CASE srv.attempts + 1 # MaxAttempts
    BY <1>9, <2>2, <2>4 DEF Repeats
  <2> QED
    BY <2>3, <2>4
<1>10. ASSUME TakeUsername(x) PROVE ReadOn(x)
  <2>1. CASE /\ x \notin Accounts /\ srv.attempts = 0
             /\ srv' = [srv EXCEPT !.pc = "choice", !.name = x]
             /\ Send(<<Msg("choice")>>) /\ UNCHANGED up
    <3>1. srv'.pc = "choice" /\ srv'.name = x /\ srv'.attempts = srv.attempts
      BY <2>1 DEF TypeInv, TypeOK
    <3>2. toClient' = Append(toClient, Msg("choice"))
      BY <1>3, <1>4, <1>5, <2>1 DEF Send
    <3> QED
      BY <1>10, <2>1, <3>1, <3>2 DEF ReadOn, Prompts1, TakeUsername
  <2>2. CASE x \notin Accounts /\ srv.attempts # 0 /\ AnotherAttempt(<<>>, <<Msg("tryAgain")>>)
    BY <1>3, <1>4, <1>5, <1>9, <1>10, <2>2 DEF ReadOn, TakeUsername, Preface
  <2>3. CASE x \in Accounts /\ AnotherAttempt(<<Msg("online")>>, <<>>)
    BY <1>3, <1>4, <1>5, <1>9, <1>10, <2>3 DEF ReadOn, TakeUsername, Preface
  <2>4. CASE /\ x \in Accounts
             /\ srv' = [srv EXCEPT !.pc = "password", !.name = x]
             /\ Send(<<Msg("password")>>) /\ UNCHANGED up
    <3>1. srv'.pc = "password" /\ srv'.name = x /\ srv'.attempts = srv.attempts
      BY <2>4 DEF TypeInv, TypeOK
    <3>2. toClient' = Append(toClient, Msg("password"))
      BY <1>3, <1>4, <1>5, <2>4 DEF Send
    <3> QED
      BY <1>10, <2>4, <3>1, <3>2 DEF ReadOn, Prompts1, TakeUsername
  <2> QED
    BY <1>10, <2>1, <2>2, <2>3, <2>4 DEF TakeUsername
<1>11. ASSUME TakeChoice(x) PROVE ReadOn(x)
  <2>1. CASE Await("newPassword", "password")
    <3>1. srv'.pc = "newPassword" /\ srv'.name = srv.name /\ srv'.attempts = srv.attempts
      BY <2>1 DEF Await, TypeInv, TypeOK
    <3>2. toClient' = Append(toClient, Msg("password"))
      BY <1>3, <1>4, <1>5, <2>1 DEF Await, Send
    <3> QED
      BY <1>11, <2>1, <3>1, <3>2 DEF ReadOn, Prompts1, TakeChoice, Await
  <2>2. CASE AnotherAttempt(<<>>, <<>>)
    BY <1>3, <1>4, <1>5, <1>9, <1>11, <2>2 DEF ReadOn, TakeChoice, Preface
  <2>3. CASE Hangup
    BY <1>8, <1>11, <2>3 DEF ReadOn, TakeChoice
  <2> QED
    BY <1>11, <2>1, <2>2, <2>3 DEF TakeChoice
<1>12. ASSUME TakeNewPassword(x) PROVE ReadOn(x)
  <2>1. CASE /\ srv.pc = "newPassword"
             /\ srv' = [srv EXCEPT !.pc = "confirm", !.first = x]
             /\ Send(<<Msg("confirm")>>) /\ UNCHANGED up
    <3>1. srv'.pc = "confirm" /\ srv'.name = srv.name /\ srv'.attempts = srv.attempts
      BY <2>1 DEF TypeInv, TypeOK
    <3>2. toClient' = Append(toClient, Msg("confirm"))
      BY <1>3, <1>4, <1>5, <2>1 DEF Send
    <3> QED
      BY <2>1, <3>1, <3>2 DEF ReadOn, Prompts1
  <2>2. CASE srv.pc = "confirm" /\ LogIn("created")
    BY <1>7, <2>2 DEF ReadOn
  <2>3. CASE srv.pc = "confirm" /\ Hangup
    BY <1>8, <2>3 DEF ReadOn
  <2>4. CASE srv.pc = "confirm" /\ AnotherAttempt(<<Msg("tryAgain")>>, <<>>)
    BY <1>3, <1>4, <1>5, <1>9, <2>4 DEF ReadOn, Preface
  <2> QED
    BY <1>12, <2>1, <2>2, <2>3, <2>4 DEF TakeNewPassword
<1>13. ASSUME TakePassword(x) PROVE ReadOn(x)
  <2>1. CASE x = "good" /\ LogIn("authenticated")
    BY <1>7, <1>13, <2>1 DEF ReadOn, TakePassword
  <2>2. CASE x # "good" /\ AnotherAttempt(<<>>, <<Msg("password"), Msg("tryAgain")>>)
    BY <1>3, <1>4, <1>5, <1>9, <1>13, <2>2 DEF ReadOn, TakePassword, Preface
  <2> QED
    BY <1>13, <2>1, <2>2 DEF TakePassword
<1>14. ASSUME srv.pc = "session", UNCHANGED <<srv, toClient, up>> PROVE ReadOn(x)
  BY <1>14 DEF ReadOn
<1> QED
  BY <1>1, <1>10, <1>11, <1>12, <1>13, <1>14 DEF ServerReads

-----------------------------------------------------------------------------
(* Types *)
SrvTypes == [pc : {"none", "username", "choice", "newPassword", "confirm", "password", "session",
                   "closed"},
             attempts : 0..MaxAttempts, name : Texts \cup {NULL}, first : Texts \cup {NULL}]

LEMMA ReadTypes ==
  ASSUME TypeInv, ServerReads
  PROVE  srv' \in SrvTypes
<1> DEFINE x == Head(toServer).text
<1>1. x \in Texts \cup {NULL}
  <2>1. Head(toServer) \in ClientMessages
    BY DEF ServerReads, TypeInv, TypeOK
  <2> QED
    BY <2>1 DEF ClientMessages
<1>2. /\ srv \in SrvTypes /\ MaxAttempts \in Nat \ {0}
      /\ srv.pc \in Dialogue => srv.attempts < MaxAttempts
  BY ClientAssumption DEF TypeInv, TypeOK, SrvTypes
<1> HIDE DEF x
<1>3. ASSUME NEW notice, NEW again, AnotherAttempt(notice, again), srv.pc \in Dialogue
      PROVE  srv' \in SrvTypes
  <2>1. srv.attempts + 1 \in 0..MaxAttempts
    BY <1>2, <1>3 DEF SrvTypes
  <2>2. \E pc \in {"closed", "username"} : srv' = [srv EXCEPT !.attempts = srv.attempts + 1, !.pc = pc]
    BY <1>3 DEF AnotherAttempt
  <2> QED
    BY <1>2, <2>1, <2>2 DEF SrvTypes
<1>4. ASSUME NEW notice, LogIn(notice) \/ Hangup PROVE srv' \in SrvTypes
  BY <1>2, <1>4 DEF LogIn, Hangup, SrvTypes
<1>5. ASSUME TakeUsername(x) PROVE srv' \in SrvTypes
  BY <1>1, <1>2, <1>3, <1>5 DEF TakeUsername, Dialogue, SrvTypes
<1>6. ASSUME TakeChoice(x) PROVE srv' \in SrvTypes
  BY <1>1, <1>2, <1>3, <1>4, <1>6 DEF TakeChoice, Await, Dialogue, SrvTypes
<1>7. ASSUME TakeNewPassword(x) PROVE srv' \in SrvTypes
  BY <1>1, <1>2, <1>3, <1>4, <1>7 DEF TakeNewPassword, Dialogue, SrvTypes
<1>8. ASSUME TakePassword(x) PROVE srv' \in SrvTypes
  BY <1>1, <1>2, <1>3, <1>4, <1>8 DEF TakePassword, Dialogue, SrvTypes
<1> QED
  BY <1>2, <1>5, <1>6, <1>7, <1>8 DEF ServerReads, x

LEMMA AppendTypes ==
  ASSUME NEW s \in Seq(ServerMessages), NEW m \in ServerMessages
  PROVE  Append(s, m) \in Seq(ServerMessages)
  OBVIOUS

LEMMA SentTypes ==
  ASSUME TypeInv, NEW x, ReadOn(x)
  PROVE  toClient' \in Seq(ServerMessages)
<1>1. /\ toClient \in Seq(ServerMessages) /\ srv.attempts \in 0..MaxAttempts
      /\ srv.name \in Texts \cup {NULL} /\ MaxAttempts \in Nat \ {0}
  BY ClientAssumption DEF TypeInv, TypeOK
<1>2. /\ \A what \in {"username", "password", "confirm", "choice", "tryAgain", "online",
                      "authenticated", "created"} : Msg(what) \in ServerMessages
      /\ MsgFor("uid", srv.name) \in ServerMessages
  BY <1>1, MessageTypes DEF Prompts, Notices
<1>3. CASE Prompts1(x) \/ Closes \/ UNCHANGED toClient
  BY <1>1, <1>2, <1>3, AppendTypes DEF Prompts1, Closes
<1>4. CASE LogsIn(x)
  BY <1>1, <1>2, <1>4, AppendTypes DEF LogsIn
<1>5. CASE Repeats(x)
  <2>1. Preface(x) \in Seq(ServerMessages)
    BY <1>1, <1>2, AppendTypes DEF Preface
  <2>2. Left(MaxAttempts - srv'.attempts) \in ServerMessages
    BY <1>1, <1>5, MessageTypes DEF Repeats
  <2> QED
    BY <1>2, <1>5, <2>1, <2>2, AppendTypes DEF Repeats
<1> QED
  BY <1>3, <1>4, <1>5 DEF ReadOn

FlagTypes == [username : BOOLEAN, password : BOOLEAN, confirm : BOOLEAN, choosing : BOOLEAN,
              connected : BOOLEAN, authenticated : BOOLEAN, canRegister : BOOLEAN,
              attempts : 0..MaxAttempts]

LEMMA PromptedTypes ==
  ASSUME flags \in FlagTypes, NEW what \in Prompts
  PROVE  Prompted(what) \in FlagTypes
  BY DEF Prompted, FlagTypes, Prompts

LEMMA NotedTypes ==
  ASSUME flags \in FlagTypes, NEW m \in ServerMessages
  PROVE  Noted(m) \in FlagTypes
<1>1. m.what = "attempts" => m.arg \in 0..MaxAttempts
  BY MessageKinds, ClientAssumption DEF Prompts, Notices
<1>2. Reset(flags) \in FlagTypes
  <2>1. 0 \in 0..MaxAttempts
    BY ClientAssumption
  <2> QED
    BY <2>1 DEF Reset, FlagTypes
<1>3. \A b \in BOOLEAN : [flags EXCEPT !.canRegister = b] \in FlagTypes
  BY DEF FlagTypes
<1>4. /\ [flags EXCEPT !.password = FALSE, !.authenticated = TRUE] \in FlagTypes
      /\ [flags EXCEPT !.confirm = FALSE, !.authenticated = TRUE] \in FlagTypes
  BY DEF FlagTypes
<1>5. m.what = "attempts" => [flags EXCEPT !.attempts = m.arg] \in FlagTypes
  BY <1>1 DEF FlagTypes
<1> QED
  BY <1>2, <1>3, <1>4, <1>5 DEF Noted

(* The notices of a dialogue leave alone what Enter makes of a line. *)
LEMMA ModeKept ==
  ASSUME flags \in FlagTypes, NEW m, m.what \in {"attempts", "info", "tryAgain"}, flags' = Noted(m)
  PROVE  Mode' = Mode
<1>1. \/ flags' = [flags EXCEPT !.attempts = m.arg]
      \/ \E b \in BOOLEAN : flags' = [flags EXCEPT !.canRegister = b]
  BY DEF Noted
<1>2. /\ flags'.username = flags.username /\ flags'.password = flags.password
      /\ flags'.confirm = flags.confirm /\ flags'.choosing = flags.choosing
  BY <1>1 DEF FlagTypes
<1> QED
  BY <1>2 DEF Mode

LEMMA TypeInitial == Init => TypeInv
<1> SUFFICES ASSUME Init PROVE TypeInv
  OBVIOUS
<1>1. NoFlags \in FlagTypes
  BY ClientAssumption DEF NoFlags, FlagTypes
<1>2. /\ flags \in FlagTypes /\ srv \in SrvTypes /\ srv.pc = "none"
      /\ recv \in [pc : {"top", "read", "ended"}, current : BOOLEAN]
  BY <1>1, ClientAssumption DEF Init, SrvTypes
<1>3. /\ uid = Default /\ username = Default /\ ssl = "null" /\ reconnect = FALSE /\ recon = "top"
      /\ ping = "top" /\ up = FALSE /\ toClient = <<>> /\ toServer = <<>> /\ answered = FALSE
      /\ losses = 0 /\ connects = 0 /\ texts = 0 /\ sends = 0 /\ fault = "none"
  BY Zenon DEF Init
<1>4. 0 \in 0..MaxLosses /\ 0 \in 0..MaxConnects /\ 0 \in 0..MaxTexts /\ 0 \in 0..MaxSends
  BY ClientAssumption
<1>5. toClient \in Seq(ServerMessages) /\ toServer \in Seq(ClientMessages)
  BY <1>3
<1>6. reconnect \in BOOLEAN /\ up \in BOOLEAN /\ answered \in BOOLEAN
  BY <1>3, Zenon
<1>7. /\ uid \in Texts \cup {Default, NULL} /\ username \in Texts \cup {Default}
      /\ ssl \in {"null", "valid", "freed"} /\ recon = "top"
      /\ ping \in {"top", "failed"} /\ fault \in {"none", "nullUid", "badSsl", "uninitialisedMessage"}
      /\ losses \in 0..MaxLosses /\ connects \in 0..MaxConnects
      /\ texts \in 0..MaxTexts /\ sends \in 0..MaxSends
  BY <1>3, <1>4
<1> QED
  BY <1>2, <1>5, <1>6, <1>7 DEF TypeInv, TypeOK, FlagTypes, SrvTypes, Dialogue

LEMMA NameNull == NULL # Default /\ Default \notin Users /\ NULL \notin Texts
  BY ClientAssumption DEF Texts

(* What the server does to the types ... *)
LEMMA ServerTypes ==
  ASSUME TypeInv, Server
  PROVE  TypeInv'
<1>1. CASE ServerReads
  <2>1. /\ toServer # <<>> /\ toServer' = Tail(toServer)
        /\ UNCHANGED <<cl, ssl, reconnect, threads, answered, bounds, fault>>
        /\ ReadOn(Head(toServer).text)
    BY <1>1, ReadEffects
  <2>2. srv' \in SrvTypes /\ toClient' \in Seq(ServerMessages)
    BY <1>1, <2>1, ReadTypes, SentTypes
  <2>3. toServer' \in Seq(ClientMessages)
    BY <2>1 DEF TypeInv, TypeOK
  <2>4. up' \in BOOLEAN
    <3>1. UNCHANGED up \/ up' = TRUE \/ up' = FALSE
      BY <2>1, Zenon DEF ReadOn, Prompts1, LogsIn, Repeats, Closes
    <3>2. up \in BOOLEAN
      BY DEF TypeInv, TypeOK
    <3> QED
      BY <3>1, <3>2, Zenon
  <2>5. srv'.pc \in Dialogue => srv'.attempts < MaxAttempts
    BY <2>1 DEF ReadOn, Prompts1, LogsIn, Repeats, Closes, TypeInv, TypeOK, Dialogue
  <2> QED
    BY <2>1, <2>2, <2>3, <2>4, <2>5 DEF TypeInv, TypeOK, SrvTypes, cl, threads, bounds
<1>2. ASSUME NEW what \in {"ping", "chat"}, ServerSends(what) PROVE TypeInv'
  <2>1. MsgFor(what, srv.name) \in ServerMessages
    BY MessageTypes DEF Notices, TypeInv, TypeOK
  <2>2. toClient' \in Seq(ServerMessages)
    BY <1>2, <2>1, SendOne DEF ServerSends, Send, TypeInv, TypeOK
  <2>3. sends' \in 0..MaxSends
    BY <1>2, ClientAssumption DEF ServerSends, TypeInv, TypeOK
  <2> QED
    BY <1>2, <2>2, <2>3 DEF ServerSends, TypeInv, TypeOK, cl, threads
<1> QED
  BY <1>1, <1>2 DEF Server

RecvTypes == [pc : {"top", "read", "ended"}, current : BOOLEAN]

(* ... and what the client does. *)
LEMMA ReceiveTypes ==
  ASSUME TypeInv, Receive
  PROVE  TypeInv'
<1>1. CASE RecvStart
  BY <1>1 DEF RecvStart, TypeInv, TypeOK, cl, net, bounds
<1>2. CASE RecvFails
  BY <1>2 DEF RecvFails, TypeInv, TypeOK, cl, net, bounds
<1>3. CASE RecvMessage
  <2>1. CASE Stop("nullUid")
    BY <2>1 DEF Stop, TypeInv, TypeOK, cl, threads, net, bounds
  <2>2. CASE toClient' = Tail(toClient) /\ Handle(Head(toClient)) /\ toClient # <<>>
    <3>1. Head(toClient) \in ServerMessages /\ toClient' \in Seq(ServerMessages)
      BY <2>2 DEF TypeInv, TypeOK
    <3>2. flags' \in FlagTypes
      BY <2>2, <3>1, PromptedTypes, NotedTypes DEF Handle, TypeInv, TypeOK, FlagTypes
    <3>3. uid' \in Texts \cup {Default, NULL}
      BY <2>2 DEF Handle, TypeInv, TypeOK
    <3>4. answered' \in BOOLEAN
      BY <2>2 DEF Handle, TypeInv, TypeOK
    <3>5. recv' \in RecvTypes
      BY <2>2 DEF Handle, RecvTypes
    <3> QED
      BY <2>2, <3>1, <3>2, <3>3, <3>4, <3>5 DEF Handle, TypeInv, TypeOK, FlagTypes, RecvTypes, bounds
  <2> QED
    BY <1>3, <2>1, <2>2 DEF RecvMessage
<1>4. CASE RecvPing
  <2>1. toClient' \in Seq(ServerMessages)
    BY <1>4 DEF RecvPing, TypeInv, TypeOK
  <2>2. recv' \in RecvTypes
    <3>1. \E pc \in {"top", "ended"} : recv' = [pc |-> pc, current |-> FALSE]
      BY <1>4, Zenon DEF RecvPing
    <3> QED
      BY <3>1 DEF RecvTypes
  <2>3. toServer' \in Seq(ClientMessages) /\ reconnect' \in BOOLEAN
    <3>1. ASSUME NEW type \in {"ping", "ack"}, Written(type, NULL)
          PROVE  toServer' \in Seq(ClientMessages) /\ reconnect' \in BOOLEAN
      <4>1. [type |-> type, text |-> NULL] \in ClientMessages
        BY DEF ClientMessages
      <4> QED
        BY <3>1, <4>1 DEF Written, TypeInv, TypeOK
    <3>2. ASSUME WriteFails
          PROVE  toServer' \in Seq(ClientMessages) /\ reconnect' \in BOOLEAN
      <4>1. toServer' = toServer /\ reconnect' = TRUE
        BY <3>2, Zenon DEF WriteFails
      <4>2. reconnect' \in BOOLEAN
        BY <4>1, Zenon
      <4> QED
        BY <4>1, <4>2 DEF TypeInv, TypeOK
    <3> QED
      BY <1>4, <3>1, <3>2 DEF RecvPing
  <2> QED
    BY <1>4, <2>1, <2>2, <2>3 DEF RecvPing, TypeInv, TypeOK, RecvTypes, cl, bounds
<1> QED
  BY <1>1, <1>2, <1>3, <1>4 DEF Receive

LEMMA ReconnectTypes ==
  ASSUME TypeInv, Reconnect \/ Ping \/ Lose \/ (\E freed \in BOOLEAN : ReconFails(freed))
  PROVE  TypeInv'
<1>1. CASE ReconBegin
  <2>1. 0 \in 0..MaxAttempts
    BY ClientAssumption
  <2>2. flags' \in FlagTypes
    <3>1. flags \in FlagTypes /\ flags' = [Reset(flags) EXCEPT !.connected = FALSE]
      BY <1>1 DEF ReconBegin, FlagTypes, TypeInv, TypeOK
    <3>2. Reset(flags) \in FlagTypes
      BY <2>1, <3>1 DEF Reset, FlagTypes
    <3> QED
      BY <3>1, <3>2 DEF FlagTypes
  <2>3. uid' \in Texts \cup {Default, NULL}
    BY <1>1 DEF ReconBegin, TypeInv, TypeOK
  <2> QED
    BY <1>1, <2>2, <2>3 DEF ReconBegin, TypeInv, TypeOK, FlagTypes, net, bounds
<1>2. CASE ReconConnect
  <2>1. srv' \in SrvTypes /\ srv'.pc = "username" /\ srv'.attempts = 0
    BY <1>2, ClientAssumption DEF ReconConnect, SrvTypes
  <2>2. toClient' \in Seq(ServerMessages)
    <3>1. /\ Left(MaxAttempts) \in ServerMessages /\ Msg("info") \in ServerMessages
          /\ Msg("username") \in ServerMessages
      BY MessageTypes, ClientAssumption DEF Prompts, Notices
    <3>2. ASSUME NEW M, NEW a \in M, NEW b \in M, NEW c \in M PROVE <<a, b, c>> \in Seq(M)
      OBVIOUS
    <3>3. toClient' = <<Left(MaxAttempts), Msg("info"), Msg("username")>>
      BY <1>2, Rounds, Zenon DEF ReconConnect
    <3> QED
      BY <3>1, <3>2, <3>3
  <2>3. recv' \in RecvTypes
    BY <1>2 DEF ReconConnect, RecvTypes, TypeInv, TypeOK
  <2>4. 0 < MaxAttempts
    BY ClientAssumption
  <2>5. connects' \in 0..MaxConnects /\ toServer' \in Seq(ClientMessages)
    BY <1>2, ClientAssumption DEF ReconConnect, TypeInv, TypeOK
  <2>6. up' \in BOOLEAN
    <3>1. up' = TRUE
      BY <1>2, Zenon DEF ReconConnect
    <3> QED
      BY <3>1, Zenon
  <2> QED
    BY <1>2, <2>1, <2>2, <2>3, <2>4, <2>5, <2>6 DEF ReconConnect, TypeInv, TypeOK, SrvTypes, RecvTypes, cl
<1>3. CASE ReconDone
  <2>1. flags' \in FlagTypes
    BY <1>3 DEF ReconDone, FlagTypes, TypeInv, TypeOK
  <2>2. reconnect' \in BOOLEAN
    <3>1. reconnect' = FALSE
      BY <1>3, Zenon DEF ReconDone
    <3> QED
      BY <3>1, Zenon
  <2> QED
    BY <1>3, <2>1, <2>2 DEF ReconDone, TypeInv, TypeOK, FlagTypes, net, bounds
<1>4. ASSUME NEW freed \in BOOLEAN, ReconFails(freed) PROVE TypeInv'
  BY <1>4, ClientAssumption DEF ReconFails, TypeInv, TypeOK, cl, net
<1>5. CASE PingFails
  <2>1. flags' \in FlagTypes
    BY <1>5 DEF PingFails, FlagTypes, TypeInv, TypeOK
  <2> QED
    BY <1>5, <2>1 DEF PingFails, TypeInv, TypeOK, FlagTypes, net, bounds
<1>6. CASE PingFlags
  BY <1>6 DEF PingFlags, TypeInv, TypeOK, cl, net, bounds
<1>7. CASE Lose
  <2>1. srv' \in SrvTypes /\ srv'.pc = "closed"
    BY <1>7 DEF Lose, TypeInv, TypeOK, SrvTypes
  <2>2. up' \in BOOLEAN
    <3>1. up' = FALSE
      BY <1>7, Zenon DEF Lose
    <3> QED
      BY <3>1, Zenon
  <2>3. losses' \in 0..MaxLosses /\ toServer' \in Seq(ClientMessages)
    BY <1>7, ClientAssumption DEF Lose, TypeInv, TypeOK
  <2> QED
    BY <1>7, <2>1, <2>2, <2>3 DEF Lose, TypeInv, TypeOK, SrvTypes, Dialogue, cl, threads
<1> QED
  BY <1>1, <1>2, <1>3, <1>4, <1>5, <1>6, <1>7 DEF Reconnect, Ping

LEMMA EnterTypes ==
  ASSUME TypeInv, NEW x \in Texts, Enter(x)
  PROVE  TypeInv'
<1>1. ASSUME NEW what \in {"badSsl", "uninitialisedMessage"}, Stop(what) PROVE TypeInv'
  BY <1>1 DEF Stop, TypeInv, TypeOK, cl, threads, net, bounds
<1>2. CASE /\ Remember(x) /\ (Written(TypeOf, x) \/ WriteFails) /\ answered' = TRUE
           /\ UNCHANGED <<flags, uid, ssl, threads, up, toClient, srv, losses, connects, sends, fault>>
  <2>1. username' \in Texts \cup {Default}
    BY <1>2 DEF Remember, TypeInv, TypeOK
  <2>2. toServer' \in Seq(ClientMessages) /\ reconnect' \in BOOLEAN
    <3>1. [type |-> TypeOf, text |-> x] \in ClientMessages
      BY DEF ClientMessages, TypeOf
    <3>2. CASE WriteFails
      <4>1. toServer' = toServer /\ reconnect' = TRUE
        BY <3>2, Zenon DEF WriteFails
      <4>2. reconnect' \in BOOLEAN
        BY <4>1, Zenon
      <4> QED
        BY <4>1, <4>2 DEF TypeInv, TypeOK
    <3>3. CASE Written(TypeOf, x)
      BY <3>1, <3>3 DEF Written, TypeInv, TypeOK
    <3> QED
      BY <1>2, <3>2, <3>3
  <2>3. texts' \in 0..MaxTexts
    <3>1. \/ UNCHANGED texts
          \/ texts < MaxTexts /\ texts' = texts + 1
          \/ UNCHANGED vars \/ Stop("badSsl") \/ Stop("uninitialisedMessage")
      BY DEF Enter
    <3> QED
      BY <3>1, ClientAssumption DEF TypeInv, TypeOK, Stop, vars, bounds
  <2> QED
    BY <1>2, <2>1, <2>2, <2>3 DEF TypeInv, TypeOK, threads
<1> QED
  BY <1>1, <1>2 DEF Enter

LEMMA TypeStep == TypeInv /\ [Next]_vars => TypeInv'
<1> SUFFICES ASSUME TypeInv, [Next]_vars PROVE TypeInv'
  OBVIOUS
<1>1. CASE UNCHANGED vars
  BY <1>1 DEF vars, TypeInv, TypeOK, cl, threads, net, bounds
<1> QED
  BY <1>1, ServerTypes, ReceiveTypes, ReconnectTypes, EnterTypes DEF Next

(* The client's flags, names and threads, the server's end and what is on    *)
(* its way keep their types, over lost connections and failed ones.          *)
THEOREM ClientTypeCorrect == Spec => []TypeOK
<1>1. TypeInv => TypeOK
  BY DEF TypeInv
<1> QED
  BY <1>1, TypeInitial, TypeStep, PTL DEF Spec

-----------------------------------------------------------------------------
(* Sequences that lose their head or get another element. *)
LEMMA AppendIs ==
  ASSUME NEW M, NEW s \in Seq(M), NEW m \in M
  PROVE  /\ Append(s, m) \in Seq(M) /\ Len(s) \in Nat /\ Len(Append(s, m)) = Len(s) + 1
         /\ \A i \in 1..Len(s) : Append(s, m)[i] = s[i]
         /\ Append(s, m)[Len(s) + 1] = m
  OBVIOUS

LEMMA TailIs ==
  ASSUME NEW M, NEW s \in Seq(M), s # <<>>
  PROVE  /\ Head(s) = s[1] /\ Head(s) \in M /\ Tail(s) \in Seq(M)
         /\ Len(s) \in Nat \ {0} /\ Len(Tail(s)) = Len(s) - 1
         /\ \A i \in 1..(Len(s) - 1) : Tail(s)[i] = s[i + 1]
         /\ \A i \in 1..(Len(s) - 1) : i + 1 \in 1..Len(s)
         /\ \A i \in 2..Len(s) : i - 1 \in 1..Len(Tail(s)) /\ Tail(s)[i - 1] = s[i]
  OBVIOUS

(* The order of the messages, when one more is sent or one is received. *)
LEMMA OrderlyAppend ==
  ASSUME NEW s \in Seq(ServerMessages), NEW m \in ServerMessages, NEW a, NEW b, Orderly(s, a),
         \/ m.what \in OfSession
         \/ \A i \in 1..Len(s) : s[i].what \notin OfLogin,
         \/ b.pc \in {"session", "closed"} /\ b.name = a.name
         \/ \A i \in 1..Len(s) : s[i].what \notin OfLogin,
         m.what \in OfLogin => b.pc \in {"session", "closed"},
         m.what = "uid" => m.arg = b.name,
         b.attempts = 0 => a.attempts = 0 /\ m.what # "online"
  PROVE  Orderly(Append(s, m), b)
<1> DEFINE t == Append(s, m)
           n == Len(s) + 1
<1>1. /\ Len(s) \in Nat /\ Len(t) = n /\ t[n] = m
      /\ \A i \in 1..n : i # n => i \in 1..Len(s) /\ t[i] = s[i]
  <2>1. Len(s) \in Nat /\ Len(t) = n /\ t[n] = m /\ \A i \in 1..Len(s) : t[i] = s[i]
    BY AppendIs
  <2> QED
    BY <2>1
<1> HIDE DEF t, n
<1>2. OfSession \subseteq OfLogin /\ "uid" \in OfLogin
  BY DEF OfSession, OfLogin
<1>3. \A i, j \in 1..n : i < j /\ t[i].what \in OfLogin => t[j].what \in OfSession
  <2> SUFFICES ASSUME NEW i \in 1..n, NEW j \in 1..n, i < j, t[i].what \in OfLogin
               PROVE  t[j].what \in OfSession
    OBVIOUS
  <2>1. i # n
    BY <1>1 DEF n
  <2> QED
    BY <1>1, <2>1 DEF Orderly
<1>4. /\ \A i \in 1..n : t[i].what \in OfLogin => b.pc \in {"session", "closed"}
      /\ \A i \in 1..n : t[i].what = "uid" => t[i].arg = b.name
      /\ b.attempts = 0 => \A i \in 1..n : t[i].what # "online"
  BY <1>1, <1>2 DEF Orderly
<1> QED
  BY <1>1, <1>3, <1>4 DEF Orderly, t

LEMMA OrderlyTail ==
  ASSUME NEW s \in Seq(ServerMessages), s # <<>>, NEW a, NEW b, Orderly(s, a),
         \/ b.pc = a.pc \/ b.pc = "closed", b.name = a.name, b.attempts = a.attempts
  PROVE  Orderly(s, b) /\ Orderly(Tail(s), b)
<1>1. Orderly(s, b)
  BY DEF Orderly
<1>2. /\ Len(s) \in Nat \ {0} /\ Len(Tail(s)) = Len(s) - 1
      /\ \A i \in 1..(Len(s) - 1) : i + 1 \in 1..Len(s) /\ Tail(s)[i] = s[i + 1]
  BY TailIs
<1>3. \A i, j \in 1..(Len(s) - 1) : i < j => i + 1 < j + 1
  BY <1>2
<1> QED
  BY <1>1, <1>2, <1>3 DEF Orderly

LEMMA MessagesInitial == Init => Messages
  BY DEF Init, Messages, Orderly

(* No message of the list below is one of a session or of a login. *)
LEMMA DialogueKinds ==
  /\ \A what \in Prompts \cup {"info", "tryAgain", "online", "attempts"} : what \notin OfLogin
  /\ \A what \in {"authenticated", "created"} : what \in OfLogin /\ what # "uid" /\ what # "online"
  /\ \A what \in OfSession : what \in OfLogin /\ what # "online"
  BY DEF Prompts, OfLogin, OfSession

LEMMA MessagesRead ==
  ASSUME TypeInv, Messages, NEW x, ReadOn(x)
  PROVE  Messages'
<1>1. /\ toClient \in Seq(ServerMessages) /\ srv.attempts \in 0..MaxAttempts
      /\ srv.name \in Texts \cup {NULL} /\ MaxAttempts \in Nat \ {0} /\ Orderly(toClient, srv)
  BY ClientAssumption DEF TypeInv, TypeOK, Messages
<1>2. /\ \A what \in {"username", "password", "confirm", "choice", "tryAgain", "online",
                      "authenticated", "created"} :
            Msg(what) \in ServerMessages /\ Msg(what).what = what
      /\ MsgFor("uid", srv.name) \in ServerMessages
      /\ MsgFor("uid", srv.name).what = "uid" /\ MsgFor("uid", srv.name).arg = srv.name
  BY <1>1, MessageTypes DEF Prompts, Notices
<1>3. srv.pc \in Dialogue => \A i \in 1..Len(toClient) : toClient[i].what \notin OfLogin
  BY <1>1 DEF Orderly, Dialogue
<1>4. \A what \in {"username", "password", "confirm", "choice", "tryAgain", "online", "attempts"} :
         what \notin OfLogin /\ what # "uid"
  BY DEF OfLogin, OfSession
<1>5. CASE Prompts1(x)
  <2>1. /\ srv.pc \in Dialogue /\ srv'.attempts = srv.attempts
        /\ \E what \in {"choice", "password", "confirm"} : toClient' = Append(toClient, Msg(what))
    BY <1>5 DEF Prompts1, Dialogue
  <2> QED
    BY <1>1, <1>2, <1>3, <1>4, <2>1, OrderlyAppend DEF Messages
<1>6. CASE LogsIn(x)
  <2>1. PICK notice \in {"authenticated", "created"} :
          /\ srv.pc \in Dialogue
          /\ toClient' = Append(Append(toClient, Msg(notice)), MsgFor("uid", srv.name))
    BY <1>6 DEF LogsIn, Dialogue
  <2>2. srv'.attempts = srv.attempts /\ srv'.name = srv.name /\ srv'.pc = "session"
    BY <1>6 DEF LogsIn
  <2>3. notice # "uid" /\ notice # "online"
    OBVIOUS
  <2>4. Orderly(Append(toClient, Msg(notice)), srv') /\ Append(toClient, Msg(notice)) \in Seq(ServerMessages)
    BY <1>1, <1>2, <1>3, <2>1, <2>2, <2>3, OrderlyAppend, AppendIs
  <2>5. "uid" \in OfSession
    BY DEF OfSession
  <2>6. ASSUME NEW s \in Seq(ServerMessages), NEW m \in ServerMessages, Orderly(s, srv'),
               m.what = "uid", m.arg = srv'.name
        PROVE  Orderly(Append(s, m), srv')
    BY <2>2, <2>5, <2>6, OrderlyAppend
  <2> QED
    BY <1>2, <2>1, <2>2, <2>4, <2>6 DEF Messages
<1>7. CASE Repeats(x)
  <2>1. /\ srv.pc \in Dialogue /\ srv'.attempts \in 1..(MaxAttempts - 1)
        /\ toClient' = Append(Append(Preface(x), Left(MaxAttempts - srv'.attempts)), Msg("username"))
    BY <1>1, <1>7 DEF Repeats, Dialogue
  <2>2. \A i \in 1..Len(toClient) : toClient[i].what \notin OfLogin
    BY <1>3, <2>1
  <2> DEFINE Plain(s) == s \in Seq(ServerMessages) /\ \A i \in 1..Len(s) : s[i].what \notin OfLogin
  <2>3. ASSUME NEW s, Plain(s), NEW m \in ServerMessages, m.what \notin OfLogin PROVE Plain(Append(s, m))
    BY <2>3
  <2>4. Plain(Preface(x))
    <3>1. Plain(toClient) /\ Plain(Append(toClient, Msg("online"))) /\ Plain(Append(toClient, Msg("tryAgain")))
          /\ Plain(Append(Append(toClient, Msg("password")), Msg("tryAgain")))
      BY <1>1, <1>2, <1>4, <2>2, <2>3
    <3> QED
      BY <3>1 DEF Preface
  <2>5. Left(MaxAttempts - srv'.attempts) \in ServerMessages /\ Left(MaxAttempts - srv'.attempts).what = "attempts"
    BY <1>1, <2>1, MessageTypes
  <2>6. Plain(toClient')
    BY <1>2, <1>4, <2>1, <2>3, <2>4, <2>5
  <2>7. OfSession \subseteq OfLogin /\ "uid" \in OfLogin
    BY DEF OfSession, OfLogin
  <2> QED
    BY <2>1, <2>6, <2>7 DEF Messages, Orderly
<1>8. CASE Closes
  <2>1. /\ srv.pc \in Dialogue /\ srv'.name = srv.name /\ srv'.pc = "closed"
        /\ srv'.attempts \in {srv.attempts, srv.attempts + 1}
        /\ \/ toClient' = toClient \/ toClient' = Append(toClient, Msg("tryAgain"))
           \/ toClient' = Append(toClient, Msg("online")) /\ srv'.attempts # 0
    BY <1>8 DEF Closes
  <2>2. srv'.attempts = 0 => srv.attempts = 0
    BY <1>1, <2>1
  <2>3. Orderly(toClient, srv')
    BY <1>1, <1>3, <2>1, <2>2 DEF Orderly
  <2>4. ASSUME NEW m \in ServerMessages, m.what \in {"tryAgain", "online"},
               srv'.attempts # 0 \/ m.what # "online"
        PROVE  Orderly(Append(toClient, m), srv')
    BY <1>1, <1>3, <1>4, <2>1, <2>3, <2>4, OrderlyAppend
  <2> QED
    BY <1>2, <2>1, <2>3, <2>4 DEF Messages
<1>9. CASE UNCHANGED <<srv, toClient, up>>
  BY <1>9 DEF Messages
<1> QED
  BY <1>5, <1>6, <1>7, <1>8, <1>9 DEF ReadOn

LEMMA MessagesStep ==
  ASSUME TypeInv, Messages, [Next]_vars
  PROVE  Messages'
<1>1. toClient \in Seq(ServerMessages) /\ Orderly(toClient, srv)
  BY DEF TypeInv, TypeOK, Messages
<1>2. CASE UNCHANGED <<toClient, srv>>
  BY <1>1, <1>2 DEF Messages
<1>3. CASE ServerReads
  BY <1>3, ReadEffects, MessagesRead
<1>4. ASSUME NEW what \in {"ping", "chat"}, ServerSends(what) PROVE Messages'
  <2>1. /\ MsgFor(what, srv.name) \in ServerMessages /\ MsgFor(what, srv.name).what = what
    <3>1. srv.name \in Texts \cup {NULL}
      BY DEF TypeInv, TypeOK
    <3> QED
      BY <3>1, MessageTypes DEF Notices
  <2>2. toClient' = Append(toClient, MsgFor(what, srv.name)) /\ srv' = srv /\ srv.pc = "session"
    BY <1>1, <1>4, <2>1, SendOne DEF ServerSends, Send
  <2>3. what \in OfSession /\ what # "uid" /\ what # "online"
    BY DEF OfSession
  <2> QED
    BY <1>1, <2>1, <2>2, <2>3, OrderlyAppend DEF Messages
<1>5. CASE Lose
  <2>1. toClient' = toClient /\ srv'.pc = "closed" /\ srv'.name = srv.name /\ srv'.attempts = srv.attempts
    BY <1>5 DEF Lose, TypeInv, TypeOK
  <2> QED
    BY <1>1, <2>1 DEF Messages, Orderly
<1>6. CASE toClient # <<>> /\ toClient' = Tail(toClient) /\ srv' = srv
  BY <1>1, <1>6, OrderlyTail DEF Messages
<1>7. CASE ReconConnect
  <2>1. toClient' = <<Left(MaxAttempts), Msg("info"), Msg("username")>>
    BY <1>7, Rounds, Zenon DEF ReconConnect
  <2>2. /\ Left(MaxAttempts).what = "attempts" /\ Msg("info").what = "info"
        /\ Msg("username").what = "username"
    BY DEF Left, Msg
  <2>3. Len(toClient') = 3 /\ \A i \in 1..3 : toClient'[i].what \in {"attempts", "info", "username"}
    BY <2>1, <2>2
  <2>4. \A what \in {"attempts", "info", "username"} : what \notin OfLogin /\ what # "uid" /\ what # "online"
    BY DEF OfLogin, OfSession
  <2> QED
    BY <2>3, <2>4 DEF Messages, Orderly
<1>8. ASSUME RecvMessage PROVE Messages'
  <2>1. CASE Stop("nullUid")
    BY <1>2, <2>1 DEF Stop, net
  <2>2. CASE toClient' = Tail(toClient) /\ Handle(Head(toClient))
    BY <1>6, <1>8, <2>2 DEF RecvMessage, Handle
  <2> QED
    BY <1>8, <2>1, <2>2 DEF RecvMessage
<1>9. ASSUME NEW x \in Texts, Enter(x) PROVE Messages'
  BY <1>2, <1>9 DEF Enter, Stop, net
<1>10. CASE RecvStart \/ RecvFails \/ ReconBegin \/ ReconDone \/ Ping
  BY <1>2, <1>10 DEF RecvStart, RecvFails, ReconBegin, ReconDone, Ping, PingFails, PingFlags, net
<1>11. ASSUME NEW freed \in BOOLEAN, ReconFails(freed) PROVE Messages'
  BY <1>2, <1>11 DEF ReconFails, net
<1>12. CASE RecvPing
  BY <1>6, <1>12 DEF RecvPing
<1>13. CASE UNCHANGED vars
  BY <1>2, <1>13 DEF vars, net
<1> QED
  BY <1>3, <1>4, <1>5, <1>7, <1>8, <1>9, <1>10, <1>11, <1>12, <1>13 DEF Next, Server, Receive, Reconnect

-----------------------------------------------------------------------------
(* The threads *)
LEMMA ThreadsInitial == Init => Threads
  BY DEF Init, Threads, NoFlags, OnlyIn, Only, OfSession, Dialogue

LEMMA OnlyAfter ==
  ASSUME NEW whats, NEW s \in Seq(ServerMessages), OnlyIn(s, whats)
  PROVE  /\ s # <<>> => OnlyIn(Tail(s), whats) /\ Head(s).what \in whats
         /\ \A m \in ServerMessages : m.what \in whats => OnlyIn(Append(s, m), whats)
<1>1. s # <<>> => OnlyIn(Tail(s), whats) /\ Head(s).what \in whats
  BY TailIs DEF OnlyIn
<1>2. ASSUME NEW m \in ServerMessages, m.what \in whats PROVE OnlyIn(Append(s, m), whats)
  BY <1>2 DEF OnlyIn
<1> QED
  BY <1>1, <1>2

(* What a message leaves of the flags: only prompts and what ends the        *)
(* dialogue change them, and none changes whether there is a connection.     *)
LEMMA HandledFlags ==
  ASSUME TypeInv, NEW m \in ServerMessages, m.what # "ping"
  PROVE  LET new == IF m.what \in Prompts THEN Prompted(m.what) ELSE Noted(m) IN
         /\ new \in FlagTypes
         /\ new.connected = flags.connected
         /\ m.what \in OfSession => new = flags
         /\ new.authenticated /\ ~flags.authenticated => m.what \in {"authenticated", "created"}
<1>1. flags \in FlagTypes
  BY DEF TypeInv, TypeOK, FlagTypes
<1>2. CASE m.what \in Prompts
  BY <1>1, <1>2, PromptedTypes DEF Prompts, Prompted, FlagTypes, OfSession
<1>3. CASE m.what \notin Prompts
  BY <1>1, <1>3, NotedTypes DEF Prompts, Noted, Reset, FlagTypes, OfSession
<1> QED
  BY <1>2, <1>3

LEMMA ThreadsServer ==
  ASSUME TypeInv, Threads, Server \/ Lose
  PROVE  Threads'
<1>1. CASE ServerReads
  <2>1. /\ up /\ UNCHANGED <<cl, ssl, reconnect, threads, answered, bounds, fault>>
        /\ ReadOn(Head(toServer).text)
    BY <1>1, ReadEffects
  <2>2. up' => srv'.pc \in Dialogue \cup {"session"}
    BY <2>1 DEF ReadOn, Prompts1, LogsIn, Repeats, Closes, Threads, Dialogue
  <2>3. flags.authenticated => UNCHANGED <<srv, toClient>>
    BY <2>1 DEF ReadOn, Prompts1, LogsIn, Repeats, Closes, Threads, Dialogue
  <2>4. ~(~flags.connected /\ recon # "connected")
    BY <2>1 DEF Threads, TypeInv, TypeOK
  <2>5. connects # 0
    BY <2>1 DEF Threads
  <2> QED
    BY <2>1, <2>2, <2>3, <2>4, <2>5 DEF Threads, Clean, Only, cl, threads, bounds
<1>2. ASSUME NEW what \in {"ping", "chat"}, ServerSends(what) PROVE Threads'
  <2>1. /\ MsgFor(what, srv.name) \in ServerMessages /\ MsgFor(what, srv.name).what = what
    <3>1. srv.name \in Texts \cup {NULL}
      BY DEF TypeInv, TypeOK
    <3> QED
      BY <3>1, MessageTypes DEF Notices
  <2>2. toClient \in Seq(ServerMessages) /\ toClient' = Append(toClient, MsgFor(what, srv.name))
    BY <1>2, <2>1, SendOne DEF ServerSends, Send, TypeInv, TypeOK
  <2>3. Only(OfSession) => Only(OfSession)'
    BY <2>1, <2>2, OnlyAfter DEF Only, OfSession
  <2> QED
    BY <1>2, <2>3 DEF ServerSends, Threads, Clean, cl, threads
<1>3. CASE Lose
  <2>1. up /\ up' = FALSE /\ connects # 0
    BY <1>3, Zenon DEF Lose, Threads
  <2>2. srv'.pc = "closed" /\ UNCHANGED <<cl, ssl, reconnect, threads, toClient, connects>>
    BY <1>3 DEF Lose, TypeInv, TypeOK
  <2> QED
    BY <2>1, <2>2 DEF Threads, Clean, Only, cl, threads
<1> QED
  BY <1>1, <1>2, <1>3 DEF Server

LEMMA ThreadsReceive ==
  ASSUME TypeInv, Messages, Threads, Receive
  PROVE  Threads'
<1>1. CASE RecvStart
  BY <1>1 DEF RecvStart, Threads, Clean, Only, cl, net, bounds
<1>2. CASE RecvFails
  <2>1. ~(connects = 0 \/ (connects = 1 /\ up))
    BY <1>2 DEF RecvFails, Threads
  <2>2. recv' = [pc |-> "top", current |-> FALSE] /\ UNCHANGED <<cl, ssl, recon, ping, net, bounds>>
    BY <1>2 DEF RecvFails
  <2> QED
    BY <2>1, <2>2 DEF Threads, Clean, Only, cl, net, bounds
<1>3. CASE RecvMessage
  <2>1. CASE Stop("nullUid")
    BY <2>1 DEF Stop, Threads, Clean, Only, cl, threads, net, bounds
  <2>2. CASE toClient' = Tail(toClient) /\ Handle(Head(toClient))
    <3> DEFINE m == Head(toClient)
               new == IF m.what \in Prompts THEN Prompted(m.what) ELSE Noted(m)
    <3>1. /\ recv.pc = "read" /\ recv.current /\ toClient # <<>> /\ toClient \in Seq(ServerMessages)
          /\ m.what # "ping"
      BY <1>3 DEF RecvMessage, TypeInv, TypeOK
    <3>2. /\ recv' = [pc |-> "top", current |-> FALSE]
          /\ UNCHANGED <<username, ssl, reconnect, recon, ping, up, toServer, srv, bounds>>
      BY <2>2 DEF Handle
    <3>3. /\ m \in ServerMessages
          /\ Only(OfSession) => Only(OfSession)' /\ m.what \in OfSession
      BY <2>2, <3>1, OnlyAfter, TailIs DEF Only
    <3>4. IF Dropped(m) THEN flags' = flags /\ uid' = uid
          ELSE flags' = new /\ uid' \in {uid, m.arg} /\ (uid # Default => uid' = uid)
      BY <2>2 DEF Handle
    <3>5. /\ new.connected = flags.connected /\ (m.what \in OfSession => new = flags)
          /\ new.authenticated /\ ~flags.authenticated => m.what \in {"authenticated", "created"}
      BY <3>1, <3>3, HandledFlags
    <3> HIDE DEF m, new
    <3>6. flags'.connected = flags.connected
      BY <3>4, <3>5
    <3>7. recon = "connect" => flags' = flags
      <4>1. recon = "connect" => ~flags.connected /\ ~flags.authenticated
        BY DEF Threads, Clean
      <4>2. recon = "connect" /\ uid = Default => m.what \in OfSession
        BY <3>3, <4>1 DEF Threads
      <4>3. recon = "connect" /\ uid # Default => Dropped(m)
        BY <4>1 DEF Dropped
      <4> QED
        BY <3>4, <3>5, <4>2, <4>3
    <3>8. flags'.authenticated => recon = "top" /\ Only(OfSession)' /\ srv.pc \in {"session", "closed"}
      <4>1. CASE flags.authenticated
        BY <3>3, <4>1 DEF Threads
      <4>2. CASE ~flags.authenticated /\ flags'.authenticated
        <5>1. ~Dropped(m) /\ m.what \in {"authenticated", "created"} /\ uid = Default
          BY <3>4, <3>5, <4>2 DEF Dropped
        <5>2. m.what \in OfLogin /\ m.what \notin OfSession
          BY <5>1 DEF OfLogin, OfSession
        <5>3. ~Only(OfSession)
          BY <3>3, <5>2
        <5>4. m = toClient[1] /\ 1 \in 1..Len(toClient)
          BY <3>1, TailIs DEF m
        <5>5. \A j \in 2..Len(toClient) : toClient[j].what \in OfSession
          BY <3>1, <5>2, <5>4 DEF Messages, Orderly
        <5>6. Only(OfSession)'
          BY <2>2, <3>1, <5>5, TailIs DEF Only, OnlyIn
        <5>7. srv.pc \in {"session", "closed"}
          BY <5>2, <5>4 DEF Messages, Orderly
        <5>8. recon = "top"
          BY <3>1, <5>1, <5>3 DEF Threads, TypeInv, TypeOK
        <5> QED
          BY <5>6, <5>7, <5>8
      <4> QED
        BY <4>1, <4>2
    <3>9. uid' = Default => uid = Default
      BY <3>4
    <3>10. connects # 0
      BY <3>1 DEF Threads
    <3> QED
      <4>1. (recon = "connect" => Clean)'
        BY <3>2, <3>7 DEF Threads, Clean
      <4>2. (~flags.connected /\ recon # "connected" /\ uid = Default => Only(OfSession))'
        BY <3>2, <3>3, <3>6, <3>9 DEF Threads
      <4> QED
        BY <3>2, <3>6, <3>8, <3>10, <4>1, <4>2 DEF Threads, bounds
  <2> QED
    BY <1>3, <2>1, <2>2 DEF RecvMessage
<1>4. CASE RecvPing
  <2>1. recv'.pc \in {"top", "ended"} /\ ~recv'.current
    <3>1. \E pc \in {"top", "ended"} : recv' = [pc |-> pc, current |-> FALSE]
      BY <1>4, Zenon DEF RecvPing
    <3> QED
      BY <3>1
  <2>4. connects # 0 /\ UNCHANGED <<cl, ssl, recon, ping, up, srv, bounds>>
    BY <1>4 DEF RecvPing, Threads
  <2>2. Only(OfSession) => Only(OfSession)'
    BY <1>4, OnlyAfter DEF RecvPing, Only, TypeInv, TypeOK
  <2>3. UNCHANGED reconnect \/ ~up
    BY <1>4 DEF RecvPing, Written, WriteFails
  <2> QED
    BY <2>1, <2>2, <2>3, <2>4 DEF Threads, Clean, cl, bounds
<1> QED
  BY <1>1, <1>2, <1>3, <1>4 DEF Receive

LEMMA ThreadsReconnect ==
  ASSUME TypeInv, Threads, Reconnect \/ (\E freed \in BOOLEAN : ReconFails(freed))
  PROVE  Threads'
<1>1. CASE ReconBegin
  <2>1. ~up /\ connects \in 0..MaxConnects /\ MaxConnects \in 0..2 /\ connects < MaxConnects
    <3>1. connects \in 0..MaxConnects /\ MaxConnects \in 0..2 /\ connects < MaxConnects
      BY <1>1, ClientAssumption DEF ReconBegin, TypeInv, TypeOK
    <3>2. ASSUME up PROVE FALSE
      <4>1. connects = 1 /\ flags.connected /\ reconnect
        BY <1>1, <3>1, <3>2 DEF ReconBegin, Threads
      <4> QED
        BY <3>2, <4>1 DEF Threads
    <3> QED
      BY <3>1, <3>2
  <2>2. Clean' /\ ~flags'.connected /\ ~flags'.authenticated
    <3>1. flags' = [Reset(flags) EXCEPT !.connected = FALSE] /\ flags \in FlagTypes
      BY <1>1 DEF ReconBegin, TypeInv, TypeOK, FlagTypes
    <3> QED
      BY <3>1 DEF Reset, Clean, FlagTypes
  <2>3. uid' = Default => Only(OfSession)
    BY <1>1, NameNull DEF ReconBegin, Threads
  <2> QED
    BY <1>1, <2>1, <2>2, <2>3 DEF ReconBegin, Threads, Only, net, bounds
<1>2. CASE ReconConnect
  <2>1. /\ recon = "connect" /\ recon' = "connected" /\ connects' = connects + 1 /\ ssl' = "valid"
        /\ srv'.pc = "username" /\ ~recv'.current /\ recv'.pc = recv.pc
        /\ UNCHANGED <<cl, reconnect, ping>>
    BY <1>2 DEF ReconConnect, TypeInv, TypeOK
  <2>2. ~flags.connected /\ ~flags.authenticated
    BY <2>1 DEF Threads, Clean
  <2>3. connects' # 0 /\ (connects' = 1 => connects = 0)
    BY <2>1 DEF TypeInv, TypeOK
  <2> QED
    BY <2>1, <2>2, <2>3 DEF Threads, Dialogue, cl
<1>3. CASE ReconDone
  <2>1. /\ recon = "connected" /\ recon' = "top" /\ reconnect' = FALSE
        /\ UNCHANGED <<uid, username, ssl, recv, ping, net, bounds>>
    BY <1>3 DEF ReconDone
  <2>2. flags'.connected /\ ~flags'.authenticated /\ connects # 0 /\ ~recv.current
    BY <1>3, <2>1 DEF ReconDone, Threads, TypeInv, TypeOK
  <2>3. ~reconnect'
    BY <2>1, Zenon
  <2> QED
    BY <2>1, <2>2, <2>3 DEF Threads, net, bounds
<1>4. ASSUME NEW freed \in BOOLEAN, ReconFails(freed) PROVE Threads'
  <2>1. /\ recon = "connect" /\ recon' = "top" /\ (ssl' = ssl \/ ssl' = "freed")
        /\ UNCHANGED <<cl, reconnect, recv, ping, net, connects>>
    BY <1>4 DEF ReconFails
  <2>2. ~up /\ ~flags.connected /\ ~flags.authenticated
    BY <2>1 DEF Threads, Clean
  <2> QED
    BY <2>1, <2>2 DEF Threads, Only, cl, net
<1> QED
  BY <1>1, <1>2, <1>3, <1>4 DEF Reconnect

LEMMA ThreadsOther ==
  ASSUME TypeInv, Threads, Ping \/ \E x \in Texts : Enter(x)
  PROVE  Threads'
<1>1. CASE PingFails
  <2>1. /\ ssl = "valid" /\ flags.authenticated /\ ~up /\ ping' = "failed"
        /\ UNCHANGED <<uid, username, ssl, reconnect, recv, recon, net, bounds>>
    BY <1>1 DEF PingFails
  <2>2. connects # 0 /\ recon = "top" /\ Only(OfSession)
    BY <2>1 DEF Threads
  <2>3. ~flags'.connected /\ (flags'.authenticated <=> flags.authenticated)
    BY <1>1 DEF PingFails, TypeInv, TypeOK
  <2> QED
    BY <2>1, <2>2, <2>3 DEF Threads, Only, net, bounds
<1>2. CASE PingFlags
  <2>1. /\ ping = "failed" /\ UNCHANGED <<cl, ssl, recv, recon, net, bounds>>
    BY <1>2 DEF PingFlags
  <2>2. ~(connects = 0 \/ (connects = 1 /\ up))
    BY <2>1 DEF Threads
  <2> QED
    BY <2>1, <2>2 DEF Threads, Clean, Only, cl, net, bounds
<1>3. ASSUME NEW x \in Texts, Enter(x) PROVE Threads'
  <2>1. CASE UNCHANGED <<cl, ssl, reconnect, threads, net, bounds>>
    BY <2>1 DEF Threads, Clean, Only, cl, threads, net, bounds
  <2>2. CASE /\ ssl = "valid" /\ UNCHANGED <<flags, uid, ssl, threads, up, toClient, srv, connects>>
             /\ UNCHANGED reconnect \/ ~up
    <3>1. connects # 0
      BY <2>2 DEF Threads
    <3> QED
      BY <2>2, <3>1 DEF Threads, Clean, Only, threads
  <2> QED
    BY <1>3, <2>1, <2>2 DEF Enter, Stop, Written, WriteFails
<1> QED
  BY <1>1, <1>2, <1>3 DEF Ping

LEMMA ThreadsStep ==
  ASSUME TypeInv, Messages, Threads, [Next]_vars
  PROVE  Threads'
<1>1. CASE UNCHANGED vars
  BY <1>1 DEF vars, Threads, Clean, Only, cl, threads, net, bounds
<1> QED
  BY <1>1, ThreadsServer, ThreadsReceive, ThreadsReconnect, ThreadsOther DEF Next

-----------------------------------------------------------------------------
(* What will be shown: when the next message is handled, nothing of it       *)
(* changes; when another message is sent, that message decides.              *)
LEMMA ShownAppend ==
  ASSUME NEW M, NEW s \in Seq(M), NEW m \in M, NEW now \in BOOLEAN, NEW On, NEW Off
  PROVE  Shown(now, On, Off, Append(s, m)) <=> m \in On \/ (Shown(now, On, Off, s) /\ m \notin Off)
<1> DEFINE t == Append(s, m)
           n == Len(s) + 1
<1>1. /\ Len(s) \in Nat /\ Len(t) = n /\ t[n] = m /\ \A i \in 1..Len(s) : t[i] = s[i]
  BY AppendIs
<1> HIDE DEF t
<1>2. \A i \in 1..n : i \in 1..Len(s) \/ i = n
  BY <1>1
<1>3. ASSUME Shown(now, On, Off, t) PROVE m \in On \/ (Shown(now, On, Off, s) /\ m \notin Off)
  <2>1. CASE now /\ \A i \in 1..n : t[i] \notin Off
    BY <1>1, <2>1 DEF Shown
  <2>2. CASE \E i \in 1..n : t[i] \in On /\ \A j \in 1..n : j > i => t[j] \notin Off
    <3>1. PICK i \in 1..n : t[i] \in On /\ \A j \in 1..n : j > i => t[j] \notin Off
      BY <2>2
    <3>2. CASE i = n
      BY <1>1, <3>1, <3>2
    <3>3. CASE i \in 1..Len(s)
      BY <1>1, <3>1, <3>3 DEF Shown
    <3> QED
      BY <1>2, <3>2, <3>3
  <2> QED
    BY <1>1, <1>3, <2>1, <2>2 DEF Shown
<1>4. ASSUME m \in On PROVE Shown(now, On, Off, t)
  BY <1>1, <1>4 DEF Shown
<1>5. ASSUME Shown(now, On, Off, s), m \notin Off PROVE Shown(now, On, Off, t)
  <2>1. CASE now /\ \A i \in 1..Len(s) : s[i] \notin Off
    BY <1>1, <1>2, <1>5, <2>1 DEF Shown
  <2>2. CASE \E i \in 1..Len(s) : s[i] \in On /\ \A j \in 1..Len(s) : j > i => s[j] \notin Off
    <3>1. PICK i \in 1..Len(s) : s[i] \in On /\ \A j \in 1..Len(s) : j > i => s[j] \notin Off
      BY <2>2
    <3>2. i \in 1..n /\ t[i] \in On /\ \A j \in 1..n : j > i => t[j] \notin Off
      BY <1>1, <1>2, <1>5, <3>1
    <3> QED
      BY <1>1, <3>2 DEF Shown
  <2> QED
    BY <1>5, <2>1, <2>2 DEF Shown
<1> QED
  BY <1>3, <1>4, <1>5 DEF t

LEMMA ShownTail ==
  ASSUME NEW M, NEW s \in Seq(M), s # <<>>, NEW now \in BOOLEAN, NEW after \in BOOLEAN, NEW On, NEW Off,
         after <=> Head(s) \in On \/ (now /\ Head(s) \notin Off)
  PROVE  Shown(after, On, Off, Tail(s)) <=> Shown(now, On, Off, s)
<1> DEFINE t == Tail(s)
           h == Head(s)
           n == Len(s)
<1>1. /\ h = s[1] /\ n \in Nat \ {0} /\ Len(t) = n - 1
      /\ \A i \in 1..(n - 1) : t[i] = s[i + 1] /\ i + 1 \in 1..n
      /\ \A i \in 2..n : i - 1 \in 1..(n - 1) /\ t[i - 1] = s[i]
  BY TailIs
<1> HIDE DEF t, h, n
<1>2. (\A i \in 1..n : s[i] \notin Off) <=> h \notin Off /\ \A i \in 1..(n - 1) : t[i] \notin Off
  <2>1. ASSUME NEW i \in 1..n PROVE i = 1 \/ (i \in 2..n /\ i - 1 \in 1..(n - 1) /\ t[i - 1] = s[i])
    BY <1>1
  <2>2. 1 \in 1..n /\ s[1] = h
    BY <1>1
  <2>3. ASSUME NEW i \in 1..(n - 1) PROVE i + 1 \in 1..n /\ t[i] = s[i + 1]
    BY <1>1
  <2> QED
    BY <2>1, <2>2, <2>3
<1>3. (\A j \in 1..n : j > 1 => s[j] \notin Off) <=> \A i \in 1..(n - 1) : t[i] \notin Off
  <2>1. ASSUME NEW j \in 1..n, j > 1 PROVE j - 1 \in 1..(n - 1) /\ t[j - 1] = s[j]
    BY <1>1, <2>1
  <2>2. ASSUME NEW i \in 1..(n - 1) PROVE i + 1 \in 1..n /\ i + 1 > 1 /\ t[i] = s[i + 1]
    BY <1>1
  <2> QED
    BY <2>1, <2>2
<1>4. ASSUME NEW i \in 2..n
      PROVE  (\A j \in 1..n : j > i => s[j] \notin Off)
                <=> \A j \in 1..(n - 1) : j > i - 1 => t[j] \notin Off
  <2>1. ASSUME NEW j \in 1..n, j > i PROVE j - 1 \in 1..(n - 1) /\ j - 1 > i - 1 /\ t[j - 1] = s[j]
    BY <1>1, <2>1
  <2>2. ASSUME NEW j \in 1..(n - 1), j > i - 1 PROVE j + 1 \in 1..n /\ j + 1 > i /\ t[j] = s[j + 1]
    BY <1>1, <2>2
  <2> QED
    BY <2>1, <2>2
<1>5. ASSUME NEW i \in 1..(n - 1)
      PROVE  i + 1 \in 2..n /\ (i + 1) - 1 = i /\ t[i] = s[i + 1]
  BY <1>1
<1>6. ASSUME Shown(now, On, Off, s) PROVE Shown(after, On, Off, t)
  <2>1. CASE now /\ \A i \in 1..n : s[i] \notin Off
    BY <1>1, <1>2, <2>1 DEF Shown, h
  <2>2. CASE \E i \in 1..n : s[i] \in On /\ \A j \in 1..n : j > i => s[j] \notin Off
    <3>1. PICK i \in 1..n : s[i] \in On /\ \A j \in 1..n : j > i => s[j] \notin Off
      BY <2>2
    <3>2. CASE i = 1
      BY <1>1, <1>3, <3>1, <3>2 DEF Shown, h
    <3>3. CASE i \in 2..n
      <4>1. \A j \in 1..(n - 1) : j > i - 1 => t[j] \notin Off
        BY <1>4, <3>1, <3>3
      <4>2. i - 1 \in 1..(n - 1) /\ t[i - 1] \in On
        BY <1>1, <3>1, <3>3
      <4> QED
        BY <1>1, <4>1, <4>2 DEF Shown
    <3> QED
      BY <3>2, <3>3
  <2> QED
    BY <1>6, <2>1, <2>2 DEF Shown, n
<1>7. ASSUME Shown(after, On, Off, t) PROVE Shown(now, On, Off, s)
  <2>1. CASE after /\ \A i \in 1..(n - 1) : t[i] \notin Off
    <3>1. CASE h \in On
      BY <1>1, <1>3, <2>1, <3>1 DEF Shown, n
    <3>2. CASE now /\ h \notin Off
      BY <1>1, <1>2, <2>1, <3>2 DEF Shown, n
    <3> QED
      BY <2>1, <3>1, <3>2 DEF h
  <2>2. CASE \E i \in 1..(n - 1) : t[i] \in On /\ \A j \in 1..(n - 1) : j > i => t[j] \notin Off
    <3>1. PICK i \in 1..(n - 1) : t[i] \in On /\ \A j \in 1..(n - 1) : j > i => t[j] \notin Off
      BY <2>2
    <3>2. i + 1 \in 2..n /\ (i + 1) - 1 = i /\ s[i + 1] \in On
      BY <1>5, <3>1
    <3>3. \A j \in 1..n : j > i + 1 => s[j] \notin Off
      BY <1>4, <3>1, <3>2
    <3>4. i + 1 \in 1..n
      BY <1>1
    <3> QED
      BY <3>2, <3>3, <3>4 DEF Shown, n
  <2> QED
    BY <1>1, <1>7, <2>1, <2>2 DEF Shown
<1> QED
  BY <1>6, <1>7 DEF t

LEMMA ShownNow ==
  ASSUME NEW now \in BOOLEAN, NEW On, NEW Off
  PROVE  Shown(now, On, Off, <<>>) <=> now
  BY DEF Shown

(* The rules of handle_message, seen this way. *)
Unchanging == /\ UsernameShown' <=> UsernameShown
              /\ PasswordShown' <=> PasswordShown
              /\ ConfirmShown' <=> ConfirmShown
              /\ ChoiceShown' <=> ChoiceShown
              /\ LoggedIn' <=> LoggedIn
              /\ \A n \in 1..MaxAttempts : AttemptsShown(n)' <=> AttemptsShown(n)

LEMMA FlagRules ==
  ASSUME TypeInv, NEW m \in ServerMessages, NEW new \in FlagTypes,
         new = IF m.what \in Prompts THEN Prompted(m.what) ELSE Noted(m)
  PROVE  /\ new.username <=> m.what = "username"
                                \/ (flags.username /\ m.what \notin {"password", "choice", "online"})
         /\ new.password <=> m.what = "password"
                                \/ (flags.password /\ m.what \notin {"confirm", "authenticated", "online"})
         /\ new.confirm <=> m.what = "confirm" \/ (flags.confirm /\ m.what \notin {"created", "online"})
         /\ new.choosing <=> m.what = "choice" \/ (flags.choosing /\ m.what # "online")
         /\ new.authenticated <=> m.what \in {"authenticated", "created"}
                                     \/ (flags.authenticated /\ m.what # "online")
         /\ \A n \in 1..MaxAttempts :
              new.attempts = n <=> (m.what = "attempts" /\ m.arg = n)
                                      \/ (flags.attempts = n /\ m.what \notin {"attempts", "online"})
<1>1. flags \in FlagTypes /\ MaxAttempts \in Nat \ {0}
  BY ClientAssumption DEF TypeInv, TypeOK, FlagTypes
<1>2. CASE m.what \in Prompts
  BY <1>1, <1>2 DEF Prompts, Prompted, FlagTypes
<1>3. CASE m.what \notin Prompts /\ m.what # "attempts" /\ m.what # "online"
  BY <1>1, <1>3 DEF Prompts, Noted, FlagTypes
<1>4. CASE m.what = "attempts"
  <2>1. new = [flags EXCEPT !.attempts = m.arg]
    BY <1>4 DEF Noted, Prompts
  <2> QED
    BY <1>1, <1>4, <2>1 DEF FlagTypes
<1>5. CASE m.what = "online"
  <2>1. new = Reset(flags)
    BY <1>5 DEF Noted, Prompts
  <2>2. /\ ~new.username /\ ~new.password /\ ~new.confirm /\ ~new.choosing /\ ~new.authenticated
        /\ new.attempts = 0
    BY <1>1, <2>1 DEF Reset, FlagTypes
  <2>3. \A n \in 1..MaxAttempts : n # 0
    OBVIOUS
  <2> QED
    BY <1>5, <2>2, <2>3
<1> QED
  BY <1>2, <1>3, <1>4, <1>5

LEMMA HandledShown ==
  ASSUME TypeInv, toClient # <<>>, toClient' = Tail(toClient), flags' \in FlagTypes,
         flags' = IF Head(toClient).what \in Prompts THEN Prompted(Head(toClient).what)
                  ELSE Noted(Head(toClient))
  PROVE  Unchanging
<1> DEFINE m == Head(toClient)
<1>1. toClient \in Seq(ServerMessages) /\ m \in ServerMessages /\ flags \in FlagTypes
  BY DEF TypeInv, TypeOK, FlagTypes
<1> HIDE DEF m
<1>2. /\ \A whats : m \in Says(whats) <=> m.what \in whats
      /\ \A n : m \in Counts(n) <=> m.what = "attempts" /\ m.arg = n
  BY <1>1 DEF Says, Counts
<1>3. /\ flags'.username <=> m.what = "username"
                                \/ (flags.username /\ m.what \notin {"password", "choice", "online"})
      /\ flags'.password <=> m.what = "password"
                                \/ (flags.password /\ m.what \notin {"confirm", "authenticated", "online"})
      /\ flags'.confirm <=> m.what = "confirm" \/ (flags.confirm /\ m.what \notin {"created", "online"})
      /\ flags'.choosing <=> m.what = "choice" \/ (flags.choosing /\ m.what # "online")
      /\ flags'.authenticated <=> m.what \in {"authenticated", "created"}
                                     \/ (flags.authenticated /\ m.what # "online")
      /\ \A n \in 1..MaxAttempts :
           flags'.attempts = n <=> (m.what = "attempts" /\ m.arg = n)
                                   \/ (flags.attempts = n /\ m.what \notin {"attempts", "online"})
  BY <1>1, FlagRules DEF m
<1>4. /\ \A what \in {"username", "password", "confirm", "choosing", "authenticated"} :
           flags[what] \in BOOLEAN /\ flags'[what] \in BOOLEAN
  BY <1>1 DEF FlagTypes
<1>5. ASSUME NEW now \in BOOLEAN, NEW after \in BOOLEAN, NEW On, NEW Off,
             after <=> m \in On \/ (now /\ m \notin Off)
      PROVE  Shown(after, On, Off, toClient') <=> Shown(now, On, Off, toClient)
  BY <1>1, <1>5, ShownTail DEF m
<1>6. UsernameShown' <=> UsernameShown
  BY <1>2, <1>3, <1>4, <1>5 DEF UsernameShown
<1>7. PasswordShown' <=> PasswordShown
  BY <1>2, <1>3, <1>4, <1>5 DEF PasswordShown
<1>8. ConfirmShown' <=> ConfirmShown
  BY <1>2, <1>3, <1>4, <1>5 DEF ConfirmShown
<1>9. ChoiceShown' <=> ChoiceShown
  BY <1>2, <1>3, <1>4, <1>5 DEF ChoiceShown
<1>10. LoggedIn' <=> LoggedIn
  BY <1>2, <1>3, <1>4, <1>5 DEF LoggedIn
<1>11. ASSUME NEW n \in 1..MaxAttempts PROVE AttemptsShown(n)' <=> AttemptsShown(n)
  BY <1>2, <1>3, <1>5 DEF AttemptsShown
<1> QED
  BY <1>6, <1>7, <1>8, <1>9, <1>10, <1>11 DEF Unchanging

LEMMA UnnoticedShown ==
  ASSUME TypeInv, UNCHANGED flags,
         \/ UNCHANGED toClient
         \/ toClient # <<>> /\ toClient' = Tail(toClient) /\ Head(toClient).what \in OfSession
         \/ \E m \in ServerMessages : toClient' = Append(toClient, m) /\ m.what \in OfSession
  PROVE  Unchanging
<1> DEFINE Unnoticed(m) ==
      /\ m \notin Says({"username"}) /\ m \notin Says({"password", "choice", "online"})
      /\ m \notin Says({"password"}) /\ m \notin Says({"confirm", "authenticated", "online"})
      /\ m \notin Says({"confirm"}) /\ m \notin Says({"created", "online"})
      /\ m \notin Says({"choice"}) /\ m \notin Says({"online"})
      /\ m \notin Says({"authenticated", "created"})
      /\ \A n \in 1..MaxAttempts : m \notin Counts(n) /\ m \notin Says({"attempts", "online"}) \ Counts(n)
<1>1. toClient \in Seq(ServerMessages) /\ flags \in FlagTypes
  BY DEF TypeInv, TypeOK, FlagTypes
<1>2. \A m \in ServerMessages : m.what \in OfSession => Unnoticed(m)
  BY DEF OfSession, Says, Counts
<1>3. /\ flags.username \in BOOLEAN /\ flags.password \in BOOLEAN /\ flags.confirm \in BOOLEAN
      /\ flags.choosing \in BOOLEAN /\ flags.authenticated \in BOOLEAN
      /\ \A n \in 1..MaxAttempts : (flags.attempts = n) \in BOOLEAN
  BY <1>1 DEF FlagTypes
<1>4. CASE UNCHANGED toClient
  BY <1>4 DEF Unchanging, UsernameShown, PasswordShown, ConfirmShown, ChoiceShown, LoggedIn, AttemptsShown
<1>5. ASSUME NEW m \in ServerMessages, m.what \in OfSession,
             \A now \in BOOLEAN : \A On, Off : m \notin On /\ m \notin Off =>
               (Shown(now, On, Off, toClient') <=> Shown(now, On, Off, toClient))
      PROVE  Unchanging
  <2> HIDE DEF Unnoticed
  <2>1. Unnoticed(m)
    BY <1>2, <1>5
  <2> USE DEF Unnoticed
  <2>2. UsernameShown' <=> UsernameShown
    BY <1>3, <1>5, <2>1 DEF UsernameShown
  <2>3. PasswordShown' <=> PasswordShown
    BY <1>3, <1>5, <2>1 DEF PasswordShown
  <2>4. ConfirmShown' <=> ConfirmShown
    BY <1>3, <1>5, <2>1 DEF ConfirmShown
  <2>5. ChoiceShown' <=> ChoiceShown
    BY <1>3, <1>5, <2>1 DEF ChoiceShown
  <2>6. LoggedIn' <=> LoggedIn
    BY <1>3, <1>5, <2>1 DEF LoggedIn
  <2>7. ASSUME NEW n \in 1..MaxAttempts PROVE AttemptsShown(n)' <=> AttemptsShown(n)
    BY <1>3, <1>5, <2>1 DEF AttemptsShown
  <2> QED
    BY <2>2, <2>3, <2>4, <2>5, <2>6, <2>7 DEF Unchanging
<1>6. CASE toClient # <<>> /\ toClient' = Tail(toClient) /\ Head(toClient).what \in OfSession
  BY <1>1, <1>5, <1>6, ShownTail, TailIs
<1>7. ASSUME NEW m \in ServerMessages, toClient' = Append(toClient, m), m.what \in OfSession
      PROVE  Unchanging
  BY <1>1, <1>5, <1>7, ShownAppend
<1> QED
  BY <1>4, <1>6, <1>7

-----------------------------------------------------------------------------
(* The prompts *)
LEMMA PromptingInitial == Init => Prompting
  BY DEF Init, Prompting

LEMMA PromptingKeeps ==
  ASSUME TypeInv, Prompting, Unchanging, UNCHANGED srv, up' => up, uid' = Default => uid = Default
  PROVE  Prompting'
<1>1. srv.pc \in Dialogue => MaxAttempts - srv.attempts \in 1..MaxAttempts
  BY ClientAssumption DEF TypeInv, TypeOK
<1> QED
  BY <1>1 DEF Prompting, Unchanging

(* What is said last decides. *)
LEMMA PromptingRead ==
  ASSUME TypeInv, Prompting, NEW x, up, ReadOn(x), UNCHANGED <<flags, uid>>, srv'.pc # "closed"
  PROVE  Prompting'
<1> SUFFICES ASSUME up', uid = Default PROVE Prompting'
  BY DEF Prompting
<1>1. /\ toClient \in Seq(ServerMessages) /\ srv.attempts \in 0..MaxAttempts /\ MaxAttempts \in Nat \ {0}
      /\ srv.name \in Texts \cup {NULL} /\ (srv.pc \in Dialogue => srv.attempts < MaxAttempts)
  BY ClientAssumption DEF TypeInv, TypeOK
<1>2. /\ flags.username \in BOOLEAN /\ flags.password \in BOOLEAN /\ flags.confirm \in BOOLEAN
      /\ flags.choosing \in BOOLEAN /\ flags.authenticated \in BOOLEAN
      /\ \A n \in 1..MaxAttempts : (flags.attempts = n) \in BOOLEAN
  BY DEF TypeInv, TypeOK
<1>3. /\ \A what \in Prompts \cup Notices :
           /\ Msg(what) \in ServerMessages
           /\ \A whats : Msg(what) \in Says(whats) <=> what \in whats
           /\ \A n : Msg(what) \notin Counts(n)
      /\ MsgFor("uid", srv.name) \in ServerMessages
      /\ \A whats : MsgFor("uid", srv.name) \in Says(whats) <=> "uid" \in whats
      /\ \A n : MsgFor("uid", srv.name) \notin Counts(n)
  BY <1>1, MessageTypes DEF Says, Counts, Prompts, Notices
<1>4. ASSUME NEW s \in Seq(ServerMessages), NEW m \in ServerMessages, NEW now \in BOOLEAN, NEW On, NEW Off
      PROVE  Shown(now, On, Off, Append(s, m)) <=> m \in On \/ (Shown(now, On, Off, s) /\ m \notin Off)
  BY ShownAppend
<1>5. CASE Prompts1(x)
  <2>1. PICK what \in {"choice", "password", "confirm"} :
          /\ toClient' = Append(toClient, Msg(what)) /\ srv'.attempts = srv.attempts
          /\ \/ what = "choice" /\ srv.pc = "username" /\ srv.attempts = 0 /\ srv'.pc = "choice"
             \/ what = "password" /\ srv.pc \in Dialogue /\ srv'.pc \in {"password", "newPassword"}
             \/ what = "confirm" /\ srv.pc = "newPassword" /\ srv'.pc = "confirm"
    BY <1>5 DEF Prompts1, Dialogue
  <2>2. what \in Prompts \cup Notices /\ srv.pc \in Dialogue
    BY <2>1 DEF Prompts, Dialogue
  <2>8. PICK n \in 1..MaxAttempts : n = MaxAttempts - srv.attempts
    BY <1>1, <2>2
  <2>3. AttemptsShown(n)'
    <3> DEFINE On == Counts(n)
               Off == Says({"attempts", "online"}) \ Counts(n)
    <3>1. AttemptsShown(n)
      BY <2>2, <2>8 DEF Prompting
    <3>2. what # "attempts" /\ what # "online"
      OBVIOUS
    <3>3. Msg(what) \in ServerMessages /\ Msg(what) \notin On /\ Msg(what) \notin Off
      BY <1>3, <2>2, <3>2
    <3> HIDE DEF On, Off
    <3>4. Shown(flags.attempts = n, On, Off, Append(toClient, Msg(what)))
             <=> Shown(flags.attempts = n, On, Off, toClient)
      <4>1. (flags.attempts = n) \in BOOLEAN
        BY <1>2
      <4> QED
        BY <1>1, <1>4, <3>3, <4>1
    <3> QED
      BY <2>1, <3>1, <3>4 DEF AttemptsShown, On, Off
  <2>4. ~UsernameShown'
    BY <1>1, <1>2, <1>3, <1>4, <2>1, <2>2 DEF UsernameShown, Prompting
  <2>5. what = "choice" => ChoiceShown' /\ ~PasswordShown' /\ ~ConfirmShown'
    BY <1>1, <1>2, <1>3, <1>4, <2>1, <2>2 DEF ChoiceShown, PasswordShown, ConfirmShown, Prompting
  <2>6. what = "password" => PasswordShown'
    BY <1>1, <1>2, <1>3, <1>4, <2>1, <2>2 DEF PasswordShown
  <2>7. what = "confirm" => ConfirmShown' /\ ~PasswordShown'
    BY <1>1, <1>2, <1>3, <1>4, <2>1, <2>2 DEF ConfirmShown, PasswordShown
  <2> QED
    BY <2>1, <2>3, <2>4, <2>5, <2>6, <2>7, <2>8 DEF Prompting
<1>6. CASE LogsIn(x)
  <2>1. PICK notice \in {"authenticated", "created"} :
          /\ toClient' = Append(Append(toClient, Msg(notice)), MsgFor("uid", srv.name))
          /\ srv'.pc = "session"
          /\ IF notice = "authenticated" THEN srv.pc = "password" ELSE srv.pc = "confirm"
    BY <1>6 DEF LogsIn
  <2>2. notice \in Prompts \cup Notices /\ Append(toClient, Msg(notice)) \in Seq(ServerMessages)
    <3>1. notice \in Prompts \cup Notices
      BY DEF Notices
    <3> QED
      BY <1>1, <1>3, <3>1, AppendIs
  <2>6. ASSUME NEW now \in BOOLEAN, NEW on, NEW off, "uid" \notin on \cup off
        PROVE  Shown(now, Says(on), Says(off), toClient')
                 <=> notice \in on \/ (Shown(now, Says(on), Says(off), toClient) /\ notice \notin off)
    <3> DEFINE On == Says(on)
               Off == Says(off)
               m == MsgFor("uid", srv.name)
               s == Append(toClient, Msg(notice))
    <3>3. m \in ServerMessages /\ m \notin On /\ m \notin Off
      BY <1>3, <2>6
    <3>4. s \in Seq(ServerMessages) /\ toClient' = Append(s, m)
      BY <2>1, <2>2
    <3> HIDE DEF On, Off, m, s
    <3>5. Shown(now, On, Off, toClient') <=> Shown(now, On, Off, s)
      BY <1>4, <3>3, <3>4
    <3> USE DEF On, Off, m, s
    <3>1. Shown(now, Says(on), Says(off), toClient')
            <=> Shown(now, Says(on), Says(off), Append(toClient, Msg(notice)))
      BY <3>5
    <3>2. Shown(now, Says(on), Says(off), Append(toClient, Msg(notice)))
            <=> Msg(notice) \in Says(on)
                  \/ (Shown(now, Says(on), Says(off), toClient) /\ Msg(notice) \notin Says(off))
      BY <1>1, <1>3, <1>4, <2>2
    <3> QED
      BY <1>3, <2>2, <3>1, <3>2
  <2>3. ~UsernameShown'
    BY <1>2, <2>1, <2>6 DEF UsernameShown, Prompting
  <2>4. LoggedIn'
    BY <1>2, <2>1, <2>6 DEF LoggedIn
  <2>5. ~PasswordShown'
    BY <1>2, <2>1, <2>6 DEF PasswordShown, Prompting
  <2> QED
    BY <2>1, <2>3, <2>4, <2>5 DEF Prompting, Dialogue
<1>7. CASE Repeats(x)
  <2>7. PICK n \in 1..MaxAttempts : n = MaxAttempts - srv'.attempts
    BY <1>1, <1>7 DEF Repeats, Dialogue
  <2> DEFINE s == Append(Preface(x), Left(n))
  <2>1. srv'.pc = "username" /\ srv'.attempts # 0 /\ toClient' = Append(s, Msg("username"))
    BY <1>1, <1>7, <2>7 DEF Repeats, Dialogue
  <2>2. Preface(x) \in Seq(ServerMessages)
    <3>1. /\ Msg("online") \in ServerMessages /\ Msg("tryAgain") \in ServerMessages
          /\ Msg("password") \in ServerMessages
      BY <1>3 DEF Prompts, Notices
    <3> QED
      BY <1>1, <3>1, AppendTypes DEF Preface
  <2>3. Left(n) \in ServerMessages /\ s \in Seq(ServerMessages) /\ Left(n) \in Counts(n)
    BY <2>1, <2>2, MessageTypes, AppendTypes DEF Counts
  <2> HIDE DEF s
  <2>4. "username" \in Prompts \cup Notices
    BY DEF Prompts
  <2>5. UsernameShown'
    BY <1>2, <1>3, <1>4, <2>1, <2>3, <2>4 DEF UsernameShown
  <2>6. AttemptsShown(n)'
    <3> DEFINE Off == Says({"attempts", "online"}) \ Counts(n)
    <3>2. Msg("username") \in ServerMessages /\ Msg("username") \notin Off
      BY <1>3, <2>4
    <3> HIDE DEF Off
    <3>1. Shown(flags.attempts = n, Counts(n), Off, s)
      BY <1>2, <1>4, <2>2, <2>3 DEF s
    <3>3. Shown(flags.attempts = n, Counts(n), Off, Append(s, Msg("username")))
      BY <1>2, <1>4, <2>3, <3>1, <3>2
    <3>4. UNCHANGED flags
      OBVIOUS
    <3> QED
      BY <2>1, <3>3, <3>4 DEF AttemptsShown, Off
  <2> QED
    BY <2>1, <2>5, <2>6, <2>7 DEF Prompting
<1>8. CASE srv.pc = "session" /\ UNCHANGED <<srv, toClient, up>>
  BY <1>8 DEF Prompting, UsernameShown, PasswordShown, ConfirmShown, ChoiceShown, LoggedIn, AttemptsShown
<1> QED
  BY <1>5, <1>6, <1>7, <1>8 DEF ReadOn, Closes

LEMMA RoundZero ==
  /\ Round(0) = Append(Append(Append(<<>>, Left(MaxAttempts)), Msg("info")), Msg("username"))
  /\ <<>> \in Seq(ServerMessages) /\ Append(<<>>, Left(MaxAttempts)) \in Seq(ServerMessages)
  /\ Append(Append(<<>>, Left(MaxAttempts)), Msg("info")) \in Seq(ServerMessages)
  /\ Left(MaxAttempts) \in ServerMessages
<1>1. /\ Left(MaxAttempts) \in ServerMessages /\ Msg("info") \in ServerMessages
      /\ Msg("username") \in ServerMessages
  BY MessageTypes, ClientAssumption DEF Prompts, Notices
<1>2. ASSUME NEW M, NEW a \in M, NEW b \in M, NEW c \in M
      PROVE  /\ <<a, b, c>> = Append(Append(Append(<<>>, a), b), c)
             /\ <<>> \in Seq(M) /\ Append(<<>>, a) \in Seq(M) /\ Append(Append(<<>>, a), b) \in Seq(M)
  <2>1. <<>> \in Seq(M) /\ Append(<<>>, a) \in Seq(M) /\ Append(Append(<<>>, a), b) \in Seq(M)
        /\ Append(Append(Append(<<>>, a), b), c) \in Seq(M) /\ <<a, b, c>> \in Seq(M)
    OBVIOUS
  <2>2. /\ Len(Append(Append(Append(<<>>, a), b), c)) = 3
        /\ \A i \in 1..3 : Append(Append(Append(<<>>, a), b), c)[i] = <<a, b, c>>[i]
    OBVIOUS
  <2> QED
    BY <2>1, <2>2, SeqEqual
<1> QED
  BY <1>1, <1>2, Rounds

(* A new connection begins with the prompt for the name. *)
LEMMA PromptingConnect ==
  ASSUME TypeInv, Threads, ReconConnect
  PROVE  Prompting'
<1>1. /\ recon = "connect" /\ toClient' = Round(0) /\ UNCHANGED cl
      /\ srv' = [pc |-> "username", attempts |-> 0, name |-> NULL, first |-> NULL]
  BY DEF ReconConnect
<1>2. ~flags.username /\ ~flags.password /\ ~flags.confirm /\ flags \in FlagTypes
  BY <1>1 DEF Threads, Clean, TypeInv, TypeOK, FlagTypes
<1> DEFINE a == Left(MaxAttempts)
           b == Msg("info")
           c == Msg("username")
           none == <<>>
           s1 == Append(none, a)
           s2 == Append(s1, b)
<1>3. /\ toClient' = Append(s2, c) /\ s1 \in Seq(ServerMessages) /\ s2 \in Seq(ServerMessages)
      /\ none \in Seq(ServerMessages)
      /\ a \in ServerMessages /\ b \in ServerMessages /\ c \in ServerMessages
      /\ a.what = "attempts" /\ a.arg = MaxAttempts /\ b.what = "info" /\ c.what = "username"
  BY <1>1, RoundZero, MessageTypes, ClientAssumption DEF Prompts, Notices, Left
<1>4. \A now \in BOOLEAN : \A On, Off : Shown(now, On, Off, none) <=> now
  BY ShownNow
<1> HIDE DEF a, b, c, none
<1>5. ASSUME NEW now \in BOOLEAN, NEW On, NEW Off
      PROVE  Shown(now, On, Off, toClient')
               <=> c \in On \/ (c \notin Off /\ (b \in On \/ (b \notin Off /\ (a \in On \/ (now /\ a \notin Off)))))
  <2>1. Shown(now, On, Off, s1) <=> a \in On \/ (now /\ a \notin Off)
    BY <1>3, <1>4, ShownAppend
  <2> HIDE DEF s1
  <2>2. Shown(now, On, Off, s2) <=> b \in On \/ (Shown(now, On, Off, s1) /\ b \notin Off)
    BY <1>3, ShownAppend
  <2> HIDE DEF s2
  <2>3. Shown(now, On, Off, toClient') <=> c \in On \/ (Shown(now, On, Off, s2) /\ c \notin Off)
    BY <1>3, ShownAppend
  <2> QED
    BY <2>1, <2>2, <2>3
<1>6. /\ flags'.username \in BOOLEAN /\ flags'.password \in BOOLEAN /\ flags'.confirm \in BOOLEAN
      /\ (flags'.attempts = MaxAttempts) \in BOOLEAN /\ flags' = flags
  BY <1>1, <1>2 DEF cl, FlagTypes
<1>7. UsernameShown'
  BY <1>3, <1>5, <1>6 DEF UsernameShown, Says
<1>8. ~PasswordShown'
  BY <1>2, <1>3, <1>5, <1>6 DEF PasswordShown, Says
<1>9. ~ConfirmShown'
  BY <1>2, <1>3, <1>5, <1>6 DEF ConfirmShown, Says
<1>10. AttemptsShown(MaxAttempts)'
  <2> DEFINE On == Counts(MaxAttempts)
             Off == Says({"attempts", "online"}) \ Counts(MaxAttempts)
  <2>1. a \in On /\ b \notin Off /\ c \notin Off
    BY <1>3 DEF Counts, Says
  <2> HIDE DEF On, Off
  <2>2. Shown(flags'.attempts = MaxAttempts, On, Off, toClient')
    BY <1>5, <1>6, <2>1
  <2> QED
    BY <2>2 DEF AttemptsShown, On, Off
<1>11. srv'.pc = "username" /\ MaxAttempts - srv'.attempts = MaxAttempts
  BY <1>1, ClientAssumption
<1> QED
  BY <1>7, <1>8, <1>9, <1>10, <1>11 DEF Prompting

LEMMA PromptingStep ==
  ASSUME TypeInv, Threads, Threads', Prompting, [Next]_vars
  PROVE  Prompting'
<1>1. CASE ~up' \/ (uid' # Default)
  BY <1>1 DEF Prompting
<1>2. CASE ServerReads
  <2>1. up /\ UNCHANGED cl /\ ReadOn(Head(toServer).text)
    BY <1>2, ReadEffects
  <2>2. up' => srv'.pc # "closed"
    BY DEF Threads, Dialogue
  <2> QED
    BY <1>1, <2>1, <2>2, PromptingRead DEF cl
<1>3. ASSUME NEW what \in {"ping", "chat"}, ServerSends(what) PROVE Prompting'
  <2>1. /\ MsgFor(what, srv.name) \in ServerMessages /\ MsgFor(what, srv.name).what = what
    <3>1. srv.name \in Texts \cup {NULL}
      BY DEF TypeInv, TypeOK
    <3> QED
      BY <3>1, MessageTypes DEF Notices
  <2>2. toClient' = Append(toClient, MsgFor(what, srv.name))
    BY <1>3, <2>1, SendOne DEF ServerSends, Send, TypeInv, TypeOK
  <2>3. what \in OfSession
    BY DEF OfSession
  <2>4. Unchanging
    BY <1>3, <2>1, <2>2, <2>3, UnnoticedShown DEF ServerSends, cl
  <2> QED
    BY <1>3, <2>4, PromptingKeeps DEF ServerSends, cl
<1>4. CASE UNCHANGED <<flags, toClient, srv, up>> /\ (uid' = Default => uid = Default)
  BY <1>4, UnnoticedShown, PromptingKeeps
<1>5. CASE RecvStart \/ RecvFails \/ PingFlags \/ (\E x \in Texts : Enter(x)) \/ UNCHANGED vars
  BY <1>4, <1>5 DEF RecvStart, RecvFails, PingFlags, Enter, Stop, vars, cl, net
<1>6. CASE RecvMessage
  <2> DEFINE m == Head(toClient)
             new == IF m.what \in Prompts THEN Prompted(m.what) ELSE Noted(m)
  <2>1. CASE Stop("nullUid")
    BY <1>4, <2>1 DEF Stop, cl, net
  <2>2. CASE toClient' = Tail(toClient) /\ Handle(m) /\ uid = Default
    <3>1. m \in ServerMessages /\ m.what # "ping" /\ toClient # <<>> /\ flags \in FlagTypes
      BY <1>6 DEF RecvMessage, TypeInv, TypeOK, FlagTypes
    <3>2. Dropped(m) => m.what \in OfSession
      BY <2>2 DEF Dropped, Recipient, OfSession
    <3>3. new \in FlagTypes /\ (m.what \in OfSession => new = flags)
      BY <3>1, HandledFlags
    <3>4. flags' = new
      BY <2>2, <3>2, <3>3 DEF Handle
    <3>5. Unchanging
      BY <2>2, <3>1, <3>3, <3>4, HandledShown
    <3> QED
      BY <2>2, <3>5, PromptingKeeps DEF Handle
  <2>3. CASE Handle(m) /\ uid # Default
    BY <1>1, <2>3 DEF Handle
  <2> QED
    BY <1>6, <2>1, <2>2, <2>3 DEF RecvMessage
<1>7. CASE RecvPing
  <2>1. Unchanging
    BY <1>7, UnnoticedShown DEF RecvPing, OfSession, cl
  <2> QED
    BY <1>7, <2>1, PromptingKeeps DEF RecvPing, cl
<1>8. CASE ReconBegin \/ Lose \/ PingFails \/ (\E freed \in BOOLEAN : ReconFails(freed))
  <2>1. ~up'
    <3>1. CASE ReconBegin
      BY <3>1 DEF ReconBegin, Threads
    <3>2. CASE Lose
      <4>1. up' = FALSE
        BY <3>2, Zenon DEF Lose
      <4> QED
        BY <4>1, Zenon
    <3>3. CASE PingFails \/ (\E freed \in BOOLEAN : ReconFails(freed))
      BY <3>3 DEF PingFails, ReconFails, Threads, net
    <3> QED
      BY <1>8, <3>1, <3>2, <3>3
  <2> QED
    BY <1>1, <2>1
<1>9. CASE ReconConnect
  BY <1>9, PromptingConnect
<1>10. CASE ReconDone
  <2>1. /\ UNCHANGED <<uid, up, toClient, srv>>
        /\ flags'.username = flags.username /\ flags'.password = flags.password
        /\ flags'.confirm = flags.confirm /\ flags'.choosing = flags.choosing
        /\ flags'.authenticated = flags.authenticated /\ flags'.attempts = flags.attempts
    BY <1>10 DEF ReconDone, TypeInv, TypeOK, net
  <2>2. Unchanging
    BY <2>1 DEF Unchanging, UsernameShown, PasswordShown, ConfirmShown, ChoiceShown, LoggedIn,
                AttemptsShown
  <2> QED
    BY <2>1, <2>2, PromptingKeeps
<1> QED
  BY <1>2, <1>3, <1>5, <1>6, <1>7, <1>8, <1>9, <1>10 DEF Next, Server, Receive, Reconnect, Ping

LEMMA PromptsInvariant == Spec => []PromptsIInv
<1>1. Init => PromptsIInv
  BY TypeInitial, MessagesInitial, ThreadsInitial, PromptingInitial DEF PromptsIInv
<1>2. PromptsIInv /\ [Next]_vars => PromptsIInv'
  BY TypeStep, MessagesStep, ThreadsStep, PromptingStep DEF PromptsIInv
<1> QED
  BY <1>1, <1>2, PTL DEF Spec

(* Whatever was lost before and however often the dialogue has begun again,  *)
(* once both ends have read everything the window asks for what the server   *)
(* waits for and shows the attempts that are left                            *)
(* (client_msg_handler.c:57-125, 189-209; client_gui.c:99).                  *)
THEOREM WindowAsksWhatTheServerAwaits == Spec => []PromptsAgree
<1>1. PromptsIInv => PromptsAgree
  <2> SUFFICES ASSUME PromptsIInv, Quiet, uid = Default, srv.pc # "session"
               PROVE  Mode = Awaited /\ flags.attempts = MaxAttempts - srv.attempts
    BY DEF PromptsAgree
  <2>1. srv.pc \in Dialogue /\ up
    BY DEF Quiet, PromptsIInv, Threads
  <2>2. /\ flags.username \in BOOLEAN /\ flags.password \in BOOLEAN /\ flags.confirm \in BOOLEAN
        /\ flags.choosing \in BOOLEAN
    BY DEF PromptsIInv, TypeInv, TypeOK
  <2>3. \A now \in BOOLEAN : \A On, Off : Shown(now, On, Off, toClient) <=> now
    BY ShownNow DEF Quiet
  <2>4. /\ UsernameShown <=> flags.username
        /\ PasswordShown <=> flags.password
        /\ ConfirmShown <=> flags.confirm
        /\ ChoiceShown <=> flags.choosing
        /\ \A n : AttemptsShown(n) <=> flags.attempts = n
    BY <2>2, <2>3 DEF UsernameShown, PasswordShown, ConfirmShown, ChoiceShown, AttemptsShown
  <2>5. Prompting
    BY DEF PromptsIInv
  <2> QED
    BY <2>1, <2>4, <2>5 DEF Prompting, Mode, Awaited, Dialogue
<1> QED
  BY <1>1, PromptsInvariant, PTL

-----------------------------------------------------------------------------
(* Who the client is *)
LEMMA KnownRead ==
  ASSUME TypeInv, Known, ServerReads
  PROVE  Known'
<1>1. /\ toServer # <<>> /\ up /\ UNCHANGED <<flags, uid, texts>> /\ ReadOn(Head(toServer).text)
  BY ReadEffects DEF cl, bounds
<1>2. srv.pc = "session" => srv' = srv
  BY <1>1 DEF ReadOn, Prompts1, LogsIn, Repeats, Closes, Dialogue
<1>3. ASSUME uid # Default, ~Clean PROVE Known'
  BY <1>1, <1>2, <1>3 DEF Known
<1>4. ASSUME uid # Default, Clean, texts # 0 PROVE Known'
  BY <1>1, <1>4 DEF Known, Clean
<1>5. ASSUME uid # Default, Clean, texts = 0 PROVE FALSE
  BY <1>1, <1>5 DEF Known, Clean
<1> QED
  BY <1>1, <1>3, <1>4, <1>5 DEF Known

LEMMA KnownMessage ==
  ASSUME PromptsIInv, Known, RecvMessage
  PROVE  Known'
<1> USE DEF PromptsIInv
<1> DEFINE m == Head(toClient)
           new == IF m.what \in Prompts THEN Prompted(m.what) ELSE Noted(m)
<1>1. CASE Stop("nullUid")
  BY <1>1 DEF Stop, Known, Clean, cl, net, bounds
<1>2. CASE toClient' = Tail(toClient) /\ Handle(m)
  <2>1. /\ toClient # <<>> /\ toClient \in Seq(ServerMessages) /\ m \in ServerMessages /\ m.what # "ping"
        /\ m = toClient[1] /\ 1 \in 1..Len(toClient)
    BY <1>2, TailIs DEF RecvMessage, TypeInv, TypeOK
  <2>2. /\ UNCHANGED <<username, up, toServer, srv, texts>>
        /\ IF Dropped(m) THEN UNCHANGED <<flags, uid>>
           ELSE flags' = new /\ uid' = IF m.what = "uid" /\ m.arg = username /\ uid = Default THEN m.arg ELSE uid
    BY <1>2 DEF Handle, bounds
  <2>3. m.what \in OfSession => new = flags
    BY <2>1, HandledFlags
  <2>4. flags.authenticated => m.what \in OfSession
    BY <2>1 DEF Threads, Only, OnlyIn
  <2> HIDE DEF m, new
  <2>5. CASE uid # Default
    <3>1. UNCHANGED <<flags, uid>>
      BY <2>2, <2>3, <2>4, <2>5 DEF Dropped
    <3> QED
      BY <2>2, <3>1 DEF Known, Clean
  <2>6. CASE uid = Default /\ uid' # Default /\ up
    <3>1. m.what = "uid" /\ uid' = m.arg /\ flags' = flags
      BY <2>2, <2>3, <2>6 DEF OfSession
    <3>2. m.arg = srv.name /\ srv.pc = "session"
      <4>1. m.what \in OfLogin
        BY <3>1 DEF OfLogin, OfSession
      <4> QED
        BY <2>1, <2>6, <3>1, <4>1 DEF Messages, Orderly, Threads, Dialogue
    <3>3. \A i \in 1..Len(toClient) : toClient[i].what \in OfSession
      <4>1. Len(toClient) \in Nat /\ \A i \in 1..Len(toClient) : i = 1 \/ 1 < i
        BY <2>1
      <4>2. m.what \in OfSession /\ m.what \in OfLogin
        BY <3>1 DEF OfLogin, OfSession
      <4> QED
        BY <2>1, <4>1, <4>2 DEF Messages, Orderly
    <3>4. LoggedIn /\ ~UsernameShown /\ ~PasswordShown
      BY <2>6, <3>2 DEF Prompting
    <3>5. ASSUME NEW now, NEW on, NEW off, on \cap OfSession = {}, off \cap OfSession = {}
          PROVE  Shown(now, Says(on), Says(off), toClient) <=> now
      <4>1. \A i \in 1..Len(toClient) : toClient[i] \notin Says(on) /\ toClient[i] \notin Says(off)
        BY <3>3, <3>5 DEF Says
      <4> QED
        BY <4>1 DEF Shown
    <3>6. flags.authenticated /\ ~flags.username /\ ~flags.password
      <4>1. LoggedIn <=> flags.authenticated
        BY <3>5 DEF LoggedIn, OfSession
      <4>2. UsernameShown <=> flags.username
        BY <3>5 DEF UsernameShown, OfSession
      <4>3. PasswordShown <=> flags.password
        BY <3>5 DEF PasswordShown, OfSession
      <4> QED
        BY <3>4, <4>1, <4>2, <4>3
    <3> QED
      BY <2>2, <3>1, <3>2, <3>6 DEF Known
  <2> QED
    BY <2>2, <2>5, <2>6 DEF Known
<1> QED
  BY <1>1, <1>2 DEF RecvMessage

LEMMA KnownStep ==
  ASSUME PromptsIInv, Threads', Known, [Next]_vars
  PROVE  Known'
<1> USE DEF PromptsIInv
<1>1. CASE ~up' \/ uid' = Default
  BY <1>1 DEF Known
<1>2. CASE ServerReads
  BY <1>2, KnownRead
<1>3. ASSUME NEW what \in {"ping", "chat"}, ServerSends(what) PROVE Known'
  BY <1>3 DEF ServerSends, Known, Clean, cl
<1>4. CASE UNCHANGED <<flags, uid, toServer, srv, up, texts>>
  BY <1>4 DEF Known, Clean
<1>5. CASE RecvStart \/ RecvFails \/ PingFlags \/ UNCHANGED vars
  BY <1>4, <1>5 DEF RecvStart, RecvFails, PingFlags, vars, cl, net, bounds
<1>6. CASE RecvMessage
  BY <1>6, KnownMessage
<1>7. CASE RecvPing
  <2>1. toClient \in Seq(ServerMessages) /\ toClient # <<>> /\ Head(toClient).what = "ping"
    BY <1>7 DEF RecvPing, TypeInv, TypeOK
  <2>2. srv.pc \in {"session", "closed"}
    <3>1. toClient[1].what \in OfLogin /\ 1 \in 1..Len(toClient)
      BY <2>1, TailIs DEF OfLogin, OfSession
    <3> QED
      BY <3>1 DEF Messages, Orderly
  <2> QED
    BY <1>7, <2>2 DEF RecvPing, Known, Clean, cl, bounds
<1>8. CASE ReconBegin \/ Lose \/ PingFails \/ (\E freed \in BOOLEAN : ReconFails(freed))
  <2>1. CASE ReconBegin
    BY <1>1, <2>1 DEF ReconBegin, Threads
  <2>2. CASE Lose
    <3>1. up' = FALSE
      BY <2>2, Zenon DEF Lose
    <3>2. ~up'
      BY <3>1, Zenon
    <3> QED
      BY <1>1, <3>2
  <2>3. CASE PingFails \/ (\E freed \in BOOLEAN : ReconFails(freed))
    BY <1>1, <2>3 DEF PingFails, ReconFails, Threads, net
  <2> QED
    BY <1>8, <2>1, <2>2, <2>3
<1>9. CASE ReconConnect
  <2>1. recon = "connect" /\ srv'.pc = "username" /\ toServer' = <<>> /\ UNCHANGED cl
    BY <1>9 DEF ReconConnect
  <2> QED
    BY <2>1 DEF Threads, Known, Clean, cl
<1>10. CASE ReconDone
  <2>1. /\ UNCHANGED <<uid, up, toServer, srv, texts>>
        /\ flags'.username = flags.username /\ flags'.password = flags.password
        /\ flags'.confirm = flags.confirm /\ flags'.choosing = flags.choosing
        /\ flags'.authenticated = flags.authenticated
    BY <1>10 DEF ReconDone, TypeInv, TypeOK, net, bounds
  <2> QED
    BY <2>1 DEF Known, Clean
<1>11. ASSUME NEW x \in Texts, Enter(x) PROVE Known'
  <2>1. CASE UNCHANGED <<cl, net, bounds>>
    BY <1>4, <2>1 DEF cl, net, bounds
  <2>2. CASE /\ UNCHANGED <<flags, uid, up, srv>>
             /\ texts' = IF flags.authenticated \/ Mode = "text" \/ answered THEN texts + 1 ELSE texts
    <3>1. Clean => texts' # 0
      BY <2>2 DEF Clean, Mode, TypeInv, TypeOK
    <3> QED
      BY <2>2, <3>1 DEF Known, Clean
  <2> QED
    BY <1>11, <2>1, <2>2 DEF Enter, Stop
<1> QED
  BY <1>2, <1>3, <1>5, <1>6, <1>7, <1>8, <1>9, <1>10, <1>11 DEF Next, Server, Receive, Reconnect, Ping

-----------------------------------------------------------------------------
(* Prompts that are asked, when the messages or the prompts change. *)
LEMMA KindTypes ==
  ASSUME NEW what \in Prompts
  PROVE  KindOf(what) \in Kinds
  BY DEF Prompts, KindOf, Kinds

Places(s, p, n, f) ==
    /\ f \in [(n + 1)..Len(p) -> 1..Len(s)]
    /\ \A a, b \in (n + 1)..Len(p) : a < b => f[a] < f[b]
    /\ \A i \in 1..Len(s) : s[i].what \in Prompts <=> \E a \in (n + 1)..Len(p) : f[a] = i
    /\ \A a \in (n + 1)..Len(p) : KindOf(s[f[a]].what) = p[a]

LEMMA AsksIs ==
  ASSUME NEW s, NEW p, NEW n
  PROVE  Asks(s, p, n) <=> \E f : Places(s, p, n, f)
  BY DEF Asks, Places

LEMMA AsksPlain ==
  ASSUME NEW s \in Seq(ServerMessages), NEW m \in ServerMessages, m.what \notin Prompts,
         NEW p \in Seq(Kinds), NEW n \in 0..Len(p), Asks(s, p, n)
  PROVE  Asks(Append(s, m), p, n)
<1> DEFINE t == Append(s, m)
<1>1. PICK f : Places(s, p, n, f)
  BY AsksIs
<1>2. /\ Len(s) \in Nat /\ Len(t) = Len(s) + 1 /\ t[Len(s) + 1] = m
      /\ \A i \in 1..Len(s) : t[i] = s[i]
  BY AppendIs
<1> HIDE DEF t
<1>3. f \in [(n + 1)..Len(p) -> 1..Len(t)]
  BY <1>1, <1>2 DEF Places
<1>4. ASSUME NEW i \in 1..Len(t) PROVE t[i].what \in Prompts <=> \E a \in (n + 1)..Len(p) : f[a] = i
  <2>1. CASE i \in 1..Len(s)
    BY <1>1, <1>2, <2>1 DEF Places
  <2>2. CASE i = Len(s) + 1
    <3>1. \A a \in (n + 1)..Len(p) : f[a] \in 1..Len(s)
      BY <1>1 DEF Places
    <3>2. \A k \in 1..Len(s) : k # Len(s) + 1
      BY <1>2
    <3> QED
      BY <1>2, <2>2, <3>1, <3>2
  <2> QED
    BY <1>2, <2>1, <2>2
<1>5. \A a \in (n + 1)..Len(p) : KindOf(t[f[a]].what) = p[a]
  BY <1>1, <1>2 DEF Places
<1>6. Places(t, p, n, f)
  BY <1>1, <1>3, <1>4, <1>5 DEF Places
<1> QED
  BY <1>6, AsksIs DEF t

LEMMA AsksMore ==
  ASSUME NEW s \in Seq(ServerMessages), NEW m \in ServerMessages, m.what \in Prompts,
         NEW p \in Seq(Kinds), NEW n \in 0..Len(p), Asks(s, p, n)
  PROVE  Asks(Append(s, m), Append(p, KindOf(m.what)), n)
<1> DEFINE t == Append(s, m)
           q == Append(p, KindOf(m.what))
           g(f) == [a \in (n + 1)..Len(q) |-> IF a = Len(p) + 1 THEN Len(s) + 1 ELSE f[a]]
<1>1. PICK f : Places(s, p, n, f)
  BY AsksIs
<1>2. /\ Len(s) \in Nat /\ Len(t) = Len(s) + 1 /\ t[Len(s) + 1] = m
      /\ \A i \in 1..Len(s) : t[i] = s[i]
  BY AppendIs
<1>3. /\ Len(p) \in Nat /\ Len(q) = Len(p) + 1 /\ q[Len(p) + 1] = KindOf(m.what)
      /\ \A a \in 1..Len(p) : q[a] = p[a]
  BY KindTypes, AppendIs
<1> HIDE DEF t, q
<1>4. /\ \A a \in (n + 1)..Len(q) : a = Len(p) + 1 \/ a \in (n + 1)..Len(p)
      /\ \A a \in (n + 1)..Len(p) : f[a] \in 1..Len(s) /\ a # Len(p) + 1 /\ a \in (n + 1)..Len(q)
      /\ Len(p) + 1 \in (n + 1)..Len(q)
  BY <1>1, <1>3 DEF Places
<1>5. PICK h : h = g(f)
  OBVIOUS
<1>6. /\ h \in [(n + 1)..Len(q) -> 1..Len(t)]
      /\ h[Len(p) + 1] = Len(s) + 1 /\ \A a \in (n + 1)..Len(p) : h[a] = f[a]
  BY <1>2, <1>4, <1>5
<1>7. \A a, b \in (n + 1)..Len(q) : a < b => h[a] < h[b]
  <2> SUFFICES ASSUME NEW a \in (n + 1)..Len(q), NEW b \in (n + 1)..Len(q), a < b PROVE h[a] < h[b]
    OBVIOUS
  <2>1. a \in (n + 1)..Len(p)
    BY <1>3, <1>4
  <2>2. CASE b = Len(p) + 1
    <3>1. h[a] = f[a] /\ f[a] \in 1..Len(s) /\ h[b] = Len(s) + 1
      BY <1>4, <1>6, <2>1, <2>2
    <3> QED
      BY <1>2, <3>1
  <2>3. CASE b \in (n + 1)..Len(p)
    BY <1>1, <1>6, <2>1, <2>3 DEF Places
  <2> QED
    BY <1>4, <2>2, <2>3
<1>8. ASSUME NEW i \in 1..Len(t) PROVE t[i].what \in Prompts <=> \E a \in (n + 1)..Len(q) : h[a] = i
  <2>1. CASE i \in 1..Len(s)
    <3>1. t[i].what \in Prompts <=> \E a \in (n + 1)..Len(p) : f[a] = i
      BY <1>1, <1>2, <2>1 DEF Places
    <3>2. h[Len(p) + 1] # i
      BY <1>2, <1>6, <2>1
    <3> QED
      BY <1>4, <1>6, <3>1, <3>2
  <2>2. CASE i = Len(s) + 1
    BY <1>2, <1>4, <1>6, <2>2
  <2> QED
    BY <1>2, <2>1, <2>2
<1>9. \A a \in (n + 1)..Len(q) : KindOf(t[h[a]].what) = q[a]
  <2> SUFFICES ASSUME NEW a \in (n + 1)..Len(q) PROVE KindOf(t[h[a]].what) = q[a]
    OBVIOUS
  <2>1. CASE a = Len(p) + 1
    BY <1>2, <1>3, <1>6, <2>1
  <2>2. CASE a \in (n + 1)..Len(p)
    <3>1. h[a] = f[a] /\ f[a] \in 1..Len(s) /\ KindOf(s[f[a]].what) = p[a] /\ a \in 1..Len(p)
      BY <1>1, <1>4, <1>6, <2>2 DEF Places
    <3> QED
      BY <1>2, <1>3, <3>1
  <2> QED
    BY <1>4, <2>1, <2>2
<1>10. Places(t, q, n, h)
  BY <1>6, <1>7, <1>8, <1>9 DEF Places
<1> QED
  BY <1>10, AsksIs DEF t, q

LEMMA AsksTailPlain ==
  ASSUME NEW s \in Seq(ServerMessages), s # <<>>, Head(s).what \notin Prompts,
         NEW p \in Seq(Kinds), NEW n \in 0..Len(p), Asks(s, p, n)
  PROVE  Asks(Tail(s), p, n)
<1> DEFINE t == Tail(s)
<1>1. PICK f : Places(s, p, n, f)
  BY AsksIs
<1>2. /\ Head(s) = s[1] /\ Len(s) \in Nat \ {0} /\ Len(t) = Len(s) - 1
      /\ \A i \in 1..(Len(s) - 1) : t[i] = s[i + 1] /\ i + 1 \in 1..Len(s)
      /\ \A i \in 2..Len(s) : i - 1 \in 1..Len(t) /\ t[i - 1] = s[i]
  BY TailIs
<1> HIDE DEF t
<1>3. \A a \in (n + 1)..Len(p) : f[a] \in 2..Len(s)
  <2> SUFFICES ASSUME NEW a \in (n + 1)..Len(p) PROVE f[a] \in 2..Len(s)
    OBVIOUS
  <2>1. f[a] \in 1..Len(s) /\ s[f[a]].what \in Prompts
    BY <1>1 DEF Places
  <2> QED
    BY <1>2, <2>1
<1>4. PICK h : h = [a \in (n + 1)..Len(p) |-> f[a] - 1]
  OBVIOUS
<1>5. /\ h \in [(n + 1)..Len(p) -> 1..Len(t)]
      /\ \A a \in (n + 1)..Len(p) : h[a] = f[a] - 1
  BY <1>2, <1>3, <1>4
<1>6. \A a, b \in (n + 1)..Len(p) : a < b => h[a] < h[b]
  BY <1>1, <1>3, <1>5 DEF Places
<1>7. ASSUME NEW i \in 1..Len(t) PROVE t[i].what \in Prompts <=> \E a \in (n + 1)..Len(p) : h[a] = i
  <2>1. t[i] = s[i + 1] /\ i + 1 \in 1..Len(s)
    BY <1>2
  <2>2. t[i].what \in Prompts <=> \E a \in (n + 1)..Len(p) : f[a] = i + 1
    BY <1>1, <2>1 DEF Places
  <2>3. \A a \in (n + 1)..Len(p) : f[a] = i + 1 <=> h[a] = i
    BY <1>2, <1>3, <1>5
  <2> QED
    BY <2>2, <2>3
<1>8. \A a \in (n + 1)..Len(p) : KindOf(t[h[a]].what) = p[a]
  <2> SUFFICES ASSUME NEW a \in (n + 1)..Len(p) PROVE KindOf(t[h[a]].what) = p[a]
    OBVIOUS
  <2>1. t[h[a]] = s[f[a]]
    BY <1>2, <1>3, <1>5
  <2> QED
    BY <1>1, <2>1 DEF Places
<1>9. Places(t, p, n, h)
  BY <1>5, <1>6, <1>7, <1>8 DEF Places
<1> QED
  BY <1>9, AsksIs DEF t

LEMMA AsksTailPrompt ==
  ASSUME NEW s \in Seq(ServerMessages), s # <<>>, Head(s).what \in Prompts,
         NEW p \in Seq(Kinds), NEW n \in 0..Len(p), Asks(s, p, n)
  PROVE  n < Len(p) /\ p[n + 1] = KindOf(Head(s).what) /\ Asks(Tail(s), p, n + 1)
<1> DEFINE t == Tail(s)
<1>1. PICK f : Places(s, p, n, f)
  BY AsksIs
<1>2. /\ Head(s) = s[1] /\ Len(s) \in Nat \ {0} /\ Len(t) = Len(s) - 1
      /\ \A i \in 1..(Len(s) - 1) : t[i] = s[i + 1] /\ i + 1 \in 1..Len(s)
      /\ \A i \in 2..Len(s) : i - 1 \in 1..Len(t) /\ t[i - 1] = s[i]
  BY TailIs
<1> HIDE DEF t
<1>3. n < Len(p) /\ f[n + 1] = 1
  <2>1. PICK a \in (n + 1)..Len(p) : f[a] = 1
    BY <1>1, <1>2 DEF Places
  <2>2. n + 1 \in (n + 1)..Len(p) /\ n < Len(p)
    BY <2>1
  <2>3. f[n + 1] \in 1..Len(s) /\ (n + 1 < a => f[n + 1] < f[a])
    BY <1>1, <2>1, <2>2 DEF Places
  <2>4. ~(f[n + 1] < 1)
    BY <2>3
  <2> QED
    BY <2>1, <2>2, <2>3, <2>4
<1>4. \A a \in (n + 2)..Len(p) : a \in (n + 1)..Len(p) /\ f[a] \in 2..Len(s)
  <2> SUFFICES ASSUME NEW a \in (n + 2)..Len(p) PROVE a \in (n + 1)..Len(p) /\ f[a] \in 2..Len(s)
    OBVIOUS
  <2>1. a \in (n + 1)..Len(p) /\ n + 1 \in (n + 1)..Len(p) /\ n + 1 < a
    BY <1>3
  <2>2. f[n + 1] < f[a] /\ f[a] \in 1..Len(s)
    BY <1>1, <2>1 DEF Places
  <2> QED
    BY <1>2, <1>3, <2>1, <2>2
<1>5. PICK h : h = [a \in (n + 2)..Len(p) |-> f[a] - 1]
  OBVIOUS
<1>6. /\ h \in [((n + 1) + 1)..Len(p) -> 1..Len(t)] /\ (n + 1) + 1 = n + 2
      /\ \A a \in (n + 2)..Len(p) : h[a] = f[a] - 1
  <2>1. (n + 1) + 1 = n + 2
    OBVIOUS
  <2> QED
    BY <1>2, <1>4, <1>5, <2>1
<1>7. \A a, b \in (n + 2)..Len(p) : a < b => h[a] < h[b]
  BY <1>1, <1>4, <1>6 DEF Places
<1>8. ASSUME NEW i \in 1..Len(t) PROVE t[i].what \in Prompts <=> \E a \in (n + 2)..Len(p) : h[a] = i
  <2>1. t[i] = s[i + 1] /\ i + 1 \in 1..Len(s) /\ i + 1 # 1
    BY <1>2
  <2>2. t[i].what \in Prompts <=> \E a \in (n + 1)..Len(p) : f[a] = i + 1
    BY <1>1, <2>1 DEF Places
  <2>3. \A a \in (n + 1)..Len(p) : f[a] = i + 1 => a \in (n + 2)..Len(p)
    BY <1>3, <2>1
  <2>4. ASSUME NEW a \in (n + 2)..Len(p) PROVE f[a] = i + 1 <=> h[a] = i
    <3>1. h[a] = f[a] - 1 /\ f[a] \in 2..Len(s)
      BY <1>4, <1>6
    <3> QED
      BY <1>2, <3>1
  <2> QED
    BY <1>4, <2>2, <2>3, <2>4
<1>9. \A a \in (n + 2)..Len(p) : KindOf(t[h[a]].what) = p[a]
  <2> SUFFICES ASSUME NEW a \in (n + 2)..Len(p) PROVE KindOf(t[h[a]].what) = p[a]
    OBVIOUS
  <2>1. t[h[a]] = s[f[a]]
    <3>1. h[a] = f[a] - 1 /\ f[a] \in 2..Len(s)
      BY <1>4, <1>6
    <3> QED
      BY <1>2, <3>1
  <2> QED
    BY <1>1, <1>4, <2>1 DEF Places
<1>10. Places(t, p, n + 1, h)
  BY <1>6, <1>7, <1>8, <1>9 DEF Places
<1>11. p[n + 1] = KindOf(Head(s).what)
  <2>1. n + 1 \in (n + 1)..Len(p)
    BY <1>3
  <2> QED
    BY <1>1, <1>2, <1>3, <2>1 DEF Places
<1> QED
  BY <1>3, <1>10, <1>11, AsksIs DEF t

(* Only the prompts after the n-th matter. *)
LEMMA AsksMoved ==
  ASSUME NEW s \in Seq(ServerMessages), NEW p \in Seq(Kinds), NEW n \in 0..Len(p), Asks(s, p, n),
         NEW q \in Seq(Kinds), NEW k \in 0..Len(q), Len(q) - k = Len(p) - n,
         \A a \in 1..(Len(p) - n) : q[k + a] = p[n + a]
  PROVE  Asks(s, q, k)
<1>1. PICK f : Places(s, p, n, f)
  BY AsksIs
<1>2. Len(p) \in Nat /\ Len(q) \in Nat /\ n \in Nat /\ k \in Nat
  OBVIOUS
<1>3. ASSUME NEW b \in (k + 1)..Len(q)
      PROVE  b - k + n \in (n + 1)..Len(p) /\ q[b] = p[b - k + n]
  <2>1. b - k \in 1..(Len(p) - n) /\ b - k + n \in (n + 1)..Len(p) /\ k + (b - k) = b
        /\ n + (b - k) = b - k + n
    BY <1>2, <1>3
  <2>2. q[k + (b - k)] = p[n + (b - k)]
    BY <2>1
  <2> QED
    BY <2>1, <2>2
<1>4. ASSUME NEW a \in (n + 1)..Len(p) PROVE a - n + k \in (k + 1)..Len(q) /\ (a - n + k) - k + n = a
  BY <1>2, <1>4
<1>5. PICK h : h = [b \in (k + 1)..Len(q) |-> f[b - k + n]]
  OBVIOUS
<1>6. /\ h \in [(k + 1)..Len(q) -> 1..Len(s)]
      /\ \A b \in (k + 1)..Len(q) : h[b] = f[b - k + n]
  BY <1>1, <1>3, <1>5 DEF Places
<1>7. \A a, b \in (k + 1)..Len(q) : a < b => h[a] < h[b]
  <2> SUFFICES ASSUME NEW a \in (k + 1)..Len(q), NEW b \in (k + 1)..Len(q), a < b PROVE h[a] < h[b]
    OBVIOUS
  <2>1. a - k + n < b - k + n
    BY <1>2
  <2>2. f[a - k + n] < f[b - k + n]
    BY <1>1, <1>3, <2>1 DEF Places
  <2> QED
    BY <1>6, <2>2
<1>8. ASSUME NEW i \in 1..Len(s) PROVE s[i].what \in Prompts <=> \E b \in (k + 1)..Len(q) : h[b] = i
  <2>1. s[i].what \in Prompts <=> \E a \in (n + 1)..Len(p) : f[a] = i
    BY <1>1 DEF Places
  <2>2. ASSUME NEW a \in (n + 1)..Len(p), f[a] = i PROVE \E b \in (k + 1)..Len(q) : h[b] = i
    <3>1. a - n + k \in (k + 1)..Len(q) /\ h[a - n + k] = f[a]
      BY <1>4, <1>6
    <3> QED
      BY <2>2, <3>1
  <2>3. ASSUME NEW b \in (k + 1)..Len(q), h[b] = i PROVE \E a \in (n + 1)..Len(p) : f[a] = i
    BY <1>3, <1>6, <2>3
  <2> QED
    BY <2>1, <2>2, <2>3
<1>9. \A b \in (k + 1)..Len(q) : KindOf(s[h[b]].what) = q[b]
  BY <1>1, <1>3, <1>6 DEF Places
<1>10. Places(s, q, k, h)
  BY <1>6, <1>7, <1>8, <1>9 DEF Places
<1> QED
  BY <1>10, AsksIs

LEMMA AsksCount ==
  ASSUME NEW s \in Seq(ServerMessages), NEW p \in Seq(Kinds), NEW n \in 0..Len(p), Asks(s, p, n)
  PROVE  /\ n = Len(p) => \A i \in 1..Len(s) : s[i].what \notin Prompts
         /\ \A i \in 1..Len(s) : s[i].what \in Prompts => n < Len(p)
<1>1. PICK f : Places(s, p, n, f)
  BY AsksIs
<1>2. ASSUME NEW i \in 1..Len(s), s[i].what \in Prompts PROVE n < Len(p)
  <2>1. PICK a \in (n + 1)..Len(p) : f[a] = i
    BY <1>1, <1>2 DEF Places
  <2> QED
    BY <2>1
<1> QED
  BY <1>2

(* A prompt that another one replaces is dropped, but never the last one. *)
LEMMA AheadDrop ==
  ASSUME NEW p \in Seq(Kinds), NEW pc, NEW attempts \in Nat, Ahead(p, pc, attempts),
         NEW k \in 1..(Len(p) - 1), NEW q \in Seq(Kinds), Len(q) = Len(p) - 1,
         \A i \in 1..Len(q) : q[i] = IF i < k THEN p[i] ELSE p[i + 1]
  PROVE  Ahead(q, pc, attempts)
<1>1. Len(p) = 2 \/ Len(p) = 3
  BY DEF Ahead, One, Two, Three
<1>2. CASE Len(p) = 2
  <2>1. Len(q) = 1 /\ q[1] = p[2]
    BY <1>2
  <2> QED
    BY <1>2, <2>1 DEF Ahead, One, Two, Three
<1>3. CASE Len(p) = 3
  <2>1. Len(q) = 2 /\ (q[1] = p[1] \/ q[1] = p[2]) /\ q[2] = p[3]
    <3>1. Len(q) = 2 /\ (k = 1 \/ k = 2) /\ 1 \in 1..Len(q) /\ 2 \in 1..Len(q)
      BY <1>3
    <3>2. q[1] = (IF 1 < k THEN p[1] ELSE p[1 + 1]) /\ q[2] = (IF 2 < k THEN p[2] ELSE p[2 + 1])
      BY <3>1
    <3>3. 1 + 1 = 2 /\ 2 + 1 = 3 /\ ~(2 < k)
      BY <3>1
    <3> QED
      BY <3>1, <3>2, <3>3
  <2> QED
    BY <1>3, <2>1 DEF Ahead, One, Two, Three
<1> QED
  BY <1>1, <1>2, <1>3

(* What is outstanding when the server has read an answer, and then asked    *)
(* for one thing more, or for two.                                           *)
LEMMA AheadNext ==
  ASSUME NEW p \in Seq(Kinds), NEW pc, NEW attempts \in Nat, Ahead(p, pc, attempts),
         NEW q \in Seq(Kinds), Len(q) = Len(p),
         \A i \in 1..(Len(p) - 1) : q[i] = p[i + 1]
  PROVE  /\ pc = "username" /\ p[1] = "username" /\ q[Len(p)] = "password"
              => Ahead(q, "password", attempts)
         /\ pc = "username" /\ attempts = 0 /\ q[Len(p)] = "choice" => Ahead(q, "choice", attempts)
         /\ pc = "choice" /\ q[Len(p)] = "password" => Ahead(q, "newPassword", attempts)
         /\ pc = "newPassword" /\ q[Len(p)] = "password" => Ahead(q, "confirm", attempts)
         /\ pc \in {"username", "choice", "confirm"} /\ q[Len(p)] = "username"
              => Ahead(q, "username", attempts + 1)
<1>1. CASE Len(p) = 1
  BY <1>1 DEF Ahead, One, Two, Three
<1>2. CASE Len(p) = 2
  <2>1. q[1] = p[2]
    BY <1>2
  <2> QED
    BY <1>2, <2>1 DEF Ahead, One, Two, Three
<1>3. CASE Len(p) = 3
  <2>1. q[1] = p[2] /\ q[2] = p[3]
    BY <1>3
  <2> QED
    BY <1>3, <2>1 DEF Ahead, One, Two, Three
<1> QED
  BY <1>1, <1>2, <1>3 DEF Ahead, One, Two, Three

LEMMA AheadWrong ==
  ASSUME NEW p \in Seq(Kinds), NEW attempts \in Nat, Ahead(p, "password", attempts),
         NEW q \in Seq(Kinds), Len(q) = Len(p) + 1, attempts + 1 < 6,
         \A i \in 1..(Len(p) - 1) : q[i] = p[i + 1],
         q[Len(p)] = "password", q[Len(p) + 1] = "username"
  PROVE  Ahead(q, "username", attempts + 1)
<1>1. CASE Len(p) = 1
  BY <1>1 DEF Ahead, One, Two, Three
<1>2. CASE Len(p) = 2
  <2>1. q[1] = p[2]
    BY <1>2
  <2> QED
    BY <1>2, <2>1 DEF Ahead, One, Two, Three
<1> QED
  BY <1>1, <1>2 DEF Ahead, One, Two, Three

(* The answers on their way, when the server reads the first of them. *)
LEMMA OwesRead ==
  ASSUME TypeInv, NEW p \in Seq(Kinds), Owes(p), toServer # <<>>, toServer' = Tail(toServer),
         UNCHANGED <<flags, answered>>,
         NEW q \in Seq(Kinds), Len(q) >= Len(p) - 1, \A i \in 1..(Len(p) - 1) : q[i] = p[i + 1],
         \A n \in 0..(Len(p) - 1) : Asks(toClient, Tail(p), n) => Asks(toClient', q, n)
  PROVE  Owes(q)'
<1> DEFINE N == Len(toServer)
<1>1. /\ toServer \in Seq(ClientMessages) /\ N \in Nat \ {0} /\ Len(toServer') = N - 1
      /\ \A i \in 1..(N - 1) : toServer'[i] = toServer[i + 1] /\ i + 1 \in 1..N
      /\ toClient \in Seq(ServerMessages)
  <2>1. toServer \in Seq(ClientMessages) /\ toClient \in Seq(ServerMessages)
    BY DEF TypeInv, TypeOK
  <2> QED
    BY <2>1, TailIs
<1>2. N <= Len(p) /\ \A i \in 1..N : toServer[i].text \in Answers(p[i])
  BY DEF Owes
<1>3. Len(p) \in Nat \ {0} /\ Len(q) \in Nat /\ p # <<>>
  BY <1>1, <1>2
<1>4. /\ Tail(p) \in Seq(Kinds) /\ Len(Tail(p)) = Len(p) - 1
      /\ \A i \in 1..(Len(p) - 1) : Tail(p)[i] = p[i + 1]
  BY <1>3, TailIs
<1>5. ASSUME NEW n \in 1..Len(p), Asks(toClient, p, n)
      PROVE  Asks(toClient', q, n - 1)
  <2>1. /\ n \in 0..Len(p) /\ n - 1 \in 0..Len(Tail(p)) /\ Len(Tail(p)) - (n - 1) = Len(p) - n
        /\ n - 1 \in 0..(Len(p) - 1)
    BY <1>3, <1>4
  <2>2. \A a \in 1..(Len(p) - n) : Tail(p)[(n - 1) + a] = p[n + a]
    <3> SUFFICES ASSUME NEW a \in 1..(Len(p) - n) PROVE Tail(p)[(n - 1) + a] = p[n + a]
      OBVIOUS
    <3>1. (n - 1) + a \in 1..(Len(p) - 1) /\ ((n - 1) + a) + 1 = n + a
      BY <1>3
    <3> QED
      BY <1>4, <3>1
  <2>3. Asks(toClient, Tail(p), n - 1)
    BY <1>1, <1>4, <1>5, <2>1, <2>2, AsksMoved
  <2> QED
    BY <2>1, <2>3
<1>6. Asking' = Asking /\ Mode' = Mode
  BY DEF Asking, Mode
<1> HIDE DEF N
<1>7. \A i \in 1..(N - 1) : toServer'[i].text \in Answers(q[i])
  <2> SUFFICES ASSUME NEW i \in 1..(N - 1) PROVE toServer'[i].text \in Answers(q[i])
    OBVIOUS
  <2>1. i + 1 \in 1..N /\ toServer'[i] = toServer[i + 1] /\ q[i] = p[i + 1]
    BY <1>1, <1>2, <1>3
  <2> QED
    BY <1>2, <2>1
<1>8. CASE Asking
  <2>1. N < Len(p) /\ Mode = p[N + 1] /\ Asks(toClient, p, N + 1)
    BY <1>8 DEF Owes, N
  <2>2. /\ N + 1 \in 1..Len(p) /\ (N + 1) - 1 = (N - 1) + 1 /\ q[(N - 1) + 1] = p[N + 1] /\ N - 1 < Len(q)
        /\ N - 1 <= Len(q)
    <3>1. N \in 1..(Len(p) - 1) /\ (N - 1) + 1 = N
      BY <1>1, <1>3, <2>1
    <3> QED
      BY <1>1, <1>3, <2>1, <3>1
  <2>3. Asks(toClient', q, (N - 1) + 1)
    BY <1>5, <2>1, <2>2
  <2> QED
    BY <1>1, <1>6, <1>7, <1>8, <2>1, <2>2, <2>3 DEF Owes
<1>9. CASE ~Asking
  <2>1. Asks(toClient, p, N) /\ N \in 1..Len(p) /\ N - 1 <= Len(q)
    BY <1>1, <1>2, <1>3, <1>9 DEF Owes, N
  <2>2. Asks(toClient', q, N - 1)
    BY <1>5, <2>1
  <2> QED
    BY <1>1, <1>6, <1>7, <1>9, <2>1, <2>2 DEF Owes
<1> QED
  BY <1>8, <1>9

LEMMA LastNameRead ==
  ASSUME TypeInv, LastName, toServer # <<>>, toServer' = Tail(toServer), UNCHANGED username,
         srv'.pc \in Dialogue \ {"username"} =>
            LET x == Head(toServer).text IN
            IF x \in Users THEN srv'.name = x
            ELSE srv'.name = srv.name /\ srv.pc \in Dialogue \ {"username"}
  PROVE  LastName'
<1> DEFINE N == Len(toServer)
           x == Head(toServer).text
<1>1. /\ toServer \in Seq(ClientMessages) /\ N \in Nat \ {0} /\ Len(toServer') = N - 1
      /\ \A i \in 1..(N - 1) : toServer'[i] = toServer[i + 1] /\ i + 1 \in 1..N
      /\ \A i \in 2..N : i - 1 \in 1..(N - 1) /\ toServer'[i - 1] = toServer[i]
      /\ x = toServer[1].text /\ 1 \in 1..N
  <2>1. toServer \in Seq(ClientMessages)
    BY DEF TypeInv, TypeOK
  <2> QED
    BY <2>1, TailIs
<1>2. /\ \A i \in 1..N :
            toServer[i].text \in Users /\ (\A j \in 1..N : j > i => toServer[j].text \notin Users)
               => toServer[i].text = username
      /\ srv.pc \in Dialogue \ {"username"} /\ (\A i \in 1..N : toServer[i].text \notin Users)
               => username = srv.name
  BY DEF LastName
<1>3. /\ srv'.pc \in Dialogue \ {"username"} /\ x \in Users => srv'.name = x
      /\ srv'.pc \in Dialogue \ {"username"} /\ x \notin Users =>
            srv'.name = srv.name /\ srv.pc \in Dialogue \ {"username"}
  OBVIOUS
<1> HIDE DEF N, x
<1>4. ASSUME NEW i \in 1..(N - 1), toServer'[i].text \in Users,
             \A j \in 1..(N - 1) : j > i => toServer'[j].text \notin Users
      PROVE  toServer'[i].text = username
  <2>1. \A j \in 1..N : j > i + 1 => toServer[j].text \notin Users
    <3> SUFFICES ASSUME NEW j \in 1..N, j > i + 1 PROVE toServer[j].text \notin Users
      OBVIOUS
    <3>1. j \in 2..N /\ j - 1 > i
      BY <1>1
    <3> QED
      BY <1>1, <1>4, <3>1
  <2> QED
    BY <1>1, <1>2, <1>4, <2>1
<1>5. ASSUME srv'.pc \in Dialogue \ {"username"}, \A i \in 1..(N - 1) : toServer'[i].text \notin Users
      PROVE  username = srv'.name
  <2>1. \A j \in 1..N : j = 1 \/ j \in 2..N
    BY <1>1
  <2>2. \A j \in 1..N : j > 1 => toServer[j].text \notin Users
    <3> SUFFICES ASSUME NEW j \in 1..N, j > 1 PROVE toServer[j].text \notin Users
      OBVIOUS
    <3>1. j \in 2..N
      BY <2>1
    <3> QED
      BY <1>1, <1>5, <3>1
  <2>3. CASE x \in Users
    BY <1>1, <1>2, <1>3, <1>5, <2>2, <2>3
  <2>4. CASE x \notin Users
    <3>1. \A j \in 1..N : toServer[j].text \notin Users
      <4> SUFFICES ASSUME NEW j \in 1..N PROVE toServer[j].text \notin Users
        OBVIOUS
      <4>1. CASE j = 1
        BY <1>1, <2>4, <4>1
      <4>2. CASE j \in 2..N
        BY <1>1, <2>2, <4>2
      <4> QED
        BY <2>1, <4>1, <4>2
    <3> QED
      BY <1>2, <1>3, <1>5, <2>4, <3>1
  <2> QED
    BY <2>3, <2>4
<1>6. UNCHANGED username
  OBVIOUS
<1> QED
  BY <1>1, <1>4, <1>5, <1>6 DEF LastName

(* The answers are told from each other by their kind. *)
LEMMA AnswersDiffer ==
  /\ Users \cap Passwords = {} /\ Users \cap Choices = {} /\ Passwords \cap Choices = {}
  /\ "good" \in Passwords /\ \A x \in Passwords \cup Choices : x \notin Users
  /\ Answers("username") = Users /\ Answers("password") = Passwords /\ Answers("choice") = Choices
  BY ClientAssumption DEF Passwords, Choices, Answers

(* When the server reads an answer of the dialogue: what is it, and what is  *)
(* not on its way to the client?                                             *)
LEMMA ReadInDialogue ==
  ASSUME TypeInv, srv.pc \in Dialogue, Awaiting, toServer # <<>>,
         NEW p \in Seq(Kinds), Ahead(p, srv.pc, srv.attempts), Owes(p)
  PROVE  /\ Len(p) \in 1..3 /\ Head(toServer).text \in Answers(p[1])
         /\ \A i \in 1..Len(toClient) : toClient[i].what \notin {"confirm", "choice"}
         /\ Len(p) = 1 => ~Asking /\ \A i \in 1..Len(toClient) : toClient[i].what \notin Prompts
<1>1. toClient \in Seq(ServerMessages) /\ toServer \in Seq(ClientMessages)
  BY DEF TypeInv, TypeOK
<1>2. Len(toServer) \in Nat \ {0} /\ Head(toServer) = toServer[1]
  BY <1>1, TailIs
<1>3. Len(p) \in 1..3
  BY DEF Ahead, One, Two, Three
<1>4. Head(toServer).text \in Answers(p[1])
  BY <1>2, <1>3 DEF Owes
<1>5. Len(p) = 1 => ~Asking /\ \A i \in 1..Len(toClient) : toClient[i].what \notin Prompts
  <2> SUFFICES ASSUME Len(p) = 1 PROVE ~Asking /\ \A i \in 1..Len(toClient) : toClient[i].what \notin Prompts
    OBVIOUS
  <2>1. Len(toServer) = 1 /\ ~Asking
    <3>1. Len(toServer) <= Len(p)
      BY Zenon DEF Owes
    <3>2. Asking => Len(toServer) < Len(p)
      BY Zenon DEF Owes
    <3>4. ASSUME NEW a \in Nat \ {0}, NEW b, b = 1, a <= b PROVE a = 1 /\ ~(a < b)
      BY <3>4
    <3>3. Len(toServer) = 1 /\ ~(Len(toServer) < Len(p))
      BY <1>2, <3>1, <3>4
    <3> QED
      BY <3>2, <3>3, Zenon
  <2>2. Asks(toClient, p, 1) /\ 1 \in 0..Len(p)
    BY <2>1 DEF Owes
  <2> QED
    BY <1>1, <2>1, <2>2, AsksCount
<1>6. \A i \in 1..Len(toClient) : toClient[i].what \notin {"confirm", "choice"}
  <2>1. CASE srv.pc \in {"confirm", "choice"}
    <3>1. Len(p) = 1
      BY <2>1 DEF Ahead, One
    <3> QED
      BY <1>5, <3>1 DEF Prompts
  <2>2. CASE srv.pc \notin {"confirm", "choice"}
    BY <2>2 DEF Awaiting
  <2> QED
    BY <2>1, <2>2
<1> QED
  BY <1>3, <1>4, <1>5, <1>6

(* The server reads and asks for one thing more ... *)
LEMMA DialogueAsksMore ==
  ASSUME TypeInv, srv.pc \in Dialogue, InDialogue, toServer # <<>>, toServer' = Tail(toServer),
         UNCHANGED <<flags, username, answered>>, Prompts1(Head(toServer).text)
  PROVE  InDialogue'
<1> DEFINE x == Head(toServer).text
<1>1. PICK p \in Seq(Kinds) : Ahead(p, srv.pc, srv.attempts) /\ Owes(p)
  BY DEF InDialogue
<1>2. /\ Len(p) \in 1..3 /\ x \in Answers(p[1])
      /\ \A i \in 1..Len(toClient) : toClient[i].what \notin {"confirm", "choice"}
      /\ toClient \in Seq(ServerMessages) /\ srv.attempts \in Nat
  BY <1>1, ReadInDialogue, ClientAssumption DEF InDialogue, TypeInv, TypeOK
<1>3. PICK what \in {"choice", "password", "confirm"} :
        /\ toClient' = Append(toClient, Msg(what)) /\ srv'.attempts = srv.attempts
        /\ \/ /\ what = "choice" /\ srv.pc = "username" /\ srv.attempts = 0 /\ srv'.pc = "choice"
              /\ srv'.name = x
           \/ /\ what = "password" /\ srv.pc = "username" /\ srv'.pc = "password" /\ x \in Accounts
              /\ srv'.name = x
           \/ what = "password" /\ srv.pc = "choice" /\ srv'.pc = "newPassword" /\ srv'.name = srv.name
           \/ what = "confirm" /\ srv.pc = "newPassword" /\ srv'.pc = "confirm" /\ srv'.name = srv.name
  BY DEF Prompts1
<1> HIDE DEF x
<1>4. /\ Msg(what) \in ServerMessages /\ Msg(what).what = what /\ what \in Prompts
      /\ KindOf(what) \in Kinds
  BY MessageTypes DEF Prompts, KindOf, Kinds
<1>5. p[1] \in Kinds /\ p # <<>>
  BY <1>2
<1>6. /\ Tail(p) \in Seq(Kinds) /\ Len(Tail(p)) = Len(p) - 1
      /\ \A i \in 1..(Len(p) - 1) : Tail(p)[i] = p[i + 1]
  BY <1>5, TailIs
<1>7. PICK q \in Seq(Kinds) : q = Append(Tail(p), KindOf(what))
  BY <1>4, <1>6, AppendIs
<1>8. Len(q) = Len(p) /\ q[Len(p)] = KindOf(what) /\ \A i \in 1..(Len(p) - 1) : q[i] = p[i + 1]
  <2>1. /\ Len(q) = Len(Tail(p)) + 1 /\ q[Len(Tail(p)) + 1] = KindOf(what)
        /\ \A i \in 1..Len(Tail(p)) : q[i] = Tail(p)[i]
    BY <1>4, <1>6, <1>7, AppendIs
  <2>2. (Len(p) - 1) + 1 = Len(p)
    BY <1>2
  <2> QED
    BY <1>6, <2>1, <2>2
<1>9. \A n \in 0..(Len(p) - 1) : Asks(toClient, Tail(p), n) => Asks(toClient', q, n)
  BY <1>2, <1>3, <1>4, <1>6, <1>7, AsksMore
<1>10. Owes(q)'
  <2>1. Len(q) >= Len(p) - 1
    BY <1>2, <1>8
  <2> QED
    BY <1>1, <1>8, <1>9, <2>1, OwesRead
<1>11. Ahead(q, srv'.pc, srv'.attempts)
  <2>1. p[1] \in {"username", "password", "choice"}
    BY <1>5 DEF Kinds
  <2>2. x \in Accounts => p[1] = "username"
    BY <1>2, <2>1, AnswersDiffer, ClientAssumption
  <2>3. /\ srv.pc = "username" /\ p[1] = "username" /\ q[Len(p)] = "password"
              => Ahead(q, "password", srv.attempts)
        /\ srv.pc = "username" /\ srv.attempts = 0 /\ q[Len(p)] = "choice" => Ahead(q, "choice", srv.attempts)
        /\ srv.pc = "choice" /\ q[Len(p)] = "password" => Ahead(q, "newPassword", srv.attempts)
        /\ srv.pc = "newPassword" /\ q[Len(p)] = "password" => Ahead(q, "confirm", srv.attempts)
    BY <1>1, <1>2, <1>8, AheadNext
  <2> QED
    BY <1>3, <1>8, <2>2, <2>3 DEF KindOf
<1>12. LastName'
  <2>1. srv.pc = "username" /\ srv.attempts = 0 => p[1] = "username"
    BY <1>1 DEF Ahead, One, Two, Three
  <2>2. srv.pc = "choice" => p[1] = "choice"
    BY <1>1 DEF Ahead, One
  <2>3. srv.pc = "newPassword" => p[1] = "password"
    BY <1>1 DEF Ahead, One
  <2>4. IF srv.pc = "username" THEN x \in Users /\ srv'.name = x
        ELSE x \notin Users /\ srv'.name = srv.name
    BY <1>2, <1>3, <2>1, <2>2, <2>3, AnswersDiffer, ClientAssumption
  <2>5. IF x \in Users THEN srv'.name = x
        ELSE srv'.name = srv.name /\ srv.pc \in Dialogue \ {"username"}
    BY <2>4
  <2> QED
    BY <2>5, LastNameRead DEF InDialogue, x
<1>13. Awaiting'
  <2>1. /\ Len(toClient) \in Nat /\ Len(toClient') = Len(toClient) + 1
        /\ toClient'[Len(toClient) + 1] = Msg(what)
        /\ \A i \in 1..Len(toClient) : toClient'[i] = toClient[i]
    BY <1>2, <1>3, <1>4, AppendIs
  <2>2. what \in {"confirm", "choice"} => srv'.pc = what
    BY <1>3
  <2> SUFFICES ASSUME NEW i \in 1..Len(toClient'), toClient'[i].what \in {"confirm", "choice"}
               PROVE  srv'.pc = toClient'[i].what
    BY DEF Awaiting
  <2>3. CASE i = Len(toClient) + 1
    BY <1>4, <2>1, <2>2, <2>3
  <2>4. CASE i \in 1..Len(toClient)
    BY <1>2, <2>1, <2>4
  <2> QED
    BY <2>1, <2>3, <2>4
<1> QED
  BY <1>10, <1>11, <1>12, <1>13 DEF InDialogue

(* ... or begins another round ... *)
LEMMA DialogueRepeats ==
  ASSUME MaxAttempts <= 6, TypeInv, srv.pc \in Dialogue, InDialogue, toServer # <<>>,
         toServer' = Tail(toServer), UNCHANGED <<flags, username, answered>>, Repeats(Head(toServer).text)
  PROVE  InDialogue'
<1> DEFINE x == Head(toServer).text
<1>1. PICK p \in Seq(Kinds) : Ahead(p, srv.pc, srv.attempts) /\ Owes(p)
  BY DEF InDialogue
<1>2. /\ Len(p) \in 1..3 /\ x \in Answers(p[1])
      /\ \A i \in 1..Len(toClient) : toClient[i].what \notin {"confirm", "choice"}
      /\ toClient \in Seq(ServerMessages) /\ srv.attempts \in Nat /\ MaxAttempts \in Nat
  BY <1>1, ReadInDialogue, ClientAssumption DEF InDialogue, TypeInv, TypeOK
<1>3. /\ srv.attempts + 1 < MaxAttempts /\ srv'.attempts = srv.attempts + 1 /\ srv'.pc = "username"
      /\ srv.pc \in {"username", "choice", "confirm", "password"}
      /\ toClient' = Append(Append(Preface(x), Left(MaxAttempts - srv'.attempts)), Msg("username"))
  BY DEF Repeats
<1> HIDE DEF x
<1>4. /\ \A what \in {"username", "password", "online", "tryAgain"} :
            Msg(what) \in ServerMessages /\ Msg(what).what = what
      /\ Left(MaxAttempts - srv'.attempts) \in ServerMessages
      /\ Left(MaxAttempts - srv'.attempts).what = "attempts"
      /\ KindOf("username") = "username" /\ KindOf("password") = "password"
      /\ "username" \in Prompts /\ "password" \in Prompts /\ "attempts" \notin Prompts
      /\ "online" \notin Prompts /\ "tryAgain" \notin Prompts
      /\ "username" \in Kinds /\ "password" \in Kinds
  <2>1. MaxAttempts - srv'.attempts \in 1..MaxAttempts
    BY <1>2, <1>3
  <2> QED
    BY <2>1, MessageTypes DEF Prompts, Notices, KindOf, Kinds
<1> DEFINE t == Tail(p)
           Rest(s, r) == /\ s \in Seq(ServerMessages) /\ r \in Seq(Kinds) /\ Len(r) \in Nat /\ Len(r) >= Len(t)
                         /\ \A i \in 1..Len(s) : s[i].what \notin {"confirm", "choice"}
                         /\ \A n \in 0..Len(t) : Asks(toClient, t, n) => Asks(s, r, n)
<1>5. /\ t \in Seq(Kinds) /\ Len(t) = Len(p) - 1 /\ Len(t) \in Nat
      /\ \A i \in 1..(Len(p) - 1) : t[i] = p[i + 1]
  <2>1. p # <<>>
    BY <1>2
  <2> QED
    BY <1>2, <2>1, TailIs
<1> HIDE DEF t
<1>6. Rest(toClient, t)
  BY <1>2, <1>5
<1>7. ASSUME NEW s, NEW r, Rest(s, r), NEW m \in ServerMessages
      PROVE  /\ m.what \notin Prompts => Rest(Append(s, m), r)
             /\ m.what \in {"username", "password"} => Rest(Append(s, m), Append(r, m.what))
  <2>1. \A n \in 0..Len(t) : n \in 0..Len(r)
    BY <1>5, <1>7
  <2>2. /\ Append(s, m) \in Seq(ServerMessages)
        /\ Len(Append(s, m)) = Len(s) + 1 /\ Append(s, m)[Len(s) + 1] = m
        /\ \A i \in 1..Len(s) : Append(s, m)[i] = s[i]
    BY <1>7, AppendIs
  <2>3. m.what \notin {"confirm", "choice"} =>
           \A i \in 1..Len(Append(s, m)) : Append(s, m)[i].what \notin {"confirm", "choice"}
    BY <1>7, <2>2
  <2>4. m.what \notin Prompts => Rest(Append(s, m), r)
    BY <1>7, <2>1, <2>2, <2>3, AsksPlain DEF Prompts
  <2>5. ASSUME m.what \in {"username", "password"} PROVE Rest(Append(s, m), Append(r, m.what))
    <3>1. m.what \in Prompts /\ KindOf(m.what) = m.what /\ m.what \in Kinds
      BY <1>4, <2>5
    <3>2. Append(r, m.what) \in Seq(Kinds) /\ Len(Append(r, m.what)) \in Nat /\ Len(Append(r, m.what)) >= Len(t)
      BY <1>5, <1>7, <3>1, AppendIs
    <3>3. \A n \in 0..Len(t) : Asks(toClient, t, n) => Asks(Append(s, m), Append(r, m.what), n)
      BY <1>7, <2>1, <3>1, AsksMore
    <3> QED
      BY <2>2, <2>3, <2>5, <3>2, <3>3
  <2> QED
    BY <2>4, <2>5
<1> HIDE DEF Rest
<1> DEFINE r1 == IF srv.pc = "password" THEN Append(t, "password") ELSE t
           q == Append(r1, "username")
<1>8. Rest(Preface(x), r1)
  BY <1>4, <1>6, <1>7 DEF Preface
<1>9. Rest(toClient', q)
  <2>1. Rest(Append(Preface(x), Left(MaxAttempts - srv'.attempts)), r1)
    BY <1>4, <1>7, <1>8
  <2> QED
    BY <1>3, <1>4, <1>7, <2>1
<1>10. /\ r1 \in Seq(Kinds) /\ q \in Seq(Kinds)
       /\ Len(q) = IF srv.pc = "password" THEN Len(p) + 1 ELSE Len(p)
       /\ \A i \in 1..(Len(p) - 1) : q[i] = p[i + 1]
       /\ q[Len(p)] = IF srv.pc = "password" THEN "password" ELSE "username"
       /\ srv.pc = "password" => q[Len(p) + 1] = "username"
  <2>1. CASE srv.pc = "password"
    <3> DEFINE r == Append(t, "password")
    <3>1. /\ r \in Seq(Kinds) /\ Len(r) = Len(p) /\ r[Len(p)] = "password"
          /\ \A i \in 1..(Len(p) - 1) : r[i] = p[i + 1]
      <4>1. (Len(p) - 1) + 1 = Len(p)
        BY <1>2
      <4> QED
        BY <1>4, <1>5, <4>1, AppendIs
    <3>2. r1 = r /\ q = Append(r, "username")
      BY <2>1
    <3> HIDE DEF r, q
    <3>3. /\ q \in Seq(Kinds) /\ Len(q) = Len(p) + 1 /\ q[Len(p) + 1] = "username"
          /\ \A i \in 1..Len(p) : q[i] = r[i]
      BY <1>4, <3>1, <3>2, AppendIs
    <3>4. Len(p) \in 1..Len(p) /\ \A i \in 1..(Len(p) - 1) : i \in 1..Len(p)
      BY <1>2
    <3> QED
      BY <2>1, <3>1, <3>2, <3>3, <3>4
  <2>2. CASE srv.pc # "password"
    <3>1. r1 = t /\ q = Append(t, "username")
      BY <2>2
    <3> HIDE DEF q
    <3>2. (Len(p) - 1) + 1 = Len(p)
      BY <1>2
    <3> QED
      BY <1>4, <1>5, <2>2, <3>1, <3>2, AppendIs
  <2> QED
    BY <2>1, <2>2
<1> HIDE DEF q, r1
<1>11. PICK r \in Seq(Kinds) : r = q
  BY <1>10
<1>12. Owes(r)'
  <2>1. \A n \in 0..(Len(p) - 1) : Asks(toClient, Tail(p), n) => Asks(toClient', r, n)
    BY <1>5, <1>9, <1>11 DEF Rest, t
  <2>2. Len(r) >= Len(p) - 1 /\ \A i \in 1..(Len(p) - 1) : r[i] = p[i + 1]
    BY <1>2, <1>10, <1>11
  <2> QED
    BY <1>1, <2>1, <2>2, OwesRead
<1>13. Ahead(r, srv'.pc, srv'.attempts)
  <2>1. CASE srv.pc = "password"
    <3>1. srv.attempts + 1 < 6
      BY <1>2, <1>3
    <3> QED
      BY <1>1, <1>2, <1>3, <1>10, <1>11, <2>1, <3>1, AheadWrong
  <2>2. CASE srv.pc \in {"username", "choice", "confirm"}
    BY <1>1, <1>2, <1>3, <1>10, <1>11, <2>2, AheadNext
  <2> QED
    BY <1>3, <2>1, <2>2
<1>14. LastName'
  BY <1>3, LastNameRead DEF InDialogue
<1>15. Awaiting'
  BY <1>9 DEF Rest, Awaiting
<1> QED
  BY <1>12, <1>13, <1>14, <1>15 DEF InDialogue

(* ... or logs the user in, who has answered everything. *)
LEMMA DialogueEnds ==
  ASSUME PromptsIInv, srv.pc \in Dialogue, InDialogue, toServer # <<>>, toServer' = Tail(toServer),
         UNCHANGED <<flags, username, answered>>, LogsIn(Head(toServer).text)
  PROVE  InSession'
<1> USE DEF PromptsIInv
<1> DEFINE x == Head(toServer).text
<1>1. PICK p \in Seq(Kinds) : Ahead(p, srv.pc, srv.attempts) /\ Owes(p)
  BY DEF InDialogue
<1>2. PICK notice \in {"authenticated", "created"} :
        /\ srv'.name = srv.name
        /\ IF notice = "authenticated" THEN srv.pc = "password" /\ x = "good" ELSE srv.pc = "confirm"
        /\ toClient' = Append(Append(toClient, Msg(notice)), MsgFor("uid", srv.name))
  BY DEF LogsIn
<1>3. /\ x \in Answers(p[1]) /\ toClient \in Seq(ServerMessages)
      /\ Len(p) = 1 => ~Asking /\ \A i \in 1..Len(toClient) : toClient[i].what \notin Prompts
  BY <1>1, ReadInDialogue DEF InDialogue, TypeInv, TypeOK
<1>4. One(p, "password")
  <2>1. CASE srv.pc = "password"
    <3>1. x \notin Users
      BY <1>2, <2>1, AnswersDiffer
    <3>2. p[1] # "username"
      BY <1>3, <3>1, AnswersDiffer
    <3> QED
      BY <1>1, <2>1, <3>2 DEF Ahead, One, Two, Three
  <2>2. CASE srv.pc = "confirm"
    BY <1>1, <2>2 DEF Ahead, One
  <2> QED
    BY <1>2, <2>1, <2>2
<1>5. ~Asking /\ \A i \in 1..Len(toClient) : toClient[i].what \notin Prompts
  BY <1>3, <1>4 DEF One
<1>6. username = srv.name
  <2>1. Len(toServer) \in Nat \ {0} /\ Len(toServer) <= 1 /\ Head(toServer) = toServer[1]
    <3>1. toServer \in Seq(ClientMessages)
      BY DEF TypeInv, TypeOK
    <3>2. Len(toServer) <= Len(p)
      BY <1>1, Zenon DEF Owes
    <3> QED
      BY <1>4, <3>1, <3>2, TailIs DEF One
  <2>2. x \notin Users
    BY <1>3, <1>4, AnswersDiffer DEF One
  <2>3. \A i \in 1..Len(toServer) : toServer[i].text \notin Users
    BY <2>1, <2>2
  <2> QED
    BY <1>2, <2>3 DEF InDialogue, LastName
<1> HIDE DEF x
<1>7. /\ Msg(notice) \in ServerMessages /\ Msg(notice).what = notice /\ notice \in Notices
      /\ MsgFor("uid", srv.name) \in ServerMessages /\ MsgFor("uid", srv.name).what = "uid"
      /\ "uid" \in Notices
  <2>1. notice \in Notices /\ "uid" \in Notices /\ srv.name \in Texts \cup {NULL}
    BY DEF Notices, TypeInv, TypeOK
  <2> QED
    BY <2>1, MessageTypes
<1>8. Only(Notices \cup {"attempts"})'
  <2>1. OnlyIn(toClient, Notices \cup {"attempts"})
    <3> SUFFICES ASSUME NEW i \in 1..Len(toClient) PROVE toClient[i].what \in Notices \cup {"attempts"}
      BY DEF OnlyIn
    <3>1. toClient[i] \in ServerMessages
      BY <1>3
    <3> QED
      BY <1>5, <3>1, MessageKinds
  <2>4. Append(toClient, Msg(notice)) \in Seq(ServerMessages)
    BY <1>3, <1>7, AppendIs
  <2>5. \A m \in ServerMessages : m.what \in Notices \cup {"attempts"} =>
           OnlyIn(Append(toClient, m), Notices \cup {"attempts"})
    BY <1>3, <2>1, OnlyAfter
  <2>2. OnlyIn(Append(toClient, Msg(notice)), Notices \cup {"attempts"})
        /\ Append(toClient, Msg(notice)) \in Seq(ServerMessages)
    BY <1>7, <2>4, <2>5
  <2>3. OnlyIn(toClient', Notices \cup {"attempts"})
    BY <1>2, <1>7, <2>2, OnlyAfter
  <2> QED
    BY <2>3 DEF Only
<1>9. \E i \in 1..Len(toClient') : toClient'[i].what = "uid"
  <2>1. Append(toClient, Msg(notice)) \in Seq(ServerMessages)
    BY <1>3, <1>7, AppendIs
  <2>2. /\ Len(Append(toClient, Msg(notice))) + 1 \in 1..Len(toClient')
        /\ toClient'[Len(Append(toClient, Msg(notice))) + 1] = MsgFor("uid", srv.name)
    BY <1>2, <1>7, <2>1, AppendIs
  <2> QED
    BY <1>7, <2>2
<1>10. ~Asking'
  BY <1>5 DEF Asking, Mode
<1>11. username' = srv'.name
  BY <1>2, <1>6
<1> QED
  BY <1>8, <1>9, <1>10, <1>11 DEF InSession

LEMMA IdentifiedRead ==
  ASSUME MaxAttempts <= 6, PromptsIInv, Threads', Identified, ServerReads
  PROVE  Identified'
<1> USE DEF PromptsIInv
<1> DEFINE x == Head(toServer).text
<1>1. /\ toServer # <<>> /\ toServer' = Tail(toServer) /\ up
      /\ UNCHANGED <<flags, uid, username, answered, texts>> /\ ReadOn(x)
  BY ReadEffects DEF cl, bounds
<1> HIDE DEF x
<1> SUFFICES ASSUME up', uid = Default, texts = 0
             PROVE  /\ srv'.pc \in Dialogue => InDialogue'
                    /\ srv'.pc = "session" => InSession'
  BY <1>1 DEF Identified
<1>2. srv.pc \in Dialogue => InDialogue
  BY <1>1 DEF Identified
<1>3. Prompts1(x) => srv.pc \in Dialogue /\ srv'.pc # "session"
  BY DEF Prompts1, Dialogue
<1>4. LogsIn(x) => srv.pc \in Dialogue /\ srv'.pc = "session" /\ srv'.pc \notin Dialogue
  BY DEF LogsIn, Dialogue
<1>5. Repeats(x) => srv.pc \in Dialogue /\ srv'.pc # "session"
  BY DEF Repeats, Dialogue
<1>6. CASE Prompts1(x)
  BY <1>1, <1>2, <1>3, <1>6, DialogueAsksMore DEF x
<1>7. CASE LogsIn(x)
  BY <1>1, <1>2, <1>4, <1>7, DialogueEnds DEF x
<1>8. CASE Repeats(x)
  BY <1>1, <1>2, <1>5, <1>8, DialogueRepeats DEF x
<1>9. ~Closes
  <2>1. Closes => up' = FALSE
    BY Zenon DEF Closes
  <2> QED
    BY <2>1, Zenon
<1>10. CASE srv.pc = "session" /\ UNCHANGED <<srv, toClient, up>>
  <2>1. InSession
    BY <1>1, <1>10 DEF Identified
  <2>2. UNCHANGED <<flags, answered, username, srv, toClient>>
    BY <1>1, <1>10
  <2>3. InSession'
    BY <2>1, <2>2 DEF InSession, Only, Asking, Mode
  <2>4. srv'.pc \notin Dialogue
    BY <1>10 DEF Dialogue
  <2> QED
    BY <2>3, <2>4
<1> QED
  BY <1>1, <1>6, <1>7, <1>8, <1>9, <1>10 DEF ReadOn

LEMMA DropOne ==
  ASSUME NEW p \in Seq(Kinds), NEW k \in 1..(Len(p) - 1)
  PROVE  \E q \in Seq(Kinds) :
            /\ Len(q) = Len(p) - 1 /\ \A i \in 1..Len(q) : q[i] = IF i < k THEN p[i] ELSE p[i + 1]
            /\ \A s \in Seq(ServerMessages), j \in k..Len(p) : Asks(s, p, j) => Asks(s, q, j - 1)
<1> DEFINE q == [i \in 1..(Len(p) - 1) |-> IF i < k THEN p[i] ELSE p[i + 1]]
<1>1. Len(p) \in Nat /\ Len(p) - 1 \in Nat
  OBVIOUS
<1>2. \A i \in 1..(Len(p) - 1) : p[i] \in Kinds /\ p[i + 1] \in Kinds
  <2>1. \A i \in 1..(Len(p) - 1) : i \in 1..Len(p) /\ i + 1 \in 1..Len(p)
    BY <1>1
  <2> QED
    BY <2>1
<1>3. /\ q \in Seq(Kinds) /\ Len(q) = Len(p) - 1
      /\ \A i \in 1..(Len(p) - 1) : q[i] = IF i < k THEN p[i] ELSE p[i + 1]
  <2>1. q \in [1..(Len(p) - 1) -> Kinds]
    BY <1>2
  <2> QED
    BY <1>1, <2>1
<1> HIDE DEF q
<1>4. ASSUME NEW s \in Seq(ServerMessages), NEW j \in k..Len(p), Asks(s, p, j) PROVE Asks(s, q, j - 1)
  <2>1. /\ j \in 0..Len(p) /\ j - 1 \in 0..Len(q) /\ Len(q) - (j - 1) = Len(p) - j
    BY <1>1, <1>3
  <2>2. ASSUME NEW a \in 1..(Len(p) - j) PROVE q[(j - 1) + a] = p[j + a]
    <3>1. (j - 1) + a \in 1..(Len(p) - 1) /\ ~((j - 1) + a < k) /\ ((j - 1) + a) + 1 = j + a
      BY <1>1
    <3> QED
      BY <1>3, <3>1
  <2> QED
    BY <1>3, <1>4, <2>1, <2>2, AsksMoved
<1> QED
  BY <1>3, <1>4

(* A prompt that is handled while the dialogue lasts is what the window asks. *)
LEMMA PromptMode ==
  ASSUME PromptsIInv, up, uid = Default, srv.pc \in Dialogue, Awaiting, Unchanging,
         toClient # <<>>, toClient' = Tail(toClient), Head(toClient).what \in Prompts,
         flags' = Prompted(Head(toClient).what),
         NEW p \in Seq(Kinds), NEW n \in 0..Len(p), Ahead(p, srv.pc, srv.attempts), Asks(toClient, p, n)
  PROVE  Mode' = KindOf(Head(toClient).what)
<1> USE DEF PromptsIInv
<1> DEFINE m == Head(toClient)
<1>1. /\ toClient \in Seq(ServerMessages) /\ flags \in FlagTypes /\ flags' \in FlagTypes
      /\ m = toClient[1] /\ Len(toClient) \in Nat \ {0} /\ Len(toClient') = Len(toClient) - 1
      /\ \A i \in 1..Len(toClient') : toClient'[i] = toClient[i + 1] /\ i + 1 \in 1..Len(toClient)
      /\ toClient' \in Seq(ServerMessages)
  <2>1. toClient \in Seq(ServerMessages) /\ flags \in FlagTypes
    BY DEF TypeInv, TypeOK, FlagTypes
  <2> QED
    BY <2>1, TailIs, PromptedTypes
<1> HIDE DEF m
<1>2. CASE m.what \in {"username", "password"}
  BY <1>1, <1>2 DEF Prompted, Mode, FlagTypes, KindOf, m
<1>3. ASSUME m.what \in {"confirm", "choice"}
      PROVE  /\ ~flags'.username
             /\ m.what = "choice" => ~flags'.password /\ ~flags'.confirm
  <2>1. srv.pc = m.what
    BY <1>1, <1>3 DEF Awaiting
  <2>2. Len(p) = 1 /\ srv.attempts = 0
    BY <1>3, <2>1 DEF Ahead, One
  <2>3. n < Len(p) /\ Asks(toClient', p, n + 1)
    BY <1>1, AsksTailPrompt DEF m
  <2>4. \A i \in 1..Len(toClient') : toClient'[i].what \notin Prompts
    <3>1. n + 1 = Len(p) /\ n + 1 \in 0..Len(p)
      BY <2>2, <2>3
    <3> QED
      BY <1>1, <2>3, <3>1, AsksCount
  <2>5. \A i \in 1..Len(toClient') : toClient'[i].what \notin OfLogin /\ toClient'[i].what # "online"
    BY <1>1, <2>2 DEF Messages, Orderly, Dialogue
  <2>6. ASSUME NEW now \in BOOLEAN, NEW on, NEW off,
               on \subseteq Prompts, off \subseteq Prompts \cup OfLogin \cup {"online"}
        PROVE  Shown(now, Says(on), Says(off), toClient') <=> now
    <3>1. \A i \in 1..Len(toClient') : toClient'[i] \notin Says(on) /\ toClient'[i] \notin Says(off)
      BY <2>4, <2>5, <2>6 DEF Says
    <3> QED
      BY <3>1 DEF Shown
  <2>7. /\ {"username"} \subseteq Prompts /\ {"password"} \subseteq Prompts /\ {"confirm"} \subseteq Prompts
        /\ {"password", "choice", "online"} \subseteq Prompts \cup OfLogin \cup {"online"}
        /\ {"confirm", "authenticated", "online"} \subseteq Prompts \cup OfLogin \cup {"online"}
        /\ {"created", "online"} \subseteq Prompts \cup OfLogin \cup {"online"}
    BY DEF Prompts, OfLogin
  <2>8. /\ flags'.username \in BOOLEAN /\ flags'.password \in BOOLEAN /\ flags'.confirm \in BOOLEAN
    BY <1>1 DEF FlagTypes
  <2>9. /\ UsernameShown' <=> flags'.username
        /\ PasswordShown' <=> flags'.password
        /\ ConfirmShown' <=> flags'.confirm
    BY <2>6, <2>7, <2>8 DEF UsernameShown, PasswordShown, ConfirmShown
  <2>10. ~UsernameShown /\ (m.what = "choice" => ~PasswordShown /\ ~ConfirmShown)
    BY <1>3, <2>1 DEF Prompting
  <2> QED
    BY <2>9, <2>10 DEF Unchanging
<1>4. CASE m.what = "confirm"
  <2>1. ~flags'.username
    BY <1>3, <1>4
  <2>2. flags'.confirm
    BY <1>1, <1>4 DEF Prompted, FlagTypes, m
  <2> QED
    BY <1>4, <2>1, <2>2 DEF Mode, KindOf, m
<1>5. CASE m.what = "choice"
  <2>1. ~flags'.username /\ ~flags'.password /\ ~flags'.confirm
    BY <1>3, <1>5
  <2>2. flags'.choosing
    BY <1>1, <1>5 DEF Prompted, FlagTypes, m
  <2> QED
    BY <1>5, <2>1, <2>2 DEF Mode, KindOf, m
<1> QED
  BY <1>2, <1>4, <1>5 DEF Prompts, m

(* A message of the dialogue is handled. *)
LEMMA DialogueHandles ==
  ASSUME PromptsIInv, up, uid = Default, srv.pc \in Dialogue, InDialogue,
         toClient # <<>>, toClient' = Tail(toClient), Unchanging,
         flags' = IF Head(toClient).what \in Prompts THEN Prompted(Head(toClient).what)
                  ELSE Noted(Head(toClient)),
         answered' <=> answered /\ Head(toClient).what \notin Prompts,
         UNCHANGED <<username, toServer, srv>>
  PROVE  InDialogue'
<1> USE DEF PromptsIInv
<1> DEFINE m == Head(toClient)
           N == Len(toServer)
<1>1. PICK p \in Seq(Kinds) : Ahead(p, srv.pc, srv.attempts) /\ Owes(p)
  BY DEF InDialogue
<1>2. /\ toClient \in Seq(ServerMessages) /\ m \in ServerMessages /\ toServer \in Seq(ClientMessages)
      /\ N \in Nat /\ Len(p) \in Nat /\ srv.attempts \in Nat /\ flags \in FlagTypes
      /\ m = toClient[1] /\ 1 \in 1..Len(toClient)
      /\ Tail(toClient) \in Seq(ServerMessages)
      /\ \A i \in 1..Len(toClient') : i + 1 \in 1..Len(toClient) /\ toClient'[i] = toClient[i + 1]
  <2>1. /\ toClient \in Seq(ServerMessages) /\ toServer \in Seq(ClientMessages) /\ srv.attempts \in Nat
        /\ flags \in FlagTypes
    BY ClientAssumption DEF TypeInv, TypeOK, FlagTypes
  <2> QED
    BY <2>1, TailIs
<1>3. LastName' /\ Awaiting'
  <2>1. LastName'
    BY DEF InDialogue, LastName
  <2> QED
    BY <1>2, <2>1 DEF InDialogue, Awaiting
<1>4. N <= Len(p) /\ \A i \in 1..N : toServer[i].text \in Answers(p[i])
  BY <1>1 DEF Owes
<1>5. Asking => N < Len(p) /\ Mode = p[N + 1] /\ Asks(toClient, p, N + 1)
  BY <1>1, Zenon DEF Owes
<1>6. ~Asking => Asks(toClient, p, N)
  BY <1>1, Zenon DEF Owes
<1>7. m.what \notin OfLogin
  BY <1>2 DEF Messages, Orderly, Dialogue
<1> HIDE DEF m, N
<1>8. SUFFICES \E q \in Seq(Kinds) : Ahead(q, srv.pc, srv.attempts) /\ Owes(q)'
  BY <1>3 DEF InDialogue
<1>9. ASSUME NEW q \in Seq(Kinds), N <= Len(q), \A i \in 1..N : toServer[i].text \in Answers(q[i]),
             Asking' => N < Len(q) /\ Mode' = q[N + 1] /\ Asks(toClient', q, N + 1),
             ~Asking' => Asks(toClient', q, N)
      PROVE  Owes(q)'
  BY <1>9 DEF Owes, N
<1>10. ASSUME NEW k \in 1..(Len(p) - 1), k = N + 1
       PROVE  \E q \in Seq(Kinds) :
                /\ Ahead(q, srv.pc, srv.attempts) /\ Len(q) = Len(p) - 1
                /\ \A i \in 1..N : toServer[i].text \in Answers(q[i])
                /\ \A i \in k..Len(q) : q[i] = p[i + 1]
                /\ \A s \in Seq(ServerMessages), j \in k..Len(p) : Asks(s, p, j) => Asks(s, q, j - 1)
  <2>1. PICK q \in Seq(Kinds) :
          /\ Len(q) = Len(p) - 1 /\ \A i \in 1..Len(q) : q[i] = IF i < k THEN p[i] ELSE p[i + 1]
          /\ \A s \in Seq(ServerMessages), j \in k..Len(p) : Asks(s, p, j) => Asks(s, q, j - 1)
    BY DropOne
  <2>2. Ahead(q, srv.pc, srv.attempts)
    BY <1>1, <1>2, <2>1, AheadDrop
  <2>3. \A i \in 1..N : q[i] = p[i]
    <3>1. \A i \in 1..N : i \in 1..Len(q) /\ i < k
      BY <1>2, <1>10, <2>1
    <3> QED
      BY <2>1, <3>1
  <2>4. \A i \in k..Len(q) : q[i] = p[i + 1]
    <3>1. \A i \in k..Len(q) : i \in 1..Len(q) /\ ~(i < k)
      BY <1>2, <2>1
    <3> QED
      BY <2>1, <3>1
  <2> QED
    BY <1>4, <2>1, <2>2, <2>3, <2>4
<1>11. CASE m.what \in Prompts
  <2>1. flags' = Prompted(m.what) /\ ~answered'
    BY <1>11 DEF m
  <2>2. ASSUME NEW n \in 0..Len(p), Asks(toClient, p, n)
        PROVE  /\ n < Len(p) /\ p[n + 1] = KindOf(m.what) /\ Asks(toClient', p, n + 1)
               /\ Mode' = KindOf(m.what)
    <3>1. n < Len(p) /\ p[n + 1] = KindOf(m.what) /\ Asks(toClient', p, n + 1)
      BY <1>2, <1>11, <2>2, AsksTailPrompt DEF m
    <3>2. Mode' = KindOf(m.what)
      BY <1>1, <1>11, <2>1, <2>2, PromptMode DEF m, InDialogue
    <3> QED
      BY <3>1, <3>2
  <2>3. Mode' = KindOf(m.what) => Asking'
    <3>1. KindOf(m.what) # "text"
      BY <1>11 DEF KindOf, Prompts
    <3> QED
      BY <2>1, <3>1 DEF Asking
  <2>4. CASE ~Asking
    <3>1. N \in 0..Len(p) /\ Asks(toClient, p, N)
      BY <1>2, <1>4, <1>6, <2>4
    <3>2. /\ N < Len(p) /\ p[N + 1] = KindOf(m.what) /\ Asks(toClient', p, N + 1) /\ Mode' = KindOf(m.what)
      BY <2>2, <3>1
    <3>3. Owes(p)'
      BY <1>4, <1>9, <2>3, <3>2
    <3> QED
      BY <1>1, <3>3
  <2>5. CASE Asking
    <3>1. N + 1 \in 0..Len(p) /\ Asks(toClient, p, N + 1)
      BY <1>2, <1>5, <2>5
    <3>2. /\ N + 1 < Len(p) /\ p[(N + 1) + 1] = KindOf(m.what) /\ Asks(toClient', p, (N + 1) + 1)
          /\ Mode' = KindOf(m.what)
      BY <2>2, <3>1
    <3>3. PICK k \in 1..(Len(p) - 1) : k = N + 1
      BY <1>2, <3>2
    <3>4. PICK q \in Seq(Kinds) :
            /\ Ahead(q, srv.pc, srv.attempts) /\ Len(q) = Len(p) - 1
            /\ \A i \in 1..N : toServer[i].text \in Answers(q[i])
            /\ \A i \in k..Len(q) : q[i] = p[i + 1]
            /\ \A s \in Seq(ServerMessages), j \in k..Len(p) : Asks(s, p, j) => Asks(s, q, j - 1)
      BY <1>10, <3>3
    <3>5. /\ N < Len(q) /\ N <= Len(q) /\ N + 1 \in k..Len(q) /\ (N + 1) + 1 \in k..Len(p)
          /\ ((N + 1) + 1) - 1 = N + 1
      BY <1>2, <3>2, <3>3, <3>4
    <3>6. q[N + 1] = Mode' /\ Asks(toClient', q, N + 1)
      <4>1. toClient' \in Seq(ServerMessages)
        BY <1>2
      <4>2. Asks(toClient', q, ((N + 1) + 1) - 1)
        BY <3>2, <3>4, <3>5, <4>1
      <4> QED
        BY <3>2, <3>4, <3>5, <4>2
    <3>7. Owes(q)'
      BY <1>9, <2>3, <3>2, <3>4, <3>5, <3>6
    <3> QED
      BY <3>4, <3>7
  <2> QED
    BY <2>4, <2>5
<1>12. CASE m.what \notin Prompts /\ m.what # "online"
  <2>1. Asking' <=> Asking
    <3>1. m.what \in {"attempts", "info", "tryAgain"}
      BY <1>2, <1>7, <1>12, MessageKinds DEF Prompts, Notices, OfLogin, OfSession
    <3>2. flags' = Noted(m)
      BY <1>12 DEF m
    <3>3. Mode' = Mode
      BY <1>2, <3>1, <3>2, ModeKept
    <3> QED
      BY <1>12, <3>3 DEF Asking, m
  <2>2. Mode' = Mode
    <3>1. m.what \in {"attempts", "info", "tryAgain"}
      BY <1>2, <1>7, <1>12, MessageKinds DEF Prompts, Notices, OfLogin, OfSession
    <3>2. flags' = Noted(m)
      BY <1>12 DEF m
    <3> QED
      BY <1>2, <3>1, <3>2, ModeKept
  <2>3. \A n \in 0..Len(p) : Asks(toClient, p, n) => Asks(toClient', p, n)
    BY <1>2, <1>12, AsksTailPlain DEF m
  <2>4. Asking => N + 1 \in 0..Len(p)
    BY <1>2, <1>5
  <2>5. N \in 0..Len(p)
    BY <1>2, <1>4
  <2>6. Owes(p)'
    BY <1>4, <1>5, <1>6, <1>9, <2>1, <2>2, <2>3, <2>4, <2>5
  <2> QED
    BY <1>1, <2>6
<1>13. CASE m.what = "online"
  <2>1. ~Asking'
    <3>1. flags' = Reset(flags)
      BY <1>13 DEF Noted, Prompts, m
    <3>2. Mode' = "text"
      BY <1>2, <3>1 DEF Reset, Mode, FlagTypes
    <3> QED
      BY <3>2 DEF Asking
  <2>2. \A n \in 0..Len(p) : Asks(toClient, p, n) => Asks(toClient', p, n)
    BY <1>2, <1>13, AsksTailPlain DEF m, Prompts
  <2>3. CASE ~Asking
    <3>1. N \in 0..Len(p) /\ Asks(toClient', p, N)
      BY <1>2, <1>4, <1>6, <2>2, <2>3
    <3>2. Owes(p)'
      BY <1>4, <1>9, <2>1, <3>1
    <3> QED
      BY <1>1, <3>2
  <2>4. CASE Asking
    <3>1. N + 1 \in 0..Len(p) /\ Asks(toClient, p, N + 1)
      BY <1>2, <1>5, <2>4
    <3>2. \E i \in 1..Len(toClient) : toClient[i].what \in Prompts
      <4>1. srv.attempts # 0
        BY <1>2, <1>13 DEF Messages, Orderly
      <4>2. srv.pc \in {"username", "password"}
        BY <1>1, <4>1 DEF Ahead
      <4>3. toClient[1] \in Says({"password", "choice", "online"})
            /\ toClient[1] \in Says({"confirm", "authenticated", "online"})
        BY <1>2, <1>13 DEF Says
      <4>4. UsernameShown => \E i \in 1..Len(toClient) : toClient[i] \in Says({"username"})
        BY <1>2, <4>3 DEF UsernameShown, Shown
      <4>5. PasswordShown => \E i \in 1..Len(toClient) : toClient[i] \in Says({"password"})
        BY <1>2, <4>3 DEF PasswordShown, Shown
      <4>6. UsernameShown \/ PasswordShown
        BY <4>2 DEF Prompting
      <4> QED
        BY <4>4, <4>5, <4>6 DEF Says, Prompts
    <3>3. N + 1 < Len(p)
      BY <1>2, <3>1, <3>2, AsksCount
    <3>4. PICK k \in 1..(Len(p) - 1) : k = N + 1
      BY <1>2, <3>3
    <3>5. PICK q \in Seq(Kinds) :
            /\ Ahead(q, srv.pc, srv.attempts) /\ Len(q) = Len(p) - 1
            /\ \A i \in 1..N : toServer[i].text \in Answers(q[i])
            /\ \A s \in Seq(ServerMessages), j \in k..Len(p) : Asks(s, p, j) => Asks(s, q, j - 1)
      BY <1>10, <3>4
    <3>6. N <= Len(q) /\ N + 1 \in k..Len(p) /\ (N + 1) - 1 = N
      BY <1>2, <3>3, <3>4, <3>5
    <3>7. Asks(toClient', q, N)
      <4>1. toClient' \in Seq(ServerMessages)
        BY <1>2
      <4>2. Asks(toClient', q, (N + 1) - 1)
        BY <2>2, <3>1, <3>5, <3>6, <4>1
      <4> QED
        BY <3>6, <4>2
    <3>8. Owes(q)'
      BY <1>9, <2>1, <3>5, <3>6, <3>7
    <3> QED
      BY <3>5, <3>8
  <2> QED
    BY <2>3, <2>4
<1> QED
  BY <1>11, <1>12, <1>13

(* What a session sends does not ask for anything. *)
LEMMA SessionHandles ==
  ASSUME TypeInv, InSession, toClient # <<>>, toClient' = Tail(toClient),
         Head(toClient).what # "uid",
         \/ UNCHANGED <<flags, answered>>
         \/ /\ flags' = Noted(Head(toClient)) /\ (answered' <=> answered),
         UNCHANGED <<username, srv>>
  PROVE  InSession'
<1> DEFINE m == Head(toClient)
<1>1. /\ toClient \in Seq(ServerMessages) /\ m \in ServerMessages /\ flags \in FlagTypes
      /\ m = toClient[1] /\ Len(toClient) \in Nat \ {0} /\ Len(toClient') = Len(toClient) - 1
      /\ \A i \in 2..Len(toClient) : i - 1 \in 1..Len(toClient') /\ toClient'[i - 1] = toClient[i]
  <2>1. toClient \in Seq(ServerMessages) /\ flags \in FlagTypes
    BY DEF TypeInv, TypeOK, FlagTypes
  <2> QED
    BY <2>1, TailIs
<1>2. Only(Notices \cup {"attempts"})'
  BY <1>1, OnlyAfter DEF InSession, Only
<1>3. \E i \in 1..Len(toClient') : toClient'[i].what = "uid"
  <2>1. PICK i \in 1..Len(toClient) : toClient[i].what = "uid"
    BY DEF InSession
  <2>2. i \in 2..Len(toClient)
    BY <1>1, <2>1
  <2> QED
    BY <1>1, <2>1, <2>2
<1> HIDE DEF m
<1>4. ~Asking'
  <2>1. CASE UNCHANGED <<flags, answered>>
    BY <2>1 DEF InSession, Asking, Mode
  <2>2. CASE flags' = Noted(m) /\ (answered' <=> answered)
    <3>1. Mode = "text" => Mode' = "text"
      <4>1. CASE m.what = "online"
        <5>1. flags' = Reset(flags)
          BY <2>2, <4>1 DEF Noted
        <5> QED
          BY <1>1, <5>1 DEF Reset, Mode, FlagTypes
      <4>2. CASE m.what # "online"
        BY <1>1, <2>2, <4>2 DEF Noted, Mode, FlagTypes
      <4> QED
        BY <4>1, <4>2
    <3> QED
      BY <2>2, <3>1 DEF InSession, Asking
  <2> QED
    BY <2>1, <2>2 DEF m
<1> QED
  BY <1>2, <1>3, <1>4 DEF InSession

LEMMA IdentifiedMessage ==
  ASSUME PromptsIInv, Identified, RecvMessage
  PROVE  Identified'
<1> USE DEF PromptsIInv
<1> DEFINE m == Head(toClient)
           new == IF m.what \in Prompts THEN Prompted(m.what) ELSE Noted(m)
<1>1. CASE Stop("nullUid")
  BY <1>1 DEF Stop, Identified, InDialogue, InSession, LastName, Awaiting, Owes, Asking, Mode, Only,
              cl, net, bounds
<1>2. CASE toClient' = Tail(toClient) /\ Handle(m)
  <2>1. /\ toClient # <<>> /\ toClient \in Seq(ServerMessages) /\ m \in ServerMessages /\ m.what # "ping"
        /\ m = toClient[1] /\ 1 \in 1..Len(toClient) /\ flags \in FlagTypes /\ srv.name \in Texts \cup {NULL}
        /\ answered \in BOOLEAN
    BY <1>2, TailIs DEF RecvMessage, TypeInv, TypeOK, FlagTypes
  <2>2. /\ UNCHANGED <<username, up, toServer, srv, texts>>
        /\ IF Dropped(m) THEN UNCHANGED <<flags, uid, answered>>
           ELSE /\ flags' = new /\ answered' = (answered /\ m.what \notin Prompts)
                /\ uid' = IF m.what = "uid" /\ m.arg = username /\ uid = Default THEN m.arg ELSE uid
    BY <1>2 DEF Handle, bounds
  <2>3. new \in FlagTypes /\ (m.what \in OfSession => new = flags)
    BY <2>1, HandledFlags
  <2> SUFFICES ASSUME up', uid' = Default, texts' = 0
               PROVE  /\ srv'.pc \in Dialogue => InDialogue'
                      /\ srv'.pc = "session" => InSession'
    BY DEF Identified
  <2> HIDE DEF m, new
  <2>4. up /\ uid = Default /\ texts = 0 /\ srv' = srv
    BY <2>2
  <2>5. Dropped(m) => m.what \in OfSession
    BY <2>4 DEF Dropped, Recipient, OfSession
  <2>6. CASE srv.pc \in Dialogue
    <3>1. m.what \notin OfSession
      <4>1. m.what \notin OfLogin
        BY <2>1, <2>6 DEF Messages, Orderly, Dialogue
      <4> QED
        BY <4>1 DEF OfLogin
    <3>2. flags' = new /\ (answered' <=> answered /\ m.what \notin Prompts)
      BY <2>2, <2>5, <3>1
    <3>3. Unchanging
      BY <1>2, <2>1, <2>3, <3>2, HandledShown DEF m, new
    <3>4. InDialogue
      BY <2>4, <2>6 DEF Identified
    <3>5. InDialogue'
      BY <1>2, <2>1, <2>2, <2>4, <2>6, <3>2, <3>3, <3>4, DialogueHandles DEF m, new
    <3> QED
      BY <2>4, <2>6, <3>5 DEF Dialogue
  <2>7. CASE srv.pc = "session"
    <3>1. InSession
      BY <2>4, <2>7 DEF Identified
    <3>2. m.what # "uid"
      <4>1. m.what = "uid" => m.arg = srv.name /\ ~Dropped(m)
        BY <2>1, <2>4 DEF Messages, Orderly, Dropped, Recipient
      <4>2. srv.name # Default
        BY <2>1, ClientAssumption DEF Texts, Passwords, Choices, Default
      <4> QED
        BY <2>2, <2>4, <3>1, <4>1, <4>2 DEF InSession
    <3>3. m.what \notin Prompts
      BY <2>1, <3>1 DEF InSession, Only, OnlyIn, Notices, Prompts
    <3>4. \/ UNCHANGED <<flags, answered>>
          \/ flags' = Noted(m) /\ (answered' <=> answered)
      BY <2>2, <3>3 DEF new
    <3>5. InSession'
      BY <1>2, <2>1, <2>2, <3>1, <3>2, <3>4, SessionHandles DEF m
    <3> QED
      BY <2>4, <2>7, <3>5 DEF Dialogue
  <2> QED
    BY <2>4, <2>6, <2>7
<1> QED
  BY <1>1, <1>2 DEF RecvMessage

(* The user answers what is asked. *)
LEMMA IdentifiedEnter ==
  ASSUME PromptsIInv, Identified, NEW x \in Texts, Enter(x)
  PROVE  Identified'
<1> USE DEF PromptsIInv
<1>1. CASE UNCHANGED <<cl, net, answered, bounds>>
  BY <1>1 DEF Identified, InDialogue, InSession, LastName, Awaiting, Owes, Asking, Mode, Only,
              cl, net, bounds
<1>2. CASE /\ x \in Typed /\ Remember(x) /\ answered' = TRUE
           /\ toServer' = IF up THEN Append(toServer, [type |-> TypeOf, text |-> x]) ELSE toServer
           /\ texts' = IF flags.authenticated \/ Mode = "text" \/ answered THEN texts + 1 ELSE texts
           /\ UNCHANGED <<flags, uid, up, toClient, srv>>
  <2> SUFFICES ASSUME up, uid = Default, texts' = 0
               PROVE  /\ srv.pc \in Dialogue => InDialogue'
                      /\ srv.pc = "session" => InSession'
    BY <1>2 DEF Identified
  <2>1. texts = 0 /\ ~flags.authenticated /\ Mode # "text" /\ ~answered
    BY <1>2 DEF TypeInv, TypeOK
  <2>2. Asking
    BY <2>1 DEF Asking
  <2>3. srv.pc # "session"
    BY <2>1, <2>2 DEF Identified, InSession
  <2>4. CASE srv.pc \in Dialogue
    <3>1. InDialogue
      BY <2>1, <2>4 DEF Identified
    <3>2. PICK p \in Seq(Kinds) : Ahead(p, srv.pc, srv.attempts) /\ Owes(p)
      BY <3>1 DEF InDialogue
    <3> DEFINE N == Len(toServer)
               c == [type |-> TypeOf, text |-> x]
    <3>3. /\ N \in Nat /\ Len(toServer') = N + 1 /\ toServer'[N + 1] = c /\ c.text = x
          /\ \A i \in 1..N : toServer'[i] = toServer[i]
      <4>1. c \in ClientMessages
        BY DEF ClientMessages, TypeOf
      <4>2. toServer \in Seq(ClientMessages) /\ toServer' = Append(toServer, c)
        BY <1>2 DEF TypeInv, TypeOK
      <4> QED
        BY <4>1, <4>2, AppendIs
    <3> HIDE DEF N, c
    <3>4. Mode \in {"username", "password", "choice"} /\ x \in Answers(Mode)
      BY <1>2, <2>1 DEF Typed, Mode, Answers
    <3>5. /\ N < Len(p) /\ Mode = p[N + 1] /\ Asks(toClient, p, N + 1)
          /\ \A i \in 1..N : toServer[i].text \in Answers(p[i])
      BY <2>2, <3>2 DEF Owes, N
    <3>6. ~Asking'
      <4>1. answered'
        BY <1>2, Zenon
      <4> QED
        BY <4>1, Zenon DEF Asking
    <3>7. Owes(p)'
      <4>1. N + 1 <= Len(p) /\ \A i \in 1..(N + 1) : i \in 1..N \/ i = N + 1
        BY <3>3, <3>5
      <4>2. \A i \in 1..(N + 1) : toServer'[i].text \in Answers(p[i])
        BY <3>3, <3>4, <3>5, <4>1
      <4>3. Asks(toClient', p, N + 1)
        BY <1>2, <3>5
      <4> QED
        BY <3>3, <3>6, <4>1, <4>2, <4>3, Zenon DEF Owes
    <3>8. LastName'
      <4>1. LastName
        BY <3>1 DEF InDialogue
      <4>2. CASE Mode = "username"
        <5>1. x \in Users /\ username' = x
          BY <1>2, <3>4, <4>2, AnswersDiffer DEF Remember
        <5>2. \A i \in 1..(N + 1) : i = N + 1 \/ (N + 1 > i /\ N + 1 \in 1..(N + 1))
          BY <3>3
        <5>3. N + 1 \in 1..Len(toServer') /\ toServer'[N + 1].text \in Users
          BY <3>3, <5>1
        <5> QED
          BY <3>3, <5>1, <5>2, <5>3 DEF LastName
      <4>3. CASE Mode # "username"
        <5>1. x \notin Users /\ username' = username
          BY <1>2, <3>4, <4>3, AnswersDiffer DEF Remember
        <5>2. \A i \in 1..(N + 1) : i = N + 1 \/ i \in 1..N
          BY <3>3
        <5>3. \A i \in 1..N : i \in 1..(N + 1)
          BY <3>3
        <5>4. ASSUME NEW i \in 1..(N + 1), toServer'[i].text \in Users,
                     \A j \in 1..(N + 1) : j > i => toServer'[j].text \notin Users
              PROVE  toServer'[i].text = username'
          <6>1. i \in 1..N
            BY <3>3, <5>1, <5>2, <5>4
          <6>2. \A j \in 1..N : j > i => toServer[j].text \notin Users
            BY <3>3, <5>3, <5>4
          <6> QED
            BY <3>3, <4>1, <5>1, <5>4, <6>1, <6>2 DEF LastName, N
        <5>5. ASSUME srv.pc \in Dialogue \ {"username"}, \A i \in 1..(N + 1) : toServer'[i].text \notin Users
              PROVE  username' = srv.name
          <6>1. \A j \in 1..N : toServer[j].text \notin Users
            BY <3>3, <5>3, <5>5
          <6> QED
            BY <4>1, <5>1, <5>5, <6>1 DEF LastName, N
        <5>6. srv' = srv /\ Len(toServer') = N + 1
          BY <1>2, <3>3
        <5> QED
          BY <5>4, <5>5, <5>6 DEF LastName
      <4> QED
        BY <4>2, <4>3
    <3>9. Awaiting'
      BY <1>2, <3>1 DEF InDialogue, Awaiting
    <3>10. Ahead(p, srv'.pc, srv'.attempts)
      BY <1>2, <3>2
    <3> QED
      BY <2>3, <3>7, <3>8, <3>9, <3>10 DEF InDialogue
  <2> QED
    BY <2>3, <2>4
<1>3. CASE Stop("badSsl") \/ Stop("uninitialisedMessage")
  BY <1>1, <1>3 DEF Stop
<1>4. WriteFails => toServer' = IF up THEN Append(toServer, [type |-> TypeOf, text |-> x]) ELSE toServer
  BY DEF WriteFails
<1>5. CASE /\ x \in Typed /\ Remember(x) /\ answered' = TRUE /\ (Written(TypeOf, x) \/ WriteFails)
           /\ texts' = IF flags.authenticated \/ Mode = "text" \/ answered THEN texts + 1 ELSE texts
           /\ UNCHANGED <<flags, uid, up, toClient, srv>>
  BY <1>2, <1>4, <1>5 DEF Written
<1> QED
  BY <1>3, <1>5 DEF Enter

(* A new connection: one thing is asked, the name. *)
LEMMA IdentifiedConnect ==
  ASSUME PromptsIInv, ReconConnect
  PROVE  Identified'
<1> USE DEF PromptsIInv
<1>1. /\ recon = "connect" /\ toServer' = <<>> /\ UNCHANGED <<flags, answered>>
      /\ srv' = [pc |-> "username", attempts |-> 0, name |-> NULL, first |-> NULL]
      /\ toClient' = <<Left(MaxAttempts), Msg("info"), Msg("username")>>
  BY Rounds DEF ReconConnect, cl
<1>2. ~Asking'
  BY <1>1 DEF Threads, Clean, Asking, Mode
<1>3. LastName'
  BY <1>1 DEF LastName
<1>4. /\ Left(MaxAttempts).what = "attempts" /\ Msg("info").what = "info" /\ Msg("username").what = "username"
      /\ "attempts" \notin Prompts /\ "info" \notin Prompts /\ "username" \in Prompts
      /\ KindOf("username") = "username" /\ "username" \in Kinds
  BY DEF Left, Msg, Prompts, KindOf, Kinds
<1> DEFINE p == <<"username">>
           f == [a \in 1..1 |-> 3]
<1>5. Len(toClient') = 3 /\ toClient'[1].what = "attempts" /\ toClient'[2].what = "info"
      /\ toClient'[3].what = "username" /\ \A i \in 1..3 : i = 1 \/ i = 2 \/ i = 3
  BY <1>1, <1>4
<1>6. p \in Seq(Kinds) /\ Len(p) = 1 /\ p[1] = "username" /\ 0 + 1 = 1
  BY <1>4
<1>7. f \in [1..1 -> 1..3] /\ f[1] = 3 /\ \A a \in 1..1 : a = 1
  OBVIOUS
<1> HIDE DEF p, f
<1>8. Asks(toClient', p, 0)
  <2>1. f \in [(0 + 1)..Len(p) -> 1..Len(toClient')] /\ \A a, b \in 1..1 : ~(a < b)
    BY <1>5, <1>6, <1>7
  <2>2. \A i \in 1..3 : toClient'[i].what \in Prompts <=> \E a \in 1..1 : f[a] = i
    BY <1>4, <1>5, <1>7
  <2>3. \A a \in 1..1 : KindOf(toClient'[f[a]].what) = p[a]
    BY <1>4, <1>5, <1>6, <1>7
  <2>4. Places(toClient', p, 0, f)
    BY <1>5, <1>6, <2>1, <2>2, <2>3 DEF Places
  <2> QED
    BY <2>4, AsksIs
<1>9. PICK q \in Seq(Kinds) : q = p
  BY <1>6
<1>10. Owes(q)'
  <2>1. Len(toServer') = 0
    BY <1>1
  <2> QED
    BY <1>2, <1>6, <1>8, <1>9, <2>1 DEF Owes
<1>11. Ahead(q, srv'.pc, srv'.attempts)
  BY <1>1, <1>6, <1>9 DEF Ahead, One
<1>12. Awaiting'
  BY <1>5 DEF Awaiting
<1>13. srv'.pc # "session"
  BY <1>1
<1> QED
  BY <1>3, <1>10, <1>11, <1>12, <1>13 DEF Identified, InDialogue

LEMMA IdentifiedStep ==
  ASSUME MaxAttempts <= 6, PromptsIInv, Threads', Identified, [Next]_vars
  PROVE  Identified'
<1> USE DEF PromptsIInv
<1>1. CASE ~up' \/ uid' # Default
  BY <1>1 DEF Identified
<1>2. CASE ServerReads
  BY <1>2, IdentifiedRead
<1>3. ASSUME NEW what \in {"ping", "chat"}, ServerSends(what) PROVE Identified'
  <2> DEFINE m == MsgFor(what, srv.name)
  <2>1. m \in ServerMessages /\ m.what = what
    <3>1. srv.name \in Texts \cup {NULL}
      BY DEF TypeInv, TypeOK
    <3> QED
      BY <3>1, MessageTypes DEF Notices
  <2>2. /\ toClient \in Seq(ServerMessages) /\ toClient' = Append(toClient, m) /\ srv.pc = "session"
        /\ UNCHANGED <<flags, uid, username, up, srv, answered, texts>>
    BY <1>3, <2>1, SendOne DEF ServerSends, Send, TypeInv, TypeOK, cl
  <2> HIDE DEF m
  <2>3. ASSUME InSession PROVE InSession'
    <3>1. Only(Notices \cup {"attempts"})'
      <4>1. what \in Notices \cup {"attempts"}
        BY DEF Notices
      <4> QED
        BY <2>1, <2>2, <2>3, <4>1, OnlyAfter DEF InSession, Only
    <3>2. \E i \in 1..Len(toClient') : toClient'[i].what = "uid"
      <4>1. PICK i \in 1..Len(toClient) : toClient[i].what = "uid"
        BY <2>3 DEF InSession
      <4>2. i \in 1..Len(toClient') /\ toClient'[i] = toClient[i]
        BY <2>1, <2>2, AppendIs
      <4> QED
        BY <4>1, <4>2
    <3> QED
      BY <2>2, <2>3, <3>1, <3>2 DEF InSession, Asking, Mode
  <2> QED
    BY <2>2, <2>3 DEF Identified, Dialogue
<1>4. CASE /\ UNCHANGED <<uid, username, up, toClient, toServer, srv, answered, texts>>
           /\ Mode' = Mode
  BY <1>4 DEF Identified, InDialogue, InSession, LastName, Awaiting, Owes, Asking, Only
<1>5. CASE RecvStart \/ RecvFails \/ PingFlags \/ UNCHANGED vars
  BY <1>4, <1>5 DEF RecvStart, RecvFails, PingFlags, vars, cl, net, bounds, Mode
<1>6. CASE RecvMessage
  BY <1>6, IdentifiedMessage
<1>7. CASE RecvPing
  <2>1. /\ toClient \in Seq(ServerMessages) /\ toClient # <<>> /\ Head(toClient).what = "ping"
        /\ toClient' = Tail(toClient)
        /\ UNCHANGED <<flags, uid, username, up, srv, answered, texts>>
    BY <1>7 DEF RecvPing, TypeInv, TypeOK, cl, bounds
  <2>2. srv.pc \notin Dialogue
    <3>1. toClient[1].what \in OfLogin /\ 1 \in 1..Len(toClient)
      BY <2>1, TailIs DEF OfLogin, OfSession
    <3> QED
      BY <3>1 DEF Messages, Orderly, Dialogue
  <2>3. InSession => InSession'
    BY <2>1, SessionHandles
  <2> QED
    BY <2>1, <2>2, <2>3 DEF Identified
<1>8. CASE ReconBegin \/ Lose \/ PingFails \/ (\E freed \in BOOLEAN : ReconFails(freed))
  <2>1. CASE ReconBegin
    BY <1>1, <2>1 DEF ReconBegin, Threads
  <2>2. CASE Lose
    <3>1. up' = FALSE
      BY <2>2, Zenon DEF Lose
    <3>2. ~up'
      BY <3>1, Zenon
    <3> QED
      BY <1>1, <3>2
  <2>3. CASE PingFails \/ (\E freed \in BOOLEAN : ReconFails(freed))
    BY <1>1, <2>3 DEF PingFails, ReconFails, Threads, net
  <2> QED
    BY <1>8, <2>1, <2>2, <2>3
<1>9. CASE ReconConnect
  BY <1>9, IdentifiedConnect
<1>10. CASE ReconDone
  <2>1. /\ UNCHANGED <<uid, username, up, toClient, toServer, srv, answered, texts>>
        /\ flags'.username = flags.username /\ flags'.password = flags.password
        /\ flags'.confirm = flags.confirm /\ flags'.choosing = flags.choosing
    BY <1>10 DEF ReconDone, TypeInv, TypeOK, net, bounds
  <2> QED
    BY <1>4, <2>1 DEF Mode
<1>11. ASSUME NEW x \in Texts, Enter(x) PROVE Identified'
  BY <1>11, IdentifiedEnter
<1> QED
  BY <1>2, <1>3, <1>5, <1>6, <1>7, <1>8, <1>9, <1>10, <1>11 DEF Next, Server, Receive, Reconnect, Ping

LEMMA SessionInvariant ==
  ASSUME MaxAttempts <= 6
  PROVE  Spec => []SessionIInv
<1>1. Init => SessionIInv
  <2>1. Init => Known /\ Identified
    BY DEF Init, Known, Identified
  <2> QED
    BY <2>1, TypeInitial, MessagesInitial, ThreadsInitial, PromptingInitial DEF SessionIInv, PromptsIInv
<1>2. SessionIInv /\ [Next]_vars => SessionIInv'
  <2> SUFFICES ASSUME SessionIInv, [Next]_vars PROVE SessionIInv'
    OBVIOUS
  <2>1. PromptsIInv' /\ Threads'
    BY TypeStep, MessagesStep, ThreadsStep, PromptingStep DEF SessionIInv, PromptsIInv
  <2> QED
    BY <2>1, KnownStep, IdentifiedStep DEF SessionIInv
<1> QED
  BY <1>1, <1>2, PTL DEF Spec

(* A dialogue that has ended in a session: whatever was lost before, in      *)
(* whatever order the threads ran and however far the user was ahead of the  *)
(* server, the client knows that it is logged in, and as the user the server *)
(* has logged in (client_msg_handler.c:50, 66-75, 101-173), as long as only  *)
(* what was asked for was typed and USER_LOGIN_ATTEMPTS, 3 in the code, is   *)
(* at most 6.                                                                *)
THEOREM SessionIsTheUsers ==
  ASSUME MaxAttempts <= 6
  PROVE  Spec => []SessionAgrees
<1>1. SessionIInv => SessionAgrees
  <2> SUFFICES ASSUME SessionIInv, Quiet, srv.pc = "session", texts = 0
               PROVE  /\ flags.authenticated /\ uid = srv.name
                      /\ ~flags.username /\ ~flags.password
    BY DEF SessionAgrees
  <2>1. up /\ toClient = <<>> /\ Known /\ Identified
    BY DEF Quiet, SessionIInv
  <2>2. uid # Default
    <3>1. Len(toClient) = 0
      BY <2>1
    <3> QED
      BY <2>1, <3>1 DEF Identified, InSession
  <2> QED
    BY <2>1, <2>2 DEF Known
<1> QED
  BY <1>1, SessionInvariant, PTL
=============================================================================
