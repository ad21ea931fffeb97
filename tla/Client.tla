-------------------------------- MODULE Client --------------------------------
(***************************************************************************)
(* The client program and the server's end of its login dialogue, joined   *)
(* by the two directions of a TLS connection.                              *)
(*                                                                         *)
(* The client is four threads that share cl, cl_state and reconnect_flag   *)
(* without a lock: receive_messages (which calls handle_message),          *)
(* attempt_reconnection, handle_server_ping and the window, where Enter    *)
(* sends what was typed.  The server's end is user_auth and what a logged  *)
(* in client is sent afterwards; whether a user is online elsewhere, and   *)
(* whether a registration is overtaken, is left open.                      *)
(*                                                                         *)
(* Messages that only print (toasts, "invalid password", ...) and pings of *)
(* the client, whose answer is only logged, are left out.  Where the code  *)
(* reaches undefined behaviour the model stops with `fault` set.           *)
(***************************************************************************)
EXTENDS Integers, Sequences

CONSTANTS Users,        \* usernames; also their uids
          Accounts,     \* users with an account, whose password is "good"
          NULL,
          MaxAttempts,  \* USER_LOGIN_ATTEMPTS
          Patient,      \* does the user answer each prompt once, and nothing else?
          MaxLosses,    \* bound: connections that break
          MaxConnects,  \* bound: connections made; a third could leave the second one open
          MaxTexts,     \* bound: lines typed where no prompt is shown
          MaxSends      \* bound: messages to the client once it is logged in

Default == "client"     \* CLIENT_DEFAULT_NAME
Passwords == {"good", "bad"}
Choices == {"y", "n", "other"}

ASSUME ClientAssumption ==
    /\ Accounts \subseteq Users
    /\ Users \cap (Passwords \cup Choices \cup {"hello", Default}) = {}
    /\ NULL \notin Users \cup Passwords \cup Choices \cup {"hello", Default}
    /\ MaxAttempts \in Nat \ {0} /\ Patient \in BOOLEAN
    /\ MaxLosses \in Nat /\ MaxConnects \in 0..2 /\ MaxTexts \in Nat /\ MaxSends \in Nat

VARIABLES
    flags,      \* cl_state
    uid,        \* cl.uid: NULL, Default or a user's
    username,   \* cl.username
    ssl,        \* cl.ssl: "null", "valid" or "freed"
    reconnect,  \* reconnect_flag
    recv,       \* receive_messages: next step, and the connection it reads
    recon,      \* attempt_reconnection: next step
    ping,       \* handle_server_ping: next step
    up,         \* is the connection alive?
    toClient, toServer,  \* what is on its way
    srv,        \* user_auth at the other end: next step, attempts, name, first password
    answered,   \* has the user answered the last prompt?
    losses, connects, texts, sends,  \* how often the bounded events have happened
    fault       \* the undefined behaviour the client has run into, or "none"

cl == <<flags, uid, username>>
threads == <<recv, recon, ping>>
net == <<up, toClient, toServer, srv>>
bounds == <<losses, connects, texts, sends>>
vars == <<cl, ssl, reconnect, threads, net, answered, bounds, fault>>

Prompts == {"username", "password", "confirm", "choice"}
Texts == Users \cup Passwords \cup Choices \cup {"hello"}
Notices == {"info", "tryAgain", "online", "authenticated", "created", "ping", "uid", "chat"}
ServerMessages == [what : Prompts \cup Notices, arg : Texts \cup {NULL}]
                     \cup [what : {"attempts"}, arg : 1..MaxAttempts]
ClientMessages == [type : {"auth", "choice", "text", "ack", "ping"}, text : Texts \cup {NULL}]

TypeOK ==
    /\ flags \in [username : BOOLEAN, password : BOOLEAN, confirm : BOOLEAN, choosing : BOOLEAN,
                  connected : BOOLEAN, authenticated : BOOLEAN, canRegister : BOOLEAN,
                  attempts : 0..MaxAttempts]
    /\ uid \in Texts \cup {Default, NULL} /\ username \in Texts \cup {Default}
    /\ ssl \in {"null", "valid", "freed"}
    /\ reconnect \in BOOLEAN /\ up \in BOOLEAN /\ answered \in BOOLEAN
    /\ recv \in [pc : {"top", "read", "ended"}, current : BOOLEAN]
    /\ recon \in {"top", "connect", "connected"} /\ ping \in {"top", "failed"}
    /\ toClient \in Seq(ServerMessages) /\ toServer \in Seq(ClientMessages)
    /\ srv \in [pc : {"none", "username", "choice", "newPassword", "confirm", "password",
                      "session", "closed"},
                attempts : 0..MaxAttempts, name : Texts \cup {NULL}, first : Texts \cup {NULL}]
    /\ losses \in 0..MaxLosses /\ connects \in 0..MaxConnects
    /\ texts \in 0..MaxTexts /\ sends \in 0..MaxSends
    /\ fault \in {"none", "nullUid", "badSsl", "uninitialisedMessage"}

Reset(f) == [f EXCEPT !.username = FALSE, !.password = FALSE, !.confirm = FALSE,
                      !.choosing = FALSE, !.authenticated = FALSE, !.canRegister = FALSE,
                      !.attempts = 0]

NoFlags == [username |-> FALSE, password |-> FALSE, confirm |-> FALSE, choosing |-> FALSE,
            connected |-> FALSE, authenticated |-> FALSE, canRegister |-> FALSE, attempts |-> 0]

(* cl_state's attempts start at -1, which reset_state sets to 0 before any use. *)
Init ==
    /\ flags = NoFlags /\ uid = Default /\ username = Default /\ ssl = "null" /\ reconnect = FALSE
    /\ recv = [pc |-> "top", current |-> FALSE] /\ recon = "top" /\ ping = "top"
    /\ up = FALSE /\ toClient = <<>> /\ toServer = <<>>
    /\ srv = [pc |-> "none", attempts |-> 0, name |-> NULL, first |-> NULL]
    /\ answered = FALSE
    /\ losses = 0 /\ connects = 0 /\ texts = 0 /\ sends = 0
    /\ fault = "none"

Alive == fault = "none"

Stop(what) == /\ fault' = what
              /\ UNCHANGED <<cl, ssl, reconnect, threads, net, answered, bounds>>

-----------------------------------------------------------------------------
(* The server's end of the dialogue. *)
Msg(what) == [what |-> what, arg |-> NULL]
MsgFor(what, u) == [what |-> what, arg |-> u]

(* Mutant: the attempts already made are announced, not those left. *)
Round_Made(a) ==
    <<[what |-> "attempts", arg |-> a + 1]>>
        \o (IF a = 0 THEN <<Msg("info")>> ELSE <<>>) \o <<Msg("username")>>

(* What user_auth sends at the head of its loop. *)
Round(a) ==
    <<[what |-> "attempts", arg |-> MaxAttempts - a]>>
        \o (IF a = 0 THEN <<Msg("info")>> ELSE <<>>) \o <<Msg("username")>>

Send(msgs) == toClient' = toClient \o msgs

(* Mutant: one attempt too many. *)
AnotherAttempt_OneMore(notice, again) ==
    LET a == srv.attempts + 1 IN
    /\ srv' = [srv EXCEPT !.attempts = a, !.pc = IF a > MaxAttempts THEN "closed" ELSE "username"]
    /\ up' = (a <= MaxAttempts)
    /\ Send(notice \o (IF a <= MaxAttempts THEN again \o Round(a) ELSE <<>>))

(* One attempt less: after the notice another round, or the end.  The        *)
(* messages `again` are sent only if there is another round.                 *)
AnotherAttempt(notice, again) ==
    LET a == srv.attempts + 1 IN
    /\ srv' = [srv EXCEPT !.attempts = a, !.pc = IF a = MaxAttempts THEN "closed" ELSE "username"]
    /\ up' = (a < MaxAttempts)
    /\ Send(notice \o (IF a < MaxAttempts THEN again \o Round(a) ELSE <<>>))

Await(pc, prompt) ==
    srv' = [srv EXCEPT !.pc = pc] /\ Send(<<Msg(prompt)>>) /\ UNCHANGED up

Hangup == srv' = [srv EXCEPT !.pc = "closed"] /\ up' = FALSE /\ UNCHANGED toClient

LogIn(notice) ==
    /\ srv' = [srv EXCEPT !.pc = "session"]
    /\ Send(<<Msg(notice), MsgFor("uid", srv.name)>>)
    /\ UNCHANGED up

TakeUsername(x) ==
    /\ srv.pc = "username"
    /\ \/ /\ x \notin Accounts /\ srv.attempts = 0
          /\ srv' = [srv EXCEPT !.pc = "choice", !.name = x]
          /\ Send(<<Msg("choice")>>) /\ UNCHANGED up
       \/ /\ x \notin Accounts /\ srv.attempts # 0
          /\ AnotherAttempt(<<>>, <<Msg("tryAgain")>>)
       \/ x \in Accounts /\ AnotherAttempt(<<Msg("online")>>, <<>>)   \* online elsewhere
       \/ /\ x \in Accounts
          /\ srv' = [srv EXCEPT !.pc = "password", !.name = x]
          /\ Send(<<Msg("password")>>) /\ UNCHANGED up

TakeChoice(x) ==
    /\ srv.pc = "choice"
    /\ CASE x = "y" -> Await("newPassword", "password")
         [] x = "n" -> AnotherAttempt(<<>>, <<>>)
         [] OTHER   -> Hangup

(* The name is free, or somebody else has registered it meanwhile. *)
TakeNewPassword(x) ==
    \/ /\ srv.pc = "newPassword"
       /\ srv' = [srv EXCEPT !.pc = "confirm", !.first = x]
       /\ Send(<<Msg("confirm")>>) /\ UNCHANGED up
    \/ /\ srv.pc = "confirm"
       /\ IF x = srv.first THEN LogIn("created") \/ Hangup
          ELSE AnotherAttempt(<<Msg("tryAgain")>>, <<>>)

(* After a wrong password the client is asked for the password, and then the *)
(* next round asks it for the username.                                      *)
TakePassword(x) ==
    /\ srv.pc = "password"
    /\ IF x = "good" THEN LogIn("authenticated")
       ELSE AnotherAttempt(<<>>, <<Msg("password"), Msg("tryAgain")>>)

ServerReads ==
    /\ Alive /\ up /\ toServer # <<>>
    /\ LET x == Head(toServer).text IN
       \/ TakeUsername(x) \/ TakeChoice(x) \/ TakeNewPassword(x) \/ TakePassword(x)
       \/ srv.pc = "session" /\ UNCHANGED <<srv, toClient, up>>
    /\ toServer' = Tail(toServer)
    /\ UNCHANGED <<cl, ssl, reconnect, threads, answered, bounds, fault>>

(* The router writes to a session: pings, and messages for the user's uid. *)
ServerSends(what) ==
    /\ Alive /\ up /\ srv.pc = "session" /\ sends < MaxSends
    /\ sends' = sends + 1
    /\ Send(<<MsgFor(what, srv.name)>>)
    /\ UNCHANGED <<cl, ssl, reconnect, threads, up, toServer, srv, answered, losses, connects,
                   texts, fault>>

(* The connection breaks; what has arrived at the client can still be read. *)
Lose ==
    /\ Alive /\ up /\ losses < MaxLosses
    /\ up' = FALSE /\ losses' = losses + 1
    /\ srv' = [srv EXCEPT !.pc = "closed"]
    /\ toServer' = <<>>
    /\ UNCHANGED <<cl, ssl, reconnect, threads, toClient, answered, connects, texts, sends, fault>>

-----------------------------------------------------------------------------
(* receive_messages *)
RecvStart ==
    /\ Alive /\ recv.pc = "top"
    /\ ~reconnect /\ flags.connected /\ uid # NULL
    /\ recv' = [pc |-> "read", current |-> TRUE]
    /\ UNCHANGED <<cl, ssl, reconnect, recon, ping, net, answered, bounds, fault>>

(* SSL_read fails, perhaps only after another thread has reconnected. *)
RecvFails ==
    /\ Alive /\ recv.pc = "read" /\ (~up \/ ~recv.current)
    /\ reconnect' = TRUE
    /\ recv' = [pc |-> "top", current |-> FALSE]
    /\ UNCHANGED <<cl, ssl, recon, ping, net, answered, bounds, fault>>

(* Mutant: the username prompt is still shown when the password is asked for. *)
Prompted_UsernameStays(what) ==
    CASE what = "username" -> [flags EXCEPT !.username = TRUE]
      [] what = "password" -> [flags EXCEPT !.password = TRUE]
      [] what = "confirm"  -> [flags EXCEPT !.password = FALSE, !.confirm = TRUE]
      [] what = "choice"   -> [flags EXCEPT !.username = FALSE, !.choosing = TRUE]

(* handle_message's prompts *)
Prompted(what) ==
    CASE what = "username" -> [flags EXCEPT !.username = TRUE]
      [] what = "password" -> [flags EXCEPT !.username = FALSE, !.password = TRUE]
      [] what = "confirm"  -> [flags EXCEPT !.password = FALSE, !.confirm = TRUE]
      [] what = "choice"   -> [flags EXCEPT !.username = FALSE, !.choosing = TRUE]

(* ... and what else it makes of a message *)
Noted(m) ==
    CASE m.what = "attempts"      -> [flags EXCEPT !.attempts = m.arg]
      [] m.what = "info"          -> [flags EXCEPT !.canRegister = TRUE]
      [] m.what = "tryAgain"      -> [flags EXCEPT !.canRegister = FALSE]
      [] m.what = "online"        -> Reset(flags)
      [] m.what = "authenticated" -> [flags EXCEPT !.password = FALSE, !.authenticated = TRUE]
      [] m.what = "created"       -> [flags EXCEPT !.confirm = FALSE, !.authenticated = TRUE]
      [] OTHER                    -> flags

(* Dialogue messages are addressed to Default, the router's to a uid. *)
Recipient(m) == IF m.what = "chat" THEN m.arg ELSE Default

Dropped(m) == \/ ~flags.authenticated /\ uid # Default
              \/ flags.authenticated /\ Recipient(m) # uid /\ m.what # "uid"

(* handle_message: what a message for this client does *)
Handle(m) ==
    /\ IF Dropped(m) THEN UNCHANGED <<flags, uid, answered>>
       ELSE /\ flags' = IF m.what \in Prompts THEN Prompted(m.what) ELSE Noted(m)
            /\ uid' = IF m.what = "uid" /\ m.arg = username /\ uid = Default THEN m.arg ELSE uid
            /\ answered' = (answered /\ m.what \notin Prompts)
    /\ recv' = [pc |-> "top", current |-> FALSE]
    /\ UNCHANGED <<username, ssl, reconnect, recon, ping, up, toServer, srv, bounds, fault>>

RecvMessage ==
    /\ Alive /\ recv.pc = "read" /\ recv.current
    /\ toClient # <<>> /\ Head(toClient).what # "ping"
    /\ IF uid = NULL THEN Stop("nullUid")
       ELSE toClient' = Tail(toClient) /\ Handle(Head(toClient))

(* send_message succeeds; on a broken connection what it wrote is lost. *)
Written(type, x) ==
    /\ toServer' = IF up THEN Append(toServer, [type |-> type, text |-> x]) ELSE toServer
    /\ UNCHANGED reconnect

(* send_message fails, which it may do on a broken connection. *)
WriteFails == ~up /\ reconnect' = TRUE /\ UNCHANGED toServer

(* A ping is answered, or echoed if there is no uid to sign an answer with;  *)
(* if that fails the receiving thread ends for good.                         *)
RecvPing ==
    /\ Alive /\ recv.pc = "read" /\ recv.current
    /\ toClient # <<>> /\ Head(toClient).what = "ping"
    /\ toClient' = Tail(toClient)
    /\ \/ Written(IF uid = NULL THEN "ping" ELSE "ack", NULL) /\ recv' = [pc |-> "top", current |-> FALSE]
       \/ WriteFails /\ recv' = [pc |-> "ended", current |-> FALSE]
    /\ UNCHANGED <<cl, ssl, recon, ping, up, srv, answered, bounds, fault>>

-----------------------------------------------------------------------------
(* attempt_reconnection *)
ReconBegin ==
    /\ Alive /\ recon = "top" /\ (reconnect \/ ~flags.connected)
    /\ connects < MaxConnects
    /\ flags' = [Reset(flags) EXCEPT !.connected = FALSE]
    /\ uid' = IF reconnect THEN NULL ELSE uid
    /\ recon' = "connect"
    /\ UNCHANGED <<username, ssl, reconnect, recv, ping, net, answered, bounds, fault>>

(* connect_to_server: a new connection, whose other end starts user_auth. *)
ReconConnect ==
    /\ Alive /\ recon = "connect"
    /\ recon' = "connected" /\ connects' = connects + 1
    /\ ssl' = "valid" /\ up' = TRUE
    /\ srv' = [pc |-> "username", attempts |-> 0, name |-> NULL, first |-> NULL]
    /\ toClient' = Round(0) /\ toServer' = <<>>
    /\ recv' = [recv EXCEPT !.current = FALSE]
    /\ UNCHANGED <<cl, reconnect, ping, answered, losses, texts, sends, fault>>

(* The server cannot be reached, or the handshake fails and frees cl.ssl. *)
ReconFails(freed) ==
    /\ Alive /\ recon = "connect" /\ losses < MaxLosses
    /\ recon' = "top" /\ losses' = losses + 1
    /\ ssl' = IF freed THEN "freed" ELSE ssl
    /\ UNCHANGED <<cl, reconnect, recv, ping, net, answered, connects, texts, sends, fault>>

(* Mutant: the client is not marked as connected. *)
ReconDone_NotMarked ==
    /\ Alive /\ recon = "connected"
    /\ recon' = "top" /\ reconnect' = FALSE
    /\ UNCHANGED <<cl, ssl, recv, ping, net, answered, bounds, fault>>

ReconDone ==
    /\ Alive /\ recon = "connected"
    /\ recon' = "top" /\ reconnect' = FALSE
    /\ flags' = [flags EXCEPT !.connected = TRUE]
    /\ UNCHANGED <<uid, username, ssl, recv, ping, net, answered, bounds, fault>>

-----------------------------------------------------------------------------
(* handle_server_ping: its message cannot be sent *)
PingFails ==
    /\ Alive /\ ping = "top" /\ ~reconnect /\ ssl = "valid" /\ flags.authenticated /\ ~up
    /\ flags' = [flags EXCEPT !.connected = FALSE]
    /\ ping' = "failed"
    /\ UNCHANGED <<uid, username, ssl, reconnect, recv, recon, net, answered, bounds, fault>>

PingFlags ==
    /\ Alive /\ ping = "failed"
    /\ ping' = "top" /\ reconnect' = TRUE
    /\ UNCHANGED <<cl, ssl, recv, recon, net, answered, bounds, fault>>

-----------------------------------------------------------------------------
(* ui_cycle: Enter.  Which prompt the line answers depends on the flags. *)
Mode == IF flags.username THEN "username"
        ELSE IF flags.password \/ flags.confirm THEN "password"
        ELSE IF flags.choosing THEN "choice"
        ELSE "text"

TypeOf == CASE Mode \in {"username", "password"} -> "auth"
            [] Mode = "choice" -> "choice"
            [] OTHER -> "text"

(* What the user types; a logged-in user writes a line of chat. *)
Typed == IF flags.authenticated \/ Mode = "text" THEN {"hello"}
         ELSE IF Mode = "username" THEN Users
         ELSE IF Mode = "password" THEN Passwords
         ELSE Choices

(* Mutant: every line that is typed becomes the name. *)
Remember_Always(x) == username' = x

(* Only what answers the username prompt becomes the client's name. *)
Remember(x) == username' = IF Mode = "username" THEN x ELSE username

Enter(x) ==
    LET spare == flags.authenticated \/ Mode = "text" \/ answered IN
    /\ Alive /\ x \in Typed
    /\ Patient => flags.authenticated \/ ~spare
    /\ spare => texts < MaxTexts
    /\ IF ssl # "valid" THEN Stop("badSsl")
       ELSE IF uid = NULL THEN Stop("uninitialisedMessage")
       ELSE /\ Remember(x)
            /\ Written(TypeOf, x) \/ WriteFails
            /\ texts' = IF spare THEN texts + 1 ELSE texts
            /\ answered' = TRUE
            /\ UNCHANGED <<flags, uid, ssl, threads, up, toClient, srv, losses, connects, sends,
                           fault>>

-----------------------------------------------------------------------------
Server == ServerReads \/ \E what \in {"ping", "chat"} : ServerSends(what)
Receive == RecvStart \/ RecvFails \/ RecvMessage \/ RecvPing
Reconnect == ReconBegin \/ ReconConnect \/ ReconDone
Ping == PingFails \/ PingFlags

Next == \/ Server \/ Receive \/ Reconnect \/ Ping \/ Lose
        \/ \E freed \in BOOLEAN : ReconFails(freed)
        \/ \E x \in Texts : Enter(x)

Spec == Init /\ [][Next]_vars

(* The server's and the client's threads run on; nobody has to type. *)
Fairness == WF_vars(ServerReads) /\ WF_vars(Receive) /\ WF_vars(Reconnect) /\ WF_vars(Ping)

FairSpec == Spec /\ Fairness

-----------------------------------------------------------------------------
(* Both ends have read all there is, and the client is still nobody. *)
Quiet == /\ Alive /\ up /\ toClient = <<>> /\ toServer = <<>>
         /\ recv.pc = "read" /\ recv.current /\ ~reconnect

Awaited == CASE srv.pc = "username" -> "username"
             [] srv.pc = "choice" -> "choice"
             [] OTHER -> "password"

(* When the server waits for a line of the dialogue, the window shows the    *)
(* prompt for it and the attempts that are left, however often the dialogue  *)
(* has started again (client_msg_handler.c:57-125, 189-209; client_gui.c:99). *)
PromptsAgree ==
    (Quiet /\ uid = Default /\ srv.pc # "session") =>
        Mode = Awaited /\ flags.attempts = MaxAttempts - srv.attempts

(* When the dialogue has ended in a session, the client knows it, has the    *)
(* uid of the name the server has logged in, so that it will not drop what   *)
(* it is sent, and takes no line for a name or a password any more           *)
(* (client_msg_handler.c:50, 66-75, 101-173; client_gui.c:99-113), unless    *)
(* the user has typed without being asked to: such a line can become the     *)
(* name of the dialogue.  The flags of the choice and of a confirmation that *)
(* did not match can outlive the dialogue.                                   *)
SessionAgrees ==
    (Quiet /\ srv.pc = "session" /\ texts = 0) =>
        /\ flags.authenticated /\ uid = srv.name
        /\ ~flags.username /\ ~flags.password

(* A connection's prompts reach the user: the window gets to the one the     *)
(* server waits for, unless the connection or the dialogue ends or a thread, *)
(* perhaps late, asks for a reconnection.  A receiving thread that has ended *)
(* (client_msg_handler.c:27) shows nothing any more.                         *)
PromptComes ==
    (srv.pc = "username" /\ up /\ uid = Default /\ recv.pc # "ended") ~>
        Mode = "username" \/ ~up \/ srv.pc # "username" \/ reconnect \/ fault # "none"

(* "successfully reconnected" (client.c:101): the dialogue of a new          *)
(* connection reaches the user again.                                        *)
Recovers == (flags.connected /\ connects = MaxConnects /\ up) ~>
                Mode = "username" \/ ~up \/ fault # "none"
=============================================================================
