---------------------------------- MODULE Wire ----------------------------------
(***************************************************************************)
(* What passes over the connection of a client that is logged in: how      *)
(* messages are created, written, read and parsed (common/src/protocol.c), *)
(* by the handler and the router at the server's end and by the receiving  *)
(* thread, the pinger and the window at the client's, and the screen the   *)
(* client's threads write to.                                              *)
(*                                                                         *)
(* One SSL_write makes one record, and one SSL_read returns one.  Two      *)
(* threads that are in SSL_write with the same SSL object are undefined    *)
(* behaviour: the model stops with `overlap`.  A payload is a sequence of  *)
(* characters; the fields before it need no more than their values.  The   *)
(* connection stays up: module Client has the losses.                      *)
(***************************************************************************)
EXTENDS Integers, Sequences

CONSTANTS Chars,      \* characters, those of the words below and of wild memory among them
          Lines,      \* what a user or the operator may type, the empty line among it
          ScreenSize, \* length of the array `messages` of the window
          MaxLines,   \* bound: lines the user enters
          MaxPings,   \* bound: pings of the client
          MaxSends    \* bound: messages the router has for this client

Threads == {"handler", "router", "receiver", "pinger", "window"}
ServerEnd == {"handler", "router"}
End(t) == IF t \in ServerEnd THEN "server" ELSE "client"
PingText == <<"P", "I">>
AckText == <<"A">>

ASSUME WireAssumption ==
    /\ {"P", "I", "A", "?"} \subseteq Chars
    /\ Lines \subseteq Seq(Chars) /\ <<>> \in Lines
    /\ ScreenSize \in Nat \ {0}
    /\ MaxLines \in Nat /\ MaxPings \in Nat /\ MaxSends \in Nat

VARIABLES
    pc,        \* what each thread does next
    msg,       \* the message each thread is working on
    buffer,    \* where the handler has read payloads to
    sent,      \* records on their way to each end
    taken,     \* history: the record each end is handling, or Unparsable
    answer,    \* server_answer
    input,     \* cl.input
    screen,    \* messages and message_count of the window
    added,     \* history: the lines that were added to the screen
    raced,     \* history: have two threads added a line at the same time?
    owed,      \* history: pings of the client whose answer it has not handled
    early,     \* history: was an answer handled before the pinger began to wait for it?
    overlap,   \* have two threads been in SSL_write at the same end?
    typed, pings, sends   \* how often the bounded events have happened

wireVars == <<buffer, sent, taken, overlap>>
screenVars == <<input, screen, added, raced>>
pingVars == <<answer, owed, early>>
bounds == <<typed, pings, sends>>
vars == <<pc, msg, wireVars, screenVars, pingVars, bounds>>

Types == {"ping", "ack", "text"}
Parties == {"user", "server", "wild"}
Payloads == Lines \cup {<<>>, PingText, AckText}
Messages == [type : Types, from : Parties, to : Parties, payload : Payloads]
Unparsable == [type |-> "none", from |-> "wild", to |-> "wild", payload |-> <<>>]

TypeOK ==
    /\ pc \in [Threads -> {"idle", "read", "handle", "write", "copy", "count", "sent", "sleep"}]
    /\ msg \in [Threads -> Messages \cup {Unparsable}]
    /\ buffer \in Seq(Chars)
    /\ sent \in [{"server", "client"} -> Seq(Messages \cup {Unparsable})]
    /\ taken \in [{"server", "client"} -> Messages \cup {Unparsable}]
    /\ answer \in BOOLEAN /\ input \in Lines
    /\ screen \in [lines : [0..(ScreenSize - 1) -> Payloads], count : 0..(ScreenSize - 1)]
    /\ added \in Seq(Payloads)
    /\ raced \in BOOLEAN /\ early \in BOOLEAN /\ overlap \in BOOLEAN
    /\ owed \in 0..MaxPings
    /\ typed \in 0..MaxLines /\ pings \in 0..MaxPings /\ sends \in 0..MaxSends

(* No message yet: what the handler's msg and buffer hold is left open. *)
Init ==
    /\ pc = [t \in Threads |-> IF t \in {"handler", "receiver"} THEN "read" ELSE "idle"]
    /\ msg = [t \in Threads |-> Unparsable]
    /\ buffer = <<"?", "?", "?">>
    /\ sent = [end \in {"server", "client"} |-> <<>>]
    /\ taken = [end \in {"server", "client"} |-> Unparsable]
    /\ answer = FALSE /\ input = <<>>
    /\ screen = [lines |-> [i \in 0..(ScreenSize - 1) |-> <<>>], count |-> 0]
    /\ added = <<>> /\ raced = FALSE
    /\ owed = 0 /\ early = FALSE /\ overlap = FALSE
    /\ typed = 0 /\ pings = 0 /\ sends = 0

-----------------------------------------------------------------------------
(* create_message; every empty payload is refused, and no caller looks. *)
Refused(line) == line = <<>>

Message(type, from, to, payload) ==
    [type |-> type, from |-> from, to |-> to, payload |-> payload]

(* What send_message leaves of a message. *)
Emptied(m) == [m EXCEPT !.payload = <<>>]

(* Mutant: the payload is not cut to its length. *)
Parse_Uncut(old, record, into) ==
    LET rest == IF Len(into) > Len(record.payload)
                THEN SubSeq(into, Len(record.payload) + 1, Len(into)) ELSE <<>>
    IN IF record = Unparsable THEN old ELSE [record EXCEPT !.payload = @ \o rest]

(* parse_message: `into` is what the buffer holds from where the payload     *)
(* starts; a record that has no fields leaves the message as it was.  What   *)
(* it writes then is the zero behind the payload: nothing new in a message,  *)
(* and out of bounds in one that was never set, which is left out here.      *)
Parse(old, record, into) ==
    LET rest == IF Len(into) > Len(record.payload)
                THEN SubSeq(into, Len(record.payload) + 1, Len(into)) ELSE <<>>
        text == record.payload \o rest
    IN IF record = Unparsable THEN old
       ELSE [record EXCEPT !.payload = SubSeq(text, 1, Len(record.payload))]

(* What is in the buffer after a read that does not clear it. *)
ReadInto(into, record) ==
    record.payload \o (IF Len(into) > Len(record.payload)
                       THEN SubSeq(into, Len(record.payload) + 1, Len(into)) ELSE <<>>)

Goto(t, point) == pc' = [pc EXCEPT ![t] = point]

(* send_message enters SSL_write ... *)
StartWrite(t, m) ==
    /\ Goto(t, "write") /\ msg' = [msg EXCEPT ![t] = m]
    /\ overlap' = \E u \in Threads \ {t} : End(u) = End(t) /\ pc[u] = "write"

(* ... and leaves it. *)
Other(end) == IF end = "server" THEN "client" ELSE "server"

AfterWrite == [handler |-> "read", router |-> "idle", receiver |-> "read", pinger |-> "sent",
               window |-> "copy"]

FinishWrite(t) ==
    /\ pc[t] = "write" /\ Goto(t, AfterWrite[t])
    /\ sent' = [sent EXCEPT ![Other(End(t))] = Append(@, msg[t])]
    /\ msg' = [msg EXCEPT ![t] = IF t = "handler" THEN Emptied(@) ELSE Unparsable]
    /\ UNCHANGED <<buffer, taken, overlap, screenVars, pingVars, bounds>>

-----------------------------------------------------------------------------
(* handle_client: its buffer is never cleared and its msg is used again and  *)
(* again.                                                                    *)
HandlerReads ==
    /\ pc["handler"] = "read" /\ sent["server"] # <<>>
    /\ LET record == Head(sent["server"]) IN
       /\ buffer' = IF record = Unparsable THEN buffer ELSE ReadInto(buffer, record)
       /\ msg' = [msg EXCEPT !["handler"] = Parse(@, record, buffer)]
       /\ taken' = [taken EXCEPT !["server"] = record]
    /\ sent' = [sent EXCEPT !["server"] = Tail(@)]
    /\ Goto("handler", "handle")
    /\ UNCHANGED <<overlap, screenVars, pingVars, bounds>>

(* A ping is answered: create_message has overwritten the sender, which it   *)
(* was to take the recipient from.  An answer or a text is for others        *)
(* (modules Server, StsQueue).                                               *)
HandlerHandles ==
    /\ pc["handler"] = "handle" /\ taken' = [taken EXCEPT !["server"] = Unparsable]
    /\ \/ /\ msg["handler"].type \in {"ping", "none"}
          /\ StartWrite("handler", Message("ack", "server", "server", AckText))
       \/ /\ msg["handler"].type # "ping"
          /\ Goto("handler", "read") /\ UNCHANGED <<msg, overlap>>
    /\ UNCHANGED <<buffer, sent, screenVars, pingVars, bounds>>

(* handle_msg_queue has a ping or a text of the operator for this client. *)
RouterSends ==
    /\ pc["router"] = "idle" /\ sends < MaxSends /\ sends' = sends + 1
    /\ \/ StartWrite("router", Message("ping", "server", "user", PingText))
       \/ \E line \in Lines \ {<<>>} : StartWrite("router", Message("text", "server", "user", line))
    /\ UNCHANGED <<buffer, sent, taken, screenVars, pingVars, typed, pings>>

-----------------------------------------------------------------------------
(* receive_messages clears its buffer and its msg each time. *)
ReceiverReads ==
    /\ pc["receiver"] = "read" /\ sent["client"] # <<>>
    /\ LET record == Head(sent["client"]) IN
       /\ msg' = [msg EXCEPT !["receiver"] = Parse(@, record, <<>>)]
       /\ taken' = [taken EXCEPT !["client"] = record]
    /\ sent' = [sent EXCEPT !["client"] = Tail(@)]
    /\ Goto("receiver", "handle")
    /\ UNCHANGED <<buffer, overlap, screenVars, pingVars, bounds>>

(* Mutant: an answer must be addressed to the user. *)
ReceiverHandles_Addressed ==
    LET m == msg["receiver"] IN
    /\ pc["receiver"] = "handle" /\ taken' = [taken EXCEPT !["client"] = Unparsable]
    /\ \/ /\ m.type = "ping" /\ StartWrite("receiver", Message("ack", "user", "server", AckText))
          /\ UNCHANGED pingVars
       \/ /\ m.type = "ack" /\ Goto("receiver", "read")
          /\ IF m.to = "user"
             THEN answer' = TRUE /\ owed' = IF owed > 0 THEN owed - 1 ELSE 0
             ELSE UNCHANGED <<answer, owed>>
          /\ UNCHANGED <<msg, overlap, early>>
       \/ /\ m.type = "text" /\ Goto("receiver", "copy")
          /\ UNCHANGED <<msg, overlap, pingVars>>
    /\ UNCHANGED <<buffer, sent, screenVars, bounds>>

(* handle_message: pings and answers come first, whomever they are addressed *)
(* to; a text of the server for this user goes to the screen.                *)
ReceiverHandles ==
    LET m == msg["receiver"] IN
    /\ pc["receiver"] = "handle" /\ taken' = [taken EXCEPT !["client"] = Unparsable]
    /\ \/ /\ m.type = "ping" /\ m.from = "server"
          /\ StartWrite("receiver", Message("ack", "user", "server", AckText))
          /\ UNCHANGED pingVars
       \/ /\ m.type = "ack" /\ m.from = "server"
          /\ Goto("receiver", "read") /\ msg' = [msg EXCEPT !["receiver"] = Unparsable]
          /\ answer' = TRUE /\ owed' = IF owed > 0 THEN owed - 1 ELSE 0
          /\ early' = (early \/ pc["pinger"] \in {"write", "sent"})
          /\ UNCHANGED overlap
       \/ /\ m.type = "text" /\ m.from = "server" /\ m.to = "user"
          /\ Goto("receiver", "copy")
          /\ UNCHANGED <<msg, overlap, pingVars>>
    /\ UNCHANGED <<buffer, sent, screenVars, bounds>>

(* handle_server_ping *)
PingerSends ==
    /\ pc["pinger"] = "idle" /\ pings < MaxPings /\ pings' = pings + 1
    /\ StartWrite("pinger", Message("ping", "user", "server", PingText))
    /\ owed' = owed + 1 /\ early' = FALSE
    /\ UNCHANGED <<buffer, sent, taken, screenVars, answer, typed, sends>>

(* Mutant: the pinger forgets answers while it waits, too. *)
PingerResets_Again == /\ pc["pinger"] \in {"sent", "sleep"} /\ Goto("pinger", "sleep")
                      /\ answer' = FALSE
                      /\ UNCHANGED <<msg, wireVars, screenVars, owed, early, bounds>>

(* Only now it forgets earlier answers. *)
PingerResets == /\ pc["pinger"] = "sent" /\ Goto("pinger", "sleep")
                /\ answer' = FALSE
                /\ UNCHANGED <<msg, wireVars, screenVars, owed, early, bounds>>

(* Fifteen seconds later it logs "No response to PING from server" if        *)
(* server_answer is still 0.                                                 *)
PingerWakes == /\ pc["pinger"] = "sleep" /\ Goto("pinger", "idle")
               /\ UNCHANGED <<msg, wireVars, screenVars, pingVars, bounds>>

(* ui_cycle: Enter.  A message that was refused is what its memory holds:    *)
(* the last one, emptied, or no message at all.                              *)
Enter(line) ==
    /\ pc["window"] = "idle" /\ typed < MaxLines /\ typed' = typed + 1
    /\ IF Refused(line)
       THEN StartWrite("window", Unparsable) \/ StartWrite("window", Message("text", "user", "server", <<>>))
       ELSE StartWrite("window", Message("text", "user", "server", line))
    /\ input' = line
    /\ UNCHANGED <<buffer, sent, taken, screen, added, raced, pingVars, pings, sends>>

-----------------------------------------------------------------------------
(* add_message, which the window calls for what was typed and the receiving  *)
(* thread for what has arrived. *)
LineOf(t) == IF t = "window" THEN input ELSE msg["receiver"].payload

Adding(t) == pc[t] = "count"

(* Mutant: the line is copied to where the next one belongs. *)
CopyLine_Next(t) ==
    /\ pc[t] = "copy" /\ Goto(t, "count")
    /\ screen' = [screen EXCEPT !.lines[(screen.count + 1) % ScreenSize] = LineOf(t)]
    /\ raced' = (raced \/ \E u \in Threads \ {t} : Adding(u))
    /\ UNCHANGED <<msg, wireVars, input, added, pingVars, bounds>>

CopyLine(t) ==
    /\ pc[t] = "copy" /\ Goto(t, "count")
    /\ screen' = [screen EXCEPT !.lines[screen.count] = LineOf(t)]
    /\ raced' = (raced \/ \E u \in Threads \ {t} : Adding(u))
    /\ UNCHANGED <<msg, wireVars, input, added, pingVars, bounds>>

(* Mutant: message_count wraps one line too late. *)
CountLine_Late(t) ==
    /\ Adding(t) /\ Goto(t, IF t = "window" THEN "idle" ELSE "read")
    /\ screen' = [screen EXCEPT !.count = (@ + 1) % (ScreenSize + 1)]
    /\ added' = Append(added, LineOf(t)) /\ msg' = [msg EXCEPT ![t] = Unparsable]
    /\ input' = IF t = "window" THEN <<>> ELSE input
    /\ UNCHANGED <<wireVars, raced, pingVars, bounds>>

(* Of two increments at the same time one may be lost. *)
CountLine(t) ==
    /\ Adding(t) /\ Goto(t, IF t = "window" THEN "idle" ELSE "read")
    /\ \/ screen' = [screen EXCEPT !.count = (@ + 1) % ScreenSize]
       \/ (\E u \in Threads \ {t} : Adding(u)) /\ UNCHANGED screen
    /\ added' = Append(added, LineOf(t)) /\ msg' = [msg EXCEPT ![t] = Unparsable]
    /\ input' = IF t = "window" THEN <<>> ELSE input
    /\ UNCHANGED <<wireVars, raced, pingVars, bounds>>

-----------------------------------------------------------------------------
(* Steps that need nobody to type and no time to pass. *)
Runs(t) == \/ FinishWrite(t) \/ CopyLine(t) \/ CountLine(t)
           \/ t = "handler" /\ (HandlerReads \/ HandlerHandles)
           \/ t = "receiver" /\ (ReceiverReads \/ ReceiverHandles)
           \/ t = "pinger" /\ PingerResets

Next == /\ ~overlap
        /\ \/ \E t \in Threads : Runs(t)
           \/ RouterSends \/ PingerSends \/ PingerWakes
           \/ \E line \in Lines : Enter(line)

Spec == Init /\ [][Next]_vars

Fairness == \A t \in Threads : WF_vars(~overlap /\ Runs(t))

FairSpec == Spec /\ Fairness

-----------------------------------------------------------------------------
(* Every message is handled as it was written, whatever the buffer and the   *)
(* message held before, except for a record that has no fields, for which    *)
(* the handler takes the message it had (protocol.c:52-60, 69-77; server.c:  *)
(* 271-280; client.c:56-74).                                                 *)
ParsedAsWritten ==
    \A t \in {"handler", "receiver"} :
        (pc[t] = "handle" /\ taken[End(t)] # Unparsable) => msg[t] = taken[End(t)]

(* The window shows the lines added last, in their order; after every        *)
(* ScreenSize-th line it is blank (client_gui.c:263-276), unless two threads *)
(* have added lines at the same time.                                        *)
ScreenInOrder ==
    raced \/ /\ screen.count = Len(added) % ScreenSize
             /\ \A i \in 0..(screen.count - 1) :
                   screen.lines[i] = added[Len(added) - screen.count + 1 + i]

(* "No response to PING from server" (client.c:153) is logged only if the    *)
(* client has handled no answer, or handled it before the pinger began to    *)
(* wait.                                                                     *)
AlarmFounded == (pc["pinger"] = "sleep" /\ ~answer) => owed > 0 \/ early

(* Every ping of the client is answered, and the client handles the answer,  *)
(* although it is addressed to "server" (server.c:283-287; client_msg_handler.c:32). *)
PingAnswered == owed > 0 ~> owed = 0 \/ overlap
=============================================================================
