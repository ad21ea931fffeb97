------------------------------ MODULE WireProofs ------------------------------
(***************************************************************************)
(* The invariants of module Wire, for any lines, any size of the screen    *)
(* and any number of lines, pings and messages.                            *)
(***************************************************************************)
EXTENDS Wire, SequenceTheorems, TLAPS

Points == {"idle", "read", "handle", "write", "copy", "count", "sent", "sleep"}

Records == Messages \cup {Unparsable}

(* The types, in the groups in which the steps leave them alone. *)
ThreadTypes == pc \in [Threads -> Points] /\ msg \in [Threads -> Records]

WireTypes == /\ buffer \in Seq(Chars) /\ overlap \in BOOLEAN
             /\ sent \in [{"server", "client"} -> Seq(Records)]
             /\ taken \in [{"server", "client"} -> Records]

ScreenTypes == /\ input \in Lines /\ added \in Seq(Payloads) /\ raced \in BOOLEAN
               /\ screen \in [lines : [0..(ScreenSize - 1) -> Payloads],
                              count : 0..(ScreenSize - 1)]

PingTypes == /\ answer \in BOOLEAN /\ early \in BOOLEAN
             /\ pings \in 0..MaxPings /\ owed \in 0..pings

BoundTypes == typed \in 0..MaxLines /\ sends \in 0..MaxSends

(* The types, with no more answers owed than pings were sent. *)
TypeInv == ThreadTypes /\ WireTypes /\ ScreenTypes /\ PingTypes /\ BoundTypes

-----------------------------------------------------------------------------
(* Payloads are sequences of characters, and records have payloads. *)
LEMMA PayloadTypes ==
  /\ Payloads \subseteq Seq(Chars) /\ Lines \subseteq Payloads
  /\ <<>> \in Payloads /\ PingText \in Payloads /\ AckText \in Payloads
  /\ \A m \in Records : m.payload \in Payloads
<1>1. PingText \in Seq(Chars) /\ AckText \in Seq(Chars)
  BY WireAssumption DEF WireAssumption, PingText, AckText
<1>2. /\ Payloads \subseteq Seq(Chars) /\ Lines \subseteq Payloads
      /\ <<>> \in Payloads /\ PingText \in Payloads /\ AckText \in Payloads
  BY <1>1, WireAssumption DEF WireAssumption, Payloads
<1> QED BY <1>2 DEF Records, Messages, Unparsable

(* What create_message makes is a message, and so is one that was sent. *)
LEMMA CreatedTypes ==
  /\ \A type \in Types, from \in Parties, to \in Parties, payload \in Payloads :
        Message(type, from, to, payload) \in Records
  /\ \A m \in Records : Emptied(m) \in Records
<1>1. \A m \in Messages : Emptied(m) \in Messages
  BY PayloadTypes DEF Messages, Emptied
<1>2. Emptied(Unparsable) = Unparsable
  BY DEF Emptied, Unparsable
<1> QED BY <1>1, <1>2 DEF Message, Records, Messages

(* What is left behind a payload in a buffer. *)
LEMMA RestType ==
  ASSUME NEW into \in Seq(Chars), NEW n \in Nat, Len(into) > n
  PROVE  SubSeq(into, n + 1, Len(into)) \in Seq(Chars)
<1>1. Len(into) \in Nat /\ n + 1 \in 1..Len(into)
  OBVIOUS
<1>2. \A i \in (n + 1)..Len(into) : into[i] \in Chars
  BY <1>1, ElementOfSeq
<1> QED BY <1>1, <1>2, SubSeqProperties

(* parse_message makes the record that was written of it, unless the record  *)
(* has no fields: what the buffer holds behind the payload is cut off.       *)
LEMMA ParseIsExact ==
  ASSUME NEW old \in Records, NEW record \in Records, NEW into \in Seq(Chars)
  PROVE  /\ Parse(old, record, into) \in Records
         /\ record # Unparsable => Parse(old, record, into) = record
<1>1. CASE record = Unparsable
  BY <1>1 DEF Parse
<1>2. CASE record # Unparsable
  <2> DEFINE p == record.payload
             rest == IF Len(into) > Len(p) THEN SubSeq(into, Len(p) + 1, Len(into)) ELSE <<>>
  <2>1. record \in Messages /\ p \in Seq(Chars) /\ Len(p) \in Nat
    BY <1>2, PayloadTypes DEF Records
  <2>2. rest \in Seq(Chars)
    <3>1. Len(into) > Len(p) => SubSeq(into, Len(p) + 1, Len(into)) \in Seq(Chars)
      BY <2>1, RestType
    <3> QED BY <3>1
  <2> HIDE DEF rest
  <2>3. SubSeq(p \o rest, 1, Len(p)) = p
    BY <2>1, <2>2
  <2>4. Parse(old, record, into) = [record EXCEPT !.payload = p]
    BY <1>2, <2>3 DEF Parse, rest
  <2>5. [record EXCEPT !.payload = p] = record
    BY <2>1 DEF Messages
  <2> QED BY <2>4, <2>5
<1> QED BY <1>1, <1>2

LEMMA ReadType ==
  ASSUME NEW record \in Records, NEW into \in Seq(Chars)
  PROVE  ReadInto(into, record) \in Seq(Chars)
<1>1. record.payload \in Seq(Chars) /\ Len(record.payload) \in Nat
  BY PayloadTypes
<1>2. CASE Len(into) > Len(record.payload)
  <2>1. SubSeq(into, Len(record.payload) + 1, Len(into)) \in Seq(Chars)
    BY <1>1, <1>2, RestType
  <2> QED BY <1>1, <1>2, <2>1, ConcatProperties DEF ReadInto
<1>3. CASE ~(Len(into) > Len(record.payload))
  BY <1>1, <1>3, ConcatProperties DEF ReadInto
<1> QED BY <1>2, <1>3

(* A thread goes on, with a message or without. *)
LEMMA Moves ==
  ASSUME ThreadTypes, NEW t \in Threads, NEW point \in Points, Goto(t, point),
         UNCHANGED msg \/ \E m \in Records : msg' = [msg EXCEPT ![t] = m]
  PROVE  ThreadTypes'
BY DEF ThreadTypes, Goto

LEMMA Writes ==
  ASSUME ThreadTypes, NEW t \in Threads, NEW m \in Records, StartWrite(t, m)
  PROVE  ThreadTypes' /\ overlap' \in BOOLEAN
<1>1. ThreadTypes'
  BY Moves DEF StartWrite, Points
<1>2. overlap' \in BOOLEAN
  BY Zenon DEF StartWrite
<1> QED BY <1>1, <1>2

(* One record is taken from those on their way. *)
LEMMA Takes ==
  ASSUME WireTypes, NEW end \in {"server", "client"}, sent[end] # <<>>
  PROVE  /\ Head(sent[end]) \in Records
         /\ [sent EXCEPT ![end] = Tail(@)] \in [{"server", "client"} -> Seq(Records)]
         /\ [taken EXCEPT ![end] = Head(sent[end])] \in [{"server", "client"} -> Records]
<1>1. sent[end] \in Seq(Records)
  BY DEF WireTypes
<1>2. Head(sent[end]) \in Records /\ Tail(sent[end]) \in Seq(Records)
  BY <1>1, HeadTailProperties
<1> QED BY <1>2 DEF WireTypes

LEMMA ScreenIndex ==
  ASSUME NEW c \in 0..(ScreenSize - 1)
  PROVE  (c + 1) % ScreenSize \in 0..(ScreenSize - 1)
BY WireAssumption DEF WireAssumption

-----------------------------------------------------------------------------
LEMMA TypeInitial == Init => TypeInv
<1> SUFFICES ASSUME Init PROVE TypeInv
  OBVIOUS
<1>1. ThreadTypes
  <2>1. Unparsable \in Records
    BY DEF Records
  <2> QED BY <2>1 DEF Init, ThreadTypes, Points
<1>2. WireTypes
  <2>1. Unparsable \in Records /\ <<>> \in Seq(Records)
    BY DEF Records
  <2>2. sent \in [{"server", "client"} -> Seq(Records)]
    BY <2>1 DEF Init
  <2>3. taken \in [{"server", "client"} -> Records]
    BY <2>1 DEF Init
  <2>4. buffer \in Seq(Chars)
    <3>1. buffer = <<"?", "?", "?">> /\ "?" \in Chars
      BY WireAssumption DEF Init, WireAssumption
    <3> QED BY ONLY <3>1
  <2>5. overlap \in BOOLEAN
    BY DEF Init
  <2> QED BY <2>2, <2>3, <2>4, <2>5 DEF WireTypes
<1>3. ScreenTypes
  <2>1. <<>> \in Payloads /\ <<>> \in Lines /\ 0 \in 0..(ScreenSize - 1)
    BY WireAssumption, PayloadTypes DEF WireAssumption
  <2>2. input = <<>> /\ added = <<>> /\ raced \in BOOLEAN
    BY DEF Init
  <2>3. screen \in [lines : [0..(ScreenSize - 1) -> Payloads], count : 0..(ScreenSize - 1)]
    BY <2>1 DEF Init
  <2> QED BY <2>1, <2>2, <2>3 DEF ScreenTypes
<1>4. PingTypes /\ BoundTypes
  <2>1. /\ answer = FALSE /\ early = FALSE /\ owed = 0 /\ pings = 0 /\ typed = 0 /\ sends = 0
    BY DEF Init
  <2>2. 0 \in 0..0 /\ 0 \in 0..MaxPings /\ 0 \in 0..MaxLines /\ 0 \in 0..MaxSends
    BY WireAssumption DEF WireAssumption
  <2> QED BY <2>1, <2>2, Zenon DEF PingTypes, BoundTypes
<1> QED BY <1>1, <1>2, <1>3, <1>4 DEF TypeInv

LEMMA WriteStep ==
  ASSUME TypeInv, NEW t \in Threads, FinishWrite(t)
  PROVE  TypeInv'
<1>1. UNCHANGED <<buffer, taken, overlap, screenVars, pingVars, bounds>>
  BY DEF FinishWrite
<1>2. msg[t] \in Records /\ ThreadTypes /\ WireTypes
  BY DEF TypeInv, ThreadTypes
<1>3. ThreadTypes'
  <2>1. AfterWrite[t] \in Points
    BY DEF AfterWrite, Threads, Points
  <2>2. \E m \in Records : msg' = [msg EXCEPT ![t] = m]
    <3>1. CASE t = "handler"
      BY <1>2, <3>1, CreatedTypes DEF FinishWrite
    <3>2. CASE t # "handler"
      BY <3>2 DEF FinishWrite, Records
    <3> QED BY <3>1, <3>2
  <2>3. Goto(t, AfterWrite[t])
    BY DEF FinishWrite
  <2> QED BY <1>2, <2>1, <2>2, <2>3, Moves
<1>4. sent' \in [{"server", "client"} -> Seq(Records)]
  <2> DEFINE end == Other(End(t))
  <2>1. end \in {"server", "client"}
    BY DEF Other
  <2>2. sent' = [sent EXCEPT ![end] = Append(@, msg[t])]
    BY DEF FinishWrite
  <2> HIDE DEF end
  <2>3. Append(sent[end], msg[t]) \in Seq(Records)
    BY <1>2, <2>1 DEF WireTypes
  <2> QED BY <1>2, <2>1, <2>2, <2>3 DEF WireTypes
<1> QED BY <1>1, <1>3, <1>4
        DEF TypeInv, WireTypes, ScreenTypes, PingTypes, BoundTypes, screenVars, pingVars, bounds

LEMMA HandlerStep ==
  ASSUME TypeInv, HandlerReads \/ HandlerHandles
  PROVE  TypeInv'
<1>1. UNCHANGED <<screenVars, pingVars, bounds>> /\ ThreadTypes /\ WireTypes
  BY DEF HandlerReads, HandlerHandles, TypeInv
<1>2. CASE HandlerReads
  <2> DEFINE record == Head(sent["server"])
  <2>1. /\ record \in Records /\ buffer \in Seq(Chars)
        /\ msg["handler"] \in Records
    BY <1>1, <1>2, Takes DEF HandlerReads, WireTypes, ThreadTypes, Threads
  <2>2. ThreadTypes'
    BY <1>1, <1>2, <2>1, ParseIsExact, Moves DEF HandlerReads, Points, Threads
  <2>3. WireTypes'
    <3>1. sent' \in [{"server", "client"} -> Seq(Records)]
      BY <1>1, <1>2, Takes DEF HandlerReads
    <3>2. taken' \in [{"server", "client"} -> Records]
      BY <1>1, <1>2, Takes DEF HandlerReads
    <3>3. buffer' \in Seq(Chars)
      BY <1>2, <2>1, ReadType DEF HandlerReads
    <3>4. overlap' \in BOOLEAN
      BY <1>1, <1>2 DEF HandlerReads, WireTypes
    <3> QED BY <3>1, <3>2, <3>3, <3>4 DEF WireTypes
  <2> QED BY <1>1, <2>2, <2>3
          DEF TypeInv, ScreenTypes, PingTypes, BoundTypes, screenVars, pingVars, bounds
<1>3. CASE HandlerHandles
  <2>1. UNCHANGED <<buffer, sent>> /\ taken' = [taken EXCEPT !["server"] = Unparsable]
    BY <1>3 DEF HandlerHandles
  <2>2. ThreadTypes' /\ overlap' \in BOOLEAN
    <3>1. CASE StartWrite("handler", Message("ack", "server", "server", AckText))
      <4>1. Message("ack", "server", "server", AckText) \in Records
        BY CreatedTypes, PayloadTypes DEF Types, Parties
      <4> QED BY <1>1, <3>1, <4>1, Writes DEF Threads
    <3>2. CASE Goto("handler", "read") /\ UNCHANGED <<msg, overlap>>
      BY <1>1, <3>2, Moves DEF Threads, Points, WireTypes
    <3> QED BY <1>3, <3>1, <3>2 DEF HandlerHandles
  <2>3. taken' \in [{"server", "client"} -> Records]
    BY <1>1, <2>1 DEF WireTypes, Records
  <2> QED BY <1>1, <2>1, <2>2, <2>3
      DEF TypeInv, WireTypes, ScreenTypes, PingTypes, BoundTypes, screenVars, pingVars, bounds
<1> QED BY <1>2, <1>3

LEMMA ReceiverStep ==
  ASSUME TypeInv, ReceiverReads \/ ReceiverHandles
  PROVE  TypeInv'
<1>1. UNCHANGED <<screenVars, bounds, buffer>> /\ ThreadTypes /\ WireTypes /\ PingTypes
  BY DEF ReceiverReads, ReceiverHandles, TypeInv
<1>2. CASE ReceiverReads
  <2> DEFINE record == Head(sent["client"])
  <2>1. record \in Records /\ <<>> \in Seq(Chars) /\ msg["receiver"] \in Records
    BY <1>1, <1>2, Takes DEF ReceiverReads, WireTypes, ThreadTypes, Threads
  <2>2. ThreadTypes'
    BY <1>1, <1>2, <2>1, ParseIsExact, Moves DEF ReceiverReads, Points, Threads
  <2>3. WireTypes'
    <3>1. sent' \in [{"server", "client"} -> Seq(Records)]
      BY <1>1, <1>2, Takes DEF ReceiverReads
    <3>2. taken' \in [{"server", "client"} -> Records]
      BY <1>1, <1>2, Takes DEF ReceiverReads
    <3>3. overlap' \in BOOLEAN /\ buffer' \in Seq(Chars)
      BY <1>1, <1>2 DEF ReceiverReads, WireTypes
    <3> QED BY <3>1, <3>2, <3>3 DEF WireTypes
  <2>4. UNCHANGED pingVars
    BY <1>2 DEF ReceiverReads
  <2> QED BY <1>1, <2>2, <2>3, <2>4
          DEF TypeInv, ScreenTypes, PingTypes, BoundTypes, screenVars, pingVars, bounds
<1>3. CASE ReceiverHandles
  <2>1. UNCHANGED <<buffer, sent>> /\ taken' = [taken EXCEPT !["client"] = Unparsable]
    BY <1>3 DEF ReceiverHandles
  <2>2. ThreadTypes' /\ overlap' \in BOOLEAN
    <3>1. CASE StartWrite("receiver", Message("ack", "user", "server", AckText))
      <4>1. Message("ack", "user", "server", AckText) \in Records
        BY CreatedTypes, PayloadTypes DEF Types, Parties
      <4> QED BY <1>1, <3>1, <4>1, Writes DEF Threads
    <3>2. CASE Goto("receiver", "read") /\ msg' = [msg EXCEPT !["receiver"] = Unparsable]
               /\ UNCHANGED overlap
      <4>1. Unparsable \in Records
        BY DEF Records
      <4> QED BY <1>1, <3>2, <4>1, Moves DEF Threads, Points, WireTypes
    <3>3. CASE Goto("receiver", "copy") /\ UNCHANGED <<msg, overlap>>
      BY <1>1, <3>3, Moves DEF Threads, Points, WireTypes
    <3> QED BY <1>3, <3>1, <3>2, <3>3 DEF ReceiverHandles
  <2>3. taken' \in [{"server", "client"} -> Records]
    BY <1>1, <2>1 DEF WireTypes, Records
  <2>4. PingTypes'
    <3>1. CASE UNCHANGED pingVars
      BY <1>1, <3>1 DEF PingTypes, pingVars, bounds
    <3>2. CASE /\ answer' = TRUE /\ owed' = IF owed > 0 THEN owed - 1 ELSE 0
               /\ early' = (early \/ pc["pinger"] \in {"write", "sent"})
      <4>1. early' \in BOOLEAN
        BY <3>2, Zenon
      <4> QED BY <1>1, <3>2, <4>1 DEF PingTypes, bounds
    <3> QED BY <1>3, <3>1, <3>2 DEF ReceiverHandles
  <2> QED BY <1>1, <2>1, <2>2, <2>3, <2>4
      DEF TypeInv, WireTypes, ScreenTypes, BoundTypes, screenVars, bounds
<1> QED BY <1>2, <1>3

LEMMA SenderStep ==
  ASSUME TypeInv, RouterSends \/ PingerSends \/ PingerResets \/ PingerWakes
  PROVE  TypeInv'
<1>1. UNCHANGED <<buffer, sent, taken, screenVars>> /\ ThreadTypes /\ WireTypes /\ PingTypes
  BY DEF RouterSends, PingerSends, PingerResets, PingerWakes, TypeInv, wireVars
<1>2. ASSUME NEW t \in Threads, NEW type \in Types, NEW from \in Parties, NEW to \in Parties,
             NEW payload \in Payloads, StartWrite(t, Message(type, from, to, payload))
      PROVE  ThreadTypes' /\ overlap' \in BOOLEAN
  BY <1>1, <1>2, CreatedTypes, Writes
<1>3. ThreadTypes' /\ overlap' \in BOOLEAN
  <2>1. CASE RouterSends
    <3>1. PICK type \in Types, payload \in Payloads :
             StartWrite("router", Message(type, "server", "user", payload))
      BY <2>1, PayloadTypes DEF RouterSends, Types
    <3> QED BY <1>2, <3>1 DEF Threads, Parties
  <2>2. CASE PingerSends
    BY <1>2, <2>2, PayloadTypes DEF PingerSends, Threads, Types, Parties
  <2>3. CASE PingerResets \/ PingerWakes
    BY <1>1, <2>3, Moves DEF PingerResets, PingerWakes, Threads, Points, WireTypes, wireVars
  <2> QED BY <2>1, <2>2, <2>3
<1>4. PingTypes' /\ BoundTypes'
  <2>1. /\ answer' \in BOOLEAN /\ early' \in BOOLEAN
        /\ \/ UNCHANGED <<owed, bounds>>
           \/ /\ pings < MaxPings /\ pings' = pings + 1 /\ owed' = owed + 1
              /\ UNCHANGED <<typed, sends>>
           \/ sends < MaxSends /\ sends' = sends + 1 /\ UNCHANGED <<owed, typed, pings>>
    BY <1>1 DEF RouterSends, PingerSends, PingerResets, PingerWakes, PingTypes, pingVars, bounds
  <2> QED BY <1>1, <2>1, WireAssumption DEF TypeInv, PingTypes, BoundTypes, bounds, WireAssumption
<1> QED BY <1>1, <1>3, <1>4 DEF TypeInv, WireTypes, ScreenTypes, screenVars

LEMMA WindowStep ==
  ASSUME TypeInv, NEW line \in Lines, Enter(line)
  PROVE  TypeInv'
<1>1. /\ UNCHANGED <<buffer, sent, taken, screen, added, raced, pingVars, pings, sends>>
      /\ input' \in Lines /\ ThreadTypes
  BY DEF Enter, TypeInv
<1>2. ThreadTypes' /\ overlap' \in BOOLEAN
  <2>1. PICK m \in Records : StartWrite("window", m)
    <3>1. /\ Message("text", "user", "server", <<>>) \in Records
          /\ Message("text", "user", "server", line) \in Records
      BY PayloadTypes, CreatedTypes DEF Types, Parties
    <3> QED BY <3>1 DEF Enter, Records
  <2> QED BY <1>1, <2>1, Writes DEF Threads
<1>3. BoundTypes'
  BY WireAssumption DEF Enter, BoundTypes, TypeInv, WireAssumption
<1> QED BY <1>1, <1>2, <1>3 DEF TypeInv, WireTypes, ScreenTypes, PingTypes, pingVars

LEMMA LineStep ==
  ASSUME TypeInv, NEW t \in Threads, CopyLine(t) \/ CountLine(t)
  PROVE  TypeInv'
<1>1. UNCHANGED <<wireVars, pingVars, bounds>> /\ ThreadTypes /\ ScreenTypes
  BY DEF CopyLine, CountLine, TypeInv
<1>2. LineOf(t) \in Payloads
  BY <1>1, PayloadTypes DEF LineOf, ThreadTypes, ScreenTypes, Threads
<1>3. CASE CopyLine(t)
  <2>1. ThreadTypes'
    BY <1>1, <1>3, Moves DEF CopyLine, Points
  <2>2. raced' \in BOOLEAN
    BY <1>3, Zenon DEF CopyLine
  <2>3. ScreenTypes'
    BY <1>1, <1>2, <1>3, <2>2 DEF CopyLine, ScreenTypes
  <2> QED BY <1>1, <2>1, <2>3
          DEF TypeInv, WireTypes, PingTypes, BoundTypes, wireVars, pingVars, bounds
<1>4. CASE CountLine(t)
  <2>1. ThreadTypes'
    <3>1. Unparsable \in Records
      BY DEF Records
    <3> QED BY <1>1, <1>4, <3>1, Moves DEF CountLine, Points
  <2>2. added' \in Seq(Payloads) /\ input' \in Lines
    BY <1>1, <1>2, <1>4, WireAssumption DEF CountLine, ScreenTypes, WireAssumption
  <2>3. ScreenTypes'
    BY <1>1, <1>4, <2>2, ScreenIndex DEF CountLine, ScreenTypes
  <2> QED BY <1>1, <2>1, <2>3
          DEF TypeInv, WireTypes, PingTypes, BoundTypes, wireVars, pingVars, bounds
<1> QED BY <1>3, <1>4

LEMMA TypeStep == TypeInv /\ [Next]_vars => TypeInv'
<1> SUFFICES ASSUME TypeInv, [Next]_vars PROVE TypeInv'
  OBVIOUS
<1>1. CASE UNCHANGED vars
  BY <1>1 DEF vars, TypeInv, ThreadTypes, WireTypes, ScreenTypes, PingTypes, BoundTypes, wireVars,
              screenVars, pingVars, bounds
<1>2. ASSUME NEW t \in Threads, Runs(t) PROVE TypeInv'
  BY <1>2, WriteStep, HandlerStep, ReceiverStep, SenderStep, LineStep DEF Runs
<1> QED BY <1>1, <1>2, SenderStep, WindowStep DEF Next

(* Whatever the user types and uninitialised memory holds, what is read and  *)
(* shown has its type, and no more answers are owed than pings were sent.    *)
THEOREM WireTypeCorrect == Spec => []TypeOK
<1>1. TypeInv => TypeOK
  BY WireAssumption
     DEF TypeInv, ThreadTypes, WireTypes, ScreenTypes, PingTypes, BoundTypes, TypeOK, Points,
         Records, WireAssumption
<1> QED BY <1>1, TypeInitial, TypeStep, PTL DEF Spec

-----------------------------------------------------------------------------
(* Who is where: only the handler and the receiving thread handle a message, *)
(* only the window and the receiving thread add lines.                       *)
Placed == /\ \A t \in Threads : pc[t] \in {"copy", "count"} => t \in {"window", "receiver"}
          /\ pc["pinger"] \in {"idle", "write", "sent", "sleep"}

(* Between the reading and the handling of a message nobody else touches it. *)
Parsed(t) == (pc[t] = "handle" /\ taken[End(t)] # Unparsable) => msg[t] = taken[End(t)]

(* While the pinger has not begun to wait, no answer has been handled but an *)
(* early one.                                                                *)
Alarms == /\ pc["pinger"] \in {"write", "sent"} => owed > 0 \/ early
          /\ AlarmFounded

(* A thread that adds a line alone has written it to where the next one goes. *)
Shown == ~raced => /\ \A t, u \in Threads : Adding(t) /\ Adding(u) => t = u
                   /\ \A t \in Threads : Adding(t) => screen.lines[screen.count] = LineOf(t)

WireInv == TypeInv /\ Placed /\ Parsed("handler") /\ Parsed("receiver") /\ Alarms /\ Shown
           /\ ScreenInOrder

(* A thread that writes or goes on leaves the others where they are. *)
LEMMA GotoFacts ==
  ASSUME ThreadTypes, NEW t \in Threads, NEW point \in Points, Goto(t, point)
  PROVE  pc'[t] = point /\ \A u \in Threads \ {t} : pc'[u] = pc[u]
BY DEF ThreadTypes, Goto

LEMMA MsgFacts ==
  ASSUME ThreadTypes, NEW t \in Threads, NEW m, msg' = [msg EXCEPT ![t] = m]
  PROVE  msg'[t] = m /\ \A u \in Threads \ {t} : msg'[u] = msg[u]
BY DEF ThreadTypes

(* What the steps of thread t have in common: the others stay where they are *)
(* and keep their messages.                                                  *)
Acts(t) == \A u \in Threads \ {t} : pc'[u] = pc[u] /\ msg'[u] = msg[u]

LEMMA WriteActs ==
  ASSUME ThreadTypes, NEW t \in Threads, NEW m, StartWrite(t, m)
  PROVE  Acts(t) /\ pc'[t] = "write" /\ msg'[t] = m
BY GotoFacts, MsgFacts DEF StartWrite, Points, Acts

(* Init satisfies it. *)
LEMMA WireInitial == Init => WireInv
<1> SUFFICES ASSUME Init PROVE WireInv
  OBVIOUS
<1>1. /\ \A t \in Threads : pc[t] \in {"read", "idle"}
      /\ pc["pinger"] = "idle"
  BY DEF Init, Threads
<1>2. Len(added) = 0 /\ screen.count = 0 /\ added = <<>>
  BY DEF Init
<1>3. 0 % ScreenSize = 0
  BY WireAssumption DEF WireAssumption
<1>4. ScreenInOrder
  BY <1>2, <1>3 DEF ScreenInOrder
<1>5. Placed /\ Parsed("handler") /\ Parsed("receiver") /\ Alarms /\ Shown
  BY <1>1 DEF Placed, Parsed, Alarms, AlarmFounded, Shown, Adding, Threads
<1> QED BY <1>4, <1>5, TypeInitial DEF WireInv

-----------------------------------------------------------------------------
(* Every step but a reading is a step of one thread that does not begin to   *)
(* handle a message and takes none from another.                             *)
Works(t) == /\ Acts(t) /\ pc'[t] # "handle"
            /\ \A x \in {"handler", "receiver"} \ {t} : taken'[End(x)] = taken[End(x)]

LEMMA WriteWorks ==
  ASSUME ThreadTypes, NEW t \in Threads, NEW m, StartWrite(t, m), UNCHANGED taken
  PROVE  Works(t) /\ pc'[t] = "write"
BY WriteActs DEF Works

LEMMA FinishWorks ==
  ASSUME ThreadTypes, NEW t \in Threads, FinishWrite(t)
  PROVE  Works(t) /\ pc[t] = "write" /\ pc'[t] = AfterWrite[t]
<1>1. AfterWrite[t] \in Points \ {"handle"} /\ Goto(t, AfterWrite[t])
  BY DEF FinishWrite, AfterWrite, Threads, Points
<1>2. \A u \in Threads \ {t} : msg'[u] = msg[u]
  BY DEF FinishWrite, ThreadTypes
<1> QED BY <1>1, <1>2, GotoFacts DEF FinishWrite, Works, Acts

LEMMA HandlerWorks ==
  ASSUME TypeInv, HandlerHandles
  PROVE  Works("handler") /\ pc'["handler"] \in {"write", "read"}
<1>1. ThreadTypes /\ "handler" \in Threads /\ WireTypes
  BY DEF TypeInv, Threads
<1>2. taken'[End("receiver")] = taken[End("receiver")]
  BY <1>1 DEF HandlerHandles, End, ServerEnd, WireTypes
<1>3. CASE StartWrite("handler", Message("ack", "server", "server", AckText))
  BY <1>1, <1>2, <1>3, WriteActs DEF Works
<1>4. CASE Goto("handler", "read") /\ UNCHANGED msg
  BY <1>1, <1>2, <1>4, GotoFacts DEF Works, Acts, Points
<1> QED BY <1>3, <1>4 DEF HandlerHandles

LEMMA ReceiverWorks ==
  ASSUME TypeInv, ReceiverHandles
  PROVE  /\ Works("receiver") /\ pc["receiver"] = "handle"
         /\ pc'["receiver"] \in {"write", "read", "copy"}
<1>1. ThreadTypes /\ "receiver" \in Threads /\ WireTypes
  BY DEF TypeInv, Threads
<1>2. taken'[End("handler")] = taken[End("handler")] /\ pc["receiver"] = "handle"
  BY <1>1 DEF ReceiverHandles, End, ServerEnd, WireTypes
<1>3. CASE StartWrite("receiver", Message("ack", "user", "server", AckText))
  BY <1>1, <1>2, <1>3, WriteActs DEF Works
<1>4. CASE Goto("receiver", "read") /\ msg' = [msg EXCEPT !["receiver"] = Unparsable]
  BY <1>1, <1>2, <1>4, GotoFacts, MsgFacts DEF Works, Acts, Points
<1>5. CASE Goto("receiver", "copy") /\ UNCHANGED msg
  BY <1>1, <1>2, <1>5, GotoFacts DEF Works, Acts, Points
<1> QED BY <1>3, <1>4, <1>5 DEF ReceiverHandles

LEMMA LineWorks ==
  ASSUME ThreadTypes, NEW t \in Threads, CopyLine(t) \/ CountLine(t)
  PROVE  /\ Works(t) /\ pc[t] \in {"copy", "count"}
         /\ CopyLine(t) => pc'[t] = "count" /\ msg' = msg
         /\ CountLine(t) => pc[t] = "count" /\ pc'[t] = IF t = "window" THEN "idle" ELSE "read"
<1>1. CASE CopyLine(t)
  <2>1. pc[t] = "copy" /\ Goto(t, "count") /\ UNCHANGED <<msg, taken>>
    BY <1>1 DEF CopyLine, wireVars
  <2>2. pc'[t] = "count" /\ ~CountLine(t)
    BY <2>1, GotoFacts DEF CountLine, Adding, Points
  <2> QED BY <2>1, <2>2, GotoFacts DEF Works, Acts, Points
<1>2. CASE CountLine(t)
  <2> DEFINE point == IF t = "window" THEN "idle" ELSE "read"
  <2>1. /\ pc[t] = "count" /\ Goto(t, point) /\ msg' = [msg EXCEPT ![t] = Unparsable]
        /\ UNCHANGED taken /\ point \in Points \ {"handle"}
    BY <1>2 DEF CountLine, Adding, wireVars, Points
  <2> HIDE DEF point
  <2>2. ~CopyLine(t)
    BY <2>1 DEF CopyLine
  <2>3. pc'[t] = point
    BY <2>1, GotoFacts
  <2>4. Works(t)
    BY <2>1, GotoFacts, MsgFacts DEF Works, Acts
  <2> QED BY <2>1, <2>2, <2>3, <2>4 DEF point
<1> QED BY <1>1, <1>2

LEMMA SenderWorks ==
  ASSUME ThreadTypes
  PROVE  /\ RouterSends => Works("router") /\ pc'["router"] = "write"
         /\ PingerSends => Works("pinger") /\ pc'["pinger"] = "write"
         /\ PingerResets => Works("pinger") /\ pc'["pinger"] = "sleep"
         /\ PingerWakes => Works("pinger") /\ pc'["pinger"] = "idle"
         /\ \A line : Enter(line) => /\ Works("window") /\ pc["window"] = "idle"
                                     /\ pc'["window"] = "write"
<1>0. {"router", "pinger", "window"} \subseteq Threads
  BY DEF Threads
<1>1. RouterSends => Works("router") /\ pc'["router"] = "write"
  BY <1>0, WriteWorks DEF RouterSends
<1>2. PingerSends => Works("pinger") /\ pc'["pinger"] = "write"
  BY <1>0, WriteWorks DEF PingerSends
<1>3. /\ PingerResets => Works("pinger") /\ pc'["pinger"] = "sleep"
      /\ PingerWakes => Works("pinger") /\ pc'["pinger"] = "idle"
  BY <1>0, GotoFacts DEF PingerResets, PingerWakes, Works, Acts, wireVars, Points
<1>4. ASSUME NEW line, Enter(line)
      PROVE  Works("window") /\ pc["window"] = "idle" /\ pc'["window"] = "write"
  BY <1>0, <1>4, WriteWorks DEF Enter
<1> QED BY <1>1, <1>2, <1>3, <1>4

LEMMA ReadFacts ==
  ASSUME TypeInv
  PROVE  /\ HandlerReads => /\ Acts("handler") /\ pc'["handler"] = "handle"
                            /\ msg'["handler"] = Parse(msg["handler"], Head(sent["server"]), buffer)
                            /\ taken' = [taken EXCEPT !["server"] = Head(sent["server"])]
                            /\ Head(sent["server"]) \in Records
         /\ ReceiverReads => /\ Acts("receiver") /\ pc'["receiver"] = "handle"
                             /\ msg'["receiver"] = Parse(msg["receiver"],
                                                         Head(sent["client"]), <<>>)
                             /\ taken' = [taken EXCEPT !["client"] = Head(sent["client"])]
                             /\ Head(sent["client"]) \in Records /\ pc["receiver"] = "read"
<1>1. ThreadTypes /\ WireTypes /\ {"handler", "receiver"} \subseteq Threads
  BY DEF TypeInv, Threads
<1>2. ASSUME HandlerReads
      PROVE  /\ Goto("handler", "handle") /\ Head(sent["server"]) \in Records
             /\ msg' = [msg EXCEPT !["handler"] =
                           Parse(msg["handler"], Head(sent["server"]), buffer)]
             /\ taken' = [taken EXCEPT !["server"] = Head(sent["server"])]
  BY <1>1, <1>2, Takes DEF HandlerReads
<1>3. ASSUME ReceiverReads
      PROVE  /\ Goto("receiver", "handle") /\ Head(sent["client"]) \in Records
             /\ pc["receiver"] = "read"
             /\ msg' = [msg EXCEPT !["receiver"] =
                           Parse(msg["receiver"], Head(sent["client"]), <<>>)]
             /\ taken' = [taken EXCEPT !["client"] = Head(sent["client"])]
  BY <1>1, <1>3, Takes DEF ReceiverReads
<1>4. ASSUME NEW t \in Threads, NEW m, Goto(t, "handle"), msg' = [msg EXCEPT ![t] = m]
      PROVE  Acts(t) /\ pc'[t] = "handle" /\ msg'[t] = m
  BY <1>1, <1>4, GotoFacts, MsgFacts DEF Acts, Points
<1>5. ASSUME HandlerReads
      PROVE  /\ Acts("handler") /\ pc'["handler"] = "handle"
             /\ msg'["handler"] = Parse(msg["handler"], Head(sent["server"]), buffer)
  BY <1>1, <1>2, <1>4, <1>5
<1>6. ASSUME ReceiverReads
      PROVE  /\ Acts("receiver") /\ pc'["receiver"] = "handle"
             /\ msg'["receiver"] = Parse(msg["receiver"], Head(sent["client"]), <<>>)
  BY <1>1, <1>3, <1>4, <1>6
<1> QED BY <1>2, <1>3, <1>5, <1>6

(* The receiving thread's and the handler's messages are as they were sent. *)
LEMMA ParsedStep ==
  ASSUME TypeInv, Parsed("handler"), Parsed("receiver"), [Next]_vars
  PROVE  Parsed("handler")' /\ Parsed("receiver")'
<1>1. ThreadTypes /\ WireTypes /\ {"handler", "receiver"} \subseteq Threads
  BY DEF TypeInv, Threads
<1>2. ASSUME NEW t \in Threads, Works(t) PROVE Parsed("handler")' /\ Parsed("receiver")'
  BY <1>1, <1>2 DEF Works, Acts, Parsed
<1>3. CASE HandlerReads
  <2>1. /\ msg["handler"] \in Records /\ buffer \in Seq(Chars) /\ Head(sent["server"]) \in Records
        /\ End("handler") = "server" /\ End("receiver") = "client" /\ "handler" # "receiver"
    BY <1>1, <1>3, ReadFacts DEF ThreadTypes, WireTypes, End, ServerEnd
  <2>2. taken'["server"] = Head(sent["server"]) /\ taken'["client"] = taken["client"]
    BY <1>1, <1>3, ReadFacts DEF WireTypes
  <2> QED BY <1>1, <1>3, <2>1, <2>2, ReadFacts, ParseIsExact DEF Parsed, Acts
<1>4. CASE ReceiverReads
  <2>1. /\ msg["receiver"] \in Records /\ <<>> \in Seq(Chars) /\ Head(sent["client"]) \in Records
        /\ End("handler") = "server" /\ End("receiver") = "client" /\ "handler" # "receiver"
    BY <1>1, <1>4, ReadFacts DEF ThreadTypes, End, ServerEnd
  <2>2. taken'["client"] = Head(sent["client"]) /\ taken'["server"] = taken["server"]
    BY <1>1, <1>4, ReadFacts DEF WireTypes
  <2> QED BY <1>1, <1>4, <2>1, <2>2, ReadFacts, ParseIsExact DEF Parsed, Acts
<1>5. CASE UNCHANGED vars
  BY <1>5 DEF vars, wireVars, Parsed
<1>6. ASSUME NEW t \in Threads, Runs(t) PROVE Parsed("handler")' /\ Parsed("receiver")'
  BY <1>1, <1>2, <1>3, <1>4, <1>6, FinishWorks, HandlerWorks, ReceiverWorks, LineWorks, SenderWorks
     DEF Runs
<1>7. RouterSends \/ PingerSends \/ PingerWakes => Parsed("handler")' /\ Parsed("receiver")'
  BY <1>1, <1>2, SenderWorks DEF Threads
<1>8. ASSUME NEW line, Enter(line) PROVE Parsed("handler")' /\ Parsed("receiver")'
  BY <1>1, <1>2, <1>8, SenderWorks DEF Threads
<1> QED BY <1>5, <1>6, <1>7, <1>8 DEF Next

LEMMA PlacedStep ==
  ASSUME TypeInv, Placed, [Next]_vars
  PROVE  Placed'
<1>1. ThreadTypes /\ {"handler", "receiver", "pinger", "router", "window"} \subseteq Threads
  BY DEF TypeInv, Threads
<1>2. ASSUME NEW t \in Threads, Acts(t),
             pc'[t] \in {"copy", "count"} => t \in {"window", "receiver"},
             t = "pinger" => pc'[t] \in {"idle", "write", "sent", "sleep"}
      PROVE  Placed'
  BY <1>1, <1>2 DEF Placed, Acts
<1>3. CASE HandlerReads \/ ReceiverReads
  BY <1>1, <1>2, <1>3, ReadFacts
<1>4. CASE HandlerHandles \/ ReceiverHandles
  BY <1>1, <1>2, <1>4, HandlerWorks, ReceiverWorks DEF Works
<1>5. CASE RouterSends \/ PingerSends \/ PingerResets \/ PingerWakes
  BY <1>1, <1>2, <1>5, SenderWorks DEF Works
<1>6. ASSUME NEW line, Enter(line) PROVE Placed'
  BY <1>1, <1>2, <1>6, SenderWorks DEF Works
<1>7. ASSUME NEW t \in Threads, FinishWrite(t) PROVE Placed'
  <2>1. AfterWrite[t] \in {"copy", "count"} => t = "window"
    BY DEF AfterWrite, Threads
  <2>2. t = "pinger" => AfterWrite[t] = "sent"
    BY DEF AfterWrite
  <2> QED BY <1>1, <1>2, <1>7, <2>1, <2>2, FinishWorks DEF Works
<1>8. ASSUME NEW t \in Threads, CopyLine(t) \/ CountLine(t) PROVE Placed'
  <2>1. t \in {"window", "receiver"} /\ t # "pinger" /\ Acts(t)
    BY <1>1, <1>8, LineWorks DEF Placed, Works
  <2> QED BY <1>2, <2>1
<1>9. CASE UNCHANGED vars
  BY <1>9 DEF vars, Placed
<1> QED BY <1>3, <1>4, <1>5, <1>6, <1>7, <1>8, <1>9 DEF Next, Runs

(* An answer is handled before the pinger waits, or is still owed, or has    *)
(* been noticed.                                                             *)
LEMMA AlarmStep ==
  ASSUME TypeInv, Placed, Alarms, [Next]_vars
  PROVE  Alarms'
<1>1. /\ ThreadTypes /\ PingTypes
      /\ {"handler", "receiver", "pinger", "router", "window"} \subseteq Threads
  BY DEF TypeInv, Threads
<1>2. ASSUME UNCHANGED pingVars, \/ pc'["pinger"] \in {pc["pinger"], "idle"}
                                 \/ pc["pinger"] = "write" /\ pc'["pinger"] = "sent"
      PROVE  Alarms'
  BY <1>1, <1>2 DEF Alarms, AlarmFounded, pingVars
<1>3. ASSUME NEW t \in Threads \ {"pinger"}, Acts(t), UNCHANGED pingVars PROVE Alarms'
  BY <1>1, <1>2, <1>3 DEF Acts
<1>4. CASE HandlerReads \/ ReceiverReads
  BY <1>1, <1>3, <1>4, ReadFacts DEF HandlerReads, ReceiverReads
<1>5. CASE HandlerHandles
  BY <1>1, <1>3, <1>5, HandlerWorks DEF Works, HandlerHandles
<1>6. CASE ReceiverHandles
  <2>1. CASE UNCHANGED pingVars
    BY <1>1, <1>3, <1>6, <2>1, ReceiverWorks DEF Works
  <2>2. CASE answer' = TRUE /\ early' = (early \/ pc["pinger"] \in {"write", "sent"})
    <3>1. pc'["pinger"] = pc["pinger"]
      BY <1>1, <1>6, ReceiverWorks DEF Works, Acts
    <3> QED BY <2>2, <3>1 DEF Alarms, AlarmFounded
  <2> QED BY <1>6, <2>1, <2>2 DEF ReceiverHandles
<1>7. CASE RouterSends
  BY <1>1, <1>3, <1>7, SenderWorks DEF Works, RouterSends
<1>8. CASE PingerSends
  <2>1. owed' = owed + 1 /\ owed \in Nat
    BY <1>1, <1>8 DEF PingerSends, PingTypes
  <2>2. pc'["pinger"] = "write"
    BY <1>1, <1>8, SenderWorks
  <2> QED BY <2>1, <2>2 DEF Alarms, AlarmFounded
<1>9. CASE PingerResets
  <2>1. pc["pinger"] = "sent" /\ UNCHANGED <<owed, early>>
    BY <1>9 DEF PingerResets
  <2>2. pc'["pinger"] = "sleep"
    BY <1>1, <1>9, SenderWorks
  <2> QED BY <2>1, <2>2 DEF Alarms, AlarmFounded
<1>10. CASE PingerWakes
  BY <1>1, <1>2, <1>10, SenderWorks DEF PingerWakes
<1>11. ASSUME NEW line, Enter(line) PROVE Alarms'
  BY <1>1, <1>3, <1>11, SenderWorks DEF Works, Enter
<1>12. ASSUME NEW t \in Threads, FinishWrite(t) PROVE Alarms'
  <2>1. UNCHANGED pingVars /\ Acts(t) /\ pc[t] = "write" /\ pc'[t] = AfterWrite[t]
    BY <1>1, <1>12, FinishWorks DEF FinishWrite, Works
  <2>2. CASE t = "pinger"
    BY <1>2, <2>1, <2>2 DEF AfterWrite
  <2> QED BY <1>3, <2>1, <2>2
<1>13. ASSUME NEW t \in Threads, CopyLine(t) \/ CountLine(t) PROVE Alarms'
  <2>1. UNCHANGED pingVars /\ Acts(t) /\ t # "pinger"
    BY <1>1, <1>13, LineWorks DEF CopyLine, CountLine, Works, Placed
  <2> QED BY <1>3, <2>1
<1>14. CASE UNCHANGED vars
  BY <1>2, <1>14 DEF vars
<1> QED BY <1>4, <1>5, <1>6, <1>7, <1>8, <1>9, <1>10, <1>11, <1>12, <1>13, <1>14 DEF Next, Runs

-----------------------------------------------------------------------------
(* Division leaves one remainder. *)
LEMMA Remainder ==
  \A k \in Nat, n \in Nat \ {0} :
      k = n * (k \div n) + (k % n) /\ k \div n \in Nat /\ k % n \in 0..(n - 1)
OBVIOUS

LEMMA OneRemainder ==
  ASSUME NEW k \in Nat, NEW n \in Nat \ {0}, NEW q \in Nat, NEW r \in 0..(n - 1), k = n * q + r
  PROVE  k % n = r
OBVIOUS

(* What the count of the screen becomes when a line is added. *)
LEMMA NextCount ==
  ASSUME NEW k \in Nat
  PROVE  (k + 1) % ScreenSize = IF (k % ScreenSize) + 1 = ScreenSize THEN 0
                                ELSE (k % ScreenSize) + 1
<1> DEFINE n == ScreenSize
           q == k \div n
           r == k % n
<1>0. n \in Nat \ {0}
  BY WireAssumption DEF WireAssumption
<1>1. k = n * q + r /\ q \in Nat /\ r \in 0..(n - 1)
  BY <1>0, Remainder
<1>2. CASE r + 1 = n
  <2>1. k + 1 = n * (q + 1) + 0 /\ q + 1 \in Nat /\ 0 \in 0..(n - 1) /\ k + 1 \in Nat
    <3> HIDE DEF n, q, r
    <3> QED BY <1>0, <1>1, <1>2
  <2>2. (k + 1) % n = 0
    <3> HIDE DEF n, q, r
    <3> QED BY <1>0, <2>1, OneRemainder
  <2> QED BY <1>2, <2>2
<1>3. CASE r + 1 # n
  <2>1. k + 1 = n * q + (r + 1) /\ r + 1 \in 0..(n - 1) /\ k + 1 \in Nat /\ q \in Nat
    <3> HIDE DEF n, q, r
    <3> QED BY <1>0, <1>1, <1>3
  <2>2. (k + 1) % n = r + 1
    <3> HIDE DEF n, q, r
    <3> QED BY <1>0, <2>1, OneRemainder
  <2> QED BY <1>3, <2>2
<1> QED BY <1>2, <1>3

(* Steps that add no line. *)
LEMMA ScreenKept ==
  ASSUME Shown, ScreenInOrder, UNCHANGED <<screen, added, raced>>,
         \A t \in Threads : Adding(t)' => Adding(t) /\ LineOf(t)' = LineOf(t)
  PROVE  Shown' /\ ScreenInOrder'
BY DEF Shown, ScreenInOrder

LEMMA CopyStep ==
  ASSUME TypeInv, Placed, Shown, ScreenInOrder, NEW t \in Threads, CopyLine(t)
  PROVE  Shown' /\ ScreenInOrder'
<1> DEFINE c == screen.count
<1>1. /\ ThreadTypes /\ ScreenTypes /\ c \in 0..(ScreenSize - 1)
      /\ screen = [lines |-> screen.lines, count |-> c]
      /\ screen.lines \in [0..(ScreenSize - 1) -> Payloads]
  BY DEF TypeInv, ScreenTypes
<1>2. /\ screen' = [screen EXCEPT !.lines[c] = LineOf(t)] /\ UNCHANGED <<msg, input, added>>
      /\ pc[t] = "copy" /\ (raced' <=> (raced \/ \E u \in Threads \ {t} : Adding(u)))
  BY DEF CopyLine
<1>3. /\ screen'.count = c /\ screen'.lines[c] = LineOf(t)
      /\ \A i \in 0..(c - 1) : screen'.lines[i] = screen.lines[i]
  <2> DEFINE shown == screen.lines
  <2>1. screen' = [lines |-> [shown EXCEPT ![c] = LineOf(t)], count |-> c]
    BY <1>1, <1>2
  <2>2. /\ [shown EXCEPT ![c] = LineOf(t)][c] = LineOf(t)
        /\ \A i \in 0..(c - 1) : [shown EXCEPT ![c] = LineOf(t)][i] = shown[i]
    BY <1>1, WireAssumption DEF WireAssumption
  <2> HIDE DEF shown
  <2> QED BY <2>1, <2>2 DEF shown
<1>4. \A u \in Threads : LineOf(u)' = LineOf(u)
  BY <1>2 DEF LineOf
<1>5. \A u \in Threads \ {t} : Adding(u)' => Adding(u)
  BY <1>1, LineWorks DEF Works, Acts, Adding
<1>6. Shown'
  BY <1>2, <1>3, <1>4, <1>5 DEF Shown
<1>7. ScreenInOrder'
  BY <1>2, <1>3 DEF ScreenInOrder
<1> QED BY <1>6, <1>7

LEMMA CountStep ==
  ASSUME TypeInv, Placed, Shown, ScreenInOrder, NEW t \in Threads, CountLine(t)
  PROVE  Shown' /\ ScreenInOrder'
<1> DEFINE c == screen.count
           k == Len(added)
<1>1. /\ ThreadTypes /\ ScreenTypes /\ c \in 0..(ScreenSize - 1) /\ k \in Nat
      /\ added \in Seq(Payloads) /\ ScreenSize \in Nat \ {0}
  BY WireAssumption DEF TypeInv, ScreenTypes, WireAssumption
<1>2. LineOf(t) \in Payloads
  BY <1>1, PayloadTypes DEF LineOf, ThreadTypes, ScreenTypes, Threads
<1>3. /\ \/ screen' = [screen EXCEPT !.count = (c + 1) % ScreenSize]
         \/ \E u \in Threads \ {t} : Adding(u)
      /\ added' = Append(added, LineOf(t)) /\ Adding(t) /\ UNCHANGED raced
  BY DEF CountLine
<1>4. SUFFICES ASSUME ~raced PROVE Shown' /\ ScreenInOrder'
  BY <1>3 DEF Shown, ScreenInOrder
<1>5. /\ \A u \in Threads : Adding(u) => u = t
      /\ screen.lines[c] = LineOf(t)
  BY <1>3, <1>4 DEF Shown
<1>6. /\ screen'.count = (c + 1) % ScreenSize /\ screen'.lines = screen.lines
  BY <1>1, <1>3, <1>5 DEF ScreenTypes
<1>7. \A u \in Threads : ~Adding(u)'
  BY <1>1, <1>5, LineWorks DEF Works, Acts, Adding
<1>8. Shown'
  BY <1>7 DEF Shown
<1>9. /\ c = k % ScreenSize
      /\ \A i \in 0..(c - 1) : screen.lines[i] = added[k - c + 1 + i]
  BY <1>4 DEF ScreenInOrder
<1>10. /\ Len(added') = k + 1 /\ added'[k + 1] = LineOf(t)
       /\ \A i \in 1..k : added'[i] = added[i]
  BY <1>1, <1>2, <1>3
<1>11. /\ screen'.count = Len(added') % ScreenSize
       /\ screen'.count = IF c + 1 = ScreenSize THEN 0 ELSE c + 1
  <2>1. (k + 1) % ScreenSize = IF c + 1 = ScreenSize THEN 0 ELSE c + 1
    BY <1>1, <1>9, NextCount
  <2>2. (c + 1) % ScreenSize = IF c + 1 = ScreenSize THEN 0 ELSE c + 1
    <3>1. c % ScreenSize = c /\ c \in Nat
      BY <1>1
    <3> QED BY <1>1, <3>1, NextCount
  <2> QED BY <1>6, <1>10, <2>1, <2>2
<1>12. c <= k
  <2>1. k = ScreenSize * (k \div ScreenSize) + c /\ k \div ScreenSize \in Nat
    BY <1>1, <1>9, Remainder
  <2>2. ScreenSize * (k \div ScreenSize) \in Nat
    BY <1>1, <2>1
  <2> QED BY <1>1, <2>1, <2>2
<1>13. ASSUME NEW i \in 0..(screen'.count - 1)
       PROVE  screen'.lines[i] = added'[Len(added') - screen'.count + 1 + i]
  <2>1. /\ screen'.count = c + 1 /\ i \in 0..c
        /\ Len(added') - screen'.count + 1 + i = k - c + 1 + i
    <3>1. c + 1 # ScreenSize
      BY <1>11, <1>13
    <3>2. screen'.count = c + 1
      BY <1>11, <3>1
    <3> HIDE DEF c, k
    <3> QED BY <1>1, <1>10, <1>13, <3>2
  <2>2. CASE i = c
    <3>1. k - c + 1 + i = k + 1
      BY <1>1, <2>2
    <3> QED BY <1>5, <1>6, <1>10, <2>1, <2>2, <3>1
  <2>3. CASE i # c
    <3>1. i \in 0..(c - 1) /\ k - c + 1 + i \in 1..k
      BY <1>1, <1>12, <2>1, <2>3
    <3> QED BY <1>6, <1>9, <1>10, <2>1, <3>1
  <2> QED BY <2>2, <2>3
<1> QED BY <1>8, <1>11, <1>13 DEF ScreenInOrder

LEMMA ScreenStep ==
  ASSUME TypeInv, Placed, Shown, ScreenInOrder, [Next]_vars
  PROVE  Shown' /\ ScreenInOrder'
<1>1. ThreadTypes /\ {"handler", "receiver", "pinger", "router", "window"} \subseteq Threads
  BY DEF TypeInv, Threads
<1>2. ASSUME NEW t \in Threads, Acts(t), pc'[t] # "count", UNCHANGED <<screen, added, raced>>,
             UNCHANGED input \/ pc["window"] = "idle", t = "receiver" => pc[t] # "count",
             t = "window" => pc[t] # "count"
      PROVE  Shown' /\ ScreenInOrder'
  <2>1. ASSUME NEW u \in Threads, Adding(u)' PROVE Adding(u) /\ LineOf(u)' = LineOf(u)
    <3>1. u # t /\ pc[u] = "count" /\ u \in {"window", "receiver"}
      BY <1>2, <2>1 DEF Acts, Adding, Placed
    <3>2. CASE u = "window"
      BY <1>2, <3>1, <3>2 DEF LineOf, Adding
    <3>3. CASE u = "receiver"
      BY <1>1, <1>2, <3>1, <3>3 DEF LineOf, Adding, Acts
    <3> QED BY <3>1, <3>2, <3>3
  <2> QED BY <1>2, <2>1, ScreenKept
<1>3. CASE HandlerReads \/ ReceiverReads
  <2>1. UNCHANGED <<screen, added, raced, input>>
    BY <1>3 DEF HandlerReads, ReceiverReads, screenVars
  <2> QED BY <1>1, <1>2, <1>3, <2>1, ReadFacts
<1>4. CASE HandlerHandles \/ ReceiverHandles
  <2>1. UNCHANGED <<screen, added, raced, input>>
    BY <1>4 DEF HandlerHandles, ReceiverHandles, screenVars
  <2> QED BY <1>1, <1>2, <1>4, <2>1, HandlerWorks, ReceiverWorks DEF Works
<1>5. CASE RouterSends \/ PingerSends \/ PingerResets \/ PingerWakes
  <2>1. UNCHANGED <<screen, added, raced, input>>
    BY <1>5 DEF RouterSends, PingerSends, PingerResets, PingerWakes, screenVars
  <2> QED BY <1>1, <1>2, <1>5, <2>1, SenderWorks DEF Works
<1>6. ASSUME NEW line, Enter(line) PROVE Shown' /\ ScreenInOrder'
  <2>1. UNCHANGED <<screen, added, raced>>
    BY <1>6 DEF Enter
  <2> QED BY <1>1, <1>2, <1>6, <2>1, SenderWorks DEF Works
<1>7. ASSUME NEW t \in Threads, FinishWrite(t) PROVE Shown' /\ ScreenInOrder'
  <2>1. AfterWrite[t] # "count"
    BY DEF AfterWrite, Threads
  <2>2. UNCHANGED <<screen, added, raced, input>>
    BY <1>7 DEF FinishWrite, screenVars
  <2> QED BY <1>1, <1>2, <1>7, <2>1, <2>2, FinishWorks DEF Works
<1>8. ASSUME NEW t \in Threads, CopyLine(t) \/ CountLine(t) PROVE Shown' /\ ScreenInOrder'
  BY <1>8, CopyStep, CountStep
<1>9. CASE UNCHANGED vars
  BY <1>9, ScreenKept DEF vars, screenVars, Adding, LineOf
<1> QED BY <1>3, <1>4, <1>5, <1>6, <1>7, <1>8, <1>9 DEF Next, Runs

LEMMA WireInvariant == Spec => []WireInv
<1>1. WireInv /\ [Next]_vars => WireInv'
  BY TypeStep, PlacedStep, ParsedStep, AlarmStep, ScreenStep DEF WireInv
<1> QED BY <1>1, WireInitial, PTL DEF Spec

(* Every message is handled as it was written, whatever the buffer and the   *)
(* message held before (protocol.c:52-60, 69-77; server.c:271-280).          *)
THEOREM MessagesAreParsedAsWritten == Spec => []ParsedAsWritten
<1>1. WireInv => ParsedAsWritten
  BY DEF WireInv, Parsed, ParsedAsWritten
<1> QED BY <1>1, WireInvariant, PTL

(* The window shows the last lines in their order, unless two threads have   *)
(* added lines at the same time (client_gui.c:263-276).                      *)
THEOREM ScreenKeepsOrder == Spec => []ScreenInOrder
<1>1. WireInv => ScreenInOrder
  BY DEF WireInv
<1> QED BY <1>1, WireInvariant, PTL

(* The alarm about a missing answer is false only for an answer that was     *)
(* handled before the pinger began to wait (client.c:140-156).               *)
THEOREM AlarmsAreFounded == Spec => []AlarmFounded
<1>1. WireInv => AlarmFounded
  BY DEF WireInv, Alarms
<1> QED BY <1>1, WireInvariant, PTL
=============================================================================
