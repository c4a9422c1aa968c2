---------------------------- MODULE SessionStream ----------------------------
(***************************************************************************)
(* One session of src/src/WebsocketSink.cpp and the viewer it writes to:   *)
(* WriteEvent puts strings and events into the session's buffer, Flush     *)
(* sends it as a message, and the viewer reads message by message.         *)
(*                                                                         *)
(* The connection holds: what happens to sessions whose connection moves   *)
(* or ends is the subject of WebsocketSink.  The browser puts the          *)
(* fragments of a message together, so a message is what was written       *)
(* between WebbyBeginSocketFrame and WebbyEndSocketFrame.  The hash of a   *)
(* pointer is its handle; no two strings have the same one.                *)
(***************************************************************************)
EXTENDS Protocol, FiniteSets

CONSTANTS Handles,     \* ysStringHandle of the strings
          Events,      \* what the program emits
          BufSize,     \* Session::kBufSize
          MaxEvents,   \* bound: events emitted
          NoEvent      \* no event was read yet

\* what can be emitted: EventData, without strings, which the session adds
AllEvents ==
  [type : {"header"}, frequency : Int, start : Int]
  \cup [type : {"tick"}, when : Int]
  \cup [type : {"region"}, line : Int, name : Handles, file : Handles, start : Int, end : Int]
  \cup [type : {"counter_set"}, line : Int, name : Handles, file : Handles, when : Int,
        value : Int]
  \cup [type : {"counter_add"}, name : Handles, amount : Int]

\* The buffer holds any event but a string.
ASSUME StreamAssumption ==
  /\ Handles \subseteq Nat /\ StrLen \in [Handles -> Nat]
  /\ BufSize \in Nat /\ BufSize >= 29 /\ MaxEvents \in Nat
  /\ Events \subseteq AllEvents /\ Garbage \notin Int

VARIABLES session,   \* the Session: buffer, _bufpos and _table; out is what
                     \* it has sent and the viewer has not received; error
                     \* says that the last WriteSessionEvent gave up
          message,   \* the message onmessage is reading
          pos,       \* YsEventReader._pos
          strings,   \* YsState._strings
          failed,    \* YsEventReader._error was set
          emitted,   \* history: events passed to WriteEvent
          got        \* history: events the viewer has seen

viewerVars == <<message, pos, strings, failed, got>>
vars == <<session, viewerVars, emitted>>

Init ==
  /\ session = [buffer |-> << >>, bufpos |-> 0, table |-> {}, out |-> << >>,
                 error |-> FALSE]
  /\ message = << >> /\ pos = 0 /\ strings = << >> /\ failed = FALSE
  /\ emitted = << >> /\ got = << >>

-----------------------------------------------------------------------------
(* The session *)

\* the byte of _table and the bit in it: 1 << (index & 5)
Bit(handle) ==
  LET index == handle % 2 ^ 15
  IN  <<index \div 8, (index % 2) + 4 * ((index \div 4) % 2)>>

\* for comparison: the message is built and not sent
FlushSessionDrops(s) == [s EXCEPT !.buffer = << >>, !.bufpos = 0]

FlushSession(s) ==
  IF s.bufpos = 0 THEN s
  ELSE [s EXCEPT !.out = Append(@, s.buffer), !.buffer = << >>, !.bufpos = 0]

\* make room for so many bytes, if that is possible at all
MakeRoom(s, size) == IF size > BufSize - s.bufpos THEN FlushSession(s) ELSE s

\* what EncodeEvent compares with the room there is: all but a string's bytes
Checked(ev) == IF ev.type # "string" THEN Encode(ev)
               ELSE <<F(5, 1), F(ev.id, 4), F(ev.size, 2)>>

\* EncodeEvent into the rest of the buffer: the event, or an error
Put(s, ev) ==
  IF Size(Checked(ev)) > BufSize - s.bufpos THEN [s EXCEPT !.error = TRUE]
  ELSE [s EXCEPT !.buffer = @ \o Encode(ev), !.bufpos = @ + Size(Encode(ev))]

\* for comparison: the room is measured for the string's bytes alone
WriteSessionStringBytesOnly(s, handle) ==
  LET ev == StringEvent(handle)
      r  == MakeRoom(s, ev.size)
      w  == IF ev.size <= BufSize - r.bufpos THEN Put(r, ev)
            ELSE [r EXCEPT !.out = Append(@, <<F(5, 1), F(handle, 4), F(ev.size, 2),
                                               F(handle, ev.size)>>)]
  IN  IF Bit(handle) \in s.table THEN s
      ELSE IF w.error THEN w ELSE [w EXCEPT !.table = @ \cup {Bit(handle)}]

\* a string the table does not say was sent goes into the buffer, or past it in
\* a message of its own; then the table says so
WriteSessionString(s, handle) ==
  LET ev == StringEvent(handle)
      r  == MakeRoom(s, EncodeSize(ev))
      w  == IF EncodeSize(ev) <= BufSize - r.bufpos THEN Put(r, ev)
            ELSE [r EXCEPT !.out = Append(@, <<F(5, 1), F(handle, 4), F(ev.size, 2),
                                               F(handle, ev.size)>>)]
  IN  IF Bit(handle) \in s.table THEN s
      ELSE IF w.error THEN w ELSE [w EXCEPT !.table = @ \cup {Bit(handle)}]

\* for comparison: the name of the file is not sent
WriteSessionEventNoFile(s, ev) ==
  LET named == IF ev.type \in {"region", "counter_set", "counter_add"}
               THEN WriteSessionString(s, ev.name) ELSE s
  IN  Put(MakeRoom(named, EncodeSize(ev)), ev)

\* the strings of the names, until one fails
WriteNames(s, ev) ==
  LET first == WriteSessionString(s, ev.name)
  IN  CASE ev.type \in {"region", "counter_set"} ->
             IF first.error THEN first ELSE WriteSessionString(first, ev.file)
        [] ev.type = "counter_add" -> first
        [] OTHER -> s

\* the strings an event names, then the event
WriteSessionEvent(s, ev) ==
  LET named == WriteNames(s, ev)
  IN  IF named.error THEN named ELSE Put(MakeRoom(named, EncodeSize(ev)), ev)

\* WriteEvent; a session begins with the header that webby_connected writes
WriteEvent(ev) ==
  /\ Len(emitted) < MaxEvents
  /\ ev.type = "header" <=> emitted = << >>
  /\ session' = WriteSessionEvent([session EXCEPT !.error = FALSE], ev)
  /\ emitted' = Append(emitted, ev)
  /\ UNCHANGED viewerVars

\* Flush, once in every round of the background thread
Flush ==
  /\ session' = FlushSession(session)
  /\ UNCHANGED <<viewerVars, emitted>>

-----------------------------------------------------------------------------
(* The viewer *)

AtEnd == pos >= Size(message)

\* onmessage: a new YsEventReader at the beginning of the next message
Receive ==
  /\ AtEnd /\ session.out # << >>
  /\ message' = Head(session.out) /\ pos' = 0
  /\ session' = [session EXCEPT !.out = Tail(@)]
  /\ UNCHANGED <<strings, failed, emitted, got>>

\* one round of its loop: read, and handleEvent
Read ==
  /\ ~AtEnd
  /\ LET r  == ReadEvent(message, pos)
         ev == r.event
     IN  /\ pos' = r.next
         /\ failed' = (failed \/ ev.type = "unknown")
         /\ strings' = IF ev.type = "string"
                       THEN Append(strings, [id |-> ev.id, string |-> ev.string,
                                             size |-> ev.size])
                       ELSE strings
         /\ got' = IF ev.type \in {"string", "unknown"} THEN got ELSE Append(got, ev)
  /\ UNCHANGED <<session, message, emitted>>

-----------------------------------------------------------------------------
Next == (\E ev \in Events : WriteEvent(ev)) \/ Flush \/ Receive \/ Read

Spec == Init /\ [][Next]_vars

\* The background thread flushes in every round; the viewer handles messages.
FairSpec == Spec /\ WF_vars(Flush) /\ WF_vars(Receive) /\ WF_vars(Read)

-----------------------------------------------------------------------------
(* Properties *)

Names(ev) == CASE ev.type \in {"region", "counter_set"} -> {ev.name, ev.file}
               [] ev.type = "counter_add"               -> {ev.name}
               [] OTHER                                 -> {}
Known == {strings[i].id : i \in DOMAIN strings}

\* A viewer that sees an event has been sent the strings it names, except where
\* it was sent one that has the same bit in the session's table.
NamesKnown ==
  \A i \in DOMAIN got : \A name \in Names(got[i]) : \E k \in Known : Bit(k) = Bit(name)

\* A viewer that sees an event has been sent the strings it names: they are
\* written before it ("flush any strings", WebsocketSink.cpp:218).
NamesAlwaysKnown == \A i \in DOMAIN got : Names(got[i]) \subseteq Known

\* Encoder, EncodeSize and reader agree: no event is given up, and none written
\* behind the end of the buffer, although nothing checks that for the bytes of
\* a string; _bufpos counts what is in the buffer; the reader finds an event
\* wherever it looks.  A string arrives once, in the buffer or past it, with as
\* many of its bytes as 16 bits can say; the table has no bit for two of them.
StreamIntact ==
  /\ ~session.error
  /\ session.bufpos = Size(session.buffer) /\ session.bufpos <= BufSize
  /\ pos <= Size(message) /\ ~failed
  /\ \A i \in DOMAIN strings : /\ strings[i].string = strings[i].id
                               /\ strings[i].size = StrLen[strings[i].id] % 65536
  /\ \A i, j \in DOMAIN strings : Bit(strings[i].id) = Bit(strings[j].id) => i = j

\* The viewer sees the events that were emitted, as they were, once and in order.
Stream == INSTANCE EventStream WITH
  pending <- SubSeq(emitted, Len(got) + 1, Len(emitted)),
  last    <- IF got = << >> THEN NoEvent ELSE got[Len(got)]
ImplementsEventStream == Stream!Spec

\* Every event emitted is seen.
EventsArrive == \A n \in 1 .. MaxEvents : Len(emitted) >= n ~> Len(got) >= n
=============================================================================
