--------------------------- MODULE WebsocketFrames ---------------------------
(***************************************************************************)
(* One open websocket of src/src/webby/webby.c, byte by byte: how frames   *)
(* are found in what arrives, handed to ws_frame and read with WebbyRead,  *)
(* and how WebbyBeginSocketFrame, WebbyWrite and WebbyEndSocketFrame put   *)
(* messages together.  Both share a socket that is switched between        *)
(* blocking and not.                                                       *)
(*                                                                         *)
(* A byte of a header is <<"is", number>>.  Bytes of payloads and of mask  *)
(* keys are named by the frame and the place they belong to; XOR with the  *)
(* right byte of the right key gives the plain byte back.  What the server *)
(* writes of a payload is kept as one piece, <<"data", length>>.           *)
(* Clients may send frames behind each other, and handlers ask for more    *)
(* than a frame has, as webby_frame of WebsocketSink.cpp does; astray says *)
(* that webby has lost its place for one of these reasons.  From then on   *)
(* bytes of any frame are taken for headers, and what they say is left     *)
(* open.  Handlers end the messages they begin.  Closing, by either side,  *)
(* is left to WebbyServer.                                                 *)
(***************************************************************************)
EXTENDS Integers, Sequences, SequencesExt

CONSTANTS Frames,      \* what clients send: [opcode, length, masked]
          BufSize,     \* io_buf.max
          Reads,       \* what ws_frame asks of WebbyRead at a time
          Sizes,       \* what is passed to WebbyWrite
          MaxFrames,   \* bound: frames a client sends, and frames found astray
          MaxMessages, \* bound: messages the server writes
          MaxOperations   \* bound: frames sent and calls of WebbyWrite, together

\* what an int holds of the length of a payload
Lengths == {n \in Nat : n <= 2147483647}

ASSUME FramesAssumption ==
  /\ Frames \subseteq [opcode : {1, 2, 9}, length : Lengths, masked : BOOLEAN]
  /\ BufSize \in Nat /\ BufSize >= 14 /\ Reads \subseteq Nat \ {0} /\ Sizes \subseteq Lengths
  /\ {MaxFrames, MaxMessages, MaxOperations} \subseteq Nat

VARIABLES wire,      \* sent by the client and not received
          buf, left, \* io_buf, and io_data_left of it
          frame,     \* ws_frame; its key has no bytes if it is not masked
          done,      \* body_bytes_read
          pc,        \* "frame" while a frame is handled
          asked,     \* the bytes the handler waits for in WebbyRead, or 0
          taken,     \* what the handler has read of the frame
          astray,    \* why webby looks for frames where none begins
          sock,      \* blocking_count, and the mode of the socket
          opcode,    \* ws_opcode
          writing,   \* between WebbyBeginSocketFrame and WebbyEndSocketFrame
          out,       \* written and not received by the client
          message,   \* the client: length of the message so far, or None
          got,       \* the client: lengths of the messages received
          confused,  \* the client: it met what is no frame, and gives up
          sent,      \* history: the frames sent
          calls,     \* history: frames taken, with or without a call of ws_frame
          ponged,    \* history: was a frame answered with websocket_pong?
          written,   \* history: lengths of the messages written
          writes     \* calls of WebbyWrite

inVars     == <<wire, buf, left, frame, done, pc, asked, taken, astray, calls, ponged>>
outVars    == <<opcode, writing, written, writes>>
clientVars == <<message, got, confused>>
vars == <<inVars, sent, sock, outVars, out, clientVars>>

None == -1

Init ==
  /\ wire = << >> /\ buf = << >> /\ left = 0 /\ done = 0 /\ pc = "idle"
  /\ asked = 0 /\ taken = << >> /\ astray = {} /\ ponged = FALSE
  /\ frame = [opcode |-> 0, length |-> 0, key |-> << >>]
  /\ sock = [count |-> 0, blocking |-> FALSE]
  /\ opcode = 0 /\ writing = FALSE /\ out = << >>
  /\ message = None /\ got = << >> /\ confused = FALSE
  /\ sent = << >> /\ calls = 0 /\ written = << >> /\ writes = 0

Is(n) == <<"is", n>>

\* the number that bytes make, the highest one first
Number(bytes) ==
  LET number[i \in 0 .. Len(bytes)] ==
        IF i = 0 THEN 0 ELSE number[i - 1] * 256 + bytes[i][2]
  IN  number[Len(bytes)]

-----------------------------------------------------------------------------
(* What a client sends and understands: RFC 6455, section 5.2 *)

PlainBytes(k, f) == [p \in 1 .. f.length |-> <<"plain", k, p - 1>>]

\* the header of the k-th frame that is sent
FrameHeader(k, f) ==
  LET bit    == IF f.masked THEN 128 ELSE 0
      length == IF f.length < 126 THEN <<Is(bit + f.length)>>
                ELSE IF f.length < 65536
                THEN <<Is(bit + 126), Is(f.length \div 256), Is(f.length % 256)>>
                ELSE <<Is(bit + 127), Is(0), Is(0), Is(0), Is(0),
                       Is(f.length \div 16777216), Is((f.length \div 65536) % 256),
                       Is((f.length \div 256) % 256), Is(f.length % 256)>>
  IN  <<Is(128 + f.opcode)>> \o length
      \o (IF f.masked THEN [i \in 1 .. 4 |-> <<"key", k, i - 1>>] ELSE << >>)

\* and its payload
Payload(k, f) ==
  IF f.masked THEN [p \in 1 .. f.length |-> <<"hidden", k, p - 1>>] ELSE PlainBytes(k, f)

FrameBytes(k, f) == FrameHeader(k, f) \o Payload(k, f)

SendFrame(f) ==
  /\ Len(sent) < MaxFrames /\ Len(sent) + writes < MaxOperations
  /\ wire' = wire \o FrameBytes(Len(sent) + 1, f)
  /\ sent' = Append(sent, f)
  /\ UNCHANGED <<buf, left, frame, done, pc, asked, taken, astray, calls, ponged>>
  /\ UNCHANGED <<sock, outVars, out, clientVars>>

\* the client takes a frame off out, or finds that it is none; the opcode is
\* that of a message or, inside of one, of a continuation
Receive ==
  /\ out # << >> /\ ~confused
  /\ LET more   == IF out[2][2] = 126 THEN 2 ELSE IF out[2][2] = 127 THEN 8 ELSE 0
         length == IF more = 0 THEN out[2][2] ELSE Number(SubSeq(out, 3, 2 + more))
         fin    == out[1][2] >= 128
         rest   == SubSeq(out, 3 + more, Len(out))
         good   == /\ Len(out) >= 2 + more
                   /\ out[1][2] % 128 \in (IF message = None THEN {1, 2} ELSE {0})
                   /\ length > 0 => rest # << >> /\ rest[1] = <<"data", length>>
         total  == length + (IF message = None THEN 0 ELSE message)
     IN  IF good
         THEN /\ out' = IF length > 0 THEN Tail(rest) ELSE rest
              /\ message' = IF fin THEN None ELSE total
              /\ got' = IF fin THEN Append(got, total) ELSE got
              /\ UNCHANGED confused
         ELSE confused' = TRUE /\ UNCHANGED <<out, message, got>>
  /\ UNCHANGED <<inVars, sent, sock, outVars>>

-----------------------------------------------------------------------------
(* The mode of the socket *)

MakeBlocking(s) == [count |-> s.count + 1, blocking |-> s.count = 0 \/ s.blocking]

\* for comparison: the last one to ask for it is the one who ends it
MakeNonblockingAtOnce(s) == [count |-> s.count - 1, blocking |-> FALSE]

MakeNonblocking(s) == [count |-> s.count - 1, blocking |-> s.count # 1 /\ s.blocking]

-----------------------------------------------------------------------------
(* Frames that arrive *)

Bit(b) == b[2] >= 128

\* the bytes that hold the length, after the second one
LengthBytes(b) == CASE b[2] % 128 = 126 -> 2 [] b[2] % 128 = 127 -> 8 [] OTHER -> 0

HeaderSize(b) == 2 + LengthBytes(b[2]) + (IF Bit(b[2]) THEN 4 ELSE 0)

\* for comparison: the header has to be followed by something
ScansLate(b) == Len(b) >= 2 /\ Len(b) > HeaderSize(b)

\* does scan_websocket_frame find a header in b?
Scans(b) == Len(b) >= 2 /\ Len(b) >= HeaderSize(b)

\* and what it reads there
Scanned(b) ==
  LET more == LengthBytes(b[2])
  IN  [opcode |-> b[1][2] % 16,
       length |-> IF more = 0 THEN b[2][2] % 128 ELSE Number(SubSeq(b, 3, 2 + more)),
       key    |-> SubSeq(b, 3 + more, HeaderSize(b))]

\* static websocket_pong
Pong == <<Is(128), Is(10), Is(0)>>

\* wb_fill_buffer receives what has arrived, n bytes
FillBuffer(n) ==
  /\ pc = "idle" /\ ~writing
  /\ n <= Len(wire) /\ n <= BufSize - Len(buf)
  /\ buf' = buf \o SubSeq(wire, 1, n)
  /\ wire' = SubSeq(wire, n + 1, Len(wire))

NoHeaderYet == UNCHANGED <<left, frame, done, pc, taken, calls, ponged, sock, out>>

\* with a whole header, the frame is handled, and a ping is answered
TakeFrame(header, size) ==
  /\ frame' = header /\ left' = Len(buf') - size
  /\ done' = 0 /\ taken' = << >>
  /\ sock' = MakeBlocking(sock)
  /\ out' = IF header.opcode = 9 THEN out \o Pong ELSE out
  /\ ponged' = (ponged \/ header.opcode = 9)
  /\ pc' = "frame" /\ calls' = calls + 1

ReadFrame(n) ==
  /\ astray = {} /\ FillBuffer(n)
  /\ IF Scans(buf') THEN TakeFrame(Scanned(buf'), HeaderSize(buf')) ELSE NoHeaderYet
  /\ UNCHANGED <<asked, astray, sent, outVars, clientVars>>

\* the same where no frame begins: the bytes may be read as any header
ReadAstray(n) ==
  /\ astray # {} /\ FillBuffer(n)
  /\ \/ NoHeaderYet
     \/ /\ calls < MaxFrames
        /\ \E f \in Frames :
             /\ Len(FrameHeader(1, f)) <= Len(buf')
             /\ TakeFrame([opcode |-> f.opcode, length |-> f.length, key |-> << >>],
                          Len(FrameHeader(1, f)))
  /\ UNCHANGED <<asked, astray, sent, outVars, clientVars>>

\* ws_frame calls WebbyRead, and may ask for more than the frame has
HandlerRead(n) ==
  /\ pc = "frame" /\ frame.opcode # 9 /\ asked = 0
  /\ asked' = n
  /\ astray' = IF n > frame.length - done THEN astray \cup {"overread"} ELSE astray
  /\ UNCHANGED <<wire, buf, left, frame, done, pc, taken, calls, ponged>>
  /\ UNCHANGED <<sent, sock, outVars, out, clientVars>>

\* the n bytes that WebbyRead reads: what is buffered first
Incoming(n) == LET buffered == IF left < n THEN left ELSE n
                   start    == Len(buf) - left
               IN  SubSeq(buf, start + 1, start + buffered) \o SubSeq(wire, 1, n - buffered)

\* the byte b at place i of the payload without its mask
Unmasked(b, i) ==
  IF frame.key = << >> THEN b
  ELSE IF b[1] = "hidden" /\ frame.key[(i % 4) + 1] = <<"key", b[2], b[3] % 4>>
       THEN <<"plain", b[2], b[3]>> ELSE <<"garbage">>

\* n bytes leave the buffer and the socket
Consume(n) ==
  /\ n <= left + Len(wire)
  /\ left' = IF left < n THEN 0 ELSE left - n
  /\ wire' = IF left < n THEN SubSeq(wire, n - left + 1, Len(wire)) ELSE wire

\* for comparison: every call starts with the first byte of the key
WebbyReadRestarts ==
  /\ asked > 0 /\ Consume(asked)
  /\ done' = done + asked /\ asked' = 0
  /\ taken' = taken \o [k \in 1 .. asked |-> Unmasked(Incoming(asked)[k], k - 1)]
  /\ UNCHANGED <<buf, frame, pc, astray, calls, ponged, sent, sock, outVars, out, clientVars>>

\* WebbyRead returns when it has all it was asked for, and waits until then
WebbyRead ==
  /\ asked > 0 /\ Consume(asked)
  /\ done' = done + asked /\ asked' = 0
  /\ taken' = taken \o [k \in 1 .. asked |-> Unmasked(Incoming(asked)[k], done + k - 1)]
  /\ UNCHANGED <<buf, frame, pc, astray, calls, ponged, sent, sock, outVars, out, clientVars>>

\* what the handler leaves is discarded, which waits for it; reset_connection
\* then forgets what is buffered behind the frame
FrameDone ==
  /\ pc = "frame" /\ asked = 0 /\ ~writing
  /\ LET rest == IF done < frame.length THEN frame.length - done ELSE 0
     IN  /\ rest <= left + Len(wire)
         /\ wire' = IF left < rest THEN SubSeq(wire, rest - left + 1, Len(wire)) ELSE wire
         /\ astray' = IF left > rest THEN astray \cup {"forgot"} ELSE astray
  /\ done' = 0 /\ left' = 0
  /\ sock' = [MakeNonblocking(sock) EXCEPT !.count = 0]
  /\ buf' = << >>
  /\ pc' = "idle"
  /\ UNCHANGED <<frame, asked, taken, calls, ponged, sent, outVars, out, clientVars>>

-----------------------------------------------------------------------------
(* Messages that are written *)

\* for comparison: the one-byte length goes up to 126
MakeHeaderOffByOne(op, length, fin) ==
  <<Is((IF fin THEN 128 ELSE 0) + op)>> \o
  (IF length <= 126 THEN <<Is(length)>>
   ELSE IF length < 65536
   THEN <<Is(126), Is((length \div 256) % 256), Is(length % 256)>>
   ELSE <<Is(127), Is(0), Is(0), Is(0), Is(0), Is((length \div 16777216) % 256),
          Is((length \div 65536) % 256), Is((length \div 256) % 256), Is(length % 256)>>)

\* make_websocket_header
MakeHeader(op, length, fin) ==
  <<Is((IF fin THEN 128 ELSE 0) + op)>> \o
  (IF length < 126 THEN <<Is(length)>>
   ELSE IF length < 65536
   THEN <<Is(126), Is((length \div 256) % 256), Is(length % 256)>>
   ELSE <<Is(127), Is(0), Is(0), Is(0), Is(0), Is((length \div 16777216) % 256),
          Is((length \div 65536) % 256), Is((length \div 256) % 256), Is(length % 256)>>)

\* WebbyBeginSocketFrame, between two passes or in ws_frame
BeginSocketFrame(op) ==
  /\ ~writing /\ asked = 0 /\ Len(written) < MaxMessages
  /\ pc = "frame" => frame.opcode # 9
  /\ opcode' = op
  /\ sock' = MakeBlocking(sock)
  /\ writing' = TRUE /\ written' = Append(written, 0)
  /\ UNCHANGED <<inVars, sent, out, clientVars, writes>>

\* WebbyWrite: a fragment; those after the first one are continuations
Write(n) ==
  /\ writing /\ asked = 0 /\ Len(sent) + writes < MaxOperations
  /\ out' = out \o MakeHeader(opcode, n, FALSE)
                \o (IF n = 0 THEN << >> ELSE << <<"data", n>> >>)
  /\ opcode' = 0
  /\ written' = [written EXCEPT ![Len(written)] = @ + n]
  /\ writes' = writes + 1
  /\ UNCHANGED <<inVars, sent, sock, writing, clientVars>>

\* WebbyEndSocketFrame: an empty fragment ends the message
EndSocketFrame ==
  /\ writing /\ asked = 0
  /\ out' = out \o MakeHeader(opcode, 0, TRUE)
  /\ sock' = MakeNonblocking(sock)
  /\ writing' = FALSE
  /\ UNCHANGED <<inVars, sent, opcode, written, writes, clientVars>>

-----------------------------------------------------------------------------
Next == \/ \E f \in Frames : SendFrame(f)
        \/ \E n \in 0 .. BufSize : ReadFrame(n)
        \/ \E n \in 0 .. BufSize : ReadAstray(n)
        \/ \E n \in Reads : HandlerRead(n)
        \/ WebbyRead
        \/ FrameDone
        \/ \E op \in {1, 2} : BeginSocketFrame(op)
        \/ \E n \in Sizes : Write(n)
        \/ EndSocketFrame
        \/ Receive

Spec == Init /\ [][Next]_vars

\* What was sent arrives, the background thread keeps running, and handlers end
\* the messages they begin and, unless they wait in WebbyRead, return.
FairSpec == /\ Spec
            /\ WF_vars(\E n \in 1 .. BufSize : ReadFrame(n))
            /\ WF_vars(WebbyRead) /\ WF_vars(FrameDone) /\ WF_vars(EndSocketFrame)

-----------------------------------------------------------------------------
(* Properties *)

\* what WebbyRead and wb_fill_buffer will see, and what they should
Ahead    == SubSeq(buf, (IF pc = "idle" THEN 0 ELSE Len(buf) - left) + 1, Len(buf)) \o wire
Current  == FrameBytes(calls, sent[calls])
Expected == (IF pc = "idle" THEN << >>
             ELSE SubSeq(Current, Len(Current) - sent[calls].length + done + 1, Len(Current)))
            \o FlattenSeq([k \in 1 .. Len(sent) - calls |->
                             FrameBytes(calls + k, sent[calls + k])])

\* As long as no handler has asked for more than its frame and no frame arrived
\* in the buffer with the one before, webby looks for the next frame where one
\* begins, with every byte of it still to come, in whatever pieces the bytes
\* arrive, also when more frames are on their way; the handler is told the
\* frame's length, and reads its payload, unmasked, from the first byte on.
FramesIntact ==
  astray = {} =>
    /\ Ahead = Expected
    /\ pc = "frame" =>
      /\ frame.opcode = sent[calls].opcode /\ frame.length = sent[calls].length
      /\ taken = SubSeq(PlainBytes(calls, sent[calls]), 1, done)

\* "Discard any data the client didn't read to retain the socket state"
\* (webby.c:1268): after a frame that its handler did not read past, the next
\* frame is found.  Fails: reset_connection (webby.c:1283) forgets what arrived
\* in the buffer with the frame.
StateRetained == pc = "idle" /\ "overread" \notin astray => Ahead = Expected

\* WebbyRead and the writes find the socket blocking, and the next pass does
\* not, also when a message is written while a frame is handled.
ModeFits == sock.blocking <=> pc = "frame" \/ writing

\* A client that was sent no pong understands what it is sent, as the messages
\* that were written.  (websocket_pong is not a pong.)
MessagesIntact == ~ponged => ~confused /\ got = SubSeq(written, 1, Len(got))

\* Every frame sent is handled, unless a handler asks for more than its frame,
\* and may then wait in WebbyRead for ever, or a frame is lost with the buffer.
FramesHandled ==
  \A n \in 1 .. MaxFrames : Len(sent) >= n ~> (calls >= n /\ pc = "idle") \/ astray # {}
=============================================================================
