---------------------------- MODULE WebbyResponse ----------------------------
(***************************************************************************)
(* The responses that src/src/webby/webby.c writes on one connection, one  *)
(* after the other, through the I/O buffer of the connection: wb_push,     *)
(* wb_flush, WebbyBeginResponse, WebbyWrite and WebbyEndResponse.  At the  *)
(* other end an HTTP client takes them apart again.                        *)
(*                                                                         *)
(* Of the head of a response two bytes are kept, one of which says how     *)
(* long the body is or that it comes in chunks; of a chunk's header the    *)
(* digits are one byte.  Bytes of bodies are numbered as they are written. *)
(* The socket takes what it is given.                                      *)
(***************************************************************************)
EXTENDS Integers, Sequences

CONSTANTS IoMax,            \* io_buf.max
          ContentLengths,   \* the content lengths that are announced
          WriteSizes,       \* what is passed to WebbyWrite at a time
          MaxBytes,         \* bound: bytes of bodies
          MaxWrites         \* bound: responses begun, and calls of WebbyWrite

ASSUME ResponseAssumption == /\ IoMax \in Nat \ {0} /\ MaxBytes \in Nat /\ MaxWrites \in Nat
                             /\ ContentLengths \subseteq Nat /\ WriteSizes \subseteq Nat

VARIABLES conn,        \* io_buf, and the bytes sent that the client has not taken
          serving,     \* between WebbyBeginResponse and WebbyEndResponse
          chunked,     \* WB_CHUNKED_RESPONSE
          wanted,      \* bytes the announced length still wants
          expects,     \* the client: what it expects next
          body,        \* the client: bytes of bodies it has got
          replies,     \* the client: responses it has got to the end
          passed,      \* history: bytes passed to WebbyWrite
          ended,       \* history: responses ended
          operations   \* history: calls

serverVars == <<serving, chunked, wanted, passed, ended, operations>>
readerVars == <<expects, body, replies>>
responseVars == <<conn, serverVars, readerVars>>

Chunks == -1    \* in the place of a content length

ResponseInit ==
  /\ conn = [buf |-> << >>, wire |-> << >>]
  /\ serving = FALSE /\ chunked = FALSE /\ wanted = 0
  /\ expects = [what |-> "head", size |-> 0] /\ body = << >> /\ replies = 0
  /\ passed = 0 /\ ended = 0 /\ operations = 0

-----------------------------------------------------------------------------
(* The I/O buffer *)

\* wb_flush
Flush(c) == [buf |-> << >>, wire |-> c.wire \o c.buf]

\* for comparison: the buffer is sent when the next byte does not fit
PushFillsUp(c, bytes) ==
  IF bytes = << >> THEN Flush(c)
  ELSE IF Len(bytes) <= IoMax - Len(c.buf) THEN [c EXCEPT !.buf = @ \o bytes]
  ELSE [Flush(c) EXCEPT !.wire = @ \o bytes]

\* wb_push: fill the buffer and send it when it is full; then what is left goes
\* into it, or directly to the socket if it is as long as the buffer
Push(c, bytes) ==
  LET room == IoMax - Len(c.buf)
      full == Flush([c EXCEPT !.buf = @ \o SubSeq(bytes, 1, room)])
      rest == SubSeq(bytes, room + 1, Len(bytes))
  IN  IF bytes = << >> THEN Flush(c)
      ELSE IF Len(bytes) < room THEN [c EXCEPT !.buf = @ \o bytes]
      ELSE IF Len(rest) >= IoMax THEN [full EXCEPT !.wire = @ \o rest]
           ELSE [full EXCEPT !.buf = rest]

-----------------------------------------------------------------------------
(* Writing a response *)

HeadBytes(length) == << <<"head", length>>, <<"end", 0>> >>
ChunkSize(n)      == << <<"size", n>>, <<"cr", 0>>, <<"lf", 0>> >>
NewLine           == << <<"cr", 0>>, <<"lf", 0>> >>
DataBytes(n)      == [k \in 1 .. n |-> <<"data", passed + k>>]

\* WebbyBeginResponse; the head is written before the response is chunked
BeginResponse(length) ==
  /\ ~serving /\ operations < MaxWrites
  /\ conn' = Push(conn, HeadBytes(length))
  /\ serving' = TRUE /\ chunked' = (length = Chunks)
  /\ wanted' = IF length = Chunks THEN 0 ELSE length
  /\ operations' = operations + 1
  /\ UNCHANGED <<passed, ended, readerVars>>

\* for comparison: the last chunk behind every chunk
WriteEndsChunks(n) ==
  /\ serving /\ operations < MaxWrites /\ passed + n <= MaxBytes
  /\ ~chunked => n <= wanted
  /\ conn' = IF chunked
             THEN Push(Push(Push(Push(conn, ChunkSize(n)), DataBytes(n)), NewLine),
                       ChunkSize(0) \o NewLine)
             ELSE Push(conn, DataBytes(n))
  /\ wanted' = IF chunked THEN 0 ELSE wanted - n
  /\ passed' = passed + n /\ operations' = operations + 1
  /\ UNCHANGED <<serving, chunked, ended, readerVars>>

\* WebbyWrite; no more than was announced
WriteBody(n) ==
  /\ serving /\ operations < MaxWrites /\ passed + n <= MaxBytes
  /\ ~chunked => n <= wanted
  /\ conn' = IF chunked
             THEN Push(Push(Push(conn, ChunkSize(n)), DataBytes(n)), NewLine)
             ELSE Push(conn, DataBytes(n))
  /\ wanted' = IF chunked THEN 0 ELSE wanted - n
  /\ passed' = passed + n /\ operations' = operations + 1
  /\ UNCHANGED <<serving, chunked, ended, readerVars>>

\* for comparison: the last chunk is the last thing that is done
EndResponseUnflushed ==
  /\ serving /\ wanted = 0
  /\ conn' = IF chunked THEN Push(conn, ChunkSize(0) \o NewLine) ELSE Push(conn, << >>)
  /\ serving' = FALSE /\ chunked' = FALSE /\ ended' = ended + 1
  /\ UNCHANGED <<wanted, passed, operations, readerVars>>

\* WebbyEndResponse: the last chunk, and a flush
EndResponse ==
  /\ serving /\ wanted = 0
  /\ conn' = Push(IF chunked THEN Push(conn, ChunkSize(0) \o NewLine) ELSE conn, << >>)
  /\ serving' = FALSE /\ chunked' = FALSE /\ ended' = ended + 1
  /\ UNCHANGED <<wanted, passed, operations, readerVars>>

-----------------------------------------------------------------------------
(* The client *)

\* the client takes n bytes and then expects something else
Take(n, what, size) == /\ conn' = [conn EXCEPT !.wire = SubSeq(@, n + 1, Len(@))]
                       /\ expects' = [what |-> what, size |-> size]

TakeHead ==
  /\ expects.what = "head" /\ Len(conn.wire) >= 2
  /\ IF conn.wire[1][1] # "head" THEN Take(0, "confused", 0)
     ELSE IF conn.wire[1][2] = Chunks THEN Take(2, "chunk", 0)
     ELSE Take(2, "body", conn.wire[1][2])
  /\ UNCHANGED <<serverVars, body, replies>>

TakeChunkSize ==
  /\ expects.what = "chunk" /\ Len(conn.wire) >= 3
  /\ IF conn.wire[1][1] = "size" THEN Take(3, "data", conn.wire[1][2])
     ELSE Take(0, "confused", 0)
  /\ UNCHANGED <<serverVars, body, replies>>

\* a chunk and its line end; one of no bytes ends the response
TakeChunk ==
  /\ expects.what = "data" /\ Len(conn.wire) >= expects.size + 2
  /\ IF SubSeq(conn.wire, expects.size + 1, expects.size + 2) # NewLine
     THEN Take(0, "confused", 0) /\ UNCHANGED <<body, replies>>
     ELSE /\ Take(expects.size + 2, IF expects.size = 0 THEN "head" ELSE "chunk", 0)
          /\ body' = body \o SubSeq(conn.wire, 1, expects.size)
          /\ replies' = replies + (IF expects.size = 0 THEN 1 ELSE 0)
  /\ UNCHANGED serverVars

TakeBody ==
  /\ expects.what = "body" /\ Len(conn.wire) >= expects.size
  /\ Take(expects.size, "head", 0)
  /\ body' = body \o SubSeq(conn.wire, 1, expects.size)
  /\ replies' = replies + 1
  /\ UNCHANGED serverVars

-----------------------------------------------------------------------------
Client == TakeHead \/ TakeChunkSize \/ TakeChunk \/ TakeBody

ResponseNext ==
  \/ \E length \in ContentLengths \cup {Chunks} : BeginResponse(length)
  \/ \E n \in WriteSizes : WriteBody(n)
  \/ EndResponse \/ Client

ResponseSpec == ResponseInit /\ [][ResponseNext]_responseVars

\* The client reads what is sent to it.
FairResponseSpec == ResponseSpec /\ WF_responseVars(Client)

-----------------------------------------------------------------------------
(* Properties *)

\* The buffer is never left full, and the client gets the bytes of the bodies
\* in the order they were written, none twice and none of the framing among
\* them, whether they went through the buffer or past it.
BodyInOrder == /\ Len(conn.buf) < IoMax
               /\ expects.what # "confused"
               /\ \A k \in DOMAIN body : body[k] = <<"data", k>>

\* The client takes a response for complete when all of it was written: in
\* chunks, not before it was ended; with an announced length, not before that
\* many bytes were passed to WebbyWrite.  Between two responses it has every
\* byte of those it has got.
CompleteWhenEnded ==
  /\ replies <= ended + (IF serving /\ ~chunked /\ wanted = 0 THEN 1 ELSE 0)
  /\ replies = ended /\ ~serving => Len(body) = passed

\* Every response that was ended reaches the client.
RepliesArrive == \A n \in 1 .. MaxWrites : ended >= n ~> replies >= n
=============================================================================
