---------------------------- MODULE ChunkedBody ----------------------------
(***************************************************************************)
(* ChunkedSocketStreambuf (app/server/parallel_http.cpp): the body of a    *)
(* live request, read from the socket while it arrives, de-framed from     *)
(* HTTP chunks and handed out in windows.                                  *)
(*                                                                         *)
(* What arrives is a sequence of tokens: a line with the size of a chunk,  *)
(* a byte of payload (its number in the body), the end of a chunk, a line  *)
(* of the trailer, the empty line after it, or bytes that belong nowhere.  *)
(* A receive may end after any token; the client may disconnect or stall   *)
(* instead of sending the next one.                                        *)
(***************************************************************************)
EXTENDS Integers, Sequences, SequencesExt

CONSTANTS
  Chunkings,     \* the ways a client cuts its body: the last byte of each chunk
  MaxChunk,      \* max_chunk_bytes
  MaxBody,       \* max_body_bytes, in tokens
  MaxTrailers,   \* the limit on the trailer, in lines
  WindowBytes    \* kWindowBytes

ASSUME ChunkedBodyAssumption ==
  /\ \A cuts \in Chunkings :
       /\ cuts \in Seq(Nat \ {0})
       /\ \A i, j \in DOMAIN cuts : i < j => cuts[i] < cuts[j]
  /\ {MaxChunk, MaxBody, WindowBytes} \subseteq Nat \ {0}
  /\ MaxTrailers \in Nat

VARIABLES
  payload,    \* how many bytes the client's body has, if it is well-formed
  arriving,   \* what the client has yet to send
  pending,    \* pending_ from pending_pos_: received, not de-framed
  received,   \* received_bytes_
  size,       \* of the chunk that next_chunk waits for
  chunk,      \* chunk_ from chunk_pos_: de-framed, not published
  window,     \* the get area
  finished,   \* finished_
  trailers,   \* the lines of the trailer that were read
  expired,    \* the total deadline has passed
  late,       \* the bytes that were read after that
  step        \* what the reader is doing

bodyVars == <<payload, arriving, pending, received, size, chunk, window, finished,
              trailers, expired, late, step>>

Token(kind, n) == [kind |-> kind, n |-> n]
Kinds == {"size", "byte", "crlf", "stray", "line", "empty"}

\* The bytes before the end of chunk i, and where its size line is: after the
\* bytes, size lines and ends of the chunks before it.
CutAt(cuts, i) == IF i = 0 THEN 0 ELSE cuts[i]
HeaderAt(cuts, i) == CutAt(cuts, i - 1) + 2 * i - 1

\* The token at position k of chunk i.
ChunkToken(cuts, broken, i, k) ==
  IF k = HeaderAt(cuts, i) THEN Token("size", cuts[i] - CutAt(cuts, i - 1))
  ELSE IF k < HeaderAt(cuts, i + 1) - 1 THEN Token("byte", k - 2 * i + 1)
  ELSE Token(IF i = broken THEN "stray" ELSE "crlf", 0)

\* A body cut into chunks, of which one may be followed by stray bytes, and
\* after the size 0 so many lines of trailer.
Body(cuts, broken, lines) ==
  LET last == HeaderAt(cuts, Len(cuts) + 1)
      Chunk(k) == CHOOSE i \in DOMAIN cuts : k \in HeaderAt(cuts, i) .. HeaderAt(cuts, i + 1) - 1
  IN  [k \in 1 .. last + lines + 1 |->
         IF k < last THEN ChunkToken(cuts, broken, Chunk(k), k)
         ELSE Token(IF k = last THEN "size" ELSE IF k <= last + lines THEN "line" ELSE "empty", 0)]

\* The bytes that came with the headers are pending, and count.
InitBody ==
  \E cuts \in Chunkings, lines \in 0 .. MaxTrailers + 1 :
    \E broken \in 0 .. Len(cuts) :
      LET body == Body(cuts, broken, lines) IN
      \E prefetched \in 0 .. Len(body) :
        /\ payload = IF broken = 0 /\ lines <= MaxTrailers
                       THEN CutAt(cuts, Len(cuts)) ELSE -1
        /\ pending = SubSeq(body, 1, prefetched)
        /\ received = prefetched
        /\ arriving = SubSeq(body, prefetched + 1, Len(body))
        /\ size = 0 /\ chunk = <<>> /\ window = <<>> /\ finished = FALSE
        /\ trailers = 0 /\ expired = FALSE /\ late = 0 /\ step = "read"

\* The reader is in next_chunk and needs more than what is pending.
Starved ==
  \/ step \in {"header", "trailer"} /\ pending = <<>>
  \/ step = "payload" /\ Len(pending) < size + 1

(* ---- the clock and the client ------------------------------------------ *)

Expire ==
  /\ step \notin {"ended", "failed"} /\ ~expired
  /\ expired' = TRUE
  /\ UNCHANGED <<payload, arriving, pending, received, size, chunk, window, finished,
                 trailers, late, step>>

\* Seeded fault: a body of any length is read.
OverCap_Never(count) == FALSE

\* require_within_body_cap: what was received, framing included, is too much.
OverCap(count) == count > MaxBody

\* receive_more: the deadline is checked after the wait, the cap after that.
Receive(n) ==
  /\ Starved /\ ~expired
  /\ n \in 1 .. Len(arriving)
  /\ arriving' = SubSeq(arriving, n + 1, Len(arriving))
  /\ pending' = pending \o SubSeq(arriving, 1, n)
  /\ received' = received + n
  /\ step' = IF OverCap(received + n) THEN "failed" ELSE step
  /\ UNCHANGED <<payload, size, chunk, window, finished, trailers, expired, late>>

\* Seeded fault: a connection that closes between two chunks ends the body.
NoMore_IsEnd ==
  /\ Starved
  /\ step' = IF step = "header" THEN "decode" ELSE "failed"
  /\ UNCHANGED <<payload, arriving, pending, received, size, chunk, window, finished,
                 trailers, expired, late>>

\* The client has gone or is silent for too long, the server stops, or the
\* deadline passes: every one of them is an exception, wherever the body is.
NoMore ==
  /\ Starved
  /\ step' = "failed"
  /\ UNCHANGED <<payload, arriving, pending, received, size, chunk, window, finished,
                 trailers, expired, late>>

(* ---- de-framing --------------------------------------------------------- *)

\* Seeded fault: a chunk is published whole.
Window_Whole(bytes) == bytes

\* publish_window: the part of a chunk that is read without further checks.
Window(bytes) == SubSeq(bytes, 1, Min({WindowBytes, Len(bytes)}))

\* A window of bytes, unless the deadline has passed.
PublishWindow(bytes) ==
  IF expired THEN step' = "failed" /\ UNCHANGED <<chunk, window>>
  ELSE /\ window' = Window(bytes)
       /\ chunk' = SubSeq(bytes, Len(Window(bytes)) + 1, Len(bytes))
       /\ step' = "read"

\* underflow: the cap, the rest of the chunk, the end, or a new chunk.
Underflow ==
  /\ UNCHANGED <<payload, arriving, pending, received, size, finished, trailers, expired, late>>
  /\ IF OverCap(received) THEN step' = "failed" /\ UNCHANGED <<chunk, window>>
     ELSE IF chunk # <<>> THEN PublishWindow(chunk)
     ELSE /\ step' = IF finished THEN "decode" ELSE IF expired THEN "failed" ELSE "header"
          /\ UNCHANGED <<chunk, window>>

\* Seeded fault: any size is accepted.
SizeOf_Uncapped(line) == IF line.kind = "size" THEN line.n ELSE -1

\* The size in a line, or -1 if it has none or is above the limit.
SizeOf(line) == IF line.kind = "size" /\ line.n <= MaxChunk THEN line.n ELSE -1

\* next_chunk reads a size line: the size 0 ends the body, whose trailer is
\* read next.
ReadHeader ==
  /\ step = "header" /\ pending # <<>>
  /\ LET n == SizeOf(Head(pending)) IN
     /\ finished' = (n = 0)
     /\ size' = Max({n, 0})
     /\ step' = CASE n < 0 -> "failed" [] n = 0 -> "trailer" [] OTHER -> "payload"
  /\ pending' = Tail(pending)
  /\ UNCHANGED <<payload, arriving, received, chunk, window, trailers, expired, late>>

\* The chunk is taken when all of it is there, with the line end after it.
ReadPayload ==
  /\ step = "payload" /\ ~Starved
  /\ IF pending[size + 1].kind = "crlf"
       THEN /\ PublishWindow(SubSeq(pending, 1, size))
            /\ pending' = SubSeq(pending, size + 2, Len(pending))
       ELSE step' = "failed" /\ UNCHANGED <<pending, chunk, window>>
  /\ size' = 0
  /\ UNCHANGED <<payload, arriving, received, finished, trailers, expired, late>>

ReadTrailer ==
  /\ step = "trailer" /\ pending # <<>>
  /\ trailers' = IF Head(pending).kind = "line" THEN trailers + 1 ELSE trailers
  /\ step' = IF Head(pending).kind # "line" THEN "decode"
             ELSE IF trailers + 1 > MaxTrailers THEN "failed" ELSE "trailer"
  /\ pending' = Tail(pending)
  /\ UNCHANGED <<payload, arriving, received, size, chunk, window, finished, expired, late>>

ReadBody ==
  \/ \E n \in 1 .. Len(arriving) : Receive(n)
  \/ NoMore \/ ReadHeader \/ ReadPayload \/ ReadTrailer
=============================================================================
