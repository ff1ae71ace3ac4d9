----------------------------- MODULE LiveIngest -----------------------------
(***************************************************************************)
(* A live request: raw PCM is read from a chunked body (ChunkedBody) while *)
(* it arrives, cut into blocks of whole frames (make_pcm_chunk_stream in   *)
(* app/streaming/pcm_source.cpp), and fed to a streaming session           *)
(* (feed_audio_stream in app/streaming/streaming.cpp), which may answer    *)
(* each block with a new running transcript, published in pieces           *)
(* (PartialText).                                                          *)
(*                                                                         *)
(* A sample is named by the number of its first byte, so that a sample cut *)
(* out of the wrong two bytes, or out of order, has the wrong name.  What  *)
(* the session decodes is any prefix, in bytes, of any of the texts.       *)
(***************************************************************************)
EXTENDS ChunkedBody, PartialText

CONSTANTS
  SampleBytes,   \* pcm_sample_format_bytes
  Channels,      \* the channels of the declared format
  Blocks,        \* the block sizes of the streaming policy, in samples
  Texts          \* what the session may have heard

ASSUME LiveIngestAssumption ==
  /\ {SampleBytes, Channels} \subseteq Nat \ {0} /\ Blocks \subseteq Nat \ {0}
  /\ Texts # {} /\ \A text \in Texts : IsText(text)

VARIABLES
  block,       \* chunk_samples
  buffer,      \* the bytes of the read under way
  fed,         \* the samples the session was given, in order
  start,       \* start_sample
  transcript,  \* what the session decoded last
  published,   \* published_
  delta,       \* the last partial_text
  appended,    \* the text of a client that appends every piece
  revised      \* a decode has contradicted what was published

feedVars == <<block, buffer, fed, start>>
textVars == <<transcript, published, delta, appended, revised>>
vars == <<bodyVars, feedVars, textVars>>

Wanted == block * SampleBytes
FrameBytes == SampleBytes * Channels
Transcripts == UNION {{SubSeq(text, 1, n) : n \in 0 .. Len(text)} : text \in Texts}

Init ==
  /\ InitBody
  /\ block \in Blocks
  /\ buffer = <<>> /\ fed = <<>> /\ start = 0
  /\ transcript = <<>> /\ published = <<>> /\ delta = <<>>
  /\ appended = <<>> /\ revised = FALSE

\* istream::read copies what is in the window.
Take ==
  LET n == Min({Wanted - Len(buffer), Len(window)}) IN
  /\ step = "read" /\ n > 0
  /\ buffer' = buffer \o SubSeq(window, 1, n)
  /\ window' = SubSeq(window, n + 1, Len(window))
  /\ late' = IF expired THEN late + n ELSE late
  /\ step' = IF Len(buffer) + n = Wanted THEN "decode" ELSE "read"
  /\ UNCHANGED <<payload, arriving, pending, received, size, chunk, finished, trailers,
                 expired, block, fed, start, textVars>>

\* It asks for more when the window is empty.
More ==
  /\ step = "read" /\ window = <<>>
  /\ Underflow
  /\ UNCHANGED <<feedVars, textVars>>

\* The samples of the whole frames that were read.
Samples(bytes) ==
  [i \in 1 .. (Len(bytes) \div FrameBytes) * Channels |-> bytes[(i - 1) * SampleBytes + 1].n]

\* The session gets the block, if it is not empty, and may decode a transcript
\* that it publishes; a short read was the last one.  The read that has found
\* the end of the body still returns the bytes before it.
Feed ==
  LET samples == Samples(buffer) IN
  /\ step = "decode"
  /\ fed' = fed \o samples
  /\ start' = start + Len(samples)
  /\ buffer' = <<>>
  /\ step' = IF Len(buffer) = Wanted THEN "read" ELSE "ended"
  /\ \/ UNCHANGED textVars
     \/ /\ samples # <<>>
        /\ transcript' \in Transcripts
        /\ LET piece == Publish(published, transcript') IN
           /\ delta' = piece.delta
           /\ published' = piece.published
           /\ revised' = (revised \/ ~(IsPrefix(published, transcript')
                                       \/ IsPrefix(transcript', published)))
           /\ appended' = IF revised' THEN <<>> ELSE appended \o piece.delta
  /\ UNCHANGED <<payload, arriving, pending, received, size, chunk, window, finished,
                 trailers, expired, late, block>>

Next ==
  \/ (Expire \/ ReadBody) /\ UNCHANGED <<feedVars, textVars>>
  \/ Take \/ More \/ Feed

Spec == Init /\ [][Next]_vars

(* ---- properties --------------------------------------------------------- *)

\* Every variable keeps its type.
TypeOK ==
  /\ payload \in Nat \cup {-1} /\ received \in Nat /\ size \in 0 .. MaxChunk
  /\ arriving \in Seq([kind : Kinds, n : Nat]) /\ pending \in Seq([kind : Kinds, n : Nat])
  /\ chunk \in Seq([kind : {"byte"}, n : Nat]) /\ window \in Seq([kind : {"byte"}, n : Nat])
  /\ Len(window) <= WindowBytes /\ Len(window) + Len(chunk) < MaxChunk + 1
  /\ finished \in BOOLEAN /\ expired \in BOOLEAN /\ late \in Nat
  /\ trailers \in 0 .. MaxTrailers + 1
  /\ step \in {"read", "header", "payload", "trailer", "decode", "ended", "failed"}
  /\ block \in Blocks /\ Len(buffer) <= Wanted /\ start = Len(fed)
  /\ transcript \in Transcripts /\ revised \in BOOLEAN

\* The session hears the samples of the body, in order, with nothing left out
\* or cut in two wherever chunks, windows and reads end; and the stream ends
\* normally only after all of a complete, well-formed body, so that an audio
\* that was cut off never looks like a speaker who stopped.  (Of blocks of whole
\* frames; a block of half frames loses the other half of each.)
HearsWholeBody ==
  block % Channels = 0 =>
    /\ fed = [i \in DOMAIN fed |-> (i - 1) * SampleBytes + 1]
    /\ step = "ended" => Len(fed) = (payload \div FrameBytes) * Channels

\* Past the deadline of the body at most one window is still read, and no more
\* than the cap is ever handed out: neither a fast nor a slow client keeps the
\* model for longer.
BoundsHold ==
  /\ late <= WindowBytes
  /\ Len(fed) * SampleBytes + Len(buffer) <= MaxBody

\* A piece of text is made of whole characters, so that it can be encoded; and
\* as long as no decode contradicts what was published, the pieces add up to
\* it, with no character twice or missing.
PiecesAddUp ==
  /\ ~Continues(delta, 1) /\ TranscriptPublishableEnd(delta) = Len(delta)
  /\ ~revised => appended = published
=============================================================================
