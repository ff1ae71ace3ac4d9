---------------------------- MODULE PartialText ----------------------------
(***************************************************************************)
(* PartialTextPublisher (src/framework/runtime/partial_text.cpp): turns a  *)
(* running transcript, which a streaming model decodes anew at each step,  *)
(* into the pieces of text a client appends to each other.                 *)
(*                                                                         *)
(* A transcript is a sequence of bytes in UTF-8, of which the model keeps  *)
(* what the code looks at: a byte continues a character, or leads one of a *)
(* known length, or is neither.                                            *)
(***************************************************************************)
EXTENDS Integers, Sequences, SequencesExt

CONSTANTS
  Continuations,   \* the bytes 10xxxxxx
  LengthOf,        \* the length of the character a lead byte begins
  CheckedBytes     \* kWindow of agreed_prefix

ASSUME PartialTextAssumption ==
  /\ Continuations \cap DOMAIN LengthOf = {}
  /\ \A lead \in DOMAIN LengthOf : LengthOf[lead] \in 1 .. 4
  /\ \A lead \in DOMAIN LengthOf : LengthOf[lead] <= CheckedBytes
  /\ CheckedBytes \in Nat

Continues(text, i) == i \in DOMAIN text /\ text[i] \in Continuations

\* Text in UTF-8, of which the last character may be cut: a lead byte is
\* followed by as many continuations as it says, and they follow nothing else.
IsText(text) ==
  /\ text \in Seq(Continuations \cup DOMAIN LengthOf)
  /\ \A i \in DOMAIN text :
       IF Continues(text, i)
         THEN \E lead \in 1 .. i - 1 :
                text[lead] \in DOMAIN LengthOf /\ i < lead + LengthOf[text[lead]]
         ELSE \A j \in i + 1 .. i + LengthOf[text[i]] - 1 : j <= Len(text) => Continues(text, j)

\* transcript_common_prefix: the length of the longest common prefix after which
\* rhs does not continue a character.
TranscriptCommonPrefix(lhs, rhs) ==
  LET common == Len(LongestCommonPrefix({lhs, rhs}))
      ends == {n \in 0 .. common : n = 0 \/ ~Continues(rhs, n + 1)}
  IN  Max(ends)

\* transcript_publishable_end: all of a text but a character that is not whole
\* yet.  A text that does not end in UTF-8 is published as it is.
TranscriptPublishableEnd(text) ==
  LET leads == {i \in DOMAIN text : ~Continues(text, i)}
      lead == Max(leads)
  IN  IF leads = {} \/ text[lead] \notin DOMAIN LengthOf THEN Len(text)
      ELSE IF Len(text) - lead + 1 < LengthOf[text[lead]] THEN lead - 1
      ELSE Len(text)

\* agreed_prefix: a text that agrees with the end of what was published is
\* taken to extend it.
AgreedPrefix(published, transcript) ==
  LET checked == Max({0, Len(published) - CheckedBytes}) + 1 .. Len(published) IN
  IF Len(transcript) >= Len(published) /\ \A i \in checked : published[i] = transcript[i]
    THEN Len(published)
    ELSE TranscriptCommonPrefix(published, transcript)

\* Seeded fault: what a shorter decode does not confirm is sent again later.
Publish_Shortens(published, transcript) ==
  LET publishable == TranscriptPublishableEnd(transcript)
      already == AgreedPrefix(published, transcript)
  IN  [delta |-> SubSeq(transcript, already + 1, publishable),
       published |-> SubSeq(transcript, 1, publishable)]

\* publish: the new piece, and all that has been published then.
Publish(published, transcript) ==
  LET publishable == TranscriptPublishableEnd(transcript)
      already == AgreedPrefix(published, transcript)
  IN  IF already >= publishable THEN [delta |-> <<>>, published |-> published]
      ELSE [delta |-> SubSeq(transcript, already + 1, publishable),
            published |-> IF already = Len(published)
                            THEN published \o SubSeq(transcript, already + 1, publishable)
                            ELSE SubSeq(transcript, 1, publishable)]
=============================================================================
