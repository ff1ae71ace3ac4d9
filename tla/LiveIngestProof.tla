-------------------------- MODULE LiveIngestProof --------------------------
(***************************************************************************)
(* For any client, framing, window, block, format and texts: the session   *)
(* hears the body and all of it, the bounds hold, and the pieces add up.   *)
(*                                                                         *)
(* The argument for the body: what is pending and what is arriving are two *)
(* consecutive parts of the one body the client has cut, from a position   *)
(* that is the start of a chunk whenever the reader is between chunks; and *)
(* the chunk, the window and the read under way are consecutive runs of    *)
(* its bytes, which begin where the samples that were fed end.             *)
(***************************************************************************)
EXTENDS LiveIngest, SequenceTheorems, WellFoundedInduction, TLAPS

----------------------------------------------------------------------------
(* The invariant *)

ByteTokens == [kind : {"byte"}, n : Nat]
Tokens == [kind : Kinds, n : Nat]

\* A run of bytes of the body that begins after byte first.
Run(bytes, first) ==
  /\ bytes \in Seq(ByteTokens)
  /\ \A j \in 1 .. Len(bytes) : bytes[j].n = first + j

\* The bytes that are taken out of the framing and not fed.
Held == Len(buffer) + Len(window) + Len(chunk)

\* The read under way, the window and the chunk are one run after the base
\* bytes that left the reader, which are those of the samples.
Fed(base) ==
  /\ Run(buffer, base)
  /\ Run(window, base + Len(buffer))
  /\ Run(chunk, base + Len(buffer) + Len(window))
  /\ fed \in Seq(Nat) /\ start = Len(fed) /\ Len(fed) * SampleBytes <= base
  /\ block % Channels = 0 =>
       /\ \A i \in 1 .. Len(fed) : fed[i] = (i - 1) * SampleBytes + 1
       /\ IF step = "ended" THEN Len(fed) = (payload \div FrameBytes) * Channels
          ELSE base = Len(fed) * SampleBytes /\ Len(fed) % Channels = 0

\* The part of a sequence of tokens after the first m up to the n-th.
Part(tokens, body, m, n) ==
  /\ tokens \in Seq(Tokens) /\ Len(tokens) = n - m
  /\ \A j \in 1 .. n - m : tokens[j] = body[m + j]

\* The reader has consumed k tokens of the body, and taken so many bytes.
Between(cuts, broken, k, taken) ==
  \E i \in 1 .. Len(cuts) + 1 :
    /\ broken \notin 1 .. i - 1 /\ taken = CutAt(cuts, i - 1)
    /\ IF step = "payload"
         THEN i <= Len(cuts) /\ size = cuts[i] - CutAt(cuts, i - 1) /\ k = HeaderAt(cuts, i)
         ELSE k = HeaderAt(cuts, i) - 1

Consumed(cuts, broken, lines, k, taken) ==
  /\ payload = IF broken = 0 /\ lines <= MaxTrailers THEN CutAt(cuts, Len(cuts)) ELSE -1
  /\ k <= received /\ received <= Len(Body(cuts, broken, lines))
  /\ Part(pending, Body(cuts, broken, lines), k, received)
  /\ Part(arriving, Body(cuts, broken, lines), received, Len(Body(cuts, broken, lines)))
  /\ step # "failed" =>
       IF ~finished THEN Between(cuts, broken, k, taken)
       ELSE /\ broken = 0 /\ taken = CutAt(cuts, Len(cuts))
            /\ IF step = "trailer" THEN k = HeaderAt(cuts, Len(cuts) + 1) + trailers
                                        /\ trailers <= lines
               ELSE lines <= MaxTrailers

\* What the steps of the reader leave in its buffers.
ReaderFits ==
  /\ step \in {"header", "payload"} => ~finished
  /\ step \in {"trailer", "ended"} => finished
  /\ (finished \/ step \in {"header", "payload", "trailer", "ended"}) =>
       window = <<>> /\ chunk = <<>>
  /\ step \in {"read", "header", "payload", "trailer"} => Len(buffer) < Wanted
  /\ step = "decode" => Len(buffer) = Wanted \/ (Len(buffer) < Wanted /\ finished)
  /\ step = "ended" => buffer = <<>>
  /\ step = "trailer" => trailers <= MaxTrailers
  /\ ~finished => trailers = 0

\* The cap and the deadline are looked at before a byte is taken.
BoundsFit ==
  /\ IF expired THEN late + Len(window) <= WindowBytes ELSE late = 0
  /\ received > MaxBody => step = "failed" \/ (step = "read" /\ Held = 0)

\* Published text is whole, and what the client has is that.
TextFits ==
  /\ IsText(published) /\ TranscriptPublishableEnd(published) = Len(published)
  /\ PiecesAddUp

\* The body is read up to token k, and base of its bytes have been fed.
BodyFits(base, cuts, broken, lines, k) ==
  /\ Fed(base) /\ base + Held <= MaxBody
  /\ broken <= Len(cuts) /\ lines <= MaxTrailers + 1
  /\ Consumed(cuts, broken, lines, k, base + Held)

Inv ==
  /\ TypeOK /\ ReaderFits /\ BoundsFit /\ TextFits
  /\ \E base \in Nat, cuts \in Chunkings, broken \in Nat, lines \in Nat, k \in Nat :
       BodyFits(base, cuts, broken, lines, k)

----------------------------------------------------------------------------
(* Integers: the least and the greatest element, and remainders *)

\* Every set of numbers has a least element.
LEMMA LeastElement ==
  ASSUME NEW T \in SUBSET Nat, T # {}
  PROVE  \E x \in T : \A y \in T : x <= y
<1>1. IsWellFoundedOn(OpToRel(<, Nat), Nat)
  BY NatLessThanWellFounded
<1>2. PICK x \in T : \A y \in T : ~ (<<y, x>> \in OpToRel(<, Nat))
  BY <1>1, WFMin, Zenon
<1>3. \A y \in T : y < x <=> <<y, x>> \in OpToRel(<, Nat)
  BY <1>2, Zenon DEF OpToRel
<1>4. \A y \in T : ~ (y < x)
  BY <1>2, <1>3, Zenon
<1>5. x \in T /\ x \in Nat /\ \A y \in T : y \in Nat
  BY <1>2, Zenon
<1>6. \A y \in T : x <= y
  BY <1>4, <1>5
<1>7. QED
  BY <1>5, <1>6

\* Min of the community modules returns that element.
LEMMA MinProps ==
  ASSUME NEW T \in SUBSET Nat, T # {}
  PROVE  Min(T) \in T /\ \A y \in T : Min(T) <= y
BY LeastElement DEF Min

\* A bounded set has a greatest element, and Max returns it.
LEMMA MaxProps ==
  ASSUME NEW n \in Nat, NEW T \in SUBSET (0 .. n), T # {}
  PROVE  Max(T) \in T /\ \A y \in T : y <= Max(T)
<1>. DEFINE R == {n - y : y \in T}
<1>1. R \in SUBSET Nat /\ R # {}
  <2>1. \A y \in T : n - y \in Nat
    OBVIOUS
  <2>2. QED
    BY <2>1
<1>2. PICK x \in R : \A y \in R : x <= y
  BY <1>1, LeastElement
<1>3. PICK z \in T : x = n - z
  BY <1>2
<1>4. \A y \in T : n - z <= n - y
  BY <1>2, <1>3
<1>5. \A y \in T : z >= y
  BY <1>3, <1>4
<1>6. QED
  BY <1>3, <1>5 DEF Max

\* A quotient and a remainder add up.
LEMMA DivMod ==
  ASSUME NEW c \in Nat, c > 0, NEW a \in Int
  PROVE  a % c \in 0 .. c - 1 /\ a \div c \in Int /\ a = (c * (a \div c)) + (a % c)
OBVIOUS

\* There is only one remainder.
LEMMA ModUnique ==
  ASSUME NEW c \in Nat, c > 0, NEW k \in Int, NEW s \in 0 .. c - 1,
         NEW a \in Int, a = (c * k) + s
  PROVE  a % c = s
<1>. DEFINE y == a \div c
            r == a % c
<1>1. a = (c * y) + r /\ y \in Int /\ r \in 0 .. c - 1
  BY DivMod
<1>. HIDE DEF y, r
<1>2. s - r = c * (y - k)
  BY <1>1
<1>3. y - k >= 1 => c * (y - k) >= c
  BY <1>1
<1>4. y - k <= -1 => c * (y - k) <= -c
  BY <1>1
<1>5. y - k = 0 => c * (y - k) = 0
  BY <1>1
<1>6. s - r < c /\ s - r > -c
  BY <1>1
<1>7. y - k = 0
  BY <1>1, <1>2, <1>3, <1>4, <1>6
<1>8. r = s
  BY <1>1, <1>2, <1>5, <1>7
<1>9. QED
  BY <1>8 DEF r

\* And only one quotient.
LEMMA DivUnique ==
  ASSUME NEW c \in Nat, c > 0, NEW k \in Int, NEW s \in 0 .. c - 1,
         NEW a \in Int, a = (c * k) + s
  PROVE  a \div c = k
<1>. DEFINE y == a \div c
            r == a % c
<1>1. a = (c * y) + r /\ y \in Int /\ r \in 0 .. c - 1
  BY DivMod
<1>. HIDE DEF y, r
<1>2. s - r = c * (y - k)
  BY <1>1
<1>3. y - k >= 1 => c * (y - k) >= c
  BY <1>1
<1>4. y - k <= -1 => c * (y - k) <= -c
  BY <1>1
<1>5. s - r < c /\ s - r > -c
  BY <1>1
<1>6. y - k = 0
  BY <1>1, <1>2, <1>3, <1>4, <1>5
<1>7. y = k
  BY <1>1, <1>6
<1>8. QED
  BY <1>7 DEF y

\* Max of two numbers.
LEMMA MaxOfTwo ==
  ASSUME NEW m \in Nat, NEW n \in Nat
  PROVE  Max({m, n}) \in Nat /\ Max({m, n}) >= m /\ Max({m, n}) >= n
         /\ (Max({m, n}) = m \/ Max({m, n}) = n)
<1>1. {m, n} \in SUBSET (0 .. m + n) /\ {m, n} # {} /\ m + n \in Nat
  OBVIOUS
<1>2. Max({m, n}) \in {m, n} /\ \A y \in {m, n} : y <= Max({m, n})
  BY <1>1, MaxProps
<1>3. QED
  BY <1>2

\* Min of two numbers.
LEMMA MinOfTwo ==
  ASSUME NEW m \in Nat, NEW n \in Nat
  PROVE  Min({m, n}) \in Nat /\ Min({m, n}) <= m /\ Min({m, n}) <= n
         /\ (Min({m, n}) = m \/ Min({m, n}) = n)
<1>1. {m, n} \in SUBSET Nat /\ {m, n} # {}
  OBVIOUS
<1>2. Min({m, n}) \in {m, n} /\ \A y \in {m, n} : Min({m, n}) <= y
  BY <1>1, MinProps
<1>3. QED
  BY <1>2

----------------------------------------------------------------------------
(* Sequences: what runs and parts keep *)

\* The elements of a part of a sequence, which may be empty.
LEMMA SubSeqAt ==
  ASSUME NEW S, NEW s \in Seq(S), NEW m \in 0 .. Len(s), NEW n \in m .. Len(s)
  PROVE  /\ SubSeq(s, m + 1, n) \in Seq(S) /\ Len(SubSeq(s, m + 1, n)) = n - m
         /\ \A j \in 1 .. n - m : SubSeq(s, m + 1, n)[j] = s[m + j]
<1>1. \A i \in m + 1 .. n : s[i] \in S
  BY ElementOfSeq
<1>2. m + 1 \in Int /\ n \in Int
  OBVIOUS
<1>3. /\ SubSeq(s, m + 1, n) \in Seq(S)
      /\ Len(SubSeq(s, m + 1, n)) = IF m + 1 <= n THEN n - (m + 1) + 1 ELSE 0
      /\ \A i \in 1 .. n - (m + 1) + 1 : SubSeq(s, m + 1, n)[i] = s[(m + 1) + i - 1]
  BY <1>1, <1>2, SubSeqProperties
<1>4. QED
  BY <1>3

\* The whole and the rest of it.
LEMMA SubSeqFirst ==
  ASSUME NEW S, NEW s \in Seq(S), NEW n \in 0 .. Len(s)
  PROVE  /\ SubSeq(s, 1, n) \in Seq(S) /\ Len(SubSeq(s, 1, n)) = n
         /\ \A j \in 1 .. n : SubSeq(s, 1, n)[j] = s[j]
<1>1. 0 \in 0 .. Len(s) /\ n \in 0 .. Len(s) /\ 0 + 1 = 1 /\ Len(s) \in Nat
  OBVIOUS
<1>2. /\ SubSeq(s, 0 + 1, n) \in Seq(S) /\ Len(SubSeq(s, 0 + 1, n)) = n - 0
      /\ \A j \in 1 .. n - 0 : SubSeq(s, 0 + 1, n)[j] = s[0 + j]
  BY <1>1, SubSeqAt
<1>3. QED
  BY <1>1, <1>2

\* A run can be cut into two and put together.
LEMMA RunCut ==
  ASSUME NEW bytes, NEW first \in Nat, Run(bytes, first), NEW n \in 0 .. Len(bytes)
  PROVE  /\ Run(SubSeq(bytes, 1, n), first) /\ Len(SubSeq(bytes, 1, n)) = n
         /\ Run(SubSeq(bytes, n + 1, Len(bytes)), first + n)
         /\ Len(SubSeq(bytes, n + 1, Len(bytes))) = Len(bytes) - n
<1>1. bytes \in Seq(ByteTokens) /\ Len(bytes) \in Nat
      /\ \A j \in 1 .. Len(bytes) : bytes[j].n = first + j
  BY DEF Run
<1>2. Run(SubSeq(bytes, 1, n), first) /\ Len(SubSeq(bytes, 1, n)) = n
  BY <1>1, SubSeqFirst DEF Run
<1>3. /\ SubSeq(bytes, n + 1, Len(bytes)) \in Seq(ByteTokens)
      /\ Len(SubSeq(bytes, n + 1, Len(bytes))) = Len(bytes) - n
      /\ \A j \in 1 .. Len(bytes) - n : SubSeq(bytes, n + 1, Len(bytes))[j] = bytes[n + j]
  BY <1>1, SubSeqAt
<1>4. Run(SubSeq(bytes, n + 1, Len(bytes)), first + n)
  BY <1>1, <1>3 DEF Run
<1>5. QED
  BY <1>2, <1>3, <1>4

\* Two runs, one after the other, are one.
LEMMA RunJoin ==
  ASSUME NEW left, NEW right, NEW first \in Nat,
         Run(left, first), Run(right, first + Len(left))
  PROVE  Run(left \o right, first) /\ Len(left \o right) = Len(left) + Len(right)
<1>1. left \in Seq(ByteTokens) /\ right \in Seq(ByteTokens)
      /\ Len(left) \in Nat /\ Len(right) \in Nat
  BY DEF Run
<1>2. /\ left \o right \in Seq(ByteTokens) /\ Len(left \o right) = Len(left) + Len(right)
      /\ \A i \in 1 .. Len(left) + Len(right) : (left \o right)[i] =
           IF i <= Len(left) THEN left[i] ELSE right[i - Len(left)]
  BY <1>1, ConcatProperties
<1>3. ASSUME NEW j \in 1 .. Len(left) + Len(right)
      PROVE  (left \o right)[j].n = first + j
  <2>1. CASE j <= Len(left)
    BY <1>1, <1>2, <2>1 DEF Run
  <2>2. CASE j > Len(left)
    <3>1. j - Len(left) \in 1 .. Len(right) /\ (left \o right)[j] = right[j - Len(left)]
      BY <1>1, <1>2, <2>2
    <3>2. right[j - Len(left)].n = (first + Len(left)) + (j - Len(left))
      BY <3>1 DEF Run
    <3>3. QED
      BY <1>1, <3>1, <3>2
  <2>3. QED
    BY <1>1, <2>1, <2>2
<1>4. QED
  BY <1>2, <1>3 DEF Run

\* Nothing is a run from anywhere.
LEMMA RunEmpty ==
  ASSUME NEW first
  PROVE  Run(<<>>, first) /\ Len(<<>>) = 0
BY EmptySeq DEF Run

----------------------------------------------------------------------------
(* The body of a client *)

\* The assumption on the constants, in parts.
LEMMA ConstantProps ==
  /\ MaxChunk \in Nat /\ MaxBody \in Nat /\ WindowBytes \in Nat /\ MaxTrailers \in Nat
  /\ WindowBytes > 0
  /\ SampleBytes \in Nat /\ SampleBytes > 0 /\ Channels \in Nat /\ Channels > 0
  /\ Blocks \subseteq Nat \ {0}
BY ChunkedBodyAssumption, LiveIngestAssumption

\* The ends of the chunks of a body increase.
LEMMA CutProps ==
  ASSUME NEW cuts \in Chunkings
  PROVE  /\ Len(cuts) \in Nat /\ DOMAIN cuts = 1 .. Len(cuts)
         /\ \A i \in 0 .. Len(cuts) : CutAt(cuts, i) \in Nat
         /\ \A i \in 1 .. Len(cuts) :
              CutAt(cuts, i) = cuts[i] /\ CutAt(cuts, i - 1) < cuts[i] /\ cuts[i] \in Nat
         /\ \A i, j \in 0 .. Len(cuts) : i <= j => CutAt(cuts, i) <= CutAt(cuts, j)
<1>1. cuts \in Seq(Nat \ {0}) /\ \A i, j \in DOMAIN cuts : i < j => cuts[i] < cuts[j]
  BY ChunkedBodyAssumption
<1>2. Len(cuts) \in Nat /\ DOMAIN cuts = 1 .. Len(cuts)
      /\ \A i \in 1 .. Len(cuts) : cuts[i] \in Nat \ {0}
  BY <1>1
<1>3. \A i \in 1 .. Len(cuts) : CutAt(cuts, i) = cuts[i] /\ cuts[i] \in Nat /\ cuts[i] > 0
  BY <1>2 DEF CutAt
<1>4. CutAt(cuts, 0) = 0
  BY DEF CutAt
<1>5. \A i \in 0 .. Len(cuts) : CutAt(cuts, i) \in Nat
  BY <1>2, <1>3, <1>4
<1>6. \A i, j \in 1 .. Len(cuts) : i < j => CutAt(cuts, i) < CutAt(cuts, j)
  BY <1>1, <1>2, <1>3
<1>7. \A i, j \in 0 .. Len(cuts) : i < j => CutAt(cuts, i) < CutAt(cuts, j)
  BY <1>2, <1>3, <1>4, <1>6
<1>8. \A i \in 1 .. Len(cuts) : CutAt(cuts, i - 1) < cuts[i]
  BY <1>2, <1>3, <1>7
<1>9. \A i, j \in 0 .. Len(cuts) : i <= j => CutAt(cuts, i) <= CutAt(cuts, j)
  BY <1>2, <1>5, <1>7
<1>10. QED
  BY <1>2, <1>3, <1>5, <1>8, <1>9

\* Where the lines with the sizes are.
LEMMA HeaderProps ==
  ASSUME NEW cuts \in Chunkings
  PROVE  /\ HeaderAt(cuts, 1) = 1
         /\ \A i \in 1 .. Len(cuts) + 1 :
              /\ HeaderAt(cuts, i) \in Nat
              /\ HeaderAt(cuts, i) = CutAt(cuts, i - 1) + 2 * i - 1
         /\ \A i \in 1 .. Len(cuts) : HeaderAt(cuts, i + 1) = cuts[i] + 2 * i + 1
         /\ \A i, j \in 1 .. Len(cuts) + 1 : i <= j => HeaderAt(cuts, i) <= HeaderAt(cuts, j)
<1>1. Len(cuts) \in Nat /\ \A i \in 1 .. Len(cuts) : CutAt(cuts, i) = cuts[i]
  BY CutProps
<1>2. CutAt(cuts, 0) = 0
  BY DEF CutAt
<1>3. \A i \in 1 .. Len(cuts) + 1 : i - 1 \in 0 .. Len(cuts) /\ CutAt(cuts, i - 1) \in Nat
  BY <1>1, CutProps
<1>4. \A i \in 1 .. Len(cuts) + 1 :
        HeaderAt(cuts, i) \in Nat /\ HeaderAt(cuts, i) = CutAt(cuts, i - 1) + 2 * i - 1
  BY <1>3 DEF HeaderAt
<1>5. \A i \in 1 .. Len(cuts) : HeaderAt(cuts, i + 1) = cuts[i] + 2 * i + 1
  BY <1>1, CutProps DEF HeaderAt
<1>6. ASSUME NEW i \in 1 .. Len(cuts) + 1, NEW j \in 1 .. Len(cuts) + 1, i <= j
      PROVE  HeaderAt(cuts, i) <= HeaderAt(cuts, j)
  <2>1. CutAt(cuts, i - 1) <= CutAt(cuts, j - 1)
    BY <1>3, <1>6, CutProps
  <2>2. QED
    BY <1>3, <1>4, <1>6, <2>1
<1>7. QED
  BY <1>1, <1>2, <1>4, <1>5, <1>6

\* One chunk: its first and last byte, its size line, and the next one's.
LEMMA ChunkProps ==
  ASSUME NEW cuts \in Chunkings, NEW i \in 1 .. Len(cuts)
  PROVE  /\ i \in Nat /\ i >= 1 /\ Len(cuts) \in Nat
         /\ CutAt(cuts, i - 1) \in Nat /\ cuts[i] \in Nat /\ CutAt(cuts, i - 1) < cuts[i]
         /\ CutAt(cuts, i) = cuts[i] /\ CutAt(cuts, (i + 1) - 1) = cuts[i]
         /\ HeaderAt(cuts, i) \in Nat /\ HeaderAt(cuts, i) = CutAt(cuts, i - 1) + 2 * i - 1
         /\ HeaderAt(cuts, i + 1) \in Nat /\ HeaderAt(cuts, i + 1) = cuts[i] + 2 * i + 1
<1>1. Len(cuts) \in Nat
  BY CutProps
<1>2. i - 1 \in 0 .. Len(cuts) /\ i \in 1 .. Len(cuts) + 1 /\ i \in Nat /\ i >= 1
      /\ (i + 1) - 1 = i
  BY <1>1
<1>3. CutAt(cuts, i - 1) \in Nat
  BY <1>2, CutProps
<1>4. CutAt(cuts, i) = cuts[i] /\ CutAt(cuts, i - 1) < cuts[i] /\ cuts[i] \in Nat
  BY CutProps
<1>5. HeaderAt(cuts, i) \in Nat /\ HeaderAt(cuts, i) = CutAt(cuts, i - 1) + 2 * i - 1
  BY <1>2, HeaderProps
<1>6. HeaderAt(cuts, i + 1) = cuts[i] + 2 * i + 1
  BY HeaderProps
<1>7. HeaderAt(cuts, i + 1) \in Nat
  BY <1>2, <1>4, <1>6
<1>8. QED
  BY <1>1, <1>2, <1>3, <1>4, <1>5, <1>6, <1>7

\* A token before the last size line belongs to exactly one chunk.
LEMMA ChunkExists ==
  ASSUME NEW cuts \in Chunkings, NEW k \in Nat, k >= 1, k < HeaderAt(cuts, Len(cuts) + 1)
  PROVE  \E i \in 1 .. Len(cuts) : k \in HeaderAt(cuts, i) .. HeaderAt(cuts, i + 1) - 1
<1>. DEFINE T == {i \in 1 .. Len(cuts) : k < HeaderAt(cuts, i + 1)}
<1>1. Len(cuts) \in Nat /\ Len(cuts) >= 1
  BY CutProps, HeaderProps
<1>2. T \in SUBSET Nat /\ T # {}
  BY <1>1
<1>3. PICK i \in T : \A j \in T : i <= j
  BY <1>2, LeastElement
<1>4. i \in 1 .. Len(cuts) /\ HeaderAt(cuts, i) \in Nat /\ HeaderAt(cuts, i + 1) \in Nat
  BY <1>1, <1>3, HeaderProps
<1>5. HeaderAt(cuts, i) <= k
  <2>1. CASE i = 1
    BY <2>1, HeaderProps
  <2>2. CASE i > 1
    <3>1. i - 1 \in 1 .. Len(cuts) /\ i - 1 \notin T /\ (i - 1) + 1 = i
      BY <1>3, <1>4, <2>2
    <3>2. QED
      BY <1>4, <3>1
  <2>3. QED
    BY <1>4, <2>1, <2>2
<1>6. QED
  BY <1>3, <1>4, <1>5

\* The token at a place of a chunk.
LEMMA ChunkTokens ==
  ASSUME NEW cuts \in Chunkings, NEW broken \in Nat, NEW lines \in Nat,
         NEW i \in 1 .. Len(cuts), NEW k \in HeaderAt(cuts, i) .. HeaderAt(cuts, i + 1) - 1
  PROVE  Body(cuts, broken, lines)[k] = ChunkToken(cuts, broken, i, k)
<1>. DEFINE last == HeaderAt(cuts, Len(cuts) + 1)
            P(j) == k \in HeaderAt(cuts, j) .. HeaderAt(cuts, j + 1) - 1
<1>1. /\ Len(cuts) \in Nat /\ DOMAIN cuts = 1 .. Len(cuts) /\ last \in Nat
      /\ HeaderAt(cuts, i) \in Nat /\ HeaderAt(cuts, i + 1) \in Nat
      /\ HeaderAt(cuts, 1) = 1 /\ HeaderAt(cuts, 1) <= HeaderAt(cuts, i)
      /\ HeaderAt(cuts, i + 1) <= last
  <2>1. Len(cuts) \in Nat /\ DOMAIN cuts = 1 .. Len(cuts)
    BY CutProps
  <2>2. i + 1 \in 1 .. Len(cuts) + 1 /\ Len(cuts) + 1 \in 1 .. Len(cuts) + 1
        /\ i + 1 <= Len(cuts) + 1 /\ 1 \in 1 .. Len(cuts) + 1 /\ i \in 1 .. Len(cuts) + 1
    BY <2>1
  <2>3. QED
    BY <2>1, <2>2, HeaderProps
<1>2. k \in 1 .. last + lines + 1 /\ k < last
  BY <1>1
<1>3. ASSUME NEW j \in 1 .. Len(cuts), P(j)
      PROVE  j = i
  <2>1. HeaderAt(cuts, j) \in Nat /\ HeaderAt(cuts, j + 1) \in Nat
    BY <1>1, HeaderProps
  <2>2. j < i => HeaderAt(cuts, j + 1) <= HeaderAt(cuts, i)
    BY <1>1, HeaderProps
  <2>3. i < j => HeaderAt(cuts, i + 1) <= HeaderAt(cuts, j)
    <3>1. i < j => i + 1 <= j /\ i + 1 \in 1 .. Len(cuts) + 1 /\ j \in 1 .. Len(cuts) + 1
      BY <1>1
    <3>2. QED
      BY <3>1, HeaderProps
  <2>4. QED
    BY <1>1, <1>3, <2>1, <2>2, <2>3
<1>4. (CHOOSE j \in DOMAIN cuts : P(j)) = i
  <2>1. i \in DOMAIN cuts /\ P(i)
    BY <1>1
  <2>. HIDE DEF P
  <2>2. QED
    BY <1>1, <1>3, <2>1
<1>5. Body(cuts, broken, lines)[k] = ChunkToken(cuts, broken, CHOOSE j \in DOMAIN cuts : P(j), k)
  BY <1>2 DEF Body
<1>6. QED
  BY <1>4, <1>5, Zenon

\* A chunk: the line with its size, its bytes, and its end or stray bytes.
LEMMA BodyChunk ==
  ASSUME NEW cuts \in Chunkings, NEW broken \in Nat, NEW lines \in Nat,
         NEW i \in 1 .. Len(cuts)
  PROVE  /\ Body(cuts, broken, lines)[HeaderAt(cuts, i)]
              = Token("size", cuts[i] - CutAt(cuts, i - 1))
         /\ \A j \in 1 .. cuts[i] - CutAt(cuts, i - 1) :
              Body(cuts, broken, lines)[HeaderAt(cuts, i) + j]
                = Token("byte", CutAt(cuts, i - 1) + j)
         /\ Body(cuts, broken, lines)[HeaderAt(cuts, i + 1) - 1]
              = Token(IF i = broken THEN "stray" ELSE "crlf", 0)
<1>. DEFINE h == HeaderAt(cuts, i)
            n == HeaderAt(cuts, i + 1)
            c == CutAt(cuts, i - 1)
<1>1. /\ h \in Nat /\ h = c + 2 * i - 1 /\ n = cuts[i] + 2 * i + 1
      /\ c \in Nat /\ cuts[i] \in Nat /\ c < cuts[i] /\ i \in Nat
  BY ChunkProps
<1>2. ASSUME NEW k \in h .. n - 1
      PROVE  Body(cuts, broken, lines)[k]
               = IF k = h THEN Token("size", cuts[i] - c)
                 ELSE IF k < n - 1 THEN Token("byte", k - 2 * i + 1)
                 ELSE Token(IF i = broken THEN "stray" ELSE "crlf", 0)
  <2>1. Body(cuts, broken, lines)[k] = ChunkToken(cuts, broken, i, k)
    BY ChunkTokens
  <2>2. QED
    BY <2>1 DEF ChunkToken
<1>. HIDE DEF h, n, c
<1>3. h \in h .. n - 1 /\ n - 1 \in h .. n - 1 /\ n - 1 # h
  BY <1>1
<1>4. ASSUME NEW j \in 1 .. cuts[i] - c
      PROVE  Body(cuts, broken, lines)[h + j] = Token("byte", c + j)
  <2>1. h + j \in h .. n - 1 /\ h + j # h /\ h + j < n - 1 /\ (h + j) - 2 * i + 1 = c + j
    BY <1>1
  <2>2. QED
    BY <1>2, <2>1
<1>5. Body(cuts, broken, lines)[h] = Token("size", cuts[i] - c)
  BY <1>2, <1>3
<1>6. Body(cuts, broken, lines)[n - 1] = Token(IF i = broken THEN "stray" ELSE "crlf", 0)
  <2>1. ~ (n - 1 < n - 1)
    BY <1>1
  <2>2. QED
    BY <1>2, <1>3, <2>1
<1>7. QED
  BY <1>4, <1>5, <1>6 DEF h, n, c

\* After the chunks: the size 0, the trailer, and an empty line.
LEMMA BodyEnd ==
  ASSUME NEW cuts \in Chunkings, NEW broken \in Nat, NEW lines \in Nat,
         NEW last, last = HeaderAt(cuts, Len(cuts) + 1)
  PROVE  /\ last \in Nat /\ last >= 1
         /\ DOMAIN Body(cuts, broken, lines) = 1 .. last + lines + 1
         /\ Len(Body(cuts, broken, lines)) = last + lines + 1
         /\ Body(cuts, broken, lines)[last] = Token("size", 0)
         /\ \A j \in 1 .. lines : Body(cuts, broken, lines)[last + j] = Token("line", 0)
         /\ Body(cuts, broken, lines)[last + lines + 1] = Token("empty", 0)
<1>1. last \in Nat /\ last >= 1
  <2>1. 1 \in 1 .. Len(cuts) + 1 /\ Len(cuts) + 1 \in 1 .. Len(cuts) + 1 /\ 1 <= Len(cuts) + 1
    BY CutProps
  <2>2. HeaderAt(cuts, 1) <= HeaderAt(cuts, Len(cuts) + 1) /\ HeaderAt(cuts, 1) = 1
        /\ HeaderAt(cuts, Len(cuts) + 1) \in Nat
    BY <2>1, HeaderProps
  <2>3. QED
    BY <2>2
<1>. DEFINE Chunk(k) ==
       CHOOSE i \in DOMAIN cuts : k \in HeaderAt(cuts, i) .. HeaderAt(cuts, i + 1) - 1
<1>2. Body(cuts, broken, lines) =
        [k \in 1 .. last + lines + 1 |->
           IF k < last THEN ChunkToken(cuts, broken, Chunk(k), k)
           ELSE Token(IF k = last THEN "size" ELSE IF k <= last + lines THEN "line" ELSE "empty", 0)]
  BY DEF Body
<1>. HIDE DEF Chunk
<1>3. DOMAIN Body(cuts, broken, lines) = 1 .. last + lines + 1
  BY <1>2
<1>4. ASSUME NEW k \in last .. last + lines + 1
      PROVE  Body(cuts, broken, lines)[k] =
               Token(IF k = last THEN "size" ELSE IF k <= last + lines THEN "line" ELSE "empty", 0)
  <2>1. k \in 1 .. last + lines + 1 /\ ~ (k < last)
    BY <1>1
  <2>2. QED
    BY <1>2, <2>1
<1>5. Body(cuts, broken, lines)[last] = Token("size", 0)
  <2>1. last \in last .. last + lines + 1
    BY <1>1
  <2>2. QED
    BY <1>4, <2>1
<1>6. ASSUME NEW j \in 1 .. lines
      PROVE  Body(cuts, broken, lines)[last + j] = Token("line", 0)
  <2>1. last + j \in last .. last + lines + 1 /\ last + j # last /\ last + j <= last + lines
    BY <1>1
  <2>2. QED
    BY <1>4, <2>1
<1>7. Body(cuts, broken, lines)[last + lines + 1] = Token("empty", 0)
  <2>. DEFINE k == last + lines + 1
  <2>1. k \in last .. last + lines + 1 /\ k # last /\ ~ (k <= last + lines)
    BY <1>1
  <2>. HIDE DEF k
  <2>2. Body(cuts, broken, lines)[k] = Token("empty", 0)
    BY <1>4, <2>1
  <2>3. QED
    BY <2>2 DEF k
<1>8. Len(Body(cuts, broken, lines)) = last + lines + 1
  BY <1>1, <1>2
<1>9. QED
  BY <1>1, <1>3, <1>5, <1>6, <1>7, <1>8

\* A body is a sequence of tokens.
LEMMA BodyTyped ==
  ASSUME NEW cuts \in Chunkings, NEW broken \in Nat, NEW lines \in Nat
  PROVE  Body(cuts, broken, lines) \in Seq(Tokens)
<1>. DEFINE body == Body(cuts, broken, lines)
            last == HeaderAt(cuts, Len(cuts) + 1)
<1>1. /\ last \in Nat /\ last >= 1 /\ DOMAIN body = 1 .. last + lines + 1
      /\ Len(body) = last + lines + 1
      /\ body[last] = Token("size", 0) /\ body[last + lines + 1] = Token("empty", 0)
      /\ \A j \in 1 .. lines : body[last + j] = Token("line", 0)
  BY BodyEnd
<1>2. \A kind \in Kinds, n \in Nat : Token(kind, n) \in Tokens
  BY DEF Token, Tokens
<1>3. {"size", "byte", "crlf", "stray", "line", "empty"} = Kinds
  BY DEF Kinds
<1>4. ASSUME NEW k \in 1 .. last - 1
      PROVE  body[k] \in Tokens
  <2>1. k \in Nat /\ k >= 1 /\ k < last
    BY <1>1
  <2>2. PICK i \in 1 .. Len(cuts) : k \in HeaderAt(cuts, i) .. HeaderAt(cuts, i + 1) - 1
    BY <2>1, ChunkExists
  <2>3. body[k] = ChunkToken(cuts, broken, i, k)
    BY <2>2, ChunkTokens
  <2>. HIDE DEF body
  <2>4. /\ i \in Nat /\ cuts[i] \in Nat /\ CutAt(cuts, i - 1) \in Nat
        /\ CutAt(cuts, i - 1) < cuts[i] /\ HeaderAt(cuts, i) = CutAt(cuts, i - 1) + 2 * i - 1
    BY ChunkProps
  <2>5. CASE k = HeaderAt(cuts, i)
    <3>1. cuts[i] - CutAt(cuts, i - 1) \in Nat
      BY <2>4
    <3>2. QED
      BY <1>2, <1>3, <2>3, <2>5, <3>1 DEF ChunkToken
  <2>6. CASE k # HeaderAt(cuts, i) /\ k < HeaderAt(cuts, i + 1) - 1
    <3>1. k - 2 * i + 1 \in Nat
      BY <2>1, <2>2, <2>4
    <3>2. QED
      BY <1>2, <1>3, <2>3, <2>6, <3>1 DEF ChunkToken
  <2>7. CASE k # HeaderAt(cuts, i) /\ ~ (k < HeaderAt(cuts, i + 1) - 1)
    BY <1>2, <1>3, <2>3, <2>7 DEF ChunkToken
  <2>8. QED
    BY <2>5, <2>6, <2>7
<1>. HIDE DEF last
<1>5. ASSUME NEW k \in 1 .. last + lines + 1
      PROVE  body[k] \in Tokens
  <2>. HIDE DEF body
  <2>1. CASE k < last
    <3>1. k \in 1 .. last - 1
      BY <1>1, <2>1
    <3>2. QED
      BY <1>4, <3>1 DEF body
  <2>2. CASE k = last
    BY <1>1, <1>2, <1>3, <2>2
  <2>3. CASE k > last /\ k <= last + lines
    <3>1. k - last \in 1 .. lines /\ last + (k - last) = k
      BY <1>1, <2>3
    <3>2. QED
      BY <1>1, <1>2, <1>3, <3>1
  <2>4. CASE k = last + lines + 1
    BY <1>1, <1>2, <1>3, <2>4
  <2>5. QED
    BY <1>1, <2>1, <2>2, <2>3, <2>4
<1>6. body = [k \in 1 .. last + lines + 1 |-> body[k]]
  BY <1>1 DEF body, Body
<1>7. last + lines + 1 \in Nat
  BY <1>1
<1>. HIDE DEF body
<1>8. body \in Seq(Tokens)
  BY <1>5, <1>6, <1>7
<1>9. QED
  BY <1>8 DEF body

\* A part of the body can be cut into two and put together.
LEMMA PartCut ==
  ASSUME NEW body, NEW m \in Nat, NEW n \in Nat, NEW tokens, Part(tokens, body, m, n),
         NEW c \in 0 .. Len(tokens)
  PROVE  /\ Part(SubSeq(tokens, 1, c), body, m, m + c)
         /\ Part(SubSeq(tokens, c + 1, Len(tokens)), body, m + c, n)
<1>1. /\ tokens \in Seq(Tokens) /\ Len(tokens) \in Nat /\ Len(tokens) = n - m
      /\ \A j \in 1 .. n - m : tokens[j] = body[m + j]
  BY DEF Part
<1>2. Part(SubSeq(tokens, 1, c), body, m, m + c)
  <2>1. /\ SubSeq(tokens, 1, c) \in Seq(Tokens) /\ Len(SubSeq(tokens, 1, c)) = c
        /\ \A j \in 1 .. c : SubSeq(tokens, 1, c)[j] = tokens[j]
    BY <1>1, SubSeqFirst
  <2>2. QED
    BY <1>1, <2>1 DEF Part
<1>3. /\ SubSeq(tokens, c + 1, Len(tokens)) \in Seq(Tokens)
      /\ Len(SubSeq(tokens, c + 1, Len(tokens))) = Len(tokens) - c
      /\ \A j \in 1 .. Len(tokens) - c : SubSeq(tokens, c + 1, Len(tokens))[j] = tokens[c + j]
  BY <1>1, SubSeqAt
<1>4. Part(SubSeq(tokens, c + 1, Len(tokens)), body, m + c, n)
  <2>1. ASSUME NEW j \in 1 .. n - (m + c)
        PROVE  SubSeq(tokens, c + 1, Len(tokens))[j] = body[(m + c) + j]
    <3>1. j \in 1 .. Len(tokens) - c /\ c + j \in 1 .. n - m /\ m + (c + j) = (m + c) + j
      BY <1>1
    <3>2. QED
      BY <1>1, <1>3, <3>1
  <2>2. QED
    BY <1>1, <1>3, <2>1 DEF Part
<1>5. QED
  BY <1>2, <1>4

\* Two parts, one after the other, are one.
LEMMA PartJoin ==
  ASSUME NEW body, NEW m \in Nat, NEW c \in Nat, NEW n \in Nat, NEW left, NEW right,
         Part(left, body, m, c), Part(right, body, c, n)
  PROVE  Part(left \o right, body, m, n)
<1>1. /\ left \in Seq(Tokens) /\ right \in Seq(Tokens)
      /\ Len(left) \in Nat /\ Len(right) \in Nat /\ Len(left) = c - m /\ Len(right) = n - c
      /\ \A j \in 1 .. c - m : left[j] = body[m + j]
      /\ \A j \in 1 .. n - c : right[j] = body[c + j]
  BY DEF Part
<1>2. /\ left \o right \in Seq(Tokens) /\ Len(left \o right) = Len(left) + Len(right)
      /\ \A i \in 1 .. Len(left) + Len(right) : (left \o right)[i] =
           IF i <= Len(left) THEN left[i] ELSE right[i - Len(left)]
  BY <1>1, ConcatProperties
<1>3. ASSUME NEW j \in 1 .. n - m
      PROVE  (left \o right)[j] = body[m + j]
  <2>1. j \in 1 .. Len(left) + Len(right)
    BY <1>1
  <2>2. CASE j <= Len(left)
    BY <1>1, <1>2, <2>1, <2>2
  <2>3. CASE j > Len(left)
    <3>1. j - Len(left) \in 1 .. n - c /\ c + (j - Len(left)) = m + j
      BY <1>1, <2>1, <2>3
    <3>2. QED
      BY <1>1, <1>2, <2>1, <2>3, <3>1
  <2>4. QED
    BY <1>1, <2>1, <2>2, <2>3
<1>4. QED
  BY <1>1, <1>2, <1>3 DEF Part

\* The next token of a part, and the part after it.
LEMMA PartNext ==
  ASSUME NEW body, NEW m \in Nat, NEW n \in Nat, NEW tokens, Part(tokens, body, m, n),
         tokens # <<>>
  PROVE  /\ m + 1 <= n /\ Head(tokens) = body[m + 1] /\ Part(Tail(tokens), body, m + 1, n)
<1>1. /\ tokens \in Seq(Tokens) /\ Len(tokens) = n - m
      /\ \A j \in 1 .. n - m : tokens[j] = body[m + j]
  BY DEF Part
<1>2. Len(tokens) \in Nat /\ Len(tokens) >= 1 /\ Head(tokens) = tokens[1]
  BY <1>1
<1>3. /\ Tail(tokens) \in Seq(Tokens) /\ Len(Tail(tokens)) = Len(tokens) - 1
      /\ \A i \in 1 .. Len(Tail(tokens)) : Tail(tokens)[i] = tokens[i + 1]
  BY <1>1, HeadTailProperties
<1>4. ASSUME NEW j \in 1 .. n - (m + 1)
      PROVE  Tail(tokens)[j] = body[(m + 1) + j]
  <2>1. j \in 1 .. Len(Tail(tokens)) /\ j + 1 \in 1 .. n - m /\ m + (j + 1) = (m + 1) + j
    BY <1>1, <1>2, <1>3
  <2>2. QED
    BY <1>1, <1>3, <2>1
<1>5. QED
  BY <1>1, <1>2, <1>3, <1>4 DEF Part

----------------------------------------------------------------------------
(* The reader: one lemma per action *)

\* What a step may leave alone.
LEMMA FedKept ==
  ASSUME NEW base, Fed(base), UNCHANGED <<payload, buffer, window, chunk, fed, start, block>>,
         step # "ended", step' # "ended"
  PROVE  Fed(base)'
BY DEF Fed, Run

LEMMA TextKept ==
  ASSUME TextFits, UNCHANGED textVars
  PROVE  TextFits'
BY DEF TextFits, textVars, PiecesAddUp

\* The lengths are numbers.
LEMMA LengthProps ==
  ASSUME NEW base \in Nat, Fed(base), TypeOK
  PROVE  /\ Len(buffer) \in Nat /\ Len(window) \in Nat /\ Len(chunk) \in Nat
         /\ Held \in Nat /\ Held = Len(buffer) + Len(window) + Len(chunk)
         /\ received \in Nat /\ late \in Nat /\ Wanted \in Nat /\ Wanted > 0
         /\ Len(fed) \in Nat
<1>1. Len(buffer) \in Nat /\ Len(window) \in Nat /\ Len(chunk) \in Nat /\ Len(fed) \in Nat
  BY DEF Fed, Run
<1>2. received \in Nat /\ late \in Nat /\ block \in Blocks
  BY DEF TypeOK
<1>3. block \in Nat /\ block > 0 /\ SampleBytes \in Nat /\ SampleBytes > 0
  BY <1>2, ConstantProps
<1>4. Wanted \in Nat /\ Wanted > 0
  BY <1>3 DEF Wanted
<1>5. QED
  BY <1>1, <1>2, <1>4 DEF Held

\* The deadline passes.
LEMMA ExpireInv ==
  ASSUME Inv, Expire, UNCHANGED <<feedVars, textVars>>
  PROVE  Inv'
<1>1. PICK base \in Nat, cuts \in Chunkings, broken \in Nat, lines \in Nat, k \in Nat :
        BodyFits(base, cuts, broken, lines, k)
  BY DEF Inv
<1>2. TypeOK /\ ReaderFits /\ BoundsFit /\ TextFits
  BY DEF Inv
<1>3. Fed(base) /\ Consumed(cuts, broken, lines, k, base + Held)
  BY <1>1 DEF BodyFits
<1>4. TypeOK'
  BY <1>2 DEF TypeOK, Expire, feedVars, textVars, Wanted
<1>5. ReaderFits'
  BY <1>2 DEF ReaderFits, Expire, feedVars, Wanted
<1>6. BoundsFit'
  <2>1. late' + Len(window') <= WindowBytes
    BY <1>2, <1>3, LengthProps DEF BoundsFit, TypeOK, Expire
  <2>2. expired' /\ UNCHANGED <<received, step, buffer, window, chunk>>
    BY DEF Expire, feedVars
  <2>3. received' > MaxBody => step' = "failed" \/ (step' = "read" /\ Held' = 0)
    BY <1>2, <2>2 DEF BoundsFit, Held
  <2>4. QED
    BY <2>1, <2>2, <2>3 DEF BoundsFit
<1>7. TextFits'
  BY <1>2, TextKept
<1>8. BodyFits(base, cuts, broken, lines, k)'
  <2>1. Fed(base)' /\ Held' = Held
    BY <1>3, FedKept DEF Expire, feedVars, Held
  <2>2. UNCHANGED <<payload, received, pending, arriving, step, finished, trailers, size>>
    BY DEF Expire
  <2>3. Consumed(cuts, broken, lines, k, base + Held)'
    BY <1>3, <2>1, <2>2 DEF Consumed, Between
  <2>4. QED
    BY <1>1, <2>1, <2>3 DEF BodyFits
<1>9. QED
  BY <1>1, <1>4, <1>5, <1>6, <1>7, <1>8 DEF Inv

\* The reader fails, and leaves what it has.
LEMMA NoMoreInv ==
  ASSUME Inv, NoMore, UNCHANGED <<feedVars, textVars>>
  PROVE  Inv'
<1>1. PICK base \in Nat, cuts \in Chunkings, broken \in Nat, lines \in Nat, k \in Nat :
        BodyFits(base, cuts, broken, lines, k)
  BY DEF Inv
<1>2. TypeOK /\ ReaderFits /\ BoundsFit /\ TextFits
  BY DEF Inv
<1>3. Fed(base) /\ Consumed(cuts, broken, lines, k, base + Held)
  BY <1>1 DEF BodyFits
<1>4. step # "ended" /\ step' = "failed"
  BY DEF NoMore, Starved
<1>5. TypeOK'
  BY <1>2, <1>4 DEF TypeOK, NoMore, feedVars, textVars, Wanted
<1>6. ReaderFits'
  BY <1>2, <1>4 DEF ReaderFits, NoMore, feedVars, Wanted
<1>7. BoundsFit'
  BY <1>2, <1>4 DEF BoundsFit, NoMore
<1>8. TextFits'
  BY <1>2, TextKept
<1>9. BodyFits(base, cuts, broken, lines, k)'
  <2>1. Fed(base)' /\ Held' = Held
    BY <1>3, <1>4, FedKept DEF NoMore, feedVars, Held
  <2>2. UNCHANGED <<payload, received, pending, arriving>>
    BY DEF NoMore
  <2>3. Consumed(cuts, broken, lines, k, base + Held)'
    BY <1>3, <1>4, <2>1, <2>2 DEF Consumed
  <2>4. QED
    BY <1>1, <2>1, <2>3 DEF BodyFits
<1>10. QED
  BY <1>1, <1>5, <1>6, <1>7, <1>8, <1>9 DEF Inv

\* More of the body arrives.
LEMMA ReceiveInv ==
  ASSUME Inv, NEW n, Receive(n), UNCHANGED <<feedVars, textVars>>
  PROVE  Inv'
<1>1. PICK base \in Nat, cuts \in Chunkings, broken \in Nat, lines \in Nat, k \in Nat :
        BodyFits(base, cuts, broken, lines, k)
  BY DEF Inv
<1>2. TypeOK /\ ReaderFits /\ BoundsFit /\ TextFits
  BY DEF Inv
<1>3. Fed(base) /\ Consumed(cuts, broken, lines, k, base + Held)
  BY <1>1 DEF BodyFits
<1>. DEFINE body == Body(cuts, broken, lines)
            total == Len(body)
<1>4. /\ Part(pending, body, k, received) /\ Part(arriving, body, received, total)
      /\ received \in Nat /\ total \in Nat /\ k <= received /\ received <= total
  BY <1>2, <1>3, BodyTyped, LengthProps DEF Consumed
<1>5. Len(arriving) = total - received /\ n \in 1 .. Len(arriving)
      /\ n \in Nat /\ n \in 0 .. Len(arriving)
  BY <1>4 DEF Part, Receive
<1>6. /\ step \in {"header", "payload", "trailer"} /\ received' = received + n
      /\ step' = IF received + n > MaxBody THEN "failed" ELSE step
      /\ pending' = pending \o SubSeq(arriving, 1, n)
      /\ arriving' = SubSeq(arriving, n + 1, Len(arriving))
      /\ UNCHANGED <<payload, size, chunk, window, finished, trailers, expired, late>>
      /\ UNCHANGED <<block, buffer, fed, start>>
  BY DEF Receive, OverCap, Starved, feedVars
<1>7. /\ Part(pending', body, k, received') /\ Part(arriving', body, received', total)
      /\ received' \in Nat /\ k <= received' /\ received' <= total
  <2>. HIDE DEF body, total
  <2>1. /\ Part(SubSeq(arriving, 1, n), body, received, received + n)
        /\ Part(SubSeq(arriving, n + 1, Len(arriving)), body, received + n, total)
    BY <1>4, <1>5, PartCut
  <2>2. received + n \in Nat
    BY <1>4, <1>5
  <2>3. Part(pending \o SubSeq(arriving, 1, n), body, k, received + n)
    BY <1>4, <2>1, <2>2, PartJoin
  <2>4. QED
    BY <1>4, <1>5, <1>6, <2>1, <2>2, <2>3
<1>8. TypeOK'
  <2>1. pending' \in Seq([kind : Kinds, n : Nat]) /\ arriving' \in Seq([kind : Kinds, n : Nat])
    BY <1>7 DEF Part, Tokens
  <2>2. transcript' \in Transcripts /\ revised' \in BOOLEAN
    BY <1>2 DEF TypeOK, textVars
  <2>3. step' \in {"read", "header", "payload", "trailer", "decode", "ended", "failed"}
    BY <1>6
  <2>4. QED
    BY <1>2, <1>6, <1>7, <2>1, <2>2, <2>3 DEF TypeOK, Wanted
<1>9. ReaderFits'
  BY <1>2, <1>6 DEF ReaderFits, Wanted
<1>10. BoundsFit'
  <2>1. IF expired' THEN late' + Len(window') <= WindowBytes ELSE late' = 0
    BY <1>2, <1>6 DEF BoundsFit
  <2>2. received' > MaxBody => step' = "failed"
    BY <1>6
  <2>3. QED
    BY <2>1, <2>2 DEF BoundsFit
<1>11. TextFits'
  BY <1>2, TextKept
<1>12. BodyFits(base, cuts, broken, lines, k)'
  <2>1. Fed(base)' /\ Held' = Held
    BY <1>3, <1>6, FedKept DEF Held
  <2>2. step' # "failed" => step' = step
    BY <1>6
  <2>3. Consumed(cuts, broken, lines, k, base + Held)'
    BY <1>3, <1>6, <1>7, <2>1, <2>2 DEF Consumed, Between
  <2>4. QED
    BY <1>1, <2>1, <2>3 DEF BodyFits
<1>13. QED
  BY <1>1, <1>8, <1>9, <1>10, <1>11, <1>12 DEF Inv

\* A size line that is accepted says how many bytes follow; none is negative.
LEMMA SizeProps ==
  ASSUME NEW kind, NEW size0 \in Nat, NEW line, line = Token(kind, size0)
  PROVE  /\ SizeOf(line) = -1 \/ (SizeOf(line) = size0 /\ size0 <= MaxChunk /\ kind = "size")
         /\ kind = "size" /\ size0 = 0 => SizeOf(line) = 0
         /\ Max({SizeOf(line), 0}) = IF SizeOf(line) = -1 THEN 0 ELSE SizeOf(line)
<1>1. line.kind = kind /\ line.n = size0
  BY DEF Token
<1>2. SizeOf(line) = IF kind = "size" /\ size0 <= MaxChunk THEN size0 ELSE -1
  BY <1>1 DEF SizeOf
<1>3. MaxChunk \in Nat
  BY ConstantProps
<1>4. Max({-1, 0}) = 0
  BY DEF Max
<1>5. \A m \in Nat : Max({m, 0}) = m
  BY MaxOfTwo
<1>6. QED
  BY <1>2, <1>3, <1>4, <1>5

\* A size line is read.
LEMMA ReadHeaderInv ==
  ASSUME Inv, ReadHeader, UNCHANGED <<feedVars, textVars>>
  PROVE  Inv'
<1>1. PICK base \in Nat, cuts \in Chunkings, broken \in Nat, lines \in Nat, k \in Nat :
        BodyFits(base, cuts, broken, lines, k)
  BY DEF Inv
<1>2. TypeOK /\ ReaderFits /\ BoundsFit /\ TextFits
  BY DEF Inv
<1>3. Fed(base) /\ Consumed(cuts, broken, lines, k, base + Held)
  BY <1>1 DEF BodyFits
<1>. DEFINE body == Body(cuts, broken, lines)
            total == Len(body)
            n == SizeOf(Head(pending))
<1>4. /\ Part(pending, body, k, received) /\ Part(arriving, body, received, total)
      /\ received \in Nat /\ total \in Nat /\ k <= received /\ received <= total
  BY <1>2, <1>3, BodyTyped, LengthProps DEF Consumed
<1>5. /\ step = "header" /\ pending # <<>> /\ pending' = Tail(pending)
      /\ UNCHANGED <<payload, arriving, received, chunk, window, trailers, expired, late>>
      /\ UNCHANGED <<block, buffer, fed, start>>
  BY DEF ReadHeader, feedVars
<1>. HIDE DEF n
<1>6. /\ (finished' <=> n = 0) /\ finished' \in BOOLEAN /\ size' = Max({n, 0})
       /\ step' = CASE n < 0 -> "failed" [] n = 0 -> "trailer" [] OTHER -> "payload"
  BY DEF ReadHeader, n
<1>7. /\ k + 1 <= received /\ Head(pending) = body[k + 1]
      /\ Part(pending', body, k + 1, received) /\ k + 1 \in Nat
  <2>. HIDE DEF body, total
  <2>1. Head(pending) = body[k + 1] /\ Part(Tail(pending), body, k + 1, received)
    BY <1>4, <1>5, PartNext
  <2>2. k + 1 <= received
    BY <1>4, <1>5, PartNext
  <2>3. QED
    BY <1>5, <2>1, <2>2
<1>8. ~finished /\ window = <<>> /\ chunk = <<>> /\ Len(buffer) < Wanted /\ trailers = 0
  BY <1>2, <1>5 DEF ReaderFits
<1>9. Between(cuts, broken, k, base + Held)
  BY <1>3, <1>5, <1>8 DEF Consumed
<1>10. PICK i \in 1 .. Len(cuts) + 1 :
        broken \notin 1 .. i - 1 /\ base + Held = CutAt(cuts, i - 1)
        /\ k = HeaderAt(cuts, i) - 1
  BY <1>5, <1>9 DEF Between
<1>11. Len(cuts) \in Nat /\ HeaderAt(cuts, i) \in Nat /\ k + 1 = HeaderAt(cuts, i)
  BY <1>10, CutProps, HeaderProps
<1>12. \/ /\ i <= Len(cuts) /\ cuts[i] - CutAt(cuts, i - 1) \in Nat
          /\ cuts[i] - CutAt(cuts, i - 1) > 0
          /\ Head(pending) = Token("size", cuts[i] - CutAt(cuts, i - 1))
       \/ i = Len(cuts) + 1 /\ Head(pending) = Token("size", 0)
  <2>1. CASE i <= Len(cuts)
    <3>1. i \in 1 .. Len(cuts)
      BY <1>11, <2>1
    <3>2. cuts[i] - CutAt(cuts, i - 1) \in Nat /\ cuts[i] - CutAt(cuts, i - 1) > 0
      <4>1. cuts[i] \in Nat /\ CutAt(cuts, i - 1) \in Nat /\ CutAt(cuts, i - 1) < cuts[i]
        BY <3>1, ChunkProps
      <4>2. QED
        BY <4>1
    <3>3. body[HeaderAt(cuts, i)] = Token("size", cuts[i] - CutAt(cuts, i - 1))
      BY <3>1, BodyChunk
    <3>4. QED
      BY <1>7, <1>11, <2>1, <3>2, <3>3
  <2>2. CASE i = Len(cuts) + 1
    <3>1. body[HeaderAt(cuts, i)] = Token("size", 0)
      <4>. DEFINE last == HeaderAt(cuts, Len(cuts) + 1)
      <4>1. body[last] = Token("size", 0)
        BY BodyEnd
      <4>2. QED
        BY <2>2, <4>1
    <3>2. QED
      BY <1>7, <1>11, <2>2, <3>1
  <2>3. QED
    BY <1>11, <2>1, <2>2
<1>. HIDE DEF body, total
<1>13. \/ n = -1 /\ size' = 0
       \/ /\ n = cuts[i] - CutAt(cuts, i - 1) /\ n \in Nat /\ n > 0 /\ i <= Len(cuts)
          /\ size' = n /\ n <= MaxChunk
       \/ n = 0 /\ size' = 0 /\ i = Len(cuts) + 1
  <2>1. \A s \in Nat : Head(pending) = Token("size", s) =>
          /\ n = -1 \/ (n = s /\ s <= MaxChunk)
          /\ size' = IF n = -1 THEN 0 ELSE n
    BY <1>6, SizeProps DEF n
  <2>2. CASE i = Len(cuts) + 1 /\ Head(pending) = Token("size", 0)
    <3>1. n = 0
      <4>1. Token("size", 0).kind = "size" /\ Token("size", 0).n = 0
        BY DEF Token
      <4>2. 0 \in Nat /\ 0 <= MaxChunk
        BY ConstantProps
      <4>3. QED
        BY <2>2, <4>1, <4>2 DEF n, SizeOf
    <3>2. QED
      BY <2>1, <2>2, <3>1
  <2>3. CASE i <= Len(cuts)
    <3>. DEFINE s == cuts[i] - CutAt(cuts, i - 1)
    <3>1. s \in Nat /\ s > 0 /\ Head(pending) = Token("size", s)
      BY <1>11, <1>12, <2>3
    <3>. HIDE DEF s
    <3>2. (n = -1 /\ size' = 0) \/ (n = s /\ s <= MaxChunk /\ size' = n)
      BY <2>1, <3>1
    <3>3. QED
      BY <2>3, <3>1, <3>2 DEF s
  <2>4. QED
    BY <1>12, <2>2, <2>3
<1>14. /\ size' \in 0 .. MaxChunk
       /\ \/ step' = "failed" /\ ~finished'
          \/ step' = "payload" /\ ~finished' /\ n > 0
          \/ step' = "trailer" /\ finished' /\ n = 0
  <2>1. MaxChunk \in Nat
    BY ConstantProps
  <2>2. CASE n = -1
    BY <1>13, <1>6, <2>1, <2>2
  <2>3. CASE n \in Nat /\ n > 0
    BY <1>13, <1>6, <2>1, <2>3
  <2>4. CASE n = 0
    BY <1>13, <1>6, <2>1, <2>4
  <2>5. QED
    BY <1>13, <2>2, <2>3, <2>4
<1>15. TypeOK'
  <2>1. pending' \in Seq([kind : Kinds, n : Nat])
    BY <1>7 DEF Part, Tokens
  <2>2. transcript' \in Transcripts /\ revised' \in BOOLEAN
    BY <1>2 DEF TypeOK, textVars
  <2>3. finished' \in BOOLEAN
    BY <1>6
  <2>4. QED
    BY <1>2, <1>5, <1>14, <2>1, <2>2, <2>3 DEF TypeOK, Wanted
<1>16. ReaderFits'
  <2>1. MaxTrailers \in Nat
    BY ConstantProps
  <2>2. QED
    BY <1>5, <1>8, <1>14, <2>1 DEF ReaderFits, Wanted
<1>17. BoundsFit'
  BY <1>2, <1>5 DEF BoundsFit
<1>18. TextFits'
  BY <1>2, TextKept
<1>19. BodyFits(base, cuts, broken, lines, k + 1)'
  <2>1. Fed(base)' /\ Held' = Held
    BY <1>3, <1>5, <1>14, FedKept DEF Held
  <2>. SUFFICES Consumed(cuts, broken, lines, k + 1, base + Held)'
    BY <1>1, <2>1 DEF BodyFits
  <2>2. CASE step' = "failed"
    BY <1>3, <1>4, <1>5, <1>7, <2>1, <2>2 DEF Consumed, body, total
  <2>3. CASE step' = "payload"
    <3>1. ~finished' /\ i <= Len(cuts) /\ size' = cuts[i] - CutAt(cuts, i - 1)
      BY <1>13, <1>14, <2>3
    <3>2. Between(cuts, broken, k + 1, base + Held)'
      BY <1>10, <1>11, <2>1, <2>3, <3>1 DEF Between
    <3>3. QED
      BY <1>3, <1>4, <1>5, <1>7, <2>1, <3>1, <3>2 DEF Consumed, body, total
  <2>4. CASE step' = "trailer"
    <3>1. finished' /\ i = Len(cuts) + 1 /\ trailers' = 0 /\ 0 <= lines
      BY <1>5, <1>8, <1>13, <1>14, <2>4
    <3>2. broken = 0 /\ base + Held = CutAt(cuts, Len(cuts))
      BY <1>1, <1>10, <1>11, <3>1 DEF BodyFits
    <3>3. k + 1 = HeaderAt(cuts, Len(cuts) + 1) + trailers'
      BY <1>11, <3>1
    <3>4. QED
      BY <1>3, <1>4, <1>5, <1>7, <2>1, <2>4, <3>1, <3>2, <3>3 DEF Consumed, body, total
  <2>5. QED
    BY <1>14, <2>2, <2>3, <2>4
<1>20. QED
  BY <1>1, <1>7, <1>15, <1>16, <1>17, <1>18, <1>19 DEF Inv

\* A window and the rest of a run of bytes, unless the deadline has passed.
LEMMA PublishProps ==
  ASSUME NEW first \in Nat, NEW bytes, Run(bytes, first), ~expired, PublishWindow(bytes)
  PROVE  /\ Run(window', first) /\ Run(chunk', first + Len(window'))
         /\ Len(window') \in Nat /\ Len(chunk') \in Nat
         /\ Len(window') + Len(chunk') = Len(bytes) /\ Len(window') <= WindowBytes
         /\ step' = "read"
<1>. DEFINE n == Min({WindowBytes, Len(bytes)})
<1>1. Len(bytes) \in Nat /\ WindowBytes \in Nat
  BY ConstantProps DEF Run
<1>2. n \in 0 .. Len(bytes) /\ n <= WindowBytes /\ n \in Nat
  BY <1>1, MinOfTwo
<1>3. window' = SubSeq(bytes, 1, n)
  BY DEF PublishWindow, Window
<1>. HIDE DEF n
<1>4. /\ Run(SubSeq(bytes, 1, n), first) /\ Len(SubSeq(bytes, 1, n)) = n
      /\ Run(SubSeq(bytes, n + 1, Len(bytes)), first + n)
      /\ Len(SubSeq(bytes, n + 1, Len(bytes))) = Len(bytes) - n
  BY <1>2, RunCut
<1>5. chunk' = SubSeq(bytes, n + 1, Len(bytes)) /\ step' = "read"
  <2>1. chunk' = SubSeq(bytes, Len(Window(bytes)) + 1, Len(bytes)) /\ step' = "read"
    BY DEF PublishWindow
  <2>2. Window(bytes) = SubSeq(bytes, 1, n)
    BY DEF Window, n
  <2>3. QED
    BY <1>4, <2>1, <2>2
<1>6. Len(window') = n /\ Len(chunk') = Len(bytes) - n
  BY <1>3, <1>4, <1>5
<1>7. Run(window', first) /\ Run(chunk', first + Len(window'))
  BY <1>3, <1>4, <1>5, <1>6
<1>8. QED
  BY <1>1, <1>2, <1>5, <1>6, <1>7

\* A chunk is taken, with the end after it, or the framing is broken.
LEMMA ReadPayloadInv ==
  ASSUME Inv, ReadPayload, UNCHANGED <<feedVars, textVars>>
  PROVE  Inv'
<1>1. PICK base \in Nat, cuts \in Chunkings, broken \in Nat, lines \in Nat, k \in Nat :
        BodyFits(base, cuts, broken, lines, k)
  BY DEF Inv
<1>2. TypeOK /\ ReaderFits /\ BoundsFit /\ TextFits
  BY DEF Inv
<1>3. Fed(base) /\ Consumed(cuts, broken, lines, k, base + Held)
  BY <1>1 DEF BodyFits
<1>. DEFINE body == Body(cuts, broken, lines)
            total == Len(body)
            bytes == SubSeq(pending, 1, size)
<1>4. /\ Part(pending, body, k, received) /\ Part(arriving, body, received, total)
      /\ received \in Nat /\ total \in Nat /\ k <= received /\ received <= total
  BY <1>2, <1>3, BodyTyped, LengthProps DEF Consumed
<1>5. /\ step = "payload" /\ size \in Nat /\ size <= MaxChunk /\ MaxChunk \in Nat
      /\ Len(pending) \in Nat /\ Len(pending) >= size + 1
      /\ Len(pending) = received - k
  BY <1>2, <1>4, ConstantProps DEF ReadPayload, Starved, TypeOK, Part
<1>6. PICK next \in Nat : next = k + (size + 1)
  BY <1>5
<1>7. /\ size' = 0
      /\ UNCHANGED <<payload, arriving, received, finished, trailers, expired, late>>
      /\ UNCHANGED <<block, buffer, fed, start>>
  BY DEF ReadPayload, feedVars
<1>8. ~finished /\ window = <<>> /\ chunk = <<>> /\ Len(buffer) < Wanted
  BY <1>2, <1>5 DEF ReaderFits
<1>9. Len(buffer) \in Nat /\ Held = Len(buffer)
  BY <1>2, <1>3, <1>8, LengthProps, EmptySeq
<1>10. Between(cuts, broken, k, base + Held)
  BY <1>3, <1>5, <1>8 DEF Consumed
<1>11. PICK i \in 1 .. Len(cuts) + 1 :
         /\ broken \notin 1 .. i - 1 /\ base + Held = CutAt(cuts, i - 1)
         /\ i <= Len(cuts) /\ size = cuts[i] - CutAt(cuts, i - 1) /\ k = HeaderAt(cuts, i)
  BY <1>5, <1>10 DEF Between
<1>12. /\ i \in 1 .. Len(cuts) /\ i \in Nat /\ i >= 1 /\ Len(cuts) \in Nat /\ cuts[i] \in Nat
       /\ CutAt(cuts, i - 1) \in Nat
       /\ CutAt(cuts, (i + 1) - 1) = cuts[i]
       /\ HeaderAt(cuts, i) = CutAt(cuts, i - 1) + 2 * i - 1
       /\ HeaderAt(cuts, i + 1) = cuts[i] + 2 * i + 1
  <2>1. Len(cuts) \in Nat
    BY CutProps
  <2>2. i \in 1 .. Len(cuts)
    BY <1>11, <2>1
  <2>3. QED
    BY <2>1, <2>2, ChunkProps
<1>13. /\ base + Len(buffer) = CutAt(cuts, i - 1) /\ size = cuts[i] - CutAt(cuts, i - 1)
       /\ k = HeaderAt(cuts, i)
  BY <1>9, <1>11
<1>14. received \in Nat /\ k <= received
  BY <1>4
<1>. DEFINE c == CutAt(cuts, i - 1)
            e == cuts[i]
            g == HeaderAt(cuts, i + 1)
<1>15. /\ c \in Nat /\ e \in Nat /\ g = e + 2 * i + 1 /\ k = c + 2 * i - 1
       /\ base + Len(buffer) = c /\ size = e - c
       /\ body[g - 1] = Token(IF i = broken THEN "stray" ELSE "crlf", 0)
       /\ \A j \in 1 .. e - c : body[k + j] = Token("byte", c + j)
  <2>1. /\ c \in Nat /\ e \in Nat /\ g = e + 2 * i + 1 /\ k = c + 2 * i - 1
        /\ base + Len(buffer) = c /\ size = e - c
    BY <1>12, <1>13
  <2>2. body[g - 1] = Token(IF i = broken THEN "stray" ELSE "crlf", 0)
    BY <1>12, BodyChunk
  <2>3. \A j \in 1 .. e - c : body[HeaderAt(cuts, i) + j] = Token("byte", c + j)
    <3>1. i \in 1 .. Len(cuts)
      BY <1>12
    <3>2. /\ body[HeaderAt(cuts, i)] = Token("size", e - c)
          /\ \A j \in 1 .. e - c : body[HeaderAt(cuts, i) + j] = Token("byte", c + j)
          /\ body[g - 1] = Token(IF i = broken THEN "stray" ELSE "crlf", 0)
      BY <3>1, BodyChunk
    <3>3. QED
      BY <3>2
  <2>4. k = HeaderAt(cuts, i)
    BY <1>13
  <2>. HIDE DEF body, total, c, e, g
  <2>5. QED
    BY <2>1, <2>2, <2>3, <2>4
<1>. HIDE DEF c, e, g
<1>16. next = g - 1 /\ e <= next /\ next <= received
  BY <1>5, <1>12, <1>15, <1>14, <1>6
<1>17. pending[size + 1] = Token(IF i = broken THEN "stray" ELSE "crlf", 0)
  <2>1. size + 1 \in 1 .. received - k
    BY <1>4, <1>5
  <2>. HIDE DEF body, total
  <2>2. pending[size + 1] = body[next]
    BY <1>4, <1>6, <2>1 DEF Part
  <2>3. QED
    BY <1>15, <1>16, <2>2
<1>18. Run(bytes, base + Len(buffer)) /\ Len(bytes) = size
  <2>. HIDE DEF body, total
  <2>1. size \in 0 .. Len(pending) /\ pending \in Seq(Tokens)
    BY <1>4, <1>5 DEF Part
  <2>2. /\ bytes \in Seq(Tokens) /\ Len(bytes) = size
        /\ \A j \in 1 .. size : bytes[j] = pending[j]
    BY <2>1, SubSeqFirst
  <2>. HIDE DEF bytes
  <2>3. ASSUME NEW j \in 1 .. size
        PROVE  bytes[j] \in ByteTokens /\ bytes[j].n = base + Len(buffer) + j
    <3>1. j \in 1 .. received - k
      BY <1>4, <1>5
    <3>2. pending[j] = body[k + j]
      BY <1>4, <3>1 DEF Part
    <3>3. bytes[j] = Token("byte", c + j)
      BY <1>15, <2>2, <3>2
    <3>4. c + j \in Nat /\ c + j = base + Len(buffer) + j
      BY <1>15
    <3>5. QED
      BY <3>3, <3>4 DEF Token, ByteTokens
  <2>4. bytes \in Seq(ByteTokens)
    BY <2>2, <2>3
  <2>5. QED
    BY <2>2, <2>3, <2>4 DEF Run
<1>19. Part(SubSeq(pending, size + 2, Len(pending)), body, next, received)
  <2>. HIDE DEF body, total
  <2>1. size + 1 \in 0 .. Len(pending) /\ (size + 1) + 1 = size + 2 /\ k + (size + 1) = next
    BY <1>5, <1>6
  <2>2. Part(SubSeq(pending, (size + 1) + 1, Len(pending)), body, k + (size + 1), received)
    BY <1>4, <2>1, PartCut
  <2>3. QED
    BY <2>1, <2>2
<1>20. ("stray" # "crlf") /\ (pending[size + 1].kind = "crlf" <=> i # broken)
  BY <1>17 DEF Token
<1>21. TextFits'
  BY <1>2, TextKept
<1>22. base \in Nat /\ base + Len(buffer) \in Nat
  BY <1>9
<1>. HIDE DEF body, total, bytes
<1>23. CASE i = broken \/ expired
  <2>1. step' = "failed" /\ UNCHANGED <<chunk, window>>
    BY <1>20, <1>23 DEF ReadPayload, PublishWindow
  <2>2. PICK m \in Nat : m <= received /\ Part(pending', body, m, received)
    <3>1. CASE i = broken
      <4>1. pending' = pending
        BY <1>20, <3>1 DEF ReadPayload
      <4>2. QED
        BY <1>4, <4>1
    <3>2. CASE i # broken
      <4>1. pending' = SubSeq(pending, size + 2, Len(pending))
        BY <1>20, <3>2 DEF ReadPayload
      <4>2. QED
        BY <1>19, <1>16, <4>1
    <3>3. QED
      BY <3>1, <3>2
  <2>3. TypeOK'
    <3>1. pending' \in Seq([kind : Kinds, n : Nat])
      BY <2>2 DEF Part, Tokens
    <3>2. transcript' \in Transcripts /\ revised' \in BOOLEAN
      BY <1>2 DEF TypeOK, textVars
    <3>3. size' \in 0 .. MaxChunk
      BY <1>5, <1>7
    <3>4. QED
      BY <1>2, <1>7, <2>1, <3>1, <3>2, <3>3 DEF TypeOK, Wanted
  <2>4. ReaderFits'
    BY <1>2, <1>7, <1>8, <2>1 DEF ReaderFits, Wanted
  <2>5. BoundsFit'
    BY <1>2, <1>7, <2>1 DEF BoundsFit
  <2>6. BodyFits(base, cuts, broken, lines, m)'
    <3>1. Fed(base)' /\ Held' = Held
      BY <1>3, <1>5, <1>7, <2>1, FedKept DEF Held
    <3>2. Consumed(cuts, broken, lines, m, base + Held)'
      BY <1>3, <1>4, <1>7, <2>1, <2>2, <3>1 DEF Consumed, body, total
    <3>3. QED
      BY <1>1, <3>1, <3>2 DEF BodyFits
  <2>7. QED
    BY <1>1, <1>21, <2>3, <2>4, <2>5, <2>6 DEF Inv
<1>24. CASE i # broken /\ ~expired
  <2>1. PublishWindow(bytes) /\ pending' = SubSeq(pending, size + 2, Len(pending))
    BY <1>20, <1>24 DEF ReadPayload, bytes
  <2>2. /\ Run(window', base + Len(buffer))
        /\ Run(chunk', base + Len(buffer) + Len(window'))
        /\ Len(window') \in Nat /\ Len(chunk') \in Nat
        /\ Len(window') + Len(chunk') = size /\ Len(window') <= WindowBytes
        /\ step' = "read"
    BY <1>18, <1>22, <1>24, <2>1, PublishProps
  <2>3. Part(pending', body, next, received)
    BY <1>19, <2>1
  <2>4. Held' \in Nat /\ e \in Nat /\ base + Held' = e
    <3>1. Held' = Len(buffer) + Len(window') + Len(chunk')
      BY <1>7 DEF Held
    <3>2. QED
      <4>. DEFINE b == Len(buffer)
                  w == Len(window')
                  d == Len(chunk')
                  held == Held'
      <4>1. /\ held = b + w + d /\ w + d = size /\ base + b = c /\ size = e - c
            /\ b \in Nat /\ w \in Nat /\ d \in Nat /\ c \in Nat /\ e \in Nat
        BY <1>9, <1>15, <2>2, <3>1
      <4>. HIDE DEF b, w, d, held
      <4>2. held \in Nat /\ e \in Nat /\ base + held = e
        BY <4>1
      <4>3. QED
        BY <4>2 DEF held
  <2>5. TypeOK'
    <3>1. pending' \in Seq([kind : Kinds, n : Nat])
      BY <2>3 DEF Part, Tokens
    <3>2. transcript' \in Transcripts /\ revised' \in BOOLEAN
      BY <1>2 DEF TypeOK, textVars
    <3>3. size' \in 0 .. MaxChunk
      BY <1>5, <1>7
    <3>4. /\ window' \in Seq([kind : {"byte"}, n : Nat])
          /\ chunk' \in Seq([kind : {"byte"}, n : Nat])
      BY <2>2 DEF Run, ByteTokens
    <3>5. Len(window') + Len(chunk') < MaxChunk + 1 /\ Len(window') <= WindowBytes
      BY <1>5, <2>2
    <3>6. QED
      BY <1>2, <1>7, <2>2, <3>1, <3>2, <3>3, <3>4, <3>5 DEF TypeOK, Wanted
  <2>6. ReaderFits'
    BY <1>2, <1>7, <1>8, <2>2 DEF ReaderFits, Wanted
  <2>7. BoundsFit'
    <3>1. late = 0 /\ late' = 0 /\ ~expired'
      BY <1>2, <1>7, <1>24 DEF BoundsFit
    <3>2. ~ (received' > MaxBody)
      BY <1>2, <1>5, <1>7 DEF BoundsFit
    <3>3. QED
      BY <3>1, <3>2 DEF BoundsFit
  <2>8. BodyFits(base, cuts, broken, lines, next)'
    <3>1. Fed(base)'
      BY <1>3, <1>5, <1>7, <2>2 DEF Fed, Run
    <3>2. received <= MaxBody /\ MaxBody \in Nat
      BY <1>2, <1>4, <1>5, ConstantProps DEF BoundsFit
    <3>3. base + Held' <= MaxBody
      <4>. DEFINE held == Held'
      <4>1. held \in Nat /\ e \in Nat /\ base + held = e /\ e <= next /\ next <= received
        BY <1>16, <2>4
      <4>. HIDE DEF held
      <4>2. base + held <= MaxBody
        BY <1>14, <3>2, <4>1
      <4>3. QED
        BY <4>2 DEF held
    <3>4. Between(cuts, broken, next, base + Held)'
      <4>1. i + 1 \in 1 .. Len(cuts) + 1 /\ broken \notin 1 .. (i + 1) - 1
        BY <1>11, <1>12, <1>24
      <4>2. base + Held' = CutAt(cuts, (i + 1) - 1) /\ next = HeaderAt(cuts, i + 1) - 1
        BY <1>12, <1>16, <2>4 DEF e, g
      <4>3. step' # "payload"
        BY <2>2
      <4>4. QED
        BY <4>1, <4>2, <4>3 DEF Between
    <3>5. Consumed(cuts, broken, lines, next, base + Held)'
      BY <1>3, <1>4, <1>7, <1>8, <1>16, <2>3, <3>4 DEF Consumed, body, total
    <3>6. QED
      BY <1>1, <3>1, <3>3, <3>5 DEF BodyFits
  <2>9. QED
    BY <1>1, <1>21, <1>16, <2>5, <2>6, <2>7, <2>8 DEF Inv
<1>25. QED
  BY <1>23, <1>24

\* A line of the trailer is read, or the empty one after it.
LEMMA ReadTrailerInv ==
  ASSUME Inv, ReadTrailer, UNCHANGED <<feedVars, textVars>>
  PROVE  Inv'
<1>1. PICK base \in Nat, cuts \in Chunkings, broken \in Nat, lines \in Nat, k \in Nat :
        BodyFits(base, cuts, broken, lines, k)
  BY DEF Inv
<1>2. TypeOK /\ ReaderFits /\ BoundsFit /\ TextFits
  BY DEF Inv
<1>3. Fed(base) /\ Consumed(cuts, broken, lines, k, base + Held)
  BY <1>1 DEF BodyFits
<1>. DEFINE body == Body(cuts, broken, lines)
            total == Len(body)
            last == HeaderAt(cuts, Len(cuts) + 1)
<1>4. /\ Part(pending, body, k, received) /\ Part(arriving, body, received, total)
      /\ received \in Nat /\ total \in Nat /\ k <= received /\ received <= total
  BY <1>2, <1>3, BodyTyped, LengthProps DEF Consumed
<1>5. /\ step = "trailer" /\ pending # <<>> /\ pending' = Tail(pending)
      /\ UNCHANGED <<payload, arriving, received, size, chunk, window, finished, expired,
                     late>>
      /\ UNCHANGED <<block, buffer, fed, start>>
  BY DEF ReadTrailer, feedVars
<1>6. /\ trailers' = IF Head(pending).kind = "line" THEN trailers + 1 ELSE trailers
      /\ step' = IF Head(pending).kind # "line" THEN "decode"
                 ELSE IF trailers + 1 > MaxTrailers THEN "failed" ELSE "trailer"
  BY DEF ReadTrailer
<1>7. /\ finished /\ window = <<>> /\ chunk = <<>> /\ Len(buffer) < Wanted
      /\ trailers \in Nat /\ trailers <= MaxTrailers /\ MaxTrailers \in Nat
  BY <1>2, <1>5, ConstantProps DEF ReaderFits, TypeOK
<1>8. /\ broken = 0 /\ base + Held = CutAt(cuts, Len(cuts))
      /\ k = last + trailers /\ trailers <= lines
  BY <1>3, <1>5, <1>7 DEF Consumed
<1>9. k + 1 <= received /\ Head(pending) = body[k + 1] /\ Part(pending', body, k + 1, received)
  <2>. HIDE DEF body, total, last
  <2>1. Head(pending) = body[k + 1] /\ Part(Tail(pending), body, k + 1, received)
    BY <1>4, <1>5, PartNext
  <2>2. k + 1 <= received
    BY <1>4, <1>5, PartNext
  <2>3. QED
    BY <1>5, <2>1, <2>2
<1>10. /\ last \in Nat /\ body[last + lines + 1] = Token("empty", 0)
       /\ \A j \in 1 .. lines : body[last + j] = Token("line", 0)
  BY BodyEnd
<1>. HIDE DEF body, total, last
<1>11. \/ /\ trailers' = trailers + 1 /\ trailers' <= lines
          /\ \/ step' = "failed"
             \/ step' = "trailer" /\ trailers' <= MaxTrailers
       \/ trailers' = trailers /\ lines <= MaxTrailers /\ step' = "decode"
  <2>1. CASE trailers < lines
    <3>1. trailers + 1 \in 1 .. lines /\ k + 1 = last + (trailers + 1)
      BY <1>7, <1>8, <1>10, <2>1
    <3>2. Head(pending) = Token("line", 0)
      BY <1>9, <1>10, <3>1
    <3>3. Head(pending).kind = "line"
      BY <3>2 DEF Token
    <3>4. QED
      BY <1>6, <1>7, <2>1, <3>3
  <2>2. CASE trailers = lines
    <3>1. k + 1 = last + lines + 1
      BY <1>7, <1>8, <1>10, <2>2
    <3>2. Head(pending) = Token("empty", 0)
      BY <1>9, <1>10, <3>1
    <3>3. Head(pending).kind = "empty" /\ "empty" # "line"
      BY <3>2 DEF Token
    <3>4. QED
      BY <1>6, <1>7, <2>2, <3>3
  <2>3. QED
    BY <1>7, <1>8, <2>1, <2>2
<1>12. trailers' \in 0 .. MaxTrailers + 1
  BY <1>6, <1>7
<1>13. TypeOK'
  <2>1. pending' \in Seq([kind : Kinds, n : Nat])
    BY <1>9 DEF Part, Tokens
  <2>2. transcript' \in Transcripts /\ revised' \in BOOLEAN
    BY <1>2 DEF TypeOK, textVars
  <2>3. step' \in {"read", "header", "payload", "trailer", "decode", "ended", "failed"}
    BY <1>11
  <2>4. QED
    BY <1>2, <1>5, <1>12, <2>1, <2>2, <2>3 DEF TypeOK, Wanted
<1>14. ReaderFits'
  BY <1>5, <1>7, <1>11 DEF ReaderFits, Wanted
<1>15. BoundsFit'
  BY <1>2, <1>5 DEF BoundsFit
<1>16. TextFits'
  BY <1>2, TextKept
<1>17. PICK m \in Nat :
         /\ m <= received /\ Part(pending', body, m, received) /\ m = k + 1
  BY <1>9
<1>18. BodyFits(base, cuts, broken, lines, m)'
  <2>1. Fed(base)' /\ Held' = Held
    BY <1>3, <1>5, <1>11, FedKept DEF Held
  <2>. SUFFICES Consumed(cuts, broken, lines, m, base + Held)'
    BY <1>1, <2>1 DEF BodyFits
  <2>2. step' = "trailer" => m = last + trailers' /\ trailers' <= lines
    BY <1>7, <1>8, <1>10, <1>11, <1>17
  <2>3. step' \notin {"trailer", "failed"} => lines <= MaxTrailers
    BY <1>11
  <2>4. QED
    BY <1>3, <1>4, <1>5, <1>7, <1>8, <1>17, <2>1, <2>2, <2>3 DEF Consumed, body, total, last
<1>19. QED
  BY <1>1, <1>13, <1>14, <1>15, <1>16, <1>18 DEF Inv

\* Bytes are copied from the window into the read under way.
LEMMA TakeInv ==
  ASSUME Inv, Take
  PROVE  Inv'
<1>1. PICK base \in Nat, cuts \in Chunkings, broken \in Nat, lines \in Nat, k \in Nat :
        BodyFits(base, cuts, broken, lines, k)
  BY DEF Inv
<1>2. TypeOK /\ ReaderFits /\ BoundsFit /\ TextFits
  BY DEF Inv
<1>3. Fed(base) /\ Consumed(cuts, broken, lines, k, base + Held)
  BY <1>1 DEF BodyFits
<1>4. /\ Len(buffer) \in Nat /\ Len(window) \in Nat /\ Len(chunk) \in Nat /\ Wanted \in Nat
      /\ Held = Len(buffer) + Len(window) + Len(chunk) /\ Held \in Nat /\ late \in Nat
  BY <1>2, <1>3, LengthProps
<1>5. PICK n \in Nat :
        /\ n = Min({Wanted - Len(buffer), Len(window)}) /\ n > 0
        /\ n <= Wanted - Len(buffer) /\ n <= Len(window)
  <2>1. Wanted - Len(buffer) \in Nat
    BY <1>2, <1>4 DEF ReaderFits, Take
  <2>2. Min({Wanted - Len(buffer), Len(window)}) > 0
    BY DEF Take
  <2>3. QED
    BY <1>4, <2>1, <2>2, MinOfTwo
<1>6. /\ step = "read" /\ buffer' = buffer \o SubSeq(window, 1, n)
      /\ window' = SubSeq(window, n + 1, Len(window))
      /\ late' = (IF expired THEN late + n ELSE late)
      /\ step' = (IF Len(buffer) + n = Wanted THEN "decode" ELSE "read")
      /\ UNCHANGED <<payload, arriving, pending, received, size, chunk, finished, trailers,
                     expired, block, fed, start>>
      /\ UNCHANGED textVars
  BY <1>5 DEF Take
<1>7. Len(buffer) < Wanted /\ window # <<>> /\ ~finished
  BY <1>2, <1>4, <1>5, <1>6 DEF ReaderFits
<1>8. /\ Run(buffer', base) /\ Len(buffer') = Len(buffer) + n
      /\ Run(window', base + Len(buffer')) /\ Len(window') = Len(window) - n
      /\ Run(chunk', base + Len(buffer') + Len(window'))
  <2>1. Run(buffer, base) /\ Run(window, base + Len(buffer))
        /\ Run(chunk, base + Len(buffer) + Len(window))
    BY <1>3 DEF Fed
  <2>. DEFINE first == base + Len(buffer)
  <2>2. first \in Nat /\ n \in 0 .. Len(window) /\ Run(window, first)
    BY <1>4, <1>5, <2>1
  <2>. HIDE DEF first
  <2>3. /\ Run(SubSeq(window, 1, n), first) /\ Len(SubSeq(window, 1, n)) = n
        /\ Run(SubSeq(window, n + 1, Len(window)), first + n)
        /\ Len(SubSeq(window, n + 1, Len(window))) = Len(window) - n
    BY <2>2, RunCut
  <2>4. Run(SubSeq(window, 1, n), base + Len(buffer))
    BY <2>3 DEF first
  <2>5. /\ Run(buffer \o SubSeq(window, 1, n), base)
        /\ Len(buffer \o SubSeq(window, 1, n)) = Len(buffer) + Len(SubSeq(window, 1, n))
    BY <2>1, <2>4, RunJoin
  <2>6. Len(buffer') = Len(buffer) + n /\ Len(window') = Len(window) - n
    BY <1>6, <2>3, <2>5
  <2>7. first + n = base + Len(buffer')
        /\ base + Len(buffer') + Len(window') = base + Len(buffer) + Len(window)
    BY <1>4, <2>6 DEF first
  <2>8. QED
    BY <1>6, <2>1, <2>3, <2>5, <2>6, <2>7
<1>. DEFINE b == Len(buffer)
            w == Len(window)
            d == Len(chunk)
            b1 == Len(buffer')
            w1 == Len(window')
            wanted == Wanted
<1>9. /\ b \in Nat /\ w \in Nat /\ d \in Nat /\ wanted \in Nat /\ late \in Nat
       /\ n > 0 /\ n <= wanted - b /\ n <= w /\ b1 = b + n /\ w1 = w - n
       /\ Len(chunk') = d /\ Held = b + w + d /\ Held' = b1 + w1 + Len(chunk')
       /\ late' = (IF expired THEN late + n ELSE late)
       /\ step' = (IF b + n = wanted THEN "decode" ELSE "read")
  BY <1>4, <1>5, <1>6, <1>8 DEF Held
<1>10. w = Len(window) /\ d = Len(chunk) /\ b1 = Len(buffer') /\ w1 = Len(window')
       /\ wanted = Wanted
  OBVIOUS
<1>. HIDE DEF b, w, d, b1, w1, wanted
<1>11. Held' = Held
  <2>. DEFINE held == Held
              held1 == Held'
  <2>1. held = b + w + d /\ held1 = b1 + w1 + d
    BY <1>9
  <2>. HIDE DEF held, held1
  <2>2. held1 = held
    BY <1>9, <2>1
  <2>3. QED
    BY <2>2 DEF held, held1
<1>12. TypeOK'
  <2>1. /\ window' \in Seq([kind : {"byte"}, n : Nat])
        /\ chunk' \in Seq([kind : {"byte"}, n : Nat])
    BY <1>8 DEF Run, ByteTokens
  <2>2. /\ Len(window') <= WindowBytes /\ Len(window') + Len(chunk') < MaxChunk + 1
        /\ Len(buffer') <= Wanted /\ late' \in Nat
    <3>1. Len(window) <= WindowBytes /\ Len(window) + Len(chunk) < MaxChunk + 1
          /\ WindowBytes \in Nat /\ MaxChunk \in Nat /\ chunk' = chunk
      BY <1>2, <1>6, ConstantProps DEF TypeOK
    <3>2. QED
      BY <1>9, <1>10, <3>1
  <2>3. transcript' \in Transcripts /\ revised' \in BOOLEAN
    BY <1>2, <1>6 DEF TypeOK, textVars
  <2>4. step' \in {"read", "header", "payload", "trailer", "decode", "ended", "failed"}
    BY <1>6
  <2>5. QED
    BY <1>2, <1>6, <2>1, <2>2, <2>3, <2>4 DEF TypeOK, Wanted
<1>13. ReaderFits'
  <2>1. /\ step' = "decode" => Len(buffer') = Wanted
        /\ step' = "read" => Len(buffer') < Wanted
        /\ step' \in {"decode", "read"}
    BY <1>9, <1>10
  <2>2. Wanted' = Wanted /\ (~finished => trailers = 0)
    BY <1>2, <1>6 DEF Wanted, ReaderFits
  <2>3. QED
    BY <1>6, <1>7, <2>1, <2>2 DEF ReaderFits
<1>14. BoundsFit'
  <2>1. expired => late + Len(window) <= WindowBytes
    BY <1>2 DEF BoundsFit
  <2>2. ~expired => late = 0
    BY <1>2 DEF BoundsFit
  <2>3. WindowBytes \in Nat
    BY ConstantProps
  <2>4. IF expired' THEN late' + Len(window') <= WindowBytes ELSE late' = 0
    <3>1. CASE expired
      <4>1. late' = late + n /\ expired'
        BY <1>6, <3>1
      <4>2. late + w <= WindowBytes
        BY <1>10, <2>1, <3>1
      <4>3. late' + w1 <= WindowBytes
        BY <1>9, <2>3, <4>1, <4>2
      <4>4. QED
        BY <1>10, <4>1, <4>3
    <3>2. CASE ~expired
      BY <1>6, <2>2, <3>2
    <3>3. QED
      BY <3>1, <3>2
  <2>5. ~ (received' > MaxBody)
    <3>1. Held > 0
      BY <1>4, <1>5
    <3>2. QED
      BY <1>2, <1>4, <1>6, <3>1 DEF BoundsFit
  <2>6. QED
    BY <2>4, <2>5 DEF BoundsFit
<1>15. TextFits'
  BY <1>2, <1>6, TextKept
<1>16. BodyFits(base, cuts, broken, lines, k)'
  <2>1. Fed(base)'
    BY <1>3, <1>6, <1>8 DEF Fed
  <2>2. Between(cuts, broken, k, base + Held)
    BY <1>3, <1>6, <1>7 DEF Consumed
  <2>3. Between(cuts, broken, k, base + Held)'
    BY <1>6, <1>11, <2>2 DEF Between
  <2>4. Consumed(cuts, broken, lines, k, base + Held)'
    BY <1>3, <1>6, <1>7, <1>11, <2>3 DEF Consumed
  <2>5. QED
    BY <1>1, <1>11, <2>1, <2>4 DEF BodyFits
<1>17. QED
  BY <1>1, <1>12, <1>13, <1>14, <1>15, <1>16 DEF Inv

\* An empty window is filled from the chunk, or the reader needs the next one.
LEMMA MoreInv ==
  ASSUME Inv, More
  PROVE  Inv'
<1>1. PICK base \in Nat, cuts \in Chunkings, broken \in Nat, lines \in Nat, k \in Nat :
        BodyFits(base, cuts, broken, lines, k)
  BY DEF Inv
<1>2. TypeOK /\ ReaderFits /\ BoundsFit /\ TextFits
  BY DEF Inv
<1>3. Fed(base) /\ Consumed(cuts, broken, lines, k, base + Held)
  BY <1>1 DEF BodyFits
<1>4. /\ Len(buffer) \in Nat /\ Len(chunk) \in Nat /\ Len(window) = 0
      /\ Held = Len(buffer) + Len(window) + Len(chunk)
  BY <1>2, <1>3, LengthProps, EmptySeq DEF More
<1>5. /\ step = "read" /\ window = <<>>
      /\ UNCHANGED <<payload, arriving, pending, received, size, finished, trailers,
                     expired, late>>
      /\ UNCHANGED <<block, buffer, fed, start>>
      /\ UNCHANGED textVars
  BY DEF More, Underflow, feedVars
<1>6. Len(buffer) < Wanted /\ Wanted' = Wanted /\ (finished => chunk = <<>>)
  BY <1>2, <1>5 DEF ReaderFits, Wanted
<1>7. TextFits'
  BY <1>2, <1>5, TextKept
<1>8. transcript' \in Transcripts /\ revised' \in BOOLEAN
  BY <1>2, <1>5 DEF TypeOK, textVars
<1>9. CASE UNCHANGED <<chunk, window>>
  <2>1. \/ step' = "failed"
        \/ step' = "decode" /\ finished
        \/ step' = "header" /\ ~finished /\ chunk = <<>> /\ ~ (received > MaxBody)
    <3>1. CASE received > MaxBody
      BY <3>1 DEF More, Underflow, OverCap
    <3>2. CASE ~ (received > MaxBody) /\ chunk = <<>>
      BY <3>2 DEF More, Underflow, OverCap
    <3>3. CASE ~ (received > MaxBody) /\ chunk # <<>> /\ expired
      BY <3>3 DEF More, Underflow, OverCap, PublishWindow
    <3>4. CASE ~ (received > MaxBody) /\ chunk # <<>> /\ ~expired
      <4>1. PublishWindow(chunk)
        BY <3>4 DEF More, Underflow, OverCap
      <4>2. base + Len(buffer) \in Nat /\ Run(chunk, base + Len(buffer) + Len(window))
            /\ base + Len(buffer) + Len(window) = base + Len(buffer)
        BY <1>3, <1>4 DEF Fed
      <4>3. window' # <<>>
        <5>1. Len(chunk) >= 1 /\ WindowBytes \in Nat /\ WindowBytes > 0
          BY <1>3, <1>4, <3>4, ConstantProps, EmptySeq DEF Fed, Run
        <5>. DEFINE n == Min({WindowBytes, Len(chunk)})
        <5>2. n \in 0 .. Len(chunk) /\ n > 0
          BY <1>4, <5>1, MinOfTwo
        <5>3. window' = SubSeq(chunk, 1, n) /\ chunk \in Seq(ByteTokens)
          BY <3>4, <4>1, <4>2 DEF PublishWindow, Window, Run
        <5>. HIDE DEF n
        <5>4. Len(window') = n
          BY <5>2, <5>3, SubSeqFirst
        <5>5. QED
          BY <5>2, <5>4, EmptySeq
      <4>4. QED
        BY <1>5, <1>9, <4>3
    <3>5. QED
      BY <3>1, <3>2, <3>3, <3>4
  <2>2. TypeOK'
    <3>1. step' \in {"read", "header", "payload", "trailer", "decode", "ended", "failed"}
      BY <2>1
    <3>2. QED
      BY <1>2, <1>5, <1>8, <1>9, <3>1 DEF TypeOK, Wanted
  <2>3. ReaderFits'
    BY <1>2, <1>5, <1>6, <1>9, <2>1 DEF ReaderFits
  <2>4. Held' = Held
    BY <1>5, <1>9 DEF Held
  <2>5. BoundsFit'
    <3>1. received > MaxBody => step' = "failed"
      BY DEF More, Underflow, OverCap
    <3>2. QED
      BY <1>2, <1>5, <1>9, <3>1 DEF BoundsFit
  <2>6. BodyFits(base, cuts, broken, lines, k)'
    <3>1. Fed(base)'
      BY <1>3, <1>5, <1>9, <2>1, FedKept
    <3>2. Consumed(cuts, broken, lines, k, base + Held)'
      BY <1>3, <1>5, <2>1, <2>4 DEF Consumed, Between
    <3>3. QED
      BY <1>1, <2>4, <3>1, <3>2 DEF BodyFits
  <2>7. QED
    BY <1>1, <1>7, <2>2, <2>3, <2>5, <2>6 DEF Inv
<1>10. CASE ~ UNCHANGED <<chunk, window>>
  <2>1. ~ (received > MaxBody) /\ chunk # <<>> /\ PublishWindow(chunk) /\ ~expired
    BY <1>10 DEF More, Underflow, OverCap, PublishWindow
  <2>. DEFINE first == base + Len(buffer)
  <2>2. first \in Nat /\ Run(chunk, first)
    <3>1. Run(chunk, base + Len(buffer) + Len(window))
      BY <1>3 DEF Fed
    <3>2. base + Len(buffer) + Len(window) = first
      BY <1>4
    <3>3. QED
      BY <1>4, <3>1, <3>2
  <2>. HIDE DEF first
  <2>3. /\ Run(window', first) /\ Run(chunk', first + Len(window'))
        /\ Len(window') \in Nat /\ Len(chunk') \in Nat
        /\ Len(window') + Len(chunk') = Len(chunk) /\ Len(window') <= WindowBytes
        /\ step' = "read"
    BY <2>1, <2>2, PublishProps
  <2>4. Held' = Held
    <3>. DEFINE held == Held
                held1 == Held'
                b == Len(buffer)
                w1 == Len(window')
                c == Len(chunk)
                c1 == Len(chunk')
    <3>1. held = b + 0 + c /\ held1 = b + w1 + c1 /\ w1 + c1 = c
          /\ b \in Nat /\ c \in Nat /\ w1 \in Nat /\ c1 \in Nat
      BY <1>4, <1>5, <2>3 DEF Held
    <3>. HIDE DEF held, held1, b, w1, c, c1
    <3>2. held1 = held
      BY <3>1
    <3>3. QED
      BY <3>2 DEF held, held1
  <2>5. TypeOK'
    <3>1. /\ window' \in Seq([kind : {"byte"}, n : Nat])
          /\ chunk' \in Seq([kind : {"byte"}, n : Nat])
      BY <2>3 DEF Run, ByteTokens
    <3>2. Len(window') + Len(chunk') < MaxChunk + 1
      <4>1. Len(window) + Len(chunk) < MaxChunk + 1 /\ MaxChunk \in Nat
        BY <1>2, ConstantProps DEF TypeOK
      <4>2. QED
        BY <1>4, <2>3, <4>1
    <3>3. QED
      BY <1>2, <1>5, <1>8, <2>3, <3>1, <3>2 DEF TypeOK, Wanted
  <2>6. ReaderFits'
    BY <1>2, <1>5, <1>6, <2>1, <2>3 DEF ReaderFits
  <2>7. BoundsFit'
    BY <1>2, <1>5, <2>1, <2>3 DEF BoundsFit
  <2>8. BodyFits(base, cuts, broken, lines, k)'
    <3>1. Fed(base)'
      BY <1>3, <1>5, <2>3 DEF Fed, Run, first
    <3>2. Consumed(cuts, broken, lines, k, base + Held)'
      BY <1>3, <1>5, <2>3, <2>4 DEF Consumed, Between
    <3>3. QED
      BY <1>1, <2>4, <3>1, <3>2 DEF BodyFits
  <2>9. QED
    BY <1>1, <1>7, <2>5, <2>6, <2>7, <2>8 DEF Inv
<1>11. QED
  BY <1>9, <1>10

----------------------------------------------------------------------------
(* The samples of a block *)

\* How many samples a block of that many bytes has.
Count(length) == (length \div FrameBytes) * Channels

\* They are no more than the bytes, each with its first byte among them.
LEMMA CountProps ==
  ASSUME NEW length \in Nat
  PROVE  /\ Count(length) \in Nat /\ Count(length) * SampleBytes <= length
         /\ \A i \in 1 .. Count(length) :
              (i - 1) * SampleBytes + 1 \in 1 .. length /\ (i - 1) * SampleBytes \in Nat
<1>. DEFINE B == SampleBytes
            C == Channels
            F == FrameBytes
            q == length \div F
            r == length % F
<1>1. B \in Nat /\ B > 0 /\ C \in Nat /\ C > 0
  BY ConstantProps
<1>2. F = B * C /\ F \in Nat /\ F > 0
  BY <1>1 DEF FrameBytes
<1>3. length = (F * q) + r /\ q \in Int /\ r \in 0 .. F - 1
  <2>1. F \in Nat /\ F > 0 /\ length \in Int
    BY <1>2
  <2>. HIDE DEF F
  <2>2. length % F \in 0 .. F - 1 /\ length \div F \in Int
        /\ length = (F * (length \div F)) + (length % F)
    BY <2>1, DivMod
  <2>3. QED
    BY <2>2
<1>4. Count(length) = q * C
  BY DEF Count
<1>. HIDE DEF B, C, F, q, r
<1>5. q >= 0
  <2>1. q <= -1 => F * q <= -F
    BY <1>2, <1>3
  <2>2. QED
    BY <1>2, <1>3, <2>1
<1>6. q * C \in Nat
  BY <1>1, <1>3, <1>5
<1>7. (q * C) * B = F * q
  BY <1>1, <1>2, <1>3
<1>8. (q * C) * B <= length
  BY <1>2, <1>3, <1>7
<1>9. ASSUME NEW i \in 1 .. q * C
      PROVE  (i - 1) * B + 1 \in 1 .. length /\ (i - 1) * B \in Nat
  <2>. DEFINE n == q * C
  <2>1. n \in Nat /\ n * B <= length /\ i \in 1 .. n /\ i \in Nat
    BY <1>6, <1>8
  <2>. HIDE DEF n
  <2>2. (i - 1) * B \in Nat
    BY <1>1, <2>1
  <2>3. i * B <= n * B
    BY <1>1, <2>1
  <2>4. (i - 1) * B = i * B - B
    BY <1>1, <2>1
  <2>5. n * B \in Nat /\ i * B \in Nat
    BY <1>1, <2>1
  <2>6. QED
    BY <1>1, <2>1, <2>2, <2>3, <2>4, <2>5
<1>10. QED
  BY <1>4, <1>6, <1>8, <1>9 DEF B

\* A sample is named by the number of its first byte.
LEMMA SamplesProps ==
  ASSUME NEW first \in Nat, NEW bytes, Run(bytes, first)
  PROVE  /\ Samples(bytes) \in Seq(Nat) /\ Len(Samples(bytes)) = Count(Len(bytes))
         /\ \A i \in 1 .. Count(Len(bytes)) :
              Samples(bytes)[i] = first + ((i - 1) * SampleBytes + 1)
<1>. DEFINE n == Count(Len(bytes))
<1>1. Len(bytes) \in Nat
  BY DEF Run
<1>2. /\ n \in Nat
      /\ \A i \in 1 .. n : (i - 1) * SampleBytes + 1 \in 1 .. Len(bytes)
                           /\ (i - 1) * SampleBytes \in Nat
  BY <1>1, CountProps
<1>3. Samples(bytes) = [i \in 1 .. n |-> bytes[(i - 1) * SampleBytes + 1].n]
  BY DEF Samples, Count
<1>. HIDE DEF n
<1>4. ASSUME NEW i \in 1 .. n
      PROVE  Samples(bytes)[i] = first + ((i - 1) * SampleBytes + 1)
             /\ Samples(bytes)[i] \in Nat
  <2>. DEFINE j == (i - 1) * SampleBytes + 1
  <2>1. j \in 1 .. Len(bytes) /\ Samples(bytes)[i] = bytes[j].n
    BY <1>2, <1>3
  <2>. HIDE DEF j
  <2>2. bytes[j].n = first + j /\ first + j \in Nat
    BY <1>1, <2>1 DEF Run
  <2>3. QED
    BY <2>1, <2>2 DEF j
<1>5. Samples(bytes) \in [1 .. n -> Nat]
  BY <1>3, <1>4
<1>6. Samples(bytes) \in Seq(Nat) /\ Len(Samples(bytes)) = n
  BY <1>2, <1>5
<1>7. QED
  BY <1>4, <1>6 DEF n

\* A block of whole frames is all of its bytes.
LEMMA CountOfBlock ==
  ASSUME NEW b \in Nat, b % Channels = 0
  PROVE  Count(b * SampleBytes) = b
<1>. DEFINE B == SampleBytes
            C == Channels
            F == FrameBytes
            m == b \div C
<1>1. B \in Nat /\ B > 0 /\ C \in Nat /\ C > 0
  BY ConstantProps
<1>2. F = B * C /\ F \in Nat /\ F > 0
  BY <1>1 DEF FrameBytes
<1>3. b = (C * m) + (b % C) /\ m \in Int
  <2>. HIDE DEF C
  <2>1. QED
    BY <1>1, DivMod
<1>4. b = C * m
  BY <1>1, <1>3
<1>. HIDE DEF B, C, F, m
<1>5. b * B = (F * m) + 0
  BY <1>1, <1>2, <1>3, <1>4
<1>6. (b * B) \div F = m
  <2>. DEFINE a == b * B
  <2>1. a \in Int /\ a = (F * m) + 0 /\ 0 \in 0 .. F - 1
    BY <1>1, <1>2, <1>5
  <2>. HIDE DEF a
  <2>2. a \div F = m
    BY <1>2, <1>3, <2>1, DivUnique
  <2>3. QED
    BY <2>2 DEF a
<1>7. m * C = b
  BY <1>1, <1>3, <1>4
<1>8. QED
  BY <1>6, <1>7 DEF Count, B, C, F

\* The samples of whole frames and those of what comes after are those of all of it.
LEMMA CountOfSum ==
  ASSUME NEW b \in Nat, b % Channels = 0, NEW length \in Nat
  PROVE  Count(b * SampleBytes + length) = b + Count(length)
<1>. DEFINE B == SampleBytes
            C == Channels
            F == FrameBytes
            m == b \div C
            q == length \div F
            r == length % F
<1>1. B \in Nat /\ B > 0 /\ C \in Nat /\ C > 0
  BY ConstantProps
<1>2. F = B * C /\ F \in Nat /\ F > 0
  BY <1>1 DEF FrameBytes
<1>3. b = (C * m) + (b % C) /\ m \in Int
  <2>. HIDE DEF C
  <2>1. QED
    BY <1>1, DivMod
<1>4. b = C * m
  BY <1>1, <1>3
<1>5. length = (F * q) + r /\ q \in Int /\ r \in 0 .. F - 1
  <2>1. F \in Nat /\ F > 0 /\ length \in Int
    BY <1>2
  <2>. HIDE DEF F
  <2>2. length % F \in 0 .. F - 1 /\ length \div F \in Int
        /\ length = (F * (length \div F)) + (length % F)
    BY <2>1, DivMod
  <2>3. QED
    BY <2>2
<1>6. Count(length) = q * C
  BY DEF Count
<1>. HIDE DEF B, C, F, m, q, r
<1>7. b * B = F * m
  BY <1>1, <1>2, <1>3, <1>4
<1>8. F * m + F * q = F * (m + q)
  BY <1>2, <1>3, <1>5
<1>9. (b * B + length) \div F = m + q
  <2>. DEFINE a == b * B + length
              k == m + q
  <2>1. a \in Int /\ a = (F * k) + r /\ k \in Int
    <3>1. F * m \in Int /\ F * q \in Int /\ F * (m + q) \in Int
      BY <1>2, <1>3, <1>5
    <3>2. QED
      BY <1>3, <1>5, <1>7, <1>8, <3>1
  <2>. HIDE DEF a, k
  <2>2. F \in Nat /\ F > 0 /\ r \in 0 .. F - 1
    BY <1>2, <1>5
  <2>3. a \div F = k
    BY <2>1, <2>2, DivUnique
  <2>4. QED
    BY <2>3 DEF a, k
<1>10. (m + q) * C = b + q * C
  BY <1>1, <1>3, <1>4, <1>5
<1>11. QED
  BY <1>6, <1>9, <1>10 DEF Count, B, C, F

\* Whole frames and whole frames are whole frames.
LEMMA WholeFrames ==
  ASSUME NEW a \in Nat, a % Channels = 0, NEW b \in Nat, b % Channels = 0
  PROVE  (a + b) % Channels = 0
<1>. DEFINE C == Channels
            m == a \div C
            n == b \div C
            s == a + b
            k == m + n
<1>1. C \in Nat /\ C > 0
  BY ConstantProps
<1>2. a = (C * m) + 0 /\ m \in Int /\ b = (C * n) + 0 /\ n \in Int
  <2>1. a = (C * m) + (a % C) /\ m \in Int /\ b = (C * n) + (b % C) /\ n \in Int
    <3>. HIDE DEF C
    <3>1. QED
      BY <1>1, DivMod
  <2>2. QED
    BY <2>1
<1>3. a % C = 0 /\ b % C = 0
  OBVIOUS
<1>. HIDE DEF C, m, n
<1>4. s = (C * k) + 0 /\ s \in Int /\ k \in Int /\ 0 \in 0 .. C - 1
  BY <1>1, <1>2
<1>. HIDE DEF s, k
<1>5. s % C = 0
  BY <1>1, <1>4, ModUnique
<1>6. QED
  BY <1>5 DEF s, C

\* The session gets the samples of the read, which are the next of the body.
LEMMA FeedFed ==
  ASSUME TypeOK, ReaderFits, NEW base \in Nat, Fed(base), Feed,
         NEW end \in Nat, end = base + Len(buffer), Len(buffer) < Wanted => payload = end
  PROVE  Fed(end)' /\ Held' = Len(window) + Len(chunk)
<1>1. /\ step = "decode" /\ fed' = fed \o Samples(buffer)
      /\ start' = start + Len(Samples(buffer)) /\ buffer' = <<>>
      /\ step' = (IF Len(buffer) = Wanted THEN "read" ELSE "ended")
      /\ UNCHANGED <<payload, window, chunk, block>>
  BY DEF Feed
<1>2. PICK length \in Nat, l \in Nat, n \in Nat, B \in Nat :
        length = Len(buffer) /\ l = Len(fed) /\ n = Count(length) /\ B = SampleBytes
  BY LengthProps, CountProps, ConstantProps
<1>3. end = base + length
  BY <1>2
<1>4. /\ Run(buffer, base) /\ Run(window, base + Len(buffer))
      /\ Run(chunk, base + Len(buffer) + Len(window))
      /\ fed \in Seq(Nat) /\ start = l /\ l * B <= base
  BY <1>2 DEF Fed
<1>5. block \in Nat /\ Wanted = block * B
  BY <1>2, ConstantProps DEF TypeOK, Wanted
<1>6. /\ Samples(buffer) \in Seq(Nat) /\ Len(Samples(buffer)) = n
      /\ \A i \in 1 .. n : Samples(buffer)[i] = base + ((i - 1) * B + 1)
  <2>1. /\ Samples(buffer) \in Seq(Nat) /\ Len(Samples(buffer)) = Count(Len(buffer))
        /\ \A i \in 1 .. Count(Len(buffer)) :
             Samples(buffer)[i] = base + ((i - 1) * SampleBytes + 1)
    BY <1>4, SamplesProps
  <2>2. QED
    BY <1>2, <2>1
<1>7. /\ fed' \in Seq(Nat) /\ Len(fed') = l + n
      /\ \A i \in 1 .. l + n : fed'[i] = IF i <= l THEN fed[i] ELSE Samples(buffer)[i - l]
  <2>1. /\ fed \o Samples(buffer) \in Seq(Nat)
        /\ Len(fed \o Samples(buffer)) = Len(fed) + Len(Samples(buffer))
        /\ \A i \in 1 .. Len(fed) + Len(Samples(buffer)) : (fed \o Samples(buffer))[i] =
             IF i <= Len(fed) THEN fed[i] ELSE Samples(buffer)[i - Len(fed)]
    BY <1>4, <1>6, ConcatProperties
  <2>2. QED
    BY <1>1, <1>2, <1>6, <2>1
<1>8. Run(buffer', end) /\ Len(buffer') = 0
  BY <1>1, RunEmpty
<1>9. Run(window', end + Len(buffer')) /\ Run(chunk', end + Len(buffer') + Len(window'))
  <2>1. end + Len(buffer') = base + Len(buffer) /\ window' = window /\ chunk' = chunk
    BY <1>1, <1>2, <1>3, <1>8
  <2>2. QED
    BY <1>4, <2>1
<1>10. start' = Len(fed') /\ Len(fed') * B <= end
  <2>1. n * B <= length
    BY <1>2, CountProps
  <2>2. (l + n) * B = l * B + n * B /\ l * B \in Nat /\ n * B \in Nat
    OBVIOUS
  <2>3. (l + n) * B <= end
    BY <1>3, <1>4, <2>1, <2>2
  <2>4. QED
    BY <1>1, <1>4, <1>6, <1>7, <2>3
<1>11. ASSUME block % Channels = 0
       PROVE  /\ \A i \in 1 .. Len(fed') : fed'[i] = (i - 1) * B + 1
              /\ IF step' = "ended" THEN Len(fed') = (payload \div FrameBytes) * Channels
                 ELSE end = Len(fed') * B /\ Len(fed') % Channels = 0
  <2>1. base = l * B /\ l % Channels = 0 /\ \A i \in 1 .. l : fed[i] = (i - 1) * B + 1
    BY <1>1, <1>2, <1>11 DEF Fed
  <2>2. ASSUME NEW i \in 1 .. l + n
        PROVE  fed'[i] = (i - 1) * B + 1
    <3>1. CASE i <= l
      <4>1. i \in 1 .. l
        BY <3>1
      <4>2. QED
        BY <1>7, <2>1, <3>1, <4>1
    <3>2. CASE i > l
      <4>1. i - l \in 1 .. n /\ i \in Nat
        BY <3>2
      <4>2. fed'[i] = base + (((i - l) - 1) * B + 1)
        BY <1>6, <1>7, <3>2, <4>1
      <4>3. l * B + ((i - l) - 1) * B = (i - 1) * B
        BY <4>1
      <4>4. l * B \in Int /\ ((i - l) - 1) * B \in Int
        BY <4>1
      <4>5. QED
        BY <2>1, <4>2, <4>3, <4>4
    <3>3. QED
      BY <3>1, <3>2
  <2>3. CASE Len(buffer) = Wanted
    <3>1. length = block * B /\ n = block /\ step' = "read"
      BY <1>1, <1>2, <1>5, <1>11, <2>3, CountOfBlock
    <3>2. end = (l + n) * B
      <4>1. (l + n) * B = l * B + n * B
        OBVIOUS
      <4>2. QED
        BY <1>3, <2>1, <3>1, <4>1
    <3>3. (l + n) % Channels = 0
      BY <1>11, <2>1, <3>1, WholeFrames
    <3>4. QED
      BY <1>7, <2>2, <3>1, <3>2, <3>3
  <2>4. CASE Len(buffer) # Wanted
    <3>1. step' = "ended" /\ payload = base + length
      BY <1>1, <1>2, <2>4 DEF TypeOK, ReaderFits
    <3>2. Count(l * B + length) = l + n
      BY <1>2, <2>1, CountOfSum
    <3>3. Count(payload) = l + n
      BY <2>1, <3>1, <3>2
    <3>4. QED
      BY <1>7, <2>2, <3>1, <3>3 DEF Count
  <2>5. QED
    BY <2>3, <2>4
<1>12. Fed(end)'
  <2>1. SampleBytes = B /\ block' = block /\ payload' = payload
    BY <1>1, <1>2
  <2>2. block' % Channels = 0 =>
         /\ \A i \in 1 .. Len(fed') : fed'[i] = (i - 1) * SampleBytes + 1
         /\ IF step' = "ended" THEN Len(fed') = (payload' \div FrameBytes) * Channels
            ELSE end = Len(fed') * SampleBytes /\ Len(fed') % Channels = 0
    BY <1>11, <2>1
  <2>3. QED
    BY <1>7, <1>8, <1>9, <1>10, <2>1, <2>2 DEF Fed
<1>13. Held' = Len(window) + Len(chunk)
  <2>. DEFINE w == Len(window)
              c == Len(chunk)
  <2>1. Held' = 0 + w + c /\ w \in Nat /\ c \in Nat
    BY <1>1, <1>8, LengthProps DEF Held
  <2>. HIDE DEF w, c
  <2>2. 0 + w + c = w + c
    BY <2>1
  <2>3. QED
    BY <2>1, <2>2 DEF w, c
<1>14. QED
  BY <1>12, <1>13

----------------------------------------------------------------------------
(* Text *)

\* The first n bytes end no character too early.
Complete(text, n) ==
  \A i \in 1 .. n : text[i] \in DOMAIN LengthOf => i + LengthOf[text[i]] - 1 <= n

\* The assumption on the constants, in parts.
LEMMA CharacterProps ==
  /\ CheckedBytes \in Nat
  /\ \A byte : ~ (byte \in Continuations /\ byte \in DOMAIN LengthOf)
  /\ \A lead \in DOMAIN LengthOf :
       LengthOf[lead] \in Nat /\ LengthOf[lead] >= 1 /\ LengthOf[lead] <= CheckedBytes
BY PartialTextAssumption

\* What IsText says of a byte.
LEMMA TextProps ==
  ASSUME NEW text, IsText(text)
  PROVE  /\ text \in Seq(Continuations \cup DOMAIN LengthOf) /\ Len(text) \in Nat
         /\ \A i \in 1 .. Len(text) : text[i] \in Continuations \/ text[i] \in DOMAIN LengthOf
         /\ \A i \in 1 .. Len(text) : text[i] \in Continuations =>
              \E lead \in 1 .. i - 1 :
                text[lead] \in DOMAIN LengthOf /\ i < lead + LengthOf[text[lead]]
         /\ \A i \in 1 .. Len(text) : text[i] \in DOMAIN LengthOf =>
              \A j \in i + 1 .. i + LengthOf[text[i]] - 1 :
                j <= Len(text) => text[j] \in Continuations
<1>1. text \in Seq(Continuations \cup DOMAIN LengthOf)
  BY DEF IsText
<1>2. Len(text) \in Nat /\ DOMAIN text = 1 .. Len(text)
  BY <1>1
<1>3. \A i \in 1 .. Len(text) : text[i] \in Continuations \/ text[i] \in DOMAIN LengthOf
  BY <1>1, ElementOfSeq
<1>4. ASSUME NEW i \in 1 .. Len(text), text[i] \in Continuations
      PROVE  \E lead \in 1 .. i - 1 :
               text[lead] \in DOMAIN LengthOf /\ i < lead + LengthOf[text[lead]]
  BY <1>2, <1>4 DEF IsText, Continues
<1>5. ASSUME NEW i \in 1 .. Len(text), text[i] \in DOMAIN LengthOf,
             NEW j \in i + 1 .. i + LengthOf[text[i]] - 1, j <= Len(text)
      PROVE  text[j] \in Continuations
  <2>1. ~ Continues(text, i)
    BY <1>5, CharacterProps DEF Continues
  <2>2. Continues(text, j)
    BY <1>2, <1>5, <2>1 DEF IsText
  <2>3. QED
    BY <2>2 DEF Continues
<1>6. QED
  BY <1>1, <1>2, <1>3, <1>4, <1>5

\* And back.
LEMMA TextIntro ==
  ASSUME NEW text, text \in Seq(Continuations \cup DOMAIN LengthOf),
         \A i \in 1 .. Len(text) : text[i] \in Continuations =>
           \E lead \in 1 .. i - 1 :
             text[lead] \in DOMAIN LengthOf /\ i < lead + LengthOf[text[lead]],
         \A i \in 1 .. Len(text) : text[i] \in DOMAIN LengthOf =>
           \A j \in i + 1 .. i + LengthOf[text[i]] - 1 :
             j <= Len(text) => text[j] \in Continuations
  PROVE  IsText(text)
<1>1. Len(text) \in Nat /\ DOMAIN text = 1 .. Len(text)
  OBVIOUS
<1>2. ASSUME NEW i \in 1 .. Len(text), ~ Continues(text, i)
      PROVE  \A j \in i + 1 .. i + LengthOf[text[i]] - 1 : j <= Len(text) => Continues(text, j)
  <2>1. text[i] \in DOMAIN LengthOf
    BY <1>1, <1>2, ElementOfSeq DEF Continues
  <2>2. ASSUME NEW j \in i + 1 .. i + LengthOf[text[i]] - 1, j <= Len(text)
        PROVE  Continues(text, j)
    <3>1. j \in DOMAIN text
      BY <1>1, <2>1, <2>2, CharacterProps
    <3>2. QED
      BY <2>1, <2>2, <3>1 DEF Continues
  <2>3. QED
    BY <2>2
<1>3. ASSUME NEW i \in 1 .. Len(text), Continues(text, i)
      PROVE  \E lead \in 1 .. i - 1 :
               text[lead] \in DOMAIN LengthOf /\ i < lead + LengthOf[text[lead]]
  BY <1>3 DEF Continues
<1>4. QED
  BY <1>1, <1>2, <1>3 DEF IsText

\* No text is a text.
LEMMA EmptyText == IsText(<<>>) /\ Complete(<<>>, 0) /\ Len(<<>>) = 0
BY EmptySeq DEF IsText, Complete

\* After whole characters no character goes on.
LEMMA NoStray ==
  ASSUME NEW text, IsText(text), NEW n \in Nat, Complete(text, n)
  PROVE  ~ Continues(text, n + 1)
<1>. SUFFICES ASSUME Continues(text, n + 1)
              PROVE  FALSE
  OBVIOUS
<1>1. n + 1 \in 1 .. Len(text) /\ text[n + 1] \in Continuations
  BY TextProps DEF Continues
<1>2. PICK lead \in 1 .. (n + 1) - 1 :
        text[lead] \in DOMAIN LengthOf /\ n + 1 < lead + LengthOf[text[lead]]
  BY <1>1, TextProps
<1>3. lead \in 1 .. n /\ LengthOf[text[lead]] \in Nat
  BY <1>2, CharacterProps
<1>4. lead + LengthOf[text[lead]] - 1 <= n
  BY <1>2, <1>3 DEF Complete
<1>5. QED
  BY <1>2, <1>3, <1>4

\* A text begins with a character.
LEMMA NoStrayFirst ==
  ASSUME NEW text, IsText(text)
  PROVE  ~ Continues(text, 1)
<1>1. Complete(text, 0) /\ 0 \in Nat /\ 0 + 1 = 1
  BY DEF Complete
<1>2. QED
  BY <1>1, NoStray

\* Where the next character begins, those before are whole.
LEMMA CompleteBefore ==
  ASSUME NEW text, IsText(text), NEW n \in Nat, n < Len(text), ~ Continues(text, n + 1)
  PROVE  Complete(text, n)
<1>. SUFFICES ASSUME NEW i \in 1 .. n, text[i] \in DOMAIN LengthOf,
                     ~ (i + LengthOf[text[i]] - 1 <= n)
              PROVE  FALSE
  BY DEF Complete
<1>1. LengthOf[text[i]] \in Nat /\ Len(text) \in Nat /\ DOMAIN text = 1 .. Len(text)
  BY CharacterProps, TextProps
<1>2. /\ i \in 1 .. Len(text) /\ n + 1 \in i + 1 .. i + LengthOf[text[i]] - 1
      /\ n + 1 <= Len(text)
  BY <1>1
<1>3. text[n + 1] \in Continuations
  BY <1>2, TextProps
<1>4. n + 1 \in DOMAIN text
  BY <1>1
<1>5. QED
  BY <1>3, <1>4 DEF Continues

\* What is published of a text is whole characters.
LEMMA PublishableProps ==
  ASSUME NEW text, IsText(text)
  PROVE  /\ TranscriptPublishableEnd(text) \in 0 .. Len(text)
         /\ Complete(text, TranscriptPublishableEnd(text))
         /\ Complete(text, Len(text)) <=> TranscriptPublishableEnd(text) = Len(text)
<1>. DEFINE leads == {i \in DOMAIN text : ~Continues(text, i)}
            lead == Max(leads)
            end == TranscriptPublishableEnd(text)
<1>1. Len(text) \in Nat /\ DOMAIN text = 1 .. Len(text)
  BY TextProps
<1>2. end = IF leads = {} \/ text[lead] \notin DOMAIN LengthOf THEN Len(text)
            ELSE IF Len(text) - lead + 1 < LengthOf[text[lead]] THEN lead - 1
            ELSE Len(text)
  BY DEF TranscriptPublishableEnd
<1>3. CASE text = <<>>
  <2>1. Len(text) = 0 /\ leads = {}
    BY <1>1, <1>3
  <2>2. end = 0
    BY <1>2, <2>1
  <2>3. QED
    BY <2>1, <2>2 DEF Complete
<1>4. CASE text # <<>>
  <2>1. 1 \in leads
    BY <1>1, <1>4, NoStrayFirst, TextProps, EmptySeq
  <2>2. leads \in SUBSET (0 .. Len(text)) /\ leads # {}
    BY <1>1, <2>1
  <2>3. lead \in leads /\ \A i \in leads : i <= lead
    <3>. HIDE DEF leads
    <3>1. QED
      BY <1>1, <2>2, MaxProps
  <2>4. /\ lead \in 1 .. Len(text) /\ text[lead] \in DOMAIN LengthOf
        /\ LengthOf[text[lead]] \in Nat /\ LengthOf[text[lead]] >= 1
    <3>1. lead \in 1 .. Len(text) /\ ~Continues(text, lead)
      BY <1>1, <2>3
    <3>. HIDE DEF lead, leads
    <3>2. QED
      BY <1>1, <3>1, TextProps, CharacterProps DEF Continues
  <2>5. ASSUME NEW i \in 1 .. Len(text), text[i] \in DOMAIN LengthOf
        PROVE  i \in leads /\ LengthOf[text[i]] \in Nat
    BY <1>1, <2>5, CharacterProps DEF Continues
  <2>. HIDE DEF lead, leads
  <2>6. end = IF Len(text) - lead + 1 < LengthOf[text[lead]] THEN lead - 1 ELSE Len(text)
    BY <1>2, <2>2, <2>4
  <2>. HIDE DEF end
  <2>7. ASSUME NEW i \in 1 .. lead - 1, text[i] \in DOMAIN LengthOf
        PROVE  i + LengthOf[text[i]] - 1 <= lead - 1
    <3>1. i \in 1 .. Len(text) /\ lead <= Len(text) /\ LengthOf[text[i]] \in Nat
      BY <1>1, <2>4, <2>5, <2>7
    <3>2. lead \in i + 1 .. i + LengthOf[text[i]] - 1 => text[lead] \in Continuations
      BY <2>7, <3>1, TextProps
    <3>3. text[lead] \notin Continuations
      BY <2>4, CharacterProps
    <3>4. QED
      BY <2>4, <3>1, <3>2, <3>3
  <2>8. CASE Len(text) - lead + 1 < LengthOf[text[lead]]
    <3>1. end = lead - 1 /\ end \in 0 .. Len(text) /\ end # Len(text)
      BY <1>1, <2>4, <2>6, <2>8
    <3>2. Complete(text, end)
      BY <2>7, <3>1 DEF Complete
    <3>3. ~ Complete(text, Len(text))
      BY <1>1, <2>4, <2>8 DEF Complete
    <3>4. QED
      BY <3>1, <3>2, <3>3 DEF end
  <2>9. CASE ~ (Len(text) - lead + 1 < LengthOf[text[lead]])
    <3>1. end = Len(text)
      BY <2>6, <2>9
    <3>2. ASSUME NEW i \in 1 .. Len(text), text[i] \in DOMAIN LengthOf
          PROVE  i + LengthOf[text[i]] - 1 <= Len(text)
      <4>1. i <= lead /\ LengthOf[text[i]] \in Nat
        BY <2>3, <2>5, <3>2
      <4>2. CASE i = lead
        BY <1>1, <2>4, <2>9, <4>2
      <4>3. CASE i < lead
        <5>1. i \in 1 .. lead - 1
          BY <2>4, <4>3
        <5>2. i + LengthOf[text[i]] - 1 <= lead - 1
          BY <2>7, <3>2, <5>1
        <5>3. QED
          BY <1>1, <2>4, <4>1, <5>2
      <4>4. QED
        BY <2>4, <4>1, <4>2, <4>3
    <3>3. Complete(text, Len(text))
      BY <3>2 DEF Complete
    <3>4. QED
      BY <1>1, <3>1, <3>3 DEF end
  <2>10. QED
    BY <2>8, <2>9
<1>5. QED
  BY <1>3, <1>4

\* A text up to the end of a character is a text of whole characters.
LEMMA WholePrefix ==
  ASSUME NEW text, IsText(text), NEW n \in 0 .. Len(text), Complete(text, n)
  PROVE  LET first == SubSeq(text, 1, n)
         IN  IsText(first) /\ Len(first) = n /\ Complete(first, n)
<1>. DEFINE first == SubSeq(text, 1, n)
            Bytes == Continuations \cup DOMAIN LengthOf
<1>1. text \in Seq(Bytes) /\ Len(text) \in Nat
  BY TextProps
<1>2. first \in Seq(Bytes) /\ Len(first) = n /\ \A j \in 1 .. n : first[j] = text[j]
  <2>. HIDE DEF Bytes
  <2>1. QED
    BY <1>1, SubSeqFirst
<1>. HIDE DEF first
<1>3. ASSUME NEW i \in 1 .. Len(first), first[i] \in Continuations
      PROVE  \E lead \in 1 .. i - 1 :
               first[lead] \in DOMAIN LengthOf /\ i < lead + LengthOf[first[lead]]
  <2>1. i \in 1 .. n /\ i \in 1 .. Len(text) /\ text[i] \in Continuations
    BY <1>1, <1>2, <1>3
  <2>2. PICK lead \in 1 .. i - 1 :
          text[lead] \in DOMAIN LengthOf /\ i < lead + LengthOf[text[lead]]
    BY <2>1, TextProps
  <2>3. lead \in 1 .. n
    BY <2>1
  <2>4. QED
    BY <1>2, <2>2, <2>3
<1>4. ASSUME NEW i \in 1 .. Len(first), first[i] \in DOMAIN LengthOf,
             NEW j \in i + 1 .. i + LengthOf[first[i]] - 1, j <= Len(first)
      PROVE  first[j] \in Continuations
  <2>1. i \in 1 .. Len(text) /\ first[i] = text[i] /\ LengthOf[text[i]] \in Nat
    BY <1>1, <1>2, <1>4, CharacterProps
  <2>2. j \in i + 1 .. i + LengthOf[text[i]] - 1 /\ j <= Len(text) /\ j \in 1 .. n
    BY <1>1, <1>2, <1>4, <2>1
  <2>3. text[j] \in Continuations
    BY <1>4, <2>1, <2>2, TextProps
  <2>4. QED
    BY <1>2, <2>2, <2>3
<1>5. IsText(first)
  BY <1>2, <1>3, <1>4, TextIntro
<1>6. Complete(first, n)
  BY <1>2 DEF Complete
<1>7. QED
  BY <1>2, <1>5, <1>6 DEF first

\* And so is a part between the ends of two characters.
LEMMA WholePiece ==
  ASSUME NEW text, IsText(text), NEW m \in 0 .. Len(text), NEW n \in m .. Len(text),
         Complete(text, m), Complete(text, n)
  PROVE  LET piece == SubSeq(text, m + 1, n)
         IN  IsText(piece) /\ Len(piece) = n - m /\ Complete(piece, n - m)
<1>. DEFINE piece == SubSeq(text, m + 1, n)
            Bytes == Continuations \cup DOMAIN LengthOf
<1>1. text \in Seq(Bytes) /\ Len(text) \in Nat
  BY TextProps
<1>2. /\ piece \in Seq(Bytes) /\ Len(piece) = n - m
      /\ \A j \in 1 .. n - m : piece[j] = text[m + j]
  <2>. HIDE DEF Bytes
  <2>1. QED
    BY <1>1, SubSeqAt
<1>. HIDE DEF piece
<1>3. ASSUME NEW i \in 1 .. Len(piece), piece[i] \in Continuations
      PROVE  \E lead \in 1 .. i - 1 :
               piece[lead] \in DOMAIN LengthOf /\ i < lead + LengthOf[piece[lead]]
  <2>1. i \in 1 .. n - m /\ m + i \in 1 .. Len(text) /\ text[m + i] \in Continuations
    BY <1>1, <1>2, <1>3
  <2>2. PICK lead \in 1 .. (m + i) - 1 :
          text[lead] \in DOMAIN LengthOf /\ m + i < lead + LengthOf[text[lead]]
    BY <2>1, TextProps
  <2>3. LengthOf[text[lead]] \in Nat
    BY <2>2, CharacterProps
  <2>4. ~ (lead \in 1 .. m)
    <3>1. lead \in 1 .. m => lead + LengthOf[text[lead]] - 1 <= m
      BY <2>2 DEF Complete
    <3>2. QED
      BY <2>1, <2>2, <2>3, <3>1
  <2>5. lead - m \in 1 .. i - 1 /\ lead - m \in 1 .. n - m /\ m + (lead - m) = lead
    BY <2>1, <2>4
  <2>6. piece[lead - m] = text[lead]
    BY <1>2, <2>5
  <2>7. i < (lead - m) + LengthOf[piece[lead - m]]
    BY <2>1, <2>2, <2>3, <2>6
  <2>8. QED
    BY <2>2, <2>5, <2>6, <2>7
<1>4. ASSUME NEW i \in 1 .. Len(piece), piece[i] \in DOMAIN LengthOf,
             NEW j \in i + 1 .. i + LengthOf[piece[i]] - 1, j <= Len(piece)
      PROVE  piece[j] \in Continuations
  <2>1. i \in 1 .. n - m /\ m + i \in 1 .. Len(text) /\ piece[i] = text[m + i]
    BY <1>1, <1>2
  <2>2. LengthOf[text[m + i]] \in Nat
    BY <1>4, <2>1, CharacterProps
  <2>3. /\ m + j \in (m + i) + 1 .. (m + i) + LengthOf[text[m + i]] - 1
        /\ m + j <= Len(text) /\ j \in 1 .. n - m
    <3>1. PICK length \in Nat, bytes \in Nat :
            length = LengthOf[text[m + i]] /\ bytes = Len(text)
      BY <1>1, <2>2
    <3>2. j \in i + 1 .. i + length - 1 /\ j <= n - m
      BY <1>2, <1>4, <2>1, <3>1
    <3>3. m \in 0 .. bytes /\ n \in m .. bytes /\ i \in 1 .. n - m
      BY <2>1, <3>1
    <3>4. m + j \in (m + i) + 1 .. (m + i) + length - 1 /\ m + j <= bytes /\ j \in 1 .. n - m
      BY <3>2, <3>3
    <3>5. QED
      BY <3>1, <3>4
  <2>4. text[m + j] \in Continuations
    BY <1>4, <2>1, <2>3, TextProps
  <2>5. QED
    BY <1>2, <2>3, <2>4
<1>5. IsText(piece)
  BY <1>2, <1>3, <1>4, TextIntro
<1>6. ASSUME NEW i \in 1 .. n - m, piece[i] \in DOMAIN LengthOf
      PROVE  i + LengthOf[piece[i]] - 1 <= n - m
  <2>1. m + i \in 1 .. n /\ piece[i] = text[m + i] /\ LengthOf[text[m + i]] \in Nat
    BY <1>2, <1>6, CharacterProps
  <2>2. (m + i) + LengthOf[text[m + i]] - 1 <= n
    BY <1>6, <2>1 DEF Complete
  <2>3. QED
    BY <2>1, <2>2
<1>7. QED
  BY <1>2, <1>5, <1>6 DEF piece, Complete

\* A text of whole characters that follows another one.
LEMMA WholeJoin ==
  ASSUME NEW text, IsText(text), Complete(text, Len(text)),
         NEW piece, IsText(piece), Complete(piece, Len(piece))
  PROVE  LET both == text \o piece IN IsText(both) /\ Complete(both, Len(both))
<1>. DEFINE both == text \o piece
            Bytes == Continuations \cup DOMAIN LengthOf
<1>1. text \in Seq(Bytes) /\ piece \in Seq(Bytes)
  BY TextProps
<1>2. PICK m \in Nat, n \in Nat : m = Len(text) /\ n = Len(piece)
  BY TextProps
<1>3. /\ both \in Seq(Bytes) /\ Len(both) = m + n
      /\ \A i \in 1 .. m : both[i] = text[i]
      /\ \A i \in 1 .. n : both[m + i] = piece[i]
  <2>. HIDE DEF Bytes
  <2>1. /\ text \o piece \in Seq(Bytes) /\ Len(text \o piece) = Len(text) + Len(piece)
        /\ \A i \in 1 .. Len(text) + Len(piece) : (text \o piece)[i] =
             IF i <= Len(text) THEN text[i] ELSE piece[i - Len(text)]
    BY <1>1, ConcatProperties
  <2>2. \A i \in 1 .. m + n : both[i] = IF i <= m THEN text[i] ELSE piece[i - m]
    BY <1>2, <2>1
  <2>. HIDE DEF both
  <2>3. ASSUME NEW i \in 1 .. m
        PROVE  both[i] = text[i]
    BY <2>2
  <2>4. ASSUME NEW i \in 1 .. n
        PROVE  both[m + i] = piece[i]
    <3>1. m + i \in 1 .. m + n /\ ~ (m + i <= m) /\ (m + i) - m = i
      OBVIOUS
    <3>2. QED
      BY <2>2, <3>1
  <2>5. QED
    BY <1>2, <2>1, <2>3, <2>4 DEF both
<1>. HIDE DEF both
<1>4. ASSUME NEW i \in 1 .. m + n, i > m
      PROVE  i - m \in 1 .. n /\ m + (i - m) = i /\ both[i] = piece[i - m]
  <2>1. i - m \in 1 .. n /\ m + (i - m) = i
    BY <1>4
  <2>2. QED
    BY <1>3, <2>1
<1>5. ASSUME NEW i \in 1 .. m, both[i] \in DOMAIN LengthOf
      PROVE  LengthOf[both[i]] \in Nat /\ i + LengthOf[both[i]] - 1 <= m
  BY <1>2, <1>3, <1>5, CharacterProps DEF Complete
<1>6. ASSUME NEW i \in 1 .. n, both[m + i] \in DOMAIN LengthOf
      PROVE  LengthOf[both[m + i]] \in Nat /\ i + LengthOf[both[m + i]] - 1 <= n
  BY <1>2, <1>3, <1>6, CharacterProps DEF Complete
<1>7. ASSUME NEW i \in 1 .. Len(both), both[i] \in Continuations
      PROVE  \E lead \in 1 .. i - 1 :
               both[lead] \in DOMAIN LengthOf /\ i < lead + LengthOf[both[lead]]
  <2>1. i \in 1 .. m + n
    BY <1>3
  <2>2. CASE i <= m
    <3>1. i \in 1 .. m /\ text[i] \in Continuations
      BY <1>3, <1>7, <2>1, <2>2
    <3>2. PICK lead \in 1 .. i - 1 :
            text[lead] \in DOMAIN LengthOf /\ i < lead + LengthOf[text[lead]]
      BY <1>2, <3>1, TextProps
    <3>3. lead \in 1 .. m
      BY <3>1
    <3>4. QED
      BY <1>3, <3>2, <3>3
  <2>3. CASE i > m
    <3>1. i - m \in 1 .. n /\ piece[i - m] \in Continuations
      BY <1>4, <1>7, <2>1, <2>3
    <3>2. PICK lead \in 1 .. (i - m) - 1 :
            piece[lead] \in DOMAIN LengthOf /\ i - m < lead + LengthOf[piece[lead]]
      BY <1>2, <3>1, TextProps
    <3>3. lead \in 1 .. n /\ m + lead \in 1 .. i - 1 /\ LengthOf[piece[lead]] \in Nat
      BY <2>1, <3>1, <3>2, CharacterProps
    <3>4. both[m + lead] = piece[lead]
      BY <1>3, <3>3
    <3>5. i < (m + lead) + LengthOf[both[m + lead]]
      BY <2>1, <3>2, <3>3, <3>4
    <3>6. QED
      BY <3>2, <3>3, <3>4, <3>5
  <2>4. QED
    BY <2>1, <2>2, <2>3
<1>8. ASSUME NEW i \in 1 .. Len(both), both[i] \in DOMAIN LengthOf,
             NEW j \in i + 1 .. i + LengthOf[both[i]] - 1, j <= Len(both)
      PROVE  both[j] \in Continuations
  <2>1. i \in 1 .. m + n /\ LengthOf[both[i]] \in Nat
    BY <1>3, <1>8, CharacterProps
  <2>2. CASE i <= m
    <3>1. i \in 1 .. m
      BY <2>1, <2>2
    <3>2. j \in 1 .. m /\ both[i] = text[i]
      BY <1>3, <1>5, <1>8, <2>1, <3>1
    <3>3. text[j] \in Continuations
      BY <1>2, <1>8, <3>1, <3>2, TextProps
    <3>4. QED
      BY <1>3, <3>2, <3>3
  <2>3. CASE i > m
    <3>1. i - m \in 1 .. n /\ both[i] = piece[i - m]
      BY <1>4, <2>1, <2>3
    <3>2. j \in 1 .. m + n /\ j > m
      BY <1>3, <1>8, <2>1, <2>3
    <3>3. j - m \in 1 .. n /\ both[j] = piece[j - m]
      BY <1>4, <3>2
    <3>4. j - m \in (i - m) + 1 .. (i - m) + LengthOf[piece[i - m]] - 1 /\ j - m <= n
      BY <1>8, <2>1, <3>1, <3>3
    <3>5. piece[j - m] \in Continuations
      BY <1>2, <1>8, <3>1, <3>4, TextProps
    <3>6. QED
      BY <3>3, <3>5
  <2>4. QED
    BY <2>1, <2>2, <2>3
<1>9. IsText(both)
  BY <1>3, <1>7, <1>8, TextIntro
<1>10. ASSUME NEW i \in 1 .. m + n, both[i] \in DOMAIN LengthOf
       PROVE  i + LengthOf[both[i]] - 1 <= m + n
  <2>1. CASE i <= m
    <3>1. i \in 1 .. m
      BY <2>1
    <3>2. QED
      BY <1>5, <1>10, <3>1
  <2>2. CASE i > m
    <3>1. i - m \in 1 .. n /\ m + (i - m) = i
      BY <1>4, <2>2
    <3>2. LengthOf[both[i]] \in Nat /\ (i - m) + LengthOf[both[i]] - 1 <= n
      BY <1>6, <1>10, <3>1
    <3>3. QED
      BY <3>2
  <2>3. QED
    BY <2>1, <2>2
<1>11. QED
  BY <1>3, <1>9, <1>10 DEF both, Complete

\* The longest common prefix of two sequences is not longer than either; if one
\* begins the other, it is that one.
LEMMA CommonPrefix ==
  ASSUME NEW S, NEW s \in Seq(S), NEW t \in Seq(S)
  PROVE  /\ Len(LongestCommonPrefix({s, t})) \in 0 .. Len(s)
         /\ Len(LongestCommonPrefix({s, t})) <= Len(t)
         /\ IsPrefix(t, s) => Len(LongestCommonPrefix({s, t})) = Len(t)
<1>. DEFINE C == CommonPrefixes({s, t})
            L == {Len(c) : c \in C}
            longest == LongestCommonPrefix({s, t})
<1>1. Len(s) \in Nat /\ Len(t) \in Nat
  OBVIOUS
<1>2. C = {c \in Prefixes(s) \cup Prefixes(t) : IsPrefix(c, s) /\ IsPrefix(c, t)}
  BY DEF CommonPrefixes
<1>3. ASSUME NEW c \in C
      PROVE  Len(c) \in Nat /\ Len(c) <= Len(s) /\ Len(c) <= Len(t)
  <2>1. IsPrefix(c, s) /\ IsPrefix(c, t) /\ (c \in Prefixes(s) \/ c \in Prefixes(t))
    BY <1>2
  <2>2. c \in Seq(S)
    <3>1. ASSUME NEW l \in 0 .. Len(s)
          PROVE  SubSeq(s, 1, l) \in Seq(S)
      BY SubSeqFirst
    <3>2. ASSUME NEW l \in 0 .. Len(t)
          PROVE  SubSeq(t, 1, l) \in Seq(S)
      BY SubSeqFirst
    <3>3. QED
      BY <2>1, <3>1, <3>2 DEF Prefixes
  <2>3. QED
    BY <2>1, <2>2 DEF IsPrefix
<1>4. C # {}
  <2>. DEFINE none == SubSeq(s, 1, 0)
  <2>1. 0 \in 0 .. Len(s) /\ 0 \in 0 .. Len(t)
    BY <1>1
  <2>2. /\ none \in Seq(S) /\ Len(none) = 0 /\ SubSeq(t, 1, 0) \in Seq(S)
        /\ Len(SubSeq(t, 1, 0)) = 0
    BY <2>1, SubSeqFirst
  <2>3. none = <<>> /\ SubSeq(t, 1, 0) = <<>> /\ SubSeq(none, 1, 0) = <<>>
    <3>1. 0 \in 0 .. Len(none)
      BY <2>2
    <3>2. SubSeq(none, 1, 0) \in Seq(S) /\ Len(SubSeq(none, 1, 0)) = 0
      BY <2>2, <3>1, SubSeqFirst
    <3>3. QED
      BY <2>2, <3>2, EmptySeq
  <2>4. IsPrefix(none, s) /\ IsPrefix(none, t)
    BY <1>1, <2>2, <2>3 DEF IsPrefix
  <2>5. none \in Prefixes(s)
    BY <2>1 DEF Prefixes
  <2>6. QED
    BY <1>2, <2>4, <2>5
<1>5. /\ longest \in C
      /\ \A c \in C : Len(c) <= Len(longest)
  <2>. HIDE DEF C
  <2>1. L \in SUBSET (0 .. Len(s)) /\ L # {}
    <3>1. \A c \in C : Len(c) \in 0 .. Len(s)
      BY <1>1, <1>3
    <3>2. QED
      BY <1>4, <3>1
  <2>2. PICK m \in L : \A l \in L : l <= m
    <3>. HIDE DEF L
    <3>1. Max(L) \in L /\ \A l \in L : l <= Max(L)
      BY <1>1, <2>1, MaxProps
    <3>2. QED
      BY <3>1
  <2>3. PICK c \in C : m = Len(c)
    BY <2>2
  <2>4. \A other \in C : Len(other) <= Len(c)
    BY <2>2, <2>3
  <2>5. longest = CHOOSE c1 \in C : \A other \in C : Len(other) <= Len(c1)
    BY DEF LongestCommonPrefix, C
  <2>6. QED
    BY <2>4, <2>5
<1>6. ASSUME IsPrefix(t, s)
      PROVE  t \in C
  <2>1. Len(t) \in 0 .. Len(t) /\ SubSeq(t, 1, Len(t)) = t
    BY <1>1, SubSeqFull
  <2>2. t \in Prefixes(t)
    BY <2>1 DEF Prefixes
  <2>3. IsPrefix(t, t)
    BY <1>1 DEF IsPrefix
  <2>4. QED
    BY <1>2, <1>6, <2>2, <2>3
<1>. HIDE DEF C, longest
<1>7. Len(longest) \in Nat /\ Len(longest) <= Len(s) /\ Len(longest) <= Len(t)
  BY <1>3, <1>5
<1>8. IsPrefix(t, s) => Len(longest) = Len(t)
  <2>1. ASSUME IsPrefix(t, s)
        PROVE  Len(longest) = Len(t)
    <3>1. Len(t) <= Len(longest)
      BY <1>5, <1>6, <2>1
    <3>2. QED
      BY <1>1, <1>7, <3>1
  <2>2. QED
    BY <2>1
<1>9. QED
  BY <1>1, <1>7, <1>8 DEF longest

\* Where two texts stop to agree, the second begins a character.
LEMMA CommonProps ==
  ASSUME NEW lhs, IsText(lhs), NEW rhs, IsText(rhs)
  PROVE  /\ TranscriptCommonPrefix(lhs, rhs) \in Nat
         /\ TranscriptCommonPrefix(lhs, rhs) <= Len(rhs)
         /\ ~ Continues(rhs, TranscriptCommonPrefix(lhs, rhs) + 1)
         /\ IsPrefix(rhs, lhs) => TranscriptCommonPrefix(lhs, rhs) = Len(rhs)
<1>. DEFINE Bytes == Continuations \cup DOMAIN LengthOf
            common == Len(LongestCommonPrefix({lhs, rhs}))
            ends == {n \in 0 .. common : n = 0 \/ ~Continues(rhs, n + 1)}
            end == TranscriptCommonPrefix(lhs, rhs)
<1>1. /\ lhs \in Seq(Bytes) /\ rhs \in Seq(Bytes) /\ Len(lhs) \in Nat /\ Len(rhs) \in Nat
      /\ DOMAIN rhs = 1 .. Len(rhs)
  BY TextProps
<1>2. /\ common \in Nat /\ common <= Len(rhs)
      /\ IsPrefix(rhs, lhs) => common = Len(rhs)
  <2>1. /\ common \in 0 .. Len(lhs) /\ common <= Len(rhs)
        /\ IsPrefix(rhs, lhs) => common = Len(rhs)
    <3>. HIDE DEF Bytes
    <3>1. QED
      BY <1>1, CommonPrefix
  <2>. HIDE DEF common
  <2>2. PICK bytes \in Nat : bytes = Len(lhs)
    BY <1>1
  <2>3. common \in Nat
    BY <2>1, <2>2
  <2>4. QED
    BY <2>1, <2>3
<1>3. end = Max(ends)
  BY DEF TranscriptCommonPrefix
<1>. HIDE DEF common, end
<1>4. ends \in SUBSET (0 .. common) /\ 0 \in ends
  BY <1>2
<1>5. end \in ends /\ \A n \in ends : n <= end
  <2>. HIDE DEF ends
  <2>1. QED
    BY <1>2, <1>3, <1>4, MaxProps
<1>6. end \in Nat /\ end <= Len(rhs)
  <2>1. PICK bytes \in Nat : bytes = Len(rhs)
    BY <1>1
  <2>2. end \in 0 .. common /\ common \in Nat /\ common <= bytes
    BY <1>2, <1>5, <2>1
  <2>3. end \in Nat /\ end <= bytes
    BY <2>2
  <2>4. QED
    BY <2>1, <2>3
<1>7. ~ Continues(rhs, end + 1)
  <2>1. CASE end = 0
    BY <2>1, NoStrayFirst
  <2>2. CASE end # 0
    BY <1>5, <2>2
  <2>3. QED
    BY <2>1, <2>2
<1>8. ASSUME IsPrefix(rhs, lhs)
      PROVE  end = Len(rhs)
  <2>1. ~ Continues(rhs, Len(rhs) + 1)
    BY <1>1 DEF Continues
  <2>2. PICK bytes \in Nat : bytes = Len(rhs)
    BY <1>1
  <2>3. bytes \in 0 .. common /\ ~ Continues(rhs, bytes + 1)
    BY <1>2, <1>8, <2>1, <2>2
  <2>4. bytes \in ends
    BY <2>3
  <2>5. bytes <= end /\ end <= bytes /\ end \in Nat
    BY <1>5, <1>6, <2>2, <2>4
  <2>6. QED
    BY <2>2, <2>5
<1>9. QED
  BY <1>6, <1>7, <1>8 DEF end

\* What was published is taken to end where the transcript begins a character:
\* the bytes that are compared hold the whole last character.  It is all of what
\* was published if the transcript extends that, and all of the transcript if
\* the transcript is shorter.
LEMMA AgreedProps ==
  ASSUME NEW text, IsText(text), Complete(text, Len(text)), NEW next, IsText(next)
  PROVE  /\ AgreedPrefix(text, next) \in Nat
         /\ AgreedPrefix(text, next) < Len(next) =>
              ~ Continues(next, AgreedPrefix(text, next) + 1)
         /\ IsPrefix(text, next) => AgreedPrefix(text, next) = Len(text)
         /\ IsPrefix(next, text) =>
              AgreedPrefix(text, next) = Len(text) \/ AgreedPrefix(text, next) = Len(next)
<1>. DEFINE Bytes == Continuations \cup DOMAIN LengthOf
            low == Max({0, Len(text) - CheckedBytes})
            checked == low + 1 .. Len(text)
            agrees == Len(next) >= Len(text) /\ \A i \in checked : text[i] = next[i]
            end == AgreedPrefix(text, next)
<1>1. /\ text \in Seq(Bytes) /\ next \in Seq(Bytes) /\ Len(text) \in Nat /\ Len(next) \in Nat
      /\ DOMAIN next = 1 .. Len(next) /\ CheckedBytes \in Nat
  BY TextProps, CharacterProps
<1>2. end = IF agrees THEN Len(text) ELSE TranscriptCommonPrefix(text, next)
  BY DEF AgreedPrefix
<1>3. low \in Nat /\ low <= Len(text) /\ (low = 0 \/ low = Len(text) - CheckedBytes)
  <2>1. PICK bytes \in Nat, n \in Int : bytes = Len(text) /\ n = bytes - CheckedBytes
    BY <1>1
  <2>2. \E z \in {0, n} : \A y \in {0, n} : z >= y
    BY <2>1
  <2>3. Max({0, n}) \in {0, n} /\ \A y \in {0, n} : Max({0, n}) >= y
    BY <2>2 DEF Max
  <2>4. low = Max({0, n})
    BY <2>1
  <2>. HIDE DEF low
  <2>5. low \in Nat /\ low <= bytes /\ (low = 0 \/ low = n)
    BY <1>1, <2>1, <2>3, <2>4
  <2>6. QED
    BY <2>1, <2>5
<1>. HIDE DEF low
<1>4. ASSUME agrees, Len(text) < Len(next), Continues(next, Len(text) + 1)
      PROVE  FALSE
  <2>1. Len(text) + 1 \in 1 .. Len(next) /\ next[Len(text) + 1] \in Continuations
    BY <1>1, <1>4 DEF Continues
  <2>2. PICK lead \in 1 .. (Len(text) + 1) - 1 :
          next[lead] \in DOMAIN LengthOf /\ Len(text) + 1 < lead + LengthOf[next[lead]]
    BY <2>1, TextProps
  <2>3. LengthOf[next[lead]] \in Nat /\ LengthOf[next[lead]] <= CheckedBytes
    BY <2>2, CharacterProps
  <2>4. lead \in 1 .. Len(text) /\ lead \in checked
    BY <1>1, <1>3, <2>2, <2>3
  <2>5. text[lead] = next[lead]
    BY <1>4, <2>4
  <2>6. lead + LengthOf[text[lead]] - 1 <= Len(text)
    BY <2>2, <2>4, <2>5 DEF Complete
  <2>7. QED
    BY <1>1, <2>2, <2>3, <2>4, <2>5, <2>6
<1>5. ASSUME IsPrefix(text, next)
      PROVE  agrees
  <2>1. /\ Len(text) <= Len(next)
        /\ SubSeq(text, 1, Len(text)) = SubSeq(next, 1, Len(text))
    BY <1>5 DEF IsPrefix
  <2>2. /\ \A i \in 1 .. Len(text) : SubSeq(text, 1, Len(text))[i] = text[i]
        /\ \A i \in 1 .. Len(text) : SubSeq(next, 1, Len(text))[i] = next[i]
    <3>. HIDE DEF Bytes
    <3>1. Len(text) \in 0 .. Len(text) /\ Len(text) \in 0 .. Len(next)
      BY <1>1, <2>1
    <3>2. QED
      BY <1>1, <3>1, SubSeqFirst
  <2>3. \A i \in checked : i \in 1 .. Len(text)
    BY <1>1, <1>3
  <2>4. QED
    BY <1>1, <2>1, <2>2, <2>3
<1>. HIDE DEF agrees, end
<1>6. CASE agrees
  <2>1. end = Len(text)
    BY <1>2, <1>6
  <2>2. QED
    BY <1>1, <1>4, <1>6, <2>1 DEF end
<1>7. CASE ~ agrees
  <2>1. end = TranscriptCommonPrefix(text, next)
    BY <1>2, <1>7
  <2>2. /\ end \in Nat /\ ~ Continues(next, end + 1)
        /\ IsPrefix(next, text) => end = Len(next)
    BY <2>1, CommonProps
  <2>3. QED
    BY <1>5, <1>7, <2>2 DEF end
<1>8. QED
  BY <1>6, <1>7

\* A piece and all that is published with it are whole characters, and unless
\* the transcript contradicts what was published the piece is appended to that.
LEMMA PublishText ==
  ASSUME NEW text, IsText(text), Complete(text, Len(text)), NEW next, IsText(next)
  PROVE  LET piece == Publish(text, next) IN
         /\ IsText(piece.published) /\ Complete(piece.published, Len(piece.published))
         /\ IsText(piece.delta) /\ Complete(piece.delta, Len(piece.delta))
         /\ IsPrefix(text, next) \/ IsPrefix(next, text) =>
              piece.published = text \o piece.delta
<1>. DEFINE piece == Publish(text, next)
            already == AgreedPrefix(text, next)
            publishable == TranscriptPublishableEnd(next)
            part == SubSeq(next, already + 1, publishable)
            Bytes == Continuations \cup DOMAIN LengthOf
<1>1. /\ text \in Seq(Bytes) /\ Len(text) \in Nat /\ Len(next) \in Nat
  BY TextProps
<1>2. /\ publishable \in 0 .. Len(next) /\ Complete(next, publishable)
  BY PublishableProps
<1>3. /\ already \in Nat
      /\ already < Len(next) => ~ Continues(next, already + 1)
      /\ IsPrefix(text, next) => already = Len(text)
      /\ IsPrefix(next, text) => already = Len(text) \/ already = Len(next)
  BY AgreedProps
<1>4. /\ piece.delta = IF already >= publishable THEN <<>> ELSE part
      /\ piece.published = IF already >= publishable THEN text
                           ELSE IF already = Len(text) THEN text \o part
                           ELSE SubSeq(next, 1, publishable)
  BY DEF Publish
<1>. HIDE DEF piece, already, publishable
<1>5. CASE already >= publishable
  <2>1. piece.delta = <<>> /\ piece.published = text
    BY <1>4, <1>5
  <2>2. text \o <<>> = text
    BY <1>1, ConcatEmptySeq
  <2>3. QED
    BY <2>1, <2>2, EmptyText DEF piece
<1>6. CASE already < publishable
  <2>1. PICK bytes \in Nat : bytes = Len(next)
    BY <1>1
  <2>2. already < bytes /\ already \in 0 .. bytes /\ publishable \in already .. bytes
        /\ ~ (already >= publishable)
    BY <1>2, <1>3, <1>6, <2>1
  <2>3. Complete(next, already)
    BY <1>3, <2>1, <2>2, CompleteBefore
  <2>4. IsText(part) /\ Len(part) = publishable - already /\ Complete(part, Len(part))
    BY <1>2, <2>1, <2>2, <2>3, WholePiece
  <2>5. piece.delta = part
    BY <1>4, <2>2
  <2>. HIDE DEF part
  <2>6. CASE already = Len(text)
    <3>1. piece.published = text \o part
      BY <1>4, <2>2, <2>6
    <3>2. IsText(text \o part) /\ Complete(text \o part, Len(text \o part))
      BY <2>4, WholeJoin
    <3>3. QED
      BY <2>4, <2>5, <3>1, <3>2 DEF piece
  <2>7. CASE already # Len(text)
    <3>1. piece.published = SubSeq(next, 1, publishable)
      BY <1>4, <2>2, <2>7
    <3>2. /\ IsText(SubSeq(next, 1, publishable))
          /\ Len(SubSeq(next, 1, publishable)) = publishable
          /\ Complete(SubSeq(next, 1, publishable), publishable)
      BY <1>2, WholePrefix
    <3>3. ~ IsPrefix(text, next) /\ ~ IsPrefix(next, text)
      BY <1>3, <2>1, <2>2, <2>7
    <3>4. QED
      BY <2>4, <2>5, <3>1, <3>2, <3>3 DEF piece
  <2>8. QED
    BY <2>6, <2>7
<1>7. QED
  BY <1>2, <1>3, <1>5, <1>6

\* What the session may have heard is text.
LEMMA TranscriptProps ==
  ASSUME NEW text \in Transcripts
  PROVE  IsText(text)
<1>1. PICK whole \in Texts : \E l \in 0 .. Len(whole) : text = SubSeq(whole, 1, l)
  BY DEF Transcripts
<1>2. PICK n \in 0 .. Len(whole) : text = SubSeq(whole, 1, n)
  BY <1>1
<1>3. IsText(whole)
  BY LiveIngestAssumption
<1>. DEFINE Bytes == Continuations \cup DOMAIN LengthOf
<1>4. whole \in Seq(Bytes) /\ Len(whole) \in Nat
  BY <1>3, TextProps
<1>5. text \in Seq(Bytes) /\ Len(text) = n /\ \A j \in 1 .. n : text[j] = whole[j]
  <2>. HIDE DEF Bytes
  <2>1. QED
    BY <1>2, <1>4, SubSeqFirst
<1>6. ASSUME NEW i \in 1 .. Len(text), text[i] \in Continuations
      PROVE  \E lead \in 1 .. i - 1 :
               text[lead] \in DOMAIN LengthOf /\ i < lead + LengthOf[text[lead]]
  <2>1. i \in 1 .. n /\ i \in 1 .. Len(whole) /\ whole[i] \in Continuations
    BY <1>4, <1>5, <1>6
  <2>2. PICK lead \in 1 .. i - 1 :
          whole[lead] \in DOMAIN LengthOf /\ i < lead + LengthOf[whole[lead]]
    BY <1>3, <2>1, TextProps
  <2>3. lead \in 1 .. n
    BY <2>1
  <2>4. QED
    BY <1>5, <2>2, <2>3
<1>7. ASSUME NEW i \in 1 .. Len(text), text[i] \in DOMAIN LengthOf,
             NEW j \in i + 1 .. i + LengthOf[text[i]] - 1, j <= Len(text)
      PROVE  text[j] \in Continuations
  <2>1. i \in 1 .. Len(whole) /\ text[i] = whole[i] /\ LengthOf[whole[i]] \in Nat
    BY <1>4, <1>5, <1>7, CharacterProps
  <2>2. j \in i + 1 .. i + LengthOf[whole[i]] - 1 /\ j <= Len(whole) /\ j \in 1 .. n
    BY <1>4, <1>5, <1>7, <2>1
  <2>3. whole[j] \in Continuations
    BY <1>3, <1>7, <2>1, <2>2, TextProps
  <2>4. QED
    BY <1>5, <2>2, <2>3
<1>8. QED
  BY <1>5, <1>6, <1>7, TextIntro

\* The pieces still add up when the session has decoded a transcript.
LEMMA FeedText ==
  ASSUME TypeOK, TextFits, Feed
  PROVE  TextFits' /\ transcript' \in Transcripts /\ revised' \in BOOLEAN
<1>1. CASE UNCHANGED textVars
  BY <1>1, TextKept DEF TypeOK, textVars, Transcripts
<1>2. CASE ~ UNCHANGED textVars
  <2>1. /\ transcript' \in Transcripts
        /\ delta' = Publish(published, transcript').delta
        /\ published' = Publish(published, transcript').published
        /\ revised' <=> (revised \/ ~(IsPrefix(published, transcript')
                                      \/ IsPrefix(transcript', published)))
        /\ revised' \in BOOLEAN
        /\ appended' = IF revised' THEN <<>>
                       ELSE appended \o Publish(published, transcript').delta
    BY <1>2 DEF Feed, TypeOK
  <2>2. PICK next \in Transcripts : next = transcript'
    BY <2>1
  <2>3. IsText(next) /\ IsText(published) /\ Complete(published, Len(published))
    BY TranscriptProps, PublishableProps DEF TextFits
  <2>. DEFINE piece == Publish(published, next)
  <2>4. /\ IsText(piece.published) /\ Complete(piece.published, Len(piece.published))
        /\ IsText(piece.delta) /\ Complete(piece.delta, Len(piece.delta))
        /\ IsPrefix(published, next) \/ IsPrefix(next, published)
             => piece.published = published \o piece.delta
    BY <2>3, PublishText
  <2>5. PICK d, p : d = piece.delta /\ p = piece.published
    OBVIOUS
  <2>. HIDE DEF piece
  <2>6. /\ TranscriptPublishableEnd(p) = Len(p) /\ TranscriptPublishableEnd(d) = Len(d)
        /\ ~ Continues(d, 1) /\ IsText(p)
    BY <2>4, <2>5, PublishableProps, NoStrayFirst
  <2>7. delta' = d /\ published' = p
    BY <2>1, <2>2, <2>5 DEF piece
  <2>8. ~revised' => appended' = published'
    <3>1. ASSUME ~revised'
          PROVE  appended' = published'
      <4>1. ~revised /\ (IsPrefix(published, next) \/ IsPrefix(next, published))
        BY <2>1, <2>2, <3>1
      <4>2. appended = published
        BY <4>1 DEF TextFits, PiecesAddUp
      <4>3. appended' = appended \o d
        BY <2>1, <2>2, <2>5, <3>1 DEF piece
      <4>4. p = published \o d
        BY <2>4, <2>5, <4>1
      <4>5. QED
        BY <2>7, <4>2, <4>3, <4>4
    <3>2. QED
      BY <3>1
  <2>9. TextFits'
    BY <2>6, <2>7, <2>8 DEF TextFits, PiecesAddUp
  <2>10. QED
    BY <2>1, <2>9
<1>3. QED
  BY <1>1, <1>2

----------------------------------------------------------------------------
(* The rest of the steps, and the theorems *)

\* The session is fed.
LEMMA FeedInv ==
  ASSUME Inv, Feed
  PROVE  Inv'
<1>1. PICK base \in Nat, cuts \in Chunkings, broken \in Nat, lines \in Nat, k \in Nat :
        BodyFits(base, cuts, broken, lines, k)
  BY DEF Inv
<1>2. TypeOK /\ ReaderFits /\ BoundsFit /\ TextFits
  BY DEF Inv
<1>3. Fed(base) /\ Consumed(cuts, broken, lines, k, base + Held) /\ base + Held <= MaxBody
  BY <1>1 DEF BodyFits
<1>4. PICK b \in Nat, w \in Nat, c \in Nat :
        b = Len(buffer) /\ w = Len(window) /\ c = Len(chunk)
  BY <1>2, <1>3, LengthProps
<1>5. /\ step = "decode" /\ buffer' = <<>>
      /\ step' = (IF Len(buffer) = Wanted THEN "read" ELSE "ended")
      /\ UNCHANGED <<payload, arriving, pending, received, size, chunk, window, finished,
                     trailers, expired, late, block>>
  BY DEF Feed
<1>6. Len(buffer) < Wanted => finished
  BY <1>2, <1>5 DEF ReaderFits, TypeOK
<1>7. PICK held \in Nat, end \in Nat : held = Held /\ held = b + w + c /\ end = base + b
  <2>1. Held \in Nat /\ Held = Len(buffer) + Len(window) + Len(chunk)
    BY <1>2, <1>3, LengthProps
  <2>2. PICK h \in Nat : h = Held
    BY <2>1
  <2>3. h = b + w + c
    BY <1>4, <2>1, <2>2
  <2>4. base + b \in Nat
    OBVIOUS
  <2>5. QED
    BY <2>2, <2>3, <2>4
<1>8. Len(buffer) < Wanted => payload = end
  <2>1. ASSUME Len(buffer) < Wanted
        PROVE  payload = end
    <3>1. window = <<>> /\ chunk = <<>> /\ finished
      BY <1>2, <1>6, <2>1 DEF ReaderFits
    <3>2. w = 0 /\ c = 0
      BY <1>4, <3>1, EmptySeq
    <3>3. broken = 0 /\ base + Held = CutAt(cuts, Len(cuts)) /\ lines <= MaxTrailers
      BY <1>3, <1>5, <3>1 DEF Consumed
    <3>4. payload = CutAt(cuts, Len(cuts))
      BY <1>3, <3>3 DEF Consumed
    <3>5. payload = base + held /\ base + held = end
      BY <1>7, <3>2, <3>3, <3>4
    <3>6. QED
      BY <3>5
  <2>2. QED
    BY <2>1
<1>9. Fed(end)' /\ Held' = Len(window) + Len(chunk)
  <2>1. end = base + Len(buffer)
    BY <1>4, <1>7
  <2>2. QED
    BY <1>2, <1>3, <1>8, <2>1, FeedFed
<1>10. end + Held' = base + Held
  <2>1. Held' = w + c /\ base + (b + w + c) = (base + b) + (w + c)
    BY <1>4, <1>9
  <2>2. QED
    BY <1>7, <2>1
<1>11. Len(buffer') = 0 /\ Wanted' = Wanted /\ Wanted \in Nat /\ Wanted > 0
  BY <1>2, <1>3, <1>5, EmptySeq, LengthProps DEF Wanted
<1>12. TextFits' /\ transcript' \in Transcripts /\ revised' \in BOOLEAN
  BY <1>2, FeedText
<1>13. TypeOK'
  <2>1. start' = Len(fed')
    BY <1>9 DEF Fed
  <2>2. Len(buffer') <= Wanted' /\ block' \in Blocks
    BY <1>2, <1>5, <1>11 DEF TypeOK
  <2>3. step' \in {"read", "header", "payload", "trailer", "decode", "ended", "failed"}
    BY <1>5
  <2>4. QED
    BY <1>2, <1>5, <1>12, <2>1, <2>2, <2>3 DEF TypeOK
<1>14. ReaderFits'
  <2>1. step' = "ended" => finished
    <3>1. step' = "ended" => Len(buffer) # Wanted
      BY <1>5
    <3>2. Len(buffer) = Wanted \/ (Len(buffer) < Wanted /\ finished)
      BY <1>2, <1>5 DEF ReaderFits
    <3>3. QED
      BY <3>1, <3>2
  <2>2. Len(buffer') < Wanted' /\ step' \in {"read", "ended"}
    BY <1>5, <1>11
  <2>3. finished => window = <<>> /\ chunk = <<>>
    BY <1>2 DEF ReaderFits
  <2>4. ~finished => trailers = 0
    BY <1>2 DEF ReaderFits
  <2>5. QED
    BY <1>5, <2>1, <2>2, <2>3, <2>4 DEF ReaderFits
<1>15. BoundsFit'
  <2>1. IF expired THEN late + Len(window) <= WindowBytes ELSE late = 0
    BY <1>2 DEF BoundsFit
  <2>2. ~ (received > MaxBody)
    BY <1>2, <1>5 DEF BoundsFit
  <2>3. QED
    BY <1>5, <2>1, <2>2 DEF BoundsFit
<1>16. BodyFits(end, cuts, broken, lines, k)'
  <2>1. PICK taken : taken = base + Held /\ taken = end + Held' /\ taken <= MaxBody
    BY <1>3, <1>10
  <2>2. Consumed(cuts, broken, lines, k, taken)
    BY <1>3, <2>1
  <2>3. step' # "failed" /\ step' # "payload" /\ step' # "trailer"
    BY <1>5
  <2>4. ~finished => Between(cuts, broken, k, taken)'
    BY <1>5, <2>2, <2>3 DEF Consumed, Between
  <2>5. finished => broken = 0 /\ taken = CutAt(cuts, Len(cuts)) /\ lines <= MaxTrailers
    BY <1>5, <2>2 DEF Consumed
  <2>6. Consumed(cuts, broken, lines, k, taken)'
    BY <1>5, <2>2, <2>3, <2>4, <2>5 DEF Consumed
  <2>7. Consumed(cuts, broken, lines, k, end + Held)'
    BY <2>1, <2>6
  <2>8. QED
    BY <1>1, <1>9, <2>1, <2>7 DEF BodyFits
<1>17. QED
  BY <1>1, <1>12, <1>13, <1>14, <1>15, <1>16 DEF Inv

\* No step at all.
LEMMA StutterInv ==
  ASSUME Inv, UNCHANGED vars
  PROVE  Inv'
<1>1. /\ UNCHANGED <<payload, arriving, pending, received, size, chunk, window, finished,
                     trailers, expired, late, step>>
      /\ UNCHANGED <<block, buffer, fed, start>>
      /\ UNCHANGED <<transcript, published, delta, appended, revised>>
  BY DEF vars, bodyVars, feedVars, textVars
<1>2. PICK base \in Nat, cuts \in Chunkings, broken \in Nat, lines \in Nat, k \in Nat :
        BodyFits(base, cuts, broken, lines, k)
  BY DEF Inv
<1>3. TypeOK' /\ ReaderFits' /\ BoundsFit' /\ TextFits'
  <2>1. TypeOK /\ ReaderFits /\ BoundsFit /\ TextFits
    BY DEF Inv
  <2>2. TypeOK'
    BY <1>1, <2>1 DEF TypeOK, Wanted
  <2>3. ReaderFits' /\ BoundsFit'
    BY <1>1, <2>1 DEF ReaderFits, BoundsFit, Wanted, Held
  <2>4. TextFits'
    BY <1>1, <2>1 DEF TextFits, PiecesAddUp
  <2>5. QED
    BY <2>2, <2>3, <2>4
<1>4. BodyFits(base, cuts, broken, lines, k)'
  <2>1. PICK taken : taken = base + Held /\ taken = base + Held'
    BY <1>1 DEF Held
  <2>2. Fed(base) /\ Consumed(cuts, broken, lines, k, taken) /\ taken <= MaxBody
    BY <1>2, <2>1 DEF BodyFits
  <2>3. Fed(base)'
    BY <1>1, <2>2 DEF Fed, Run
  <2>4. Consumed(cuts, broken, lines, k, taken)'
    BY <1>1, <2>2 DEF Consumed, Between
  <2>5. Consumed(cuts, broken, lines, k, base + Held)'
    BY <2>1, <2>4
  <2>6. QED
    BY <1>2, <2>1, <2>2, <2>3, <2>5 DEF BodyFits
<1>5. QED
  BY <1>2, <1>3, <1>4 DEF Inv

\* Initially nothing is consumed; the part that came with the headers is pending.
LEMMA InitInv == Init => Inv
<1>. SUFFICES ASSUME Init PROVE Inv
  OBVIOUS
<1>1. PICK cuts \in Chunkings, lines \in 0 .. MaxTrailers + 1 :
        \E b \in 0 .. Len(cuts) :
          LET body == Body(cuts, b, lines) IN
          \E prefetched \in 0 .. Len(body) :
            /\ payload = IF b = 0 /\ lines <= MaxTrailers
                           THEN CutAt(cuts, Len(cuts)) ELSE -1
            /\ pending = SubSeq(body, 1, prefetched)
            /\ received = prefetched
            /\ arriving = SubSeq(body, prefetched + 1, Len(body))
            /\ size = 0 /\ chunk = <<>> /\ window = <<>> /\ finished = FALSE
            /\ trailers = 0 /\ expired = FALSE /\ late = 0 /\ step = "read"
  BY DEF Init, InitBody
<1>2. PICK broken \in 0 .. Len(cuts) :
          LET body == Body(cuts, broken, lines) IN
          \E prefetched \in 0 .. Len(body) :
            /\ payload = IF broken = 0 /\ lines <= MaxTrailers
                           THEN CutAt(cuts, Len(cuts)) ELSE -1
            /\ pending = SubSeq(body, 1, prefetched)
            /\ received = prefetched
            /\ arriving = SubSeq(body, prefetched + 1, Len(body))
            /\ size = 0 /\ chunk = <<>> /\ window = <<>> /\ finished = FALSE
            /\ trailers = 0 /\ expired = FALSE /\ late = 0 /\ step = "read"
  BY <1>1
<1>. DEFINE body == Body(cuts, broken, lines)
<1>3. PICK prefetched \in 0 .. Len(body) :
            /\ payload = IF broken = 0 /\ lines <= MaxTrailers
                           THEN CutAt(cuts, Len(cuts)) ELSE -1
            /\ pending = SubSeq(body, 1, prefetched)
            /\ received = prefetched
            /\ arriving = SubSeq(body, prefetched + 1, Len(body))
            /\ size = 0 /\ chunk = <<>> /\ window = <<>> /\ finished = FALSE
            /\ trailers = 0 /\ expired = FALSE /\ late = 0 /\ step = "read"
  BY <1>2
<1>4. /\ block \in Blocks /\ buffer = <<>> /\ fed = <<>> /\ start = 0
      /\ transcript = <<>> /\ published = <<>> /\ delta = <<>>
      /\ appended = <<>> /\ revised = FALSE
  BY DEF Init
<1>5. Len(buffer) = 0 /\ Len(window) = 0 /\ Len(chunk) = 0 /\ Len(fed) = 0 /\ Held = 0
  BY <1>3, <1>4, EmptySeq DEF Held
<1>6. /\ broken \in Nat /\ broken <= Len(cuts) /\ lines \in Nat /\ lines <= MaxTrailers + 1
      /\ CutAt(cuts, Len(cuts)) \in Nat
  BY ConstantProps, CutProps
<1>7. body \in Seq(Tokens)
  BY <1>6, BodyTyped
<1>. HIDE DEF body
<1>8. PICK bytes \in Nat : bytes = Len(body) /\ prefetched \in 0 .. bytes
  BY <1>3, <1>7
<1>9. /\ Part(pending, body, 0, prefetched) /\ Part(arriving, body, prefetched, bytes)
      /\ prefetched \in Nat
  <2>1. Part(body, body, 0, bytes)
    BY <1>7, <1>8 DEF Part
  <2>2. /\ Part(SubSeq(body, 1, prefetched), body, 0, 0 + prefetched)
        /\ Part(SubSeq(body, prefetched + 1, Len(body)), body, 0 + prefetched, bytes)
    <3>1. 0 \in Nat /\ prefetched \in 0 .. Len(body)
      BY <1>8
    <3>2. QED
      BY <1>8, <2>1, <3>1, PartCut
  <2>3. prefetched \in Nat /\ 0 + prefetched = prefetched
    BY <1>8
  <2>4. QED
    BY <1>3, <2>2, <2>3
<1>10. TypeOK
  <2>1. /\ pending \in Seq(Tokens) /\ arriving \in Seq(Tokens)
        /\ window \in Seq(ByteTokens) /\ chunk \in Seq(ByteTokens)
    BY <1>3, <1>9, EmptySeq DEF Part
  <2>2. payload \in Nat \cup {-1} /\ received \in Nat
    BY <1>3, <1>6, <1>9
  <2>3. /\ size \in 0 .. MaxChunk /\ trailers \in 0 .. MaxTrailers + 1
        /\ Len(window) <= WindowBytes /\ Len(window) + Len(chunk) < MaxChunk + 1
    BY <1>3, <1>5, ConstantProps
  <2>4. Len(buffer) <= Wanted /\ start = Len(fed)
    <3>1. block \in Nat /\ SampleBytes \in Nat
      BY <1>4, ConstantProps
    <3>2. 0 <= block * SampleBytes
      BY <3>1
    <3>3. QED
      BY <1>4, <1>5, <3>2 DEF Wanted
  <2>5. <<>> \in Transcripts
    <3>1. PICK text \in Texts : IsText(text)
      BY LiveIngestAssumption
    <3>2. PICK Bytes : text \in Seq(Bytes)
      BY <3>1, TextProps
    <3>3. 0 \in 0 .. Len(text)
      BY <3>2
    <3>4. SubSeq(text, 1, 0) \in Seq(Bytes) /\ Len(SubSeq(text, 1, 0)) = 0
      BY <3>2, <3>3, SubSeqFirst
    <3>5. SubSeq(text, 1, 0) = <<>>
      BY <3>4, EmptySeq
    <3>6. QED
      BY <3>3, <3>5 DEF Transcripts
  <2>6. step \in {"read", "header", "payload", "trailer", "decode", "ended", "failed"}
    BY <1>3
  <2>7. QED
    BY <1>3, <1>4, <2>1, <2>2, <2>3, <2>4, <2>5, <2>6 DEF TypeOK, Tokens, ByteTokens
<1>11. ReaderFits /\ BoundsFit
  <2>1. Len(buffer) < Wanted
    <3>1. block \in Nat /\ block > 0 /\ SampleBytes \in Nat /\ SampleBytes > 0
      BY <1>4, ConstantProps
    <3>2. 0 < block * SampleBytes
      BY <3>1
    <3>3. QED
      BY <1>5, <3>2 DEF Wanted
  <2>2. ReaderFits
    BY <1>3, <2>1 DEF ReaderFits
  <2>3. BoundsFit
    BY <1>3, <1>5 DEF BoundsFit
  <2>4. QED
    BY <2>2, <2>3
<1>12. TextFits
  BY <1>4, EmptyText, NoStrayFirst, PublishableProps DEF TextFits, PiecesAddUp
<1>13. BodyFits(0, cuts, broken, lines, 0)
  <2>1. Fed(0)
    <3>1. /\ Run(buffer, 0) /\ Run(window, 0 + Len(buffer))
          /\ Run(chunk, 0 + Len(buffer) + Len(window))
      BY <1>3, <1>4, RunEmpty
    <3>2. Len(fed) * SampleBytes = 0 /\ Len(fed) % Channels = 0
      BY <1>5, ConstantProps
    <3>3. fed \in Seq(Nat) /\ start = Len(fed) /\ \A i \in 1 .. Len(fed) : FALSE
      BY <1>4, <1>5, EmptySeq
    <3>4. QED
      BY <1>3, <3>1, <3>2, <3>3 DEF Fed
  <2>2. 0 + Held = 0 /\ 0 <= MaxBody
    BY <1>5, ConstantProps
  <2>3. Between(cuts, broken, 0, 0)
    <3>1. /\ 1 \in 1 .. Len(cuts) + 1 /\ broken \notin 1 .. 1 - 1 /\ 0 = CutAt(cuts, 1 - 1)
          /\ 0 = HeaderAt(cuts, 1) - 1
      BY CutProps, HeaderProps DEF CutAt
    <3>2. QED
      BY <1>3, <3>1 DEF Between
  <2>4. /\ Part(pending, Body(cuts, broken, lines), 0, received)
        /\ Part(arriving, Body(cuts, broken, lines), received, Len(Body(cuts, broken, lines)))
        /\ 0 <= received /\ received <= Len(Body(cuts, broken, lines))
    BY <1>3, <1>8, <1>9 DEF body
  <2>5. Consumed(cuts, broken, lines, 0, 0)
    BY <1>3, <2>3, <2>4 DEF Consumed
  <2>6. QED
    BY <1>6, <2>1, <2>2, <2>5 DEF BodyFits
<1>14. QED
  BY <1>6, <1>10, <1>11, <1>12, <1>13 DEF Inv

\* Every step keeps the invariant.
LEMMA NextInv ==
  ASSUME Inv, [Next]_vars
  PROVE  Inv'
<1>1. CASE Expire /\ UNCHANGED <<feedVars, textVars>>
  BY <1>1, ExpireInv
<1>2. CASE ReadBody /\ UNCHANGED <<feedVars, textVars>>
  <2>1. ASSUME NEW n \in 1 .. Len(arriving), Receive(n)
        PROVE  Inv'
    BY <1>2, <2>1, ReceiveInv
  <2>2. CASE NoMore
    BY <1>2, <2>2, NoMoreInv
  <2>3. CASE ReadHeader
    BY <1>2, <2>3, ReadHeaderInv
  <2>4. CASE ReadPayload
    BY <1>2, <2>4, ReadPayloadInv
  <2>5. CASE ReadTrailer
    BY <1>2, <2>5, ReadTrailerInv
  <2>6. QED
    BY <1>2, <2>1, <2>2, <2>3, <2>4, <2>5 DEF ReadBody
<1>3. CASE Take
  BY <1>3, TakeInv
<1>4. CASE More
  BY <1>4, MoreInv
<1>5. CASE Feed
  BY <1>5, FeedInv
<1>6. CASE UNCHANGED vars
  BY <1>6, StutterInv
<1>7. QED
  BY <1>1, <1>2, <1>3, <1>4, <1>5, <1>6 DEF Next

\* The session has heard the body as far as it was fed, and all of it at the end.
LEMMA InvHears == Inv => HearsWholeBody
<1>. SUFFICES ASSUME Inv, block % Channels = 0
              PROVE  /\ fed = [i \in DOMAIN fed |-> (i - 1) * SampleBytes + 1]
                     /\ step = "ended" => Len(fed) = (payload \div FrameBytes) * Channels
  BY DEF HearsWholeBody
<1>1. PICK base \in Nat : Fed(base)
  BY DEF Inv, BodyFits
<1>2. /\ fed \in Seq(Nat) /\ \A i \in 1 .. Len(fed) : fed[i] = (i - 1) * SampleBytes + 1
      /\ step = "ended" => Len(fed) = (payload \div FrameBytes) * Channels
  BY <1>1 DEF Fed
<1>3. DOMAIN fed = 1 .. Len(fed) /\ fed = [i \in DOMAIN fed |-> fed[i]]
  BY <1>2
<1>4. fed = [i \in DOMAIN fed |-> (i - 1) * SampleBytes + 1]
  BY <1>2, <1>3
<1>5. QED
  BY <1>2, <1>4

\* What is held and what was fed is within the cap, and what is in the window
\* and was read late is at most a window.
LEMMA InvBounds == Inv => BoundsHold
<1>. SUFFICES ASSUME Inv
              PROVE  late <= WindowBytes /\ Len(fed) * SampleBytes + Len(buffer) <= MaxBody
  BY DEF BoundsHold
<1>1. PICK base \in Nat : Fed(base) /\ base + Held <= MaxBody
  BY DEF Inv, BodyFits
<1>2. TypeOK /\ BoundsFit
  BY DEF Inv
<1>3. PICK b \in Nat, w \in Nat, c \in Nat, l \in Nat :
        /\ b = Len(buffer) /\ w = Len(window) /\ c = Len(chunk) /\ l = Len(fed)
        /\ Held = b + w + c
  BY <1>1, <1>2, LengthProps
<1>4. late <= WindowBytes
  <2>1. late \in Nat /\ WindowBytes \in Nat
    BY <1>2, ConstantProps DEF TypeOK
  <2>2. IF expired THEN late + w <= WindowBytes ELSE late = 0
    BY <1>2, <1>3 DEF BoundsFit
  <2>3. QED
    BY <2>1, <2>2
<1>5. l * SampleBytes + b <= MaxBody
  <2>1. l * SampleBytes <= base
    BY <1>1, <1>3 DEF Fed
  <2>2. base + (b + w + c) <= MaxBody
    BY <1>1, <1>3
  <2>3. PICK m \in Nat : m = l * SampleBytes
    BY ConstantProps
  <2>4. m + b <= MaxBody
    BY <2>1, <2>2, <2>3, ConstantProps
  <2>5. QED
    BY <2>3, <2>4
<1>6. QED
  BY <1>3, <1>4, <1>5

\* The invariant holds in every reachable state.
LEMMA BodyAndText == Spec => []Inv
BY InitInv, NextInv, PTL DEF Spec

\* Every variable keeps its type.
THEOREM TypesKept == Spec => []TypeOK
<1>1. Inv => TypeOK
  BY DEF Inv
<1>2. QED
  BY <1>1, BodyAndText, PTL

\* However the client cuts its body, the receives end and the reads are sized,
\* the session hears the samples of the body in order, and the stream ends
\* normally only after all of a well-formed body.
THEOREM WholeBodyHeard == Spec => []HearsWholeBody
BY InvHears, BodyAndText, PTL

\* Past the deadline at most one window is read, and never more than the cap.
THEOREM BoundsKept == Spec => []BoundsHold
BY InvBounds, BodyAndText, PTL

\* Every piece is whole characters, and the pieces add up to what was published
\* as long as no decode contradicts it.
THEOREM PiecesAdded == Spec => []PiecesAddUp
<1>1. Inv => PiecesAddUp
  BY DEF Inv, TextFits
<1>2. QED
  BY <1>1, BodyAndText, PTL
=============================================================================
