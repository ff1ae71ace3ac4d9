--------------------------- MODULE HttpServerProof ---------------------------
(***************************************************************************)
(* For any number of clients, kinds of requests and events: the listener   *)
(* never loses a worker, never interrupts a socket that is closed, and the *)
(* model's lease is with the one worker that uses it.                      *)
(***************************************************************************)
EXTENDS HttpServer, SequenceTheorems, TLAPS

USE HttpAssumption

UsesModel(c) == worker[c].at \in {"run", "pull", "write", "failing", "finish"}

\* The lease of the model is with exactly the worker that runs on it or streams
\* from it, whichever way the others ended.
LeaseIsUsed == \A c \in Clients : UsesModel(c) <=> lease = c

\* Who is in line waits, in one place, and who waits is in line.
LineWaits ==
  /\ \A c \in Clients : At(c, "waiting") => \E i \in DOMAIN line : line[i] = c
  /\ \A i \in DOMAIN line : At(line[i], "waiting")
  /\ \A i, j \in DOMAIN line : line[i] = line[j] => i = j

\* A socket is open until its worker closes it.
OpenUntilClosed ==
  \A c \in Clients : worker[c].open <=> worker[c].at \notin {"none", "closed", "done"}

\* Streaming goes on only while there are events left.
EventsLeft == \A c \in Clients : worker[c].at \in {"pull", "write"} => worker[c].left > 0

\* The listener holds a socket_mutex only while it interrupts, and its lists
\* hold workers it owns.
ListenerKeepsTrack ==
  /\ main.at = "interrupt" <=> locked # Nobody
  /\ main.todo \subseteq owned
  /\ main.at = "serving" => main.todo = {}
  /\ main.at = "join" => \A c \in Clients : ~At(c, "none") => c \in main.todo

Inv ==
  /\ TypeOK /\ ThreadsAreOwned /\ InterruptsOpenSockets /\ OpenUntilClosed
  /\ ListenerKeepsTrack /\ EventsLeft /\ LeaseIsUsed /\ LineWaits

----------------------------------------------------------------------------
(* Lemmas *)

Worker == [at : Places, kind : {"plain", "sse", "live"},
           left : 0 .. MaxEvents, stopping : BOOLEAN, open : BOOLEAN]

\* Changing one worker's record.
LEMMA WorkerProps ==
  ASSUME worker \in [Clients -> Worker], NEW c \in Clients, NEW w \in Worker,
         worker' = [worker EXCEPT ![c] = w]
  PROVE  /\ worker' \in [Clients -> Worker] /\ worker'[c] = w
         /\ \A d \in Clients \ {c} : worker'[d] = worker[d]
OBVIOUS

\* A worker that goes somewhere keeps the rest of its record.
LEMMA GoesProps ==
  ASSUME worker \in [Clients -> Worker], NEW c \in Clients, NEW place \in Places,
         Goes(c, place)
  PROVE  /\ worker' \in [Clients -> Worker]
         /\ worker'[c] = [worker[c] EXCEPT !.at = place]
         /\ \A d \in Clients \ {c} : worker'[d] = worker[d]
<1>1. [worker[c] EXCEPT !.at = place] \in Worker
  BY DEF Worker
<1>2. QED
  BY <1>1 DEF Goes

\* There is no thread in an empty record, and one in a new connection's.
LEMMA NewWorkerProps ==
  NoWorker \in Worker /\ [NoWorker EXCEPT !.at = "receive", !.open = TRUE] \in Worker
<1>1. NoWorker \in Worker
  BY DEF NoWorker, Worker, Places
<1>2. [NoWorker EXCEPT !.at = "receive", !.open = TRUE] \in Worker
  BY <1>1 DEF Worker, Places
<1>3. QED
  BY <1>1, <1>2

\* RemoveAt drops one element and keeps the others in order.
LEMMA RemoveAtProps ==
  ASSUME NEW S, NEW q \in Seq(S), NEW i \in 1 .. Len(q)
  PROVE  /\ RemoveAt(q, i) \in Seq(S)
         /\ Len(RemoveAt(q, i)) = Len(q) - 1
         /\ \A j \in 1 .. Len(q) - 1 :
              RemoveAt(q, i)[j] = IF j < i THEN q[j] ELSE q[j + 1]
<1> DEFINE a == SubSeq(q, 1, i - 1)
           b == SubSeq(q, i + 1, Len(q))
<1>1. a \in Seq(S) /\ Len(a) = i - 1 /\ \A j \in 1 .. (i - 1) : a[j] = q[j]
  OBVIOUS
<1>2. b \in Seq(S) /\ Len(b) = Len(q) - i /\ \A j \in 1 .. (Len(q) - i) : b[j] = q[i + j]
  OBVIOUS
<1>3. RemoveAt(q, i) = a \o b
  BY DEF RemoveAt
<1> HIDE DEF a, b
<1>4. /\ a \o b \in Seq(S)
      /\ Len(a \o b) = Len(a) + Len(b)
      /\ \A j \in 1 .. Len(a) + Len(b) :
           (a \o b)[j] = IF j <= Len(a) THEN a[j] ELSE b[j - Len(a)]
  BY <1>1, <1>2, ConcatProperties, ZenonT(30)
<1>5. ASSUME NEW j \in 1 .. Len(q) - 1
      PROVE  (a \o b)[j] = IF j < i THEN q[j] ELSE q[j + 1]
  <2>1. CASE j < i
    BY <1>1, <2>1
  <2>2. CASE ~(j < i)
    <3>1. j - (i - 1) \in 1 .. (Len(q) - i) /\ i + (j - (i - 1)) = j + 1
      BY <2>2
    <3>2. (a \o b)[j] = b[j - (i - 1)]
      BY <1>1, <1>2, <2>2
    <3>3. QED
      BY <1>2, <3>1, <3>2
  <2>3. QED
    BY <2>1, <2>2
<1>6. QED
  BY <1>1, <1>2, <1>3, <1>4

\* A worker that has its request joins the end of the model's line, where it was
\* not: it was not waiting.
LEMMA ReceiveRequestInv ==
  ASSUME Inv, NEW c \in Clients, ReceiveRequest(c)
  PROVE  Inv'
<1>1. PICK kind \in Kinds, events \in 1 .. MaxEvents :
        worker' = [worker EXCEPT ![c].at = "waiting", ![c].kind = kind,
                                 ![c].left = IF kind = "plain" THEN 0 ELSE events]
  BY DEF ReceiveRequest
<1> DEFINE w == [worker[c] EXCEPT !.at = "waiting", !.kind = kind,
                                  !.left = IF kind = "plain" THEN 0 ELSE events]
<1>2. w \in Worker /\ w.at = "waiting" /\ w.open = worker[c].open
  <2>1. worker[c] \in Worker
    BY DEF Inv, TypeOK, Worker
  <2>2. kind \in {"plain", "sse", "live"}
    OBVIOUS
  <2>3. (IF kind = "plain" THEN 0 ELSE events) \in 0 .. MaxEvents
    OBVIOUS
  <2>4. QED
    BY <2>1, <2>3 DEF Worker, Places
<1>3. worker' = [worker EXCEPT ![c] = w]
  BY <1>1
<1> HIDE DEF w
<1>4. /\ worker' \in [Clients -> Worker] /\ worker'[c] = w
      /\ \A d \in Clients \ {c} : worker'[d] = worker[d]
  BY <1>2, <1>3 DEF Inv, TypeOK, Worker
<1>5. TypeOK'
  BY <1>4 DEF Inv, TypeOK, ReceiveRequest, Worker, MainOnly
<1>6. ThreadsAreOwned' /\ InterruptsOpenSockets' /\ OpenUntilClosed'
  BY <1>2 DEF Inv, TypeOK, ThreadsAreOwned, InterruptsOpenSockets, OpenUntilClosed,
              ListenerKeepsTrack, ReceiveRequest, MainOnly, At
<1>7. ListenerKeepsTrack' /\ EventsLeft'
  BY <1>4 DEF Inv, ListenerKeepsTrack, EventsLeft, ReceiveRequest, MainOnly, At
<1>8. LeaseIsUsed'
  BY <1>4 DEF Inv, LeaseIsUsed, UsesModel, ReceiveRequest, At
<1>9. LineWaits'
  <2>1. \A i \in DOMAIN line : line[i] \in Clients \ {c}
    BY DEF Inv, TypeOK, LineWaits, ReceiveRequest, At
  <2>2. /\ DOMAIN line' = DOMAIN line \cup {Len(line) + 1} /\ line'[Len(line) + 1] = c
        /\ \A i \in DOMAIN line : line'[i] = line[i] /\ i # Len(line) + 1
    BY DEF ReceiveRequest
  <2>3. QED
    BY <1>2, <1>4, <2>1, <2>2 DEF Inv, LineWaits, At
<1>10. QED
  BY <1>5, <1>6, <1>7, <1>8, <1>9 DEF Inv

\* The head of the line gets the free lease; the rest of the line moves up.
LEMMA AdmittedInv ==
  ASSUME Inv, NEW c \in Clients, Admitted(c)
  PROVE  Inv'
<1>1. TypeOK'
  <2>1. line # <<>>
    BY DEF Inv, LineWaits, Admitted
  <2>2. line' \in Seq(Clients)
    BY <2>1 DEF Inv, TypeOK, Admitted
  <2>3. QED
    BY <2>2, GoesProps DEF Inv, TypeOK, Admitted, Worker, Places, MainOnly
<1>2. ThreadsAreOwned' /\ InterruptsOpenSockets' /\ OpenUntilClosed'
  BY DEF Inv, ThreadsAreOwned, InterruptsOpenSockets, OpenUntilClosed, Admitted, At,
         MainOnly, Goes
<1>3. ListenerKeepsTrack' /\ EventsLeft'
  BY DEF Inv, ListenerKeepsTrack, EventsLeft, Admitted, At, MainOnly, Goes
<1>4. LeaseIsUsed'
  BY DEF Inv, TypeOK, LeaseIsUsed, UsesModel, Admitted, Goes
<1>5. LineWaits'
  <2>1. line # <<>> /\ line \in Seq(Clients)
    BY DEF Inv, TypeOK, LineWaits, Admitted
  <2>2. /\ DOMAIN line = 1 .. Len(line) /\ DOMAIN line' = 1 .. Len(line) - 1
        /\ Len(line) \in Nat
        /\ 1 \in DOMAIN line /\ line[1] = c
        /\ \A i \in DOMAIN line' : line'[i] = line[i + 1]
    BY <2>1 DEF Admitted
  <2>3. \A i \in DOMAIN line' : i + 1 \in DOMAIN line /\ line'[i] # c /\ line'[i] \in Clients
    BY <2>1, <2>2 DEF Inv, LineWaits
  <2>4. \A d \in Clients \ {c} : worker'[d] = worker[d]
    BY DEF Admitted, Goes
  <2>5. worker'[c].at = "run"
    BY DEF Inv, TypeOK, Admitted, Goes
  <2>6. ASSUME NEW d \in Clients, At(d, "waiting")'
        PROVE  \E i \in DOMAIN line' : line'[i] = d
    <3>1. d # c /\ At(d, "waiting")
      BY <2>4, <2>5, <2>6 DEF At
    <3>2. PICK i \in DOMAIN line : line[i] = d
      BY <3>1 DEF Inv, LineWaits
    <3>3. i - 1 \in DOMAIN line' /\ line'[i - 1] = d
      BY <2>2, <3>1, <3>2
    <3>4. QED
      BY <3>3
  <2>7. \A i \in DOMAIN line' : worker'[line'[i]].at = "waiting"
    BY <2>2, <2>3, <2>4 DEF Inv, LineWaits, At
  <2>8. \A i, j \in DOMAIN line' : line'[i] = line'[j] => i = j
    BY <2>2 DEF Inv, LineWaits
  <2>9. QED
    BY <2>6, <2>7, <2>8 DEF LineWaits, At
<1>6. QED
  BY <1>1, <1>2, <1>3, <1>4, <1>5 DEF Inv

\* Whoever gives up waiting leaves the line wherever it stood, and the others keep
\* their order.
LEMMA BusyInv ==
  ASSUME Inv, NEW c \in Clients, Busy(c)
  PROVE  Inv'
<1>1. TypeOK'
  <2>1. line' \in Seq(Clients)
    BY RemoveAtProps DEF Inv, TypeOK, Busy
  <2>2. QED
    BY <2>1, GoesProps DEF Inv, TypeOK, Busy, Worker, Places, MainOnly
<1>2. ThreadsAreOwned' /\ InterruptsOpenSockets' /\ OpenUntilClosed'
  BY DEF Inv, ThreadsAreOwned, InterruptsOpenSockets, OpenUntilClosed, Busy, At, MainOnly,
         Goes
<1>3. ListenerKeepsTrack' /\ EventsLeft'
  BY DEF Inv, ListenerKeepsTrack, EventsLeft, Busy, At, MainOnly, Goes
<1>4. LeaseIsUsed'
  BY DEF Inv, LeaseIsUsed, UsesModel, Busy, At, Goes
<1>5. LineWaits'
  <2>1. PICK k \in DOMAIN line : line[k] = c /\ line' = RemoveAt(line, k)
    BY DEF Busy
  <2>2. line \in Seq(Clients) /\ k \in 1 .. Len(line)
    BY DEF Inv, TypeOK
  <2>3. /\ line' \in Seq(Clients) /\ Len(line') = Len(line) - 1
        /\ \A i \in 1 .. Len(line) - 1 : line'[i] = IF i < k THEN line[i] ELSE line[i + 1]
    BY <2>1, <2>2, RemoveAtProps
  <2>4. DOMAIN line = 1 .. Len(line) /\ DOMAIN line' = 1 .. Len(line) - 1 /\ Len(line) \in Nat
    BY <2>3
  <2> DEFINE old(i) == IF i < k THEN i ELSE i + 1
  <2>5. \A i \in DOMAIN line' : old(i) \in DOMAIN line \ {k} /\ line'[i] = line[old(i)]
    BY <2>3
  <2>6. \A i, j \in DOMAIN line' : old(i) = old(j) => i = j
    BY <2>4
  <2>7. \A d \in Clients \ {c} : worker'[d] = worker[d]
    BY DEF Busy, Goes
  <2>8. worker'[c].at = "reply"
    BY DEF Inv, TypeOK, Busy, Goes
  <2>9. ASSUME NEW d \in Clients, At(d, "waiting")'
        PROVE  \E i \in DOMAIN line' : line'[i] = d
    <3>1. d # c /\ At(d, "waiting")
      BY <2>7, <2>8, <2>9 DEF At
    <3>2. PICK i \in DOMAIN line : line[i] = d
      BY <3>1 DEF Inv, LineWaits
    <3>3. i # k
      BY <2>1, <3>1, <3>2
    <3>4. CASE i < k
      BY <2>3, <3>2, <3>4
    <3>5. CASE i > k
      <4>1. i - 1 \in DOMAIN line' /\ line'[i - 1] = d
        BY <2>3, <3>2, <3>5
      <4>2. QED
        BY <4>1
    <3>6. QED
      BY <2>4, <3>3, <3>4, <3>5
  <2> HIDE DEF old
  <2>10. \A i \in DOMAIN line' : line'[i] \in Clients \ {c} /\ At(line'[i], "waiting")
    BY <2>1, <2>2, <2>5 DEF Inv, LineWaits
  <2>11. \A i \in DOMAIN line' : worker'[line'[i]].at = "waiting"
    BY <2>7, <2>10 DEF At
  <2>12. \A i, j \in DOMAIN line' : line'[i] = line'[j] => i = j
    BY <2>5, <2>6 DEF Inv, LineWaits
  <2>13. QED
    BY <2>9, <2>11, <2>12 DEF LineWaits, At
<1>6. QED
  BY <1>1, <1>2, <1>3, <1>4, <1>5 DEF Inv

\* A handler that returns gives up the lease it ran on.
LEMMA PlainRunInv ==
  ASSUME Inv, NEW c \in Clients, PlainRun(c)
  PROVE  Inv'
<1>1. TypeOK'
  BY GoesProps DEF Inv, TypeOK, PlainRun, Worker, Places, DropLease, MainOnly
<1>2. ThreadsAreOwned' /\ InterruptsOpenSockets' /\ OpenUntilClosed'
  BY DEF Inv, ThreadsAreOwned, InterruptsOpenSockets, OpenUntilClosed, PlainRun, At,
         MainOnly, Goes
<1>3. ListenerKeepsTrack' /\ EventsLeft'
  BY DEF Inv, ListenerKeepsTrack, EventsLeft, PlainRun, At, MainOnly, Goes
<1>4. LeaseIsUsed'
  BY DEF Inv, TypeOK, LeaseIsUsed, UsesModel, DropLease, PlainRun, Goes
<1>5. LineWaits'
  BY DEF Inv, LineWaits, PlainRun, At, Goes
<1>6. QED
  BY <1>1, <1>2, <1>3, <1>4, <1>5 DEF Inv

\* A streaming run reads or writes only while there are events left.
LEMMA StreamRunInv ==
  ASSUME Inv, NEW c \in Clients, StreamRun(c)
  PROVE  Inv'
<1>1. TypeOK'
  BY GoesProps DEF Inv, TypeOK, StreamRun, Worker, Places, MainOnly, leaseVars
<1>2. ThreadsAreOwned' /\ InterruptsOpenSockets' /\ OpenUntilClosed'
  <2>1. PICK place \in {"finish", "pull", "write"} : Goes(c, place)
    BY DEF StreamRun
  <2>2. worker'[c].at = place /\ worker'[c].open = worker[c].open
    BY <2>1 DEF Inv, TypeOK, Goes
  <2>3. \A d \in Clients \ {c} : worker'[d] = worker[d]
    BY <2>1 DEF Goes
  <2>4. QED
    BY <2>2, <2>3 DEF Inv, TypeOK, ThreadsAreOwned, InterruptsOpenSockets, OpenUntilClosed,
                      ListenerKeepsTrack, StreamRun, At, MainOnly
<1>3. ListenerKeepsTrack' /\ EventsLeft'
  BY DEF Inv, TypeOK, ListenerKeepsTrack, EventsLeft, StreamRun, At, MainOnly, Goes
<1>4. LeaseIsUsed'
  BY DEF Inv, LeaseIsUsed, UsesModel, StreamRun, At, leaseVars, Goes
<1>5. LineWaits'
  BY DEF Inv, LineWaits, StreamRun, At, leaseVars, Goes
<1>6. QED
  BY <1>1, <1>2, <1>3, <1>4, <1>5 DEF Inv

\* Reading from the client changes neither the lease nor the line.
LEMMA PullInputInv ==
  ASSUME Inv, NEW c \in Clients, PullInput(c)
  PROVE  Inv'
<1>1. TypeOK'
  BY GoesProps DEF Inv, TypeOK, PullInput, Worker, Places, MainOnly, leaseVars
<1>2. ThreadsAreOwned' /\ InterruptsOpenSockets' /\ OpenUntilClosed'
  BY DEF Inv, ThreadsAreOwned, InterruptsOpenSockets, OpenUntilClosed, PullInput, At,
         MainOnly, Goes
<1>3. ListenerKeepsTrack' /\ EventsLeft'
  BY DEF Inv, ListenerKeepsTrack, EventsLeft, PullInput, At, MainOnly, Goes
<1>4. LeaseIsUsed'
  BY DEF Inv, LeaseIsUsed, UsesModel, PullInput, At, leaseVars, Goes
<1>5. LineWaits'
  BY DEF Inv, LineWaits, PullInput, At, leaseVars, Goes
<1>6. QED
  BY <1>1, <1>2, <1>3, <1>4, <1>5 DEF Inv

\* An event written is one fewer to write, and there was one.
LEMMA WriteEventInv ==
  ASSUME Inv, NEW c \in Clients, WriteEvent(c)
  PROVE  Inv'
<1>1. TypeOK'
  BY DEF Inv, TypeOK, WriteEvent, At, MainOnly, leaseVars
<1>2. ThreadsAreOwned' /\ InterruptsOpenSockets' /\ OpenUntilClosed'
  BY DEF Inv, TypeOK, ThreadsAreOwned, ListenerKeepsTrack, WriteEvent, MainOnly
<1>3. ListenerKeepsTrack' /\ EventsLeft'
  BY DEF Inv, TypeOK, WriteEvent
<1>4. LeaseIsUsed'
  BY DEF Inv, TypeOK, LeaseIsUsed, WriteEvent, At, MainOnly
<1>5. LineWaits'
  BY DEF Inv, TypeOK, WriteEvent
<1>6. QED
  BY <1>1, <1>2, <1>3, <1>4, <1>5 DEF Inv

\* The error event of a stream is sent with the lease.
LEMMA WriteErrorInv ==
  ASSUME Inv, NEW c \in Clients, WriteError(c)
  PROVE  Inv'
<1>1. TypeOK'
  BY GoesProps DEF Inv, TypeOK, WriteError, Worker, Places, MainOnly, leaseVars
<1>2. ThreadsAreOwned' /\ InterruptsOpenSockets' /\ OpenUntilClosed'
  BY DEF Inv, ThreadsAreOwned, InterruptsOpenSockets, OpenUntilClosed, WriteError, At,
         MainOnly, Goes
<1>3. ListenerKeepsTrack' /\ EventsLeft'
  BY DEF Inv, ListenerKeepsTrack, EventsLeft, WriteError, At, MainOnly, Goes
<1>4. LeaseIsUsed'
  BY DEF Inv, LeaseIsUsed, UsesModel, WriteError, At, leaseVars, Goes
<1>5. LineWaits'
  BY DEF Inv, LineWaits, WriteError, At, leaseVars, Goes
<1>6. QED
  BY <1>1, <1>2, <1>3, <1>4, <1>5 DEF Inv

\* The lease goes with the response, after the final chunk.
LEMMA WriteFinishInv ==
  ASSUME Inv, NEW c \in Clients, WriteFinish(c)
  PROVE  Inv'
<1>1. TypeOK'
  BY GoesProps DEF Inv, TypeOK, WriteFinish, Worker, Places, DropLease, MainOnly
<1>2. ThreadsAreOwned' /\ InterruptsOpenSockets' /\ OpenUntilClosed'
  BY DEF Inv, ThreadsAreOwned, InterruptsOpenSockets, OpenUntilClosed, WriteFinish, At,
         MainOnly, Goes
<1>3. ListenerKeepsTrack' /\ EventsLeft'
  BY DEF Inv, ListenerKeepsTrack, EventsLeft, WriteFinish, At, MainOnly, Goes
<1>4. LeaseIsUsed'
  BY DEF Inv, TypeOK, LeaseIsUsed, UsesModel, DropLease, WriteFinish, Goes
<1>5. LineWaits'
  BY DEF Inv, LineWaits, WriteFinish, At, Goes
<1>6. QED
  BY <1>1, <1>2, <1>3, <1>4, <1>5 DEF Inv

\* A reply is sent without a lease.
LEMMA WriteReplyInv ==
  ASSUME Inv, NEW c \in Clients, WriteReply(c)
  PROVE  Inv'
<1>1. TypeOK'
  BY GoesProps DEF Inv, TypeOK, WriteReply, Worker, Places, MainOnly, leaseVars
<1>2. ThreadsAreOwned' /\ InterruptsOpenSockets' /\ OpenUntilClosed'
  BY DEF Inv, ThreadsAreOwned, InterruptsOpenSockets, OpenUntilClosed, WriteReply, At,
         MainOnly, Goes
<1>3. ListenerKeepsTrack' /\ EventsLeft'
  BY DEF Inv, ListenerKeepsTrack, EventsLeft, WriteReply, At, MainOnly, Goes
<1>4. LeaseIsUsed'
  BY DEF Inv, LeaseIsUsed, UsesModel, WriteReply, At, leaseVars, Goes
<1>5. LineWaits'
  BY DEF Inv, LineWaits, WriteReply, At, leaseVars, Goes
<1>6. QED
  BY <1>1, <1>2, <1>3, <1>4, <1>5 DEF Inv

\* An exception unwinds the response, and the lease with it once the error event
\* has failed too.
LEMMA ThrowsInv ==
  ASSUME Inv, NEW c \in Clients, Throws(c)
  PROVE  Inv'
<1>1. PICK place \in {"reply", "failing", "close"} :
        /\ Goes(c, place)
        /\ worker[c].at \notin {"none", "waiting", "close", "closed", "done"}
        /\ \/ UNCHANGED lease /\ (place = "failing" <=> UsesModel(c))
           \/ DropLease(c) /\ place = "reply" /\ UsesModel(c)
  BY DEF Throws, At, UsesModel
<1>2. worker \in [Clients -> Worker] /\ place \in Places
  BY DEF Inv, TypeOK, Worker, Places
<1>3. /\ worker' \in [Clients -> Worker] /\ worker'[c].at = place
      /\ worker'[c].open = worker[c].open
      /\ \A d \in Clients \ {c} : worker'[d] = worker[d]
  <2>1. worker'[c] = [worker[c] EXCEPT !.at = place]
    BY <1>1, <1>2, GoesProps
  <2>2. worker'[c].at = place /\ worker'[c].open = worker[c].open
    BY <2>1
  <2>3. QED
    BY <1>1, <1>2, <2>2, GoesProps
<1>4. MainOnly /\ UNCHANGED line
  BY DEF Throws
<1>5. TypeOK'
  BY <1>1, <1>3, <1>4 DEF Inv, TypeOK, Worker, MainOnly, DropLease
<1>6. ThreadsAreOwned' /\ InterruptsOpenSockets' /\ OpenUntilClosed' /\ ListenerKeepsTrack'
  BY <1>1, <1>3, <1>4 DEF Inv, TypeOK, ThreadsAreOwned, InterruptsOpenSockets,
                          OpenUntilClosed, ListenerKeepsTrack, MainOnly, At
<1>7. EventsLeft'
  BY <1>3 DEF Inv, EventsLeft
<1>8. LeaseIsUsed'
  BY <1>1, <1>3 DEF Inv, LeaseIsUsed, UsesModel, DropLease
<1>9. LineWaits'
  <2>1. \A d \in Clients : At(d, "waiting")' <=> At(d, "waiting")
    BY <1>1, <1>3 DEF At
  <2>2. QED
    BY <1>4, <2>1 DEF Inv, TypeOK, LineWaits
<1>10. QED
  BY <1>5, <1>6, <1>7, <1>8, <1>9 DEF Inv

\* A worker closes its socket only when the listener does not interrupt it.
LEMMA CloseInv ==
  ASSUME Inv, NEW c \in Clients, Close(c)
  PROVE  Inv'
<1>1. TypeOK'
  <2>1. worker[c] \in Worker
    BY DEF Inv, TypeOK, Worker
  <2>2. [worker[c] EXCEPT !.at = "closed", !.open = FALSE] \in Worker
    BY <2>1 DEF Worker, Places
  <2>3. worker' \in [Clients -> Worker]
    BY <2>2 DEF Inv, TypeOK, Worker, Close
  <2>4. QED
    BY <2>3 DEF Inv, TypeOK, Close, Worker, MainOnly, leaseVars
<1>2. ThreadsAreOwned' /\ InterruptsOpenSockets' /\ OpenUntilClosed'
  BY DEF Inv, TypeOK, ThreadsAreOwned, OpenUntilClosed, ListenerKeepsTrack, Close, At,
         MainOnly
<1>3. ListenerKeepsTrack' /\ EventsLeft'
  BY DEF Inv, TypeOK, ListenerKeepsTrack, EventsLeft, Close, At, MainOnly
<1>4. LeaseIsUsed'
  <2>1. worker'[c].at = "closed" /\ worker[c].at \in {"none", "close"}
    BY DEF Inv, TypeOK, Close, At
  <2>2. \A d \in Clients \ {c} : worker'[d] = worker[d]
    BY DEF Inv, TypeOK, Close
  <2>3. QED
    BY <2>1, <2>2 DEF Inv, LeaseIsUsed, UsesModel, Close, leaseVars
<1>5. LineWaits'
  <2>1. worker'[c].at = "closed" /\ worker[c].at \in {"none", "close"}
    BY DEF Inv, TypeOK, Close, At
  <2>2. \A d \in Clients \ {c} : worker'[d] = worker[d]
    BY DEF Inv, TypeOK, Close
  <2>3. QED
    BY DEF Inv, TypeOK, LineWaits, Close, At, leaseVars
<1>6. QED
  BY <1>1, <1>2, <1>3, <1>4, <1>5 DEF Inv

\* A worker that is done has closed its socket.
LEMMA FinishInv ==
  ASSUME Inv, NEW c \in Clients, Finish(c)
  PROVE  Inv'
<1>1. TypeOK'
  BY GoesProps DEF Inv, TypeOK, Finish, Worker, Places, MainOnly, leaseVars
<1>2. ThreadsAreOwned' /\ InterruptsOpenSockets' /\ OpenUntilClosed'
  BY DEF Inv, ThreadsAreOwned, InterruptsOpenSockets, OpenUntilClosed, Finish, At, MainOnly,
         Goes
<1>3. ListenerKeepsTrack' /\ EventsLeft'
  BY DEF Inv, ListenerKeepsTrack, EventsLeft, Finish, At, MainOnly, Goes
<1>4. LeaseIsUsed'
  BY DEF Inv, LeaseIsUsed, UsesModel, Finish, At, leaseVars, Goes
<1>5. LineWaits'
  BY DEF Inv, LineWaits, Finish, At, leaseVars, Goes
<1>6. QED
  BY <1>1, <1>2, <1>3, <1>4, <1>5 DEF Inv

\* A connection gets a worker whose record is empty: the listener owns it from
\* then on.
LEMMA AcceptInv ==
  ASSUME Inv, NEW c \in Clients, Accept(c)
  PROVE  Inv'
<1>1. TypeOK'
  <2>1. worker' \in [Clients -> Worker]
    BY NewWorkerProps DEF Inv, TypeOK, Worker, Accept
  <2>2. QED
    BY <2>1 DEF Inv, TypeOK, Accept, Worker, leaseVars
<1>2. ThreadsAreOwned' /\ InterruptsOpenSockets' /\ OpenUntilClosed'
  BY DEF Inv, ThreadsAreOwned, InterruptsOpenSockets, OpenUntilClosed, Accept, At
<1>3. ListenerKeepsTrack' /\ EventsLeft'
  BY DEF Inv, ListenerKeepsTrack, EventsLeft, Accept
<1>4. LeaseIsUsed'
  <2>1. worker'[c].at = "receive" /\ worker[c].at \in {"none", "close"}
    BY DEF Inv, TypeOK, ThreadsAreOwned, Accept, At
  <2>2. \A d \in Clients \ {c} : worker'[d] = worker[d]
    BY DEF Accept
  <2>3. QED
    BY <2>1 DEF Inv, LeaseIsUsed, UsesModel, Accept, leaseVars
<1>5. LineWaits'
  <2>1. worker'[c].at = "receive" /\ worker[c].at \in {"none", "close"}
    BY DEF Inv, TypeOK, ThreadsAreOwned, Accept, At
  <2>2. \A d \in Clients \ {c} : worker'[d] = worker[d]
    BY DEF Accept
  <2>3. QED
    BY <2>1 DEF Inv, LineWaits, Accept, At, leaseVars
<1>6. QED
  BY <1>1, <1>2, <1>3, <1>4, <1>5 DEF Inv

\* The shutdown flag alone moves no worker.
LEMMA ShutdownInv ==
  ASSUME Inv, Shutdown
  PROVE  Inv'
<1>1. TypeOK'
  BY DEF Inv, TypeOK, Shutdown, workerVars, leaseVars
<1>2. ThreadsAreOwned' /\ InterruptsOpenSockets' /\ OpenUntilClosed'
  BY DEF Inv, ThreadsAreOwned, InterruptsOpenSockets, OpenUntilClosed, Shutdown, At,
         workerVars
<1>3. ListenerKeepsTrack' /\ EventsLeft'
  BY DEF Inv, ListenerKeepsTrack, EventsLeft, Shutdown, At, workerVars
<1>4. LeaseIsUsed'
  BY DEF Inv, LeaseIsUsed, UsesModel, Shutdown, workerVars, leaseVars
<1>5. LineWaits'
  BY DEF Inv, LineWaits, Shutdown, At, workerVars, leaseVars
<1>6. QED
  BY <1>1, <1>2, <1>3, <1>4, <1>5 DEF Inv

\* Reaping forgets workers that are done and no others.
LEMMA ReapInv ==
  ASSUME Inv, Reap
  PROVE  Inv'
<1>1. TypeOK'
  BY DEF Inv, TypeOK, Reap, NoWorker, Places, leaseVars
<1>2. ThreadsAreOwned' /\ InterruptsOpenSockets' /\ OpenUntilClosed'
  BY DEF Inv, ThreadsAreOwned, InterruptsOpenSockets, OpenUntilClosed, Reap, NoWorker, At
<1>3. ListenerKeepsTrack' /\ EventsLeft'
  <2>1. \A c \in Clients : worker'[c] = worker[c] \/ worker'[c].at = "none"
    BY DEF Reap, NoWorker
  <2>2. EventsLeft'
    BY <2>1 DEF Inv, EventsLeft
  <2>3. QED
    BY <2>2 DEF Inv, ListenerKeepsTrack, Reap
<1>4. LeaseIsUsed'
  BY DEF Inv, LeaseIsUsed, UsesModel, Reap, NoWorker, At, leaseVars
<1>5. LineWaits'
  BY DEF Inv, TypeOK, LineWaits, Reap, NoWorker, At, leaseVars
<1>6. QED
  BY <1>1, <1>2, <1>3, <1>4, <1>5 DEF Inv

\* The drain starts with every worker the listener owns.
LEMMA StartDrainInv ==
  ASSUME Inv, StartDrain
  PROVE  Inv'
<1>1. TypeOK'
  BY DEF Inv, TypeOK, StartDrain, workerVars, leaseVars
<1>2. ThreadsAreOwned' /\ InterruptsOpenSockets' /\ OpenUntilClosed'
  BY DEF Inv, ThreadsAreOwned, InterruptsOpenSockets, OpenUntilClosed, StartDrain, At,
         workerVars
<1>3. ListenerKeepsTrack' /\ EventsLeft'
  BY DEF Inv, ListenerKeepsTrack, EventsLeft, StartDrain, workerVars
<1>4. LeaseIsUsed'
  BY DEF Inv, LeaseIsUsed, UsesModel, StartDrain, workerVars, leaseVars
<1>5. LineWaits'
  BY DEF Inv, LineWaits, StartDrain, At, workerVars, leaseVars
<1>6. QED
  BY <1>1, <1>2, <1>3, <1>4, <1>5 DEF Inv

\* The listener takes a socket_mutex exactly when it found the socket open.
LEMMA SignalWorkerInv ==
  ASSUME Inv, SignalWorker
  PROVE  Inv'
<1>1. TypeOK'
  <2>1. PICK c \in main.todo :
          /\ worker' = [worker EXCEPT ![c].stopping = TRUE]
          /\ main' = [at |-> IF worker[c].open THEN "interrupt" ELSE "signal",
                      todo |-> main.todo \ {c}]
          /\ locked' = IF worker[c].open THEN c ELSE Nobody
    BY DEF SignalWorker
  <2>2. c \in Clients /\ worker[c] \in Worker
    BY DEF Inv, TypeOK, Worker
  <2>3. [worker[c] EXCEPT !.stopping = TRUE] \in Worker
    BY <2>2 DEF Worker
  <2>4. worker' \in [Clients -> Worker]
    BY <2>1, <2>3 DEF Inv, TypeOK, Worker
  <2>5. QED
    BY <2>4 DEF Inv, TypeOK, SignalWorker, Worker, leaseVars
<1>2. ThreadsAreOwned' /\ InterruptsOpenSockets' /\ OpenUntilClosed'
  BY DEF Inv, ThreadsAreOwned, InterruptsOpenSockets, OpenUntilClosed, SignalWorker, At
<1>3. ListenerKeepsTrack' /\ EventsLeft'
  BY DEF Inv, TypeOK, ListenerKeepsTrack, EventsLeft, SignalWorker
<1>4. LeaseIsUsed'
  BY DEF Inv, LeaseIsUsed, UsesModel, SignalWorker, leaseVars
<1>5. LineWaits'
  BY DEF Inv, LineWaits, SignalWorker, At, leaseVars
<1>6. QED
  BY <1>1, <1>2, <1>3, <1>4, <1>5 DEF Inv

\* The socket_mutex is released after the interrupt.
LEMMA InterruptInv ==
  ASSUME Inv, Interrupt
  PROVE  Inv'
<1>1. TypeOK'
  BY DEF Inv, TypeOK, Interrupt, workerVars, leaseVars
<1>2. ThreadsAreOwned' /\ InterruptsOpenSockets' /\ OpenUntilClosed'
  BY DEF Inv, ThreadsAreOwned, InterruptsOpenSockets, OpenUntilClosed, Interrupt, At,
         workerVars
<1>3. ListenerKeepsTrack' /\ EventsLeft'
  BY DEF Inv, ListenerKeepsTrack, EventsLeft, Interrupt, workerVars
<1>4. LeaseIsUsed'
  BY DEF Inv, LeaseIsUsed, UsesModel, Interrupt, workerVars, leaseVars
<1>5. LineWaits'
  BY DEF Inv, LineWaits, Interrupt, At, workerVars, leaseVars
<1>6. QED
  BY <1>1, <1>2, <1>3, <1>4, <1>5 DEF Inv

\* Every worker is joined, those whose signal found them done included.
LEMMA StartJoinInv ==
  ASSUME Inv, StartJoin
  PROVE  Inv'
<1>1. TypeOK'
  BY DEF Inv, TypeOK, StartJoin, workerVars, leaseVars
<1>2. ThreadsAreOwned' /\ InterruptsOpenSockets' /\ OpenUntilClosed'
  BY DEF Inv, ThreadsAreOwned, InterruptsOpenSockets, OpenUntilClosed, StartJoin, At,
         workerVars
<1>3. ListenerKeepsTrack' /\ EventsLeft'
  BY DEF Inv, ThreadsAreOwned, ListenerKeepsTrack, EventsLeft, StartJoin, At, workerVars
<1>4. LeaseIsUsed'
  BY DEF Inv, LeaseIsUsed, UsesModel, StartJoin, workerVars, leaseVars
<1>5. LineWaits'
  BY DEF Inv, LineWaits, StartJoin, At, workerVars, leaseVars
<1>6. QED
  BY <1>1, <1>2, <1>3, <1>4, <1>5 DEF Inv

\* A worker that is joined has no thread left; the others are still to be joined.
LEMMA JoinInv ==
  ASSUME Inv, Join
  PROVE  Inv'
<1>1. TypeOK'
  BY DEF Inv, TypeOK, Join, NoWorker, Places, leaseVars
<1>2. ThreadsAreOwned' /\ InterruptsOpenSockets' /\ OpenUntilClosed'
  BY DEF Inv, ThreadsAreOwned, InterruptsOpenSockets, OpenUntilClosed, Join, NoWorker, At
<1>3. ListenerKeepsTrack' /\ EventsLeft'
  BY DEF Inv, TypeOK, ListenerKeepsTrack, EventsLeft, Join, NoWorker, At
<1>4. LeaseIsUsed'
  BY DEF Inv, LeaseIsUsed, UsesModel, Join, NoWorker, At, leaseVars
<1>5. LineWaits'
  BY DEF Inv, LineWaits, Join, NoWorker, At, leaseVars
<1>6. QED
  BY <1>1, <1>2, <1>3, <1>4, <1>5 DEF Inv

\* When nobody is left to join nobody has a thread.
LEMMA StoppedInv ==
  ASSUME Inv, Stopped
  PROVE  Inv'
<1>1. TypeOK'
  BY DEF Inv, TypeOK, Stopped, leaseVars
<1>2. ThreadsAreOwned' /\ InterruptsOpenSockets' /\ OpenUntilClosed'
  BY DEF Inv, ThreadsAreOwned, InterruptsOpenSockets, OpenUntilClosed, ListenerKeepsTrack,
         Stopped, At
<1>3. ListenerKeepsTrack' /\ EventsLeft'
  BY DEF Inv, ListenerKeepsTrack, EventsLeft, Stopped
<1>4. LeaseIsUsed'
  BY DEF Inv, LeaseIsUsed, UsesModel, Stopped, leaseVars
<1>5. LineWaits'
  BY DEF Inv, LineWaits, Stopped, At, leaseVars
<1>6. QED
  BY <1>1, <1>2, <1>3, <1>4, <1>5 DEF Inv

----------------------------------------------------------------------------
(* Theorems *)

\* At start nobody is connected.
LEMMA InitInv == Init => Inv
<1> SUFFICES ASSUME Init PROVE Inv
  OBVIOUS
<1>1. TypeOK
  <2>1. worker \in [Clients -> Worker] /\ line \in Seq(Clients)
    BY NewWorkerProps DEF Init
  <2>2. QED
    BY <2>1 DEF Init, TypeOK, Worker
<1>2. \A c \in Clients : worker[c].at = "none" /\ ~worker[c].open
  BY DEF Init, NoWorker
<1>3. QED
  BY <1>1, <1>2 DEF Init, Inv, ThreadsAreOwned, InterruptsOpenSockets, OpenUntilClosed,
                    ListenerKeepsTrack, EventsLeft, LeaseIsUsed, LineWaits, UsesModel, At

\* Every step keeps the invariant.
LEMMA NextInv == Inv /\ [Next]_vars => Inv'
<1> SUFFICES ASSUME Inv, [Next]_vars PROVE Inv'
  OBVIOUS
<1>1. CASE Shutdown \/ Reap \/ Drain
  BY <1>1, ShutdownInv, ReapInv, StartDrainInv, SignalWorkerInv, InterruptInv, StartJoinInv,
     JoinInv, StoppedInv DEF Drain
<1>2. CASE \E c \in Clients : Accept(c) \/ Busy(c)
  BY <1>2, AcceptInv, BusyInv
<1>3. CASE \E c \in Clients : ClientStep(c)
  BY <1>3, ReceiveRequestInv, PullInputInv, WriteEventInv, WriteErrorInv, WriteFinishInv,
     WriteReplyInv, ThrowsInv DEF ClientStep, Fails
<1>4. CASE \E c \in Clients : ServerStep(c)
  BY <1>4, AdmittedInv, PlainRunInv, StreamRunInv, ThrowsInv, CloseInv, FinishInv
     DEF ServerStep, GivesUp
<1>5. CASE UNCHANGED vars
  BY <1>5 DEF vars, workerVars, leaseVars, Inv, TypeOK, ThreadsAreOwned,
              InterruptsOpenSockets, OpenUntilClosed, ListenerKeepsTrack, EventsLeft,
              LeaseIsUsed, LineWaits, UsesModel, At
<1>6. QED
  BY <1>1, <1>2, <1>3, <1>4, <1>5 DEF Next

\* What the listener knows of its workers, and the workers of their sockets, the
\* line and the lease, holds together in every state the server reaches.
THEOREM Invariance == Spec => []Inv
BY InitInv, NextInv, PTL DEF Spec

\* Every variable of the server keeps its range.
THEOREM TypeCorrectness == Spec => []TypeOK
<1>1. Inv => TypeOK
  BY DEF Inv
<1>2. QED
  BY <1>1, Invariance, PTL

\* The listener owns the record of every live thread, and returns without any.
THEOREM NoThreadIsLost == Spec => []ThreadsAreOwned
<1>1. Inv => ThreadsAreOwned
  BY DEF Inv
<1>2. QED
  BY <1>1, Invariance, PTL

\* The listener interrupts no socket that its worker has closed.
THEOREM NoReusedSocket == Spec => []InterruptsOpenSockets
<1>1. Inv => InterruptsOpenSockets
  BY DEF Inv
<1>2. QED
  BY <1>1, Invariance, PTL

\* However a client ends, the lease of the model is with the one worker that
\* still uses it, or with nobody: handle_client destroys the response, whose
\* stream_body owns the lease, on every path (parallel_http.cpp:859-889).
THEOREM LeaseIsNeverStranded == Spec => []LeaseIsUsed
<1>1. Inv => LeaseIsUsed
  BY DEF Inv
<1>2. QED
  BY <1>1, Invariance, PTL
=============================================================================
