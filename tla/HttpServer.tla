----------------------------- MODULE HttpServer -----------------------------
(***************************************************************************)
(* The concurrent HTTP listener: app/server/parallel_http.cpp.  The main   *)
(* thread accepts connections and owns one worker thread for each; at      *)
(* shutdown it interrupts all of them and joins them.  Requests go to one  *)
(* model with one slot (ModelSlots with its handlers as ModelResidency has *)
(* them), which is what a stalled client can keep from others.             *)
(*                                                                         *)
(* Clients do what they like: send, read, stall for ever or hang up.       *)
(***************************************************************************)
EXTENDS Integers, Sequences, FiniteSets, SequencesExt

CONSTANTS
  Clients,   \* one connection each at a time
  Nobody,    \* no client
  Kinds,     \* of request: "plain" answers when the model is done, "live" reads
             \* its body and writes events while the model runs, "sse" only writes
  MaxEvents  \* bound: events that a streaming run writes

ASSUME HttpAssumption ==
  /\ IsFiniteSet(Clients) /\ Nobody \notin Clients
  /\ Kinds \subseteq {"plain", "sse", "live"} /\ Kinds # {}
  /\ MaxEvents \in Nat \ {0}

VARIABLES
  shutdown,  \* shutdown_requested()
  main,      \* the listener's thread: what it does and for which workers still
  locked,    \* the worker whose socket_mutex the listener holds
  owned,     \* workers_
  worker,    \* per client: its worker
  lease,     \* who runs on the model
  line       \* who waits for it, in order

workerVars == <<owned, worker>>
leaseVars == <<lease, line>>
vars == <<shutdown, main, locked, workerVars, leaseVars>>

(* at: where its thread is; "none" when there is no thread.  left: events  *)
(* the run still has to write.  open: its socket.                          *)
NoWorker == [at |-> "none", kind |-> "plain", left |-> 0, stopping |-> FALSE, open |-> FALSE]

Places == {"none", "receive", "waiting", "run", "pull", "write", "failing", "finish",
           "reply", "close", "closed", "done"}

TypeOK ==
  /\ shutdown \in BOOLEAN
  /\ main \in [at : {"serving", "signal", "interrupt", "join", "stopped"},
               todo : SUBSET Clients]
  /\ locked \in Clients \cup {Nobody}
  /\ owned \subseteq Clients
  /\ worker \in [Clients -> [at : Places, kind : {"plain", "sse", "live"},
                             left : 0 .. MaxEvents, stopping : BOOLEAN, open : BOOLEAN]]
  /\ lease \in Clients \cup {Nobody}
  /\ line \in Seq(Clients)

Init ==
  /\ shutdown = FALSE
  /\ main = [at |-> "serving", todo |-> {}]
  /\ locked = Nobody
  /\ owned = {}
  /\ worker = [c \in Clients |-> NoWorker]
  /\ lease = Nobody
  /\ line = <<>>

At(c, place) == worker[c].at = place
Goes(c, place) == worker' = [worker EXCEPT ![c].at = place]
MainOnly == UNCHANGED <<shutdown, main, locked, owned>>

----------------------------------------------------------------------------
(* handle_client: reading the request, running it, answering *)

DropLease(c) == lease' = IF lease = c THEN Nobody ELSE lease

ReceiveRequest(c) ==
  /\ At(c, "receive") /\ ~worker[c].stopping
  /\ \E kind \in Kinds, events \in 1 .. MaxEvents :
       worker' = [worker EXCEPT ![c].at = "waiting", ![c].kind = kind,
                                ![c].left = IF kind = "plain" THEN 0 ELSE events]
  /\ line' = Append(line, c)
  /\ UNCHANGED lease /\ MainOnly

\* bind_request, or its busy timeout; neither looks at the stopping flag.
Admitted(c) ==
  /\ At(c, "waiting") /\ lease = Nobody /\ Head(line) = c
  /\ lease' = c
  /\ line' = Tail(line)
  /\ Goes(c, "run")
  /\ MainOnly

Busy(c) ==
  /\ At(c, "waiting")
  /\ \E i \in DOMAIN line : line[i] = c /\ line' = RemoveAt(line, i)
  /\ Goes(c, "reply")
  /\ UNCHANGED lease /\ MainOnly

\* The handler returns or throws, and its lease goes with it.
PlainRun(c) ==
  /\ At(c, "run") /\ worker[c].kind = "plain"
  /\ DropLease(c)
  /\ Goes(c, "reply")
  /\ UNCHANGED line /\ MainOnly

\* Seeded fault: a run goes on after its last event.
StreamRun_NoEnd(c) ==
  /\ At(c, "run") /\ worker[c].kind # "plain"
  /\ Goes(c, IF worker[c].kind = "live" THEN "pull" ELSE "write")
  /\ UNCHANGED leaseVars /\ MainOnly

\* The next step of a streaming run; a live one first reads from its client.
StreamRun(c) ==
  /\ At(c, "run") /\ worker[c].kind # "plain"
  /\ Goes(c, IF worker[c].left = 0 THEN "finish"
             ELSE IF worker[c].kind = "live" THEN "pull" ELSE "write")
  /\ UNCHANGED leaseVars /\ MainOnly

PullInput(c) ==
  /\ At(c, "pull") /\ ~worker[c].stopping
  /\ Goes(c, "write")
  /\ UNCHANGED leaseVars /\ MainOnly

WriteEvent(c) ==
  /\ At(c, "write") /\ ~worker[c].stopping
  /\ worker' = [worker EXCEPT ![c].at = "run", ![c].left = @ - 1]
  /\ UNCHANGED leaseVars /\ MainOnly

WriteError(c) ==
  /\ At(c, "failing") /\ ~worker[c].stopping
  /\ Goes(c, "finish")
  /\ UNCHANGED leaseVars /\ MainOnly

\* The final chunk; after it the response is destroyed, and the lease with it.
WriteFinish(c) ==
  /\ At(c, "finish") /\ ~worker[c].stopping
  /\ DropLease(c)
  /\ Goes(c, "close")
  /\ UNCHANGED line /\ MainOnly

WriteReply(c) ==
  /\ At(c, "reply") /\ ~worker[c].stopping
  /\ Goes(c, "close")
  /\ UNCHANGED leaseVars /\ MainOnly

(* A socket operation, or the run, throws.  While the response is streamed   *)
(* that leads to an error event and the final chunk, sent with the lease; if *)
(* these fail too, the response is unwound and an error response sent.       *)
Throws(c) ==
  /\ \/ At(c, "receive") /\ Goes(c, "reply") /\ UNCHANGED lease
     \/ worker[c].at \in {"run", "pull", "write"} /\ Goes(c, "failing") /\ UNCHANGED lease
     \/ worker[c].at \in {"failing", "finish"} /\ Goes(c, "reply") /\ DropLease(c)
     \/ At(c, "reply") /\ Goes(c, "close") /\ UNCHANGED lease
  /\ UNCHANGED line /\ MainOnly

\* The client hangs up, or the model fails.
Fails(c) == (At(c, "run") => worker[c].kind # "plain") /\ Throws(c)

\* Seeded fault: no send timeout for live requests.
SendHasTimeout_Never(c) == FALSE

(* send_all, receive_some and wait_readable poll the stopping flag; a live   *)
(* body also has an idle and a total timeout, its writes a send timeout.     *)
SendHasTimeout(c) == worker[c].kind = "live"
ReadHasTimeout(c) == worker[c].kind = "live"

GivesUp(c) ==
  /\ \/ worker[c].stopping /\ ~At(c, "run")
     \/ At(c, "pull") /\ ReadHasTimeout(c)
     \/ worker[c].at \in {"write", "failing", "finish"} /\ SendHasTimeout(c)
  /\ Throws(c)

\* Seeded fault: the worker closes its socket without socket_mutex.
Close_Unlocked(c) ==
  /\ At(c, "close")
  /\ worker' = [worker EXCEPT ![c].at = "closed", ![c].open = FALSE]
  /\ UNCHANGED leaseVars /\ MainOnly

\* The worker closes its socket under socket_mutex.
Close(c) ==
  /\ At(c, "close") /\ locked # c
  /\ worker' = [worker EXCEPT ![c].at = "closed", ![c].open = FALSE]
  /\ UNCHANGED leaseVars /\ MainOnly

\* Its last access to its record.
Finish(c) ==
  /\ At(c, "closed")
  /\ Goes(c, "done")
  /\ UNCHANGED leaseVars /\ MainOnly

ClientStep(c) ==
  \/ ReceiveRequest(c) \/ PullInput(c) \/ WriteEvent(c)
  \/ WriteError(c) \/ WriteFinish(c) \/ WriteReply(c) \/ Fails(c)

ServerStep(c) ==
  Admitted(c) \/ PlainRun(c) \/ StreamRun(c) \/ GivesUp(c) \/ Close(c) \/ Finish(c)

----------------------------------------------------------------------------
(* The listener's thread *)

\* Another thread, or a signal, asks the server to stop.
Shutdown ==
  /\ ~shutdown /\ shutdown' = TRUE
  /\ UNCHANGED <<main, locked, workerVars, leaseVars>>

\* Seeded fault: workers with a closed socket are forgotten, done or not.
Reap_ClosedSockets ==
  /\ main.at = "serving"
  /\ LET finished == {c \in owned : ~worker[c].open} IN
       /\ finished # {}
       /\ owned' = owned \ finished
       /\ worker' = [c \in Clients |-> IF c \in finished /\ At(c, "done")
                                      THEN NoWorker ELSE worker[c]]
  /\ UNCHANGED <<shutdown, main, locked, leaseVars>>

\* reap() joins threads that are done and forgets their workers.
Reap ==
  /\ main.at = "serving"
  /\ LET finished == {c \in owned : At(c, "done")} IN
       /\ finished # {}
       /\ owned' = owned \ finished
       /\ worker' = [c \in Clients |-> IF c \in finished THEN NoWorker ELSE worker[c]]
  /\ UNCHANGED <<shutdown, main, locked, leaseVars>>

\* accept() may follow a shutdown that came after the last look.
Accept(c) ==
  /\ main.at = "serving"
  /\ c \notin owned
  /\ owned' = owned \cup {c}
  /\ worker' = [worker EXCEPT ![c] = [NoWorker EXCEPT !.at = "receive", !.open = TRUE]]
  /\ UNCHANGED <<shutdown, main, locked, leaseVars>>

StartDrain ==
  /\ main.at = "serving" /\ shutdown
  /\ main' = [at |-> "signal", todo |-> owned]
  /\ UNCHANGED <<shutdown, locked, workerVars, leaseVars>>

\* Seeded fault: each worker is waited for before the next is told.
SignalWorker_OneByOne ==
  /\ main.at = "signal" /\ locked = Nobody
  /\ \A d \in owned : worker[d].stopping => At(d, "done")
  /\ \E c \in main.todo :
       /\ worker' = [worker EXCEPT ![c].stopping = TRUE]
       /\ main' = [at |-> IF worker[c].open THEN "interrupt" ELSE "signal",
                   todo |-> main.todo \ {c}]
       /\ locked' = IF worker[c].open THEN c ELSE Nobody
  /\ UNCHANGED <<shutdown, owned, leaseVars>>

\* Every worker is told before any is waited for.
SignalWorker ==
  /\ main.at = "signal" /\ locked = Nobody
  /\ \E c \in main.todo :
       /\ worker' = [worker EXCEPT ![c].stopping = TRUE]
       /\ main' = [at |-> IF worker[c].open THEN "interrupt" ELSE "signal",
                   todo |-> main.todo \ {c}]
       /\ locked' = IF worker[c].open THEN c ELSE Nobody
  /\ UNCHANGED <<shutdown, owned, leaseVars>>

\* shutdown(2) on the socket that was found open.
Interrupt ==
  /\ main.at = "interrupt"
  /\ main' = [main EXCEPT !.at = "signal"]
  /\ locked' = Nobody
  /\ UNCHANGED <<shutdown, workerVars, leaseVars>>

StartJoin ==
  /\ main.at = "signal" /\ main.todo = {}
  /\ main' = [at |-> "join", todo |-> owned]
  /\ UNCHANGED <<shutdown, locked, workerVars, leaseVars>>

Join ==
  /\ main.at = "join"
  /\ \E c \in main.todo :
       /\ At(c, "done")
       /\ worker' = [worker EXCEPT ![c] = NoWorker]
       /\ main' = [main EXCEPT !.todo = @ \ {c}]
  /\ UNCHANGED <<shutdown, locked, owned, leaseVars>>

\* Every thread is joined: the workers are freed and the server returns.
Stopped ==
  /\ main.at = "join" /\ main.todo = {}
  /\ main' = [main EXCEPT !.at = "stopped"]
  /\ owned' = {}
  /\ UNCHANGED <<shutdown, locked, worker, leaseVars>>

Drain == StartDrain \/ SignalWorker \/ Interrupt \/ StartJoin \/ Join \/ Stopped

Next ==
  \/ Shutdown \/ Reap \/ Drain
  \/ \E c \in Clients : Accept(c) \/ ClientStep(c) \/ Busy(c) \/ ServerStep(c)

Spec == Init /\ [][Next]_vars

(* Threads run, model steps end, clocks run.  Nothing is assumed of clients. *)
FairSpec ==
  /\ Spec
  /\ WF_vars(Reap) /\ WF_vars(Drain)
  /\ \A c \in Clients : WF_vars(ServerStep(c))

----------------------------------------------------------------------------
(* Properties *)

\* A worker's record outlives its thread: the thread stores to done and polls
\* stopping in it to its end.  Once the server returns, and its runtime may be
\* destroyed, no thread is left (parallel_http.cpp:967-994).
ThreadsAreOwned ==
  /\ \A c \in Clients : ~At(c, "none") => c \in owned
  /\ main.at = "stopped" => \A c \in Clients : At(c, "none")

\* "The per-worker mutex prevents shutdown racing close and hitting a reused
\* socket handle" (parallel_http.cpp:976-977): what the listener interrupts is
\* still the worker's own socket.
InterruptsOpenSockets ==
  main.at = "interrupt" => worker[locked].open

\* The limits of live requests keep a client from pinning the model, by not
\* sending or not reading; ordinary responses are sent without the lease
\* (parallel_http.cpp:230-232, 285-291).
LiveClientsCannotPin ==
  \A c \in Clients :
    (lease = c /\ worker[c].kind # "sse") ~> (lease # c)

\* The server stops after a shutdown request, whatever its clients do
\* (parallel_http.cpp:975-994).
ShutdownCompletes == shutdown ~> main.at = "stopped"
=============================================================================
