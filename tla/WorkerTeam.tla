----------------------------- MODULE WorkerTeam -----------------------------
(***************************************************************************)
(* The thread team a CPU execution plan runs on                            *)
(* (framework/neon/worker_team.cpp:33-95, used by execution.cpp:183 and    *)
(* 297-317).  run() publishes a job under mutex_, takes part in it, and    *)
(* waits for the workers; the job crosses the team's barrier Waits times.  *)
(* A critical section is a step; a thread that waits on a condition        *)
(* variable is "asleep" until notified, or woken for no reason.  A team of *)
(* one calls its work directly, uses none of this, and is left out.        *)
(***************************************************************************)
EXTENDS Barrier

CONSTANTS
  Main,     \* the thread that owns the team: index 0 of the barrier's threads
  Waits,    \* barriers in a job: one or two per kernel of the plan
  MaxJobs   \* bound: calls of run()

ASSUME TeamAssumption ==
  /\ Main \in Threads /\ Threads # {Main}
  /\ Waits \in Nat /\ MaxJobs \in Nat

Workers == Threads \ {Main}

VARIABLES
  team,    \* what mutex_ protects: generation_ (job), pending_, work_, stop_
  worker,  \* per worker: pc, its copies of generation_ and of work_
  main     \* where the owner is

teamVars == <<team, worker, main>>
vars == <<barrierVars, teamVars>>

NoJob == 0  \* a null work_; a job's closure is known by its number

TypeOK ==
  /\ BarrierTypeOK
  /\ team \in [job : 0 .. MaxJobs, pending : 0 .. Count - 1,
               work : 0 .. MaxJobs, stop : BOOLEAN]
  /\ worker \in [Workers -> [pc : {"absent", "check", "asleep", "working", "exited"},
                            seen : 0 .. MaxJobs, work : 0 .. MaxJobs]]
  /\ main \in {"spawn", "idle", "notify", "working", "collect", "asleep",
               "stopping", "wake", "join", "gone"}

Init ==
  /\ BarrierInit
  /\ team = [job |-> 0, pending |-> 0, work |-> NoJob, stop |-> FALSE]
  /\ worker = [w \in Workers |-> [pc |-> "absent", seen |-> 0, work |-> NoJob]]
  /\ main = "spawn"

----------------------------------------------------------------------------
(* The workers *)

\* Seeded fault: a worker forgets which job it has done.
Settled_Forgets(w, T) ==
  IF T.stop THEN [worker[w] EXCEPT !.pc = "exited"]
  ELSE IF T.job # worker[w].seen THEN [pc |-> "working", seen |-> 0, work |-> T.work]
  ELSE [worker[w] EXCEPT !.pc = "asleep"]

\* ready_.wait and the lines after it, under mutex_.
Settled(w, T) ==
  IF T.stop THEN [worker[w] EXCEPT !.pc = "exited"]
  ELSE IF T.job # worker[w].seen THEN [pc |-> "working", seen |-> T.job, work |-> T.work]
  ELSE [worker[w] EXCEPT !.pc = "asleep"]

Check(w) ==
  /\ worker[w].pc = "check"
  /\ worker' = [worker EXCEPT ![w] = Settled(w, team)]
  /\ UNCHANGED <<team, main, barrierVars>>

\* A thread has crossed the barriers of every job up to j.
WorkDone(t, j) == at[t] = "out" /\ crossed[t] = j * Waits

\* Its part of the job it has a pointer to.
Work(w) ==
  /\ worker[w].pc = "working" /\ ~WorkDone(w, worker[w].work)
  /\ Wait(w)
  /\ UNCHANGED teamVars

\* The last one done notifies finished_; the lock is held up to the next wait.
Finish(w) ==
  /\ worker[w].pc = "working" /\ WorkDone(w, worker[w].work)
  /\ team' = [team EXCEPT !.pending = @ - 1]
  /\ worker' = [worker EXCEPT ![w] = Settled(w, team')]
  /\ main' = IF main = "asleep" /\ team'.pending = 0 THEN "collect" ELSE main
  /\ UNCHANGED barrierVars

WakesForNothing(w) ==
  /\ worker[w].pc = "asleep"
  /\ worker' = [worker EXCEPT ![w].pc = "check"]
  /\ UNCHANGED <<team, main, barrierVars>>

----------------------------------------------------------------------------
(* The owner *)

Spawn(w) ==
  /\ main = "spawn" /\ worker[w].pc = "absent"
  /\ worker' = [worker EXCEPT ![w].pc = "check"]
  /\ main' = IF \E v \in Workers \ {w} : worker[v].pc = "absent" THEN "spawn" ELSE "idle"
  /\ UNCHANGED <<team, barrierVars>>

SpawnFails ==
  /\ main = "spawn"
  /\ main' = "stopping"
  /\ UNCHANGED <<team, worker, barrierVars>>

\* Seeded fault: run() waits for one worker fewer.
Publish_OffByOne ==
  /\ main = "idle" /\ team.job < MaxJobs
  /\ team' = [team EXCEPT !.job = @ + 1, !.work = team.job + 1, !.pending = Count - 2]
  /\ main' = "notify"
  /\ UNCHANGED <<worker, barrierVars>>

Publish ==
  /\ main = "idle" /\ team.job < MaxJobs
  /\ team' = [team EXCEPT !.job = @ + 1, !.work = team.job + 1, !.pending = Count - 1]
  /\ main' = "notify"
  /\ UNCHANGED <<worker, barrierVars>>

\* Seeded fault: one worker is notified.
NotifyAll_NotifiesOne ==
  IF \E w \in Workers : worker[w].pc = "asleep"
  THEN \E w \in Workers : worker[w].pc = "asleep" /\ worker' = [worker EXCEPT ![w].pc = "check"]
  ELSE UNCHANGED worker

\* ready_.notify_all: it reaches only those already asleep.
NotifyAll ==
  worker' = [w \in Workers |-> IF worker[w].pc = "asleep"
                              THEN [worker[w] EXCEPT !.pc = "check"] ELSE worker[w]]

Notify ==
  /\ main = "notify" /\ NotifyAll
  /\ main' = "working"
  /\ UNCHANGED <<team, barrierVars>>

TakePart ==
  /\ main = "working" /\ ~WorkDone(Main, team.job)
  /\ Wait(Main)
  /\ UNCHANGED teamVars

PartDone ==
  /\ main = "working" /\ WorkDone(Main, team.job)
  /\ main' = "collect"
  /\ UNCHANGED <<team, worker, barrierVars>>

\* Seeded fault: finished_.wait without its predicate.
Collect_Unchecked ==
  /\ main = "collect"
  /\ main' = "idle"
  /\ team' = [team EXCEPT !.work = NoJob]
  /\ UNCHANGED <<worker, barrierVars>>

\* finished_.wait under mutex_, and the end of run().
Collect ==
  /\ main = "collect"
  /\ IF team.pending = 0
     THEN main' = "idle" /\ team' = [team EXCEPT !.work = NoJob]
     ELSE main' = "asleep" /\ UNCHANGED team
  /\ UNCHANGED <<worker, barrierVars>>

MainWakesForNothing ==
  /\ main = "asleep"
  /\ main' = "collect"
  /\ UNCHANGED <<team, worker, barrierVars>>

Destroy ==
  /\ main = "idle"
  /\ main' = "stopping"
  /\ UNCHANGED <<team, worker, barrierVars>>

Stop ==
  /\ main = "stopping"
  /\ team' = [team EXCEPT !.stop = TRUE]
  /\ main' = "wake"
  /\ UNCHANGED <<worker, barrierVars>>

WakeAll ==
  /\ main = "wake" /\ NotifyAll
  /\ main' = "join"
  /\ UNCHANGED <<team, barrierVars>>

Join ==
  /\ main = "join"
  /\ \A w \in Workers : worker[w].pc \in {"absent", "exited"}
  /\ main' = "gone"
  /\ UNCHANGED <<team, worker, barrierVars>>

----------------------------------------------------------------------------
WorkerStep(w) == Check(w) \/ Work(w) \/ Finish(w)

\* What the owner does of itself: it need not call run() nor end the team.
MainStep ==
  \/ \E w \in Workers : Spawn(w)
  \/ Notify \/ TakePart \/ PartDone \/ Collect
  \/ Stop \/ WakeAll \/ Join

Next ==
  \/ \E w \in Workers : WorkerStep(w) \/ WakesForNothing(w)
  \/ MainStep \/ SpawnFails \/ Publish \/ MainWakesForNothing \/ Destroy

Spec == Init /\ [][Next]_vars

\* The operating system runs every thread that can run; no condition variable
\* owes anybody a spurious wakeup.
Fairness == WF_vars(MainStep) /\ \A w \in Workers : WF_vars(WorkerStep(w))

FairSpec == Spec /\ Fairness

----------------------------------------------------------------------------
(* The properties *)

Running == main \in {"notify", "working", "collect", "asleep"}

\* work_ points to the caller's function object, gone when run() returns
\* (worker_team.cpp:67-84): no worker is in one but during its own call.
WorkOutlivesUse ==
  \A w \in Workers : worker[w].pc = "working" =>
    Running /\ worker[w].work = team.work /\ worker[w].work = team.job

\* When run() has returned every thread has done all of every job, so the output
\* the plan hands out is complete (execution.cpp:297-320).
RunIsComplete ==
  main = "idle" => \A t \in Threads : WorkDone(t, team.job)

\* No wakeup is lost between a worker's test and its sleep or between the last
\* decrement and the owner's: every run() returns.
RunReturns == main = "notify" ~> main = "idle"

\* Every started destructor, and a constructor that could not start a thread,
\* ends with all the threads that did start joined.
TeamStops == main = "stopping" ~> main = "gone"

\* The caller of a team is never left waiting for its workers.
CallersReturn == RunReturns /\ TeamStops
=============================================================================
