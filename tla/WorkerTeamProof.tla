-------------------------- MODULE WorkerTeamProof ---------------------------
(***************************************************************************)
(* For any number of threads, barriers and jobs, and any width of the      *)
(* barrier's wrapping generation: no thread leaves the barrier before all  *)
(* have arrived, the team uses it as its specification allows, run()       *)
(* returns when all of the job is done, and no worker is in a job whose    *)
(* closure is gone.                                                        *)
(*                                                                         *)
(* Of the barrier: left_ counts who has not arrived, except between the    *)
(* last arrival and the opening; a thread that still spins on a generation *)
(* already closed has crossed once less than the barrier opened and is on  *)
(* its way out, so the next opening waits for it.                          *)
(***************************************************************************)
EXTENDS WorkerTeam, FiniteSetTheorems, TLAPS

USE BarrierAssumption

----------------------------------------------------------------------------
(* The barrier: its invariant *)

\* The threads that have arrived in the present generation and do not leave.
Arrived == {t \in Threads : \/ at[t] \in {"reset", "open"}
                            \/ at[t] = "spin" /\ seen[t] = generation}

\* One thread resets and opens; left_ is its to write meanwhile.
LastArrival ==
  \A t \in Threads :
    /\ at[t] = "reset" => left = 0 /\ Arrived = Threads
    /\ at[t] = "open" => left = Count /\ Arrived = Threads
    /\ at[t] \in {"reset", "open"} =>
         \A u \in Threads : at[u] \in {"reset", "open"} => u = t

\* Nobody but the last arrival finds left_ at zero.
LeftCounts ==
  (\A t \in Threads : at[t] \notin {"reset", "open"}) =>
    left = Count - Cardinality(Arrived) /\ Arrived # Threads

\* A waiter of a closed generation lags by one, everybody else by none.
Lag ==
  \A t \in Threads :
    /\ at[t] \in {"arrive", "reset", "open"} => seen[t] = generation
    /\ crossed[t] = IF at[t] = "spin" /\ seen[t] # generation
                    THEN opened - 1 ELSE opened

BarrierInv == BarrierTypeOK /\ LastArrival /\ LeftCounts /\ Lag

----------------------------------------------------------------------------
(* The barrier: lemmas *)

\* The next generation differs from this one: the counter has two values.
LEMMA AfterProps ==
  ASSUME NEW g \in 0 .. Width - 1
  PROVE  After(g) \in 0 .. Width - 1 /\ After(g) # g
BY DEF After

\* A barrier has at least one thread.
LEMMA CountProps == Count \in Nat \ {0}
BY FS_CardinalityType, FS_EmptySet DEF Count

\* Counting arrivals makes sense: all have arrived when the count says so.
LEMMA SubsetCount ==
  ASSUME NEW S, S \subseteq Threads
  PROVE  /\ IsFiniteSet(S)
         /\ Cardinality(S) \in 0 .. Count
         /\ Cardinality(S) = Count <=> S = Threads
<1>1. S \in SUBSET Threads
  OBVIOUS
<1>2. /\ IsFiniteSet(S) /\ Cardinality(S) <= Cardinality(Threads)
      /\ Cardinality(Threads) = Cardinality(S) => Threads = S
  BY <1>1, FS_Subset
<1>3. Cardinality(S) \in Nat
  BY <1>2, FS_CardinalityType
<1>4. QED
  BY <1>2, <1>3, CountProps DEF Count

\* One more arrival counts one more.
LEMMA OneMore ==
  ASSUME NEW S, S \subseteq Threads, NEW t \in Threads, t \notin S
  PROVE  Cardinality(S \cup {t}) = Cardinality(S) + 1
<1>1. IsFiniteSet(S)
  BY SubsetCount
<1>2. QED
  BY <1>1, FS_AddElement

----------------------------------------------------------------------------
(* Every operation preserves the invariant *)

\* A barrier just made: nobody is in it.
LEMMA InitInv == BarrierInit => BarrierInv
<1> SUFFICES ASSUME BarrierInit PROVE BarrierInv
  OBVIOUS
<1>1. BarrierTypeOK /\ LastArrival /\ Lag
  BY CountProps DEF BarrierInit, BarrierTypeOK, LastArrival, Lag
<1>2. Arrived = {}
  BY DEF BarrierInit, Arrived
<1>3. LeftCounts
  BY <1>2, CountProps, FS_EmptySet DEF BarrierInit, LeftCounts
<1>4. QED
  BY <1>1, <1>3 DEF BarrierInv

\* Reading generation_ arrives nowhere yet; the thread has crossed all openings.
LEMMA EnterInv ==
  ASSUME BarrierInv, NEW t \in Threads, Enter(t)
  PROVE  BarrierInv'
<1> USE DEF BarrierInv, Enter
<1>1. BarrierTypeOK'
  BY DEF BarrierTypeOK
<1>2. Arrived' = Arrived
  BY DEF Arrived, BarrierTypeOK
<1>3. LastArrival' /\ LeftCounts'
  BY <1>2 DEF LastArrival, LeftCounts, BarrierTypeOK
<1>4. Lag'
  BY DEF Lag, BarrierTypeOK
<1>5. QED
  BY <1>1, <1>3, <1>4

\* fetch_sub: the thread that takes the last count is the last to arrive.
LEMMA ArriveInv ==
  ASSUME BarrierInv, NEW t \in Threads, Arrive(t)
  PROVE  BarrierInv'
<1> USE DEF BarrierInv, Arrive
<1>1. t \notin Arrived /\ Arrived \subseteq Threads
  BY DEF Arrived
<1>2. \A u \in Threads : at[u] \notin {"reset", "open"}
  BY <1>1 DEF LastArrival
<1>3. left = Count - Cardinality(Arrived) /\ left \in 1 .. Count
  <2>1. Cardinality(Arrived) \in 0 .. Count /\ Cardinality(Arrived) # Count
    BY <1>1, CountProps, SubsetCount
  <2>2. left = Count - Cardinality(Arrived)
    BY <1>2 DEF LeftCounts
  <2>3. QED
    BY <2>1, <2>2, CountProps, SubsetCount
<1>4. BarrierTypeOK'
  <2>1. left' \in 0 .. Count
    BY <1>3, CountProps
  <2>2. at' \in [Threads -> {"out", "arrive", "reset", "open", "spin"}]
    BY DEF BarrierTypeOK
  <2>3. QED
    BY <2>1, <2>2 DEF BarrierTypeOK
<1>5. Arrived' = Arrived \cup {t}
  BY <1>1 DEF Arrived, Lag, BarrierTypeOK
<1>6. Cardinality(Arrived') = Cardinality(Arrived) + 1
  BY <1>1, <1>5, OneMore
<1>7. left' = Count - Cardinality(Arrived') /\ Arrived' \subseteq Threads
  BY <1>1, <1>3, <1>5, <1>6, CountProps, SubsetCount
<1>8. left = 1 <=> Arrived' = Threads
  BY <1>3, <1>7, CountProps, SubsetCount
<1>9. /\ at'[t] = IF left = 1 THEN "reset" ELSE "spin"
      /\ \A u \in Threads \ {t} : at'[u] = at[u]
  BY DEF BarrierTypeOK
<1>10. LastArrival'
  BY <1>2, <1>3, <1>8, <1>9 DEF LastArrival
<1>11. LeftCounts'
  BY <1>7, <1>8, <1>9 DEF LeftCounts
<1>12. Lag'
  BY <1>9 DEF Lag
<1>13. QED
  BY <1>4, <1>10, <1>11, <1>12

\* left_.store(count_): the others wait for the generation, not for left_.
LEMMA ResetInv ==
  ASSUME BarrierInv, NEW t \in Threads, Reset(t)
  PROVE  BarrierInv'
<1> USE DEF BarrierInv, Reset
<1>1. BarrierTypeOK'
  BY CountProps DEF BarrierTypeOK
<1>2. Arrived' = Arrived
  BY DEF Arrived, BarrierTypeOK
<1>3. /\ at'[t] = "open" /\ at[t] = "reset"
      /\ \A u \in Threads \ {t} : at'[u] = at[u]
  BY DEF BarrierTypeOK
<1>4. LastArrival'
  BY <1>2, <1>3 DEF LastArrival
<1>5. LeftCounts'
  BY <1>3 DEF LeftCounts
<1>6. Lag'
  BY <1>3 DEF Lag
<1>7. QED
  BY <1>1, <1>4, <1>5, <1>6

\* fetch_add of generation_ turns every waiter into one that may leave.
LEMMA OpenInv ==
  ASSUME BarrierInv, NEW t \in Threads, Open(t)
  PROVE  BarrierInv'
<1> USE DEF BarrierInv, Open, Crosses
<1>1. BarrierTypeOK'
  BY AfterProps DEF BarrierTypeOK
<1>2. /\ at'[t] = "out" /\ crossed'[t] = crossed[t] + 1
      /\ \A u \in Threads \ {t} : at'[u] = at[u] /\ crossed'[u] = crossed[u]
      /\ generation' # generation /\ seen' = seen /\ opened' = opened + 1 /\ left' = left
  BY AfterProps DEF BarrierTypeOK
<1>3. \A u \in Threads \ {t} : at[u] = "spin" /\ seen[u] = generation
  BY DEF LastArrival, Arrived
<1>4. Arrived' = {}
  BY <1>2, <1>3 DEF Arrived
<1>5. LastArrival'
  BY <1>2, <1>3 DEF LastArrival
<1>6. LeftCounts'
  BY <1>2, <1>4, CountProps, FS_EmptySet DEF LeftCounts, LastArrival
<1>7. Lag'
  BY <1>2, <1>3 DEF Lag, BarrierTypeOK
<1>8. QED
  BY <1>1, <1>5, <1>6, <1>7

\* A waiter that sees the new generation catches up with the openings.
LEMMA LeaveInv ==
  ASSUME BarrierInv, NEW t \in Threads, Leave(t)
  PROVE  BarrierInv'
<1> USE DEF BarrierInv, Leave, Crosses
<1>1. BarrierTypeOK'
  BY DEF BarrierTypeOK
<1>2. /\ at'[t] = "out" /\ crossed'[t] = crossed[t] + 1
      /\ \A u \in Threads \ {t} : at'[u] = at[u] /\ crossed'[u] = crossed[u]
  BY DEF BarrierTypeOK
<1>3. Arrived' = Arrived
  BY <1>2 DEF Arrived
<1>4. LastArrival' /\ LeftCounts'
  BY <1>2, <1>3 DEF LastArrival, LeftCounts
<1>5. Lag'
  BY <1>2 DEF Lag, BarrierTypeOK
<1>6. QED
  BY <1>1, <1>4, <1>5

\* Every step of every thread preserves the invariant.
LEMMA NextInv == BarrierInv /\ [BarrierNext]_barrierVars => BarrierInv'
<1> SUFFICES ASSUME BarrierInv, [BarrierNext]_barrierVars PROVE BarrierInv'
  OBVIOUS
<1>1. CASE BarrierNext
  <2>1. PICK t \in Threads : Wait(t)
    BY <1>1 DEF BarrierNext
  <2>2. QED
    BY <2>1, EnterInv, ArriveInv, ResetInv, OpenInv, LeaveInv DEF Wait
<1>2. CASE UNCHANGED barrierVars
  <2>1. Arrived' = Arrived
    BY <1>2 DEF Arrived, barrierVars
  <2>2. QED
    BY <1>2, <2>1 DEF BarrierInv, BarrierTypeOK, LastArrival, LeftCounts, Lag, barrierVars
<1>3. QED
  BY <1>1, <1>2

\* When the barrier opens everybody is in it, so nobody lags by two.
LEMMA InvImpliesProperty == BarrierInv => NobodyRunsAhead
<1> SUFFICES ASSUME BarrierInv, NEW t \in Threads, NEW u \in Threads
             PROVE  crossed[t] <= crossed[u] + (IF HasArrived(u) THEN 1 ELSE 0)
  BY DEF NobodyRunsAhead
<1>1. crossed[t] <= opened /\ crossed[t] \in Nat /\ crossed[u] \in Nat /\ opened \in Nat
  BY DEF BarrierInv, Lag, BarrierTypeOK
<1>2. CASE at[u] = "spin" /\ seen[u] # generation
  BY <1>1, <1>2 DEF BarrierInv, Lag, HasArrived
<1>3. CASE ~(at[u] = "spin" /\ seen[u] # generation)
  BY <1>1, <1>3 DEF BarrierInv, Lag
<1>4. QED
  BY <1>2, <1>3

----------------------------------------------------------------------------
(* The barrier: theorems *)

\* left_ stays between 0 and count_ and the generation in its width, although
\* left_ is reset outside any lock (worker_team.cpp:13-19).
THEOREM BarrierTypes == BarrierSpec => []BarrierTypeOK
<1>1. BarrierInv => BarrierTypeOK
  BY DEF BarrierInv
<1>2. QED
  BY <1>1, InitInv, NextInv, PTL DEF BarrierSpec

\* Nobody leaves before everybody has arrived as many times
\* (worker_team.cpp:13-31).
THEOREM BarrierHolds == BarrierSpec => []NobodyRunsAhead
BY InitInv, NextInv, InvImpliesProperty, PTL DEF BarrierSpec

----------------------------------------------------------------------------
(* The team: its invariant *)

USE TeamAssumption

Owing == {w \in Workers : worker[w].seen # team.job \/ worker[w].pc = "working"}

TeamType ==
  /\ team \in [job : 0 .. MaxJobs, pending : 0 .. Count - 1,
               work : 0 .. MaxJobs, stop : BOOLEAN]
  /\ worker \in [Workers -> [pc : {"absent", "check", "asleep", "working", "exited"},
                            seen : 0 .. MaxJobs, work : 0 .. MaxJobs]]
  /\ main \in {"spawn", "idle", "notify", "working", "collect", "asleep",
               "stopping", "wake", "join", "gone"}

\* pending_ counts the workers that owe a part; outside run() none does.
PendingCounts ==
  /\ team.pending = Cardinality(Owing)
  /\ ~Running => Owing = {}

\* A worker works on the published job and has done all it has seen before.
WorkersFollow ==
  \A w \in Workers :
    IF worker[w].pc = "working"
    THEN worker[w].seen = team.job /\ worker[w].work = team.job
    ELSE WorkDone(w, worker[w].seen)

\* The closure is there throughout run().
WorkIsSet == Running => team.work = team.job

\* The owner waits for the others only when its own part is done.
OwnerFollows == main \notin {"notify", "working"} => WorkDone(Main, team.job)

StateInv == TeamType /\ PendingCounts /\ WorkersFollow /\ WorkIsSet /\ OwnerFollows

TeamInv == BarrierInv /\ StateInv

----------------------------------------------------------------------------
(* The team and its barrier *)

\* Kernels cross the barrier by its own steps and the rest does not touch it.
LEMMA StepUsesBarrier == [Next]_vars => [BarrierNext]_barrierVars
<1> SUFFICES ASSUME [Next]_vars PROVE [BarrierNext]_barrierVars
  OBVIOUS
<1>1. \A w \in Workers : w \in Threads
  BY DEF Workers
<1>2. CASE \E w \in Workers : WorkerStep(w) \/ WakesForNothing(w)
  BY <1>1, <1>2 DEF WorkerStep, WakesForNothing, Check, Work, Finish, BarrierNext
<1>3. CASE MainStep
  BY <1>3 DEF MainStep, Spawn, Notify, TakePart, PartDone, Collect, Stop, WakeAll,
              Join, BarrierNext
<1>4. CASE SpawnFails \/ Publish \/ MainWakesForNothing \/ Destroy
  BY <1>4 DEF SpawnFails, Publish, MainWakesForNothing, Destroy
<1>5. CASE UNCHANGED vars
  BY <1>5 DEF vars
<1>6. QED
  BY <1>2, <1>3, <1>4, <1>5 DEF Next

\* The team's use of the barrier is a behaviour of the barrier.
THEOREM TeamUsesBarrier == Spec => BarrierSpec
<1>1. Init => BarrierInit
  BY DEF Init
<1>2. QED
  BY <1>1, StepUsesBarrier, PTL DEF Spec, BarrierSpec

\* Hence no thread of the team starts a kernel while another is still in the one
\* before (worker_team.cpp:13-31, execution.cpp:298-301).
THEOREM KernelsAreSeparated == Spec => []NobodyRunsAhead
BY TeamUsesBarrier, BarrierHolds, PTL

----------------------------------------------------------------------------
(* Lemmas *)

\* The owner is not a worker; the others are as many as pending_ starts with.
LEMMA WorkersProps ==
  /\ Main \in Threads /\ Main \notin Workers /\ Workers \subseteq Threads
  /\ IsFiniteSet(Workers) /\ Cardinality(Workers) = Count - 1
<1>1. Main \in Threads /\ Main \notin Workers /\ Workers \subseteq Threads
  BY DEF Workers
<1>2. IsFiniteSet(Workers)
  BY <1>1, SubsetCount
<1>3. Threads = Workers \cup {Main}
  BY DEF Workers
<1>4. Cardinality(Threads) = Cardinality(Workers) + 1
  BY <1>1, <1>2, <1>3, FS_AddElement
<1>5. QED
  BY <1>1, <1>2, <1>4, FS_CardinalityType DEF Count

\* Counting the workers that owe a part makes sense.
LEMMA OwingCount ==
  ASSUME NEW S, S \subseteq Workers
  PROVE  /\ IsFiniteSet(S) /\ Cardinality(S) \in 0 .. Count - 1
         /\ Cardinality(S) = 0 <=> S = {}
<1>1. S \in SUBSET Workers
  OBVIOUS
<1>2. IsFiniteSet(S) /\ Cardinality(S) <= Cardinality(Workers)
  BY <1>1, WorkersProps, FS_Subset
<1>3. Cardinality(S) \in Nat /\ (Cardinality(S) = 0 <=> S = {})
  BY <1>2, FS_CardinalityType, FS_EmptySet
<1>4. QED
  BY <1>2, <1>3, WorkersProps, CountProps

\* A thread in the barrier moves nobody else.
LEMMA WaitMovesOne ==
  ASSUME BarrierTypeOK, NEW t \in Threads, Wait(t), NEW u \in Threads \ {t}
  PROVE  at'[u] = at[u] /\ crossed'[u] = crossed[u]
BY DEF BarrierTypeOK, Wait, Enter, Arrive, Reset, Open, Leave, Crosses

----------------------------------------------------------------------------
(* Every step preserves the invariant *)

\* No thread has started and nothing was published.
LEMMA TeamInitInv == Init => TeamInv
<1> SUFFICES ASSUME Init PROVE TeamInv
  OBVIOUS
<1>1. BarrierInv
  BY InitInv DEF Init
<1>2. TeamType
  <2>1. 0 \in 0 .. MaxJobs /\ 0 \in 0 .. Count - 1
    BY CountProps
  <2>2. QED
    BY <2>1 DEF TeamType, Init, NoJob
<1>3. Owing = {}
  BY DEF Owing, Init
<1>4. PendingCounts
  BY <1>3, FS_EmptySet DEF PendingCounts, Init
<1>5. WorkersFollow /\ OwnerFollows
  BY WorkersProps DEF WorkersFollow, OwnerFollows, WorkDone, Init, BarrierInit
<1>6. WorkIsSet
  BY DEF WorkIsSet, Running, Init
<1>7. QED
  BY <1>1, <1>2, <1>4, <1>5, <1>6 DEF TeamInv, StateInv

\* A step that moves no thread in the barrier keeps what the threads have done.
LEMMA StillDone ==
  ASSUME UNCHANGED barrierVars, NEW t, NEW j
  PROVE  WorkDone(t, j)' <=> WorkDone(t, j)
BY DEF WorkDone, barrierVars

\* A worker that looks at the job: it exits, sleeps, or takes the job it has not
\* seen, and owes as much as before.
LEMMA SettledProps ==
  ASSUME TeamType, NEW w \in Workers,
         NEW T \in [job : 0 .. MaxJobs, pending : 0 .. Count - 1,
                    work : 0 .. MaxJobs, stop : BOOLEAN]
  PROVE  LET S == Settled(w, T) IN
         /\ S \in [pc : {"absent", "check", "asleep", "working", "exited"},
                   seen : 0 .. MaxJobs, work : 0 .. MaxJobs]
         /\ \/ S.pc \in {"exited", "asleep"} /\ S.seen = worker[w].seen
            \/ S.pc = "working" /\ S.seen = T.job /\ S.work = T.work /\ worker[w].seen # T.job
         /\ S.pc # "exited" => ~T.stop
         /\ S.pc = "asleep" => worker[w].seen = T.job
<1>1. CASE T.stop
  BY <1>1 DEF Settled, TeamType
<1>2. CASE ~T.stop /\ T.job # worker[w].seen
  BY <1>2 DEF Settled, TeamType
<1>3. CASE ~T.stop /\ T.job = worker[w].seen
  BY <1>3 DEF Settled, TeamType
<1>4. QED
  BY <1>1, <1>2, <1>3

\* A worker's test takes up exactly what it owes.
LEMMA CheckInv ==
  ASSUME TeamInv, NEW w \in Workers, Check(w)
  PROVE  StateInv'
<1> USE DEF TeamInv, StateInv
<1> DEFINE S == Settled(w, team)
<1>1. /\ worker[w].pc = "check" /\ worker' = [worker EXCEPT ![w] = S]
      /\ UNCHANGED <<team, main, barrierVars>>
  BY DEF Check
<1>2. team \in [job : 0 .. MaxJobs, pending : 0 .. Count - 1,
                work : 0 .. MaxJobs, stop : BOOLEAN]
  BY DEF TeamType
<1>3. /\ S \in [pc : {"absent", "check", "asleep", "working", "exited"},
                seen : 0 .. MaxJobs, work : 0 .. MaxJobs]
      /\ \/ S.pc \in {"exited", "asleep"} /\ S.seen = worker[w].seen
         \/ S.pc = "working" /\ S.seen = team.job /\ S.work = team.work /\ worker[w].seen # team.job
  BY <1>2, SettledProps
<1> HIDE DEF S
<1>4. worker'[w] = S /\ \A v \in Workers \ {w} : worker'[v] = worker[v]
  BY <1>1 DEF TeamType
<1>5. TeamType'
  BY <1>1, <1>3 DEF TeamType
<1>6. Owing' = Owing
  BY <1>1, <1>3, <1>4 DEF Owing
<1>7. PendingCounts'
  BY <1>1, <1>6 DEF PendingCounts, Running
<1>8. worker[w].seen # team.job => Running /\ team.work = team.job
  BY DEF PendingCounts, Owing, WorkIsSet
<1>9. WorkersFollow'
  BY <1>1, <1>3, <1>4, <1>8, StillDone DEF WorkersFollow
<1>10. WorkIsSet' /\ OwnerFollows'
  BY <1>1, StillDone DEF WorkIsSet, Running, OwnerFollows
<1>11. QED
  BY <1>5, <1>7, <1>9, <1>10

\* A worker in the job's barriers owes its part until it finishes.
LEMMA WorkInv ==
  ASSUME TeamInv, NEW w \in Workers, Work(w)
  PROVE  StateInv'
<1> USE DEF TeamInv, StateInv
<1>1. worker[w].pc = "working" /\ Wait(w) /\ UNCHANGED teamVars
  BY DEF Work
<1>2. \A u \in Threads \ {w} : at'[u] = at[u] /\ crossed'[u] = crossed[u]
  BY <1>1, WorkersProps, WaitMovesOne DEF BarrierInv
<1>3. TeamType' /\ WorkIsSet'
  BY <1>1 DEF TeamType, WorkIsSet, Running, teamVars
<1>4. Owing' = Owing
  BY <1>1 DEF Owing, teamVars
<1>5. PendingCounts'
  BY <1>1, <1>4 DEF PendingCounts, Running, teamVars
<1>6. WorkersFollow'
  BY <1>1, <1>2, WorkersProps DEF WorkersFollow, WorkDone, teamVars
<1>7. OwnerFollows'
  BY <1>1, <1>2, WorkersProps DEF OwnerFollows, WorkDone, teamVars
<1>8. QED
  BY <1>3, <1>5, <1>6, <1>7

\* A worker that finishes owes nothing, and pending_ counts one less.
LEMMA FinishInv ==
  ASSUME TeamInv, NEW w \in Workers, Finish(w)
  PROVE  StateInv'
<1> USE DEF TeamInv, StateInv
<1> DEFINE T == [team EXCEPT !.pending = @ - 1]
           S == Settled(w, T)
<1>1. /\ worker[w].pc = "working" /\ WorkDone(w, worker[w].work)
      /\ team' = T /\ worker' = [worker EXCEPT ![w] = S] /\ UNCHANGED barrierVars
      /\ main' = main \/ (main = "asleep" /\ main' = "collect")
  BY DEF Finish
<1>2. worker[w].seen = team.job /\ worker[w].work = team.job /\ w \in Owing
  BY <1>1 DEF WorkersFollow, Owing
<1>3. Owing \subseteq Workers /\ Running /\ team.pending = Cardinality(Owing)
  BY <1>2 DEF Owing, PendingCounts
<1>4. team.pending \in 1 .. Count - 1
  BY <1>2, <1>3, OwingCount, CountProps
<1>5. /\ T \in [job : 0 .. MaxJobs, pending : 0 .. Count - 1,
                work : 0 .. MaxJobs, stop : BOOLEAN]
      /\ T.job = team.job /\ T.work = team.work /\ T.pending = team.pending - 1
  BY <1>4, CountProps DEF TeamType
<1> HIDE DEF T
<1>6. /\ S \in [pc : {"absent", "check", "asleep", "working", "exited"},
                seen : 0 .. MaxJobs, work : 0 .. MaxJobs]
      /\ S.pc \in {"exited", "asleep"} /\ S.seen = team.job
  BY <1>2, <1>5, SettledProps
<1> HIDE DEF S
<1>7. worker'[w] = S /\ \A v \in Workers \ {w} : worker'[v] = worker[v]
  BY <1>1 DEF TeamType
<1>8. TeamType'
  BY <1>1, <1>5, <1>6 DEF TeamType
<1>9. Owing' = Owing \ {w}
  BY <1>1, <1>5, <1>6, <1>7 DEF Owing
<1>10. Cardinality(Owing') = Cardinality(Owing) - 1
  BY <1>2, <1>3, <1>9, OwingCount, FS_RemoveElement
<1>11. PendingCounts' /\ WorkIsSet'
  BY <1>1, <1>3, <1>5, <1>10 DEF PendingCounts, WorkIsSet, Running
<1>12. WorkersFollow'
  BY <1>1, <1>2, <1>5, <1>6, <1>7, StillDone DEF WorkersFollow
<1>13. OwnerFollows'
  BY <1>1, <1>5, StillDone DEF OwnerFollows
<1>14. QED
  BY <1>8, <1>11, <1>12, <1>13

\* Waking and starting workers, or the owner's own moves, change neither what
\* is owed nor what was done.
LEMMA QuietInv ==
  ASSUME TeamInv, UNCHANGED barrierVars, TeamType', OwnerFollows', Running' <=> Running,
         team'.job = team.job, team'.pending = team.pending, team'.work = team.work,
         \A w \in Workers : /\ worker'[w].seen = worker[w].seen
                             /\ worker'[w].work = worker[w].work
                             /\ (worker'[w].pc = "working" <=> worker[w].pc = "working")
  PROVE  StateInv'
<1> USE DEF TeamInv, StateInv
<1>1. Owing' = Owing
  BY DEF Owing
<1>2. PendingCounts'
  BY <1>1 DEF PendingCounts, Running
<1>3. WorkIsSet'
  BY DEF WorkIsSet, Running
<1>4. WorkersFollow'
  <2> SUFFICES ASSUME NEW w \in Workers
               PROVE  IF worker'[w].pc = "working"
                      THEN worker'[w].seen = team'.job /\ worker'[w].work = team'.job
                      ELSE WorkDone(w, worker[w].seen)'
    BY DEF WorkersFollow
  <2>1. CASE worker[w].pc = "working"
    BY <2>1 DEF WorkersFollow
  <2>2. CASE worker[w].pc # "working"
    BY <2>2 DEF WorkersFollow, WorkDone, barrierVars
  <2>3. QED
    BY <2>1, <2>2
<1>5. QED
  BY <1>2, <1>3, <1>4

\* notify_all reaches only sleepers.
LEMMA NotifyAllProps ==
  ASSUME TeamType, NotifyAll
  PROVE  /\ worker' \in [Workers -> [pc : {"absent", "check", "asleep", "working", "exited"},
                                     seen : 0 .. MaxJobs, work : 0 .. MaxJobs]]
         /\ \A w \in Workers : /\ worker'[w].seen = worker[w].seen
                                /\ worker'[w].work = worker[w].work
                                /\ (worker'[w].pc = "working" <=> worker[w].pc = "working")
BY DEF TeamType, NotifyAll

\* A thread that starts or wakes owes what it owed.
LEMMA WakesInv ==
  ASSUME TeamInv, NEW w \in Workers, WakesForNothing(w) \/ Spawn(w)
  PROVE  StateInv'
<1>1. /\ worker[w].pc \in {"absent", "asleep"}
      /\ worker' = [worker EXCEPT ![w].pc = "check"]
      /\ UNCHANGED <<team, barrierVars>>
      /\ main' = main \/ (main = "spawn" /\ main' \in {"spawn", "idle"})
  BY DEF WakesForNothing, Spawn
<1>2. TeamType'
  BY <1>1 DEF TeamInv, StateInv, TeamType
<1>3. OwnerFollows' /\ (Running' <=> Running)
  BY <1>1, StillDone DEF TeamInv, StateInv, OwnerFollows, Running
<1>4. \A v \in Workers : /\ worker'[v].seen = worker[v].seen
                         /\ worker'[v].work = worker[v].work
                         /\ (worker'[v].pc = "working" <=> worker[v].pc = "working")
  BY <1>1 DEF TeamInv, StateInv, TeamType
<1>5. QED
  BY <1>1, <1>2, <1>3, <1>4, QuietInv

\* The notifications of run() and stop() owe nothing and do nothing.
LEMMA NotifyInv ==
  ASSUME TeamInv, Notify \/ WakeAll
  PROVE  StateInv'
<1>1. /\ NotifyAll /\ UNCHANGED <<team, barrierVars>>
      /\ \/ main = "notify" /\ main' = "working"
         \/ main = "wake" /\ main' = "join"
  BY DEF Notify, WakeAll
<1>2. TeamType'
  BY <1>1, NotifyAllProps DEF TeamInv, StateInv, TeamType
<1>3. OwnerFollows' /\ (Running' <=> Running)
  BY <1>1, StillDone DEF TeamInv, StateInv, OwnerFollows, Running
<1>4. QED
  BY <1>1, <1>2, <1>3, NotifyAllProps, QuietInv DEF TeamInv, StateInv

\* The owner's moves between its critical sections, and stop_, keep what is owed.
LEMMA OwnerMovesInv ==
  ASSUME TeamInv,
         SpawnFails \/ Destroy \/ Stop \/ Join \/ PartDone \/ MainWakesForNothing
  PROVE  StateInv'
<1>1. /\ UNCHANGED <<worker, barrierVars>>
      /\ team' = team \/ team' = [team EXCEPT !.stop = TRUE]
      /\ \/ main \in {"spawn", "idle", "stopping", "join"} /\ main' \in {"stopping", "wake", "gone"}
         \/ main = "working" /\ main' = "collect" /\ WorkDone(Main, team.job)
         \/ main = "asleep" /\ main' = "collect"
  BY DEF SpawnFails, Destroy, Stop, Join, PartDone, MainWakesForNothing
<1>2. TeamType' /\ team'.job = team.job /\ team'.pending = team.pending /\ team'.work = team.work
  BY <1>1 DEF TeamInv, StateInv, TeamType
<1>3. OwnerFollows' /\ (Running' <=> Running)
  BY <1>1, <1>2, StillDone DEF TeamInv, StateInv, OwnerFollows, Running
<1>4. QED
  BY <1>1, <1>2, <1>3, QuietInv

\* The owner in the job's barriers.
LEMMA TakePartInv ==
  ASSUME TeamInv, TakePart
  PROVE  StateInv'
<1> USE DEF TeamInv, StateInv
<1>1. main = "working" /\ Wait(Main) /\ UNCHANGED teamVars
  BY DEF TakePart
<1>2. \A u \in Workers : at'[u] = at[u] /\ crossed'[u] = crossed[u]
  BY <1>1, WorkersProps, WaitMovesOne DEF BarrierInv
<1>3. TeamType' /\ WorkIsSet' /\ OwnerFollows'
  BY <1>1 DEF TeamType, WorkIsSet, OwnerFollows, Running, teamVars
<1>4. Owing' = Owing
  BY <1>1 DEF Owing, teamVars
<1>5. PendingCounts'
  BY <1>1, <1>4 DEF PendingCounts, Running, teamVars
<1>6. WorkersFollow'
  BY <1>1, <1>2 DEF WorkersFollow, WorkDone, teamVars
<1>7. QED
  BY <1>3, <1>5, <1>6

\* A new job is owed by every worker: all have done and seen the last one.
LEMMA PublishInv ==
  ASSUME TeamInv, Publish
  PROVE  StateInv'
<1> USE DEF TeamInv, StateInv
<1>1. /\ main = "idle" /\ main' = "notify" /\ UNCHANGED <<worker, barrierVars>>
      /\ team.job < MaxJobs
      /\ team' = [team EXCEPT !.job = @ + 1, !.work = team.job + 1, !.pending = Count - 1]
  BY DEF Publish
<1>2. /\ team.job \in 0 .. MaxJobs /\ team'.job = team.job + 1
      /\ team'.work = team'.job /\ team'.pending = Count - 1
  BY <1>1 DEF TeamType
<1>3. team.job + 1 \in 0 .. MaxJobs /\ Count - 1 \in 0 .. Count - 1
  BY <1>1, <1>2, CountProps
<1>4. TeamType' /\ WorkIsSet' /\ OwnerFollows'
  BY <1>1, <1>2, <1>3 DEF TeamType, WorkIsSet, OwnerFollows
<1>5. Owing = {}
  BY <1>1 DEF PendingCounts, Running
<1>6. \A w \in Workers : worker[w].seen = team.job /\ worker[w].pc # "working"
  BY <1>5 DEF Owing
<1>7. Owing' = Workers
  BY <1>1, <1>2, <1>6 DEF Owing
<1>8. PendingCounts'
  BY <1>1, <1>2, <1>7, WorkersProps DEF PendingCounts, Running
<1>9. WorkersFollow'
  BY <1>1, <1>6, StillDone DEF WorkersFollow
<1>10. QED
  BY <1>4, <1>8, <1>9

\* run() returns only when pending_ is zero, that is when nobody owes anything.
LEMMA CollectInv ==
  ASSUME TeamInv, Collect
  PROVE  StateInv'
<1> USE DEF TeamInv, StateInv
<1>1. CASE team.pending = 0
  <2>1. /\ main = "collect" /\ main' = "idle" /\ UNCHANGED <<worker, barrierVars>>
        /\ team' = [team EXCEPT !.work = NoJob]
    BY <1>1 DEF Collect
  <2>2. /\ TeamType' /\ team'.job = team.job /\ team'.pending = team.pending
    BY <2>1 DEF TeamType, NoJob
  <2>3. Owing' = Owing /\ Owing = {}
    BY <1>1, <2>1, <2>2, OwingCount DEF Owing, PendingCounts
  <2>4. PendingCounts'
    BY <2>2, <2>3 DEF PendingCounts
  <2>5. WorkersFollow' /\ OwnerFollows'
    BY <2>1, <2>2, StillDone DEF WorkersFollow, OwnerFollows
  <2>6. WorkIsSet'
    BY <2>1 DEF WorkIsSet, Running
  <2>7. QED
    BY <2>2, <2>4, <2>5, <2>6
<1>2. CASE team.pending # 0
  <2>1. main = "collect" /\ main' = "asleep" /\ UNCHANGED <<team, worker, barrierVars>>
    BY <1>2 DEF Collect
  <2>2. TeamType' /\ OwnerFollows' /\ (Running' <=> Running)
    BY <2>1, StillDone DEF TeamType, OwnerFollows, Running
  <2>3. QED
    BY <2>1, <2>2, QuietInv
<1>3. QED
  BY <1>1, <1>2

\* Every step of the team preserves the invariant.
LEMMA TeamNextInv == TeamInv /\ [Next]_vars => TeamInv'
<1> SUFFICES ASSUME TeamInv, [Next]_vars PROVE TeamInv'
  OBVIOUS
<1>1. BarrierInv'
  BY StepUsesBarrier, NextInv DEF TeamInv
<1>2. StateInv'
  <2>1. CASE \E w \in Workers : WorkerStep(w) \/ WakesForNothing(w)
    BY <2>1, CheckInv, WorkInv, FinishInv, WakesInv DEF WorkerStep
  <2>2. CASE MainStep
    BY <2>2, WakesInv, NotifyInv, OwnerMovesInv, TakePartInv, CollectInv DEF MainStep
  <2>3. CASE SpawnFails \/ Publish \/ MainWakesForNothing \/ Destroy
    BY <2>3, OwnerMovesInv, PublishInv
  <2>4. CASE UNCHANGED vars
    <3>1. UNCHANGED <<team, worker, main, barrierVars>>
      BY <2>4 DEF vars, teamVars
    <3>2. TeamType' /\ OwnerFollows' /\ (Running' <=> Running)
      BY <3>1, StillDone DEF TeamInv, StateInv, TeamType, OwnerFollows, Running
    <3>3. QED
      BY <3>1, <3>2, QuietInv
  <2>5. QED
    BY <2>1, <2>2, <2>3, <2>4 DEF Next
<1>3. QED
  BY <1>1, <1>2 DEF TeamInv

\* The two properties of the closure and of the result.
LEMMA TeamInvImplies == TeamInv => TypeOK /\ WorkOutlivesUse /\ RunIsComplete
<1> SUFFICES ASSUME TeamInv PROVE TypeOK /\ WorkOutlivesUse /\ RunIsComplete
  OBVIOUS
<1> USE DEF TeamInv, StateInv
<1>1. TypeOK
  BY DEF TypeOK, TeamType, BarrierInv
<1>2. WorkOutlivesUse
  BY DEF WorkOutlivesUse, WorkersFollow, WorkIsSet, PendingCounts, Owing
<1>3. ASSUME main = "idle", NEW t \in Threads PROVE WorkDone(t, team.job)
  <2>1. CASE t = Main
    BY <1>3, <2>1 DEF OwnerFollows
  <2>2. CASE t \in Workers
    <3>1. worker[t].seen = team.job /\ worker[t].pc # "working"
      BY <1>3, <2>2 DEF PendingCounts, Running, Owing
    <3>2. QED
      BY <2>2, <3>1 DEF WorkersFollow
  <2>3. QED
    BY <2>1, <2>2 DEF Workers
<1>4. QED
  BY <1>1, <1>2, <1>3 DEF RunIsComplete

----------------------------------------------------------------------------
(* The theorems *)

\* pending_ never goes below zero or above the number of workers, and every
\* thread's copy of the job number is one that was published
\* (worker_team.cpp:33-95).
THEOREM TeamTypes == Spec => []TypeOK
BY TeamInitInv, TeamNextInv, TeamInvImplies, PTL DEF Spec

\* A worker is in a job only while the run() that published it waits for it, so
\* its closure is there (worker_team.cpp:46-52, 67-84).
THEOREM ClosureIsAlive == Spec => []WorkOutlivesUse
BY TeamInitInv, TeamNextInv, TeamInvImplies, PTL DEF Spec

\* When run() has returned all threads have done all of every job
\* (worker_team.cpp:81-84, execution.cpp:297-320).
THEOREM RunsAreComplete == Spec => []RunIsComplete
BY TeamInitInv, TeamNextInv, TeamInvImplies, PTL DEF Spec
=============================================================================
