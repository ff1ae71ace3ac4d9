------------------------------ MODULE Barrier -------------------------------
(***************************************************************************)
(* The spinning barrier of framework/neon/worker_team.cpp:13-31: left_     *)
(* counts the threads still to arrive, generation_ the times it opened.    *)
(* Each atomic operation is a step; their memory orders make them          *)
(* sequentially consistent where it matters (the reset of left_ is         *)
(* published by the release of generation_).                               *)
(***************************************************************************)
EXTENDS Integers, FiniteSets

CONSTANTS
  Threads,  \* those the barrier was made for
  Width     \* values of generation_, a wrapping int

ASSUME BarrierAssumption ==
  /\ IsFiniteSet(Threads) /\ Threads # {}
  /\ Width \in Nat /\ Width >= 2

VARIABLES
  left,        \* left_
  generation,  \* generation_
  at,          \* per thread: where it is in wait(), "out" when not there
  seen,        \* per thread: the generation it found on entering
  crossed,     \* history: the times each thread has left wait()
  opened       \* history: the times the barrier opened

barrierVars == <<left, generation, at, seen, crossed, opened>>

Count == Cardinality(Threads)
After(g) == IF g = Width - 1 THEN 0 ELSE g + 1

BarrierTypeOK ==
  /\ left \in 0 .. Count
  /\ generation \in 0 .. Width - 1
  /\ at \in [Threads -> {"out", "arrive", "reset", "open", "spin"}]
  /\ seen \in [Threads -> 0 .. Width - 1]
  /\ crossed \in [Threads -> Nat]
  /\ opened \in Nat

BarrierInit ==
  /\ left = Count
  /\ generation = 0
  /\ at = [t \in Threads |-> "out"]
  /\ seen = [t \in Threads |-> 0]
  /\ crossed = [t \in Threads |-> 0]
  /\ opened = 0

Enter(t) ==
  /\ at[t] = "out"
  /\ seen' = [seen EXCEPT ![t] = generation]
  /\ at' = [at EXCEPT ![t] = "arrive"]
  /\ UNCHANGED <<left, generation, crossed, opened>>

\* Seeded fault: the last but one is taken for the last.
Arrive_OneEarly(t) ==
  /\ at[t] = "arrive"
  /\ left' = left - 1
  /\ at' = [at EXCEPT ![t] = IF left <= 2 THEN "reset" ELSE "spin"]
  /\ UNCHANGED <<generation, seen, crossed, opened>>

Arrive(t) ==
  /\ at[t] = "arrive"
  /\ left' = left - 1
  /\ at' = [at EXCEPT ![t] = IF left = 1 THEN "reset" ELSE "spin"]
  /\ UNCHANGED <<generation, seen, crossed, opened>>

Reset(t) ==
  /\ at[t] = "reset"
  /\ left' = Count
  /\ at' = [at EXCEPT ![t] = "open"]
  /\ UNCHANGED <<generation, seen, crossed, opened>>

Crosses(t) ==
  /\ at' = [at EXCEPT ![t] = "out"]
  /\ crossed' = [crossed EXCEPT ![t] = @ + 1]

Open(t) ==
  /\ at[t] = "open"
  /\ generation' = After(generation)
  /\ opened' = opened + 1
  /\ Crosses(t)
  /\ UNCHANGED <<left, seen>>

Leave(t) ==
  /\ at[t] = "spin" /\ generation # seen[t]
  /\ Crosses(t)
  /\ UNCHANGED <<left, generation, seen, opened>>

Wait(t) == Enter(t) \/ Arrive(t) \/ Reset(t) \/ Open(t) \/ Leave(t)

BarrierNext == \E t \in Threads : Wait(t)

BarrierSpec == BarrierInit /\ [][BarrierNext]_barrierVars

HasArrived(t) == at[t] \in {"spin", "reset", "open"}

\* Nobody leaves before everybody has arrived as many times: the reset of left_
\* and the opening are two steps, between which waiters spin and after which a
\* thread may be back before the others have left (worker_team.cpp:13-31).
NobodyRunsAhead ==
  \A t, u \in Threads :
    crossed[t] <= crossed[u] + (IF HasArrived(u) THEN 1 ELSE 0)
=============================================================================
