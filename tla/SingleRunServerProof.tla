----------------------- MODULE SingleRunServerProof -----------------------
(***************************************************************************)
(* Proofs about SingleRunServer, for any models, connections, sweeps and   *)
(* limit: its types, that runs are guarded, that the limit on the models   *)
(* in memory holds, that a thread that has ended keeps no lock, and that   *)
(* threads wait for one another only where a listing meets a load.         *)
(*                                                                         *)
(* The inductive invariant says of every thread which locks it holds at    *)
(* each step and what it knows of the models they protect.  A step of one  *)
(* thread is shown to spare the others (lemma OthersFit), so that each     *)
(* action is left with what it does to its own thread.                     *)
(***************************************************************************)
EXTENDS SingleRunServer, FiniteSetTheorems, TLAPS

-----------------------------------------------------------------------------
(* The inductive invariant *)

\* ensure_model_loaded_locked, and the two steps that give a guard back.
Loading == {"ensure", "loadMutex", "residents", "evict", "victim", "loading"}
Leaving == {"release", "unlock"}

\* A thread evicts while it tries victims and while it holds one.
Evicts(t) == At(t, "evict") \/ Victim(t) # Nobody

\* A thread is at a step of its job.
JobFits(t) ==
  /\ t \in Sweepers =>
       /\ Model(t) = Nobody
       /\ \/ Is(t, {"sweep"}) /\ thread[t].at \in {"new", "evict", "victim"}
          \/ Is(t, {"sweep"}) /\ thread[t].at \in Leaving /\ Victim(t) # Nobody
          \/ At(t, "done")
  /\ t \in Handlers =>
       /\ ~Is(t, {"sweep"})
       /\ thread[t].at \notin {"new", "next", "listing", "done"} => Model(t) \in Models
  /\ thread[t].at \in Loading \cup {"register"} => Is(t, {"run", "load", "sweep"})
  /\ At(t, "register") => Is(t, {"load"})
  /\ At(t, "run") => Is(t, {"run"})
  /\ At(t, "locked") => Is(t, {"load", "unload", "bulk"})
  /\ thread[t].at \in {"find", "metadata", "guard", "wait"} \cup Leaving =>
       ~Is(t, {"none", "list"})
  /\ At(t, "next") => Is(t, {"bulk"})
  /\ Victim(t) # Nobody =>
       thread[t].at \in {"victim"} \cup Leaving /\ Is(t, {"run", "load", "sweep"})
  /\ At(t, "victim") => Victim(t) # Nobody

\* The models a thread has looked up are registered; only a load names a model
\* that may not be, and that one is not of the configuration.
NamesFit(t) ==
  /\ thread[t].todo \subseteq registered
  /\ thread[t].at \in {"metadata", "guard", "wait"} => Model(t) \in registered
  /\ Is(t, {"load"}) /\ (thread[t].at \in Loading \/ Victim(t) # Nobody) =>
       holder[Model(t)] = t \/ Model(t) \in New
  /\ Victim(t) # Nobody /\ Victim(t) = Model(t) => Model(t) \in New
  /\ At(t, "register") => Model(t) \in New

\* A thread owns the guard of its own model from when it gets it to the end.
OwnsModel(t) ==
  \/ Is(t, {"run"}) /\ thread[t].at \in Loading \cup Leaving \cup {"run"}
  \/ At(t, "locked")
  \/ Is(t, {"unload", "bulk", "load"}) /\ thread[t].at \in Leaving /\ Victim(t) = Nobody

\* The guards a thread holds are the victim's and, past the wait, its model's.
GuardsFit(t) ==
  /\ OwnsModel(t) => holder[Model(t)] = t
  /\ Victim(t) # Nobody => holder[Victim(t)] = t
  /\ Is(t, {"run"}) => Victim(t) # Model(t) \/ Victim(t) = Nobody
  /\ Is(t, {"run"}) /\ Evicts(t) => Model(t) \notin thread[t].todo
  /\ \A m \in Models : holder[m] = t =>
       \/ m = Victim(t)
       \/ /\ m = Model(t) /\ Is(t, {"run", "load", "unload", "bulk"})
          /\ thread[t].at \in Loading \cup Leaving \cup {"run", "locked"}

\* The other locks are held where the code is inside them.
LocksFit(t) ==
  /\ \A m \in Models : metadata[m] = t =>
       /\ m = Model(t) /\ Is(t, {"load"}) /\ holder[m] = t /\ Victim(t) # m
       /\ ~At(t, "locked") /\ ~(At(t, "unlock") /\ Victim(t) = Nobody)
  /\ modelsMutex = t <=> At(t, "listing")
  /\ t \in Handlers =>
       /\ loadMutex = t <=> At(t, "residents") \/ Evicts(t) \/ (At(t, "loading") /\ Limit > 0)
       /\ At(t, "loadMutex") \/ loadMutex = t => Limit > 0

\* A guard that is about to be released looks free, that of a run looks taken.
StampsFit(t) ==
  /\ At(t, "unlock") => Held(t) \notin stamped
  /\ OwnsModel(t) /\ Is(t, {"run"}) /\ ~(At(t, "unlock") /\ Victim(t) = Nobody) =>
       Model(t) \in stamped

\* A run has its session.
SessionFits(t) == At(t, "run") => Model(t) \in loaded

\* The configured models in memory besides the one t loads.
Others(t) == (loaded \cap Configured) \ {Model(t)}

\* S bounds what stays when t has evicted the excess: the models still to visit,
\* and the others in memory but the victim.
Bounds(S, t) ==
  /\ thread[t].todo \subseteq S
  /\ Others(t) \ (IF At(t, "victim") THEN {Victim(t)} ELSE {}) \subseteq S
  /\ Cardinality(S) <= Limit - 1 + thread[t].excess

\* There will be room for the model a thread loads.
RoomFits(t) ==
  t \in Handlers =>
    /\ Evicts(t) => \E S \in SUBSET Models : Bounds(S, t)
    /\ At(t, "loading") /\ Limit > 0 => Cardinality(Others(t)) <= Limit - 1

Fits(t) ==
  /\ JobFits(t) /\ NamesFit(t) /\ GuardsFit(t) /\ LocksFit(t) /\ StampsFit(t)
  /\ SessionFits(t) /\ RoomFits(t)

\* Guards are those of registered models, and one that is free looks free.
HeldGuards ==
  /\ \A m \in Models : holder[m] # Nobody => m \in registered
  /\ \A m \in stamped : holder[m] # Nobody

Inv == TypeOK /\ HeldGuards /\ ResidentLimit /\ \A t \in Threads : Fits(t)

-----------------------------------------------------------------------------
(* Lemmas *)

Thread == [at : Steps, kind : Kinds, model : Models \cup {Nobody},
           victim : Models \cup {Nobody}, bounded : BOOLEAN, todo : SUBSET Models,
           excess : -Limit .. Cardinality(Models)]

Ended == [NewThread EXCEPT !.at = "done"]

\* The models are finitely many.
LEMMA ModelsAreFinite ==
  /\ IsFiniteSet(Models) /\ Cardinality(Models) \in Nat
  /\ \A S \in SUBSET Models : /\ IsFiniteSet(S) /\ Cardinality(S) \in Nat
                              /\ Cardinality(S) <= Cardinality(Models)
  BY SingleRunAssumption, FS_Subset, FS_CardinalityType

\* A new thread, and one that has ended, are threads.
LEMMA NewThreadType == NewThread \in Thread /\ Ended \in Thread
<1>1. 0 \in -Limit .. Cardinality(Models)
  BY SingleRunAssumption, ModelsAreFinite
<1>2. QED
  BY <1>1 DEF Thread, NewThread, Ended, Steps, Kinds, Requests

\* A thread that becomes a record has its fields, or has ended.
LEMMA BecomeProps ==
  ASSUME thread \in [Threads -> Thread], NEW t \in Threads, NEW r \in Thread, Become(t, r)
  PROVE  /\ thread' \in [Threads -> Thread]
         /\ thread'[t] = IF r.at = "done" THEN Ended ELSE r
         /\ \A u \in Threads \ {t} : thread'[u] = thread[u]
  BY NewThreadType DEF Become, Ended

\* A thread that goes on to a step keeps the rest, or has ended.
LEMMA GoProps ==
  ASSUME thread \in [Threads -> Thread], NEW t \in Threads, NEW step \in Steps, Go(t, step)
  PROVE  /\ thread' \in [Threads -> Thread]
         /\ \A u \in Threads \ {t} : thread'[u] = thread[u]
         /\ step = "done" => thread'[t] = Ended
         /\ step # "done" =>
              /\ thread'[t].at = step /\ thread'[t].kind = thread[t].kind
              /\ thread'[t].model = thread[t].model /\ thread'[t].victim = thread[t].victim
              /\ thread'[t].todo = thread[t].todo /\ thread'[t].excess = thread[t].excess
<1>1. thread[t] \in Thread /\ [thread[t] EXCEPT !.at = step] \in Thread
  BY DEF Thread
<1>2. QED
  BY BecomeProps DEF Go, Thread

\* A step leaves the thread u, the locks it holds and the models they protect
\* alone.
Spares(u) ==
  /\ thread'[u] = thread[u] /\ registered \subseteq registered'
  /\ \A m \in Models :
       /\ holder'[m] = u <=> holder[m] = u
       /\ metadata'[m] = u <=> metadata[m] = u
       /\ holder[m] = u => (m \in stamped' <=> m \in stamped)
       /\ holder[m] = u /\ m \in loaded => m \in loaded'
  /\ modelsMutex' = u <=> modelsMutex = u
  /\ loadMutex' = u <=> loadMutex = u
  /\ loadMutex = u => loaded' \cap Configured \subseteq loaded

\* What fits of a thread that a step spares fits after it.
LEMMA OthersFit ==
  ASSUME Inv, NEW u \in Threads, Spares(u)
  PROVE  Fits(u)'
<1>. /\ u \in Handlers \/ u \in Sweepers
     /\ Nobody \notin Threads \cup Models
     /\ thread[u] \in Thread /\ thread'[u] = thread[u]
     /\ Fits(u)
  BY SingleRunAssumption DEF Inv, TypeOK, Thread, Threads, Spares
<1>1. JobFits(u)'
  BY DEF Fits, JobFits, At, Is, Model, Victim
<1>2. GuardsFit(u)'
  BY DEF Fits, GuardsFit, Evicts, OwnsModel, At, Is, Model, Victim, Spares, JobFits,
         Thread, Loading, Leaving
<1>3. NamesFit(u)'
  BY DEF Fits, NamesFit, JobFits, At, Is, Model, Victim, Spares, Loading, Leaving
<1>4. LocksFit(u)'
  BY DEF Fits, LocksFit, Evicts, At, Is, Model, Victim, Spares
<1>5. StampsFit(u)'
  <2>1. At(u, "unlock") => Held(u) \in Models /\ holder[Held(u)] = u
    BY DEF Fits, JobFits, GuardsFit, OwnsModel, Held, At, Is, Victim, Thread, Leaving,
           Kinds, Requests
  <2>2. OwnsModel(u) /\ Is(u, {"run"}) => Model(u) \in Models /\ holder[Model(u)] = u
    BY DEF Fits, JobFits, GuardsFit, OwnsModel, At, Is, Loading, Leaving
  <2>3. QED
    BY <2>1, <2>2 DEF Fits, StampsFit, OwnsModel, Held, At, Is, Model, Victim, Spares
<1>6. SessionFits(u)'
  BY DEF Fits, SessionFits, GuardsFit, OwnsModel, JobFits, At, Is, Model, Spares
<1>7. RoomFits(u)'
  <2>. SUFFICES ASSUME u \in Handlers
                PROVE  /\ Evicts(u) => (\E S \in SUBSET Models : Bounds(S, u))'
                       /\ At(u, "loading") /\ Limit > 0
                            => (Cardinality(Others(u)) <= Limit - 1)'
    BY DEF RoomFits, Evicts, At, Victim
  <2>1. Evicts(u) \/ (At(u, "loading") /\ Limit > 0) => Others(u)' \subseteq Others(u)
    BY DEF Fits, LocksFit, Others, Spares, Model
  <2>2. CASE Evicts(u)
    <3>1. PICK S \in SUBSET Models : Bounds(S, u)
      BY <2>2 DEF Fits, RoomFits
    <3>2. Bounds(S, u)'
      BY <3>1, <2>1, <2>2 DEF Bounds, At, Victim
    <3>3. ~At(u, "loading")
      BY <2>2 DEF At, Fits, JobFits, Evicts, Leaving
    <3>4. (\E T \in SUBSET Models : Bounds(T, u))'
      BY <3>2
    <3>5. QED
      BY <3>3, <3>4
  <2>3. CASE At(u, "loading") /\ Limit > 0
    <3>1. /\ Others(u) \subseteq Models /\ Others(u)' \subseteq Others(u)
          /\ Cardinality(Others(u)) <= Limit - 1
      BY <2>1, <2>3 DEF Fits, RoomFits, Others, Models
    <3>2. Cardinality(Others(u)') <= Cardinality(Others(u)) /\ Cardinality(Others(u)') \in Nat
          /\ Cardinality(Others(u)) \in Nat
      BY <3>1, ModelsAreFinite, FS_Subset
    <3>3. QED
      BY <3>1, <3>2, <2>3, SingleRunAssumption DEF At, Fits, JobFits, Evicts, Leaving
  <2>4. QED
    BY <2>2, <2>3
<1>8. QED
  BY <1>1, <1>2, <1>3, <1>4, <1>5, <1>6, <1>7 DEF Fits

\* The invariant is preserved by a step that spares all threads but one.
LEMMA StepInv ==
  ASSUME Inv, NEW t \in Threads, \A u \in Threads \ {t} : Spares(u),
         TypeOK', HeldGuards', ResidentLimit', Fits(t)'
  PROVE  Inv'
  BY OthersFit DEF Inv

\* A thread that has ended and holds no lock fits.
LEMMA EndedFits ==
  ASSUME NEW t \in Threads, thread'[t] = Ended,
         \A m \in Models : holder'[m] # t /\ metadata'[m] # t,
         modelsMutex' # t, loadMutex' # t
  PROVE  Fits(t)'
<1>. /\ thread'[t].at = "done" /\ thread'[t].kind = "none" /\ thread'[t].model = Nobody
     /\ thread'[t].victim = Nobody /\ thread'[t].todo = {}
     /\ ~(t \in Handlers /\ t \in Sweepers)
  BY SingleRunAssumption DEF Ended, NewThread
<1>1. (JobFits(t) /\ NamesFit(t) /\ GuardsFit(t))'
  BY DEF JobFits, NamesFit, GuardsFit, OwnsModel, At, Is, Model, Victim, Loading,
         Leaving
<1>2. (LocksFit(t) /\ StampsFit(t) /\ SessionFits(t) /\ RoomFits(t))'
  BY DEF LocksFit, StampsFit, SessionFits, RoomFits, OwnsModel, Evicts, At, Victim,
         Loading, Leaving
<1>3. QED
  BY <1>1, <1>2 DEF Fits

\* What holds of a thread before its step.
LEMMA Before ==
  ASSUME Inv, NEW t \in Threads
  PROVE  /\ t \in Handlers \/ t \in Sweepers
         /\ ~(t \in Handlers /\ t \in Sweepers)
         /\ Nobody \notin Threads \cup Models
         /\ Limit \in Nat
         /\ thread \in [Threads -> Thread] /\ thread[t] \in Thread
         /\ Fits(t)
  BY SingleRunAssumption DEF Inv, TypeOK, Thread, Threads

\* A step that only moves its own thread keeps the invariant if the thread fits
\* afterwards.
LEMMA QuietStep ==
  ASSUME Inv, NEW t \in Threads, UNCHANGED <<registry, guards, mutexes>>,
         thread' \in [Threads -> Thread], \A u \in Threads \ {t} : thread'[u] = thread[u],
         Fits(t)'
  PROVE  Inv'
<1>1. ASSUME NEW u \in Threads \ {t} PROVE Spares(u)
  BY DEF Spares, registry, guards, mutexes
<1>2. TypeOK' /\ HeldGuards' /\ ResidentLimit'
  BY DEF Inv, TypeOK, HeldGuards, ResidentLimit, Thread, registry, guards, mutexes
<1>3. QED
  BY <1>1, <1>2, StepInv

\* A thread that leaves holds the guard it gives back.
LEMMA HeldGuard ==
  ASSUME Inv, NEW t \in Threads, thread[t].at \in Leaving
  PROVE  /\ Held(t) \in Models /\ holder[Held(t)] = t
         /\ \/ Held(t) = Model(t) /\ Victim(t) = Nobody
            \/ Held(t) = Victim(t) /\ Victim(t) # Nobody
<1>1. thread[t] \in Thread /\ Fits(t) /\ Nobody \notin Models
      /\ (t \in Handlers \/ t \in Sweepers)
  BY Before
<1>2. CASE Victim(t) # Nobody
  BY <1>1, <1>2 DEF Fits, GuardsFit, Held, Victim, Thread
<1>3. CASE Victim(t) = Nobody
  <2>1. t \in Handlers /\ Is(t, {"run", "load", "unload", "bulk"}) /\ Model(t) \in Models
    BY <1>1, <1>3 DEF Fits, JobFits, Is, At, Thread, Leaving, Kinds, Requests
  <2>2. holder[Model(t)] = t
    BY <1>1, <1>3, <2>1 DEF Is, OwnsModel, GuardsFit, Fits
  <2>3. QED
    BY <1>3, <2>1, <2>2 DEF Held
<1>4. QED
  BY <1>2, <1>3

\* A request that begins looks its model up; it holds no lock yet.
LEMMA AskInv ==
  ASSUME Inv, NEW t \in Threads, NEW kind \in {"run", "load", "unload"}, NEW m \in Models,
         NEW bounded \in BOOLEAN, Ask(t, kind, m, bounded)
  PROVE  Inv'
<1>. /\ t \in Handlers \/ t \in Sweepers
     /\ ~(t \in Handlers /\ t \in Sweepers)
     /\ Nobody \notin Threads \cup Models /\ Limit \in Nat
     /\ thread \in [Threads -> Thread] /\ thread[t] \in Thread
     /\ Fits(t)
  BY Before
<1>. DEFINE r == [NewThread EXCEPT !.at = "find", !.kind = kind, !.model = m,
                                   !.bounded = bounded]
<1>1. /\ r \in Thread /\ Become(t, r)
      /\ r.at = "find" /\ r.kind = kind /\ r.model = m
      /\ r.victim = Nobody /\ r.todo = {} /\ r.excess = 0
  <2>1. Become(t, r)
    BY DEF Ask
  <2>2. r \in Thread
    BY NewThreadType DEF Thread, Kinds, Requests, Steps
  <2>3. /\ r.at = "find" /\ r.kind = kind /\ r.model = m
        /\ r.victim = Nobody /\ r.todo = {} /\ r.excess = 0
    BY DEF NewThread
  <2>4. QED
    BY <2>1, <2>2, <2>3
<1>. HIDE DEF r
<1>2. /\ thread' \in [Threads -> Thread] /\ \A u \in Threads \ {t} : thread'[u] = thread[u]
      /\ thread'[t].at = "find" /\ thread'[t].kind = kind /\ thread'[t].model = m
      /\ thread'[t].victim = Nobody /\ thread'[t].todo = {} /\ thread'[t].excess = 0
  BY <1>1, BecomeProps
<1>3. Fits(t)'
  <2>1. JobFits(t)'
    BY <1>2 DEF JobFits, Loading, Ask, At, Is, Model, Victim
  <2>2. NamesFit(t)'
    BY <1>2 DEF NamesFit, Loading, At, Victim
  <2>3. GuardsFit(t)'
    BY <1>2 DEF Fits, GuardsFit, JobFits, OwnsModel, Loading, Leaving, Ask, At, Victim,
           guards
  <2>4. LocksFit(t)'
    BY <1>2 DEF Fits, LocksFit, JobFits, GuardsFit, Evicts, Loading, Leaving, Ask, At,
           Victim, mutexes
  <2>5. StampsFit(t)'
    BY <1>2 DEF StampsFit, OwnsModel, Loading, Leaving, At
  <2>6. SessionFits(t)'
    BY <1>2 DEF SessionFits, At
  <2>7. RoomFits(t)'
    BY <1>2 DEF RoomFits, Evicts, At, Victim
  <2>8. QED
    BY <2>1, <2>2, <2>3, <2>4, <2>5, <2>6, <2>7 DEF Fits
<1>4. QED
  BY <1>2, <1>3, QuietStep DEF Ask

\* A bulk unload begins with models that are registered.
LEMMA AskBulkInv ==
  ASSUME Inv, NEW t \in Threads, NEW ms \in SUBSET registered, AskBulk(t, ms)
  PROVE  Inv'
<1>. /\ t \in Handlers \/ t \in Sweepers
     /\ ~(t \in Handlers /\ t \in Sweepers)
     /\ Nobody \notin Threads \cup Models /\ Limit \in Nat
     /\ thread \in [Threads -> Thread] /\ thread[t] \in Thread
     /\ Fits(t)
  BY Before
<1>. DEFINE r == [NewThread EXCEPT !.at = "next", !.kind = "bulk", !.todo = ms]
<1>1. /\ r \in Thread /\ Become(t, r)
      /\ r.at = "next" /\ r.kind = "bulk" /\ r.model = Nobody
      /\ r.victim = Nobody /\ r.todo = ms /\ r.excess = 0
  BY NewThreadType, ModelsAreFinite DEF Inv, TypeOK, NewThread, AskBulk, Thread, Kinds,
         Requests, Steps, Models
<1>. HIDE DEF r
<1>2. /\ thread' \in [Threads -> Thread] /\ \A u \in Threads \ {t} : thread'[u] = thread[u]
      /\ thread'[t].at = "next" /\ thread'[t].kind = "bulk" /\ thread'[t].model = Nobody
      /\ thread'[t].victim = Nobody /\ thread'[t].todo = ms /\ thread'[t].excess = 0
  BY <1>1, BecomeProps
<1>3. Fits(t)'
  <2>1. JobFits(t)'
    BY <1>2 DEF JobFits, Loading, AskBulk, At, Is, Victim
  <2>2. NamesFit(t)'
    BY <1>2 DEF NamesFit, AskBulk, At, Is, Model, registry
  <2>3. GuardsFit(t)'
    BY <1>2 DEF Fits, GuardsFit, Evicts, JobFits, OwnsModel, Loading, Leaving, AskBulk,
           At, Victim, guards
  <2>4. LocksFit(t)'
    BY <1>2 DEF Fits, LocksFit, JobFits, GuardsFit, Evicts, Loading, Leaving, AskBulk,
           At, Victim, mutexes
  <2>5. StampsFit(t)'
    BY <1>2 DEF StampsFit, OwnsModel, Loading, Leaving, At
  <2>6. SessionFits(t)'
    BY <1>2 DEF SessionFits, At
  <2>7. RoomFits(t)'
    BY <1>2 DEF RoomFits, Evicts, At, Victim
  <2>8. QED
    BY <2>1, <2>2, <2>3, <2>4, <2>5, <2>6, <2>7 DEF Fits
<1>4. QED
  BY <1>2, <1>3, QuietStep DEF AskBulk

\* A listing takes models_mutex_, which its own step is inside of.
LEMMA AskListInv ==
  ASSUME Inv, NEW t \in Threads, NEW ms \in SUBSET registered, AskList(t, ms)
  PROVE  Inv'
<1>. /\ t \in Handlers \/ t \in Sweepers
     /\ ~(t \in Handlers /\ t \in Sweepers)
     /\ Nobody \notin Threads \cup Models /\ Limit \in Nat
     /\ thread \in [Threads -> Thread] /\ thread[t] \in Thread
     /\ Fits(t)
  BY Before
<1>. DEFINE r == [NewThread EXCEPT !.at = "listing", !.kind = "list", !.todo = ms]
<1>1. /\ r \in Thread /\ Become(t, r)
      /\ r.at = "listing" /\ r.kind = "list" /\ r.model = Nobody
      /\ r.victim = Nobody /\ r.todo = ms /\ r.excess = 0
  BY NewThreadType, ModelsAreFinite DEF Inv, TypeOK, NewThread, AskList, Thread, Kinds,
         Requests, Steps, Models
<1>. HIDE DEF r
<1>2. /\ thread' \in [Threads -> Thread] /\ \A u \in Threads \ {t} : thread'[u] = thread[u]
      /\ thread'[t].at = "listing" /\ thread'[t].kind = "list" /\ thread'[t].model = Nobody
      /\ thread'[t].victim = Nobody /\ thread'[t].todo = ms /\ thread'[t].excess = 0
  BY <1>1, BecomeProps
<1>3. ASSUME NEW u \in Threads \ {t} PROVE Spares(u)
  BY <1>2 DEF Spares, AskList, registry, guards
<1>4. TypeOK'
  BY <1>2 DEF Inv, TypeOK, Fits, JobFits, NamesFit, GuardsFit, OwnsModel, HeldGuards,
         Models, Threads, AskList, At, Is, Model, Victim, registry, guards, mutexes,
         Thread, Loading, Leaving
<1>5. HeldGuards'
  BY DEF Inv, HeldGuards, AskList, registry, guards
<1>6. ResidentLimit'
  BY DEF Inv, ResidentLimit, AskList, registry
<1>7. Fits(t)'
  <2>1. JobFits(t)'
    BY <1>2 DEF JobFits, Loading, Leaving, AskList, At, Is, Victim
  <2>2. NamesFit(t)'
    BY <1>2 DEF NamesFit, AskList, At, Is, Model, registry
  <2>3. GuardsFit(t)'
    BY <1>2 DEF Fits, GuardsFit, Evicts, JobFits, OwnsModel, Loading, Leaving, AskList,
           At, Victim, guards
  <2>4. LocksFit(t)'
    BY <1>2 DEF Fits, LocksFit, JobFits, GuardsFit, Evicts, Loading, Leaving, AskList,
           At, Victim
  <2>5. StampsFit(t)'
    BY <1>2 DEF StampsFit, OwnsModel, Loading, Leaving, At
  <2>6. SessionFits(t)'
    BY <1>2 DEF SessionFits, At
  <2>7. RoomFits(t)'
    BY <1>2 DEF RoomFits, Evicts, At, Victim
  <2>8. QED
    BY <2>1, <2>2, <2>3, <2>4, <2>5, <2>6, <2>7 DEF Fits
<1>8. QED
  BY <1>3, <1>4, <1>5, <1>6, <1>7, StepInv

\* A sweep begins with the models in memory; it holds no lock yet.
LEMMA SweepInv ==
  ASSUME Inv, NEW t \in Threads, Sweep(t)
  PROVE  Inv'
<1>. /\ t \in Handlers \/ t \in Sweepers
     /\ ~(t \in Handlers /\ t \in Sweepers)
     /\ Nobody \notin Threads \cup Models /\ Limit \in Nat
     /\ thread \in [Threads -> Thread] /\ thread[t] \in Thread
     /\ Fits(t)
  BY Before
<1>. DEFINE r == [thread[t] EXCEPT !.at = "evict", !.todo = loaded,
                                   !.excess = Cardinality(loaded)]
<1>1. loaded \in SUBSET Models /\ Cardinality(loaded) \in -Limit .. Cardinality(Models)
  BY ModelsAreFinite DEF Inv, TypeOK
<1>2. /\ r \in Thread /\ Become(t, r)
      /\ r.at = "evict" /\ r.kind = thread[t].kind /\ r.model = thread[t].model
      /\ r.victim = thread[t].victim /\ r.todo = loaded /\ r.excess = Cardinality(loaded)
  BY <1>1 DEF Steps, Sweep, Thread, Kinds, Requests, Steps, Models, At
<1>. HIDE DEF r
<1>3. /\ thread' \in [Threads -> Thread] /\ \A u \in Threads \ {t} : thread'[u] = thread[u]
      /\ thread'[t].at = "evict" /\ thread'[t].kind = thread[t].kind
      /\ thread'[t].model = thread[t].model
      /\ thread'[t].victim = thread[t].victim /\ thread'[t].todo = loaded
      /\ thread'[t].excess = Cardinality(loaded)
  BY <1>2, BecomeProps
<1>4. Fits(t)'
  <2>1. JobFits(t)'
    BY <1>3 DEF Fits, JobFits, Leaving, Sweep, At, Is, Model, Victim
  <2>2. NamesFit(t)'
    BY <1>3 DEF Inv, TypeOK, Fits, NamesFit, JobFits, Sweep, At, Is, Model, registry
  <2>3. GuardsFit(t)'
    BY <1>3 DEF Fits, GuardsFit, JobFits, OwnsModel, Sweep, At, Is, Victim, guards
  <2>4. LocksFit(t)'
    BY <1>3 DEF Fits, LocksFit, JobFits, Sweep, At, mutexes
  <2>5. StampsFit(t)'
    BY <1>3 DEF Fits, StampsFit, JobFits, Sweep, At, Is
  <2>6. SessionFits(t)'
    BY <1>3 DEF SessionFits, At
  <2>7. RoomFits(t)'
    BY DEF RoomFits, Sweep
  <2>8. QED
    BY <2>1, <2>2, <2>3, <2>4, <2>5, <2>6, <2>7 DEF Fits
<1>5. QED
  BY <1>3, <1>4, QuietStep DEF Sweep

\* A listing that has visited a model stays inside models_mutex_.
LEMMA ListOneInv ==
  ASSUME Inv, NEW t \in Threads, NEW m \in thread[t].todo, ListOne(t, m)
  PROVE  Inv'
<1>. /\ t \in Handlers \/ t \in Sweepers
     /\ ~(t \in Handlers /\ t \in Sweepers)
     /\ Nobody \notin Threads \cup Models /\ Limit \in Nat
     /\ thread \in [Threads -> Thread] /\ thread[t] \in Thread
     /\ Fits(t)
  BY Before
<1>. DEFINE r == [thread[t] EXCEPT !.todo = @ \ {m}]
<1>1. /\ r \in Thread /\ Become(t, r)
      /\ r.at = thread[t].at /\ r.kind = thread[t].kind /\ r.model = thread[t].model
      /\ r.victim = thread[t].victim /\ r.todo = thread[t].todo \ {m}
      /\ r.excess = thread[t].excess
  BY DEF ListOne, Thread
<1>. HIDE DEF r
<1>2. /\ thread' \in [Threads -> Thread] /\ \A u \in Threads \ {t} : thread'[u] = thread[u]
      /\ thread'[t].at = thread[t].at /\ thread'[t].kind = thread[t].kind
      /\ thread'[t].model = thread[t].model
      /\ thread'[t].victim = thread[t].victim /\ thread'[t].todo = thread[t].todo \ {m}
      /\ thread'[t].excess = thread[t].excess
  BY <1>1, BecomeProps DEF ListOne, At
<1>3. Fits(t)'
  <2>1. JobFits(t)'
    BY <1>2 DEF Fits, JobFits, Leaving, ListOne, At, Is, Victim
  <2>2. NamesFit(t)'
    BY <1>2 DEF Fits, NamesFit, JobFits, Loading, Leaving, ListOne, At, Victim, registry
  <2>3. GuardsFit(t)'
    BY <1>2 DEF Fits, GuardsFit, Evicts, JobFits, OwnsModel, Loading, Leaving, ListOne,
           At, Victim, guards
  <2>4. LocksFit(t)'
    BY <1>2 DEF Fits, LocksFit, GuardsFit, Evicts, Loading, Leaving, ListOne, At,
           Victim, mutexes
  <2>5. StampsFit(t)'
    BY <1>2 DEF StampsFit, OwnsModel, Loading, Leaving, ListOne, At
  <2>6. SessionFits(t)'
    BY <1>2 DEF SessionFits, ListOne, At
  <2>7. RoomFits(t)'
    BY <1>2 DEF Fits, RoomFits, JobFits, Evicts, Leaving, ListOne, At, Victim
  <2>8. QED
    BY <2>1, <2>2, <2>3, <2>4, <2>5, <2>6, <2>7 DEF Fits
<1>4. QED
  BY <1>2, <1>3, QuietStep DEF ListOne

\* A bulk unload goes on with a model it has not visited, without a lock.
LEMMA NextOfBulkInv ==
  ASSUME Inv, NEW t \in Threads, NEW m \in thread[t].todo, NextOfBulk(t, m)
  PROVE  Inv'
<1>. /\ t \in Handlers \/ t \in Sweepers
     /\ ~(t \in Handlers /\ t \in Sweepers)
     /\ Nobody \notin Threads \cup Models /\ Limit \in Nat
     /\ thread \in [Threads -> Thread] /\ thread[t] \in Thread
     /\ Fits(t)
  BY Before
<1>. DEFINE place == IF m \in loaded THEN "wait" ELSE "next"
            r == [thread[t] EXCEPT !.todo = @ \ {m}, !.model = m, !.at = place]
<1>1. place \in {"wait", "next"} /\ m \in registered /\ m \in Models /\ place \in Steps
      /\ thread[t].todo \ {m} \in SUBSET Models
  BY DEF Inv, TypeOK, Fits, NamesFit, Steps
<1>2. Become(t, r)
  BY DEF NextOfBulk
<1>. HIDE DEF place
<1>3. /\ r \in Thread
      /\ r.at = place /\ r.kind = thread[t].kind /\ r.model = m
      /\ r.victim = thread[t].victim /\ r.todo = thread[t].todo \ {m}
      /\ r.excess = thread[t].excess
  BY <1>1 DEF Thread
<1>. HIDE DEF r
<1>4. /\ thread' \in [Threads -> Thread] /\ \A u \in Threads \ {t} : thread'[u] = thread[u]
      /\ thread'[t].at = place /\ thread'[t].kind = thread[t].kind /\ thread'[t].model = m
      /\ thread'[t].victim = thread[t].victim /\ thread'[t].todo = thread[t].todo \ {m}
      /\ thread'[t].excess = thread[t].excess
  BY <1>3, <1>1, <1>2, BecomeProps
<1>5. Fits(t)'
  <2>1. JobFits(t)'
    BY <1>4, <1>1 DEF Fits, JobFits, Loading, At, Is, Model, Victim, NextOfBulk
  <2>2. NamesFit(t)'
    BY <1>4, <1>1 DEF Fits, NamesFit, JobFits, Loading, Leaving, At, Model, Victim,
           registry, NextOfBulk
  <2>3. GuardsFit(t)'
    BY <1>4, <1>1 DEF Fits, GuardsFit, Evicts, JobFits, OwnsModel, Loading, Leaving, At,
           Victim, guards, NextOfBulk
  <2>4. LocksFit(t)'
    BY <1>4, <1>1 DEF Fits, LocksFit, GuardsFit, Evicts, Loading, Leaving, At, Victim,
           mutexes, NextOfBulk
  <2>5. StampsFit(t)'
    BY <1>4, <1>1 DEF StampsFit, OwnsModel, Loading, Leaving, At
  <2>6. SessionFits(t)'
    BY <1>4, <1>1 DEF SessionFits, At
  <2>7. RoomFits(t)'
    BY <1>4, <1>1 DEF Fits, RoomFits, JobFits, Evicts, Leaving, At, Victim, NextOfBulk
  <2>8. QED
    BY <2>1, <2>2, <2>3, <2>4, <2>5, <2>6, <2>7 DEF Fits
<1>6. QED
  BY <1>4, <1>5, QuietStep DEF NextOfBulk

\* The guard of a victim is taken only when it is free, and then it is
\* neither the thread's own model nor one whose run goes on; a victim that is
\* passed over was one too many, and one that is unloaded makes room.
LEMMA TryVictimInv ==
  ASSUME Inv, NEW t \in Threads, NEW m \in thread[t].todo, TryVictim(t, m)
  PROVE  Inv'
<1>. /\ t \in Handlers \/ t \in Sweepers
     /\ ~(t \in Handlers /\ t \in Sweepers)
     /\ Nobody \notin Threads \cup Models /\ Limit \in Nat
     /\ thread \in [Threads -> Thread] /\ thread[t] \in Thread
     /\ Fits(t)
  BY Before
<1>1. /\ At(t, "evict") /\ thread[t].excess > 0 /\ Victim(t) = Nobody
      /\ UNCHANGED <<registered, loaded, metadata, modelsMutex, loadMutex>>
  BY DEF TryVictim, registry, mutexes, Fits, JobFits, At, Leaving
<1>2. m \in registered /\ m \in Models /\ thread[t].todo \ {m} \in SUBSET Models
  BY DEF Inv, TypeOK, Fits, NamesFit
<1>3. CASE holder[m] # Nobody
  <2>. DEFINE r == [thread[t] EXCEPT !.todo = @ \ {m}]
  <2>1. Become(t, r) /\ UNCHANGED guards
    BY <1>3 DEF TryVictim
  <2>2. /\ r \in Thread /\ r.at = "evict" /\ r.kind = thread[t].kind
        /\ r.model = thread[t].model /\ r.victim = Nobody
        /\ r.todo = thread[t].todo \ {m} /\ r.excess = thread[t].excess
    BY <1>1 DEF Thread, At, Victim
  <2>. HIDE DEF r
  <2>3. /\ thread' \in [Threads -> Thread] /\ \A u \in Threads \ {t} : thread'[u] = thread[u]
        /\ thread'[t].at = "evict" /\ thread'[t].kind = thread[t].kind
        /\ thread'[t].model = thread[t].model /\ thread'[t].victim = Nobody
        /\ thread'[t].todo = thread[t].todo \ {m} /\ thread'[t].excess = thread[t].excess
    BY <2>1, <2>2, BecomeProps
  <2>4. UNCHANGED <<holder, stamped>>
    BY <2>1 DEF guards
  <2>5. Fits(t)'
    <3>1. JobFits(t)'
      BY <1>1, <2>3 DEF Fits, JobFits, At, Is, Model, Victim
    <3>2. NamesFit(t)'
      BY <1>1, <2>3, <2>4 DEF Fits, NamesFit, At, Is, Model, Victim
    <3>3. GuardsFit(t)'
      BY <1>1, <2>3, <2>4 DEF Fits, GuardsFit, Evicts, OwnsModel, At, Is, Model, Victim
    <3>4. LocksFit(t)'
      BY <1>1, <2>3, <2>4 DEF Fits, LocksFit, Evicts, At, Is, Model, Victim
    <3>5. StampsFit(t)'
      BY <1>1, <2>3, <2>4 DEF Fits, StampsFit, OwnsModel, At, Is, Model
    <3>6. SessionFits(t)'
      BY <2>3 DEF SessionFits, At
    <3>7. RoomFits(t)'
      <4>. SUFFICES ASSUME t \in Handlers PROVE (\E S \in SUBSET Models : Bounds(S, t))'
        BY <2>3 DEF RoomFits, At
      <4>1. PICK S \in SUBSET Models : Bounds(S, t)
        BY <1>1 DEF Fits, RoomFits, Evicts
      <4>2. Bounds(S, t)'
        BY <1>1, <2>3, <4>1 DEF Bounds, Others, At, Model
      <4>3. QED
        BY <4>2
    <3>8. QED
      BY <3>1, <3>2, <3>3, <3>4, <3>5, <3>6, <3>7 DEF Fits
  <2>6. QED
    BY <1>1, <2>3, <2>4, <2>5, QuietStep DEF registry, guards, mutexes
<1>4. CASE holder[m] = Nobody
  <2>. DEFINE r == [thread[t] EXCEPT !.todo = @ \ {m}, !.excess = @ - 1, !.at = "victim",
                                     !.victim = m]
  <2>1. Become(t, r)
    BY <1>4 DEF TryVictim
  <2>2. holder[m] = Nobody /\ holder' = [holder EXCEPT ![m] = t] /\ stamped' = stamped \cup {m}
    BY <1>4 DEF TryVictim
  <2>3. thread[t].excess - 1 \in -Limit .. Cardinality(Models) /\ "victim" \in Steps
    BY <1>1, ModelsAreFinite DEF Thread, Steps
  <2>4. /\ r \in Thread /\ r.at = "victim" /\ r.kind = thread[t].kind
        /\ r.model = thread[t].model /\ r.victim = m
        /\ r.todo = thread[t].todo \ {m} /\ r.excess = thread[t].excess - 1
    BY <1>2, <2>3 DEF Thread
  <2>. HIDE DEF r
  <2>5. /\ thread' \in [Threads -> Thread] /\ \A u \in Threads \ {t} : thread'[u] = thread[u]
        /\ thread'[t].at = "victim" /\ thread'[t].kind = thread[t].kind
        /\ thread'[t].model = thread[t].model /\ thread'[t].victim = m
        /\ thread'[t].todo = thread[t].todo \ {m}
        /\ thread'[t].excess = thread[t].excess - 1
    BY <2>1, <2>4, BecomeProps
  <2>6. m \notin stamped
    BY <2>2 DEF Inv, HeldGuards
  <2>7. ASSUME NEW u \in Threads \ {t} PROVE Spares(u)
    BY <1>1, <2>5, <2>2 DEF Spares
  <2>8. TypeOK'
    BY <1>1, <1>2, <2>5, <2>2 DEF Inv, TypeOK, Thread
  <2>9. HeldGuards'
    BY <1>1, <1>2, <2>2 DEF Inv, TypeOK, HeldGuards
  <2>10. ResidentLimit'
    BY <1>1 DEF Inv, ResidentLimit
  <2>11. Fits(t)'
    <3>1. JobFits(t)'
      BY <1>1, <1>2, <2>5 DEF Fits, JobFits, Loading, At, Is, Model, Victim
    <3>2. NamesFit(t)'
      BY <1>1, <2>5, <2>2 DEF Fits, NamesFit, JobFits, Loading, GuardsFit, OwnsModel,
             At, Is, Model, Victim
    <3>3. GuardsFit(t)'
      BY <1>1, <2>5, <2>2 DEF Fits, GuardsFit, Evicts, Inv, TypeOK, OwnsModel, Loading,
             At, Is, Model, Victim
    <3>4. LocksFit(t)'
      BY <1>1, <1>2, <2>5, <2>2 DEF Fits, LocksFit, Evicts, At, Is, Model, Victim
    <3>5. StampsFit(t)'
      BY <1>1, <2>5, <2>2 DEF Fits, StampsFit, OwnsModel, Loading, At, Is, Model
    <3>6. SessionFits(t)'
      BY <2>5 DEF SessionFits, At
    <3>7. RoomFits(t)'
      <4>. SUFFICES ASSUME t \in Handlers PROVE (\E T \in SUBSET Models : Bounds(T, t))'
        BY <2>5 DEF RoomFits, At
      <4>1. PICK S \in SUBSET Models : Bounds(S, t)
        BY <1>1 DEF Fits, RoomFits, Evicts
      <4>2. m \in S /\ Cardinality(S) <= Limit - 1 + thread[t].excess
        BY <4>1 DEF Bounds
      <4>3. /\ Cardinality(S \ {m}) = Cardinality(S) - 1 /\ Cardinality(S) \in Int
            /\ thread[t].excess \in Int
        BY <4>2, ModelsAreFinite, FS_RemoveElement DEF Thread
      <4>4. Cardinality(S \ {m}) <= Limit - 1 + (thread[t].excess - 1)
        BY <4>2, <4>3
      <4>. DEFINE T == S \ {m}
      <4>5. /\ T \in SUBSET Models /\ thread[t].todo \ {m} \subseteq T
            /\ Others(t) \ {m} \subseteq T
        BY <1>1, <4>1 DEF Bounds, At
      <4>. HIDE DEF T
      <4>6. Others(t)' = Others(t)
        BY <1>1, <2>5 DEF Others, Model
      <4>7. Cardinality(T) <= Limit - 1 + (thread[t].excess - 1)
        BY <4>4 DEF T
      <4>8. PICK U \in SUBSET Models : U = T
        BY <4>5
      <4>9. Bounds(U, t)'
        BY <2>5, <4>5, <4>6, <4>7, <4>8 DEF Bounds, At, Victim
      <4>10. QED
        BY <4>9
    <3>8. QED
      BY <3>1, <3>2, <3>3, <3>4, <3>5, <3>6, <3>7 DEF Fits
  <2>12. QED
    BY <2>7, <2>8, <2>9, <2>10, <2>11, StepInv
<1>5. QED
  BY <1>3, <1>4

\* A listing gives models_mutex_ back and ends.
LEMMA ListEndInv ==
  ASSUME Inv, NEW t \in Threads, ListEnd(t)
  PROVE  Inv'
<1>. /\ t \in Handlers \/ t \in Sweepers
     /\ ~(t \in Handlers /\ t \in Sweepers)
     /\ Nobody \notin Threads \cup Models /\ Limit \in Nat
     /\ thread \in [Threads -> Thread] /\ thread[t] \in Thread
     /\ Fits(t)
  BY Before
<1>1. "done" \in Steps /\ Go(t, "done")
  BY DEF Steps, ListEnd
<1>2. /\ thread' \in [Threads -> Thread] /\ thread'[t] = Ended
      /\ \A u \in Threads \ {t} : thread'[u] = thread[u]
  BY <1>1, GoProps
<1>3. ASSUME NEW u \in Threads \ {t} PROVE Spares(u)
  BY <1>2 DEF Spares, Fits, LocksFit, ListEnd, registry, guards
<1>4. TypeOK'
  BY <1>2 DEF Inv, TypeOK, Fits, JobFits, NamesFit, GuardsFit, OwnsModel, HeldGuards,
         Models, Threads, ListEnd, At, Is, Model, Victim, registry, guards, mutexes,
         Thread, Loading, Leaving
<1>5. HeldGuards'
  BY DEF Inv, HeldGuards, ListEnd, registry, guards
<1>6. ResidentLimit'
  BY DEF Inv, ResidentLimit, ListEnd, registry
<1>7. Fits(t)'
  BY <1>2, EndedFits DEF Fits, JobFits, GuardsFit, LocksFit, ListEnd, At, guards,
         Evicts, Loading, Leaving
<1>8. QED
  BY <1>3, <1>4, <1>5, <1>6, <1>7, StepInv

\* A lookup finds a registered model, or a load goes on with a new one.
LEMMA FindInv ==
  ASSUME Inv, NEW t \in Threads, Find(t)
  PROVE  Inv'
<1>. /\ t \in Handlers \/ t \in Sweepers
     /\ ~(t \in Handlers /\ t \in Sweepers)
     /\ Nobody \notin Threads \cup Models /\ Limit \in Nat
     /\ thread \in [Threads -> Thread] /\ thread[t] \in Thread
     /\ Fits(t)
  BY Before
<1>. DEFINE step == IF Model(t) \in registered THEN "metadata"
                    ELSE IF Is(t, {"load"}) THEN "ensure" ELSE "done"
<1>1. step \in Steps /\ Go(t, step)
  BY DEF Steps, Find
<1>2. \/ step = "metadata" /\ Model(t) \in registered
      \/ step = "ensure" /\ Is(t, {"load"}) /\ Model(t) \notin registered
      \/ step = "done"
  OBVIOUS
<1>3. At(t, "find") /\ UNCHANGED <<registry, guards, mutexes>>
  BY DEF Find
<1>. HIDE DEF step
<1>4. /\ thread' \in [Threads -> Thread] /\ \A u \in Threads \ {t} : thread'[u] = thread[u]
      /\ step = "done" => thread'[t] = Ended
      /\ step # "done" =>
           /\ thread'[t].at = step /\ thread'[t].kind = thread[t].kind
           /\ thread'[t].model = thread[t].model /\ thread'[t].victim = thread[t].victim
           /\ thread'[t].todo = thread[t].todo /\ thread'[t].excess = thread[t].excess
  BY <1>1, GoProps
<1>5. CASE step = "done"
  <2>1. Fits(t)'
    BY <1>4, <1>3, <1>5, EndedFits DEF Fits, JobFits, GuardsFit, LocksFit, At, guards,
           mutexes, Evicts, Loading, Leaving
  <2>2. QED
    BY <1>4, <1>3, <2>1, QuietStep
<1>6. CASE step # "done"
  <2>. Victim(t) = Nobody /\ t \in Handlers /\ Model(t) \in Models
    BY <1>3 DEF Fits, JobFits, At, Leaving
  <2>1. JobFits(t)'
    BY <1>4, <1>3, <1>6, <1>2 DEF Fits, JobFits, Loading, At, Is, Model, Victim
  <2>2. NamesFit(t)'
    BY <1>4, <1>3, <1>6, <1>2 DEF Fits, NamesFit, Inv, TypeOK, Loading, Models, At,
           Model, Victim, registry
  <2>3. GuardsFit(t)'
    BY <1>4, <1>3, <1>6, <1>2 DEF Fits, GuardsFit, Evicts, OwnsModel, Loading, Leaving,
           At, Is, Victim, guards
  <2>4. LocksFit(t)'
    BY <1>4, <1>3, <1>6, <1>2 DEF Fits, LocksFit, GuardsFit, Evicts, Loading, Leaving,
           At, Victim, mutexes
  <2>5. StampsFit(t)'
    BY <1>4, <1>6, <1>2 DEF StampsFit, OwnsModel, Loading, Leaving, At, Is
  <2>6. SessionFits(t)'
    BY <1>4, <1>6, <1>2 DEF SessionFits, At
  <2>7. RoomFits(t)'
    BY <1>4, <1>6, <1>2 DEF RoomFits, Evicts, At, Victim
  <2>8. Fits(t)'
    BY <2>1, <2>2, <2>3, <2>4, <2>5, <2>6, <2>7 DEF Fits
  <2>9. QED
    BY <1>4, <1>3, <2>8, QuietStep
<1>7. QED
  BY <1>5, <1>6

\* Reading the timeout takes no lock along.
LEMMA ReadTimeoutInv ==
  ASSUME Inv, NEW t \in Threads, ReadTimeout(t)
  PROVE  Inv'
<1>. /\ t \in Handlers \/ t \in Sweepers
     /\ ~(t \in Handlers /\ t \in Sweepers)
     /\ Nobody \notin Threads \cup Models /\ Limit \in Nat
     /\ thread \in [Threads -> Thread] /\ thread[t] \in Thread
     /\ Fits(t)
  BY Before
<1>1. "guard" \in Steps /\ Go(t, "guard")
  BY DEF Steps, ReadTimeout
<1>2. /\ thread' \in [Threads -> Thread] /\ \A u \in Threads \ {t} : thread'[u] = thread[u]
      /\ thread'[t].at = "guard" /\ thread'[t].kind = thread[t].kind
      /\ thread'[t].model = thread[t].model /\ thread'[t].victim = thread[t].victim
      /\ thread'[t].todo = thread[t].todo /\ thread'[t].excess = thread[t].excess
  BY <1>1, GoProps
<1>3. Fits(t)'
  <2>1. JobFits(t)'
    BY <1>2 DEF Fits, JobFits, Loading, Leaving, ReadTimeout, At, Is, Model, Victim
  <2>2. NamesFit(t)'
    BY <1>2 DEF Fits, NamesFit, JobFits, Loading, Leaving, ReadTimeout, At, Model,
           Victim, registry
  <2>3. GuardsFit(t)'
    BY <1>2 DEF Fits, GuardsFit, Evicts, JobFits, OwnsModel, Loading, Leaving,
           ReadTimeout, At, Victim, guards
  <2>4. LocksFit(t)'
    BY <1>2 DEF Fits, LocksFit, Evicts, ReadTimeout, At, Victim, mutexes
  <2>5. StampsFit(t)'
    BY <1>2 DEF StampsFit, OwnsModel, Loading, Leaving, At
  <2>6. SessionFits(t)'
    BY <1>2 DEF SessionFits, At
  <2>7. RoomFits(t)'
    BY <1>2 DEF Fits, RoomFits, JobFits, Evicts, Leaving, ReadTimeout, At, Victim
  <2>8. QED
    BY <2>1, <2>2, <2>3, <2>4, <2>5, <2>6, <2>7 DEF Fits
<1>4. QED
  BY <1>2, <1>3, QuietStep DEF ReadTimeout

\* A bounded request that fails at once holds no lock.
LEMMA FailFastInv ==
  ASSUME Inv, NEW t \in Threads, FailFast(t)
  PROVE  Inv'
<1>. /\ t \in Handlers \/ t \in Sweepers
     /\ ~(t \in Handlers /\ t \in Sweepers)
     /\ Nobody \notin Threads \cup Models /\ Limit \in Nat
     /\ thread \in [Threads -> Thread] /\ thread[t] \in Thread
     /\ Fits(t)
  BY Before
<1>1. "done" \in Steps /\ Go(t, "done")
  BY DEF Steps, FailFast
<1>2. /\ thread' \in [Threads -> Thread] /\ thread'[t] = Ended
      /\ \A u \in Threads \ {t} : thread'[u] = thread[u]
  BY <1>1, GoProps
<1>3. Fits(t)'
  BY <1>2, EndedFits DEF Fits, JobFits, GuardsFit, LocksFit, FailFast, At, guards,
         mutexes, Evicts, Loading, Leaving
<1>4. QED
  BY <1>2, <1>3, QuietStep DEF FailFast

\* A request that begins to wait holds no lock.
LEMMA AwaitInv ==
  ASSUME Inv, NEW t \in Threads, Await(t)
  PROVE  Inv'
<1>. /\ t \in Handlers \/ t \in Sweepers
     /\ ~(t \in Handlers /\ t \in Sweepers)
     /\ Nobody \notin Threads \cup Models /\ Limit \in Nat
     /\ thread \in [Threads -> Thread] /\ thread[t] \in Thread
     /\ Fits(t)
  BY Before
<1>1. "wait" \in Steps /\ Go(t, "wait")
  BY DEF Steps, Await
<1>2. /\ thread' \in [Threads -> Thread] /\ \A u \in Threads \ {t} : thread'[u] = thread[u]
      /\ thread'[t].at = "wait" /\ thread'[t].kind = thread[t].kind
      /\ thread'[t].model = thread[t].model /\ thread'[t].victim = thread[t].victim
      /\ thread'[t].todo = thread[t].todo /\ thread'[t].excess = thread[t].excess
  BY <1>1, GoProps
<1>3. Fits(t)'
  <2>1. JobFits(t)'
    BY <1>2 DEF Fits, JobFits, Loading, Leaving, Await, At, Is, Model, Victim
  <2>2. NamesFit(t)'
    BY <1>2 DEF Fits, NamesFit, JobFits, Loading, Leaving, Await, At, Model, Victim,
           registry
  <2>3. GuardsFit(t)'
    BY <1>2 DEF Fits, GuardsFit, Evicts, JobFits, OwnsModel, Loading, Leaving, Await,
           At, Victim, guards
  <2>4. LocksFit(t)'
    BY <1>2 DEF Fits, LocksFit, GuardsFit, Evicts, Loading, Leaving, Await, At, Victim,
           mutexes
  <2>5. StampsFit(t)'
    BY <1>2 DEF StampsFit, OwnsModel, Loading, Leaving, At
  <2>6. SessionFits(t)'
    BY <1>2 DEF SessionFits, At
  <2>7. RoomFits(t)'
    BY <1>2 DEF Fits, RoomFits, JobFits, Evicts, Leaving, Await, At, Victim
  <2>8. QED
    BY <2>1, <2>2, <2>3, <2>4, <2>5, <2>6, <2>7 DEF Fits
<1>4. QED
  BY <1>2, <1>3, QuietStep DEF Await

\* A request whose wait times out holds no lock.
LEMMA TimeOutInv ==
  ASSUME Inv, NEW t \in Threads, TimeOut(t)
  PROVE  Inv'
<1>. /\ t \in Handlers \/ t \in Sweepers
     /\ ~(t \in Handlers /\ t \in Sweepers)
     /\ Nobody \notin Threads \cup Models /\ Limit \in Nat
     /\ thread \in [Threads -> Thread] /\ thread[t] \in Thread
     /\ Fits(t)
  BY Before
<1>1. "done" \in Steps /\ Go(t, "done")
  BY DEF Steps, TimeOut
<1>2. /\ thread' \in [Threads -> Thread] /\ thread'[t] = Ended
      /\ \A u \in Threads \ {t} : thread'[u] = thread[u]
  BY <1>1, GoProps
<1>3. Fits(t)'
  BY <1>2, EndedFits DEF Fits, JobFits, GuardsFit, LocksFit, TimeOut, At, guards,
         mutexes, Evicts, Loading, Leaving
<1>4. QED
  BY <1>2, <1>3, QuietStep DEF TimeOut

\* A request that gets the guard owns it and stamps it.
LEMMA LockGuardInv ==
  ASSUME Inv, NEW t \in Threads, LockGuard(t)
  PROVE  Inv'
<1>. /\ t \in Handlers \/ t \in Sweepers
     /\ ~(t \in Handlers /\ t \in Sweepers)
     /\ Nobody \notin Threads \cup Models /\ Limit \in Nat
     /\ thread \in [Threads -> Thread] /\ thread[t] \in Thread
     /\ Fits(t)
  BY Before
<1>. DEFINE place == IF Is(t, {"run"}) THEN "ensure" ELSE "locked"
            r == [thread[t] EXCEPT !.at = place, !.bounded = FALSE]
<1>1. /\ (place = "ensure" /\ Is(t, {"run"})) \/ (place = "locked" /\ ~Is(t, {"run"}))
      /\ place \in {"ensure", "locked"} /\ place \in Steps
  BY DEF Steps
<1>2. Become(t, r)
  BY DEF LockGuard
<1>3. /\ At(t, "wait") /\ holder[Model(t)] = Nobody
      /\ holder' = [holder EXCEPT ![Model(t)] = t]
      /\ stamped' = stamped \cup {Model(t)}
      /\ UNCHANGED <<registered, loaded, metadata, modelsMutex, loadMutex>>
  BY DEF LockGuard, registry, mutexes
<1>4. /\ t \in Handlers /\ Victim(t) = Nobody /\ Model(t) \in registered
      /\ Model(t) \in Models
      /\ Is(t, {"run", "load", "unload", "bulk"}) /\ Model(t) \notin stamped
  BY <1>3 DEF Inv, HeldGuards, TypeOK, Fits, JobFits, NamesFit, At, Leaving, Is, Kinds,
         Requests
<1>. HIDE DEF place
<1>5. /\ r \in Thread
      /\ r.at = place /\ r.kind = thread[t].kind /\ r.model = thread[t].model
      /\ r.victim = thread[t].victim /\ r.todo = thread[t].todo
      /\ r.excess = thread[t].excess
  BY <1>1 DEF Thread
<1>. HIDE DEF r
<1>6. /\ thread' \in [Threads -> Thread] /\ \A u \in Threads \ {t} : thread'[u] = thread[u]
      /\ thread'[t].at = place /\ thread'[t].kind = thread[t].kind
      /\ thread'[t].model = thread[t].model /\ thread'[t].victim = thread[t].victim
      /\ thread'[t].todo = thread[t].todo /\ thread'[t].excess = thread[t].excess
  BY <1>1, <1>2, <1>5, BecomeProps
<1>7. ASSUME NEW u \in Threads \ {t} PROVE Spares(u)
  BY <1>6, <1>3 DEF Spares
<1>8. TypeOK'
  BY <1>6, <1>3, <1>4 DEF Inv, TypeOK, Thread
<1>9. HeldGuards'
  BY <1>3, <1>4 DEF Inv, TypeOK, HeldGuards
<1>10. ResidentLimit'
  BY <1>3 DEF Inv, ResidentLimit
<1>11. Fits(t)'
  <2>1. JobFits(t)'
    BY <1>6, <1>1, <1>4 DEF JobFits, Loading, At, Is, Model, Victim
  <2>2. NamesFit(t)'
    BY <1>6, <1>1, <1>3, <1>4 DEF Fits, NamesFit, Loading, At, Is, Victim
  <2>3. GuardsFit(t)'
    BY <1>6, <1>1, <1>3, <1>4 DEF Fits, GuardsFit, Evicts, Inv, TypeOK, Loading, At, Is,
           Model, Victim
  <2>4. LocksFit(t)'
    BY <1>6, <1>1, <1>3 DEF Fits, LocksFit, Evicts, At, Victim
  <2>5. StampsFit(t)'
    BY <1>6, <1>1, <1>3 DEF StampsFit, At, Model
  <2>6. SessionFits(t)'
    BY <1>6, <1>1 DEF SessionFits, At
  <2>7. RoomFits(t)'
    BY <1>6, <1>1, <1>4 DEF RoomFits, Evicts, At, Victim
  <2>8. QED
    BY <2>1, <2>2, <2>3, <2>4, <2>5, <2>6, <2>7 DEF Fits
<1>12. QED
  BY <1>7, <1>8, <1>9, <1>10, <1>11, StepInv

\* The time is cleared, and a load's metadata_mutex given back, by the thread
\* that holds the guard.
LEMMA ClearStampInv ==
  ASSUME Inv, NEW t \in Threads, ClearStamp(t)
  PROVE  Inv'
<1>. /\ t \in Handlers \/ t \in Sweepers
     /\ ~(t \in Handlers /\ t \in Sweepers)
     /\ Nobody \notin Threads \cup Models /\ Limit \in Nat
     /\ thread \in [Threads -> Thread] /\ thread[t] \in Thread
     /\ Fits(t)
  BY Before
<1>1. "unlock" \in Steps /\ Go(t, "unlock")
  BY DEF Steps, ClearStamp
<1>2. /\ thread' \in [Threads -> Thread] /\ \A u \in Threads \ {t} : thread'[u] = thread[u]
      /\ thread'[t].at = "unlock" /\ thread'[t].kind = thread[t].kind
      /\ thread'[t].model = thread[t].model /\ thread'[t].victim = thread[t].victim
      /\ thread'[t].todo = thread[t].todo /\ thread'[t].excess = thread[t].excess
  BY <1>1, GoProps
<1>3. /\ At(t, "release") /\ stamped' = stamped \ {Held(t)}
      /\ metadata' = [metadata EXCEPT ![Held(t)] = IF @ = t THEN Nobody ELSE @]
      /\ UNCHANGED <<registered, loaded, holder, modelsMutex, loadMutex>>
  BY DEF ClearStamp, registry
<1>4. /\ Held(t) \in Models /\ holder[Held(t)] = t
      /\ \/ Held(t) = Model(t) /\ Victim(t) = Nobody
         \/ Held(t) = Victim(t) /\ Victim(t) # Nobody
  BY <1>3, HeldGuard DEF At, Leaving
<1>5. Held(t)' = Held(t)
  BY <1>2 DEF Held, Model, Victim
<1>6. /\ metadata' \in [Models -> Handlers \cup {Nobody}] /\ metadata'[Held(t)] # t
      /\ \A m \in Models : metadata'[m] # Nobody => metadata'[m] = metadata[m]
      /\ \A m \in Models : metadata[m] # t => metadata'[m] = metadata[m]
  BY <1>3, <1>4 DEF Inv, TypeOK
<1>7. ASSUME NEW u \in Threads \ {t} PROVE Spares(u)
  BY <1>2, <1>3, <1>4 DEF Spares
<1>8. TypeOK'
  BY <1>2, <1>3, <1>6 DEF Inv, TypeOK, Thread
<1>9. HeldGuards'
  BY <1>3 DEF Inv, HeldGuards
<1>10. ResidentLimit'
  BY <1>3 DEF Inv, ResidentLimit
<1>11. Fits(t)'
  <2>1. JobFits(t)'
    BY <1>2, <1>3 DEF Fits, JobFits, Loading, Leaving, At, Is, Model, Victim
  <2>2. NamesFit(t)'
    BY <1>2, <1>3, <1>4 DEF Fits, NamesFit, At, Is, Model, Victim
  <2>3. GuardsFit(t)'
    BY <1>2, <1>3 DEF Fits, GuardsFit, Evicts, OwnsModel, Leaving, At, Is, Model, Victim
  <2>4. LocksFit(t)'
    BY <1>2, <1>3, <1>4, <1>6 DEF Fits, LocksFit, Evicts, At, Is, Model, Victim
  <2>5. StampsFit(t)'
    BY <1>2, <1>3, <1>4, <1>5 DEF Fits, StampsFit, JobFits, GuardsFit, OwnsModel, At,
           Is, Model, Victim
  <2>6. SessionFits(t)'
    BY <1>2 DEF SessionFits, At
  <2>7. RoomFits(t)'
    BY <1>2, <1>3 DEF Fits, RoomFits, Bounds, Others, Evicts, At, Model, Victim
  <2>8. QED
    BY <2>1, <2>2, <2>3, <2>4, <2>5, <2>6, <2>7 DEF Fits
<1>12. QED
  BY <1>7, <1>8, <1>9, <1>10, <1>11, StepInv

\* A guard is free only after its time was cleared, and its thread has no
\* other or goes on without it.
LEMMA UnlockGuardInv ==
  ASSUME Inv, NEW t \in Threads, UnlockGuard(t)
  PROVE  Inv'
<1>. /\ t \in Handlers \/ t \in Sweepers
     /\ ~(t \in Handlers /\ t \in Sweepers)
     /\ Nobody \notin Threads \cup Models /\ Limit \in Nat
     /\ thread \in [Threads -> Thread] /\ thread[t] \in Thread
     /\ Fits(t)
  BY Before
<1>. DEFINE place == IF Victim(t) # Nobody THEN "evict"
                     ELSE IF Is(t, {"bulk"}) THEN "next" ELSE "done"
            r == [thread[t] EXCEPT !.victim = Nobody, !.at = place]
<1>1. /\ \/ place = "evict" /\ Victim(t) # Nobody
         \/ place = "next" /\ Victim(t) = Nobody /\ Is(t, {"bulk"})
         \/ place = "done" /\ Victim(t) = Nobody
      /\ place \in Steps
  BY DEF Steps
<1>2. Become(t, r)
  BY DEF UnlockGuard
<1>3. /\ At(t, "unlock") /\ holder' = [holder EXCEPT ![Held(t)] = Nobody]
      /\ UNCHANGED <<registered, loaded, stamped, metadata, modelsMutex, loadMutex>>
  BY DEF UnlockGuard, registry, mutexes
<1>4. /\ Held(t) \in Models /\ holder[Held(t)] = t
      /\ \/ Held(t) = Model(t) /\ Victim(t) = Nobody
         \/ Held(t) = Victim(t) /\ Victim(t) # Nobody
      /\ Held(t) \notin stamped /\ metadata[Held(t)] # t
  <2>1. /\ Held(t) \in Models /\ holder[Held(t)] = t
        /\ \/ Held(t) = Model(t) /\ Victim(t) = Nobody
           \/ Held(t) = Victim(t) /\ Victim(t) # Nobody
    BY <1>3, HeldGuard DEF At, Leaving
  <2>2. QED
    BY <1>3, <2>1 DEF Fits, StampsFit, LocksFit
<1>. HIDE DEF place
<1>5. /\ r \in Thread
      /\ r.at = place /\ r.kind = thread[t].kind /\ r.model = thread[t].model
      /\ r.victim = Nobody /\ r.todo = thread[t].todo /\ r.excess = thread[t].excess
  BY <1>1 DEF Thread
<1>. HIDE DEF r
<1>6. /\ thread' \in [Threads -> Thread] /\ \A u \in Threads \ {t} : thread'[u] = thread[u]
      /\ place = "done" => thread'[t] = Ended
      /\ place # "done" =>
           /\ thread'[t].at = place /\ thread'[t].kind = thread[t].kind
           /\ thread'[t].model = thread[t].model /\ thread'[t].victim = Nobody
           /\ thread'[t].todo = thread[t].todo /\ thread'[t].excess = thread[t].excess
  BY <1>2, <1>5, BecomeProps
<1>7. ASSUME NEW u \in Threads \ {t} PROVE Spares(u)
  BY <1>6, <1>3, <1>4 DEF Spares
<1>8. TypeOK'
  BY <1>6, <1>3, <1>4 DEF Inv, TypeOK, Thread
<1>9. HeldGuards'
  BY <1>3, <1>4 DEF Inv, HeldGuards
<1>10. ResidentLimit'
  BY <1>3 DEF Inv, ResidentLimit
<1>11. Fits(t)'
  <2>1. CASE place = "done"
    BY <1>6, <1>1, <1>3, <1>4, <2>1, EndedFits DEF Inv, TypeOK, Fits, GuardsFit,
           LocksFit, Evicts, At
  <2>2. CASE place # "done"
    <3>1. JobFits(t)'
      BY <1>6, <1>1, <1>3, <2>2 DEF Fits, JobFits, Loading, At, Is, Model, Victim
    <3>2. NamesFit(t)'
      BY <1>6, <1>1, <1>3, <1>4, <2>2 DEF Fits, NamesFit, At, Is, Model, Victim
    <3>3. GuardsFit(t)'
      BY <1>6, <1>1, <1>3, <1>4, <2>2 DEF Fits, GuardsFit, Evicts, Inv, TypeOK,
             OwnsModel, Loading, Leaving, At, Is, Model, Victim
    <3>4. LocksFit(t)'
      BY <1>6, <1>1, <1>3, <1>4, <2>2 DEF Fits, LocksFit, Evicts, At, Is, Model, Victim
    <3>5. StampsFit(t)'
      BY <1>6, <1>1, <1>3, <2>2 DEF Fits, StampsFit, JobFits, OwnsModel, At, Is, Model
    <3>6. SessionFits(t)'
      BY <1>6, <1>1, <2>2 DEF SessionFits, At
    <3>7. RoomFits(t)'
      BY <1>6, <1>1, <1>3, <2>2 DEF Fits, RoomFits, Bounds, Others, Evicts, At, Model,
             Victim
    <3>8. QED
      BY <3>1, <3>2, <3>3, <3>4, <3>5, <3>6, <3>7 DEF Fits
  <2>3. QED
    BY <2>1, <2>2
<1>12. QED
  BY <1>7, <1>8, <1>9, <1>10, <1>11, StepInv

\* A load of a registered model takes its metadata_mutex, inside its guard.
LEMMA ReconfigureInv ==
  ASSUME Inv, NEW t \in Threads, NEW changed \in BOOLEAN, Reconfigure(t, changed)
  PROVE  Inv'
<1>. /\ t \in Handlers \/ t \in Sweepers
     /\ ~(t \in Handlers /\ t \in Sweepers)
     /\ Nobody \notin Threads \cup Models /\ Limit \in Nat
     /\ thread \in [Threads -> Thread] /\ thread[t] \in Thread
     /\ Fits(t)
  BY Before
<1>1. "ensure" \in Steps /\ Go(t, "ensure")
  BY DEF Steps, Reconfigure
<1>2. /\ thread' \in [Threads -> Thread] /\ \A u \in Threads \ {t} : thread'[u] = thread[u]
      /\ thread'[t].at = "ensure" /\ thread'[t].kind = thread[t].kind
      /\ thread'[t].model = thread[t].model /\ thread'[t].victim = thread[t].victim
      /\ thread'[t].todo = thread[t].todo /\ thread'[t].excess = thread[t].excess
  BY <1>1, GoProps
<1>3. ASSUME NEW u \in Threads \ {t} PROVE Spares(u)
  BY <1>2 DEF Spares, Fits, GuardsFit, OwnsModel, Reconfigure, guards
<1>4. TypeOK'
  BY <1>2 DEF Inv, TypeOK, Fits, JobFits, NamesFit, GuardsFit, OwnsModel, HeldGuards,
         Models, Threads, Reconfigure, At, Is, Model, Victim, registry, guards, mutexes,
         Thread, Loading, Leaving
<1>5. HeldGuards'
  BY DEF Inv, HeldGuards, Reconfigure, guards
<1>6. ResidentLimit'
  BY ModelsAreFinite, FS_Subset DEF Inv, TypeOK, ResidentLimit, Reconfigure
<1>7. Fits(t)'
  <2>1. JobFits(t)'
    BY <1>2 DEF Fits, JobFits, Leaving, Reconfigure, At, Is, Model, Victim
  <2>2. NamesFit(t)'
    BY <1>2 DEF Fits, NamesFit, GuardsFit, OwnsModel, Reconfigure, At, Model, Victim,
           guards
  <2>3. GuardsFit(t)'
    BY <1>2 DEF Fits, GuardsFit, OwnsModel, Loading, Reconfigure, Is, Model, Victim,
           guards
  <2>4. LocksFit(t)'
    BY <1>2 DEF Fits, LocksFit, JobFits, GuardsFit, OwnsModel, Evicts, Leaving,
           Reconfigure, At, Is, Model, Victim, guards
  <2>5. StampsFit(t)'
    BY <1>2 DEF StampsFit, Reconfigure, At, Is
  <2>6. SessionFits(t)'
    BY <1>2 DEF SessionFits, At
  <2>7. RoomFits(t)'
    BY <1>2 DEF Fits, RoomFits, JobFits, Evicts, Leaving, Reconfigure, At, Victim
  <2>8. QED
    BY <2>1, <2>2, <2>3, <2>4, <2>5, <2>6, <2>7 DEF Fits
<1>8. QED
  BY <1>3, <1>4, <1>5, <1>6, <1>7, StepInv

\* A model that is in memory is run at once; others are loaded under the
\* limit's mutex, if there is a limit.
LEMMA EnsureInv ==
  ASSUME Inv, NEW t \in Threads, Ensure(t)
  PROVE  Inv'
<1>. /\ t \in Handlers \/ t \in Sweepers
     /\ ~(t \in Handlers /\ t \in Sweepers)
     /\ Nobody \notin Threads \cup Models /\ Limit \in Nat
     /\ thread \in [Threads -> Thread] /\ thread[t] \in Thread
     /\ Fits(t)
  BY Before
<1>. DEFINE step == IF ~Creates(t) /\ Model(t) \in loaded THEN AfterLoad(t)
                    ELSE IF Limit > 0 THEN "loadMutex" ELSE "loading"
<1>1. step \in Steps /\ Go(t, step)
  BY DEF Steps, Ensure, AfterLoad
<1>2. \/ step = "run" /\ Is(t, {"run"}) /\ Model(t) \in loaded
      \/ step = "release" /\ ~Is(t, {"run"}) /\ ~Creates(t)
      \/ step = "loadMutex" /\ Limit > 0
      \/ step = "loading" /\ ~(Limit > 0)
  BY DEF AfterLoad
<1>3. At(t, "ensure") /\ UNCHANGED <<registry, guards, mutexes>>
  BY DEF Ensure
<1>. HIDE DEF step
<1>4. step # "done"
  BY <1>2
<1>5. /\ thread' \in [Threads -> Thread] /\ \A u \in Threads \ {t} : thread'[u] = thread[u]
      /\ step = "done" => thread'[t] = Ended
      /\ step # "done" =>
           /\ thread'[t].at = step /\ thread'[t].kind = thread[t].kind
           /\ thread'[t].model = thread[t].model /\ thread'[t].victim = thread[t].victim
           /\ thread'[t].todo = thread[t].todo /\ thread'[t].excess = thread[t].excess
  BY <1>1, GoProps
<1>6. Fits(t)'
  <2>1. JobFits(t)'
    BY <1>5, <1>3, <1>2 DEF Fits, JobFits, Loading, Leaving, At, Is, Model, Victim
  <2>2. NamesFit(t)'
    BY <1>5, <1>3, <1>2 DEF Fits, NamesFit, Loading, At, Is, Model, Victim, registry,
           guards
  <2>3. GuardsFit(t)'
    BY <1>5, <1>3, <1>2 DEF Fits, GuardsFit, Evicts, JobFits, OwnsModel, Loading,
           Leaving, At, Is, Model, Victim, guards, Creates
  <2>4. LocksFit(t)'
    BY <1>5, <1>3, <1>2 DEF Fits, LocksFit, Evicts, At, Is, Model, Victim, guards,
           mutexes
  <2>5. StampsFit(t)'
    BY <1>5, <1>3, <1>2 DEF Fits, StampsFit, OwnsModel, Loading, At, Is, Model, guards
  <2>6. SessionFits(t)'
    BY <1>5, <1>3, <1>2 DEF SessionFits, At, Model, registry
  <2>7. RoomFits(t)'
    BY <1>5, <1>3, <1>2 DEF Fits, RoomFits, JobFits, Evicts, Leaving, At, Victim
  <2>8. QED
    BY <2>1, <2>2, <2>3, <2>4, <2>5, <2>6, <2>7 DEF Fits
<1>7. QED
  BY <1>5, <1>3, <1>6, QuietStep

\* One thread at a time is inside model_load_mutex_.
LEMMA TakeLoadMutexInv ==
  ASSUME Inv, NEW t \in Threads, TakeLoadMutex(t)
  PROVE  Inv'
<1>. /\ t \in Handlers \/ t \in Sweepers
     /\ ~(t \in Handlers /\ t \in Sweepers)
     /\ Nobody \notin Threads \cup Models /\ Limit \in Nat
     /\ thread \in [Threads -> Thread] /\ thread[t] \in Thread
     /\ Fits(t)
  BY Before
<1>1. "residents" \in Steps /\ Go(t, "residents")
  BY DEF Steps, TakeLoadMutex
<1>2. /\ thread' \in [Threads -> Thread] /\ \A u \in Threads \ {t} : thread'[u] = thread[u]
      /\ thread'[t].at = "residents" /\ thread'[t].kind = thread[t].kind
      /\ thread'[t].model = thread[t].model /\ thread'[t].victim = thread[t].victim
      /\ thread'[t].todo = thread[t].todo /\ thread'[t].excess = thread[t].excess
  BY <1>1, GoProps
<1>3. ASSUME NEW u \in Threads \ {t} PROVE Spares(u)
  BY <1>2 DEF Spares, TakeLoadMutex, registry, guards
<1>4. TypeOK'
  BY <1>2 DEF Inv, TypeOK, Fits, JobFits, NamesFit, GuardsFit, OwnsModel, HeldGuards,
         Models, Threads, TakeLoadMutex, At, Is, Model, Victim, registry, guards,
         mutexes, Thread, Loading, Leaving
<1>5. HeldGuards'
  BY DEF Inv, HeldGuards, TakeLoadMutex, registry, guards
<1>6. ResidentLimit'
  BY DEF Inv, ResidentLimit, TakeLoadMutex, registry
<1>7. Fits(t)'
  <2>1. JobFits(t)'
    BY <1>2 DEF Fits, JobFits, Loading, Leaving, TakeLoadMutex, At, Is, Model, Victim
  <2>2. NamesFit(t)'
    BY <1>2 DEF Fits, NamesFit, Loading, TakeLoadMutex, At, Is, Model, Victim, registry,
           guards
  <2>3. GuardsFit(t)'
    BY <1>2 DEF Fits, GuardsFit, Evicts, OwnsModel, Loading, Leaving, TakeLoadMutex, At,
           Is, Model, Victim, guards
  <2>4. LocksFit(t)'
    BY <1>2 DEF Fits, LocksFit, TakeLoadMutex, At, Is, Model, Victim, guards
  <2>5. StampsFit(t)'
    BY <1>2 DEF Fits, StampsFit, OwnsModel, Loading, TakeLoadMutex, At, Is, Model,
           guards
  <2>6. SessionFits(t)'
    BY <1>2 DEF SessionFits, At
  <2>7. RoomFits(t)'
    BY <1>2 DEF Fits, RoomFits, LocksFit, Evicts, TakeLoadMutex, At, Victim
  <2>8. QED
    BY <2>1, <2>2, <2>3, <2>4, <2>5, <2>6, <2>7 DEF Fits
<1>8. QED
  BY <1>3, <1>4, <1>5, <1>6, <1>7, StepInv

\* An eviction begins with the models that are in memory, so many of which
\* are too many.
LEMMA ListResidentsInv ==
  ASSUME Inv, NEW t \in Threads, ListResidents(t)
  PROVE  Inv'
<1>. /\ t \in Handlers \/ t \in Sweepers
     /\ ~(t \in Handlers /\ t \in Sweepers)
     /\ Nobody \notin Threads \cup Models /\ Limit \in Nat
     /\ thread \in [Threads -> Thread] /\ thread[t] \in Thread
     /\ Fits(t)
  BY Before
<1>. DEFINE others == IF Creates(t) THEN loaded ELSE loaded \ {Model(t)}
<1>. DEFINE r == [thread[t] EXCEPT !.at = "evict", !.todo = others,
                                   !.excess = Cardinality(others) - (Limit - 1)]
<1>1. /\ r \in Thread /\ Become(t, r)
      /\ r.at = "evict" /\ r.kind = thread[t].kind /\ r.model = thread[t].model
      /\ r.victim = thread[t].victim /\ r.todo = others
      /\ r.excess = Cardinality(others) - (Limit - 1)
  <2>1. /\ others \in SUBSET Models /\ Limit > 0
        /\ Cardinality(others) - (Limit - 1) \in -Limit .. Cardinality(Models)
    <3>1. others \in SUBSET Models
      BY DEF Inv, TypeOK
    <3>2. Limit > 0
      BY DEF Fits, LocksFit, JobFits, At, ListResidents, Leaving
    <3>3. Cardinality(others) \in Nat /\ Cardinality(others) <= Cardinality(Models)
          /\ Cardinality(Models) \in Nat
      BY <3>1, ModelsAreFinite
    <3>4. QED
      BY <3>1, <3>2, <3>3
  <2>2. Become(t, r)
    BY DEF ListResidents
  <2>. HIDE DEF others
  <2>3. QED
    BY <2>1, <2>2 DEF Thread, Steps
<1>. HIDE DEF r
<1>2. /\ thread' \in [Threads -> Thread] /\ \A u \in Threads \ {t} : thread'[u] = thread[u]
      /\ thread'[t].at = "evict" /\ thread'[t].kind = thread[t].kind
      /\ thread'[t].model = thread[t].model
      /\ thread'[t].victim = thread[t].victim /\ thread'[t].todo = others
      /\ thread'[t].excess = Cardinality(others) - (Limit - 1)
  BY <1>1, BecomeProps
<1>3. Fits(t)'
  <2>1. JobFits(t)'
    BY <1>2 DEF Fits, JobFits, Loading, Leaving, ListResidents, At, Is, Model, Victim
  <2>2. NamesFit(t)'
    BY <1>2 DEF Inv, TypeOK, Fits, NamesFit, Loading, ListResidents, At, Is, Model,
           Victim, registry, guards
  <2>3. GuardsFit(t)'
    BY <1>2 DEF Fits, GuardsFit, OwnsModel, Loading, Leaving, ListResidents, At, Is,
           Model, Victim, Creates, guards
  <2>4. LocksFit(t)'
    BY <1>2 DEF Fits, LocksFit, Evicts, ListResidents, At, Is, Model, Victim, guards,
           mutexes
  <2>5. StampsFit(t)'
    BY <1>2 DEF Fits, StampsFit, OwnsModel, Loading, ListResidents, At, Is, Model,
           guards
  <2>6. SessionFits(t)'
    BY <1>2 DEF SessionFits, At
  <2>7. RoomFits(t)'
    <3>1. others \in SUBSET Models /\ Limit > 0 /\ Cardinality(others) \in Nat
      <4>1. others \in SUBSET Models
        BY DEF Inv, TypeOK
      <4>2. Limit > 0
        BY DEF Fits, LocksFit, JobFits, At, ListResidents, Leaving
      <4>3. QED
        BY <4>1, <4>2, ModelsAreFinite
    <3>2. Others(t)' \subseteq others
      BY <1>2 DEF Others, Model, ListResidents, registry
    <3>. HIDE DEF others
    <3>3. PICK S \in SUBSET Models : S = others
      BY <3>1
    <3>4. Bounds(S, t)'
      BY <1>2, <3>1, <3>2, <3>3 DEF Bounds
    <3>5. (\E T \in SUBSET Models : Bounds(T, t))'
      BY <3>4
    <3>6. QED
      BY <1>2, <3>5 DEF RoomFits, At
  <2>8. QED
    BY <2>1, <2>2, <2>3, <2>4, <2>5, <2>6, <2>7 DEF Fits
<1>4. QED
  BY <1>2, <1>3, QuietStep DEF ListResidents

\* A victim is unloaded by the thread that holds its guard.
LEMMA UnloadVictimInv ==
  ASSUME Inv, NEW t \in Threads, UnloadVictim(t)
  PROVE  Inv'
<1>. /\ t \in Handlers \/ t \in Sweepers
     /\ ~(t \in Handlers /\ t \in Sweepers)
     /\ Nobody \notin Threads \cup Models /\ Limit \in Nat
     /\ thread \in [Threads -> Thread] /\ thread[t] \in Thread
     /\ Fits(t)
  BY Before
<1>1. "release" \in Steps /\ Go(t, "release")
  BY DEF Steps, UnloadVictim
<1>2. /\ thread' \in [Threads -> Thread] /\ \A u \in Threads \ {t} : thread'[u] = thread[u]
      /\ thread'[t].at = "release" /\ thread'[t].kind = thread[t].kind
      /\ thread'[t].model = thread[t].model /\ thread'[t].victim = thread[t].victim
      /\ thread'[t].todo = thread[t].todo /\ thread'[t].excess = thread[t].excess
  BY <1>1, GoProps
<1>3. ASSUME NEW u \in Threads \ {t} PROVE Spares(u)
  BY <1>2 DEF Spares, Fits, GuardsFit, UnloadVictim, guards, mutexes
<1>4. TypeOK'
  BY <1>2 DEF Inv, TypeOK, Fits, JobFits, NamesFit, GuardsFit, OwnsModel, HeldGuards,
         Models, Threads, UnloadVictim, At, Is, Model, Victim, registry, guards,
         mutexes, Thread, Loading, Leaving
<1>5. HeldGuards'
  BY DEF Inv, HeldGuards, UnloadVictim, guards
<1>6. ResidentLimit'
  BY ModelsAreFinite, FS_Subset DEF Inv, TypeOK, ResidentLimit, UnloadVictim
<1>7. Fits(t)'
  <2>1. JobFits(t)'
    BY <1>2 DEF Fits, JobFits, Leaving, UnloadVictim, At, Is, Model, Victim
  <2>2. NamesFit(t)'
    BY <1>2 DEF Fits, NamesFit, JobFits, UnloadVictim, At, Is, Model, Victim, guards
  <2>3. GuardsFit(t)'
    BY <1>2 DEF Fits, GuardsFit, Evicts, JobFits, OwnsModel, Loading, Leaving,
           UnloadVictim, At, Is, Model, Victim, guards
  <2>4. LocksFit(t)'
    BY <1>2 DEF Fits, LocksFit, Evicts, UnloadVictim, At, Is, Model, Victim, guards,
           mutexes
  <2>5. StampsFit(t)'
    BY <1>2 DEF Fits, StampsFit, OwnsModel, Loading, UnloadVictim, At, Is, Model, guards
  <2>6. SessionFits(t)'
    BY <1>2 DEF SessionFits, At
  <2>7. RoomFits(t)'
    BY <1>2 DEF Fits, RoomFits, JobFits, Bounds, Others, Evicts, UnloadVictim, At, Model
  <2>8. QED
    BY <2>1, <2>2, <2>3, <2>4, <2>5, <2>6, <2>7 DEF Fits
<1>8. QED
  BY <1>3, <1>4, <1>5, <1>6, <1>7, StepInv

\* A sweep that has visited all models holds no guard.
LEMMA SweepEndInv ==
  ASSUME Inv, NEW t \in Threads, SweepEnd(t)
  PROVE  Inv'
<1>. /\ t \in Handlers \/ t \in Sweepers
     /\ ~(t \in Handlers /\ t \in Sweepers)
     /\ Nobody \notin Threads \cup Models /\ Limit \in Nat
     /\ thread \in [Threads -> Thread] /\ thread[t] \in Thread
     /\ Fits(t)
  BY Before
<1>1. "done" \in Steps /\ Go(t, "done")
  BY DEF Steps, SweepEnd
<1>2. /\ thread' \in [Threads -> Thread] /\ thread'[t] = Ended
      /\ \A u \in Threads \ {t} : thread'[u] = thread[u]
  BY <1>1, GoProps
<1>3. Fits(t)'
  BY <1>2, EndedFits DEF Inv, TypeOK, Fits, JobFits, GuardsFit, SweepEnd, At, guards,
         mutexes, Leaving
<1>4. QED
  BY <1>2, <1>3, QuietStep DEF SweepEnd

\* An eviction that has no model too many leaves room for the one to load.
LEMMA EvictedInv ==
  ASSUME Inv, NEW t \in Threads, Evicted(t)
  PROVE  Inv'
<1>. /\ t \in Handlers \/ t \in Sweepers
     /\ ~(t \in Handlers /\ t \in Sweepers)
     /\ Nobody \notin Threads \cup Models /\ Limit \in Nat
     /\ thread \in [Threads -> Thread] /\ thread[t] \in Thread
     /\ Fits(t)
  BY Before
<1>. DEFINE r == [thread[t] EXCEPT !.at = "loading", !.todo = {}, !.excess = 0]
<1>1. /\ r \in Thread /\ Become(t, r)
      /\ r.at = "loading" /\ r.kind = thread[t].kind /\ r.model = thread[t].model
      /\ r.victim = thread[t].victim /\ r.todo = {} /\ r.excess = 0
  BY NewThreadType, ModelsAreFinite DEF Inv, TypeOK, NewThread, Evicted, Thread, Kinds,
         Requests, Steps, Models
<1>. HIDE DEF r
<1>2. /\ thread' \in [Threads -> Thread] /\ \A u \in Threads \ {t} : thread'[u] = thread[u]
      /\ thread'[t].at = "loading" /\ thread'[t].kind = thread[t].kind
      /\ thread'[t].model = thread[t].model
      /\ thread'[t].victim = thread[t].victim /\ thread'[t].todo = {}
      /\ thread'[t].excess = 0
  BY <1>1, BecomeProps
<1>3. Fits(t)'
  <2>1. JobFits(t)'
    BY <1>2 DEF Fits, JobFits, Loading, Leaving, Evicted, At, Is, Model, Victim
  <2>2. NamesFit(t)'
    BY <1>2 DEF Fits, NamesFit, Loading, Evicted, At, Is, Model, Victim, guards
  <2>3. GuardsFit(t)'
    BY <1>2 DEF Fits, GuardsFit, OwnsModel, Loading, Leaving, Evicted, At, Is, Model,
           Victim, guards
  <2>4. LocksFit(t)'
    BY <1>2 DEF Fits, LocksFit, Evicts, Evicted, At, Is, Model, Victim, guards, mutexes
  <2>5. StampsFit(t)'
    BY <1>2 DEF Fits, StampsFit, OwnsModel, Loading, Evicted, At, Is, Model, guards
  <2>6. SessionFits(t)'
    BY <1>2 DEF SessionFits, At
  <2>7. RoomFits(t)'
    <3>1. t \in Handlers /\ At(t, "evict") /\ Victim(t) = Nobody /\ thread[t].excess <= 0
          /\ thread[t].excess \in Int
      BY DEF Fits, JobFits, At, Evicted, Leaving, Thread
    <3>2. PICK S \in SUBSET Models : Bounds(S, t)
      BY <3>1 DEF Fits, RoomFits, Evicts
    <3>3. Others(t) \subseteq S /\ Cardinality(S) <= Limit - 1 + thread[t].excess
      BY <3>1, <3>2 DEF Bounds, At
    <3>4. /\ Cardinality(Others(t)) <= Cardinality(S)
          /\ Cardinality(Others(t)) \in Nat /\ Cardinality(S) \in Nat
      BY <3>3, ModelsAreFinite, FS_Subset
    <3>5. Cardinality(Others(t)) <= Limit - 1
      BY <3>1, <3>3, <3>4
    <3>6. Others(t)' = Others(t)
      BY <1>2 DEF Others, Model, Evicted, registry
    <3>7. QED
      BY <1>2, <3>1, <3>5, <3>6 DEF RoomFits, Evicts, At, Victim
  <2>8. QED
    BY <2>1, <2>2, <2>3, <2>4, <2>5, <2>6, <2>7 DEF Fits
<1>4. QED
  BY <1>2, <1>3, QuietStep DEF Evicted

\* A thread that leaves ensure_model_loaded_locked by an exception keeps the
\* invariant.
LEMMA UnwindInv ==
  ASSUME Inv, NEW t \in Handlers, At(t, "evict") \/ At(t, "loading"), Unwind(t)
  PROVE  Inv'
<1>. /\ t \in Threads /\ t \notin Sweepers
     /\ Nobody \notin Threads \cup Models /\ Limit \in Nat
     /\ thread \in [Threads -> Thread] /\ thread[t] \in Thread
     /\ Fits(t)
  BY Before DEF Threads
<1>. DEFINE step == IF Creates(t) THEN "done" ELSE "release"
<1>1. step \in Steps /\ Go(t, step)
  BY DEF Steps, Unwind
<1>2. /\ (step = "done" /\ Creates(t)) \/ (step = "release" /\ ~Creates(t))
      /\ Victim(t) = Nobody /\ Is(t, {"run", "load"}) /\ Model(t) \in Models
      /\ ~Creates(t) => holder[Model(t)] = t
  BY DEF Fits, JobFits, GuardsFit, OwnsModel, Creates, At, Is, Loading, Leaving
<1>3. /\ loadMutex' = IF loadMutex = t THEN Nobody ELSE loadMutex
      /\ UNCHANGED <<registered, loaded, holder, stamped, metadata, modelsMutex>>
  BY DEF Unwind, registry, guards
<1>. HIDE DEF step
<1>4. /\ thread' \in [Threads -> Thread] /\ \A u \in Threads \ {t} : thread'[u] = thread[u]
      /\ step = "done" => thread'[t] = Ended
      /\ step # "done" =>
           /\ thread'[t].at = step /\ thread'[t].kind = thread[t].kind
           /\ thread'[t].model = thread[t].model /\ thread'[t].victim = thread[t].victim
           /\ thread'[t].todo = thread[t].todo /\ thread'[t].excess = thread[t].excess
  BY <1>1, GoProps
<1>5. ASSUME NEW u \in Threads \ {t} PROVE Spares(u)
  BY <1>4, <1>3 DEF Spares
<1>6. TypeOK'
  BY <1>4, <1>3 DEF Inv, TypeOK, Thread
<1>7. HeldGuards'
  BY <1>3 DEF Inv, HeldGuards
<1>8. ResidentLimit'
  BY <1>3 DEF Inv, ResidentLimit
<1>9. Fits(t)'
  <2>1. CASE step = "done"
    <3>1. \A m \in Models : holder[m] # t /\ metadata[m] # t
      BY <1>2, <2>1 DEF Fits, GuardsFit, LocksFit, Creates
    <3>2. modelsMutex # t /\ loadMutex' # t
      BY <1>3 DEF Fits, LocksFit, At
    <3>3. QED
      BY <1>4, <1>3, <2>1, <3>1, <3>2, EndedFits
  <2>2. CASE step = "release"
    <3>1. JobFits(t)'
      BY <1>4, <1>2, <2>2 DEF JobFits, Leaving, At, Is, Model
    <3>2. NamesFit(t)'
      BY <1>4, <1>2, <1>3, <2>2 DEF Fits, NamesFit, Loading, At, Victim
    <3>3. GuardsFit(t)'
      BY <1>4, <1>2, <1>3, <2>2 DEF Fits, GuardsFit, Evicts, Leaving, At, Is, Model,
             Victim
    <3>4. LocksFit(t)'
      BY <1>4, <1>2, <1>3, <2>2 DEF Fits, LocksFit, Evicts, At, Is, Model, Victim
    <3>5. StampsFit(t)'
      BY <1>4, <1>2, <1>3, <2>2 DEF Fits, StampsFit, GuardsFit, OwnsModel, At, Is, Model
    <3>6. SessionFits(t)'
      BY <1>4, <2>2 DEF SessionFits, At
    <3>7. RoomFits(t)'
      BY <1>4, <1>2, <2>2 DEF RoomFits, Evicts, At, Victim
    <3>8. QED
      BY <3>1, <3>2, <3>3, <3>4, <3>5, <3>6, <3>7 DEF Fits
  <2>3. QED
    BY <1>2, <2>1, <2>2
<1>10. QED
  BY <1>5, <1>6, <1>7, <1>8, <1>9, StepInv

\* An eviction that finds too many models in use gives its locks back.
LEMMA AllBusyInv ==
  ASSUME Inv, NEW t \in Threads, AllBusy(t)
  PROVE  Inv'
<1>1. t \in Handlers
  BY Before DEF AllBusy, Fits, JobFits, At
<1>2. QED
  BY <1>1, UnwindInv DEF AllBusy

\* A load that throws gives its locks back.
LEMMA LoadThrowsInv ==
  ASSUME Inv, NEW t \in Threads, LoadThrows(t)
  PROVE  Inv'
<1>1. t \in Handlers
  BY Before DEF LoadThrows, Fits, JobFits, At, Leaving
<1>2. QED
  BY <1>1, UnwindInv DEF LoadThrows

\* A load adds a configured model to those in memory while there is room, and
\* gives the load mutex back.
LEMMA LoadInv ==
  ASSUME Inv, NEW t \in Threads, Load(t)
  PROVE  Inv'
<1>. /\ t \in Handlers \/ t \in Sweepers
     /\ ~(t \in Handlers /\ t \in Sweepers)
     /\ Nobody \notin Threads \cup Models /\ Limit \in Nat
     /\ thread \in [Threads -> Thread] /\ thread[t] \in Thread
     /\ Fits(t)
  BY Before
<1>. DEFINE step == AfterLoad(t)
<1>1. step \in Steps /\ Go(t, step)
  BY DEF Steps, Load, AfterLoad
<1>2. /\ At(t, "loading") /\ t \in Handlers
      /\ Victim(t) = Nobody /\ Is(t, {"run", "load"}) /\ Model(t) \in Models
      /\ ~Creates(t) => holder[Model(t)] = t /\ Model(t) \in registered
      /\ Creates(t) => Model(t) \in New
  BY DEF Inv, HeldGuards, Load, Fits, JobFits, NamesFit, GuardsFit, OwnsModel, Creates,
         At, Is, Loading, Leaving
<1>3. \/ step = "run" /\ Is(t, {"run"}) /\ ~Creates(t)
      \/ step = "register" /\ Is(t, {"load"}) /\ Creates(t)
      \/ step = "release" /\ Is(t, {"load"}) /\ ~Creates(t)
  BY <1>2 DEF AfterLoad, Creates, Is
<1>4. /\ loadMutex' = IF loadMutex = t THEN Nobody ELSE loadMutex
      /\ Creates(t) => loaded' = loaded
      /\ ~Creates(t) => loaded' = loaded \cup {Model(t)}
      /\ UNCHANGED <<registered, holder, stamped, metadata, modelsMutex>>
  BY DEF Load, guards
<1>. HIDE DEF step
<1>5. step # "done" /\ Limit > 0 => loadMutex = t
  BY <1>2 DEF Fits, LocksFit
<1>6. /\ thread' \in [Threads -> Thread] /\ \A u \in Threads \ {t} : thread'[u] = thread[u]
      /\ step = "done" => thread'[t] = Ended
      /\ step # "done" =>
           /\ thread'[t].at = step /\ thread'[t].kind = thread[t].kind
           /\ thread'[t].model = thread[t].model /\ thread'[t].victim = thread[t].victim
           /\ thread'[t].todo = thread[t].todo /\ thread'[t].excess = thread[t].excess
  BY <1>1, GoProps
<1>7. ASSUME NEW u \in Threads \ {t} PROVE Spares(u)
  BY <1>6, <1>2, <1>4 DEF Inv, TypeOK, Spares, Fits, LocksFit
<1>8. TypeOK'
  BY <1>6, <1>2, <1>4 DEF Inv, TypeOK, Thread
<1>9. HeldGuards'
  BY <1>4 DEF Inv, HeldGuards
<1>10. ResidentLimit'
  <2>1. CASE Creates(t)
    BY <1>4, <2>1 DEF Inv, ResidentLimit
  <2>2. CASE ~Creates(t)
    <3>. SUFFICES ASSUME Limit > 0
                  PROVE  Cardinality(loaded' \cap Configured) <= Limit
      BY DEF ResidentLimit
    <3>1. /\ Others(t) \in SUBSET Models /\ Cardinality(Others(t)) <= Limit - 1
          /\ Model(t) \notin Others(t)
      BY <1>2 DEF Fits, RoomFits, Others, Models
    <3>2. /\ IsFiniteSet(Others(t)) /\ Cardinality(Others(t)) \in Nat
          /\ Cardinality(Others(t) \cup {Model(t)}) = Cardinality(Others(t)) + 1
      BY <3>1, ModelsAreFinite, FS_AddElement
    <3>3. /\ loaded' \cap Configured \subseteq Others(t) \cup {Model(t)}
          /\ Others(t) \cup {Model(t)} \in SUBSET Models
      BY <1>2, <1>4, <3>1 DEF Others
    <3>4. /\ Cardinality(loaded' \cap Configured) <= Cardinality(Others(t) \cup {Model(t)})
          /\ Cardinality(loaded' \cap Configured) \in Nat
      BY <3>3, ModelsAreFinite, FS_Subset
    <3>5. QED
      BY <3>1, <3>2, <3>4
  <2>3. QED
    BY <2>1, <2>2
<1>11. Fits(t)'
  <2>1. JobFits(t)'
    BY <1>6, <1>2, <1>3 DEF JobFits, At, Is, Model, Victim
  <2>2. NamesFit(t)'
    BY <1>6, <1>2, <1>3, <1>4 DEF Fits, NamesFit, At, Model, Victim
  <2>3. GuardsFit(t)'
    BY <1>6, <1>2, <1>3, <1>4 DEF Fits, GuardsFit, Evicts, OwnsModel, Leaving, At, Is,
           Model, Victim, Creates
  <2>4. LocksFit(t)'
    BY <1>6, <1>2, <1>3, <1>4 DEF Fits, LocksFit, Evicts, At, Is, Model, Victim
  <2>5. StampsFit(t)'
    BY <1>6, <1>2, <1>3, <1>4 DEF Fits, StampsFit, GuardsFit, OwnsModel, At, Is, Model
  <2>6. SessionFits(t)'
    BY <1>6, <1>3, <1>4 DEF SessionFits, At, Model
  <2>7. RoomFits(t)'
    BY <1>6, <1>2, <1>3 DEF RoomFits, Evicts, At, Victim
  <2>8. QED
    BY <2>1, <2>2, <2>3, <2>4, <2>5, <2>6, <2>7 DEF Fits
<1>12. QED
  BY <1>7, <1>8, <1>9, <1>10, <1>11, StepInv

\* A new model enters the registry, and no lock is held for it.
LEMMA RegisterInv ==
  ASSUME Inv, NEW t \in Threads, Register(t)
  PROVE  Inv'
<1>. /\ t \in Handlers \/ t \in Sweepers
     /\ ~(t \in Handlers /\ t \in Sweepers)
     /\ Nobody \notin Threads \cup Models /\ Limit \in Nat
     /\ thread \in [Threads -> Thread] /\ thread[t] \in Thread
     /\ Fits(t)
  BY Before
<1>1. "done" \in Steps /\ Go(t, "done")
  BY DEF Steps, Register
<1>2. /\ thread' \in [Threads -> Thread] /\ thread'[t] = Ended
      /\ \A u \in Threads \ {t} : thread'[u] = thread[u]
  BY <1>1, GoProps
<1>3. ASSUME NEW u \in Threads \ {t} PROVE Spares(u)
  BY <1>2 DEF Inv, Spares, TypeOK, Register, guards, mutexes
<1>4. TypeOK'
  <2>1. Model(t) \in Models
    BY DEF Fits, NamesFit, Register, Models
  <2>2. /\ registered' = registered \cup {Model(t)}
        /\ loaded' \subseteq loaded \cup {Model(t)}
        /\ UNCHANGED <<holder, stamped, metadata, modelsMutex, loadMutex>>
    BY DEF Register, guards, mutexes
  <2>3. QED
    BY <1>2, <2>1, <2>2 DEF Inv, TypeOK, Thread
<1>5. HeldGuards'
  BY DEF Inv, HeldGuards, Register, guards
<1>6. ResidentLimit'
  BY ModelsAreFinite, FS_Subset DEF Inv, TypeOK, ResidentLimit, Register
<1>7. Fits(t)'
  BY <1>2, EndedFits DEF Fits, JobFits, GuardsFit, LocksFit, Register, At, guards,
         mutexes, Evicts, Loading, Leaving
<1>8. QED
  BY <1>3, <1>4, <1>5, <1>6, <1>7, StepInv

\* A run ends under the guard it began with.
LEMMA RunInv ==
  ASSUME Inv, NEW t \in Threads, Run(t)
  PROVE  Inv'
<1>. /\ t \in Handlers \/ t \in Sweepers
     /\ ~(t \in Handlers /\ t \in Sweepers)
     /\ Nobody \notin Threads \cup Models /\ Limit \in Nat
     /\ thread \in [Threads -> Thread] /\ thread[t] \in Thread
     /\ Fits(t)
  BY Before
<1>1. "release" \in Steps /\ Go(t, "release")
  BY DEF Steps, Run
<1>2. /\ thread' \in [Threads -> Thread] /\ \A u \in Threads \ {t} : thread'[u] = thread[u]
      /\ thread'[t].at = "release" /\ thread'[t].kind = thread[t].kind
      /\ thread'[t].model = thread[t].model /\ thread'[t].victim = thread[t].victim
      /\ thread'[t].todo = thread[t].todo /\ thread'[t].excess = thread[t].excess
  BY <1>1, GoProps
<1>3. Fits(t)'
  <2>1. JobFits(t)'
    BY <1>2 DEF Fits, JobFits, Leaving, Run, At, Is, Model
  <2>2. NamesFit(t)'
    BY <1>2 DEF Fits, NamesFit, JobFits, Loading, Leaving, Run, At, Victim, registry
  <2>3. GuardsFit(t)'
    BY <1>2 DEF Fits, GuardsFit, Evicts, JobFits, OwnsModel, Leaving, Run, At, Is,
           Model, Victim, guards
  <2>4. LocksFit(t)'
    BY <1>2 DEF Fits, LocksFit, JobFits, Evicts, Run, At, Is, Victim, mutexes
  <2>5. StampsFit(t)'
    BY <1>2 DEF Fits, StampsFit, JobFits, OwnsModel, Run, At, Model, guards
  <2>6. SessionFits(t)'
    BY <1>2 DEF SessionFits, At
  <2>7. RoomFits(t)'
    BY <1>2 DEF Fits, RoomFits, JobFits, Evicts, Leaving, Run, At, Victim
  <2>8. QED
    BY <2>1, <2>2, <2>3, <2>4, <2>5, <2>6, <2>7 DEF Fits
<1>4. QED
  BY <1>2, <1>3, QuietStep DEF Run

\* A model is unloaded by the thread that holds its guard.
LEMMA UnloadInv ==
  ASSUME Inv, NEW t \in Threads, Unload(t)
  PROVE  Inv'
<1>. /\ t \in Handlers \/ t \in Sweepers
     /\ ~(t \in Handlers /\ t \in Sweepers)
     /\ Nobody \notin Threads \cup Models /\ Limit \in Nat
     /\ thread \in [Threads -> Thread] /\ thread[t] \in Thread
     /\ Fits(t)
  BY Before
<1>1. "release" \in Steps /\ Go(t, "release")
  BY DEF Steps, Unload
<1>2. /\ thread' \in [Threads -> Thread] /\ \A u \in Threads \ {t} : thread'[u] = thread[u]
      /\ thread'[t].at = "release" /\ thread'[t].kind = thread[t].kind
      /\ thread'[t].model = thread[t].model /\ thread'[t].victim = thread[t].victim
      /\ thread'[t].todo = thread[t].todo /\ thread'[t].excess = thread[t].excess
  BY <1>1, GoProps
<1>3. ASSUME NEW u \in Threads \ {t} PROVE Spares(u)
  BY <1>2 DEF Spares, Fits, GuardsFit, OwnsModel, Unload, guards, mutexes
<1>4. TypeOK'
  BY <1>2 DEF Inv, TypeOK, Fits, JobFits, NamesFit, GuardsFit, OwnsModel, HeldGuards,
         Models, Threads, Unload, At, Is, Model, Victim, registry, guards, mutexes,
         Thread, Loading, Leaving
<1>5. HeldGuards'
  BY DEF Inv, HeldGuards, Unload, guards
<1>6. ResidentLimit'
  BY ModelsAreFinite, FS_Subset DEF Inv, TypeOK, ResidentLimit, Unload
<1>7. Fits(t)'
  <2>1. JobFits(t)'
    BY <1>2 DEF Fits, JobFits, Loading, Unload, At, Is, Model, Victim
  <2>2. NamesFit(t)'
    BY <1>2 DEF Fits, NamesFit, JobFits, Loading, Leaving, Unload, At, Victim
  <2>3. GuardsFit(t)'
    BY <1>2 DEF Fits, GuardsFit, OwnsModel, Leaving, Unload, Is, Model, Victim, guards
  <2>4. LocksFit(t)'
    BY <1>2 DEF Fits, LocksFit, Evicts, Unload, At, Is, Victim, mutexes
  <2>5. StampsFit(t)'
    BY <1>2 DEF StampsFit, Unload, At, Is
  <2>6. SessionFits(t)'
    BY <1>2 DEF SessionFits, At
  <2>7. RoomFits(t)'
    BY <1>2 DEF Fits, RoomFits, Bounds, Others, Evicts, Unload, At, Victim
  <2>8. QED
    BY <2>1, <2>2, <2>3, <2>4, <2>5, <2>6, <2>7 DEF Fits
<1>8. QED
  BY <1>3, <1>4, <1>5, <1>6, <1>7, StepInv

\* A bulk unload that has visited all its models holds no lock.
LEMMA BulkEndInv ==
  ASSUME Inv, NEW t \in Threads, BulkEnd(t)
  PROVE  Inv'
<1>. /\ t \in Handlers \/ t \in Sweepers
     /\ ~(t \in Handlers /\ t \in Sweepers)
     /\ Nobody \notin Threads \cup Models /\ Limit \in Nat
     /\ thread \in [Threads -> Thread] /\ thread[t] \in Thread
     /\ Fits(t)
  BY Before
<1>1. "done" \in Steps /\ Go(t, "done")
  BY DEF Steps, BulkEnd
<1>2. /\ thread' \in [Threads -> Thread] /\ thread'[t] = Ended
      /\ \A u \in Threads \ {t} : thread'[u] = thread[u]
  BY <1>1, GoProps
<1>3. Fits(t)'
  BY <1>2, EndedFits DEF Fits, JobFits, GuardsFit, LocksFit, BulkEnd, At, Is, guards,
         mutexes, Evicts, Leaving
<1>4. QED
  BY <1>2, <1>3, QuietStep DEF BulkEnd

\* At start no thread has begun and no lock is held.
LEMMA InitInv == Init => Inv
<1>. SUFFICES ASSUME Init
              PROVE  Inv
  OBVIOUS
<1>1. /\ Nobody \notin Threads \cup Models /\ Handlers \cap Sweepers = {}
      /\ Configured \subseteq Models /\ Limit \in Nat
  BY SingleRunAssumption DEF Models
<1>2. PICK work \in [Handlers -> Requests] :
        thread = [t \in Threads |->
          [NewThread EXCEPT !.kind = IF t \in Sweepers THEN "sweep" ELSE work[t]]]
  BY SingleRunAssumption DEF Init
<1>3. \A t \in Threads :
        /\ thread[t] \in Thread
        /\ thread[t].at = "new" /\ thread[t].model = Nobody /\ thread[t].victim = Nobody
        /\ thread[t].todo = {}
        /\ thread[t].kind = IF t \in Sweepers THEN "sweep" ELSE work[t]
  <2>. TAKE t \in Threads
  <2>1. thread[t] = [NewThread EXCEPT !.kind = IF t \in Sweepers THEN "sweep" ELSE work[t]]
    BY <1>2
  <2>2. t \in Handlers => work[t] \in Requests
    BY <1>2
  <2>3. QED
    BY <2>1, <2>2, NewThreadType DEF NewThread, Thread, Kinds, Threads
<1>4. TypeOK
  <2>1. thread \in [Threads -> Thread]
    BY <1>3 DEF Init
  <2>2. QED
    BY <1>1, <2>1 DEF TypeOK, Init, Thread
<1>5. HeldGuards /\ ResidentLimit
  <2>1. loaded \cap Configured = loaded
    BY DEF Init
  <2>2. QED
    BY <2>1 DEF HeldGuards, ResidentLimit, Init
<1>6. ASSUME NEW t \in Threads PROVE Fits(t)
  <2>1. /\ thread[t].at = "new" /\ thread[t].model = Nobody /\ thread[t].victim = Nobody
        /\ thread[t].todo = {} /\ t # Nobody
        /\ t \in Sweepers <=> thread[t].kind = "sweep"
    <3>1. t \in Handlers => work[t] \in Requests
      BY <1>2
    <3>2. t \in Handlers => work[t] # "sweep"
      BY <3>1 DEF Requests
    <3>3. thread[t].kind = IF t \in Sweepers THEN "sweep" ELSE work[t]
      BY <1>3
    <3>4. QED
      BY <1>1, <1>3, <3>2, <3>3 DEF Threads
  <2>2. /\ \A m \in Models : holder[m] = Nobody /\ metadata[m] = Nobody
        /\ modelsMutex = Nobody /\ loadMutex = Nobody
    BY DEF Init
  <2>3. JobFits(t)
    BY <1>1, <2>1 DEF JobFits, At, Is, Model, Victim, Loading, Leaving
  <2>4. NamesFit(t)
    BY <2>1 DEF NamesFit, At, Is, Model, Victim, Loading
  <2>5. GuardsFit(t)
    BY <2>1, <2>2 DEF GuardsFit, OwnsModel, At, Victim, Loading, Leaving
  <2>6. LocksFit(t)
    BY <2>1, <2>2 DEF LocksFit, Evicts, At, Victim
  <2>7. StampsFit(t) /\ SessionFits(t) /\ RoomFits(t)
    BY <2>1 DEF StampsFit, SessionFits, RoomFits, OwnsModel, Evicts, At, Victim,
           Loading, Leaving
  <2>8. QED
    BY <2>3, <2>4, <2>5, <2>6, <2>7 DEF Fits
<1>7. QED
  BY <1>4, <1>5, <1>6 DEF Inv

\* Every step of every thread keeps the invariant.
LEMMA NextInv == Inv /\ [Next]_vars => Inv'
<1>. SUFFICES ASSUME Inv, [Next]_vars
              PROVE  Inv'
  OBVIOUS
<1>1. ASSUME NEW t \in Threads, Begin(t) PROVE Inv'
  BY <1>1, AskInv, AskBulkInv, AskListInv, SweepInv DEF Begin
<1>2. ASSUME NEW t \in Threads, Serve(t) PROVE Inv'
  BY <1>2, ListOneInv, TryVictimInv, NextOfBulkInv, ListEndInv, FindInv, ReadTimeoutInv,
     FailFastInv, AwaitInv, TimeOutInv, LockGuardInv, ClearStampInv, UnlockGuardInv,
     ReconfigureInv, EnsureInv, TakeLoadMutexInv, ListResidentsInv, UnloadVictimInv,
     SweepEndInv, EvictedInv, AllBusyInv, LoadThrowsInv, LoadInv, RegisterInv, RunInv,
     UnloadInv, BulkEndInv DEF Serve
<1>3. CASE UNCHANGED vars
  <2>1. ASSUME NEW t \in Threads PROVE Spares(t)
    BY <1>3 DEF Spares, vars
  <2>2. QED
    BY <1>3, <2>1, OthersFit DEF Inv, TypeOK, HeldGuards, ResidentLimit, vars
<1>4. QED
  BY <1>1, <1>2, <1>3 DEF Next

\* Where a thread can be that has a lock another one may wait for, and at which
\* of those places it waits itself.
LEMMA OwnersWait ==
  ASSUME Inv, NEW u \in Threads, NEW w \in Threads, WaitsFor(u, w)
  PROVE  /\ \A m \in Models : holder[m] = u =>
              At(u, "loadMutex") \/ At(u, "residents") \/ (At(u, "locked") /\ Is(u, {"load"}))
         /\ \A m \in Models : metadata[m] = u =>
              (At(u, "loadMutex") \/ At(u, "residents")) /\ u \in Handlers
         /\ loadMutex = u => At(u, "residents") /\ u \in Handlers
         /\ modelsMutex = u => At(u, "listing") /\ u \in Handlers
<1>. Fits(u) /\ TypeOK /\ (u \in Handlers \/ u \in Sweepers)
  BY DEF Inv, Threads
<1>1. thread[u].at \in {"wait", "metadata", "locked", "listing", "loadMutex", "find",
                        "residents", "register", "new"}
  BY DEF WaitsFor, At
<1>2. At(u, "locked") => Is(u, {"load"})
  BY DEF WaitsFor, At
<1>3. Victim(u) = Nobody
  BY <1>1 DEF Fits, JobFits, Leaving
<1>4. ASSUME NEW m \in Models, holder[m] = u
      PROVE  At(u, "loadMutex") \/ At(u, "residents") \/ At(u, "locked")
  <2>1. m # Victim(u)
    BY <1>3, SingleRunAssumption
  <2>2. thread[u].at \in Loading \cup Leaving \cup {"run", "locked"}
    BY <1>4, <2>1 DEF Fits, GuardsFit
  <2>3. QED
    BY <1>1, <2>2 DEF Loading, Leaving, At
<1>5. ASSUME NEW m \in Models, metadata[m] = u
      PROVE  (At(u, "loadMutex") \/ At(u, "residents")) /\ u \in Handlers
  <2>1. holder[m] = u /\ ~At(u, "locked")
    BY <1>5 DEF Fits, LocksFit
  <2>2. u # Nobody
    BY SingleRunAssumption
  <2>3. u \in Handlers
    BY <1>5, <2>2 DEF TypeOK
  <2>4. QED
    BY <1>4, <2>1, <2>3
<1>6. ASSUME loadMutex = u
      PROVE  At(u, "residents") /\ u \in Handlers
  <2>1. u # Nobody
    BY SingleRunAssumption
  <2>2. u \in Handlers
    BY <1>6, <2>1 DEF TypeOK
  <2>3. At(u, "residents") \/ Evicts(u) \/ At(u, "loading")
    BY <1>6, <2>2 DEF Fits, LocksFit
  <2>4. QED
    BY <1>1, <1>3, <2>2, <2>3 DEF Evicts, At
<1>7. ASSUME modelsMutex = u
      PROVE  At(u, "listing") /\ u \in Handlers
  <2>1. u # Nobody
    BY SingleRunAssumption
  <2>2. QED
    BY <1>7, <2>1 DEF TypeOK, Fits, LocksFit
<1>8. QED
  BY <1>2, <1>4, <1>5, <1>6, <1>7

-----------------------------------------------------------------------------
(* Theorems *)

\* In every state each thread holds the locks its place in the code says, and
\* the models they protect are as it left them.
THEOREM Invariance == Spec => []Inv
  BY InitInv, NextInv, PTL DEF Spec

\* Every variable keeps its type: among others, no lock is held by a thread that
\* does not exist, and what is in memory is registered.
THEOREM TypeCorrectness == Spec => []TypeOK
<1>1. Inv => TypeOK
  BY DEF Inv
<1>2. QED
  BY <1>1, Invariance, PTL

\* A run has its session and its guard until it ends, whatever evictions, sweeps,
\* loads and unloads of the same model do meanwhile, and a guard that is free
\* does not look taken to a bounded request.
THEOREM GuardedRuns == Spec => []RunsAreGuarded
<1>1. Inv => RunsAreGuarded
  BY DEF Inv, HeldGuards, Fits, JobFits, GuardsFit, StampsFit, SessionFits, OwnsModel,
         RunsAreGuarded, At
<1>2. QED
  BY <1>1, Invariance, PTL

\* max_loaded_models holds however loads, evictions and runs interleave: an
\* eviction counts before the load, and its load mutex keeps others from adding.
THEOREM LimitHolds == Spec => []ResidentLimit
<1>1. Inv => ResidentLimit
  BY DEF Inv
<1>2. QED
  BY <1>1, Invariance, PTL

\* A thread that has ended holds no lock.
LocksAreReturned ==
  \A t \in Threads : At(t, "done") =>
    /\ \A m \in Models : holder[m] # t /\ metadata[m] # t
    /\ modelsMutex # t /\ loadMutex # t

\* A request or sweep gives back every lock it took, on its error paths too: an
\* eviction that finds all models busy, a load that throws, a wait that times out.
THEOREM LocksReturned == Spec => []LocksAreReturned
<1>1. ASSUME Inv, NEW t \in Threads, At(t, "done")
      PROVE  /\ \A m \in Models : holder[m] # t /\ metadata[m] # t
             /\ modelsMutex # t /\ loadMutex # t
  BY <1>1, Before DEF Inv, TypeOK, Fits, JobFits, GuardsFit, LocksFit, Evicts, At,
         Loading, Leaving
<1>2. Inv => LocksAreReturned
  BY <1>1 DEF LocksAreReturned
<1>3. QED
  BY <1>2, Invariance, PTL

\* The locks have an order (a model's guard, its metadata_mutex,
\* model_load_mutex_, models_mutex_) that only a listing breaks.  Threads that
\* wait for one another, however many there are and whatever they do, have among
\* them a listing that meets a load.
THEOREM DeadlocksAreListings == Spec => []OnlyListingsDeadlock
<1>1. ASSUME Inv, NEW ts \in SUBSET Threads, ts # {},
             \A t \in ts : \E u \in ts : WaitsFor(t, u)
      PROVE  ListingMeetsLoad(ts)
  <2>1. ASSUME NEW u \in ts
        PROVE  /\ \A m \in Models : holder[m] = u =>
                    \/ At(u, "loadMutex") \/ At(u, "residents")
                    \/ At(u, "locked") /\ Is(u, {"load"})
               /\ \A m \in Models : metadata[m] = u =>
                    (At(u, "loadMutex") \/ At(u, "residents")) /\ u \in Handlers
               /\ loadMutex = u => At(u, "residents") /\ u \in Handlers
               /\ modelsMutex = u => At(u, "listing") /\ u \in Handlers
    <3>1. PICK w \in ts : WaitsFor(u, w)
      BY <1>1
    <3>2. QED
      BY <1>1, <3>1, OwnersWait
  <2>2. ASSUME NEW t \in ts
        PROVE  /\ TypeOK /\ JobFits(t) /\ NamesFit(t) /\ thread[t].todo \subseteq Models
               /\ t \in Handlers \/ t \in Sweepers
    BY <1>1 DEF Inv, TypeOK, Fits, NamesFit, Threads
  <2>3. PICK t \in ts : At(t, "listing")
    <3>. SUFFICES ASSUME \A t \in ts : ~At(t, "listing")
                  PROVE  FALSE
      OBVIOUS
    <3>1. ASSUME NEW t \in ts
          PROVE  thread[t].at \notin {"find", "residents", "register", "new"}
      BY <1>1, <2>1 DEF WaitsFor, At
    <3>2. ASSUME NEW t \in ts PROVE ~At(t, "loadMutex")
      BY <1>1, <2>1, <3>1 DEF WaitsFor, At
    <3>3. ASSUME NEW t \in ts PROVE ~At(t, "metadata") /\ ~At(t, "locked")
      <4>1. PICK u \in ts : WaitsFor(t, u)
        BY <1>1
      <4>2. At(t, "metadata") \/ At(t, "locked") => Model(t) \in Models
        BY <2>2 DEF At, JobFits, Leaving
      <4>3. At(t, "metadata") \/ At(t, "locked") => metadata[Model(t)] = u
        BY <4>1 DEF WaitsFor, At
      <4>4. QED
        BY <2>1, <3>1, <3>2, <4>2, <4>3 DEF At
    <3>4. ASSUME NEW t \in ts PROVE FALSE
      <4>1. PICK u \in ts : WaitsFor(t, u)
        BY <1>1
      <4>2. At(t, "wait") /\ holder[Model(t)] = u
        BY <3>1, <3>2, <3>3, <4>1 DEF WaitsFor, At
      <4>3. Model(t) \in Models
        BY <2>2, <4>2 DEF NamesFit, TypeOK, At
      <4>4. QED
        BY <2>1, <3>1, <3>2, <3>3, <4>2, <4>3 DEF At
    <3>5. QED
      BY <1>1, <3>4
  <2>4. t \in Handlers
    BY <2>2, <2>3 DEF JobFits, At, Leaving
  <2>5. PICK u \in ts, m \in thread[t].todo : metadata[m] = u
    <3>1. PICK u \in ts : WaitsFor(t, u)
      BY <1>1
    <3>2. QED
      BY <2>3, <3>1 DEF WaitsFor, At
  <2>6. m \in Models /\ u \in Handlers /\ (At(u, "loadMutex") \/ At(u, "residents"))
    BY <2>1, <2>2, <2>5
  <2>7. CASE At(u, "residents")
    BY <2>3, <2>5, <2>6, <2>7 DEF ListingMeetsLoad
  <2>8. CASE At(u, "loadMutex")
    <3>1. PICK v \in ts : WaitsFor(u, v)
      BY <1>1
    <3>2. loadMutex = v
      BY <2>8, <3>1 DEF WaitsFor, At
    <3>3. At(v, "residents")
      BY <2>1, <3>2
    <3>4. QED
      BY <2>3, <2>5, <2>6, <2>8, <3>2, <3>3 DEF ListingMeetsLoad
  <2>9. QED
    BY <2>6, <2>7, <2>8
<1>2. Inv => OnlyListingsDeadlock
  BY <1>1 DEF OnlyListingsDeadlock
<1>3. QED
  BY <1>2, Invariance, PTL
=============================================================================
