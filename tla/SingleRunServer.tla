-------------------------- MODULE SingleRunServer --------------------------
(***************************************************************************)
(* The server without --parallel-jobs (app/server/runtime.cpp): one run at *)
(* a time on each model, behind a BusyGuard (busy_guard.h), a timed mutex  *)
(* with the time since which it is held.                                   *)
(*                                                                         *)
(* serve_http gives every connection a thread of its own, which serves one *)
(* request and ends: a thread of the model does one job.  A request runs a *)
(* model, loads one (or registers a new one), unloads one, unloads several *)
(* or lists them.  A sweeper is one pass of the idle-unload thread.        *)
(*                                                                         *)
(* Four kinds of locks are taken, some inside others: a model's guard, its *)
(* metadata_mutex, model_load_mutex_ and models_mutex_.  Where a lock is   *)
(* held for no other wait, taking and leaving it is one step.              *)
(***************************************************************************)
EXTENDS Integers, FiniteSets

CONSTANTS
  Configured,   \* the models of the configuration, registered at start
  New,          \* the ids a load may add
  Handlers,     \* the threads of connections
  Workloads,    \* what the connections ask for, in the mixes looked at
  Sweepers,     \* the passes of the idle-unload thread
  Nobody,       \* the owner of a free lock
  Limit         \* max_loaded_models, 0 for none

Models == Configured \cup New
Threads == Handlers \cup Sweepers

\* What a connection asks for, if one comes.
Requests == {"none", "run", "load", "unload", "bulk", "list"}

ASSUME SingleRunAssumption ==
  /\ Configured \cap New = {} /\ Handlers \cap Sweepers = {}
  /\ IsFiniteSet(Models) /\ IsFiniteSet(Threads)
  /\ Nobody \notin Threads \cup Models
  /\ Limit \in Nat
  /\ Workloads \subseteq [Handlers -> Requests]

VARIABLES
  registered,    \* models_ and model_index_
  loaded,        \* the registered models with a session
  holder,        \* who holds the mutex of each model's guard
  stamped,       \* the models whose busy_since_ms_ is not zero
  metadata,      \* who holds each model's metadata_mutex exclusively
  modelsMutex,   \* who holds models_mutex_ across another wait
  loadMutex,     \* who holds model_load_mutex_
  thread         \* what each thread does

vars == <<registered, loaded, holder, stamped, metadata, modelsMutex, loadMutex, thread>>
registry == <<registered, loaded>>
guards == <<holder, stamped>>
mutexes == <<metadata, modelsMutex, loadMutex>>

Kinds == Requests \cup {"sweep"}
Steps == {"new", "find", "metadata", "guard", "wait", "locked", "ensure",
          "loadMutex", "residents", "evict", "victim", "loading", "run", "register",
          "next", "listing", "release", "unlock", "done"}

\* model is the one the request names, or a bulk unload is at; victim the one
\* whose guard was taken without waiting; todo the models still to visit; excess
\* how many of them must be evicted; bounded whether the wait has a timeout.
NewThread == [at |-> "new", kind |-> "none", model |-> Nobody, victim |-> Nobody,
              bounded |-> FALSE, todo |-> {}, excess |-> 0]

At(t, step) == thread[t].at = step
Is(t, kinds) == thread[t].kind \in kinds
Become(t, record) ==
  thread' = [thread EXCEPT ![t] = IF record.at = "done" THEN [NewThread EXCEPT !.at = "done"] ELSE record]
Go(t, step) == Become(t, [thread[t] EXCEPT !.at = step])
Model(t) == thread[t].model
Victim(t) == thread[t].victim

\* A load of a model that is not registered works on an object of its own.
Creates(t) == Is(t, {"load"}) /\ holder[Model(t)] # t

\* load_models: the models that are not lazy are loaded before they are served.
Init ==
  /\ registered = Configured
  /\ loaded \in {ms \in SUBSET Configured : Limit > 0 => Cardinality(ms) <= Limit}
  /\ holder = [m \in Models |-> Nobody]
  /\ stamped = {}
  /\ metadata = [m \in Models |-> Nobody]
  /\ modelsMutex = Nobody /\ loadMutex = Nobody
  /\ \E work \in Workloads :
       thread = [t \in Threads |->
         [NewThread EXCEPT !.kind = IF t \in Sweepers THEN "sweep" ELSE work[t]]]

(* ---- requests ---------------------------------------------------------- *)

\* A connection asks for one model.
Ask(t, kind, m, bounded) ==
  /\ t \in Handlers /\ At(t, "new") /\ Is(t, {kind})
  /\ Become(t, [NewThread EXCEPT !.at = "find", !.kind = kind, !.model = m,
                                 !.bounded = bounded])
  /\ UNCHANGED <<registry, guards, mutexes>>

\* handle_unload_models and handle_unload_all_models read the registry without
\* models_mutex_.
AskBulk(t, ms) ==
  /\ t \in Handlers /\ At(t, "new") /\ Is(t, {"bulk"})
  /\ ms # {} /\ ms \subseteq registered
  /\ Become(t, [NewThread EXCEPT !.at = "next", !.kind = "bulk", !.todo = ms])
  /\ UNCHANGED <<registry, guards, mutexes>>

\* models_json keeps models_mutex_ while it visits every model, handle_voices
\* while it visits one.
AskList(t, ms) ==
  /\ t \in Handlers /\ At(t, "new") /\ Is(t, {"list"})
  /\ ms = registered \/ (Cardinality(ms) = 1 /\ ms \subseteq registered)
  /\ modelsMutex = Nobody /\ modelsMutex' = t
  /\ Become(t, [NewThread EXCEPT !.at = "listing", !.kind = "list", !.todo = ms])
  /\ UNCHANGED <<registry, guards, metadata, loadMutex>>

\* Each model is read under its metadata_mutex, shared.
ListOne(t, m) ==
  /\ At(t, "listing") /\ m \in thread[t].todo
  /\ metadata[m] = Nobody
  /\ Become(t, [thread[t] EXCEPT !.todo = @ \ {m}])
  /\ UNCHANGED <<registry, guards, mutexes>>

ListEnd(t) ==
  /\ At(t, "listing") /\ thread[t].todo = {}
  /\ modelsMutex' = Nobody
  /\ Go(t, "done")
  /\ UNCHANGED <<registry, guards, metadata, loadMutex>>

\* require_model, and the lookups of load and unload: an unknown id ends a
\* request, except a load, which goes on with a new model.
Find(t) ==
  /\ At(t, "find") /\ modelsMutex = Nobody
  /\ Go(t, IF Model(t) \in registered THEN "metadata"
           ELSE IF Is(t, {"load"}) THEN "ensure" ELSE "done")
  /\ UNCHANGED <<registry, guards, mutexes>>

(* ---- the busy guard ---------------------------------------------------- *)

\* acquire_model_run reads the timeout under the metadata_mutex, whatever the
\* timeout of the request.
ReadTimeout(t) ==
  /\ At(t, "metadata") /\ metadata[Model(t)] = Nobody
  /\ Go(t, "guard")
  /\ UNCHANGED <<registry, guards, mutexes>>

\* BusyGuard::acquire: a bounded caller fails at once if the holder has
\* overrun, which depends on the clock; otherwise it waits.
FailFast(t) ==
  /\ At(t, "guard") /\ thread[t].bounded /\ Model(t) \in stamped
  /\ Go(t, "done")
  /\ UNCHANGED <<registry, guards, mutexes>>

Await(t) ==
  /\ At(t, "guard")
  /\ Go(t, "wait")
  /\ UNCHANGED <<registry, guards, mutexes>>

TimeOut(t) ==
  /\ At(t, "wait") /\ thread[t].bounded /\ holder[Model(t)] # Nobody
  /\ Go(t, "done")
  /\ UNCHANGED <<registry, guards, mutexes>>

\* The time is stored right after the mutex is locked; who reads it in between
\* waits, as it may when it reads it late.
LockGuard(t) ==
  /\ At(t, "wait") /\ holder[Model(t)] = Nobody
  /\ holder' = [holder EXCEPT ![Model(t)] = t]
  /\ stamped' = stamped \cup {Model(t)}
  /\ Become(t, [thread[t] EXCEPT !.at = IF Is(t, {"run"}) THEN "ensure" ELSE "locked",
                                 !.bounded = FALSE])
  /\ UNCHANGED <<registry, mutexes>>

\* The guard a thread is about to give back: a victim's before its own.
Held(t) == IF Victim(t) # Nobody THEN Victim(t) ELSE Model(t)

\* ~Lock clears the time before the mutex is released, which is a member.  The
\* metadata_mutex of a load, locked after the guard, is released before it.
ClearStamp(t) ==
  /\ At(t, "release")
  /\ stamped' = stamped \ {Held(t)}
  /\ metadata' = [metadata EXCEPT ![Held(t)] = IF @ = t THEN Nobody ELSE @]
  /\ Go(t, "unlock")
  /\ UNCHANGED <<registry, holder, modelsMutex, loadMutex>>

\* A sweep or an eviction goes on with the next model, as does a bulk unload.
UnlockGuard(t) ==
  /\ At(t, "unlock")
  /\ holder' = [holder EXCEPT ![Held(t)] = Nobody]
  /\ Become(t, [thread[t] EXCEPT
       !.victim = Nobody,
       !.at = IF Victim(t) # Nobody THEN "evict" ELSE IF Is(t, {"bulk"}) THEN "next" ELSE "done"])
  /\ UNCHANGED <<registry, stamped, mutexes>>

(* ---- loading ----------------------------------------------------------- *)

\* handle_model_load of a registered model keeps its metadata_mutex for the
\* whole load, and unloads it first when its configuration changes.
Reconfigure(t, changed) ==
  /\ At(t, "locked") /\ Is(t, {"load"})
  /\ metadata[Model(t)] = Nobody
  /\ metadata' = [metadata EXCEPT ![Model(t)] = t]
  /\ loaded' = IF changed THEN loaded \ {Model(t)} ELSE loaded
  /\ Go(t, "ensure")
  /\ UNCHANGED <<registered, guards, modelsMutex, loadMutex>>

\* Where ensure_model_loaded_locked returns to.
AfterLoad(t) == IF Is(t, {"run"}) THEN "run" ELSE IF Creates(t) THEN "register" ELSE "release"

\* ensure_model_loaded_locked: a model with a session is ready.  (With neither
\* a limit nor a memory guard, loads are not serialized.)
Ensure(t) ==
  /\ At(t, "ensure")
  /\ Go(t, IF ~Creates(t) /\ Model(t) \in loaded THEN AfterLoad(t)
           ELSE IF Limit > 0 THEN "loadMutex" ELSE "loading")
  /\ UNCHANGED <<registry, guards, mutexes>>

\* Seeded fault: loads are not serialized.
TakeLoadMutex_Never(t) ==
  /\ At(t, "loadMutex")
  /\ Go(t, "residents")
  /\ UNCHANGED <<registry, guards, mutexes>>

TakeLoadMutex(t) ==
  /\ At(t, "loadMutex") /\ loadMutex = Nobody
  /\ loadMutex' = t
  /\ Go(t, "residents")
  /\ UNCHANGED <<registry, guards, metadata, modelsMutex>>

\* evict_for_model_limit lists the resident models under models_mutex_, all but
\* the loading one; at most Limit - 1 of them may stay.
ListResidents(t) ==
  LET others == IF Creates(t) THEN loaded ELSE loaded \ {Model(t)} IN
  /\ At(t, "residents") /\ modelsMutex = Nobody
  /\ Become(t, [thread[t] EXCEPT !.at = "evict", !.todo = others,
                                 !.excess = Cardinality(others) - (Limit - 1)])
  /\ UNCHANGED <<registry, guards, mutexes>>

\* unload_idle_models, when the server has been idle, visits all of them.
Sweep(t) ==
  /\ t \in Sweepers /\ At(t, "new") /\ modelsMutex = Nobody
  /\ Become(t, [thread[t] EXCEPT !.at = "evict", !.todo = loaded,
                                 !.excess = Cardinality(loaded)])
  /\ UNCHANGED <<registry, guards, mutexes>>

\* Seeded fault: a busy model is evicted all the same.
TryVictim_Busy(t, m) ==
  /\ At(t, "evict") /\ thread[t].excess > 0 /\ m \in thread[t].todo
  /\ Become(t, [thread[t] EXCEPT !.todo = @ \ {m}, !.excess = @ - 1,
                                 !.at = "victim", !.victim = m])
  /\ holder' = [holder EXCEPT ![m] = t]
  /\ stamped' = stamped \cup {m}
  /\ UNCHANGED <<registry, mutexes>>

\* Seeded fault: a busy model is waited for.
TryVictim_Waits(t, m) ==
  /\ At(t, "evict") /\ thread[t].excess > 0 /\ m \in thread[t].todo
  /\ holder[m] = Nobody
  /\ holder' = [holder EXCEPT ![m] = t]
  /\ stamped' = stamped \cup {m}
  /\ Become(t, [thread[t] EXCEPT !.todo = @ \ {m}, !.excess = @ - 1,
                                 !.at = "victim", !.victim = m])
  /\ UNCHANGED <<registry, mutexes>>

\* The victims in an order (of last use) the model leaves open, each tried once
\* without waiting; a busy one is passed over.
TryVictim(t, m) ==
  /\ At(t, "evict") /\ thread[t].excess > 0 /\ m \in thread[t].todo
  /\ IF holder[m] = Nobody
       THEN /\ holder' = [holder EXCEPT ![m] = t]
            /\ stamped' = stamped \cup {m}
            /\ Become(t, [thread[t] EXCEPT !.todo = @ \ {m}, !.excess = @ - 1,
                                           !.at = "victim", !.victim = m])
       ELSE Become(t, [thread[t] EXCEPT !.todo = @ \ {m}]) /\ UNCHANGED guards
  /\ UNCHANGED <<registry, mutexes>>

UnloadVictim(t) ==
  /\ At(t, "victim")
  /\ loaded' = loaded \ {Victim(t)}
  /\ Go(t, "release")
  /\ UNCHANGED <<registered, guards, mutexes>>

SweepEnd(t) ==
  /\ At(t, "evict") /\ Is(t, {"sweep"}) /\ thread[t].todo = {}
  /\ Go(t, "done")
  /\ UNCHANGED <<registry, guards, mutexes>>

Evicted(t) ==
  /\ At(t, "evict") /\ ~Is(t, {"sweep"}) /\ thread[t].excess <= 0
  /\ Become(t, [thread[t] EXCEPT !.at = "loading", !.todo = {}, !.excess = 0])
  /\ UNCHANGED <<registry, guards, mutexes>>

\* Leaving ensure_model_loaded_locked by an exception gives back every lock.
Unwind(t) ==
  /\ loadMutex' = IF loadMutex = t THEN Nobody ELSE loadMutex
  /\ Go(t, IF Creates(t) THEN "done" ELSE "release")
  /\ UNCHANGED <<registry, guards, metadata, modelsMutex>>

\* ServerBusyError: too many of the others are in use.
AllBusy(t) ==
  /\ At(t, "evict") /\ ~Is(t, {"sweep"}) /\ thread[t].excess > 0 /\ thread[t].todo = {}
  /\ Unwind(t)

\* The memory check or the loader refuses.
LoadThrows(t) ==
  /\ At(t, "loading")
  /\ Unwind(t)

\* Seeded fault: a new model is visible before it is registered.
Load_Published(t) ==
  /\ At(t, "loading")
  /\ loaded' = loaded \cup {Model(t)}
  /\ loadMutex' = IF loadMutex = t THEN Nobody ELSE loadMutex
  /\ Go(t, AfterLoad(t))
  /\ UNCHANGED <<registered, guards, metadata, modelsMutex>>

\* The session exists; a new model has it outside the registry.
Load(t) ==
  /\ At(t, "loading")
  /\ loaded' = IF Creates(t) THEN loaded ELSE loaded \cup {Model(t)}
  /\ loadMutex' = IF loadMutex = t THEN Nobody ELSE loadMutex
  /\ Go(t, AfterLoad(t))
  /\ UNCHANGED <<registered, guards, metadata, modelsMutex>>

\* A new model enters the registry loaded, unless its id was taken meanwhile.
Register(t) ==
  /\ At(t, "register") /\ modelsMutex = Nobody
  /\ registered' = registered \cup {Model(t)}
  /\ loaded' = IF Model(t) \in registered THEN loaded ELSE loaded \cup {Model(t)}
  /\ Go(t, "done")
  /\ UNCHANGED <<guards, mutexes>>

(* ---- running and unloading --------------------------------------------- *)

Run(t) ==
  /\ At(t, "run")
  /\ Go(t, "release")
  /\ UNCHANGED <<registry, guards, mutexes>>

Unload(t) ==
  /\ At(t, "locked") /\ Is(t, {"unload", "bulk"})
  /\ loaded' = loaded \ {Model(t)}
  /\ Go(t, "release")
  /\ UNCHANGED <<registered, guards, mutexes>>

\* A bulk unload looks for a session before it waits for the guard, without a
\* bound; the models that have none are passed over.
NextOfBulk(t, m) ==
  /\ At(t, "next") /\ m \in thread[t].todo
  /\ Become(t, [thread[t] EXCEPT !.todo = @ \ {m}, !.model = m,
                                 !.at = IF m \in loaded THEN "wait" ELSE "next"])
  /\ UNCHANGED <<registry, guards, mutexes>>

BulkEnd(t) ==
  /\ At(t, "next") /\ thread[t].todo = {}
  /\ Go(t, "done")
  /\ UNCHANGED <<registry, guards, mutexes>>

(* ---- specification ------------------------------------------------------ *)

\* What a thread does once it has its job.
Serve(t) ==
  \/ \E m \in thread[t].todo : ListOne(t, m) \/ TryVictim(t, m) \/ NextOfBulk(t, m)
  \/ ListEnd(t) \/ Find(t)
  \/ ReadTimeout(t) \/ FailFast(t) \/ Await(t) \/ TimeOut(t) \/ LockGuard(t)
  \/ ClearStamp(t) \/ UnlockGuard(t)
  \/ \E changed \in BOOLEAN : Reconfigure(t, changed)
  \/ Ensure(t) \/ TakeLoadMutex(t) \/ ListResidents(t) \/ UnloadVictim(t)
  \/ SweepEnd(t) \/ Evicted(t) \/ AllBusy(t) \/ LoadThrows(t) \/ Load(t) \/ Register(t)
  \/ Run(t) \/ Unload(t) \/ BulkEnd(t)

\* A connection brings a request, or the server has been idle.
Begin(t) ==
  \/ \E kind \in {"run", "load", "unload"}, m \in Models, b \in BOOLEAN : Ask(t, kind, m, b)
  \/ \E ms \in SUBSET registered : AskBulk(t, ms) \/ AskList(t, ms)
  \/ Sweep(t)

Next == \E t \in Threads : Begin(t) \/ Serve(t)

Spec == Init /\ [][Next]_vars

\* As long as some thread can go on with its job, one does: threads are
\* scheduled, and a run and a load end.
FairSpec == Spec /\ WF_vars(\E t \in Threads : Serve(t))

(* ---- properties --------------------------------------------------------- *)

\* Every variable keeps its type.
TypeOK ==
  /\ Configured \subseteq registered /\ registered \subseteq Models
  /\ loaded \subseteq registered /\ stamped \subseteq registered
  /\ holder \in [Models -> Threads \cup {Nobody}]
  /\ metadata \in [Models -> Handlers \cup {Nobody}]
  /\ modelsMutex \in Handlers \cup {Nobody} /\ loadMutex \in Handlers \cup {Nobody}
  /\ thread \in [Threads ->
       [at : Steps, kind : Kinds, model : Models \cup {Nobody}, victim : Models \cup {Nobody},
        bounded : BOOLEAN, todo : SUBSET Models,
        excess : -Limit .. Cardinality(Models)]]

\* A run has its session, which eviction, sweeps, loads and unloads leave alone,
\* under a guard that is its own and tells since when; and no guard that is free
\* looks taken, which would turn bounded callers away for good.
RunsAreGuarded ==
  /\ \A t \in Threads : At(t, "run") =>
       /\ Model(t) \in loaded /\ Model(t) \in stamped
       /\ holder[Model(t)] = t
  /\ \A m \in stamped : holder[m] # Nobody

\* No more than max_loaded_models of the configured models are in memory,
\* however loads, evictions and runs interleave.  (A new model enters the
\* registry loaded, beyond the reach of the evictions before that.)
ResidentLimit == Limit > 0 => Cardinality(loaded \cap Configured) <= Limit

\* A listing waits, inside models_mutex_, for the metadata_mutex of a model
\* whose load waits for models_mutex_, or for model_load_mutex_ while the load
\* or run that has it waits for models_mutex_.
ListingMeetsLoad(ts) ==
  \E t, u, v \in ts, m \in Models :
    /\ At(t, "listing") /\ m \in thread[t].todo /\ metadata[m] = u
    /\ At(v, "residents")
    /\ u = v \/ (At(u, "loadMutex") /\ loadMutex = v)

\* No request and no sweep is under way.
Quiet == \A t \in Threads : At(t, "new") \/ At(t, "done")

\* Every request and sweep that begins ends, whatever locks are held around it,
\* unless a listing meets a load.
ThreadsEnd == <>[](Quiet \/ ListingMeetsLoad(Handlers))

\* Thread t needs a lock that u holds; a listing needs those of all the models
\* it has still to visit.
WaitsFor(t, u) ==
  \/ At(t, "wait") /\ holder[Model(t)] = u
  \/ (At(t, "metadata") \/ (At(t, "locked") /\ Is(t, {"load"}))) /\ metadata[Model(t)] = u
  \/ At(t, "listing") /\ \E m \in thread[t].todo : metadata[m] = u
  \/ At(t, "loadMutex") /\ loadMutex = u
  \/ thread[t].at \in {"find", "residents", "register"} /\ modelsMutex = u
  \/ At(t, "new") /\ Is(t, {"list", "sweep"}) /\ modelsMutex = u

\* Threads that all wait for one another, however many, are there because of a
\* listing and a load among them: no other order of guards, metadata mutexes,
\* model_load_mutex_ and models_mutex_ closes a circle.
OnlyListingsDeadlock ==
  \A ts \in SUBSET Threads :
    ts # {} /\ (\A t \in ts : \E u \in ts : WaitsFor(t, u)) => ListingMeetsLoad(ts)

\* A bounded request returns: it gets its turn or an answer that the model is
\* busy.  A request that looks its model up while a listing and a load wait for
\* each other does neither.
BoundedRequestsReturn ==
  \A t \in Handlers : thread[t].bounded ~> ~thread[t].bounded
=============================================================================
