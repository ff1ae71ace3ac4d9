--------------------------- MODULE ModelResidency ---------------------------
(***************************************************************************)
(* The models of the concurrent server: app/server/parallel_runtime.cpp.   *)
(* Request threads load models on first use, management threads register,  *)
(* reconfigure and unload them, bulk unloads drain many at once, loading   *)
(* evicts others when max_loaded_models is reached, and the idle thread    *)
(* unloads what nobody uses.                                               *)
(*                                                                         *)
(* Each model's admission lock appears as Admission states it (ModelSlots  *)
(* implements that): capacity, line, running and managing are one Admission*)
(* per model.  dispatch() runs with the lock's mutex held, so an operation *)
(* finds no admissible caller left at the front (Settled).                 *)
(*                                                                         *)
(* models_mutex_ is held only for lookups and snapshots, which are single  *)
(* steps here.  Loading and destroying sessions is one step each, between  *)
(* the steps that start and publish it.                                    *)
(***************************************************************************)
EXTENDS Integers, Sequences, FiniteSets, SequencesExt

CONSTANTS
  Models,      \* ids, registered from the start or later
  Callers,     \* request and management threads
  Idlers,      \* the idle-unload thread; none when idle_unload_ms is 0
  Nobody,      \* no owner
  Capacities,  \* the slot counts models are configured with
  Limit        \* max_loaded_models; 0 is unlimited

ASSUME ResidencyAssumption ==
  /\ IsFiniteSet(Models) /\ IsFiniteSet(Callers) /\ IsFiniteSet(Idlers)
  /\ Callers \cap Idlers = {} /\ Nobody \notin Callers \cup Idlers \cup Models
  /\ Capacities \subseteq Nat \ {0}
  /\ Limit \in Nat

VARIABLES
  registered,  \* the keys of model_index_; entries are never erased
  capacity,    \* per model: busy.count_, also the size of the pool it loads
  line, running, managing,   \* per model: who waits for and who has busy
  pool,        \* sessions: 0 when null, else the number of sessions in it
  resident,    \* parallel_resident
  initMutex,   \* per model: owner of initialization_mutex
  loadMutex,   \* owner of model_load_mutex_
  bulkMutex,   \* owner of bulk_admission_mutex_
  th           \* what each thread is doing

lockVars == <<capacity, line, running, managing>>
poolVars == <<pool, resident>>
mutexVars == <<initMutex, loadMutex, bulkMutex>>
vars == <<registered, lockVars, poolVars, mutexVars, th>>

Threads == Callers \cup Idlers
Owners == Threads \cup {Nobody}

(* op: the handler a thread runs.  at: how far it is.  model: its target.
   want: the slot count of the replacement.  todo, later: models a loop still
   has to visit, in this pass and in the next.  need: to_evict.  victim, back:
   the model being unloaded and where to go on after that. *)
Outside ==
  [op |-> "none", at |-> "outside", model |-> Nobody, want |-> 0,
   todo |-> <<>>, later |-> <<>>, need |-> 0, victim |-> Nobody, back |-> "outside"]

Begin(op, at, m) == [Outside EXCEPT !.op = op, !.at = at, !.model = m]

Phases == {"outside", "waiting", "init", "cold", "evict", "running", "validate",
           "probe", "retire", "publish", "ready", "drain", "sweep"}

TypeOK ==
  /\ registered \subseteq Models
  /\ capacity \in [Models -> Capacities]
  /\ line \in [Models -> Seq([caller : Callers, management : BOOLEAN])]
  /\ running \in [Models -> SUBSET Callers]
  /\ managing \in [Models -> SUBSET Threads]
  /\ pool \in [Models -> Capacities \cup {0}]
  /\ resident \in [Models -> BOOLEAN]
  /\ initMutex \in [Models -> Owners]
  /\ loadMutex \in Owners
  /\ bulkMutex \in Owners
  /\ th \in [Threads -> [op : {"none", "request", "unload", "load", "bulk", "sweep"},
                         at : Phases, model : Models \cup {Nobody},
                         want : Capacities \cup {0},
                         todo : Seq(Models), later : Seq(Models), need : Nat,
                         victim : Models \cup {Nobody}, back : Phases]]

\* load_models: eager models are loaded up to the limit, the others on first use.
Init ==
  /\ registered \in SUBSET Models
  /\ capacity \in [Models -> Capacities]
  /\ line = [m \in Models |-> <<>>]
  /\ running = [m \in Models |-> {}]
  /\ managing = [m \in Models |-> {}]
  /\ \E eager \in SUBSET registered :
       /\ Limit > 0 => Cardinality(eager) <= Limit
       /\ pool = [m \in Models |-> IF m \in eager THEN capacity[m] ELSE 0]
       /\ resident = [m \in Models |-> m \in eager]
  /\ initMutex = [m \in Models |-> Nobody]
  /\ loadMutex = Nobody
  /\ bulkMutex = Nobody
  /\ th = [t \in Threads |-> Outside]

----------------------------------------------------------------------------
(* The admission lock of model m *)

Lock(m) == INSTANCE Admission WITH
  Callers <- Threads, Capacities <- Capacities,
  capacity <- capacity[m], line <- line[m],
  running <- running[m], managing <- managing[m]

\* Seeded fault: one request more than there are slots.
RoomForRequest_OneMore(m) == managing[m] = {} /\ Cardinality(running[m]) <= capacity[m]

RoomForRequest(m) == managing[m] = {} /\ Cardinality(running[m]) < capacity[m]
RoomForManager(m) == managing[m] = {} /\ running[m] = {}

Settled(m) ==
  line[m] # <<>> =>
    IF Head(line[m]).management THEN ~RoomForManager(m) ELSE ~RoomForRequest(m)

Manages(t, m) == t \in managing[m]

LineUp(t, m, management) ==
  line' = [line EXCEPT ![m] = Append(@, [caller |-> t, management |-> management])]

AdmitFirst(m) ==
  /\ ~Settled(m)
  /\ LET first == Head(line[m]) IN
       IF first.management
       THEN managing' = [managing EXCEPT ![m] = {first.caller}] /\ UNCHANGED running
       ELSE running' = [running EXCEPT ![m] = @ \cup {first.caller}] /\ UNCHANGED managing
  /\ line' = [line EXCEPT ![m] = Tail(@)]
  /\ UNCHANGED <<registered, capacity, poolVars, mutexVars, th>>

\* A timed-out wait; bulk work waits without a timeout.
GiveUp(t) ==
  /\ th[t].at = "waiting"
  /\ LET m == th[t].model IN
       \E i \in DOMAIN line[m] :
         line[m][i].caller = t /\ line' = [line EXCEPT ![m] = RemoveAt(@, i)]
  /\ th' = [th EXCEPT ![t] = Outside]
  /\ UNCHANGED <<registered, capacity, running, managing, poolVars, mutexVars>>

Leave(t, m) ==
  /\ running' = [running EXCEPT ![m] = @ \ {t}]
  /\ managing' = [managing EXCEPT ![m] = @ \ {t}]

\* Seeded fault: a free manager's place is enough, requests may still run.
CanTryAcquire_IgnoresRequests(m) == line[m] = <<>> /\ managing[m] = {}

\* try_acquire: eviction and idle unload never wait.
CanTryAcquire(m) == line[m] = <<>> /\ RoomForManager(m)

----------------------------------------------------------------------------
(* Entering the handlers *)

\* bind_request, or the same acquire_model_run at the start of run_model
BindRequest(t, m) ==
  /\ th[t] = Outside /\ m \in registered /\ Settled(m)
  /\ \/ /\ line[m] = <<>> /\ RoomForRequest(m)
        /\ running' = [running EXCEPT ![m] = @ \cup {t}]
        /\ th' = [th EXCEPT ![t] = Begin("request", "init", m)]
        /\ UNCHANGED line
     \/ /\ ~(line[m] = <<>> /\ RoomForRequest(m))
        /\ LineUp(t, m, FALSE)
        /\ th' = [th EXCEPT ![t] = Begin("request", "waiting", m)]
        /\ UNCHANGED running
  /\ UNCHANGED <<registered, capacity, managing, poolVars, mutexVars>>

\* handle_model_unload, and handle_model_load of an id that is registered
QueueManager(t, m, op) ==
  /\ th[t] = Outside /\ m \in registered /\ Settled(m)
  /\ LineUp(t, m, TRUE)
  /\ th' = [th EXCEPT ![t] = Begin(op, "waiting", m)]
  /\ UNCHANGED <<registered, capacity, running, managing, poolVars, mutexVars>>

\* handle_model_load of a new id: the entry is published with its lease taken.
Register(t, m) ==
  /\ th[t] = Outside /\ m \notin registered
  /\ registered' = registered \cup {m}
  /\ managing' = [managing EXCEPT ![m] = {t}]
  /\ th' = [th EXCEPT ![t] = Begin("load", "init", m)]
  /\ UNCHANGED <<capacity, line, running, poolVars, mutexVars>>

----------------------------------------------------------------------------
(* LoadedModel::unload *)

\* Logical residency ends first ...
Retire(t, v, back) ==
  /\ resident' = [resident EXCEPT ![v] = FALSE]
  /\ th' = [th EXCEPT ![t] = [back EXCEPT !.at = "retire", !.victim = v, !.back = back.at]]
  /\ UNCHANGED <<registered, pool, initMutex, bulkMutex>>

\* Seeded fault: the slot count is taken from the pool just destroyed.
AfterTeardown_FromPool(t, v) ==
  IF th[t].back = "init"
  THEN capacity' = [capacity EXCEPT ![v] = pool'[v]] /\ UNCHANGED managing
  ELSE managing' = [managing EXCEPT ![v] = {}] /\ UNCHANGED capacity

\* A reconfiguration commits the new slot count and keeps its lease; everybody
\* else is done with the model.
AfterTeardown(t, v) ==
  IF th[t].back = "init"
  THEN capacity' = [capacity EXCEPT ![v] = th[t].want] /\ UNCHANGED managing
  ELSE managing' = [managing EXCEPT ![v] = {}] /\ UNCHANGED capacity

\* ... the sessions and weights go later.
Retired(t) ==
  /\ th[t].at = "retire"
  /\ pool' = [pool EXCEPT ![th[t].victim] = 0]
  /\ AfterTeardown(t, th[t].victim)
  /\ th' = [th EXCEPT ![t] =
       IF th[t].back = "outside" THEN Outside
       ELSE [@ EXCEPT !.at = th[t].back, !.want = 0, !.victim = Nobody,
                       !.back = "outside"]]
  /\ UNCHANGED <<registered, line, running, resident, mutexVars>>

\* handle_model_unload, admitted
Unload(t) ==
  /\ th[t].at = "waiting" /\ th[t].op = "unload" /\ Manages(t, th[t].model)
  /\ Retire(t, th[t].model, [th[t] EXCEPT !.at = "outside"])
  /\ UNCHANGED <<lockVars, loadMutex>>

----------------------------------------------------------------------------
(* ensure_model_loaded_locked *)

\* What follows it: inference, or the response of handle_model_load.
Loaded(t) ==
  \/ /\ th[t].op = "request"
     /\ th' = [th EXCEPT ![t] = Begin("request", "running", th[t].model)]
     /\ UNCHANGED <<running, managing>>
  \/ /\ th[t].op = "load"
     /\ th' = [th EXCEPT ![t] = Outside]
     /\ Leave(t, th[t].model)

\* The caller was admitted at once, or its wait for a request slot is over, or
\* it manages the model and has no more to change.
Initializes(t) ==
  \/ th[t].at = "init"
  \/ th[t].at = "waiting" /\ th[t].op = "request" /\ t \in running[th[t].model]

EnterInit(t) ==
  /\ Initializes(t)
  /\ LET m == th[t].model IN
       /\ initMutex[m] = Nobody
       /\ \/ pool[m] # 0 /\ Loaded(t) /\ UNCHANGED initMutex
          \/ /\ pool[m] = 0
             /\ initMutex' = [initMutex EXCEPT ![m] = t]
             /\ th' = [th EXCEPT ![t].at = "cold"]
             /\ UNCHANGED <<running, managing>>
  /\ UNCHANGED <<registered, capacity, line, poolVars, loadMutex, bulkMutex>>

\* Seeded fault: loads are not serialized.
TakeLoadMutex_Never(t) == UNCHANGED loadMutex

\* model_load_mutex_ is taken only when a residency guard needs it.
TakeLoadMutex(t) == IF Limit > 0 THEN loadMutex = Nobody /\ loadMutex' = t
                                 ELSE UNCHANGED loadMutex
DropLoadMutex(t) == loadMutex' = IF loadMutex = t THEN Nobody ELSE loadMutex

\* evict_for_model_limit: how many of the others have to go.
Excess(others) ==
  IF Limit > 0 /\ Cardinality(others) > Limit - 1
  THEN Cardinality(others) - (Limit - 1) ELSE 0

\* The candidates are sorted by last_used_ms; equal stamps, and stamps that
\* other threads refresh meanwhile, make every order possible.
StartLoad(t) ==
  /\ th[t].at = "cold"
  /\ TakeLoadMutex(t)
  /\ LET others == {r \in registered : resident[r] /\ r # th[t].model} IN
       \E order \in IF Excess(others) = 0 THEN {<<>>} ELSE SetToSeqs(others) :
         th' = [th EXCEPT ![t].at = "evict", ![t].todo = order, ![t].need = Excess(others)]
  /\ UNCHANGED <<registered, lockVars, poolVars, initMutex, bulkMutex>>

\* Seeded fault: a victim in use is waited for.
TryUnload_Waits(t, next) ==
  LET v == Head(th[t].todo) IN
  /\ th[t].todo # <<>> /\ Settled(v)
  /\ IF CanTryAcquire(v)
     THEN managing' = [managing EXCEPT ![v] = {t}] /\ Retire(t, v, next)
     ELSE UNCHANGED <<registered, managing, poolVars, initMutex, bulkMutex, th>>
  /\ UNCHANGED <<capacity, line, running, loadMutex>>

\* The next model of a loop over try_acquire: unloaded, or skipped when in use.
TryUnload(t, next) ==
  LET v == Head(th[t].todo) IN
  /\ th[t].todo # <<>> /\ Settled(v)
  /\ \/ /\ CanTryAcquire(v)
        /\ managing' = [managing EXCEPT ![v] = {t}]
        /\ Retire(t, v, next)
     \/ /\ ~CanTryAcquire(v)
        /\ th' = [th EXCEPT ![t].todo = Tail(@)]
        /\ UNCHANGED <<registered, managing, poolVars, initMutex, bulkMutex>>
  /\ UNCHANGED <<capacity, line, running, loadMutex>>

Evict(t) ==
  /\ th[t].at = "evict" /\ th[t].need > 0
  /\ TryUnload(t, [th[t] EXCEPT !.todo = Tail(@), !.need = @ - 1])

\* The complete pool is published; both mutexes are released.
LoadSucceeds(t) ==
  /\ th[t].at = "evict" /\ th[t].need = 0
  /\ LET m == th[t].model IN
       /\ pool' = [pool EXCEPT ![m] = capacity[m]]
       /\ resident' = [resident EXCEPT ![m] = TRUE]
       /\ initMutex' = [initMutex EXCEPT ![m] = Nobody]
  /\ DropLoadMutex(t)
  /\ Loaded(t)
  /\ UNCHANGED <<registered, capacity, line, bulkMutex>>

\* Seeded fault: a failed load keeps its lease.
LoadThrows_KeepsLease(t) ==
  /\ th[t].at = "evict" /\ (th[t].need > 0 => th[t].todo = <<>>)
  /\ initMutex' = [initMutex EXCEPT ![th[t].model] = Nobody]
  /\ DropLoadMutex(t)
  /\ th' = [th EXCEPT ![t] = Outside]
  /\ UNCHANGED <<registered, lockVars, poolVars, bulkMutex>>

\* Every loaded model is busy, memory is short, or the load itself fails; the
\* exception releases whatever the thread holds.
LoadThrows(t) ==
  /\ th[t].at = "evict" /\ (th[t].need > 0 => th[t].todo = <<>>)
  /\ initMutex' = [initMutex EXCEPT ![th[t].model] = Nobody]
  /\ DropLoadMutex(t)
  /\ Leave(t, th[t].model)
  /\ th' = [th EXCEPT ![t] = Outside]
  /\ UNCHANGED <<registered, capacity, line, poolVars, bulkMutex>>

\* The run ends, successfully or not, and its lease is destroyed.
RunEnds(t) ==
  /\ th[t].at = "running"
  /\ Leave(t, th[t].model)
  /\ th' = [th EXCEPT ![t] = Outside]
  /\ UNCHANGED <<registered, capacity, line, poolVars, mutexVars>>

----------------------------------------------------------------------------
(* handle_model_load of a registered model, admitted *)

Reconfigures(t) ==
  th[t].at = "waiting" /\ th[t].op = "load" /\ Manages(t, th[t].model)

\* Nothing changed: only make sure it is loaded.
KeepConfig(t) ==
  /\ Reconfigures(t)
  /\ th' = [th EXCEPT ![t].at = "init"]
  /\ UNCHANGED <<registered, lockVars, poolVars, mutexVars>>

\* validate_replacement_slots: one slot always fits, the live pool knows its
\* capacity; anything else is probed first.
ReplaceConfig(t, n) ==
  /\ Reconfigures(t)
  /\ n = 1 \/ pool[th[t].model] # 0
  /\ Retire(t, th[t].model, [th[t] EXCEPT !.at = "init", !.want = n])
  /\ UNCHANGED <<lockVars, loadMutex>>

RefuseConfig(t, n) ==
  /\ Reconfigures(t)
  /\ n # 1 /\ pool[th[t].model] # 0
  /\ Leave(t, th[t].model)
  /\ th' = [th EXCEPT ![t] = Outside]
  /\ UNCHANGED <<registered, capacity, line, poolVars, mutexVars>>

\* The probe loads a private model, under model_load_mutex_.
NeedsProbe(t, n) ==
  /\ Reconfigures(t)
  /\ n # 1
  /\ th' = [th EXCEPT ![t].at = "validate", ![t].want = n]
  /\ UNCHANGED <<registered, lockVars, poolVars, mutexVars>>

StartProbe(t) ==
  /\ th[t].at = "validate"
  /\ TakeLoadMutex(t)
  /\ th' = [th EXCEPT ![t].at = "probe"]
  /\ UNCHANGED <<registered, lockVars, poolVars, initMutex, bulkMutex>>

ProbeEnds(t) ==
  /\ th[t].at = "probe"
  /\ DropLoadMutex(t)
  /\ \/ Retire(t, th[t].model, [th[t] EXCEPT !.at = "init"]) /\ UNCHANGED lockVars
     \/ /\ Leave(t, th[t].model)
        /\ th' = [th EXCEPT ![t] = Outside]
        /\ UNCHANGED <<registered, capacity, line, poolVars, initMutex, bulkMutex>>

----------------------------------------------------------------------------
(* unload_registered_models *)

\* The selection is the registry's order, or the order of the request.
StartBulk(t, selection) ==
  /\ th[t] = Outside
  /\ bulkMutex = Nobody /\ bulkMutex' = t
  /\ th' = [th EXCEPT ![t] =
       [Outside EXCEPT !.op = "bulk", !.at = "publish", !.todo = selection]]
  /\ UNCHANGED <<registered, lockVars, poolVars, initMutex, loadMutex>>

\* One queue_management per model, under bulk_admission_mutex_ throughout.
Publish(t) ==
  LET v == Head(th[t].todo) IN
  /\ th[t].at = "publish" /\ th[t].todo # <<>> /\ Settled(v)
  /\ LineUp(t, v, TRUE)
  /\ th' = [th EXCEPT ![t].todo = Tail(@), ![t].later = Append(@, v)]
  /\ UNCHANGED <<registered, capacity, running, managing, poolVars, mutexVars>>

PublishEnds(t) ==
  /\ th[t].at = "publish" /\ th[t].todo = <<>>
  /\ bulkMutex' = Nobody
  /\ th' = [th EXCEPT ![t].at = "ready", ![t].todo = th[t].later, ![t].later = <<>>]
  /\ UNCHANGED <<registered, lockVars, poolVars, initMutex, loadMutex>>

\* First pass: unload what is granted already.
ReadyPass(t) ==
  LET v == Head(th[t].todo) IN
  /\ th[t].at = "ready" /\ th[t].todo # <<>> /\ Settled(v)
  /\ \/ Manages(t, v) /\ Retire(t, v, [th[t] EXCEPT !.todo = Tail(@)])
     \/ /\ ~Manages(t, v)
        /\ th' = [th EXCEPT ![t].todo = Tail(@), ![t].later = Append(@, v)]
        /\ UNCHANGED <<registered, poolVars, initMutex, bulkMutex>>
  /\ UNCHANGED <<lockVars, loadMutex>>

ReadyPassEnds(t) ==
  /\ th[t].at = "ready" /\ th[t].todo = <<>>
  /\ th' = [th EXCEPT ![t].at = "drain", ![t].todo = th[t].later, ![t].later = <<>>]
  /\ UNCHANGED <<registered, lockVars, poolVars, mutexVars>>

\* Second pass: wait for each of the others in turn.
DrainPass(t) ==
  /\ th[t].at = "drain" /\ th[t].todo # <<>> /\ Manages(t, Head(th[t].todo))
  /\ Retire(t, Head(th[t].todo), [th[t] EXCEPT !.todo = Tail(@)])
  /\ UNCHANGED <<lockVars, loadMutex>>

LoopEnds(t) ==
  /\ th[t].at \in {"drain", "sweep"} /\ th[t].todo = <<>>
  /\ th' = [th EXCEPT ![t] = Outside]
  /\ UNCHANGED <<registered, lockVars, poolVars, mutexVars>>

----------------------------------------------------------------------------
(* unload_idle_models, by the idle thread when nothing ran for a while *)

StartSweep(t) ==
  /\ th[t] = Outside
  /\ \E order \in SetToSeqs({m \in registered : resident[m]}) :
       th' = [th EXCEPT ![t] =
         [Outside EXCEPT !.op = "sweep", !.at = "sweep", !.todo = order]]
  /\ UNCHANGED <<registered, lockVars, poolVars, mutexVars>>

Sweep(t) ==
  /\ th[t].at = "sweep"
  /\ TryUnload(t, [th[t] EXCEPT !.todo = Tail(@)])

----------------------------------------------------------------------------
Selections(S) == UNION {SetToSeqs(T) : T \in SUBSET S \ {{}}}

Start(t) ==
  \/ \E m \in Models : \/ BindRequest(t, m) \/ Register(t, m)
                       \/ \E op \in {"unload", "load"} : QueueManager(t, m, op)
  \/ \E selection \in Selections(registered) : StartBulk(t, selection)

\* What a thread does next on its own account.
Step(t) ==
  \/ EnterInit(t) \/ StartLoad(t) \/ Evict(t)
  \/ LoadSucceeds(t) \/ LoadThrows(t) \/ RunEnds(t)
  \/ Unload(t) \/ Retired(t)
  \/ KeepConfig(t) \/ StartProbe(t) \/ ProbeEnds(t)
  \/ \E n \in Capacities : ReplaceConfig(t, n) \/ RefuseConfig(t, n) \/ NeedsProbe(t, n)
  \/ Publish(t) \/ PublishEnds(t) \/ ReadyPass(t) \/ ReadyPassEnds(t) \/ DrainPass(t)
  \/ Sweep(t) \/ LoopEnds(t)

Next ==
  \/ \E t \in Callers : Start(t) \/ GiveUp(t)
  \/ \E t \in Idlers : StartSweep(t)
  \/ \E t \in Threads : Step(t)
  \/ \E m \in Models : AdmitFirst(m)

Spec == Init /\ [][Next]_vars

(***************************************************************************)
(* Fairness.  Threads keep running and get a mutex that is free time and   *)
(* again (strong fairness); dispatch() returns; every run and every load   *)
(* ends.  Nobody has to start anything or give up waiting.                 *)
(***************************************************************************)
FairSpec ==
  /\ Spec
  /\ \A t \in Threads : SF_vars(Step(t))
  /\ \A m \in Models : WF_vars(AdmitFirst(m))

----------------------------------------------------------------------------
(* Safety *)

\* max_loaded_models is never exceeded, whatever loads, registrations,
\* reconfigurations and evictions overlap.
ResidentLimit == Limit > 0 => Cardinality({m \in Models : resident[m]}) <= Limit

\* A lease that runs finds a session in every slot the lock can hand out: no
\* eviction, sweep, unload or replacement takes the pool away or resizes it
\* under a request, and logical residency tells the truth while one runs.
RunsHaveSessions ==
  \A t \in Callers :
    th[t].at = "running" => LET m == th[t].model IN
      /\ t \in running[m]
      /\ pool[m] = capacity[m] /\ resident[m]

Loads(t, m) ==
  /\ th[t].model = m
  /\ th[t].at \in {"cold", "evict"} \/ (th[t].at = "retire" /\ th[t].back = "evict")
Destroys(t, m) == th[t].at = "retire" /\ th[t].victim = m

\* Sessions are built and destroyed by one thread at a time: a model is loaded
\* only while it has no sessions, by nobody else and not during its teardown,
\* and its teardown overlaps no run, no load and no other teardown.
LifecycleIsExclusive ==
  \A m \in Models : \A t \in Threads :
    /\ Loads(t, m) => pool[m] = 0 /\ ~resident[m]
    /\ Destroys(t, m) => running[m] = {} /\ ~resident[m]
    /\ Loads(t, m) \/ Destroys(t, m) =>
         \A u \in Threads \ {t} : ~Loads(u, m) /\ ~Destroys(u, m)

\* A run keeps its session from beginning to end, and sessions are made and
\* destroyed by one thread at a time.
SessionsAreOwned == RunsHaveSessions /\ LifecycleIsExclusive

Places(t, m) == {i \in DOMAIN line[m] : line[m][i].caller = t}
Claimed(t) == {m \in Models : t \in running[m] \cup managing[m] \/ Places(t, m) # {}}
Elements(q) == {q[i] : i \in DOMAIN q}

\* What the handler of a thread still answers for.
Pledged(t) ==
  (IF th[t].op \in {"request", "unload", "load"} THEN {th[t].model} ELSE {}) \cup
  (IF th[t].op = "bulk"
   THEN Elements(th[t].later) \cup (IF th[t].at = "publish" THEN {} ELSE Elements(th[t].todo))
   ELSE {}) \cup
  ({th[t].victim} \ {Nobody})

\* No exception, refusal, timeout or skipped victim strands a reservation, and
\* no handler works on a model whose lease it has lost: a thread has exactly
\* one claim on each model its handler still answers for and none elsewhere.
ClaimsMatchHandlers ==
  \A t \in Threads :
    /\ Claimed(t) = Pledged(t)
    /\ \A m \in Models :
         Cardinality(Places(t, m)) + (IF t \in running[m] THEN 1 ELSE 0)
                                   + (IF t \in managing[m] THEN 1 ELSE 0) <= 1

\* The handlers use each lock as Admission allows: only the manager of a model
\* resizes it, nobody leaves it twice, and neither eviction nor idle unload
\* overtakes a waiter.
UsesAdmission ==
  [][\A m \in Models :
       Lock(m)!Next \/ UNCHANGED <<capacity[m], line[m], running[m], managing[m]>>]_vars

----------------------------------------------------------------------------
(* Liveness *)

\* Every handler returns: loads that evict, probes, bulk unloads with
\* overlapping selections in any order and the idle thread never wait for each
\* other in a circle, although they hold leases while waiting for mutexes and
\* reservations on several models while waiting for leases.
EveryHandlerReturns ==
  \A t \in Threads : th[t].at # "outside" ~> th[t].at = "outside"
=============================================================================
