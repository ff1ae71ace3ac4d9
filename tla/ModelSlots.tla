----------------------------- MODULE ModelSlots -----------------------------
(***************************************************************************)
(* The admission lock of one served model: app/server/model_slots.h and    *)
(* the overrun test of app/server/busy_guard.h.  Requests take one of      *)
(* `count` slots, managers (load, unload, reconfigure) take the model      *)
(* alone, and both wait in one queue.                                      *)
(*                                                                         *)
(* Every public operation runs under mutex_.  The dispatch loop is modelled*)
(* iteration by iteration, because each iteration reads the clock again:   *)
(* mutex = "dispatch" says that some thread holds it inside dispatch(),    *)
(* and no other operation can start until the loop returns.                *)
(*                                                                         *)
(* Time is relative.  A slot's since_ timestamp becomes its age (0: free,  *)
(* n: taken n-1 ticks ago, saturating at AgeCap, beyond which no timeout   *)
(* can tell two ages apart); a deadline becomes the ticks left to it (0:   *)
(* passed).  Both are exact, so the clock needs no bound.                  *)
(***************************************************************************)
EXTENDS Integers, Sequences, FiniteSets, SequencesExt

CONSTANTS
  Callers,     \* threads that use the lock; each holds at most one lease
  MaxSlots,    \* kMaxParallelSessions
  Capacities,  \* the slot counts the model is configured with
  Timeouts,    \* the timeout_ms values callers pass; 0 is unbounded
  MaxTimeout   \* a bound on them

ASSUME ConstantsAssumption ==
  /\ IsFiniteSet(Callers)
  /\ MaxSlots \in Nat \ {0}
  /\ Capacities \subseteq 1 .. MaxSlots
  /\ MaxTimeout \in Nat
  /\ Timeouts \subseteq 0 .. MaxTimeout

VARIABLES
  queue,              \* queue_: waiting callers, oldest first
  waiter,             \* each caller's Waiter, then the slot of its Lock
  since,              \* since_: age of the request in each slot, 0 when free
  count,              \* count_: configured slots
  waiting_requests,   \* waiting_requests_
  waiting_exclusive,  \* waiting_exclusive_
  exclusive_since,    \* exclusive_since_, an age; exclusive_ is set with it
  mutex,              \* mutex_: "free", or held inside dispatch()
  pc,                 \* where each caller is
  wake                \* blocked callers whose cv was notified

vars == <<queue, waiter, since, count, waiting_requests, waiting_exclusive,
          exclusive_since, mutex, pc, wake>>

Slots == 0 .. MaxSlots - 1
NoSlot == -1                         \* also the slot_ of an exclusive Lock
NoDeadline == -1
AgeCap == MaxTimeout + 2

\* status: neither flag set ("queued"), granted or expired.
Waiter == [management : BOOLEAN, status : {"queued", "granted", "expired"},
           slot : Slots \cup {NoSlot}, deadline : -1 .. MaxTimeout]

NewWaiter(management, timeout) ==
  [management |-> management, status |-> "queued",
   slot |-> NoSlot, deadline |-> IF timeout > 0 THEN timeout ELSE NoDeadline]

\* A Lock keeps nothing but its slot.
Lease(management, s) ==
  [management |-> management, status |-> "granted",
   slot |-> s, deadline |-> NoDeadline]
NoWaiter == NewWaiter(FALSE, 0)

TypeOK ==
  /\ queue \in Seq(Callers)
  /\ waiter \in [Callers -> Waiter]
  /\ since \in [Slots -> 0 .. AgeCap]
  /\ count \in Capacities
  /\ waiting_requests \in Nat
  /\ waiting_exclusive \in Nat
  /\ exclusive_since \in 0 .. AgeCap
  /\ mutex \in {"free", "dispatch"}
  /\ pc \in [Callers -> {"outside", "pending", "blocked", "holding"}]
  /\ wake \subseteq Callers

Init ==
  /\ queue = <<>>
  /\ waiter = [c \in Callers |-> NoWaiter]
  /\ since = [i \in Slots |-> 0]
  /\ count \in Capacities           \* configured before publication
  /\ waiting_requests = 0
  /\ waiting_exclusive = 0
  /\ exclusive_since = 0
  /\ mutex = "free"
  /\ pc = [c \in Callers |-> "outside"]
  /\ wake = {}

----------------------------------------------------------------------------
(* Predicates of the lock *)

exclusive == exclusive_since # 0

Granted(c) == waiter[c].status = "granted"
Expired(c) == waiter[c].status = "expired"

\* model_run_has_overrun: strictly longer than the timeout, never without one.
Overrun(age, timeout) == timeout > 0 /\ age > 0 /\ age - 1 > timeout

\* free_slot: the lowest free index below count_.
IsFreeSlot(i) == i < count /\ since[i] = 0 /\ \A j \in Slots : j < i => since[j] # 0
HasFreeSlot == \E i \in Slots : i < count /\ since[i] = 0

\* Seeded fault: a manager does not wait for the requests that run.
Idle_IgnoresRequests == ~exclusive

Idle == ~exclusive /\ \A i \in Slots : since[i] = 0

\* Seeded fault: the fast path takes a free slot past a waiting manager.
FastPath_Barging == ~exclusive /\ HasFreeSlot

FastPath == ~exclusive /\ queue = <<>> /\ HasFreeSlot

\* acquire_run gives up at once only if everything it could wait for is late.
RunBlockersLate(timeout) ==
  \/ Overrun(exclusive_since, timeout)
  \/ /\ ~exclusive
     /\ \E i \in Slots : i < count /\ since[i] # 0
     /\ \A i \in Slots : i < count /\ since[i] # 0 => Overrun(since[i], timeout)

\* queue_management gives up at once if anything it has to wait for is late.
ManagementBlockersLate(timeout) ==
  \/ Overrun(exclusive_since, timeout)
  \/ \E i \in Slots : Overrun(since[i], timeout)

----------------------------------------------------------------------------
(* Queue bookkeeping, shared by the operations below *)

\* Seeded fault: the two waiting counters are swapped.
Uncount_Swapped(c) ==
  IF waiter[c].management
  THEN waiting_requests' = waiting_requests - 1 /\ UNCHANGED waiting_exclusive
  ELSE waiting_exclusive' = waiting_exclusive - 1 /\ UNCHANGED waiting_requests

\* Seeded fault: a request that leaves the queue stays counted as waiting.
Uncount_ManagersOnly(c) ==
  /\ waiting_exclusive' = waiting_exclusive - (IF waiter[c].management THEN 1 ELSE 0)
  /\ UNCHANGED waiting_requests

Uncount(c) ==
  IF waiter[c].management
  THEN waiting_exclusive' = waiting_exclusive - 1 /\ UNCHANGED waiting_requests
  ELSE waiting_requests' = waiting_requests - 1 /\ UNCHANGED waiting_exclusive

RemoveFront == Uncount(Head(queue)) /\ queue' = Tail(queue)

\* Seeded fault: the loop changes the waiter without waking its thread.
Notify_Forgotten(c) == UNCHANGED wake

\* notify_one reaches the thread only if it is already waiting on its cv.
Notify(c) == wake' = IF pc[c] = "blocked" THEN wake \cup {c} ELSE wake

\* enqueue: the trailing dispatch() is entered with the mutex still held.
Enqueue(c, management, timeout) ==
  /\ waiter' = [waiter EXCEPT ![c] = NewWaiter(management, timeout)]
  /\ queue' = Append(queue, c)
  /\ IF management
     THEN waiting_exclusive' = waiting_exclusive + 1 /\ UNCHANGED waiting_requests
     ELSE waiting_requests' = waiting_requests + 1 /\ UNCHANGED waiting_exclusive
  /\ mutex' = "dispatch"
  /\ pc' = [pc EXCEPT ![c] = "pending"]
  /\ UNCHANGED <<since, count, exclusive_since, wake>>

\* Seeded fault: a released lease is not passed on.
ReleaseSlot_NoDispatch(s) ==
  /\ IF s = NoSlot
     THEN exclusive_since' = 0 /\ UNCHANGED since
     ELSE since' = [since EXCEPT ![s] = 0] /\ UNCHANGED exclusive_since
  /\ UNCHANGED mutex

\* Seeded fault: dropping a granted waiter does not free its slot.
ReleaseSlot_Stranded(s) ==
  /\ IF s = NoSlot
     THEN exclusive_since' = 0
     ELSE UNCHANGED exclusive_since
  /\ UNCHANGED since
  /\ mutex' = "dispatch"

\* release_slot
ReleaseSlot(s) ==
  /\ IF s = NoSlot
     THEN exclusive_since' = 0 /\ UNCHANGED since
     ELSE since' = [since EXCEPT ![s] = 0] /\ UNCHANGED exclusive_since
  /\ mutex' = "dispatch"

\* cancel_waiter: hand back what was granted, or leave the queue.
CancelWaiter(c) ==
  /\ \/ /\ Granted(c)
        /\ ReleaseSlot(waiter[c].slot)
        /\ UNCHANGED <<queue, waiting_requests, waiting_exclusive>>
     \/ /\ ~Granted(c)
        /\ \/ \E i \in DOMAIN queue :
                queue[i] = c /\ queue' = RemoveAt(queue, i) /\ Uncount(c)
           \/ /\ c \notin ToSet(queue)
              /\ UNCHANGED <<queue, waiting_requests, waiting_exclusive>>
        /\ mutex' = "dispatch"
        /\ UNCHANGED <<since, exclusive_since>>
  /\ waiter' = [waiter EXCEPT ![c] = NoWaiter]
  /\ pc' = [pc EXCEPT ![c] = "outside"]
  /\ wake' = wake \ {c}
  /\ UNCHANGED count

----------------------------------------------------------------------------
(* Admission *)

\* acquire_run, fast path: nobody waits and a slot is free.
AcquireRunNow(c) ==
  /\ mutex = "free" /\ pc[c] = "outside"
  /\ FastPath
  /\ \E i \in Slots :
       /\ IsFreeSlot(i)
       /\ since' = [since EXCEPT ![i] = 1]
       /\ waiter' = [waiter EXCEPT ![c] = Lease(FALSE, i)]
  /\ pc' = [pc EXCEPT ![c] = "holding"]
  /\ UNCHANGED <<queue, count, waiting_requests, waiting_exclusive,
                 exclusive_since, mutex, wake>>

\* acquire_run otherwise; a caller that finds only late blockers throws here.
AcquireRun(c, timeout) ==
  /\ mutex = "free" /\ pc[c] = "outside"
  /\ ~FastPath
  /\ ~RunBlockersLate(timeout)
  /\ Enqueue(c, FALSE, timeout)

QueueManagement(c, timeout) ==
  /\ mutex = "free" /\ pc[c] = "outside"
  /\ ~ManagementBlockersLate(timeout)
  /\ Enqueue(c, TRUE, timeout)

\* try_acquire: eviction and the idle unloader, which never wait.
TryAcquire(c) ==
  /\ mutex = "free" /\ pc[c] = "outside"
  /\ Idle /\ queue = <<>>
  /\ exclusive_since' = 1
  /\ waiter' = [waiter EXCEPT ![c] = Lease(TRUE, NoSlot)]
  /\ pc' = [pc EXCEPT ![c] = "holding"]
  /\ UNCHANGED <<queue, since, count, waiting_requests, waiting_exclusive,
                 mutex, wake>>

----------------------------------------------------------------------------
(* dispatch(), one loop iteration per step *)

FrontExpired == waiter[Head(queue)].deadline = 0

DispatchExpired ==
  /\ mutex = "dispatch" /\ queue # <<>>
  /\ FrontExpired
  /\ waiter' = [waiter EXCEPT ![Head(queue)].status = "expired"]
  /\ RemoveFront
  /\ Notify(Head(queue))
  /\ UNCHANGED <<since, count, exclusive_since, mutex, pc>>

DispatchManagement ==
  /\ mutex = "dispatch" /\ queue # <<>>
  /\ ~FrontExpired
  /\ waiter[Head(queue)].management
  /\ Idle
  /\ exclusive_since' = 1
  /\ waiter' = [waiter EXCEPT ![Head(queue)].status = "granted"]
  /\ RemoveFront
  /\ Notify(Head(queue))
  /\ UNCHANGED <<since, count, mutex, pc>>

DispatchRequest ==
  /\ mutex = "dispatch" /\ queue # <<>>
  /\ ~FrontExpired
  /\ ~waiter[Head(queue)].management
  /\ ~exclusive
  /\ \E i \in Slots :
       /\ IsFreeSlot(i)
       /\ since' = [since EXCEPT ![i] = 1]
       /\ waiter' = [waiter EXCEPT ![Head(queue)].status = "granted",
                                   ![Head(queue)].slot = i]
  /\ RemoveFront
  /\ Notify(Head(queue))
  /\ UNCHANGED <<count, exclusive_since, mutex, pc>>

\* What keeps the waiter at the front where it is.
FrontBlocked ==
  \/ exclusive
  \/ waiter[Head(queue)].management /\ ~Idle
  \/ ~waiter[Head(queue)].management /\ ~HasFreeSlot

DispatchReturn ==
  /\ mutex = "dispatch"
  /\ queue # <<>> => ~FrontExpired /\ FrontBlocked
  /\ mutex' = "free"
  /\ UNCHANGED <<queue, waiter, since, count, waiting_requests,
                 waiting_exclusive, exclusive_since, pc, wake>>

Dispatch == DispatchExpired \/ DispatchManagement \/ DispatchRequest \/ DispatchReturn

----------------------------------------------------------------------------
(* Pending: waiting, polling, giving up *)

\* The predicate of cv.wait / cv.wait_until is evaluated: on entry, after a
\* notification, or when the deadline has passed.
Evaluates(c) ==
  /\ mutex = "free"
  /\ \/ pc[c] = "pending"
     \/ pc[c] = "blocked" /\ (c \in wake \/ waiter[c].deadline = 0)

TakeLock(c) ==
  /\ Granted(c)
  /\ waiter' = [waiter EXCEPT ![c] = Lease(waiter[c].management, waiter[c].slot)]
  /\ pc' = [pc EXCEPT ![c] = "holding"]
  /\ wake' = wake \ {c}
  /\ UNCHANGED <<queue, since, count, waiting_requests, waiting_exclusive,
                 exclusive_since, mutex>>

\* Pending::acquire returns a Lock ...
AcquireGranted(c) == Evaluates(c) /\ TakeLock(c)

\* ... or cancels the waiter and throws ServerBusyError ...
AcquireTimedOut(c) ==
  /\ Evaluates(c)
  /\ ~Granted(c)
  /\ (Expired(c) \/ waiter[c].deadline = 0)
  /\ CancelWaiter(c)

\* ... or sleeps.
AcquireBlocks(c) ==
  /\ Evaluates(c)
  /\ ~Granted(c) /\ ~Expired(c) /\ waiter[c].deadline # 0
  /\ pc' = [pc EXCEPT ![c] = "blocked"]
  /\ wake' = wake \ {c}
  /\ UNCHANGED <<queue, waiter, since, count, waiting_requests,
                 waiting_exclusive, exclusive_since, mutex>>

\* Pending::try_acquire on a reservation made by queue_management.
TryAcquirePending(c) ==
  /\ mutex = "free" /\ pc[c] = "pending" /\ waiter[c].management
  /\ TakeLock(c)

\* ~Pending on a reservation that was not consumed.
CancelPending(c) ==
  /\ mutex = "free" /\ pc[c] = "pending" /\ waiter[c].management
  /\ CancelWaiter(c)

----------------------------------------------------------------------------
(* Holders of a Lock *)

\* ~Lock
Release(c) ==
  /\ mutex = "free" /\ pc[c] = "holding"
  /\ ReleaseSlot(waiter[c].slot)
  /\ waiter' = [waiter EXCEPT ![c] = NoWaiter]
  /\ pc' = [pc EXCEPT ![c] = "outside"]
  /\ UNCHANGED <<queue, count, waiting_requests, waiting_exclusive, wake>>

\* configure, under an exclusive lease; it throws while a slot is taken.
Configure(c, n) ==
  /\ mutex = "free" /\ pc[c] = "holding" /\ waiter[c].slot = NoSlot
  /\ \A i \in Slots : since[i] = 0
  /\ count' = n
  /\ UNCHANGED <<queue, waiter, since, waiting_requests, waiting_exclusive,
                 exclusive_since, mutex, pc, wake>>

----------------------------------------------------------------------------
(* The steady clock *)

Older(age) == IF age = 0 \/ age = AgeCap THEN age ELSE age + 1

Tick ==
  /\ since' = [i \in Slots |-> Older(since[i])]
  /\ exclusive_since' = Older(exclusive_since)
  /\ waiter' = [c \in Callers |->
       [waiter[c] EXCEPT !.deadline = IF @ > 0 THEN @ - 1 ELSE @]]
  /\ UNCHANGED <<queue, count, waiting_requests, waiting_exclusive,
                 mutex, pc, wake>>

----------------------------------------------------------------------------
Wait(c) == AcquireGranted(c) \/ AcquireTimedOut(c) \/ AcquireBlocks(c)

Next ==
  \/ \E c \in Callers :
       \/ AcquireRunNow(c) \/ TryAcquire(c)
       \/ \E t \in Timeouts : AcquireRun(c, t) \/ QueueManagement(c, t)
       \/ AcquireGranted(c) \/ AcquireTimedOut(c) \/ AcquireBlocks(c)
       \/ TryAcquirePending(c) \/ CancelPending(c)
       \/ Release(c)
       \/ \E n \in Capacities : Configure(c, n)
  \/ DispatchExpired \/ DispatchManagement \/ DispatchRequest \/ DispatchReturn
  \/ Tick

Spec == Init /\ [][Next]_vars

(***************************************************************************)
(* Fairness.  A thread inside dispatch() keeps running, time passes, and a *)
(* thread that has to evaluate its wait predicate gets the mutex sooner or *)
(* later although others take it in between (strong fairness).  Nothing is *)
(* assumed of holders: a model run may never end.                          *)
(***************************************************************************)
Fairness ==
  /\ WF_vars(Dispatch)
  /\ WF_vars(Tick)
  /\ \A c \in Callers : SF_vars(Wait(c))

FairSpec == Spec /\ Fairness

----------------------------------------------------------------------------
(* Safety *)

Waiting(c) == pc[c] \in {"pending", "blocked"}
Queued(c) == Waiting(c) /\ ~Granted(c) /\ ~Expired(c)
QueuedManagers == {c \in Callers : Queued(c) /\ waiter[c].management}
QueuedRequests == {c \in Callers : Queued(c) /\ ~waiter[c].management}

\* The queue holds exactly the callers whose Waiter is neither granted nor
\* expired, once each: no waiter is lost by a grant, an expiry or a cancel.
QueueHoldsWaiters ==
  /\ \A i, j \in DOMAIN queue : queue[i] = queue[j] => i = j
  /\ \A c \in Callers : Queued(c) <=> \E i \in DOMAIN queue : queue[i] = c

Owns(c, s) == Granted(c) /\ waiter[c].slot = s

SlotsOwned ==
  /\ \A s \in Slots \cup {NoSlot} : \A c, d \in Callers :
       Owns(c, s) /\ Owns(d, s) => c = d
  /\ \A i \in Slots : since[i] # 0 <=> \E c \in Callers : Owns(c, i)
  /\ exclusive <=> \E c \in Callers : Owns(c, NoSlot)
  /\ \A i \in Slots : since[i] # 0 => i < count

LeasesFollowThreads ==
  \A c \in Callers : /\ pc[c] = "outside" => ~Granted(c)
                     /\ pc[c] = "holding" => Granted(c)
                     /\ ~Granted(c) => waiter[c].slot = NoSlot

\* Every taken slot and the exclusive flag have exactly one owner, be it a Lock
\* or a grant its thread has not yet seen; a waiter that times out, is
\* cancelled or loses the race against its grant strands nothing, and no
\* owned slot lies beyond the configured count.
LeaseOwnership == SlotsOwned /\ LeasesFollowThreads

\* A manager has the model alone: while the exclusive lease is out, no request
\* slot is.
Exclusion == exclusive => \A i \in Slots : since[i] = 0

\* The published waiting counters agree with the queue after any sequence of
\* grants, expiries and cancellations.
CountersMatchQueue ==
  /\ waiting_exclusive = Cardinality(QueuedManagers)
  /\ waiting_requests = Cardinality(QueuedRequests)

\* No waiter is lost or queued twice, and the numbers a client is shown are
\* those of the queue, after timeouts, grants and cancellations in any order.
QueueMatchesWaiters == QueueHoldsWaiters /\ CountersMatchQueue

\* No operation leaves the mutex with an admissible caller at the front of the
\* queue: a release, a timeout or a cancellation always passes capacity on.
WorkConserving == mutex = "free" /\ queue # <<>> => FrontBlocked

\* The lock implements first-come-first-served admission with managers as
\* barriers: nobody overtakes an older waiter, not by the fast path of
\* acquire_run, not by try_acquire, not when a waiter ahead gives up.
Promise == INSTANCE Admission WITH
  capacity <- count,
  line     <- [i \in DOMAIN queue |-> [caller |-> queue[i],
                                      management |-> waiter[queue[i]].management]],
  running  <- {c \in Callers : Granted(c) /\ waiter[c].slot # NoSlot},
  managing <- {c \in Callers : Granted(c) /\ waiter[c].slot = NoSlot}

ImplementsAdmission == Promise!Spec

----------------------------------------------------------------------------
(* Liveness, under Fairness *)

\* A caller with a timeout returns, admitted or refused, even if no holder ever
\* releases the model and whatever the others do.
TimedWaitersReturn ==
  \A c \in Callers :
    (Waiting(c) /\ waiter[c].deadline >= 0) ~> ~Waiting(c)

\* If no lease is held forever, a caller that waits without a timeout is served:
\* neither a stream of requests nor a stream of managers starves the other.
HoldersRelease ==
  \A c \in Callers : []<>(pc[c] # "holding")

UnboundedWaitersServed ==
  HoldersRelease => \A c \in Callers : Waiting(c) ~> ~Waiting(c)

\* Every waiting caller returns: by its deadline, or when those before it leave.
WaitersReturn == TimedWaitersReturn /\ UnboundedWaitersServed
============================================================================
