-------------------------- MODULE ModelSlotsProof --------------------------
(***************************************************************************)
(* Proofs about ModelSlots for any set of threads, any number of slots and *)
(* any timeouts.  Inv is the inductive invariant: the conjunction of the   *)
(* invariants the runs check, which need each other (the counters stay     *)
(* natural because they count the queue, a lease has one owner because the *)
(* queue never holds a granted waiter, and so on).                         *)
(*                                                                         *)
(* The last part proves that ModelSlots implements Admission: every        *)
(* initial state maps to an initial state and every step to a step or a    *)
(* stutter.                                                                *)
(***************************************************************************)
EXTENDS ModelSlots, FiniteSetTheorems, SequenceTheorems, TLAPS

Inv == TypeOK /\ QueueHoldsWaiters /\ LeaseOwnership /\ Exclusion
       /\ CountersMatchQueue /\ WorkConserving

USE ConstantsAssumption

----------------------------------------------------------------------------
(* Lemmas about the operators *)

\* cancel_waiter's erase: the waiter at i leaves, the others keep their order.
LEMMA RemoveAtProps ==
  ASSUME NEW S, NEW q \in Seq(S), NEW i \in 1 .. Len(q)
  PROVE  /\ RemoveAt(q, i) \in Seq(S)
         /\ Len(RemoveAt(q, i)) = Len(q) - 1
         /\ \A j \in 1 .. Len(q) - 1 :
              RemoveAt(q, i)[j] = IF j < i THEN q[j] ELSE q[j + 1]
<1> DEFINE a == SubSeq(q, 1, i - 1)
           b == SubSeq(q, i + 1, Len(q))
<1>1. a \in Seq(S) /\ Len(a) = i - 1 /\ \A j \in 1 .. (i - 1) : a[j] = q[j]
  BY SubSeqProperties
<1>2. b \in Seq(S) /\ Len(b) = Len(q) - i /\ \A j \in 1 .. (Len(q) - i) : b[j] = q[i + j]
  BY SubSeqProperties
<1>3. RemoveAt(q, i) = a \o b
  BY DEF RemoveAt
<1> HIDE DEF a, b
<1>4. /\ a \o b \in Seq(S)
      /\ Len(a \o b) = Len(a) + Len(b)
      /\ \A j \in 1 .. Len(a) + Len(b) :
           (a \o b)[j] = IF j <= Len(a) THEN a[j] ELSE b[j - Len(a)]
  BY <1>1, <1>2, ConcatProperties
<1>5. ASSUME NEW j \in 1 .. Len(q) - 1
      PROVE  (a \o b)[j] = IF j < i THEN q[j] ELSE q[j + 1]
  <2>1. CASE j < i
    BY <1>1, <1>2, <1>4, <2>1
  <2>2. CASE ~(j < i)
    <3>1. j - (i - 1) \in 1 .. (Len(q) - i) /\ i + (j - (i - 1)) = j + 1
      BY <2>2
    <3>2. (a \o b)[j] = b[j - (i - 1)]
      BY <1>1, <1>2, <1>4, <2>2
    <3>3. QED
      BY <1>2, <2>2, <3>1, <3>2
  <2>3. QED
    BY <2>1, <2>2
<1>6. QED
  BY <1>1, <1>2, <1>3, <1>4, <1>5

\* What the constructors of waiters and leases contain.
LEMMA NewWaiterProps ==
  ASSUME NEW management \in BOOLEAN, NEW timeout \in Timeouts \cup {0}
  PROVE  LET w == NewWaiter(management, timeout) IN
         /\ w \in Waiter /\ w.management = management
         /\ w.status = "queued" /\ w.slot = NoSlot
BY DEF NewWaiter, Waiter, NoSlot, NoDeadline

\* A Lock is a granted waiter that keeps nothing but its slot.
LEMMA LeaseProps ==
  ASSUME NEW management \in BOOLEAN, NEW s \in Slots \cup {NoSlot}
  PROVE  LET w == Lease(management, s) IN
         w \in Waiter /\ w.status = "granted" /\ w.slot = s
BY DEF Lease, Waiter, NoSlot, NoDeadline

\* A thread outside the lock has a waiter that was granted nothing.
LEMMA NoWaiterProps == NoWaiter \in Waiter /\ NoWaiter.status = "queued" /\ NoWaiter.slot = NoSlot
BY NewWaiterProps DEF NoWaiter

\* Ages fit their range.
LEMMA AgeProps == 0 \in 0 .. AgeCap /\ 1 \in 0 .. AgeCap
BY DEF AgeCap

----------------------------------------------------------------------------
(* The initial states *)

\* A lock just published is empty: nobody waits and every slot is free.
LEMMA InitInv == Init => Inv
<1> SUFFICES ASSUME Init PROVE Inv
  OBVIOUS
<1> USE NoWaiterProps DEF Init
<1>1. TypeOK
  BY AgeProps DEF TypeOK
<1>2. QueueHoldsWaiters
  BY DEF QueueHoldsWaiters, Queued, Waiting, Granted
<1>3. LeaseOwnership /\ Exclusion /\ WorkConserving
  BY DEF LeaseOwnership, SlotsOwned, Owns, LeasesFollowThreads, Exclusion,
         WorkConserving, Granted, exclusive
<1>4. CountersMatchQueue
  <2>1. QueuedManagers = {} /\ QueuedRequests = {}
    BY DEF QueuedManagers, QueuedRequests, Queued, Waiting
  <2>2. Cardinality({}) = 0
    BY FS_EmptySet
  <2>3. QED
    BY <2>1, <2>2 DEF CountersMatchQueue
<1>5. QED
  BY <1>1, <1>2, <1>3, <1>4 DEF Inv

----------------------------------------------------------------------------
(* How leases move: granted, kept, released *)

\* Granting a free slot below count_ to somebody without one (the fast path
\* and dispatch() for a request) leaves every slot with one owner.
LEMMA GrantSlot ==
  ASSUME TypeOK, SlotsOwned, Exclusion, NEW c \in Callers, NEW i \in Slots,
         ~Granted(c), ~exclusive, since[i] = 0, i < count,
         since' = [since EXCEPT ![i] = 1],
         UNCHANGED <<count, exclusive_since>>,
         waiter'[c].status = "granted", waiter'[c].slot = i,
         \A d \in Callers \ {c} : waiter'[d] = waiter[d]
  PROVE  SlotsOwned' /\ Exclusion'
<1>1. \A d \in Callers, s \in Slots \cup {NoSlot} :
        Owns(d, s)' <=> Owns(d, s) \/ (d = c /\ s = i)
  BY DEF Owns, Granted
<1>2. \A d \in Callers : ~Owns(d, i)
  BY DEF SlotsOwned
<1>3. i # NoSlot
  BY DEF Slots, NoSlot
<1>4. \A j \in Slots : since'[j] = IF j = i THEN 1 ELSE since[j]
  BY DEF TypeOK
<1>5. exclusive' <=> exclusive
  BY DEF exclusive
<1>6. SlotsOwned'
  BY <1>1, <1>2, <1>3, <1>4, <1>5 DEF SlotsOwned
<1>7. QED
  BY <1>5, <1>6 DEF Exclusion

\* Granting the exclusive lease while the lock is idle (try_acquire and
\* dispatch() for a manager) leaves it with one owner and no request running.
LEMMA GrantExclusive ==
  ASSUME TypeOK, SlotsOwned, Exclusion, NEW c \in Callers,
         ~Granted(c), Idle, exclusive_since' = 1,
         UNCHANGED <<count, since>>,
         waiter'[c].status = "granted", waiter'[c].slot = NoSlot,
         \A d \in Callers \ {c} : waiter'[d] = waiter[d]
  PROVE  SlotsOwned' /\ Exclusion'
<1>1. \A d \in Callers, s \in Slots \cup {NoSlot} :
        Owns(d, s)' <=> Owns(d, s) \/ (d = c /\ s = NoSlot)
  BY DEF Owns, Granted
<1>2. \A d \in Callers : ~Owns(d, NoSlot)
  BY DEF SlotsOwned, Idle
<1>3. NoSlot \notin Slots
  BY DEF Slots, NoSlot
<1>4. exclusive'
  BY DEF exclusive
<1>5. SlotsOwned'
  BY <1>1, <1>2, <1>3, <1>4 DEF SlotsOwned
<1>6. QED
  BY <1>5 DEF Exclusion, Idle

\* A step that grants and releases nothing (a wait, a poll, a tick of the
\* clock) leaves every lease with its owner.
LEMMA KeepLeases ==
  ASSUME TypeOK, SlotsOwned, Exclusion,
         UNCHANGED count, exclusive' <=> exclusive,
         \A i \in Slots : since'[i] = 0 <=> since[i] = 0,
         \A d \in Callers : Granted(d)' <=> Granted(d),
         \A d \in Callers : Granted(d) => waiter'[d].slot = waiter[d].slot
  PROVE  SlotsOwned' /\ Exclusion'
<1>1. \A d \in Callers, s \in Slots \cup {NoSlot} : Owns(d, s)' <=> Owns(d, s)
  BY DEF Owns
<1>2. SlotsOwned'
  BY <1>1 DEF SlotsOwned
<1>3. QED
  BY <1>2 DEF Exclusion

\* release_slot frees exactly what its caller owned.
LEMMA ReleaseLease ==
  ASSUME TypeOK, SlotsOwned, Exclusion, NEW c \in Callers,
         Granted(c), ReleaseSlot(waiter[c].slot), UNCHANGED count,
         waiter'[c].status # "granted",
         \A d \in Callers \ {c} : waiter'[d] = waiter[d]
  PROVE  SlotsOwned' /\ Exclusion'
<1> DEFINE r == waiter[c].slot
<1>1. r \in Slots \cup {NoSlot} /\ Owns(c, r)
  BY DEF TypeOK, Waiter, Owns
<1>2. \A d \in Callers, s \in Slots \cup {NoSlot} : Owns(d, s)' <=> Owns(d, s) /\ d # c
  BY DEF Owns, Granted
<1>3. \A s \in Slots \cup {NoSlot} : Owns(c, s) => s = r
  BY DEF Owns
<1>4. NoSlot \notin Slots
  BY DEF Slots, NoSlot
<1>5. \A j \in Slots : since'[j] = IF j = r THEN 0 ELSE since[j]
  BY <1>1, <1>4 DEF TypeOK, ReleaseSlot
<1>6. exclusive' <=> exclusive /\ r # NoSlot
  BY DEF ReleaseSlot, exclusive
<1> HIDE DEF r
<1>7. SlotsOwned'
  BY <1>1, <1>2, <1>3, <1>4, <1>5, <1>6 DEF SlotsOwned
<1>8. QED
  BY <1>5, <1>6, <1>7 DEF Exclusion

----------------------------------------------------------------------------
(* How waiters join and leave the queue *)

\* Only finitely many callers wait, so the waiting counters have a value.
LEMMA QueuedFinite == /\ IsFiniteSet(QueuedManagers) /\ IsFiniteSet(QueuedRequests)
                      /\ Cardinality(QueuedManagers) \in Nat
                      /\ Cardinality(QueuedRequests) \in Nat
<1>1. QueuedManagers \subseteq Callers /\ QueuedRequests \subseteq Callers
  BY DEF QueuedManagers, QueuedRequests
<1>2. IsFiniteSet(QueuedManagers) /\ IsFiniteSet(QueuedRequests)
  BY <1>1, FS_Subset
<1>3. QED
  BY <1>2, FS_CardinalityType

\* A step in which nobody starts or stops waiting leaves the queue and the
\* counters in agreement.
LEMMA KeepQueue ==
  ASSUME TypeOK, QueueHoldsWaiters, CountersMatchQueue,
         UNCHANGED <<queue, waiting_requests, waiting_exclusive>>,
         \A d \in Callers : Queued(d)' <=> Queued(d),
         \A d \in Callers : Queued(d) => waiter'[d].management = waiter[d].management
  PROVE  QueueHoldsWaiters' /\ CountersMatchQueue'
<1>1. QueueHoldsWaiters'
  BY DEF QueueHoldsWaiters
<1>2. QueuedManagers' = QueuedManagers /\ QueuedRequests' = QueuedRequests
  BY DEF QueuedManagers, QueuedRequests
<1>3. QED
  BY <1>1, <1>2 DEF CountersMatchQueue

\* Whoever stops waiting is uncounted.
LEMMA LeaveQueue ==
  ASSUME TypeOK, CountersMatchQueue, NEW c \in Callers,
         Queued(c), Uncount(c), ~Queued(c)',
         \A d \in Callers \ {c} : /\ Queued(d)' <=> Queued(d)
                                /\ waiter'[d].management = waiter[d].management
  PROVE  /\ CountersMatchQueue'
         /\ waiting_requests' \in Nat /\ waiting_exclusive' \in Nat
<1>1. CASE waiter[c].management
  <2>1. QueuedManagers' = QueuedManagers \ {c} /\ QueuedRequests' = QueuedRequests
    BY <1>1 DEF QueuedManagers, QueuedRequests
  <2>2. c \in QueuedManagers
    BY <1>1 DEF QueuedManagers
  <2>3. Cardinality(QueuedManagers \ {c}) = Cardinality(QueuedManagers) - 1
    BY <2>2, QueuedFinite, FS_RemoveElement
  <2>4. Cardinality(QueuedManagers \ {c}) \in Nat
    BY QueuedFinite, FS_RemoveElement, FS_CardinalityType
  <2>5. waiting_exclusive' = waiting_exclusive - 1 /\ waiting_requests' = waiting_requests
    BY <1>1 DEF Uncount
  <2>6. QED
    BY <2>1, <2>3, <2>4, <2>5 DEF CountersMatchQueue, TypeOK
<1>2. CASE ~waiter[c].management
  <2>1. QueuedRequests' = QueuedRequests \ {c} /\ QueuedManagers' = QueuedManagers
    BY <1>2 DEF QueuedManagers, QueuedRequests
  <2>2. c \in QueuedRequests
    BY <1>2 DEF QueuedRequests
  <2>3. Cardinality(QueuedRequests \ {c}) = Cardinality(QueuedRequests) - 1
    BY <2>2, QueuedFinite, FS_RemoveElement
  <2>4. Cardinality(QueuedRequests \ {c}) \in Nat
    BY QueuedFinite, FS_RemoveElement, FS_CardinalityType
  <2>5. waiting_requests' = waiting_requests - 1 /\ waiting_exclusive' = waiting_exclusive
    BY <1>2 DEF Uncount
  <2>6. QED
    BY <2>1, <2>3, <2>4, <2>5 DEF CountersMatchQueue, TypeOK
<1>3. QED
  BY <1>1, <1>2

\* remove_front
LEMMA PopQueue ==
  ASSUME TypeOK, QueueHoldsWaiters, CountersMatchQueue,
         queue # <<>>, RemoveFront,
         NEW c \in Callers, c = Head(queue), ~Queued(c)',
         \A d \in Callers \ {c} :
           /\ Queued(d)' <=> Queued(d)
           /\ waiter'[d].management = waiter[d].management
  PROVE  /\ QueueHoldsWaiters' /\ CountersMatchQueue'
         /\ queue' \in Seq(Callers)
         /\ waiting_requests' \in Nat /\ waiting_exclusive' \in Nat
<1>1. queue \in Seq(Callers) /\ queue' = Tail(queue) /\ Queued(c)
  BY DEF TypeOK, RemoveFront, QueueHoldsWaiters
<1>2. /\ queue' \in Seq(Callers) /\ Len(queue') = Len(queue) - 1
      /\ \A j \in 1 .. Len(queue) - 1 : queue'[j] = queue[j + 1]
      /\ c = queue[1]
  BY <1>1
<1>3. \A j \in DOMAIN queue' : queue'[j] # c
  BY <1>1, <1>2 DEF QueueHoldsWaiters
<1>4. \A j, k \in DOMAIN queue' : queue'[j] = queue'[k] => j = k
  <2>1. SUFFICES ASSUME NEW j \in DOMAIN queue', NEW k \in DOMAIN queue',
                        queue'[j] = queue'[k]
                 PROVE  j = k
    OBVIOUS
  <2>2. /\ j \in Nat /\ k \in Nat
        /\ j + 1 \in DOMAIN queue /\ k + 1 \in DOMAIN queue
        /\ queue[j + 1] = queue[k + 1]
    BY <1>1, <1>2, <2>1
  <2>3. j + 1 = k + 1
    BY <2>2 DEF QueueHoldsWaiters
  <2>4. QED
    BY <2>2, <2>3
<1>5. ASSUME NEW d \in Callers \ {c}
      PROVE  (\E j \in DOMAIN queue : queue[j] = d) <=> \E j \in DOMAIN queue' : queue'[j] = d
  <2>1. ASSUME NEW j \in DOMAIN queue, queue[j] = d
        PROVE  \E k \in DOMAIN queue' : queue'[k] = d
    <3>1. j - 1 \in DOMAIN queue' /\ queue'[j - 1] = queue[j]
      BY <1>1, <1>2, <2>1
    <3>2. QED
      BY <2>1, <3>1
  <2>2. ASSUME NEW j \in DOMAIN queue', queue'[j] = d
        PROVE  \E k \in DOMAIN queue : queue[k] = d
    <3>1. j + 1 \in DOMAIN queue /\ queue[j + 1] = d
      BY <1>1, <1>2, <2>2
    <3>2. QED
      BY <3>1
  <2>3. QED
    BY <2>1, <2>2
<1>6. QueueHoldsWaiters'
  BY <1>3, <1>4, <1>5 DEF QueueHoldsWaiters
<1>7. Uncount(c)
  BY DEF RemoveFront
<1>8. QED
  BY <1>1, <1>2, <1>6, <1>7, LeaveQueue

\* cancel_waiter's erase of the waiter at i
LEMMA EraseQueue ==
  ASSUME TypeOK, QueueHoldsWaiters, CountersMatchQueue,
         NEW c \in Callers, NEW i \in DOMAIN queue, queue[i] = c,
         queue' = RemoveAt(queue, i), Uncount(c), ~Queued(c)',
         \A d \in Callers \ {c} : /\ Queued(d)' <=> Queued(d)
                                /\ waiter'[d].management = waiter[d].management
  PROVE  /\ QueueHoldsWaiters' /\ CountersMatchQueue'
         /\ queue' \in Seq(Callers)
         /\ waiting_requests' \in Nat /\ waiting_exclusive' \in Nat
<1>1. /\ queue \in Seq(Callers) /\ i \in 1 .. Len(queue) /\ Queued(c)
  BY DEF TypeOK, QueueHoldsWaiters
<1>2. /\ queue' \in Seq(Callers) /\ Len(queue') = Len(queue) - 1
      /\ \A j \in 1 .. Len(queue) - 1 :
           queue'[j] = IF j < i THEN queue[j] ELSE queue[j + 1]
  BY <1>1, RemoveAtProps
<1>3. ASSUME NEW j \in DOMAIN queue', NEW k \in DOMAIN queue', queue'[j] = queue'[k]
      PROVE  j = k
  <2> DEFINE At(n) == IF n < i THEN n ELSE n + 1
  <2>1. /\ j \in Nat /\ k \in Nat
        /\ At(j) \in DOMAIN queue /\ At(k) \in DOMAIN queue
        /\ queue[At(j)] = queue[At(k)]
    BY <1>1, <1>2, <1>3, SMTT(30)
  <2>2. At(j) = At(k)
    <3> HIDE DEF At
    <3> QED
      BY <2>1 DEF QueueHoldsWaiters
  <2>3. QED
    BY <1>1, <2>1, <2>2
<1>4. \A j \in DOMAIN queue' : queue'[j] # c
  BY <1>1, <1>2, SMTT(30) DEF QueueHoldsWaiters
<1>5. ASSUME NEW d \in Callers \ {c}
      PROVE  (\E j \in DOMAIN queue : queue[j] = d) <=> \E j \in DOMAIN queue' : queue'[j] = d
  <2>1. ASSUME NEW j \in DOMAIN queue, queue[j] = d
        PROVE  \E k \in DOMAIN queue' : queue'[k] = d
    <3>1. CASE j < i
      BY <1>1, <1>2, <2>1, <3>1
    <3>2. CASE j > i
      <4>1. j - 1 \in DOMAIN queue' /\ queue'[j - 1] = queue[j]
        BY <1>1, <1>2, <3>2
      <4>2. QED
        BY <2>1, <4>1
    <3>3. QED
      BY <1>1, <2>1, <3>1, <3>2
  <2>2. ASSUME NEW j \in DOMAIN queue', queue'[j] = d
        PROVE  \E k \in DOMAIN queue : queue[k] = d
    <3>1. j \in DOMAIN queue /\ j + 1 \in DOMAIN queue
      BY <1>1, <1>2
    <3>2. QED
      BY <1>1, <1>2, <2>2, <3>1
  <2>3. QED
    BY <2>1, <2>2
<1>6. QueueHoldsWaiters'
  BY <1>3, <1>4, <1>5 DEF QueueHoldsWaiters
<1>7. QED
  BY <1>1, <1>2, <1>6, LeaveQueue

\* enqueue's push_back
LEMMA JoinQueue ==
  ASSUME TypeOK, QueueHoldsWaiters, CountersMatchQueue,
         NEW c \in Callers, NEW management \in BOOLEAN, NEW timeout,
         ~Queued(c), Enqueue(c, management, timeout), Queued(c)',
         waiter'[c].management = management
  PROVE  /\ QueueHoldsWaiters' /\ CountersMatchQueue'
         /\ queue' \in Seq(Callers)
         /\ waiting_requests' \in Nat /\ waiting_exclusive' \in Nat
<1>1. /\ queue \in Seq(Callers) /\ queue' = Append(queue, c)
  BY DEF TypeOK, Enqueue
<1>2. /\ queue' \in Seq(Callers) /\ Len(queue') = Len(queue) + 1
      /\ \A j \in 1 .. Len(queue) : queue'[j] = queue[j]
      /\ queue'[Len(queue) + 1] = c
  BY <1>1
<1>3. \A d \in Callers \ {c} : /\ Queued(d)' <=> Queued(d)
                             /\ waiter'[d].management = waiter[d].management
  BY DEF TypeOK, Enqueue, Queued, Waiting, Granted, Expired
<1>4. \A j \in DOMAIN queue : queue[j] # c
  BY DEF QueueHoldsWaiters
<1>5. QueueHoldsWaiters'
  BY <1>1, <1>2, <1>3, <1>4 DEF QueueHoldsWaiters
<1>6. CASE management
  <2>1. QueuedManagers' = QueuedManagers \cup {c} /\ QueuedRequests' = QueuedRequests
    BY <1>3, <1>6 DEF QueuedManagers, QueuedRequests
  <2>2. c \notin QueuedManagers
    BY DEF QueuedManagers
  <2>3. Cardinality(QueuedManagers') = Cardinality(QueuedManagers) + 1
    BY <2>1, <2>2, QueuedFinite, FS_AddElement
  <2>4. waiting_exclusive' = waiting_exclusive + 1 /\ waiting_requests' = waiting_requests
    BY <1>6 DEF Enqueue
  <2>5. QED
    BY <1>2, <1>5, <2>1, <2>3, <2>4 DEF CountersMatchQueue, TypeOK
<1>7. CASE ~management
  <2>1. QueuedRequests' = QueuedRequests \cup {c} /\ QueuedManagers' = QueuedManagers
    BY <1>3, <1>7 DEF QueuedManagers, QueuedRequests
  <2>2. c \notin QueuedRequests
    BY DEF QueuedRequests
  <2>3. Cardinality(QueuedRequests') = Cardinality(QueuedRequests) + 1
    BY <2>1, <2>2, QueuedFinite, FS_AddElement
  <2>4. waiting_requests' = waiting_requests + 1 /\ waiting_exclusive' = waiting_exclusive
    BY <1>7 DEF Enqueue
  <2>5. QED
    BY <1>2, <1>5, <2>1, <2>3, <2>4 DEF CountersMatchQueue, TypeOK
<1>8. QED
  BY <1>6, <1>7

----------------------------------------------------------------------------
(* Every operation preserves the invariant: admission *)

\* The fast path of acquire_run preserves the invariant.
LEMMA AcquireRunNowInv ==
  ASSUME Inv, NEW c \in Callers, AcquireRunNow(c)
  PROVE  Inv'
<1>1. PICK i \in Slots :
        /\ IsFreeSlot(i)
        /\ since' = [since EXCEPT ![i] = 1]
        /\ waiter' = [waiter EXCEPT ![c] = Lease(FALSE, i)]
  BY DEF AcquireRunNow
<1>2. PICK lease \in Waiter :
        /\ lease.status = "granted" /\ lease.slot = i
        /\ waiter' = [waiter EXCEPT ![c] = lease]
  BY <1>1, LeaseProps
<1>3. /\ queue = <<>> /\ pc[c] = "outside" /\ pc' = [pc EXCEPT ![c] = "holding"]
      /\ since[i] = 0 /\ i < count /\ ~exclusive
      /\ UNCHANGED <<queue, count, waiting_requests, waiting_exclusive,
                     exclusive_since, mutex, wake>>
  BY <1>1 DEF AcquireRunNow, FastPath, IsFreeSlot
<1>4. /\ ~Granted(c) /\ waiter'[c] = lease
      /\ \A d \in Callers \ {c} : waiter'[d] = waiter[d]
  BY <1>2, <1>3 DEF Inv, TypeOK, LeaseOwnership, LeasesFollowThreads
<1>5. TypeOK'
  BY <1>1, <1>2, <1>3, AgeProps, ZenonT(30) DEF Inv, TypeOK
<1>6. SlotsOwned' /\ Exclusion'
  BY <1>1, <1>2, <1>3, <1>4, GrantSlot DEF Inv, LeaseOwnership
<1>7. LeasesFollowThreads'
  BY <1>2, <1>3, <1>4 DEF Inv, TypeOK, LeaseOwnership, LeasesFollowThreads, Granted
<1>8. \A d \in Callers : ~Queued(d) /\ ~Queued(d)'
  BY <1>2, <1>3, <1>4 DEF Inv, TypeOK, QueueHoldsWaiters, Queued, Waiting, Granted, Expired
<1>9. QueueHoldsWaiters' /\ CountersMatchQueue'
  BY <1>3, <1>8, KeepQueue DEF Inv
<1>10. WorkConserving'
  BY <1>3 DEF WorkConserving
<1>11. QED
  BY <1>5, <1>6, <1>7, <1>9, <1>10 DEF Inv, LeaseOwnership

\* enqueue preserves the invariant: the newcomer is queued and counted once.
LEMMA EnqueueInv ==
  ASSUME Inv, NEW c \in Callers, NEW management \in BOOLEAN, NEW timeout \in Timeouts,
         pc[c] = "outside", Enqueue(c, management, timeout)
  PROVE  Inv'
<1>1. PICK w \in Waiter :
        /\ w.management = management /\ w.status = "queued" /\ w.slot = NoSlot
        /\ waiter' = [waiter EXCEPT ![c] = w]
  BY NewWaiterProps DEF Enqueue
<1>2. /\ pc' = [pc EXCEPT ![c] = "pending"] /\ mutex' = "dispatch"
      /\ UNCHANGED <<since, count, exclusive_since, wake>>
  BY DEF Enqueue
<1>3. /\ ~Granted(c) /\ waiter'[c] = w
      /\ \A d \in Callers \ {c} : waiter'[d] = waiter[d]
  BY <1>1 DEF Inv, TypeOK, LeaseOwnership, LeasesFollowThreads
<1>4. ~Queued(c) /\ Queued(c)'
  BY <1>1, <1>2, <1>3 DEF Inv, TypeOK, Queued, Waiting, Granted, Expired
<1>5. /\ QueueHoldsWaiters' /\ CountersMatchQueue'
      /\ queue' \in Seq(Callers)
      /\ waiting_requests' \in Nat /\ waiting_exclusive' \in Nat
  BY <1>1, <1>3, <1>4, JoinQueue DEF Inv
<1>6. TypeOK'
  BY <1>1, <1>2, <1>5 DEF Inv, TypeOK
<1>7. SlotsOwned' /\ Exclusion'
  <2>1. \A d \in Callers : Granted(d)' <=> Granted(d)
    BY <1>1, <1>3 DEF Granted
  <2>2. \A d \in Callers : Granted(d) => waiter'[d].slot = waiter[d].slot
    BY <1>3
  <2>3. QED
    BY <1>2, <2>1, <2>2, KeepLeases DEF Inv, LeaseOwnership, exclusive
<1>8. LeasesFollowThreads'
  BY <1>1, <1>2, <1>3 DEF Inv, TypeOK, LeaseOwnership, LeasesFollowThreads, Granted
<1>9. WorkConserving'
  BY <1>2 DEF WorkConserving
<1>10. QED
  BY <1>5, <1>6, <1>7, <1>8, <1>9 DEF Inv, LeaseOwnership

\* try_acquire preserves the invariant: it takes only an idle, unawaited lock.
LEMMA TryAcquireInv ==
  ASSUME Inv, NEW c \in Callers, TryAcquire(c)
  PROVE  Inv'
<1>1. PICK lease \in Waiter :
        /\ lease.status = "granted" /\ lease.slot = NoSlot
        /\ waiter' = [waiter EXCEPT ![c] = lease]
  BY LeaseProps DEF TryAcquire
<1>2. /\ queue = <<>> /\ pc[c] = "outside" /\ pc' = [pc EXCEPT ![c] = "holding"]
      /\ Idle /\ exclusive_since' = 1
      /\ UNCHANGED <<queue, since, count, waiting_requests, waiting_exclusive, mutex, wake>>
  BY DEF TryAcquire
<1>3. /\ ~Granted(c) /\ waiter'[c] = lease
      /\ \A d \in Callers \ {c} : waiter'[d] = waiter[d]
  BY <1>1, <1>2 DEF Inv, TypeOK, LeaseOwnership, LeasesFollowThreads
<1>4. TypeOK'
  BY <1>1, <1>2, AgeProps DEF Inv, TypeOK
<1>5. SlotsOwned' /\ Exclusion'
  BY <1>1, <1>2, <1>3, GrantExclusive DEF Inv, LeaseOwnership
<1>6. LeasesFollowThreads'
  BY <1>1, <1>2, <1>3 DEF Inv, TypeOK, LeaseOwnership, LeasesFollowThreads, Granted
<1>7. \A d \in Callers : ~Queued(d) /\ ~Queued(d)'
  BY <1>1, <1>2, <1>3 DEF Inv, TypeOK, QueueHoldsWaiters, Queued, Waiting, Granted, Expired
<1>8. QueueHoldsWaiters' /\ CountersMatchQueue'
  BY <1>2, <1>7, KeepQueue DEF Inv
<1>9. WorkConserving'
  BY <1>2 DEF WorkConserving
<1>10. QED
  BY <1>4, <1>5, <1>6, <1>8, <1>9 DEF Inv, LeaseOwnership

----------------------------------------------------------------------------
(* Every operation preserves the invariant: the dispatch loop *)

\* The caller at the front of queue_ is a waiting one.
LEMMA FrontIsQueued ==
  ASSUME Inv, queue # <<>>
  PROVE  Head(queue) \in Callers /\ Queued(Head(queue))
BY DEF Inv, TypeOK, QueueHoldsWaiters

\* Expiring the front waiter preserves the invariant.
LEMMA DispatchExpiredInv ==
  ASSUME Inv, DispatchExpired
  PROVE  Inv'
<1>1. PICK c \in Callers : c = Head(queue) /\ Queued(c)
  BY FrontIsQueued DEF DispatchExpired
<1>2. /\ queue # <<>> /\ mutex' = "dispatch" /\ RemoveFront
      /\ waiter' = [waiter EXCEPT ![c].status = "expired"]
      /\ UNCHANGED <<since, count, exclusive_since, pc>>
  BY <1>1 DEF DispatchExpired
<1>3. /\ waiter'[c] \in Waiter /\ waiter'[c].status = "expired"
      /\ waiter'[c].slot = waiter[c].slot
      /\ \A d \in Callers \ {c} : waiter'[d] = waiter[d]
      /\ waiter' \in [Callers -> Waiter]
  BY <1>2, ZenonT(30) DEF Inv, TypeOK, Waiter
<1>4. ~Queued(c)' /\ ~Granted(c) /\ ~Granted(c)'
  BY <1>1, <1>3 DEF Queued, Granted, Expired
<1>5. \A d \in Callers \ {c} : /\ Queued(d)' <=> Queued(d)
                             /\ waiter'[d].management = waiter[d].management
  BY <1>2, <1>3 DEF Queued, Waiting, Granted, Expired
<1>6. /\ QueueHoldsWaiters' /\ CountersMatchQueue' /\ queue' \in Seq(Callers)
      /\ waiting_requests' \in Nat /\ waiting_exclusive' \in Nat
  BY <1>1, <1>2, <1>4, <1>5, PopQueue DEF Inv
<1>7. wake' \subseteq Callers
  BY <1>1 DEF Inv, TypeOK, DispatchExpired, Notify
<1>8. TypeOK'
  BY <1>2, <1>3, <1>6, <1>7 DEF Inv, TypeOK
<1>9. SlotsOwned' /\ Exclusion'
  <2>1. \A d \in Callers : Granted(d)' <=> Granted(d)
    BY <1>3, <1>4 DEF Granted
  <2>2. \A d \in Callers : Granted(d) => waiter'[d].slot = waiter[d].slot
    BY <1>3, <1>4
  <2>3. QED
    BY <1>2, <2>1, <2>2, KeepLeases DEF Inv, LeaseOwnership, exclusive
<1>10. LeasesFollowThreads'
  BY <1>1, <1>2, <1>3, <1>4 DEF Inv, LeaseOwnership, LeasesFollowThreads, Granted, Queued, Waiting
<1>11. WorkConserving'
  BY <1>2 DEF WorkConserving
<1>12. QED
  BY <1>6, <1>8, <1>9, <1>10, <1>11 DEF Inv, LeaseOwnership

\* What granting to the front has in common for managers and requests.
LEMMA GrantFrontInv ==
  ASSUME Inv, NEW c \in Callers, c = Head(queue), queue # <<>>,
         RemoveFront, Notify(c), UNCHANGED <<count, mutex, pc>>, mutex = "dispatch",
         NEW w \in Waiter, w.status = "granted",
         waiter' = [waiter EXCEPT ![c] = w],
         since' \in [Slots -> 0 .. AgeCap], exclusive_since' \in 0 .. AgeCap,
         SlotsOwned', Exclusion'
  PROVE  Inv'
<1>1. Queued(c)
  BY FrontIsQueued
<1>2. /\ waiter'[c] = w /\ waiter' \in [Callers -> Waiter]
      /\ \A d \in Callers \ {c} : waiter'[d] = waiter[d]
  BY DEF Inv, TypeOK
<1>3. ~Queued(c)'
  BY <1>2 DEF Queued, Granted
<1>4. \A d \in Callers \ {c} : /\ Queued(d)' <=> Queued(d)
                             /\ waiter'[d].management = waiter[d].management
  BY <1>2 DEF Queued, Waiting, Granted, Expired
<1>5. /\ QueueHoldsWaiters' /\ CountersMatchQueue' /\ queue' \in Seq(Callers)
      /\ waiting_requests' \in Nat /\ waiting_exclusive' \in Nat
  BY <1>3, <1>4, PopQueue DEF Inv
<1>6. TypeOK'
  BY <1>2, <1>5 DEF Inv, TypeOK, Notify
<1>7. LeasesFollowThreads'
  BY <1>1, <1>2 DEF Inv, LeaseOwnership, LeasesFollowThreads, Granted, Queued, Waiting
<1>8. QED
  BY <1>5, <1>6, <1>7 DEF Inv, LeaseOwnership, WorkConserving

\* Granting the front manager preserves the invariant.
LEMMA DispatchManagementInv ==
  ASSUME Inv, DispatchManagement
  PROVE  Inv'
<1>1. PICK c \in Callers : c = Head(queue) /\ Queued(c)
  BY FrontIsQueued DEF DispatchManagement
<1> DEFINE w == [waiter[c] EXCEPT !.status = "granted"]
<1>2. /\ queue # <<>> /\ mutex = "dispatch" /\ RemoveFront /\ Notify(c)
      /\ Idle /\ exclusive_since' = 1
      /\ waiter' = [waiter EXCEPT ![c] = w]
      /\ UNCHANGED <<since, count, mutex, pc>>
  BY <1>1 DEF DispatchManagement
<1>3. w \in Waiter /\ w.status = "granted" /\ w.slot = waiter[c].slot
  BY DEF Inv, TypeOK, Waiter
<1>4. w.slot = NoSlot
  BY <1>1, <1>3 DEF Inv, LeaseOwnership, LeasesFollowThreads, Queued
<1>5. SlotsOwned' /\ Exclusion'
  BY <1>1, <1>2, <1>3, <1>4, GrantExclusive DEF Inv, TypeOK, LeaseOwnership, Queued
<1>6. since' \in [Slots -> 0 .. AgeCap] /\ exclusive_since' \in 0 .. AgeCap
  BY <1>2, AgeProps DEF Inv, TypeOK
<1> HIDE DEF w
<1>7. QED
  BY <1>1, <1>2, <1>3, <1>5, <1>6, GrantFrontInv

\* Granting the front request preserves the invariant.
LEMMA DispatchRequestInv ==
  ASSUME Inv, DispatchRequest
  PROVE  Inv'
<1>1. PICK c \in Callers : c = Head(queue) /\ Queued(c)
  BY FrontIsQueued DEF DispatchRequest
<1>2. PICK i \in Slots :
        /\ IsFreeSlot(i)
        /\ since' = [since EXCEPT ![i] = 1]
        /\ waiter' = [waiter EXCEPT ![c].status = "granted", ![c].slot = i]
  BY <1>1 DEF DispatchRequest
<1> DEFINE w == [waiter[c] EXCEPT !.status = "granted", !.slot = i]
<1>3. w \in Waiter /\ w.status = "granted" /\ w.slot = i
  BY DEF Inv, TypeOK, Waiter
<1>4. /\ queue # <<>> /\ mutex = "dispatch" /\ RemoveFront /\ Notify(c)
      /\ ~exclusive /\ since[i] = 0 /\ i < count
      /\ UNCHANGED <<count, exclusive_since, mutex, pc>>
  BY <1>1, <1>2 DEF DispatchRequest, IsFreeSlot
<1>5. waiter' = [waiter EXCEPT ![c] = w]
  BY <1>2 DEF Inv, TypeOK, Waiter
<1> HIDE DEF w
<1>6. SlotsOwned' /\ Exclusion'
  BY <1>1, <1>2, <1>3, <1>4, <1>5, GrantSlot DEF Inv, TypeOK, LeaseOwnership, Queued
<1>7. since' \in [Slots -> 0 .. AgeCap] /\ exclusive_since' \in 0 .. AgeCap
  BY <1>2, <1>4, AgeProps DEF Inv, TypeOK
<1>8. QED
  BY <1>1, <1>3, <1>4, <1>5, <1>6, <1>7, GrantFrontInv

\* Leaving dispatch() preserves the invariant: what is still at the front is
\* blocked by a lease.
LEMMA DispatchReturnInv ==
  ASSUME Inv, DispatchReturn
  PROVE  Inv'
<1>1. /\ mutex' = "free" /\ (queue # <<>> => FrontBlocked)
      /\ UNCHANGED <<queue, waiter, since, count, waiting_requests,
                     waiting_exclusive, exclusive_since, pc, wake>>
  BY DEF DispatchReturn
<1>2. TypeOK'
  BY <1>1 DEF Inv, TypeOK
<1>3. /\ QueueHoldsWaiters' /\ CountersMatchQueue' /\ LeaseOwnership' /\ Exclusion'
      /\ FrontBlocked' <=> FrontBlocked
  BY <1>1 DEF Inv, QueueHoldsWaiters, CountersMatchQueue, QueuedManagers, QueuedRequests,
         Queued, Waiting, LeaseOwnership, SlotsOwned, LeasesFollowThreads, Owns, Granted,
         Expired, Exclusion, exclusive, FrontBlocked, Idle, HasFreeSlot
<1>4. QED
  BY <1>1, <1>2, <1>3 DEF Inv, WorkConserving

----------------------------------------------------------------------------
(* Every operation preserves the invariant: waiting and giving up *)

\* Consuming a grant preserves the invariant: the Lock owns what the waiter did.
LEMMA TakeLockInv ==
  ASSUME Inv, NEW c \in Callers, Waiting(c), TakeLock(c)
  PROVE  Inv'
<1>1. PICK lease \in Waiter :
        /\ lease.status = "granted" /\ lease.slot = waiter[c].slot
        /\ lease.management = waiter[c].management
        /\ waiter' = [waiter EXCEPT ![c] = lease]
  <2>1. waiter[c].slot \in Slots \cup {NoSlot} /\ waiter[c].management \in BOOLEAN
    BY DEF Inv, TypeOK, Waiter
  <2>2. Lease(waiter[c].management, waiter[c].slot).management = waiter[c].management
    BY DEF Lease
  <2>3. QED
    BY <2>1, <2>2, LeaseProps DEF TakeLock
<1>2. /\ Granted(c) /\ pc' = [pc EXCEPT ![c] = "holding"] /\ wake' = wake \ {c}
      /\ UNCHANGED <<queue, since, count, waiting_requests, waiting_exclusive,
                     exclusive_since, mutex>>
  BY DEF TakeLock
<1>3. waiter'[c] = lease /\ \A d \in Callers \ {c} : waiter'[d] = waiter[d]
  BY <1>1 DEF Inv, TypeOK
<1>4. TypeOK'
  BY <1>1, <1>2 DEF Inv, TypeOK
<1>5. \A d \in Callers : /\ Granted(d)' <=> Granted(d)
                         /\ waiter'[d].slot = waiter[d].slot
                         /\ waiter'[d].management = waiter[d].management
  BY <1>1, <1>2, <1>3 DEF Granted
<1>6. SlotsOwned' /\ Exclusion'
  BY <1>2, <1>5, KeepLeases DEF Inv, LeaseOwnership, exclusive
<1>7. LeasesFollowThreads'
  BY <1>2, <1>5 DEF Inv, TypeOK, LeaseOwnership, LeasesFollowThreads
<1>8. \A d \in Callers : Queued(d)' <=> Queued(d)
  BY <1>1, <1>2, <1>3 DEF Inv, TypeOK, Queued, Waiting, Granted, Expired
<1>9. QueueHoldsWaiters' /\ CountersMatchQueue'
  BY <1>2, <1>5, <1>8, KeepQueue DEF Inv
<1>10. WorkConserving'
  <2>1. queue # <<>> => Head(queue) \in Callers
    BY FrontIsQueued
  <2>2. QED
    BY <1>2, <1>5, <2>1 DEF Inv, WorkConserving, FrontBlocked, Idle, HasFreeSlot, exclusive
<1>11. QED
  BY <1>4, <1>6, <1>7, <1>9, <1>10 DEF Inv, LeaseOwnership

\* Going to sleep on the condition variable preserves the invariant.
LEMMA AcquireBlocksInv ==
  ASSUME Inv, NEW c \in Callers, AcquireBlocks(c)
  PROVE  Inv'
<1>1. /\ Waiting(c) /\ ~Granted(c)
      /\ pc' = [pc EXCEPT ![c] = "blocked"] /\ wake' = wake \ {c}
      /\ UNCHANGED <<queue, waiter, since, count, waiting_requests,
                     waiting_exclusive, exclusive_since, mutex>>
  BY DEF AcquireBlocks, Evaluates, Waiting
<1>2. TypeOK'
  BY <1>1 DEF Inv, TypeOK
<1>3. SlotsOwned' /\ Exclusion'
  BY <1>1, KeepLeases DEF Inv, LeaseOwnership, exclusive, Granted
<1>4. LeasesFollowThreads'
  BY <1>1 DEF Inv, TypeOK, LeaseOwnership, LeasesFollowThreads, Granted
<1>5. \A d \in Callers : Queued(d)' <=> Queued(d)
  BY <1>1 DEF Inv, TypeOK, Queued, Waiting, Granted, Expired
<1>6. QueueHoldsWaiters' /\ CountersMatchQueue'
  BY <1>1, <1>5, KeepQueue DEF Inv
<1>7. WorkConserving'
  BY <1>1 DEF Inv, WorkConserving, FrontBlocked, Idle, HasFreeSlot, exclusive
<1>8. QED
  BY <1>2, <1>3, <1>4, <1>6, <1>7 DEF Inv, LeaseOwnership

\* cancel_waiter preserves the invariant, granted or still queued.
LEMMA CancelWaiterInv ==
  ASSUME Inv, NEW c \in Callers, Waiting(c), CancelWaiter(c)
  PROVE  Inv'
<1>1. PICK w \in Waiter :
        /\ w.status = "queued" /\ w.slot = NoSlot
        /\ waiter' = [waiter EXCEPT ![c] = w]
  BY NoWaiterProps DEF CancelWaiter
<1>2. /\ pc' = [pc EXCEPT ![c] = "outside"] /\ wake' = wake \ {c}
      /\ mutex' = "dispatch" /\ UNCHANGED count
  BY DEF CancelWaiter, ReleaseSlot
<1>3. waiter'[c] = w /\ \A d \in Callers \ {c} : waiter'[d] = waiter[d]
  BY <1>1 DEF Inv, TypeOK
<1>4. ~Queued(c)' /\ ~Granted(c)'
  BY <1>1, <1>2, <1>3 DEF Inv, TypeOK, Queued, Waiting, Granted
<1>5. \A d \in Callers \ {c} : /\ Queued(d)' <=> Queued(d)
                             /\ waiter'[d].management = waiter[d].management
  BY <1>2, <1>3 DEF Inv, TypeOK, Queued, Waiting, Granted, Expired
<1>6. LeasesFollowThreads'
  BY <1>1, <1>2, <1>3 DEF Inv, TypeOK, LeaseOwnership, LeasesFollowThreads, Granted
<1>7. CASE Granted(c)
  <2>1. /\ ReleaseSlot(waiter[c].slot)
        /\ UNCHANGED <<queue, waiting_requests, waiting_exclusive>>
    BY <1>7 DEF CancelWaiter
  <2>2. SlotsOwned' /\ Exclusion'
    BY <1>1, <1>2, <1>3, <1>7, <2>1, ReleaseLease DEF Inv, LeaseOwnership
  <2>3. ~Queued(c)
    BY <1>7 DEF Queued
  <2>4. QueueHoldsWaiters' /\ CountersMatchQueue'
    BY <1>4, <1>5, <2>1, <2>3, KeepQueue DEF Inv
  <2>5. since' \in [Slots -> 0 .. AgeCap] /\ exclusive_since' \in 0 .. AgeCap
    BY <2>1, AgeProps DEF Inv, TypeOK, ReleaseSlot
  <2>6. TypeOK'
    BY <1>1, <1>2, <2>1, <2>5 DEF Inv, TypeOK
  <2>7. QED
    BY <1>2, <1>6, <2>2, <2>4, <2>6 DEF Inv, LeaseOwnership, WorkConserving
<1>8. CASE ~Granted(c)
  <2>1. UNCHANGED <<since, exclusive_since>>
    BY <1>8 DEF CancelWaiter
  <2>2. SlotsOwned' /\ Exclusion'
    <3>1. \A d \in Callers : Granted(d)' <=> Granted(d)
      BY <1>3, <1>4, <1>8 DEF Granted
    <3>2. \A d \in Callers : Granted(d) => waiter'[d].slot = waiter[d].slot
      BY <1>3, <1>8
    <3>3. QED
      BY <1>2, <2>1, <3>1, <3>2, KeepLeases DEF Inv, LeaseOwnership, exclusive
  <2>3. CASE \E i \in DOMAIN queue : queue[i] = c
    <3>1. PICK i \in DOMAIN queue : queue[i] = c /\ queue' = RemoveAt(queue, i) /\ Uncount(c)
      BY <1>8, <2>3 DEF CancelWaiter, ToSet
    <3>2. /\ QueueHoldsWaiters' /\ CountersMatchQueue' /\ queue' \in Seq(Callers)
          /\ waiting_requests' \in Nat /\ waiting_exclusive' \in Nat
      BY <1>4, <1>5, <3>1, EraseQueue DEF Inv
    <3>3. TypeOK'
      BY <1>1, <1>2, <2>1, <3>2 DEF Inv, TypeOK
    <3>4. QED
      BY <1>2, <1>6, <2>2, <3>2, <3>3 DEF Inv, LeaseOwnership, WorkConserving
  <2>4. CASE ~\E i \in DOMAIN queue : queue[i] = c
    <3>1. UNCHANGED <<queue, waiting_requests, waiting_exclusive>>
      BY <1>8, <2>4 DEF CancelWaiter
    <3>2. ~Queued(c)
      BY <2>4 DEF Inv, QueueHoldsWaiters
    <3>3. QueueHoldsWaiters' /\ CountersMatchQueue'
      BY <1>4, <1>5, <3>1, <3>2, KeepQueue DEF Inv
    <3>4. TypeOK'
      BY <1>1, <1>2, <2>1, <3>1 DEF Inv, TypeOK
    <3>5. QED
      BY <1>2, <1>6, <2>2, <3>3, <3>4 DEF Inv, LeaseOwnership, WorkConserving
  <2>5. QED
    BY <2>3, <2>4
<1>9. QED
  BY <1>7, <1>8

----------------------------------------------------------------------------
(* Every operation preserves the invariant: holders and the clock *)

\* Destroying a Lock preserves the invariant.
LEMMA ReleaseInv ==
  ASSUME Inv, NEW c \in Callers, Release(c)
  PROVE  Inv'
<1>1. PICK w \in Waiter :
        /\ w.status = "queued" /\ w.slot = NoSlot
        /\ waiter' = [waiter EXCEPT ![c] = w]
  BY NoWaiterProps DEF Release
<1>2. /\ pc[c] = "holding" /\ pc' = [pc EXCEPT ![c] = "outside"]
      /\ ReleaseSlot(waiter[c].slot) /\ mutex' = "dispatch"
      /\ UNCHANGED <<queue, count, waiting_requests, waiting_exclusive, wake>>
  BY DEF Release, ReleaseSlot
<1>3. waiter'[c] = w /\ \A d \in Callers \ {c} : waiter'[d] = waiter[d]
  BY <1>1 DEF Inv, TypeOK
<1>4. Granted(c)
  BY <1>2 DEF Inv, LeaseOwnership, LeasesFollowThreads
<1>5. since' \in [Slots -> 0 .. AgeCap] /\ exclusive_since' \in 0 .. AgeCap
  BY <1>2, AgeProps DEF Inv, TypeOK, ReleaseSlot
<1>6. TypeOK'
  BY <1>1, <1>2, <1>5 DEF Inv, TypeOK
<1>7. SlotsOwned' /\ Exclusion'
  BY <1>1, <1>2, <1>3, <1>4, ReleaseLease DEF Inv, LeaseOwnership
<1>8. LeasesFollowThreads'
  BY <1>1, <1>2, <1>3 DEF Inv, TypeOK, LeaseOwnership, LeasesFollowThreads, Granted
<1>9. \A d \in Callers : Queued(d)' <=> Queued(d)
  BY <1>2, <1>3 DEF Inv, TypeOK, Queued, Waiting, Granted, Expired
<1>10. \A d \in Callers : Queued(d) => waiter'[d].management = waiter[d].management
  BY <1>3, <1>4 DEF Queued
<1>11. QueueHoldsWaiters' /\ CountersMatchQueue'
  BY <1>2, <1>9, <1>10, KeepQueue DEF Inv
<1>12. QED
  BY <1>2, <1>6, <1>7, <1>8, <1>11 DEF Inv, LeaseOwnership, WorkConserving

\* configure preserves the invariant: no slot is taken, so none ends up beyond
\* the new count.
LEMMA ConfigureInv ==
  ASSUME Inv, NEW c \in Callers, NEW n \in Capacities, Configure(c, n)
  PROVE  Inv'
<1>1. /\ pc[c] = "holding" /\ waiter[c].slot = NoSlot
      /\ \A i \in Slots : since[i] = 0
      /\ count' = n
      /\ UNCHANGED <<queue, waiter, since, waiting_requests, waiting_exclusive,
                     exclusive_since, mutex, pc, wake>>
  BY DEF Configure
<1>2. exclusive
  BY <1>1 DEF Inv, LeaseOwnership, LeasesFollowThreads, SlotsOwned, Owns
<1>3. TypeOK'
  BY <1>1 DEF Inv, TypeOK
<1>4. SlotsOwned' /\ Exclusion'
  BY <1>1 DEF Inv, LeaseOwnership, SlotsOwned, Owns, Granted, Exclusion, exclusive
<1>5. LeasesFollowThreads'
  BY <1>1 DEF Inv, LeaseOwnership, LeasesFollowThreads, Granted
<1>6. QueueHoldsWaiters' /\ CountersMatchQueue'
  BY <1>1, KeepQueue DEF Inv, Queued, Waiting, Granted, Expired
<1>7. WorkConserving'
  BY <1>1, <1>2 DEF WorkConserving, FrontBlocked, exclusive
<1>8. QED
  BY <1>3, <1>4, <1>5, <1>6, <1>7 DEF Inv, LeaseOwnership

\* Ageing neither frees a slot nor takes one.
LEMMA OlderProps ==
  ASSUME NEW age \in 0 .. AgeCap
  PROVE  Older(age) \in 0 .. AgeCap /\ (Older(age) = 0 <=> age = 0)
BY DEF Older, AgeCap

\* The passing of time preserves the invariant.
LEMMA TickInv ==
  ASSUME Inv, Tick
  PROVE  Inv'
<1>1. /\ since' = [i \in Slots |-> Older(since[i])]
      /\ exclusive_since' = Older(exclusive_since)
      /\ UNCHANGED <<queue, count, waiting_requests, waiting_exclusive, mutex, pc, wake>>
  BY DEF Tick
<1>2. /\ waiter' \in [Callers -> Waiter]
      /\ \A d \in Callers : /\ waiter'[d].status = waiter[d].status
                            /\ waiter'[d].slot = waiter[d].slot
                            /\ waiter'[d].management = waiter[d].management
  <2>1. ASSUME NEW d \in Callers
        PROVE  /\ waiter'[d] \in Waiter /\ waiter'[d].status = waiter[d].status
               /\ waiter'[d].slot = waiter[d].slot
               /\ waiter'[d].management = waiter[d].management
    <3>1. waiter[d] \in Waiter
      BY DEF Inv, TypeOK
    <3>2. waiter'[d] = [waiter[d] EXCEPT !.deadline = IF @ > 0 THEN @ - 1 ELSE @]
      BY DEF Tick
    <3>3. QED
      BY <3>1, <3>2 DEF Waiter
  <2>2. QED
    BY <2>1 DEF Tick
<1>3. /\ \A i \in Slots : since'[i] \in 0 .. AgeCap /\ (since'[i] = 0 <=> since[i] = 0)
      /\ exclusive_since' \in 0 .. AgeCap /\ (exclusive' <=> exclusive)
  BY <1>1, OlderProps DEF Inv, TypeOK, exclusive
<1>4. TypeOK'
  BY <1>1, <1>2, <1>3 DEF Inv, TypeOK
<1>5. \A d \in Callers : /\ Granted(d)' <=> Granted(d)
                         /\ Queued(d)' <=> Queued(d)
  BY <1>1, <1>2 DEF Granted, Queued, Waiting, Expired
<1>6. SlotsOwned' /\ Exclusion'
  BY <1>1, <1>2, <1>3, <1>5, KeepLeases DEF Inv, LeaseOwnership
<1>7. LeasesFollowThreads'
  BY <1>1, <1>2, <1>5 DEF Inv, LeaseOwnership, LeasesFollowThreads
<1>8. QueueHoldsWaiters' /\ CountersMatchQueue'
  BY <1>1, <1>2, <1>5, KeepQueue DEF Inv
<1>9. WorkConserving'
  <2>1. queue # <<>> => Head(queue) \in Callers
    BY FrontIsQueued
  <2>2. QED
    BY <1>1, <1>2, <1>3, <2>1 DEF Inv, WorkConserving, FrontBlocked, Idle, HasFreeSlot
<1>10. QED
  BY <1>4, <1>6, <1>7, <1>8, <1>9 DEF Inv, LeaseOwnership

\* A step that changes nothing preserves the invariant.
LEMMA StutterInv ==
  ASSUME Inv, UNCHANGED vars
  PROVE  Inv'
BY SMTT(30) DEF vars, Inv, TypeOK, QueueHoldsWaiters, CountersMatchQueue, QueuedManagers,
       QueuedRequests, Queued, Waiting, LeaseOwnership, SlotsOwned, LeasesFollowThreads,
       Owns, Granted, Expired, Exclusion, exclusive, WorkConserving, FrontBlocked, Idle,
       HasFreeSlot

----------------------------------------------------------------------------
(* The theorems *)

\* The invariant is inductive.
THEOREM Invariance == Spec => []Inv
<1>1. ASSUME Inv, Next PROVE Inv'
  <2> USE <1>1
  <2>1. ASSUME NEW c \in Callers, AcquireRunNow(c) PROVE Inv'
    BY <2>1, AcquireRunNowInv
  <2>2. ASSUME NEW c \in Callers, TryAcquire(c) PROVE Inv'
    BY <2>2, TryAcquireInv
  <2>3. ASSUME NEW c \in Callers, NEW t \in Timeouts, AcquireRun(c, t) PROVE Inv'
    BY <2>3, EnqueueInv DEF AcquireRun
  <2>4. ASSUME NEW c \in Callers, NEW t \in Timeouts, QueueManagement(c, t) PROVE Inv'
    BY <2>4, EnqueueInv DEF QueueManagement
  <2>5. ASSUME NEW c \in Callers, AcquireGranted(c) PROVE Inv'
    BY <2>5, TakeLockInv DEF AcquireGranted, Evaluates, Waiting
  <2>6. ASSUME NEW c \in Callers, AcquireTimedOut(c) PROVE Inv'
    BY <2>6, CancelWaiterInv DEF AcquireTimedOut, Evaluates, Waiting
  <2>7. ASSUME NEW c \in Callers, AcquireBlocks(c) PROVE Inv'
    BY <2>7, AcquireBlocksInv
  <2>8. ASSUME NEW c \in Callers, TryAcquirePending(c) PROVE Inv'
    BY <2>8, TakeLockInv DEF TryAcquirePending, Waiting
  <2>9. ASSUME NEW c \in Callers, CancelPending(c) PROVE Inv'
    BY <2>9, CancelWaiterInv DEF CancelPending, Waiting
  <2>10. ASSUME NEW c \in Callers, Release(c) PROVE Inv'
    BY <2>10, ReleaseInv
  <2>11. ASSUME NEW c \in Callers, NEW n \in Capacities, Configure(c, n) PROVE Inv'
    BY <2>11, ConfigureInv
  <2>12. CASE Dispatch
    BY <2>12, DispatchExpiredInv, DispatchManagementInv, DispatchRequestInv,
       DispatchReturnInv DEF Dispatch
  <2>13. CASE Tick
    BY <2>13, TickInv
  <2>14. QED
    BY <2>1, <2>2, <2>3, <2>4, <2>5, <2>6, <2>7, <2>8, <2>9, <2>10, <2>11, <2>12,
       <2>13 DEF Next, Dispatch
<1>2. Inv /\ [Next]_vars => Inv'
  BY <1>1, StutterInv
<1>3. QED
  BY InitInv, <1>2, PTL DEF Spec

\* Every variable stays in its range; in particular the waiting counters that
\* the health endpoints publish never go negative.
THEOREM TypeCorrectness == Spec => []TypeOK
<1>1. Inv => TypeOK
  BY DEF Inv
<1>2. QED
  BY Invariance, <1>1, PTL

\* No slot and no exclusive lease is ever stranded or shared, whatever races a
\* timeout, a cancellation and a grant run.
THEOREM LeasesAreOwned == Spec => []LeaseOwnership
<1>1. Inv => LeaseOwnership
  BY DEF Inv
<1>2. QED
  BY Invariance, <1>1, PTL

\* Load, unload and reconfigure never overlap a model run.
THEOREM ManagersAreAlone == Spec => []Exclusion
<1>1. Inv => Exclusion
  BY DEF Inv
<1>2. QED
  BY Invariance, <1>1, PTL

\* No caller that could be admitted is left at the front of the queue.
THEOREM NoLostHandOver == Spec => []WorkConserving
<1>1. Inv => WorkConserving
  BY DEF Inv
<1>2. QED
  BY Invariance, <1>1, PTL

\* No waiter is lost and none is queued twice, and the counters agree.
THEOREM QueueIsExact == Spec => []QueueMatchesWaiters
<1>1. Inv => QueueMatchesWaiters
  BY DEF Inv, QueueMatchesWaiters
<1>2. QED
  BY Invariance, <1>1, PTL

----------------------------------------------------------------------------
(* The mapping to Admission *)

\* What Admission calls the line and the admitted callers.
Line == [i \in DOMAIN queue |-> [caller |-> queue[i],
                                 management |-> waiter[queue[i]].management]]
Running == {c \in Callers : Granted(c) /\ waiter[c].slot # NoSlot}
Managing == {c \in Callers : Granted(c) /\ waiter[c].slot = NoSlot}

----------------------------------------------------------------------------
(* Facts about the mapped state *)

\* A free slot below count leaves room for one more request.
LEMMA RoomInSlots ==
  ASSUME Inv, NEW i \in Slots, i < count, since[i] = 0
  PROVE  Cardinality(Running) < count
<1> DEFINE T == 0 .. count - 1
           f == [c \in Running |-> waiter[c].slot]
<1>1. count \in Nat \ {0} /\ i \in T
  BY DEF Inv, TypeOK, Slots
<1>2. IsFiniteSet(T) /\ Cardinality(T) = count
  <2>1. 0 \in Int /\ count - 1 \in Int /\ ~(0 > count - 1) /\ count - 1 - 0 + 1 = count
    BY <1>1
  <2>2. QED
    BY <2>1, FS_Interval
<1> HIDE DEF T
<1>3. IsFiniteSet(T \ {i}) /\ Cardinality(T \ {i}) = count - 1
  BY <1>1, <1>2, FS_RemoveElement
<1>4. ASSUME NEW c \in Running
      PROVE  f[c] \in T \ {i} /\ Owns(c, f[c]) /\ f[c] \in Slots
  <2>1. f[c] \in Slots /\ Owns(c, f[c])
    BY DEF Inv, TypeOK, Waiter, Running, Owns
  <2>2. since[f[c]] # 0 /\ f[c] < count
    BY <2>1 DEF Inv, LeaseOwnership, SlotsOwned, Running
  <2>3. QED
    BY <1>1, <2>1, <2>2 DEF Slots, T
<1>5. ASSUME NEW c \in Running, NEW d \in Running, f[c] = f[d]
      PROVE  c = d
  <2>1. f[c] \in Slots /\ Owns(c, f[c]) /\ Owns(d, f[c])
    BY <1>4, <1>5
  <2>2. QED
    BY <2>1 DEF Inv, LeaseOwnership, SlotsOwned, Running
<1>6. f \in [Running -> T \ {i}]
  BY <1>4
<1>7. DOMAIN f = Running
  OBVIOUS
<1> HIDE DEF f
<1>8. f \in Injection(Running, T \ {i})
  BY <1>5, <1>6, <1>7 DEF Injection, IsInjective
<1>9. IsFiniteSet(Running) /\ Cardinality(Running) <= Cardinality(T \ {i})
  BY <1>3, <1>8, FS_Injection
<1>10. Cardinality(Running) \in Nat
  BY <1>9, FS_CardinalityType
<1>11. QED
  BY <1>1, <1>3, <1>9, <1>10

Places == [caller : Callers, management : BOOLEAN]

\* The line is a sequence with the queue's callers in the queue's order.
LineFollowsQueue ==
  /\ Line \in Seq(Places)
  /\ Len(Line) = Len(queue) /\ DOMAIN Line = DOMAIN queue
  /\ \A i \in DOMAIN queue :
       Line[i] = [caller |-> queue[i], management |-> waiter[queue[i]].management]

\* The mapped line is well formed in every state of the invariant.
LEMMA LineProps == Inv => LineFollowsQueue
<1> SUFFICES ASSUME Inv PROVE LineFollowsQueue
  OBVIOUS
<1>1. /\ queue \in Seq(Callers) /\ DOMAIN queue = 1 .. Len(queue) /\ Len(queue) \in Nat
      /\ \A c \in Callers : waiter[c].management \in BOOLEAN
  BY DEF Inv, TypeOK, Waiter
<1>2. \A i \in DOMAIN queue : Line[i] \in Places
  BY <1>1 DEF Line, Places
<1>3. Line \in [1 .. Len(queue) -> Places]
  BY <1>1, <1>2 DEF Line
<1>4. Line \in Seq(Places)
  <2> HIDE DEF Line, Places
  <2> QED
    BY <1>1, <1>3, SeqDef
<1>5. Len(Line) = Len(queue) /\ DOMAIN Line = DOMAIN queue
  BY <1>1, <1>3, <1>4, LenProperties
<1>6. QED
  BY <1>4, <1>5 DEF Line, LineFollowsQueue

\* A caller outside the lock is nowhere in the abstract state.
LEMMA OutsideIsAbsent ==
  ASSUME Inv, NEW c \in Callers, pc[c] = "outside"
  PROVE  c \notin Promise!Present
<1>1. ~Granted(c) /\ ~Queued(c)
  BY DEF Inv, LeaseOwnership, LeasesFollowThreads, Queued, Waiting
<1>2. \A i \in DOMAIN queue : queue[i] # c
  BY <1>1 DEF Inv, QueueHoldsWaiters
<1>3. c \notin {Line[i].caller : i \in DOMAIN Line}
  BY <1>2, LineProps DEF LineFollowsQueue
<1>4. QED
  BY <1>1, <1>3 DEF Promise!Present, Line, Running, Managing

----------------------------------------------------------------------------
(* How the abstract holders change *)

\* A step that grants and releases nothing keeps the abstract holders.
LEMMA KeepHolders ==
  ASSUME \A d \in Callers : Granted(d)' <=> Granted(d),
         \A d \in Callers : Granted(d) => waiter'[d].slot = waiter[d].slot
  PROVE  Running' = Running /\ Managing' = Managing
BY DEF Running, Managing

\* A granted slot makes its owner a running request.
LEMMA AddRunning ==
  ASSUME NEW c \in Callers, NEW i \in Slots, ~Granted(c),
         waiter'[c].status = "granted", waiter'[c].slot = i,
         \A d \in Callers \ {c} : waiter'[d] = waiter[d]
  PROVE  Running' = Running \cup {c} /\ Managing' = Managing
<1>1. i # NoSlot
  BY DEF Slots, NoSlot
<1>2. QED
  BY <1>1 DEF Running, Managing, Granted

\* The granted exclusive lease makes its owner the manager.
LEMMA AddManaging ==
  ASSUME NEW c \in Callers, ~Granted(c), Managing = {},
         waiter'[c].status = "granted", waiter'[c].slot = NoSlot,
         \A d \in Callers \ {c} : waiter'[d] = waiter[d]
  PROVE  Managing' = {c} /\ Running' = Running
BY DEF Running, Managing, Granted

\* Whoever loses its grant leaves the model, and nobody else does.
LEMMA DropHolder ==
  ASSUME NEW c \in Callers, Granted(c), waiter'[c].status # "granted",
         \A d \in Callers \ {c} : waiter'[d] = waiter[d]
  PROVE  /\ c \in Running \cup Managing
         /\ Running' = Running \ {c} /\ Managing' = Managing \ {c}
BY DEF Running, Managing, Granted

\* Without the exclusive lease nobody manages the model.
LEMMA NotExclusive ==
  ASSUME Inv, ~exclusive
  PROVE  Managing = {}
BY DEF Inv, LeaseOwnership, SlotsOwned, Owns, Managing

\* An idle lock (no slot taken, not exclusive) has neither requests nor manager.
LEMMA IdleIsEmpty ==
  ASSUME Inv, Idle
  PROVE  Managing = {} /\ Running = {}
<1>1. \A c \in Callers : Granted(c) => waiter[c].slot \in Slots \cup {NoSlot} /\ Owns(c, waiter[c].slot)
  BY DEF Inv, TypeOK, Waiter, Owns
<1>2. QED
  BY <1>1 DEF Idle, Inv, LeaseOwnership, SlotsOwned, Managing, Running

----------------------------------------------------------------------------
(* How the line changes *)

\* A step that keeps queue_ and the kind of who waits keeps the abstract line.
LEMMA KeepLine ==
  ASSUME Inv, UNCHANGED queue,
         \A d \in Callers : Queued(d) => waiter'[d].management = waiter[d].management
  PROVE  Line' = Line
<1>1. \A i \in DOMAIN queue : queue[i] \in Callers /\ Queued(queue[i])
  BY DEF Inv, TypeOK, QueueHoldsWaiters
<1>2. QED
  BY <1>1 DEF Line

\* Enqueueing a waiter appends its place to the abstract line.
LEMMA AppendLine ==
  ASSUME Inv, Inv', NEW c \in Callers, NEW management \in BOOLEAN,
         queue' = Append(queue, c), waiter'[c].management = management,
         \A d \in Callers : Queued(d) => waiter'[d].management = waiter[d].management
  PROVE  Line' = Append(Line, [caller |-> c, management |-> management])
<1> DEFINE place == [caller |-> c, management |-> management]
           a == Append(Line, place)
<1>1. LineFollowsQueue /\ LineFollowsQueue'
  BY LineProps, PTL
<1>2. \A i \in DOMAIN queue : queue[i] \in Callers /\ Queued(queue[i])
  BY DEF Inv, TypeOK, QueueHoldsWaiters
<1>3. /\ queue \in Seq(Callers) /\ Len(queue) \in Nat /\ DOMAIN queue = 1 .. Len(queue)
      /\ Len(queue') = Len(queue) + 1 /\ DOMAIN queue' = 1 .. Len(queue) + 1
      /\ \A j \in 1 .. Len(queue) : queue'[j] = queue[j]
      /\ queue'[Len(queue) + 1] = c
  BY DEF Inv, TypeOK
<1>4. place \in Places
  BY DEF Places
<1> HIDE DEF place
<1>5. /\ a \in Seq(Places) /\ Len(a) = Len(queue) + 1
      /\ \A j \in 1 .. Len(queue) : a[j] = Line[j]
      /\ a[Len(queue) + 1] = place
  BY <1>1, <1>3, <1>4 DEF LineFollowsQueue
<1>6. ASSUME NEW j \in 1 .. Len(queue) + 1
      PROVE  Line'[j] = a[j]
  <2>1. Line'[j] = [caller |-> queue'[j], management |-> waiter'[queue'[j]].management]
    BY <1>1, <1>3 DEF LineFollowsQueue
  <2>2. CASE j = Len(queue) + 1
    BY <1>3, <1>5, <2>1, <2>2 DEF place
  <2>3. CASE j # Len(queue) + 1
    <3>1. j \in 1 .. Len(queue) /\ queue'[j] = queue[j]
      BY <1>3, <2>3
    <3>2. a[j] = [caller |-> queue[j], management |-> waiter[queue[j]].management]
      BY <1>1, <1>3, <1>5, <3>1 DEF LineFollowsQueue
    <3>3. waiter'[queue[j]].management = waiter[queue[j]].management
      BY <1>2, <1>3, <3>1
    <3>4. QED
      BY <2>1, <3>1, <3>2, <3>3
  <2>4. QED
    BY <2>2, <2>3
<1>7. Line' \in Seq(Places) /\ Len(Line') = Len(queue) + 1
  BY <1>1, <1>3 DEF LineFollowsQueue, Places
<1> HIDE DEF a
<1>8. Line' = a
  BY <1>5, <1>6, <1>7, SeqEqual
<1>9. QED
  BY <1>8 DEF a, place

\* Removing the front waiter removes the first place of the abstract line.
LEMMA TailLine ==
  ASSUME Inv, Inv', queue # <<>>, queue' = Tail(queue),
         \A d \in Callers \ {Head(queue)} :
           Queued(d) => waiter'[d].management = waiter[d].management
  PROVE  /\ Line # <<>> /\ Line' = Tail(Line)
         /\ Head(Line) = [caller |-> Head(queue),
                          management |-> waiter[Head(queue)].management]
<1> DEFINE a == Tail(Line)
<1>1. LineFollowsQueue /\ LineFollowsQueue'
  BY LineProps, PTL
<1>2. queue \in Seq(Callers)
  BY DEF Inv, TypeOK
<1>3. /\ Len(queue) \in Nat \ {0} /\ DOMAIN queue = 1 .. Len(queue)
      /\ Len(queue') = Len(queue) - 1 /\ DOMAIN queue' = 1 .. Len(queue) - 1
      /\ \A j \in 1 .. Len(queue) - 1 : queue'[j] = queue[j + 1]
      /\ Head(queue) = queue[1]
  BY <1>2
<1>4. \A i, j \in DOMAIN queue : queue[i] = queue[j] => i = j
  BY DEF Inv, QueueHoldsWaiters
<1>5. \A i \in DOMAIN queue : queue[i] \in Callers /\ Queued(queue[i])
  BY DEF Inv, TypeOK, QueueHoldsWaiters
<1>6. /\ Line # <<>> /\ Head(Line) = Line[1]
      /\ a \in Seq(Places) /\ Len(a) = Len(queue) - 1
      /\ \A j \in 1 .. Len(queue) - 1 : a[j] = Line[j + 1]
  BY <1>1, <1>3 DEF LineFollowsQueue
<1>7. ASSUME NEW j \in 1 .. Len(queue) - 1
      PROVE  Line'[j] = a[j]
  <2>1. /\ j + 1 \in DOMAIN queue /\ 1 \in DOMAIN queue /\ j + 1 # 1
        /\ queue'[j] = queue[j + 1]
    BY <1>3
  <2>2. queue[j + 1] # Head(queue)
    BY <1>3, <1>4, <2>1
  <2>3. waiter'[queue[j + 1]].management = waiter[queue[j + 1]].management
    BY <1>5, <2>1, <2>2
  <2>4. Line[j + 1] = [caller |-> queue[j + 1], management |-> waiter[queue[j + 1]].management]
    BY <1>1, <2>1 DEF LineFollowsQueue
  <2>5. Line'[j] = [caller |-> queue'[j], management |-> waiter'[queue'[j]].management]
    BY <1>1, <1>3 DEF LineFollowsQueue
  <2>6. QED
    BY <1>6, <2>1, <2>3, <2>4, <2>5
<1>8. Line' \in Seq(Places) /\ Len(Line') = Len(queue) - 1
  BY <1>1, <1>3 DEF LineFollowsQueue, Places
<1>9. Head(Line) = [caller |-> Head(queue), management |-> waiter[Head(queue)].management]
  BY <1>1, <1>3, <1>6 DEF LineFollowsQueue
<1> HIDE DEF a
<1>10. Line' = a
  BY <1>6, <1>7, <1>8, SeqEqual
<1>11. QED
  BY <1>6, <1>9, <1>10 DEF a

\* Erasing a waiter from the middle erases its place from the abstract line.
LEMMA EraseLine ==
  ASSUME Inv, Inv', NEW i \in DOMAIN queue, queue' = RemoveAt(queue, i),
         \A d \in Callers \ {queue[i]} :
           Queued(d) => waiter'[d].management = waiter[d].management
  PROVE  Line' = RemoveAt(Line, i)
<1> DEFINE a == RemoveAt(Line, i)
<1>1. LineFollowsQueue /\ LineFollowsQueue'
  BY LineProps, PTL
<1>2. /\ queue \in Seq(Callers) /\ Len(queue) \in Nat /\ DOMAIN queue = 1 .. Len(queue)
      /\ i \in 1 .. Len(queue)
  BY DEF Inv, TypeOK
<1>3. /\ queue' \in Seq(Callers) /\ Len(queue') = Len(queue) - 1
      /\ \A j \in 1 .. Len(queue) - 1 :
           queue'[j] = IF j < i THEN queue[j] ELSE queue[j + 1]
  BY <1>2, RemoveAtProps
<1>4. DOMAIN queue' = 1 .. Len(queue) - 1
  BY <1>2, <1>3
<1>5. \A j, k \in DOMAIN queue : queue[j] = queue[k] => j = k
  BY DEF Inv, QueueHoldsWaiters
<1>6. \A j \in DOMAIN queue : queue[j] \in Callers /\ Queued(queue[j])
  BY DEF Inv, TypeOK, QueueHoldsWaiters
<1>7. Line \in Seq(Places) /\ Len(Line) = Len(queue) /\ i \in 1 .. Len(Line)
  BY <1>1, <1>2 DEF LineFollowsQueue
<1>8. /\ a \in Seq(Places) /\ Len(a) = Len(queue) - 1
      /\ \A j \in 1 .. Len(queue) - 1 : a[j] = IF j < i THEN Line[j] ELSE Line[j + 1]
  <2>1. /\ a \in Seq(Places) /\ Len(a) = Len(Line) - 1
        /\ \A j \in 1 .. Len(Line) - 1 : a[j] = IF j < i THEN Line[j] ELSE Line[j + 1]
    BY <1>7, RemoveAtProps
  <2>2. QED
    BY <1>7, <2>1
<1>9. ASSUME NEW j \in 1 .. Len(queue) - 1
      PROVE  Line'[j] = a[j]
  <2>1. PICK k \in DOMAIN queue : k = (IF j < i THEN j ELSE j + 1) /\ k # i
    BY <1>2
  <2>2. queue'[j] = queue[k] /\ a[j] = Line[k]
    BY <1>3, <1>8, <2>1
  <2>3. waiter'[queue[k]].management = waiter[queue[k]].management
    BY <1>5, <1>6, <2>1
  <2>4. Line[k] = [caller |-> queue[k], management |-> waiter[queue[k]].management]
    BY <1>1 DEF LineFollowsQueue
  <2>5. Line'[j] = [caller |-> queue'[j], management |-> waiter'[queue'[j]].management]
    BY <1>1, <1>4 DEF LineFollowsQueue
  <2>6. QED
    BY <2>2, <2>3, <2>4, <2>5
<1>10. Line' \in Seq(Places) /\ Len(Line') = Len(queue) - 1
  BY <1>1, <1>3 DEF LineFollowsQueue, Places
<1> HIDE DEF a
<1>11. Line' = a
  BY <1>8, <1>9, <1>10, SeqEqual
<1>12. QED
  BY <1>11 DEF a

----------------------------------------------------------------------------
(* Every operation is a step of the abstract lock, or none *)

\* The variables of Admission, as they are mapped.
abstractVars == <<count, Line, Running, Managing>>

\* Admission counts with the same operator.
LEMMA SameCardinality == \A S : Promise!Cardinality(S) = Cardinality(S)
BY DEF Promise!Cardinality, Cardinality

\* The fast path enters while nobody waits and a slot is free.
LEMMA AcquireRunNowEnters ==
  ASSUME Inv, Inv', NEW c \in Callers, AcquireRunNow(c)
  PROVE  Promise!Enter(c)
<1>1. PICK i \in Slots :
        /\ IsFreeSlot(i)
        /\ since' = [since EXCEPT ![i] = 1]
        /\ waiter' = [waiter EXCEPT ![c] = Lease(FALSE, i)]
  BY DEF AcquireRunNow
<1>2. /\ pc[c] = "outside" /\ queue = <<>> /\ ~exclusive
      /\ i < count /\ since[i] = 0 /\ UNCHANGED <<queue, count>>
  BY <1>1 DEF AcquireRunNow, FastPath, IsFreeSlot
<1>3. /\ waiter'[c].status = "granted" /\ waiter'[c].slot = i
      /\ \A d \in Callers \ {c} : waiter'[d] = waiter[d]
  BY <1>1, LeaseProps DEF Inv, TypeOK
<1>4. ~Granted(c) /\ ~Queued(c)
  BY <1>2 DEF Inv, LeaseOwnership, LeasesFollowThreads, Queued, Waiting
<1>5. Running' = Running \cup {c} /\ Managing' = Managing
  BY <1>3, <1>4, AddRunning
<1>6. Line' = Line /\ Line = <<>>
  <2>1. \A d \in Callers : Queued(d) => waiter'[d].management = waiter[d].management
    BY <1>3, <1>4
  <2>2. Len(Line) = 0 /\ Line \in Seq(Places)
    BY <1>2, LineProps DEF LineFollowsQueue
  <2>3. QED
    BY <1>2, <2>1, <2>2, KeepLine, EmptySeq
<1>7. Managing = {} /\ Cardinality(Running) < count
  BY <1>2, NotExclusive, RoomInSlots
<1>8. c \notin Promise!Present
  BY <1>2, OutsideIsAbsent
<1>9. QED
  BY <1>2, <1>5, <1>6, <1>7, <1>8, SameCardinality
     DEF Promise!Enter, Promise!RoomForRequest, Line, Running, Managing

\* try_acquire enters while nobody waits and nobody uses the model.
LEMMA TryAcquireEnters ==
  ASSUME Inv, Inv', NEW c \in Callers, TryAcquire(c)
  PROVE  Promise!Enter(c)
<1>1. /\ pc[c] = "outside" /\ queue = <<>> /\ Idle
      /\ waiter' = [waiter EXCEPT ![c] = Lease(TRUE, NoSlot)]
      /\ UNCHANGED <<queue, count>>
  BY DEF TryAcquire
<1>2. /\ waiter'[c].status = "granted" /\ waiter'[c].slot = NoSlot
      /\ \A d \in Callers \ {c} : waiter'[d] = waiter[d]
  BY <1>1, LeaseProps, ZenonT(30) DEF Inv, TypeOK
<1>3. ~Granted(c) /\ ~Queued(c)
  BY <1>1 DEF Inv, LeaseOwnership, LeasesFollowThreads, Queued, Waiting
<1>4. Managing = {} /\ Running = {}
  BY <1>1, IdleIsEmpty
<1>5. Managing' = {c} /\ Running' = Running
  BY <1>2, <1>3, <1>4, AddManaging
<1>6. Line' = Line /\ Line = <<>>
  <2>1. \A d \in Callers : Queued(d) => waiter'[d].management = waiter[d].management
    BY <1>2, <1>3
  <2>2. Len(Line) = 0 /\ Line \in Seq(Places)
    BY <1>1, LineProps DEF LineFollowsQueue
  <2>3. QED
    BY <1>1, <2>1, <2>2, KeepLine, EmptySeq
<1>7. c \notin Promise!Present
  BY <1>1, OutsideIsAbsent
<1>8. QED
  BY <1>1, <1>4, <1>5, <1>6, <1>7
     DEF Promise!Enter, Promise!RoomForManager, Line, Running, Managing

\* enqueue joins the line at its end.
LEMMA EnqueueLinesUp ==
  ASSUME Inv, Inv', NEW c \in Callers, NEW management \in BOOLEAN, NEW timeout \in Timeouts,
         pc[c] = "outside", Enqueue(c, management, timeout)
  PROVE  Promise!LineUp(c, management)
<1>1. /\ waiter' = [waiter EXCEPT ![c] = NewWaiter(management, timeout)]
      /\ queue' = Append(queue, c) /\ UNCHANGED count
  BY DEF Enqueue
<1>2. /\ waiter'[c].status = "queued" /\ waiter'[c].management = management
      /\ \A d \in Callers \ {c} : waiter'[d] = waiter[d]
  BY <1>1, NewWaiterProps DEF Inv, TypeOK
<1>3. ~Granted(c) /\ ~Queued(c)
  BY DEF Inv, LeaseOwnership, LeasesFollowThreads, Queued, Waiting
<1>4. Running' = Running /\ Managing' = Managing
  <2>1. \A d \in Callers : /\ Granted(d)' <=> Granted(d)
                           /\ Granted(d) => waiter'[d].slot = waiter[d].slot
    BY <1>2, <1>3 DEF Granted
  <2>2. QED
    BY <2>1, KeepHolders
<1>5. Line' = Append(Line, [caller |-> c, management |-> management])
  <2>1. \A d \in Callers : Queued(d) => waiter'[d].management = waiter[d].management
    BY <1>2, <1>3
  <2>2. QED
    BY <1>1, <1>2, <2>1, AppendLine
<1>6. c \notin Promise!Present
  BY OutsideIsAbsent
<1>7. QED
  BY <1>1, <1>4, <1>5, <1>6 DEF Promise!LineUp, Line, Running, Managing

\* Expiring the front is that waiter giving up.
LEMMA DispatchExpiredGivesUp ==
  ASSUME Inv, Inv', DispatchExpired
  PROVE  \E i \in DOMAIN Line : Promise!GiveUp(i)
<1>1. PICK c \in Callers : c = Head(queue) /\ Queued(c)
  BY FrontIsQueued DEF DispatchExpired
<1>2. /\ queue # <<>> /\ queue' = Tail(queue) /\ UNCHANGED count
      /\ waiter' = [waiter EXCEPT ![c].status = "expired"]
  BY <1>1 DEF DispatchExpired, RemoveFront
<1>3. /\ waiter'[c].status = "expired"
      /\ \A d \in Callers \ {c} : waiter'[d] = waiter[d]
  BY <1>2 DEF Inv, TypeOK, Waiter
<1>4. Running' = Running /\ Managing' = Managing
  <2>1. \A d \in Callers : /\ Granted(d)' <=> Granted(d)
                           /\ Granted(d) => waiter'[d].slot = waiter[d].slot
    BY <1>1, <1>3 DEF Granted, Queued
  <2>2. QED
    BY <2>1, KeepHolders
<1>5. Line # <<>> /\ Line' = Tail(Line)
  BY <1>1, <1>2, <1>3, TailLine
<1>6. 1 \in DOMAIN Line /\ RemoveAt(Line, 1) = Tail(Line)
  <2>1. Line \in Seq(Places)
    BY LineProps DEF LineFollowsQueue
  <2>2. Len(Line) \in Nat \ {0} /\ 1 \in 1 .. Len(Line)
    BY <1>5, <2>1
  <2>3. /\ RemoveAt(Line, 1) \in Seq(Places) /\ Len(RemoveAt(Line, 1)) = Len(Line) - 1
        /\ \A j \in 1 .. Len(Line) - 1 : RemoveAt(Line, 1)[j] = Line[j + 1]
    BY <2>1, <2>2, RemoveAtProps
  <2>4. /\ Tail(Line) \in Seq(Places) /\ Len(Tail(Line)) = Len(Line) - 1
        /\ \A j \in 1 .. Len(Line) - 1 : Tail(Line)[j] = Line[j + 1]
    BY <1>5, <2>1, <2>2
  <2>5. QED
    BY <2>1, <2>2, <2>3, <2>4, SeqEqual
<1>7. QED
  BY <1>2, <1>4, <1>5, <1>6
     DEF Promise!GiveUp, RemoveAt, Line, Running, Managing

\* A grant of the exclusive lease admits the first in line.
LEMMA DispatchManagementAdmits ==
  ASSUME Inv, Inv', DispatchManagement
  PROVE  Promise!AdmitFirst
<1>1. PICK c \in Callers : c = Head(queue) /\ Queued(c)
  BY FrontIsQueued DEF DispatchManagement
<1>2. /\ queue # <<>> /\ queue' = Tail(queue) /\ UNCHANGED count
      /\ waiter[c].management /\ Idle
      /\ waiter' = [waiter EXCEPT ![c].status = "granted"]
  BY <1>1 DEF DispatchManagement, RemoveFront
<1>3. /\ waiter'[c].status = "granted" /\ waiter'[c].slot = waiter[c].slot
      /\ \A d \in Callers \ {c} : waiter'[d] = waiter[d]
  BY <1>2 DEF Inv, TypeOK, Waiter
<1>4. ~Granted(c) /\ waiter[c].slot = NoSlot
  BY <1>1 DEF Queued, Inv, LeaseOwnership, LeasesFollowThreads
<1>5. Managing = {} /\ Running = {}
  BY <1>2, IdleIsEmpty
<1>6. Managing' = {c} /\ Running' = Running
  BY <1>3, <1>4, <1>5, AddManaging
<1>7. /\ Line # <<>> /\ Line' = Tail(Line)
      /\ Head(Line).caller = c /\ Head(Line).management
  BY <1>1, <1>2, <1>3, TailLine
<1>8. QED
  BY <1>2, <1>5, <1>6, <1>7
     DEF Promise!AdmitFirst, Promise!RoomForManager, Line, Running, Managing

\* So does a grant of a slot.
LEMMA DispatchRequestAdmits ==
  ASSUME Inv, Inv', DispatchRequest
  PROVE  Promise!AdmitFirst
<1>1. PICK c \in Callers : c = Head(queue) /\ Queued(c)
  BY FrontIsQueued DEF DispatchRequest
<1>2. PICK i \in Slots :
        /\ IsFreeSlot(i)
        /\ waiter' = [waiter EXCEPT ![c].status = "granted", ![c].slot = i]
  BY <1>1 DEF DispatchRequest
<1>3. /\ queue # <<>> /\ queue' = Tail(queue) /\ UNCHANGED count
      /\ ~waiter[c].management /\ ~exclusive /\ i < count /\ since[i] = 0
  BY <1>1, <1>2 DEF DispatchRequest, RemoveFront, IsFreeSlot
<1>4. /\ waiter'[c].status = "granted" /\ waiter'[c].slot = i
      /\ \A d \in Callers \ {c} : waiter'[d] = waiter[d]
  BY <1>2 DEF Inv, TypeOK, Waiter
<1>5. ~Granted(c)
  BY <1>1 DEF Queued
<1>6. Managing = {} /\ Cardinality(Running) < count
  BY <1>3, NotExclusive, RoomInSlots
<1>7. Running' = Running \cup {c} /\ Managing' = Managing
  BY <1>4, <1>5, AddRunning
<1>8. /\ Line # <<>> /\ Line' = Tail(Line)
      /\ Head(Line).caller = c /\ ~Head(Line).management
  BY <1>1, <1>3, <1>4, TailLine
<1>9. QED
  BY <1>3, <1>6, <1>7, <1>8, SameCardinality
     DEF Promise!AdmitFirst, Promise!RoomForRequest, Line, Running, Managing

\* Giving back a lease leaves.
LEMMA ReleaseLeaves ==
  ASSUME Inv, Inv', NEW c \in Callers, Granted(c),
         waiter' = [waiter EXCEPT ![c] = NoWaiter], UNCHANGED <<queue, count>>
  PROVE  Promise!Leave(c)
<1>1. /\ waiter'[c].status # "granted"
      /\ \A d \in Callers \ {c} : waiter'[d] = waiter[d]
  BY NoWaiterProps DEF Inv, TypeOK
<1>2. /\ c \in Running \cup Managing
      /\ Running' = Running \ {c} /\ Managing' = Managing \ {c}
  BY <1>1, DropHolder
<1>3. Line' = Line
  <2>1. \A d \in Callers : Queued(d) => waiter'[d].management = waiter[d].management
    BY <1>1 DEF Queued
  <2>2. QED
    BY <2>1, KeepLine
<1>4. QED
  BY <1>2, <1>3 DEF Promise!Leave, Line, Running, Managing

\* cancel_waiter leaves, gives up, or changes nothing the abstract lock shows.
LEMMA CancelWaiterMaps ==
  ASSUME Inv, Inv', NEW c \in Callers, Waiting(c), CancelWaiter(c)
  PROVE  \/ Promise!Leave(c)
         \/ \E i \in DOMAIN Line : Promise!GiveUp(i)
         \/ UNCHANGED abstractVars
<1>1. waiter' = [waiter EXCEPT ![c] = NoWaiter] /\ UNCHANGED count
  BY DEF CancelWaiter
<1>2. /\ waiter'[c].status # "granted"
      /\ \A d \in Callers \ {c} : waiter'[d] = waiter[d]
  BY <1>1, NoWaiterProps DEF Inv, TypeOK
<1>3. CASE Granted(c)
  BY <1>1, <1>3, ReleaseLeaves DEF CancelWaiter
<1>4. CASE ~Granted(c)
  <2>1. Running' = Running /\ Managing' = Managing
    <3>1. \A d \in Callers : /\ Granted(d)' <=> Granted(d)
                             /\ Granted(d) => waiter'[d].slot = waiter[d].slot
      BY <1>2, <1>4 DEF Granted
    <3>2. QED
      BY <3>1, KeepHolders
  <2>2. CASE \E i \in DOMAIN queue : queue[i] = c
    <3>1. PICK i \in DOMAIN queue : queue[i] = c /\ queue' = RemoveAt(queue, i)
      BY <1>4, <2>2 DEF CancelWaiter, ToSet
    <3>2. Line' = RemoveAt(Line, i)
      BY <1>2, <3>1, EraseLine
    <3>3. i \in DOMAIN Line
      BY LineProps DEF LineFollowsQueue
    <3>4. QED
      BY <1>1, <2>1, <3>2, <3>3
         DEF Promise!GiveUp, RemoveAt, Line, Running, Managing
  <2>3. CASE ~\E i \in DOMAIN queue : queue[i] = c
    <3>1. UNCHANGED queue /\ ~Queued(c)
      BY <1>4, <2>3 DEF CancelWaiter, Inv, QueueHoldsWaiters
    <3>2. \A d \in Callers : Queued(d) => waiter'[d].management = waiter[d].management
      BY <1>2, <3>1
    <3>3. Line' = Line
      BY <3>1, <3>2, KeepLine
    <3>4. QED
      BY <1>1, <2>1, <3>3 DEF abstractVars
  <2>4. QED
    BY <2>2, <2>3
<1>5. QED
  BY <1>3, <1>4

\* configure resizes under the exclusive lease.
LEMMA ConfigureResizes ==
  ASSUME Inv, Inv', NEW c \in Callers, NEW n \in Capacities, Configure(c, n)
  PROVE  Promise!Resize(n)
<1>1. /\ pc[c] = "holding" /\ waiter[c].slot = NoSlot /\ count' = n
      /\ UNCHANGED <<queue, waiter>>
  BY DEF Configure
<1>2. c \in Managing
  BY <1>1 DEF Inv, LeaseOwnership, LeasesFollowThreads, Managing
<1>3. Line' = Line /\ Running' = Running /\ Managing' = Managing
  BY <1>1 DEF Line, Running, Managing, Granted
<1>4. QED
  BY <1>1, <1>2, <1>3 DEF Promise!Resize, Line, Running, Managing

\* Taking a granted lease, sleeping, leaving the loop: nothing to see.
LEMMA WaiterKept ==
  ASSUME Inv, UNCHANGED <<queue, count>>,
         \A d \in Callers : /\ waiter'[d].status = waiter[d].status
                            /\ waiter'[d].slot = waiter[d].slot
                            /\ waiter'[d].management = waiter[d].management
  PROVE  UNCHANGED abstractVars
<1>1. Running' = Running /\ Managing' = Managing
  BY KeepHolders DEF Granted
<1>2. QED
  BY <1>1, KeepLine DEF abstractVars

\* Consuming a grant is invisible: the abstract lock admitted the caller when
\* dispatch() granted it.
LEMMA TakeLockInvisible ==
  ASSUME Inv, NEW c \in Callers, TakeLock(c)
  PROVE  UNCHANGED abstractVars
<1>1. /\ waiter[c].slot \in Slots \cup {NoSlot} /\ waiter[c].management \in BOOLEAN
      /\ waiter[c].status = "granted" /\ UNCHANGED <<queue, count>>
  BY DEF Inv, TypeOK, Waiter, TakeLock, Granted
<1>2. /\ Lease(waiter[c].management, waiter[c].slot).management = waiter[c].management
      /\ Lease(waiter[c].management, waiter[c].slot).slot = waiter[c].slot
      /\ Lease(waiter[c].management, waiter[c].slot).status = "granted"
  BY DEF Lease
<1>3. waiter' = [waiter EXCEPT ![c] = Lease(waiter[c].management, waiter[c].slot)]
  BY DEF TakeLock
<1>4. \A d \in Callers : /\ waiter'[d].status = waiter[d].status
                         /\ waiter'[d].slot = waiter[d].slot
                         /\ waiter'[d].management = waiter[d].management
  BY <1>1, <1>2, <1>3 DEF Inv, TypeOK
<1>5. QED
  BY <1>1, <1>4, WaiterKept

\* Time is invisible to the abstract lock.
LEMMA TickInvisible ==
  ASSUME Inv, Tick
  PROVE  UNCHANGED abstractVars
<1>1. ASSUME NEW d \in Callers
      PROVE  /\ waiter'[d].status = waiter[d].status
             /\ waiter'[d].slot = waiter[d].slot
             /\ waiter'[d].management = waiter[d].management
  <2>1. waiter[d] \in Waiter
    BY DEF Inv, TypeOK
  <2>2. waiter'[d] = [waiter[d] EXCEPT !.deadline = IF @ > 0 THEN @ - 1 ELSE @]
    BY DEF Tick
  <2>3. QED
    BY <2>1, <2>2 DEF Waiter
<1>2. UNCHANGED <<queue, count>>
  BY DEF Tick
<1>3. QED
  BY <1>1, <1>2, WaiterKept

----------------------------------------------------------------------------
(* The theorem *)

\* The initial states of the lock are initial states of the abstract one.
LEMMA InitMaps == Init => Promise!Init
<1> SUFFICES ASSUME Init PROVE Promise!Init
  OBVIOUS
<1>1. Inv
  BY InitInv
<1>2. Running = {} /\ Managing = {}
  BY NoWaiterProps DEF Init, Running, Managing, Granted
<1>3. Line = <<>>
  <2>1. Len(Line) = 0 /\ Line \in Seq(Places)
    BY <1>1, LineProps DEF LineFollowsQueue, Init
  <2>2. QED
    BY <2>1, EmptySeq
<1>4. QED
  BY <1>2, <1>3 DEF Init, Promise!Init, Line, Running, Managing

\* Every step of the lock is a step of the abstract one, or invisible to it.
LEMMA NextMaps ==
  ASSUME Inv, Inv', Next
  PROVE  Promise!Next \/ UNCHANGED abstractVars
<1>1. ASSUME NEW c \in Callers, Promise!Enter(c) \/ Promise!Leave(c) PROVE Promise!Next
  BY <1>1 DEF Promise!Next
<1>2. ASSUME NEW c \in Callers, NEW m \in BOOLEAN, Promise!LineUp(c, m) PROVE Promise!Next
  BY <1>2 DEF Promise!Next
<1>3. ASSUME NEW i \in DOMAIN Line, Promise!GiveUp(i) PROVE Promise!Next
  BY <1>3 DEF Promise!Next, Line
<1>4. ASSUME NEW n \in Capacities, Promise!Resize(n) PROVE Promise!Next
  BY <1>4 DEF Promise!Next
<1>5. Promise!AdmitFirst => Promise!Next
  BY DEF Promise!Next
<1>6. ASSUME NEW c \in Callers, AcquireRunNow(c) \/ TryAcquire(c) PROVE Promise!Next
  BY <1>1, <1>6, AcquireRunNowEnters, TryAcquireEnters
<1>7. ASSUME NEW c \in Callers, NEW t \in Timeouts, AcquireRun(c, t) \/ QueueManagement(c, t)
      PROVE  Promise!Next
  BY <1>2, <1>7, EnqueueLinesUp DEF AcquireRun, QueueManagement
<1>8. ASSUME NEW c \in Callers, AcquireGranted(c) \/ TryAcquirePending(c)
      PROVE  UNCHANGED abstractVars
  BY <1>8, TakeLockInvisible DEF AcquireGranted, TryAcquirePending
<1>9. ASSUME NEW c \in Callers, AcquireTimedOut(c) \/ CancelPending(c)
      PROVE  Promise!Next \/ UNCHANGED abstractVars
  <2>1. Waiting(c) /\ CancelWaiter(c)
    BY <1>9 DEF AcquireTimedOut, CancelPending, Evaluates, Waiting
  <2>2. QED
    BY <1>1, <1>3, <2>1, CancelWaiterMaps
<1>10. ASSUME NEW c \in Callers, AcquireBlocks(c) PROVE UNCHANGED abstractVars
  BY <1>10, WaiterKept DEF AcquireBlocks
<1>11. ASSUME NEW c \in Callers, Release(c) PROVE Promise!Next
  <2>1. Granted(c) /\ waiter' = [waiter EXCEPT ![c] = NoWaiter] /\ UNCHANGED <<queue, count>>
    BY <1>11 DEF Release, Inv, LeaseOwnership, LeasesFollowThreads
  <2>2. QED
    BY <1>1, <2>1, ReleaseLeaves
<1>12. ASSUME NEW c \in Callers, NEW n \in Capacities, Configure(c, n) PROVE Promise!Next
  BY <1>4, <1>12, ConfigureResizes
<1>13. DispatchExpired \/ DispatchManagement \/ DispatchRequest => Promise!Next
  BY <1>3, <1>5, DispatchExpiredGivesUp, DispatchManagementAdmits, DispatchRequestAdmits
<1>14. DispatchReturn => UNCHANGED abstractVars
  BY WaiterKept DEF DispatchReturn
<1>15. Tick => UNCHANGED abstractVars
  BY TickInvisible
<1>16. QED
  BY <1>6, <1>7, <1>8, <1>9, <1>10, <1>11, <1>12, <1>13, <1>14, <1>15 DEF Next

\* The admission lock implements first-come-first-served admission with managers
\* as barriers, whatever the number of threads, slots and timeouts.
THEOREM Refinement == Spec => ImplementsAdmission
<1>1. Inv /\ Inv' /\ [Next]_vars => [Promise!Next]_(Promise!vars)
  <2> SUFFICES ASSUME Inv, Inv', [Next]_vars
               PROVE  Promise!Next \/ UNCHANGED Promise!vars
    OBVIOUS
  <2>1. UNCHANGED abstractVars => UNCHANGED Promise!vars
    BY DEF abstractVars, Promise!vars, Line, Running, Managing
  <2>2. CASE Next
    BY <2>1, <2>2, NextMaps
  <2>3. CASE UNCHANGED vars
    BY <2>1, <2>3, WaiterKept DEF vars
  <2>4. QED
    BY <2>2, <2>3
<1>2. QED
  BY InitMaps, <1>1, Invariance, PTL DEF Spec, ImplementsAdmission, Promise!Spec
=============================================================================
