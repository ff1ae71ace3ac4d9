------------------------ MODULE ModelResidencyProof ------------------------
(***************************************************************************)
(* Proofs about ModelResidency, for any models, callers, slot counts and   *)
(* limit: its types, that max_loaded_models holds, that sessions are       *)
(* owned, that every thread has the claims its handler answers for, and    *)
(* that the handlers use each admission lock as Admission allows.          *)
(*                                                                         *)
(* The inductive invariant says of every thread what its handler still has *)
(* to do and which leases, places in line and mutexes it has for that; of  *)
(* every model, that its lock excludes managers from requests and that its *)
(* sessions are there unless somebody tears them down.  A step of one      *)
(* thread is shown to spare the others (lemma OthersFit), so that each     *)
(* action is left with what it does to its own thread.                     *)
(***************************************************************************)
EXTENDS ModelResidency, FiniteSetTheorems, SequenceTheorems, TLAPS

-----------------------------------------------------------------------------
(* The inductive invariant *)

\* No element comes twice.
Distinct(q) == \A i, j \in DOMAIN q : q[i] = q[j] => i = j

\* t has a place in the line of m.
Waits(t, m, management) ==
  [caller |-> t, management |-> management] \in Elements(line[m])

\* t has something of the lock of m: a lease, or a place in its line.
Has(t, m) ==
  t \in running[m] \/ t \in managing[m] \/ \E b \in BOOLEAN : Waits(t, m, b)

\* The threads between taking model_load_mutex_ for a load and publishing it.
Evicting(t) == th[t].at = "evict" \/ (th[t].at = "retire" /\ th[t].back = "evict")

\* The models that count for max_loaded_models.
Residents == {m \in Models : resident[m]}

\* What each handler may be doing, and to which model.
ShapeFits(t) ==
  /\ th[t].at = "outside" => th[t] = Outside
  /\ th[t].op = "none" <=> th[t].at = "outside"
  /\ th[t].op \in {"request", "unload", "load", "bulk"} => t \in Callers
  /\ IF th[t].op \in {"request", "unload", "load"}
       THEN th[t].model \in registered ELSE th[t].model = Nobody
  /\ th[t].op = "request" =>
       th[t].at \in {"waiting", "init", "cold", "evict", "running", "retire"}
  /\ th[t].op = "unload" => th[t].at \in {"waiting", "retire"}
  /\ th[t].op = "load" =>
       th[t].at \in {"waiting", "init", "cold", "evict", "validate", "probe", "retire"}
  /\ th[t].op = "bulk" => th[t].at \in {"publish", "ready", "drain", "retire"}
  /\ th[t].op = "sweep" => th[t].at \in {"sweep", "retire"}
  /\ th[t].at \in {"validate", "probe"} => th[t].want \in Capacities

\* Where a thread goes on after tearing a model down.
RetireFits(t) ==
  /\ th[t].at = "retire" <=> th[t].victim # Nobody
  /\ th[t].at = "retire" =>
       \/ th[t].op = "unload" /\ th[t].back = "outside" /\ th[t].victim = th[t].model
       \/ /\ th[t].op = "load" /\ th[t].back = "init" /\ th[t].victim = th[t].model
          /\ th[t].want \in Capacities
       \/ /\ th[t].op \in {"request", "load"} /\ th[t].back = "evict"
          /\ th[t].victim # th[t].model
       \/ th[t].op = "bulk" /\ th[t].back \in {"ready", "drain"}
       \/ th[t].op = "sweep" /\ th[t].back = "sweep"

\* The models a loop still visits are registered, and visited once.
ListFits(t) ==
  /\ Distinct(th[t].todo) /\ Distinct(th[t].later)
  /\ Elements(th[t].todo) \cup Elements(th[t].later) \subseteq registered
  /\ Elements(th[t].todo) \cap Elements(th[t].later) = {}
  /\ IF th[t].op = "bulk"
       THEN th[t].victim \notin Elements(th[t].todo) \cup Elements(th[t].later)
       ELSE th[t].later = <<>>
  /\ th[t].at = "drain" \/ (th[t].at = "retire" /\ th[t].back = "drain") => th[t].later = <<>>

\* A thread has what its handler answers for: requests share a model, the others
\* and whoever tears a model down manage it, and only one that waits is in line.
ClaimsFit(t) ==
  /\ \A m \in Models : Has(t, m) <=> m \in Pledged(t)
  /\ \A m \in Models :
       /\ t \in running[m] => th[t].op = "request" /\ th[t].model = m
       /\ t \in managing[m] => th[t].op # "request" \/ th[t].victim = m
       /\ \A b \in BOOLEAN : Waits(t, m, b) =>
            /\ (b <=> th[t].op # "request") /\ t \notin running[m] \cup managing[m]
            /\ th[t].victim # m
            /\ th[t].op = "bulk" \/ th[t].at = "waiting"

\* A load holds its model's initialization_mutex, and model_load_mutex_ from
\* when it makes room.
MutexFits(t) ==
  /\ \A m \in Models : initMutex[m] = t <=> Loads(t, m)
  /\ loadMutex = t <=> Limit > 0 /\ (Evicting(t) \/ th[t].at = "probe")

\* A run finds sessions, a load none, and what is torn down is not resident.
SessionFits(t) ==
  \A m \in Models :
    /\ th[t].at = "running" /\ th[t].model = m => resident[m]
    /\ Loads(t, m) => pool[m] = 0
    /\ Destroys(t, m) => ~resident[m]

\* There will be room for the model a thread loads: S bounds what is resident
\* when all that need to go are gone.
RoomFits(t) ==
  Limit > 0 /\ Evicting(t) =>
    \E S \in SUBSET Models :
      /\ Elements(th[t].todo) \subseteq S /\ Residents \subseteq S
      /\ Cardinality(S) <= Limit - 1 + th[t].need

\* A thread fits its handler, the locks and the models.
Fits(t) ==
  /\ ShapeFits(t) /\ RetireFits(t) /\ ListFits(t) /\ ClaimsFit(t)
  /\ MutexFits(t) /\ SessionFits(t) /\ RoomFits(t)

\* A manager is alone, and nobody claims a model that is not registered.
LockFits(m) ==
  /\ Distinct(line[m])
  /\ managing[m] = {} \/ (running[m] = {} /\ \E t \in Threads : managing[m] = {t})
  /\ m \notin registered => line[m] = <<>> /\ running[m] = {} /\ managing[m] = {}

\* A pool has a session for every slot; a model that is not resident has none,
\* unless somebody tears it down.
PoolFits(m) ==
  /\ pool[m] \in {0, capacity[m]}
  /\ resident[m] => pool[m] # 0 /\ m \in registered
  /\ pool[m] # 0 /\ ~resident[m] => \E t \in Threads : Destroys(t, m)

\* The inductive invariant.
Inv ==
  /\ TypeOK /\ ResidentLimit
  /\ \A m \in Models : LockFits(m) /\ PoolFits(m)
  /\ \A t \in Threads : Fits(t)

-----------------------------------------------------------------------------
(* Lemmas about sequences *)

\* The empty sequence has no elements.
LEMMA EmptyProps ==
  /\ Elements(<<>>) = {} /\ Distinct(<<>>)
  /\ \A S : <<>> \in Seq(S)
  BY DEF Elements, Distinct

\* A new last element.
LEMMA AppendProps ==
  ASSUME NEW S, NEW q \in Seq(S), NEW e \in S
  PROVE  /\ Append(q, e) \in Seq(S) /\ Append(q, e) # <<>>
         /\ Elements(Append(q, e)) = Elements(q) \cup {e}
         /\ Distinct(q) /\ e \notin Elements(q) => Distinct(Append(q, e))
<1>1. /\ Append(q, e) \in Seq(S) /\ Len(q) \in Nat
      /\ DOMAIN q = 1 .. Len(q) /\ DOMAIN Append(q, e) = 1 .. Len(q) + 1
      /\ \A i \in 1 .. Len(q) : Append(q, e)[i] = q[i]
      /\ Append(q, e)[Len(q) + 1] = e
  BY AppendProperties
<1>2. Append(q, e) # <<>>
  BY <1>1
<1>3. Elements(Append(q, e)) = Elements(q) \cup {e}
  <2>1. \A i \in DOMAIN Append(q, e) : Append(q, e)[i] \in Elements(q) \cup {e}
    BY <1>1 DEF Elements
  <2>2. Elements(q) \cup {e} \subseteq Elements(Append(q, e))
    BY <1>1 DEF Elements
  <2>3. QED
    BY <2>1, <2>2 DEF Elements
<1>4. Distinct(q) /\ e \notin Elements(q) => Distinct(Append(q, e))
  <2>1. SUFFICES ASSUME Distinct(q), e \notin Elements(q),
                        NEW i \in 1 .. Len(q) + 1, NEW j \in 1 .. Len(q) + 1,
                        Append(q, e)[i] = Append(q, e)[j]
                 PROVE  i = j
    BY <1>1 DEF Distinct
  <2>2. \A k \in 1 .. Len(q) : q[k] # e
    BY <1>1, <2>1 DEF Elements
  <2>3. QED
    BY <1>1, <2>1, <2>2 DEF Distinct
<1>5. QED
  BY <1>1, <1>2, <1>3, <1>4

\* The first element, and the others.
LEMMA TailProps ==
  ASSUME NEW S, NEW q \in Seq(S), q # <<>>
  PROVE  /\ Head(q) \in S /\ Tail(q) \in Seq(S)
         /\ Elements(q) = Elements(Tail(q)) \cup {Head(q)}
         /\ Distinct(q) => Distinct(Tail(q)) /\ Head(q) \notin Elements(Tail(q))
<1>1. /\ Tail(q) \in Seq(S) /\ Head(q) \in S /\ Head(q) = q[1]
      /\ Len(q) \in Nat /\ Len(q) >= 1
      /\ DOMAIN q = 1 .. Len(q) /\ DOMAIN Tail(q) = 1 .. Len(q) - 1
      /\ \A i \in 1 .. Len(q) - 1 : Tail(q)[i] = q[i + 1]
  BY HeadTailProperties
<1>2. Elements(q) = Elements(Tail(q)) \cup {Head(q)}
  <2>1. ASSUME NEW i \in 1 .. Len(q) PROVE q[i] \in Elements(Tail(q)) \cup {Head(q)}
    <3>1. CASE i = 1
      BY <1>1, <3>1
    <3>2. CASE i # 1
      <4>1. i - 1 \in 1 .. Len(q) - 1 /\ Tail(q)[i - 1] = q[i]
        BY <1>1, <3>2
      <4>2. QED
        BY <1>1, <4>1 DEF Elements
    <3>3. QED
      BY <3>1, <3>2
  <2>2. \A i \in 1 .. Len(q) - 1 : Tail(q)[i] \in Elements(q)
    BY <1>1 DEF Elements
  <2>3. Head(q) \in Elements(q)
    BY <1>1 DEF Elements
  <2>4. /\ Elements(q) = {q[i] : i \in 1 .. Len(q)}
        /\ Elements(Tail(q)) = {Tail(q)[i] : i \in 1 .. Len(q) - 1}
    BY <1>1 DEF Elements
  <2>5. Elements(q) \subseteq Elements(Tail(q)) \cup {Head(q)}
    BY <2>1, <2>4
  <2>6. Elements(Tail(q)) \subseteq Elements(q)
    BY <2>2, <2>4
  <2>7. QED
    BY <2>3, <2>5, <2>6
<1>3. ASSUME Distinct(q) PROVE Distinct(Tail(q)) /\ Head(q) \notin Elements(Tail(q))
  <2>1. \A i, j \in 1 .. Len(q) : q[i] = q[j] => i = j
    BY <1>1, <1>3 DEF Distinct
  <2>2. Distinct(Tail(q))
    BY <1>1, <2>1 DEF Distinct
  <2>3. ASSUME NEW i \in 1 .. Len(q) - 1 PROVE Tail(q)[i] # Head(q)
    BY <1>1, <2>1
  <2>4. QED
    BY <1>1, <2>2, <2>3 DEF Elements
<1>4. QED
  BY <1>1, <1>2, <1>3

\* An element leaves wherever it stands.
LEMMA RemoveAtProps ==
  ASSUME NEW S, NEW q \in Seq(S), NEW i \in DOMAIN q, Distinct(q)
  PROVE  /\ RemoveAt(q, i) \in Seq(S) /\ Distinct(RemoveAt(q, i))
         /\ Elements(RemoveAt(q, i)) = Elements(q) \ {q[i]}
<1>1. DOMAIN q = 1 .. Len(q) /\ Len(q) \in Nat
  OBVIOUS
<1>. DEFINE a == SubSeq(q, 1, i - 1)
            b == SubSeq(q, i + 1, Len(q))
            s == RemoveAt(q, i)
<1>2. a \in Seq(S) /\ Len(a) = i - 1 /\ \A j \in 1 .. (i - 1) : a[j] = q[j]
  BY <1>1
<1>3. b \in Seq(S) /\ Len(b) = Len(q) - i /\ \A j \in 1 .. (Len(q) - i) : b[j] = q[i + j]
  BY <1>1
<1>4. s = a \o b
  BY DEF RemoveAt
<1>. HIDE DEF a, b, s
<1>5. /\ s \in Seq(S) /\ Len(s) = Len(a) + Len(b)
      /\ \A j \in 1 .. Len(a) + Len(b) :
           s[j] = IF j <= Len(a) THEN a[j] ELSE b[j - Len(a)]
  BY <1>2, <1>3, <1>4, ConcatProperties
<1>6. DOMAIN s = 1 .. Len(q) - 1
  BY <1>1, <1>2, <1>3, <1>5
<1>7. ASSUME NEW j \in 1 .. Len(q) - 1
      PROVE  s[j] = IF j < i THEN q[j] ELSE q[j + 1]
  <2>1. CASE j < i
    BY <1>1, <1>2, <1>3, <1>5, <2>1
  <2>2. CASE ~(j < i)
    <3>1. j - (i - 1) \in 1 .. (Len(q) - i) /\ i + (j - (i - 1)) = j + 1
      BY <1>1, <2>2
    <3>2. /\ j \in 1 .. Len(a) + Len(b) /\ ~(j <= Len(a)) /\ Len(a) = i - 1
      BY <1>1, <1>2, <1>3, <2>2
    <3>3. s[j] = b[j - Len(a)]
      BY <1>5, <3>2
    <3>4. QED
      BY <1>3, <2>2, <3>1, <3>2, <3>3
  <2>3. QED
    BY <2>1, <2>2
<1>8. \A j, k \in 1 .. Len(q) : q[j] = q[k] => j = k
  BY <1>1 DEF Distinct
<1>9. Distinct(s)
  <2>1. SUFFICES ASSUME NEW j \in 1 .. Len(q) - 1, NEW k \in 1 .. Len(q) - 1, s[j] = s[k]
                 PROVE  j = k
    BY <1>6 DEF Distinct
  <2>2. j + 1 \in 1 .. Len(q) /\ k + 1 \in 1 .. Len(q)
    BY <1>1
  <2>3. QED
    BY <1>1, <1>7, <1>8, <2>1, <2>2
<1>10. Elements(s) = Elements(q) \ {q[i]}
  <2>1. ASSUME NEW j \in 1 .. Len(q) - 1 PROVE s[j] \in Elements(q) \ {q[i]}
    <3>1. j + 1 \in 1 .. Len(q) /\ j \in 1 .. Len(q)
      BY <1>1
    <3>2. CASE j < i
      BY <1>1, <1>7, <1>8, <3>1, <3>2 DEF Elements
    <3>3. CASE ~(j < i)
      <4>1. s[j] = q[j + 1] /\ j + 1 # i
        BY <1>1, <1>7, <3>3
      <4>2. QED
        BY <1>1, <1>8, <3>1, <4>1 DEF Elements
    <3>4. QED
      BY <3>2, <3>3
  <2>2. ASSUME NEW j \in 1 .. Len(q), q[j] # q[i] PROVE q[j] \in Elements(s)
    <3>1. CASE j < i
      <4>1. j \in 1 .. Len(q) - 1 /\ s[j] = q[j]
        BY <1>1, <1>7, <3>1
      <4>2. QED
        BY <1>6, <4>1 DEF Elements
    <3>2. CASE j > i
      <4>1. j - 1 \in 1 .. Len(q) - 1 /\ ~(j - 1 < i) /\ (j - 1) + 1 = j
        BY <1>1, <3>2
      <4>2. s[j - 1] = q[j]
        BY <1>7, <4>1
      <4>3. QED
        BY <1>6, <4>1, <4>2 DEF Elements
    <3>3. QED
      BY <1>1, <2>2, <3>1, <3>2
  <2>3. QED
    BY <1>1, <1>6, <2>1, <2>2 DEF Elements
<1>11. QED
  BY <1>5, <1>9, <1>10 DEF s

\* An order of a set has each of its elements once.
LEMMA OrderProps ==
  ASSUME NEW T, IsFiniteSet(T), NEW q \in SetToSeqs(T)
  PROVE  q \in Seq(T) /\ Distinct(q) /\ Elements(q) \subseteq T
<1>1. Cardinality(T) \in Nat
  BY FS_CardinalityType
<1>2. /\ q \in [1 .. Cardinality(T) -> T]
      /\ \A i, j \in 1 .. Cardinality(T) : i # j => q[i] # q[j]
  BY DEF SetToSeqs
<1>3. QED
  BY <1>1, <1>2 DEF Distinct, Elements

-----------------------------------------------------------------------------
(* Lemmas about threads *)

\* The record of a thread, as in TypeOK.
Thread == [op : {"none", "request", "unload", "load", "bulk", "sweep"},
           at : Phases, model : Models \cup {Nobody}, want : Capacities \cup {0},
           todo : Seq(Models), later : Seq(Models), need : Nat,
           victim : Models \cup {Nobody}, back : Phases]

\* The record of a thread that does nothing.
LEMMA OutsideProps ==
  /\ Outside \in Thread
  /\ Outside.op = "none" /\ Outside.at = "outside" /\ Outside.model = Nobody
  /\ Outside.want = 0 /\ Outside.todo = <<>> /\ Outside.later = <<>>
  /\ Outside.need = 0 /\ Outside.victim = Nobody /\ Outside.back = "outside"
  BY EmptyProps DEF Outside, Thread, Phases

\* What holds of the constants and of a thread before a step.
LEMMA Before ==
  ASSUME Inv, NEW t \in Threads
  PROVE  /\ th \in [Threads -> Thread] /\ th[t] \in Thread
         /\ Nobody \notin Threads \cup Models /\ Limit \in Nat /\ registered \subseteq Models
         /\ 0 \notin Capacities
         /\ ShapeFits(t) /\ RetireFits(t) /\ ListFits(t) /\ ClaimsFit(t)
         /\ MutexFits(t) /\ SessionFits(t) /\ RoomFits(t)
  BY ResidencyAssumption DEF Inv, TypeOK, Fits, Thread, Threads

\* The models are finitely many.
LEMMA ModelsAreFinite ==
  /\ IsFiniteSet(Models) /\ Cardinality(Models) \in Nat
  /\ \A S \in SUBSET Models : IsFiniteSet(S) /\ Cardinality(S) \in Nat
  BY ResidencyAssumption, FS_Subset, FS_CardinalityType

\* Past the wait a request shares its model, a manager has it, and whoever tears
\* a model down has that.
LEMMA Owned ==
  ASSUME Inv, NEW t \in Threads
  PROVE  /\ th[t].op = "request" /\ th[t].at # "waiting" =>
              th[t].model \in Models /\ t \in running[th[t].model]
         /\ th[t].op \in {"unload", "load"} /\ th[t].at # "waiting" =>
              th[t].model \in Models /\ t \in managing[th[t].model]
         /\ th[t].victim # Nobody =>
              th[t].victim \in Models /\ t \in managing[th[t].victim]
<1>1. /\ th[t] \in Thread /\ Nobody \notin Models /\ registered \subseteq Models
      /\ ShapeFits(t) /\ RetireFits(t) /\ ClaimsFit(t)
  BY Before
<1>2. /\ th[t].op \in {"request", "unload", "load"} =>
           th[t].model \in Models /\ th[t].model \in Pledged(t)
      /\ th[t].victim # Nobody => th[t].victim \in Models /\ th[t].victim \in Pledged(t)
  BY <1>1 DEF ShapeFits, Pledged, Thread
<1>3. ASSUME th[t].op = "request", th[t].at # "waiting"
      PROVE  t \in running[th[t].model]
  BY <1>1, <1>2, <1>3 DEF ShapeFits, RetireFits, ClaimsFit, Has
<1>4. ASSUME th[t].op \in {"unload", "load"}, th[t].at # "waiting"
      PROVE  t \in managing[th[t].model]
  BY <1>1, <1>2, <1>4 DEF ClaimsFit, Has
<1>5. ASSUME th[t].victim # Nobody
      PROVE  t \in managing[th[t].victim]
  BY <1>1, <1>2, <1>5 DEF RetireFits, ClaimsFit, Has
<1>6. QED
  BY <1>2, <1>3, <1>4, <1>5

\* A manager of a model is alone with it.
LEMMA ManagesAlone ==
  ASSUME Inv, NEW m \in Models, NEW t \in managing[m]
  PROVE  /\ t \in Threads /\ managing[m] = {t} /\ running[m] = {} /\ m \in registered
         /\ managing[m] \subseteq Threads
  BY DEF Inv, TypeOK, LockFits

\* A step leaves the thread u, its claims and mutexes, and what it relies on
\* alone.
Spares(u) ==
  /\ th'[u] = th[u] /\ registered \subseteq registered'
  /\ \A m \in Models :
       /\ u \in running'[m] <=> u \in running[m]
       /\ u \in managing'[m] <=> u \in managing[m]
       /\ \A b \in BOOLEAN : Waits(u, m, b)' <=> Waits(u, m, b)
       /\ initMutex'[m] = u <=> initMutex[m] = u
       /\ u \in running[m] /\ resident[m] => resident'[m]
       /\ initMutex[m] = u /\ pool[m] = 0 => pool'[m] = 0
       /\ u \in managing[m] /\ ~resident[m] => ~resident'[m]
  /\ loadMutex' = u <=> loadMutex = u
  /\ loadMutex = u => Residents' \subseteq Residents

\* What fits of a thread that a step spares fits after it.
LEMMA OthersFit ==
  ASSUME Inv, NEW u \in Threads, Spares(u)
  PROVE  Fits(u)'
<1>1. /\ th'[u] = th[u] /\ registered \subseteq registered'
      /\ \A m \in Models : Loads(u, m)' = Loads(u, m) /\ Destroys(u, m)' = Destroys(u, m)
      /\ Pledged(u)' = Pledged(u) /\ Evicting(u)' = Evicting(u)
  BY DEF Spares, Loads, Destroys, Pledged, Evicting
<1>2. ShapeFits(u)' /\ RetireFits(u)'
  BY <1>1, Before DEF ShapeFits, RetireFits
<1>3. ListFits(u)'
  BY <1>1, Before DEF ListFits
<1>4. ClaimsFit(u)'
  <2>1. \A m \in Models : Has(u, m)' <=> Has(u, m)
    BY DEF Has, Spares
  <2>2. QED
    BY <1>1, <2>1, Before DEF ClaimsFit, Spares
<1>5. MutexFits(u)'
  BY <1>1, Before DEF MutexFits, Spares
<1>6. SessionFits(u)'
  <2>1. ASSUME NEW m \in Models, th[u].at = "running", th[u].model = m PROVE resident'[m]
    <3>1. th[u].op = "request" /\ resident[m]
      BY <2>1, Before DEF ShapeFits, SessionFits, Thread
    <3>2. u \in running[m]
      BY <2>1, <3>1, Owned
    <3>3. QED
      BY <3>1, <3>2 DEF Spares
  <2>2. ASSUME NEW m \in Models, Loads(u, m) PROVE pool'[m] = 0
    BY <2>2, Before DEF MutexFits, SessionFits, Spares
  <2>3. ASSUME NEW m \in Models, Destroys(u, m) PROVE ~resident'[m]
    <3>1. th[u].victim = m /\ m # Nobody /\ ~resident[m]
      BY <2>3, Before DEF Destroys, SessionFits
    <3>2. u \in managing[m]
      BY <3>1, Owned
    <3>3. QED
      BY <3>1, <3>2 DEF Spares
  <2>4. QED
    BY <1>1, <2>1, <2>2, <2>3 DEF SessionFits
<1>7. RoomFits(u)'
  <2>1. SUFFICES ASSUME Limit > 0, Evicting(u)
                 PROVE  \E S \in SUBSET Models :
                          /\ Elements(th[u].todo) \subseteq S /\ Residents' \subseteq S
                          /\ Cardinality(S) <= Limit - 1 + th[u].need
    BY <1>1 DEF RoomFits
  <2>2. Residents' \subseteq Residents
    BY <2>1, Before DEF MutexFits, Spares
  <2>3. QED
    BY <2>1, <2>2, Before DEF RoomFits
<1>8. QED
  BY <1>2, <1>3, <1>4, <1>5, <1>6, <1>7 DEF Fits

\* The invariant is preserved by a step that spares all threads but one.
LEMMA StepInv ==
  ASSUME Inv, NEW t \in Threads, \A u \in Threads \ {t} : Spares(u),
         TypeOK', ResidentLimit', \A m \in Models : LockFits(m)' /\ PoolFits(m)', Fits(t)'
  PROVE  Inv'
  BY OthersFit DEF Inv

\* A step keeps to t: to its record, its claims and its mutexes.
KeepsTo(t) ==
  /\ registered \subseteq registered'
  /\ \A u \in Threads \ {t} :
       /\ th'[u] = th[u] /\ (loadMutex' = u <=> loadMutex = u)
       /\ \A m \in Models :
            /\ u \in running'[m] <=> u \in running[m]
            /\ u \in managing'[m] <=> u \in managing[m]
            /\ \A b \in BOOLEAN : Waits(u, m, b)' <=> Waits(u, m, b)
            /\ initMutex'[m] = u <=> initMutex[m] = u

\* A step that keeps to t and leaves the sessions alone keeps the invariant if t
\* fits afterwards.
LEMMA ThreadStep ==
  ASSUME Inv, NEW t \in Threads, KeepsTo(t), UNCHANGED <<capacity, poolVars>>,
         th[t].at # "retire" \/ th' = th, TypeOK', \A m \in Models : LockFits(m)', Fits(t)'
  PROVE  Inv'
<1>1. UNCHANGED <<capacity, pool, resident>>
  BY DEF poolVars
<1>2. ASSUME NEW u \in Threads \ {t} PROVE Spares(u)
  BY <1>1 DEF Spares, KeepsTo, Residents
<1>3. ResidentLimit'
  BY <1>1 DEF Inv, ResidentLimit
<1>4. ASSUME NEW m \in Models PROVE PoolFits(m)'
  <2>1. PoolFits(m) /\ registered \subseteq registered'
    BY DEF Inv, KeepsTo
  <2>2. ASSUME pool[m] # 0, ~resident[m] PROVE \E u \in Threads : Destroys(u, m)'
    <3>1. PICK u \in Threads : Destroys(u, m)
      BY <2>1, <2>2 DEF PoolFits
    <3>2. th'[u] = th[u]
      BY <3>1 DEF Destroys, KeepsTo
    <3>3. QED
      BY <3>1, <3>2 DEF Destroys
  <2>3. QED
    BY <1>1, <2>1, <2>2 DEF PoolFits
<1>5. QED
  BY <1>2, <1>3, <1>4, StepInv

-----------------------------------------------------------------------------
(* Lemmas about the admission locks *)

\* A step gives t a place in the line of m, and leaves the other places alone.
Joins(t, m, b) ==
  /\ line' \in [Models -> Seq([caller : Callers, management : BOOLEAN])]
  /\ \A u \in Threads, k \in Models, c \in BOOLEAN :
       Waits(u, k, c)' <=> Waits(u, k, c) \/ (u = t /\ k = m /\ c = b)

\* A newcomer lines up behind the others.
LEMMA LineUpProps ==
  ASSUME Inv, NEW t \in Callers, NEW m \in registered, NEW b \in BOOLEAN, ~Has(t, m),
         LineUp(t, m, b), UNCHANGED <<registered, running, managing>>
  PROVE  Joins(t, m, b) /\ \A k \in Models : LockFits(k)'
<1>. DEFINE e == [caller |-> t, management |-> b]
            Place == [caller : Callers, management : BOOLEAN]
<1>1. /\ m \in Models /\ line \in [Models -> Seq(Place)] /\ line[m] \in Seq(Place)
      /\ e \in Place /\ t \in Threads
  BY DEF Inv, TypeOK, Threads
<1>2. line' = [line EXCEPT ![m] = Append(line[m], e)]
  BY DEF LineUp
<1>. HIDE DEF e, Place
<1>3. /\ line'[m] = Append(line[m], e) /\ line'[m] \in Seq(Place)
      /\ Elements(line'[m]) = Elements(line[m]) \cup {e}
      /\ Distinct(line[m]) /\ e \notin Elements(line[m]) => Distinct(line'[m])
      /\ \A k \in Models \ {m} : line'[k] = line[k]
  <2>1. /\ Append(line[m], e) \in Seq(Place)
        /\ Elements(Append(line[m], e)) = Elements(line[m]) \cup {e}
        /\ Distinct(line[m]) /\ e \notin Elements(line[m]) => Distinct(Append(line[m], e))
    BY <1>1, AppendProps
  <2>2. line'[m] = Append(line[m], e) /\ \A k \in Models \ {m} : line'[k] = line[k]
    BY <1>1, <1>2
  <2>3. QED
    BY <2>1, <2>2
<1>4. line' \in [Models -> Seq(Place)]
  BY <1>1, <1>2, <1>3
<1>5. e \notin Elements(line[m])
  BY DEF Has, Waits, e
<1>6. ASSUME NEW u \in Threads, NEW k \in Models, NEW c \in BOOLEAN
      PROVE  Waits(u, k, c)' <=> Waits(u, k, c) \/ (u = t /\ k = m /\ c = b)
  <2>1. ([caller |-> u, management |-> c] = e) <=> (u = t /\ c = b)
    BY DEF e
  <2>2. CASE k = m
    BY <1>3, <2>1, <2>2 DEF Waits
  <2>3. CASE k # m
    BY <1>3, <2>3 DEF Waits
  <2>4. QED
    BY <2>2, <2>3
<1>7. ASSUME NEW k \in Models PROVE LockFits(k)'
  BY <1>3, <1>5 DEF Inv, LockFits
<1>8. QED
  BY <1>4, <1>6, <1>7 DEF Joins, Place

\* A step takes t's place in the line of m away, and leaves the other places alone.
Quits(t, m, b) ==
  /\ line' \in [Models -> Seq([caller : Callers, management : BOOLEAN])]
  /\ Waits(t, m, b)
  /\ \A u \in Threads, k \in Models, c \in BOOLEAN :
       Waits(u, k, c)' <=> Waits(u, k, c) /\ ~(u = t /\ k = m /\ c = b)

\* A waiter leaves the line.
LEMMA GiveUpProps ==
  ASSUME Inv, NEW t \in Threads, NEW m \in Models, NEW i \in DOMAIN line[m],
         line[m][i].caller = t, line' = [line EXCEPT ![m] = RemoveAt(@, i)],
         UNCHANGED <<registered, running, managing>>
  PROVE  /\ \E b \in BOOLEAN : Quits(t, m, b)
         /\ \A k \in Models : LockFits(k)'
<1>. DEFINE e == line[m][i]
            Place == [caller : Callers, management : BOOLEAN]
<1>. HIDE DEF Place
<1>1. /\ line \in [Models -> Seq(Place)] /\ line[m] \in Seq(Place) /\ Distinct(line[m])
      /\ e \in Place
  <2>1. line \in [Models -> Seq(Place)] /\ Distinct(line[m])
    BY DEF Inv, TypeOK, LockFits, Place
  <2>2. line[m] \in Seq(Place)
    BY <2>1
  <2>3. e \in Place
    BY <2>2
  <2>4. QED
    BY <2>1, <2>2, <2>3
<1>2. e = [caller |-> t, management |-> e.management] /\ e.management \in BOOLEAN
  BY <1>1 DEF Place
<1>3. /\ line'[m] = RemoveAt(line[m], i) /\ line'[m] \in Seq(Place)
      /\ Elements(line'[m]) = Elements(line[m]) \ {e} /\ Distinct(line'[m])
      /\ \A k \in Models \ {m} : line'[k] = line[k]
      /\ e \in Elements(line[m])
  <2>1. /\ RemoveAt(line[m], i) \in Seq(Place) /\ Distinct(RemoveAt(line[m], i))
        /\ Elements(RemoveAt(line[m], i)) = Elements(line[m]) \ {e}
    BY <1>1, RemoveAtProps
  <2>2. line'[m] = RemoveAt(line[m], i) /\ \A k \in Models \ {m} : line'[k] = line[k]
    BY <1>1
  <2>3. e \in Elements(line[m])
    BY DEF Elements
  <2>4. QED
    BY <2>1, <2>2, <2>3
<1>4. line' \in [Models -> Seq(Place)]
  BY <1>1, <1>3
<1>. HIDE DEF e
<1>5. ASSUME NEW u \in Threads, NEW k \in Models, NEW c \in BOOLEAN
      PROVE  Waits(u, k, c)' <=> Waits(u, k, c) /\ ~(u = t /\ k = m /\ c = e.management)
  BY <1>2, <1>3 DEF Waits
<1>6. Waits(t, m, e.management)
  BY <1>2, <1>3 DEF Waits
<1>7. ASSUME NEW k \in Models PROVE LockFits(k)'
  <2>1. LockFits(k)
    BY DEF Inv
  <2>2. k = m => m \in registered
    BY <1>3, <2>1, EmptyProps DEF LockFits
  <2>3. QED
    BY <1>3, <2>1, <2>2 DEF LockFits
<1>8. QED
  BY <1>2, <1>4, <1>5, <1>6, <1>7 DEF Quits, Place

\* A thread that leaves the lock of a model has it no more.
LEMMA LeaveProps ==
  ASSUME Inv, NEW t \in Threads, NEW m \in Models, Leave(t, m), UNCHANGED <<registered, line>>
  PROVE  /\ running' \in [Models -> SUBSET Callers]
         /\ managing' \in [Models -> SUBSET Threads]
         /\ \A u \in Threads, k \in Models :
              /\ u \in running'[k] <=> u \in running[k] /\ ~(u = t /\ k = m)
              /\ u \in managing'[k] <=> u \in managing[k] /\ ~(u = t /\ k = m)
         /\ \A k \in Models : LockFits(k)'
<1>1. /\ running \in [Models -> SUBSET Callers] /\ managing \in [Models -> SUBSET Threads]
      /\ running' = [running EXCEPT ![m] = @ \ {t}]
      /\ managing' = [managing EXCEPT ![m] = @ \ {t}]
  BY DEF Inv, TypeOK, Leave
<1>2. /\ running' \in [Models -> SUBSET Callers] /\ managing' \in [Models -> SUBSET Threads]
      /\ \A k \in Models :
           /\ running'[k] = IF k = m THEN running[m] \ {t} ELSE running[k]
           /\ managing'[k] = IF k = m THEN managing[m] \ {t} ELSE managing[k]
  BY <1>1
<1>3. ASSUME NEW k \in Models PROVE LockFits(k)'
  <2>1. LockFits(k)
    BY DEF Inv
  <2>2. CASE managing[k] = {}
    BY <1>2, <2>1, <2>2 DEF LockFits
  <2>3. CASE managing[k] # {}
    BY <1>2, <2>1, <2>3 DEF LockFits
  <2>4. QED
    BY <2>2, <2>3
<1>4. QED
  BY <1>2, <1>3

\* A manager takes a lock that is free, or keeps the one it has.
LEMMA TakeProps ==
  ASSUME Inv, NEW t \in Threads, NEW m \in registered',
         registered \subseteq registered' /\ registered' \subseteq Models,
         managing' = [managing EXCEPT ![m] = {t}], UNCHANGED <<line, running>>,
         managing[m] \subseteq {t}, running[m] = {}
  PROVE  /\ managing' \in [Models -> SUBSET Threads]
         /\ \A u \in Threads, k \in Models :
              u \in managing'[k] <=> u \in managing[k] \/ (u = t /\ k = m)
         /\ \A k \in Models : LockFits(k)'
<1>1. /\ m \in Models /\ managing \in [Models -> SUBSET Threads]
      /\ managing'[m] = {t} /\ \A k \in Models \ {m} : managing'[k] = managing[k]
      /\ managing' \in [Models -> SUBSET Threads]
  BY DEF Inv, TypeOK
<1>2. ASSUME NEW k \in Models PROVE LockFits(k)'
  <2>1. LockFits(k)
    BY DEF Inv
  <2>2. QED
    BY <1>1, <2>1 DEF LockFits
<1>3. QED
  BY <1>1, <1>2

\* A manager gives back the lock of a model it has torn down.
LEMMA ClearProps ==
  ASSUME Inv, NEW t \in Threads, NEW m \in Models, managing[m] = {t},
         managing' = [managing EXCEPT ![m] = {}], UNCHANGED <<registered, line, running>>
  PROVE  /\ managing' \in [Models -> SUBSET Threads]
         /\ \A u \in Threads, k \in Models :
              u \in managing'[k] <=> u \in managing[k] /\ ~(u = t /\ k = m)
         /\ \A k \in Models : LockFits(k)'
<1>1. /\ managing \in [Models -> SUBSET Threads]
      /\ managing'[m] = {} /\ \A k \in Models \ {m} : managing'[k] = managing[k]
      /\ managing' \in [Models -> SUBSET Threads]
  BY DEF Inv, TypeOK
<1>2. ASSUME NEW k \in Models PROVE LockFits(k)'
  <2>1. LockFits(k)
    BY DEF Inv
  <2>2. QED
    BY <1>1, <2>1 DEF LockFits
<1>3. QED
  BY <1>1, <1>2

\* Nobody claims a model whose lock is free.
LEMMA FreeProps ==
  ASSUME Inv, NEW m \in Models, CanTryAcquire(m)
  PROVE  /\ line[m] = <<>> /\ running[m] = {} /\ managing[m] = {}
         /\ \A u \in Threads : ~Has(u, m) /\ m \notin Pledged(u)
<1>1. line[m] = <<>> /\ running[m] = {} /\ managing[m] = {}
  BY DEF CanTryAcquire, RoomForManager
<1>2. \A u \in Threads : ~Has(u, m)
  BY <1>1, EmptyProps DEF Has, Waits
<1>3. QED
  BY <1>1, <1>2, Before DEF ClaimsFit

-----------------------------------------------------------------------------
(* Lemmas about steps that concern one thread *)

\* model_load_mutex_ stays with its owner, unless that is t.
LoadMutexKept(t) ==
  /\ loadMutex' \in Owners
  /\ \A u \in Threads \ {t} : loadMutex' = u <=> loadMutex = u

\* A guarded load or probe takes model_load_mutex_, and gives it back.
LEMMA LoadMutexProps ==
  ASSUME Inv, NEW t \in Threads
  PROVE  /\ TakeLoadMutex(t) => LoadMutexKept(t) /\ (loadMutex' = t <=> Limit > 0)
         /\ DropLoadMutex(t) => LoadMutexKept(t) /\ loadMutex' # t
         /\ UNCHANGED loadMutex => LoadMutexKept(t)
<1>1. /\ loadMutex \in Owners /\ Nobody \notin Threads /\ Nobody # t
      /\ loadMutex = t => Limit > 0
  <2>1. loadMutex \in Owners
    BY DEF Inv, TypeOK
  <2>2. Nobody \notin Threads /\ MutexFits(t)
    BY Before
  <2>3. QED
    BY <2>1, <2>2 DEF MutexFits
<1>2. ASSUME TakeLoadMutex(t) PROVE LoadMutexKept(t) /\ (loadMutex' = t <=> Limit > 0)
  <2>1. CASE Limit > 0
    BY <1>1, <1>2, <2>1 DEF TakeLoadMutex, LoadMutexKept, Owners
  <2>2. CASE ~(Limit > 0)
    BY <1>1, <1>2, <2>2 DEF TakeLoadMutex, LoadMutexKept, Owners
  <2>3. QED
    BY <2>1, <2>2
<1>3. ASSUME DropLoadMutex(t) PROVE LoadMutexKept(t) /\ loadMutex' # t
  <2>1. CASE loadMutex = t
    BY <1>1, <1>3, <2>1 DEF DropLoadMutex, LoadMutexKept, Owners
  <2>2. CASE loadMutex # t
    BY <1>1, <1>3, <2>2 DEF DropLoadMutex, LoadMutexKept, Owners
  <2>3. QED
    BY <2>1, <2>2
<1>4. ASSUME UNCHANGED loadMutex PROVE LoadMutexKept(t)
  BY <1>1, <1>4 DEF LoadMutexKept
<1>5. QED
  BY <1>2, <1>3, <1>4

\* A step that changes the record of one thread, and a mutex at most.
LEMMA QuietStep ==
  ASSUME Inv, NEW t \in Threads, NEW r \in Thread, th' = [th EXCEPT ![t] = r],
         UNCHANGED <<registered, lockVars, poolVars, initMutex>>,
         th[t].at # "retire", LoadMutexKept(t), bulkMutex' \in Owners, Fits(t)'
  PROVE  Inv'
<1>1. /\ UNCHANGED <<registered, capacity, line, running, managing, pool, resident, initMutex>>
      /\ \A u \in Threads, m \in Models, b \in BOOLEAN : Waits(u, m, b)' <=> Waits(u, m, b)
  BY DEF lockVars, poolVars, Waits
<1>2. th' \in [Threads -> Thread] /\ \A u \in Threads \ {t} : th'[u] = th[u]
  BY Before
<1>3. KeepsTo(t)
  BY <1>1, <1>2 DEF KeepsTo, LoadMutexKept
<1>4. TypeOK'
  BY <1>1, <1>2 DEF Inv, TypeOK, Thread, LoadMutexKept
<1>5. \A m \in Models : LockFits(m)'
  BY <1>1 DEF Inv, LockFits
<1>6. QED
  BY <1>1, <1>3, <1>4, <1>5, ThreadStep DEF poolVars

\* The claims of a handler that goes on with what it has.
LEMMA ClaimsStay ==
  ASSUME Inv, NEW t \in Threads, UNCHANGED lockVars,
         th'[t].op = th[t].op, th'[t].model = th[t].model, th'[t].victim = th[t].victim,
         Pledged(t)' = Pledged(t),
         \/ th'[t].at = "waiting" \/ th[t].at # "waiting"
         \/ t \in running[th[t].model] \/ t \in managing[th[t].model]
  PROVE  ClaimsFit(t)'
<1>1. \A m \in Models : /\ t \in running'[m] <=> t \in running[m]
                        /\ t \in managing'[m] <=> t \in managing[m]
                        /\ \A b \in BOOLEAN : Waits(t, m, b)' <=> Waits(t, m, b)
  BY DEF lockVars, Waits
<1>2. ShapeFits(t) /\ RetireFits(t) /\ ClaimsFit(t)
  BY Before
<1>3. \A m \in Models : Has(t, m)' <=> m \in Pledged(t)'
  BY <1>1, <1>2 DEF Has, ClaimsFit
<1>4. ASSUME NEW m \in Models, NEW b \in BOOLEAN, Waits(t, m, b), th[t].op # "bulk"
      PROVE  th'[t].at = "waiting"
  <2>1. th[t].at = "waiting" /\ t \notin running[m] \cup managing[m] /\ m \in Pledged(t)
    BY <1>2, <1>4 DEF ClaimsFit, Has
  <2>2. m = th[t].model
    BY <1>2, <1>4, <2>1 DEF ShapeFits, RetireFits, Pledged
  <2>3. QED
    BY <2>1, <2>2
<1>5. QED
  BY <1>1, <1>2, <1>3, <1>4 DEF ClaimsFit

\* A handler that answers for nothing has no claims.
LEMMA ClaimsNone ==
  ASSUME Inv, NEW t \in Threads, UNCHANGED lockVars, Pledged(t) = {}, Pledged(t)' = {}
  PROVE  ClaimsFit(t)'
<1>1. \A m \in Models : ~Has(t, m) /\ (Has(t, m)' <=> Has(t, m))
  BY Before DEF ClaimsFit, lockVars, Waits, Has
<1>2. QED
  BY <1>1 DEF ClaimsFit, Has

-----------------------------------------------------------------------------
(* Steps that change the record of one thread, and a mutex at most *)

\* Neither loading, probing, running a request nor tearing a model down.
Calm(at) == at \notin {"cold", "evict", "retire", "running", "probe"}

\* A calm thread has no mutex of a model and not model_load_mutex_.
LEMMA CalmProps ==
  ASSUME Inv, NEW t \in Threads, Calm(th[t].at)
  PROVE  loadMutex # t /\ (\A m \in Models : initMutex[m] # t) /\ th[t].victim = Nobody
  BY Before DEF Calm, MutexFits, RetireFits, Loads, Evicting

\* What a calm thread without mutexes relies on is little.
LEMMA CalmFits ==
  ASSUME NEW t \in Threads, Calm(th'[t].at), th'[t].victim = Nobody,
         loadMutex' # t, \A m \in Models : initMutex'[m] # t
  PROVE  RetireFits(t)' /\ MutexFits(t)' /\ SessionFits(t)' /\ RoomFits(t)'
<1>1. RetireFits(t)'
  BY DEF Calm, RetireFits
<1>2. MutexFits(t)'
  BY DEF Calm, MutexFits, Loads, Evicting
<1>3. SessionFits(t)'
  BY DEF Calm, SessionFits, Loads, Destroys
<1>4. RoomFits(t)'
  BY DEF Calm, RoomFits, Evicting
<1>5. QED
  BY <1>1, <1>2, <1>3, <1>4

\* A calm thread goes on and stays calm.
LEMMA CalmStep ==
  ASSUME Inv, NEW t \in Threads, NEW r \in Thread, th' = [th EXCEPT ![t] = r],
         UNCHANGED <<registered, lockVars, poolVars, initMutex, loadMutex>>,
         bulkMutex' \in Owners,
         Calm(th[t].at), Calm(r.at), r.victim = Nobody,
         ShapeFits(t)', ListFits(t)', ClaimsFit(t)'
  PROVE  Inv'
<1>1. th'[t] = r
  BY Before
<1>2. /\ UNCHANGED <<registered, lockVars, poolVars, initMutex>>
      /\ UNCHANGED initMutex /\ UNCHANGED loadMutex
  OBVIOUS
<1>3. LoadMutexKept(t)
  BY <1>2, LoadMutexProps
<1>4. loadMutex' # t /\ \A m \in Models : initMutex'[m] # t
  BY <1>2, CalmProps
<1>5. RetireFits(t)' /\ MutexFits(t)' /\ SessionFits(t)' /\ RoomFits(t)'
  BY <1>1, <1>4, CalmFits
<1>6. Fits(t)'
  BY <1>5 DEF Fits
<1>7. th[t].at # "retire"
  BY DEF Calm
<1>8. QED
  BY <1>2, <1>3, <1>6, <1>7, QuietStep

\* A load request that changes nothing goes on to make sure the model is loaded.
LEMMA KeepConfigInv ==
  ASSUME Inv, NEW t \in Threads, KeepConfig(t)
  PROVE  Inv'
<1>. DEFINE r == [th[t] EXCEPT !.at = "init"]
<1>1. /\ th[t].at = "waiting" /\ th[t].op = "load" /\ t \in managing[th[t].model]
      /\ th' = [th EXCEPT ![t] = r] /\ th[t] \in Thread
      /\ UNCHANGED <<registered, lockVars, poolVars, initMutex, loadMutex>>
      /\ bulkMutex' \in Owners
  BY Before DEF KeepConfig, Reconfigures, Manages, mutexVars, Inv, TypeOK
<1>2. /\ r \in Thread /\ r.op = th[t].op /\ r.at = "init" /\ r.model = th[t].model
      /\ r.todo = th[t].todo /\ r.later = th[t].later /\ r.victim = th[t].victim
  BY <1>1 DEF Thread, Phases
<1>. HIDE DEF r
<1>3. th'[t] = r
  BY <1>1, Before
<1>4. Calm(th[t].at) /\ Calm(r.at) /\ r.victim = Nobody
  BY <1>1, <1>2, CalmProps DEF Calm
<1>5. ShapeFits(t)' /\ ListFits(t)'
  BY <1>1, <1>2, <1>3, Before DEF ShapeFits, ListFits
<1>6. ClaimsFit(t)'
  <2>1. Pledged(t)' = Pledged(t)
    BY <1>1, <1>2, <1>3 DEF Pledged
  <2>2. UNCHANGED lockVars
    BY <1>1
  <2>3. QED
    BY <1>1, <1>2, <1>3, <2>1, <2>2, ClaimsStay
<1>7. QED
  BY <1>1, <1>2, <1>4, <1>5, <1>6, CalmStep

\* A replacement whose slots are not known to fit is going to be probed.
LEMMA NeedsProbeInv ==
  ASSUME Inv, NEW t \in Threads, NEW n \in Capacities, NeedsProbe(t, n)
  PROVE  Inv'
<1>. DEFINE r == [th[t] EXCEPT !.at = "validate", !.want = n]
<1>1. /\ th[t].at = "waiting" /\ th[t].op = "load" /\ t \in managing[th[t].model]
      /\ th' = [th EXCEPT ![t] = r] /\ th[t] \in Thread
      /\ UNCHANGED <<registered, lockVars, poolVars, initMutex, loadMutex>>
      /\ bulkMutex' \in Owners
  BY Before DEF NeedsProbe, Reconfigures, Manages, mutexVars, Inv, TypeOK
<1>2. /\ r \in Thread /\ r.op = th[t].op /\ r.at = "validate" /\ r.model = th[t].model
      /\ r.todo = th[t].todo /\ r.later = th[t].later /\ r.victim = th[t].victim
      /\ r.want = n
  BY <1>1 DEF Thread, Phases
<1>. HIDE DEF r
<1>3. th'[t] = r
  BY <1>1, Before
<1>4. Calm(th[t].at) /\ Calm(r.at) /\ r.victim = Nobody
  BY <1>1, <1>2, CalmProps DEF Calm
<1>5. ShapeFits(t)' /\ ListFits(t)'
  BY <1>1, <1>2, <1>3, Before DEF ShapeFits, ListFits
<1>6. ClaimsFit(t)'
  <2>1. Pledged(t)' = Pledged(t)
    BY <1>1, <1>2, <1>3 DEF Pledged
  <2>2. UNCHANGED lockVars
    BY <1>1
  <2>3. QED
    BY <1>1, <1>2, <1>3, <2>1, <2>2, ClaimsStay
<1>7. QED
  BY <1>1, <1>2, <1>4, <1>5, <1>6, CalmStep

\* All reservations of a bulk unload are queued; the mutex is released.
LEMMA PublishEndsInv ==
  ASSUME Inv, NEW t \in Threads, PublishEnds(t)
  PROVE  Inv'
<1>. DEFINE r == [th[t] EXCEPT !.at = "ready", !.todo = th[t].later, !.later = <<>>]
<1>1. /\ th[t].at = "publish" /\ th[t].todo = <<>> /\ th[t].op = "bulk"
      /\ th' = [th EXCEPT ![t] = r] /\ th[t] \in Thread
      /\ UNCHANGED <<registered, lockVars, poolVars, initMutex, loadMutex>>
      /\ bulkMutex' \in Owners
  BY Before DEF PublishEnds, ShapeFits, Thread, Owners
<1>2. /\ r \in Thread /\ r.op = th[t].op /\ r.at = "ready" /\ r.model = th[t].model
      /\ r.todo = th[t].later /\ r.later = <<>> /\ r.victim = th[t].victim
  BY <1>1, EmptyProps DEF Thread, Phases
<1>. HIDE DEF r
<1>3. th'[t] = r
  BY <1>1, Before
<1>4. Calm(th[t].at) /\ Calm(r.at) /\ r.victim = Nobody
  BY <1>1, <1>2, CalmProps DEF Calm
<1>5. ShapeFits(t)' /\ ListFits(t)'
  BY <1>1, <1>2, <1>3, Before, EmptyProps DEF ShapeFits, ListFits
<1>6. ClaimsFit(t)'
  <2>1. Pledged(t)' = Pledged(t)
    BY <1>1, <1>2, <1>3, EmptyProps DEF Pledged
  <2>2. UNCHANGED lockVars
    BY <1>1
  <2>3. QED
    BY <1>1, <1>2, <1>3, <2>1, <2>2, ClaimsStay
<1>7. QED
  BY <1>1, <1>2, <1>4, <1>5, <1>6, CalmStep

\* The second pass of a bulk unload begins with what the first one left.
LEMMA ReadyPassEndsInv ==
  ASSUME Inv, NEW t \in Threads, ReadyPassEnds(t)
  PROVE  Inv'
<1>. DEFINE r == [th[t] EXCEPT !.at = "drain", !.todo = th[t].later, !.later = <<>>]
<1>1. /\ th[t].at = "ready" /\ th[t].todo = <<>> /\ th[t].op = "bulk"
      /\ th' = [th EXCEPT ![t] = r] /\ th[t] \in Thread
      /\ UNCHANGED <<registered, lockVars, poolVars, initMutex, loadMutex>>
      /\ bulkMutex' \in Owners
  BY Before DEF ReadyPassEnds, ShapeFits, Thread, mutexVars, Inv, TypeOK
<1>2. /\ r \in Thread /\ r.op = th[t].op /\ r.at = "drain" /\ r.model = th[t].model
      /\ r.todo = th[t].later /\ r.later = <<>> /\ r.victim = th[t].victim
  BY <1>1, EmptyProps DEF Thread, Phases
<1>. HIDE DEF r
<1>3. th'[t] = r
  BY <1>1, Before
<1>4. Calm(th[t].at) /\ Calm(r.at) /\ r.victim = Nobody
  BY <1>1, <1>2, CalmProps DEF Calm
<1>5. ShapeFits(t)' /\ ListFits(t)'
  BY <1>1, <1>2, <1>3, Before, EmptyProps DEF ShapeFits, ListFits
<1>6. ClaimsFit(t)'
  <2>1. Pledged(t)' = Pledged(t)
    BY <1>1, <1>2, <1>3, EmptyProps DEF Pledged
  <2>2. UNCHANGED lockVars
    BY <1>1
  <2>3. QED
    BY <1>1, <1>2, <1>3, <2>1, <2>2, ClaimsStay
<1>7. QED
  BY <1>1, <1>2, <1>4, <1>5, <1>6, CalmStep

\* A loop that has visited all its models returns.
LEMMA LoopEndsInv ==
  ASSUME Inv, NEW t \in Threads, LoopEnds(t)
  PROVE  Inv'
<1>1. /\ th[t].at \in {"drain", "sweep"} /\ th[t].todo = <<>>
      /\ th[t].op \in {"bulk", "sweep"} /\ th' = [th EXCEPT ![t] = Outside]
      /\ UNCHANGED <<registered, lockVars, poolVars, initMutex, loadMutex>>
      /\ bulkMutex' \in Owners
  BY Before DEF LoopEnds, ShapeFits, Thread, mutexVars, Inv, TypeOK
<1>2. th'[t] = Outside
  BY <1>1, Before
<1>3. Calm(th[t].at) /\ Calm(Outside.at) /\ th[t].victim = Nobody
  BY <1>1, CalmProps, OutsideProps DEF Calm
<1>4. ShapeFits(t)' /\ ListFits(t)'
  BY <1>2, OutsideProps, EmptyProps DEF ShapeFits, ListFits
<1>5. ClaimsFit(t)'
  <2>1. Pledged(t) = {} /\ Pledged(t)' = {}
    BY <1>1, <1>2, <1>3, Before, OutsideProps, EmptyProps DEF Pledged, ListFits, ShapeFits
  <2>2. UNCHANGED lockVars
    BY <1>1
  <2>3. QED
    BY <2>1, <2>2, ClaimsNone
<1>6. QED
  BY <1>1, <1>3, <1>4, <1>5, OutsideProps, CalmStep

\* A bulk unload takes the selected models in the order of the request.
LEMMA StartBulkInv ==
  ASSUME Inv, NEW t \in Callers, NEW selection \in Selections(registered),
         StartBulk(t, selection)
  PROVE  Inv'
<1>. DEFINE r == [Outside EXCEPT !.op = "bulk", !.at = "publish", !.todo = selection]
<1>1. /\ selection \in Seq(Models) /\ Distinct(selection)
      /\ Elements(selection) \subseteq registered
  <2>1. PICK T \in SUBSET registered : selection \in SetToSeqs(T)
    BY DEF Selections
  <2>2. T \subseteq Models /\ IsFiniteSet(T)
    BY ModelsAreFinite DEF Inv, TypeOK
  <2>3. selection \in Seq(T) /\ Distinct(selection) /\ Elements(selection) \subseteq T
    BY <2>1, <2>2, OrderProps
  <2>4. QED
    BY <2>2, <2>3
<1>2. /\ th[t] = Outside /\ th' = [th EXCEPT ![t] = r] /\ t \in Threads
      /\ UNCHANGED <<registered, lockVars, poolVars, initMutex, loadMutex>>
      /\ bulkMutex' \in Owners
  BY DEF StartBulk, Owners, Threads
<1>3. /\ r \in Thread /\ r.op = "bulk" /\ r.at = "publish" /\ r.model = Nobody
      /\ r.todo = selection /\ r.later = <<>> /\ r.victim = Nobody
  BY <1>1, OutsideProps DEF Thread, Phases
<1>. HIDE DEF r
<1>4. th'[t] = r
  BY <1>2, Before
<1>5. Calm(th[t].at) /\ Calm(r.at)
  BY <1>2, <1>3, OutsideProps DEF Calm
<1>6. ShapeFits(t)' /\ ListFits(t)'
  <2>1. Nobody \notin Models /\ registered \subseteq Models /\ registered' = registered
    BY <1>2, Before
  <2>2. QED
    BY <1>1, <1>3, <1>4, <2>1, EmptyProps DEF ShapeFits, ListFits
<1>7. ClaimsFit(t)'
  <2>1. Pledged(t) = {} /\ Pledged(t)' = {}
    BY <1>2, <1>3, <1>4, OutsideProps, EmptyProps DEF Pledged
  <2>2. UNCHANGED lockVars
    BY <1>2
  <2>3. QED
    BY <1>2, <2>1, <2>2, ClaimsNone
<1>8. QED
  BY <1>2, <1>3, <1>5, <1>6, <1>7, CalmStep

\* The idle thread visits whatever is resident.
LEMMA StartSweepInv ==
  ASSUME Inv, NEW t \in Idlers, StartSweep(t)
  PROVE  Inv'
<1>1. PICK order \in Seq(Models) :
        /\ Distinct(order) /\ Elements(order) \subseteq registered
        /\ th' = [th EXCEPT ![t] =
             [Outside EXCEPT !.op = "sweep", !.at = "sweep", !.todo = order]]
  <2>. DEFINE T == {m \in registered : resident[m]}
  <2>1. IsFiniteSet(T) /\ T \subseteq Models /\ T \subseteq registered
    BY ModelsAreFinite DEF Inv, TypeOK
  <2>2. PICK order \in SetToSeqs(T) :
          th' = [th EXCEPT ![t] =
            [Outside EXCEPT !.op = "sweep", !.at = "sweep", !.todo = order]]
    BY DEF StartSweep
  <2>. HIDE DEF T
  <2>3. order \in Seq(T) /\ Distinct(order) /\ Elements(order) \subseteq T
    BY <2>1, <2>2, OrderProps
  <2>4. order \in Seq(Models) /\ Elements(order) \subseteq registered
    BY <2>1, <2>3
  <2>5. QED
    BY <2>2, <2>3, <2>4
<1>. DEFINE r == [Outside EXCEPT !.op = "sweep", !.at = "sweep", !.todo = order]
<1>2. /\ th[t] = Outside /\ th' = [th EXCEPT ![t] = r] /\ t \in Threads
      /\ UNCHANGED <<registered, lockVars, poolVars, initMutex, loadMutex>>
      /\ bulkMutex' \in Owners
  BY <1>1 DEF StartSweep, Threads, mutexVars, Inv, TypeOK
<1>3. /\ r \in Thread /\ r.op = "sweep" /\ r.at = "sweep" /\ r.model = Nobody
      /\ r.todo = order /\ r.later = <<>> /\ r.victim = Nobody
  BY OutsideProps DEF Thread, Phases
<1>. HIDE DEF r
<1>4. th'[t] = r
  BY <1>2, Before
<1>5. Calm(th[t].at) /\ Calm(r.at)
  BY <1>2, <1>3, OutsideProps DEF Calm
<1>6. ShapeFits(t)' /\ ListFits(t)'
  <2>1. registered' = registered
    BY <1>2
  <2>2. QED
    BY <1>1, <1>3, <1>4, <2>1, EmptyProps DEF ShapeFits, ListFits
<1>7. ClaimsFit(t)'
  <2>1. Pledged(t) = {} /\ Pledged(t)' = {}
    BY <1>2, <1>3, <1>4, OutsideProps DEF Pledged
  <2>2. UNCHANGED lockVars
    BY <1>2
  <2>3. QED
    BY <1>2, <2>1, <2>2, ClaimsNone
<1>8. QED
  BY <1>2, <1>3, <1>5, <1>6, <1>7, CalmStep

\* The first pass of a bulk unload leaves a model that is not granted yet to the
\* second.
LEMMA ReadySkipInv ==
  ASSUME Inv, NEW t \in Threads, th[t].at = "ready", th[t].todo # <<>>,
         th' = [th EXCEPT ![t].todo = Tail(@), ![t].later = Append(@, Head(th[t].todo))],
         UNCHANGED <<registered, lockVars, poolVars, mutexVars>>
  PROVE  Inv'
<1>. DEFINE v == Head(th[t].todo)
            rest == Tail(th[t].todo)
            kept == Append(th[t].later, v)
            r == [th[t] EXCEPT !.todo = rest, !.later = kept]
<1>1. /\ v \in Models /\ rest \in Seq(Models)
      /\ Elements(th[t].todo) = Elements(rest) \cup {v}
      /\ Distinct(rest) /\ v \notin Elements(rest)
  BY Before, TailProps DEF Thread, ListFits
<1>2. /\ kept \in Seq(Models) /\ Elements(kept) = Elements(th[t].later) \cup {v}
      /\ Distinct(kept)
  <2>1. th[t].later \in Seq(Models) /\ Distinct(th[t].later) /\ v \notin Elements(th[t].later)
    BY <1>1, Before DEF Thread, ListFits
  <2>2. QED
    BY <1>1, <2>1, AppendProps
<1>3. /\ th' = [th EXCEPT ![t] = r] /\ th[t] \in Thread /\ th[t].op = "bulk"
      /\ UNCHANGED <<registered, lockVars, poolVars, initMutex, loadMutex>>
      /\ bulkMutex' \in Owners
  BY Before, SMTT(30) DEF ShapeFits, Thread, mutexVars, Inv, TypeOK
<1>. HIDE DEF v, rest, kept
<1>4. /\ r \in Thread /\ r.op = th[t].op /\ r.at = th[t].at /\ r.model = th[t].model
      /\ r.todo = rest /\ r.later = kept /\ r.victim = th[t].victim
  BY <1>1, <1>2, <1>3 DEF Thread
<1>. HIDE DEF r
<1>5. th'[t] = r
  BY <1>3, Before
<1>6. Calm(th[t].at) /\ Calm(r.at) /\ r.victim = Nobody
  BY <1>4, CalmProps DEF Calm
<1>7. ShapeFits(t)'
  BY <1>3, <1>4, <1>5, Before DEF ShapeFits
<1>8. ListFits(t)'
  <2>1. ListFits(t) /\ registered' = registered
    BY <1>3, Before
  <2>2. QED
    BY <1>1, <1>2, <1>3, <1>4, <1>5, <2>1 DEF ListFits
<1>9. ClaimsFit(t)'
  <2>1. Pledged(t)' = Pledged(t)
    BY <1>1, <1>2, <1>3, <1>4, <1>5 DEF Pledged
  <2>2. UNCHANGED lockVars
    BY <1>3
  <2>3. QED
    BY <1>4, <1>5, <2>1, <2>2, ClaimsStay
<1>10. QED
  BY <1>3, <1>4, <1>6, <1>7, <1>8, <1>9, CalmStep

\* A probe begins under model_load_mutex_.
LEMMA StartProbeInv ==
  ASSUME Inv, NEW t \in Threads, StartProbe(t)
  PROVE  Inv'
<1>. DEFINE r == [th[t] EXCEPT !.at = "probe"]
<1>1. /\ th[t].at = "validate" /\ th' = [th EXCEPT ![t] = r] /\ th[t] \in Thread
      /\ TakeLoadMutex(t) /\ UNCHANGED <<registered, lockVars, poolVars, initMutex>>
      /\ bulkMutex' \in Owners
  BY Before DEF StartProbe, Inv, TypeOK
<1>2. UNCHANGED lockVars /\ UNCHANGED initMutex /\ UNCHANGED registered
  BY <1>1
<1>3. /\ r \in Thread /\ r.op = th[t].op /\ r.at = "probe" /\ r.model = th[t].model
      /\ r.todo = th[t].todo /\ r.later = th[t].later /\ r.victim = th[t].victim
      /\ r.want = th[t].want
  BY <1>1 DEF Thread, Phases
<1>. HIDE DEF r
<1>4. th'[t] = r /\ th[t].victim = Nobody /\ \A m \in Models : initMutex[m] # t
  BY <1>1, Before, CalmProps DEF Calm
<1>5. LoadMutexKept(t) /\ (loadMutex' = t <=> Limit > 0)
  BY <1>1, LoadMutexProps
<1>6. ShapeFits(t)' /\ RetireFits(t)' /\ ListFits(t)'
  <2>1. ShapeFits(t) /\ ListFits(t)
    BY Before
  <2>2. ShapeFits(t)'
    BY <1>1, <1>2, <1>3, <1>4, <2>1 DEF ShapeFits
  <2>3. RetireFits(t)'
    BY <1>3, <1>4 DEF RetireFits
  <2>4. ListFits(t)'
    BY <1>1, <1>2, <1>3, <1>4, <2>1 DEF ListFits
  <2>5. QED
    BY <2>2, <2>3, <2>4
<1>7. ClaimsFit(t)'
  <2>1. Pledged(t)' = Pledged(t)
    BY <1>1, <1>3, <1>4 DEF Pledged
  <2>2. QED
    BY <1>1, <1>2, <1>3, <1>4, <2>1, ClaimsStay
<1>8. MutexFits(t)' /\ SessionFits(t)' /\ RoomFits(t)'
  <2>1. MutexFits(t)'
    BY <1>2, <1>3, <1>4, <1>5 DEF MutexFits, Loads, Evicting
  <2>2. SessionFits(t)' /\ RoomFits(t)'
    BY <1>3, <1>4 DEF SessionFits, RoomFits, Loads, Destroys, Evicting
  <2>3. QED
    BY <2>1, <2>2
<1>9. QED
  BY <1>1, <1>3, <1>5, <1>6, <1>7, <1>8, QuietStep DEF Fits

\* A loop over try_acquire skips a model in use.
LEMMA SkipInv ==
  ASSUME Inv, NEW t \in Threads, th[t].at \in {"evict", "sweep"}, th[t].todo # <<>>,
         th' = [th EXCEPT ![t].todo = Tail(@)],
         UNCHANGED <<registered, lockVars, poolVars, mutexVars>>
  PROVE  Inv'
<1>. DEFINE rest == Tail(th[t].todo)
            r == [th[t] EXCEPT !.todo = rest]
<1>1. rest \in Seq(Models) /\ Elements(rest) \subseteq Elements(th[t].todo) /\ Distinct(rest)
  BY Before, TailProps DEF Thread, ListFits
<1>2. /\ th' = [th EXCEPT ![t] = r] /\ th[t] \in Thread
      /\ UNCHANGED <<registered, lockVars, poolVars, initMutex>>
      /\ UNCHANGED loadMutex /\ bulkMutex' \in Owners
  BY Before DEF mutexVars, Inv, TypeOK
<1>3. UNCHANGED <<registered, pool, resident, initMutex, loadMutex>> /\ UNCHANGED lockVars
  BY <1>2 DEF poolVars
<1>. HIDE DEF rest
<1>4. /\ r \in Thread /\ r.op = th[t].op /\ r.at = th[t].at /\ r.model = th[t].model
      /\ r.todo = rest /\ r.later = th[t].later /\ r.victim = th[t].victim
      /\ r.need = th[t].need /\ r.want = th[t].want
  BY <1>1, <1>2 DEF Thread
<1>. HIDE DEF r
<1>5. th'[t] = r
  BY <1>2, Before
<1>6. /\ ShapeFits(t) /\ RetireFits(t) /\ ListFits(t) /\ MutexFits(t) /\ SessionFits(t)
      /\ RoomFits(t) /\ th[t].op # "bulk"
  BY Before DEF ShapeFits
<1>7. ShapeFits(t)' /\ RetireFits(t)' /\ ListFits(t)'
  <2>1. ShapeFits(t)'
    BY <1>3, <1>4, <1>5, <1>6 DEF ShapeFits
  <2>2. RetireFits(t)'
    BY <1>4, <1>5, <1>6 DEF RetireFits
  <2>3. ListFits(t)'
    BY <1>1, <1>3, <1>4, <1>5, <1>6 DEF ListFits
  <2>4. QED
    BY <2>1, <2>2, <2>3
<1>8. ClaimsFit(t)'
  <2>1. Pledged(t)' = Pledged(t)
    BY <1>4, <1>5, <1>6 DEF Pledged
  <2>2. QED
    BY <1>3, <1>4, <1>5, <2>1, ClaimsStay
<1>9. MutexFits(t)' /\ SessionFits(t)' /\ RoomFits(t)'
  <2>1. \A m \in Models : Loads(t, m)' <=> Loads(t, m)
    BY <1>4, <1>5 DEF Loads
  <2>2. MutexFits(t)'
    BY <1>3, <1>4, <1>5, <1>6, <2>1 DEF MutexFits, Evicting
  <2>3. SessionFits(t)'
    BY <1>3, <1>4, <1>5, <1>6, <2>1 DEF SessionFits, Destroys
  <2>4. RoomFits(t)'
    BY <1>1, <1>3, <1>4, <1>5, <1>6 DEF RoomFits, Evicting, Residents
  <2>5. QED
    BY <2>2, <2>3, <2>4
<1>10. th[t].at # "retire" /\ LoadMutexKept(t)
  BY <1>2, LoadMutexProps
<1>11. QED
  BY <1>2, <1>4, <1>7, <1>8, <1>9, <1>10, QuietStep DEF Fits

\* A load decides how many of the others have to go.
LEMMA StartLoadInv ==
  ASSUME Inv, NEW t \in Threads, StartLoad(t)
  PROVE  Inv'
<1>. DEFINE T == {k \in registered : resident[k] /\ k # th[t].model}
<1>1. IsFiniteSet(T) /\ Cardinality(T) \in Nat /\ T \subseteq Models /\ T \subseteq registered
  BY ModelsAreFinite DEF Inv, TypeOK
<1>2. Excess(T) \in Nat /\ (Limit > 0 => Cardinality(T) <= Limit - 1 + Excess(T))
  BY <1>1, ResidencyAssumption DEF Excess
<1>. HIDE DEF T
<1>3. PICK order \in Seq(Models) :
        /\ Distinct(order) /\ Elements(order) \subseteq T
        /\ th' = [th EXCEPT ![t] =
             [th[t] EXCEPT !.at = "evict", !.todo = order, !.need = Excess(T)]]
  <2>1. PICK order \in IF Excess(T) = 0 THEN {<<>>} ELSE SetToSeqs(T) :
          th' = [th EXCEPT ![t].at = "evict", ![t].todo = order, ![t].need = Excess(T)]
    BY DEF StartLoad, T
  <2>2. order \in Seq(T) /\ Distinct(order) /\ Elements(order) \subseteq T
    <3>1. CASE Excess(T) = 0
      BY <2>1, <3>1, EmptyProps
    <3>2. CASE Excess(T) # 0
      BY <1>1, <2>1, <3>2, OrderProps
    <3>3. QED
      BY <3>1, <3>2
  <2>3. order \in Seq(Models)
    BY <1>1, <2>2
  <2>4. th' = [th EXCEPT ![t] =
          [th[t] EXCEPT !.at = "evict", !.todo = order, !.need = Excess(T)]]
    BY <2>1, Before
  <2>5. QED
    BY <2>2, <2>3, <2>4
<1>. DEFINE r == [th[t] EXCEPT !.at = "evict", !.todo = order, !.need = Excess(T)]
<1>4. /\ th[t].at = "cold" /\ th' = [th EXCEPT ![t] = r] /\ th[t] \in Thread
      /\ TakeLoadMutex(t) /\ UNCHANGED <<registered, lockVars, poolVars, initMutex>>
      /\ bulkMutex' \in Owners
  BY <1>3, Before DEF StartLoad, Inv, TypeOK
<1>5. UNCHANGED <<registered, pool, resident, initMutex>> /\ UNCHANGED lockVars
  BY <1>4 DEF poolVars
<1>6. /\ r \in Thread /\ r.op = th[t].op /\ r.at = "evict" /\ r.model = th[t].model
      /\ r.todo = order /\ r.later = th[t].later /\ r.victim = th[t].victim
      /\ r.need = Excess(T)
  BY <1>2, <1>4 DEF Thread, Phases
<1>. HIDE DEF r
<1>7. th'[t] = r
  BY <1>4, Before
<1>8. /\ ShapeFits(t) /\ RetireFits(t) /\ ListFits(t) /\ MutexFits(t) /\ SessionFits(t)
      /\ th[t].op \in {"request", "load"}
  BY <1>4, Before DEF ShapeFits, Thread
<1>9. LoadMutexKept(t) /\ (loadMutex' = t <=> Limit > 0)
  BY <1>4, LoadMutexProps
<1>10. ShapeFits(t)' /\ RetireFits(t)' /\ ListFits(t)'
  <2>1. ShapeFits(t)'
    BY <1>5, <1>6, <1>7, <1>8 DEF ShapeFits
  <2>2. RetireFits(t)'
    BY <1>4, <1>6, <1>7, <1>8 DEF RetireFits
  <2>3. ListFits(t)'
    BY <1>1, <1>3, <1>4, <1>5, <1>6, <1>7, <1>8, EmptyProps DEF ListFits
  <2>4. QED
    BY <2>1, <2>2, <2>3
<1>11. ClaimsFit(t)'
  <2>1. Pledged(t)' = Pledged(t)
    BY <1>6, <1>7, <1>8 DEF Pledged
  <2>2. QED
    BY <1>4, <1>5, <1>6, <1>7, <2>1, ClaimsStay
<1>12. MutexFits(t)' /\ SessionFits(t)'
  <2>1. \A m \in Models : Loads(t, m)' <=> Loads(t, m)
    BY <1>4, <1>6, <1>7 DEF Loads
  <2>2. MutexFits(t)'
    BY <1>5, <1>6, <1>7, <1>8, <1>9, <2>1 DEF MutexFits, Evicting
  <2>3. SessionFits(t)'
    BY <1>5, <1>6, <1>7, <1>8, <2>1 DEF SessionFits, Destroys
  <2>4. QED
    BY <2>2, <2>3
<1>13. RoomFits(t)'
  <2>1. Loads(t, th[t].model) /\ th[t].model \in Models
    BY <1>4, <1>8, Before DEF Loads, ShapeFits
  <2>2. ~resident[th[t].model]
    BY <1>8, <2>1 DEF SessionFits, Inv, PoolFits
  <2>3. Residents \subseteq T
    BY <2>2 DEF Residents, T, Inv, PoolFits
  <2>4. QED
    BY <1>1, <1>2, <1>3, <1>5, <1>6, <1>7, <2>3 DEF RoomFits, Residents
<1>14. QED
  BY <1>4, <1>6, <1>9, <1>10, <1>11, <1>12, <1>13, QuietStep DEF Fits

\* A request whose model is loaded runs.
LEMMA WarmRequestInv ==
  ASSUME Inv, NEW t \in Threads, Initializes(t), th[t].op = "request", pool[th[t].model] # 0,
         th' = [th EXCEPT ![t] = Begin("request", "running", th[t].model)],
         UNCHANGED <<registered, lockVars, poolVars, mutexVars>>
  PROVE  Inv'
<1>1. PICK m \in registered : m = th[t].model
  BY Before DEF ShapeFits
<1>2. /\ th[t].at \in {"waiting", "init"} /\ m \in Models /\ Nobody \notin Models
      /\ t \in running[m]
  BY <1>1, Before, Owned DEF Initializes
<1>3. Calm(th[t].at) /\ th[t].victim = Nobody
  BY <1>2, CalmProps DEF Calm
<1>. DEFINE r == Begin("request", "running", m)
<1>4. /\ r \in Thread /\ r.op = "request" /\ r.at = "running" /\ r.model = m
      /\ r.todo = <<>> /\ r.later = <<>> /\ r.victim = Nobody
  BY <1>2, OutsideProps DEF Begin, Thread, Phases
<1>5. th' = [th EXCEPT ![t] = r]
  BY <1>1
<1>. HIDE DEF r
<1>6. th'[t] = r
  BY <1>5, Before
<1>7. /\ UNCHANGED <<registered, lockVars, poolVars, initMutex>>
      /\ UNCHANGED loadMutex /\ bulkMutex' \in Owners
  BY DEF mutexVars, Inv, TypeOK
<1>8. UNCHANGED <<registered, pool, resident, initMutex, loadMutex>> /\ UNCHANGED lockVars
  BY <1>7 DEF poolVars
<1>9. resident[m]
  <2>1. ASSUME NEW u \in Threads, Destroys(u, m) PROVE FALSE
    <3>1. u \in managing[m]
      BY <1>2, <2>1, Owned DEF Destroys
    <3>2. QED
      BY <1>2, <3>1, ManagesAlone
  <2>2. QED
    BY <1>1, <1>2, <2>1 DEF Inv, PoolFits
<1>10. ShapeFits(t)' /\ RetireFits(t)' /\ ListFits(t)'
  <2>1. t \in Callers
    BY Before DEF ShapeFits
  <2>2. ShapeFits(t)' /\ RetireFits(t)'
    BY <1>1, <1>4, <1>6, <1>8, <2>1 DEF ShapeFits, RetireFits
  <2>3. ListFits(t)'
    BY <1>4, <1>6, EmptyProps DEF ListFits
  <2>4. QED
    BY <2>2, <2>3
<1>11. ClaimsFit(t)'
  <2>1. Pledged(t)' = Pledged(t)
    BY <1>1, <1>3, <1>4, <1>6 DEF Pledged
  <2>2. QED
    BY <1>1, <1>2, <1>3, <1>4, <1>6, <1>8, <2>1, ClaimsStay
<1>12. MutexFits(t)' /\ SessionFits(t)' /\ RoomFits(t)'
  <2>1. loadMutex' # t /\ \A k \in Models : initMutex'[k] # t
    BY <1>3, <1>8, CalmProps
  <2>2. MutexFits(t)'
    BY <1>4, <1>6, <2>1 DEF MutexFits, Loads, Evicting
  <2>3. SessionFits(t)' /\ RoomFits(t)'
    BY <1>4, <1>6, <1>8, <1>9 DEF SessionFits, RoomFits, Loads, Destroys, Evicting
  <2>4. QED
    BY <2>2, <2>3
<1>13. th[t].at # "retire" /\ LoadMutexKept(t)
  BY <1>2, <1>7, LoadMutexProps
<1>14. QED
  BY <1>4, <1>5, <1>7, <1>10, <1>11, <1>12, <1>13, QuietStep DEF Fits

-----------------------------------------------------------------------------
(* Lemmas about steps that enter or leave a line or a lock *)

\* A step leaves the places and leases of the others alone.
ClaimsKept(t) ==
  \A u \in Threads \ {t}, m \in Models :
    /\ u \in running'[m] <=> u \in running[m]
    /\ u \in managing'[m] <=> u \in managing[m]
    /\ \A b \in BOOLEAN : Waits(u, m, b)' <=> Waits(u, m, b)

\* A step that changes the record of one thread and its claims.
LEMMA LockStep ==
  ASSUME Inv, NEW t \in Threads, NEW r \in Thread, th' = [th EXCEPT ![t] = r],
         registered \subseteq registered', registered' \subseteq Models,
         UNCHANGED <<capacity, poolVars, bulkMutex>>, th[t].at # "retire",
         line' \in [Models -> Seq([caller : Callers, management : BOOLEAN])],
         running' \in [Models -> SUBSET Callers], managing' \in [Models -> SUBSET Threads],
         initMutex' \in [Models -> Owners], LoadMutexKept(t), ClaimsKept(t),
         \A u \in Threads \ {t}, m \in Models : initMutex'[m] = u <=> initMutex[m] = u,
         \A m \in Models : LockFits(m)', Fits(t)'
  PROVE  Inv'
<1>1. th' \in [Threads -> Thread] /\ \A u \in Threads \ {t} : th'[u] = th[u]
  BY Before
<1>2. KeepsTo(t)
  BY <1>1 DEF KeepsTo, LoadMutexKept, ClaimsKept
<1>3. TypeOK'
  BY <1>1 DEF Inv, TypeOK, Thread, LoadMutexKept, poolVars
<1>4. QED
  BY <1>2, <1>3, ThreadStep DEF poolVars

\* The same for a thread that is calm before and after: no mutex changes hands.
LEMMA CalmLockStep ==
  ASSUME Inv, NEW t \in Threads, NEW r \in Thread, th' = [th EXCEPT ![t] = r],
         registered \subseteq registered', registered' \subseteq Models,
         UNCHANGED <<capacity, poolVars, mutexVars>>,
         Calm(th[t].at), Calm(r.at), r.victim = Nobody,
         line' \in [Models -> Seq([caller : Callers, management : BOOLEAN])],
         running' \in [Models -> SUBSET Callers], managing' \in [Models -> SUBSET Threads],
         ClaimsKept(t), \A m \in Models : LockFits(m)',
         ShapeFits(t)', ListFits(t)', ClaimsFit(t)'
  PROVE  Inv'
<1>1. /\ UNCHANGED <<initMutex, loadMutex, bulkMutex>>
      /\ UNCHANGED <<capacity, poolVars, bulkMutex>>
  BY DEF mutexVars
<1>2. initMutex' \in [Models -> Owners] /\ LoadMutexKept(t)
  BY <1>1, LoadMutexProps DEF Inv, TypeOK
<1>3. th'[t] = r
  BY Before
<1>4. loadMutex' # t /\ \A m \in Models : initMutex'[m] # t
  BY <1>1, CalmProps
<1>5. RetireFits(t)' /\ MutexFits(t)' /\ SessionFits(t)' /\ RoomFits(t)'
  BY <1>3, <1>4, CalmFits
<1>6. Fits(t)' /\ th[t].at # "retire"
  BY <1>5 DEF Fits, Calm
<1>7. QED
  BY <1>1, <1>2, <1>6, LockStep

\* A handler begins by waiting in line.
LEMMA LineUpInv ==
  ASSUME Inv, NEW t \in Callers, NEW m \in registered, NEW b \in BOOLEAN,
         NEW op \in {"request", "unload", "load"}, (b <=> op # "request"),
         th[t] = Outside, LineUp(t, m, b), th' = [th EXCEPT ![t] = Begin(op, "waiting", m)],
         UNCHANGED <<registered, capacity, running, managing, poolVars, mutexVars>>
  PROVE  Inv'
<1>1. /\ t \in Threads /\ m \in Models /\ registered \subseteq Models /\ Nobody \notin Models
      /\ ClaimsFit(t)
  BY Before DEF Threads
<1>. DEFINE r == Begin(op, "waiting", m)
<1>2. /\ r \in Thread /\ r.op = op /\ r.at = "waiting" /\ r.model = m
      /\ r.todo = <<>> /\ r.later = <<>> /\ r.victim = Nobody
  BY <1>1, OutsideProps DEF Begin, Thread, Phases
<1>3. th' = [th EXCEPT ![t] = r]
  OBVIOUS
<1>. HIDE DEF r
<1>4. th'[t] = r
  BY <1>1, <1>3, Before
<1>5. \A k \in Models : ~Has(t, k)
  BY <1>1, OutsideProps DEF ClaimsFit, Pledged
<1>6. Joins(t, m, b) /\ \A k \in Models : LockFits(k)'
  <2>1. ~Has(t, m) /\ UNCHANGED <<registered, running, managing>>
    BY <1>1, <1>5
  <2>2. QED
    BY <2>1, LineUpProps, Zenon
<1>7. /\ running' \in [Models -> SUBSET Callers] /\ managing' \in [Models -> SUBSET Threads]
      /\ line' \in [Models -> Seq([caller : Callers, management : BOOLEAN])]
      /\ UNCHANGED <<running, managing>>
  BY <1>6 DEF Inv, TypeOK, Joins
<1>8. ClaimsKept(t)
  BY <1>6, <1>7 DEF ClaimsKept, Joins
<1>9. Calm(th[t].at) /\ Calm(r.at)
  BY <1>2, OutsideProps DEF Calm
<1>10. ShapeFits(t)' /\ ListFits(t)'
  BY <1>1, <1>2, <1>4, EmptyProps DEF ShapeFits, ListFits
<1>11. ClaimsFit(t)'
  <2>1. Pledged(t)' = {m}
    BY <1>2, <1>4 DEF Pledged
  <2>2. /\ \A k \in Models : t \notin running'[k] /\ t \notin managing'[k]
        /\ \A k \in Models, c \in BOOLEAN : Waits(t, k, c)' <=> k = m /\ c = b
    BY <1>1, <1>5, <1>6, <1>7 DEF Has, Joins
  <2>3. \A k \in Models : Has(t, k)' <=> k = m
    BY <2>2 DEF Has
  <2>4. QED
    BY <1>1, <1>2, <1>4, <2>1, <2>2, <2>3 DEF ClaimsFit
<1>12. UNCHANGED <<capacity, poolVars, mutexVars>> /\ registered' = registered
  OBVIOUS
<1>13. QED
  BY <1>1, <1>2, <1>3, <1>6, <1>7, <1>8, <1>9, <1>10, <1>11, <1>12, CalmLockStep

\* A handler whose wait has timed out returns without its place.
LEMMA GiveUpInv ==
  ASSUME Inv, NEW t \in Threads, GiveUp(t)
  PROVE  Inv'
<1>1. /\ ShapeFits(t) /\ ClaimsFit(t) /\ registered \subseteq Models
      /\ th[t].at = "waiting" /\ th[t].op \in {"request", "unload", "load"}
  BY Before DEF GiveUp, ShapeFits, Thread
<1>2. PICK m \in Models : m = th[t].model
  BY <1>1 DEF ShapeFits
<1>3. /\ th' = [th EXCEPT ![t] = Outside]
      /\ UNCHANGED <<registered, capacity, running, managing, poolVars, mutexVars>>
  BY DEF GiveUp
<1>4. th'[t] = Outside
  BY <1>3, Before
<1>5. Calm(th[t].at) /\ Calm(Outside.at) /\ th[t].victim = Nobody
  BY <1>1, CalmProps, OutsideProps DEF Calm
<1>6. PICK b \in BOOLEAN : Quits(t, m, b) /\ \A k \in Models : LockFits(k)'
  <2>1. PICK i \in DOMAIN line[m] :
          line[m][i].caller = t /\ line' = [line EXCEPT ![m] = RemoveAt(@, i)]
    BY <1>2 DEF GiveUp
  <2>2. UNCHANGED <<registered, running, managing>>
    BY <1>3
  <2>3. QED
    BY <2>1, <2>2, GiveUpProps
<1>7. /\ running' \in [Models -> SUBSET Callers] /\ managing' \in [Models -> SUBSET Threads]
      /\ line' \in [Models -> Seq([caller : Callers, management : BOOLEAN])]
      /\ UNCHANGED <<running, managing>> /\ registered' = registered
  BY <1>3, <1>6 DEF Inv, TypeOK, Quits
<1>8. ClaimsKept(t)
  BY <1>6, <1>7 DEF ClaimsKept, Quits
<1>9. ShapeFits(t)' /\ ListFits(t)'
  BY <1>4, OutsideProps, EmptyProps DEF ShapeFits, ListFits
<1>10. ClaimsFit(t)'
  <2>1. Pledged(t) = {m} /\ Pledged(t)' = {}
    BY <1>1, <1>2, <1>4, <1>5, OutsideProps DEF Pledged
  <2>2. /\ Waits(t, m, b)
        /\ \A k \in Models, c \in BOOLEAN :
             Waits(t, k, c)' <=> Waits(t, k, c) /\ ~(k = m /\ c = b)
    BY <1>6 DEF Quits
  <2>3. /\ t \notin running[m] \cup managing[m]
        /\ \A c \in BOOLEAN : Waits(t, m, c) => (c <=> b)
    BY <1>1, <2>2 DEF ClaimsFit
  <2>4. ASSUME NEW c \in BOOLEAN PROVE ~Waits(t, m, c)'
    <3>1. Waits(t, m, c)' <=> Waits(t, m, c) /\ ~(m = m /\ c = b)
      BY <2>2, Zenon
    <3>2. Waits(t, m, c) => (c <=> b)
      BY <2>3
    <3>3. QED
      BY <3>1, <3>2
  <2>5. ASSUME NEW k \in Models, k # m PROVE ~Has(t, k)'
    <3>1. ~Has(t, k)
      BY <1>1, <2>1, <2>5 DEF ClaimsFit
    <3>2. QED
      BY <1>7, <2>2, <3>1 DEF Has
  <2>6. ~Has(t, m)'
    BY <1>7, <2>3, <2>4 DEF Has
  <2>7. QED
    BY <2>1, <2>5, <2>6 DEF ClaimsFit, Has
<1>11. UNCHANGED <<capacity, poolVars, mutexVars>> /\ registered' \subseteq Models
  BY <1>1, <1>3
<1>12. QED
  BY <1>3, <1>5, <1>6, <1>7, <1>8, <1>9, <1>10, <1>11, OutsideProps, CalmLockStep

\* A request finds a slot and nobody waiting.
LEMMA AdmitNowInv ==
  ASSUME Inv, NEW t \in Callers, NEW m \in registered, th[t] = Outside, RoomForRequest(m),
         running' = [running EXCEPT ![m] = @ \cup {t}],
         th' = [th EXCEPT ![t] = Begin("request", "init", m)],
         UNCHANGED <<registered, capacity, line, managing, poolVars, mutexVars>>
  PROVE  Inv'
<1>1. /\ t \in Threads /\ m \in Models /\ registered \subseteq Models /\ Nobody \notin Models
      /\ ClaimsFit(t)
  BY Before DEF Threads
<1>. DEFINE r == Begin("request", "init", m)
<1>2. /\ r \in Thread /\ r.op = "request" /\ r.at = "init" /\ r.model = m
      /\ r.todo = <<>> /\ r.later = <<>> /\ r.victim = Nobody
  BY <1>1, OutsideProps DEF Begin, Thread, Phases
<1>3. th' = [th EXCEPT ![t] = r]
  OBVIOUS
<1>. HIDE DEF r
<1>4. th'[t] = r
  BY <1>1, <1>3, Before
<1>5. /\ running' \in [Models -> SUBSET Callers] /\ running'[m] = running[m] \cup {t}
      /\ \A k \in Models \ {m} : running'[k] = running[k]
      /\ line' \in [Models -> Seq([caller : Callers, management : BOOLEAN])]
      /\ managing' \in [Models -> SUBSET Threads]
      /\ UNCHANGED <<registered, line, managing>>
  BY <1>1 DEF Inv, TypeOK
<1>6. \A u \in Threads, k \in Models, c \in BOOLEAN : Waits(u, k, c)' <=> Waits(u, k, c)
  BY <1>5 DEF Waits
<1>7. ClaimsKept(t)
  BY <1>5, <1>6 DEF ClaimsKept
<1>8. ASSUME NEW k \in Models PROVE LockFits(k)'
  <2>1. LockFits(k) /\ managing[m] = {}
    BY DEF Inv, RoomForRequest
  <2>2. QED
    BY <1>5, <2>1 DEF LockFits
<1>9. Calm(th[t].at) /\ Calm(r.at)
  BY <1>2, OutsideProps DEF Calm
<1>10. ShapeFits(t)' /\ ListFits(t)'
  BY <1>2, <1>4, <1>5, EmptyProps DEF ShapeFits, ListFits
<1>11. ClaimsFit(t)'
  <2>1. \A k \in Models : ~Has(t, k)
    BY <1>1, OutsideProps DEF ClaimsFit, Pledged
  <2>2. Pledged(t)' = {m}
    BY <1>2, <1>4 DEF Pledged
  <2>3. /\ \A k \in Models : (t \in running'[k] <=> k = m) /\ t \notin managing'[k]
        /\ \A k \in Models, c \in BOOLEAN : ~Waits(t, k, c)'
    BY <1>1, <1>5, <1>6, <2>1 DEF Has
  <2>4. QED
    BY <1>2, <1>4, <2>2, <2>3 DEF ClaimsFit, Has
<1>12. UNCHANGED <<capacity, poolVars, mutexVars>>
  OBVIOUS
<1>13. QED
  BY <1>1, <1>2, <1>3, <1>5, <1>7, <1>8, <1>9, <1>10, <1>11, <1>12, CalmLockStep

\* A new id is registered with its lease taken.
LEMMA RegisterInv ==
  ASSUME Inv, NEW t \in Callers, NEW m \in Models, Register(t, m)
  PROVE  Inv'
<1>1. t \in Threads /\ registered \subseteq Models /\ Nobody \notin Models /\ ClaimsFit(t)
  BY Before DEF Threads
<1>. DEFINE r == Begin("load", "init", m)
<1>2. /\ r \in Thread /\ r.op = "load" /\ r.at = "init" /\ r.model = m
      /\ r.todo = <<>> /\ r.later = <<>> /\ r.victim = Nobody
  BY <1>1, OutsideProps DEF Begin, Thread, Phases
<1>3. /\ th[t] = Outside /\ th' = [th EXCEPT ![t] = r] /\ m \notin registered
      /\ registered' = registered \cup {m} /\ managing' = [managing EXCEPT ![m] = {t}]
      /\ UNCHANGED <<line, running>> /\ UNCHANGED <<capacity, poolVars, mutexVars>>
  BY DEF Register
<1>. HIDE DEF r
<1>4. th'[t] = r
  BY <1>1, <1>3, Before
<1>5. /\ managing' \in [Models -> SUBSET Threads]
      /\ \A u \in Threads, k \in Models :
           u \in managing'[k] <=> u \in managing[k] \/ (u = t /\ k = m)
      /\ \A k \in Models : LockFits(k)'
  <2>1. managing[m] = {} /\ running[m] = {}
    BY <1>3 DEF Inv, LockFits
  <2>2. m \in registered' /\ registered \subseteq registered' /\ registered' \subseteq Models
    BY <1>1, <1>3
  <2>3. QED
    BY <1>1, <1>3, <2>1, <2>2, TakeProps
<1>6. /\ running' \in [Models -> SUBSET Callers]
      /\ line' \in [Models -> Seq([caller : Callers, management : BOOLEAN])]
      /\ \A u \in Threads, k \in Models, c \in BOOLEAN : Waits(u, k, c)' <=> Waits(u, k, c)
  BY <1>3 DEF Inv, TypeOK, Waits
<1>7. ClaimsKept(t)
  BY <1>3, <1>5, <1>6 DEF ClaimsKept
<1>8. Calm(th[t].at) /\ Calm(r.at)
  BY <1>2, <1>3, OutsideProps DEF Calm
<1>9. ShapeFits(t)' /\ ListFits(t)'
  BY <1>2, <1>3, <1>4, EmptyProps DEF ShapeFits, ListFits
<1>10. ClaimsFit(t)'
  <2>1. \A k \in Models : ~Has(t, k)
    BY <1>1, <1>3, OutsideProps DEF ClaimsFit, Pledged
  <2>2. Pledged(t)' = {m}
    BY <1>2, <1>4 DEF Pledged
  <2>3. /\ \A k \in Models : (t \in managing'[k] <=> k = m) /\ t \notin running'[k]
        /\ \A k \in Models, c \in BOOLEAN : ~Waits(t, k, c)'
    BY <1>1, <1>3, <1>5, <1>6, <2>1 DEF Has
  <2>4. QED
    BY <1>2, <1>4, <2>2, <2>3 DEF ClaimsFit, Has
<1>11. registered \subseteq registered' /\ registered' \subseteq Models
  BY <1>1, <1>3
<1>12. QED
  BY <1>1, <1>2, <1>3, <1>5, <1>6, <1>7, <1>8, <1>9, <1>10, <1>11, CalmLockStep

\* A bulk unload queues its next reservation.
LEMMA PublishInv ==
  ASSUME Inv, NEW t \in Threads, Publish(t)
  PROVE  Inv'
<1>. DEFINE v == Head(th[t].todo)
            rest == Tail(th[t].todo)
            kept == Append(th[t].later, v)
            r == [th[t] EXCEPT !.todo = rest, !.later = kept]
<1>1. /\ th[t].at = "publish" /\ th[t].todo # <<>> /\ LineUp(t, v, TRUE)
      /\ th' = [th EXCEPT ![t] = r]
      /\ UNCHANGED <<registered, running, managing>>
      /\ UNCHANGED <<capacity, poolVars, mutexVars>>
  BY Before DEF Publish
<1>2. /\ ShapeFits(t) /\ ListFits(t) /\ ClaimsFit(t) /\ th[t] \in Thread
      /\ registered \subseteq Models /\ Nobody \notin Models
  BY Before
<1>3. /\ v \in Models /\ rest \in Seq(Models)
      /\ Elements(th[t].todo) = Elements(rest) \cup {v}
      /\ Distinct(rest) /\ v \notin Elements(rest)
  BY <1>1, <1>2, TailProps DEF Thread, ListFits
<1>4. /\ kept \in Seq(Models) /\ Elements(kept) = Elements(th[t].later) \cup {v}
      /\ Distinct(kept) /\ v \notin Elements(th[t].later)
  <2>1. th[t].later \in Seq(Models) /\ Distinct(th[t].later) /\ v \notin Elements(th[t].later)
    BY <1>2, <1>3 DEF Thread, ListFits
  <2>2. QED
    BY <1>3, <2>1, AppendProps
<1>. HIDE DEF v, rest, kept
<1>5. /\ r \in Thread /\ r.op = th[t].op /\ r.at = th[t].at /\ r.model = th[t].model
      /\ r.todo = rest /\ r.later = kept /\ r.victim = th[t].victim
  BY <1>2, <1>3, <1>4 DEF Thread
<1>. HIDE DEF r
<1>6. th'[t] = r
  BY <1>1, Before
<1>7. Calm(th[t].at) /\ Calm(r.at) /\ th[t].victim = Nobody
  BY <1>1, <1>5, CalmProps DEF Calm
<1>8. th[t].op = "bulk" /\ t \in Callers /\ v \in registered
  BY <1>1, <1>2, <1>3 DEF ShapeFits, ListFits, Thread
<1>9. ~Has(t, v)
  <2>1. v \notin Pledged(t)
    BY <1>1, <1>2, <1>3, <1>4, <1>7, <1>8 DEF Pledged
  <2>2. QED
    BY <1>2, <1>3, <2>1 DEF ClaimsFit
<1>10. Joins(t, v, TRUE) /\ \A k \in Models : LockFits(k)'
  BY <1>1, <1>8, <1>9, LineUpProps
<1>11. /\ running' \in [Models -> SUBSET Callers] /\ managing' \in [Models -> SUBSET Threads]
       /\ line' \in [Models -> Seq([caller : Callers, management : BOOLEAN])]
  BY <1>1, <1>10 DEF Inv, TypeOK, Joins
<1>12. ClaimsKept(t)
  BY <1>1, <1>10 DEF ClaimsKept, Joins
<1>13. ShapeFits(t)' /\ ListFits(t)'
  <2>1. ShapeFits(t)'
    BY <1>1, <1>2, <1>5, <1>6 DEF ShapeFits
  <2>2. /\ th'[t].todo = rest /\ th'[t].later = kept /\ th'[t].op = "bulk"
        /\ th'[t].at = "publish" /\ th'[t].victim = Nobody
        /\ registered' = registered /\ v # Nobody
    BY <1>1, <1>2, <1>3, <1>5, <1>6, <1>7, <1>8
  <2>3. /\ Elements(rest) \cup Elements(kept) \subseteq registered'
        /\ Elements(rest) \cap Elements(kept) = {}
    BY <1>2, <1>3, <1>4, <2>2 DEF ListFits
  <2>4. ListFits(t)'
    <3>1. /\ th[t].victim = Nobody
          /\ Nobody \notin Elements(th[t].todo) \cup Elements(th[t].later)
      BY <1>2, <1>7 DEF ListFits
    <3>2. Nobody \notin Elements(rest) \cup Elements(kept)
      BY <1>3, <1>4, <2>2, <3>1
    <3>3. QED
      BY <1>3, <1>4, <2>2, <2>3, <3>2 DEF ListFits
  <2>5. QED
    BY <2>1, <2>4
<1>14. ClaimsFit(t)'
  <2>1. \A k \in Models : k \in Pledged(t)' <=> k \in Pledged(t) \/ k = v
    BY <1>1, <1>4, <1>5, <1>6, <1>8 DEF Pledged
  <2>2. \A k \in Models, c \in BOOLEAN :
          Waits(t, k, c)' <=> Waits(t, k, c) \/ (k = v /\ c = TRUE)
    BY <1>10 DEF Joins
  <2>3. ASSUME NEW k \in Models PROVE Has(t, k)' <=> Has(t, k) \/ k = v
    <3>1. (\E c \in BOOLEAN : Waits(t, k, c)') <=> (\E c \in BOOLEAN : Waits(t, k, c)) \/ k = v
      BY <2>2, Zenon
    <3>2. QED
      BY <1>1, <3>1 DEF Has
  <2>4. \A k \in Models : Has(t, k)' <=> k \in Pledged(t)'
    BY <1>2, <2>1, <2>3 DEF ClaimsFit
  <2>5. ASSUME NEW k \in Models, NEW c \in BOOLEAN, Waits(t, k, c)'
        PROVE  c /\ t \notin running[k] \cup managing[k]
    <3>1. CASE Waits(t, k, c)
      BY <1>2, <1>8, <3>1 DEF ClaimsFit
    <3>2. CASE ~Waits(t, k, c)
      BY <1>9, <2>2, <2>5, <3>2 DEF Has
    <3>3. QED
      BY <3>1, <3>2
  <2>6. \A k \in Models : t \notin running[k] /\ k # Nobody
    BY <1>2, <1>8 DEF ClaimsFit
  <2>7. th'[t].op = "bulk" /\ th'[t].victim = Nobody
    BY <1>5, <1>6, <1>7, <1>8
  <2>8. QED
    BY <1>1, <2>4, <2>5, <2>6, <2>7 DEF ClaimsFit
<1>15. registered \subseteq registered' /\ registered' \subseteq Models
  BY <1>1, <1>2
<1>16. QED
  BY <1>1, <1>5, <1>7, <1>10, <1>11, <1>12, <1>13, <1>14, <1>15, CalmLockStep

\* A handler returns, and its lease with it.
LEMMA LeaveInv ==
  ASSUME Inv, NEW t \in Threads, th[t].op \in {"request", "load"}, th[t].at # "retire",
         Leave(t, th[t].model), t \in running[th[t].model] \cup managing[th[t].model],
         th' = [th EXCEPT ![t] = Outside],
         UNCHANGED <<registered, capacity, line, poolVars, bulkMutex>>,
         initMutex' \in [Models -> Owners], \A m \in Models : initMutex'[m] # t,
         \A u \in Threads \ {t}, m \in Models : initMutex'[m] = u <=> initMutex[m] = u,
         LoadMutexKept(t), loadMutex' # t
  PROVE  Inv'
<1>1. /\ ShapeFits(t) /\ RetireFits(t) /\ ClaimsFit(t) /\ registered \subseteq Models
  BY Before
<1>2. PICK m \in Models : m = th[t].model
  BY <1>1 DEF ShapeFits
<1>3. th[t].victim = Nobody
  BY <1>1 DEF RetireFits
<1>4. th'[t] = Outside
  BY Before
<1>5. UNCHANGED <<registered, line>> /\ UNCHANGED <<capacity, poolVars, bulkMutex>>
  OBVIOUS
<1>6. /\ running' \in [Models -> SUBSET Callers] /\ managing' \in [Models -> SUBSET Threads]
      /\ \A u \in Threads, k \in Models :
           /\ u \in running'[k] <=> u \in running[k] /\ ~(u = t /\ k = m)
           /\ u \in managing'[k] <=> u \in managing[k] /\ ~(u = t /\ k = m)
      /\ \A k \in Models : LockFits(k)'
  <2>1. Leave(t, m)
    BY <1>2
  <2>2. QED
    BY <1>5, <2>1, LeaveProps
<1>7. /\ \A u \in Threads, k \in Models, b \in BOOLEAN : Waits(u, k, b)' <=> Waits(u, k, b)
      /\ line' \in [Models -> Seq([caller : Callers, management : BOOLEAN])]
  BY <1>5 DEF Waits, Inv, TypeOK
<1>8. ClaimsKept(t)
  BY <1>6, <1>7 DEF ClaimsKept
<1>9. ShapeFits(t)' /\ ListFits(t)'
  BY <1>4, OutsideProps, EmptyProps DEF ShapeFits, ListFits
<1>10. ClaimsFit(t)'
  <2>1. Pledged(t) = {m} /\ Pledged(t)' = {}
    BY <1>2, <1>3, <1>4, OutsideProps DEF Pledged
  <2>2. \A k \in Models, b \in BOOLEAN : ~Waits(t, k, b)
    BY <1>1, <1>2, <2>1 DEF ClaimsFit, Has
  <2>3. \A k \in Models : ~Has(t, k)'
    BY <1>1, <1>6, <1>7, <2>1, <2>2 DEF Has, ClaimsFit
  <2>4. QED
    BY <2>1, <2>3 DEF ClaimsFit, Has
<1>11. RetireFits(t)' /\ MutexFits(t)' /\ SessionFits(t)' /\ RoomFits(t)'
  BY <1>4, OutsideProps, CalmFits DEF Calm
<1>12. Fits(t)' /\ Outside \in Thread
  BY <1>9, <1>10, <1>11, OutsideProps DEF Fits
<1>13. registered \subseteq registered' /\ registered' \subseteq Models
  BY <1>1, <1>5
<1>14. QED
  BY <1>5, <1>6, <1>7, <1>8, <1>12, <1>13, LockStep

\* A handler that finds no sessions begins to load them.
LEMMA ColdInv ==
  ASSUME Inv, NEW t \in Threads, Initializes(t), initMutex[th[t].model] = Nobody,
         pool[th[t].model] = 0, initMutex' = [initMutex EXCEPT ![th[t].model] = t],
         th' = [th EXCEPT ![t].at = "cold"],
         UNCHANGED <<registered, lockVars, poolVars, loadMutex, bulkMutex>>
  PROVE  Inv'
<1>1. /\ ShapeFits(t) /\ ListFits(t) /\ ClaimsFit(t) /\ th[t] \in Thread
      /\ registered \subseteq Models /\ Nobody \notin Threads
      /\ th[t].at \in {"waiting", "init"} /\ th[t].op \in {"request", "load"}
  BY Before DEF Initializes, ShapeFits, Thread
<1>2. PICK m \in Models : m = th[t].model
  BY <1>1 DEF ShapeFits
<1>3. t \in running[m] \cup managing[m]
  BY <1>1, <1>2, Owned DEF Initializes
<1>4. Calm(th[t].at) /\ th[t].victim = Nobody
  BY <1>1, CalmProps DEF Calm
<1>. DEFINE r == [th[t] EXCEPT !.at = "cold"]
<1>5. /\ r \in Thread /\ r.op = th[t].op /\ r.at = "cold" /\ r.model = m
      /\ r.todo = th[t].todo /\ r.later = th[t].later /\ r.victim = Nobody
  BY <1>1, <1>2, <1>4 DEF Thread, Phases
<1>6. th' = [th EXCEPT ![t] = r]
  BY <1>1
<1>. HIDE DEF r
<1>7. th'[t] = r
  BY <1>6, Before
<1>8. /\ UNCHANGED <<registered, line, running, managing, pool, resident, loadMutex>>
      /\ UNCHANGED <<capacity, poolVars, bulkMutex>>
  BY DEF poolVars, lockVars
<1>9. /\ LoadMutexKept(t) /\ \A k \in Models : LockFits(k)'
      /\ line' \in [Models -> Seq([caller : Callers, management : BOOLEAN])]
      /\ running' \in [Models -> SUBSET Callers] /\ managing' \in [Models -> SUBSET Threads]
  <2>1. LoadMutexKept(t)
    BY <1>8, LoadMutexProps
  <2>2. QED
    BY <1>8, <2>1 DEF Inv, TypeOK, LockFits
<1>10. ClaimsKept(t)
  BY <1>8 DEF ClaimsKept, Waits
<1>11. /\ initMutex' \in [Models -> Owners]
       /\ \A k \in Models : initMutex'[k] = t <=> k = m
       /\ \A u \in Threads \ {t}, k \in Models : initMutex'[k] = u <=> initMutex[k] = u
  <2>1. initMutex \in [Models -> Owners] /\ initMutex[m] = Nobody /\ t \in Owners
    BY <1>2 DEF Inv, TypeOK, Owners
  <2>2. /\ initMutex' \in [Models -> Owners] /\ initMutex'[m] = t
        /\ \A k \in Models : k # m => initMutex'[k] = initMutex[k]
    BY <1>2, <2>1
  <2>3. \A k \in Models : initMutex[k] # t
    BY <1>4, CalmProps
  <2>4. QED
    BY <1>1, <2>1, <2>2, <2>3
<1>12. ShapeFits(t)' /\ RetireFits(t)' /\ ListFits(t)'
  <2>1. ShapeFits(t)'
    BY <1>1, <1>2, <1>5, <1>7, <1>8 DEF ShapeFits
  <2>2. RetireFits(t)'
    BY <1>5, <1>7 DEF RetireFits
  <2>3. ListFits(t)'
    BY <1>1, <1>4, <1>5, <1>7, <1>8 DEF ListFits
  <2>4. QED
    BY <2>1, <2>2, <2>3
<1>13. ClaimsFit(t)'
  <2>1. Pledged(t)' = Pledged(t)
    BY <1>1, <1>2, <1>4, <1>5, <1>7 DEF Pledged
  <2>2. UNCHANGED lockVars
    OBVIOUS
  <2>3. QED
    BY <1>2, <1>3, <1>4, <1>5, <1>7, <2>1, <2>2, ClaimsStay
<1>14. MutexFits(t)' /\ SessionFits(t)' /\ RoomFits(t)'
  <2>1. \A k \in Models : Loads(t, k)' <=> k = m
    BY <1>5, <1>7 DEF Loads
  <2>2. loadMutex' # t
    BY <1>4, <1>8, CalmProps
  <2>3. MutexFits(t)'
    BY <1>5, <1>7, <1>11, <2>1, <2>2 DEF MutexFits, Evicting
  <2>4. SessionFits(t)' /\ RoomFits(t)'
    BY <1>2, <1>5, <1>7, <1>8, <2>1 DEF SessionFits, RoomFits, Destroys, Evicting
  <2>5. QED
    BY <2>3, <2>4
<1>15. /\ Fits(t)' /\ th[t].at # "retire"
       /\ registered \subseteq registered' /\ registered' \subseteq Models
  BY <1>1, <1>8, <1>12, <1>13, <1>14 DEF Fits
<1>16. QED
  BY <1>5, <1>6, <1>8, <1>9, <1>10, <1>11, <1>15, LockStep
-----------------------------------------------------------------------------
(* Lemmas about unloading *)

\* A thread has the model v to tear it down: it manages v already, or has just
\* taken the lock that nobody wanted.
Takes(t, v) ==
  /\ managing' = [managing EXCEPT ![v] = {t}]
  /\ t \in managing[v] \/ CanTryAcquire(v)

\* It then has the lock alone, and the others what they had.
LEMMA TakesProps ==
  ASSUME Inv, NEW t \in Threads, NEW v \in registered, Takes(t, v),
         UNCHANGED <<registered, line, running>>
  PROVE  /\ v \in Models /\ running[v] = {} /\ ClaimsKept(t)
         /\ managing' \in [Models -> SUBSET Threads]
         /\ \A k \in Models : t \in managing'[k] <=> t \in managing[k] \/ k = v
         /\ \A k \in Models, b \in BOOLEAN : Waits(t, k, b)' <=> Waits(t, k, b)
         /\ \A k \in Models : LockFits(k)'
         /\ t \in managing[v] \/ \A b \in BOOLEAN : ~Waits(t, v, b)
<1>1. v \in Models
  BY Before
<1>2. running[v] = {} /\ managing[v] \subseteq {t}
  <2>1. CASE t \in managing[v]
    BY <1>1, <2>1, ManagesAlone
  <2>2. CASE CanTryAcquire(v)
    BY <1>1, <2>2, FreeProps
  <2>3. QED
    BY <2>1, <2>2 DEF Takes
<1>3. /\ managing' \in [Models -> SUBSET Threads]
      /\ \A u \in Threads, k \in Models :
           u \in managing'[k] <=> u \in managing[k] \/ (u = t /\ k = v)
      /\ \A k \in Models : LockFits(k)'
  <2>1. /\ managing' = [managing EXCEPT ![v] = {t}] /\ UNCHANGED <<line, running>>
        /\ v \in registered' /\ registered \subseteq registered'
        /\ registered' \subseteq Models
    BY Before DEF Takes
  <2>2. QED
    BY <1>2, <2>1, TakeProps
<1>4. \A u \in Threads, k \in Models, b \in BOOLEAN : Waits(u, k, b)' <=> Waits(u, k, b)
  BY DEF Waits
<1>5. ClaimsKept(t)
  BY <1>3, <1>4 DEF ClaimsKept
<1>6. CanTryAcquire(v) => \A b \in BOOLEAN : ~Waits(t, v, b)
  BY <1>1, FreeProps DEF Has
<1>7. QED
  BY <1>1, <1>2, <1>3, <1>4, <1>5, <1>6 DEF Takes

\* Where unload continues: in the handler of th[t], as b says.
Resumes(t, v, b) ==
  /\ b.victim = Nobody /\ b.op = th[t].op /\ b.model = th[t].model
  /\ \/ b.op = "unload" /\ b.at = "outside" /\ v = b.model
     \/ b.op = "load" /\ b.at = "init" /\ v = b.model /\ b.want \in Capacities
     \/ b.op \in {"request", "load"} /\ b.at = "evict" /\ v # b.model
     \/ b.op = "bulk" /\ b.at \in {"ready", "drain"}
     \/ b.op = "sweep" /\ b.at = "sweep"
  /\ b.at = "evict" <=> th[t].at = "evict"
  /\ th[t].at \notin {"retire", "cold", "outside"}
  /\ th[t].at = "waiting" => v = th[t].model

\* The first half of an unload: logical residency ends.
LEMMA RetireInv ==
  ASSUME Inv, NEW t \in Threads, NEW v \in registered, NEW b \in Thread,
         Retire(t, v, b), Takes(t, v), Resumes(t, v, b),
         UNCHANGED <<capacity, line, running>>, LoadMutexKept(t),
         loadMutex' = t <=> Limit > 0 /\ b.at = "evict",
         \A k \in Models : k \in Pledged(t)' <=> k \in Pledged(t) \/ k = v,
         ListFits(t)', RoomFits(t)'
  PROVE  Inv'
<1>. DEFINE r == [b EXCEPT !.at = "retire", !.victim = v, !.back = b.at]
<1>1. /\ th' = [th EXCEPT ![t] = r]
      /\ resident' = [resident EXCEPT ![v] = FALSE]
      /\ UNCHANGED <<registered, pool, initMutex, bulkMutex>>
  BY DEF Retire
<1>2. /\ v \in Models /\ running[v] = {} /\ ClaimsKept(t)
      /\ managing' \in [Models -> SUBSET Threads]
      /\ \A k \in Models : t \in managing'[k] <=> t \in managing[k] \/ k = v
      /\ \A k \in Models, c \in BOOLEAN : Waits(t, k, c)' <=> Waits(t, k, c)
      /\ \A k \in Models : LockFits(k)'
      /\ t \in managing[v] \/ \A c \in BOOLEAN : ~Waits(t, v, c)
  <2>1. UNCHANGED <<registered, line, running>>
    BY <1>1
  <2>2. QED
    BY <2>1, TakesProps
<1>3. /\ r \in Thread
      /\ r.op = th[t].op /\ r.at = "retire" /\ r.model = th[t].model /\ r.want = b.want
      /\ r.todo = b.todo /\ r.later = b.later /\ r.need = b.need /\ r.victim = v
      /\ r.back = b.at
  BY <1>2 DEF Thread, Phases, Resumes
<1>. HIDE DEF r
<1>4. th'[t] = r /\ \A u \in Threads \ {t} : th'[u] = th[u]
  BY <1>1, Before
<1>5. /\ ~resident'[v] /\ \A k \in Models \ {v} : resident'[k] = resident[k]
      /\ Residents' \subseteq Residents /\ resident' \in [Models -> BOOLEAN]
  BY <1>1, <1>2 DEF Inv, TypeOK, Residents
<1>6. \A u \in Threads \ {t} : Spares(u)
  <2>1. ASSUME NEW u \in Threads \ {t} PROVE Spares(u)
    <3>1. /\ th'[u] = th[u] /\ registered \subseteq registered'
          /\ (loadMutex' = u <=> loadMutex = u) /\ Residents' \subseteq Residents
      BY <1>1, <1>4, <1>5 DEF LoadMutexKept
    <3>2. \A m \in Models :
            /\ u \in running'[m] <=> u \in running[m]
            /\ u \in managing'[m] <=> u \in managing[m]
            /\ \A c \in BOOLEAN : Waits(u, m, c)' <=> Waits(u, m, c)
      BY <1>2 DEF ClaimsKept
    <3>3. \A m \in Models :
            /\ initMutex'[m] = u <=> initMutex[m] = u
            /\ u \in running[m] /\ resident[m] => resident'[m]
            /\ initMutex[m] = u /\ pool[m] = 0 => pool'[m] = 0
            /\ u \in managing[m] /\ ~resident[m] => ~resident'[m]
      BY <1>1, <1>2, <1>5
    <3>4. QED
      BY <3>1, <3>2, <3>3 DEF Spares
  <2>2. QED
    BY <2>1
<1>7. TypeOK'
  <2>1. th' \in [Threads -> Thread]
    BY <1>1, <1>3, Before
  <2>2. QED
    BY <1>1, <1>2, <1>5, <2>1 DEF Inv, TypeOK, LoadMutexKept, Thread
<1>8. ResidentLimit'
  <2>1. ASSUME Limit > 0 PROVE Cardinality(Residents') <= Limit
    <3>1. /\ IsFiniteSet(Residents) /\ Cardinality(Residents) \in Nat
          /\ Cardinality(Residents') \in Nat
      BY <1>5, ModelsAreFinite DEF Residents
    <3>2. Cardinality(Residents') <= Cardinality(Residents)
      BY <1>5, <3>1, FS_Subset
    <3>3. Cardinality(Residents) <= Limit
      BY <2>1 DEF Inv, ResidentLimit, Residents
    <3>4. QED
      BY <3>1, <3>2, <3>3, Before
  <2>2. QED
    BY <2>1 DEF ResidentLimit, Residents
<1>9. \A m \in Models : LockFits(m)' /\ PoolFits(m)'
  <2>1. ASSUME NEW m \in Models PROVE PoolFits(m)'
    <3>1. PoolFits(m)
      BY DEF Inv
    <3>2. CASE m = v
      <4>1. Destroys(t, m)'
        BY <1>3, <1>4, <3>2 DEF Destroys
      <4>2. QED
        BY <1>1, <1>5, <3>1, <3>2, <4>1 DEF PoolFits
    <3>3. CASE m # v
      <4>1. ASSUME NEW u \in Threads, Destroys(u, m) PROVE Destroys(u, m)'
        BY <1>4, <4>1 DEF Destroys, Resumes
      <4>2. QED
        BY <1>1, <1>5, <3>1, <3>3, <4>1 DEF PoolFits
    <3>4. QED
      BY <3>2, <3>3
  <2>2. QED
    BY <1>2, <2>1
<1>10. ShapeFits(t)' /\ RetireFits(t)'
  <2>1. ShapeFits(t)'
    BY <1>1, <1>3, <1>4, Before DEF ShapeFits, Resumes
  <2>2. RetireFits(t)'
    BY <1>2, <1>3, <1>4, Before DEF RetireFits, Resumes
  <2>3. QED
    BY <2>1, <2>2
<1>11. ClaimsFit(t)'
  <2>1. ClaimsFit(t) /\ RetireFits(t) /\ ShapeFits(t)
    BY Before
  <2>2. th[t].victim = Nobody
    BY <2>1 DEF RetireFits, Resumes
  <2>3. \A k \in Models : Has(t, k)' <=> k \in Pledged(t)'
    <3>1. \A k \in Models : Has(t, k)' <=> Has(t, k) \/ k = v
      BY <1>2 DEF Has
    <3>2. QED
      BY <2>1, <3>1 DEF ClaimsFit
  <2>4. ASSUME NEW k \in Models, NEW c \in BOOLEAN, Waits(t, k, c)'
        PROVE  /\ (c <=> th'[t].op # "request") /\ t \notin running'[k] \cup managing'[k]
               /\ th'[t].victim # k /\ th'[t].op = "bulk"
    <3>1. Waits(t, k, c)
      BY <1>2, <2>4
    <3>2. /\ (c <=> th[t].op # "request") /\ t \notin running[k] \cup managing[k]
          /\ th[t].op = "bulk" \/ th[t].at = "waiting"
      BY <2>1, <3>1 DEF ClaimsFit
    <3>3. k # v
      BY <1>2, <3>1, <3>2
    <3>4. th[t].at # "waiting"
      <4>1. SUFFICES ASSUME th[t].at = "waiting" PROVE FALSE
        OBVIOUS
      <4>2. k \in Pledged(t)
        BY <2>1, <3>1 DEF ClaimsFit, Has
      <4>3. k = th[t].model
        BY <2>1, <2>2, <4>1, <4>2 DEF ShapeFits, Pledged
      <4>4. QED
        BY <3>3, <4>1, <4>3 DEF Resumes
    <3>5. QED
      BY <1>2, <1>3, <1>4, <3>2, <3>3, <3>4
  <2>5. \A k \in Models : /\ t \in running'[k] => th'[t].op = "request" /\ th'[t].model = k
                          /\ t \in managing'[k] => th'[t].op # "request" \/ th'[t].victim = k
    BY <1>2, <1>3, <1>4, <2>1, <2>2, Before DEF ClaimsFit
  <2>6. QED
    BY <2>3, <2>4, <2>5 DEF ClaimsFit
<1>12. MutexFits(t)' /\ SessionFits(t)'
  <2>1. \A m \in Models : Loads(t, m)' <=> Loads(t, m)
    BY <1>3, <1>4 DEF Loads, Resumes
  <2>2. Evicting(t)' <=> b.at = "evict"
    BY <1>3, <1>4 DEF Evicting
  <2>3. MutexFits(t)'
    BY <1>1, <1>3, <1>4, <2>1, <2>2, Before DEF MutexFits
  <2>4. SessionFits(t)'
    BY <1>1, <1>3, <1>4, <1>5, <2>1, Before DEF SessionFits, Destroys
  <2>5. QED
    BY <2>3, <2>4
<1>13. QED
  BY <1>6, <1>7, <1>8, <1>9, <1>10, <1>11, <1>12, StepInv DEF Fits

\* A handler unloads the model it manages.
LEMMA RetireOwnInv ==
  ASSUME Inv, NEW t \in Threads, NEW b \in Thread,
         th[t].at \in {"waiting", "probe"}, t \in managing[th[t].model],
         b.op = th[t].op, b.model = th[t].model, b.victim = th[t].victim,
         b.todo = th[t].todo, b.later = th[t].later,
         \/ th[t].op = "unload" /\ b.at = "outside"
         \/ th[t].op = "load" /\ b.at = "init" /\ b.want \in Capacities,
         Retire(t, th[t].model, b), UNCHANGED lockVars, LoadMutexKept(t), loadMutex' # t
  PROVE  Inv'
<1>1. /\ ShapeFits(t) /\ RetireFits(t) /\ ListFits(t)
      /\ th[t].victim = Nobody /\ th[t].model \in registered /\ registered \subseteq Models
      /\ Nobody \notin Models
  BY Before DEF ShapeFits, RetireFits
<1>2. PICK v \in registered : v = th[t].model
  BY <1>1
<1>3. managing = [managing EXCEPT ![v] = {t}]
  BY <1>1, <1>2, ManagesAlone DEF Inv, TypeOK
<1>4. Takes(t, v) /\ UNCHANGED <<capacity, line, running>>
  BY <1>2, <1>3 DEF Takes, lockVars
<1>5. Resumes(t, v, b)
  BY <1>1, <1>2 DEF Resumes
<1>6. /\ th'[t] = [b EXCEPT !.at = "retire", !.victim = v, !.back = b.at]
      /\ registered' = registered
  BY <1>2, Before DEF Retire
<1>7. /\ th'[t].op = th[t].op /\ th'[t].at = "retire" /\ th'[t].model = th[t].model
      /\ th'[t].todo = th[t].todo /\ th'[t].later = th[t].later /\ th'[t].back = b.at
      /\ th'[t].victim = v
  BY <1>6 DEF Thread
<1>8. \A k \in Models : k \in Pledged(t)' <=> k \in Pledged(t) \/ k = v
  BY <1>1, <1>2, <1>7 DEF Pledged
<1>9. ListFits(t)'
  BY <1>1, <1>6, <1>7 DEF ListFits
<1>10. RoomFits(t)' /\ (loadMutex' = t <=> Limit > 0 /\ b.at = "evict")
  BY <1>7 DEF RoomFits, Evicting
<1>11. QED
  BY <1>2, <1>4, <1>5, <1>8, <1>9, <1>10, RetireInv

\* handle_model_unload unloads the model it was admitted to.
LEMMA UnloadInv ==
  ASSUME Inv, NEW t \in Threads, Unload(t)
  PROVE  Inv'
<1>. DEFINE b == [th[t] EXCEPT !.at = "outside"]
<1>1. /\ th[t].at = "waiting" /\ th[t].op = "unload" /\ t \in managing[th[t].model]
      /\ Retire(t, th[t].model, b) /\ UNCHANGED lockVars /\ UNCHANGED loadMutex
  BY DEF Unload, Manages
<1>2. /\ b \in Thread /\ b.op = th[t].op /\ b.model = th[t].model /\ b.victim = th[t].victim
      /\ b.todo = th[t].todo /\ b.later = th[t].later /\ b.at = "outside"
  <2>1. th[t] \in Thread
    BY Before
  <2>2. QED
    BY <2>1 DEF Thread, Phases
<1>. HIDE DEF b
<1>3. LoadMutexKept(t) /\ loadMutex' # t
  BY <1>1, Before, LoadMutexProps DEF MutexFits, Evicting
<1>4. QED
  BY <1>1, <1>2, <1>3, RetireOwnInv

\* A load request unloads the old configuration at once when the slots fit.
LEMMA ReplaceConfigInv ==
  ASSUME Inv, NEW t \in Threads, NEW n \in Capacities, ReplaceConfig(t, n)
  PROVE  Inv'
<1>. DEFINE b == [th[t] EXCEPT !.at = "init", !.want = n]
<1>1. /\ th[t].at = "waiting" /\ th[t].op = "load" /\ t \in managing[th[t].model]
      /\ Retire(t, th[t].model, b) /\ UNCHANGED lockVars /\ UNCHANGED loadMutex
  BY DEF ReplaceConfig, Reconfigures, Manages
<1>2. /\ b \in Thread /\ b.op = th[t].op /\ b.model = th[t].model /\ b.victim = th[t].victim
      /\ b.todo = th[t].todo /\ b.later = th[t].later /\ b.at = "init" /\ b.want \in Capacities
  <2>1. th[t] \in Thread
    BY Before
  <2>2. QED
    BY <2>1 DEF Thread, Phases
<1>. HIDE DEF b
<1>3. LoadMutexKept(t) /\ loadMutex' # t
  BY <1>1, Before, LoadMutexProps DEF MutexFits, Evicting
<1>4. QED
  BY <1>1, <1>2, <1>3, RetireOwnInv

\* A load request refuses slots that the sessions it has cannot serve.
LEMMA RefuseConfigInv ==
  ASSUME Inv, NEW t \in Threads, NEW n \in Capacities, RefuseConfig(t, n)
  PROVE  Inv'
<1>1. /\ th[t].at = "waiting" /\ th[t].op = "load" /\ t \in managing[th[t].model]
      /\ Leave(t, th[t].model) /\ th' = [th EXCEPT ![t] = Outside]
      /\ UNCHANGED <<registered, capacity, line, poolVars, bulkMutex>>
      /\ UNCHANGED <<initMutex, loadMutex>>
  BY DEF RefuseConfig, Reconfigures, Manages, mutexVars
<1>2. LoadMutexKept(t) /\ loadMutex' # t
  BY <1>1, Before, LoadMutexProps DEF MutexFits, Evicting
<1>3. /\ initMutex' \in [Models -> Owners] /\ \A m \in Models : initMutex'[m] # t
      /\ \A u \in Threads \ {t}, m \in Models : initMutex'[m] = u <=> initMutex[m] = u
  BY <1>1, Before DEF Inv, TypeOK, MutexFits, Loads
<1>4. QED
  BY <1>1, <1>2, <1>3, LeaveInv

\* A probe that succeeds unloads the old configuration; one that throws returns
\* the lease.
LEMMA ProbeEndsInv ==
  ASSUME Inv, NEW t \in Threads, ProbeEnds(t)
  PROVE  Inv'
<1>1. /\ th[t].at = "probe" /\ th[t].op = "load" /\ th[t].want \in Capacities
      /\ th[t].model \in Models /\ t \in managing[th[t].model]
      /\ th[t] \in Thread
  <2>1. th[t].at = "probe" /\ ShapeFits(t) /\ th[t] \in Thread
    BY Before DEF ProbeEnds
  <2>2. th[t].op = "load" /\ th[t].want \in Capacities
    BY <2>1 DEF ShapeFits, Thread
  <2>3. QED
    BY <2>1, <2>2, Owned
<1>2. LoadMutexKept(t) /\ loadMutex' # t
  BY LoadMutexProps DEF ProbeEnds
<1>3. CASE Retire(t, th[t].model, [th[t] EXCEPT !.at = "init"]) /\ UNCHANGED lockVars
  <2>. DEFINE b == [th[t] EXCEPT !.at = "init"]
  <2>1. /\ b \in Thread /\ b.op = th[t].op /\ b.model = th[t].model /\ b.victim = th[t].victim
        /\ b.todo = th[t].todo /\ b.later = th[t].later /\ b.at = "init"
        /\ b.want \in Capacities
    BY <1>1 DEF Thread, Phases
  <2>2. Retire(t, th[t].model, b) /\ UNCHANGED lockVars
    BY <1>3
  <2>. HIDE DEF b
  <2>3. QED
    BY <1>1, <1>2, <2>1, <2>2, RetireOwnInv
<1>4. CASE /\ Leave(t, th[t].model) /\ th' = [th EXCEPT ![t] = Outside]
           /\ UNCHANGED <<registered, capacity, line, poolVars, initMutex, bulkMutex>>
  <2>1. /\ initMutex' \in [Models -> Owners] /\ \A m \in Models : initMutex'[m] # t
        /\ \A u \in Threads \ {t}, m \in Models : initMutex'[m] = u <=> initMutex[m] = u
    <3>1. UNCHANGED initMutex
      BY <1>4
    <3>2. \A m \in Models : ~Loads(t, m)
      BY <1>1 DEF Loads
    <3>3. \A m \in Models : initMutex[m] # t
      BY <3>2, Before DEF MutexFits
    <3>4. QED
      BY <3>1, <3>3 DEF Inv, TypeOK
  <2>2. UNCHANGED <<registered, capacity, line, poolVars, bulkMutex>>
    BY <1>4
  <2>3. QED
    BY <1>1, <1>2, <1>4, <2>1, <2>2, LeaveInv
<1>5. QED
  BY <1>3, <1>4 DEF ProbeEnds

\* A bulk unload unloads the next model it was granted.
LEMMA RetireBulkInv ==
  ASSUME Inv, NEW t \in Threads, th[t].at \in {"ready", "drain"}, th[t].todo # <<>>,
         t \in managing[Head(th[t].todo)],
         Retire(t, Head(th[t].todo), [th[t] EXCEPT !.todo = Tail(@)]),
         UNCHANGED <<lockVars, loadMutex>>
  PROVE  Inv'
<1>. DEFINE b == [th[t] EXCEPT !.todo = Tail(@)]
<1>1. /\ ShapeFits(t) /\ RetireFits(t) /\ ListFits(t) /\ MutexFits(t) /\ th[t] \in Thread
      /\ registered \subseteq Models /\ Nobody \notin Models
  BY Before
<1>2. th[t].op = "bulk" /\ th[t].victim = Nobody
  BY <1>1 DEF ShapeFits, RetireFits, Thread
<1>3. /\ th[t].todo \in Seq(Models) /\ Tail(th[t].todo) \in Seq(Models)
      /\ Elements(th[t].todo) = Elements(Tail(th[t].todo)) \cup {Head(th[t].todo)}
      /\ Distinct(Tail(th[t].todo)) /\ Head(th[t].todo) \notin Elements(Tail(th[t].todo))
  BY <1>1, TailProps DEF Thread, ListFits
<1>4. PICK v \in registered : v = Head(th[t].todo)
  BY <1>1, <1>3 DEF ListFits
<1>5. /\ b \in Thread /\ b.op = "bulk" /\ b.at = th[t].at /\ b.model = th[t].model
      /\ b.todo = Tail(th[t].todo) /\ b.later = th[t].later /\ b.victim = Nobody
  BY <1>1, <1>2, <1>3 DEF Thread
<1>6. Retire(t, v, b)
  BY <1>4
<1>. HIDE DEF b
<1>7. managing = [managing EXCEPT ![v] = {t}]
  BY <1>1, <1>4, ManagesAlone DEF Inv, TypeOK
<1>8. Takes(t, v) /\ UNCHANGED <<capacity, line, running>>
  BY <1>4, <1>7 DEF Takes, lockVars
<1>9. Resumes(t, v, b)
  BY <1>2, <1>5 DEF Resumes
<1>10. /\ th'[t] = [b EXCEPT !.at = "retire", !.victim = v, !.back = b.at]
       /\ registered' = registered
  BY <1>6, Before DEF Retire
<1>11. /\ th'[t].op = "bulk" /\ th'[t].at = "retire" /\ th'[t].model = th[t].model
       /\ th'[t].todo = Tail(th[t].todo) /\ th'[t].later = th[t].later
       /\ th'[t].victim = v /\ th'[t].back = th[t].at
  BY <1>5, <1>10 DEF Thread
<1>12. \A k \in Models : k \in Pledged(t)' <=> k \in Pledged(t) \/ k = v
  BY <1>1, <1>2, <1>3, <1>4, <1>11 DEF Pledged
<1>13. ListFits(t)'
  BY <1>1, <1>2, <1>3, <1>4, <1>10, <1>11 DEF ListFits
<1>14. LoadMutexKept(t) /\ RoomFits(t)' /\ (loadMutex' = t <=> Limit > 0 /\ b.at = "evict")
  BY <1>1, <1>5, <1>11, LoadMutexProps DEF RoomFits, Evicting, MutexFits
<1>15. QED
  BY <1>5, <1>6, <1>8, <1>9, <1>12, <1>13, <1>14, RetireInv

\* A loop over try_acquire unloads a model that nobody uses.
LEMMA RetireFreeInv ==
  ASSUME Inv, NEW t \in Threads, NEW b \in Thread,
         th[t].at \in {"evict", "sweep"}, th[t].todo # <<>>,
         th[t].at = "evict" => th[t].need > 0,
         b.op = th[t].op, b.at = th[t].at, b.model = th[t].model, b.victim = th[t].victim,
         b.todo = Tail(th[t].todo), b.later = th[t].later,
         th[t].at = "evict" => b.need = th[t].need - 1,
         CanTryAcquire(Head(th[t].todo)),
         managing' = [managing EXCEPT ![Head(th[t].todo)] = {t}],
         Retire(t, Head(th[t].todo), b), UNCHANGED <<capacity, line, running, loadMutex>>
  PROVE  Inv'
<1>1. /\ ShapeFits(t) /\ RetireFits(t) /\ ListFits(t) /\ MutexFits(t) /\ RoomFits(t)
      /\ th[t] \in Thread /\ registered \subseteq Models /\ Nobody \notin Models
      /\ Limit \in Nat
  BY Before
<1>2. /\ th[t].op \in {"request", "load", "sweep"} /\ th[t].victim = Nobody
      /\ th[t].op = "sweep" <=> th[t].at = "sweep"
  BY <1>1 DEF ShapeFits, RetireFits, Thread
<1>3. /\ th[t].todo \in Seq(Models) /\ Tail(th[t].todo) \in Seq(Models)
      /\ Elements(th[t].todo) = Elements(Tail(th[t].todo)) \cup {Head(th[t].todo)}
      /\ Distinct(Tail(th[t].todo)) /\ Head(th[t].todo) \notin Elements(Tail(th[t].todo))
  BY <1>1, TailProps DEF Thread, ListFits
<1>4. PICK v \in registered : v = Head(th[t].todo)
  BY <1>1, <1>3 DEF ListFits
<1>5. v \notin Pledged(t)
  BY <1>1, <1>4, FreeProps
<1>6. th[t].op \in {"request", "load"} => v # th[t].model
  BY <1>5 DEF Pledged
<1>7. Takes(t, v) /\ UNCHANGED <<capacity, line, running>>
  BY <1>4 DEF Takes
<1>8. Resumes(t, v, b)
  BY <1>2, <1>6 DEF Resumes
<1>9. /\ th'[t] = [b EXCEPT !.at = "retire", !.victim = v, !.back = b.at]
      /\ registered' = registered /\ resident' = [resident EXCEPT ![v] = FALSE]
  BY <1>4, Before DEF Retire
<1>10. /\ th'[t].op = th[t].op /\ th'[t].at = "retire" /\ th'[t].model = th[t].model
       /\ th'[t].todo = Tail(th[t].todo) /\ th'[t].later = th[t].later /\ th'[t].need = b.need
       /\ th'[t].victim = v /\ th'[t].back = th[t].at
  BY <1>9 DEF Thread
<1>11. \A k \in Models : k \in Pledged(t)' <=> k \in Pledged(t) \/ k = v
  BY <1>1, <1>2, <1>4, <1>10 DEF Pledged
<1>12. ListFits(t)'
  BY <1>1, <1>2, <1>3, <1>9, <1>10 DEF ListFits
<1>13. LoadMutexKept(t) /\ (loadMutex' = t <=> Limit > 0 /\ b.at = "evict")
  BY <1>1, LoadMutexProps DEF Evicting, MutexFits
<1>14. RoomFits(t)'
  <2>1. SUFFICES ASSUME Limit > 0, th[t].at = "evict"
                 PROVE  \E S \in SUBSET Models :
                          /\ Elements(Tail(th[t].todo)) \subseteq S /\ Residents' \subseteq S
                          /\ Cardinality(S) <= Limit - 1 + b.need
    BY <1>10 DEF RoomFits, Evicting
  <2>2. PICK S \in SUBSET Models : /\ Elements(th[t].todo) \subseteq S /\ Residents \subseteq S
                                   /\ Cardinality(S) <= Limit - 1 + th[t].need
    BY <1>1, <2>1 DEF RoomFits, Evicting
  <2>3. v \in S /\ IsFiniteSet(S) /\ Cardinality(S) \in Nat
    BY <1>3, <1>4, <2>2, ModelsAreFinite
  <2>4. Cardinality(S \ {v}) = Cardinality(S) - 1
    BY <2>3, FS_RemoveElement
  <2>5. Elements(Tail(th[t].todo)) \subseteq S \ {v}
    BY <1>3, <1>4, <2>2
  <2>6. Residents' \subseteq S \ {v}
    <3>1. ~resident'[v] /\ \A k \in Models \ {v} : resident'[k] = resident[k]
      BY <1>1, <1>9 DEF Inv, TypeOK
    <3>2. QED
      BY <2>2, <3>1 DEF Residents
  <2>7. Cardinality(S \ {v}) <= Limit - 1 + b.need
    <3>1. th[t].need \in Nat /\ b.need = th[t].need - 1
      BY <1>1, <2>1 DEF Thread
    <3>2. QED
      BY <1>1, <2>2, <2>3, <2>4, <3>1
  <2>8. QED
    BY <2>5, <2>6, <2>7
<1>15. Retire(t, v, b)
  BY <1>4
<1>16. QED
  BY <1>7, <1>8, <1>11, <1>12, <1>13, <1>14, <1>15, RetireInv

\* The second half of an unload: the sessions go, and what the thread does next.
LEMMA RetiredInv ==
  ASSUME Inv, NEW t \in Threads, Retired(t)
  PROVE  Inv'
<1>1. /\ ShapeFits(t) /\ RetireFits(t) /\ ListFits(t) /\ ClaimsFit(t) /\ MutexFits(t)
      /\ SessionFits(t) /\ RoomFits(t)
      /\ th[t] \in Thread /\ registered \subseteq Models /\ Nobody \notin Models
      /\ 0 \notin Capacities
  BY Before
<1>2. /\ th[t].at = "retire" /\ th[t].victim \in Models
      /\ t \in managing[th[t].victim]
  BY <1>1, Owned DEF Retired, RetireFits
<1>3. PICK v \in Models : v = th[t].victim
  BY <1>2
<1>4. /\ managing[v] = {t} /\ running[v] = {} /\ v \in registered
  BY <1>2, <1>3, ManagesAlone
<1>5. Destroys(t, v) /\ ~resident[v]
  BY <1>1, <1>2, <1>3 DEF Destroys, SessionFits
<1>6. /\ pool' = [pool EXCEPT ![v] = 0] /\ AfterTeardown(t, v)
      /\ UNCHANGED <<registered, line, running, resident, initMutex, loadMutex, bulkMutex>>
  BY <1>3 DEF Retired, mutexVars
<1>7. /\ pool'[v] = 0 /\ \A k \in Models \ {v} : pool'[k] = pool[k]
      /\ pool' \in [Models -> Capacities \cup {0}]
  BY <1>6 DEF Inv, TypeOK
<1>. DEFINE r == IF th[t].back = "outside" THEN Outside
                 ELSE [th[t] EXCEPT !.at = th[t].back, !.want = 0, !.victim = Nobody,
                                    !.back = "outside"]
<1>8. th' = [th EXCEPT ![t] = r]
  BY <1>1 DEF Retired
<1>9. /\ r \in Thread /\ r.victim = Nobody /\ r.at = th[t].back
      /\ th[t].back = "outside" => r = Outside
      /\ th[t].back # "outside" => /\ r.op = th[t].op /\ r.model = th[t].model
                                   /\ r.todo = th[t].todo /\ r.later = th[t].later
                                   /\ r.need = th[t].need
  BY <1>1, OutsideProps DEF Thread
<1>. HIDE DEF r
<1>10. th'[t] = r /\ (\A u \in Threads \ {t} : th'[u] = th[u]) /\ th' \in [Threads -> Thread]
  BY <1>8, <1>9, Before
<1>11. \/ th[t].op = "unload" /\ th[t].back = "outside" /\ th[t].victim = th[t].model
       \/ /\ th[t].op = "load" /\ th[t].back = "init" /\ th[t].victim = th[t].model
          /\ th[t].want \in Capacities
       \/ /\ th[t].op \in {"request", "load"} /\ th[t].back = "evict"
          /\ th[t].victim # th[t].model
       \/ th[t].op = "bulk" /\ th[t].back \in {"ready", "drain"}
       \/ th[t].op = "sweep" /\ th[t].back = "sweep"
  BY <1>1, <1>2 DEF RetireFits
<1>12. \A u \in Threads, k \in Models, c \in BOOLEAN : Waits(u, k, c)' <=> Waits(u, k, c)
  BY <1>6 DEF Waits
  \* The lock: a reconfiguration keeps it, with its new slot count; the others
  \* give it back.
<1>13. /\ capacity' \in [Models -> Capacities] /\ managing' \in [Models -> SUBSET Threads]
       /\ \A k \in Models \ {v} : capacity'[k] = capacity[k]
       /\ \A u \in Threads, k \in Models :
            u \in managing'[k] <=>
              u \in managing[k] /\ ~(u = t /\ k = v /\ th[t].back # "init")
       /\ \A k \in Models : LockFits(k)'
  <2>1. CASE th[t].back = "init"
    <3>1. capacity' = [capacity EXCEPT ![v] = th[t].want] /\ managing' = managing
      BY <1>6, <2>1 DEF AfterTeardown
    <3>2. \A k \in Models : LockFits(k)'
      BY <1>6, <3>1 DEF Inv, LockFits
    <3>3. th[t].want \in Capacities
      BY <1>11, <2>1
    <3>4. QED
      BY <2>1, <3>1, <3>2, <3>3 DEF Inv, TypeOK
  <2>2. CASE th[t].back # "init"
    <3>1. managing' = [managing EXCEPT ![v] = {}] /\ capacity' = capacity
      BY <1>6, <2>2 DEF AfterTeardown
    <3>2. UNCHANGED <<registered, line, running>>
      BY <1>6
    <3>3. /\ managing' \in [Models -> SUBSET Threads]
          /\ \A u \in Threads, k \in Models :
               u \in managing'[k] <=> u \in managing[k] /\ ~(u = t /\ k = v)
          /\ \A k \in Models : LockFits(k)'
      BY <1>4, <3>1, <3>2, ClearProps
    <3>4. QED
      BY <2>2, <3>1, <3>3 DEF Inv, TypeOK
  <2>3. QED
    BY <2>1, <2>2
<1>14. \A u \in Threads \ {t} : Spares(u)
  <2>1. ASSUME NEW u \in Threads \ {t} PROVE Spares(u)
    <3>1. /\ th'[u] = th[u] /\ registered \subseteq registered'
          /\ (loadMutex' = u <=> loadMutex = u) /\ Residents' \subseteq Residents
      BY <1>6, <1>10 DEF Residents
    <3>2. \A m \in Models :
            /\ u \in running'[m] <=> u \in running[m]
            /\ u \in managing'[m] <=> u \in managing[m]
            /\ \A c \in BOOLEAN : Waits(u, m, c)' <=> Waits(u, m, c)
      BY <1>6, <1>12, <1>13
    <3>3. \A m \in Models :
            /\ initMutex'[m] = u <=> initMutex[m] = u
            /\ u \in running[m] /\ resident[m] => resident'[m]
            /\ initMutex[m] = u /\ pool[m] = 0 => pool'[m] = 0
            /\ u \in managing[m] /\ ~resident[m] => ~resident'[m]
      BY <1>6, <1>7
    <3>4. QED
      BY <3>1, <3>2, <3>3 DEF Spares
  <2>2. QED
    BY <2>1
<1>15. TypeOK'
  BY <1>6, <1>7, <1>10, <1>13 DEF Inv, TypeOK, Thread
<1>16. ResidentLimit'
  BY <1>6 DEF Inv, ResidentLimit
<1>17. \A m \in Models : LockFits(m)' /\ PoolFits(m)'
  <2>1. ASSUME NEW m \in Models PROVE PoolFits(m)'
    <3>1. PoolFits(m)
      BY DEF Inv
    <3>2. CASE m = v
      BY <1>5, <1>6, <1>7, <3>2 DEF PoolFits
    <3>3. CASE m # v
      <4>1. ASSUME NEW u \in Threads, Destroys(u, m) PROVE Destroys(u, m)'
        BY <1>3, <1>10, <3>3, <4>1 DEF Destroys
      <4>2. QED
        BY <1>6, <1>7, <1>13, <3>1, <3>3, <4>1 DEF PoolFits
    <3>4. QED
      BY <3>2, <3>3
  <2>2. QED
    BY <1>13, <2>1
<1>18. ShapeFits(t)' /\ RetireFits(t)' /\ ListFits(t)'
  <2>1. CASE th[t].back = "outside"
    <3>1. th'[t] = Outside
      BY <1>9, <1>10, <2>1
    <3>2. QED
      BY <3>1, OutsideProps, EmptyProps DEF ShapeFits, RetireFits, ListFits
  <2>2. CASE th[t].back # "outside"
    <3>1. /\ th'[t].op = th[t].op /\ th'[t].model = th[t].model /\ th'[t].at = th[t].back
          /\ th'[t].todo = th[t].todo /\ th'[t].later = th[t].later /\ th'[t].victim = Nobody
      BY <1>9, <1>10, <2>2
    <3>2. ShapeFits(t)'
      BY <1>1, <1>2, <1>6, <1>11, <2>2, <3>1 DEF ShapeFits
    <3>3. RetireFits(t)'
      BY <1>11, <3>1 DEF RetireFits
    <3>4. ListFits(t)'
      BY <1>1, <1>2, <1>6, <1>11, <3>1 DEF ListFits
    <3>5. QED
      BY <3>2, <3>3, <3>4
  <2>3. QED
    BY <2>1, <2>2
<1>19. ClaimsFit(t)'
  <2>1. \A k \in Models : k \in Pledged(t)' <=>
          k \in Pledged(t) /\ ~(k = v /\ th[t].back # "init")
    <3>1. CASE th[t].back = "outside"
      <4>1. th'[t] = Outside /\ th[t].op = "unload" /\ v = th[t].model
        BY <1>3, <1>9, <1>10, <1>11, <3>1
      <4>2. QED
        BY <1>3, <3>1, <4>1, OutsideProps DEF Pledged
    <3>2. CASE th[t].back # "outside"
      <4>1. /\ th'[t].op = th[t].op /\ th'[t].model = th[t].model /\ th'[t].at = th[t].back
            /\ th'[t].todo = th[t].todo /\ th'[t].later = th[t].later /\ th'[t].victim = Nobody
        BY <1>9, <1>10, <3>2
      <4>2. th[t].op = "bulk" => v \notin Elements(th[t].todo) \cup Elements(th[t].later)
        BY <1>1, <1>3 DEF ListFits
      <4>3. QED
        BY <1>1, <1>2, <1>3, <1>11, <3>2, <4>1, <4>2 DEF Pledged
    <3>3. QED
      BY <3>1, <3>2
  <2>2. \A c \in BOOLEAN : ~Waits(t, v, c)
    BY <1>1, <1>3 DEF ClaimsFit
  <2>3. ASSUME NEW k \in Models
        PROVE  Has(t, k)' <=> Has(t, k) /\ ~(k = v /\ th[t].back # "init")
    <3>1. t \notin running[v]
      BY <1>4
    <3>2. QED
      BY <1>6, <1>12, <1>13, <2>2, <3>1 DEF Has
  <2>4. \A k \in Models : Has(t, k)' <=> k \in Pledged(t)'
    BY <1>1, <2>1, <2>3 DEF ClaimsFit
  <2>5. CASE th[t].back = "outside"
    <3>1. Pledged(t)' = {}
      BY <1>9, <1>10, <2>5, OutsideProps DEF Pledged
    <3>2. QED
      BY <2>4, <3>1 DEF ClaimsFit, Has
  <2>6. CASE th[t].back # "outside"
    <3>1. /\ th'[t].op = th[t].op /\ th'[t].model = th[t].model /\ th'[t].victim = Nobody
      BY <1>9, <1>10, <2>6
    <3>2. \A k \in Models : /\ t \in running'[k] => th'[t].op = "request" /\ th'[t].model = k
                            /\ t \in managing'[k] => th'[t].op # "request" \/ th'[t].victim = k
      <4>1. \A k \in Models : t \in managing[k] => th[t].op # "request" \/ k = v
        BY <1>1, <1>3 DEF ClaimsFit
      <4>2. th[t].op = "request" => th[t].back # "init"
        BY <1>11
      <4>3. \A k \in Models : t \in running[k] => th[t].op = "request" /\ th[t].model = k
        BY <1>1 DEF ClaimsFit
      <4>4. QED
        BY <1>6, <1>13, <3>1, <4>1, <4>2, <4>3
    <3>3. ASSUME NEW k \in Models, NEW c \in BOOLEAN, Waits(t, k, c)'
          PROVE  /\ (c <=> th'[t].op # "request") /\ t \notin running'[k] \cup managing'[k]
                 /\ th'[t].victim # k /\ th'[t].op = "bulk"
      <4>1. Waits(t, k, c)
        BY <1>12, <3>3
      <4>2. /\ (c <=> th[t].op # "request") /\ t \notin running[k] \cup managing[k]
            /\ th[t].op = "bulk"
        BY <1>1, <1>2, <4>1 DEF ClaimsFit
      <4>3. QED
        BY <1>1, <1>6, <1>13, <3>1, <4>2
    <3>4. QED
      BY <2>4, <3>2, <3>3 DEF ClaimsFit
  <2>7. QED
    BY <2>5, <2>6
<1>20. MutexFits(t)' /\ SessionFits(t)' /\ RoomFits(t)'
  <2>1. \A m \in Models : Loads(t, m)' <=> Loads(t, m)
    BY <1>2, <1>9, <1>10, <1>11, OutsideProps DEF Loads
  <2>2. /\ Evicting(t)' <=> Evicting(t)
        /\ th'[t].at # "probe" /\ th[t].at # "probe"
    BY <1>2, <1>9, <1>10, <1>11 DEF Evicting
  <2>3. MutexFits(t)'
    BY <1>1, <1>6, <2>1, <2>2 DEF MutexFits
  <2>4. SessionFits(t)'
    <3>1. th'[t].at # "running" /\ th'[t].at # "retire"
      BY <1>9, <1>10, <1>11
    <3>2. \A m \in Models : Loads(t, m) => pool[m] = 0
      BY <1>1 DEF SessionFits
    <3>3. QED
      BY <1>7, <2>1, <3>1, <3>2 DEF SessionFits, Destroys
  <2>5. RoomFits(t)'
    <3>1. Evicting(t) =>
            th[t].back = "evict" /\ th'[t].todo = th[t].todo /\ th'[t].need = th[t].need
      BY <1>2, <1>9, <1>10 DEF Evicting
    <3>2. Residents' = Residents
      BY <1>6 DEF Residents
    <3>3. QED
      BY <1>1, <2>2, <3>1, <3>2 DEF RoomFits
  <2>6. QED
    BY <2>3, <2>4, <2>5
<1>21. QED
  BY <1>14, <1>15, <1>16, <1>17, <1>18, <1>19, <1>20, StepInv DEF Fits

-----------------------------------------------------------------------------
(* Lemmas about loading, and about the dispatch of a lock *)

\* A load that succeeds publishes a complete pool, within the limit.
LEMMA LoadSucceedsInv ==
  ASSUME Inv, NEW t \in Threads, LoadSucceeds(t)
  PROVE  Inv'
<1>1. /\ ShapeFits(t) /\ RetireFits(t) /\ ListFits(t) /\ ClaimsFit(t) /\ MutexFits(t)
      /\ SessionFits(t) /\ RoomFits(t)
      /\ th[t] \in Thread /\ registered \subseteq Models /\ Nobody \notin Models \cup Threads
      /\ Limit \in Nat /\ 0 \notin Capacities
  BY Before
<1>2. /\ th[t].at = "evict" /\ th[t].need = 0 /\ th[t].op \in {"request", "load"}
      /\ th[t].victim = Nobody /\ th[t].model \in registered
  BY <1>1 DEF LoadSucceeds, ShapeFits, RetireFits, Thread
<1>3. PICK m \in registered : m = th[t].model
  BY <1>2
<1>4. /\ m \in Models
      /\ th[t].op = "request" => t \in running[m]
      /\ th[t].op = "load" => t \in managing[m]
  BY <1>1, <1>2, <1>3, Owned
<1>5. /\ pool' = [pool EXCEPT ![m] = capacity[m]]
      /\ resident' = [resident EXCEPT ![m] = TRUE]
      /\ initMutex' = [initMutex EXCEPT ![m] = Nobody]
      /\ DropLoadMutex(t) /\ Loaded(t)
      /\ UNCHANGED <<registered, capacity, line, bulkMutex>>
  BY <1>3 DEF LoadSucceeds
<1>6. /\ pool'[m] = capacity[m] /\ \A k \in Models \ {m} : pool'[k] = pool[k]
      /\ resident'[m] /\ \A k \in Models \ {m} : resident'[k] = resident[k]
      /\ initMutex'[m] = Nobody /\ \A k \in Models \ {m} : initMutex'[k] = initMutex[k]
      /\ pool' \in [Models -> Capacities \cup {0}] /\ resident' \in [Models -> BOOLEAN]
      /\ initMutex' \in [Models -> Owners] /\ capacity[m] # 0
  BY <1>1, <1>4, <1>5 DEF Inv, TypeOK, Owners
<1>7. /\ Loads(t, m) /\ Evicting(t) /\ initMutex[m] = t
      /\ loadMutex = t <=> Limit > 0
      /\ \A k \in Models \ {m} : ~Loads(t, k) /\ initMutex[k] # t
  BY <1>1, <1>2, <1>3, <1>4 DEF Loads, Evicting, MutexFits
<1>8. LoadMutexKept(t) /\ loadMutex' # t
  BY <1>5, LoadMutexProps
  \* What follows the load.
<1>9. /\ th' \in [Threads -> Thread] /\ \A u \in Threads \ {t} : th'[u] = th[u]
      /\ \/ /\ th[t].op = "request" /\ th'[t] = Begin("request", "running", m)
            /\ UNCHANGED <<running, managing>>
         \/ th[t].op = "load" /\ th'[t] = Outside /\ Leave(t, m)
  <2>1. Begin("request", "running", m) \in Thread
    BY <1>4, OutsideProps DEF Begin, Thread, Phases
  <2>2. QED
    BY <1>3, <1>5, <2>1, OutsideProps, Before DEF Loaded
<1>10. /\ running' \in [Models -> SUBSET Callers] /\ managing' \in [Models -> SUBSET Threads]
       /\ ClaimsKept(t) /\ \A k \in Models : LockFits(k)'
       /\ \A k \in Models, b \in BOOLEAN : Waits(t, k, b)' <=> Waits(t, k, b)
       /\ \A k \in Models : /\ t \in running'[k] => t \in running[k]
                            /\ t \in managing'[k] => t \in managing[k]
       /\ th[t].op = "load" => t \notin running'[m] \cup managing'[m]
  <2>1. \A u \in Threads, k \in Models, b \in BOOLEAN : Waits(u, k, b)' <=> Waits(u, k, b)
    BY <1>5 DEF Waits
  <2>2. CASE UNCHANGED <<running, managing>> /\ th[t].op = "request"
    BY <1>5, <2>1, <2>2 DEF Inv, TypeOK, ClaimsKept, LockFits
  <2>3. CASE Leave(t, m) /\ th[t].op = "load"
    <3>1. /\ running' \in [Models -> SUBSET Callers]
          /\ managing' \in [Models -> SUBSET Threads]
          /\ \A u \in Threads, k \in Models :
               /\ u \in running'[k] <=> u \in running[k] /\ ~(u = t /\ k = m)
               /\ u \in managing'[k] <=> u \in managing[k] /\ ~(u = t /\ k = m)
          /\ \A k \in Models : LockFits(k)'
      BY <1>4, <1>5, <2>3, LeaveProps
    <3>2. QED
      BY <1>4, <2>1, <3>1 DEF ClaimsKept
  <2>4. QED
    BY <1>9, <2>2, <2>3
<1>11. \A u \in Threads \ {t} : Spares(u)
  <2>1. ASSUME NEW u \in Threads \ {t} PROVE Spares(u)
    <3>1. /\ th'[u] = th[u] /\ registered \subseteq registered'
          /\ (loadMutex' = u <=> loadMutex = u)
      BY <1>5, <1>8, <1>9 DEF LoadMutexKept
    <3>2. loadMutex # u
      BY <1>7, Before DEF MutexFits
    <3>3. \A k \in Models :
            /\ u \in running'[k] <=> u \in running[k]
            /\ u \in managing'[k] <=> u \in managing[k]
            /\ \A c \in BOOLEAN : Waits(u, k, c)' <=> Waits(u, k, c)
      BY <1>10 DEF ClaimsKept
    <3>4. u \notin managing[m]
      BY <1>2, <1>4, ManagesAlone
    <3>5. \A k \in Models :
            /\ initMutex'[k] = u <=> initMutex[k] = u
            /\ u \in running[k] /\ resident[k] => resident'[k]
            /\ initMutex[k] = u /\ pool[k] = 0 => pool'[k] = 0
            /\ u \in managing[k] /\ ~resident[k] => ~resident'[k]
      BY <1>1, <1>6, <1>7, <3>4
    <3>6. QED
      BY <3>1, <3>2, <3>3, <3>5 DEF Spares
  <2>2. QED
    BY <2>1
<1>12. TypeOK'
  BY <1>5, <1>6, <1>8, <1>9, <1>10 DEF Inv, TypeOK, LoadMutexKept, Thread
<1>13. ResidentLimit'
  <2>1. ASSUME Limit > 0 PROVE Cardinality(Residents') <= Limit
    <3>1. PICK S \in SUBSET Models : Residents \subseteq S /\ Cardinality(S) <= Limit - 1
      BY <1>1, <1>2, <1>7, <2>1 DEF RoomFits
    <3>2. IsFiniteSet(S) /\ Cardinality(S) \in Nat /\ Residents' \subseteq S \cup {m}
      BY <1>6, <3>1, ModelsAreFinite DEF Residents
    <3>3. Cardinality(S \cup {m}) <= Cardinality(S) + 1 /\ IsFiniteSet(S \cup {m})
      BY <3>2, FS_AddElement
    <3>4. Cardinality(Residents') <= Cardinality(S \cup {m})
      BY <3>2, <3>3, FS_Subset
    <3>5. Cardinality(Residents') \in Nat /\ Cardinality(S \cup {m}) \in Nat
      BY <1>4, ModelsAreFinite DEF Residents
    <3>6. QED
      BY <1>1, <3>1, <3>2, <3>3, <3>4, <3>5
  <2>2. QED
    BY <2>1 DEF ResidentLimit, Residents
<1>14. \A k \in Models : LockFits(k)' /\ PoolFits(k)'
  <2>1. ASSUME NEW k \in Models PROVE PoolFits(k)'
    <3>1. PoolFits(k)
      BY DEF Inv
    <3>2. CASE k = m
      BY <1>5, <1>6, <3>2 DEF PoolFits
    <3>3. CASE k # m
      <4>1. ASSUME NEW u \in Threads, Destroys(u, k) PROVE Destroys(u, k)'
        BY <1>2, <1>9, <4>1 DEF Destroys
      <4>2. QED
        BY <1>5, <1>6, <3>1, <3>3, <4>1 DEF PoolFits
    <3>4. QED
      BY <3>2, <3>3
  <2>2. QED
    BY <1>10, <2>1
<1>15. \A k \in Models : initMutex'[k] # t
  BY <1>1, <1>6, <1>7
<1>16. Pledged(t) = {m} /\ \A k \in Models, b \in BOOLEAN : ~Waits(t, k, b)'
  <2>1. Pledged(t) = {m}
    BY <1>2, <1>3 DEF Pledged
  <2>2. \A k \in Models, b \in BOOLEAN : ~Waits(t, k, b)
    BY <1>1, <1>2 DEF ClaimsFit
  <2>3. QED
    BY <1>10, <2>1, <2>2
<1>17. CASE th[t].op = "request"
  <2>1. th'[t] = Begin("request", "running", m) /\ UNCHANGED <<running, managing>>
    BY <1>9, <1>17
  <2>2. /\ th'[t].op = "request" /\ th'[t].at = "running" /\ th'[t].model = m
        /\ th'[t].victim = Nobody /\ th'[t].todo = <<>> /\ th'[t].later = <<>>
    BY <2>1, OutsideProps DEF Begin
  <2>3. ShapeFits(t)' /\ RetireFits(t)' /\ ListFits(t)'
    BY <1>1, <1>3, <1>5, <1>17, <2>2, EmptyProps DEF ShapeFits, RetireFits, ListFits
  <2>4. ClaimsFit(t)'
    <3>1. Pledged(t)' = {m}
      BY <2>2 DEF Pledged
    <3>2. \A k \in Models : /\ t \in running[k] <=> k = m
                            /\ t \notin managing[k]
      BY <1>1, <1>2, <1>3, <1>4, <1>17 DEF ClaimsFit
    <3>3. QED
      BY <1>16, <2>1, <2>2, <3>1, <3>2 DEF ClaimsFit, Has
  <2>5. MutexFits(t)' /\ SessionFits(t)' /\ RoomFits(t)'
    BY <1>6, <1>8, <1>15, <2>2 DEF MutexFits, SessionFits, RoomFits, Loads, Destroys, Evicting
  <2>6. QED
    BY <1>11, <1>12, <1>13, <1>14, <2>3, <2>4, <2>5, StepInv DEF Fits
<1>18. CASE th[t].op = "load"
  <2>1. th'[t] = Outside
    BY <1>9, <1>18
  <2>2. ShapeFits(t)' /\ RetireFits(t)' /\ ListFits(t)'
    BY <2>1, OutsideProps, EmptyProps DEF ShapeFits, RetireFits, ListFits
  <2>3. ClaimsFit(t)'
    <3>1. Pledged(t)' = {}
      BY <2>1, OutsideProps DEF Pledged
    <3>2. \A k \in Models : ~Has(t, k)'
      BY <1>1, <1>10, <1>16, <1>18 DEF ClaimsFit, Has
    <3>3. QED
      BY <3>1, <3>2 DEF ClaimsFit, Has
  <2>4. MutexFits(t)' /\ SessionFits(t)' /\ RoomFits(t)'
    BY <1>8, <1>15, <2>1, OutsideProps
       DEF MutexFits, SessionFits, RoomFits, Loads, Destroys, Evicting
  <2>5. QED
    BY <1>11, <1>12, <1>13, <1>14, <2>2, <2>3, <2>4, StepInv DEF Fits
<1>19. QED
  BY <1>2, <1>17, <1>18

\* dispatch() grants the lease to the oldest waiter, and to nobody else.
LEMMA AdmitFirstInv ==
  ASSUME Inv, NEW m \in Models, AdmitFirst(m)
  PROVE  Inv'
<1>. DEFINE Place == [caller : Callers, management : BOOLEAN]
            e == Head(line[m])
<1>1. /\ line[m] # <<>> /\ line' = [line EXCEPT ![m] = Tail(line[m])]
      /\ UNCHANGED <<registered, capacity, pool, resident>>
      /\ UNCHANGED <<initMutex, loadMutex, bulkMutex, th>>
      /\ \/ /\ e.management /\ RoomForManager(m)
            /\ managing' = [managing EXCEPT ![m] = {e.caller}] /\ UNCHANGED running
         \/ /\ ~e.management /\ RoomForRequest(m)
            /\ running' = [running EXCEPT ![m] = @ \cup {e.caller}] /\ UNCHANGED managing
  BY DEF AdmitFirst, Settled, poolVars, mutexVars
<1>2. line \in [Models -> Seq(Place)] /\ LockFits(m)
  BY DEF Inv, TypeOK
<1>. HIDE DEF Place
<1>3. /\ e \in Place /\ Tail(line[m]) \in Seq(Place)
      /\ Elements(line[m]) = Elements(Tail(line[m])) \cup {e}
      /\ Distinct(Tail(line[m])) /\ e \notin Elements(Tail(line[m]))
  <2>1. line[m] \in Seq(Place) /\ Distinct(line[m])
    BY <1>2 DEF LockFits
  <2>2. QED
    BY <1>1, <2>1, TailProps
<1>4. PICK t \in Callers, b \in BOOLEAN : e = [caller |-> t, management |-> b]
  BY <1>3 DEF Place
<1>5. e.caller = t /\ (e.management <=> b)
  BY <1>4
<1>6. /\ line' \in [Models -> Seq(Place)] /\ Distinct(line'[m])
      /\ Elements(line'[m]) = Elements(line[m]) \ {e} /\ e \in Elements(line[m])
      /\ \A k \in Models \ {m} : line'[k] = line[k]
  BY <1>1, <1>2, <1>3
<1>. HIDE DEF e
<1>7. /\ t \in Threads /\ Waits(t, m, b)
      /\ \A u \in Threads, k \in Models, c \in BOOLEAN :
           Waits(u, k, c)' <=> Waits(u, k, c) /\ ~(u = t /\ k = m /\ c = b)
  <2>1. t \in Threads /\ Waits(t, m, b)
    BY <1>4, <1>6 DEF Waits, Threads
  <2>2. ASSUME NEW u \in Threads, NEW k \in Models, NEW c \in BOOLEAN
        PROVE  Waits(u, k, c)' <=> Waits(u, k, c) /\ ~(u = t /\ k = m /\ c = b)
    <3>1. ([caller |-> u, management |-> c] = e) <=> (u = t /\ c = b)
      BY <1>4
    <3>2. CASE k = m
      BY <1>6, <3>1, <3>2 DEF Waits
    <3>3. CASE k # m
      BY <1>6, <3>3 DEF Waits
    <3>4. QED
      BY <3>2, <3>3
  <2>3. QED
    BY <2>1, <2>2
<1>8. /\ ShapeFits(t) /\ RetireFits(t) /\ ListFits(t) /\ ClaimsFit(t) /\ MutexFits(t)
      /\ SessionFits(t) /\ RoomFits(t)
  BY <1>7, Before
<1>9. /\ (b <=> th[t].op # "request") /\ t \notin running[m] \cup managing[m]
      /\ th[t].victim # m /\ m \in Pledged(t)
      /\ \A c \in BOOLEAN : Waits(t, m, c) => (c <=> b)
  BY <1>7, <1>8 DEF ClaimsFit, Has
<1>10. m \in registered
  BY <1>1, <1>2 DEF LockFits
  \* The lease: a manager has the lock alone, a request shares it.
<1>11. /\ running' \in [Models -> SUBSET Callers] /\ managing' \in [Models -> SUBSET Threads]
       /\ \A u \in Threads, k \in Models :
            /\ u \in running'[k] <=> u \in running[k] \/ (u = t /\ k = m /\ ~b)
            /\ u \in managing'[k] <=> u \in managing[k] \/ (u = t /\ k = m /\ b)
       /\ \A k \in Models : LockFits(k)'
  <2>1. CASE b
    <3>1. /\ managing' = [managing EXCEPT ![m] = {t}] /\ running' = running
          /\ managing[m] = {} /\ running[m] = {}
      BY <1>1, <1>5, <2>1 DEF RoomForManager
    <3>2. /\ managing' \in [Models -> SUBSET Threads] /\ managing'[m] = {t}
          /\ \A k \in Models \ {m} : managing'[k] = managing[k]
      BY <1>7, <3>1 DEF Inv, TypeOK
    <3>3. ASSUME NEW k \in Models PROVE LockFits(k)'
      <4>1. LockFits(k)
        BY DEF Inv
      <4>2. QED
        BY <1>1, <1>6, <1>7, <1>10, <3>1, <3>2, <4>1 DEF LockFits
    <3>4. QED
      BY <2>1, <3>1, <3>2, <3>3 DEF Inv, TypeOK
  <2>2. CASE ~b
    <3>1. /\ running' = [running EXCEPT ![m] = running[m] \cup {t}] /\ managing' = managing
          /\ managing[m] = {}
      BY <1>1, <1>5, <2>2 DEF RoomForRequest
    <3>2. /\ running' \in [Models -> SUBSET Callers] /\ running'[m] = running[m] \cup {t}
          /\ \A k \in Models \ {m} : running'[k] = running[k]
      BY <3>1 DEF Inv, TypeOK
    <3>3. ASSUME NEW k \in Models PROVE LockFits(k)'
      <4>1. LockFits(k)
        BY DEF Inv
      <4>2. QED
        BY <1>1, <1>6, <1>10, <3>1, <3>2, <4>1 DEF LockFits
    <3>4. QED
      BY <2>2, <3>1, <3>2, <3>3 DEF Inv, TypeOK
  <2>3. QED
    BY <2>1, <2>2
<1>12. KeepsTo(t)
  <2>1. \A u \in Threads \ {t}, k \in Models, c \in BOOLEAN :
          Waits(u, k, c)' <=> Waits(u, k, c)
    BY <1>7, Zenon
  <2>2. QED
    BY <1>1, <1>11, <2>1 DEF KeepsTo
<1>13. TypeOK'
  BY <1>1, <1>6, <1>11 DEF Inv, TypeOK, Place
<1>14. ClaimsFit(t)'
  <2>1. Pledged(t)' = Pledged(t) /\ th'[t] = th[t]
    BY <1>1 DEF Pledged
  <2>2. \A c \in BOOLEAN : ~Waits(t, m, c)'
    <3>1. ASSUME NEW c \in BOOLEAN, Waits(t, m, c)' PROVE FALSE
      <4>1. Waits(t, m, c) /\ ~(t = t /\ m = m /\ c = b)
        BY <1>7, <3>1, Zenon
      <4>2. c <=> b
        BY <1>9, <4>1
      <4>3. QED
        BY <4>1, <4>2
    <3>2. QED
      BY <3>1
  <2>3. \A k \in Models \ {m}, c \in BOOLEAN : Waits(t, k, c)' <=> Waits(t, k, c)
    BY <1>7, Zenon
  <2>4. ASSUME NEW k \in Models PROVE Has(t, k)' <=> k \in Pledged(t)
    <3>1. CASE k = m
      BY <1>7, <1>9, <1>11, <3>1 DEF Has
    <3>2. CASE k # m
      <4>1. Has(t, k)' <=> Has(t, k)
        BY <1>7, <1>11, <2>3, <3>2 DEF Has
      <4>2. QED
        BY <1>8, <4>1 DEF ClaimsFit
    <3>3. QED
      BY <3>1, <3>2
  <2>5. \A k \in Models : /\ t \in running'[k] => th[t].op = "request" /\ th[t].model = k
                          /\ t \in managing'[k] => th[t].op # "request" \/ th[t].victim = k
    <3>1. ~b => th[t].op = "request" /\ th[t].model = m
      BY <1>9 DEF Pledged
    <3>2. QED
      BY <1>7, <1>8, <1>9, <1>11, <3>1 DEF ClaimsFit
  <2>6. ASSUME NEW k \in Models, NEW c \in BOOLEAN, Waits(t, k, c)'
        PROVE  /\ (c <=> th[t].op # "request") /\ t \notin running'[k] \cup managing'[k]
               /\ th[t].victim # k
               /\ th[t].op = "bulk" \/ th[t].at = "waiting"
    <3>1. k # m
      BY <2>2, <2>6
    <3>2. Waits(t, k, c)
      BY <2>3, <2>6, <3>1
    <3>3. QED
      BY <1>7, <1>8, <1>11, <3>1, <3>2 DEF ClaimsFit
  <2>7. QED
    BY <2>1, <2>4, <2>5, <2>6 DEF ClaimsFit
<1>15. Fits(t)'
  <2>1. \A k \in Models : Loads(t, k)' = Loads(t, k) /\ Destroys(t, k)' = Destroys(t, k)
    BY <1>1 DEF Loads, Destroys
  <2>2. ShapeFits(t)' /\ RetireFits(t)' /\ ListFits(t)'
    BY <1>1, <1>8 DEF ShapeFits, RetireFits, ListFits
  <2>3. MutexFits(t)' /\ SessionFits(t)' /\ RoomFits(t)'
    BY <1>1, <1>8, <2>1 DEF MutexFits, SessionFits, RoomFits, Evicting, Residents
  <2>4. QED
    BY <1>14, <2>2, <2>3 DEF Fits
<1>16. QED
  BY <1>1, <1>7, <1>11, <1>12, <1>13, <1>15, ThreadStep DEF poolVars

-----------------------------------------------------------------------------
(* Every action preserves the invariant *)

\* Initially nobody does anything, and the eager models keep within the limit.
LEMMA InitInv == Init => Inv
<1>. SUFFICES ASSUME Init PROVE Inv
  OBVIOUS
<1>1. PICK eager \in SUBSET registered :
        /\ Limit > 0 => Cardinality(eager) <= Limit
        /\ pool = [m \in Models |-> IF m \in eager THEN capacity[m] ELSE 0]
        /\ resident = [m \in Models |-> m \in eager]
  BY DEF Init
<1>2. /\ registered \subseteq Models /\ capacity \in [Models -> Capacities]
      /\ Nobody \notin Models \cup Threads /\ 0 \notin Capacities
      /\ \A m \in Models : /\ line[m] = <<>> /\ running[m] = {} /\ managing[m] = {}
                           /\ initMutex[m] = Nobody /\ (resident[m] <=> m \in eager)
                           /\ pool[m] = IF m \in eager THEN capacity[m] ELSE 0
      /\ loadMutex = Nobody /\ \A t \in Threads : th[t] = Outside
  BY <1>1, ResidencyAssumption DEF Init, Threads
<1>3. TypeOK
  <2>1. th \in [Threads -> Thread]
    BY OutsideProps DEF Init
  <2>2. /\ pool \in [Models -> Capacities \cup {0}] /\ resident \in [Models -> BOOLEAN]
        /\ line \in [Models -> Seq([caller : Callers, management : BOOLEAN])]
    BY <1>1, <1>2 DEF Init
  <2>3. QED
    BY <1>2, <2>1, <2>2 DEF Init, TypeOK, Owners, Thread
<1>4. ResidentLimit
  <2>1. Residents = eager
    BY <1>1, <1>2 DEF Residents
  <2>2. QED
    BY <1>1, <2>1 DEF ResidentLimit, Residents
<1>5. ASSUME NEW m \in Models PROVE LockFits(m) /\ PoolFits(m)
  BY <1>2, EmptyProps DEF LockFits, PoolFits, TypeOK
<1>6. ASSUME NEW t \in Threads PROVE Fits(t)
  <2>1. ShapeFits(t) /\ RetireFits(t) /\ ListFits(t)
    BY <1>2, OutsideProps, EmptyProps DEF ShapeFits, RetireFits, ListFits
  <2>2. ClaimsFit(t)
    BY <1>2, OutsideProps, EmptyProps DEF ClaimsFit, Has, Waits, Pledged
  <2>3. MutexFits(t) /\ SessionFits(t) /\ RoomFits(t)
    BY <1>2, OutsideProps DEF MutexFits, SessionFits, RoomFits, Loads, Destroys, Evicting
  <2>4. QED
    BY <2>1, <2>2, <2>3 DEF Fits
<1>7. QED
  BY <1>3, <1>4, <1>5, <1>6 DEF Inv

\* A request enters at once or lines up.
LEMMA BindRequestInv ==
  ASSUME Inv, NEW t \in Callers, NEW m \in Models, BindRequest(t, m)
  PROVE  Inv'
<1>1. t \in Threads /\ m \in registered /\ th[t] = Outside
  BY DEF BindRequest, Threads
<1>2. CASE /\ RoomForRequest(m)
           /\ running' = [running EXCEPT ![m] = @ \cup {t}]
           /\ th' = [th EXCEPT ![t] = Begin("request", "init", m)]
           /\ UNCHANGED line
  <2>1. UNCHANGED <<registered, capacity, line, managing, poolVars, mutexVars>>
    BY <1>2 DEF BindRequest
  <2>2. QED
    BY <1>1, <1>2, <2>1, AdmitNowInv
<1>3. CASE /\ LineUp(t, m, FALSE)
           /\ th' = [th EXCEPT ![t] = Begin("request", "waiting", m)]
           /\ UNCHANGED running
  <2>1. UNCHANGED <<registered, capacity, running, managing, poolVars, mutexVars>>
    BY <1>3 DEF BindRequest
  <2>2. \E op \in {"request", "unload", "load"}, b \in BOOLEAN :
          /\ b <=> op # "request"
          /\ LineUp(t, m, b) /\ th' = [th EXCEPT ![t] = Begin(op, "waiting", m)]
    BY <1>3
  <2>3. QED
    BY <1>1, <2>1, <2>2, LineUpInv
<1>4. QED
  BY <1>2, <1>3 DEF BindRequest

\* A management request lines up.
LEMMA QueueManagerInv ==
  ASSUME Inv, NEW t \in Callers, NEW m \in Models, NEW op \in {"unload", "load"},
         QueueManager(t, m, op)
  PROVE  Inv'
<1>1. /\ t \in Threads /\ m \in registered /\ th[t] = Outside
      /\ LineUp(t, m, TRUE) /\ th' = [th EXCEPT ![t] = Begin(op, "waiting", m)]
      /\ UNCHANGED <<registered, capacity, running, managing, poolVars, mutexVars>>
  BY DEF QueueManager, Threads
<1>2. \E p \in {"request", "unload", "load"}, b \in BOOLEAN :
        /\ b <=> p # "request"
        /\ LineUp(t, m, b) /\ th' = [th EXCEPT ![t] = Begin(p, "waiting", m)]
  BY <1>1
<1>3. QED
  BY <1>1, <1>2, LineUpInv

\* A handler finds its model loaded, or begins to load it.
LEMMA EnterInitInv ==
  ASSUME Inv, NEW t \in Threads, EnterInit(t)
  PROVE  Inv'
<1>1. /\ Initializes(t) /\ initMutex[th[t].model] = Nobody
      /\ UNCHANGED <<registered, capacity, line, poolVars, loadMutex, bulkMutex>>
  BY DEF EnterInit
<1>2. CASE pool[th[t].model] # 0 /\ Loaded(t) /\ UNCHANGED initMutex
  <2>1. CASE /\ th[t].op = "request"
             /\ th' = [th EXCEPT ![t] = Begin("request", "running", th[t].model)]
             /\ UNCHANGED <<running, managing>>
    <3>1. UNCHANGED <<registered, lockVars, poolVars, mutexVars>>
      BY <1>1, <1>2, <2>1 DEF lockVars, mutexVars
    <3>2. QED
      BY <1>1, <1>2, <2>1, <3>1, WarmRequestInv
  <2>2. CASE /\ th[t].op = "load" /\ th' = [th EXCEPT ![t] = Outside]
             /\ Leave(t, th[t].model)
    <3>1. /\ th[t].at = "init" /\ UNCHANGED <<initMutex, loadMutex>>
          /\ UNCHANGED <<registered, capacity, line, poolVars, bulkMutex>>
      BY <1>1, <1>2, <2>2 DEF Initializes
    <3>2. t \in managing[th[t].model]
      BY <2>2, <3>1, Owned
    <3>3. LoadMutexKept(t) /\ loadMutex' # t
      BY <3>1, Before, LoadMutexProps DEF MutexFits, Evicting
    <3>4. /\ initMutex' \in [Models -> Owners] /\ \A m \in Models : initMutex'[m] # t
          /\ \A u \in Threads \ {t}, m \in Models : initMutex'[m] = u <=> initMutex[m] = u
      BY <3>1, Before DEF Inv, TypeOK, MutexFits, Loads
    <3>5. QED
      BY <2>2, <3>1, <3>2, <3>3, <3>4, LeaveInv
  <2>3. QED
    BY <1>2, <2>1, <2>2 DEF Loaded
<1>3. CASE /\ pool[th[t].model] = 0
           /\ initMutex' = [initMutex EXCEPT ![th[t].model] = t]
           /\ th' = [th EXCEPT ![t].at = "cold"]
           /\ UNCHANGED <<running, managing>>
  <2>1. UNCHANGED <<registered, lockVars, poolVars, loadMutex, bulkMutex>>
    BY <1>1, <1>3 DEF lockVars
  <2>2. QED
    BY <1>1, <1>3, <2>1, ColdInv
<1>4. QED
  BY <1>2, <1>3 DEF EnterInit

\* A load that throws releases the mutexes and the lease.
LEMMA LoadThrowsInv ==
  ASSUME Inv, NEW t \in Threads, LoadThrows(t)
  PROVE  Inv'
<1>1. /\ th[t].at = "evict" /\ Leave(t, th[t].model) /\ th' = [th EXCEPT ![t] = Outside]
      /\ initMutex' = [initMutex EXCEPT ![th[t].model] = Nobody] /\ DropLoadMutex(t)
      /\ UNCHANGED <<registered, capacity, line, poolVars, bulkMutex>>
  BY DEF LoadThrows
<1>2. /\ ShapeFits(t) /\ MutexFits(t) /\ th[t] \in Thread /\ Nobody \notin Threads
  BY Before
<1>3. th[t].op \in {"request", "load"}
  BY <1>1, <1>2 DEF ShapeFits, Thread
<1>4. th[t].model \in Models /\ t \in running[th[t].model] \cup managing[th[t].model]
  BY <1>1, <1>3, Owned
<1>5. LoadMutexKept(t) /\ loadMutex' # t
  BY <1>1, LoadMutexProps
<1>6. /\ initMutex' \in [Models -> Owners] /\ \A m \in Models : initMutex'[m] # t
      /\ \A u \in Threads \ {t}, m \in Models : initMutex'[m] = u <=> initMutex[m] = u
  <2>1. initMutex[th[t].model] = t /\ \A m \in Models : m # th[t].model => initMutex[m] # t
    BY <1>1, <1>2, <1>4 DEF MutexFits, Loads
  <2>2. initMutex \in [Models -> Owners]
    BY DEF Inv, TypeOK
  <2>3. QED
    BY <1>1, <1>2, <1>4, <2>1, <2>2 DEF Owners
<1>7. QED
  BY <1>1, <1>3, <1>4, <1>5, <1>6, LeaveInv

\* A run that ends gives its lease back.
LEMMA RunEndsInv ==
  ASSUME Inv, NEW t \in Threads, RunEnds(t)
  PROVE  Inv'
<1>1. /\ th[t].at = "running" /\ Leave(t, th[t].model) /\ th' = [th EXCEPT ![t] = Outside]
      /\ UNCHANGED <<registered, capacity, line, poolVars, bulkMutex>>
      /\ UNCHANGED <<initMutex, loadMutex>>
  BY DEF RunEnds, mutexVars
<1>2. th[t].op = "request"
  BY <1>1, Before DEF ShapeFits, Thread
<1>3. t \in running[th[t].model] \cup managing[th[t].model]
  BY <1>1, <1>2, Owned
<1>4. LoadMutexKept(t) /\ loadMutex' # t
  BY <1>1, Before, LoadMutexProps DEF MutexFits, Evicting
<1>5. /\ initMutex' \in [Models -> Owners] /\ \A m \in Models : initMutex'[m] # t
      /\ \A u \in Threads \ {t}, m \in Models : initMutex'[m] = u <=> initMutex[m] = u
  <2>1. \A m \in Models : ~Loads(t, m)
    BY <1>1 DEF Loads
  <2>2. QED
    BY <1>1, <2>1, Before DEF Inv, TypeOK, MutexFits
<1>6. QED
  BY <1>1, <1>2, <1>3, <1>4, <1>5, LeaveInv

\* Eviction and the idle sweep unload what nobody uses, and skip the rest.
LEMMA TryUnloadInv ==
  ASSUME Inv, NEW t \in Threads, NEW b \in Thread, TryUnload(t, b),
         th[t].at \in {"evict", "sweep"}, th[t].at = "evict" => th[t].need > 0,
         b.op = th[t].op, b.at = th[t].at, b.model = th[t].model, b.victim = th[t].victim,
         b.todo = Tail(th[t].todo), b.later = th[t].later,
         th[t].at = "evict" => b.need = th[t].need - 1
  PROVE  Inv'
<1>1. th[t].todo # <<>> /\ UNCHANGED <<capacity, line, running, loadMutex>>
  BY DEF TryUnload
<1>2. CASE /\ CanTryAcquire(Head(th[t].todo))
           /\ managing' = [managing EXCEPT ![Head(th[t].todo)] = {t}]
           /\ Retire(t, Head(th[t].todo), b)
  BY <1>1, <1>2, RetireFreeInv
<1>3. CASE /\ th' = [th EXCEPT ![t].todo = Tail(@)]
           /\ UNCHANGED <<registered, managing, poolVars, initMutex, bulkMutex>>
  <2>1. UNCHANGED <<registered, lockVars, poolVars, mutexVars>>
    BY <1>1, <1>3 DEF lockVars, mutexVars
  <2>2. QED
    BY <1>1, <1>3, <2>1, SkipInv
<1>4. QED
  BY <1>2, <1>3 DEF TryUnload

\* The eviction loop tries its next victim: it passes it over or tears it down.
LEMMA EvictInv ==
  ASSUME Inv, NEW t \in Threads, Evict(t)
  PROVE  Inv'
<1>. DEFINE b == [th[t] EXCEPT !.todo = Tail(@), !.need = @ - 1]
<1>1. th[t].at = "evict" /\ th[t].need > 0 /\ TryUnload(t, b)
  BY DEF Evict
<1>2. /\ th[t] \in Thread /\ th[t].todo # <<>>
  BY <1>1, Before DEF TryUnload
<1>3. Tail(th[t].todo) \in Seq(Models) /\ th[t].need - 1 \in Nat
  BY <1>1, <1>2, TailProps DEF Thread
<1>4. /\ b \in Thread /\ b.op = th[t].op /\ b.at = th[t].at /\ b.model = th[t].model
      /\ b.victim = th[t].victim /\ b.todo = Tail(th[t].todo) /\ b.later = th[t].later
      /\ b.need = th[t].need - 1
  BY <1>2, <1>3 DEF Thread
<1>. HIDE DEF b
<1>5. QED
  BY <1>1, <1>4, TryUnloadInv

\* The idle sweep tries its next model in the same way.
LEMMA SweepInv ==
  ASSUME Inv, NEW t \in Threads, Sweep(t)
  PROVE  Inv'
<1>. DEFINE b == [th[t] EXCEPT !.todo = Tail(@)]
<1>1. th[t].at = "sweep" /\ TryUnload(t, b)
  BY DEF Sweep
<1>2. /\ th[t] \in Thread /\ th[t].todo # <<>>
  BY <1>1, Before DEF TryUnload
<1>3. Tail(th[t].todo) \in Seq(Models)
  BY <1>2, TailProps DEF Thread
<1>4. /\ b \in Thread /\ b.op = th[t].op /\ b.at = th[t].at /\ b.model = th[t].model
      /\ b.victim = th[t].victim /\ b.todo = Tail(th[t].todo) /\ b.later = th[t].later
  BY <1>2, <1>3 DEF Thread
<1>. HIDE DEF b
<1>5. QED
  BY <1>1, <1>4, TryUnloadInv

\* The first pass of a bulk unload.
LEMMA ReadyPassInv ==
  ASSUME Inv, NEW t \in Threads, ReadyPass(t)
  PROVE  Inv'
<1>1. /\ th[t].at = "ready" /\ th[t].todo # <<>> /\ UNCHANGED <<lockVars, loadMutex>>
  BY DEF ReadyPass
<1>2. CASE /\ Manages(t, Head(th[t].todo))
           /\ Retire(t, Head(th[t].todo), [th[t] EXCEPT !.todo = Tail(@)])
  BY <1>1, <1>2, RetireBulkInv DEF Manages
<1>3. CASE /\ th' = [th EXCEPT ![t].todo = Tail(@), ![t].later = Append(@, Head(th[t].todo))]
           /\ UNCHANGED <<registered, poolVars, initMutex, bulkMutex>>
  <2>1. UNCHANGED <<registered, lockVars, poolVars, mutexVars>>
    BY <1>1, <1>3 DEF mutexVars
  <2>2. QED
    BY <1>1, <1>3, <2>1, ReadySkipInv
<1>4. QED
  BY <1>2, <1>3 DEF ReadyPass

\* The second pass of a bulk unload.
LEMMA DrainPassInv ==
  ASSUME Inv, NEW t \in Threads, DrainPass(t)
  PROVE  Inv'
<1>1. /\ th[t].at = "drain" /\ th[t].todo # <<>> /\ t \in managing[Head(th[t].todo)]
      /\ Retire(t, Head(th[t].todo), [th[t] EXCEPT !.todo = Tail(@)])
      /\ UNCHANGED <<lockVars, loadMutex>>
  BY DEF DrainPass, Manages
<1>2. QED
  BY <1>1, RetireBulkInv

\* Every step of a thread preserves the invariant.
LEMMA StepsInv ==
  ASSUME Inv, NEW t \in Threads, Step(t)
  PROVE  Inv'
<1>1. CASE EnterInit(t) \/ StartLoad(t) \/ Evict(t)
  BY <1>1, EnterInitInv, StartLoadInv, EvictInv
<1>2. CASE LoadSucceeds(t) \/ LoadThrows(t) \/ RunEnds(t)
  BY <1>2, LoadSucceedsInv, LoadThrowsInv, RunEndsInv
<1>3. CASE Unload(t) \/ Retired(t)
  BY <1>3, UnloadInv, RetiredInv
<1>4. CASE KeepConfig(t) \/ StartProbe(t) \/ ProbeEnds(t)
  BY <1>4, KeepConfigInv, StartProbeInv, ProbeEndsInv
<1>5. ASSUME NEW n \in Capacities,
             ReplaceConfig(t, n) \/ RefuseConfig(t, n) \/ NeedsProbe(t, n)
      PROVE  Inv'
  BY <1>5, ReplaceConfigInv, RefuseConfigInv, NeedsProbeInv
<1>6. CASE Publish(t) \/ PublishEnds(t) \/ ReadyPass(t) \/ ReadyPassEnds(t) \/ DrainPass(t)
  BY <1>6, PublishInv, PublishEndsInv, ReadyPassInv, ReadyPassEndsInv, DrainPassInv
<1>7. CASE Sweep(t) \/ LoopEnds(t)
  BY <1>7, SweepInv, LoopEndsInv
<1>8. QED
  BY <1>1, <1>2, <1>3, <1>4, <1>5, <1>6, <1>7 DEF Step

\* Every step of the server preserves the invariant, and so does a stutter.
LEMMA NextInv == Inv /\ [Next]_vars => Inv'
<1>. SUFFICES ASSUME Inv, [Next]_vars PROVE Inv'
  OBVIOUS
<1>1. ASSUME NEW t \in Callers, Start(t) PROVE Inv'
  <2>1. ASSUME NEW m \in Models, BindRequest(t, m) PROVE Inv'
    BY <2>1, BindRequestInv
  <2>2. ASSUME NEW m \in Models, Register(t, m) PROVE Inv'
    BY <2>2, RegisterInv DEF Threads
  <2>3. ASSUME NEW m \in Models, NEW op \in {"unload", "load"}, QueueManager(t, m, op)
        PROVE  Inv'
    BY <2>3, QueueManagerInv
  <2>4. ASSUME NEW selection \in Selections(registered), StartBulk(t, selection) PROVE Inv'
    BY <2>4, StartBulkInv DEF Threads
  <2>5. QED
    BY <1>1, <2>1, <2>2, <2>3, <2>4 DEF Start
<1>2. ASSUME NEW t \in Callers, GiveUp(t) PROVE Inv'
  BY <1>2, GiveUpInv DEF Threads
<1>3. ASSUME NEW t \in Idlers, StartSweep(t) PROVE Inv'
  BY <1>3, StartSweepInv DEF Threads
<1>4. ASSUME NEW t \in Threads, Step(t) PROVE Inv'
  BY <1>4, StepsInv
<1>5. ASSUME NEW m \in Models, AdmitFirst(m) PROVE Inv'
  BY <1>5, AdmitFirstInv
<1>6. CASE UNCHANGED vars
  <2>1. UNCHANGED <<registered, capacity, line, running, managing, pool, resident,
                    initMutex, loadMutex, bulkMutex, th>>
    BY <1>6 DEF vars, lockVars, poolVars, mutexVars
  <2>2. TypeOK' /\ ResidentLimit'
    BY <2>1 DEF Inv, TypeOK, ResidentLimit
  <2>3. \A m \in Models : LockFits(m)' /\ PoolFits(m)'
    BY <2>1 DEF Inv, LockFits, PoolFits, Destroys
  <2>4. ASSUME NEW u \in Threads PROVE Spares(u)
    BY <2>1 DEF Spares, Residents, Waits
  <2>5. QED
    BY <2>2, <2>3, <2>4, OthersFit DEF Inv
<1>7. QED
  BY <1>1, <1>2, <1>3, <1>4, <1>5, <1>6 DEF Next

-----------------------------------------------------------------------------
(* The theorems *)

\* The inductive invariant holds in every state the server can reach.
THEOREM Invariance == Spec => []Inv
<1>1. Init => Inv
  BY InitInv
<1>2. Inv /\ [Next]_vars => Inv'
  BY NextInv
<1>3. QED
  BY <1>1, <1>2, PTL DEF Spec

\* Every variable of parallel_runtime.cpp keeps its type: pools have a size that
\* was configured, leases belong to threads, and every handler has a record.
THEOREM TypeCorrectness == Spec => []TypeOK
<1>1. Inv => TypeOK
  BY DEF Inv
<1>2. QED
  BY <1>1, Invariance, PTL

\* max_loaded_models holds for every number of models, threads and slots: a load
\* that publishes found room when it took model_load_mutex_, and no other load can
\* use that room up before it is done (ensure_model_loaded_locked).
THEOREM LimitHolds == Spec => []ResidentLimit
<1>1. Inv => ResidentLimit
  BY DEF Inv
<1>2. QED
  BY <1>1, Invariance, PTL

\* A run has a session in every slot from acquire_model_run to its end, and only
\* one thread at a time loads a model or destroys its sessions.
THEOREM SessionsOwned == Spec => []SessionsAreOwned
<1>1. Inv => SessionsAreOwned
  <2>. SUFFICES ASSUME Inv PROVE RunsHaveSessions /\ LifecycleIsExclusive
    BY DEF SessionsAreOwned
  <2>1. ASSUME NEW t \in Callers, th[t].at = "running"
        PROVE  /\ t \in running[th[t].model]
               /\ pool[th[t].model] = capacity[th[t].model] /\ resident[th[t].model]
    <3>1. t \in Threads /\ th[t].op = "request"
      BY <2>1, Before DEF ShapeFits, Thread, Threads
    <3>2. th[t].model \in Models /\ t \in running[th[t].model]
      BY <2>1, <3>1, Owned
    <3>3. resident[th[t].model]
      BY <2>1, <3>1, <3>2, Before DEF SessionFits
    <3>4. QED
      BY <3>2, <3>3 DEF Inv, PoolFits
  <2>2. ASSUME NEW m \in Models, NEW t \in Threads, Loads(t, m)
        PROVE  /\ pool[m] = 0 /\ ~resident[m] /\ initMutex[m] = t
               /\ t \in running[m] \cup managing[m]
    <3>1. /\ ShapeFits(t) /\ RetireFits(t) /\ MutexFits(t) /\ SessionFits(t)
          /\ th[t] \in Thread
          /\ Nobody \notin Models
      BY Before
    <3>2. th[t].op \in {"request", "load"} /\ th[t].at # "waiting"
      BY <2>2, <3>1 DEF Loads, ShapeFits, RetireFits, Thread
    <3>3. t \in running[m] \cup managing[m]
      BY <2>2, <3>2, Owned DEF Loads
    <3>4. pool[m] = 0 /\ initMutex[m] = t
      BY <2>2, <3>1 DEF SessionFits, MutexFits
    <3>5. QED
      BY <3>3, <3>4 DEF Inv, PoolFits
  <2>3. ASSUME NEW m \in Models, NEW t \in Threads, Destroys(t, m)
        PROVE  managing[m] = {t} /\ running[m] = {} /\ ~resident[m]
    <3>1. th[t].victim = m /\ m # Nobody /\ ~resident[m]
      BY <2>3, Before DEF Destroys, SessionFits
    <3>2. t \in managing[m]
      BY <3>1, Owned
    <3>3. QED
      BY <3>1, <3>2, ManagesAlone
  <2>4. RunsHaveSessions
    BY <2>1 DEF RunsHaveSessions
  <2>5. LifecycleIsExclusive
    BY <2>2, <2>3 DEF LifecycleIsExclusive
  <2>6. QED
    BY <2>4, <2>5
<1>2. QED
  BY <1>1, Invariance, PTL

\* Every handler of parallel_runtime.cpp has exactly the leases and places it
\* answers for, whatever exception, refusal or timeout it met on the way.
THEOREM ClaimsMatch == Spec => []ClaimsMatchHandlers
<1>1. Inv => ClaimsMatchHandlers
  <2>. SUFFICES ASSUME Inv, NEW t \in Threads
                PROVE  /\ Claimed(t) = Pledged(t)
                       /\ \A m \in Models :
                            Cardinality(Places(t, m)) + (IF t \in running[m] THEN 1 ELSE 0)
                              + (IF t \in managing[m] THEN 1 ELSE 0) <= 1
    BY DEF ClaimsMatchHandlers
  <2>1. /\ ShapeFits(t) /\ RetireFits(t) /\ ListFits(t) /\ ClaimsFit(t) /\ th[t] \in Thread
        /\ registered \subseteq Models
    BY Before
  <2>2. ASSUME NEW m \in Models
        PROVE  \A i \in DOMAIN line[m] :
                 /\ line[m][i].management \in BOOLEAN /\ line[m][i] \in Elements(line[m])
                 /\ line[m][i] = [caller |-> line[m][i].caller,
                                  management |-> line[m][i].management]
    <3>. DEFINE Place == [caller : Callers, management : BOOLEAN]
    <3>1. line[m] \in Seq(Place)
      BY DEF Inv, TypeOK
    <3>. HIDE DEF Place
    <3>2. \A i \in DOMAIN line[m] : line[m][i] \in Place /\ line[m][i] \in Elements(line[m])
      BY <3>1 DEF Elements
    <3>3. QED
      BY <3>2 DEF Place
  <2>3. ASSUME NEW m \in Models, NEW i \in Places(t, m)
        PROVE  /\ i \in DOMAIN line[m]
               /\ \E b \in BOOLEAN :
                    line[m][i] = [caller |-> t, management |-> b] /\ Waits(t, m, b)
    BY <2>2 DEF Places, Waits
  <2>4. ASSUME NEW m \in Models, NEW b \in BOOLEAN, Waits(t, m, b)
        PROVE  Places(t, m) # {}
    <3>1. PICK i \in DOMAIN line[m] : line[m][i] = [caller |-> t, management |-> b]
      BY <2>4 DEF Waits, Elements
    <3>2. QED
      BY <3>1 DEF Places
  <2>5. ASSUME NEW m \in Models
        PROVE  m \in Claimed(t) <=> m \in Pledged(t)
    <3>1. Places(t, m) # {} <=> \E b \in BOOLEAN : Waits(t, m, b)
      <4>1. Places(t, m) # {} => \E b \in BOOLEAN : Waits(t, m, b)
        BY <2>2, <2>3
      <4>2. QED
        BY <2>4, <4>1
    <3>2. m \in Claimed(t) <=> Has(t, m)
      BY <3>1 DEF Claimed, Has
    <3>3. QED
      BY <2>1, <3>2 DEF ClaimsFit
  <2>6. Claimed(t) \subseteq Models /\ Pledged(t) \subseteq Models
    BY <2>1 DEF Claimed, Pledged, ShapeFits, ListFits, Thread
  <2>7. ASSUME NEW m \in Models
        PROVE  Cardinality(Places(t, m)) + (IF t \in running[m] THEN 1 ELSE 0)
                 + (IF t \in managing[m] THEN 1 ELSE 0) <= 1
    <3>1. CASE Places(t, m) = {}
      <4>1. Cardinality(Places(t, m)) = 0
        BY <3>1, FS_EmptySet
      <4>2. ~(t \in running[m] /\ t \in managing[m])
        BY DEF Inv, LockFits
      <4>3. QED
        BY <4>1, <4>2
    <3>2. CASE Places(t, m) # {}
      <4>1. PICK i \in Places(t, m) : TRUE
        BY <3>2
      <4>2. ASSUME NEW j \in Places(t, m) PROVE j = i
        <5>1. PICK b \in BOOLEAN :
                   line[m][i] = [caller |-> t, management |-> b] /\ Waits(t, m, b)
          BY <2>3, <4>1
        <5>2. PICK c \in BOOLEAN :
                   line[m][j] = [caller |-> t, management |-> c] /\ Waits(t, m, c)
          BY <2>3, <4>2
        <5>3. (b <=> th[t].op # "request") /\ (c <=> th[t].op # "request")
          BY <2>1, <5>1, <5>2 DEF ClaimsFit
        <5>4. b = c
          BY <5>3
        <5>5. line[m][i] = line[m][j] /\ i \in DOMAIN line[m] /\ j \in DOMAIN line[m]
          BY <2>3, <4>1, <4>2, <5>1, <5>2, <5>4
        <5>6. QED
          BY <5>5 DEF Inv, LockFits, Distinct
      <4>3. Places(t, m) = {i}
        BY <4>1, <4>2
      <4>4. Cardinality(Places(t, m)) = 1
        BY <4>3, FS_Singleton
      <4>5. t \notin running[m] \cup managing[m]
        <5>1. \E b \in BOOLEAN : Waits(t, m, b)
          BY <2>3, <4>1
        <5>2. QED
          BY <2>1, <5>1 DEF ClaimsFit
      <4>6. QED
        BY <4>4, <4>5
    <3>3. QED
      BY <3>1, <3>2
  <2>8. QED
    BY <2>5, <2>6, <2>7
<1>2. QED
  BY <1>1, Invariance, PTL

-----------------------------------------------------------------------------
(* The locks are used as Admission allows *)

\* What the step does to the lock of m is a step of Admission, or none.
Uses(m) == Lock(m)!Next \/ UNCHANGED <<capacity[m], line[m], running[m], managing[m]>>

\* A thread without a claim on m is not present in its lock.
LEMMA AbsentProps ==
  ASSUME Inv, NEW t \in Threads, NEW m \in Models, ~Has(t, m)
  PROVE  t \notin Lock(m)!Present
<1>. DEFINE Place == [caller : Callers, management : BOOLEAN]
<1>1. line[m] \in Seq(Place)
  BY DEF Inv, TypeOK
<1>. HIDE DEF Place
<1>2. ASSUME NEW i \in DOMAIN line[m], line[m][i].caller = t PROVE FALSE
  <2>1. line[m][i] \in Place /\ line[m][i] \in Elements(line[m])
    BY <1>1 DEF Elements
  <2>2. PICK b \in BOOLEAN : line[m][i] = [caller |-> t, management |-> b]
    BY <1>2, <2>1 DEF Place
  <2>3. QED
    BY <2>1, <2>2 DEF Has, Waits
<1>3. QED
  BY <1>2 DEF Has, Lock!Present

\* A step that leaves the locks alone stutters in all of them.
LEMMA UsesNothing ==
  ASSUME UNCHANGED lockVars
  PROVE  \A m \in Models : Uses(m)
  BY DEF Uses, lockVars

\* A newcomer that lines up.
LEMMA UsesLineUp ==
  ASSUME Inv, NEW t \in Threads, NEW m \in Models, NEW b \in BOOLEAN, ~Has(t, m),
         LineUp(t, m, b), UNCHANGED <<capacity, running, managing>>
  PROVE  \A k \in Models : Uses(k)
<1>1. line' = [line EXCEPT ![m] = Append(line[m], [caller |-> t, management |-> b])]
  BY DEF LineUp
<1>2. /\ line'[m] = Append(line[m], [caller |-> t, management |-> b])
      /\ \A k \in Models \ {m} : line'[k] = line[k]
  BY <1>1 DEF Inv, TypeOK
<1>3. Lock(m)!LineUp(t, b)
  BY <1>2, AbsentProps DEF Lock!LineUp
<1>4. Uses(m)
  BY <1>3 DEF Uses, Lock!Next
<1>5. ASSUME NEW k \in Models \ {m} PROVE Uses(k)
  BY <1>2 DEF Uses
<1>6. QED
  BY <1>4, <1>5

\* A thread that enters a lock nobody waits for, as a request or a manager.
LEMMA UsesEnter ==
  ASSUME Inv, NEW t \in Threads, NEW m \in Models, ~Has(t, m), line[m] = <<>>,
         \/ /\ RoomForRequest(m) /\ running' = [running EXCEPT ![m] = @ \cup {t}]
            /\ UNCHANGED managing
         \/ /\ RoomForManager(m) /\ managing' = [managing EXCEPT ![m] = {t}]
            /\ UNCHANGED running,
         UNCHANGED <<capacity, line>>
  PROVE  \A k \in Models : Uses(k)
<1>1. /\ \A k \in Models \ {m} : running'[k] = running[k] /\ managing'[k] = managing[k]
      /\ \/ /\ RoomForRequest(m) /\ running'[m] = running[m] \cup {t}
            /\ managing'[m] = managing[m]
         \/ RoomForManager(m) /\ managing'[m] = {t} /\ running'[m] = running[m]
  BY DEF Inv, TypeOK
<1>2. Lock(m)!Enter(t)
  BY <1>1, AbsentProps
     DEF Lock!Enter, Lock!RoomForRequest, Lock!RoomForManager, RoomForRequest, RoomForManager,
         Lock!Cardinality, Cardinality
<1>3. Uses(m)
  BY <1>2 DEF Uses, Lock!Next
<1>4. ASSUME NEW k \in Models \ {m} PROVE Uses(k)
  BY <1>1 DEF Uses
<1>5. QED
  BY <1>3, <1>4

\* A thread that gives its lease back.
LEMMA UsesLeave ==
  ASSUME Inv, NEW t \in Threads, NEW m \in Models, t \in running[m] \cup managing[m],
         Leave(t, m), UNCHANGED <<capacity, line>>
  PROVE  \A k \in Models : Uses(k)
<1>1. /\ running'[m] = running[m] \ {t} /\ managing'[m] = managing[m] \ {t}
      /\ \A k \in Models \ {m} : running'[k] = running[k] /\ managing'[k] = managing[k]
  BY DEF Inv, TypeOK, Leave
<1>2. Lock(m)!Leave(t)
  BY <1>1 DEF Lock!Leave
<1>3. Uses(m)
  BY <1>2 DEF Uses, Lock!Next
<1>4. ASSUME NEW k \in Models \ {m} PROVE Uses(k)
  BY <1>1 DEF Uses
<1>5. QED
  BY <1>3, <1>4

\* A handler whose wait has timed out.
LEMMA UsesGiveUp ==
  ASSUME Inv, NEW t \in Threads, GiveUp(t)
  PROVE  \A k \in Models : Uses(k)
<1>1. th[t].at = "waiting" /\ UNCHANGED <<capacity, running, managing>>
  BY DEF GiveUp
<1>2. PICK m \in Models : m = th[t].model
  BY <1>1, Before DEF ShapeFits, Thread
<1>3. PICK i \in DOMAIN line[m] : line' = [line EXCEPT ![m] = RemoveAt(line[m], i)]
  BY <1>2 DEF GiveUp
<1>4. /\ line'[m] = RemoveAt(line[m], i)
      /\ \A k \in Models \ {m} : line'[k] = line[k]
  BY <1>3 DEF Inv, TypeOK
<1>5. Lock(m)!GiveUp(i)
  BY <1>1, <1>4 DEF Lock!GiveUp, RemoveAt
<1>6. Uses(m)
  BY <1>5 DEF Uses, Lock!Next
<1>7. ASSUME NEW k \in Models \ {m} PROVE Uses(k)
  BY <1>1, <1>4 DEF Uses
<1>8. QED
  BY <1>6, <1>7

\* The end of a teardown: the manager resizes the lock, or leaves it.
LEMMA UsesRetired ==
  ASSUME Inv, NEW t \in Threads, Retired(t)
  PROVE  \A k \in Models : Uses(k)
<1>1. /\ th[t].at = "retire" /\ th[t].victim # Nobody /\ RetireFits(t)
  BY Before DEF Retired, RetireFits
<1>2. PICK v \in Models : v = th[t].victim /\ t \in managing[v]
  BY <1>1, Owned
<1>3. managing[v] = {t} /\ running[v] = {}
  BY <1>2, ManagesAlone
<1>4. AfterTeardown(t, v) /\ UNCHANGED <<line, running>>
  BY <1>2 DEF Retired
<1>5. CASE th[t].back = "init"
  <2>1. /\ capacity' = [capacity EXCEPT ![v] = th[t].want] /\ managing' = managing
        /\ th[t].want \in Capacities
    BY <1>1, <1>4, <1>5 DEF AfterTeardown, RetireFits
  <2>2. capacity'[v] = th[t].want /\ \A k \in Models \ {v} : capacity'[k] = capacity[k]
    BY <2>1 DEF Inv, TypeOK
  <2>3. Lock(v)!Resize(th[t].want)
    BY <1>3, <1>4, <2>1, <2>2 DEF Lock!Resize
  <2>4. Uses(v)
    BY <2>1, <2>3 DEF Uses, Lock!Next
  <2>5. ASSUME NEW k \in Models \ {v} PROVE Uses(k)
    BY <1>4, <2>1, <2>2 DEF Uses
  <2>6. QED
    BY <2>4, <2>5
<1>6. CASE th[t].back # "init"
  <2>1. managing' = [managing EXCEPT ![v] = {}] /\ UNCHANGED <<capacity, line, running>>
    BY <1>4, <1>6 DEF AfterTeardown
  <2>2. managing'[v] = {} /\ \A k \in Models \ {v} : managing'[k] = managing[k]
    BY <2>1 DEF Inv, TypeOK
  <2>3. Lock(v)!Leave(t)
    BY <1>3, <2>1, <2>2 DEF Lock!Leave
  <2>4. Uses(v)
    BY <2>3 DEF Uses, Lock!Next
  <2>5. ASSUME NEW k \in Models \ {v} PROVE Uses(k)
    BY <2>1, <2>2 DEF Uses
  <2>6. QED
    BY <2>4, <2>5
<1>7. QED
  BY <1>5, <1>6

\* dispatch() admits the oldest waiter when there is room for it.
LEMMA UsesAdmitFirst ==
  ASSUME Inv, NEW m \in Models, AdmitFirst(m)
  PROVE  \A k \in Models : Uses(k)
<1>1. /\ line[m] # <<>> /\ line' = [line EXCEPT ![m] = Tail(line[m])] /\ UNCHANGED capacity
      /\ \/ /\ Head(line[m]).management /\ RoomForManager(m)
            /\ managing' = [managing EXCEPT ![m] = {Head(line[m]).caller}] /\ UNCHANGED running
         \/ /\ ~Head(line[m]).management /\ RoomForRequest(m)
            /\ running' = [running EXCEPT ![m] = @ \cup {Head(line[m]).caller}]
            /\ UNCHANGED managing
  BY DEF AdmitFirst, Settled
<1>2. /\ line'[m] = Tail(line[m])
      /\ \/ /\ Head(line[m]).management /\ RoomForManager(m)
            /\ managing'[m] = {Head(line[m]).caller} /\ running'[m] = running[m]
         \/ /\ ~Head(line[m]).management /\ RoomForRequest(m)
            /\ running'[m] = running[m] \cup {Head(line[m]).caller}
            /\ managing'[m] = managing[m]
      /\ \A k \in Models \ {m} :
           line'[k] = line[k] /\ running'[k] = running[k] /\ managing'[k] = managing[k]
  BY <1>1 DEF Inv, TypeOK
<1>3. Lock(m)!AdmitFirst
  BY <1>1, <1>2
     DEF Lock!AdmitFirst, Lock!RoomForRequest, Lock!RoomForManager, RoomForRequest,
         RoomForManager, Lock!Cardinality, Cardinality
<1>4. Uses(m)
  BY <1>3 DEF Uses, Lock!Next
<1>5. ASSUME NEW k \in Models \ {m} PROVE Uses(k)
  BY <1>1, <1>2 DEF Uses
<1>6. QED
  BY <1>4, <1>5

\* What a handler does once its model is loaded: a request runs, a load returns.
LEMMA UsesLoaded ==
  ASSUME Inv, NEW t \in Threads, Loaded(t), UNCHANGED <<capacity, line>>,
         th[t].op = "load" => th[t].at # "waiting"
  PROVE  \A k \in Models : Uses(k)
<1>1. CASE UNCHANGED <<running, managing>>
  BY <1>1, UsesNothing DEF lockVars
<1>2. CASE th[t].op = "load" /\ Leave(t, th[t].model)
  <2>1. PICK m \in Models : m = th[t].model /\ t \in running[m] \cup managing[m]
    BY <1>2, Owned
  <2>2. Leave(t, m)
    BY <1>2, <2>1
  <2>3. QED
    BY <2>1, <2>2, UsesLeave
<1>3. QED
  BY <1>1, <1>2 DEF Loaded

\* try_acquire in a loop: it takes a free lock, or leaves the lock alone.
LEMMA UsesTryUnload ==
  ASSUME Inv, NEW t \in Threads, NEW b, TryUnload(t, b)
  PROVE  \A k \in Models : Uses(k)
<1>1. PICK v \in Models : v = Head(th[t].todo)
  <2>1. th[t].todo \in Seq(Models) /\ th[t].todo # <<>>
    BY Before DEF TryUnload, Thread
  <2>2. QED
    BY <2>1, TailProps
<1>2. UNCHANGED <<capacity, line, running>>
  BY DEF TryUnload
<1>3. CASE CanTryAcquire(v) /\ managing' = [managing EXCEPT ![v] = {t}]
  <2>1. line[v] = <<>> /\ RoomForManager(v) /\ ~Has(t, v)
    BY <1>3, FreeProps DEF CanTryAcquire
  <2>2. UNCHANGED running /\ UNCHANGED <<capacity, line>>
    BY <1>2
  <2>3. QED
    BY <1>3, <2>1, <2>2, UsesEnter
<1>4. CASE UNCHANGED managing
  BY <1>2, <1>4, UsesNothing DEF lockVars
<1>5. QED
  BY <1>1, <1>3, <1>4 DEF TryUnload

\* A handler that returns its lease because it failed, or is done.
LEMMA UsesReturn ==
  ASSUME Inv, NEW t \in Threads, Leave(t, th[t].model), UNCHANGED <<capacity, line>>,
         \/ th[t].op \in {"request", "load"} /\ th[t].at # "waiting"
         \/ th[t].op = "load" /\ t \in managing[th[t].model]
  PROVE  \A k \in Models : Uses(k)
<1>1. th[t].model \in registered /\ registered \subseteq Models
  BY Before DEF ShapeFits
<1>2. PICK m \in Models : m = th[t].model
  BY <1>1
<1>3. t \in running[m] \cup managing[m]
  BY <1>2, Owned
<1>4. Leave(t, m)
  BY <1>2
<1>5. QED
  BY <1>3, <1>4, UsesLeave

\* A caller outside has no claim on any lock.
LEMMA UsesStart ==
  ASSUME Inv, NEW t \in Callers, Start(t)
  PROVE  \A k \in Models : Uses(k)
<1>1. t \in Threads
  BY DEF Threads
<1>2. ASSUME th[t] = Outside, NEW m \in Models PROVE ~Has(t, m)
  BY <1>1, <1>2, Before, OutsideProps DEF ClaimsFit, Pledged
<1>3. ASSUME NEW m \in Models, BindRequest(t, m) PROVE \A k \in Models : Uses(k)
  <2>1. ~Has(t, m) /\ UNCHANGED <<capacity, managing>>
    BY <1>2, <1>3 DEF BindRequest
  <2>2. CASE /\ line[m] = <<>> /\ RoomForRequest(m)
             /\ running' = [running EXCEPT ![m] = @ \cup {t}] /\ UNCHANGED line
    <3>1. UNCHANGED managing /\ UNCHANGED <<capacity, line>>
      BY <2>1, <2>2
    <3>2. QED
      BY <1>1, <2>1, <2>2, <3>1, UsesEnter
  <2>3. CASE LineUp(t, m, FALSE) /\ UNCHANGED running
    <3>1. UNCHANGED <<capacity, running, managing>>
      BY <2>1, <2>3
    <3>2. QED
      BY <1>1, <2>1, <2>3, <3>1, UsesLineUp
  <2>4. QED
    BY <1>3, <2>2, <2>3 DEF BindRequest
<1>4. ASSUME NEW m \in Models, NEW op \in {"unload", "load"}, QueueManager(t, m, op)
      PROVE  \A k \in Models : Uses(k)
  <2>1. /\ ~Has(t, m) /\ LineUp(t, m, TRUE)
        /\ UNCHANGED <<capacity, running, managing>>
    BY <1>2, <1>4 DEF QueueManager
  <2>2. QED
    BY <1>1, <2>1, UsesLineUp
<1>5. ASSUME NEW m \in Models, Register(t, m) PROVE \A k \in Models : Uses(k)
  <2>1. /\ ~Has(t, m) /\ m \notin registered /\ managing' = [managing EXCEPT ![m] = {t}]
        /\ UNCHANGED running /\ UNCHANGED <<capacity, line>>
    BY <1>2, <1>5 DEF Register
  <2>2. line[m] = <<>> /\ RoomForManager(m)
    BY <2>1 DEF Inv, LockFits, RoomForManager
  <2>3. QED
    BY <1>1, <2>1, <2>2, UsesEnter
<1>6. ASSUME NEW selection, StartBulk(t, selection) PROVE \A k \in Models : Uses(k)
  BY <1>6, UsesNothing DEF StartBulk
<1>7. QED
  BY <1>3, <1>4, <1>5, <1>6 DEF Start

\* What a handler does next on its own account.
LEMMA UsesStep ==
  ASSUME Inv, NEW t \in Threads, Step(t)
  PROVE  \A k \in Models : Uses(k)
<1>1. ASSUME EnterInit(t) PROVE \A k \in Models : Uses(k)
  <2>1. CASE Loaded(t)
    <3>1. UNCHANGED <<capacity, line>>
      BY <1>1 DEF EnterInit
    <3>2. th[t].op = "load" => th[t].at # "waiting"
      BY <1>1 DEF EnterInit, Initializes
    <3>3. QED
      BY <2>1, <3>1, <3>2, UsesLoaded
  <2>2. CASE UNCHANGED <<running, managing>>
    BY <1>1, <2>2, UsesNothing DEF EnterInit, lockVars
  <2>3. QED
    BY <1>1, <2>1, <2>2 DEF EnterInit
<1>2. ASSUME LoadSucceeds(t) PROVE \A k \in Models : Uses(k)
  <2>1. Loaded(t) /\ th[t].at = "evict" /\ UNCHANGED <<capacity, line>>
    BY <1>2 DEF LoadSucceeds
  <2>2. QED
    BY <2>1, UsesLoaded
<1>3. ASSUME Evict(t) \/ Sweep(t) PROVE \A k \in Models : Uses(k)
  BY <1>3, UsesTryUnload DEF Evict, Sweep
<1>4. ASSUME LoadThrows(t) \/ RunEnds(t) PROVE \A k \in Models : Uses(k)
  <2>1. /\ Leave(t, th[t].model) /\ UNCHANGED <<capacity, line>>
        /\ th[t].at \in {"evict", "running"}
    BY <1>4 DEF LoadThrows, RunEnds
  <2>2. th[t].op \in {"request", "load"}
    BY <2>1, Before DEF ShapeFits, Thread
  <2>3. QED
    BY <2>1, <2>2, UsesReturn
<1>5. ASSUME NEW n \in Capacities, RefuseConfig(t, n) PROVE \A k \in Models : Uses(k)
  <2>1. /\ Leave(t, th[t].model) /\ UNCHANGED <<capacity, line>>
        /\ th[t].op = "load" /\ t \in managing[th[t].model]
    BY <1>5 DEF RefuseConfig, Reconfigures, Manages
  <2>2. QED
    BY <2>1, UsesReturn
<1>6. ASSUME ProbeEnds(t) PROVE \A k \in Models : Uses(k)
  <2>1. CASE UNCHANGED lockVars
    BY <2>1, UsesNothing
  <2>2. CASE Leave(t, th[t].model) /\ UNCHANGED <<capacity, line>>
    <3>1. th[t].op = "load" /\ th[t].at = "probe"
      BY <1>6, Before DEF ProbeEnds, ShapeFits, Thread
    <3>2. QED
      BY <2>2, <3>1, UsesReturn
  <2>3. QED
    BY <1>6, <2>1, <2>2 DEF ProbeEnds
<1>7. ASSUME Publish(t) PROVE \A k \in Models : Uses(k)
  <2>1. /\ th[t].at = "publish" /\ th[t].todo # <<>> /\ LineUp(t, Head(th[t].todo), TRUE)
        /\ UNCHANGED <<capacity, running, managing>>
    BY <1>7 DEF Publish
  <2>2. /\ ShapeFits(t) /\ RetireFits(t) /\ ListFits(t) /\ ClaimsFit(t) /\ th[t] \in Thread
    BY Before
  <2>3. /\ Head(th[t].todo) \in Models /\ Head(th[t].todo) \in Elements(th[t].todo)
    BY <2>1, <2>2, TailProps DEF Thread
  <2>4. PICK v \in Models : v = Head(th[t].todo)
    BY <2>3
  <2>5. th[t].op = "bulk" /\ th[t].victim = Nobody
    BY <2>1, <2>2 DEF ShapeFits, RetireFits, Thread
  <2>6. v \notin Elements(th[t].later) /\ v # Nobody
    BY <2>2, <2>3, <2>4, Before DEF ListFits
  <2>7. v \notin Pledged(t)
    BY <2>1, <2>5, <2>6 DEF Pledged
  <2>8. ~Has(t, v) /\ LineUp(t, v, TRUE)
    BY <2>1, <2>2, <2>4, <2>7 DEF ClaimsFit
  <2>9. QED
    BY <2>1, <2>8, UsesLineUp
<1>8. ASSUME \/ StartLoad(t) \/ Unload(t) \/ KeepConfig(t) \/ StartProbe(t)
             \/ \E n \in Capacities : ReplaceConfig(t, n) \/ NeedsProbe(t, n)
             \/ PublishEnds(t) \/ ReadyPass(t) \/ ReadyPassEnds(t) \/ DrainPass(t)
             \/ LoopEnds(t)
      PROVE  \A k \in Models : Uses(k)
  <2>1. UNCHANGED lockVars
    BY <1>8 DEF StartLoad, Unload, KeepConfig, StartProbe, ReplaceConfig, NeedsProbe,
                PublishEnds, ReadyPass, ReadyPassEnds, DrainPass, LoopEnds
  <2>2. QED
    BY <2>1, UsesNothing
<1>9. QED
  BY <1>1, <1>2, <1>3, <1>4, <1>5, <1>6, <1>7, <1>8, UsesRetired DEF Step

\* The handlers use each lock of parallel_admission.h as Admission allows: only the
\* manager of a model resizes it, nobody leaves a lock that it has not got, and
\* neither eviction nor the idle thread overtakes a waiter.
THEOREM AdmissionUsed == Spec => UsesAdmission
<1>1. Inv /\ [Next]_vars => \A m \in Models : Uses(m)
  <2>. SUFFICES ASSUME Inv, [Next]_vars PROVE \A m \in Models : Uses(m)
    OBVIOUS
  <2>1. ASSUME NEW t \in Callers, Start(t) \/ GiveUp(t) PROVE \A m \in Models : Uses(m)
    BY <2>1, UsesStart, UsesGiveUp DEF Threads
  <2>2. ASSUME NEW t \in Idlers, StartSweep(t) PROVE \A m \in Models : Uses(m)
    BY <2>2, UsesNothing DEF StartSweep
  <2>3. ASSUME NEW t \in Threads, Step(t) PROVE \A m \in Models : Uses(m)
    BY <2>3, UsesStep
  <2>4. ASSUME NEW m \in Models, AdmitFirst(m) PROVE \A k \in Models : Uses(k)
    BY <2>4, UsesAdmitFirst
  <2>5. CASE UNCHANGED vars
    BY <2>5, UsesNothing DEF vars
  <2>6. QED
    BY <2>1, <2>2, <2>3, <2>4, <2>5 DEF Next
<1>2. Inv /\ [Next]_vars
        => [\A m \in Models :
              Lock(m)!Next \/ UNCHANGED <<capacity[m], line[m], running[m], managing[m]>>]_vars
  BY <1>1 DEF Uses
<1>3. QED
  BY <1>2, Invariance, PTL DEF Spec, UsesAdmission
=============================================================================
