------------------------- MODULE CachedDecodeProof -------------------------
(***************************************************************************)
(* For any window, capacities, prompts and lengths of an append: whatever  *)
(* order of prompts, growth, wrapping, resets and copies, every step sees  *)
(* exactly its window, and an export is in order of position.              *)
(*                                                                         *)
(* The argument: all three decoders use their cache as a ring, a plain one *)
(* being a ring that never wraps.  A ring HOLDS the end of a sequence when *)
(* each position it should still keep lies in its slot, Place.  Exporting, *)
(* importing and writing rows keep that, by facts about remainders; and    *)
(* the rows of a ring that holds a sequence are its window, whatever their *)
(* order.                                                                  *)
(***************************************************************************)
EXTENDS CachedDecode, WellFoundedInduction, TLAPS

\* The slot of position p in a ring of that many steps that pins its first slots.
Place(p, pin, steps) == IF p < pin THEN p ELSE pin + ((p - pin) % (steps - pin))

\* The positions such a ring keeps of a sequence of that length.
Keeps(end, pin, steps) == {q \in 0 .. end - 1 : q < pin \/ q >= end - (steps - pin)}

\* Each of them is where its position says.
Holds(rows, end, pin, steps) ==
  \A q \in Keeps(end, pin, steps) : rows[Place(q, pin, steps)] = q

\* The lesser of two numbers.
Lesser(m, n) == IF m <= n THEN m ELSE n

\* A plain cache is a ring that never wraps and pins nothing.
Pin(c) == IF c.ring THEN c.pinned ELSE 0

\* A cache counts the rows that are left of its sequence, and only a ring wraps.
IsCache(c) ==
  /\ c \in [steps : Nat, ring : BOOLEAN, pinned : Nat, valid : Nat, end : 0 .. MaxEnd,
            rows : [0 .. c.steps - 1 -> Contents]]
  /\ c.steps > 0
  /\ c.ring => c.pinned < c.steps
  /\ c.valid = Lesser(c.end, c.steps)
  /\ ~c.ring => c.end <= c.steps

\* The end of the sequence that is in the cache: the cursor of the bounded
\* decoders counts on where the count of the cache stops.
End == IF mode \in Vibevoice THEN cache.end ELSE cursor.end

\* What TypeOK says of the variables other than the cache and seen.
VarsFit ==
  /\ mode \in Modes
  /\ cursor \in [valid : Nat, end : 0 .. MaxEnd, steps : {0, cache.steps}]
  /\ cursor.valid <= cursor.steps
  /\ mask \subseteq 0 .. cache.steps - 1
  /\ uploaded \in BOOLEAN /\ pinned \in Nat

\* Once there is a cache it holds the end of the sequence; before, there is nothing.
CacheFits ==
  IF HasState
    THEN IsCache(cache) /\ Holds(cache.rows, End, Pin(cache), cache.steps)
    ELSE cache = NewCache(0, FALSE, 0) /\ cursor = NoCursor /\ seen = NoAttention

\* The cursor of voxtral agrees with its cache until that is full, which only a
\* cache of the whole window is allowed to be; the kept mask shows the valid slots.
BoundedFits ==
  /\ ~cache.ring /\ cache.steps <= WindowOf(mode)
  /\ cursor.valid = Lesser(cursor.end, cursor.steps) /\ cursor.valid = cache.valid
  /\ cursor.steps = 0 => cursor.end = 0
  /\ cache.steps < WindowOf(mode) => cursor.end <= cache.steps
  /\ uploaded => mask = 0 .. cursor.valid - 1

\* The cursor of personaplex agrees with its cache.
ContextFits ==
  /\ ~cache.ring /\ cache.steps = Context /\ cursor.steps = Context
  /\ cursor.valid = cache.valid /\ cursor.end = cache.end
  /\ mask = {} /\ ~uploaded

\* vibevoice has a ring exactly with a history window, and pins what it recorded.
VibevoiceFits ==
  /\ cursor = NoCursor /\ mask = {} /\ ~uploaded
  /\ HasState => (cache.ring <=> mode = "history") /\ cache.pinned = pinned
  /\ cache.ring => cache.steps = CacheGraphCapacity(History)

\* A position saw its window if nothing appended with it can have overwritten a
\* slot: it is the last one, or the append did not wrap around.
SeenFits ==
  /\ seen \in [DOMAIN seen -> SUBSET Contents]
  /\ DOMAIN seen \subseteq 0 .. MaxEnd
  /\ \A p \in DOMAIN seen :
       (\/ mode # "history"
        \/ \A q \in DOMAIN seen : q <= p
        \/ \A q \in DOMAIN seen : q < cache.steps)
         => seen[p] = Attendable(p)

Inv ==
  /\ VarsFit /\ CacheFits /\ SeenFits
  /\ mode \in Bounded => BoundedFits
  /\ mode = "context" => ContextFits
  /\ mode \in Vibevoice => VibevoiceFits

----------------------------------------------------------------------------
(* Integers: the least and the greatest element, and remainders *)

\* The assumption on the constants, in parts.
LEMMA ConstantProps ==
  /\ MaxEnd \in Nat /\ Context \in Nat \ {0} /\ Context <= MaxEnd
  /\ History \in Nat \ {0} /\ Initial \in Nat \ {0} /\ Growth \in Nat \ {0}
  /\ Positions \in Nat \ {0}
  /\ Prompts \subseteq 1 .. MaxEnd /\ Suffixes \subseteq Nat \ {0}
BY CachedDecodeAssumption

\* Every set of numbers has a least element.
LEMMA LeastElement ==
  ASSUME NEW T \in SUBSET Nat, T # {}
  PROVE  \E x \in T : \A y \in T : x <= y
<1>1. IsWellFoundedOn(OpToRel(<, Nat), Nat)
  BY NatLessThanWellFounded
<1>2. PICK x \in T : \A y \in T : ~ (<<y, x>> \in OpToRel(<, Nat))
  BY <1>1, WFMin, Zenon
<1>3. \A y \in T : y < x <=> <<y, x>> \in OpToRel(<, Nat)
  BY <1>2, Zenon DEF OpToRel
<1>4. \A y \in T : ~ (y < x)
  BY <1>2, <1>3, Zenon
<1>5. x \in T /\ x \in Nat /\ \A y \in T : y \in Nat
  BY <1>2, Zenon
<1>6. \A y \in T : x <= y
  BY <1>4, <1>5
<1>7. QED
  BY <1>5, <1>6

\* Min of the community modules returns that element.
LEMMA MinProps ==
  ASSUME NEW T \in SUBSET Nat, T # {}
  PROVE  Min(T) \in T /\ \A y \in T : Min(T) <= y
BY LeastElement DEF Min

\* A bounded set has a greatest element, and Max returns it.
LEMMA MaxProps ==
  ASSUME NEW n \in Nat, NEW T \in SUBSET (0 .. n), T # {}
  PROVE  Max(T) \in T /\ \A y \in T : y <= Max(T)
<1>. DEFINE R == {n - y : y \in T}
<1>1. R \in SUBSET Nat /\ R # {}
  <2>1. \A y \in T : n - y \in Nat
    OBVIOUS
  <2>2. QED
    BY <2>1
<1>2. PICK x \in R : \A y \in R : x <= y
  BY <1>1, LeastElement
<1>3. PICK z \in T : x = n - z
  BY <1>2
<1>4. \A y \in T : n - z <= n - y
  BY <1>2, <1>3
<1>5. \A y \in T : z >= y
  BY <1>3, <1>4
<1>6. QED
  BY <1>3, <1>5 DEF Max

\* A quotient and a remainder add up.
LEMMA DivMod ==
  ASSUME NEW c \in Nat, c > 0, NEW a \in Int
  PROVE  a % c \in 0 .. c - 1 /\ a \div c \in Int /\ a = (c * (a \div c)) + (a % c)
OBVIOUS

\* There is only one remainder.
LEMMA ModUnique ==
  ASSUME NEW c \in Nat, c > 0, NEW k \in Int, NEW s \in 0 .. c - 1,
         NEW a \in Int, a = (c * k) + s
  PROVE  a % c = s
<1>. DEFINE y == a \div c
            r == a % c
<1>1. a = (c * y) + r /\ y \in Int /\ r \in 0 .. c - 1
  BY DivMod
<1>. HIDE DEF y, r
<1>2. s - r = c * (y - k)
  BY <1>1
<1>3. y - k >= 1 => c * (y - k) >= c
  BY <1>1
<1>4. y - k <= -1 => c * (y - k) <= -c
  BY <1>1
<1>5. y - k = 0 => c * (y - k) = 0
  BY <1>1
<1>6. s - r < c /\ s - r > -c
  BY <1>1
<1>7. y - k = 0
  BY <1>1, <1>2, <1>3, <1>4, <1>6
<1>8. r = s
  BY <1>1, <1>2, <1>5, <1>7
<1>9. QED
  BY <1>8 DEF r

\* Within c consecutive numbers no two have the same remainder.
LEMMA ModInjective ==
  ASSUME NEW c \in Nat, c > 0, NEW p \in Int, NEW q \in Int,
         p < q, q - p < c
  PROVE  p % c # q % c
<1>. SUFFICES ASSUME p % c = q % c
              PROVE  FALSE
  OBVIOUS
<1>. DEFINE x == p \div c
            y == q \div c
<1>1. p = (c * x) + (p % c) /\ q = (c * y) + (q % c) /\ x \in Int /\ y \in Int
  BY DivMod
<1>. HIDE DEF x, y
<1>2. q - p = c * (y - x)
  BY <1>1
<1>3. y - x >= 1 => c * (y - x) >= c
  BY <1>1
<1>4. y - x <= 0 => c * (y - x) <= 0
  BY <1>1
<1>5. QED
  BY <1>1, <1>2, <1>3, <1>4

\* Among c consecutive numbers each remainder occurs.
LEMMA ModOnto ==
  ASSUME NEW c \in Nat, c > 0, NEW a \in Int, NEW s \in 0 .. c - 1
  PROVE  \E p \in a .. a + c - 1 : p % c = s
<1>. DEFINE k == (s - a) % c
            x == (s - a) \div c
<1>1. k \in 0 .. c - 1 /\ s - a = (c * x) + k /\ x \in Int
  BY DivMod
<1>. HIDE DEF k, x
<1>2. a + k \in a .. a + c - 1
  BY <1>1
<1>3. a + k = (c * (-x)) + s
  BY <1>1
<1>4. (a + k) % c = s
  <2>. DEFINE m == -x
              b == a + k
  <2>1. m \in Int /\ b \in Int /\ b = (c * m) + s
    BY <1>1, <1>3
  <2>. HIDE DEF m, b
  <2>2. b % c = s
    BY <2>1, ModUnique
  <2>3. QED
    BY <2>2 DEF b
<1>5. QED
  BY <1>2, <1>4

----------------------------------------------------------------------------
(* A ring by its positions *)

\* A position has a slot of the ring: its own until the ring is full, never a
\* pinned one after that.
LEMMA PlaceProps ==
  ASSUME NEW steps \in Nat, NEW pin \in Nat, pin < steps, NEW p \in Nat
  PROVE  /\ Place(p, pin, steps) \in 0 .. steps - 1
         /\ p < steps => Place(p, pin, steps) = p
         /\ p >= pin => Place(p, pin, steps) >= pin
<1>. DEFINE c == steps - pin
<1>1. c \in Nat /\ c > 0 /\ c = steps - pin
  OBVIOUS
<1>. HIDE DEF c
<1>2. CASE p < pin
  BY <1>2 DEF Place
<1>3. CASE p >= pin
  <2>1. p - pin \in Int /\ (p - pin) % c \in 0 .. c - 1
    BY <1>1, DivMod
  <2>2. Place(p, pin, steps) = pin + ((p - pin) % c)
    BY <1>1, <1>3 DEF Place
  <2>3. p < steps => (p - pin) % c = p - pin
    <3>. HAVE p < steps
    <3>1. p - pin \in 0 .. c - 1 /\ p - pin = (c * 0) + (p - pin)
      BY <1>1, <1>3
    <3>2. QED
      BY <1>1, <2>1, <3>1, ModUnique
  <2>4. QED
    BY <1>1, <1>3, <2>1, <2>2, <2>3
<1>4. QED
  BY <1>2, <1>3

\* Two positions a ring keeps have two slots.
LEMMA PlaceInjective ==
  ASSUME NEW steps \in Nat, NEW pin \in Nat, pin < steps,
         NEW p \in Nat, NEW q \in Nat, p < q, p < pin \/ q - p < steps - pin
  PROVE  Place(p, pin, steps) # Place(q, pin, steps)
<1>. DEFINE c == steps - pin
<1>1. c \in Nat /\ c > 0 /\ c = steps - pin
  OBVIOUS
<1>. HIDE DEF c
<1>2. CASE p < pin
  BY <1>2, PlaceProps DEF Place
<1>3. CASE p >= pin
  <2>1. (p - pin) % c # (q - pin) % c
    <3>1. p - pin \in Int /\ q - pin \in Int /\ p - pin < q - pin
          /\ (q - pin) - (p - pin) < c
      BY <1>1, <1>3
    <3>2. QED
      BY <1>1, <3>1, ModInjective
  <2>2. (p - pin) % c \in Int /\ (q - pin) % c \in Int
    BY <1>1, DivMod
  <2>3. QED
    BY <1>1, <1>3, <2>1, <2>2 DEF Place
<1>4. QED
  BY <1>2, <1>3

\* A slot that has been written is the slot of a position the ring keeps.
LEMMA PlaceOnto ==
  ASSUME NEW steps \in Nat, NEW pin \in Nat, pin < steps, NEW end \in Nat,
         NEW s \in 0 .. steps - 1, s < end
  PROVE  \E q \in Keeps(end, pin, steps) : Place(q, pin, steps) = s
<1>1. CASE end <= steps \/ s < pin
  <2>1. s \in Keeps(end, pin, steps)
    BY <1>1 DEF Keeps
  <2>2. QED
    BY <2>1, PlaceProps
<1>2. CASE end > steps /\ s >= pin
  <2>. DEFINE c == steps - pin
  <2>1. c \in Nat /\ c > 0 /\ c = steps - pin /\ s - pin \in 0 .. c - 1
    BY <1>2
  <2>. HIDE DEF c
  <2>2. PICK p \in end - steps .. (end - steps) + c - 1 : p % c = s - pin
    <3>1. \A a \in Int, r \in 0 .. c - 1 : \E p \in a .. a + c - 1 : p % c = r
      <4>1. c \in Nat /\ c > 0
        BY <2>1
      <4>2. QED
        BY <4>1, ModOnto, Zenon
    <3>2. end - steps \in Int /\ s - pin \in 0 .. c - 1
      BY <2>1
    <3>3. QED
      BY <3>1, <3>2, Zenon
  <2>3. p + pin \in Keeps(end, pin, steps) /\ p + pin \in Nat
    BY <1>2, <2>1, <2>2 DEF Keeps
  <2>4. Place(p + pin, pin, steps) = pin + (p % c)
    <3>1. p \in Nat /\ (p + pin) - pin = p /\ ~ (p + pin < pin)
      BY <1>2, <2>1, <2>2
    <3>2. QED
      BY <2>1, <3>1 DEF Place
  <2>5. QED
    BY <1>2, <2>1, <2>2, <2>3, <2>4
<1>3. QED
  BY <1>1, <1>2

\* The contents of the written slots are the positions the ring keeps.
LEMMA KeptContents ==
  ASSUME NEW steps \in Nat, NEW pin \in Nat, pin < steps, NEW end \in Nat, NEW rows,
         Holds(rows, end, pin, steps)
  PROVE  {rows[s] : s \in 0 .. Lesser(end, steps) - 1} = Keeps(end, pin, steps)
<1>1. ASSUME NEW s \in 0 .. Lesser(end, steps) - 1
      PROVE  rows[s] \in Keeps(end, pin, steps)
  <2>1. s \in 0 .. steps - 1 /\ s < end
    BY DEF Lesser
  <2>2. PICK q \in Keeps(end, pin, steps) : Place(q, pin, steps) = s
    BY <2>1, PlaceOnto
  <2>3. QED
    BY <2>2 DEF Holds
<1>2. ASSUME NEW q \in Keeps(end, pin, steps)
      PROVE  \E s \in 0 .. Lesser(end, steps) - 1 : rows[s] = q
  <2>1. q \in Nat /\ q < end
    BY DEF Keeps
  <2>2. Place(q, pin, steps) \in 0 .. steps - 1 /\ (q < steps => Place(q, pin, steps) = q)
    BY <2>1, PlaceProps
  <2>3. Place(q, pin, steps) \in 0 .. Lesser(end, steps) - 1
    BY <2>1, <2>2 DEF Lesser
  <2>4. QED
    BY <2>3 DEF Holds
<1>3. QED
  BY <1>1, <1>2

\* A ring still holds the end of its sequence after the rows of new positions are
\* written in their slots, when the last of those that share a slot stays.
LEMMA AppendHolds ==
  ASSUME NEW steps \in Nat, NEW pin \in Nat, pin < steps, NEW end \in Nat, NEW n \in Nat,
         NEW old, NEW new, Holds(old, end, pin, steps),
         \A q \in end .. end + n - 1 :
           (\A r \in q + 1 .. end + n - 1 : Place(r, pin, steps) # Place(q, pin, steps))
             => new[Place(q, pin, steps)] = q,
         \A s \in 0 .. steps - 1 :
           (\A q \in end .. end + n - 1 : Place(q, pin, steps) # s) => new[s] = old[s]
  PROVE  Holds(new, end + n, pin, steps)
<1>. SUFFICES ASSUME NEW q \in Keeps(end + n, pin, steps)
              PROVE  new[Place(q, pin, steps)] = q
  BY DEF Holds
<1>1. q \in Nat /\ q < end + n /\ (q < pin \/ q >= end + n - (steps - pin))
  BY DEF Keeps
<1>2. ASSUME NEW r \in Nat, q < r, r < end + n
      PROVE  Place(r, pin, steps) # Place(q, pin, steps)
  <2>1. q < pin \/ r - q < steps - pin
    BY <1>1, <1>2
  <2>2. QED
    BY <1>1, <1>2, <2>1, PlaceInjective
<1>3. CASE q >= end
  <2>1. q \in end .. end + n - 1
    BY <1>1, <1>3
  <2>2. \A r \in q + 1 .. end + n - 1 : Place(r, pin, steps) # Place(q, pin, steps)
    BY <1>1, <1>2
  <2>3. QED
    BY <2>1, <2>2
<1>4. CASE q < end
  <2>1. q \in Keeps(end, pin, steps)
    BY <1>1, <1>4 DEF Keeps
  <2>2. Place(q, pin, steps) \in 0 .. steps - 1
    BY <1>1, PlaceProps
  <2>3. \A r \in end .. end + n - 1 : Place(r, pin, steps) # Place(q, pin, steps)
    BY <1>1, <1>2, <1>4
  <2>4. QED
    BY <2>1, <2>2, <2>3 DEF Holds
<1>5. QED
  BY <1>1, <1>3, <1>4

\* The position of the i-th exported row.
Position(ring, pins, valid, end, i) == IF ring /\ i <= pins THEN i - 1 ELSE end - valid + i - 1

----------------------------------------------------------------------------
(* The operations of a cache *)

\* What IsCache says, in parts.
LEMMA CacheProps ==
  ASSUME NEW c, IsCache(c)
  PROVE  /\ c.steps \in Nat /\ c.steps > 0 /\ c.pinned \in Nat /\ c.ring \in BOOLEAN
         /\ c.end \in Nat /\ c.end \in 0 .. MaxEnd /\ c.valid \in Nat
         /\ c.valid = Lesser(c.end, c.steps) /\ c.valid <= c.end /\ c.valid <= c.steps
         /\ c.rows \in [0 .. c.steps - 1 -> Contents]
         /\ Pin(c) \in Nat /\ Pin(c) < c.steps
BY CachedDecodeAssumption DEF IsCache, Pin, Lesser

\* slot_for_position is Place, on a ring and on a plain cache that is large enough.
LEMMA SlotIsPlace ==
  ASSUME NEW c, IsCache(c), NEW p \in Nat, c.ring \/ p < c.steps
  PROVE  SlotForPosition(c, p) = Place(p, Pin(c), c.steps)
<1>1. CASE c.ring
  BY <1>1, CacheProps DEF SlotForPosition, Place, Pin
<1>2. CASE ~c.ring
  <2>1. Place(p, Pin(c), c.steps) = p
    BY <1>2, CacheProps, PlaceProps
  <2>2. QED
    BY <1>2, <2>1 DEF SlotForPosition
<1>3. QED
  BY <1>1, <1>2

\* The positions export_state names are those the ring keeps, each of them once.
LEMMA KeptProps ==
  ASSUME NEW c, IsCache(c)
  PROVE  /\ \A i \in 1 .. c.valid :
              Position(c.ring, c.pinned, c.valid, c.end, i) \in Keeps(c.end, Pin(c), c.steps)
         /\ \A q \in Keeps(c.end, Pin(c), c.steps) :
              \E i \in 1 .. c.valid : Position(c.ring, c.pinned, c.valid, c.end, i) = q
         /\ \A i, j \in 1 .. c.valid :
              i < j => Position(c.ring, c.pinned, c.valid, c.end, i)
                         < Position(c.ring, c.pinned, c.valid, c.end, j)
<1>. DEFINE steps == c.steps
            pins == c.pinned
            end == c.end
            valid == c.valid
            pin == Pin(c)
            P(i) == Position(c.ring, pins, valid, end, i)
<1>1. /\ steps \in Nat /\ steps > 0 /\ pins \in Nat /\ (c.ring => pins < steps)
      /\ end \in Nat /\ valid \in Nat /\ valid <= end /\ valid <= steps
      /\ valid = end \/ (valid = steps /\ c.ring)
      /\ pin \in Nat /\ (c.ring => pin = pins) /\ (~c.ring => pin = 0)
  BY CacheProps DEF IsCache, Pin, Lesser
<1>. SUFFICES /\ \A i \in 1 .. valid : P(i) \in Keeps(end, pin, steps)
              /\ \A q \in Keeps(end, pin, steps) : \E i \in 1 .. valid : P(i) = q
              /\ \A i, j \in 1 .. valid : i < j => P(i) < P(j)
  OBVIOUS
<1>. HIDE DEF steps, pins, end, valid, pin
<1>2. ASSUME NEW i \in 1 .. valid
      PROVE  P(i) \in Keeps(end, pin, steps)
  BY <1>1 DEF Position, Keeps
<1>3. ASSUME NEW q \in Keeps(end, pin, steps)
      PROVE  \E i \in 1 .. valid : P(i) = q
  <2>1. q \in Nat /\ q < end /\ (q < pin \/ q >= end - (steps - pin))
    BY <1>1 DEF Keeps
  <2>2. CASE q < pin
    <3>1. c.ring /\ q < pins /\ q + 1 \in 1 .. valid
      BY <1>1, <2>1, <2>2
    <3>2. P(q + 1) = q
      BY <1>1, <2>1, <3>1 DEF Position
    <3>3. QED
      BY <3>1, <3>2
  <2>3. CASE q >= pin
    <3>. DEFINE i == q - end + valid + 1
    <3>1. i \in 1 .. valid /\ ~ (c.ring /\ i <= pins)
      BY <1>1, <2>1, <2>3
    <3>2. P(i) = q
      BY <1>1, <2>1, <3>1 DEF Position
    <3>3. QED
      BY <3>1, <3>2
  <2>4. QED
    BY <1>1, <2>1, <2>2, <2>3
<1>4. ASSUME NEW i \in 1 .. valid, NEW j \in 1 .. valid, i < j
      PROVE  P(i) < P(j)
  BY <1>1, <1>4 DEF Position
<1>5. QED
  BY <1>2, <1>3, <1>4

\* export_state and import_state use the slot of the position.
LEMMA StoredSlotIsPlace ==
  ASSUME NEW c, IsCache(c), NEW i \in 1 .. c.valid
  PROVE  /\ Position(c.ring, c.pinned, c.valid, c.end, i) \in Keeps(c.end, Pin(c), c.steps)
         /\ StoredSlot(c, i - 1) =
              Place(Position(c.ring, c.pinned, c.valid, c.end, i), Pin(c), c.steps)
<1>. DEFINE q == Position(c.ring, c.pinned, c.valid, c.end, i)
<1>1. q \in Keeps(c.end, Pin(c), c.steps)
  BY KeptProps
<1>2. q \in Nat /\ q < c.end
  BY <1>1, CacheProps DEF Keeps
<1>3. CASE c.ring
  <2>1. RingStoredPosition(i - 1, c.valid, c.end, c.pinned) = q
    BY <1>3, CacheProps DEF RingStoredPosition, Position
  <2>2. QED
    BY <1>1, <1>2, <1>3, <2>1, SlotIsPlace DEF StoredSlot
<1>4. CASE ~c.ring
  <2>1. q = i - 1 /\ q < c.steps
    BY <1>2, <1>4, CacheProps DEF IsCache, Position, Lesser
  <2>2. Place(q, Pin(c), c.steps) = q
    BY <1>2, <2>1, CacheProps, PlaceProps
  <2>3. QED
    BY <1>1, <1>4, <2>1, <2>2 DEF StoredSlot
<1>5. QED
  BY <1>3, <1>4

\* A cache that holds the end of a sequence exports it in order of position.
LEMMA ExportProps ==
  ASSUME NEW c, IsCache(c), Holds(c.rows, c.end, Pin(c), c.steps)
  PROVE  ExportState(c) = State(c.end, Kept(c))
<1>1. ASSUME NEW i \in 1 .. c.valid
      PROVE  c.rows[StoredSlot(c, i - 1)] = Position(c.ring, c.pinned, c.valid, c.end, i)
  BY StoredSlotIsPlace DEF Holds
<1>2. Kept(c) = [i \in 1 .. c.valid |-> Position(c.ring, c.pinned, c.valid, c.end, i)]
  BY DEF Kept, Position
<1>3. [i \in 1 .. c.valid |-> c.rows[StoredSlot(c, i - 1)]] = Kept(c)
  BY <1>1, <1>2
<1>4. QED
  BY <1>3 DEF ExportState, State

\* Rows that are written in order: a slot keeps what it had, or gets the last row
\* that goes there.
LEMMA WriteRowsProps ==
  ASSUME NEW rows, NEW slotOf, NEW contents, NEW n \in Nat, DOMAIN contents = 1 .. n
  PROVE  /\ DOMAIN WriteRows(rows, slotOf, contents) = DOMAIN rows
         /\ \A s \in DOMAIN rows :
              (\A i \in 1 .. n : slotOf[i] # s)
                => WriteRows(rows, slotOf, contents)[s] = rows[s]
         /\ \A s \in DOMAIN rows :
              \/ WriteRows(rows, slotOf, contents)[s] = rows[s]
              \/ \E i \in 1 .. n : WriteRows(rows, slotOf, contents)[s] = contents[i]
         /\ \A i \in 1 .. n :
              /\ slotOf[i] \in DOMAIN rows
              /\ \A j \in i + 1 .. n : slotOf[j] # slotOf[i]
              => WriteRows(rows, slotOf, contents)[slotOf[i]] = contents[i]
<1>. DEFINE Here(s) == {i \in 1 .. n : slotOf[i] = s}
            W == WriteRows(rows, slotOf, contents)
<1>1. W = [s \in DOMAIN rows |->
             IF Here(s) = {} THEN rows[s] ELSE contents[Max(Here(s))]]
  BY DEF WriteRows
<1>2. ASSUME NEW s, Here(s) # {}
      PROVE  /\ Max(Here(s)) \in 1 .. n /\ slotOf[Max(Here(s))] = s
             /\ \A i \in Here(s) : i <= Max(Here(s))
  <2>. DEFINE H == Here(s)
  <2>1. H \in SUBSET (0 .. n) /\ H # {}
    BY <1>2
  <2>2. Max(H) \in H /\ \A i \in H : i <= Max(H)
    BY <2>1, MaxProps
  <2>3. QED
    BY <2>2
<1>3. DOMAIN W = DOMAIN rows
  BY <1>1
<1>4. ASSUME NEW s \in DOMAIN rows
      PROVE  /\ (\A i \in 1 .. n : slotOf[i] # s) => W[s] = rows[s]
             /\ W[s] = rows[s] \/ \E i \in 1 .. n : W[s] = contents[i]
  <2>1. CASE Here(s) = {}
    BY <1>1, <2>1
  <2>2. CASE Here(s) # {}
    <3>1. W[s] = contents[Max(Here(s))]
      BY <1>1, <2>2
    <3>2. QED
      BY <1>2, <2>2, <3>1
  <2>3. QED
    BY <2>1, <2>2
<1>5. ASSUME NEW i \in 1 .. n, slotOf[i] \in DOMAIN rows,
             \A j \in i + 1 .. n : slotOf[j] # slotOf[i]
      PROVE  W[slotOf[i]] = contents[i]
  <2>. DEFINE m == Max(Here(slotOf[i]))
  <2>1. i \in Here(slotOf[i])
    OBVIOUS
  <2>2. m \in 1 .. n /\ slotOf[m] = slotOf[i] /\ i <= m
    BY <1>2, <2>1
  <2>3. m = i
    <3>. HIDE DEF m
    <3>1. ~ (m \in i + 1 .. n)
      BY <1>5, <2>2
    <3>2. QED
      BY <2>2, <3>1
  <2>4. W[slotOf[i]] = contents[m]
    BY <1>1, <1>5, <2>1
  <2>5. QED
    BY <2>3, <2>4
<1>6. QED
  BY <1>3, <1>4, <1>5

\* What import_state writes: the rows in their slots, the rest blank.
Spread(rs, slotOf, end, pin, steps, valid) ==
  /\ \A i \in 1 .. valid : rs[i] \in Keeps(end, pin, steps)
  /\ \A q \in Keeps(end, pin, steps) : \E i \in 1 .. valid : rs[i] = q
  /\ \A i, j \in 1 .. valid : i < j => rs[i] < rs[j]
  /\ \A i \in 1 .. valid : slotOf[i] = Place(rs[i], pin, steps)

\* Rows in order of position that are put where their positions go make a ring that
\* holds them.
LEMMA SpreadProps ==
  ASSUME NEW steps \in Nat, NEW pin \in Nat, pin < steps, NEW end \in 0 .. MaxEnd,
         NEW valid \in Nat, NEW rs, NEW slotOf, NEW blank, DOMAIN rs = 1 .. valid,
         DOMAIN blank = 0 .. steps - 1, \A s \in 0 .. steps - 1 : blank[s] = Blank,
         Spread(rs, slotOf, end, pin, steps, valid)
  PROVE  /\ WriteRows(blank, slotOf, rs) \in [0 .. steps - 1 -> Contents]
         /\ Holds(WriteRows(blank, slotOf, rs), end, pin, steps)
<1>. DEFINE rows == WriteRows(blank, slotOf, rs)
<1>1. \A q \in Keeps(end, pin, steps) :
        q \in Nat /\ q < end /\ (q < pin \/ q >= end - (steps - pin))
  BY CachedDecodeAssumption DEF Keeps
<1>2. \A i \in 1 .. valid :
        /\ rs[i] \in Keeps(end, pin, steps)
        /\ rs[i] \in Nat /\ rs[i] < end /\ (rs[i] < pin \/ rs[i] >= end - (steps - pin))
        /\ slotOf[i] = Place(rs[i], pin, steps)
  BY <1>1 DEF Spread
<1>3. \A i \in 1 .. valid : slotOf[i] \in 0 .. steps - 1
  <2>1. \A q \in Nat : Place(q, pin, steps) \in 0 .. steps - 1
    BY PlaceProps
  <2>2. QED
    BY <1>2, <2>1
<1>4. ASSUME NEW i \in 1 .. valid, NEW j \in i + 1 .. valid
      PROVE  slotOf[j] # slotOf[i]
  <2>1. j \in 1 .. valid /\ i < j
    OBVIOUS
  <2>2. rs[i] < rs[j]
    BY <2>1 DEF Spread
  <2>3. rs[i] < pin \/ rs[j] - rs[i] < steps - pin
    BY <1>2, <2>1
  <2>4. Place(rs[i], pin, steps) # Place(rs[j], pin, steps)
    BY <1>2, <2>1, <2>2, <2>3, PlaceInjective
  <2>5. QED
    BY <1>2, <2>1, <2>4
<1>5. /\ DOMAIN rows = DOMAIN blank
      /\ \A s \in DOMAIN blank :
            rows[s] = blank[s] \/ \E i \in 1 .. valid : rows[s] = rs[i]
      /\ \A i \in 1 .. valid :
           /\ slotOf[i] \in DOMAIN blank
           /\ \A j \in i + 1 .. valid : slotOf[j] # slotOf[i]
           => rows[slotOf[i]] = rs[i]
  <2>1. DOMAIN rows = DOMAIN blank
    BY WriteRowsProps
  <2>2. \A s \in DOMAIN blank :
          rows[s] = blank[s] \/ \E i \in 1 .. valid : rows[s] = rs[i]
    BY WriteRowsProps
  <2>3. ASSUME NEW i \in 1 .. valid, slotOf[i] \in DOMAIN blank,
               \A j \in i + 1 .. valid : slotOf[j] # slotOf[i]
        PROVE  rows[slotOf[i]] = rs[i]
    BY <2>3, WriteRowsProps
  <2>4. QED
    BY <2>1, <2>2, <2>3
<1>. HIDE DEF rows
<1>6. \A s \in 0 .. steps - 1 : rows[s] = Blank \/ \E i \in 1 .. valid : rows[s] = rs[i]
  BY <1>5
<1>7. \A i \in 1 .. valid : rows[slotOf[i]] = rs[i]
  BY <1>3, <1>4, <1>5
<1>8. rows \in [0 .. steps - 1 -> Contents]
  <2>1. \A q \in Keeps(end, pin, steps) : q \in Contents
    BY <1>1, ConstantProps DEF Contents, Blank
  <2>2. Blank \in Contents
    BY CachedDecodeAssumption DEF Contents, Blank
  <2>3. \A s \in 0 .. steps - 1 : rows[s] \in Contents
    BY <1>2, <1>6, <2>1, <2>2, Zenon
  <2>4. rows = [s \in DOMAIN blank |-> rows[s]]
    BY DEF rows, WriteRows
  <2>5. QED
    BY <2>3, <2>4
<1>9. Holds(rows, end, pin, steps)
  <2>. SUFFICES ASSUME NEW q \in Keeps(end, pin, steps)
                PROVE  rows[Place(q, pin, steps)] = q
    BY DEF Holds
  <2>1. PICK i \in 1 .. valid : rs[i] = q
    BY DEF Spread
  <2>2. QED
    BY <1>2, <1>7, <2>1
<1>10. QED
  BY <1>8, <1>9 DEF rows

\* An import of the rows a cache of that size keeps makes a cache that holds them.
LEMMA ImportProps ==
  ASSUME NEW new, new = NewCache(new.steps, new.ring, new.pinned),
         new.steps \in Nat, new.steps > 0, new.ring \in BOOLEAN, new.pinned \in Nat,
         new.ring => new.pinned < new.steps,
         NEW end \in 0 .. MaxEnd, ~new.ring => end <= new.steps,
         NEW valid, valid = Lesser(end, new.steps),
         NEW rs, rs = [i \in 1 .. valid |-> Position(new.ring, new.pinned, valid, end, i)],
         NEW c, c = ImportState(new, State(end, rs))
  PROVE  /\ IsCache(c) /\ Holds(c.rows, c.end, Pin(c), c.steps)
         /\ c.steps = new.steps /\ (c.ring <=> new.ring) /\ c.pinned = new.pinned
         /\ c.end = end /\ c.valid = valid
<1>. DEFINE blank == [slot \in 0 .. new.steps - 1 |-> Blank]
            placed == [new EXCEPT !.end = end, !.valid = valid]
            slotOf == [i \in 1 .. valid |-> StoredSlot(placed, i - 1)]
            rows == WriteRows(blank, slotOf, rs)
            Records == [steps : Nat, ring : BOOLEAN, pinned : Nat, valid : Nat,
                        end : 0 .. MaxEnd, rows : [0 .. new.steps - 1 -> Contents]]
<1>1. valid \in Nat /\ end \in Nat
  BY CachedDecodeAssumption DEF Lesser
<1>2. /\ blank \in [0 .. new.steps - 1 -> Contents]
      /\ DOMAIN blank = 0 .. new.steps - 1
      /\ \A s \in 0 .. new.steps - 1 : blank[s] = Blank
  BY CachedDecodeAssumption DEF Contents, Blank
<1>3. new \in Records /\ new.rows = blank
  BY <1>2, CachedDecodeAssumption DEF NewCache
<1>4. Len(rs) = valid /\ DOMAIN rs = 1 .. valid
  BY <1>1
<1>. HIDE DEF blank
<1>5. /\ placed.steps = new.steps /\ placed.ring = new.ring
      /\ placed.pinned = new.pinned
      /\ placed.valid = valid /\ placed.end = end /\ placed.rows = blank
      /\ placed \in Records
  BY <1>1, <1>3
<1>. HIDE DEF placed
<1>6. IsCache(placed)
  BY <1>5 DEF IsCache
<1>7. /\ rows \in [0 .. new.steps - 1 -> Contents]
      /\ Holds(rows, end, Pin(placed), new.steps)
  <2>1. Spread(rs, slotOf, end, Pin(placed), new.steps, valid)
    <3>1. \A i \in 1 .. valid :
            /\ rs[i] = Position(placed.ring, placed.pinned, placed.valid, placed.end, i)
            /\ slotOf[i] = StoredSlot(placed, i - 1)
      BY <1>5
    <3>. HIDE DEF slotOf
    <3>2. \A i \in 1 .. valid :
            rs[i] \in Keeps(end, Pin(placed), new.steps)
            /\ slotOf[i] = Place(rs[i], Pin(placed), new.steps)
      BY <1>5, <1>6, <3>1, StoredSlotIsPlace
    <3>3. \A q \in Keeps(end, Pin(placed), new.steps) : \E i \in 1 .. valid : rs[i] = q
      <4>1. \A q \in Keeps(placed.end, Pin(placed), placed.steps) :
              \E i \in 1 .. placed.valid :
                Position(placed.ring, placed.pinned, placed.valid, placed.end, i) = q
        BY <1>6, KeptProps
      <4>2. QED
        BY <1>5, <3>1, <4>1
    <3>4. \A i, j \in 1 .. valid : i < j => rs[i] < rs[j]
      <4>1. \A i, j \in 1 .. placed.valid :
              i < j => Position(placed.ring, placed.pinned, placed.valid, placed.end, i)
                         < Position(placed.ring, placed.pinned, placed.valid, placed.end, j)
        BY <1>6, KeptProps
      <4>2. QED
        BY <1>5, <3>1, <4>1
    <3>5. QED
      BY <3>2, <3>3, <3>4 DEF Spread
  <2>2. Pin(placed) \in Nat /\ Pin(placed) < new.steps
    BY <1>5, <1>6, CacheProps
  <2>. HIDE DEF slotOf
  <2>3. QED
    BY <1>1, <1>2, <1>4, <2>1, <2>2, SpreadProps
<1>8. c = [placed EXCEPT !.rows = rows]
  <2>1. State(end, rs).end = end /\ State(end, rs).rows = rs
    BY DEF State
  <2>2. [new EXCEPT !.end = State(end, rs).end, !.valid = Len(State(end, rs).rows)] = placed
    BY <1>4, <2>1 DEF placed
  <2>3. [slot \in DOMAIN new.rows |-> Blank] = blank
    BY <1>3 DEF blank
  <2>4. [i \in DOMAIN State(end, rs).rows |-> StoredSlot(placed, i - 1)] = slotOf
    BY <1>4, <2>1
  <2>5. QED
    BY <2>1, <2>2, <2>3, <2>4 DEF ImportState
<1>. HIDE DEF rows
<1>9. /\ c.steps = new.steps /\ c.ring = new.ring /\ c.pinned = new.pinned
      /\ c.end = end /\ c.valid = valid /\ c.rows = rows
      /\ c \in Records
  BY <1>5, <1>7, <1>8
<1>10. Pin(c) = Pin(placed)
  BY <1>5, <1>9 DEF Pin
<1>11. IsCache(c)
  BY <1>9 DEF IsCache
<1>12. QED
  BY <1>7, <1>9, <1>10, <1>11

----------------------------------------------------------------------------
(* Capacities and whole operations *)

\* Max of two numbers.
LEMMA MaxOfTwo ==
  ASSUME NEW m \in Nat, NEW n \in Nat
  PROVE  Max({m, n}) \in Nat /\ Max({m, n}) >= m /\ Max({m, n}) >= n
         /\ (Max({m, n}) = m \/ Max({m, n}) = n)
<1>1. {m, n} \in SUBSET (0 .. m + n) /\ {m, n} # {} /\ m + n \in Nat
  OBVIOUS
<1>2. Max({m, n}) \in {m, n} /\ \A y \in {m, n} : y <= Max({m, n})
  BY <1>1, MaxProps
<1>3. QED
  BY <1>2

\* Min of two numbers.
LEMMA MinOfTwo ==
  ASSUME NEW m \in Nat, NEW n \in Nat
  PROVE  Min({m, n}) = Lesser(m, n)
<1>1. {m, n} \in SUBSET Nat /\ {m, n} # {}
  OBVIOUS
<1>2. Min({m, n}) \in {m, n} /\ \A y \in {m, n} : Min({m, n}) <= y
  BY <1>1, MinProps
<1>3. QED
  BY <1>2 DEF Lesser

\* The bounded capacity is within the window, and enough unless the window is not.
LEMMA CacheStepsProps ==
  ASSUME NEW window \in Nat \ {0}, NEW least \in Nat \ {0}, NEW required \in Nat
  PROVE  /\ CacheStepsForRequired(window, least, required) \in 1 .. window
         /\ CacheStepsForRequired(window, least, required) >= Lesser(required, window)
<1>. DEFINE atLeast == Max({required, 1})
            wanted == Min({atLeast, window})
            floor == Min({least, window})
            target == Max({wanted, floor})
            buckets == {b \in target .. window : \E k \in 0 .. window : b = 2 ^ k}
<1>1. atLeast \in Nat /\ atLeast >= required /\ atLeast >= 1
  BY MaxOfTwo
<1>. HIDE DEF atLeast
<1>2. wanted = Lesser(atLeast, window) /\ floor = Lesser(least, window)
  BY <1>1, MinOfTwo
<1>. HIDE DEF wanted, floor
<1>3. wanted \in Nat /\ floor \in Nat /\ wanted >= 1 /\ wanted <= window
      /\ wanted >= Lesser(required, window) /\ floor <= window
  BY <1>1, <1>2 DEF Lesser
<1>4. target \in Nat /\ target >= wanted /\ (target = wanted \/ target = floor)
  BY <1>3, MaxOfTwo
<1>. HIDE DEF target
<1>5. target \in 1 .. window /\ target >= Lesser(required, window)
  BY <1>3, <1>4 DEF Lesser
<1>6. buckets \cup {window} \in SUBSET (target .. window) /\ target .. window \subseteq Nat
      /\ buckets \cup {window} # {}
  BY <1>5
<1>. HIDE DEF buckets
<1>7. Min(buckets \cup {window}) \in target .. window
  BY <1>6, MinProps
<1>8. CacheStepsForRequired(window, least, required) = Min(buckets \cup {window})
  BY DEF CacheStepsForRequired, buckets, target, wanted, floor, atLeast
<1>9. QED
  BY <1>5, <1>7, <1>8 DEF Lesser

\* cache_graph_capacity returns enough, if the model has the positions.
LEMMA CapacityProps ==
  ASSUME NEW required \in Nat, required <= Positions
  PROVE  /\ CacheGraphCapacity(required) \in Nat
         /\ CacheGraphCapacity(required) > 0
         /\ CacheGraphCapacity(required) >= required
<1>. DEFINE requested == Max({required, Initial})
            a == requested + Growth - 1
            k == a \div Growth
            up == k * Growth
<1>1. /\ Growth \in Nat /\ Growth > 0 /\ Initial \in Nat /\ Initial > 0
      /\ Positions \in Nat /\ Positions > 0
  BY ConstantProps
<1>2. requested \in Nat /\ requested >= required /\ requested > 0
  <2>1. requested \in Nat /\ requested >= required /\ requested >= Initial
    BY <1>1, MaxOfTwo
  <2>. HIDE DEF requested
  <2>2. QED
    BY <1>1, <2>1
<1>. HIDE DEF requested
<1>3. a \in Nat /\ a = requested + Growth - 1
  BY <1>1, <1>2
<1>. HIDE DEF a
<1>4. k \in Int /\ a % Growth \in 0 .. Growth - 1 /\ a = (Growth * k) + (a % Growth)
  BY <1>1, <1>3, DivMod
<1>5. up = Growth * k /\ up \in Int
  BY <1>1, <1>4
<1>6. up \in Nat /\ up >= requested
  <2>. HIDE DEF k
  <2>1. up = a - (a % Growth)
    BY <1>1, <1>4, <1>5
  <2>2. QED
    BY <1>1, <1>2, <1>3, <1>4, <1>5, <2>1
<1>. HIDE DEF up
<1>7. Min({up, Positions}) = up \/ Min({up, Positions}) = Positions
  BY <1>1, <1>6, MinOfTwo DEF Lesser
<1>8. CacheGraphCapacity(required) = Min({up, Positions})
  BY DEF CacheGraphCapacity, up, k, a, requested
<1>9. QED
  BY <1>1, <1>2, <1>6, <1>7, <1>8

\* A cache as NewCache makes one.
IsNew(c) ==
  /\ c = NewCache(c.steps, c.ring, c.pinned)
  /\ c.steps \in Nat /\ c.steps > 0 /\ c.ring \in BOOLEAN /\ c.pinned \in Nat
  /\ c.ring => c.pinned < c.steps

\* A cache that takes a prompt holds the prompt.
LEMMA PrefillProps ==
  ASSUME NEW n \in 1 .. MaxEnd, NEW new, IsNew(new), CanImport(new, Prefill(n)),
         NEW c, c = ImportState(new, Prefill(n))
  PROVE  /\ IsCache(c) /\ Holds(c.rows, c.end, Pin(c), c.steps)
         /\ c.steps = new.steps /\ (c.ring <=> new.ring) /\ c.pinned = new.pinned
         /\ c.end = n /\ c.valid = n /\ n <= c.steps
<1>. DEFINE rs == [i \in 1 .. n |-> i - 1]
<1>1. Prefill(n) = State(n, rs)
  BY DEF Prefill
<1>2. n \in Nat /\ n \in 0 .. MaxEnd /\ Len(rs) = n
  BY CachedDecodeAssumption
<1>3. n <= new.steps
  BY <1>1, <1>2 DEF CanImport, State
<1>4. n = Lesser(n, new.steps)
  BY <1>3 DEF Lesser
<1>5. rs = [i \in 1 .. n |-> Position(new.ring, new.pinned, n, n, i)]
  <2>1. \A i \in 1 .. n : Position(new.ring, new.pinned, n, n, i) = i - 1
    BY <1>2 DEF Position
  <2>2. QED
    BY <2>1
<1>. HIDE DEF rs
<1>6. QED
  BY <1>1, <1>2, <1>3, <1>4, <1>5, ImportProps DEF IsNew

\* A cache that is made from the export of another holds what that one held.
LEMMA MoveProps ==
  ASSUME NEW old, IsCache(old), Holds(old.rows, old.end, Pin(old), old.steps),
         NEW new, IsNew(new), new.ring <=> old.ring,
         old.ring => new.pinned = old.pinned /\ new.steps = old.steps,
         ~old.ring => new.steps >= old.end,
         NEW c, c = ImportState(new, ExportState(old))
  PROVE  /\ IsCache(c) /\ Holds(c.rows, c.end, Pin(c), c.steps)
         /\ c.steps = new.steps /\ (c.ring <=> old.ring) /\ c.pinned = new.pinned
         /\ c.end = old.end /\ c.valid = old.valid
<1>1. ExportState(old) = State(old.end, Kept(old))
  BY ExportProps
<1>2. old.end \in 0 .. MaxEnd /\ old.valid = Lesser(old.end, new.steps)
      /\ (~new.ring => old.end <= new.steps)
  BY CacheProps DEF IsCache, IsNew, Lesser
<1>3. Kept(old) = [i \in 1 .. old.valid |->
                     Position(new.ring, new.pinned, old.valid, old.end, i)]
  BY DEF Kept, Position
<1>4. QED
  BY <1>1, <1>2, <1>3, ImportProps DEF IsNew

\* vibevoice's mask of the stored rows is the valid slots.
LEMMA StoredMaskProps ==
  ASSUME NEW c, IsCache(c), c.ring => c.pinned = pinned, pinned \in Nat
  PROVE  StoredMask(c) = 0 .. c.valid - 1
<1>1. ASSUME NEW row \in 0 .. c.valid - 1
      PROVE  SlotForPosition(c, RingStoredPosition(row, c.valid, c.end, pinned))
               = StoredSlot(c, row)
  <2>1. CASE c.ring
    BY <2>1 DEF StoredSlot
  <2>2. CASE ~c.ring
    <3>1. c.end - c.valid + row = row
      BY <2>2, CacheProps DEF IsCache, Lesser
    <3>2. RingStoredPosition(row, c.valid, c.end, pinned) = row
      BY <3>1 DEF RingStoredPosition
    <3>3. QED
      BY <2>2, <3>2 DEF StoredSlot, SlotForPosition
  <2>3. QED
    BY <2>1, <2>2
<1>2. StoredMask(c) = {StoredSlot(c, row) : row \in 0 .. c.valid - 1}
  BY <1>1 DEF StoredMask
<1>. DEFINE P(i) == Position(c.ring, c.pinned, c.valid, c.end, i)
<1>3. ASSUME NEW row \in 0 .. c.valid - 1
      PROVE  StoredSlot(c, row) \in 0 .. c.valid - 1
  <2>1. row + 1 \in 1 .. c.valid /\ (row + 1) - 1 = row
    BY CacheProps
  <2>2. P(row + 1) \in Keeps(c.end, Pin(c), c.steps)
        /\ StoredSlot(c, row) = Place(P(row + 1), Pin(c), c.steps)
    BY <2>1, StoredSlotIsPlace
  <2>. DEFINE q == P(row + 1)
  <2>3. q \in Nat /\ q < c.end
    BY <2>2, CacheProps DEF Keeps
  <2>. HIDE DEF q
  <2>4. /\ Place(q, Pin(c), c.steps) \in 0 .. c.steps - 1
        /\ q < c.steps => Place(q, Pin(c), c.steps) = q
    BY <2>3, CacheProps, PlaceProps
  <2>5. Place(q, Pin(c), c.steps) \in 0 .. c.valid - 1
    BY <2>3, <2>4, CacheProps DEF Lesser
  <2>6. QED
    BY <2>2, <2>5 DEF q
<1>4. ASSUME NEW s \in 0 .. c.valid - 1
      PROVE  \E row \in 0 .. c.valid - 1 : StoredSlot(c, row) = s
  <2>1. s \in 0 .. c.steps - 1 /\ s < c.end
    BY CacheProps
  <2>2. PICK q \in Keeps(c.end, Pin(c), c.steps) : Place(q, Pin(c), c.steps) = s
    BY <2>1, CacheProps, PlaceOnto
  <2>3. PICK i \in 1 .. c.valid : P(i) = q
    BY KeptProps
  <2>4. StoredSlot(c, i - 1) = s
    BY <2>2, <2>3, StoredSlotIsPlace
  <2>5. i - 1 \in 0 .. c.valid - 1
    BY CacheProps
  <2>6. QED
    BY <2>4, <2>5
<1>5. QED
  BY <1>2, <1>3, <1>4

\* Where the rows of an append go, what they are, and the rows after it.
AppendedSlots(c, n) == [i \in 1 .. n |-> SlotForPosition(c, c.end + i - 1)]

AppendedPositions(c, n) == [i \in 1 .. n |-> c.end + i - 1]

AppendedRows(c, n) == WriteRows(c.rows, AppendedSlots(c, n), AppendedPositions(c, n))

\* The rows of an append go to the slots of their positions, and the cache then holds
\* the longer sequence.
LEMMA AppendProps ==
  ASSUME NEW old, IsCache(old), Holds(old.rows, old.end, Pin(old), old.steps),
         NEW n \in Nat \ {0}, CanAppend(old, n), old.end + n <= MaxEnd
  PROVE  /\ AppendedRows(old, n) \in [0 .. old.steps - 1 -> Contents]
         /\ Holds(AppendedRows(old, n), old.end + n, Pin(old), old.steps)
         /\ \A i \in 1 .. n :
              AppendedSlots(old, n)[i] = Place(old.end + i - 1, Pin(old), old.steps)
         /\ ~old.ring => old.end + n <= old.steps
<1>. DEFINE steps == old.steps
            end == old.end
            pin == Pin(old)
            slotOf == AppendedSlots(old, n)
            contents == AppendedPositions(old, n)
            rows == WriteRows(old.rows, slotOf, contents)
<1>1. /\ steps \in Nat /\ end \in Nat /\ pin \in Nat /\ pin < steps
      /\ old.rows \in [0 .. steps - 1 -> Contents]
      /\ ~old.ring => end + n <= steps
      /\ n \in Nat /\ end + n <= MaxEnd
  BY CacheProps DEF IsCache, CanAppend, Lesser
<1>2. \A i \in 1 .. n : slotOf[i] = Place(end + i - 1, pin, steps)
  <2>. SUFFICES ASSUME NEW i \in 1 .. n
                PROVE  slotOf[i] = Place(end + i - 1, pin, steps)
    OBVIOUS
  <2>. DEFINE q == end + i - 1
  <2>1. q \in Nat /\ (old.ring \/ q < steps)
    BY <1>1
  <2>2. slotOf[i] = SlotForPosition(old, q)
    BY DEF AppendedSlots
  <2>. HIDE DEF q
  <2>3. SlotForPosition(old, q) = Place(q, pin, steps)
    BY <2>1, SlotIsPlace
  <2>4. QED
    BY <2>2, <2>3 DEF q
<1>3. DOMAIN contents = 1 .. n /\ \A i \in 1 .. n : contents[i] = end + i - 1
  BY DEF AppendedPositions
<1>. HIDE DEF slotOf, contents
<1>4. /\ DOMAIN rows = DOMAIN old.rows
      /\ \A s \in DOMAIN old.rows :
           rows[s] = old.rows[s] \/ \E i \in 1 .. n : rows[s] = contents[i]
  <2>1. DOMAIN rows = DOMAIN old.rows
    BY <1>3, WriteRowsProps
  <2>2. \A s \in DOMAIN old.rows :
          rows[s] = old.rows[s] \/ \E i \in 1 .. n : rows[s] = contents[i]
    BY <1>3, WriteRowsProps
  <2>3. QED
    BY <2>1, <2>2
<1>5. ASSUME NEW s \in DOMAIN old.rows, \A i \in 1 .. n : slotOf[i] # s
      PROVE  rows[s] = old.rows[s]
  BY <1>3, <1>5, WriteRowsProps
<1>6. ASSUME NEW i \in 1 .. n, slotOf[i] \in DOMAIN old.rows,
             \A j \in i + 1 .. n : slotOf[j] # slotOf[i]
      PROVE  rows[slotOf[i]] = contents[i]
  BY <1>3, <1>6, WriteRowsProps
<1>0. rows = [s \in DOMAIN old.rows |-> rows[s]]
  BY DEF WriteRows
<1>. HIDE DEF rows
<1>7. rows \in [0 .. steps - 1 -> Contents]
  <2>1. \A i \in 1 .. n : contents[i] \in Contents
    <3>1. MaxEnd \in Nat
      BY CachedDecodeAssumption
    <3>2. \A i \in 1 .. n : end + i - 1 \in -1 .. MaxEnd
      BY <1>1, <3>1
    <3>3. QED
      BY <1>3, <3>2 DEF Contents, Blank
  <2>2. \A s \in 0 .. steps - 1 : rows[s] \in Contents
    BY <1>1, <1>4, <2>1
  <2>3. QED
    BY <1>0, <1>1, <2>2
<1>. HIDE DEF end, pin, steps
<1>8. ASSUME NEW q \in end .. end + n - 1,
             \A r \in q + 1 .. end + n - 1 : Place(r, pin, steps) # Place(q, pin, steps)
      PROVE  rows[Place(q, pin, steps)] = q
  <2>. DEFINE i == q - end + 1
  <2>1. i \in 1 .. n /\ end + i - 1 = q
    BY <1>1
  <2>2. ASSUME NEW j \in i + 1 .. n
        PROVE  slotOf[j] # slotOf[i]
    <3>1. j \in 1 .. n /\ end + j - 1 \in q + 1 .. end + n - 1
      BY <1>1, <2>1
    <3>2. Place(end + j - 1, pin, steps) # Place(q, pin, steps)
      BY <1>8, <3>1
    <3>3. QED
      BY <1>2, <2>1, <3>1, <3>2
  <2>3. slotOf[i] = Place(q, pin, steps)
    BY <1>2, <2>1
  <2>4. slotOf[i] \in DOMAIN old.rows
    <3>1. q \in Nat
      BY <1>1
    <3>2. Place(q, pin, steps) \in 0 .. steps - 1
      BY <1>1, <3>1, PlaceProps
    <3>3. QED
      BY <1>1, <2>3, <3>2
  <2>. HIDE DEF i
  <2>5. QED
    BY <1>3, <1>6, <2>1, <2>2, <2>3, <2>4
<1>9. ASSUME NEW s \in 0 .. steps - 1,
             \A q \in end .. end + n - 1 : Place(q, pin, steps) # s
      PROVE  rows[s] = old.rows[s]
  <2>1. ASSUME NEW i \in 1 .. n
        PROVE  slotOf[i] # s
    <3>1. end + i - 1 \in end .. end + n - 1
      BY <1>1
    <3>2. QED
      BY <1>2, <1>9, <3>1
  <2>2. QED
    BY <1>1, <1>5, <2>1
<1>10. Holds(rows, end + n, pin, steps)
  <2>1. n \in Nat
    OBVIOUS
  <2>2. Holds(old.rows, end, pin, steps)
    BY DEF end, pin, steps
  <2>3. QED
    BY <1>1, <1>8, <1>9, <2>1, <2>2, AppendHolds
<1>11. QED
  BY <1>1, <1>2, <1>7, <1>10 DEF AppendedRows, rows, slotOf, contents, end,
                              pin, steps

----------------------------------------------------------------------------
(* The properties follow from the invariant *)

\* The three properties follow from the invariant: TypeOK,
LEMMA InvTypes ==
  ASSUME Inv
  PROVE  TypeOK
<1>1. CASE HasState
  BY <1>1, CacheProps DEF Inv, VarsFit, CacheFits, SeenFits, TypeOK, IsCache
<1>2. CASE ~HasState
  <2>1. cache = NewCache(0, FALSE, 0)
    BY <1>2 DEF Inv, CacheFits
  <2>2. /\ cache \in [steps : Nat, ring : BOOLEAN, pinned : Nat, valid : Nat,
                      end : 0 .. MaxEnd, rows : [0 .. cache.steps - 1 -> Contents]]
        /\ cache.valid <= cache.steps /\ cache.valid <= cache.end
    <3>1. MaxEnd \in Nat
      BY CachedDecodeAssumption
    <3>2. QED
      BY <2>1, <3>1 DEF NewCache
  <2>3. QED
    BY <2>2 DEF Inv, VarsFit, SeenFits, TypeOK
<1>3. QED
  BY <1>1, <1>2

\* the window of a step,
LEMMA InvAttendsWindow ==
  ASSUME Inv
  PROVE  AttendsWindow
<1>. SUFFICES ASSUME NEW p \in DOMAIN seen,
                     p = Max(DOMAIN seen) \/ Max(DOMAIN seen) < cache.steps
              PROVE  seen[p] = Attendable(p)
  BY DEF AttendsWindow
<1>. DEFINE positions == DOMAIN seen
<1>1. MaxEnd \in Nat /\ positions \in SUBSET (0 .. MaxEnd) /\ positions # {}
  BY CachedDecodeAssumption DEF Inv, SeenFits
<1>2. Max(positions) \in positions /\ \A q \in positions : q <= Max(positions)
  BY <1>1, MaxProps
<1>3. cache.steps \in Nat
  BY InvTypes DEF TypeOK
<1>4. (\A q \in positions : q <= p) \/ (\A q \in positions : q < cache.steps)
  BY <1>1, <1>2, <1>3
<1>5. QED
  BY <1>4 DEF Inv, SeenFits

\* and the order of an export.
LEMMA InvExportIsChronological ==
  ASSUME Inv
  PROVE  ExportIsChronological
<1>. SUFFICES ASSUME ~(mode \in Bounded /\ cursor.valid = cursor.steps
                        /\ cursor.end > cursor.steps)
              PROVE  ExportState(cache) = State(cache.end, Kept(cache))
  BY DEF ExportIsChronological
<1>1. CASE HasState
  <2>1. IsCache(cache) /\ Holds(cache.rows, End, Pin(cache), cache.steps)
    BY <1>1 DEF Inv, CacheFits
  <2>2. mode \in Bounded => End = cache.end
    BY <1>1, <2>1, CacheProps
       DEF Inv, VarsFit, BoundedFits, End, Lesser, IsCache, Bounded, Vibevoice
  <2>3. mode \notin Bounded => End = cache.end
    BY DEF Inv, VarsFit, ContextFits, End, Modes, Vibevoice
  <2>4. QED
    BY <2>1, <2>2, <2>3, ExportProps
<1>2. CASE ~HasState
  <2>1. cache.valid = 0 /\ cache.end = 0
    BY <1>2 DEF Inv, CacheFits, NewCache
  <2>2. 1 .. cache.valid = {}
    BY <2>1
  <2>3. QED
    BY <2>1, <2>2 DEF ExportState, Kept
<1>3. QED
  BY <1>1, <1>2

----------------------------------------------------------------------------
(* voxtral_realtime *)

\* The capacity voxtral asks for is within its window.
LEMMA WindowProps ==
  ASSUME NEW m \in Bounded, NEW required \in Nat
  PROVE  /\ WindowOf(m) \in Nat \ {0}
         /\ TargetSteps(m, required) \in 1 .. WindowOf(m)
         /\ TargetSteps(m, required) >= Lesser(required, WindowOf(m))
<1>1. WindowOf(m) \in Nat \ {0} /\ LeastOf(m) \in Nat \ {0}
  BY CachedDecodeAssumption DEF Bounded, WindowOf, LeastOf
<1>2. QED
  BY <1>1, CacheStepsProps DEF TargetSteps

\* What NewCache makes: a plain cache,
LEMMA PlainIsNew ==
  ASSUME NEW steps \in Nat \ {0}, NEW new, new = NewCache(steps, FALSE, 0)
  PROVE  IsNew(new) /\ new.steps = steps /\ ~new.ring /\ new.pinned = 0
BY DEF IsNew, NewCache

\* and one that holds an empty sequence.
LEMMA NewIsCache ==
  ASSUME NEW new, IsNew(new)
  PROVE  /\ IsCache(new) /\ Holds(new.rows, 0, Pin(new), new.steps)
         /\ new.valid = 0 /\ new.end = 0
<1>1. MaxEnd \in Nat /\ Blank \in Contents
  BY CachedDecodeAssumption DEF Contents, Blank
<1>. DEFINE blank == [slot \in 0 .. new.steps - 1 |-> Blank]
<1>2. blank \in [0 .. new.steps - 1 -> Contents]
  BY <1>1
<1>. HIDE DEF blank
<1>3. /\ new \in [steps : Nat, ring : BOOLEAN, pinned : Nat, valid : Nat,
                  end : 0 .. MaxEnd, rows : [0 .. new.steps - 1 -> Contents]]
      /\ new.valid = 0 /\ new.end = 0
  BY <1>1, <1>2 DEF IsNew, NewCache, blank
<1>4. IsCache(new)
  BY <1>3 DEF IsCache, IsNew, Lesser
<1>5. Holds(new.rows, 0, Pin(new), new.steps)
  BY DEF Holds, Keeps
<1>6. QED
  BY <1>3, <1>4, <1>5

\* Before a step nothing was seen.
LEMMA NoAttentionFits ==
  ASSUME seen' = NoAttention
  PROVE  SeenFits'
BY DEF NoAttention, SeenFits

\* A prompt of voxtral, whether it fits or is refused.
LEMMA BeginInv ==
  ASSUME Inv, NEW m \in Bounded, NEW n \in Prompts, Begin(m, n)
  PROVE  Inv'
<1>. DEFINE T == TargetSteps(m, n)
            graph == NewCache(T, FALSE, 0)
<1>1. n \in 1 .. MaxEnd /\ n \in Nat /\ MaxEnd \in Nat
  BY CachedDecodeAssumption
<1>2. /\ WindowOf(m) \in Nat /\ T \in 1 .. WindowOf(m) /\ T \in Nat \ {0}
      /\ T >= Lesser(n, WindowOf(m))
  BY <1>1, WindowProps
<1>3. IsNew(graph) /\ graph.steps = T /\ ~graph.ring /\ graph.pinned = 0
  BY <1>2, PlainIsNew
<1>4. /\ mode' = m /\ mask' = {} /\ uploaded' = FALSE /\ seen' = NoAttention
      /\ pinned' = pinned
      /\ IF CanImport(graph, Prefill(n))
           THEN /\ cache' = ImportState(graph, Prefill(n))
                /\ cursor' = ImportCursor(Prefill(n), graph.steps)
           ELSE cache' = graph /\ cursor' = NoCursor
  BY DEF Begin
<1>. HIDE DEF graph, T
<1>5. /\ IsCache(cache') /\ Holds(cache'.rows, cursor'.end, Pin(cache'), cache'.steps)
      /\ cache'.steps = T /\ ~cache'.ring
      /\ cursor' \in [valid : Nat, end : 0 .. MaxEnd, steps : {0, cache'.steps}]
      /\ cursor'.valid <= cursor'.steps
      /\ cursor'.valid = Lesser(cursor'.end, cursor'.steps) /\ cursor'.valid = cache'.valid
      /\ cursor'.steps = 0 => cursor'.end = 0
      /\ cursor'.end <= cache'.steps
  <2>1. CASE CanImport(graph, Prefill(n))
    <3>1. /\ IsCache(cache') /\ Holds(cache'.rows, n, Pin(cache'), cache'.steps)
          /\ cache'.steps = T /\ ~cache'.ring /\ cache'.valid = n /\ n <= T
      BY <1>1, <1>3, <1>4, <2>1, PrefillProps
    <3>2. cursor' = [valid |-> n, end |-> n, steps |-> T]
      <4>1. Len(Prefill(n).rows) = n /\ Prefill(n).end = n
        BY <1>1 DEF Prefill, State
      <4>2. QED
        BY <1>3, <1>4, <2>1, <4>1 DEF ImportCursor
    <3>3. QED
      BY <1>1, <1>2, <3>1, <3>2 DEF Lesser
  <2>2. CASE ~CanImport(graph, Prefill(n))
    <3>1. cache' = graph /\ cursor' = [valid |-> 0, end |-> 0, steps |-> 0]
      BY <1>4, <2>2 DEF NoCursor
    <3>2. /\ IsCache(cache') /\ Holds(cache'.rows, 0, Pin(cache'), cache'.steps)
          /\ cache'.valid = 0
      BY <1>3, <3>1, NewIsCache
    <3>3. QED
      BY <1>1, <1>2, <1>3, <3>1, <3>2 DEF Lesser
  <2>3. QED
    BY <2>1, <2>2
<1>6. mode' \in Bounded /\ mode' \notin Vibevoice /\ mode' # "context" /\ mode' \in Modes
  BY <1>4 DEF Bounded, Vibevoice, Modes
<1>7. VarsFit'
  BY <1>4, <1>5, <1>6 DEF Inv, VarsFit
<1>8. CacheFits'
  <2>1. HasState' /\ End' = cursor'.end
    BY <1>2, <1>5, <1>6 DEF HasState, End
  <2>2. QED
    BY <1>5, <2>1 DEF CacheFits
<1>9. BoundedFits'
  BY <1>2, <1>4, <1>5 DEF BoundedFits, WindowOf
<1>10. QED
  BY <1>4, <1>6, <1>7, <1>8, <1>9, NoAttentionFits DEF Inv

\* grow_for_next_step leaves room for a row, or a full window, and the same sequence.
LEMMA GrowProps ==
  ASSUME Inv, mode \in Bounded, cursor.steps > 0, NEW graph, graph = GrowForNextStep(mode)
  PROVE  /\ IsCache(graph.cache) /\ ~graph.cache.ring
         /\ Holds(graph.cache.rows, cursor.end, 0, graph.cache.steps)
         /\ graph.cursor = [valid |-> graph.cache.valid, end |-> cursor.end,
                            steps |-> graph.cache.steps]
         /\ graph.cache.valid = Lesser(cursor.end, graph.cache.steps)
         /\ graph.cache.steps <= WindowOf(mode)
         /\ graph.cache.steps < WindowOf(mode) => cursor.end < graph.cache.steps
         /\ graph.uploaded \in BOOLEAN /\ graph.mask \subseteq 0 .. graph.cache.steps - 1
         /\ graph.uploaded => graph.mask = 0 .. graph.cache.valid - 1
<1>. DEFINE T == TargetSteps(mode, cursor.valid + 1)
            W == WindowOf(mode)
<1>1. /\ cursor \in [valid : Nat, end : 0 .. MaxEnd, steps : {0, cache.steps}]
      /\ cursor.valid = Lesser(cursor.end, cache.steps) /\ cursor.valid = cache.valid
      /\ cursor.steps = cache.steps /\ HasState /\ ~cache.ring
      /\ cache.steps <= W /\ (cache.steps < W => cursor.end <= cache.steps)
      /\ mask \subseteq 0 .. cache.steps - 1 /\ uploaded \in BOOLEAN
      /\ uploaded => mask = 0 .. cache.valid - 1
  BY DEF Inv, VarsFit, BoundedFits, HasState
<1>2. /\ IsCache(cache) /\ Pin(cache) = 0 /\ mode \notin Vibevoice
      /\ Holds(cache.rows, cursor.end, 0, cache.steps)
  BY <1>1 DEF Inv, CacheFits, Pin, End, Bounded, Vibevoice
<1>3. /\ cursor.valid \in Nat /\ cursor.valid + 1 \in Nat /\ cursor.end \in Nat
      /\ MaxEnd \in Nat /\ cache.steps \in Nat
  BY <1>1, <1>2, CachedDecodeAssumption, CacheProps
<1>4. W \in Nat /\ T \in 1 .. W /\ T >= Lesser(cursor.valid + 1, W)
  BY <1>3, WindowProps
<1>5. CASE cache.steps < T
  <2>. DEFINE new == NewCache(T, FALSE, 0)
              state == ExportState(cache)
  <2>1. cache.end = cursor.end /\ cursor.end = cursor.valid /\ cursor.end <= cache.steps
    BY <1>1, <1>2, <1>3, <1>4, <1>5, CacheProps DEF IsCache, Lesser
  <2>2. T \in Nat \ {0}
    BY <1>4
  <2>3. IsNew(new) /\ new.steps = T /\ ~new.ring /\ new.pinned = 0
    BY <2>2, PlainIsNew
  <2>4. /\ graph.cache = ImportState(new, state) /\ graph.cursor = ImportCursor(state, T)
        /\ graph.mask = {} /\ graph.uploaded = FALSE
    BY <1>1, <1>5 DEF GrowForNextStep
  <2>5. state = State(cache.end, Kept(cache))
    BY <1>1, <1>2, <2>1, ExportProps
  <2>6. state.end = cursor.end /\ Len(state.rows) = cache.valid
    BY <1>2, <2>1, <2>5, CacheProps DEF State, Kept
  <2>. HIDE DEF new, state, T
  <2>7. cache.end = cursor.end /\ Holds(cache.rows, cache.end, Pin(cache), cache.steps)
    BY <1>2, <2>1
  <2>8. /\ IsCache(graph.cache)
        /\ Holds(graph.cache.rows, graph.cache.end, Pin(graph.cache), graph.cache.steps)
        /\ graph.cache.steps = T /\ ~graph.cache.ring
        /\ graph.cache.end = cursor.end /\ graph.cache.valid = cursor.valid
    <3>1. ~cache.ring /\ new.steps >= cache.end
      BY <1>1, <1>3, <1>4, <1>5, <2>1, <2>3
    <3>2. graph.cache = ImportState(new, ExportState(cache))
      BY <2>4 DEF state
    <3>3. QED
      BY <1>1, <1>2, <2>3, <2>7, <3>1, <3>2, MoveProps
  <2>9. Pin(graph.cache) = 0
    BY <2>8 DEF Pin
  <2>10. graph.cursor = [valid |-> cache.valid, end |-> cursor.end, steps |-> T]
    BY <2>4, <2>6 DEF ImportCursor
  <2>11. /\ graph.cache.valid = Lesser(cursor.end, T) /\ cursor.end < T
         /\ graph.cache.steps <= W
    BY <1>3, <1>4, <1>5, <2>1, <2>8 DEF Lesser
  <2>12. QED
    BY <1>1, <2>4, <2>8, <2>9, <2>10, <2>11
<1>6. CASE ~ (cache.steps < T)
  <2>1. /\ graph.cache = cache /\ graph.cursor = cursor /\ graph.mask = mask
        /\ (graph.uploaded <=> uploaded) /\ graph.uploaded \in BOOLEAN
    BY <1>1, <1>6 DEF GrowForNextStep
  <2>. HIDE DEF T, W
  <2>2. cache.steps < W => cursor.end < cache.steps
    BY <1>1, <1>3, <1>4, <1>6 DEF Lesser
  <2>3. QED
    BY <1>1, <1>2, <2>1, <2>2 DEF W
<1>7. QED
  BY <1>3, <1>4, <1>5, <1>6

\* One row written at the place of the next position.
\* One row written in its slot: the cache then holds one position more, and the
\* written slots are the window of that position.
LEMMA WriteOne ==
  ASSUME NEW c, IsCache(c), ~c.ring, NEW end \in Nat,
         Holds(c.rows, end, 0, c.steps),
         NEW rows, rows[Place(end, 0, c.steps)] = end,
         \A s \in 0 .. c.steps - 1 : s # Place(end, 0, c.steps) => rows[s] = c.rows[s]
  PROVE  /\ Holds(rows, end + 1, 0, c.steps)
         /\ {rows[s] : s \in 0 .. Lesser(end + 1, c.steps) - 1}
              = {q \in 0 .. end : q > end - c.steps}
<1>1. c.steps \in Nat /\ 0 \in Nat /\ 0 < c.steps /\ end + 1 \in Nat
  BY CacheProps
<1>2. Holds(rows, end + 1, 0, c.steps)
  <2>1. \A q \in end .. end + 1 - 1 : q = end
    OBVIOUS
  <2>2. end \in end .. end + 1 - 1
    OBVIOUS
  <2>3. QED
    BY <1>1, <2>1, <2>2, AppendHolds
<1>3. {rows[s] : s \in 0 .. Lesser(end + 1, c.steps) - 1} = Keeps(end + 1, 0, c.steps)
  BY <1>1, <1>2, KeptContents
<1>4. Keeps(end + 1, 0, c.steps) = {q \in 0 .. end : q > end - c.steps}
  BY <1>1 DEF Keeps
<1>5. QED
  BY <1>2, <1>3, <1>4

\* advance_after_direct_append counts the rows that are left.
LEMMA AdvanceProps ==
  ASSUME NEW c, IsCache(c), NEW n \in Nat, CanAppend(c, n), c.end + n <= MaxEnd,
         NEW rows \in [0 .. c.steps - 1 -> Contents]
  PROVE  LET new == AdvanceAfterDirectAppend([c EXCEPT !.rows = rows], n) IN
         /\ IsCache(new)
         /\ new.steps = c.steps /\ (new.ring <=> c.ring) /\ new.pinned = c.pinned
         /\ new.rows = rows /\ new.end = c.end + n
<1>. DEFINE new == AdvanceAfterDirectAppend([c EXCEPT !.rows = rows], n)
            Records == [steps : Nat, ring : BOOLEAN, pinned : Nat, valid : Nat,
                        end : 0 .. MaxEnd, rows : [0 .. c.steps - 1 -> Contents]]
            v == IF c.ring THEN Min({c.steps, c.valid + n}) ELSE c.valid + n
<1>1. /\ c.steps \in Nat /\ c.steps > 0 /\ c.end \in Nat /\ c.valid \in Nat
      /\ c.valid = Lesser(c.end, c.steps) /\ MaxEnd \in Nat
      /\ ~c.ring => c.valid + n <= c.steps /\ c.end <= c.steps
      /\ c.end + n \in 0 .. MaxEnd /\ c.valid + n \in Nat
  <2>1. /\ c.steps \in Nat /\ c.steps > 0 /\ c.end \in Nat /\ c.valid \in Nat
        /\ c.valid = Lesser(c.end, c.steps) /\ MaxEnd \in Nat
    BY CacheProps, ConstantProps
  <2>2. ~c.ring => c.valid + n <= c.steps /\ c.end <= c.steps
    BY DEF IsCache, CanAppend
  <2>3. QED
    BY <2>1, <2>2
<1>2. v = Lesser(c.end + n, c.steps)
  <2>1. CASE c.ring
    <3>1. v = Lesser(c.steps, c.valid + n)
      BY <1>1, <2>1, MinOfTwo
    <3>. HIDE DEF v
    <3>2. QED
      BY <1>1, <3>1 DEF Lesser
  <2>2. CASE ~c.ring
    BY <1>1, <2>2 DEF Lesser
  <2>3. QED
    BY <2>1, <2>2
<1>3. v \in Nat
  <2>. HIDE DEF v
  <2>1. QED
    BY <1>1, <1>2 DEF Lesser
<1>. DEFINE written == [c EXCEPT !.rows = rows]
<1>4. /\ written \in Records /\ written.steps = c.steps /\ written.ring = c.ring
      /\ written.pinned = c.pinned /\ written.valid = c.valid /\ written.end = c.end
      /\ written.rows = rows
  BY DEF IsCache
<1>5. new = [written EXCEPT !.valid = v, !.end = c.end + n]
  <2>. HIDE DEF written
  <2>1. CASE c.ring
    <3>1. AdvanceAfterDirectAppend(written, n)
            = [written EXCEPT !.valid = Min({c.steps, c.valid + n}), !.end = c.end + n]
      BY <1>4, <2>1 DEF AdvanceAfterDirectAppend
    <3>2. v = Min({c.steps, c.valid + n})
      BY <2>1
    <3>3. QED
      BY <3>1, <3>2 DEF written
  <2>2. CASE ~c.ring
    <3>1. AdvanceAfterDirectAppend(written, n)
            = [written EXCEPT !.valid = c.valid + n, !.end = c.end + n]
      BY <1>4, <2>2 DEF AdvanceAfterDirectAppend
    <3>2. v = c.valid + n
      BY <2>2
    <3>3. QED
      BY <3>1, <3>2 DEF written
  <2>3. QED
    BY <2>1, <2>2
<1>. HIDE DEF new, written, v
<1>6. /\ new \in Records /\ new.steps = c.steps /\ (new.ring <=> c.ring)
      /\ new.pinned = c.pinned /\ new.rows = rows
      /\ new.end = c.end + n /\ new.valid = v
  BY <1>1, <1>3, <1>4, <1>5
<1>7. c.ring => c.pinned < c.steps
  BY DEF IsCache
<1>8. ~c.ring => c.end + n <= c.steps
  BY <1>1 DEF Lesser
<1>9. IsCache(new)
  BY <1>1, <1>2, <1>6, <1>7, <1>8 DEF IsCache
<1>10. QED
  BY <1>6, <1>9 DEF new

\* A step of voxtral.
LEMMA StepInv ==
  ASSUME Inv, Step
  PROVE  Inv'
<1>. DEFINE graph == GrowForNextStep(mode)
            c == graph.cache
            slot == NextSlot(graph.cursor)
            shown == WrittenMask(graph)
            rows == [c.rows EXCEPT ![slot] = graph.cursor.end]
            written == [c EXCEPT !.rows = rows]
            end == cursor.end
            W == WindowOf(mode)
<1>1. /\ mode \in Bounded /\ cursor.steps > 0 /\ end < MaxEnd
      /\ seen' = [p \in {graph.cursor.end} |-> {rows[s] : s \in shown}]
      /\ cache' = IF graph.cursor.valid < graph.cursor.steps
                    THEN AdvanceAfterDirectAppend(written, 1) ELSE written
      /\ cursor' = AdvanceCursor(graph.cursor)
      /\ mask' = shown /\ uploaded' = TRUE
      /\ mode' = mode /\ pinned' = pinned
  BY DEF Step
<1>2. /\ IsCache(c) /\ ~c.ring /\ Holds(c.rows, end, 0, c.steps)
      /\ graph.cursor = [valid |-> c.valid, end |-> end, steps |-> c.steps]
      /\ c.valid = Lesser(end, c.steps)
      /\ c.steps <= W /\ (c.steps < W => end < c.steps)
      /\ graph.uploaded => graph.mask = 0 .. c.valid - 1
  BY <1>1, GrowProps
<1>3. /\ end \in 0 .. MaxEnd /\ end \in Nat /\ MaxEnd \in Nat /\ W \in Nat
      /\ c.steps \in Nat /\ c.steps > 0 /\ c.valid \in Nat /\ c.valid <= c.steps
      /\ c.end = c.valid /\ c.pinned \in Nat
      /\ graph.cursor.valid = c.valid /\ graph.cursor.end = end /\ graph.cursor.steps = c.steps
  <2>1. MaxEnd \in Nat /\ end \in 0 .. MaxEnd
    BY CachedDecodeAssumption DEF Inv, VarsFit
  <2>2. W \in Nat
    <3>1. 0 \in Nat
      OBVIOUS
    <3>2. QED
      BY <1>1, <3>1, WindowProps
  <2>3. /\ c.steps \in Nat /\ c.steps > 0 /\ c.valid \in Nat /\ c.valid <= c.steps
        /\ c.pinned \in Nat
    BY <1>2, CacheProps
  <2>4. c.end = c.valid
    BY <1>2, CacheProps DEF IsCache, Lesser
  <2>5. QED
    BY <1>2, <2>1, <2>2, <2>3, <2>4
<1>. HIDE DEF graph, W
<1>4. slot = Place(end, 0, c.steps) /\ (c.valid < c.steps => slot = c.valid /\ c.valid = end)
  <2>1. CASE c.valid < c.steps
    <3>1. slot = c.valid /\ c.valid = end
      BY <1>2, <1>3, <2>1 DEF NextSlot, Lesser
    <3>2. Place(end, 0, c.steps) = end
      BY <1>2, <1>3, <2>1, <3>1, PlaceProps
    <3>3. QED
      BY <3>1, <3>2
  <2>2. CASE ~ (c.valid < c.steps)
    <3>1. slot = end % c.steps
      BY <1>2, <1>3, <2>2 DEF NextSlot
    <3>2. QED
      BY <1>3, <2>2, <3>1 DEF Place
  <2>3. QED
    BY <2>1, <2>2
<1>5. shown = 0 .. Lesser(end + 1, c.steps) - 1
  <2>1. slot \in 0 .. c.steps - 1
    BY <1>3, <1>4, PlaceProps
  <2>2. CASE c.valid < c.steps
    <3>1. shown = (0 .. c.valid - 1) \cup {slot}
      BY <1>2, <1>3, <2>2 DEF WrittenMask
    <3>2. QED
      BY <1>3, <1>4, <2>2, <3>1 DEF Lesser
  <2>3. CASE ~ (c.valid < c.steps)
    <3>1. shown = (0 .. c.valid - 1) \cup {slot} \/ shown = 0 .. c.valid - 1
      BY <1>2, <1>3, <2>3 DEF WrittenMask
    <3>2. c.valid = c.steps /\ Lesser(end + 1, c.steps) = c.steps
      BY <1>2, <1>3, <2>3 DEF Lesser
    <3>3. QED
      BY <1>3, <2>1, <3>1, <3>2
  <2>4. QED
    BY <2>2, <2>3
<1>6. /\ rows \in [0 .. c.steps - 1 -> Contents] /\ slot \in 0 .. c.steps - 1
      /\ Holds(rows, end + 1, 0, c.steps)
      /\ {rows[s] : s \in shown} = {q \in 0 .. end : q > end - c.steps}
  <2>1. rows = [c.rows EXCEPT ![slot] = end]
    BY <1>2
  <2>2. slot \in 0 .. c.steps - 1 /\ c.rows \in [0 .. c.steps - 1 -> Contents]
    <3>1. slot \in 0 .. c.steps - 1
      BY <1>3, <1>4, PlaceProps
    <3>2. c.rows \in [0 .. c.steps - 1 -> Contents]
      BY <1>2, CacheProps
    <3>3. QED
      BY <3>1, <3>2
  <2>3. end \in Contents
    BY <1>3 DEF Contents, Blank
  <2>. HIDE DEF c, slot, shown, rows, end
  <2>4. rows \in [0 .. c.steps - 1 -> Contents]
    BY <2>1, <2>2, <2>3
  <2>5. rows[slot] = end /\ \A s \in 0 .. c.steps - 1 : s # slot => rows[s] = c.rows[s]
    BY <2>1, <2>2
  <2>6. /\ Holds(rows, end + 1, 0, c.steps)
        /\ {rows[s] : s \in 0 .. Lesser(end + 1, c.steps) - 1}
             = {q \in 0 .. end : q > end - c.steps}
    BY <1>2, <1>3, <1>4, <2>5, WriteOne
  <2>7. QED
    BY <1>5, <2>2, <2>4, <2>6
<1>7. /\ cursor'.valid = Lesser(end + 1, c.steps) /\ cursor'.end = end + 1
      /\ cursor'.steps = c.steps
      /\ cursor' \in [valid : Nat, end : 0 .. MaxEnd, steps : {c.steps}]
  <2>. DEFINE v == IF c.valid < c.steps THEN c.valid + 1 ELSE c.valid
  <2>. HIDE DEF c, end
  <2>1. cursor' = [graph.cursor EXCEPT !.valid = v, !.end = end + 1]
    BY <1>1, <1>3 DEF AdvanceCursor
  <2>2. v = Lesser(end + 1, c.steps) /\ v \in Nat /\ end + 1 \in 0 .. MaxEnd
    BY <1>1, <1>2, <1>3 DEF Lesser, end
  <2>. HIDE DEF v
  <2>3. graph.cursor \in [valid : Nat, end : 0 .. MaxEnd, steps : {c.steps}]
    BY <1>2, <1>3
  <2>4. QED
    BY <1>3, <2>1, <2>2, <2>3
<1>8. /\ cache'.steps = c.steps /\ ~cache'.ring /\ cache'.rows = rows
      /\ cache'.valid = Lesser(end + 1, c.steps) /\ IsCache(cache')
  <2>1. /\ written.steps = c.steps /\ ~written.ring /\ written.rows = rows
        /\ written.valid = c.valid /\ written.end = c.end
        /\ written \in [steps : Nat, ring : BOOLEAN, pinned : Nat, valid : Nat,
                        end : 0 .. MaxEnd, rows : [0 .. c.steps - 1 -> Contents]]
    BY <1>2, <1>3, <1>6 DEF IsCache
  <2>. HIDE DEF written, rows, c
  <2>2. CASE c.valid < c.steps
    <3>1. cache' = [written EXCEPT !.valid = @ + 1, !.end = @ + 1]
      BY <1>1, <1>2, <2>1, <2>2 DEF AdvanceAfterDirectAppend
    <3>2. c.valid + 1 \in Nat /\ c.end + 1 \in 0 .. MaxEnd /\ c.valid = end
          /\ Lesser(end + 1, c.steps) = end + 1
      BY <1>1, <1>2, <1>3, <2>2 DEF Lesser
    <3>3. /\ cache'.steps = c.steps /\ ~cache'.ring /\ cache'.rows = rows
          /\ cache'.valid = c.valid + 1 /\ cache'.end = c.end + 1
          /\ cache' \in [steps : Nat, ring : BOOLEAN, pinned : Nat, valid : Nat,
                         end : 0 .. MaxEnd, rows : [0 .. c.steps - 1 -> Contents]]
      BY <2>1, <3>1, <3>2
    <3>4. QED
      BY <1>3, <2>2, <3>2, <3>3 DEF IsCache, Lesser
  <2>3. CASE ~ (c.valid < c.steps)
    <3>1. cache' = written
      BY <1>1, <1>2, <2>3
    <3>2. Lesser(end + 1, c.steps) = c.valid
      BY <1>2, <1>3, <2>3 DEF Lesser
    <3>3. QED
      BY <1>2, <1>3, <2>1, <3>1, <3>2 DEF IsCache
  <2>4. QED
    BY <2>2, <2>3
<1>9. seen' = [p \in {end} |-> {q \in 0 .. end : q > end - c.steps}]
  BY <1>1, <1>2, <1>6
<1>10. mode' \in Bounded /\ mode' \notin Vibevoice /\ mode' # "context" /\ mode' \in Modes
  BY <1>1 DEF Bounded, Vibevoice, Modes
<1>. HIDE DEF c, rows, shown, slot, end
<1>11. VarsFit'
  <2>1. mask' \subseteq 0 .. cache'.steps - 1
    BY <1>1, <1>3, <1>5, <1>8 DEF Lesser
  <2>2. cursor' \in [valid : Nat, end : 0 .. MaxEnd, steps : {0, cache'.steps}]
        /\ cursor'.valid <= cursor'.steps
    BY <1>1, <1>3, <1>7, <1>8 DEF Lesser
  <2>3. QED
    BY <1>1, <1>10, <2>1, <2>2 DEF Inv, VarsFit
<1>12. CacheFits'
  <2>1. HasState' /\ End' = end + 1 /\ Pin(cache') = 0
    BY <1>3, <1>7, <1>8, <1>10 DEF HasState, End, Pin
  <2>2. QED
    BY <1>6, <1>8, <2>1 DEF CacheFits
<1>13. BoundedFits'
  <2>1. WindowOf(mode') = W
    BY <1>1 DEF W
  <2>2. QED
    BY <1>1, <1>2, <1>3, <1>5, <1>7, <1>8, <2>1 DEF BoundedFits
<1>14. SeenFits'
  <2>1. DOMAIN seen' = {end} /\ seen'[end] = {q \in 0 .. end : q > end - c.steps}
    BY <1>9
  <2>2. seen'[end] \subseteq Contents
    BY <1>3, <2>1 DEF Contents, Blank
  <2>3. ASSUME NEW p \in DOMAIN seen'
        PROVE  seen'[p] = Attendable(p)'
    <3>1. p = end
      BY <2>1
    <3>2. WindowOf(mode') = W
      BY <1>1 DEF W
    <3>3. Attendable(p)' = {q \in 0 .. p : q > p - W}
      <4>1. mode' # "history"
        BY <1>10 DEF Vibevoice
      <4>2. QED
        BY <1>10, <3>2, <4>1 DEF Attendable
    <3>4. {q \in 0 .. end : q > end - W} = {q \in 0 .. end : q > end - c.steps}
      BY <1>2, <1>3
    <3>5. QED
      BY <2>1, <3>1, <3>3, <3>4
  <2>4. seen' \in [DOMAIN seen' -> SUBSET Contents]
    BY <1>9, <2>1, <2>2
  <2>5. DOMAIN seen' \subseteq 0 .. MaxEnd
    BY <1>3, <2>1
  <2>6. QED
    BY <2>3, <2>4, <2>5 DEF SeenFits
<1>15. QED
  BY <1>10, <1>11, <1>12, <1>13, <1>14 DEF Inv

----------------------------------------------------------------------------
(* personaplex *)

\* A reset of personaplex.
LEMMA ResetInv ==
  ASSUME Inv, Reset
  PROVE  Inv'
<1>1. /\ mode = "context" /\ mode' = mode
      /\ cache' = [cache EXCEPT !.valid = 0, !.end = 0]
      /\ cursor' = [valid |-> 0, end |-> 0, steps |-> cache.steps]
      /\ seen' = NoAttention /\ UNCHANGED <<mask, uploaded, pinned>>
  BY DEF Reset, RetainPrefix
<1>2. mode' \notin Bounded /\ mode' \notin Vibevoice /\ mode' \in Modes
  BY <1>1 DEF Modes, Bounded, Vibevoice
<1>. DEFINE Records == [steps : Nat, ring : BOOLEAN, pinned : Nat, valid : Nat,
                        end : 0 .. MaxEnd, rows : [0 .. cache.steps - 1 -> Contents]]
<1>3. /\ ~cache.ring /\ cache.steps = Context /\ Context \in Nat \ {0} /\ MaxEnd \in Nat
      /\ mask = {} /\ ~uploaded /\ pinned \in Nat /\ HasState /\ IsCache(cache)
      /\ uploaded \in BOOLEAN /\ cache \in Records
  <2>1. /\ ~cache.ring /\ cache.steps = Context /\ mask = {} /\ ~uploaded /\ pinned \in Nat
        /\ uploaded \in BOOLEAN
    BY <1>1 DEF Inv, VarsFit, ContextFits
  <2>2. HasState
    BY <2>1, ConstantProps DEF HasState
  <2>3. IsCache(cache)
    BY <2>2 DEF Inv, CacheFits
  <2>4. QED
    BY <2>1, <2>2, <2>3, ConstantProps DEF IsCache
<1>4. /\ cache'.steps = cache.steps /\ ~cache'.ring /\ cache'.valid = 0 /\ cache'.end = 0
      /\ cache' \in Records
  <2>1. cache \in Records /\ 0 \in Nat /\ 0 \in 0 .. MaxEnd
    BY <1>3
  <2>2. cache' = [cache EXCEPT !.valid = 0, !.end = 0] /\ ~cache.ring
    BY <1>1, <1>3
  <2>3. QED
    BY <2>1, <2>2
<1>5. IsCache(cache')
  BY <1>3, <1>4 DEF IsCache, Lesser
<1>6. HasState' /\ End' = 0
  BY <1>1, <1>2, <1>3, <1>4 DEF HasState, End
<1>7. Holds(cache'.rows, 0, Pin(cache'), cache'.steps)
  BY DEF Holds, Keeps
<1>8. CacheFits'
  BY <1>5, <1>6, <1>7 DEF CacheFits
<1>9. VarsFit'
  BY <1>1, <1>2, <1>3, <1>4 DEF VarsFit
<1>10. ContextFits'
  BY <1>1, <1>3, <1>4 DEF ContextFits
<1>11. QED
  BY <1>1, <1>2, <1>8, <1>9, <1>10, NoAttentionFits DEF Inv

\* A step of personaplex.
LEMMA ContextStepInv ==
  ASSUME Inv, ContextStep
  PROVE  Inv'
<1>. DEFINE slot == NextSlot(cursor)
            rows == [cache.rows EXCEPT ![slot] = cursor.end]
            shown == (0 .. cursor.valid - 1) \cup {slot}
            end == cursor.end
            steps == cache.steps
<1>1. /\ mode = "context" /\ mode' = mode
      /\ cursor.valid < cache.steps
      /\ seen' = [p \in {end} |-> {rows[s] : s \in shown}]
      /\ cache' = AdvanceAfterDirectAppend([cache EXCEPT !.rows = rows], 1)
      /\ cursor' = AdvanceCursor(cursor)
      /\ UNCHANGED <<mask, uploaded, pinned>>
  BY DEF ContextStep
<1>2. mode' \notin Bounded /\ mode' \notin Vibevoice /\ mode' \in Modes /\ mode' # "history"
      /\ mode \notin Bounded /\ mode \notin Vibevoice
  BY <1>1 DEF Modes, Bounded, Vibevoice
<1>3. /\ ~cache.ring /\ steps = Context /\ Context \in Nat \ {0} /\ Context <= MaxEnd
      /\ MaxEnd \in Nat /\ cursor.valid = cache.valid /\ cursor.end = cache.end
      /\ cursor.steps = steps /\ mask = {} /\ ~uploaded /\ pinned \in Nat
      /\ cursor \in [valid : Nat, end : 0 .. MaxEnd, steps : {0, steps}]
      /\ HasState /\ IsCache(cache) /\ Holds(cache.rows, end, 0, steps)
      /\ uploaded \in BOOLEAN
  <2>1. /\ ~cache.ring /\ steps = Context /\ cursor.valid = cache.valid
        /\ cursor.end = cache.end /\ cursor.steps = steps /\ mask = {} /\ ~uploaded
        /\ pinned \in Nat /\ uploaded \in BOOLEAN
        /\ cursor \in [valid : Nat, end : 0 .. MaxEnd, steps : {0, steps}]
    BY <1>1 DEF Inv, VarsFit, ContextFits
  <2>2. HasState
    BY <2>1, ConstantProps DEF HasState
  <2>3. IsCache(cache) /\ Holds(cache.rows, end, 0, steps)
    BY <1>2, <2>1, <2>2 DEF Inv, CacheFits, End, Pin
  <2>4. QED
    BY <2>1, <2>2, <2>3, ConstantProps
<1>4. /\ end \in Nat /\ steps \in Nat /\ steps > 0 /\ end = cache.valid /\ end < steps
      /\ end + 1 \in 0 .. MaxEnd /\ cache.rows \in [0 .. steps - 1 -> Contents]
  BY <1>1, <1>3, CacheProps DEF IsCache, Lesser
<1>5. slot = end /\ Place(end, 0, steps) = end
  BY <1>1, <1>3, <1>4, PlaceProps DEF NextSlot
<1>6. shown = 0 .. Lesser(end + 1, steps) - 1
  BY <1>3, <1>4, <1>5 DEF Lesser
<1>7. end \in Contents
  BY <1>3, <1>4 DEF Contents, Blank
<1>. HIDE DEF slot, end, steps
<1>8. /\ rows \in [0 .. steps - 1 -> Contents] /\ rows[end] = end
      /\ \A s \in 0 .. steps - 1 : s # end => rows[s] = cache.rows[s]
  BY <1>4, <1>5, <1>7 DEF end
<1>. HIDE DEF rows, shown
<1>9. /\ Holds(rows, end + 1, 0, steps)
      /\ {rows[s] : s \in shown} = {q \in 0 .. end : q > end - steps}
  <2>1. IsCache(cache) /\ ~cache.ring /\ steps = cache.steps
    BY <1>3 DEF steps
  <2>2. /\ end \in Nat /\ Holds(cache.rows, end, 0, cache.steps)
        /\ rows[Place(end, 0, cache.steps)] = end
        /\ \A s \in 0 .. cache.steps - 1 :
             s # Place(end, 0, cache.steps) => rows[s] = cache.rows[s]
    BY <1>3, <1>4, <1>5, <1>8, <2>1
  <2>3. /\ Holds(rows, end + 1, 0, cache.steps)
        /\ {rows[s] : s \in 0 .. Lesser(end + 1, cache.steps) - 1}
             = {q \in 0 .. end : q > end - cache.steps}
    BY <2>1, <2>2, WriteOne
  <2>4. QED
    BY <1>6, <2>1, <2>3
<1>10. /\ IsCache(cache') /\ cache'.steps = steps /\ ~cache'.ring
       /\ cache'.rows = rows /\ cache'.end = end + 1
  <2>1. CanAppend(cache, 1) /\ cache.end + 1 <= MaxEnd /\ 1 \in Nat
    BY <1>3, <1>4 DEF CanAppend, steps, end
  <2>2. rows \in [0 .. cache.steps - 1 -> Contents]
    BY <1>8 DEF steps
  <2>3. LET new == AdvanceAfterDirectAppend([cache EXCEPT !.rows = rows], 1) IN
        /\ IsCache(new)
        /\ new.steps = cache.steps /\ (new.ring <=> cache.ring) /\ new.pinned = cache.pinned
        /\ new.rows = rows /\ new.end = cache.end + 1
    BY <1>3, <2>1, <2>2, AdvanceProps
  <2>4. QED
    BY <1>1, <1>3, <2>3 DEF steps, end
<1>11. cache'.valid = end + 1 /\ Pin(cache') = 0
  BY <1>4, <1>10, CacheProps DEF IsCache, Lesser, Pin
<1>12. /\ cursor'.valid = end + 1 /\ cursor'.end = end + 1 /\ cursor'.steps = steps
       /\ cursor' \in [valid : Nat, end : 0 .. MaxEnd, steps : {0, steps}]
  <2>1. cursor.valid = end /\ cursor.end = end /\ cursor.valid < cursor.steps
    BY <1>1, <1>3, <1>4 DEF end, steps
  <2>2. cursor' = [cursor EXCEPT !.valid = end + 1, !.end = end + 1]
    BY <1>1, <2>1 DEF AdvanceCursor
  <2>3. cursor.steps = steps /\ end + 1 \in Nat
        /\ cursor \in [valid : Nat, end : 0 .. MaxEnd, steps : {0, steps}]
    BY <1>3, <1>4
  <2>4. QED
    BY <1>4, <2>2, <2>3
<1>13. HasState' /\ End' = end + 1
  BY <1>2, <1>4, <1>10, <1>12 DEF HasState, End
<1>14. CacheFits'
  BY <1>9, <1>10, <1>11, <1>13 DEF CacheFits
<1>15. VarsFit' /\ ContextFits'
  <2>1. mask' = {} /\ ~uploaded' /\ uploaded' \in BOOLEAN /\ pinned' \in Nat
    BY <1>1, <1>3
  <2>2. VarsFit'
    BY <1>2, <1>4, <1>10, <1>12, <2>1 DEF VarsFit
  <2>3. ContextFits'
    BY <1>3, <1>10, <1>11, <1>12, <2>1 DEF ContextFits
  <2>4. QED
    BY <2>2, <2>3
<1>16. SeenFits'
  <2>1. DOMAIN seen' = {end} /\ seen'[end] = 0 .. end
    <3>1. {q \in 0 .. end : q > end - steps} = 0 .. end
      BY <1>4
    <3>2. QED
      BY <1>1, <1>9, <3>1
  <2>2. seen'[end] \subseteq Contents
    BY <1>3, <1>4, <2>1 DEF Contents, Blank
  <2>3. ASSUME NEW p \in DOMAIN seen'
        PROVE  seen'[p] = Attendable(p)'
    <3>1. Attendable(p)' = 0 .. p
      BY <1>2 DEF Attendable
    <3>2. QED
      BY <2>1, <3>1
  <2>4. seen' \in [DOMAIN seen' -> SUBSET Contents]
    BY <1>1, <2>1, <2>2
  <2>5. DOMAIN seen' \subseteq 0 .. MaxEnd
    BY <1>3, <1>4, <2>1
  <2>6. QED
    BY <2>3, <2>4, <2>5 DEF SeenFits
<1>17. QED
  BY <1>1, <1>2, <1>14, <1>15, <1>16 DEF Inv

----------------------------------------------------------------------------
(* vibevoice_asr *)

\* What vibevoice constructs is a ring with a history window, a plain cache without.
LEMMA VibevoiceIsNew ==
  ASSUME NEW steps \in Nat \ {0}, mode \in Vibevoice, NEW pins \in Nat,
         IsConstructible(steps, mode = "history", pins),
         NEW new, new = NewCache(steps, mode = "history", pins)
  PROVE  /\ IsNew(new) /\ new.steps = steps /\ (new.ring <=> mode = "history")
         /\ new.pinned = pins
<1>1. /\ new.steps = steps /\ new.ring = (mode = "history") /\ new.pinned = pins
      /\ new = NewCache(new.steps, new.ring, new.pinned)
  BY DEF NewCache
<1>2. new.ring => new.pinned < new.steps
  BY <1>1 DEF IsConstructible
<1>3. new.ring \in BOOLEAN
  BY <1>1
<1>4. QED
  BY <1>1, <1>2, <1>3 DEF IsNew

\* A prompt of vibevoice.
LEMMA BeginVibevoiceInv ==
  ASSUME Inv, NEW n \in Prompts, NEW pin \in BOOLEAN, BeginVibevoice(mode, n, pin)
  PROVE  Inv'
<1>. DEFINE steps == RequiredCapacity(mode, n + 1)
            pins == IF pin THEN n ELSE 0
            empty == NewCache(steps, mode = "history", pins)
<1>1. /\ mode \in Vibevoice /\ HasPositions(mode, n + 1)
      /\ IsConstructible(steps, mode = "history", pins) /\ CanImport(empty, Prefill(n))
      /\ mode' = mode /\ pinned' = pins /\ cache' = ImportState(empty, Prefill(n))
      /\ cursor' = NoCursor /\ mask' = {} /\ uploaded' = FALSE /\ seen' = NoAttention
  BY DEF BeginVibevoice
<1>2. n \in 1 .. MaxEnd /\ n + 1 \in Nat /\ pins \in Nat
  BY ConstantProps
<1>3. /\ steps \in Nat \ {0}
      /\ mode = "history" => steps = CacheGraphCapacity(History)
  BY <1>1, <1>2, ConstantProps, CapacityProps DEF RequiredCapacity, HasPositions, Clamped
<1>. HIDE DEF steps, pins
<1>4. /\ IsNew(empty) /\ empty.steps = steps /\ (empty.ring <=> mode = "history")
      /\ empty.pinned = pins
  BY <1>1, <1>2, <1>3, VibevoiceIsNew
<1>. HIDE DEF empty
<1>5. /\ IsCache(cache') /\ Holds(cache'.rows, cache'.end, Pin(cache'), cache'.steps)
      /\ cache'.steps = steps /\ (cache'.ring <=> mode = "history") /\ cache'.pinned = pins
  BY <1>1, <1>2, <1>4, PrefillProps
<1>6. mode' \notin Bounded /\ mode' # "context" /\ mode' \in Modes
  BY <1>1 DEF Bounded, Vibevoice, Modes
<1>7. HasState' /\ End' = cache'.end
  BY <1>1, <1>3, <1>5 DEF HasState, End
<1>8. VarsFit'
  <2>1. cursor' \in [valid : Nat, end : 0 .. MaxEnd, steps : {0, cache'.steps}]
        /\ cursor'.valid <= cursor'.steps
    BY <1>1, ConstantProps DEF NoCursor
  <2>2. mask' = {} /\ uploaded' \in BOOLEAN /\ pinned' \in Nat
    BY <1>1, <1>2
  <2>3. QED
    BY <1>6, <2>1, <2>2 DEF VarsFit
<1>9. CacheFits'
  BY <1>5, <1>7 DEF CacheFits
<1>10. VibevoiceFits'
  BY <1>1, <1>3, <1>5 DEF VibevoiceFits, NoCursor
<1>11. QED
  BY <1>1, <1>6, <1>8, <1>9, <1>10, NoAttentionFits DEF Inv

\* What the invariant says of a vibevoice request, in parts.
LEMMA VibevoiceState ==
  ASSUME Inv, mode \in Vibevoice, HasState
  PROVE  /\ IsCache(cache) /\ Holds(cache.rows, cache.end, Pin(cache), cache.steps)
         /\ (cache.ring <=> mode = "history") /\ cache.pinned = pinned /\ pinned \in Nat
         /\ cache.ring => cache.steps = CacheGraphCapacity(History)
         /\ cursor = NoCursor /\ mask = {} /\ ~uploaded /\ uploaded \in BOOLEAN
         /\ mode \notin Bounded /\ mode # "context" /\ mode \in Modes
BY DEF Inv, VarsFit, CacheFits, VibevoiceFits, End, Bounded, Vibevoice, Modes

\* A copy that is large enough holds what the cache of the request holds.
LEMMA GrownProps ==
  ASSUME Inv, mode \in Vibevoice, HasState, NEW steps \in Nat \ {0},
         cache.ring => steps = cache.steps, ~cache.ring => steps >= cache.end,
         NEW c, c = ImportState(NewCache(steps, mode = "history", pinned), ExportState(cache))
  PROVE  /\ IsCache(c) /\ Holds(c.rows, c.end, Pin(c), c.steps)
         /\ c.steps = steps /\ (c.ring <=> mode = "history") /\ c.pinned = pinned
         /\ c.end = cache.end
<1>. DEFINE new == NewCache(steps, mode = "history", pinned)
<1>1. /\ IsCache(cache) /\ Holds(cache.rows, cache.end, Pin(cache), cache.steps)
      /\ (cache.ring <=> mode = "history") /\ cache.pinned = pinned /\ pinned \in Nat
  BY VibevoiceState
<1>2. IsConstructible(steps, mode = "history", pinned)
  BY <1>1 DEF IsCache, IsConstructible
<1>3. /\ IsNew(new) /\ new.steps = steps /\ (new.ring <=> mode = "history")
      /\ new.pinned = pinned
  BY <1>1, <1>2, VibevoiceIsNew
<1>. HIDE DEF new
<1>4. c = ImportState(new, ExportState(cache))
  BY DEF new
<1>5. QED
  BY <1>1, <1>3, <1>4, MoveProps

\* A beam that goes on with a copy.
LEMMA CloneStateInv ==
  ASSUME Inv, HasState, CloneState
  PROVE  Inv'
<1>. DEFINE steps == RequiredCapacity(mode, cache.end + 1)
<1>1. /\ mode \in Vibevoice /\ mode' = mode /\ HasPositions(mode, cache.end + 1)
      /\ cache' = ImportState(NewCache(steps, mode = "history", pinned), ExportState(cache))
      /\ UNCHANGED <<cursor, mask, uploaded, pinned, seen>>
  BY DEF CloneState
<1>2. /\ IsCache(cache) /\ (cache.ring <=> mode = "history") /\ pinned \in Nat
      /\ cache.ring => cache.steps = CacheGraphCapacity(History)
      /\ cursor = NoCursor /\ mask = {} /\ ~uploaded /\ uploaded \in BOOLEAN
      /\ mode \notin Bounded /\ mode # "context" /\ mode \in Modes
  BY <1>1, VibevoiceState
<1>3. cache.end \in Nat /\ cache.end + 1 \in Nat
  BY <1>2, CacheProps
<1>4. /\ steps \in Nat \ {0} /\ (cache.ring => steps = cache.steps)
      /\ (~cache.ring => steps >= cache.end)
  <2>1. CASE mode = "history"
    BY <1>1, <1>2, <2>1, ConstantProps, CapacityProps
       DEF RequiredCapacity, HasPositions, Clamped
  <2>2. CASE mode # "history"
    <3>1. steps = CacheGraphCapacity(cache.end + 1) /\ cache.end + 1 <= Positions
      BY <1>1, <2>2 DEF RequiredCapacity, HasPositions, Clamped
    <3>2. steps \in Nat /\ steps > 0 /\ steps >= cache.end + 1
      BY <1>3, <3>1, CapacityProps
    <3>3. QED
      BY <1>2, <1>3, <2>2, <3>2
  <2>3. QED
    BY <2>1, <2>2
<1>. HIDE DEF steps
<1>5. /\ IsCache(cache') /\ Holds(cache'.rows, cache'.end, Pin(cache'), cache'.steps)
      /\ cache'.steps = steps /\ (cache'.ring <=> mode = "history") /\ cache'.pinned = pinned
  BY <1>1, <1>4, GrownProps
<1>6. HasState' /\ End' = cache'.end
  BY <1>1, <1>4, <1>5 DEF HasState, End
<1>7. VarsFit'
  BY <1>1, <1>2, ConstantProps DEF VarsFit, NoCursor
<1>8. CacheFits'
  BY <1>5, <1>6 DEF CacheFits
<1>9. VibevoiceFits'
  <2>1. cache'.ring => cache'.steps = CacheGraphCapacity(History)
    BY <1>2, <1>4, <1>5
  <2>2. QED
    BY <1>1, <1>2, <1>5, <2>1 DEF VibevoiceFits, NoCursor
<1>10. SeenFits'
  <2>1. mode = "history" => cache'.steps = cache.steps
    BY <1>2, <1>4, <1>5
  <2>2. ASSUME NEW p \in DOMAIN seen'
        PROVE  Attendable(p)' = Attendable(p)
    <3>1. CASE mode = "history"
      BY <1>1, <1>2, <2>1, <3>1 DEF Attendable
    <3>2. CASE mode # "history"
      BY <1>1, <1>2, <3>2 DEF Attendable
    <3>3. QED
      BY <3>1, <3>2
  <2>3. SeenFits
    BY DEF Inv
  <2>4. QED
    BY <1>1, <2>1, <2>2, <2>3 DEF SeenFits
<1>11. QED
  BY <1>1, <1>2, <1>7, <1>8, <1>9, <1>10 DEF Inv

\* What an appended row of vibevoice is shown: the slots written up to it.
LEMMA ShownProps ==
  ASSUME NEW c, IsCache(c), c.ring => c.pinned = pinned, pinned \in Nat,
         NEW n \in Nat \ {0},
         \A j \in 1 .. n :
           AppendedSlots(c, n)[j] = Place(c.end + j - 1, Pin(c), c.steps),
         NEW i \in 1 .. n
  PROVE  StoredMask(c) \cup {AppendedSlots(c, n)[j] : j \in 1 .. i}
           = 0 .. Lesser(c.end + i, c.steps) - 1
<1>. DEFINE slot(j) == AppendedSlots(c, n)[j]
            steps == c.steps
            end == c.end
<1>1. /\ steps \in Nat /\ steps > 0 /\ end \in Nat /\ i \in Nat /\ i > 0 /\ n \in Nat
      /\ c.valid = Lesser(end, steps) /\ Pin(c) \in Nat /\ Pin(c) < steps
  BY CacheProps
<1>2. StoredMask(c) = 0 .. Lesser(end, steps) - 1
  BY <1>1, StoredMaskProps
<1>3. ASSUME NEW j \in 1 .. n
      PROVE  /\ slot(j) \in 0 .. steps - 1
             /\ end + j - 1 < steps => slot(j) = end + j - 1
  <2>. DEFINE q == end + j - 1
  <2>1. q \in Nat
    BY <1>1
  <2>2. slot(j) = Place(q, Pin(c), steps)
    OBVIOUS
  <2>. HIDE DEF q, slot, steps
  <2>3. /\ Place(q, Pin(c), steps) \in 0 .. steps - 1
        /\ q < steps => Place(q, Pin(c), steps) = q
    BY <1>1, <2>1, PlaceProps
  <2>4. QED
    BY <2>2, <2>3 DEF q
<1>. HIDE DEF slot, steps, end
<1>4. \A j \in 1 .. i : slot(j) \in 0 .. Lesser(end + i, steps) - 1
  <2>. SUFFICES ASSUME NEW j \in 1 .. i
                PROVE  slot(j) \in 0 .. Lesser(end + i, steps) - 1
    OBVIOUS
  <2>1. j \in 1 .. n
    BY <1>1
  <2>2. slot(j) \in 0 .. steps - 1 /\ (end + j - 1 < steps => slot(j) = end + j - 1)
    BY <1>3, <2>1
  <2>3. QED
    BY <1>1, <2>2 DEF Lesser
<1>5. 0 .. Lesser(end, steps) - 1 \subseteq 0 .. Lesser(end + i, steps) - 1
  BY <1>1 DEF Lesser
<1>6. ASSUME NEW s \in 0 .. Lesser(end + i, steps) - 1, s \notin 0 .. Lesser(end, steps) - 1
      PROVE  \E j \in 1 .. i : slot(j) = s
  <2>. DEFINE k == s - end + 1
  <2>1. k \in 1 .. i /\ k \in 1 .. n /\ end + k - 1 = s /\ s < steps
    BY <1>1, <1>6 DEF Lesser
  <2>. HIDE DEF k
  <2>2. slot(k) = s
    BY <1>3, <2>1
  <2>3. QED
    BY <2>1, <2>2
<1>7. QED
  BY <1>2, <1>4, <1>5, <1>6 DEF slot, end, steps

\* What the slots written up to position p hold.
Visible(rows, p, steps) == {rows[s] : s \in 0 .. Lesser(p + 1, steps) - 1}

\* What position p may attend to in a ring.
Newest(p, pin, steps) == {q \in 0 .. p : q < pin \/ q > p - (steps - pin)}

\* What is in those slots once all rows are written: the window of the last
\* position, and of every position when nothing wrapped around.
LEMMA AppendSeen ==
  ASSUME NEW steps \in Nat, NEW pin \in Nat, pin < steps,
         NEW end \in Nat, NEW rows, rows \in [0 .. steps - 1 -> Contents],
         Holds(rows, end, pin, steps), NEW p \in Nat, p < end
  PROVE  /\ Visible(rows, p, steps) \subseteq Contents
         /\ p = end - 1 => Visible(rows, p, steps) = Newest(p, pin, steps)
         /\ end <= steps => Visible(rows, p, steps) = 0 .. p
<1>1. p \in Nat /\ p + 1 \in Nat
  OBVIOUS
<1>2. 0 .. Lesser(p + 1, steps) - 1 \subseteq 0 .. steps - 1
  BY <1>1 DEF Lesser
<1>3. Visible(rows, p, steps) \subseteq Contents
  BY <1>2 DEF Visible
<1>4. ASSUME p = end - 1
      PROVE  Visible(rows, p, steps) = Newest(p, pin, steps)
  <2>1. end = p + 1
    BY <1>4
  <2>2. Visible(rows, p, steps) = Keeps(p + 1, pin, steps)
    BY <1>1, <2>1, KeptContents DEF Visible
  <2>3. Keeps(p + 1, pin, steps) = Newest(p, pin, steps)
    BY <1>1 DEF Keeps, Newest
  <2>4. QED
    BY <2>2, <2>3
<1>5. ASSUME end <= steps
      PROVE  Visible(rows, p, steps) = 0 .. p
  <2>1. Lesser(p + 1, steps) - 1 = p
    BY <1>1, <1>5 DEF Lesser
  <2>2. ASSUME NEW s \in 0 .. p
        PROVE  rows[s] = s
    <3>1. s \in Nat /\ s < steps /\ s \in Keeps(end, pin, steps)
      BY <1>1, <1>5 DEF Keeps
    <3>2. Place(s, pin, steps) = s
      BY <3>1, PlaceProps
    <3>3. QED
      BY <3>1, <3>2 DEF Holds
  <2>3. {rows[s] : s \in 0 .. p} = 0 .. p
    BY <2>2
  <2>4. QED
    BY <2>1, <2>3 DEF Visible
<1>6. QED
  BY <1>3, <1>4, <1>5

\* A grown cache of vibevoice holds what it held.
LEMMA FittedProps ==
  ASSUME Inv, mode \in Vibevoice, HasState, NEW n \in Nat \ {0},
         HasPositions(mode, cache.end + n),
         NEW c, c = Fitted(RequiredCapacity(mode, cache.end + n))
  PROVE  /\ IsCache(c) /\ Holds(c.rows, c.end, Pin(c), c.steps)
         /\ (c.ring <=> mode = "history") /\ c.pinned = pinned
         /\ c.end = cache.end
         /\ c.ring => c.steps = CacheGraphCapacity(History)
<1>. DEFINE required == RequiredCapacity(mode, cache.end + n)
            new == NewCache(required, cache.ring, cache.pinned)
<1>1. /\ IsCache(cache) /\ Holds(cache.rows, cache.end, Pin(cache), cache.steps)
      /\ (cache.ring <=> mode = "history") /\ cache.pinned = pinned /\ pinned \in Nat
      /\ cache.ring => cache.steps = CacheGraphCapacity(History)
  BY VibevoiceState
<1>2. /\ cache.end \in Nat /\ cache.end + n \in Nat
      /\ cache.ring \in BOOLEAN /\ cache.steps \in Nat
  BY <1>1, CacheProps
<1>3. /\ required \in Nat /\ required > 0
      /\ cache.ring => required = cache.steps
      /\ ~cache.ring => required >= cache.end
  <2>1. CASE mode = "history"
    BY <1>1, <2>1, ConstantProps, CapacityProps DEF RequiredCapacity, HasPositions, Clamped
  <2>2. CASE mode # "history"
    <3>1. required = CacheGraphCapacity(cache.end + n) /\ cache.end + n <= Positions
      BY <2>2 DEF RequiredCapacity, HasPositions, Clamped
    <3>2. required \in Nat /\ required > 0 /\ required >= cache.end + n
      BY <1>2, <3>1, CapacityProps
    <3>3. QED
      BY <1>1, <1>2, <2>2, <3>2
  <2>3. QED
    BY <2>1, <2>2
<1>4. c = IF cache.steps >= required THEN cache ELSE ImportState(new, ExportState(cache))
  BY DEF Fitted
<1>5. /\ new.steps = required /\ new.ring = cache.ring /\ new.pinned = cache.pinned
      /\ new = NewCache(new.steps, new.ring, new.pinned)
  BY DEF NewCache
<1>. HIDE DEF required, new
<1>6. CASE cache.steps >= required
  BY <1>1, <1>4, <1>6
<1>7. CASE ~(cache.steps >= required)
  <2>1. ~cache.ring
    BY <1>2, <1>3, <1>7
  <2>2. IsNew(new)
    BY <1>1, <1>2, <1>3, <1>5, <2>1 DEF IsNew
  <2>3. c = ImportState(new, ExportState(cache))
    BY <1>4, <1>7
  <2>4. /\ IsCache(c) /\ Holds(c.rows, c.end, Pin(c), c.steps)
        /\ (c.ring <=> cache.ring) /\ c.pinned = new.pinned /\ c.end = cache.end
    BY <1>1, <1>3, <1>5, <2>1, <2>2, <2>3, MoveProps
  <2>5. QED
    BY <1>1, <1>5, <2>1, <2>4
<1>8. QED
  BY <1>6, <1>7

\* An append of vibevoice, of one row or of several.
LEMMA AppendRowsInv ==
  ASSUME Inv, NEW n \in {1} \cup Suffixes, HasState, AppendRows(n)
  PROVE  Inv'
<1>. DEFINE c == Fitted(RequiredCapacity(mode, cache.end + n))
            shown == [i \in 1 .. n |->
                        StoredMask(c) \cup {AppendedSlots(c, n)[j] : j \in 1 .. i}]
            rows == AppendedRows(c, n)
            end == c.end
            steps == c.steps
            pin == Pin(c)
<1>1. /\ mode \in Vibevoice /\ mode' = mode /\ cache.end + n <= MaxEnd
      /\ HasPositions(mode, cache.end + n) /\ CanAppend(c, n)
      /\ seen' = [p \in end .. end + n - 1 |-> {rows[s] : s \in shown[p - end + 1]}]
      /\ cache' = AdvanceAfterDirectAppend([c EXCEPT !.rows = rows], n)
      /\ UNCHANGED <<cursor, mask, uploaded, pinned>>
  BY DEF AppendRows, AppendedRows, AppendedSlots, AppendedPositions
<1>2. n \in Nat \ {0} /\ MaxEnd \in Nat
  BY ConstantProps
<1>3. /\ cursor = NoCursor /\ mask = {} /\ ~uploaded /\ uploaded \in BOOLEAN
      /\ mode \notin Bounded /\ mode # "context" /\ mode \in Modes /\ pinned \in Nat
  BY <1>1, VibevoiceState
<1>. HIDE DEF c
<1>4. /\ IsCache(c) /\ Holds(c.rows, end, pin, steps)
      /\ (c.ring <=> mode = "history") /\ c.pinned = pinned /\ end = cache.end
      /\ c.ring => steps = CacheGraphCapacity(History)
  BY <1>1, <1>2, FittedProps DEF c
<1>5. /\ end \in Nat /\ steps \in Nat /\ steps > 0 /\ pin \in Nat /\ pin < steps
      /\ end + n <= MaxEnd
  BY <1>1, <1>4, CacheProps
<1>6. /\ rows \in [0 .. steps - 1 -> Contents] /\ Holds(rows, end + n, pin, steps)
      /\ \A i \in 1 .. n : AppendedSlots(c, n)[i] = Place(end + i - 1, pin, steps)
      /\ ~c.ring => end + n <= steps
  BY <1>1, <1>2, <1>4, <1>5, AppendProps
<1>7. \A i \in 1 .. n : shown[i] = 0 .. Lesser(end + i, steps) - 1
  BY <1>2, <1>3, <1>4, <1>6, ShownProps
<1>. HIDE DEF shown, rows
<1>8. /\ IsCache(cache') /\ cache'.steps = steps /\ (cache'.ring <=> c.ring)
      /\ cache'.pinned = c.pinned /\ cache'.rows = rows /\ cache'.end = end + n
  <2>1. LET new == AdvanceAfterDirectAppend([c EXCEPT !.rows = rows], n) IN
        /\ IsCache(new)
        /\ new.steps = c.steps /\ (new.ring <=> c.ring) /\ new.pinned = c.pinned
        /\ new.rows = rows /\ new.end = c.end + n
    BY <1>1, <1>2, <1>4, <1>5, <1>6, AdvanceProps
  <2>2. QED
    BY <1>1, <2>1
<1>. HIDE DEF end, steps, pin
<1>9. Pin(cache') = pin /\ HasState' /\ End' = end + n
  BY <1>1, <1>5, <1>8 DEF Pin, pin, HasState, End
<1>10. CacheFits'
  BY <1>6, <1>8, <1>9 DEF CacheFits
<1>11. VarsFit' /\ VibevoiceFits'
  <2>1. /\ cursor' = NoCursor /\ mask' = {} /\ ~uploaded' /\ uploaded' \in BOOLEAN
        /\ pinned' = pinned /\ mode' = mode
    BY <1>1, <1>3
  <2>2. cursor' \in [valid : Nat, end : 0 .. MaxEnd, steps : {0, cache'.steps}]
        /\ cursor'.valid <= cursor'.steps
    BY <1>2, <2>1 DEF NoCursor
  <2>3. VarsFit'
    BY <1>3, <2>1, <2>2 DEF VarsFit
  <2>4. VibevoiceFits'
    BY <1>4, <1>8, <2>1 DEF VibevoiceFits
  <2>5. QED
    BY <2>3, <2>4
<1>12. DOMAIN seen' = end .. end + n - 1
  BY <1>1
<1>13. ASSUME NEW p \in DOMAIN seen'
       PROVE  seen'[p] = Visible(rows, p, steps)
  <2>1. p \in end .. end + n - 1 /\ p - end + 1 \in 1 .. n /\ end + (p - end + 1) = p + 1
    BY <1>2, <1>5, <1>12
  <2>2. seen'[p] = {rows[s] : s \in shown[p - end + 1]}
    BY <1>1, <2>1
  <2>3. shown[p - end + 1] = 0 .. Lesser(end + (p - end + 1), steps) - 1
    BY <1>7, <2>1
  <2>4. QED
    BY <2>1, <2>2, <2>3 DEF Visible
<1>14. ASSUME NEW p \in DOMAIN seen'
       PROVE  /\ seen'[p] \subseteq Contents
              /\ p = end + n - 1 => seen'[p] = Newest(p, pin, steps)
              /\ end + n <= steps => seen'[p] = 0 .. p
  <2>1. p \in end .. end + n - 1
    BY <1>12
  <2>2. /\ Visible(rows, p, steps) \subseteq Contents
        /\ p = end + n - 1 => Visible(rows, p, steps) = Newest(p, pin, steps)
        /\ end + n <= steps => Visible(rows, p, steps) = 0 .. p
    <3>1. end + n \in Nat /\ p \in Nat /\ p < end + n
      BY <1>2, <1>5, <2>1
    <3>2. QED
      BY <1>5, <1>6, <3>1, AppendSeen
  <2>3. QED
    BY <1>13, <2>2
<1>15. SeenFits'
  <2>1. seen' \in [DOMAIN seen' -> SUBSET Contents]
    BY <1>1, <1>14
  <2>2. DOMAIN seen' \subseteq 0 .. MaxEnd
    BY <1>2, <1>5, <1>12
  <2>3. ASSUME NEW p \in DOMAIN seen',
               \/ mode' # "history"
               \/ \A q \in DOMAIN seen' : q <= p
               \/ \A q \in DOMAIN seen' : q < cache'.steps
        PROVE  seen'[p] = Attendable(p)'
    <3>1. p \in Nat /\ p <= end + n - 1 /\ end + n - 1 \in DOMAIN seen'
      BY <1>2, <1>5, <1>12
    <3>2. CASE mode # "history"
      <4>1. seen'[p] = 0 .. p
        BY <1>4, <1>6, <1>14, <3>2
      <4>2. Attendable(p)' = 0 .. p
        BY <1>1, <1>3, <3>2 DEF Attendable
      <4>3. QED
        BY <4>1, <4>2
    <3>3. CASE mode = "history"
      <4>1. pin = pinned /\ pinned' = pinned /\ mode' = "history" /\ mode' \notin Bounded
        BY <1>1, <1>3, <1>4, <3>3 DEF Pin, pin
      <4>2. Attendable(p)' = Newest(p, pin, steps)
        BY <1>8, <4>1 DEF Attendable, Newest
      <4>3. CASE p = end + n - 1
        BY <1>14, <4>2, <4>3
      <4>4. CASE p # end + n - 1
        <5>1. end + n - 1 < steps
          BY <1>2, <1>5, <1>8, <2>3, <3>1, <4>1, <4>4
        <5>2. seen'[p] = 0 .. p
          BY <1>2, <1>5, <1>14, <5>1
        <5>3. Newest(p, pin, steps) = 0 .. p
          BY <1>2, <1>5, <3>1, <5>1 DEF Newest
        <5>4. QED
          BY <4>2, <5>2, <5>3
      <4>5. QED
        BY <4>3, <4>4
    <3>4. QED
      BY <3>2, <3>3
  <2>4. QED
    BY <2>1, <2>2, <2>3 DEF SeenFits
<1>16. QED
  BY <1>1, <1>3, <1>10, <1>11, <1>15 DEF Inv

----------------------------------------------------------------------------
(* The theorems *)

\* The first state.
LEMMA InitInv ==
  ASSUME Init
  PROVE  Inv
<1>. DEFINE graph == NewCache(Context, FALSE, 0)
<1>1. /\ mode \in Modes
      /\ cache = NewCache(IF mode = "context" THEN Context ELSE 0, FALSE, 0)
      /\ cursor = [NoCursor EXCEPT !.steps = cache.steps]
      /\ mask = {} /\ uploaded = FALSE /\ pinned = 0 /\ seen = NoAttention
  BY DEF Init
<1>2. cursor.valid = 0 /\ cursor.end = 0 /\ cursor.steps = cache.steps
      /\ cursor = [valid |-> 0, end |-> 0, steps |-> cache.steps]
  BY <1>1 DEF NoCursor
<1>3. cache.steps \in Nat /\ MaxEnd \in Nat
  BY <1>1, ConstantProps DEF NewCache
<1>4. VarsFit
  <2>1. cursor \in [valid : Nat, end : 0 .. MaxEnd, steps : {0, cache.steps}]
        /\ cursor.valid <= cursor.steps
    BY <1>2, <1>3
  <2>2. QED
    BY <1>1, <2>1 DEF VarsFit
<1>5. SeenFits
  BY <1>1 DEF SeenFits, NoAttention
<1>6. CASE mode = "context"
  <2>1. cache = graph
    BY <1>1, <1>6
  <2>2. IsNew(cache) /\ cache.steps = Context /\ ~cache.ring /\ Context \in Nat \ {0}
    BY <2>1, PlainIsNew, ConstantProps
  <2>3. /\ IsCache(cache) /\ Holds(cache.rows, 0, Pin(cache), cache.steps)
        /\ cache.valid = 0 /\ cache.end = 0
    BY <2>2, NewIsCache
  <2>4. HasState /\ End = 0
    BY <1>2, <1>6, <2>2 DEF HasState, End, Vibevoice
  <2>5. CacheFits /\ ContextFits
    BY <1>1, <1>2, <2>2, <2>3, <2>4 DEF CacheFits, ContextFits
  <2>6. mode \notin Bounded /\ mode \notin Vibevoice
    BY <1>6 DEF Bounded, Vibevoice
  <2>7. QED
    BY <1>4, <1>5, <2>5, <2>6 DEF Inv
<1>7. CASE mode # "context"
  <2>1. cache = NewCache(0, FALSE, 0)
    BY <1>1, <1>7
  <2>2. cache.steps = 0 /\ ~cache.ring /\ cache.valid = 0 /\ cache.end = 0
    BY <2>1 DEF NewCache
  <2>3. cursor = NoCursor
    BY <1>2, <2>2 DEF NoCursor
  <2>. DEFINE blank == NewCache(0, FALSE, 0)
  <2>4. CacheFits
    <3>1. cache = blank /\ seen = NoAttention
      BY <1>1, <2>1
    <3>2. ~HasState
      BY <2>2 DEF HasState
    <3>. HIDE DEF blank
    <3>3. HasState \/ (cache = blank /\ cursor = NoCursor /\ seen = NoAttention)
      BY <2>3, <3>1
    <3>4. QED
      BY <2>3, <3>1, <3>2, Zenon DEF CacheFits, blank
  <2>5. mode \in Bounded => WindowOf(mode) \in Nat
    BY WindowProps
  <2>6. mode \in Bounded => BoundedFits
    <3>1. ~uploaded
      BY <1>1
    <3>2. cursor.valid = 0 /\ cursor.end = 0 /\ cursor.steps = 0
      BY <1>2, <2>2
    <3>3. QED
      BY <2>2, <2>5, <3>1, <3>2 DEF BoundedFits, Lesser
  <2>7. mode \in Vibevoice => VibevoiceFits
    <3>1. ~uploaded /\ mask = {}
      BY <1>1
    <3>2. QED
      BY <2>2, <2>3, <3>1 DEF VibevoiceFits, HasState
  <2>8. QED
    BY <1>4, <1>5, <1>7, <2>4, <2>6, <2>7 DEF Inv
<1>8. QED
  BY <1>6, <1>7

\* A stuttering step.
LEMMA StutterInv ==
  ASSUME Inv, UNCHANGED vars
  PROVE  Inv'
<1>1. /\ mode' = mode /\ cache' = cache /\ cursor' = cursor /\ mask' = mask
      /\ uploaded' = uploaded /\ pinned' = pinned /\ seen' = seen
  BY DEF vars
<1>2. VarsFit'
  BY <1>1 DEF Inv, VarsFit
<1>3. CacheFits'
  <2>1. (HasState' <=> HasState) /\ End' = End
    BY <1>1 DEF HasState, End
  <2>2. CacheFits
    BY DEF Inv
  <2>3. QED
    BY <1>1, <2>1, <2>2 DEF CacheFits
<1>4. mode' \in Bounded => BoundedFits'
  BY <1>1 DEF Inv, BoundedFits
<1>5. mode' = "context" => ContextFits'
  BY <1>1 DEF Inv, ContextFits
<1>6. mode' \in Vibevoice => VibevoiceFits'
  <2>1. HasState' <=> HasState
    BY <1>1 DEF HasState
  <2>2. QED
    BY <1>1, <2>1 DEF Inv, VibevoiceFits
<1>7. SeenFits'
  <2>1. \A p : Attendable(p)' = Attendable(p)
    BY <1>1 DEF Attendable
  <2>2. QED
    BY <1>1, <2>1 DEF Inv, SeenFits
<1>8. QED
  BY <1>2, <1>3, <1>4, <1>5, <1>6, <1>7 DEF Inv

\* Every step.
LEMMA NextInv ==
  ASSUME Inv, [Next]_vars
  PROVE  Inv'
<1>1. CASE \E m \in Bounded, n \in Prompts : mode \in Bounded /\ Begin(m, n)
  BY <1>1, BeginInv
<1>2. CASE Step
  BY <1>2, StepInv
<1>3. CASE Reset
  BY <1>3, ResetInv
<1>4. CASE ContextStep
  BY <1>4, ContextStepInv
<1>5. CASE \E n \in Prompts, pin \in BOOLEAN : BeginVibevoice(mode, n, pin)
  BY <1>5, BeginVibevoiceInv
<1>6. CASE \E n \in {1} \cup Suffixes : HasState /\ AppendRows(n)
  BY <1>6, AppendRowsInv
<1>7. CASE HasState /\ CloneState
  BY <1>7, CloneStateInv
<1>8. CASE UNCHANGED vars
  BY <1>8, StutterInv
<1>9. QED
  BY <1>1, <1>2, <1>3, <1>4, <1>5, <1>6, <1>7, <1>8 DEF Next

\* The invariant.
THEOREM Invariance == Spec => []Inv
<1>1. Init => Inv
  BY InitInv
<1>2. Inv /\ [Next]_vars => Inv'
  BY NextInv
<1>3. QED
  BY <1>1, <1>2, PTL DEF Spec

\* Types are kept: no slot, counter or position leaves its range, for any capacities.
THEOREM TypesKept == Spec => []TypeOK
BY Invariance, InvTypes, PTL

\* For any window, capacities and prompts, each step of a decoder attends to exactly
\* the positions of its window (write_attention_mask and next_step of the bounded
\* decoders, the masks vibevoice builds): through growth, wrapping, resets and copies.
THEOREM WindowAttended == Spec => []AttendsWindow
BY Invariance, InvAttendsWindow, PTL

\* Whatever cache is exported to grow or to be copied, the export is its valid rows in
\* order of position (export_state and slot_for_position).
THEOREM ExportChronological == Spec => []ExportIsChronological
BY Invariance, InvExportIsChronological, PTL
=============================================================================
