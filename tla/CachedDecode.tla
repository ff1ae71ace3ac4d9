--------------------------- MODULE CachedDecode ----------------------------
(***************************************************************************)
(* Decoding one token after another on a bounded cache.  Three decoders    *)
(* use a TransformerKVCache (KvCache) in three ways:                       *)
(*   "offline", "stream"  the text decoder of voxtral_realtime: a plain    *)
(*       cache that grows by buckets up to the sliding window and is then  *)
(*       used as a ring by a cursor of its own (CachedDecodeRuntime with   *)
(*       BoundedStaticKVDecodeCursor); a stream starts at its full size;   *)
(*   "context"  the main step of personaplex: the same runtime with one    *)
(*       size, which fails when it is full and is reset in between;        *)
(*   "history", "growing"  the text decoder of vibevoice_asr: the cache's  *)
(*       own ring mode when a history window is set, which keeps the       *)
(*       prompt, or a plain cache that grows with the sequence.            *)
(*                                                                         *)
(* What the model observes is the attention of the last append: for each   *)
(* appended position, the contents of the rows its mask makes visible when *)
(* the graph reads them, which is after it has written the new rows.       *)
(***************************************************************************)
EXTENDS KvCache

CONSTANTS
  Window,        \* sliding_window of the checkpoint
  StreamWindow,  \* stream_decode_cache_steps
  Least,         \* min_cache_steps of the offline configuration
  Context,       \* the context of the personaplex language model
  History,       \* max_history_steps
  Initial,       \* kCacheInitialGraphSteps
  Growth,        \* kCacheGraphGrowthStep
  Positions,     \* max_position_embeddings of the vibevoice decoder
  Prompts,       \* the prompt lengths of the model
  Suffixes,      \* the numbers of rows of a multi-row append
  MaxEnd         \* bound on the positions of the model

ASSUME CachedDecodeAssumption ==
  /\ {Window, StreamWindow, Least, Context, History, Initial, Growth, Positions}
       \subseteq Nat \ {0}
  /\ StreamWindow <= Window
  /\ Prompts \subseteq 1 .. MaxEnd /\ Suffixes \subseteq Nat \ {0}
  /\ MaxEnd \in Nat /\ Context <= MaxEnd

VARIABLES
  mode,      \* which decoder runs
  cache,     \* the cache of the decode graph
  cursor,    \* BoundedStaticKVDecodeCursor
  mask,      \* attention_mask_values_: the slots the kept mask shows
  uploaded,  \* attention_mask_prefix_uploaded_
  pinned,    \* pinned_prefix_steps_ of the vibevoice runtime
  seen       \* what each position of the last append attended to

vars == <<mode, cache, cursor, mask, uploaded, pinned, seen>>

Bounded == {"offline", "stream"}
Vibevoice == {"history", "growing"}
Modes == Bounded \cup {"context"} \cup Vibevoice

NoAttention == [position \in {} |-> {}]
NoCursor == [valid |-> 0, end |-> 0, steps |-> 0]

\* The state a prefill of n tokens returns.
Prefill(n) == State(n, [i \in 1 .. n |-> i - 1])

(* ---- capacities ------------------------------------------------------- *)

\* bounded_static_kv_cache_steps_for_required: the next power of two, between
\* the least size and the window.
CacheStepsForRequired(window, least, required) ==
  LET target == Max({Min({Max({required, 1}), window}), Min({least, window})})
      buckets == {b \in target .. window : \E k \in 0 .. window : b = 2 ^ k}
  IN  Min(buckets \cup {window})

\* cache_graph_capacity: the required steps, or the initial ones, rounded up as
\* far as the model has positions.
CacheGraphCapacity(required) ==
  LET requested == Max({required, Initial})
  IN  Min({((requested + Growth - 1) \div Growth) * Growth, Positions})

\* apply_history_window, which throws when the model has too few positions.
Clamped(m, required) == IF m = "history" THEN History ELSE required
HasPositions(m, required) == Clamped(m, required) <= Positions
RequiredCapacity(m, required) == CacheGraphCapacity(Clamped(m, required))

WindowOf(m) == IF m = "stream" THEN StreamWindow ELSE IF m = "context" THEN Context ELSE Window
LeastOf(m) == IF m = "offline" THEN Least ELSE WindowOf(m)
TargetSteps(m, required) == CacheStepsForRequired(WindowOf(m), LeastOf(m), required)

(* ---- the cursor of the bounded decoders ------------------------------- *)

ImportCursor(state, steps) == [valid |-> Len(state.rows), end |-> state.end, steps |-> steps]

\* Seeded fault: a full ring is indexed by the number of valid steps.
NextSlot_ByValid(c) == IF c.valid < c.steps THEN c.valid ELSE c.valid % c.steps

\* next_step: where the next row goes.
NextSlot(c) == IF c.valid < c.steps THEN c.valid ELSE c.end % c.steps

AdvanceCursor(c) ==
  [c EXCEPT !.valid = IF @ < c.steps THEN @ + 1 ELSE @, !.end = @ + 1]

(* ---- voxtral_realtime -------------------------------------------------- *)

\* The runtime is made anew for a request, so prepare_for_prefill builds a
\* graph; a prompt longer than the window is refused after that, and leaves
\* the cursor without a state.
Begin(m, n) ==
  LET graph == NewCache(TargetSteps(m, n), FALSE, 0)
  IN  /\ m \in Bounded
      /\ mode' = m
      /\ IF CanImport(graph, Prefill(n))
           THEN /\ cache' = ImportState(graph, Prefill(n))
                /\ cursor' = ImportCursor(Prefill(n), graph.steps)
           ELSE cache' = graph /\ cursor' = NoCursor
      /\ mask' = {} /\ uploaded' = FALSE
      /\ seen' = NoAttention
      /\ UNCHANGED pinned

\* grow_for_next_step: the rows move to a larger graph, whose mask is empty.
\* Without growth, the graph and the cursor are what they were.
GrowForNextStep(m) ==
  LET target == TargetSteps(m, cursor.valid + 1)
      grows == cache.steps < target
      state == ExportState(cache)
  IN  [cache |-> IF grows THEN ImportState(NewCache(target, FALSE, 0), state) ELSE cache,
       cursor |-> IF grows THEN ImportCursor(state, target) ELSE cursor,
       mask |-> IF grows THEN {} ELSE mask,
       uploaded |-> uploaded /\ ~grows]

\* write_attention_mask: the whole mask once per imported state, then one more
\* slot for each step until the cache is full.
WrittenMask(graph) ==
  LET slot == NextSlot(graph.cursor) IN
  IF ~graph.uploaded THEN (0 .. graph.cursor.valid - 1) \cup {slot}
  ELSE IF graph.cursor.valid < graph.cursor.steps THEN graph.mask \cup {slot}
  ELSE graph.mask

\* One step: grow, write the mask, compute, advance.  The cache of the graph
\* counts its rows only until it is full (should_advance_graph_cache).
Step ==
  LET graph == GrowForNextStep(mode)
      slot == NextSlot(graph.cursor)
      shown == WrittenMask(graph)
      rows == [graph.cache.rows EXCEPT ![slot] = graph.cursor.end]
      written == [graph.cache EXCEPT !.rows = rows]
  IN  /\ mode \in Bounded
      /\ cursor.steps > 0
      /\ cursor.end < MaxEnd
      /\ seen' = [p \in {graph.cursor.end} |-> {rows[s] : s \in shown}]
      /\ cache' = IF graph.cursor.valid < graph.cursor.steps
                    THEN AdvanceAfterDirectAppend(written, 1) ELSE written
      /\ cursor' = AdvanceCursor(graph.cursor)
      /\ mask' = shown /\ uploaded' = TRUE
      /\ UNCHANGED <<mode, pinned>>

(* ---- personaplex ------------------------------------------------------- *)

\* reset: the rows stay, the cursor and the cache forget them.
Reset ==
  /\ mode = "context"
  /\ cache' = RetainPrefix(cache, 0)
  /\ cursor' = [valid |-> 0, end |-> 0, steps |-> cache.steps]
  /\ seen' = NoAttention
  /\ UNCHANGED <<mode, mask, uploaded, pinned>>

\* run_step_no_readback: a full cache is refused.
ContextStep ==
  LET slot == NextSlot(cursor)
      rows == [cache.rows EXCEPT ![slot] = cursor.end]
      shown == (0 .. cursor.valid - 1) \cup {slot}
  IN  /\ mode = "context"
      /\ cursor.valid < cache.steps
      /\ seen' = [p \in {cursor.end} |-> {rows[s] : s \in shown}]
      /\ cache' = AdvanceAfterDirectAppend([cache EXCEPT !.rows = rows], 1)
      /\ cursor' = AdvanceCursor(cursor)
      /\ UNCHANGED <<mode, mask, uploaded, pinned>>

(* ---- vibevoice_asr ----------------------------------------------------- *)

\* A stream pins its prompt, a single request nothing; the cache refuses a
\* prompt that leaves no unpinned slot, or one that does not fit.
BeginVibevoice(m, n, pin) ==
  LET steps == RequiredCapacity(m, n + 1)
      pins == IF pin THEN n ELSE 0
      empty == NewCache(steps, m = "history", pins)
  IN  /\ m \in Vibevoice
      /\ HasPositions(m, n + 1)
      /\ IsConstructible(steps, m = "history", pins)
      /\ CanImport(empty, Prefill(n))
      /\ mode' = m
      /\ pinned' = pins
      /\ cache' = ImportState(empty, Prefill(n))
      /\ cursor' = NoCursor /\ mask' = {} /\ uploaded' = FALSE
      /\ seen' = NoAttention

\* A cache that is too small is exported into a larger one.
Fitted(required) ==
  IF cache.steps >= required THEN cache
  ELSE ImportState(NewCache(required, cache.ring, cache.pinned), ExportState(cache))

\* The slots of the rows that are valid before the append.
StoredMask(c) ==
  {SlotForPosition(c, RingStoredPosition(row, c.valid, c.end, pinned)) : row \in 0 .. c.valid - 1}

\* cached_step and append_cached_step append one row, cached_suffix the rows of
\* a chunk of speech: each appended position is shown the rows that were valid
\* and the appended ones up to itself.
AppendRows(n) ==
  LET fitted == Fitted(RequiredCapacity(mode, cache.end + n))
      first == fitted.end
      slotOf == [i \in 1 .. n |-> SlotForPosition(fitted, first + i - 1)]
      rows == WriteRows(fitted.rows, slotOf, [i \in 1 .. n |-> first + i - 1])
      shown == [i \in 1 .. n |-> StoredMask(fitted) \cup {slotOf[j] : j \in 1 .. i}]
  IN  /\ mode \in Vibevoice
      /\ HasPositions(mode, cache.end + n)
      /\ cache.end + n <= MaxEnd
      /\ CanAppend(fitted, n)
      /\ seen' = [p \in first .. first + n - 1 |-> {rows[s] : s \in shown[p - first + 1]}]
      /\ cache' = AdvanceAfterDirectAppend([fitted EXCEPT !.rows = rows], n)
      /\ UNCHANGED <<mode, cursor, mask, uploaded, pinned>>

\* clone_cached_state: a beam goes on with a copy of its parent's cache.
CloneState ==
  /\ mode \in Vibevoice
  /\ HasPositions(mode, cache.end + 1)
  /\ cache' = ImportState(
       NewCache(RequiredCapacity(mode, cache.end + 1), mode = "history", pinned),
       ExportState(cache))
  /\ UNCHANGED <<mode, cursor, mask, uploaded, pinned, seen>>

(* ---- specification ----------------------------------------------------- *)

\* A personaplex runtime builds its graph when it is made; the two others have
\* none before their first request.
Init ==
  /\ mode \in Modes
  /\ cache = NewCache(IF mode = "context" THEN Context ELSE 0, FALSE, 0)
  /\ cursor = [NoCursor EXCEPT !.steps = cache.steps]
  /\ mask = {} /\ uploaded = FALSE /\ pinned = 0
  /\ seen = NoAttention

\* Whether a request has put a state into the cache.
HasState == cache.steps > 0

Next ==
  \/ \E m \in Bounded, n \in Prompts : mode \in Bounded /\ Begin(m, n)
  \/ Step
  \/ Reset
  \/ ContextStep
  \/ \E n \in Prompts, pin \in BOOLEAN : BeginVibevoice(mode, n, pin)
  \/ \E n \in {1} \cup Suffixes : HasState /\ AppendRows(n)
  \/ HasState /\ CloneState

Spec == Init /\ [][Next]_vars

(* ---- properties --------------------------------------------------------- *)

Contents == Blank .. MaxEnd

\* Every variable keeps its type: slots hold positions, and the counters stay
\* within the capacity.
TypeOK ==
  /\ mode \in Modes
  /\ cache \in [steps : Nat, ring : BOOLEAN, pinned : Nat, valid : Nat, end : 0 .. MaxEnd,
                rows : [0 .. cache.steps - 1 -> Contents]]
  /\ cache.valid <= cache.steps /\ cache.valid <= cache.end
  /\ cursor \in [valid : Nat, end : 0 .. MaxEnd, steps : {0, cache.steps}]
  /\ cursor.valid <= cursor.steps
  /\ mask \subseteq 0 .. cache.steps - 1
  /\ uploaded \in BOOLEAN /\ pinned \in Nat
  /\ seen \in [DOMAIN seen -> SUBSET Contents]

\* The positions the decoder may attend to at position p: a window of the
\* newest for voxtral, all of them for personaplex and for vibevoice without a
\* history window, and with one the pinned prompt and the newest others.
Attendable(p) ==
  CASE mode \in Bounded -> {q \in 0 .. p : q > p - WindowOf(mode)}
    [] mode = "history" -> {q \in 0 .. p : q < pinned \/ q > p - (cache.steps - pinned)}
    [] OTHER -> 0 .. p

\* A step attends to exactly the rows of its window, through any sequence of
\* prompts, growth of the graph, wrapping, resets and copies.  Of an append of
\* several rows that wraps around, this is claimed for the last position only.
AttendsWindow ==
  \A p \in DOMAIN seen :
    p = Max(DOMAIN seen) \/ Max(DOMAIN seen) < cache.steps => seen[p] = Attendable(p)

\* The valid positions, the pinned ones first, then the newest.
Kept(c) ==
  [i \in 1 .. c.valid |-> IF c.ring /\ i <= c.pinned THEN i - 1 ELSE c.end - c.valid + i - 1]

\* What a cache would export, to grow or to be copied, is its valid rows in
\* order of position under its absolute end, wherever they lie in the ring; a
\* full bounded cache, which is at its largest size, is never exported.
ExportIsChronological ==
  ~(mode \in Bounded /\ cursor.valid = cursor.steps /\ cursor.end > cursor.steps)
    => ExportState(cache) = State(cache.end, Kept(cache))
=============================================================================
