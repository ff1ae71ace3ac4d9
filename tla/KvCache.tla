------------------------------ MODULE KvCache ------------------------------
(***************************************************************************)
(* TransformerKVCache (src/framework/runtime/kv_cache.cpp): the key/value  *)
(* rows of a decoder, kept on the backend.  All layers move together, so   *)
(* one row stands for the keys and values of every layer, and its content  *)
(* is the position it was computed for, or Blank for zeros.                *)
(*                                                                         *)
(* A cache is plain, and fails when it is full, or a ring: its first       *)
(* `pinned' slots keep the prompt, and the rest wrap around.  The state    *)
(* export_state returns and import_state takes (TransformerKVState) is the *)
(* valid rows in order of position, with the absolute end of the sequence. *)
(***************************************************************************)
EXTENDS Integers, Sequences, FiniteSetsExt

Blank == -1

\* A cache built on zeroed tensors.  The constructor refuses a ring that pins
\* every slot: see IsConstructible.
NewCache(steps, ring, pinned) ==
  [steps |-> steps, ring |-> ring, pinned |-> pinned, valid |-> 0, end |-> 0,
   rows |-> [slot \in 0 .. steps - 1 |-> Blank]]

IsConstructible(steps, ring, pinned) == ring => steps > 0 /\ pinned < steps

\* The slot of an absolute position.
SlotForPosition(cache, position) ==
  IF ~cache.ring \/ position < cache.pinned
    THEN position
    ELSE cache.pinned + ((position - cache.pinned) % (cache.steps - cache.pinned))

\* Seeded fault: the tail is counted from the oldest position, prompt included.
RingStoredPosition_NoPin(row, valid, end, pinned) == end - valid + row

\* The position of the row-th valid row: the pinned prefix, then the newest.
RingStoredPosition(row, valid, end, pinned) ==
  IF row < pinned THEN row ELSE end - valid + row

StoredSlot(cache, row) ==
  IF cache.ring
    THEN SlotForPosition(cache, RingStoredPosition(row, cache.valid, cache.end, cache.pinned))
    ELSE row

\* Rows written in order: where two go to one slot, the last one stays.
WriteRows(rows, slotOf, contents) ==
  [slot \in DOMAIN rows |->
    LET here == {i \in DOMAIN contents : slotOf[i] = slot} IN
    IF here = {} THEN rows[slot] ELSE contents[Max(here)]]

State(end, rows) == [end |-> end, rows |-> rows]

\* import_state: every row of the cache is written, the unused ones with zeros.
\* It refuses a state longer than the cache: see CanImport.
ImportState(cache, state) ==
  LET placed == [cache EXCEPT !.end = state.end, !.valid = Len(state.rows)] IN
  [placed EXCEPT !.rows =
     WriteRows([slot \in DOMAIN cache.rows |-> Blank],
               [i \in DOMAIN state.rows |-> StoredSlot(placed, i - 1)],
               state.rows)]

CanImport(cache, state) == Len(state.rows) <= cache.steps

ExportState(cache) ==
  State(cache.end, [i \in 1 .. cache.valid |-> cache.rows[StoredSlot(cache, i - 1)]])

\* Seeded fault: a ring counts every appended row as one more valid row.
AdvanceAfterDirectAppend_Uncapped(cache, steps) ==
  [cache EXCEPT !.valid = @ + steps, !.end = @ + steps]

\* advance_after_direct_append: the rows are already written by the graph.
AdvanceAfterDirectAppend(cache, steps) ==
  IF cache.ring
    THEN [cache EXCEPT !.valid = Min({cache.steps, @ + steps}), !.end = @ + steps]
    ELSE [cache EXCEPT !.valid = @ + steps, !.end = @ + steps]

CanAppend(cache, steps) == cache.ring \/ cache.valid + steps <= cache.steps

\* retain_prefix: the rows stay where they are.
RetainPrefix(cache, steps) == [cache EXCEPT !.valid = steps, !.end = steps]
=============================================================================
