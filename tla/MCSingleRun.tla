---------------------------- MODULE MCSingleRun ----------------------------
(***************************************************************************)
(* SingleRunServer for TLC: three connections, of which two may ask for    *)
(* anything, in every pair of kinds, and three meet when a listing comes   *)
(* to a load of one model and a load or a run of another.                  *)
(***************************************************************************)
EXTENDS SingleRunServer

CONSTANTS h1, h2, h3

Work(first, second, third) ==
  [h \in Handlers |-> CASE h = h1 -> first [] h = h2 -> second [] h = h3 -> third]

\* The pairs, but those a triple contains.
Pairs ==
  {Work("run", "run", "none"), Work("run", "unload", "none"), Work("run", "bulk", "none"),
   Work("load", "unload", "none"), Work("load", "bulk", "none"),
   Work("unload", "unload", "none"), Work("unload", "bulk", "none"),
   Work("unload", "list", "none"), Work("bulk", "bulk", "none"),
   Work("bulk", "list", "none"), Work("list", "list", "none")}

\* The circles of waiting take a listing, a load, and whoever has
\* model_load_mutex_.
Triples == {Work("load", "run", "list"), Work("load", "load", "list")}

Mixes == Pairs \cup Triples

\* A bounded run beside a listing that meets a load.
ListedLoads == {Work("run", "load", "list")}
=============================================================================
