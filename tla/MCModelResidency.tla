-------------------------- MODULE MCModelResidency --------------------------
(* Model checking of ModelResidency: threads are interchangeable, and so are *)
(* models.                                                                   *)
EXTENDS ModelResidency

Symmetry == Permutations(Callers) \cup Permutations(Models)

\* Three callers, or two and the idle sweep, are at work at a time.
ThreeAtWork == Cardinality({t \in Threads : th[t] # Outside}) <= 3
=============================================================================
