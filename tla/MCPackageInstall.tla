------------------------- MODULE MCPackageInstall --------------------------
(* Model checking of PackageInstall: two precisions of one model that share a *)
(* sidecar, as the Q8 and F16 packages of the tests do.                       *)
EXTENDS PackageInstall, TLC

CONSTANTS q8, f16, weights8, weights16, sidecar

SharedSidecar == (q8 :> {weights8, sidecar}) @@ (f16 :> {weights16, sidecar})

\* A package that is nothing but the shared file keeps the liveness run small.
SidecarOnly == (q8 :> {weights8, sidecar}) @@ (f16 :> {sidecar})

\* The packages, each with its own file, are interchangeable.
Swap ==
  (q8 :> f16) @@ (f16 :> q8) @@ (weights8 :> weights16) @@ (weights16 :> weights8)
  @@ (sidecar :> sidecar)
Symmetry == {Swap, [v \in DOMAIN Swap |-> v]}
=============================================================================
