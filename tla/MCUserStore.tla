---------------------------- MODULE MCUserStore ----------------------------
(* Small instances of UserStore for TLC: two handles on one network
   and one on another. *)
EXTENDS UserStore, TLC

CONSTANTS a1, a2, b1, homelab, office
MCNameOf == (a1 :> homelab) @@ (a2 :> homelab) @@ (b1 :> office)

\* Commands differ in nothing; the checked properties are all invariants.
Symmetry == Permutations(Procs)
=============================================================================
