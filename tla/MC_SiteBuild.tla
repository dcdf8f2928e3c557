---------------------------- MODULE MC_SiteBuild ----------------------------
EXTENDS SiteBuild, TLC
CONSTANTS f1, f2, a, b, r1

(* f2 is the newer file *)
TwoRanks == (f1 :> 1) @@ (f2 :> 2)
OwnSlugs == (f1 :> a) @@ (f2 :> b)
SameSlug == (f1 :> a) @@ (f2 :> a)
=============================================================================
