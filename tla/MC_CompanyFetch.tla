-------------------------- MODULE MC_CompanyFetch --------------------------
EXTENDS CompanyFetch, TLC
CONSTANTS p1, p2

(* run1.log to run4.log: the companies are dealt out to parallel processes *)
Disjoint == (p1 :> {1}) @@ (p2 :> {2})

(* one process has every company *)
OneProcess == (p1 :> {1, 2})
=============================================================================
