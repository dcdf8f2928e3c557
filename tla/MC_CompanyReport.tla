-------------------------- MODULE MC_CompanyReport --------------------------
EXTENDS CompanyReport, TLC
CONSTANTS p1, p2

OneProcess == (p1 :> {1, 2})
=============================================================================
