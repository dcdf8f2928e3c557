-------------------------- MODULE MC_PaperDownload --------------------------
EXTENDS PaperDownload, TLC
CONSTANTS p1, p2, backslash_t, t1, t2

(* two entries as lines 17 to 43 hold them: no tab, but a backslash and a t *)
LiteralPapers == << <<p1, backslash_t, t1>>, <<p2, backslash_t, t2>> >>
=============================================================================
