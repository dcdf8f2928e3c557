---------------------------- MODULE MC_PoolCalls ----------------------------
EXTENDS PoolCalls
(* one prompt of two blocks of two tokens, hashed at every token; two groups, *)
(* the second with a sliding window                                       *)
MCTokens == {<<1, 2, 3, 4>>}
MCGroups == {0, 1}
MCSparse == {1}
=============================================================================
