-------------------------- MODULE MC_KVCacheManager --------------------------
EXTENDS KVCacheManager
CONSTANTS r1, r2

(* r1 and r2 share their first block *)
MCTwo == {r1, r2}
MCText == (r1 :> <<1, 2, 3, 4, 5>>) @@ (r2 :> <<1, 2, 6, 7>>)
MCPrompt == (r1 :> 5) @@ (r2 :> 3)
MCTokens == {MCText[r] : r \in Requests}
MCGroups == {0}
MCSparse == {0}
=============================================================================
