-------------------------- MODULE MC_KVCacheConfig --------------------------
EXTENDS KVCacheConfig
Layer(kind, block_size, page, window) ==
    [kind |-> kind, block_size |-> block_size, page |-> page, window |-> window, strided |-> FALSE]
Full == Layer("full", 2, 4, 0)
Sliding == Layer("sliding", 2, 4, 3)
Mla(page) == Layer("mla", 4, page, 0)
SwaMla(page) == Layer("swamla", 2, page, 3)

(* one worker, or two pipeline stages *)
Models == {
    <<<<Full, Full, Full>>>>, <<<<Full, Full>>, <<Full>>>>,
    <<<<Full, Sliding, Sliding, Full, Sliding, Sliding>>>>,
    <<<<Full, Sliding, Sliding>>, <<Full, Sliding, Sliding>>>>,
    <<<<Full, Sliding, Full, Sliding, Full, Sliding, Sliding>>>>,
    <<<<Full, Full>>, <<Sliding>>>>,
    <<<<Full, Layer("sliding", 2, 2, 3), Layer("sliding", 2, 2, 3)>>>>,
    <<<<Full, Layer("sliding", 2, 3, 3)>>>>,
    <<<<Full, [Layer("sliding", 2, 3, 3) EXCEPT !.strided = TRUE]>>>>,
    <<<<Full, Layer("mamba", 9, 3, 0), Full>>>>,
    <<<<Full, Sliding, Layer("hidden", 3, 3, 0)>>>>, <<<<Full, Full, Sliding, Layer("hidden", 1, 6, 0)>>>>,
    <<<<Layer("sliding", 4, 8, 3), [Mla(6) EXCEPT !.strided = TRUE]>>>>,
    <<<<Full, Layer("full", 2, 6, 0)>>>>, <<<<Full, Layer("full", 2, 6, 0)>>, <<Full>>>>,
    <<<<Mla(8), Mla(4), SwaMla(4), SwaMla(4), SwaMla(4), Mla(8)>>>>,
    <<<<Mla(8), Mla(4), SwaMla(3), SwaMla(6)>>, <<Mla(8), Mla(4), SwaMla(3), SwaMla(6)>>>>,
    <<<<Mla(8), SwaMla(4)>>, <<Mla(4), SwaMla(8)>>>>, <<<<Mla(8), SwaMla(8)>>, <<Mla(4), SwaMla(4)>>>>,
    <<<<>>>> }

Numbered(model) ==
    [w \in DOMAIN model |->
        LET before == SumSeq([v \in 1..w-1 |-> Len(model[v])])
        IN  [n \in before+1..before+Len(model[w]) |-> model[w][n - before]]]
CasesOf(models, memories, overrides) ==
    UNION {{[workers |-> Numbered(m), memory |-> mem, max_len |-> len, override |-> o,
             auto_fit |-> a, disable_hybrid |-> d, cross_layers |-> x] :
               mem \in [DOMAIN m -> memories], len \in {5, 9}, o \in overrides, a, d, x \in BOOLEAN} : m \in models}
MCCases == CasesOf(Models, {0, 40, 72, 100, 201}, {None, 3, 9})
=============================================================================
