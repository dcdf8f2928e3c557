---------------------------- MODULE KVCacheConfig ----------------------------
(***************************************************************************)
(* The planning half of vllm_v1_core_kv_cache_utils.py: the layers of all  *)
(* workers are grouped, the memory of every worker is turned into blocks   *)
(* and tensors, and all workers are cut down to the smallest of them.      *)
(* get_kv_cache_configs is one function of its input, so a state is an     *)
(* input and what was planned for it.                                      *)
(***************************************************************************)
EXTENDS Integers, FiniteSets, Sequences, SequencesExt, FiniteSetsExt, Functions

CONSTANTS Cases,                   \* the inputs to try
          max_num_batched_tokens,
          None

(* A spec: its kind, block size, page size, window, and whether its backend *)
(* indexes KV by the block stride.                                          *)
Kinds == {"full", "mla", "hidden", "sliding", "swamla", "mamba"}
LayerSpec == [kind : Kinds, block_size : Nat \ {0}, page : Nat \ {0}, window : Nat, strided : BOOLEAN]

(* A case: the layers of each worker, by number, with their specs, the      *)
(* memory of each worker, and the settings.  A token takes a byte at least, *)
(* except in a layer that keeps a state and no tokens; the page of a hidden *)
(* layer is its block size times the bytes of a token.                      *)
TokenSpec == {s \in LayerSpec : /\ s.kind # "mamba" => s.block_size <= s.page
                                /\ s.kind = "hidden" => s.page % s.block_size = 0}
IsCase(c) ==
    LET W == DOMAIN c.workers
    IN  /\ Len(c.workers) \in Nat \ {0} /\ W = 1..Len(c.workers)
        /\ IsFiniteSet(UNION {DOMAIN c.workers[w] : w \in W})
        /\ \A w \in W : \A n \in DOMAIN c.workers[w] : n \in Nat \ {0} /\ c.workers[w][n] \in TokenSpec
        /\ \A w \in W : c.memory[w] \in Int
        /\ c.max_len \in Nat \ {0} /\ c.override \in Nat \cup {None}
        /\ c.auto_fit \in BOOLEAN /\ c.disable_hybrid \in BOOLEAN /\ c.cross_layers \in BOOLEAN
ASSUME KVCacheConfigAssumption ==
    /\ max_num_batched_tokens \in Nat \ {0}
    /\ None \notin Nat /\ None \notin LayerSpec
    /\ \A c \in Cases : IsCase(c)

VARIABLES case, plan
planVars == <<case, plan>>

cdiv(n, d) == (n + d - 1) \div d
Least(a, b) == IF a < b THEN a ELSE b
SumSeq(s) == LET Sum[i \in 0..Len(s)] == IF i = 0 THEN 0 ELSE Sum[i - 1] + s[i] IN Sum[Len(s)]
Only(s, S) ==
    LET Kept[i \in 0..Len(s)] ==
            IF i = 0 THEN <<>> ELSE IF s[i] \in S THEN Append(Kept[i - 1], s[i]) ELSE Kept[i - 1]
    IN  Kept[Len(s)]
InOrder(S) == Only([i \in 1..Max(S \cup {0}) |-> i], S)

(* layers[i::n] *)
EveryNth(s, i, n) == [k \in 1..cdiv(Len(s) - i + 1, n) |-> s[i + (k - 1) * n]]

----------------------------------------------------------------------------
(* kv_cache_interface.py, which is not in src/: what a spec needs at most,  *)
(* and which specs merge or are of one uniform type.                        *)
MaxBytes(s, len) ==
    CASE s.kind \in {"full", "mla", "hidden"} -> cdiv(len, s.block_size) * s.page
      [] s.kind \in {"sliding", "swamla"} ->
            (cdiv(Least(s.window - 1 + max_num_batched_tokens, len), s.block_size) + 1) * s.page
      [] s.kind = "mamba" -> s.page
AttendsAll(s) == s.kind \in {"full", "mla", "hidden"}
Window(s) == IF AttendsAll(s) THEN 0 ELSE s.window
Merge(specs) == Cardinality({[s EXCEPT !.window = Window(s)] : s \in specs}) <= 1
IsUniformType(specs) ==
    Cardinality({<<IF AttendsAll(s) THEN "full" ELSE s.kind, s.block_size, Window(s)>> : s \in specs}) = 1
PageSizes(layers) == {s.page : s \in Range(layers)}
LayersOfPage(layers, ps) == {n \in DOMAIN layers : layers[n].page = ps}
NumLayerTuples(layers) == Max({Cardinality(LayersOfPage(layers, ps)) : ps \in PageSizes(layers)})

----------------------------------------------------------------------------
(* A group: its layers in order, whether it has one spec per layer, its     *)
(* common spec otherwise, and the specs of its layers with their order,     *)
(* which on a worker without any of the layers are still those of all.      *)
GroupOf(names, layers, uniform) ==
    [names |-> names, uniform |-> uniform, spec |-> layers[names[1]],
     order |-> names, layers |-> [n \in ToSet(names) |-> layers[n]]]
Group(names, layers) == GroupOf(names, layers, FALSE)
UniformGroup(names, layers) == GroupOf(names, layers, TRUE)

UniformPage(g) == SumSeq([i \in DOMAIN g.order |-> g.layers[g.order[i]].page])

(* unify_hybrid_kv_cache_specs: with some full attention every window      *)
(* becomes full attention, those of MLA with the block size of the full one *)
HasKind(layers, k) == \E s \in Range(layers) : s.kind = k
Unified(layers) == Merge(Range(layers)) \/ IsUniformType(Range(layers))
FullBlockSize(layers) == layers[Min({n \in DOMAIN layers : layers[n].kind \in {"full", "mla"}})].block_size
Widened(s, block_size) ==
    CASE s.kind = "sliding" -> [s EXCEPT !.kind = "full"]
      [] s.kind = "swamla"  -> [s EXCEPT !.kind = "mla", !.window = 0, !.block_size = block_size,
                                         !.page = (@ * block_size) \div s.block_size]
      [] OTHER -> s
unify_hybrid_kv_cache_specs(layers) ==
    IF Unified(layers) \/ ~(HasKind(layers, "full") \/ HasKind(layers, "mla")) THEN layers
    ELSE [n \in DOMAIN layers |-> Widened(layers[n], FullBlockSize(layers))]

(* unify_kv_cache_spec_page_size: larger blocks, or a padded page; None     *)
(* where the code raises NotImplementedError                                *)
(* mutant: the block size grows and the page stays                           *)
EnlargedBlockOnly(s, ps) ==
    IF s.page = ps THEN s
    ELSE IF s.kind = "mamba" THEN [s EXCEPT !.page = ps]
    ELSE IF ps % s.page = 0 THEN [s EXCEPT !.block_size = @ * (ps \div s.page)]
    ELSE None
Enlarged(s, ps) ==
    IF s.page = ps THEN s
    ELSE IF s.kind = "mamba" THEN [s EXCEPT !.page = ps]
    ELSE IF ps % s.page = 0 THEN [s EXCEPT !.page = ps, !.block_size = @ * (ps \div s.page)]
    ELSE IF s.strided THEN [s EXCEPT !.page = ps]
    ELSE None
unify_kv_cache_spec_page_size(layers) ==
    [n \in DOMAIN layers |-> Enlarged(layers[n], Max(PageSizes(layers)))]

(* _get_kv_cache_groups_uniform_page_size                                   *)
OfSpec(layers, s) == InOrder({n \in DOMAIN layers : layers[n] = s})
FirstOfSpec(layers) == InOrder({n \in DOMAIN layers : \A m \in DOMAIN layers : m < n => layers[m] # layers[n]})
SpecsInOrder(layers) == [i \in DOMAIN FirstOfSpec(layers) |-> layers[FirstOfSpec(layers)[i]]]
GroupSize(layers) ==
    LET sizes == {Len(OfSpec(layers, s)) : s \in Range(layers)}
    IN  IF 2 * Max(sizes) < 3 * Min(sizes) THEN Max(sizes) ELSE Min(sizes)
SplitGroups(names, size) == LET n == cdiv(Len(names), size) IN [i \in 1..n |-> EveryNth(names, i, n)]
UniformPageGroups(layers) ==
    LET lists == FlattenSeq([i \in DOMAIN SpecsInOrder(layers) |->
                     SplitGroups(OfSpec(layers, SpecsInOrder(layers)[i]), GroupSize(layers))])
    IN  [i \in DOMAIN lists |-> Group(lists[i], layers)]

(* _approximate_gcd: least total padding, then the largest                  *)
Padding(values, d) == SumSeq([i \in DOMAIN values |-> (d - (values[i] % d)) % d])
_approximate_gcd(values, lower_bound) ==
    LET last == Max(ToSet(values) \cup {lower_bound})
        Best[d \in 0..last] ==
            IF d <= lower_bound THEN lower_bound
            ELSE LET best == Best[d - 1] IN IF Padding(values, d) <= Padding(values, best) THEN d ELSE best
    IN  Best[last]

(* group_and_unify_kv_cache_specs and _get_kv_cache_groups_uniform_groups:  *)
(* all MLA layers in one group, the sliding ones of each block size and     *)
(* window padded to its page sizes and split to about as many layer tuples  *)
MlaLayers(layers) == Restrict(layers, {n \in DOMAIN layers : layers[n].kind = "mla"})
KeyOf(s) == <<s.block_size, s.window>>
SwaNames(layers) == {n \in DOMAIN layers : layers[n].kind = "swamla"}
SwaLayers(layers, key) == Restrict(layers, {n \in SwaNames(layers) : KeyOf(layers[n]) = key})
FirstOfKey(layers) ==
    InOrder({n \in SwaNames(layers) : \A m \in SwaNames(layers) : m < n => KeyOf(layers[m]) # KeyOf(layers[n])})
KeysInOrder(layers) == [i \in DOMAIN FirstOfKey(layers) |-> KeyOf(layers[FirstOfKey(layers)[i]])]
NumTuples(layers) ==
    LET counts == <<NumLayerTuples(MlaLayers(layers))>>
                  \o [i \in DOMAIN KeysInOrder(layers) |-> NumLayerTuples(SwaLayers(layers, KeysInOrder(layers)[i]))]
    IN  _approximate_gcd(counts, counts[1])
PaddedToMla(swa, sizes) == [n \in DOMAIN swa |-> [swa[n] EXCEPT !.page = Min({ps \in sizes : ps >= swa[n].page})]]
FirstOfPage(swa) == InOrder({n \in DOMAIN swa : \A m \in DOMAIN swa : m < n => swa[m].page # swa[n].page})
TupleNames(swa) ==   \* zip of the layers of each page size
    [i \in 1..NumLayerTuples(swa) |->
        [j \in DOMAIN FirstOfPage(swa) |-> InOrder(LayersOfPage(swa, swa[FirstOfPage(swa)[j]].page))[i]]]
SwaGroups(swa, tuples) ==
    LET n == cdiv(NumLayerTuples(swa), tuples)
    IN  [i \in 1..n |-> UniformGroup(FlattenSeq(EveryNth(TupleNames(swa), i, n)), swa)]
SwaOf(layers, i) == PaddedToMla(SwaLayers(layers, KeysInOrder(layers)[i]), PageSizes(MlaLayers(layers)))
(* the assertions: MLA layers of one type, no larger page beside them, and  *)
(* as many layers of each page size                                         *)
CanTuple(layers) ==
    /\ DOMAIN MlaLayers(layers) # {} /\ IsUniformType(Range(MlaLayers(layers)))
    /\ \A n \in SwaNames(layers) : layers[n].page <= Max(PageSizes(MlaLayers(layers)))
    /\ \A i \in DOMAIN KeysInOrder(layers) :
          LET swa == SwaOf(layers, i)
          IN  \A p \in PageSizes(swa) : Cardinality(LayersOfPage(swa, p)) = NumLayerTuples(swa)
TupleGroups(layers) ==
    <<UniformGroup(InOrder(DOMAIN MlaLayers(layers)), MlaLayers(layers))>>
    \o FlattenSeq([i \in DOMAIN KeysInOrder(layers) |-> SwaGroups(SwaOf(layers, i), NumTuples(layers))])

(* the hidden-state layers come back with the common page                   *)
HiddenGroup(n, s, page) ==
    Group(<<n>>, [m \in {n} |-> [s EXCEPT !.page = page, !.block_size = Max({page \div (s.page \div s.block_size), 1})]])

(* get_kv_cache_groups; None where it raises *)
HiddenNames(layers) == {n \in DOMAIN layers : layers[n].kind = "hidden"}
RestOf(layers) == unify_kv_cache_spec_page_size(Restrict(layers, DOMAIN layers \ HiddenNames(layers)))
MixedGroups(layers) ==
    LET groups == UniformPageGroups(RestOf(layers))
        names == InOrder(HiddenNames(layers))
    IN  groups \o [i \in DOMAIN names |-> HiddenGroup(names[i], layers[names[i]], groups[1].spec.page)]
GroupsOf(layers) ==
    IF DOMAIN layers = {} THEN <<>>
    ELSE IF Merge(Range(layers)) THEN <<Group(InOrder(DOMAIN layers), layers)>>
    ELSE IF IsUniformType(Range(layers)) THEN <<UniformGroup(InOrder(DOMAIN layers), layers)>>
    ELSE IF HasKind(layers, "swamla") /\ Cardinality(PageSizes(layers)) > 1
         THEN IF CanTuple(layers) THEN TupleGroups(layers) ELSE None
    ELSE IF DOMAIN RestOf(layers) = {} \/ None \in Range(RestOf(layers)) THEN None
    ELSE MixedGroups(layers)
get_kv_cache_groups(c, merged) ==
    LET layers == IF c.disable_hybrid THEN unify_hybrid_kv_cache_specs(merged) ELSE merged
    IN  IF c.disable_hybrid /\ ~Unified(layers) THEN None ELSE GroupsOf(layers)

(* _project_kv_cache_groups_to_worker                                       *)
ProjectedGroup(g, worker) ==
    LET mine == Only(g.names, DOMAIN worker)
    IN  [names |-> mine, uniform |-> g.uniform, spec |-> g.spec,
         order |-> IF mine = <<>> THEN g.order ELSE mine,
         layers |-> IF mine = <<>> THEN g.layers ELSE [n \in ToSet(mine) |-> g.layers[n]]]
Projected(groups, worker) == [i \in DOMAIN groups |-> ProjectedGroup(groups[i], worker)]

----------------------------------------------------------------------------
(* Bytes of one block and of one request of the full length.                *)
OneUniform(groups) == Len(groups) = 1 /\ groups[1].uniform
AllUniform(groups) == \A i \in DOMAIN groups : groups[i].uniform
Packed(c, groups) == AllUniform(groups) \/ (c.cross_layers /\ Len(groups) > 1)
LargestGroup(groups) == Max({Len(groups[i].names) : i \in DOMAIN groups})

(* _bucket_layers_by_page_size: slot k of a page size holds the k-th layer  *)
(* of that page size of every group                                         *)
SpecIn(g, n) == IF g.uniform THEN g.layers[n] ELSE g.spec
OfPage(g, ps) == Only(g.names, {n \in ToSet(g.names) : SpecIn(g, n).page = ps})
SlotPages(groups) == UNION {{SpecIn(g, n).page : n \in ToSet(g.names)} : g \in ToSet(groups)}
PagesInOrder(groups) == InOrder(SlotPages(groups))
NumSlots(groups, ps) == Max({Len(OfPage(g, ps)) : g \in ToSet(groups)})
(* mutant: a slot goes by the position in the group, whatever the page size  *)
SlotLayersByPosition(groups, ps, k) ==
    FlattenSeq([i \in DOMAIN groups |-> IF k <= Len(groups[i].names) THEN <<groups[i].names[k]>> ELSE <<>>])
SlotLayers(groups, ps, k) ==
    FlattenSeq([i \in DOMAIN groups |-> IF k <= Len(OfPage(groups[i], ps)) THEN <<OfPage(groups[i], ps)[k]>> ELSE <<>>])

_pool_bytes_per_block(c, groups) ==
    IF OneUniform(groups) THEN UniformPage(groups[1])
    ELSE IF Packed(c, groups)
         THEN SumSeq([i \in DOMAIN PagesInOrder(groups) |->
                         PagesInOrder(groups)[i] * NumSlots(groups, PagesInOrder(groups)[i])])
    ELSE groups[1].spec.page * LargestGroup(groups)

MaxPages(g, len) == Max({cdiv(MaxBytes(g.layers[n], len), g.layers[n].page) : n \in DOMAIN g.layers})

(* mutant: only the first of several groups is charged                      *)
_max_memory_of_first_group(groups, len) ==
    IF groups = <<>> THEN 0
    ELSE LargestGroup(groups) * cdiv(MaxBytes(groups[1].spec, len), groups[1].spec.page) * groups[1].spec.page

_max_memory_usage_bytes_from_groups(groups, len) ==
    IF groups = <<>> THEN 0
    ELSE IF OneUniform(groups)
    THEN SumSeq([i \in DOMAIN groups[1].order |-> MaxBytes(groups[1].layers[groups[1].order[i]], len)])
    ELSE IF AllUniform(groups)
    THEN LET tuple == SumSeq(InOrder(PageSizes(groups[1].layers)))
             tuples == Max({NumLayerTuples(groups[i].layers) : i \in DOMAIN groups})
         IN  SumSeq([i \in DOMAIN groups |-> tuples * MaxPages(groups[i], len) * tuple])
    ELSE LET page == groups[1].spec.page
         IN  LargestGroup(groups) * page * SumSeq([i \in DOMAIN groups |-> cdiv(MaxBytes(groups[i].spec, len), page)])

(* _estimate_max_model_len_from_groups: binary search, 0 if nothing fits    *)
Fits(groups, memory, len) == _max_memory_usage_bytes_from_groups(groups, len) <= memory
Searches(original) == [left : 1..original+1, right : 0..original, result : 1..original]
Mid(s) == (s.left + s.right) \div 2
RightHalf(s) == [left |-> Mid(s) + 1, right |-> s.right, result |-> Mid(s)]
LeftHalf(s) == [left |-> s.left, right |-> Mid(s) - 1, result |-> s.result]
(* mutant: the search stops when two lengths are left                       *)
EstimatedLenEarly(groups, memory, original) ==
    LET Search[s \in Searches(original)] ==
            IF s.left >= s.right THEN s.result
            ELSE IF Fits(groups, memory, Mid(s)) THEN Search[RightHalf(s)] ELSE Search[LeftHalf(s)]
    IN  IF Fits(groups, memory, 1) THEN Search[[left |-> 1, right |-> original, result |-> 1]] ELSE 0
EstimatedLen(groups, memory, original) ==
    LET Search[s \in Searches(original)] ==
            IF s.left > s.right THEN s.result
            ELSE IF Fits(groups, memory, Mid(s)) THEN Search[RightHalf(s)] ELSE Search[LeftHalf(s)]
    IN  IF Fits(groups, memory, 1) THEN Search[[left |-> 1, right |-> original, result |-> 1]] ELSE 0

----------------------------------------------------------------------------
(* get_kv_cache_config_from_groups                                          *)
(* mutant: the memory is rounded up to whole blocks                         *)
NumBlocksUp(c, groups, memory) ==
    IF c.override # None THEN c.override ELSE cdiv(memory, _pool_bytes_per_block(c, groups))
NumBlocks(c, groups, memory) ==
    IF c.override # None THEN c.override ELSE memory \div _pool_bytes_per_block(c, groups)

Tensor(size, shared_by, offset, stride) == [size |-> size, shared_by |-> shared_by, offset |-> offset, stride |-> stride]

Slots(groups) ==
    FlattenSeq([i \in DOMAIN PagesInOrder(groups) |->
        LET ps == PagesInOrder(groups)[i]
        IN  [k \in 1..NumSlots(groups, ps) |-> [ps |-> ps, layers |-> SlotLayers(groups, ps, k)]]])
PackedTensors(groups, per_block, num_blocks) ==
    [i \in DOMAIN Slots(groups) |->
        Tensor(per_block * num_blocks, Slots(groups)[i].layers, SumSeq([j \in 1..i-1 |-> Slots(groups)[j].ps]), per_block)]

PooledTensors(groups, num_blocks) ==
    [i \in 1..LargestGroup(groups) |->
        Tensor(groups[1].spec.page * num_blocks,
               FlattenSeq([j \in DOMAIN groups |->
                              IF i <= Len(groups[j].names) THEN <<groups[j].names[i]>> ELSE <<>>]), 0, 0)]

LayerTensors(g, num_blocks) ==
    [i \in DOMAIN g.names |-> Tensor(g.layers[g.names[i]].page * num_blocks, <<g.names[i]>>, 0, 0)]

TensorsOf(c, groups, n) ==
    IF OneUniform(groups) THEN LayerTensors(groups[1], n)
    ELSE IF Packed(c, groups) THEN PackedTensors(groups, _pool_bytes_per_block(c, groups), n)
    ELSE PooledTensors(groups, n)
ConfigFromGroups(c, groups, memory) ==
    IF groups = <<>> THEN [num_blocks |-> 1, tensors |-> <<>>]
    ELSE [num_blocks |-> NumBlocks(c, groups, memory), tensors |-> TensorsOf(c, groups, NumBlocks(c, groups, memory))]

(* the blocks of all workers become the fewest, the tensors shrink with them *)
Shrunk(cfg, n) ==
    [num_blocks |-> n,
     tensors |-> [i \in DOMAIN cfg.tensors |->
                     [cfg.tensors[i] EXCEPT !.size = (@ \div cfg.num_blocks) * n]]]

(* Failed: an exception, among them an assertion that every layer of a       *)
(* worker is in a group and divisions by the bytes or the number of blocks   *)
Failed == [ok |-> FALSE]

MergedSpecs(c) ==
    [n \in UNION {DOMAIN c.workers[w] : w \in DOMAIN c.workers} |->
        c.workers[Min({w \in DOMAIN c.workers : n \in DOMAIN c.workers[w]})][n]]
Agreeing(c) ==
    \A v, w \in DOMAIN c.workers : \A n \in DOMAIN c.workers[v] \cap DOMAIN c.workers[w] :
        c.workers[v][n] = c.workers[w][n]
Assigned(groups, worker) == SumSeq([i \in DOMAIN groups |-> Len(groups[i].names)]) = Cardinality(DOMAIN worker)
EffectiveMemory(c, groups, w) ==
    IF c.override = None \/ groups = <<>> THEN c.memory[w] ELSE c.override * _pool_bytes_per_block(c, groups)
FittedLen(c, mine, memory) ==
    Min({EstimatedLen(mine[w], memory[w], c.max_len) : w \in DOMAIN mine} \cup {c.max_len})

get_kv_cache_configs(c) ==
    LET W == DOMAIN c.workers
        groups == get_kv_cache_groups(c, MergedSpecs(c))
        mine == [w \in W |-> Projected(groups, c.workers[w])]
        memory == [w \in W |-> EffectiveMemory(c, mine[w], w)]
        len == IF c.auto_fit /\ groups # <<>> THEN FittedLen(c, mine, memory) ELSE c.max_len
        enough == \A w \in W : memory[w] > 0 /\ Fits(mine[w], memory[w], len)
        divides == \A w \in W : _pool_bytes_per_block(c, mine[w]) > 0
        configs == [w \in W |-> ConfigFromGroups(c, mine[w], memory[w])]
        fewest == Min({configs[w].num_blocks : w \in W})
    IN  IF ~Agreeing(c) \/ groups = None THEN Failed
        ELSE IF groups # <<>> /\ ~(divides /\ len > 0 /\ enough) THEN Failed
        ELSE IF ~(fewest > 0 /\ \A w \in W : Assigned(mine[w], c.workers[w])) THEN Failed
        ELSE [ok |-> TRUE, max_len |-> len, groups |-> groups, mine |-> mine,
              configs |-> [w \in W |-> Shrunk(configs[w], fewest)]]

(* BlockPool takes one block for the null block *)
get_num_free_blocks(p) == p.configs[1].num_blocks - 1

PlanInit == case \in Cases /\ plan = None

Plan == plan = None /\ plan' = get_kv_cache_configs(case) /\ UNCHANGED case

PlanSpec == PlanInit /\ [][Plan]_planVars

----------------------------------------------------------------------------
(* Properties.                                                              *)

Planned == plan # None /\ plan.ok /\ plan.groups # <<>>
Workers == DOMAIN case.workers
TensorOf(w, n) == CHOOSE t \in Range(plan.configs[w].tensors) : n \in ToSet(t.shared_by)
SpecOn(w, n) == LET g == CHOOSE h \in Range(plan.mine[w]) : n \in ToSet(h.names) IN SpecIn(g, n)

(* A plan keeps one length for the model and a block count for every worker. *)
PlanTypeOK ==
    plan # None /\ plan.ok => /\ plan.max_len \in 1..case.max_len
                              /\ \A w \in Workers : plan.configs[w].num_blocks \in Nat \ {0}

(* Without an override, what a worker allocates never exceeds the memory it  *)
(* was profiled to have: the tensors, or the one allocation they alias.      *)
Allocated(tensors) ==
    IF \E t \in Range(tensors) : t.stride > 0 THEN Max({t.size : t \in Range(tensors)})
    ELSE SumSeq([i \in DOMAIN tensors |-> tensors[i].size])
PlanFitsMemory ==
    Planned /\ case.override = None => \A w \in Workers : Allocated(plan.configs[w].tensors) <= case.memory[w]

(* Every layer of a worker has room for a page in every block of exactly one *)
(* tensor, and only layers of different groups, whose block tables are       *)
(* disjoint, lie on the same bytes.                                          *)
HasRoom(t, page, num_blocks) ==
    IF t.stride > 0 THEN t.offset + page <= t.stride /\ t.size = t.stride * num_blocks ELSE page * num_blocks <= t.size
SameBytes(w, n, m) ==
    LET t == TensorOf(w, n)
        u == TensorOf(w, m)
    IN  \/ t = u
        \/ t.stride > 0 /\ t.offset < u.offset + SpecOn(w, m).page /\ u.offset < t.offset + SpecOn(w, n).page
LayersKeepApart ==
    Planned =>
        \A w \in Workers :
            /\ \A n \in DOMAIN case.workers[w] :
                  /\ Cardinality({i \in DOMAIN plan.configs[w].tensors :
                                     n \in ToSet(plan.configs[w].tensors[i].shared_by)}) = 1
                  /\ HasRoom(TensorOf(w, n), SpecOn(w, n).page, plan.configs[w].num_blocks)
            /\ \A g \in Range(plan.mine[w]) : \A n, m \in ToSet(g.names) : n # m => ~SameBytes(w, n, m)

(* Within a group one block id stands for the same tokens in every layer,    *)
(* and no byte per token is lost: a layer's page is at least what its tokens *)
(* needed before pages were unified.  Not so a hidden layer with a token     *)
(* larger than the common page: "max(common_page // per_token, 1)" gives it  *)
(* a block of one token that does not fit (README section 6).                *)
Original(n) == LET w == CHOOSE v \in Workers : n \in DOMAIN case.workers[v] IN case.workers[w][n]
TokenTooLarge(g, n) ==
    SpecIn(g, n).kind = "hidden" /\ SpecIn(g, n).page * Original(n).block_size < Original(n).page
GroupsAreServable ==
    Planned =>
        \A g \in Range(plan.groups) : \A n, m \in ToSet(g.names) :
            /\ SpecIn(g, n).block_size = SpecIn(g, m).block_size
            /\ Window(SpecIn(g, n)) = Window(SpecIn(g, m))
            /\ SpecIn(g, n).kind # "mamba" =>
                   \/ SpecIn(g, n).page * Original(n).block_size >= SpecIn(g, n).block_size * Original(n).page
                   \/ TokenTooLarge(g, n)

(* The length that is auto-fitted is the longest that fits every worker.     *)
AutoFitIsLongest ==
    Planned /\ case.auto_fit =>
        \A len \in 1..case.max_len :
            (\A w \in Workers :
                Fits(plan.mine[w], IF case.override = None THEN case.memory[w]
                                   ELSE case.override * _pool_bytes_per_block(case, plan.mine[w]), len)) => len <= plan.max_len

(* The blocks in the tables of one request.                                  *)
BlocksPerRequest(groups, len) ==
    SumSeq([i \in DOMAIN groups |->
        IF groups[i].uniform THEN MaxPages(groups[i], len)
        ELSE cdiv(MaxBytes(groups[i].spec, len), groups[i].spec.page)])

(* An accepted plan has the blocks of a request of the full length on every  *)
(* worker, after all workers are cut down to the smallest.  Not so where the *)
(* memory check charges too little: of several groups with a spec per layer  *)
(* it charges the page sizes of the first one only, and on a pipeline stage  *)
(* the others may have more (README section 6).                              *)
SlotsCharged(groups) ==
    AllUniform(groups) /\ Len(groups) > 1 => SlotPages(groups) \subseteq PageSizes(groups[1].layers)
EnoughBlocks ==
    Planned /\ (\A w \in Workers : SlotsCharged(plan.mine[w])) =>
        \A w \in Workers : plan.configs[w].num_blocks >= BlocksPerRequest(plan.mine[w], plan.max_len)

(* check_enough_kv_cache_memory: "enough for the KV cache to hold at least   *)
(* one request with the model's max_model_len"; one block is the null block. *)
AcceptedHoldsOneRequest ==
    Planned => get_num_free_blocks(plan) >= BlocksPerRequest(plan.groups, plan.max_len)
=============================================================================
