------------------------------ MODULE BlockPool ------------------------------
(***************************************************************************)
(* vllm_v1_core_block_pool.py: the methods of BlockPool as operators on    *)
(* the pool's state, so that a caller's step may be several of them.  A    *)
(* block hash chains over its whole prefix, so it is the sequence of the   *)
(* tokens it covers; with the group's id it is a key of the cache.         *)
(***************************************************************************)
EXTENDS Integers, FiniteSets, Sequences, SequencesExt

CONSTANTS num_gpu_blocks, hash_block_size, block_size,
          Tokens,    \* sequences of tokens of the requests
          Groups,    \* ids of the KV cache groups
          Sparse,    \* the groups whose hits may begin with null blocks: sliding window, Mamba
          enable_kv_cache_events,
          None

ASSUME BlockPoolAssumption ==
    /\ num_gpu_blocks \in Nat \ {0} /\ hash_block_size \in Nat \ {0}
    /\ block_size \in Nat \ {0} /\ block_size % hash_block_size = 0
    /\ Tokens \subseteq Seq(Nat) /\ IsFiniteSet(Groups) /\ Sparse \subseteq Groups
    /\ enable_kv_cache_events \in BOOLEAN

Blocks == 0..num_gpu_blocks-1
null_block == 0

(* the blocks of s that are in S, in the order of s                         *)
Filter(s, S) ==
    LET f[i \in 0..Len(s)] == IF i = 0 THEN <<>>
                              ELSE IF s[i] \in S THEN Append(f[i-1], s[i]) ELSE f[i-1]
    IN  f[Len(s)]

(* Request.block_hashes, and the coarser hashes of resolve_block_hashes     *)
Hash(t, n) == SubSeq(t, 1, n)
Key(h, g) == [hash |-> h, group |-> g]
NumTokens(k) == Len(k.hash)
Keys == UNION {{Key(Hash(t, i * hash_block_size), g) : i \in 1..(Len(t) \div hash_block_size), g \in Groups}
               : t \in Tokens}

ASSUME NoneAssumption == None \notin Keys /\ None \notin Blocks

----------------------------------------------------------------------------
(* The pool: free_block_queue, ref_cnt, _block_hash of each block, the      *)
(* further keys of a block (cached_block_hashes_by_block), the blocks under *)
(* each key in the order they came, and kv_event_queue.                     *)
NewPool == [free   |-> [i \in 1..num_gpu_blocks-1 |-> i],
            ref    |-> [b \in Blocks |-> 0],
            hash   |-> [b \in Blocks |-> None],
            extra  |-> [b \in Blocks |-> {}],
            map    |-> [k \in Keys |-> <<>>],
            events |-> <<>>]

get_num_free_blocks(p) == Len(p.free)

(* BlockHashToBlockMap: one block, or several under the same key            *)
get_one_block(p, k) == IF p.map[k] = <<>> THEN None ELSE Head(p.map[k])
contain(p, k, b) == b \in ToSet(p.map[k])
insert(m, k, b) == [m EXCEPT ![k] = Append(@, b)]
pop(m, ks, b) == [k \in Keys |-> IF k \in ks THEN Filter(m[k], Blocks \ {b}) ELSE m[k]]

(* a hit needs the block in every group *)
IsCached(p, h, gs) == \A g \in gs : get_one_block(p, Key(h, g)) # None
get_cached_block(p, h, gs) == {get_one_block(p, Key(h, g)) : g \in gs}

----------------------------------------------------------------------------
(* KV cache events; the BlockRemoved events of one call carry one key each  *)
Event(kind, ks, parent) == [kind |-> kind, keys |-> ks, parent |-> parent]
Emit(p, kind, ks, parent) ==
    IF enable_kv_cache_events THEN [p EXCEPT !.events = Append(@, Event(kind, ks, parent))] ELSE p

(* set_block_hash or cached_block_hashes_by_block, then the map *)
_insert_block_hash(p, k, b) ==
    IF p.hash[b] = k \/ contain(p, k, b) THEN p
    ELSE IF p.hash[b] = None
    THEN [p EXCEPT !.hash[b] = k, !.map = insert(@, k, b)]
    ELSE [p EXCEPT !.extra[b] = @ \cup {k}, !.map = insert(@, k, b)]

OwnKeys(p, b) == p.extra[b] \cup (IF p.hash[b] = None THEN {} ELSE {p.hash[b]})

removed_hashes(p, b) == {k \in OwnKeys(p, b) : contain(p, k, b)}

(* mutant: only the primary hash leaves the map *)
_remove_primary_hash(p, b) ==
    [p EXCEPT !.hash[b] = None, !.extra[b] = {}, !.map = pop(@, {p.hash[b]} \cap Keys, b)]

_remove_cached_block_hashes(p, b) ==
    [p EXCEPT !.hash[b] = None, !.extra[b] = {}, !.map = pop(@, OwnKeys(p, b), b)]

(* _remove_cached_block_hashes and _emit_block_removed_events *)
Unhash(p, b) ==
    IF removed_hashes(p, b) = {} THEN _remove_cached_block_hashes(p, b)
    ELSE Emit(_remove_cached_block_hashes(p, b), "removed", removed_hashes(p, b), None)

(* mutants: a block is reused with its hash; no event tells of it *)
_never_evict(p, b) == p
_evict_silently(p, b) == _remove_cached_block_hashes(p, b)
_maybe_evict_cached_block(p, b) == Unhash(p, b)

(* one new full block: the only hash it may have is a shorter, partial one  *)
CacheFullBlock(p, k, b) ==
    _insert_block_hash(IF p.hash[b] = None THEN p ELSE Unhash(p, b), k, b)

(* mask is the set of positions of blocks whose hash may be entered         *)
NewFull(blocks, from, to, mask) == {i \in from+1..to : i \in mask /\ blocks[i] # null_block}
FullKey(t, i, g) == Key(Hash(t, i * block_size), g)
ParentKey(t, from, g) == IF from = 0 THEN None ELSE FullKey(t, from, g)

(* the assertion of the loop *)
MayCacheFull(p, blocks, from, to, mask) ==
    \A i \in NewFull(blocks, from, to, mask) :
        p.hash[blocks[i]] # None => NumTokens(p.hash[blocks[i]]) < i * block_size

cache_full_blocks(p, t, blocks, from, to, g, mask) ==
    IF from >= to THEN p
    ELSE LET new == NewFull(blocks, from, to, mask)
             cached[i \in 0..to] == IF i = 0 THEN p
                                    ELSE IF i \in new THEN CacheFullBlock(cached[i-1], FullKey(t, i, g), blocks[i])
                                    ELSE cached[i-1]
         IN  Emit(cached[to], "stored", {FullKey(t, i, g) : i \in new}, ParentKey(t, from, g))

emit_cached_block_events(p, t, n, g) ==
    IF n = 0 THEN p ELSE Emit(p, "stored", {FullKey(t, i, g) : i \in 1..n}, None)

(* an entry that ends inside a block of the group *)
MayCachePartial(t, b, n) ==
    /\ b # null_block /\ block_size > hash_block_size
    /\ n % block_size # 0 /\ n % hash_block_size = 0
    /\ 0 < n /\ n <= Len(t)
PartialParent(t, n, g) == IF n = hash_block_size THEN None ELSE Key(Hash(t, n - hash_block_size), g)

cache_partial_block(p, t, b, n, g) ==
    LET k == Key(Hash(t, n), g)
        already == p.hash[b] = k \/ contain(p, k, b)
        shorter == ~already /\ p.hash[b] # None /\ NumTokens(p.hash[b]) < n
        q == _insert_block_hash(IF shorter THEN Unhash(p, b) ELSE p, k, b)
    IN  IF already THEN q ELSE Emit(q, "stored", {k}, PartialParent(t, n, g))

(* the entries of src are moved to a private copy; no event tells of it.    *)
(* The first key re-entered, src's primary one, is dst's primary key.       *)
MayMove(p, src, dst) == p.hash[dst] = None /\ p.extra[dst] = {}
move_block_hashes(p, src, dst) ==
    LET ks == removed_hashes(p, src)
        q == _remove_cached_block_hashes(p, src)
    IN  IF ks = {} THEN q
        ELSE LET primary == IF p.hash[src] \in ks THEN p.hash[src] ELSE CHOOSE k \in ks : TRUE
             IN  [q EXCEPT !.hash[dst] = primary, !.extra[dst] = ks \ {primary},
                           !.map = [k \in Keys |-> IF k \in ks THEN Append(q.map[k], dst) ELSE q.map[k]]]

----------------------------------------------------------------------------
(* _maybe_evict_cached_block of one block after the other *)
Evicted(p, blocks) ==
    LET after[i \in 0..Len(blocks)] == IF i = 0 THEN p ELSE _maybe_evict_cached_block(after[i-1], blocks[i])
    IN  after[Len(blocks)]

(* get_new_blocks raises ValueError when there are not enough *)
CanGet(p, n) == n <= get_num_free_blocks(p)
new_blocks(p, n) == SubSeq(p.free, 1, n)
get_new_blocks(p, n) ==
    LET evicted == Evicted(p, new_blocks(p, n))
    IN  [evicted EXCEPT !.free = SubSeq(@, n + 1, Len(@)),
                        !.ref = [b \in Blocks |-> IF b \in ToSet(new_blocks(p, n)) THEN @[b] + 1 ELSE @[b]]]

(* a block gains a reference each time it is in blocks                      *)
Gains(p, blocks) ==
    [b \in Blocks |-> IF b = null_block THEN p.ref[b]
                      ELSE p.ref[b] + Cardinality({i \in DOMAIN blocks : blocks[i] = b})]

(* mutant: the block stays in the free list *)
touch_in_place(p, blocks) == [p EXCEPT !.ref = Gains(p, blocks)]

(* the ref_cnt of the null block is not maintained: it is left at 0 here *)
touch(p, blocks) ==
    [p EXCEPT !.ref = Gains(p, blocks),
              !.free = Filter(@, {b \in Blocks : p.ref[b] > 0 \/ b \notin ToSet(blocks)})]

(* free_blocks: what never matches again is put in front, the rest behind   *)
free_blocks(p, blocks) ==
    LET last == Filter(blocks, {b \in Blocks \ {null_block} : p.ref[b] = 1})
        without_hash == Filter(last, {b \in Blocks : p.hash[b] = None})
        with_hash == Filter(last, {b \in Blocks : p.hash[b] # None})
    IN  [p EXCEPT !.ref = [b \in Blocks |-> IF b \in ToSet(blocks) \ {null_block} THEN @[b] - 1 ELSE @[b]],
                  !.free = without_hash \o @ \o with_hash]

evict_blocks(p, bs) == Evicted(p, SetToSeq(bs))

CanReset(p) == num_gpu_blocks - get_num_free_blocks(p) = 1
reset_prefix_cache(p) ==
    IF ~CanReset(p) THEN p
    ELSE Emit([p EXCEPT !.hash = [b \in Blocks |-> None], !.extra = [b \in Blocks |-> {}],
                        !.map = [k \in Keys |-> <<>>]], "cleared", {}, None)

take_events(p) == [p EXCEPT !.events = <<>>]

----------------------------------------------------------------------------
(* Over any calls, the free list holds each block nobody references exactly *)
(* once and no other: a block is neither leaked nor handed out while a      *)
(* request still reads it.  The null block is never in it.                  *)
IsFreeListExact(p) ==
    /\ IsInjective(p.free)
    /\ ToSet(p.free) = {b \in Blocks \ {null_block} : p.ref[b] = 0}

(* the block of a prefix that its n-th token lies in *)
Slot(n) == (n + block_size - 1) \div block_size

(* What a consumer believes to be cached that believed v and then took the  *)
(* events es: what was stored and not dropped since.                        *)
Stores(e, k) == e.kind = "stored" /\ k \in e.keys
Drops(e, k) == e.kind = "cleared" \/ (e.kind = "removed" /\ k \in e.keys)
Replay(v, es) ==
    {k \in Keys : \/ k \in v /\ \A i \in DOMAIN es : ~Drops(es[i], k)
                 \/ \E i \in DOMAIN es : Stores(es[i], k) /\ \A j \in i+1..Len(es) : ~Drops(es[j], k)}

(* A lookup never returns a block filled with anything but the prefix that  *)
(* was asked for, however the block was reused, promoted or copied since;   *)
(* content says which prefix ends in each block.                            *)
ServesItsPrefix(p, content) ==
    \A k \in Keys : \A b \in ToSet(p.map[k]) :
        IsPrefix(k.hash, content[b]) /\ Slot(Len(content[b])) = Slot(NumTokens(k))
=============================================================================
