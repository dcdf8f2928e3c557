------------------------------ MODULE PoolCalls ------------------------------
(***************************************************************************)
(* The pool under every order of calls its callers may make: they free and *)
(* cache only blocks they hold, and enter a hash only for what they wrote. *)
(* A consumer replays the events it takes.                                 *)
(***************************************************************************)
EXTENDS BlockPool

CONSTANTS MaxRef,      \* bound: references to one block
          MaxEvents,   \* bound: events not yet taken
          MaxList      \* bound: blocks in one call

ASSUME PoolCallsAssumption == MaxRef \in Nat \ {0} /\ MaxEvents \in Nat /\ MaxList \in Nat

VARIABLES pool,
          content,   \* history: the prefix whose tokens fill each block
          view       \* the keys the consumer believes to be cached

vars == <<pool, content, view>>

Held == {b \in Blocks \ {null_block} : pool.ref[b] > 0}
Lists(S) == UNION {{s \in [1..n -> S] : IsInjective(s)} : n \in 1..MaxList}
Room == Len(pool.events) < MaxEvents

FitsBlock(b, h) ==
    \/ content[b] = <<>>
    \/ /\ Slot(Len(content[b])) = Slot(Len(h))
       /\ IsPrefix(content[b], h) \/ IsPrefix(h, content[b])
Written(b, h) == IF Len(content[b]) < Len(h) THEN h ELSE content[b]

Init == pool = NewPool /\ content = [b \in Blocks |-> <<>>] /\ view = {}

GetNewBlocks(n) ==
    /\ Room /\ CanGet(pool, n)
    /\ pool' = get_new_blocks(pool, n)
    /\ content' = [b \in Blocks |-> IF b \in ToSet(new_blocks(pool, n)) THEN <<>> ELSE content[b]]
    /\ UNCHANGED view

(* a request hits the hash in every group and takes the blocks *)
HitAndTouch(t, n) ==
    LET hit == get_cached_block(pool, Hash(t, n), Groups)
    IN  /\ IsCached(pool, Hash(t, n), Groups)
        /\ \A b \in hit : pool.ref[b] < MaxRef
        /\ pool' = touch(pool, SetToSeq(hit))
        /\ UNCHANGED <<content, view>>

CacheFullBlocks(t, blocks, from, g, mask) ==
    LET to == from + Len(blocks)
        at == [i \in 1..to |-> IF i <= from THEN null_block ELSE blocks[i - from]]
    IN  /\ Room /\ to * block_size <= Len(t)
        /\ \A i \in from+1..to : FitsBlock(at[i], Hash(t, i * block_size))
        /\ MayCacheFull(pool, at, from, to, mask)
        /\ pool' = cache_full_blocks(pool, t, at, from, to, g, mask)
        /\ content' = [b \in Blocks |-> IF b \in ToSet(blocks)
                                        THEN Hash(t, (from + CHOOSE i \in DOMAIN blocks : blocks[i] = b) * block_size)
                                        ELSE content[b]]
        /\ UNCHANGED view

(* get_computed_blocks reports a hit of n blocks, null blocks included: in  *)
(* a sparse group only the last ones need to be cached.                     *)
EmitReused(t, n, g) ==
    /\ Room /\ n * block_size <= Len(t)
    /\ \A i \in 1..n : g \notin Sparse \/ i = n => get_one_block(pool, FullKey(t, i, g)) # None
    /\ pool' = emit_cached_block_events(pool, t, n, g)
    /\ UNCHANGED <<content, view>>

CachePartialBlock(t, b, n, g) ==
    /\ Room /\ MayCachePartial(t, b, n) /\ FitsBlock(b, Hash(t, n))
    /\ pool' = cache_partial_block(pool, t, b, n, g)
    /\ content' = [content EXCEPT ![b] = Written(b, Hash(t, n))]
    /\ UNCHANGED view

(* the owner of src overwrites it; the copy keeps what was cached *)
MoveBlockHashes(src, dst) ==
    /\ src # dst /\ MayMove(pool, src, dst) /\ content[dst] = <<>>
    /\ pool' = move_block_hashes(pool, src, dst)
    /\ content' = [content EXCEPT ![dst] = content[src], ![src] = <<>>]
    /\ UNCHANGED view

FreeBlocks(blocks) == pool' = free_blocks(pool, blocks) /\ UNCHANGED <<content, view>>

EvictBlocks(bs) == Room /\ pool' = evict_blocks(pool, bs) /\ UNCHANGED <<content, view>>

ResetPrefixCache == Room /\ pool' = reset_prefix_cache(pool) /\ UNCHANGED <<content, view>>

TakeEvents ==
    /\ pool.events # <<>>
    /\ pool' = take_events(pool) /\ view' = Replay(view, pool.events)
    /\ UNCHANGED content

Next ==
    \/ \E n \in 1..MaxList : GetNewBlocks(n)
    \/ \E t \in Tokens, n \in 1..4 : n <= Len(t) /\ n % hash_block_size = 0 /\ HitAndTouch(t, n)
    \/ \E t \in Tokens, blocks \in Lists(Held), from \in 0..1, g \in Groups :
           \E mask \in SUBSET (from+1..from+Len(blocks)) : CacheFullBlocks(t, blocks, from, g, mask)
    \/ \E t \in Tokens, n \in 1..2, g \in Groups : EmitReused(t, n, g)
    \/ \E t \in Tokens, b \in Held, n \in 1..4, g \in Groups : CachePartialBlock(t, b, n, g)
    \/ \E src, dst \in Held : MoveBlockHashes(src, dst)
    \/ \E blocks \in Lists(Held) : FreeBlocks(blocks)
    \/ \E bs \in SUBSET Blocks : bs # {} /\ EvictBlocks(bs)
    \/ ResetPrefixCache
    \/ TakeEvents

Spec == Init /\ [][Next]_vars

----------------------------------------------------------------------------
TypeOK ==
    /\ pool.free \in Seq(Blocks) /\ pool.ref \in [Blocks -> 0..MaxRef]
    /\ pool.hash \in [Blocks -> Keys \cup {None}] /\ pool.extra \in [Blocks -> SUBSET Keys]
    /\ DOMAIN pool.map = Keys /\ view \subseteq Keys

(* No block is leaked or handed out twice, over any calls (IsFreeListExact  *)
(* of BlockPool; free_block_queue against ref_cnt).                         *)
FreeListExact == IsFreeListExact(pool)

(* The hash a block carries, its further keys and the map that lookups read *)
(* agree in both directions; otherwise an eviction misses an entry.         *)
HashesAgree ==
    /\ \A b \in Blocks, k \in Keys : contain(pool, k, b) <=> k \in OwnKeys(pool, b)
    /\ \A b \in Blocks : pool.hash[b] = None => pool.extra[b] = {}
    /\ \A k \in Keys : IsInjective(pool.map[k])

(* Lookups serve the prefix asked for through eviction, promotion of a      *)
(* partial entry and the move to a private copy (ServesItsPrefix).          *)
HitsServeTheirPrefix == ServesItsPrefix(pool, content)

(* A consumer that replays the events never believes a prefix cached that   *)
(* is not: every way an entry disappears emits its event in order.  Not so  *)
(* for sparse groups: a reported hit names the hashes of its null blocks    *)
(* too, which the pool need not have.                                       *)
EventsNeverOverstate ==
    \A k \in Replay(view, pool.events) : k.group \notin Sparse => get_one_block(pool, k) # None

(* The comment of free_blocks says that blocks without a hash always get    *)
(* evicted first.                                                           *)
UnhashedEvictedFirst ==
    \A i, j \in DOMAIN pool.free :
        i < j /\ pool.hash[pool.free[i]] # None => pool.hash[pool.free[j]] # None
=============================================================================
