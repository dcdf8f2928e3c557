--------------------------- MODULE PoolCalls_proof ---------------------------
(***************************************************************************)
(* The pool keeps its invariants over any calls, whatever the numbers of   *)
(* blocks, groups and tokens: the free list is exact, hashes and map       *)
(* agree, lookups serve the prefix asked for, events do not overstate.     *)
(***************************************************************************)
EXTENDS PoolCalls, BlockPool_proof

(* ServesItsPrefix, entry by entry                                          *)
Serves(c, k, b) == IsPrefix(k.hash, c[b]) /\ Slot(Len(c[b])) = Slot(NumTokens(k))
Served(p, c) == \A k \in Keys, b \in Blocks : contain(p, k, b) => Serves(c, k, b)

(* The inductive invariant.                                                 *)
RefsBounded(p) == \A b \in Blocks : p.ref[b] <= MaxRef
PoolInv(p, v, c) ==
    /\ p \in PoolState /\ IsFreeListExact(p) /\ RefsBounded(p)
    /\ Agree(p) /\ Truthful(p, v) /\ Served(p, c)
Inv == /\ PoolInv(pool, view, content)
       /\ view \subseteq Keys /\ content \in [Blocks -> Seq(Nat)]

LEMMA ServedMeaning ==
    ASSUME NEW p \in PoolState, NEW c
    PROVE  ServesItsPrefix(p, c) <=> Served(p, c)
<1>1. p.map \in [Keys -> Seq(Blocks)]
  BY PoolFields
<1>2. \A k \in Keys : ToSet(p.map[k]) \subseteq Blocks
  BY <1>1 DEF ToSet
<1> QED BY <1>2 DEF ServesItsPrefix, Served, Serves, contain

LEMMA SameFreeExact ==
    ASSUME NEW p \in PoolState, NEW q \in PoolState, SameFree(p, q), IsFreeListExact(p), RefsBounded(p)
    PROVE  IsFreeListExact(q) /\ RefsBounded(q)
BY DEF SameFree, IsFreeListExact, RefsBounded

(* What a step that only changes the cache has to show.                     *)
LEMMA CacheStep ==
    ASSUME NEW q \in PoolState, NEW c \in [Blocks -> Seq(Nat)], Inv,
           SameFree(pool, q), Agree(q), \A v : Truthful(pool, v) => Truthful(q, v), Served(q, c),
           pool' = q, content' = c, view' = view
    PROVE  Inv'
<1>1. IsFreeListExact(q) /\ RefsBounded(q)
  BY SameFreeExact DEF Inv, PoolInv
<1>2. PoolInv(q, view, c)
  BY <1>1 DEF Inv, PoolInv
<1> QED BY <1>2 DEF Inv

LEMMA SameServed ==
    ASSUME NEW p \in PoolState, NEW q \in PoolState, NEW c, Served(p, c),
           \A b \in Blocks, k \in Keys : contain(q, k, b) => contain(p, k, b)
    PROVE  Served(q, c)
BY DEF Served

LEMMA InvInit == Init => Inv
<1> SUFFICES ASSUME Init PROVE Inv
  OBVIOUS
<1> DEFINE p == NewPool
<1>1. p \in PoolState /\ IsFreeListExact(p) /\ Agree(p) /\ p.events = <<>>
  BY NewPoolFacts
<1>2. \A b \in Blocks : p.ref[b] = 0
  BY NewPoolFacts
<1>3. \A k \in Keys, b \in Blocks : ~contain(p, k, b)
  BY NewPoolFacts
<1>4. content \in [Blocks -> Seq(Nat)] /\ pool = p
  BY DEF Init
<1> HIDE DEF p
<1>5. Served(p, content)
  BY <1>3 DEF Served
<1>6. view = {} /\ Truthful(p, {})
  <2>1. Replay({}, <<>>) = {}
    BY ReplayNothing
  <2> QED BY <1>1, <2>1 DEF Init, Truthful
<1>7. RefsBounded(p)
  BY <1>2, PoolCallsAssumption DEF RefsBounded
<1> QED BY <1>1, <1>4, <1>5, <1>6, <1>7 DEF Inv, PoolInv

LEMMA StepGet ==
    ASSUME Inv, NEW n \in 1..MaxList, GetNewBlocks(n)
    PROVE  Inv'
<1> DEFINE q == get_new_blocks(pool, n)
           new == new_blocks(pool, n)
           c == [b \in Blocks |-> IF b \in ToSet(new) THEN <<>> ELSE content[b]]
<1>1. n \in Nat /\ CanGet(pool, n)
  BY PoolCallsAssumption DEF GetNewBlocks
<1>2. pool \in PoolState /\ Agree(pool) /\ IsFreeListExact(pool) /\ RefsBounded(pool) /\ Truthful(pool, view)
      /\ Served(pool, content) /\ view \subseteq Keys /\ content \in [Blocks -> Seq(Nat)]
  BY DEF Inv, PoolInv
<1>3. /\ q \in PoolState /\ Agree(q) /\ IsFreeListExact(q)
      /\ \A b \in Blocks : q.ref[b] = IF b \in ToSet(new) THEN 1 ELSE pool.ref[b]
      /\ \A b \in Blocks, k \in Keys : contain(q, k, b) <=> contain(pool, k, b) /\ b \notin ToSet(new)
      /\ \A v : Truthful(pool, v) => Truthful(q, v)
  BY <1>1, <1>2, GetEffect
<1>4. pool' = q /\ content' = c /\ view' = view
  BY DEF GetNewBlocks
<1> HIDE DEF q, new
<1>5. c \in [Blocks -> Seq(Nat)]
  BY <1>2
<1>6. \A b \in Blocks : b \notin ToSet(new) => c[b] = content[b]
  OBVIOUS
<1> HIDE DEF c
<1>7. Served(q, c)
  BY <1>2, <1>3, <1>6 DEF Served, Serves
<1>8. RefsBounded(q)
  BY <1>2, <1>3, PoolCallsAssumption DEF RefsBounded
<1> QED BY <1>2, <1>3, <1>4, <1>5, <1>7, <1>8 DEF Inv, PoolInv

LEMMA StepTouch ==
    ASSUME Inv, NEW t \in Tokens, NEW n \in Nat \ {0}, n <= Len(t), n % hash_block_size = 0, HitAndTouch(t, n)
    PROVE  Inv'
<1> DEFINE h == Hash(t, n)
           hit == get_cached_block(pool, h, Groups)
           blocks == SetToSeq(hit)
           q == touch(pool, blocks)
<1>1. pool \in PoolState /\ Agree(pool) /\ IsFreeListExact(pool) /\ RefsBounded(pool) /\ Truthful(pool, view)
      /\ Served(pool, content) /\ view \subseteq Keys /\ content \in [Blocks -> Seq(Nat)]
  BY DEF Inv, PoolInv
<1>2. IsCached(pool, h, Groups) /\ pool' = q /\ content' = content /\ view' = view
  BY DEF HitAndTouch
<1>3. \A b \in hit : pool.ref[b] < MaxRef
  BY DEF HitAndTouch
<1>4. hit \subseteq Blocks
  <2>1. \A g \in Groups : Key(h, g) \in Keys
    BY KeyOfPrefix
  <2>2. \A g \in Groups : get_one_block(pool, Key(h, g)) \in Blocks
    BY <1>1, <1>2, <2>1, OneBlock DEF IsCached
  <2> QED BY <2>2 DEF get_cached_block
<1>5. blocks \in Seq(Blocks) /\ IsInjective(blocks) /\ \A b : b \in ToSet(blocks) => b \in hit
  <2> HIDE DEF hit
  <2> QED BY <1>4, FiniteBlocks, SetToSeqFacts
<1>6. q \in PoolState /\ SameCache(pool, q) /\ q.events = pool.events /\ IsFreeListExact(q) /\ q.ref = Gains(pool, blocks)
  <2> HIDE DEF blocks
  <2> QED BY <1>1, <1>5, TouchEffect
<1> HIDE DEF q
<1>7. Agree(q) /\ \A k \in Keys, b \in Blocks : contain(q, k, b) <=> contain(pool, k, b)
  BY <1>1, <1>6, AgreeEmitted
<1>8. Truthful(q, view)
  <2>1. \A k \in Keys : HasBlock(pool, k) => HasBlock(q, k)
    BY <1>7 DEF HasBlock
  <2> QED BY <1>1, <1>6, <2>1, TruthfulKept
<1>9. RefsBounded(q)
  <2>1. /\ \A b \in Blocks : b = null_block \/ b \notin ToSet(blocks) => Gains(pool, blocks)[b] = pool.ref[b]
        /\ \A b \in Blocks : b # null_block /\ b \in ToSet(blocks) => Gains(pool, blocks)[b] = pool.ref[b] + 1
    <3> HIDE DEF blocks
    <3> QED BY <1>1, <1>5, GainsMeaning
  <2>2. \A b \in Blocks : pool.ref[b] \in Nat /\ pool.ref[b] <= MaxRef
    <3>1. pool.ref \in [Blocks -> Nat]
      BY <1>1, PoolFields
    <3> QED BY <1>1, <3>1 DEF RefsBounded
  <2> HIDE DEF blocks, hit
  <2>3. ASSUME NEW b \in Blocks
        PROVE  q.ref[b] <= MaxRef
    <3>1. CASE b # null_block /\ b \in ToSet(blocks)
      <4>1. q.ref[b] = pool.ref[b] + 1
        BY <1>6, <2>1, <3>1
      <4>2. pool.ref[b] < MaxRef
        BY <1>3, <1>5, <3>1
      <4> QED BY <2>2, <4>1, <4>2, PoolCallsAssumption
    <3>2. CASE ~(b # null_block /\ b \in ToSet(blocks))
      BY <1>6, <2>1, <2>2, <3>2
    <3> QED BY <3>1, <3>2
  <2> QED BY <2>3 DEF RefsBounded
<1>10. Served(q, content)
  BY <1>1, <1>6, <1>7, SameServed
<1> QED BY <1>1, <1>2, <1>6, <1>7, <1>8, <1>9, <1>10 DEF Inv, PoolInv

(* Prefixes                                                                 *)
LEMMA PrefixSelf ==
    ASSUME NEW s \in Seq(Nat)
    PROVE  IsPrefix(s, s)
BY PrefixMeaning

LEMMA PrefixOfPrefix ==
    ASSUME NEW r \in Seq(Nat), NEW s \in Seq(Nat), NEW t \in Seq(Nat), IsPrefix(r, s), IsPrefix(s, t)
    PROVE  IsPrefix(r, t)
<1>1. Len(r) \in Nat /\ Len(s) \in Nat /\ Len(t) \in Nat
  OBVIOUS
<1>2. Len(r) <= Len(s) /\ \A i \in 1..Len(r) : r[i] = s[i]
  BY PrefixMeaning
<1>3. Len(s) <= Len(t) /\ \A i \in 1..Len(s) : s[i] = t[i]
  BY PrefixMeaning
<1>4. \A i \in 1..Len(r) : i \in 1..Len(s)
  BY <1>1, <1>2
<1>5. \A i \in 1..Len(r) : r[i] = t[i]
  BY <1>2, <1>3, <1>4
<1>6. Len(r) <= Len(t)
  BY <1>1, <1>2, <1>3
<1> QED BY <1>5, <1>6, PrefixMeaning

(* A block that is filled further still serves what it served.              *)
LEMMA StillServes ==
    ASSUME NEW k \in Keys, NEW old \in Seq(Nat), NEW h \in Seq(Nat),
           IsPrefix(k.hash, old), Slot(Len(old)) = Slot(NumTokens(k)),
           old # <<>> => Slot(Len(old)) = Slot(Len(h)) /\ IsPrefix(old, h)
    PROVE  IsPrefix(k.hash, h) /\ Slot(Len(h)) = Slot(NumTokens(k))
<1>1. k.hash \in Seq(Nat) /\ Len(k.hash) \in Nat \ {0}
  BY KeyFacts
<1>2. old # <<>>
  <2>1. Len(k.hash) <= Len(old)
    BY <1>1, PrefixMeaning
  <2> QED BY <1>1, <2>1
<1>3. IsPrefix(k.hash, h)
  BY <1>1, <1>2, PrefixOfPrefix
<1> QED BY <1>2, <1>3

(* When it is full, nothing longer can have stood in it.                    *)
LEMMA FilledUp ==
    ASSUME NEW i \in Nat, NEW old \in Seq(Nat), NEW h \in Seq(Nat), Len(h) = i * block_size,
           Slot(Len(old)) = Slot(Len(h)), IsPrefix(h, old)
    PROVE  IsPrefix(old, h)
<1>1. Len(h) \in Nat /\ Len(old) \in Nat
  OBVIOUS
<1>2. Len(h) <= Len(old) /\ \A j \in 1..Len(h) : h[j] = old[j]
  BY PrefixMeaning
<1>3. Slot(Len(h)) = i
  BY SlotFacts
<1>4. Len(old) <= Len(h)
  BY <1>1, <1>3, SlotFacts
<1>5. Len(old) = Len(h)
  BY <1>1, <1>2, <1>4
<1> QED BY <1>2, <1>5, PrefixMeaning

LEMMA StepCacheFull ==
    ASSUME Inv, NEW t \in Tokens, NEW blocks \in Lists(Held), NEW from \in 0..1, NEW g \in Groups,
           NEW mask, CacheFullBlocks(t, blocks, from, g, mask)
    PROVE  Inv'
<1>1. pool \in PoolState /\ Agree(pool) /\ Served(pool, content) /\ content \in [Blocks -> Seq(Nat)]
  BY DEF Inv, PoolInv
<1>2. PICK m \in 1..MaxList : blocks \in [1..m -> Held] /\ IsInjective(blocks)
  BY DEF Lists
<1>3. m \in Nat /\ DOMAIN blocks = 1..m /\ Len(blocks) = m
  BY <1>2, PoolCallsAssumption
<1> DEFINE to == from + Len(blocks)
           at == [i \in 1..to |-> IF i <= from THEN null_block ELSE blocks[i - from]]
           new == NewFull(at, from, to, mask)
           q == cache_full_blocks(pool, t, at, from, to, g, mask)
           idx(b) == CHOOSE i \in DOMAIN blocks : blocks[i] = b
           c == [b \in Blocks |-> IF b \in ToSet(blocks) THEN Hash(t, (from + idx(b)) * block_size) ELSE content[b]]
<1>4. /\ to * block_size <= Len(t) /\ \A i \in from+1..to : FitsBlock(at[i], Hash(t, i * block_size))
      /\ pool' = q /\ content' = c /\ view' = view
  BY DEF CacheFullBlocks
<1>5. to = from + m /\ to \in Nat /\ from \in Nat
  BY <1>3
<1>6. ASSUME NEW i \in from+1..to
      PROVE  i - from \in 1..m /\ at[i] = blocks[i - from] /\ at[i] \in Blocks /\ i \in Nat
  <2>1. i - from \in 1..m /\ i \in 1..to /\ ~(i <= from) /\ i \in Nat
    BY <1>5
  <2>2. at[i] = blocks[i - from]
    BY <2>1
  <2>3. blocks[i - from] \in Blocks
    BY <1>2, <2>1 DEF Held
  <2> HIDE DEF at
  <2> QED BY <2>1, <2>2, <2>3
<1>7. \A i, j \in from+1..to : at[i] = at[j] => i = j
  <2> SUFFICES ASSUME NEW i \in from+1..to, NEW j \in from+1..to, at[i] = at[j] PROVE i = j
    OBVIOUS
  <2>1. /\ i - from \in 1..m /\ at[i] = blocks[i - from] /\ i \in Nat
        /\ j - from \in 1..m /\ at[j] = blocks[j - from] /\ j \in Nat
    BY <1>6
  <2> HIDE DEF at, to
  <2>2. i - from = j - from
    BY <1>2, <1>3, <2>1 DEF IsInjective
  <2> QED BY <1>5, <2>1, <2>2
<1>8. new \subseteq from+1..to
  BY DEF NewFull
<1>9. MayEnter(t, at, from, to, g, mask)
  <2> HIDE DEF at, to
  <2> QED BY <1>4, <1>5, <1>6, <1>7, <1>8 DEF MayEnter, AreDistinct
<1>10. /\ q \in PoolState /\ Agree(q) /\ AreEntered(pool, t, at, new, g, q)
       /\ \A v : Truthful(pool, v) => Truthful(q, v)
  <2> HIDE DEF at, to
  <2> QED BY <1>1, <1>9, CacheFullEffect
<1>11. ASSUME NEW i \in from+1..to
       PROVE  /\ Hash(t, i * block_size) \in Seq(Nat) /\ Len(Hash(t, i * block_size)) = i * block_size
              /\ i * block_size \in Nat
  <2>1. i \in Nat /\ i <= to
    BY <1>5
  <2> HIDE DEF to
  <2>2. i * block_size <= to * block_size
    BY <1>5, <2>1, Monotone
  <2>3. i * block_size \in Nat /\ to * block_size \in Nat /\ Len(t) \in Nat
    BY <1>5, <2>1, Multiple, BlockPoolAssumption
  <2>4. i * block_size <= Len(t)
    BY <1>4, <2>2, <2>3
  <2> QED BY <2>3, <2>4, HashFacts
<1>12. ASSUME NEW b \in Blocks, b \in ToSet(blocks)
       PROVE  \E i \in from+1..to : at[i] = b /\ c[b] = Hash(t, i * block_size)
  <2>1. idx(b) \in DOMAIN blocks /\ blocks[idx(b)] = b
    BY <1>12 DEF ToSet
  <2> DEFINE x == idx(b)
             i == from + x
  <2>2. x \in 1..m /\ blocks[x] = b
    BY <1>3, <2>1
  <2>3. c[b] = Hash(t, i * block_size)
    BY <1>12
  <2> HIDE DEF x, c
  <2>4. i \in from+1..to /\ i - from = x
    BY <1>5, <2>2
  <2>5. at[i] = b
    <3>1. at[i] = blocks[i - from]
      BY <1>6, <2>4
    <3> HIDE DEF at, i
    <3> QED BY <2>2, <2>4, <3>1
  <2> HIDE DEF i, at
  <2> QED BY <2>3, <2>4, <2>5
<1>13. \A b \in Blocks : b \notin ToSet(blocks) => c[b] = content[b]
  OBVIOUS
<1>14. \A i \in from+1..to : at[i] \in ToSet(blocks)
  <2> SUFFICES ASSUME NEW i \in from+1..to PROVE at[i] \in ToSet(blocks)
    OBVIOUS
  <2>1. i - from \in 1..m /\ at[i] = blocks[i - from]
    BY <1>6
  <2> HIDE DEF at
  <2> QED BY <1>3, <2>1 DEF ToSet
<1> HIDE DEF at, c, q, to, new
<1>15. ASSUME NEW k \in Keys, NEW b \in Blocks, contain(q, k, b)
       PROVE  Serves(c, k, b)
  <2>1. \/ contain(pool, k, b) /\ \A i \in new : at[i] # b
        \/ \E i \in new : at[i] = b /\ k = FullKey(t, i, g)
    BY <1>10, <1>15 DEF AreEntered
  <2>2. CASE b \notin ToSet(blocks)
    <3>1. contain(pool, k, b)
      BY <1>8, <1>14, <2>1, <2>2
    <3> QED BY <1>1, <1>13, <2>2, <3>1 DEF Served, Serves
  <2>3. CASE b \in ToSet(blocks)
    <3>1. PICK i \in from+1..to : at[i] = b /\ c[b] = Hash(t, i * block_size)
      BY <1>12, <2>3
    <3> DEFINE h == Hash(t, i * block_size)
               old == content[b]
    <3>2. h \in Seq(Nat) /\ Len(h) = i * block_size /\ old \in Seq(Nat) /\ i \in Nat
      BY <1>1, <1>6, <1>11
    <3>3. CASE contain(pool, k, b)
      <4>1. IsPrefix(k.hash, old) /\ Slot(Len(old)) = Slot(NumTokens(k))
        BY <1>1, <3>3 DEF Served, Serves
      <4>2. old = <<>> \/ (Slot(Len(old)) = Slot(Len(h)) /\ (IsPrefix(old, h) \/ IsPrefix(h, old)))
        BY <1>4, <3>1 DEF FitsBlock
      <4> HIDE DEF h, old
      <4>3. old # <<>> => Slot(Len(old)) = Slot(Len(h)) /\ IsPrefix(old, h)
        BY <3>2, <4>2, FilledUp
      <4>4. IsPrefix(k.hash, h) /\ Slot(Len(h)) = Slot(NumTokens(k))
        BY <3>2, <4>1, <4>3, StillServes
      <4> QED BY <3>1, <4>4 DEF Serves, h
    <3>4. CASE \E j \in new : at[j] = b /\ k = FullKey(t, j, g)
      <4>1. k = FullKey(t, i, g)
        BY <1>7, <1>8, <3>1, <3>4
      <4>2. k.hash = h
        BY <4>1 DEF FullKey, Key
      <4> HIDE DEF h
      <4>3. IsPrefix(h, h)
        BY <3>2, PrefixSelf
      <4> QED BY <3>1, <4>2, <4>3 DEF Serves, NumTokens, h
    <3> QED BY <2>1, <3>3, <3>4
  <2> QED BY <2>2, <2>3
<1>16. c \in [Blocks -> Seq(Nat)]
  <2>1. \A b \in Blocks : c[b] \in Seq(Nat)
    BY <1>1, <1>11, <1>12, <1>13
  <2> QED BY <2>1 DEF c
<1>17. SameFree(pool, q)
  BY <1>10 DEF AreEntered
<1>18. Served(q, c)
  BY <1>15 DEF Served
<1> QED BY <1>4, <1>10, <1>16, <1>17, <1>18, CacheStep

LEMMA StepEmitReused ==
    ASSUME Inv, NEW t \in Tokens, NEW n \in Nat, NEW g \in Groups, EmitReused(t, n, g)
    PROVE  Inv'
<1> DEFINE q == emit_cached_block_events(pool, t, n, g)
<1>1. pool \in PoolState /\ Agree(pool) /\ Served(pool, content) /\ content \in [Blocks -> Seq(Nat)]
  BY DEF Inv, PoolInv
<1>2. /\ n * block_size <= Len(t) /\ (g \notin Sparse => \A i \in 1..n : get_one_block(pool, FullKey(t, i, g)) # None)
      /\ pool' = q /\ content' = content /\ view' = view
  BY DEF EmitReused
<1>3. /\ q \in PoolState /\ SameFree(pool, q) /\ Agree(q)
      /\ \A b \in Blocks, k \in Keys : contain(q, k, b) <=> contain(pool, k, b)
      /\ \A v : Truthful(pool, v) => Truthful(q, v)
  BY <1>1, <1>2, EmitCachedEffect
<1> HIDE DEF q
<1>4. Served(q, content)
  BY <1>1, <1>3, SameServed
<1> QED BY <1>1, <1>2, <1>3, <1>4, CacheStep

LEMMA StepCachePartial ==
    ASSUME Inv, NEW t \in Tokens, NEW b \in Blocks, NEW n \in Nat, NEW g \in Groups, CachePartialBlock(t, b, n, g)
    PROVE  Inv'
<1> DEFINE h == Hash(t, n)
           k0 == Key(h, g)
           q == cache_partial_block(pool, t, b, n, g)
           old == content[b]
           c == [content EXCEPT ![b] = Written(b, h)]
<1>1. pool \in PoolState /\ Agree(pool) /\ Served(pool, content) /\ content \in [Blocks -> Seq(Nat)]
  BY DEF Inv, PoolInv
<1>2. n \in Nat \ {0} /\ n <= Len(t) /\ n % hash_block_size = 0 /\ FitsBlock(b, h)
  BY DEF CachePartialBlock, MayCachePartial
<1>3. pool' = q /\ content' = c /\ view' = view
  BY DEF CachePartialBlock
<1>4. /\ q \in PoolState /\ SameFree(pool, q) /\ Agree(q) /\ k0 \in Keys
      /\ \A b2 \in Blocks, k \in Keys : contain(q, k, b2) => contain(pool, k, b2) \/ (b2 = b /\ k = k0)
      /\ \A v : Truthful(pool, v) => Truthful(q, v)
  BY <1>1, <1>2, CachePartialEffect
<1>5. h \in Seq(Nat) /\ Len(h) = n /\ old \in Seq(Nat) /\ Len(old) \in Nat
  BY <1>1, <1>2, HashFacts
<1>6. c[b] = (IF Len(old) < Len(h) THEN h ELSE old) /\ \A b2 \in Blocks : b2 # b => c[b2] = content[b2]
  BY <1>1 DEF Written
<1>7. old = <<>> \/ (Slot(Len(old)) = Slot(Len(h)) /\ (IsPrefix(old, h) \/ IsPrefix(h, old)))
  BY <1>2 DEF FitsBlock
<1>8. k0.hash = h /\ Len(h) # 0
  BY <1>2, <1>5 DEF Key
<1>9. c \in [Blocks -> Seq(Nat)]
  <2>1. Written(b, h) \in Seq(Nat)
    BY <1>5 DEF Written
  <2> HIDE DEF h
  <2> QED BY <1>1, <2>1
<1> HIDE DEF q, c, h, old, k0
<1>10. IsPrefix(h, h) /\ (IsPrefix(h, old) => Len(h) <= Len(old)) /\ (IsPrefix(old, h) => Len(old) <= Len(h))
  BY <1>5, PrefixSelf, PrefixMeaning
<1>11. IsPrefix(h, c[b]) /\ Slot(Len(c[b])) = Slot(Len(h))
  <2>1. CASE Len(old) < Len(h)
    BY <1>6, <1>10, <2>1
  <2>2. CASE ~(Len(old) < Len(h))
    <3>1. c[b] = old
      BY <1>6, <2>2
    <3>2. old # <<>>
      BY <1>5, <1>8, <2>2
    <3>3. IsPrefix(h, old)
      <4>1. CASE IsPrefix(old, h)
        <5>1. Len(old) = Len(h) /\ \A i \in 1..Len(old) : old[i] = h[i]
          BY <1>5, <1>10, <2>2, <4>1, PrefixMeaning
        <5> QED BY <1>5, <5>1, PrefixMeaning
      <4> QED BY <1>7, <3>2, <4>1
    <3> QED BY <1>7, <3>1, <3>2, <3>3
  <2> QED BY <2>1, <2>2
<1>12. ASSUME NEW k \in Keys, IsPrefix(k.hash, old), Slot(Len(old)) = Slot(NumTokens(k))
       PROVE  Serves(c, k, b)
  <2>1. CASE Len(old) < Len(h)
    <3>1. old # <<>> => Slot(Len(old)) = Slot(Len(h)) /\ IsPrefix(old, h)
      BY <1>5, <1>7, <1>10, <2>1
    <3>2. IsPrefix(k.hash, h) /\ Slot(Len(h)) = Slot(NumTokens(k))
      BY <1>5, <1>12, <3>1, StillServes
    <3> QED BY <1>6, <2>1, <3>2 DEF Serves
  <2>2. CASE ~(Len(old) < Len(h))
    BY <1>6, <1>12, <2>2 DEF Serves
  <2> QED BY <2>1, <2>2
<1>13. ASSUME NEW k \in Keys, NEW b2 \in Blocks, contain(q, k, b2)
       PROVE  Serves(c, k, b2)
  <2>1. contain(pool, k, b2) \/ (b2 = b /\ k = k0)
    BY <1>4, <1>13
  <2>2. CASE b2 = b /\ k = k0
    BY <1>8, <1>11, <2>2 DEF Serves, NumTokens
  <2>3. CASE contain(pool, k, b2) /\ b2 = b
    <3>1. IsPrefix(k.hash, old) /\ Slot(Len(old)) = Slot(NumTokens(k))
      BY <1>1, <2>3 DEF Served, Serves, old
    <3> QED BY <1>12, <2>3, <3>1
  <2>4. CASE contain(pool, k, b2) /\ b2 # b
    BY <1>1, <1>6, <2>4 DEF Served, Serves
  <2> QED BY <2>1, <2>2, <2>3, <2>4
<1>14. Served(q, c)
  BY <1>13 DEF Served
<1> QED BY <1>3, <1>4, <1>9, <1>14, CacheStep

LEMMA StepMove ==
    ASSUME Inv, NEW src \in Blocks, NEW dst \in Blocks, MoveBlockHashes(src, dst)
    PROVE  Inv'
<1> DEFINE q == move_block_hashes(pool, src, dst)
           c == [content EXCEPT ![dst] = content[src], ![src] = <<>>]
<1>1. pool \in PoolState /\ Agree(pool) /\ Served(pool, content) /\ content \in [Blocks -> Seq(Nat)]
  BY DEF Inv, PoolInv
<1>2. src # dst /\ MayMove(pool, src, dst) /\ pool' = q /\ content' = c /\ view' = view
  BY DEF MoveBlockHashes
<1>3. /\ q \in PoolState /\ SameFree(pool, q) /\ Agree(q)
      /\ \A b \in Blocks, k \in Keys : contain(q, k, b) <=>
              (contain(pool, k, b) /\ b # src) \/ (b = dst /\ contain(pool, k, src))
      /\ \A v : Truthful(pool, v) => Truthful(q, v)
  BY <1>1, <1>2, MoveEffect
<1>4. c[dst] = content[src] /\ \A b \in Blocks : b # src /\ b # dst => c[b] = content[b]
  BY <1>1, <1>2
<1>5. c \in [Blocks -> Seq(Nat)]
  <2>1. content[src] \in Seq(Nat) /\ <<>> \in Seq(Nat)
    BY <1>1
  <2> QED BY <1>1, <2>1
<1>6. \A k \in Keys : ~contain(pool, k, dst)
  BY <1>1, <1>2 DEF Agree, MayMove, OwnKeys
<1> HIDE DEF q, c
<1>7. ASSUME NEW k \in Keys, NEW b \in Blocks, contain(q, k, b)
      PROVE  Serves(c, k, b)
  <2>1. CASE b = dst
    <3>1. contain(pool, k, src)
      BY <1>3, <1>6, <1>7, <2>1
    <3> QED BY <1>1, <1>4, <2>1, <3>1 DEF Served, Serves
  <2>2. CASE b # dst
    <3>1. contain(pool, k, b) /\ b # src
      BY <1>3, <1>7, <2>2
    <3> QED BY <1>1, <1>4, <2>2, <3>1 DEF Served, Serves
  <2> QED BY <2>1, <2>2
<1>8. Served(q, c)
  BY <1>7 DEF Served
<1> QED BY <1>2, <1>3, <1>5, <1>8, CacheStep

LEMMA StepFree ==
    ASSUME Inv, NEW blocks \in Lists(Held), FreeBlocks(blocks)
    PROVE  Inv'
<1> DEFINE q == free_blocks(pool, blocks)
<1>1. pool \in PoolState /\ Agree(pool) /\ IsFreeListExact(pool) /\ RefsBounded(pool) /\ Truthful(pool, view)
      /\ Served(pool, content)
  BY DEF Inv, PoolInv
<1>2. pool' = q /\ content' = content /\ view' = view
  BY DEF FreeBlocks
<1>3. PICK m \in 1..MaxList : blocks \in [1..m -> Held] /\ IsInjective(blocks)
  BY DEF Lists
<1>4. MayFree(pool, blocks)
  <2>1. m \in Nat /\ DOMAIN blocks = 1..m
    BY <1>3, PoolCallsAssumption
  <2>2. blocks \in Seq(Blocks)
    <3>1. blocks \in [1..m -> Blocks]
      BY <1>3 DEF Held
    <3> QED BY <2>1, <3>1
  <2>3. \A i \in DOMAIN blocks : pool.ref[blocks[i]] > 0
    BY <1>3, <2>1 DEF Held
  <2> QED BY <1>3, <2>2, <2>3 DEF MayFree, IsInjective
<1>5. /\ q \in PoolState /\ SameCache(pool, q) /\ q.events = pool.events /\ IsFreeListExact(q)
      /\ \A b \in Blocks : q.ref[b] = IF b # null_block /\ b \in ToSet(blocks) THEN pool.ref[b] - 1 ELSE pool.ref[b]
  BY <1>1, <1>4, FreeEffect
<1> HIDE DEF q
<1>6. Agree(q) /\ \A k \in Keys, b \in Blocks : contain(q, k, b) <=> contain(pool, k, b)
  BY <1>1, <1>5, AgreeEmitted
<1>7. Truthful(q, view)
  <2>1. \A k \in Keys : HasBlock(pool, k) => HasBlock(q, k)
    BY <1>6 DEF HasBlock
  <2> QED BY <1>1, <1>5, <2>1, TruthfulKept
<1>8. RefsBounded(q)
  <2>1. pool.ref \in [Blocks -> Nat]
    BY <1>1, PoolFields
  <2>2. \A b \in Blocks : pool.ref[b] \in Nat /\ pool.ref[b] <= MaxRef
    BY <1>1, <2>1 DEF RefsBounded
  <2> QED BY <1>5, <2>2, PoolCallsAssumption DEF RefsBounded
<1>9. Served(q, content)
  BY <1>1, <1>5, <1>6, SameServed
<1> QED BY <1>2, <1>5, <1>6, <1>7, <1>8, <1>9 DEF Inv, PoolInv

LEMMA StepEvict ==
    ASSUME Inv, NEW bs \in SUBSET Blocks, EvictBlocks(bs)
    PROVE  Inv'
<1> DEFINE blocks == SetToSeq(bs)
           q == Evicted(pool, blocks)
<1>1. pool \in PoolState /\ Agree(pool) /\ Served(pool, content) /\ content \in [Blocks -> Seq(Nat)]
  BY DEF Inv, PoolInv
<1>2. pool' = q /\ content' = content /\ view' = view
  BY DEF EvictBlocks, evict_blocks
<1>3. blocks \in Seq(Blocks)
  BY FiniteBlocks, SetToSeqFacts
<1>4. q \in PoolState /\ Agree(q) /\ Emptied(pool, blocks, q) /\ \A v : Truthful(pool, v) => Truthful(q, v)
  <2> HIDE DEF blocks
  <2> QED BY <1>1, <1>3, EvictedEffect
<1> HIDE DEF q, blocks
<1>5. SameFree(pool, q) /\ \A b \in Blocks, k \in Keys : contain(q, k, b) => contain(pool, k, b)
  BY <1>4 DEF Emptied
<1>6. Served(q, content)
  BY <1>1, <1>4, <1>5, SameServed
<1> QED BY <1>1, <1>2, <1>4, <1>5, <1>6, CacheStep

LEMMA StepReset ==
    ASSUME Inv, ResetPrefixCache
    PROVE  Inv'
<1> DEFINE q == reset_prefix_cache(pool)
<1>1. pool \in PoolState /\ Agree(pool) /\ Served(pool, content) /\ content \in [Blocks -> Seq(Nat)]
  BY DEF Inv, PoolInv
<1>2. pool' = q /\ content' = content /\ view' = view
  BY DEF ResetPrefixCache
<1>3. /\ q \in PoolState /\ SameFree(pool, q) /\ Agree(q)
      /\ \A b \in Blocks, k \in Keys : contain(q, k, b) => contain(pool, k, b)
      /\ \A v : Truthful(pool, v) => Truthful(q, v)
  BY <1>1, ResetEffect
<1> HIDE DEF q
<1>4. Served(q, content)
  BY <1>1, <1>3, SameServed
<1> QED BY <1>1, <1>2, <1>3, <1>4, CacheStep

LEMMA StepTake ==
    ASSUME Inv, TakeEvents
    PROVE  Inv'
<1> DEFINE q == take_events(pool)
<1>1. pool \in PoolState /\ Agree(pool) /\ IsFreeListExact(pool) /\ RefsBounded(pool) /\ Truthful(pool, view)
      /\ Served(pool, content) /\ content \in [Blocks -> Seq(Nat)]
  BY DEF Inv, PoolInv
<1>2. pool' = q /\ content' = content /\ view' = Replay(view, pool.events)
  BY DEF TakeEvents
<1>3. /\ q \in PoolState /\ SameFree(pool, q) /\ Agree(q)
      /\ \A b \in Blocks, k \in Keys : contain(q, k, b) <=> contain(pool, k, b)
      /\ \A v : Truthful(pool, v) => Truthful(q, Replay(v, pool.events))
  BY <1>1, TakeEffect
<1> HIDE DEF q
<1>4. Served(q, content)
  BY <1>1, <1>3, SameServed
<1>5. IsFreeListExact(q) /\ RefsBounded(q)
  BY <1>1, <1>3, SameFreeExact
<1>6. Replay(view, pool.events) \subseteq Keys
  BY DEF Replay
<1> QED BY <1>1, <1>2, <1>3, <1>4, <1>5, <1>6 DEF Inv, PoolInv

LEMMA InvNext == Inv /\ [Next]_vars => Inv'
<1> SUFFICES ASSUME Inv, [Next]_vars PROVE Inv'
  OBVIOUS
<1>1. CASE UNCHANGED vars
  BY <1>1 DEF vars, Inv
<1>2. ASSUME NEW n \in 1..MaxList, GetNewBlocks(n) PROVE Inv'
  BY <1>2, StepGet
<1>3. ASSUME NEW t \in Tokens, NEW n \in 1..4, n <= Len(t) /\ n % hash_block_size = 0 /\ HitAndTouch(t, n) PROVE Inv'
  <2>1. n \in Nat \ {0}
    OBVIOUS
  <2> QED BY <1>3, <2>1, StepTouch
<1>4. ASSUME NEW t \in Tokens, NEW blocks \in Lists(Held), NEW from \in 0..1, NEW g \in Groups,
             NEW mask, CacheFullBlocks(t, blocks, from, g, mask)
      PROVE  Inv'
  BY <1>4, StepCacheFull
<1>5. ASSUME NEW t \in Tokens, NEW n \in 1..2, NEW g \in Groups, EmitReused(t, n, g) PROVE Inv'
  <2>1. n \in Nat
    OBVIOUS
  <2> QED BY <1>5, <2>1, StepEmitReused
<1>6. ASSUME NEW t \in Tokens, NEW b \in Held, NEW n \in 1..4, NEW g \in Groups, CachePartialBlock(t, b, n, g) PROVE Inv'
  <2>1. n \in Nat /\ b \in Blocks
    BY DEF Held
  <2> QED BY <1>6, <2>1, StepCachePartial
<1>7. ASSUME NEW src \in Held, NEW dst \in Held, MoveBlockHashes(src, dst) PROVE Inv'
  <2>1. src \in Blocks /\ dst \in Blocks
    BY DEF Held
  <2> QED BY <1>7, <2>1, StepMove
<1>8. ASSUME NEW blocks \in Lists(Held), FreeBlocks(blocks) PROVE Inv'
  BY <1>8, StepFree
<1>9. ASSUME NEW bs \in SUBSET Blocks, EvictBlocks(bs) PROVE Inv'
  BY <1>9, StepEvict
<1>10. CASE ResetPrefixCache
  BY <1>10, StepReset
<1>11. CASE TakeEvents
  BY <1>11, StepTake
<1> HIDE DEF Inv
<1> QED BY <1>1, <1>2, <1>3, <1>4, <1>5, <1>6, <1>7, <1>8, <1>9, <1>10, <1>11, Zenon DEF Next

LEMMA InvAlways == Spec => []Inv
BY InvInit, InvNext, PTL DEF Spec

----------------------------------------------------------------------------
(* The state of the pool keeps its types over any calls.                    *)
THEOREM TypeCorrect == Spec => []TypeOK
<1>1. Inv => TypeOK
  <2> SUFFICES ASSUME Inv PROVE TypeOK
    OBVIOUS
  <2>1. pool \in PoolState /\ RefsBounded(pool) /\ view \subseteq Keys
    BY DEF Inv, PoolInv
  <2>2. /\ pool.free \in Seq(Blocks) /\ pool.ref \in [Blocks -> Nat] /\ pool.hash \in [Blocks -> Keys \cup {None}]
        /\ pool.extra \in [Blocks -> SUBSET Keys] /\ DOMAIN pool.map = Keys
    <3>1. pool.map \in [Keys -> Seq(Blocks)]
      BY <2>1, PoolFields
    <3> QED BY <2>1, <3>1, PoolFields
  <2>3. pool.ref \in [Blocks -> 0..MaxRef]
    <3>1. \A b \in Blocks : pool.ref[b] \in 0..MaxRef
      BY <2>1, <2>2, PoolCallsAssumption DEF RefsBounded
    <3> QED BY <2>2, <3>1
  <2> QED BY <2>1, <2>2, <2>3 DEF TypeOK
<1> QED BY <1>1, InvAlways, PTL

(* No block is leaked or handed out while it is referenced: the free list   *)
(* holds every block without a reference once and nothing else, whatever    *)
(* the callers of get_new_blocks, touch, free_blocks do (FreeListExact).    *)
THEOREM FreeListIsExact == Spec => []FreeListExact
<1>1. Inv => FreeListExact
  BY DEF Inv, PoolInv, FreeListExact
<1> QED BY <1>1, InvAlways, PTL

(* The hashes blocks carry and the map that lookups read agree in both      *)
(* directions, so an eviction misses no entry (HashesAgree).                *)
THEOREM HashesAgreeAlways == Spec => []HashesAgree
<1>1. Inv => HashesAgree
  BY DEF Inv, PoolInv, HashesAgree, Agree
<1> QED BY <1>1, InvAlways, PTL

(* A lookup serves the prefix it was asked for, through eviction, promotion *)
(* of a partial entry and the move to a private copy.                       *)
THEOREM HitsServe == Spec => []HitsServeTheirPrefix
<1>1. Inv => HitsServeTheirPrefix
  BY ServedMeaning DEF Inv, PoolInv, HitsServeTheirPrefix
<1> QED BY <1>1, InvAlways, PTL

(* Whoever replays the events believes nothing cached that is not, in the   *)
(* groups whose hits have no null blocks.                                   *)
THEOREM EventsAreTrue == Spec => []EventsNeverOverstate
<1>1. Inv => EventsNeverOverstate
  <2> SUFFICES ASSUME Inv, NEW k \in Replay(view, pool.events), k.group \notin Sparse PROVE get_one_block(pool, k) # None
    BY DEF EventsNeverOverstate
  <2>1. HasBlock(pool, k) /\ k \in Keys /\ pool \in PoolState
    BY DEF Inv, PoolInv, Truthful, Replay
  <2> QED BY <2>1, OneBlock
<1> QED BY <1>1, InvAlways, PTL
=============================================================================
