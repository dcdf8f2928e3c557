------------------------ MODULE KVCacheManager_proof ------------------------
(***************************************************************************)
(* What the manager keeps over any calls, whatever the requests, the sizes *)
(* and the bounds: references count the holders of a block, the windows of *)
(* steps in flight are backed, an admission leaves the watermark free, and *)
(* a request that is alone is admitted.                                    *)
(***************************************************************************)
EXTENDS KVCacheManager, BlockPool_proof

----------------------------------------------------------------------------
(* The holders of a block: the requests whose list, in a table or in the    *)
(* deferred lists, has the block in it.                                     *)
HoldersOf(lists, b) == {s \in Requests : b \in ToSet(lists[s])}
Lists == [Requests -> Seq(Blocks)]
Tables(rq) == [s \in Requests |-> rq[s].blocks]

(* the list of r is s now *)
Relist(lists, r, s) == [lists EXCEPT ![r] = s]

(* every block but the null block is once in the list *)
Unique(s) == \A i, j \in DOMAIN s : s[i] = s[j] /\ s[i] # null_block => i = j

Counted(p, tab, deferred) ==
    \A b \in Blocks : b # null_block =>
        p.ref[b] = Cardinality(HoldersOf(tab, b)) + Cardinality(HoldersOf(deferred, b))

(* with one group a block has one key, and the null block none *)
Plain(p) == /\ \A b \in Blocks : p.extra[b] = {}
            /\ \A k \in Keys : ~contain(p, k, null_block)

(* The part of the inductive invariant about blocks.                        *)
Backed(p, tab, deferred) ==
    /\ p \in PoolState /\ tab \in Lists /\ deferred \in Lists
    /\ IsFreeListExact(p) /\ Agree(p) /\ Plain(p)
    /\ \A s \in Requests : Unique(tab[s]) /\ Unique(deferred[s])
    /\ Counted(p, tab, deferred)

LEMMA HoldersFinite ==
    ASSUME NEW lists, NEW b
    PROVE  IsFiniteSet(HoldersOf(lists, b)) /\ Cardinality(HoldersOf(lists, b)) \in Nat
<1>1. IsFiniteSet(Requests)
  BY KVCacheManagerAssumption
<1>2. HoldersOf(lists, b) \in SUBSET Requests
  BY DEF HoldersOf
<1>3. IsFiniteSet(HoldersOf(lists, b))
  BY <1>1, <1>2, FS_Subset
<1> QED BY <1>3, FS_CardinalityType

(* When the list of one request changes, so does the number of holders of   *)
(* what the list gains or loses.                                            *)
Holds(lists, s, b) == IF b \in ToSet(lists[s]) THEN 1 ELSE 0

LEMMA HoldersChange ==
    ASSUME NEW old \in Lists, NEW new \in Lists, NEW r \in Requests, NEW b,
           \A s \in Requests : s # r => new[s] = old[s]
    PROVE  Cardinality(HoldersOf(new, b)) = Cardinality(HoldersOf(old, b)) + Holds(new, r, b) - Holds(old, r, b)
<1> DEFINE H == HoldersOf(old, b)
           G == HoldersOf(new, b)
<1>1. IsFiniteSet(H) /\ Cardinality(H) \in Nat
  BY HoldersFinite
<1>2. \A s \in Requests : s \in H <=> b \in ToSet(old[s])
  BY DEF HoldersOf
<1>3. \A s \in Requests : s \in G <=> b \in ToSet(new[s])
  BY DEF HoldersOf
<1>4. \A s : s \in H \/ s \in G => s \in Requests
  BY DEF HoldersOf
<1>5. Holds(new, r, b) = (IF r \in G THEN 1 ELSE 0) /\ Holds(old, r, b) = (IF r \in H THEN 1 ELSE 0)
  BY <1>2, <1>3 DEF Holds
<1>6. \A s : s # r => (s \in G <=> s \in H)
  BY <1>2, <1>3, <1>4
<1>7. /\ Cardinality(H \cup {r}) = IF r \in H THEN Cardinality(H) ELSE Cardinality(H) + 1
      /\ Cardinality(H \ {r}) = IF r \in H THEN Cardinality(H) - 1 ELSE Cardinality(H)
  <2> HIDE DEF H
  <2> QED BY <1>1, FS_AddElement, FS_RemoveElement
<1> HIDE DEF H, G
<1>8. CASE r \in G
  <2>1. G = H \cup {r}
    BY <1>6, <1>8
  <2> QED BY <1>1, <1>5, <1>7, <1>8, <2>1 DEF H, G
<1>9. CASE r \notin G
  <2>1. G = H \ {r}
    BY <1>6, <1>9
  <2> QED BY <1>1, <1>5, <1>7, <1>9, <2>1 DEF H, G
<1> QED BY <1>8, <1>9

(* A held block is referenced.                                              *)
LEMMA HeldIsReferenced ==
    ASSUME NEW p, NEW tab, NEW deferred, Backed(p, tab, deferred), NEW r \in Requests, NEW b \in Blocks,
           b # null_block, b \in ToSet(tab[r])
    PROVE  p.ref[b] > 0
<1>1. r \in HoldersOf(tab, b)
  BY DEF HoldersOf
<1>2. IsFiniteSet(HoldersOf(tab, b)) /\ Cardinality(HoldersOf(tab, b)) # 0 /\ Cardinality(HoldersOf(tab, b)) \in Nat
  BY <1>1, HoldersFinite, FS_EmptySet
<1>3. Cardinality(HoldersOf(deferred, b)) \in Nat
  BY HoldersFinite
<1>4. p.ref[b] = Cardinality(HoldersOf(tab, b)) + Cardinality(HoldersOf(deferred, b))
  BY DEF Backed, Counted
<1> QED BY <1>2, <1>3, <1>4

(* What a step that changes the list of r and the pool has to show.         *)
Follows(p, q, old, new) ==
    \A b \in Blocks : b # null_block =>
        q.ref[b] = p.ref[b] + (IF b \in ToSet(new) THEN 1 ELSE 0) - (IF b \in ToSet(old) THEN 1 ELSE 0)

LEMMA BackedStep ==
    ASSUME NEW p, NEW tab, NEW deferred, Backed(p, tab, deferred), NEW r \in Requests, NEW new \in Seq(Blocks),
           NEW q \in PoolState, IsFreeListExact(q), Agree(q), Plain(q), Unique(new), Follows(p, q, tab[r], new)
    PROVE  Backed(q, Relist(tab, r, new), deferred)
<1> DEFINE tab2 == Relist(tab, r, new)
<1>1. tab \in Lists /\ tab2 \in Lists /\ tab2[r] = new /\ \A s \in Requests : s # r => tab2[s] = tab[s]
  BY DEF Backed, Lists, Relist
<1>2. \A s \in Requests : Unique(tab2[s]) /\ Unique(deferred[s])
  BY <1>1 DEF Backed
<1> HIDE DEF tab2
<1>3. ASSUME NEW b \in Blocks, b # null_block
      PROVE  q.ref[b] = Cardinality(HoldersOf(tab2, b)) + Cardinality(HoldersOf(deferred, b))
  <2>1. Cardinality(HoldersOf(tab2, b)) = Cardinality(HoldersOf(tab, b)) + Holds(tab2, r, b) - Holds(tab, r, b)
    BY <1>1, HoldersChange
  <2>2. p.ref[b] = Cardinality(HoldersOf(tab, b)) + Cardinality(HoldersOf(deferred, b))
    BY <1>3 DEF Backed, Counted
  <2>3. q.ref[b] = p.ref[b] + Holds(tab2, r, b) - Holds(tab, r, b)
    BY <1>1, <1>3 DEF Follows, Holds
  <2>4. /\ Cardinality(HoldersOf(tab, b)) \in Nat /\ Cardinality(HoldersOf(deferred, b)) \in Nat
        /\ Holds(tab2, r, b) \in Nat /\ Holds(tab, r, b) \in Nat
    BY HoldersFinite DEF Holds
  <2> QED BY <2>1, <2>2, <2>3, <2>4
<1>4. Counted(q, tab2, deferred)
  BY <1>3 DEF Counted
<1>5. deferred \in Lists
  BY DEF Backed
<1>6. Backed(q, tab2, deferred)
  BY <1>1, <1>2, <1>4, <1>5 DEF Backed
<1> QED BY <1>6 DEF tab2

LEMMA BackedSymmetric ==
    ASSUME NEW p, NEW tab, NEW deferred, Backed(p, tab, deferred)
    PROVE  Backed(p, deferred, tab)
<1>1. ASSUME NEW b \in Blocks, b # null_block
      PROVE  p.ref[b] = Cardinality(HoldersOf(deferred, b)) + Cardinality(HoldersOf(tab, b))
  <2>1. p.ref[b] = Cardinality(HoldersOf(tab, b)) + Cardinality(HoldersOf(deferred, b))
    BY <1>1 DEF Backed, Counted
  <2>2. Cardinality(HoldersOf(tab, b)) \in Nat /\ Cardinality(HoldersOf(deferred, b)) \in Nat
    BY HoldersFinite
  <2> QED BY <2>1, <2>2
<1>2. Counted(p, deferred, tab)
  BY <1>1 DEF Counted
<1> QED BY <1>2 DEF Backed

(* A step of the cache alone                                                *)
LEMMA BackedCache ==
    ASSUME NEW p, NEW tab, NEW deferred, Backed(p, tab, deferred),
           NEW q \in PoolState, SameFree(p, q), Agree(q), Plain(q)
    PROVE  Backed(q, tab, deferred)
<1>1. IsFreeListExact(q)
  BY DEF Backed, SameFree, IsFreeListExact
<1>2. Counted(q, tab, deferred)
  BY DEF Backed, SameFree, Counted
<1> QED BY <1>1, <1>2 DEF Backed

LEMMA SameAgree ==
    ASSUME NEW p, NEW q, SameCache(p, q)
    PROVE  /\ Agree(p) => Agree(q)
           /\ Plain(p) => Plain(q)
           /\ \A k, b : contain(q, k, b) <=> contain(p, k, b)
BY DEF SameCache, Agree, Plain, contain, OwnKeys

----------------------------------------------------------------------------
(* Blocks are freed and trimmed                                             *)

LEMMA ReverseFacts ==
    ASSUME NEW T, NEW s \in Seq(T)
    PROVE  /\ Reverse(s) \in Seq(T) /\ Len(Reverse(s)) = Len(s) /\ ToSet(Reverse(s)) = ToSet(s)
           /\ Unique(s) => Unique(Reverse(s))
<1> DEFINE n == Len(s)
           z == Reverse(s)
<1>1. n \in Nat /\ DOMAIN s = 1..n /\ \A i \in 1..n : s[i] \in T
  OBVIOUS
<1>2. z = [i \in 1..n |-> s[(n - i) + 1]]
  BY DEF Reverse
<1>3. \A i \in 1..n : (n - i) + 1 \in 1..n /\ (n - ((n - i) + 1)) + 1 = i
  BY <1>1
<1>4. z \in [1..n -> T]
  <2> HIDE DEF n, z
  <2> QED BY <1>1, <1>2, <1>3
<1>5. z \in Seq(T) /\ Len(z) = n /\ DOMAIN z = 1..n
  <2> HIDE DEF n, z
  <2> QED BY <1>1, <1>4
<1> HIDE DEF n, z
<1>6. \A i \in 1..n : z[i] = s[(n - i) + 1] /\ s[i] = z[(n - i) + 1]
  BY <1>2, <1>3
<1>7. ASSUME NEW x PROVE x \in ToSet(z) <=> x \in ToSet(s)
  <2>1. x \in ToSet(z) <=> \E i \in 1..n : z[i] = x
    BY <1>5 DEF ToSet
  <2>2. x \in ToSet(s) <=> \E i \in 1..n : s[i] = x
    BY <1>1 DEF ToSet
  <2> QED BY <1>3, <1>6, <2>1, <2>2
<1>8. ToSet(z) = ToSet(s)
  BY <1>7
<1>9. ASSUME Unique(s), NEW i \in 1..n, NEW j \in 1..n, z[i] = z[j], z[i] # null_block
      PROVE  i = j
  <2>1. (n - i) + 1 = (n - j) + 1
    BY <1>1, <1>3, <1>6, <1>9 DEF Unique
  <2> QED BY <1>1, <2>1
<1>10. Unique(s) => Unique(z)
  BY <1>5, <1>9 DEF Unique
<1> QED BY <1>5, <1>8, <1>10 DEF n, z

(* What r holds may be freed, all of it or a part.                          *)
LEMMA HeldMayBeFreed ==
    ASSUME NEW p, NEW tab, NEW deferred, Backed(p, tab, deferred), NEW r \in Requests,
           NEW blocks \in Seq(Blocks), Unique(blocks), \A b \in Blocks : b \in ToSet(blocks) => b \in ToSet(tab[r])
    PROVE  MayFree(p, blocks)
<1>1. ASSUME NEW i \in DOMAIN blocks, blocks[i] # null_block
      PROVE  p.ref[blocks[i]] > 0
  <2>1. blocks[i] \in Blocks /\ blocks[i] \in ToSet(blocks)
    BY DEF ToSet
  <2> QED BY <1>1, <2>1, HeldIsReferenced
<1> QED BY <1>1 DEF MayFree, Unique

LEMMA FreeStage ==
    ASSUME NEW p, NEW tab, NEW deferred, Backed(p, tab, deferred), NEW r \in Requests
    PROVE  LET q == Free(p, tab[r])
           IN  Backed(q, Relist(tab, r, <<>>), deferred) /\ SameCache(p, q)
<1> DEFINE blocks == Reverse(tab[r])
           q == free_blocks(p, blocks)
           none == <<>>
<1>1. tab[r] \in Seq(Blocks) /\ Unique(tab[r]) /\ p \in PoolState /\ IsFreeListExact(p) /\ Agree(p) /\ Plain(p)
  BY DEF Backed, Lists
<1>2. blocks \in Seq(Blocks) /\ Unique(blocks) /\ \A b \in Blocks : b \in ToSet(blocks) <=> b \in ToSet(tab[r])
  BY <1>1, ReverseFacts
<1> HIDE DEF blocks
<1>3. MayFree(p, blocks)
  BY <1>2, HeldMayBeFreed
<1>4. /\ q \in PoolState /\ SameCache(p, q) /\ IsFreeListExact(q)
      /\ \A b \in Blocks : q.ref[b] = IF b # null_block /\ b \in ToSet(blocks) THEN p.ref[b] - 1 ELSE p.ref[b]
  BY <1>1, <1>3, FreeEffect
<1> HIDE DEF q
<1>5. Agree(q) /\ Plain(q)
  BY <1>1, <1>4, SameAgree
<1>6. none \in Seq(Blocks) /\ Unique(none) /\ \A b : b \notin ToSet(none)
  BY DEF Unique, ToSet
<1> HIDE DEF none
<1>7. Follows(p, q, tab[r], none)
  <2>1. \A b \in Blocks : p.ref[b] \in Nat
    BY <1>1, PoolFields
  <2> QED BY <1>2, <1>4, <1>6, <2>1 DEF Follows
<1>8. Backed(q, Relist(tab, r, none), deferred)
  BY <1>4, <1>5, <1>6, <1>7, BackedStep
<1> QED BY <1>4, <1>8 DEF q, blocks, none, Free

(* The first n blocks of a table and the table with null in their place.    *)
InFront(s, n) == Filter(Reverse(SubSeq(s, 1, Least(n, Len(s)))), Blocks \ {null_block})
Nulled(s, n) == [i \in DOMAIN s |-> IF i <= n THEN null_block ELSE s[i]]

LEMMA FrontFacts ==
    ASSUME NEW s \in Seq(Blocks), NEW n \in Nat, Unique(s)
    PROVE  /\ InFront(s, n) \in Seq(Blocks) /\ Unique(InFront(s, n))
           /\ \A b \in Blocks : b \in ToSet(InFront(s, n)) <=> b # null_block /\ \E i \in DOMAIN s : i <= n /\ s[i] = b
<1> DEFINE m == Least(n, Len(s))
           a == SubSeq(s, 1, m)
           z == Reverse(a)
           S == Blocks \ {null_block}
<1>1. m \in Nat /\ m <= Len(s) /\ (\A i \in 1..Len(s) : i <= n <=> i <= m) /\ DOMAIN s = 1..Len(s) /\ Len(s) \in Nat
  BY DEF Least
<1> HIDE DEF m
<1>2. a \in Seq(Blocks) /\ Len(a) = m /\ \A i \in 1..m : a[i] = s[i]
  BY <1>1
<1> HIDE DEF a
<1>3. DOMAIN a = 1..m
  BY <1>1, <1>2
<1>4. Unique(a)
  BY <1>1, <1>2, <1>3 DEF Unique
<1>5. z \in Seq(Blocks) /\ ToSet(z) = ToSet(a) /\ Unique(z)
  BY <1>2, <1>4, ReverseFacts
<1> HIDE DEF z
<1>6. \A i, j \in DOMAIN z : z[i] = z[j] /\ z[i] \in S => i = j
  BY <1>5 DEF Unique
<1> HIDE DEF S
<1>7. /\ Filter(z, S) \in Seq(Blocks) /\ ToSet(Filter(z, S)) = ToSet(z) \cap S /\ IsInjective(Filter(z, S))
  BY <1>5, <1>6, FilterProperties
<1>8. Filter(z, S) = InFront(s, n)
  BY DEF z, a, m, S, InFront
<1>9. Unique(InFront(s, n))
  BY <1>7, <1>8 DEF Unique, IsInjective
<1>10. ASSUME NEW b \in Blocks
       PROVE  b \in ToSet(InFront(s, n)) <=> b # null_block /\ \E i \in DOMAIN s : i <= n /\ s[i] = b
  <2>1. b \in ToSet(InFront(s, n)) <=> b \in ToSet(a) /\ b # null_block
    BY <1>5, <1>7, <1>8 DEF S
  <2>2. b \in ToSet(a) <=> \E i \in 1..m : a[i] = b
    BY <1>3 DEF ToSet
  <2>3. (\E i \in 1..m : a[i] = b) <=> \E i \in DOMAIN s : i <= n /\ s[i] = b
    BY <1>1, <1>2
  <2> QED BY <2>1, <2>2, <2>3
<1> QED BY <1>7, <1>8, <1>9, <1>10

LEMMA NulledFacts ==
    ASSUME NEW s \in Seq(Blocks), NEW n \in Nat, Unique(s)
    PROVE  /\ Nulled(s, n) \in Seq(Blocks) /\ Unique(Nulled(s, n)) /\ Len(Nulled(s, n)) = Len(s)
           /\ \A b \in Blocks : b # null_block =>
                 (b \in ToSet(Nulled(s, n)) <=> \E i \in DOMAIN s : i > n /\ s[i] = b)
<1> DEFINE z == Nulled(s, n)
           N == Len(s)
<1>1. N \in Nat /\ DOMAIN s = 1..N /\ \A i \in 1..N : s[i] \in Blocks
  OBVIOUS
<1>2. null_block \in Blocks
  BY BlockPoolAssumption DEF null_block, Blocks
<1>3. z = [i \in 1..N |-> IF i <= n THEN null_block ELSE s[i]]
  BY <1>1 DEF Nulled
<1> HIDE DEF z, N
<1>4. z \in [1..N -> Blocks]
  BY <1>1, <1>2, <1>3
<1>5. z \in Seq(Blocks) /\ Len(z) = N /\ DOMAIN z = 1..N
  BY <1>1, <1>4
<1>6. \A i \in 1..N : z[i] = IF i <= n THEN null_block ELSE s[i]
  BY <1>3
<1>7. Unique(z)
  BY <1>1, <1>5, <1>6 DEF Unique
<1>8. ASSUME NEW b \in Blocks, b # null_block
      PROVE  b \in ToSet(z) <=> \E i \in DOMAIN s : i > n /\ s[i] = b
  <2>1. b \in ToSet(z) <=> \E i \in 1..N : z[i] = b
    BY <1>5 DEF ToSet
  <2>2. \A i \in 1..N : z[i] = b <=> i > n /\ s[i] = b
    BY <1>1, <1>6, <1>8
  <2> QED BY <1>1, <2>1, <2>2
<1> QED BY <1>5, <1>7, <1>8 DEF z, N

LEMMA TrimStage ==
    ASSUME NEW p, NEW tab, NEW deferred, Backed(p, tab, deferred), NEW r \in Requests, NEW n \in Nat
    PROVE  LET q == free_blocks(p, InFront(tab[r], n))
           IN  Backed(q, Relist(tab, r, Nulled(tab[r], n)), deferred) /\ SameCache(p, q)
<1> DEFINE s == tab[r]
           front == InFront(s, n)
           new == Nulled(s, n)
           q == free_blocks(p, front)
<1>1. s \in Seq(Blocks) /\ Unique(s) /\ p \in PoolState /\ IsFreeListExact(p) /\ Agree(p) /\ Plain(p)
  BY DEF Backed, Lists
<1>2. /\ front \in Seq(Blocks) /\ Unique(front)
      /\ \A b \in Blocks : b \in ToSet(front) <=> b # null_block /\ \E i \in DOMAIN s : i <= n /\ s[i] = b
  <2> HIDE DEF s
  <2> QED BY <1>1, FrontFacts
<1>3. /\ new \in Seq(Blocks) /\ Unique(new)
      /\ \A b \in Blocks : b # null_block => (b \in ToSet(new) <=> \E i \in DOMAIN s : i > n /\ s[i] = b)
  <2> HIDE DEF s
  <2> QED BY <1>1, NulledFacts
<1>4. \A b \in Blocks : b \in ToSet(s) <=> \E i \in DOMAIN s : s[i] = b
  BY DEF ToSet
<1>5. DOMAIN s \subseteq Nat
  BY <1>1
<1> HIDE DEF s, front, new
<1>6. MayFree(p, front)
  BY <1>2, <1>4, HeldMayBeFreed DEF s
<1>7. /\ q \in PoolState /\ SameCache(p, q) /\ IsFreeListExact(q)
      /\ \A b \in Blocks : q.ref[b] = IF b # null_block /\ b \in ToSet(front) THEN p.ref[b] - 1 ELSE p.ref[b]
  BY <1>1, <1>6, FreeEffect
<1> HIDE DEF q
<1>8. Agree(q) /\ Plain(q)
  BY <1>1, <1>7, SameAgree
<1>9. ASSUME NEW b \in Blocks, b # null_block
      PROVE  /\ b \in ToSet(front) => b \in ToSet(s) /\ b \notin ToSet(new)
             /\ b \notin ToSet(front) => (b \in ToSet(new) <=> b \in ToSet(s))
  <2>1. \A i, j \in DOMAIN s : s[i] = b /\ s[j] = b => i = j
    BY <1>1, <1>9 DEF Unique
  <2> QED BY <1>2, <1>3, <1>4, <1>5, <1>9, <2>1
<1>10. Follows(p, q, s, new)
  <2>1. \A b \in Blocks : p.ref[b] \in Nat
    BY <1>1, PoolFields
  <2> QED BY <1>7, <1>9, <2>1 DEF Follows
<1>11. Backed(q, Relist(tab, r, new), deferred)
  BY <1>3, <1>7, <1>8, <1>10, BackedStep DEF s
<1> QED BY <1>7, <1>11 DEF s, front, new, q

----------------------------------------------------------------------------
(* Hits are touched and new blocks taken                                    *)

LEMMA UniqueConcat ==
    ASSUME NEW s \in Seq(Blocks), NEW t \in Seq(Blocks), Unique(s), Unique(t),
           \A b \in Blocks : b # null_block /\ b \in ToSet(s) => b \notin ToSet(t)
    PROVE  /\ Unique(s \o t) /\ s \o t \in Seq(Blocks) /\ Len(s \o t) = Len(s) + Len(t)
           /\ \A b \in Blocks : b \in ToSet(s \o t) <=> b \in ToSet(s) \/ b \in ToSet(t)
<1> DEFINE z == s \o t
           m == Len(s)
           n == Len(t)
<1>1. /\ m \in Nat /\ n \in Nat /\ DOMAIN s = 1..m /\ DOMAIN t = 1..n /\ z \in Seq(Blocks)
      /\ Len(z) = m + n /\ DOMAIN z = 1..m+n
      /\ \A i \in 1..m+n : z[i] = IF i <= m THEN s[i] ELSE t[i - m]
  OBVIOUS
<1>2. \A b \in Blocks : b \in ToSet(z) <=> b \in ToSet(s) \/ b \in ToSet(t)
  BY ConcatFacts
<1>3. ASSUME NEW i \in 1..m, NEW j \in 1..n, s[i] # null_block
      PROVE  s[i] # t[j]
  <2>1. s[i] \in Blocks /\ s[i] \in ToSet(s) /\ t[j] \in ToSet(t)
    BY <1>1 DEF ToSet
  <2> QED BY <1>3, <2>1
<1> HIDE DEF z, m, n
<1>4. ASSUME NEW i \in 1..m+n, NEW j \in 1..m+n, z[i] = z[j], z[i] # null_block
      PROVE  i = j
  <2>1. CASE i <= m /\ j <= m
    <3>1. z[i] = s[i] /\ z[j] = s[j] /\ i \in DOMAIN s /\ j \in DOMAIN s
      BY <1>1, <2>1
    <3> QED BY <1>4, <3>1 DEF Unique
  <2>2. CASE i > m /\ j > m
    <3>1. z[i] = t[i - m] /\ z[j] = t[j - m] /\ i - m \in DOMAIN t /\ j - m \in DOMAIN t
      BY <1>1, <2>2
    <3>2. i - m = j - m
      BY <1>4, <3>1 DEF Unique
    <3> QED BY <1>1, <3>2
  <2>3. CASE i <= m /\ j > m
    <3>1. z[i] = s[i] /\ z[j] = t[j - m] /\ i \in 1..m /\ j - m \in 1..n
      BY <1>1, <2>3
    <3> QED BY <1>3, <1>4, <3>1
  <2>4. CASE i > m /\ j <= m
    <3>1. z[j] = s[j] /\ z[i] = t[i - m] /\ j \in 1..m /\ i - m \in 1..n
      BY <1>1, <2>4
    <3> QED BY <1>3, <1>4, <3>1
  <2> QED BY <1>1, <2>1, <2>2, <2>3, <2>4
<1>5. Unique(z)
  BY <1>1, <1>4 DEF Unique
<1> QED BY <1>1, <1>2, <1>5 DEF z, m, n

LEMMA CountOfList ==
    ASSUME NEW T, NEW s \in Seq(T), IsInjective(s)
    PROVE  IsFiniteSet(ToSet(s)) /\ Cardinality(ToSet(s)) = Len(s)
<1> DEFINE n == Len(s)
<1>1. n \in Nat /\ DOMAIN s = 1..n
  OBVIOUS
<1>2. s \in [1..n -> ToSet(s)]
  BY <1>1 DEF ToSet
<1>3. s \in Bijection(1..n, ToSet(s))
  <2>1. s \in Injection(1..n, ToSet(s))
    BY <1>1, <1>2 DEF Injection, IsInjective
  <2>2. s \in Surjection(1..n, ToSet(s))
    BY <1>1, <1>2 DEF Surjection, ToSet
  <2> QED BY <2>1, <2>2 DEF Bijection
<1>4. ExistsBijection(1..n, ToSet(s))
  BY <1>3 DEF ExistsBijection
<1>5. IsFiniteSet(1..n) /\ Cardinality(1..n) = n
  BY <1>1, FS_Interval
<1> QED BY <1>4, <1>5, FS_Bijection

(* the hits that are free: the positions and the blocks                     *)
FreeHits(p, hit) == {i \in DOMAIN hit : p.ref[hit[i]] = 0}

LEMMA CountOfHits ==
    ASSUME NEW p, NEW hit, hit \in Seq(Blocks), IsInjective(hit)
    PROVE  LET B == {b \in ToSet(hit) : p.ref[b] = 0}
           IN  /\ IsFiniteSet(B) /\ Cardinality(B) \in Nat /\ Cardinality(FreeHits(p, hit)) = Cardinality(B)
<1> DEFINE B == {b \in ToSet(hit) : p.ref[b] = 0}
           I == FreeHits(p, hit)
           f == [i \in I |-> hit[i]]
<1>1. IsFiniteSet(DOMAIN hit)
  <2>1. DOMAIN hit = 1..Len(hit) /\ Len(hit) \in Nat
    OBVIOUS
  <2> QED BY <2>1, FS_Interval
<1>2. I \in SUBSET DOMAIN hit /\ IsFiniteSet(I)
  BY <1>1, FS_Subset DEF FreeHits
<1>3. f \in Bijection(I, B)
  BY DEF FreeHits, Bijection, Injection, Surjection, IsInjective, ToSet
<1>4. ExistsBijection(I, B)
  BY <1>3 DEF ExistsBijection
<1> HIDE DEF I, B
<1>5. IsFiniteSet(B) /\ Cardinality(B) = Cardinality(I)
  BY <1>2, <1>4, FS_Bijection
<1> QED BY <1>5, FS_CardinalityType DEF I, B

MayTouch(tab, r, hit) ==
    /\ hit \in Seq(Blocks) /\ IsInjective(hit) /\ null_block \notin ToSet(hit)
    /\ \A b \in Blocks : b \in ToSet(hit) => b \notin ToSet(tab[r])

LEMMA TouchStage ==
    ASSUME NEW p, NEW tab, NEW deferred, Backed(p, tab, deferred), NEW r \in Requests, NEW hit, MayTouch(tab, r, hit)
    PROVE  LET q == touch(p, hit)
           IN  /\ Backed(q, Relist(tab, r, tab[r] \o hit), deferred) /\ SameCache(p, q)
               /\ Len(p.free) = Len(q.free) + Cardinality(FreeHits(p, hit)) /\ Cardinality(FreeHits(p, hit)) \in Nat
<1> DEFINE s == tab[r]
           new == s \o hit
           q == touch(p, hit)
           B == {b \in ToSet(hit) : p.ref[b] = 0}
<1>1. s \in Seq(Blocks) /\ Unique(s) /\ p \in PoolState /\ IsFreeListExact(p) /\ Agree(p) /\ Plain(p)
  BY DEF Backed, Lists
<1>2. /\ hit \in Seq(Blocks) /\ IsInjective(hit) /\ null_block \notin ToSet(hit)
      /\ \A b \in Blocks : b \in ToSet(hit) => b \notin ToSet(s)
  BY DEF MayTouch
<1>3. Unique(hit)
  BY <1>2 DEF Unique, IsInjective
<1> HIDE DEF s, B, q
<1>4. new \in Seq(Blocks) /\ Unique(new) /\ \A b \in Blocks : b \in ToSet(new) <=> b \in ToSet(s) \/ b \in ToSet(hit)
  BY <1>1, <1>2, <1>3, UniqueConcat
<1> HIDE DEF new
<1>5. q \in PoolState /\ SameCache(p, q) /\ IsFreeListExact(q) /\ q.ref = Gains(p, hit)
  BY <1>1, <1>2, TouchEffect DEF q
<1>6. \A b \in Blocks : /\ b # null_block /\ b \in ToSet(hit) => q.ref[b] = p.ref[b] + 1
                        /\ b = null_block \/ b \notin ToSet(hit) => q.ref[b] = p.ref[b]
  <2> USE <1>2
  <2> QED BY <1>1, <1>5, GainsMeaning
<1>7. \A b \in Blocks : p.ref[b] \in Nat
  BY <1>1, PoolFields
<1>8. Follows(p, q, s, new)
  BY <1>2, <1>4, <1>6, <1>7 DEF Follows
<1>9. Agree(q) /\ Plain(q)
  BY <1>1, <1>5, SameAgree
<1>10. Backed(q, Relist(tab, r, new), deferred)
  BY <1>4, <1>5, <1>8, <1>9, BackedStep DEF s
<1>11. IsFiniteSet(B) /\ Cardinality(B) \in Nat /\ Cardinality(FreeHits(p, hit)) = Cardinality(B)
  BY <1>2, CountOfHits DEF B
<1> DEFINE P == ToSet(p.free)
           Q == ToSet(q.free)
<1>12. /\ IsFiniteSet(P) /\ Cardinality(P) = Len(p.free)
       /\ IsFiniteSet(Q) /\ Cardinality(Q) = Len(q.free) /\ Len(q.free) \in Nat
  <2>1. p.free \in Seq(Blocks) /\ IsInjective(p.free) /\ q.free \in Seq(Blocks) /\ IsInjective(q.free)
    BY <1>1, <1>5, PoolFields DEF IsFreeListExact
  <2> QED BY <2>1, CountOfList
<1>13. \A b \in Blocks : /\ b \in P <=> b # null_block /\ p.ref[b] = 0
                         /\ b \in Q <=> b # null_block /\ q.ref[b] = 0
                         /\ b \in B <=> b \in ToSet(hit) /\ p.ref[b] = 0
  BY <1>1, <1>5, FreeListMeaning DEF B
<1>14. P \subseteq Blocks /\ Q \subseteq Blocks /\ B \subseteq Blocks
  <2>1. p.free \in Seq(Blocks) /\ q.free \in Seq(Blocks)
    BY <1>1, <1>5, PoolFields
  <2> QED BY <1>2, <2>1 DEF ToSet, B
<1> HIDE DEF P, Q
<1>15. \A b \in Blocks : (b \in P <=> b \in Q \/ b \in B) /\ ~(b \in Q /\ b \in B)
  BY <1>2, <1>6, <1>7, <1>13
<1>16. P = Q \cup B /\ Q \cap B = {}
  BY <1>14, <1>15
<1>17. Cardinality(Q \cup B) = Cardinality(Q) + Cardinality(B) - Cardinality(Q \cap B)
  BY <1>11, <1>12, FS_Union
<1>18. Cardinality(Q \cap B) = 0
  BY <1>16, FS_EmptySet
<1>19. Len(p.free) = Len(q.free) + Cardinality(FreeHits(p, hit))
  BY <1>11, <1>12, <1>16, <1>17, <1>18
<1> QED BY <1>5, <1>10, <1>11, <1>19 DEF q, new, s

LEMMA GetStage ==
    ASSUME NEW p, NEW tab, NEW deferred, Backed(p, tab, deferred), NEW r \in Requests, NEW n \in Nat, CanGet(p, n)
    PROVE  LET q == get_new_blocks(p, n)
               new == new_blocks(p, n)
           IN  /\ Backed(q, Relist(tab, r, tab[r] \o new), deferred)
               /\ Len(q.free) = Len(p.free) - n /\ Len(tab[r] \o new) = Len(tab[r]) + n
               /\ \A c \in Blocks, k \in Keys : contain(q, k, c) => contain(p, k, c)
<1> DEFINE s == tab[r]
           new == new_blocks(p, n)
           z == s \o new
           q == get_new_blocks(p, n)
<1>1. s \in Seq(Blocks) /\ Unique(s) /\ p \in PoolState /\ IsFreeListExact(p) /\ Agree(p) /\ Plain(p)
  BY DEF Backed, Lists
<1> HIDE DEF s, q, new
<1>2. /\ q \in PoolState /\ Agree(q) /\ IsFreeListExact(q)
      /\ new \in Seq(Blocks) /\ Len(new) = n /\ IsInjective(new)
      /\ \A b \in Blocks : b \in ToSet(new) => b # null_block /\ p.ref[b] = 0
      /\ \A b \in Blocks : q.ref[b] = IF b \in ToSet(new) THEN 1 ELSE p.ref[b]
      /\ Len(q.free) = Len(p.free) - n
      /\ \A c \in Blocks : IF c \in ToSet(new) THEN q.hash[c] = None /\ q.extra[c] = {}
                           ELSE q.hash[c] = p.hash[c] /\ q.extra[c] = p.extra[c]
      /\ \A c \in Blocks, k \in Keys : contain(q, k, c) <=> contain(p, k, c) /\ c \notin ToSet(new)
  BY <1>1, GetEffect DEF q, new
<1>3. null_block \in Blocks
  BY BlockPoolAssumption DEF null_block, Blocks
<1>4. Plain(q)
  <2>1. \A b \in Blocks : q.extra[b] = {}
    BY <1>1, <1>2 DEF Plain
  <2>2. \A k \in Keys : ~contain(q, k, null_block)
    BY <1>1, <1>2, <1>3 DEF Plain
  <2> QED BY <2>1, <2>2 DEF Plain
<1>5. Unique(new)
  BY <1>2 DEF Unique, IsInjective
<1>6. \A b \in Blocks : b # null_block /\ b \in ToSet(s) => b \notin ToSet(new)
  <2>1. \A b \in Blocks : b # null_block /\ b \in ToSet(s) => p.ref[b] > 0
    BY HeldIsReferenced DEF s
  <2> QED BY <1>2, <2>1
<1>7. /\ z \in Seq(Blocks) /\ Unique(z) /\ Len(z) = Len(s) + Len(new)
      /\ \A b \in Blocks : b \in ToSet(z) <=> b \in ToSet(s) \/ b \in ToSet(new)
  <2>1. new \in Seq(Blocks)
    BY <1>2
  <2> QED BY <1>1, <1>5, <1>6, <2>1, UniqueConcat
<1> HIDE DEF z
<1>8. Follows(p, q, s, z)
  <2>1. \A b \in Blocks : p.ref[b] \in Nat
    BY <1>1, PoolFields
  <2>2. \A b \in Blocks : b \in ToSet(new) => p.ref[b] = 0
    BY <1>2
  <2>3. \A b \in Blocks : q.ref[b] = IF b \in ToSet(new) THEN 1 ELSE p.ref[b]
    BY <1>2
  <2>4. \A b \in Blocks : b \in ToSet(z) <=> b \in ToSet(s) \/ b \in ToSet(new)
    BY <1>7
  <2> QED BY <1>6, <2>1, <2>2, <2>3, <2>4 DEF Follows
<1>9. Backed(q, Relist(tab, r, z), deferred)
  <2>1. z \in Seq(Blocks) /\ Unique(z) /\ q \in PoolState /\ Agree(q) /\ IsFreeListExact(q)
    BY <1>2, <1>7
  <2> QED BY <1>4, <1>8, <2>1, BackedStep DEF s
<1>10. Len(q.free) = Len(p.free) - n /\ Len(z) = Len(s) + n /\ \A c \in Blocks, k \in Keys : contain(q, k, c) => contain(p, k, c)
  BY <1>2, <1>7
<1> QED BY <1>9, <1>10 DEF q, new, z, s

----------------------------------------------------------------------------
(* Full blocks are cached, hits are found                                   *)

LEMMA OneGroup == Group \in Groups /\ null_block \in Blocks
BY KVCacheManagerAssumption, BlockPoolAssumption DEF Group, null_block, Blocks

(* The keys that caching the first blocks of a text enters                  *)
EntersPrefixes(p, q, t, to) ==
    \A c \in Blocks, k \in Keys :
        contain(q, k, c) => contain(p, k, c) \/ \E i \in 1..to : k = FullKey(t, i, Group)

LEMMA CacheStage ==
    ASSUME NEW p, NEW tab, NEW deferred, Backed(p, tab, deferred), NEW r \in Requests, NEW t \in Tokens,
           NEW from \in Nat, NEW to \in Int, to <= Len(tab[r]), to * block_size <= Len(t)
    PROVE  LET q == cache_full_blocks(p, t, tab[r], from, to, Group, from+1..to)
           IN  Backed(q, tab, deferred) /\ SameFree(p, q) /\ EntersPrefixes(p, q, t, to)
<1> DEFINE s == tab[r]
           mask == from+1..to
           q == cache_full_blocks(p, t, s, from, to, Group, mask)
           new == NewFull(s, from, to, mask)
<1>1. s \in Seq(Blocks) /\ Unique(s) /\ p \in PoolState /\ Agree(p) /\ Plain(p)
  BY DEF Backed, Lists
<1>2. CASE from >= to
  <2>1. q = p
    BY <1>2 DEF cache_full_blocks
  <2> QED BY <2>1 DEF SameFree, EntersPrefixes
<1>3. CASE from < to
  <2>1. to \in Nat /\ DOMAIN s = 1..Len(s) /\ Len(s) \in Nat
    BY <1>1, <1>3
  <2>2. \A i \in new : i \in 1..to /\ i \in DOMAIN s /\ s[i] # null_block
    BY <2>1 DEF NewFull
  <2> HIDE DEF new, s, mask
  <2>3. \A i \in new : s[i] \in Blocks
    BY <1>1, <2>2
  <2>4. AreDistinct(s, new)
    BY <1>1, <2>2 DEF AreDistinct, Unique
  <2>5. MayEnter(t, s, from, to, Group, mask)
    BY <2>1, <2>3, <2>4, OneGroup DEF MayEnter, new
  <2>6. q \in PoolState /\ Agree(q) /\ AreEntered(p, t, s, new, Group, q)
    BY <1>1, <2>5, CacheFullEffect DEF new
  <2> HIDE DEF q
  <2>7. \A b \in Blocks : q.extra[b] = {}
    <3> TAKE b \in Blocks
    <3>1. p.extra[b] = {}
      BY <1>1 DEF Plain
    <3>2. CASE \A i \in new : s[i] # b
      BY <2>6, <3>1, <3>2 DEF AreEntered
    <3>3. CASE \E i \in new : s[i] = b
      BY <2>6, <3>3 DEF AreEntered
    <3> QED BY <3>2, <3>3
  <2>8. ASSUME NEW c \in Blocks, NEW k \in Keys, contain(q, k, c)
        PROVE  \/ contain(p, k, c)
               \/ c # null_block /\ \E i \in 1..to : k = FullKey(t, i, Group)
    <3>1. contain(p, k, c) \/ \E i \in new : s[i] = c /\ k = FullKey(t, i, Group)
      BY <2>6, <2>8 DEF AreEntered
    <3> QED BY <2>2, <3>1
  <2>9. Plain(q)
    BY <1>1, <2>7, <2>8, OneGroup DEF Plain
  <2>10. SameFree(p, q) /\ EntersPrefixes(p, q, t, to)
    BY <2>6, <2>8 DEF AreEntered, EntersPrefixes
  <2>11. Backed(q, tab, deferred)
    BY <2>6, <2>9, <2>10, BackedCache
  <2> QED BY <2>10, <2>11 DEF q, s, mask
<1> QED BY <1>2, <1>3

LEMMA MaxFacts ==
    ASSUME NEW n \in Nat, NEW S \in SUBSET (0..n), S # {}
    PROVE  Max(S) \in S /\ \A i \in S : i <= Max(S)
<1> DEFINE Below == {n - i : i \in S}
<1>1. Below \subseteq Nat /\ Below # {}
  <2>1. \A i \in S : i \in 0..n /\ n - i \in Nat
    OBVIOUS
  <2>2. PICK i : i \in S
    OBVIOUS
  <2>3. n - i \in Below
    BY <2>2
  <2> QED BY <2>1, <2>3
<1>2. PICK m \in Below : \A j \in Below : ~ (<<j, m>> \in OpToRel(<, Nat))
  BY <1>1, WFMin, NatLessThanWellFounded
<1>3. \A j \in Below : ~ (j < m)
  BY <1>1, <1>2 DEF OpToRel
<1>4. PICK i \in S : m = n - i
  BY <1>2
<1>5. \A j \in S : i >= j
  <2> TAKE j \in S
  <2>1. n - j \in Below /\ ~ (n - j < n - i)
    BY <1>3, <1>4
  <2>2. i \in 0..n /\ j \in 0..n
    OBVIOUS
  <2> HIDE DEF Below
  <2> QED BY <2>1, <2>2
<1>6. \E x \in S : \A y \in S : x >= y
  BY <1>5
<1>7. Max(S) \in S /\ \A y \in S : Max(S) >= y
  BY <1>6 DEF Max
<1> QED BY <1>7

(* A full block's key names the block's number.                             *)
LEMMA FullKeyFacts ==
    ASSUME NEW t \in Tokens, NEW i \in Nat \ {0}, i * block_size <= Len(t)
    PROVE  LET k == FullKey(t, i, Group)
           IN  k \in Keys /\ k.hash = Hash(t, i * block_size) /\ NumTokens(k) = i * block_size
<1> DEFINE k == FullKey(t, i, Group)
           n == i * block_size
<1>1. k \in Keys
  BY OneGroup, FullKeyType
<1>2. k.hash = Hash(t, n)
  BY DEF FullKey, Key
<1>3. n \in Nat
  BY Multiple
<1> HIDE DEF k, n
<1>4. Len(Hash(t, n)) = n
  <2>1. n <= Len(t)
    BY DEF n
  <2> QED BY <1>3, <2>1, HashFacts
<1>5. NumTokens(k) = n
  BY <1>2, <1>4 DEF NumTokens
<1> QED BY <1>1, <1>2, <1>5 DEF k, n

LEMMA HitFacts ==
    ASSUME NEW p \in PoolState, Agree(p), Plain(p), NEW t \in Tokens, NEW n \in Nat
    PROVE  LET hit == find_longest_cache_hit(p, t, n)
           IN  /\ hit \in Seq(Blocks) /\ IsInjective(hit) /\ null_block \notin ToSet(hit)
               /\ Len(hit) * block_size <= n
<1> DEFINE S == {m \in 0..(n \div block_size) : m * block_size <= Len(t) /\ Hits(p, t, m)}
           N == Max(S)
           hit == [i \in 1..N |-> get_one_block(p, FullKey(t, i, Group))]
<1>1. n \div block_size \in Nat /\ (n \div block_size) * block_size <= n
  BY BlockPoolAssumption
<1>2. 0 \in S
  <2>1. Hits(p, t, 0)
    BY DEF Hits
  <2>2. 0 * block_size <= Len(t)
    BY BlockPoolAssumption DEF Blocks
  <2> QED BY <1>1, <2>1, <2>2
<1>3. N \in S
  <2>1. S \in SUBSET (0..(n \div block_size)) /\ S # {}
    BY <1>2
  <2> HIDE DEF S
  <2> QED BY <1>1, <2>1, MaxFacts
<1>4. N \in Nat /\ N <= n \div block_size /\ N * block_size <= Len(t) /\ Hits(p, t, N)
  BY <1>1, <1>3
<1>5. find_longest_cache_hit(p, t, n) = hit
  BY DEF find_longest_cache_hit
<1> HIDE DEF N, S
<1>6. ASSUME NEW i \in 1..N
      PROVE  LET k == FullKey(t, i, Group)
             IN  k \in Keys /\ NumTokens(k) = i * block_size /\ hit[i] \in Blocks /\ contain(p, k, hit[i])
  <2> DEFINE k == FullKey(t, i, Group)
  <2>1. i \in Nat \ {0} /\ i <= N
    BY <1>4
  <2>2. i * block_size <= Len(t)
    <3>1. i * block_size <= N * block_size
      BY <1>4, <2>1, Monotone
    <3>2. i * block_size \in Nat /\ N * block_size \in Nat /\ Len(t) \in Nat
      BY <1>4, <2>1, Multiple, BlockPoolAssumption
    <3> QED BY <1>4, <3>1, <3>2
  <2>3. k \in Keys /\ NumTokens(k) = i * block_size
    BY <2>1, <2>2, FullKeyFacts
  <2>4. get_one_block(p, k) # None
    BY <1>4 DEF Hits
  <2>5. hit[i] = get_one_block(p, k)
    OBVIOUS
  <2> HIDE DEF k, hit
  <2>6. hit[i] \in Blocks /\ contain(p, k, hit[i])
    BY <2>3, <2>4, <2>5, OneBlock
  <2> QED BY <2>3, <2>6 DEF k
<1>7. hit \in [1..N -> Blocks]
  <2>1. hit = [i \in 1..N |-> hit[i]]
    OBVIOUS
  <2> HIDE DEF hit
  <2> QED BY <1>6, <2>1
<1> HIDE DEF hit
<1>8. hit \in Seq(Blocks) /\ Len(hit) = N /\ DOMAIN hit = 1..N
  BY <1>4, <1>7
<1>9. ASSUME NEW i \in 1..N, NEW j \in 1..N, hit[i] = hit[j]
      PROVE  i = j
  <2> DEFINE k == FullKey(t, i, Group)
             l == FullKey(t, j, Group)
             b == hit[i]
  <2>1. k \in Keys /\ l \in Keys /\ b \in Blocks /\ contain(p, k, b) /\ contain(p, l, b)
    BY <1>6, <1>9
  <2>2. NumTokens(k) = i * block_size /\ NumTokens(l) = j * block_size
    BY <1>6
  <2> HIDE DEF k, l, b
  <2>3. k \in OwnKeys(p, b) /\ l \in OwnKeys(p, b)
    BY <2>1 DEF Agree
  <2>4. k = l
    BY <2>1, <2>3 DEF Plain, OwnKeys
  <2>5. i * block_size = j * block_size
    BY <2>2, <2>4
  <2>6. block_size \in Nat \ {0} /\ i \in Nat /\ j \in Nat
    BY <1>4, BlockPoolAssumption
  <2>7. (i * block_size) \div block_size = i /\ (j * block_size) \div block_size = j
    BY <2>6
  <2> QED BY <2>5, <2>7
<1>10. IsInjective(hit)
  BY <1>8, <1>9 DEF IsInjective
<1>11. null_block \notin ToSet(hit)
  <2>1. \A i \in 1..N : hit[i] # null_block
    BY <1>6 DEF Plain
  <2> QED BY <1>8, <2>1 DEF ToSet
<1>12. Len(hit) * block_size <= n
  <2>1. N * block_size <= (n \div block_size) * block_size
    BY <1>1, <1>4, Monotone
  <2>2. N * block_size \in Nat /\ (n \div block_size) * block_size \in Nat
    BY <1>1, <1>4, Multiple
  <2> QED BY <1>1, <1>8, <2>1, <2>2
<1> QED BY <1>5, <1>8, <1>10, <1>11, <1>12

----------------------------------------------------------------------------
(* The record of a request                                                  *)
Step == {s \in [n : Nat, drafts : Nat, samples : BOOLEAN] : s.drafts < s.n}
Request == [status : Statuses, computed : Int, num_tokens : Nat \ {0}, flight : Seq(Step),
            blocks : Seq(Blocks), cached : Nat]

LEMMA RequestType ==
    ASSUME NEW q \in Request
    PROVE  /\ q.status \in Statuses /\ q.computed \in Int /\ q.num_tokens \in Nat \ {0} /\ q.flight \in Seq(Step)
           /\ q.blocks \in Seq(Blocks) /\ q.cached \in Nat
BY DEF Request

(* Only the table of the request is another.                                *)
Keeps(q, z) == /\ z \in Request /\ z.status = q.status /\ z.computed = q.computed
               /\ z.num_tokens = q.num_tokens /\ z.flight = q.flight

LEMMA TableFields ==
    ASSUME NEW q \in Request, NEW bl \in Seq(Blocks)
    PROVE  LET z == [q EXCEPT !.blocks = bl]
           IN  Keeps(q, z) /\ z.blocks = bl /\ z.cached = q.cached
BY DEF Request, Keeps

LEMMA CachedField ==
    ASSUME NEW q \in Request, NEW c \in Nat
    PROVE  LET z == [q EXCEPT !.cached = c]
           IN  Keeps(q, z) /\ z.blocks = q.blocks /\ z.cached = c
BY DEF Request, Keeps

Retabled(q, bl, c) == [q EXCEPT !.blocks = bl, !.cached = c]

LEMMA TableAndCached ==
    ASSUME NEW q \in Request, NEW bl \in Seq(Blocks), NEW c \in Nat
    PROVE  Keeps(q, Retabled(q, bl, c)) /\ Retabled(q, bl, c).blocks = bl
BY DEF Request, Keeps, Retabled

LEMMA StepType ==
    ASSUME NEW s \in Seq(Step), NEW i \in 1..Len(s)
    PROVE  s[i] \in Step /\ s[i].n \in Nat /\ s[i].drafts \in Nat /\ s[i].drafts < s[i].n /\ s[i].samples \in BOOLEAN
<1>1. s[i] \in Step
  OBVIOUS
<1>2. \A x \in Step : x.n \in Nat /\ x.drafts \in Nat /\ x.drafts < x.n /\ x.samples \in BOOLEAN
  BY DEF Step
<1> QED BY <1>1, <1>2

(* The tokens of the steps in flight, summed up step by step                *)
Sums(f, s) == f \in [0..Len(s) -> Nat] /\ f[0] = 0 /\ \A i \in 1..Len(s) : f[i] = f[i-1] + s[i].n

LEMMA InFlightSteps ==
    ASSUME NEW q, NEW s, s = q.flight, s \in Seq(Step)
    PROVE  \E f : Sums(f, s) /\ in_flight(q) = f[Len(s)]
<1> DEFINE n == Len(s)
           step == [i \in 1..n |-> [x \in Nat |-> x + s[i].n]]
           Is(f) == f = [i \in 0..Len(q.flight) |-> IF i = 0 THEN 0 ELSE f[i-1] + q.flight[i].n]
<1>1. n \in Nat /\ 0 \in Nat
  OBVIOUS
<1>2. \A i \in 1..n : s[i].n \in Nat
  BY StepType
<1>3. step \in [1..n -> [Nat -> Nat]]
  <2> HIDE DEF n
  <2> QED BY <1>2
<1>4. PICK f : f \in [0..n -> Nat] /\ f[0] = 0 /\ \A i \in 1..n : f[i] = step[i][f[i-1]]
  <2> HIDE DEF n, step, Is
  <2>1. \E f : Walks(f, Nat, 0, n, step)
    BY <1>1, <1>3, StepFunction, Zenon
  <2> QED BY <2>1 DEF Walks
<1>5. ASSUME NEW i \in 1..n
      PROVE  f[i] = f[i-1] + s[i].n
  <2>1. f[i-1] \in Nat
    <3> HIDE DEF n
    <3> QED BY <1>1, <1>4
  <2> HIDE DEF n
  <2> QED BY <1>4, <2>1
<1>6. \A i \in 0..n : i = 0 \/ (i # 0 /\ i \in 1..n)
  BY <1>1
<1>7. Is(f)
  <2>1. \A i \in 0..n : f[i] = IF i = 0 THEN 0 ELSE f[i-1] + q.flight[i].n
    <3> HIDE DEF n
    <3> QED BY <1>4, <1>5, <1>6
  <2>2. f = [i \in 0..n |-> f[i]]
    BY <1>4
  <2> QED BY <2>1, <2>2
<1>8. Is(CHOOSE g : Is(g))
  <2> HIDE DEF Is
  <2> QED BY <1>7
<1> DEFINE g == CHOOSE h : Is(h)
<1>9. in_flight(q) = g[n]
  BY DEF in_flight
<1> HIDE DEF g
<1>10. g[0] = 0 /\ \A i \in 1..n : g[i] = g[i-1] + s[i].n
  <2>1. Is(g)
    BY <1>8 DEF g
  <2> QED BY <1>1, <1>6, <2>1
<1> DEFINE S == {i \in 0..n : g[i] = f[i]}
<1>11. \A i \in 1..n : i - 1 \in S => i \in S
  <2> HIDE DEF n
  <2> QED BY <1>1, <1>5, <1>10
<1>12. 0 \in S
  BY <1>1, <1>4, <1>10
<1>13. 0..n \subseteq S
  <2> HIDE DEF S, n
  <2> QED BY <1>1, <1>11, <1>12, BoundedInduction
<1>14. g[n] = f[n]
  BY <1>1, <1>13
<1>15. Sums(f, s)
  BY <1>4, <1>5 DEF Sums
<1> QED BY <1>9, <1>14, <1>15

LEMMA SumsUnique ==
    ASSUME NEW s \in Seq(Step), NEW t \in Seq(Step), NEW f, NEW g, Sums(f, s), Sums(g, t), NEW n \in Nat,
           n <= Len(s), n <= Len(t), \A i \in 1..n : s[i] = t[i]
    PROVE  f[n] = g[n]
<1> DEFINE S == {i \in 0..n : f[i] = g[i]}
<1>1. 0 \in S
  BY DEF Sums
<1>2. ASSUME NEW i \in 1..n, i - 1 \in S PROVE i \in S
  <2>1. i \in 1..Len(s) /\ i \in 1..Len(t) /\ i \in 0..n
    OBVIOUS
  <2>2. f[i-1] = g[i-1] /\ f[i] = f[i-1] + s[i].n /\ g[i] = g[i-1] + t[i].n /\ s[i] = t[i]
    BY <1>2, <2>1 DEF Sums
  <2> QED BY <2>1, <2>2
<1>3. 0..n \subseteq S
  <2> HIDE DEF S
  <2> QED BY <1>1, <1>2, BoundedInduction
<1> QED BY <1>3

LEMMA InFlightType ==
    ASSUME NEW q, q.flight \in Seq(Step)
    PROVE  in_flight(q) \in Nat
<1> DEFINE s == q.flight
<1>1. PICK f : Sums(f, s) /\ in_flight(q) = f[Len(s)]
  BY InFlightSteps
<1> QED BY <1>1 DEF Sums

LEMMA InFlightNone ==
    ASSUME NEW q, q.flight = <<>>
    PROVE  in_flight(q) = 0
<1> DEFINE s == q.flight
<1>1. s \in Seq(Step) /\ Len(s) = 0
  OBVIOUS
<1>2. PICK f : Sums(f, s) /\ in_flight(q) = f[Len(s)]
  BY <1>1, InFlightSteps
<1> QED BY <1>1, <1>2 DEF Sums

(* A step more, and the oldest step less                                    *)
LEMMA InFlightAppend ==
    ASSUME NEW q, NEW z, q.flight \in Seq(Step), NEW x \in Step, z.flight = Append(q.flight, x)
    PROVE  in_flight(z) = in_flight(q) + x.n
<1> DEFINE s == q.flight
           t == z.flight
           n == Len(s)
<1>1. n \in Nat /\ s \in Seq(Step) /\ t \in Seq(Step) /\ Len(t) = n + 1 /\ t[n+1] = x /\ \A i \in 1..n : s[i] = t[i]
  OBVIOUS
<1> HIDE DEF n
<1>2. PICK f : Sums(f, s) /\ in_flight(q) = f[n]
  BY <1>1, InFlightSteps DEF n
<1>3. PICK g : Sums(g, t) /\ in_flight(z) = g[n+1]
  <2>1. \E g : Sums(g, t) /\ in_flight(z) = g[Len(t)]
    BY <1>1, InFlightSteps
  <2> QED BY <1>1, <2>1
<1>4. f[n] = g[n]
  <2>1. n <= Len(s) /\ n <= Len(t)
    BY <1>1 DEF n
  <2> HIDE DEF s, t
  <2> QED BY <1>1, <1>2, <1>3, <2>1, SumsUnique
<1>5. g[n+1] = g[n] + x.n
  <2>1. n + 1 \in 1..Len(t) /\ (n + 1) - 1 = n
    BY <1>1
  <2> QED BY <1>1, <1>3, <2>1 DEF Sums
<1> QED BY <1>2, <1>3, <1>4, <1>5

LEMMA InFlightTail ==
    ASSUME NEW q, NEW z, q.flight \in Seq(Step), q.flight # <<>>, z.flight = Tail(q.flight)
    PROVE  in_flight(z) = in_flight(q) - Head(q.flight).n
<1> DEFINE s == q.flight
           t == z.flight
           n == Len(t)
           x == Head(s).n
<1>1. /\ n \in Nat /\ s \in Seq(Step) /\ t \in Seq(Step) /\ Len(s) = n + 1 /\ Head(s) = s[1]
      /\ \A i \in 1..n : t[i] = s[i+1]
  OBVIOUS
<1>2. x \in Nat /\ s[1].n = x
  <2>1. s \in Seq(Step) /\ 1 \in 1..Len(s) /\ x = s[1].n
    BY <1>1
  <2> HIDE DEF s, x
  <2> QED BY <2>1, StepType
<1> HIDE DEF n, x
<1>3. PICK f : Sums(f, s) /\ in_flight(q) = f[n+1]
  <2>1. \E f : Sums(f, s) /\ in_flight(q) = f[Len(s)]
    BY <1>1, InFlightSteps
  <2> QED BY <1>1, <2>1
<1>4. PICK g : Sums(g, t) /\ in_flight(z) = g[n]
  BY <1>1, InFlightSteps DEF n
<1> HIDE DEF s, t
<1> DEFINE S == {i \in 0..n : f[i+1] = g[i] + x}
<1>5. 0 \in S
  <2>1. 1 \in 1..Len(s) /\ 1 - 1 = 0
    BY <1>1
  <2>2. f[1] = f[0] + s[1].n /\ f[0] = 0 /\ g[0] = 0
    BY <1>3, <1>4, <2>1 DEF Sums
  <2> QED BY <1>1, <1>2, <2>2
<1>6. ASSUME NEW i \in 1..n, i - 1 \in S PROVE i \in S
  <2>1. i \in 1..Len(t) /\ i + 1 \in 1..Len(s) /\ (i + 1) - 1 = i /\ (i - 1) + 1 = i /\ i - 1 \in 0..Len(t) /\ i \in 0..n
    BY <1>1 DEF n
  <2>2. f[i+1] = f[i] + s[i+1].n /\ g[i] = g[i-1] + t[i].n /\ t[i] = s[i+1] /\ g[i-1] \in Nat
    BY <1>1, <1>3, <1>4, <2>1 DEF Sums
  <2>3. f[i] = g[i-1] + x
    BY <1>6, <2>1
  <2>4. t[i].n \in Nat
    BY <1>1, <2>1, StepType
  <2>5. f[i+1] = g[i] + x
    BY <1>2, <2>2, <2>3, <2>4
  <2> QED BY <2>1, <2>5
<1>7. 0..n \subseteq S
  <2> HIDE DEF S
  <2> QED BY <1>1, <1>5, <1>6, BoundedInduction
<1>8. f[n+1] = g[n] + x
  BY <1>1, <1>7
<1>9. g[n] \in Nat
  BY <1>1, <1>4 DEF Sums, n
<1> QED BY <1>2, <1>3, <1>4, <1>8, <1>9 DEF x, s

----------------------------------------------------------------------------
(* Slots are allocated                                                      *)

LEMMA TablesFacts ==
    ASSUME NEW rq \in [Requests -> Request], NEW r \in Requests, NEW z \in Request
    PROVE  /\ Tables(rq) \in Lists /\ Tables(rq)[r] = rq[r].blocks
           /\ Tables([rq EXCEPT ![r] = z]) = Relist(Tables(rq), r, z.blocks)
<1>1. \A q \in Request : q.blocks \in Seq(Blocks)
  BY RequestType
<1>2. \A s \in Requests : rq[s].blocks \in Seq(Blocks)
  BY <1>1
<1> QED BY <1>2 DEF Tables, Lists, Relist

LEMMA ListUpdates ==
    ASSUME NEW tab \in Lists, NEW r \in Requests, NEW x \in Seq(Blocks), NEW y
    PROVE  Relist(tab, r, x)[r] = x /\ Relist(Relist(tab, r, x), r, y) = Relist(tab, r, y)
BY DEF Lists, Relist

LEMMA Division ==
    ASSUME NEW n \in Int
    PROVE  n \div block_size \in Int /\ (n \div block_size) * block_size <= n
           /\ n < (n \div block_size) * block_size + block_size
<1>1. block_size \in Nat \ {0}
  BY BlockPoolAssumption
<1> QED BY <1>1

LEMMA DivisionMonotone ==
    ASSUME NEW m \in Int, NEW n \in Int, m <= n
    PROVE  m \div block_size <= n \div block_size
<1> DEFINE x == m \div block_size
           y == n \div block_size
           d == block_size
<1>1. d \in Nat \ {0}
  BY BlockPoolAssumption
<1>2. x \in Int /\ y \in Int /\ x * d <= m /\ n < y * d + d
  BY Division
<1> HIDE DEF x, y, d
<1>3. SUFFICES ASSUME x > y PROVE FALSE
  BY <1>2 DEF x, y, d
<1>4. x - y >= 1 /\ x - y \in Nat
  BY <1>2, <1>3
<1>5. (x - y) * d >= d
  BY <1>1, <1>4
<1>6. (x - y) * d = x * d - y * d /\ x * d \in Int /\ y * d \in Int
  BY <1>1, <1>2
<1> QED BY <1>1, <1>2, <1>5, <1>6

LEMMA CdivFacts ==
    /\ cdiv(0, block_size) = 0
    /\ \A n \in Int : /\ cdiv(n, block_size) \in Int
                      /\ \A m \in Int : m <= n => m \div block_size <= cdiv(n, block_size)
                                                  /\ cdiv(m, block_size) <= cdiv(n, block_size)
<1>1. block_size \in Nat \ {0}
  BY BlockPoolAssumption
<1>2. cdiv(0, block_size) = 0
  BY <1>1 DEF cdiv
<1>3. ASSUME NEW n \in Int PROVE cdiv(n, block_size) \in Int
  BY <1>1, Division DEF cdiv
<1>4. ASSUME NEW n \in Int, NEW m \in Int, m <= n
      PROVE  m \div block_size <= cdiv(n, block_size) /\ cdiv(m, block_size) <= cdiv(n, block_size)
  <2> DEFINE k == n + block_size - 1
             l == m + block_size - 1
  <2>1. k \in Int /\ l \in Int /\ m <= k /\ l <= k
    BY <1>1, <1>4
  <2>2. cdiv(n, block_size) = k \div block_size /\ cdiv(m, block_size) = l \div block_size
    BY DEF cdiv
  <2> HIDE DEF k, l
  <2> QED BY <2>1, <2>2, DivisionMonotone
<1> QED BY <1>2, <1>3, <1>4

(* The table of z is that of q with blocks other than null behind it.       *)
Extends(q, z) ==
    /\ Keeps(q, z)
    /\ \A i \in DOMAIN z.blocks : (i \in DOMAIN q.blocks /\ z.blocks[i] = q.blocks[i]) \/ z.blocks[i] # null_block

LEMMA ExtendsTransitive ==
    ASSUME NEW q, NEW y, NEW z, Extends(q, y), Extends(y, z)
    PROVE  Extends(q, z)
BY DEF Extends, Keeps

LEMMA ExtendsBehind ==
    ASSUME NEW q, NEW z, Keeps(q, z), NEW s \in Seq(Blocks), NEW t \in Seq(Blocks), q.blocks = s, z.blocks = s \o t,
           null_block \notin ToSet(t)
    PROVE  Extends(q, z)
<1> DEFINE m == Len(s)
           n == Len(t)
           c == s \o t
<1>1. /\ m \in Nat /\ n \in Nat /\ DOMAIN s = 1..m /\ DOMAIN t = 1..n /\ DOMAIN c = 1..m+n
      /\ \A i \in 1..m+n : c[i] = IF i <= m THEN s[i] ELSE t[i - m]
  OBVIOUS
<1>2. \A i \in 1..n : t[i] # null_block
  BY <1>1 DEF ToSet
<1> HIDE DEF m, n, c
<1>3. ASSUME NEW i \in DOMAIN c PROVE (i \in DOMAIN s /\ c[i] = s[i]) \/ c[i] # null_block
  <2>1. CASE i <= m
    BY <1>1, <2>1
  <2>2. CASE ~(i <= m)
    <3>1. i - m \in 1..n /\ c[i] = t[i - m]
      BY <1>1, <2>2
    <3> QED BY <1>2, <3>1
  <2> QED BY <2>1, <2>2
<1> QED BY <1>3 DEF Extends, c

IsGrown(p, tab, deferred, r, q, n, g) ==
    /\ Backed(g.p, Relist(tab, r, g.q.blocks), deferred) /\ Extends(q, g.q) /\ g.q.cached = q.cached
    /\ Missing(q, n) \in Nat
    /\ Len(g.p.free) = Len(p.free) - Missing(q, n) /\ Len(g.q.blocks) = Len(q.blocks) + Missing(q, n)
    /\ \A c \in Blocks, k \in Keys : contain(g.p, k, c) => contain(p, k, c)

LEMMA GrowStage ==
    ASSUME NEW p, NEW tab, NEW deferred, Backed(p, tab, deferred), NEW r \in Requests, NEW q \in Request,
           q.blocks = tab[r], NEW n \in Int, Missing(q, n) <= Len(p.free)
    PROVE  IsGrown(p, tab, deferred, r, q, n, Grow(p, q, n))
<1> DEFINE m == Missing(q, n)
           s == q.blocks
           new == new_blocks(p, m)
           x == get_new_blocks(p, m)
           t == s \o new
           z == [q EXCEPT !.blocks = t]
<1>1. s \in Seq(Blocks) /\ Len(s) \in Nat
  <2>1. s \in Seq(Blocks)
    BY RequestType
  <2> QED BY <2>1
<1>2. m \in Nat
  <2>1. cdiv(n, block_size) \in Int
    BY CdivFacts
  <2> QED BY <1>1, <2>1 DEF Missing, AtLeast0
<1>3. CanGet(p, m)
  BY DEF CanGet, get_num_free_blocks
<1>4. p \in PoolState /\ Agree(p) /\ IsFreeListExact(p)
  BY DEF Backed
<1>5. Grow(p, q, n) = [p |-> x, q |-> z]
  BY DEF Grow
<1> HIDE DEF m, s, new, x
<1>6. /\ Backed(x, Relist(tab, r, t), deferred) /\ Len(x.free) = Len(p.free) - m /\ Len(t) = Len(s) + m
      /\ \A c \in Blocks, k \in Keys : contain(x, k, c) => contain(p, k, c)
  <2>1. s = tab[r]
    BY DEF s
  <2> HIDE DEF t
  <2>2. LET y == get_new_blocks(p, m)
            new_ == new_blocks(p, m)
        IN  /\ Backed(y, Relist(tab, r, tab[r] \o new_), deferred)
            /\ Len(y.free) = Len(p.free) - m /\ Len(tab[r] \o new_) = Len(tab[r]) + m
            /\ \A c \in Blocks, k \in Keys : contain(y, k, c) => contain(p, k, c)
    BY <1>2, <1>3, GetStage
  <2> QED BY <2>1, <2>2 DEF t, x, new
<1>7. new \in Seq(Blocks) /\ null_block \notin ToSet(new)
  <2>1. new \in Seq(Blocks) /\ \A b \in Blocks : b \in ToSet(new) => b # null_block
    BY <1>2, <1>3, <1>4, GetEffect DEF new
  <2> QED BY <2>1, OneGroup
<1>8. t \in Seq(Blocks)
  BY <1>1, <1>7
<1>9. Keeps(q, z) /\ z.blocks = t /\ z.cached = q.cached
  <2> HIDE DEF t
  <2> QED BY <1>8, TableFields
<1>10. Extends(q, z)
  <2> HIDE DEF z
  <2> QED BY <1>1, <1>7, <1>9, ExtendsBehind DEF s
<1> HIDE DEF t, z
<1> DEFINE g == Grow(p, q, n)
<1>11. g.p = x /\ g.q = z
  BY <1>5
<1> HIDE DEF g
<1>12. IsGrown(p, tab, deferred, r, q, n, g)
  BY <1>2, <1>6, <1>9, <1>10, <1>11 DEF IsGrown, m, s
<1> QED BY <1>12 DEF g

LEMMA NullNow ==
    ASSUME NEW q, q \in Request, NEW n, n \in Nat, Unique(q.blocks)
    PROVE  LET z == [q EXCEPT !.blocks = Nulled(q.blocks, n)]
           IN  Keeps(q, z) /\ z.blocks = Nulled(q.blocks, n) /\ z.cached = q.cached /\ Len(z.blocks) = Len(q.blocks)
<1> DEFINE s == q.blocks
           t == Nulled(s, n)
<1>1. s \in Seq(Blocks)
  BY RequestType
<1>2. t \in Seq(Blocks) /\ Len(t) = Len(s)
  <2> HIDE DEF s
  <2> QED BY <1>1, NulledFacts DEF s
<1> HIDE DEF t
<1>3. LET z == [q EXCEPT !.blocks = t] IN Keeps(q, z) /\ z.blocks = t /\ z.cached = q.cached
  BY <1>2, TableFields
<1> QED BY <1>2, <1>3 DEF t

LEMMA TrimmedEffect ==
    ASSUME Backed(pool, Tables(req), popped), req \in [Requests -> Request], NEW r \in Requests, NEW a,
           Processed(r, a) \in Nat
    PROVE  LET s == Trimmed(r, a)
               n == NumSkipped(Processed(r, a))
           IN  /\ n \in Nat /\ Keeps(req[r], s.q) /\ s.q.cached = req[r].cached
               /\ s.q.blocks = Nulled(req[r].blocks, n) /\ Len(s.q.blocks) = Len(req[r].blocks)
               /\ Backed(s.p, Relist(Tables(req), r, s.q.blocks), popped) /\ SameCache(pool, s.p)
<1> DEFINE P == Processed(r, a)
           n == NumSkipped(P)
           q == req[r]
           z == [q EXCEPT !.blocks = Nulled(q.blocks, n)]
           x == free_blocks(pool, InFront(q.blocks, n))
           tab == Tables(req)
<1>1. n \in Nat
  <2>1. Window \in Nat \ {0}
    BY KVCacheManagerAssumption
  <2>2. AtLeast0(P - Window + 1) \in Nat
    <3> HIDE DEF P
    <3> QED BY <2>1 DEF AtLeast0, P
  <2>3. block_size \in Nat \ {0}
    BY BlockPoolAssumption
  <2> QED BY <2>2, <2>3 DEF NumSkipped
<1>2. q \in Request /\ tab[r] = q.blocks
  BY TablesFacts
<1>3. Skipped(q, P) = InFront(q.blocks, n)
  BY DEF Skipped, InFront
<1>4. WithoutSkipped(q, P) = z
  BY DEF WithoutSkipped, Nulled
<1>5. Unique(q.blocks)
  BY <1>2 DEF Backed
<1>6. Trimmed(r, a) = [p |-> x, q |-> z]
  BY <1>3, <1>4 DEF Trimmed
<1> HIDE DEF n, q, P
<1>7. Keeps(q, z) /\ z.blocks = Nulled(q.blocks, n) /\ z.cached = q.cached /\ Len(z.blocks) = Len(q.blocks)
  BY <1>1, <1>2, <1>5, NullNow
<1> HIDE DEF z
<1>8. Backed(x, Relist(tab, r, z.blocks), popped) /\ SameCache(pool, x)
  <2> HIDE DEF tab
  <2> QED BY <1>1, <1>2, <1>7, TrimStage DEF tab
<1> DEFINE s == Trimmed(r, a)
<1>9. s.p = x /\ s.q = z
  BY <1>6
<1> HIDE DEF s, x
<1> QED BY <1>1, <1>7, <1>8, <1>9 DEF s, n, P, q

(* the request with its hits *)
WithHits(q, hit) == [q EXCEPT !.blocks = @ \o hit, !.cached = IF hit = <<>> THEN @ ELSE Len(hit)]

LEMMA HitTable ==
    ASSUME NEW q \in Request, NEW hit \in Seq(Blocks), null_block \notin ToSet(hit)
    PROVE  LET z == WithHits(q, hit)
           IN  Extends(q, z) /\ z.blocks = q.blocks \o hit
<1> DEFINE s == q.blocks
           t == s \o hit
           c == IF hit = <<>> THEN q.cached ELSE Len(hit)
           z == [q EXCEPT !.blocks = t, !.cached = c]
<1>1. s \in Seq(Blocks) /\ q.cached \in Nat
  BY RequestType
<1>2. t \in Seq(Blocks) /\ c \in Nat
  <2> HIDE DEF s
  <2> QED BY <1>1
<1>3. WithHits(q, hit) = z
  BY DEF WithHits
<1>4. Keeps(q, z) /\ z.blocks = t
  <2>1. z = Retabled(q, t, c)
    BY DEF Retabled
  <2> HIDE DEF t, c, z
  <2> QED BY <1>2, <2>1, TableAndCached
<1> HIDE DEF z
<1>5. Extends(q, z)
  BY <1>1, <1>4, ExtendsBehind
<1> QED BY <1>3, <1>4, <1>5

(* The hits are referenced, and follow in the table.                        *)
IsTouched(p, tab, deferred, r, q, hit, x, z) ==
    /\ Backed(x, Relist(tab, r, z.blocks), deferred) /\ SameCache(p, x) /\ Extends(q, z)
    /\ Len(p.free) = Len(x.free) + Cardinality(FreeHits(p, hit)) /\ Cardinality(FreeHits(p, hit)) \in Nat
    /\ Len(z.blocks) = Len(q.blocks) + Len(hit)

LEMMA HitStage ==
    ASSUME NEW p, NEW tab, NEW deferred, Backed(p, tab, deferred), NEW r \in Requests, NEW q \in Request,
           q.blocks = tab[r], NEW hit, MayTouch(tab, r, hit)
    PROVE  IsTouched(p, tab, deferred, r, q, hit, touch(p, hit), WithHits(q, hit))
<1> DEFINE z == WithHits(q, hit)
           x == touch(p, hit)
<1>1. q.blocks \in Seq(Blocks)
  BY RequestType
<1>2. hit \in Seq(Blocks) /\ null_block \notin ToSet(hit)
  BY DEF MayTouch
<1>3. Extends(q, z) /\ z.blocks = q.blocks \o hit
  BY <1>2, HitTable
<1> HIDE DEF z, x
<1>4. /\ Backed(x, Relist(tab, r, tab[r] \o hit), deferred) /\ SameCache(p, x)
      /\ Len(p.free) = Len(x.free) + Cardinality(FreeHits(p, hit)) /\ Cardinality(FreeHits(p, hit)) \in Nat
  BY TouchStage DEF x
<1>5. Len(q.blocks \o hit) = Len(q.blocks) + Len(hit)
  BY <1>1, <1>2
<1>6. IsTouched(p, tab, deferred, r, q, hit, x, z)
  BY <1>3, <1>4, <1>5 DEF IsTouched
<1> QED BY <1>6 DEF x, z

LEMMA CacheBlocksStage ==
    ASSUME NEW p, NEW tab, NEW deferred, Backed(p, tab, deferred), NEW r \in Requests, NEW q \in Request,
           q.blocks = tab[r], NEW t \in Tokens, NEW n \in Int, n <= Len(t), n \div block_size <= Len(q.blocks)
    PROVE  LET g == cache_blocks(p, q, t, n)
           IN  /\ Backed(g.p, tab, deferred) /\ SameFree(p, g.p) /\ EntersPrefixes(p, g.p, t, n \div block_size)
               /\ Keeps(q, g.q) /\ g.q.blocks = q.blocks
<1> DEFINE full == n \div block_size
           from == q.cached
           x == cache_full_blocks(p, t, tab[r], from, full, Group, from+1..full)
           c == IF from < full THEN full ELSE from
           z == [q EXCEPT !.cached = c]
<1>1. from \in Nat
  BY RequestType
<1>2. full \in Int /\ full * block_size <= n
  BY Division
<1>3. full * block_size <= Len(t)
  <2>1. Len(t) \in Nat /\ block_size \in Nat
    BY BlockPoolAssumption
  <2> HIDE DEF full
  <2> QED BY <1>2, <2>1
<1>4. cache_blocks(p, q, t, n) = [p |-> x, q |-> z]
  BY DEF cache_blocks
<1> HIDE DEF from, full
<1>5. Backed(x, tab, deferred) /\ SameFree(p, x) /\ EntersPrefixes(p, x, t, full)
  <2>1. full <= Len(tab[r])
    BY DEF full
  <2> QED BY <1>1, <1>2, <1>3, <2>1, CacheStage
<1>6. c \in Nat
  BY <1>1, <1>2
<1> HIDE DEF c
<1>7. Keeps(q, z) /\ z.blocks = q.blocks
  BY <1>6, CachedField
<1> HIDE DEF x, z
<1> DEFINE g == cache_blocks(p, q, t, n)
<1>8. g.p = x /\ g.q = z
  BY <1>4
<1> HIDE DEF g
<1> QED BY <1>5, <1>7, <1>8 DEF g, full

(* The arguments of allocate_slots that its callers pass                    *)
MayAllocate(r, a) ==
    /\ MayTouch(Tables(req), r, a.hit)
    /\ a.new \in Nat /\ a.ext \in Nat /\ a.lookahead \in Nat /\ a.reserved \in Nat
    /\ a.ext = 0 \/ (a.new = 0 /\ a.lookahead = 0 /\ LocalComputed(r, a) + a.ext <= max_model_len)

LEMMA ArgumentTypes ==
    ASSUME req \in [Requests -> Request], NEW r \in Requests, NEW a, MayAllocate(r, a)
    PROVE  /\ LocalComputed(r, a) \in Int /\ TotalComputed(r, a) \in Int /\ NeedSlot(r, a) \in Int
           /\ ToCache(r, a) \in Int /\ Processed(r, a) \in Nat
           /\ Watermark(r) \in Nat /\ watermark_blocks \in Nat /\ max_model_len \in Nat
           /\ req[r] \in Request /\ Text[r] \in Tokens /\ Len(Text[r]) \in Nat
           /\ a.new \in Nat /\ a.ext \in Nat /\ a.lookahead \in Nat /\ a.reserved \in Nat /\ Len(a.hit) \in Nat
<1>1. a.new \in Nat /\ a.ext \in Nat /\ a.lookahead \in Nat /\ a.reserved \in Nat
  BY DEF MayAllocate
<1>2. Len(a.hit) \in Nat
  BY DEF MayAllocate, MayTouch
<1>3. req[r] \in Request
  OBVIOUS
<1>4. req[r].computed \in Int /\ req[r].num_tokens \in Nat /\ req[r].flight \in Seq(Step)
  BY <1>3, RequestType
<1>5. in_flight(req[r]) \in Nat
  BY <1>4, InFlightType
<1>6. max_model_len \in Nat /\ watermark_blocks \in Nat /\ block_size \in Nat /\ Text[r] \in Tokens
  BY KVCacheManagerAssumption, BlockPoolAssumption
<1>7. Len(Text[r]) \in Nat
  BY <1>6, BlockPoolAssumption
<1>8. LocalComputed(r, a) \in Int
  BY <1>2, <1>4, <1>6 DEF LocalComputed
<1>9. TotalComputed(r, a) \in Int
  BY <1>1, <1>6, <1>8 DEF TotalComputed, Least
<1>10. NeedSlot(r, a) \in Int
  BY <1>1, <1>6, <1>9 DEF NeedSlot, Least
<1>11. ToCache(r, a) \in Int
  BY <1>1, <1>4, <1>9 DEF ToCache, Least
<1>12. Processed(r, a) \in Nat
  BY <1>5, <1>9 DEF Processed, AtLeast0
<1>13. Watermark(r) \in Nat
  BY <1>6 DEF Watermark
<1> QED BY <1>1, <1>2, <1>3, <1>6, <1>7, <1>8, <1>9, <1>10, <1>11, <1>12, <1>13

LEMMA Room ==
    ASSUME NEW p_free \in Nat, NEW x_free \in Nat, NEW hits \in Nat, NEW m \in Nat, NEW w \in Nat, NEW reserved \in Nat,
           p_free = x_free + hits, m + hits + w <= p_free - reserved
    PROVE  m + w <= x_free
OBVIOUS

LEMMA LeastOfLeast ==
    ASSUME NEW n \in Int, NEW m \in Nat, NEW l \in Nat, NEW max \in Nat, NEW k \in Nat, m <= max
    PROVE  Least(n + k, m) <= Least(n + k + l, max) /\ Least(n + k, m) <= m
BY DEF Least

(* Slots for external tokens and slots for the rest are together no more    *)
(* than the blocks that were counted.                                       *)
LEMMA TwiceMissing ==
    ASSUME NEW len \in Nat, NEW n \in Int, NEW m \in Int, m = 0 \/ m = n
    PROVE  LET first == AtLeast0(cdiv(m, block_size) - len)
               second == AtLeast0(cdiv(n, block_size) - (len + first))
           IN  /\ first \in Nat /\ second \in Nat
               /\ first + second = AtLeast0(cdiv(n, block_size) - len)
               /\ cdiv(n, block_size) <= len + first + second
<1> DEFINE c == cdiv(n, block_size)
           d == cdiv(m, block_size)
           first == AtLeast0(d - len)
           second == AtLeast0(c - (len + first))
<1>1. c \in Int /\ d \in Int /\ (d = 0 \/ d = c)
  BY CdivFacts
<1> HIDE DEF c, d
<1>2. first \in Nat /\ (IF d <= len THEN first = 0 ELSE first = d - len)
  BY <1>1 DEF AtLeast0
<1> HIDE DEF first
<1>3. second \in Nat /\ (IF c <= len + first THEN second = 0 ELSE second = c - (len + first))
  BY <1>1, <1>2 DEF AtLeast0
<1> HIDE DEF second
<1>4. AtLeast0(c - len) = IF c <= len THEN 0 ELSE c - len
  BY <1>1 DEF AtLeast0
<1>5. first + second = AtLeast0(c - len) /\ c <= len + first + second
  BY <1>1, <1>2, <1>3, <1>4
<1> QED BY <1>2, <1>3, <1>5 DEF c, d, first, second

(* A successful allocation                                                  *)
IsAllocated(r, a, s) ==
    /\ Backed(s.p, Relist(Tables(req), r, s.q.blocks), popped) /\ Keeps(req[r], s.q)
    /\ cdiv(NeedSlot(r, a), block_size) <= Len(s.q.blocks)
    /\ get_num_free_blocks(s.p) >= Watermark(r)
    /\ IF a.delay THEN \A c \in Blocks, k \in Keys : contain(s.p, k, c) => contain(pool, k, c)
       ELSE EntersPrefixes(pool, s.p, Text[r], ToCache(r, a) \div block_size)
    /\ \A i \in DOMAIN s.q.blocks : s.q.blocks[i] = null_block =>
           /\ i \in DOMAIN req[r].blocks
           /\ i <= NumSkipped(Processed(r, a)) \/ req[r].blocks[i] = null_block

LEMMA AllocatedEffect ==
    ASSUME Backed(pool, Tables(req), popped), req \in [Requests -> Request], NEW r \in Requests, NEW a,
           MayAllocate(r, a), SlotsFit(r, a), req[r].num_tokens <= Len(Text[r])
    PROVE  IsAllocated(r, a, Allocated(r, a))
<1> DEFINE tab == Tables(req)
           L == LocalComputed(r, a)
           N == NeedSlot(r, a)
           n1 == IF a.ext = 0 THEN 0 ELSE L + a.ext
           s == Trimmed(r, a)
           x == touch(s.p, a.hit)
           z == WithHits(s.q, a.hit)
           g == Grow(x, z, n1)
           h == Grow(g.p, g.q, N)
           e == cache_blocks(h.p, h.q, Text[r], ToCache(r, a))
           skipped == NumSkipped(Processed(r, a))
           free_hits == Cardinality(FreeHits(s.p, a.hit))
           len == Len(z.blocks)
           first == AtLeast0(cdiv(n1, block_size) - len)
           second == AtLeast0(cdiv(N, block_size) - (len + first))
<1>1. /\ L \in Int /\ TotalComputed(r, a) \in Int /\ N \in Int /\ ToCache(r, a) \in Int
      /\ Processed(r, a) \in Nat /\ Watermark(r) \in Nat /\ max_model_len \in Nat
      /\ req[r] \in Request /\ Text[r] \in Tokens /\ Len(Text[r]) \in Nat
      /\ a.new \in Nat /\ a.ext \in Nat /\ a.lookahead \in Nat /\ a.reserved \in Nat /\ Len(a.hit) \in Nat
  BY ArgumentTypes
<1>2. n1 \in Int /\ (n1 = 0 \/ n1 = N)
  <2>1. CASE a.ext = 0
    BY <2>1
  <2>2. CASE a.ext # 0
    <3>1. a.new = 0 /\ a.lookahead = 0 /\ L + a.ext <= max_model_len
      BY <2>2 DEF MayAllocate
    <3>2. TotalComputed(r, a) = L + a.ext
      BY <1>1, <3>1 DEF TotalComputed, Least
    <3>3. N = L + a.ext
      BY <1>1, <3>1, <3>2 DEF NeedSlot, Least
    <3> HIDE DEF L, N
    <3> QED BY <1>1, <2>2, <3>3
  <2> QED BY <2>1, <2>2
<1>3. /\ skipped \in Nat /\ Keeps(req[r], s.q) /\ s.q.blocks = Nulled(req[r].blocks, skipped)
      /\ Len(s.q.blocks) = Len(req[r].blocks) /\ SameCache(pool, s.p)
      /\ Backed(s.p, Relist(tab, r, s.q.blocks), popped)
  BY <1>1, TrimmedEffect
<1>4. Allocated(r, a) = IF a.delay THEN h ELSE e
  BY DEF Allocated, WithComputed, WithHits
<1> HIDE DEF s, L, N, n1
<1>5. s.q \in Request /\ s.q.blocks \in Seq(Blocks) /\ tab \in Lists /\ tab[r] = req[r].blocks
  <2>1. s.q \in Request
    BY <1>3 DEF Keeps
  <2>2. tab \in Lists /\ tab[r] = req[r].blocks
    BY <1>1, TablesFacts
  <2> QED BY <2>1, <2>2, RequestType
<1> HIDE DEF tab
<1> DEFINE tab1 == Relist(tab, r, s.q.blocks)
<1>6. tab1[r] = s.q.blocks /\ \A y : Relist(tab1, r, y) = Relist(tab, r, y)
  BY <1>5, ListUpdates
<1>7. req[r].blocks \in Seq(Blocks) /\ Unique(req[r].blocks)
  <2>1. Unique(Tables(req)[r])
    BY DEF Backed
  <2> QED BY <1>1, <1>5, <2>1, RequestType DEF tab
<1>8. MayTouch(tab1, r, a.hit)
  <2>1. /\ a.hit \in Seq(Blocks) /\ IsInjective(a.hit) /\ null_block \notin ToSet(a.hit)
        /\ \A b \in Blocks : b \in ToSet(a.hit) => b \notin ToSet(req[r].blocks)
    BY <1>5 DEF MayAllocate, MayTouch, tab
  <2>2. ASSUME NEW b \in Blocks, b \in ToSet(a.hit)
        PROVE  b \notin ToSet(tab1[r])
    <3>1. b # null_block /\ b \notin ToSet(req[r].blocks)
      BY <2>1, <2>2
    <3>2. b \in ToSet(Nulled(req[r].blocks, skipped)) => \E i \in DOMAIN req[r].blocks : req[r].blocks[i] = b
      BY <1>3, <1>7, <3>1, NulledFacts
    <3>3. (\E i \in DOMAIN req[r].blocks : req[r].blocks[i] = b) => b \in ToSet(req[r].blocks)
      BY DEF ToSet
    <3> QED BY <1>3, <1>6, <3>1, <3>2, <3>3
  <2> QED BY <2>1, <2>2 DEF MayTouch
<1> HIDE DEF skipped
<1>9. /\ Backed(x, Relist(tab, r, z.blocks), popped) /\ SameCache(s.p, x) /\ Extends(s.q, z)
      /\ Len(s.p.free) = Len(x.free) + free_hits /\ free_hits \in Nat /\ len = Len(s.q.blocks) + Len(a.hit)
  <2> HIDE DEF tab1
  <2>1. /\ Backed(x, Relist(tab1, r, z.blocks), popped) /\ SameCache(s.p, x) /\ Extends(s.q, z)
        /\ Len(s.p.free) = Len(x.free) + free_hits /\ free_hits \in Nat /\ len = Len(s.q.blocks) + Len(a.hit)
    <3>1. s.q \in Request /\ s.q.blocks = tab1[r] /\ MayTouch(tab1, r, a.hit)
      BY <1>5, <1>6, <1>8
    <3>2. Backed(s.p, tab1, popped)
      BY <1>3 DEF tab1
    <3> HIDE DEF x, z, free_hits, len
    <3>3. IsTouched(s.p, tab1, popped, r, s.q, a.hit, touch(s.p, a.hit), WithHits(s.q, a.hit))
      BY <3>1, <3>2, HitStage
    <3>4. IsTouched(s.p, tab1, popped, r, s.q, a.hit, x, z)
      BY <3>3 DEF x, z
    <3> QED BY <3>4 DEF IsTouched, free_hits, len
  <2> QED BY <1>6, <2>1
<1>10. AtLeast0(cdiv(N, block_size) - len) + free_hits + Watermark(r) <= Len(s.p.free) - a.reserved
  <2>1. get_num_blocks_to_allocate(s.p, s.q, N, a.hit) + Watermark(r) <= get_num_free_blocks(s.p) - a.reserved
    BY DEF SlotsFit, s, N
  <2>2. get_num_blocks_to_allocate(s.p, s.q, N, a.hit)
            = AtLeast0(cdiv(N, block_size) - Len(s.q.blocks) - Len(a.hit)) + free_hits
    BY DEF get_num_blocks_to_allocate, FreeHits
  <2>3. cdiv(N, block_size) - Len(s.q.blocks) - Len(a.hit) = cdiv(N, block_size) - len
    <3> DEFINE c == cdiv(N, block_size)
               l == Len(s.q.blocks)
               m == Len(a.hit)
    <3>1. c \in Int /\ m \in Nat /\ l \in Nat
      <4>1. N \in Int /\ m \in Nat
        BY <1>1
      <4>2. l \in Nat
        BY <1>5
      <4> QED BY <4>1, <4>2, CdivFacts
    <3>2. len = l + m
      BY <1>9
    <3> HIDE DEF len, c, l, m
    <3>3. c - l - m = c - len
      BY <3>1, <3>2
    <3> QED BY <3>3 DEF c, l, m
  <2> HIDE DEF free_hits, len
  <2> QED BY <2>1, <2>2, <2>3 DEF get_num_free_blocks
<1>11. z \in Request /\ len \in Nat
  <2>1. z \in Request
    BY <1>9 DEF Extends, Keeps
  <2> HIDE DEF z
  <2> QED BY <2>1, RequestType
<1> HIDE DEF x, z, free_hits, len, tab1
<1>12. /\ first \in Nat /\ second \in Nat /\ first + second = AtLeast0(cdiv(N, block_size) - len)
       /\ cdiv(N, block_size) <= len + first + second
  BY <1>1, <1>2, <1>11, TwiceMissing
<1>13. Missing(z, n1) = first
  BY DEF Missing, len
<1> HIDE DEF first
<1>14. Len(x.free) \in Nat /\ first + second + Watermark(r) <= Len(x.free)
  <2>1. x.free \in Seq(Blocks)
    BY <1>9, PoolFields DEF Backed
  <2>2. Len(x.free) \in Nat
    BY <2>1
  <2>3. s.p.free \in Seq(Blocks)
    BY <1>3, PoolFields DEF Backed
  <2>4. Len(s.p.free) \in Nat
    BY <2>3
  <2>5. Watermark(r) \in Nat /\ a.reserved \in Nat
    BY <1>1
  <2>6. Len(s.p.free) = Len(x.free) + free_hits /\ free_hits \in Nat
    BY <1>9
  <2> HIDE DEF second
  <2>7. first + second \in Nat /\ first + second = AtLeast0(cdiv(N, block_size) - len)
    BY <1>12
  <2>8. (first + second) + free_hits + Watermark(r) <= Len(s.p.free) - a.reserved
    BY <1>10, <2>7
  <2>9. (first + second) + Watermark(r) <= Len(x.free)
    BY <2>2, <2>4, <2>5, <2>6, <2>7, <2>8, Room
  <2> QED BY <2>2, <2>9
<1>15. /\ Backed(g.p, Relist(tab, r, g.q.blocks), popped) /\ Extends(z, g.q)
       /\ Len(g.p.free) = Len(x.free) - first /\ Len(g.q.blocks) = len + first
       /\ \A c \in Blocks, k \in Keys : contain(g.p, k, c) => contain(x, k, c)
  <2> DEFINE tab2 == Relist(tab, r, z.blocks)
  <2>1. z.blocks \in Seq(Blocks)
    BY <1>11, RequestType
  <2>2. tab2[r] = z.blocks /\ \A y : Relist(tab2, r, y) = Relist(tab, r, y)
    BY <1>5, <2>1, ListUpdates
  <2>3. Missing(z, n1) <= Len(x.free)
    <3> HIDE DEF second
    <3> QED BY <1>1, <1>12, <1>13, <1>14
  <2>4. Backed(x, tab2, popped)
    BY <1>9
  <2> HIDE DEF tab2, g
  <2>5. /\ Backed(g.p, Relist(tab2, r, g.q.blocks), popped) /\ Extends(z, g.q)
        /\ Len(g.p.free) = Len(x.free) - Missing(z, n1) /\ Len(g.q.blocks) = Len(z.blocks) + Missing(z, n1)
        /\ \A c \in Blocks, k \in Keys : contain(g.p, k, c) => contain(x, k, c)
    <3>1. IsGrown(x, tab2, popped, r, z, n1, Grow(x, z, n1))
      BY <1>2, <1>11, <2>2, <2>3, <2>4, GrowStage
    <3>2. IsGrown(x, tab2, popped, r, z, n1, g)
      BY <3>1 DEF g
    <3> QED BY <3>2 DEF IsGrown
  <2> QED BY <1>13, <2>2, <2>5 DEF len
<1> HIDE DEF g
<1>16. g.q \in Request
  BY <1>15 DEF Extends, Keeps
<1>17. Missing(g.q, N) = second
  BY <1>15 DEF Missing
<1> HIDE DEF second
<1>18. /\ Backed(h.p, Relist(tab, r, h.q.blocks), popped) /\ Extends(g.q, h.q)
       /\ Len(h.p.free) = Len(x.free) - first - second /\ Len(h.q.blocks) = len + first + second
       /\ \A c \in Blocks, k \in Keys : contain(h.p, k, c) => contain(g.p, k, c)
  <2> DEFINE tab3 == Relist(tab, r, g.q.blocks)
  <2>1. g.q.blocks \in Seq(Blocks)
    BY <1>16, RequestType
  <2>2. tab3[r] = g.q.blocks /\ \A y : Relist(tab3, r, y) = Relist(tab, r, y)
    BY <1>5, <2>1, ListUpdates
  <2>3. Missing(g.q, N) <= Len(g.p.free)
    BY <1>1, <1>12, <1>14, <1>15, <1>17
  <2>4. Backed(g.p, tab3, popped)
    BY <1>15
  <2> HIDE DEF tab3, h
  <2>5. /\ Backed(h.p, Relist(tab3, r, h.q.blocks), popped) /\ Extends(g.q, h.q)
        /\ Len(h.p.free) = Len(g.p.free) - Missing(g.q, N) /\ Len(h.q.blocks) = Len(g.q.blocks) + Missing(g.q, N)
        /\ \A c \in Blocks, k \in Keys : contain(h.p, k, c) => contain(g.p, k, c)
    <3>1. N \in Int
      BY <1>1
    <3>2. IsGrown(g.p, tab3, popped, r, g.q, N, Grow(g.p, g.q, N))
      BY <1>16, <2>2, <2>3, <2>4, <3>1, GrowStage
    <3>3. IsGrown(g.p, tab3, popped, r, g.q, N, h)
      BY <3>2 DEF h
    <3> QED BY <3>3 DEF IsGrown
  <2>6. Backed(h.p, Relist(tab, r, h.q.blocks), popped)
    BY <2>2, <2>5
  <2> QED BY <1>15, <1>17, <2>5, <2>6
<1> HIDE DEF h
<1>19. Len(h.p.free) >= Watermark(r) /\ cdiv(N, block_size) <= Len(h.q.blocks)
  BY <1>1, <1>12, <1>14, <1>18
<1>20. \A c \in Blocks, k \in Keys : contain(h.p, k, c) => contain(pool, k, c)
  <2>1. \A k, c : contain(s.p, k, c) <=> contain(pool, k, c)
    BY <1>3, SameAgree
  <2>2. \A k, c : contain(x, k, c) <=> contain(s.p, k, c)
    BY <1>9, SameAgree
  <2> QED BY <1>15, <1>18, <2>1, <2>2
<1>21. Extends(s.q, h.q)
  BY <1>9, <1>15, <1>18, ExtendsTransitive
<1>22. Keeps(req[r], h.q)
  BY <1>3, <1>21 DEF Extends, Keeps
<1>23. ASSUME NEW i \in DOMAIN h.q.blocks, h.q.blocks[i] = null_block
       PROVE  i \in DOMAIN req[r].blocks /\ (i <= skipped \/ req[r].blocks[i] = null_block)
  <2>1. i \in DOMAIN s.q.blocks /\ s.q.blocks[i] = null_block
    BY <1>21, <1>23 DEF Extends
  <2> QED BY <1>3, <2>1 DEF Nulled
<1>24. CASE a.delay
  <2>1. IsAllocated(r, a, h)
    BY <1>18, <1>19, <1>20, <1>22, <1>23, <1>24 DEF IsAllocated, tab, N, skipped, get_num_free_blocks
  <2> QED BY <1>4, <1>24, <2>1
<1>25. CASE ~a.delay
  <2> DEFINE tab4 == Relist(tab, r, h.q.blocks)
             C == ToCache(r, a)
  <2>1. h.q \in Request
    BY <1>22 DEF Keeps
  <2>2. h.q.blocks \in Seq(Blocks)
    BY <2>1, RequestType
  <2>3. tab4[r] = h.q.blocks
    BY <1>5, <2>2, ListUpdates
  <2>4. C <= Len(Text[r]) /\ C <= N
    <3>1. req[r].num_tokens \in Nat /\ Len(Text[r]) <= max_model_len
      BY <1>1, RequestType, KVCacheManagerAssumption
    <3>2. TotalComputed(r, a) \in Int /\ a.new \in Nat /\ a.lookahead \in Nat /\ max_model_len \in Nat
      BY <1>1
    <3>3. Len(Text[r]) \in Nat /\ req[r].num_tokens <= max_model_len
      BY <1>1, <3>1, <3>2
    <3>4. C <= N /\ C <= req[r].num_tokens
      BY <3>1, <3>2, <3>3, LeastOfLeast DEF ToCache, N, NeedSlot
    <3>5. C \in Int
      BY <1>1
    <3> HIDE DEF C
    <3> QED BY <3>1, <3>3, <3>4, <3>5
  <2>5. C \div block_size <= Len(h.q.blocks)
    <3>1. C \div block_size <= cdiv(N, block_size) /\ cdiv(N, block_size) \in Int /\ C \div block_size \in Int
      BY <1>1, <2>4, CdivFacts, Division
    <3>2. Len(h.q.blocks) \in Nat
      BY <2>2
    <3> QED BY <1>19, <3>1, <3>2
  <2>6. Backed(h.p, tab4, popped)
    BY <1>18
  <2>7. C \in Int /\ Text[r] \in Tokens
    BY <1>1
  <2> HIDE DEF tab4, C, e
  <2>8. /\ Backed(e.p, tab4, popped) /\ SameFree(h.p, e.p) /\ EntersPrefixes(h.p, e.p, Text[r], C \div block_size)
        /\ Keeps(h.q, e.q) /\ e.q.blocks = h.q.blocks
    BY <2>1, <2>3, <2>4, <2>5, <2>6, <2>7, CacheBlocksStage DEF e, C
  <2>9. Keeps(req[r], e.q) /\ Len(e.p.free) >= Watermark(r)
    BY <1>19, <1>22, <2>8 DEF Keeps, SameFree
  <2>10. EntersPrefixes(pool, e.p, Text[r], C \div block_size)
    BY <1>20, <2>8 DEF EntersPrefixes
  <2>11. Backed(e.p, Relist(tab, r, e.q.blocks), popped)
    BY <2>8 DEF tab4
  <2>12. IsAllocated(r, a, e)
    BY <1>19, <1>23, <1>25, <2>8, <2>9, <2>10, <2>11 DEF IsAllocated, tab, N, skipped, C, get_num_free_blocks
  <2> QED BY <1>4, <1>25, <2>12
<1> QED BY <1>24, <1>25


----------------------------------------------------------------------------
(* The inductive invariant                                                  *)

(* Only blocks that lie before the window of every token still to be        *)
(* processed were given back.                                               *)
NullsSkipped(q) ==
    \A i \in DOMAIN q.blocks : q.blocks[i] = null_block => i <= NumSkipped(q.computed - in_flight(q))

RequestOK(q, own, t) ==
    /\ q.num_tokens <= Len(t)
    /\ q.status \in {"waiting", "preempted", "loading"} => q.computed \in 0..q.num_tokens
    /\ q.status \in {"waiting", "preempted"} /\ q.computed = 0 => q.blocks = <<>>
    /\ q.status = "loading" => null_block \notin ToSet(q.blocks)
    /\ q.status = "running" => q.computed - in_flight(q) \in Nat /\ (q.flight = <<>> => q.computed # 0)
    /\ q.status # "running" => q.flight = <<>>
    /\ q.status # "done" => own = <<>> /\ cdiv(q.computed, block_size) <= Len(q.blocks) /\ NullsSkipped(q)

Sound(p, rq, deferred) ==
    /\ rq \in [Requests -> Request]
    /\ Backed(p, Tables(rq), deferred)
    /\ \A r \in Requests : RequestOK(rq[r], deferred[r], Text[r])

Inv == Sound(pool, req, popped)

(* Only the request r changes.                                              *)
Rerecord(rq, r, z) == [rq EXCEPT ![r] = z]

LEMMA RerecordFacts ==
    ASSUME NEW rq \in [Requests -> Request], NEW r \in Requests, NEW z \in Request
    PROVE  /\ Rerecord(rq, r, z) \in [Requests -> Request] /\ Rerecord(rq, r, z)[r] = z
           /\ \A s \in Requests : s # r => Rerecord(rq, r, z)[s] = rq[s]
           /\ Tables(Rerecord(rq, r, z)) = Relist(Tables(rq), r, z.blocks)
<1>1. Tables([rq EXCEPT ![r] = z]) = Relist(Tables(rq), r, z.blocks)
  BY TablesFacts
<1> QED BY <1>1 DEF Rerecord

LEMMA SoundStep ==
    ASSUME NEW p, NEW rq, NEW deferred, Sound(p, rq, deferred), NEW r \in Requests, NEW z \in Request, NEW q,
           Backed(q, Relist(Tables(rq), r, z.blocks), deferred), RequestOK(z, deferred[r], Text[r])
    PROVE  Sound(q, Rerecord(rq, r, z), deferred)
<1>1. rq \in [Requests -> Request] /\ \A s \in Requests : RequestOK(rq[s], deferred[s], Text[s])
  BY DEF Sound
<1>2. /\ Rerecord(rq, r, z) \in [Requests -> Request] /\ Rerecord(rq, r, z)[r] = z
      /\ \A s \in Requests : s # r => Rerecord(rq, r, z)[s] = rq[s]
      /\ Tables(Rerecord(rq, r, z)) = Relist(Tables(rq), r, z.blocks)
  BY <1>1, RerecordFacts
<1>3. ASSUME NEW s \in Requests
      PROVE  RequestOK(Rerecord(rq, r, z)[s], deferred[s], Text[s])
  <2>1. CASE s = r
    BY <1>2, <2>1
  <2>2. CASE s # r
    BY <1>1, <1>2, <2>2
  <2> QED BY <2>1, <2>2
<1> QED BY <1>2, <1>3 DEF Sound

LEMMA SkippedFacts ==
    /\ \A n \in Int : NumSkipped(n) \in Nat /\ NumSkipped(AtLeast0(n)) = NumSkipped(n)
    /\ \A m, n \in Int : m <= n => NumSkipped(m) <= NumSkipped(n)
<1>1. Window \in Nat \ {0} /\ block_size \in Nat \ {0}
  BY KVCacheManagerAssumption, BlockPoolAssumption
<1>2. ASSUME NEW n \in Int PROVE NumSkipped(n) \in Nat /\ NumSkipped(AtLeast0(n)) = NumSkipped(n)
  <2>1. AtLeast0(n - Window + 1) \in Nat
    BY <1>1 DEF AtLeast0
  <2>2. AtLeast0(AtLeast0(n) - Window + 1) = AtLeast0(n - Window + 1)
    BY <1>1 DEF AtLeast0
  <2>3. NumSkipped(n) \in Nat
    BY <1>1, <2>1 DEF NumSkipped
  <2> QED BY <2>2, <2>3 DEF NumSkipped
<1>3. ASSUME NEW m \in Int, NEW n \in Int, m <= n PROVE NumSkipped(m) <= NumSkipped(n)
  <2> DEFINE x == AtLeast0(m - Window + 1)
             y == AtLeast0(n - Window + 1)
  <2>1. x \in Int /\ y \in Int /\ x <= y
    BY <1>1, <1>3 DEF AtLeast0
  <2>2. NumSkipped(m) = x \div block_size /\ NumSkipped(n) = y \div block_size
    BY DEF NumSkipped
  <2> HIDE DEF x, y
  <2> QED BY <2>1, <2>2, DivisionMonotone
<1> QED BY <1>2, <1>3

(* The table of a request that gives it up                                  *)
LEMMA FreeWhole ==
    ASSUME NEW p, NEW rq, NEW deferred, Sound(p, rq, deferred), NEW r \in Requests, NEW z \in Request,
           z.blocks = <<>>, RequestOK(z, deferred[r], Text[r]), z.num_tokens = rq[r].num_tokens
    PROVE  Sound(Free(p, rq[r].blocks), Rerecord(rq, r, z), deferred)
<1> DEFINE q == Free(p, rq[r].blocks)
           none == <<>>
<1>1. rq \in [Requests -> Request] /\ Backed(p, Tables(rq), deferred)
  BY DEF Sound
<1>2. Tables(rq)[r] = rq[r].blocks
  <2>1. rq[r] \in Request
    BY <1>1
  <2> QED BY <1>1, <2>1, TablesFacts
<1>3. Backed(q, Relist(Tables(rq), r, <<>>), deferred) /\ SameCache(p, q)
  BY <1>1, <1>2, FreeStage
<1> HIDE DEF q
<1>4. \A b \in Blocks, k \in Keys : contain(q, k, b) => contain(p, k, b)
  BY <1>3, SameAgree
<1>5. rq[r].num_tokens \in Nat /\ z.num_tokens \in Nat
  BY RequestType
<1>7. Backed(q, Relist(Tables(rq), r, z.blocks), deferred)
  BY <1>3
<1> QED BY <1>7, SoundStep DEF q

----------------------------------------------------------------------------
(* Steps that are put in flight                                             *)

(* What a request that is neither loading nor done keeps                    *)
LEMMA ScheduledFacts ==
    ASSUME Inv, NEW r \in Requests, req[r].status \in {"waiting", "preempted", "running"}
    PROVE  LET q == req[r]
           IN  /\ q \in Request /\ popped[r] = <<>> /\ NullsSkipped(q) /\ q.num_tokens <= Len(Text[r])
               /\ in_flight(q) \in Nat /\ q.computed \in Nat /\ q.computed - in_flight(q) \in Nat
               /\ q.flight \in Seq(Step) /\ q.num_tokens \in Nat \ {0}
               /\ q.computed = 0 => q.blocks = <<>>
               /\ q.status = "running" => q.computed # 0
<1> DEFINE q == req[r]
<1>1. q \in Request /\ RequestOK(q, popped[r], Text[r])
  BY DEF Inv, Sound
<1> HIDE DEF q
<1>2. q.computed \in Int /\ q.num_tokens \in Nat \ {0} /\ q.flight \in Seq(Step)
  BY <1>1, RequestType
<1>3. in_flight(q) \in Nat
  BY <1>2, InFlightType
<1>4. popped[r] = <<>> /\ NullsSkipped(q) /\ q.num_tokens <= Len(Text[r])
  BY <1>1 DEF RequestOK, q
<1>5. CASE q.status = "running"
  <2>1. q.computed - in_flight(q) \in Nat /\ (q.flight = <<>> => q.computed # 0)
    BY <1>1, <1>5 DEF RequestOK
  <2>2. q.computed \in Nat
    BY <1>2, <1>3, <2>1
  <2>3. ASSUME q.computed = 0 PROVE FALSE
    <3>1. in_flight(q) = 0 /\ q.flight # <<>>
      BY <1>3, <2>1, <2>3
    <3>2. PICK f : Sums(f, q.flight) /\ in_flight(q) = f[Len(q.flight)]
      BY <1>2, InFlightSteps
    <3> DEFINE s == q.flight
               n == Len(s)
    <3>3. n \in Nat \ {0} /\ s \in Seq(Step)
      BY <1>2, <3>1
    <3>4. f[n] = f[n-1] + s[n].n /\ f[n-1] \in Nat
      <4>1. n \in 1..Len(s) /\ n - 1 \in 0..Len(s) /\ Sums(f, s)
        BY <3>2, <3>3
      <4> HIDE DEF n, s
      <4> QED BY <4>1 DEF Sums
    <3>5. s[n].n \in Nat /\ s[n].n > 0
      <4>1. n \in 1..Len(s)
        BY <3>3
      <4> HIDE DEF n, s
      <4>2. s[n].n \in Nat /\ s[n].drafts \in Nat /\ s[n].drafts < s[n].n
        BY <3>3, <4>1, StepType
      <4> QED BY <4>2
    <3> QED BY <3>1, <3>2, <3>4, <3>5
  <2> QED BY <1>1, <1>2, <1>3, <1>4, <2>1, <2>2, <2>3 DEF q
<1>6. CASE q.status \in {"waiting", "preempted"}
  <2>1. q.computed \in 0..q.num_tokens /\ (q.computed = 0 => q.blocks = <<>>) /\ q.flight = <<>>
    BY <1>1, <1>6 DEF RequestOK
  <2>2. in_flight(q) = 0
    BY <2>1, InFlightNone
  <2>3. q.status # "running"
    BY <1>6
  <2> QED BY <1>1, <1>2, <1>3, <1>4, <2>1, <2>2, <2>3 DEF q
<1> QED BY <1>5, <1>6 DEF q

(* The record of r once its step is in flight                               *)
Launched(q, computed, step) ==
    [q EXCEPT !.status = "running", !.computed = computed, !.flight = Append(@, step)]

LEMMA LaunchedFields ==
    ASSUME NEW q \in Request, NEW computed \in Int, NEW step \in Step
    PROVE  LET z == Launched(q, computed, step)
           IN  /\ z \in Request /\ z.status = "running" /\ z.computed = computed /\ z.flight = Append(q.flight, step)
               /\ z.blocks = q.blocks /\ z.num_tokens = q.num_tokens /\ z.cached = q.cached
<1> DEFINE z == Launched(q, computed, step)
<1>1. q.flight \in Seq(Step)
  BY RequestType
<1>2. Append(q.flight, step) \in Seq(Step) /\ "running" \in Statuses
  BY <1>1 DEF Statuses
<1> DEFINE f == Append(q.flight, step)
<1> HIDE DEF f
<1>3. z = [q EXCEPT !.status = "running", !.computed = computed, !.flight = f]
  BY DEF Launched, f
<1>4. f \in Seq(Step)
  BY <1>2 DEF f
<1>5. /\ z \in Request /\ z.status = "running" /\ z.computed = computed /\ z.flight = f
      /\ z.blocks = q.blocks /\ z.num_tokens = q.num_tokens /\ z.cached = q.cached
  BY <1>2, <1>3, <1>4 DEF Request
<1> QED BY <1>5 DEF f

LEMMA TokenStep ==
    ASSUME NEW n \in Nat, NEW d \in Nat, d < n, NEW b \in BOOLEAN
    PROVE  LET x == [n |-> n, drafts |-> d, samples |-> b] IN x \in Step /\ x.n = n
BY DEF Step

(* what the callers of allocate_slots pass for a step *)
IsStep(r, a, d) ==
    /\ MayAllocate(r, a) /\ a.ext = 0 /\ ~a.delay
    /\ d \in Nat /\ d < a.new
    /\ LocalComputed(r, a) + a.new <= Len(Text[r])

LEMMA StepSizes ==
    ASSUME Inv, NEW r \in Requests, req[r].status \in {"waiting", "preempted", "running"}, NEW a, MayAllocate(r, a),
           a.ext = 0, LocalComputed(r, a) + a.new <= Len(Text[r])
    PROVE  /\ TotalComputed(r, a) = LocalComputed(r, a)
           /\ TotalComputed(r, a) \in Nat /\ TotalComputed(r, a) >= req[r].computed
           /\ TotalComputed(r, a) + a.new <= NeedSlot(r, a)
<1> DEFINE q == req[r]
           L == LocalComputed(r, a)
           T == TotalComputed(r, a)
           h == Len(a.hit)
<1>1. /\ L \in Int /\ T \in Int /\ NeedSlot(r, a) \in Int /\ max_model_len \in Nat /\ Len(Text[r]) \in Nat
      /\ a.new \in Nat /\ a.ext \in Nat /\ a.lookahead \in Nat /\ h \in Nat
  BY ArgumentTypes DEF Inv, Sound
<1>2. q.computed \in Nat
  BY ScheduledFacts
<1>3. Len(Text[r]) <= max_model_len /\ block_size \in Nat
  BY KVCacheManagerAssumption, BlockPoolAssumption
<1>4. L = q.computed + h * block_size
  BY DEF LocalComputed
<1>5. h * block_size \in Nat
  BY <1>1, <1>3
<1> HIDE DEF L, h, q
<1>6. T = Least(L + 0, max_model_len)
  BY DEF TotalComputed, L
<1>7. NeedSlot(r, a) = Least(T + a.new + a.lookahead, max_model_len)
  BY DEF NeedSlot
<1> HIDE DEF T
<1>8. L <= max_model_len /\ L + a.new <= max_model_len
  BY <1>1, <1>3 DEF L
<1>9. T = L
  BY <1>1, <1>6, <1>8 DEF Least
<1>10. T \in Nat /\ T >= q.computed
  BY <1>1, <1>2, <1>4, <1>5, <1>9
<1>11. T + a.new <= NeedSlot(r, a)
  BY <1>1, <1>7, <1>8, <1>9 DEF Least
<1> QED BY <1>9, <1>10, <1>11 DEF L, T, q

LEMMA LaunchStep ==
    ASSUME Inv, NEW r \in Requests, req[r].status \in {"waiting", "preempted", "running"}, NEW a, NEW d,
           IsStep(r, a, d), Launch(r, a, d)
    PROVE  Inv' /\ IsAllocated(r, a, Allocated(r, a)) /\ req'[r].status = "running"
<1> DEFINE q == req[r]
           s == Allocated(r, a)
           T == TotalComputed(r, a)
           computed == T + a.new
           samples == computed - d >= req[r].num_tokens
           x == [n |-> a.new, drafts |-> d, samples |-> samples]
           z == Launched(s.q, computed, x)
           t == Text[r]
<1>1. SlotsFit(r, a) /\ pool' = s.p /\ req' = Rerecord(req, r, z) /\ popped' = popped
  BY DEF Launch, Admits, Launched, Rerecord
<1>2. Sound(pool, req, popped) /\ req \in [Requests -> Request] /\ Backed(pool, Tables(req), popped)
  BY DEF Inv, Sound
<1>3. /\ q \in Request /\ popped[r] = <<>> /\ NullsSkipped(q) /\ q.num_tokens <= Len(t)
      /\ in_flight(q) \in Nat /\ q.computed \in Nat /\ q.computed - in_flight(q) \in Nat
      /\ q.flight \in Seq(Step) /\ q.num_tokens \in Nat \ {0}
  BY ScheduledFacts
<1>4. /\ MayAllocate(r, a) /\ a.ext = 0 /\ ~a.delay /\ d \in Nat /\ d < a.new
      /\ LocalComputed(r, a) + a.new <= Len(t)
  BY DEF IsStep
<1>5. T \in Nat /\ T >= q.computed /\ T + a.new <= NeedSlot(r, a)
  BY <1>4, StepSizes
<1>6. /\ NeedSlot(r, a) \in Int /\ ToCache(r, a) \in Int /\ Processed(r, a) \in Nat /\ a.new \in Nat
  BY <1>2, <1>4, ArgumentTypes
<1>7. Len(t) \in Nat
  BY <1>2, <1>4, ArgumentTypes
<1>8. IsAllocated(r, a, s)
  BY <1>1, <1>2, <1>3, <1>4, AllocatedEffect
<1> HIDE DEF s
<1>9. /\ Backed(s.p, Relist(Tables(req), r, s.q.blocks), popped) /\ Keeps(q, s.q)
      /\ cdiv(NeedSlot(r, a), block_size) <= Len(s.q.blocks)
      /\ EntersPrefixes(pool, s.p, t, ToCache(r, a) \div block_size)
      /\ \A i \in DOMAIN s.q.blocks : s.q.blocks[i] = null_block =>
             i \in DOMAIN q.blocks /\ (i <= NumSkipped(Processed(r, a)) \/ q.blocks[i] = null_block)
  BY <1>4, <1>8 DEF IsAllocated
<1>10. x \in Step /\ x.n = a.new
  <2>1. samples \in BOOLEAN
    OBVIOUS
  <2> HIDE DEF samples
  <2> QED BY <1>4, <1>6, <2>1, TokenStep
<1>11. s.q \in Request /\ s.q.num_tokens = q.num_tokens /\ s.q.flight = q.flight
  BY <1>9 DEF Keeps
<1>12. computed \in Int /\ computed = T + a.new
  BY <1>5, <1>6
<1> HIDE DEF x, T, computed
<1>13. /\ z \in Request /\ z.status = "running" /\ z.computed = computed /\ z.flight = Append(q.flight, x)
       /\ z.blocks = s.q.blocks /\ z.num_tokens = q.num_tokens
  <2> DEFINE y == s.q
  <2>1. y \in Request /\ y.num_tokens = q.num_tokens /\ y.flight = q.flight
    BY <1>11
  <2>2. z = Launched(y, computed, x)
    OBVIOUS
  <2> HIDE DEF y, z, q
  <2>3. LET w == Launched(y, computed, x)
        IN  /\ w \in Request /\ w.status = "running" /\ w.computed = computed /\ w.flight = Append(y.flight, x)
            /\ w.blocks = y.blocks /\ w.num_tokens = y.num_tokens
    <3>1. computed \in Int /\ x \in Step
      BY <1>10, <1>12
    <3> QED BY <2>1, <3>1, LaunchedFields
  <2> QED BY <2>1, <2>2, <2>3 DEF y
<1> HIDE DEF z
<1>14. in_flight(z) = in_flight(q) + a.new
  <2> HIDE DEF q
  <2> QED BY <1>3, <1>10, <1>13, InFlightAppend
<1>15. Processed(r, a) = AtLeast0(T - in_flight(q))
  BY DEF Processed, T
<1> HIDE DEF q
<1>16. z.computed - in_flight(z) = T - in_flight(q) /\ z.computed - in_flight(z) \in Nat
  <2> DEFINE u == in_flight(q)
             v == in_flight(z)
  <2>1. u \in Nat /\ T \in Nat /\ a.new \in Nat /\ q.computed \in Nat /\ q.computed <= T /\ q.computed - u \in Nat
    BY <1>3, <1>5, <1>6
  <2>2. v = u + a.new /\ z.computed = T + a.new
    BY <1>12, <1>13, <1>14
  <2> HIDE DEF u, v
  <2>3. z.computed - v = T - u /\ z.computed - v \in Nat
    BY <2>1, <2>2
  <2> QED BY <2>3 DEF u, v
<1>17. NullsSkipped(z)
  <2>1. SUFFICES ASSUME NEW i \in DOMAIN s.q.blocks, s.q.blocks[i] = null_block
                 PROVE  i <= NumSkipped(T - in_flight(q))
    BY <1>13, <1>16 DEF NullsSkipped
  <2>2. i \in DOMAIN q.blocks /\ (i <= NumSkipped(Processed(r, a)) \/ q.blocks[i] = null_block)
    BY <1>9, <2>1
  <2> DEFINE u == q.computed - in_flight(q)
             v == T - in_flight(q)
  <2>3. u \in Int /\ v \in Int /\ u <= v
    BY <1>3, <1>5
  <2>4. Processed(r, a) = AtLeast0(v)
    BY <1>15
  <2> HIDE DEF u, v
  <2>5. NumSkipped(AtLeast0(v)) = NumSkipped(v) /\ NumSkipped(u) \in Nat /\ NumSkipped(v) \in Nat /\ NumSkipped(u) <= NumSkipped(v)
    BY <2>3, SkippedFacts
  <2>6. CASE i <= NumSkipped(Processed(r, a))
    BY <2>4, <2>5, <2>6 DEF v
  <2>7. CASE q.blocks[i] = null_block
    <3>1. i <= NumSkipped(u)
      BY <1>3, <2>2, <2>7 DEF NullsSkipped, u
    <3>2. i \in Int
      <4>1. q.blocks \in Seq(Blocks)
        BY <1>3, RequestType
      <4> QED BY <2>2, <4>1
    <3> QED BY <2>5, <3>1, <3>2 DEF v
  <2> QED BY <2>2, <2>6, <2>7
<1>18. cdiv(z.computed, block_size) <= Len(z.blocks)
  <2>1. cdiv(computed, block_size) <= cdiv(NeedSlot(r, a), block_size) /\ cdiv(computed, block_size) \in Int
        /\ cdiv(NeedSlot(r, a), block_size) \in Int
    <3>1. computed <= NeedSlot(r, a)
      BY <1>5 DEF computed
    <3> QED BY <1>6, <1>12, <3>1, CdivFacts
  <2>2. Len(s.q.blocks) \in Nat
    <3>1. s.q.blocks \in Seq(Blocks)
      BY <1>11, RequestType
    <3> QED BY <3>1
  <2> QED BY <1>9, <1>13, <2>1, <2>2
<1>19. z.flight # <<>>
  <2> DEFINE f == q.flight
  <2>1. f \in Seq(Step) /\ z.flight = Append(f, x)
    BY <1>3, <1>13
  <2> HIDE DEF f
  <2> QED BY <2>1
<1>20. RequestOK(z, popped[r], t)
  BY <1>3, <1>13, <1>16, <1>17, <1>18, <1>19 DEF RequestOK
<1>22. Backed(s.p, Relist(Tables(req), r, z.blocks), popped)
  BY <1>9, <1>13
<1>23. Sound(s.p, Rerecord(req, r, z), popped)
  BY <1>2, <1>13, <1>20, <1>22, SoundStep
<1>24. req'[r].status = "running"
  BY <1>1, <1>2, <1>13, RerecordFacts
<1> QED BY <1>1, <1>8, <1>23, <1>24 DEF Inv, s

LEMMA HitsOfRequest ==
    ASSUME Inv, NEW r \in Requests, req[r].status \in {"waiting", "preempted"}
    PROVE  /\ MayTouch(Tables(req), r, HitOf(r)) /\ Len(HitOf(r)) \in Nat
           /\ IF req[r].computed = 0 THEN Len(HitOf(r)) * block_size <= req[r].num_tokens - 1 ELSE HitOf(r) = <<>>
<1>1. /\ req \in [Requests -> Request] /\ req[r] \in Request /\ pool \in PoolState /\ Agree(pool) /\ Plain(pool)
  BY DEF Inv, Sound, Backed
<1>2. Tables(req)[r] = req[r].blocks
  BY <1>1, TablesFacts
<1>3. CASE req[r].computed = 0
  <2> DEFINE n == req[r].num_tokens - 1
             t == Text[r]
             hit == find_longest_cache_hit(pool, t, n)
  <2>1. n \in Nat /\ t \in Tokens
    <3>1. req[r].num_tokens \in Nat \ {0}
      BY <1>1, RequestType
    <3> QED BY <3>1, KVCacheManagerAssumption
  <2>2. HitOf(r) = hit
    BY <1>3 DEF HitOf, get_computed_blocks
  <2> HIDE DEF n, t
  <2>3. hit \in Seq(Blocks) /\ IsInjective(hit) /\ null_block \notin ToSet(hit) /\ Len(hit) * block_size <= n
    BY <1>1, <2>1, HitFacts
  <2> HIDE DEF hit
  <2>4. req[r].blocks = <<>>
    BY <1>3, ScheduledFacts
  <2>5. \A b : b \notin ToSet(Tables(req)[r])
    BY <1>2, <2>4 DEF ToSet
  <2>6. Len(hit) \in Nat
    BY <2>3
  <2> QED BY <1>3, <2>2, <2>3, <2>5, <2>6 DEF MayTouch, n
<1>4. CASE req[r].computed # 0
  <2> DEFINE hit == <<>>
  <2>1. HitOf(r) = hit
    BY <1>4 DEF HitOf
  <2>2. hit \in Seq(Blocks) /\ IsInjective(hit) /\ Len(hit) = 0 /\ \A b : b \notin ToSet(hit)
    BY DEF IsInjective, ToSet
  <2> HIDE DEF hit
  <2> QED BY <1>4, <2>1, <2>2 DEF MayTouch, hit
<1> QED BY <1>3, <1>4

LEMMA NothingTouched ==
    ASSUME NEW tab, NEW r
    PROVE  MayTouch(tab, r, <<>>)
<1> DEFINE hit == <<>>
<1>1. hit \in Seq(Blocks) /\ IsInjective(hit) /\ \A b : b \notin ToSet(hit)
  BY DEF IsInjective, ToSet
<1> HIDE DEF hit
<1>2. MayTouch(tab, r, hit)
  BY <1>1 DEF MayTouch
<1> QED BY <1>2 DEF hit

LEMMA WaitingFacts ==
    ASSUME Inv, NEW r \in Requests, NEW n \in 1..MaxStep, NEW must_fit, ScheduleWaiting(r, n, must_fit)
    PROVE  \E a : /\ req[r].status \in {"waiting", "preempted"} /\ IsStep(r, a, 0) /\ Launch(r, a, 0)
                  /\ a.new = n
<1> DEFINE hit == HitOf(r)
           a == Arguments(n, hit, 0, 0, 0, must_fit, FALSE)
<1>1. req[r].status \in {"waiting", "preempted"} /\ LocalComputed(r, a) + n <= req[r].num_tokens /\ Launch(r, a, 0)
  BY DEF ScheduleWaiting
<1>2. MayTouch(Tables(req), r, hit)
  BY <1>1, HitsOfRequest
<1>3. n \in Nat /\ 0 < n
  BY KVCacheManagerAssumption
<1> HIDE DEF hit
<1>4. a.hit = hit /\ a.new = n /\ a.ext = 0 /\ a.lookahead = 0 /\ a.reserved = 0 /\ ~a.delay
  BY DEF Arguments
<1> HIDE DEF a
<1>5. MayAllocate(r, a)
  BY <1>2, <1>3, <1>4 DEF MayAllocate
<1>6. req[r].num_tokens <= Len(Text[r]) /\ req[r].num_tokens \in Nat
  BY <1>1, ScheduledFacts
<1>7. LocalComputed(r, a) + a.new <= Len(Text[r])
  <2>1. LocalComputed(r, a) \in Int /\ Len(Text[r]) \in Nat
    BY <1>5, ArgumentTypes DEF Inv, Sound
  <2> QED BY <1>1, <1>3, <1>4, <1>6, <2>1
<1>8. IsStep(r, a, 0)
  BY <1>3, <1>4, <1>5, <1>7 DEF IsStep
<1> QED BY <1>1, <1>4, <1>8

LEMMA ScheduleWaitingStep ==
    ASSUME Inv, NEW r \in Requests, NEW n \in 1..MaxStep, NEW must_fit \in BOOLEAN, ScheduleWaiting(r, n, must_fit)
    PROVE  Inv'
<1>1. PICK a : req[r].status \in {"waiting", "preempted"} /\ IsStep(r, a, 0) /\ Launch(r, a, 0)
  BY WaitingFacts
<1> QED BY <1>1, LaunchStep

(* the arguments for a running request *)
LEMMA RunFacts ==
    ASSUME Inv, NEW r \in Requests, NEW n \in 1..MaxStep, NEW d \in 0..MaxDrafts, MayRun(r, n, d)
    PROVE  LET a == RunArguments(n, d)
           IN  /\ req[r].status = "running" /\ IsStep(r, a, d)
               /\ a.hit = <<>> /\ a.reserved = 0 /\ a.new = n + d /\ LocalComputed(r, a) = req[r].computed
<1> DEFINE a == RunArguments(n, d)
<1>1. req[r].status = "running" /\ req[r].computed + n + d <= Len(Text[r])
  BY DEF MayRun
<1>2. n \in Nat /\ d \in Nat /\ 0 < n
  BY KVCacheManagerAssumption
<1>3. /\ a.hit = <<>> /\ a.new = n + d /\ a.ext = 0 /\ a.lookahead = d /\ a.reserved = 0 /\ ~a.delay
      /\ Len(a.hit) = 0
  BY DEF RunArguments, Arguments
<1> HIDE DEF a
<1>4. MayTouch(Tables(req), r, a.hit)
  BY <1>3, NothingTouched
<1>5. MayAllocate(r, a)
  BY <1>2, <1>3, <1>4 DEF MayAllocate
<1>6. req[r].computed \in Nat
  BY <1>1, ScheduledFacts
<1>7. LocalComputed(r, a) = req[r].computed
  <2>1. block_size \in Nat
    BY BlockPoolAssumption
  <2> QED BY <1>3, <1>6, <2>1 DEF LocalComputed
<1>8. LocalComputed(r, a) + a.new <= Len(Text[r])
  BY <1>1, <1>2, <1>3, <1>6, <1>7
<1>9. IsStep(r, a, d)
  BY <1>2, <1>3, <1>5, <1>8 DEF IsStep
<1> QED BY <1>1, <1>3, <1>7, <1>9 DEF a

LEMMA ScheduleRunningStep ==
    ASSUME Inv, NEW r \in Requests, NEW n \in 1..MaxStep, NEW d \in 0..MaxDrafts, ScheduleRunning(r, n, d)
    PROVE  Inv'
<1>1. MayRun(r, n, d) /\ Launch(r, RunArguments(n, d), d)
  BY DEF ScheduleRunning
<1>2. req[r].status = "running" /\ IsStep(r, RunArguments(n, d), d)
  BY <1>1, RunFacts
<1> DEFINE a == RunArguments(n, d)
<1> HIDE DEF a
<1>3. d \in Nat
  BY KVCacheManagerAssumption
<1> QED BY <1>1, <1>2, <1>3, LaunchStep DEF a

(* Blocks outside the window are given back even if the allocation fails.   *)
LEMMA TrimStep ==
    ASSUME Inv, NEW r \in Requests, req[r].status \in {"waiting", "preempted", "running"}, NEW a, MayAllocate(r, a),
           a.ext = 0, LocalComputed(r, a) = req[r].computed, LocalComputed(r, a) + a.new <= Len(Text[r])
    PROVE  Sound(Trimmed(r, a).p, Rerecord(req, r, Trimmed(r, a).q), popped)
<1> DEFINE q == req[r]
           s == Trimmed(r, a)
           z == s.q
           T == TotalComputed(r, a)
           n == NumSkipped(Processed(r, a))
           t == Text[r]
<1>1. Sound(pool, req, popped) /\ req \in [Requests -> Request] /\ Backed(pool, Tables(req), popped)
      /\ RequestOK(q, popped[r], t)
  BY DEF Inv, Sound
<1>2. q \in Request /\ NullsSkipped(q) /\ in_flight(q) \in Nat /\ q.computed \in Nat /\ q.flight \in Seq(Step)
  BY ScheduledFacts
<1>3. T = q.computed
  BY StepSizes
<1>4. Processed(r, a) \in Nat
  BY <1>1, ArgumentTypes
<1>5. /\ n \in Nat /\ Keeps(q, z) /\ z.blocks = Nulled(q.blocks, n) /\ Len(z.blocks) = Len(q.blocks)
      /\ SameCache(pool, s.p) /\ Backed(s.p, Relist(Tables(req), r, z.blocks), popped)
  BY <1>1, <1>4, TrimmedEffect
<1> HIDE DEF z
<1>6. /\ z \in Request /\ z.status = q.status /\ z.computed = q.computed /\ z.flight = q.flight
      /\ z.num_tokens = q.num_tokens
  BY <1>5 DEF Keeps
<1>7. in_flight(z) = in_flight(q)
  BY <1>6 DEF in_flight
<1>8. n = NumSkipped(q.computed - in_flight(q))
  <2> DEFINE v == q.computed - in_flight(q)
  <2>1. v \in Int
    BY <1>2
  <2>2. Processed(r, a) = AtLeast0(v)
    BY <1>3 DEF Processed
  <2> HIDE DEF v
  <2>3. NumSkipped(AtLeast0(v)) = NumSkipped(v)
    BY <2>1, SkippedFacts
  <2> QED BY <2>2, <2>3 DEF v
<1> HIDE DEF n, q
<1>9. NullsSkipped(z)
  <2>1. SUFFICES ASSUME NEW i \in DOMAIN z.blocks, z.blocks[i] = null_block
                 PROVE  i <= n
    BY <1>6, <1>7, <1>8 DEF NullsSkipped
  <2>2. i \in DOMAIN q.blocks /\ (i <= n \/ q.blocks[i] = null_block)
    BY <1>5, <2>1 DEF Nulled
  <2> QED BY <1>2, <1>8, <2>2 DEF NullsSkipped
<1>10. q.blocks = <<>> => z.blocks = <<>>
  <2>1. z.blocks \in Seq(Blocks)
    BY <1>6, RequestType
  <2> DEFINE u == z.blocks
  <2>2. u \in Seq(Blocks) /\ (q.blocks = <<>> => Len(u) = 0)
    BY <1>5, <2>1
  <2> HIDE DEF u
  <2>3. q.blocks = <<>> => u = <<>>
    BY <2>2
  <2> QED BY <2>3 DEF u
<1>11. q.status # "loading"
  BY DEF q
<1>12. RequestOK(z, popped[r], t)
  BY <1>1, <1>5, <1>6, <1>7, <1>9, <1>10, <1>11 DEF RequestOK
<1> HIDE DEF s
<1>14. Sound(s.p, Rerecord(req, r, z), popped)
  BY <1>1, <1>5, <1>6, <1>12, SoundStep
<1> QED BY <1>14 DEF z, s

LEMMA StayWaitingStep ==
    ASSUME Inv, NEW r \in Requests, NEW n \in 1..MaxStep, NEW must_fit \in BOOLEAN, StayWaiting(r, n, must_fit)
    PROVE  Inv' /\ req'[r].status = "waiting"
<1> DEFINE a == Arguments(n, <<>>, 0, 0, 0, must_fit, FALSE)
<1>1. /\ req[r].status = "waiting" /\ req[r].computed + n <= req[r].num_tokens
      /\ pool' = Trimmed(r, a).p /\ req' = Rerecord(req, r, Trimmed(r, a).q) /\ popped' = popped
  BY DEF StayWaiting, Rerecord
<1>2. n \in Nat
  BY KVCacheManagerAssumption
<1>3. a.hit = <<>> /\ Len(a.hit) = 0 /\ a.new = n /\ a.ext = 0 /\ a.lookahead = 0 /\ a.reserved = 0
  BY DEF Arguments
<1> HIDE DEF a
<1>4. MayAllocate(r, a)
  BY <1>2, <1>3, NothingTouched DEF MayAllocate
<1>5. req[r].computed \in Nat /\ req[r].num_tokens \in Nat /\ req[r].num_tokens <= Len(Text[r])
  BY <1>1, ScheduledFacts
<1>6. LocalComputed(r, a) = req[r].computed
  <2>1. block_size \in Nat
    BY BlockPoolAssumption
  <2> QED BY <1>3, <1>5, <2>1 DEF LocalComputed
<1>7. LocalComputed(r, a) + a.new <= Len(Text[r])
  <2>1. Len(Text[r]) \in Nat
    BY <1>4, ArgumentTypes DEF Inv, Sound
  <2> QED BY <1>1, <1>2, <1>3, <1>5, <1>6, <2>1
<1>8. Sound(Trimmed(r, a).p, Rerecord(req, r, Trimmed(r, a).q), popped)
  BY <1>1, <1>3, <1>4, <1>6, <1>7, TrimStep
<1>9. Keeps(req[r], Trimmed(r, a).q)
  <2>1. Processed(r, a) \in Nat /\ req \in [Requests -> Request] /\ Backed(pool, Tables(req), popped)
    BY <1>4, ArgumentTypes DEF Inv, Sound
  <2> QED BY <2>1, TrimmedEffect
<1>10. req'[r].status = "waiting"
  <2> DEFINE z == Trimmed(r, a).q
  <2>1. z \in Request /\ z.status = "waiting" /\ req' = Rerecord(req, r, z)
    BY <1>1, <1>9 DEF Keeps
  <2> HIDE DEF z
  <2> QED BY <2>1, RerecordFacts DEF Inv, Sound
<1> QED BY <1>1, <1>8, <1>10 DEF Inv

LEMMA NewRequestFields ==
    ASSUME NEW r \in Requests
    PROVE  LET q == NewRequest(r)
           IN  /\ q \in Request /\ q.status = "waiting" /\ q.computed = 0 /\ q.num_tokens = Prompt[r]
               /\ q.flight = <<>> /\ q.blocks = <<>>
<1>1. Prompt[r] \in Nat \ {0}
  <2>1. Prompt[r] \in 1..Len(Text[r]) /\ Text[r] \in Seq(Nat)
    BY KVCacheManagerAssumption, BlockPoolAssumption
  <2> QED BY <2>1
<1> DEFINE none == <<>>
<1>2. none \in Seq(Step) /\ none \in Seq(Blocks) /\ "waiting" \in Statuses
  BY DEF Statuses
<1> HIDE DEF none
<1>3. LET q == NewRequest(r)
      IN  /\ q \in Request /\ q.status = "waiting" /\ q.computed = 0 /\ q.num_tokens = Prompt[r]
          /\ q.flight = none /\ q.blocks = none
  BY <1>1, <1>2 DEF Request, NewRequest, none
<1> QED BY <1>3 DEF none

(* The record of a preempted request                                        *)
Restarted(q, n) == [q EXCEPT !.status = "preempted", !.num_tokens = n]

LEMMA RestartedFields ==
    ASSUME NEW q \in Request, NEW n \in Nat \ {0}
    PROVE  LET z == Restarted(q, n)
           IN  /\ z \in Request /\ z.status = "preempted" /\ z.num_tokens = n
               /\ z.computed = q.computed /\ z.flight = q.flight /\ z.blocks = q.blocks
<1>1. "preempted" \in Statuses
  BY DEF Statuses
<1> QED BY <1>1 DEF Request, Restarted

LEMMA PreemptedFields ==
    ASSUME NEW r \in Requests, NEW n \in Nat \ {0}
    PROVE  LET z == Restarted(NewRequest(r), n)
           IN  /\ z \in Request /\ z.status = "preempted" /\ z.computed = 0 /\ z.num_tokens = n
               /\ z.flight = <<>> /\ z.blocks = <<>>
<1> DEFINE q == NewRequest(r)
<1>1. q \in Request /\ q.computed = 0 /\ q.flight = <<>> /\ q.blocks = <<>>
  BY NewRequestFields
<1> HIDE DEF q
<1>2. LET z == Restarted(q, n)
      IN  /\ z \in Request /\ z.status = "preempted" /\ z.num_tokens = n
          /\ z.computed = q.computed /\ z.flight = q.flight /\ z.blocks = q.blocks
  BY <1>1, RestartedFields
<1> QED BY <1>1, <1>2 DEF q

(* Nothing is computed and nothing held, so nothing has to be backed.       *)
LEMMA EmptyRequestOK ==
    ASSUME NEW q, NEW t, q.num_tokens \in Nat, q.num_tokens <= Len(t), q.computed = 0, q.flight = <<>>, q.blocks = <<>>,
           q.status \in {"waiting", "preempted"}
    PROVE  RequestOK(q, <<>>, t)
<1> DEFINE s == q.blocks
<1>1. Len(s) = 0 /\ DOMAIN s = {}
  OBVIOUS
<1>2. cdiv(q.computed, block_size) = 0
  BY CdivFacts
<1> HIDE DEF s
<1>3. NullsSkipped(q)
  BY <1>1 DEF NullsSkipped, s
<1> QED BY <1>1, <1>2, <1>3 DEF RequestOK, s

LEMMA PreemptStep ==
    ASSUME Inv, NEW r \in Requests, NEW v \in Requests, NEW n \in 1..MaxStep, NEW d \in 0..MaxDrafts, Preempt(r, n, d, v)
    PROVE  Inv'
<1> DEFINE a == RunArguments(n, d)
           s == Trimmed(r, a)
           rq == Rerecord(req, r, s.q)
           z == Restarted(NewRequest(v), rq[v].num_tokens)
<1>1. /\ MayRun(r, n, d) /\ req[v].status = "running"
      /\ pool' = Free(s.p, rq[v].blocks) /\ req' = Rerecord(rq, v, z) /\ popped' = popped
  BY DEF Preempt, Rerecord, Running, Restarted
<1>2. req[r].status = "running" /\ IsStep(r, a, d) /\ LocalComputed(r, a) = req[r].computed
  BY <1>1, RunFacts
<1> HIDE DEF a
<1>3. Sound(s.p, rq, popped)
  BY <1>2, TrimStep DEF IsStep
<1> HIDE DEF s, rq
<1>4. rq \in [Requests -> Request] /\ RequestOK(rq[v], popped[v], Text[v])
  BY <1>3 DEF Sound
<1>5. rq[v].num_tokens \in Nat \ {0} /\ rq[v].num_tokens <= Len(Text[v])
  BY <1>4, RequestType DEF RequestOK
<1>6. /\ z \in Request /\ z.status = "preempted" /\ z.computed = 0 /\ z.num_tokens = rq[v].num_tokens
      /\ z.flight = <<>> /\ z.blocks = <<>>
  BY <1>5, PreemptedFields
<1>7. popped[v] = <<>>
  BY <1>1, ScheduledFacts
<1> HIDE DEF z
<1>8. RequestOK(z, popped[v], Text[v])
  BY <1>5, <1>6, <1>7, EmptyRequestOK
<1>9. Sound(Free(s.p, rq[v].blocks), Rerecord(rq, v, z), popped)
  BY <1>3, <1>6, <1>8, FreeWhole
<1> QED BY <1>1, <1>9 DEF Inv

----------------------------------------------------------------------------
(* Steps that are processed, loads, frees                                   *)

Rolled(q, f, c, n) == [q EXCEPT !.flight = f, !.computed = c, !.num_tokens = n]
Restated(q, status, c) == [q EXCEPT !.status = status, !.computed = c]
Finished(q) == [q EXCEPT !.status = "done", !.flight = <<>>, !.blocks = <<>>, !.cached = 0]

LEMMA RolledFields ==
    ASSUME NEW q \in Request, NEW f \in Seq(Step), NEW c \in Int, NEW n \in Nat \ {0}
    PROVE  LET z == Rolled(q, f, c, n)
           IN  /\ z \in Request /\ z.status = q.status /\ z.computed = c /\ z.num_tokens = n
               /\ z.flight = f /\ z.blocks = q.blocks
BY DEF Request, Rolled

LEMMA RestatedFields ==
    ASSUME NEW q \in Request, NEW status \in Statuses, NEW c \in Int
    PROVE  LET z == Restated(q, status, c)
           IN  /\ z \in Request /\ z.status = status /\ z.computed = c /\ z.num_tokens = q.num_tokens
               /\ z.flight = q.flight /\ z.blocks = q.blocks
BY DEF Request, Restated

LEMMA FinishedFields ==
    ASSUME NEW q \in Request
    PROVE  LET z == Finished(q)
           IN  /\ z \in Request /\ z.status = "done" /\ z.num_tokens = q.num_tokens
               /\ z.flight = <<>> /\ z.blocks = <<>>
<1> DEFINE With(f, bl) == [q EXCEPT !.status = "done", !.flight = f, !.blocks = bl, !.cached = 0]
<1>1. ASSUME NEW f \in Seq(Step), NEW bl \in Seq(Blocks)
      PROVE  LET z == With(f, bl)
             IN  z \in Request /\ z.status = "done" /\ z.num_tokens = q.num_tokens /\ z.flight = f /\ z.blocks = bl
  <2>1. "done" \in Statuses
    BY DEF Statuses
  <2> QED BY <2>1 DEF Request
<1>2. <<>> \in Seq(Step) /\ <<>> \in Seq(Blocks)
  OBVIOUS
<1>3. Finished(q) = With(<<>>, <<>>)
  BY DEF Finished
<1> HIDE DEF With
<1> DEFINE z == Finished(q)
           none == <<>>
<1>4. z = With(none, none)
  BY <1>3
<1> HIDE DEF z, none
<1>5. none \in Seq(Step) /\ none \in Seq(Blocks)
  BY <1>2 DEF none
<1>6. z \in Request /\ z.status = "done" /\ z.num_tokens = q.num_tokens /\ z.flight = none /\ z.blocks = none
  BY <1>1, <1>4, <1>5
<1> QED BY <1>6 DEF z, none

RolledIn(rq, r, f, c, n) == [rq EXCEPT ![r].flight = f, ![r].computed = c, ![r].num_tokens = n]

LEMMA RolledRecord ==
    ASSUME NEW rq \in [Requests -> Request], NEW r \in Requests, NEW f, NEW c, NEW n
    PROVE  RolledIn(rq, r, f, c, n) = Rerecord(rq, r, Rolled(rq[r], f, c, n))
BY DEF Rerecord, Rolled, RolledIn, Request

LEMMA StepDoneStep ==
    ASSUME Inv, NEW r \in Requests, NEW d \in 0..MaxDrafts, StepDone(r, d)
    PROVE  Inv'
<1> DEFINE q == req[r]
           x == Head(q.flight)
           t == Text[r]
           f == Tail(q.flight)
           c == q.computed - d
           n == IF x.samples THEN Least(q.num_tokens + x.drafts - d + 1, Len(t)) ELSE q.num_tokens
           z == Rolled(q, f, c, n)
<1>1. /\ q.flight # <<>> /\ d <= x.drafts /\ pool' = pool /\ popped' = popped
      /\ req' = RolledIn(req, r, f, c, n)
  BY DEF StepDone, RolledIn
<1>2. Sound(pool, req, popped) /\ req \in [Requests -> Request] /\ Backed(pool, Tables(req), popped)
      /\ RequestOK(q, popped[r], t)
  BY DEF Inv, Sound
<1>3. req' = Rerecord(req, r, z)
  <2> HIDE DEF f, c, n
  <2> QED BY <1>1, <1>2, RolledRecord
<1>4. q.status = "running"
  BY <1>1, <1>2 DEF RequestOK
<1>5. /\ q \in Request /\ popped[r] = <<>> /\ NullsSkipped(q) /\ q.num_tokens <= Len(t)
      /\ in_flight(q) \in Nat /\ q.computed \in Nat /\ q.computed - in_flight(q) \in Nat
      /\ q.flight \in Seq(Step) /\ q.num_tokens \in Nat \ {0}
  BY <1>4, ScheduledFacts
<1>6. cdiv(q.computed, block_size) <= Len(q.blocks)
  BY <1>2, <1>4 DEF RequestOK
<1>7. f \in Seq(Step) /\ x.n \in Nat /\ x.drafts \in Nat /\ x.drafts < x.n
  <2> DEFINE s == q.flight
  <2>1. s \in Seq(Step) /\ s # <<>>
    BY <1>1, <1>5
  <2> HIDE DEF s
  <2>2. Tail(s) \in Seq(Step) /\ 1 \in 1..Len(s) /\ Head(s) = s[1]
    BY <2>1
  <2>3. s[1].n \in Nat /\ s[1].drafts \in Nat /\ s[1].drafts < s[1].n
    BY <2>1, <2>2, StepType
  <2> QED BY <2>2, <2>3 DEF s
<1>8. d \in Nat
  BY KVCacheManagerAssumption
<1> DEFINE xn == x.n
           xd == x.drafts
           u == in_flight(q)
<1>9. xn \in Nat /\ xd \in Nat /\ xd < xn /\ d <= xd
  BY <1>1, <1>7
<1>10. Len(t) \in Nat
  <2>1. t \in Seq(Nat)
    BY KVCacheManagerAssumption, BlockPoolAssumption
  <2> QED BY <2>1
<1>11. n \in Nat \ {0} /\ q.num_tokens <= n /\ n <= Len(t)
  <2> DEFINE m == q.num_tokens
             y == Least(m + xd - d + 1, Len(t))
  <2>1. n = IF x.samples THEN y ELSE m
    OBVIOUS
  <2>2. m \in Nat \ {0} /\ m <= Len(t)
    BY <1>5
  <2> HIDE DEF n, m, t, xd
  <2>3. y \in Nat \ {0} /\ m <= y /\ y <= Len(t)
    BY <1>8, <1>9, <1>10, <2>2 DEF Least
  <2> HIDE DEF y
  <2> QED BY <1>10, <2>1, <2>2, <2>3 DEF m
<1>12. c \in Int
  BY <1>5, <1>8
<1> HIDE DEF f, c, n, t
<1>13. /\ z \in Request /\ z.status = q.status /\ z.computed = c /\ z.num_tokens = n
       /\ z.flight = f /\ z.blocks = q.blocks
  <2> HIDE DEF q
  <2> QED BY <1>5, <1>7, <1>11, <1>12, RolledFields
<1> HIDE DEF z
<1>14. in_flight(z) = u - xn
  <2> HIDE DEF q
  <2> QED BY <1>1, <1>5, <1>13, InFlightTail DEF f
<1> DEFINE before == q.computed - u
           after == z.computed - in_flight(z)
<1>15. before \in Nat /\ after \in Nat \ {0} /\ before <= after /\ c <= q.computed
  <2>1. q.computed \in Nat /\ u \in Nat /\ q.computed - u \in Nat
    BY <1>5
  <2>2. z.computed = q.computed - d /\ c = q.computed - d
    BY <1>13 DEF c
  <2> HIDE DEF q, u, xn, xd
  <2> QED BY <1>8, <1>9, <1>14, <2>1, <2>2
<1> HIDE DEF u, xn, xd
<1>16. NullsSkipped(z)
  <2>1. NumSkipped(before) \in Nat /\ NumSkipped(after) \in Nat /\ NumSkipped(before) <= NumSkipped(after)
    <3> HIDE DEF before, after
    <3>1. before \in Int /\ after \in Int
      BY <1>15
    <3> QED BY <1>15, <3>1, SkippedFacts
  <2>2. SUFFICES ASSUME NEW i \in DOMAIN q.blocks, q.blocks[i] = null_block PROVE i <= NumSkipped(after)
    BY <1>13 DEF NullsSkipped
  <2>3. i <= NumSkipped(before)
    BY <1>5, <2>2 DEF NullsSkipped, u
  <2>4. i \in Int
    <3>1. q.blocks \in Seq(Blocks)
      BY <1>5, RequestType
    <3> QED BY <2>2, <3>1
  <2> HIDE DEF before, after
  <2> QED BY <2>1, <2>3, <2>4
<1>17. cdiv(z.computed, block_size) <= Len(z.blocks)
  <2>1. cdiv(c, block_size) <= cdiv(q.computed, block_size) /\ cdiv(c, block_size) \in Int /\ cdiv(q.computed, block_size) \in Int
    <3> DEFINE y == q.computed
    <3>1. y \in Int /\ c <= y
      BY <1>5, <1>15
    <3> HIDE DEF y
    <3>2. cdiv(c, block_size) <= cdiv(y, block_size) /\ cdiv(c, block_size) \in Int /\ cdiv(y, block_size) \in Int
      BY <1>12, <3>1, CdivFacts
    <3> QED BY <3>2 DEF y
  <2>2. Len(q.blocks) \in Nat
    <3>1. q.blocks \in Seq(Blocks)
      BY <1>5, RequestType
    <3> QED BY <3>1
  <2> QED BY <1>6, <1>13, <2>1, <2>2
<1>18. z.flight = <<>> => z.computed # 0
  <2>1. SUFFICES ASSUME z.flight = <<>> PROVE z.computed # 0
    OBVIOUS
  <2>2. in_flight(z) = 0
    BY <2>1, InFlightNone
  <2> QED BY <1>12, <1>13, <1>15, <2>2
<1>19. RequestOK(z, popped[r], t)
  BY <1>4, <1>5, <1>11, <1>13, <1>15, <1>16, <1>17, <1>18 DEF RequestOK
<1>21. Backed(pool, Relist(Tables(req), r, z.blocks), popped)
  <2> DEFINE tab == Tables(req)
  <2>1. tab \in Lists /\ tab[r] = z.blocks
    BY <1>2, <1>5, <1>13, TablesFacts DEF q
  <2> HIDE DEF tab
  <2>2. Relist(tab, r, z.blocks) = tab
    BY <2>1 DEF Lists, Relist
  <2> QED BY <1>2, <2>2 DEF tab
<1>22. Sound(pool, Rerecord(req, r, z), popped)
  BY <1>2, <1>13, <1>19, <1>21, SoundStep DEF t
<1> QED BY <1>1, <1>3, <1>22 DEF Inv

LEMMA StartLoadStep ==
    ASSUME Inv, NEW r \in Requests, NEW ext \in 1..MaxStep, NEW reserved \in 0..1, StartLoad(r, ext, reserved)
    PROVE  /\ Inv' /\ req'[r].status = "loading"
           /\ \E a : IsAllocated(r, a, Allocated(r, a)) /\ pool' = Allocated(r, a).p
<1> DEFINE q == req[r]
           hit == get_computed_blocks(pool, r)
           a == Arguments(0, hit, ext, 0, reserved, FALSE, TRUE)
           s == Allocated(r, a)
           T == TotalComputed(r, a)
           L == LocalComputed(r, a)
           t == Text[r]
           z == Restated(s.q, "loading", T)
<1>1. /\ q.status = "waiting" /\ q.computed = 0 /\ L + ext < q.num_tokens /\ SlotsFit(r, a)
      /\ pool' = s.p /\ req' = Rerecord(req, r, z) /\ popped' = popped
  BY DEF StartLoad, Admits, Rerecord, Restated
<1>2. Sound(pool, req, popped) /\ req \in [Requests -> Request] /\ Backed(pool, Tables(req), popped)
      /\ RequestOK(q, popped[r], t)
  BY DEF Inv, Sound
<1>3. /\ q \in Request /\ popped[r] = <<>> /\ q.num_tokens <= Len(t) /\ q.blocks = <<>> /\ q.num_tokens \in Nat
  BY <1>1, ScheduledFacts
<1>4. MayTouch(Tables(req), r, hit)
  <2>1. hit = HitOf(r)
    BY <1>1 DEF HitOf
  <2> HIDE DEF hit
  <2> QED BY <1>1, <2>1, HitsOfRequest
<1>5. ext \in Nat /\ ext # 0 /\ reserved \in Nat
  BY KVCacheManagerAssumption
<1> HIDE DEF hit
<1>6. /\ a.hit = hit /\ a.new = 0 /\ a.ext = ext /\ a.lookahead = 0 /\ a.reserved = reserved
      /\ a.delay
  BY DEF Arguments
<1> HIDE DEF a
<1>7. Len(hit) \in Nat /\ block_size \in Nat /\ max_model_len \in Nat /\ Len(t) <= max_model_len
  BY <1>4, KVCacheManagerAssumption, BlockPoolAssumption DEF MayTouch
<1>8. L \in Nat
  <2>1. Len(hit) * block_size \in Nat
    BY <1>7
  <2> QED BY <1>1, <1>6, <2>1 DEF LocalComputed
<1> HIDE DEF L
<1>9. Len(t) \in Nat
  <2>1. t \in Seq(Nat)
    BY KVCacheManagerAssumption, BlockPoolAssumption
  <2> QED BY <2>1
<1>10. L + ext <= max_model_len
  <2> DEFINE m == q.num_tokens
             l == Len(t)
  <2>1. m \in Nat /\ m <= l /\ l \in Nat /\ l <= max_model_len /\ L + ext < m
    BY <1>1, <1>3, <1>7, <1>9
  <2> HIDE DEF m, l
  <2> QED BY <1>5, <1>7, <1>8, <2>1
<1>11. MayAllocate(r, a)
  BY <1>4, <1>5, <1>6, <1>10 DEF MayAllocate, L
<1>12. T = L + ext /\ NeedSlot(r, a) = T
  <2>1. T = L + ext
    BY <1>5, <1>6, <1>7, <1>8, <1>10 DEF TotalComputed, Least, L
  <2>2. NeedSlot(r, a) = Least(T + 0 + 0, max_model_len)
    BY <1>6 DEF NeedSlot
  <2> HIDE DEF T
  <2> QED BY <1>5, <1>7, <1>8, <1>10, <2>1, <2>2 DEF Least
<1>13. IsAllocated(r, a, s)
  BY <1>1, <1>2, <1>3, <1>11, AllocatedEffect
<1> HIDE DEF s, T
<1>14. /\ Backed(s.p, Relist(Tables(req), r, s.q.blocks), popped) /\ Keeps(q, s.q)
       /\ cdiv(T, block_size) <= Len(s.q.blocks)
       /\ \A c \in Blocks, k \in Keys : contain(s.p, k, c) => contain(pool, k, c)
       /\ \A i \in DOMAIN s.q.blocks : s.q.blocks[i] = null_block => i \in DOMAIN q.blocks
  BY <1>6, <1>12, <1>13 DEF IsAllocated
<1> DEFINE y == s.q
<1>15. y \in Request /\ y.num_tokens = q.num_tokens /\ y.flight = q.flight /\ y.blocks = s.q.blocks
  BY <1>14 DEF Keeps
<1>16. z = Restated(y, "loading", T)
  OBVIOUS
<1> HIDE DEF y, z
<1>17. T \in Nat /\ T <= q.num_tokens
  <2> HIDE DEF q
  <2> QED BY <1>1, <1>3, <1>5, <1>8, <1>12
<1>18. /\ z \in Request /\ z.status = "loading" /\ z.computed = T /\ z.num_tokens = q.num_tokens
       /\ z.flight = q.flight /\ z.blocks = s.q.blocks
  <2>1. "loading" \in Statuses /\ T \in Int
    BY <1>17 DEF Statuses
  <2> QED BY <1>15, <1>16, <2>1, RestatedFields
<1>19. q.flight = <<>>
  BY <1>1, <1>2 DEF RequestOK
<1>20. \A i \in DOMAIN z.blocks : z.blocks[i] # null_block
  <2>1. DOMAIN q.blocks = {}
    BY <1>3
  <2> QED BY <1>14, <1>18, <2>1
<1>21. null_block \notin ToSet(z.blocks)
  <2> DEFINE bl == z.blocks
  <2>1. bl \in Seq(Blocks)
    BY <1>18, RequestType
  <2>2. \A i \in DOMAIN bl : bl[i] # null_block
    BY <1>20
  <2> HIDE DEF bl
  <2>3. null_block \notin ToSet(bl)
    BY <2>1, <2>2 DEF ToSet
  <2> QED BY <2>3 DEF bl
<1>22. RequestOK(z, popped[r], t)
  BY <1>3, <1>14, <1>17, <1>18, <1>19, <1>20, <1>21 DEF RequestOK, NullsSkipped
<1>24. Backed(s.p, Relist(Tables(req), r, z.blocks), popped)
  BY <1>14, <1>18
<1>25. Sound(s.p, Rerecord(req, r, z), popped)
  BY <1>2, <1>18, <1>22, <1>24, SoundStep
<1>26. req'[r].status = "loading"
  BY <1>1, <1>2, <1>18, RerecordFacts
<1>27. IsAllocated(r, a, Allocated(r, a)) /\ pool' = Allocated(r, a).p
  BY <1>1, <1>13 DEF s
<1> HIDE DEF a
<1> QED BY <1>1, <1>25, <1>26, <1>27 DEF Inv

LEMMA LoadDoneStep ==
    ASSUME Inv, NEW r \in Requests, NEW valid \in 1..MaxStep, LoadDone(r, valid)
    PROVE  Inv'
<1> DEFINE q == req[r]
           t == Text[r]
           s == cache_blocks(pool, q, t, valid)
           y == s.q
           z == Restated(y, "waiting", valid)
           full == valid \div block_size
<1>1. /\ q.status = "loading" /\ valid \in q.cached * block_size..q.computed
      /\ pool' = s.p /\ req' = Rerecord(req, r, z) /\ popped' = popped
  BY DEF LoadDone, Rerecord, Restated
<1>2. Sound(pool, req, popped) /\ req \in [Requests -> Request] /\ Backed(pool, Tables(req), popped)
      /\ q \in Request /\ RequestOK(q, popped[r], t)
  BY DEF Inv, Sound
<1>3. valid \in Nat \ {0} /\ valid \in Int
  BY KVCacheManagerAssumption
<1>4. /\ q.num_tokens <= Len(t) /\ q.computed \in 0..q.num_tokens /\ q.flight = <<>> /\ popped[r] = <<>>
      /\ null_block \notin ToSet(q.blocks) /\ cdiv(q.computed, block_size) <= Len(q.blocks)
  BY <1>1, <1>2 DEF RequestOK
<1>5. q.num_tokens \in Nat /\ q.computed \in Int /\ q.blocks \in Seq(Blocks) /\ q.cached \in Nat
  BY <1>2, RequestType
<1>6. Len(t) \in Nat /\ t \in Tokens
  <2>1. t \in Seq(Nat) /\ t \in Tokens
    BY KVCacheManagerAssumption, BlockPoolAssumption
  <2> QED BY <2>1
<1>7. valid <= q.computed /\ valid <= q.num_tokens /\ valid <= Len(t)
  <2> DEFINE c == q.computed
             m == q.num_tokens
             l == Len(t)
             low == q.cached * block_size
  <2>1. c \in Int /\ m \in Nat /\ l \in Nat /\ c <= m /\ m <= l
    BY <1>4, <1>5, <1>6
  <2>2. valid \in low..c
    BY <1>1
  <2>3. low \in Int
    BY <1>5, BlockPoolAssumption
  <2> HIDE DEF c, m, l, low
  <2>4. valid <= c
    BY <2>1, <2>2, <2>3
  <2>5. valid <= c /\ valid <= m /\ valid <= l
    BY <1>3, <2>1, <2>4
  <2> QED BY <2>5 DEF c, m, l
<1>8. Len(q.blocks) \in Nat
  BY <1>5
<1>9. full <= Len(q.blocks) /\ cdiv(valid, block_size) <= Len(q.blocks)
  <2> DEFINE c == q.computed
             l == Len(q.blocks)
  <2>1. c \in Int /\ valid <= c /\ cdiv(c, block_size) <= l /\ l \in Nat
    BY <1>4, <1>5, <1>7, <1>8
  <2> HIDE DEF c, l
  <2>2. full <= cdiv(c, block_size) /\ cdiv(valid, block_size) <= cdiv(c, block_size) /\ cdiv(c, block_size) \in Int
    BY <1>3, <2>1, CdivFacts
  <2>3. full \in Int /\ cdiv(valid, block_size) \in Int
    BY <1>3, Division, CdivFacts
  <2> HIDE DEF full
  <2>4. full <= l /\ cdiv(valid, block_size) <= l
    BY <2>1, <2>2, <2>3
  <2> QED BY <2>4 DEF l
<1>10. /\ Backed(s.p, Tables(req), popped) /\ EntersPrefixes(pool, s.p, t, full)
       /\ Keeps(q, y) /\ y.blocks = q.blocks
  <2> DEFINE tab == Tables(req)
  <2>1. q.blocks = tab[r]
    BY <1>2, TablesFacts
  <2> HIDE DEF tab, q, t
  <2>2. LET g == cache_blocks(pool, q, t, valid)
        IN  /\ Backed(g.p, tab, popped) /\ EntersPrefixes(pool, g.p, t, valid \div block_size)
            /\ Keeps(q, g.q) /\ g.q.blocks = q.blocks
    BY <1>2, <1>3, <1>6, <1>7, <1>9, <2>1, CacheBlocksStage DEF tab
  <2> QED BY <2>2 DEF tab
<1>11. y \in Request /\ y.num_tokens = q.num_tokens /\ y.flight = q.flight
  BY <1>10 DEF Keeps
<1> HIDE DEF s, y
<1>12. /\ z \in Request /\ z.status = "waiting" /\ z.computed = valid /\ z.num_tokens = q.num_tokens
       /\ z.flight = q.flight /\ z.blocks = q.blocks
  <2>1. "waiting" \in Statuses
    BY DEF Statuses
  <2> HIDE DEF q
  <2> QED BY <1>3, <1>10, <1>11, <2>1, RestatedFields
<1> HIDE DEF z
<1>13. NullsSkipped(z)
  <2>1. \A i \in DOMAIN q.blocks : q.blocks[i] # null_block
    BY <1>4 DEF ToSet
  <2> QED BY <1>12, <2>1 DEF NullsSkipped
<1>14. RequestOK(z, popped[r], t)
  <2>1. z.computed \in 0..z.num_tokens /\ z.computed # 0
    <3> HIDE DEF q
    <3> QED BY <1>3, <1>5, <1>7, <1>12
  <2> QED BY <1>4, <1>9, <1>12, <1>13, <2>1 DEF RequestOK
<1>16. Backed(s.p, Relist(Tables(req), r, z.blocks), popped)
  <2> DEFINE tab == Tables(req)
  <2>1. tab \in Lists /\ tab[r] = z.blocks
    BY <1>2, <1>12, TablesFacts
  <2> HIDE DEF tab
  <2>2. Relist(tab, r, z.blocks) = tab
    BY <2>1 DEF Lists, Relist
  <2> QED BY <1>10, <2>2 DEF tab
<1>17. Sound(s.p, Rerecord(req, r, z), popped)
  BY <1>2, <1>12, <1>14, <1>16, SoundStep
<1> QED BY <1>1, <1>17 DEF Inv

LEMMA DoneOK ==
    ASSUME NEW q, NEW z, NEW own, NEW t, RequestOK(q, own, t), z.num_tokens = q.num_tokens, z.status = "done", z.flight = <<>>,
           NEW new
    PROVE  RequestOK(z, new, t)
BY DEF RequestOK

LEMMA FreeRequestStep ==
    ASSUME Inv, NEW r \in Requests, FreeRequest(r)
    PROVE  Inv'
<1> DEFINE z == Finished(req[r])
<1>1. pool' = Free(pool, req[r].blocks) /\ req' = Rerecord(req, r, z) /\ popped' = popped
  BY DEF FreeRequest, Rerecord, Finished
<1>2. Sound(pool, req, popped) /\ req[r] \in Request /\ RequestOK(req[r], popped[r], Text[r])
  BY DEF Inv, Sound
<1>3. z \in Request /\ z.status = "done" /\ z.num_tokens = req[r].num_tokens /\ z.flight = <<>> /\ z.blocks = <<>>
  BY <1>2, FinishedFields
<1> HIDE DEF z
<1>4. RequestOK(z, popped[r], Text[r])
  BY <1>2, <1>3, DoneOK
<1>5. Sound(Free(pool, req[r].blocks), Rerecord(req, r, z), popped)
  BY <1>2, <1>3, <1>4, FreeWhole
<1> QED BY <1>1, <1>5 DEF Inv

(* A whole list moves from the table to the deferred lists.                 *)
LEMMA BackedMove ==
    ASSUME NEW p, NEW tab, NEW deferred, Backed(p, tab, deferred), NEW r \in Requests, deferred[r] = <<>>
    PROVE  Backed(p, Relist(tab, r, <<>>), Relist(deferred, r, tab[r]))
<1> DEFINE s == tab[r]
           none == <<>>
           tab2 == Relist(tab, r, none)
           def2 == Relist(deferred, r, s)
<1>1. tab \in Lists /\ deferred \in Lists /\ s \in Seq(Blocks) /\ none \in Seq(Blocks)
  BY DEF Backed, Lists
<1>2. Unique(s) /\ Unique(none)
  BY DEF Backed, Unique
<1>3. deferred[r] = none /\ \A b : b \notin ToSet(none)
  BY DEF ToSet
<1> HIDE DEF none, s
<1>4. /\ tab2 \in Lists /\ tab2[r] = none /\ \A x \in Requests : x # r => tab2[x] = tab[x]
      /\ def2 \in Lists /\ def2[r] = s /\ \A x \in Requests : x # r => def2[x] = deferred[x]
  BY <1>1 DEF Lists, Relist
<1> HIDE DEF tab2, def2
<1>5. \A x \in Requests : Unique(tab2[x]) /\ Unique(def2[x])
  <2>1. \A x \in Requests : Unique(tab[x]) /\ Unique(deferred[x])
    BY DEF Backed
  <2> QED BY <1>2, <1>4, <2>1
<1>6. ASSUME NEW b \in Blocks, b # null_block
      PROVE  p.ref[b] = Cardinality(HoldersOf(tab2, b)) + Cardinality(HoldersOf(def2, b))
  <2>1. Cardinality(HoldersOf(tab2, b)) = Cardinality(HoldersOf(tab, b)) + Holds(tab2, r, b) - Holds(tab, r, b)
    BY <1>1, <1>4, HoldersChange
  <2>2. Cardinality(HoldersOf(def2, b)) = Cardinality(HoldersOf(deferred, b)) + Holds(def2, r, b) - Holds(deferred, r, b)
    BY <1>1, <1>4, HoldersChange
  <2>3. p.ref[b] = Cardinality(HoldersOf(tab, b)) + Cardinality(HoldersOf(deferred, b))
    BY <1>6 DEF Backed, Counted
  <2>4. Holds(tab2, r, b) = 0 /\ Holds(deferred, r, b) = 0 /\ Holds(def2, r, b) = Holds(tab, r, b)
    BY <1>3, <1>4 DEF Holds, s
  <2>5. /\ Cardinality(HoldersOf(tab, b)) \in Nat /\ Cardinality(HoldersOf(deferred, b)) \in Nat
        /\ Holds(tab, r, b) \in Nat
    BY HoldersFinite DEF Holds
  <2> QED BY <2>1, <2>2, <2>3, <2>4, <2>5
<1>7. Counted(p, tab2, def2)
  BY <1>6 DEF Counted
<1>8. Backed(p, tab2, def2)
  BY <1>4, <1>5, <1>7 DEF Backed
<1> QED BY <1>8 DEF tab2, def2, none, s

LEMMA PopStep ==
    ASSUME Inv, NEW r \in Requests, pop_blocks_for_free(r)
    PROVE  Inv'
<1> DEFINE q == req[r]
           z == Finished(q)
           def2 == Relist(popped, r, q.blocks)
           rq2 == Rerecord(req, r, z)
           tab == Tables(req)
<1>1. q.status = "running" /\ pool' = pool /\ req' = rq2 /\ popped' = def2
  BY DEF pop_blocks_for_free, Rerecord, Finished, Relist
<1>2. /\ req \in [Requests -> Request] /\ Backed(pool, tab, popped)
      /\ \A s \in Requests : RequestOK(req[s], popped[s], Text[s])
  BY DEF Inv, Sound
<1>3. q \in Request /\ popped[r] = <<>>
  BY <1>1, ScheduledFacts
<1>4. z \in Request /\ z.status = "done" /\ z.num_tokens = q.num_tokens /\ z.flight = <<>> /\ z.blocks = <<>>
  BY <1>3, FinishedFields
<1>5. tab[r] = q.blocks /\ popped \in Lists
  <2>1. popped \in Lists
    BY <1>2 DEF Backed
  <2> HIDE DEF z
  <2> QED BY <1>2, <1>3, <2>1, TablesFacts
<1> HIDE DEF z, tab, q
<1>6. def2[r] = q.blocks /\ \A s \in Requests : s # r => def2[s] = popped[s]
  BY <1>5 DEF Lists, Relist
<1>7. /\ rq2 \in [Requests -> Request] /\ rq2[r] = z /\ \A s \in Requests : s # r => rq2[s] = req[s]
      /\ Tables(rq2) = Relist(tab, r, z.blocks)
  BY <1>2, <1>4, RerecordFacts DEF tab
<1>8. Backed(pool, Tables(rq2), def2)
  <2>1. Backed(pool, Relist(tab, r, <<>>), Relist(popped, r, tab[r]))
    BY <1>2, <1>3, BackedMove
  <2> QED BY <1>4, <1>5, <1>7, <2>1
<1> HIDE DEF rq2, def2
<1>10. ASSUME NEW s \in Requests PROVE RequestOK(rq2[s], def2[s], Text[s])
  <2>1. CASE s = r
    <3>1. RequestOK(q, popped[r], Text[r])
      BY <1>2 DEF q
    <3>2. RequestOK(z, def2[r], Text[r])
      BY <1>4, <3>1, DoneOK
    <3> QED BY <1>7, <2>1, <3>2
  <2>2. CASE s # r
    BY <1>2, <1>6, <1>7, <2>2
  <2> QED BY <2>1, <2>2
<1> QED BY <1>1, <1>7, <1>8, <1>10 DEF Inv, Sound

LEMMA FreePoppedStep ==
    ASSUME Inv, NEW r \in Requests, FreePopped(r)
    PROVE  Inv'
<1> DEFINE q == Free(pool, popped[r])
           def2 == Relist(popped, r, <<>>)
           tab == Tables(req)
<1>1. popped[r] # <<>> /\ pool' = q /\ req' = req /\ popped' = def2
  BY DEF FreePopped, Relist
<1>2. /\ req \in [Requests -> Request] /\ Backed(pool, tab, popped)
      /\ \A s \in Requests : RequestOK(req[s], popped[s], Text[s])
  BY DEF Inv, Sound
<1> HIDE DEF tab
<1>3. Backed(q, def2, tab) /\ SameCache(pool, q)
  <2>1. Backed(pool, popped, tab)
    BY <1>2, BackedSymmetric
  <2> QED BY <2>1, FreeStage
<1> HIDE DEF q
<1>4. popped \in Lists
  BY <1>2 DEF Backed
<1>5. def2[r] = <<>> /\ \A s \in Requests : s # r => def2[s] = popped[s]
  BY <1>4 DEF Lists, Relist
<1> HIDE DEF def2
<1>6. Backed(q, tab, def2)
  BY <1>3, BackedSymmetric
<1>8. ASSUME NEW s \in Requests PROVE RequestOK(req[s], def2[s], Text[s])
  <2>1. CASE s = r
    BY <1>2, <1>5, <2>1 DEF RequestOK
  <2>2. CASE s # r
    BY <1>2, <1>5, <2>2
  <2> QED BY <2>1, <2>2
<1> QED BY <1>1, <1>2, <1>6, <1>8 DEF Inv, Sound, tab

(* Entries leave the cache, and nothing else happens.                       *)
LEMMA UncacheStep ==
    ASSUME Inv, NEW q \in PoolState, SameFree(pool, q), Agree(q), Uncache(q),
           \A b \in Blocks, k \in Keys : contain(q, k, b) => contain(pool, k, b),
           \A b \in Blocks : q.extra[b] = pool.extra[b] \/ q.extra[b] = {}
    PROVE  Inv'
<1>1. pool' = q /\ req' = req /\ popped' = popped
  BY DEF Uncache
<1>2. Backed(pool, Tables(req), popped)
  BY DEF Inv, Sound
<1>3. Plain(q)
  BY <1>2, OneGroup DEF Backed, Plain
<1>4. Backed(q, Tables(req), popped)
  BY <1>2, <1>3, BackedCache
<1> QED BY <1>1, <1>4 DEF Inv, Sound

LEMMA EvictStep ==
    ASSUME Inv, NEW b \in Blocks, EvictBlock(b)
    PROVE  Inv'
<1> DEFINE blocks == SetToSeq({b})
           q == Evicted(pool, blocks)
<1>1. pool \in PoolState /\ Agree(pool)
  BY DEF Inv, Sound, Backed
<1>2. Uncache(q)
  BY DEF EvictBlock, evict_blocks
<1>3. blocks \in Seq(Blocks)
  BY FiniteBlocks, SetToSeqFacts, FS_Singleton
<1> HIDE DEF blocks
<1>4. q \in PoolState /\ Agree(q) /\ Emptied(pool, blocks, q)
  BY <1>1, <1>3, EvictedEffect
<1> HIDE DEF q
<1>5. /\ SameFree(pool, q) /\ \A c \in Blocks, k \in Keys : contain(q, k, c) => contain(pool, k, c)
      /\ \A c \in Blocks : q.extra[c] = pool.extra[c] \/ q.extra[c] = {}
  BY <1>4 DEF Emptied
<1> QED BY <1>2, <1>4, <1>5, UncacheStep

LEMMA ResetStep ==
    ASSUME Inv, ResetPrefixCache
    PROVE  Inv'
<1> DEFINE q == reset_prefix_cache(pool)
<1>1. pool \in PoolState /\ Agree(pool)
  BY DEF Inv, Sound, Backed
<1>2. Uncache(q)
  BY DEF ResetPrefixCache
<1>3. /\ q \in PoolState /\ SameFree(pool, q) /\ Agree(q)
      /\ \A c \in Blocks, k \in Keys : contain(q, k, c) => contain(pool, k, c)
      /\ \A c \in Blocks : q.extra[c] = pool.extra[c] \/ q.extra[c] = {}
  BY <1>1, ResetEffect
<1> HIDE DEF q
<1> QED BY <1>2, <1>3, UncacheStep

LEMMA InvInit == Init => Inv
<1> SUFFICES ASSUME Init PROVE Inv
  OBVIOUS
<1> DEFINE p == NewPool
           none == <<>>
           tab == Tables(req)
<1>1. /\ p \in PoolState /\ IsFreeListExact(p) /\ Agree(p)
      /\ \A b \in Blocks : p.ref[b] = 0 /\ p.extra[b] = {}
      /\ \A k \in Keys, b \in Blocks : ~contain(p, k, b)
  BY NewPoolFacts
<1>2. pool = p /\ req = [r \in Requests |-> NewRequest(r)] /\ popped = [r \in Requests |-> none]
  BY DEF Init
<1> HIDE DEF p
<1>3. ASSUME NEW r \in Requests
      PROVE  /\ req[r] \in Request /\ req[r].blocks = none /\ popped[r] = none
             /\ RequestOK(req[r], popped[r], Text[r])
  <2> DEFINE q == NewRequest(r)
             t == Text[r]
  <2>1. /\ q \in Request /\ q.status = "waiting" /\ q.computed = 0 /\ q.num_tokens = Prompt[r]
        /\ q.flight = none /\ q.blocks = none
    BY NewRequestFields
  <2>2. Prompt[r] \in 1..Len(t) /\ t \in Seq(Nat)
    BY KVCacheManagerAssumption, BlockPoolAssumption
  <2>3. Len(t) \in Nat
    BY <2>2
  <2> HIDE DEF q, t
  <2>4. q.num_tokens \in Nat /\ q.num_tokens <= Len(t)
    BY <2>1, <2>2, <2>3
  <2>5. RequestOK(q, <<>>, t)
    BY <2>1, <2>4, EmptyRequestOK
  <2> QED BY <1>2, <2>1, <2>5 DEF q, t
<1>4. req \in [Requests -> Request]
  BY <1>2, <1>3
<1>5. \A r \in Requests : tab[r] = none /\ popped[r] = none
  BY <1>3 DEF Tables
<1>6. none \in Seq(Blocks) /\ Unique(none) /\ \A b : b \notin ToSet(none)
  BY DEF Unique, ToSet
<1>7. tab = [r \in Requests |-> none]
  BY <1>5 DEF Tables
<1> HIDE DEF none, tab
<1>8. tab \in Lists /\ popped \in Lists
  BY <1>2, <1>6, <1>7 DEF Lists
<1>9. Counted(p, tab, popped)
  <2>1. \A b : HoldersOf(tab, b) = {} /\ HoldersOf(popped, b) = {}
    BY <1>5, <1>6 DEF HoldersOf
  <2>2. \A b : Cardinality(HoldersOf(tab, b)) + Cardinality(HoldersOf(popped, b)) = 0
    BY <2>1, FS_EmptySet
  <2> QED BY <1>1, <2>2 DEF Counted
<1>10. Plain(p)
  BY <1>1, OneGroup DEF Plain
<1>11. Backed(p, tab, popped)
  BY <1>1, <1>5, <1>6, <1>8, <1>9, <1>10 DEF Backed
<1> QED BY <1>2, <1>3, <1>4, <1>11 DEF Inv, Sound, tab

LEMMA InvNext == Inv /\ [Next]_vars => Inv'
<1> SUFFICES ASSUME Inv, [Next]_vars PROVE Inv'
  OBVIOUS
<1>1. ASSUME NEW r \in Requests, NEW n \in 1..MaxStep, NEW must_fit \in BOOLEAN,
             ScheduleWaiting(r, n, must_fit) \/ StayWaiting(r, n, must_fit)
      PROVE  Inv'
  BY <1>1, ScheduleWaitingStep, StayWaitingStep
<1>2. ASSUME NEW r \in Requests, NEW n \in 1..MaxStep, NEW d \in 0..MaxDrafts, ScheduleRunning(r, n, d)
      PROVE  Inv'
  BY <1>2, ScheduleRunningStep
<1>3. ASSUME NEW r \in Requests, NEW v \in Requests, NEW n \in 1..MaxStep, NEW d \in 0..MaxDrafts, Preempt(r, n, d, v)
      PROVE  Inv'
  BY <1>3, PreemptStep
<1>4. ASSUME NEW r \in Requests, NEW d \in 0..MaxDrafts, StepDone(r, d) PROVE Inv'
  BY <1>4, StepDoneStep
<1>5. ASSUME NEW r \in Requests, NEW ext \in 1..MaxStep, NEW reserved \in 0..1, StartLoad(r, ext, reserved) PROVE Inv'
  BY <1>5, StartLoadStep
<1>6. ASSUME NEW r \in Requests, NEW valid \in 1..MaxStep, LoadDone(r, valid) PROVE Inv'
  BY <1>6, LoadDoneStep
<1>7. ASSUME NEW r \in Requests, FreeRequest(r) \/ pop_blocks_for_free(r) \/ FreePopped(r) PROVE Inv'
  BY <1>7, FreeRequestStep, PopStep, FreePoppedStep
<1>8. ASSUME NEW b \in Blocks, EvictBlock(b) PROVE Inv'
  BY <1>8, EvictStep
<1>9. CASE ResetPrefixCache
  BY <1>9, ResetStep
<1>10. CASE UNCHANGED vars
  BY <1>10 DEF vars, Inv, Sound, Backed, RequestOK
<1>11. CASE EndStep
  BY <1>11 DEF EndStep, Inv, Sound, Backed, RequestOK
<1> QED BY <1>1, <1>2, <1>3, <1>4, <1>5, <1>6, <1>7, <1>8, <1>9, <1>10, <1>11 DEF Next

LEMMA InvAlways == Spec => []Inv
<1> QED BY InvInit, InvNext, PTL DEF Spec

(* What a step has scheduled runs until the step ends: a request leaves     *)
(* scheduled with its preemption and when it is freed.                      *)
OnlyRunning == scheduled \subseteq Running

LEMMA OthersKeep ==
    ASSUME Inv, NEW r \in Requests, NEW z, req' = Rerecord(req, r, z), NEW s \in Requests, s # r
    PROVE  req'[s] = req[s]
BY DEF Inv, Sound, Rerecord

LEMMA OnlyRunningNext == Inv /\ OnlyRunning /\ [Next]_vars => OnlyRunning'
<1> SUFFICES ASSUME Inv, OnlyRunning, [Next]_vars, NEW u \in scheduled' PROVE u \in Requests /\ req'[u].status = "running"
  BY DEF OnlyRunning, Running
<1>1. \A s \in scheduled : s \in Requests /\ req[s].status = "running"
  BY DEF OnlyRunning, Running
<1>2. ASSUME NEW r \in Requests, NEW a, NEW d, req[r].status \in {"waiting", "preempted", "running"},
             IsStep(r, a, d), Launch(r, a, d)
      PROVE  u \in Requests /\ req'[u].status = "running"
  <2>1. u = r \/ u \in scheduled
    BY <1>2 DEF Launch
  <2>2. req'[r].status = "running"
    BY <1>2, LaunchStep
  <2>3. ASSUME u \in scheduled, u # r PROVE req'[u] = req[u]
    BY <1>1, <1>2, <2>3, OthersKeep DEF Launch, Rerecord
  <2> QED BY <1>1, <2>1, <2>2, <2>3
<1>3. ASSUME NEW r \in Requests, NEW n \in 1..MaxStep, NEW must_fit \in BOOLEAN, ScheduleWaiting(r, n, must_fit)
      PROVE  u \in Requests /\ req'[u].status = "running"
  BY <1>2, <1>3, WaitingFacts
<1>4. ASSUME NEW r \in Requests, NEW n \in 1..MaxStep, NEW d \in 0..MaxDrafts, ScheduleRunning(r, n, d)
      PROVE  u \in Requests /\ req'[u].status = "running"
  <2>1. IsStep(r, RunArguments(n, d), d) /\ req[r].status = "running" /\ Launch(r, RunArguments(n, d), d)
    BY <1>4, RunFacts DEF ScheduleRunning
  <2> QED BY <1>2, <2>1
<1>5. ASSUME NEW r \in Requests, NEW n, NEW must_fit, StayWaiting(r, n, must_fit)
      PROVE  u \in Requests /\ req'[u].status = "running"
  <2>1. u \in scheduled /\ u # r
    BY <1>1, <1>5 DEF StayWaiting
  <2> QED BY <1>1, <1>5, <2>1, OthersKeep DEF StayWaiting, Rerecord
<1>6. ASSUME NEW r \in Requests, NEW v \in Requests, NEW n, NEW d, Preempt(r, n, d, v)
      PROVE  u \in Requests /\ req'[u].status = "running"
  <2>1. u \in scheduled /\ u # v /\ u # r
    BY <1>1, <1>6 DEF Preempt, MayRun
  <2> DEFINE rq == Rerecord(req, r, Trimmed(r, RunArguments(n, d)).q)
  <2>2. rq[u] = req[u] /\ DOMAIN rq = Requests
    BY <1>1, <2>1 DEF Inv, Sound, Rerecord
  <2>3. PICK z : req' = [rq EXCEPT ![v] = z]
    BY <1>6 DEF Preempt, Rerecord
  <2> HIDE DEF rq
  <2>4. req'[u] = req[u]
    BY <1>1, <2>1, <2>2, <2>3
  <2> QED BY <1>1, <2>1, <2>4
<1>7. ASSUME NEW r \in Requests, NEW d, StepDone(r, d)
      PROVE  u \in Requests /\ req'[u].status = "running"
  <2>1. u \in scheduled
    BY <1>7 DEF StepDone
  <2>2. req'[u].status = req[u].status
    <3>1. req \in [Requests -> Request] /\ \A q \in Request : DOMAIN q = {"status", "computed", "num_tokens", "flight", "blocks", "cached"}
      BY DEF Inv, Sound, Request
    <3>2. CASE u # r
      BY <1>1, <1>7, <2>1, <3>1, <3>2 DEF StepDone
    <3>3. CASE u = r
      <4> DEFINE f == Tail(req[r].flight)
                 c == req[r].computed - d
      <4>1. PICK n : req' = RolledIn(req, r, f, c, n)
        BY <1>7 DEF StepDone, RolledIn
      <4>2. req' = Rerecord(req, r, Rolled(req[r], f, c, n))
        BY <3>1, <4>1, RolledRecord
      <4>3. req'[r] = Rolled(req[r], f, c, n)
        BY <3>1, <4>2 DEF Rerecord
      <4>4. Rolled(req[r], f, c, n).status = req[r].status
        BY <3>1 DEF Rolled
      <4> QED BY <3>3, <4>3, <4>4
    <3> QED BY <3>2, <3>3
  <2> QED BY <1>1, <2>1, <2>2
<1>8. ASSUME NEW r \in Requests, NEW ext, NEW reserved, StartLoad(r, ext, reserved)
      PROVE  u \in Requests /\ req'[u].status = "running"
  <2>1. u \in scheduled /\ u # r
    BY <1>1, <1>8 DEF StartLoad
  <2> QED BY <1>1, <1>8, <2>1, OthersKeep DEF StartLoad, Rerecord
<1>9. ASSUME NEW r \in Requests, NEW valid, LoadDone(r, valid)
      PROVE  u \in Requests /\ req'[u].status = "running"
  <2>1. u \in scheduled /\ u # r
    BY <1>1, <1>9 DEF LoadDone
  <2> QED BY <1>1, <1>9, <2>1, OthersKeep DEF LoadDone, Rerecord
<1>10. ASSUME NEW r \in Requests, FreeRequest(r) \/ pop_blocks_for_free(r)
       PROVE  u \in Requests /\ req'[u].status = "running"
  <2>1. u \in scheduled /\ u # r /\ \E z : req' = Rerecord(req, r, z)
    BY <1>10 DEF FreeRequest, pop_blocks_for_free, Rerecord
  <2> QED BY <1>1, <1>10, <2>1, OthersKeep
<1>11. ASSUME NEW r \in Requests, FreePopped(r) PROVE u \in Requests /\ req'[u].status = "running"
  BY <1>1, <1>11 DEF FreePopped
<1>12. ASSUME NEW b \in Blocks, EvictBlock(b) PROVE u \in Requests /\ req'[u].status = "running"
  BY <1>1, <1>12 DEF EvictBlock, Uncache
<1>13. CASE ResetPrefixCache
  BY <1>1, <1>13 DEF ResetPrefixCache, Uncache
<1>14. CASE EndStep
  BY <1>14 DEF EndStep
<1>15. CASE UNCHANGED vars
  BY <1>1, <1>15 DEF vars
<1> QED BY <1>3, <1>4, <1>5, <1>6, <1>7, <1>8, <1>9, <1>10, <1>11, <1>12, <1>13, <1>14, <1>15 DEF Next

LEMMA OnlyRunningAlways == Spec => []OnlyRunning
<1>1. Init => OnlyRunning
  BY DEF Init, OnlyRunning
<1> QED BY <1>1, OnlyRunningNext, InvAlways, PTL DEF Spec

----------------------------------------------------------------------------
(* What follows from the invariant                                          *)

LEMMA InvTables ==
    ASSUME Inv
    PROVE  /\ Backed(pool, Tables(req), popped)
           /\ \A r \in Requests : req[r] \in Request /\ Tables(req)[r] = req[r].blocks /\ req[r].blocks \in Seq(Blocks)
<1>1. req \in [Requests -> Request] /\ Backed(pool, Tables(req), popped)
  BY DEF Inv, Sound
<1>2. \A r \in Requests : req[r] \in Request
  BY <1>1
<1>3. \A r \in Requests : Tables(req)[r] = req[r].blocks
  BY DEF Tables
<1>4. \A q \in Request : q.blocks \in Seq(Blocks)
  BY RequestType
<1> QED BY <1>1, <1>2, <1>3, <1>4

(* Through admission, preemption, failed allocations, loads and deferred    *)
(* frees, a block is referenced once by every table or deferred list that   *)
(* holds it, and it is free exactly when none does (RefsAreHolders).        *)
THEOREM ReferencesAreHolders == Spec => []RefsAreHolders
<1>1. ASSUME Inv PROVE RefsAreHolders
  <2>1. Backed(pool, Tables(req), popped) /\ \A r \in Requests : Tables(req)[r] = req[r].blocks
    BY <1>1, InvTables
  <2>2. IsFreeListExact(pool) /\ Counted(pool, Tables(req), popped)
    BY <2>1 DEF Backed
  <2>3. \A b : Holders(b) = HoldersOf(Tables(req), b) /\ Deferred(b) = HoldersOf(popped, b)
    BY <2>1 DEF Holders, Deferred, HoldersOf
  <2> QED BY <2>2, <2>3 DEF RefsAreHolders, Counted
<1> QED BY <1>1, InvAlways, PTL

(* No block a step in flight or the next step of a running request attends  *)
(* to was trimmed, although the rejection of drafts moves the window back   *)
(* (WindowIsBacked).                                                        *)
THEOREM WindowIsAlwaysBacked == Spec => []WindowIsBacked
<1>1. ASSUME Inv PROVE WindowIsBacked
  <2>1. SUFFICES ASSUME NEW r \in Requests, req[r].status = "running",
                        NEW i \in NumSkipped(req[r].computed - in_flight(req[r])) + 1 .. cdiv(req[r].computed, block_size)
                 PROVE  i \in DOMAIN req[r].blocks /\ req[r].blocks[i] # null_block
    BY DEF WindowIsBacked, Running
  <2> DEFINE q == req[r]
             s == q.blocks
             u == NumSkipped(q.computed - in_flight(q))
             c == cdiv(q.computed, block_size)
  <2>2. /\ NullsSkipped(q) /\ in_flight(q) \in Nat /\ q.computed \in Nat /\ q.computed - in_flight(q) \in Nat
    BY <1>1, <2>1, ScheduledFacts
  <2>3. s \in Seq(Blocks)
    BY <1>1, InvTables
  <2>4. c <= Len(s)
    BY <1>1, <2>1 DEF Inv, Sound, RequestOK
  <2>5. u \in Nat
    <3> DEFINE v == q.computed - in_flight(q)
    <3>1. v \in Int
      BY <2>2
    <3> HIDE DEF v
    <3>2. NumSkipped(v) \in Nat
      BY <3>1, SkippedFacts
    <3> QED BY <3>2 DEF v
  <2>6. c \in Int
    <3> DEFINE y == q.computed
    <3>1. y \in Int
      BY <2>2
    <3> HIDE DEF y
    <3>2. cdiv(y, block_size) \in Int
      BY <3>1, CdivFacts
    <3> QED BY <3>2 DEF y
  <2>7. i \in u + 1 .. c
    BY <2>1
  <2>8. \A j \in DOMAIN s : s[j] = null_block => j <= u
    BY <2>2 DEF NullsSkipped
  <2> HIDE DEF s, u, c
  <2>9. i \in DOMAIN s /\ ~(i <= u)
    BY <2>3, <2>4, <2>5, <2>6, <2>7
  <2> QED BY <2>8, <2>9 DEF s
<1> QED BY <1>1, InvAlways, PTL

(* Only ScheduleWaiting makes a waiting or preempted request run, and only  *)
(* StartLoad makes it wait for a load.                                      *)
LEMMA OnlyAdmission ==
    ASSUME Inv, Next, NEW r \in Requests, req[r].status \in {"waiting", "preempted"},
           req'[r].status \in {"running", "loading"}
    PROVE  \/ \E n \in 1..MaxStep, must_fit \in BOOLEAN : ScheduleWaiting(r, n, must_fit)
           \/ \E ext \in 1..MaxStep, reserved \in 0..1 : StartLoad(r, ext, reserved)
<1>1. DOMAIN req = Requests /\ \A s \in Requests : req[s].status # "running" => req[s].flight = <<>>
  BY DEF Inv, Sound, RequestOK
<1>2. \A s \in Requests : \A z : s # r => Rerecord(req, s, z)[r] = req[r]
  BY <1>1 DEF Rerecord
<1>3. req[r].status # "running" /\ req[r].status # "loading"
  OBVIOUS
<1>4. ASSUME NEW s \in Requests, NEW z, req' = Rerecord(req, s, z)
      PROVE  s = r
  BY <1>2, <1>3, <1>4
<1>5. ASSUME NEW s \in Requests, NEW n \in 1..MaxStep, NEW must_fit \in BOOLEAN, ScheduleWaiting(s, n, must_fit)
      PROVE  s = r
  BY <1>4, <1>5 DEF ScheduleWaiting, Launch, Rerecord
<1>6. ASSUME NEW s \in Requests, NEW n \in 1..MaxStep, NEW must_fit \in BOOLEAN, StayWaiting(s, n, must_fit)
      PROVE  FALSE
  <2>1. s = r
    BY <1>4, <1>6 DEF StayWaiting, Rerecord
  <2> QED BY <1>6, <2>1, StayWaitingStep
<1>7. ASSUME NEW s \in Requests, NEW n, NEW d, ScheduleRunning(s, n, d) PROVE FALSE
  <2>1. s = r
    BY <1>4, <1>7 DEF ScheduleRunning, Launch, Rerecord
  <2> QED BY <1>3, <1>7, <2>1 DEF ScheduleRunning, MayRun
<1>8. ASSUME NEW s \in Requests, NEW v \in Requests, NEW n, NEW d, Preempt(s, n, d, v) PROVE FALSE
  <2> DEFINE rq == Rerecord(req, s, Trimmed(s, RunArguments(n, d)).q)
  <2>1. PICK z : req' = [rq EXCEPT ![v] = z]
    BY <1>8 DEF Preempt, Rerecord
  <2>2. s # r /\ v # r
    BY <1>3, <1>8 DEF Preempt, MayRun, Running
  <2>3. DOMAIN rq = Requests /\ rq[r] = req[r]
    BY <1>1, <2>2 DEF Rerecord
  <2> HIDE DEF rq
  <2>4. req'[r] = req[r]
    BY <2>1, <2>2, <2>3
  <2> QED BY <1>3, <2>4
<1>9. ASSUME NEW s \in Requests, NEW d, StepDone(s, d) PROVE FALSE
  <2>1. s # r
    BY <1>1, <1>3, <1>9 DEF StepDone
  <2>2. req'[r] = req[r]
    BY <1>1, <1>9, <2>1 DEF StepDone
  <2> QED BY <1>3, <2>2
<1>10. ASSUME NEW s \in Requests, NEW ext \in 1..MaxStep, NEW reserved \in 0..1, StartLoad(s, ext, reserved)
       PROVE  s = r
  BY <1>4, <1>10 DEF StartLoad, Rerecord
<1>11. ASSUME NEW s \in Requests, NEW valid, LoadDone(s, valid) PROVE FALSE
  <2>1. s = r
    BY <1>4, <1>11 DEF LoadDone, Rerecord
  <2> QED BY <1>3, <1>11, <2>1 DEF LoadDone
<1>12. ASSUME NEW s \in Requests, FreeRequest(s) \/ pop_blocks_for_free(s) \/ FreePopped(s) PROVE FALSE
  <2>1. CASE FreeRequest(s)
    BY <1>3, <1>4, <2>1 DEF FreeRequest, Rerecord
  <2>2. CASE pop_blocks_for_free(s)
    BY <1>3, <1>4, <2>2 DEF pop_blocks_for_free, Rerecord
  <2>3. CASE FreePopped(s)
    BY <1>3, <2>3 DEF FreePopped
  <2> QED BY <1>12, <2>1, <2>2, <2>3
<1>13. ASSUME NEW b \in Blocks, EvictBlock(b) PROVE FALSE
  BY <1>3, <1>13 DEF EvictBlock, Uncache
<1>14. CASE ResetPrefixCache
  BY <1>3, <1>14 DEF ResetPrefixCache, Uncache
<1>15. CASE EndStep
  BY <1>3, <1>15 DEF EndStep
<1> QED BY <1>5, <1>6, <1>7, <1>8, <1>9, <1>10, <1>11, <1>12, <1>13, <1>14, <1>15 DEF Next

(* Admitting a request, or starting its load, in a step that has scheduled  *)
(* others leaves watermark_blocks free, whatever hits it took from the free *)
(* list on the way (AdmissionKeepsWatermark).                               *)
THEOREM AdmissionLeavesWatermark == Spec => AdmissionKeepsWatermark
<1> DEFINE A == \A r \in Requests :
                  /\ req[r].status \in {"waiting", "preempted"} /\ req'[r].status \in {"running", "loading"}
                  /\ scheduled # {}
                  => get_num_free_blocks(pool') >= watermark_blocks
<1>1. Inv /\ [Next]_vars => [A]_vars
  <2>1. SUFFICES ASSUME Inv, Next, NEW r \in Requests, req[r].status \in {"waiting", "preempted"},
                        req'[r].status \in {"running", "loading"}, scheduled # {}
                 PROVE  get_num_free_blocks(pool') >= watermark_blocks
    OBVIOUS
  <2>2. \E a : IsAllocated(r, a, Allocated(r, a)) /\ pool' = Allocated(r, a).p
    <3>1. CASE \E n \in 1..MaxStep, must_fit \in BOOLEAN : ScheduleWaiting(r, n, must_fit)
      <4>1. PICK a : IsStep(r, a, 0) /\ Launch(r, a, 0)
        BY <2>1, <3>1, WaitingFacts
      <4>2. IsAllocated(r, a, Allocated(r, a)) /\ pool' = Allocated(r, a).p
        BY <2>1, <4>1, LaunchStep DEF Launch
      <4> QED BY <4>2
    <3>2. CASE \E ext \in 1..MaxStep, reserved \in 0..1 : StartLoad(r, ext, reserved)
      BY <2>1, <3>2, StartLoadStep
    <3> QED BY <2>1, <3>1, <3>2, OnlyAdmission
  <2>3. Watermark(r) = watermark_blocks
    BY <2>1 DEF Watermark
  <2> QED BY <2>2, <2>3 DEF IsAllocated
<1> QED BY <1>1, InvAlways, PTL DEF Spec, AdmissionKeepsWatermark

(* A list has at most as many blocks as it is long.                         *)
LEMMA BlocksOfList ==
    ASSUME NEW T, NEW s \in Seq(T)
    PROVE  IsFiniteSet(ToSet(s)) /\ Cardinality(ToSet(s)) <= Len(s) /\ Cardinality(ToSet(s)) \in Nat
<1> DEFINE n == Len(s)
           B == ToSet(s)
<1>1. n \in Nat /\ DOMAIN s = 1..n /\ s \in [1..n -> T]
  OBVIOUS
<1>2. B = {s[i] : i \in 1..n}
  BY <1>1 DEF ToSet
<1> HIDE DEF n, B
<1>3. s \in Surjection(1..n, B)
  <2>1. s \in [1..n -> B]
    BY <1>1, <1>2
  <2>2. \A b \in B : \E i \in 1..n : s[i] = b
    BY <1>2
  <2> QED BY <2>1, <2>2 DEF Surjection
<1>4. IsFiniteSet(1..n) /\ Cardinality(1..n) = n
  <2>1. IsFiniteSet(1..n) /\ Cardinality(1..n) = IF 1 > n THEN 0 ELSE n - 1 + 1
    BY <1>1, FS_Interval
  <2> QED BY <1>1, <2>1
<1>5. IsFiniteSet(B) /\ Cardinality(B) <= n
  BY <1>3, <1>4, FS_Surjection
<1>6. Cardinality(B) \in Nat
  BY <1>5, FS_CardinalityType
<1> QED BY <1>5, <1>6 DEF n, B

(* When one request holds all blocks that are held, the rest are free.      *)
LEMMA LoneFree ==
    ASSUME NEW p, NEW tab, NEW deferred, Backed(p, tab, deferred), NEW r \in Requests,
           \A s \in Requests : (s # r => tab[s] = <<>>) /\ deferred[s] = <<>>
    PROVE  Len(p.free) \in Nat /\ num_gpu_blocks - 1 <= Len(p.free) + Len(tab[r])
<1> DEFINE f == p.free
           s == tab[r]
           y == f \o s
           N == num_gpu_blocks
           B == Blocks \ {null_block}
<1>1. f \in Seq(Blocks) /\ s \in Seq(Blocks) /\ p \in PoolState /\ IsFreeListExact(p)
  BY PoolFields DEF Backed, Lists
<1>2. ASSUME NEW b \in Blocks, b # null_block, b \notin ToSet(s)
      PROVE  b \in ToSet(f)
  <2>1. \A x : x \notin ToSet(<<>>)
    BY DEF ToSet
  <2>2. HoldersOf(tab, b) = {} /\ HoldersOf(deferred, b) = {}
    BY <1>2, <2>1 DEF HoldersOf
  <2>3. p.ref[b] = Cardinality(HoldersOf(tab, b)) + Cardinality(HoldersOf(deferred, b))
    BY <1>2 DEF Backed, Counted
  <2>4. p.ref[b] = 0
    BY <2>2, <2>3, FS_EmptySet
  <2> QED BY <1>1, <1>2, <2>4, FreeListMeaning
<1> HIDE DEF f, s
<1>3. y \in Seq(Blocks) /\ Len(y) = Len(f) + Len(s) /\ Len(f) \in Nat /\ Len(s) \in Nat
  BY <1>1
<1>4. \A b : b \in ToSet(y) <=> b \in ToSet(f) \/ b \in ToSet(s)
  <2>1. ToSet(f \o s) = ToSet(f) \cup ToSet(s)
    BY <1>1, ConcatFacts
  <2> QED BY <2>1
<1> HIDE DEF y
<1>5. B \in SUBSET ToSet(y)
  BY <1>2, <1>4
<1>6. IsFiniteSet(ToSet(y)) /\ Cardinality(ToSet(y)) <= Len(y) /\ Cardinality(ToSet(y)) \in Nat
  BY <1>3, BlocksOfList
<1>7. IsFiniteSet(B) /\ Cardinality(B) = N - 1
  <2>1. N \in Nat \ {0} /\ null_block \in Blocks /\ Blocks = 0..N-1
    BY BlockPoolAssumption, OneGroup DEF Blocks
  <2>2. IsFiniteSet(Blocks) /\ Cardinality(Blocks) = N
    <3> HIDE DEF N
    <3>1. IsFiniteSet(0..N-1) /\ Cardinality(0..N-1) = IF 0 > N - 1 THEN 0 ELSE N - 1 - 0 + 1
      BY <2>1, FS_Interval
    <3> QED BY <2>1, <3>1
  <2> DEFINE U == Blocks
             x == null_block
  <2>3. IsFiniteSet(U) /\ Cardinality(U) = N /\ x \in U /\ B = U \ {x}
    BY <2>1, <2>2
  <2> HIDE DEF U, x, N, B
  <2>4. IsFiniteSet(U \ {x}) /\ Cardinality(U \ {x}) = IF x \in U THEN Cardinality(U) - 1 ELSE Cardinality(U)
    BY <2>3, FS_RemoveElement
  <2> QED BY <2>3, <2>4
<1>8. Cardinality(B) <= Cardinality(ToSet(y))
  BY <1>5, <1>6, FS_Subset
<1> HIDE DEF B
<1> DEFINE cy == Cardinality(ToSet(y))
           lf == Len(f)
           ls == Len(s)
<1>9. N \in Nat /\ lf \in Nat /\ ls \in Nat /\ cy \in Nat /\ cy <= lf + ls /\ N - 1 <= cy
  <2>1. N \in Nat
    BY BlockPoolAssumption
  <2> HIDE DEF N
  <2> QED BY <1>3, <1>6, <1>7, <1>8, <2>1
<1> HIDE DEF N, cy, lf, ls
<1>10. lf \in Nat /\ N - 1 <= lf + ls
  BY <1>9
<1> QED BY <1>10 DEF N, f, s, lf, ls

(* Blocks outside tables and free list there are none, so a request that is *)
(* alone can have as many blocks as there are, hits on free blocks included.*)
LEMMA LoneFits ==
    ASSUME NEW p, NEW tab, NEW deferred, Backed(p, tab, deferred), NEW r \in Requests,
           \A s \in Requests : (s # r => tab[s] = <<>>) /\ deferred[s] = <<>>,
           NEW q, q.blocks = tab[r], NEW hit \in Seq(Blocks), NEW n \in Int, cdiv(n, block_size) < num_gpu_blocks,
           hit = <<>> \/ (tab[r] = <<>> /\ Len(hit) <= cdiv(n, block_size))
    PROVE  /\ get_num_blocks_to_allocate(p, q, n, hit) <= get_num_free_blocks(p)
           /\ get_num_blocks_to_allocate(p, q, n, hit) \in Nat /\ get_num_free_blocks(p) \in Nat
<1> DEFINE c == cdiv(n, block_size)
           l == Len(tab[r])
           h == Len(hit)
           free == Len(p.free)
           F == FreeHits(p, hit)
           m == Cardinality(F)
           N == num_gpu_blocks
<1>1. free \in Nat /\ N - 1 <= free + l
  BY LoneFree
<1>2. l \in Nat /\ h \in Nat /\ N \in Nat
  <2>1. tab[r] \in Seq(Blocks)
    BY DEF Backed, Lists
  <2> QED BY <2>1, BlockPoolAssumption
<1>3. c \in Int
  BY CdivFacts
<1>4. get_num_blocks_to_allocate(p, q, n, hit) = AtLeast0(c - l - h) + m
  BY DEF get_num_blocks_to_allocate, FreeHits
<1>5. m \in Nat /\ m <= h
  <2>1. F \in SUBSET (1..h)
    BY DEF FreeHits
  <2> HIDE DEF F, h
  <2>2. IsFiniteSet(1..h) /\ Cardinality(1..h) = h
    <3>1. IsFiniteSet(1..h) /\ Cardinality(1..h) = IF 1 > h THEN 0 ELSE h - 1 + 1
      <4>1. h \in Int /\ 1 \in Int
        BY <1>2
      <4> QED BY <4>1, FS_Interval
    <3> QED BY <1>2, <3>1
  <2>3. IsFiniteSet(F) /\ Cardinality(F) <= Cardinality(1..h)
    BY <2>1, <2>2, FS_Subset
  <2>4. Cardinality(F) \in Nat
    BY <2>3, FS_CardinalityType
  <2> QED BY <2>2, <2>3, <2>4
<1>6. h = 0 \/ (l = 0 /\ h <= c)
  OBVIOUS
<1> HIDE DEF c, l, h, free, m, N
<1>7. c < N
  BY DEF c, N
<1>8. AtLeast0(c - l - h) + m <= free /\ AtLeast0(c - l - h) + m \in Nat
  BY <1>1, <1>2, <1>3, <1>5, <1>6, <1>7 DEF AtLeast0
<1> QED BY <1>1, <1>4, <1>8 DEF get_num_free_blocks, free

(* The scheduled request that is alone                                      *)
LEMMA NothingRunsBesides ==
    ASSUME Inv, NEW r \in Requests, req[r].status \in {"waiting", "preempted"},
           \A s \in Requests : s # r => ~HasBlocks(s)
    PROVE  Running = {}
<1> SUFFICES ASSUME NEW s \in Requests, req[s].status = "running" PROVE FALSE
  BY DEF Running
<1> DEFINE q == req[s]
           bl == q.blocks
           c == q.computed
<1>1. s # r
  OBVIOUS
<1>2. bl = <<>>
  BY <1>1 DEF HasBlocks
<1>3. c \in Nat /\ c # 0
  BY ScheduledFacts
<1>4. cdiv(c, block_size) <= Len(bl)
  BY DEF Inv, Sound, RequestOK
<1> HIDE DEF c
<1>5. Len(bl) = 0
  <2> HIDE DEF bl
  <2> QED BY <1>2
<1>6. cdiv(c, block_size) >= 1
  <2> DEFINE d == block_size
             k == c + d - 1
  <2>1. d \in Nat \ {0}
    BY BlockPoolAssumption
  <2>2. d \in Int /\ k \in Int /\ d <= k /\ d \div d = 1
    BY <1>3, <2>1
  <2>3. cdiv(c, block_size) = k \div d
    BY DEF cdiv
  <2> HIDE DEF k
  <2>4. d \div block_size <= k \div block_size
    BY <2>2, DivisionMonotone
  <2>5. k \div block_size \in Int
    BY <2>2, Division
  <2> QED BY <2>2, <2>3, <2>4, <2>5
<1>7. cdiv(c, block_size) \in Int
  <2>1. c \in Int
    BY <1>3
  <2> QED BY <2>1, CdivFacts
<1> QED BY <1>4, <1>5, <1>6, <1>7

LEMMA LoneAdmission ==
    ASSUME Inv, OnlyRunning, NEW r \in Requests, IsAlone(r), NEW hit, hit = HitOf(r), NEW left,
           left = req[r].num_tokens - LocalComputed(r, Arguments(0, hit, 0, 0, 0, TRUE, FALSE))
    PROVE  Admits(r, Arguments(left, hit, 0, 0, 0, TRUE, FALSE))
<1> DEFINE a == Arguments(left, hit, 0, 0, 0, TRUE, FALSE)
           q == req[r]
           n == q.num_tokens
           t == Text[r]
           tab == Tables(req)
           h == Len(hit)
           L == LocalComputed(r, a)
           s == Trimmed(r, a)
<1>1. /\ q.status \in {"waiting", "preempted"}
      /\ \A x \in Requests : (x # r => req[x].blocks = <<>>) /\ popped[x] = <<>>
      /\ cdiv(Len(t), block_size) < num_gpu_blocks
  BY DEF IsAlone, HasBlocks
<1>2. Watermark(r) = 0
  <2>1. Running = {}
    BY <1>1, NothingRunsBesides DEF HasBlocks
  <2> QED BY <2>1 DEF Watermark, OnlyRunning
<1>3. /\ Backed(pool, tab, popped) /\ tab[r] = q.blocks /\ \A x \in Requests : tab[x] = req[x].blocks
  BY InvTables
<1>4. q \in Request /\ q.computed \in Nat /\ n \in Nat \ {0} /\ n <= Len(t) /\ (q.computed = 0 => q.blocks = <<>>)
  BY <1>1, ScheduledFacts
<1>5. q.computed <= n
  BY <1>1, <1>4 DEF Inv, Sound, RequestOK
<1>6. Len(t) \in Nat /\ Len(t) <= max_model_len /\ max_model_len \in Nat /\ block_size \in Nat \ {0}
  <2>1. t \in Seq(Nat)
    BY KVCacheManagerAssumption, BlockPoolAssumption
  <2> QED BY <2>1, KVCacheManagerAssumption, BlockPoolAssumption
<1>7. /\ MayTouch(tab, r, hit) /\ h \in Nat
      /\ IF q.computed = 0 THEN h * block_size <= n - 1 ELSE hit = <<>>
  BY <1>1, HitsOfRequest
<1>8. a.hit = hit /\ a.new = left /\ a.ext = 0 /\ a.lookahead = 0 /\ a.reserved = 0 /\ a.must_fit
  BY DEF Arguments
<1>9. left = n - L
  <2>1. Arguments(0, hit, 0, 0, 0, TRUE, FALSE).hit = hit
    BY DEF Arguments
  <2> HIDE DEF a
  <2> QED BY <1>8, <2>1 DEF LocalComputed
<1> HIDE DEF a
<1>10. L = q.computed + h * block_size
  BY <1>8 DEF LocalComputed
<1>11. L \in Nat /\ L <= n /\ left \in Nat /\ n <= max_model_len
  <2> DEFINE e == h * block_size
  <2>1. e \in Nat /\ L = q.computed + e
    BY <1>6, <1>7, <1>10
  <2>2. IF q.computed = 0 THEN e <= n - 1 ELSE e = 0
    <3>1. hit = <<>> => h = 0
      OBVIOUS
    <3>2. h = 0 => e = 0
      BY <1>6
    <3> QED BY <1>7, <3>1, <3>2
  <2> DEFINE c == q.computed
             l == Len(t)
  <2>3. c \in Nat /\ n \in Nat \ {0} /\ c <= n /\ n <= l /\ l \in Nat /\ l <= max_model_len /\ L = c + e
    BY <1>4, <1>5, <1>6, <2>1
  <2>4. IF c = 0 THEN e <= n - 1 ELSE e = 0
    BY <2>2
  <2> HIDE DEF L, e, c, n, l
  <2>5. L \in Nat /\ L <= n /\ n <= max_model_len
    BY <1>6, <2>1, <2>3, <2>4
  <2>6. n - L \in Nat
    BY <2>3, <2>5
  <2> QED BY <1>9, <2>5, <2>6
<1>12. cdiv(n, block_size) < num_gpu_blocks
  <2> DEFINE l == Len(t)
  <2>1. l \in Int /\ n \in Int /\ n <= l /\ cdiv(l, block_size) < num_gpu_blocks
    BY <1>1, <1>4, <1>6
  <2> HIDE DEF l, n
  <2>2. cdiv(n, block_size) <= cdiv(l, block_size) /\ cdiv(n, block_size) \in Int /\ cdiv(l, block_size) \in Int
    BY <2>1, CdivFacts
  <2>3. num_gpu_blocks \in Nat
    BY BlockPoolAssumption
  <2> QED BY <2>1, <2>2, <2>3
<1>13. hit \in Seq(Blocks) /\ (hit = <<>> \/ (q.blocks = <<>> /\ h <= cdiv(n, block_size)))
  <2>1. hit \in Seq(Blocks)
    BY <1>7 DEF MayTouch
  <2>2. CASE q.computed = 0
    <3>1. h * block_size <= n - 1
      BY <1>7, <2>2
    <3> DEFINE e == h * block_size
    <3>2. e \in Int /\ e <= n /\ n \in Int
      BY <1>4, <1>6, <1>7, <3>1
    <3>3. e \div block_size = h
      BY <1>6, <1>7
    <3> HIDE DEF e, n
    <3>4. e \div block_size <= cdiv(n, block_size)
      BY <3>2, CdivFacts
    <3> QED BY <1>4, <2>1, <2>2, <3>3, <3>4 DEF n
  <2>3. CASE q.computed # 0
    BY <1>7, <2>1, <2>3
  <2> QED BY <2>2, <2>3
<1>14. n \in Int
  BY <1>4
<1>15. FullSequenceFits(r, a)
  <2>1. Least(n, max_model_len) = n
    BY <1>11, <1>14, <1>6 DEF Least
  <2> DEFINE need == get_num_blocks_to_allocate(pool, q, n, hit)
             have == get_num_free_blocks(pool)
  <2>2. need <= have /\ need \in Nat /\ have \in Nat
    <3>1. \A x \in Requests : (x # r => tab[x] = <<>>) /\ popped[x] = <<>>
      BY <1>1, <1>3
    <3> HIDE DEF q, n, tab, h
    <3> QED BY <1>3, <1>12, <1>13, <1>14, <3>1, LoneFits DEF h
  <2>3. FullSequenceFits(r, a) <=> need + 0 <= have
    BY <1>2, <1>8, <2>1 DEF FullSequenceFits
  <2> HIDE DEF need, have
  <2> QED BY <2>2, <2>3
<1>16. SlotsFit(r, a)
  <2> DEFINE z == s.q
             tab2 == Relist(tab, r, z.blocks)
             need == get_num_blocks_to_allocate(s.p, z, n, hit)
             have == get_num_free_blocks(s.p)
  <2>1. MayAllocate(r, a)
    <3>1. MayTouch(Tables(req), r, a.hit)
      BY <1>7, <1>8
    <3>2. a.new \in Nat /\ a.ext = 0 /\ a.lookahead = 0 /\ a.reserved = 0
      BY <1>8, <1>11
    <3> HIDE DEF L, n
    <3> QED BY <3>1, <3>2 DEF MayAllocate
  <2>2. L + a.new = n /\ L + left + 0 = n
    <3>1. L \in Nat /\ n \in Int /\ left = n - L /\ a.new = left
      BY <1>8, <1>9, <1>11, <1>14
    <3> HIDE DEF L, n
    <3>2. L + (n - L) = n /\ L + (n - L) + 0 = n
      BY <3>1
    <3> QED BY <3>1, <3>2
  <2>3. TotalComputed(r, a) = L
    BY <1>1, <1>4, <1>8, <2>1, <2>2, StepSizes
  <2>4. NeedSlot(r, a) = n
    <3>1. NeedSlot(r, a) = Least(L + left + 0, max_model_len)
      BY <1>8, <2>3 DEF NeedSlot
    <3>2. NeedSlot(r, a) = Least(n, max_model_len)
      BY <2>2, <3>1
    <3>3. n \in Int /\ max_model_len \in Int /\ n <= max_model_len
      BY <1>6, <1>11, <1>14
    <3> HIDE DEF n
    <3>4. Least(n, max_model_len) = n
      BY <3>3 DEF Least
    <3> QED BY <3>2, <3>4
  <2>5. /\ Keeps(q, z) /\ Len(z.blocks) = Len(q.blocks) /\ Backed(s.p, Relist(tab, r, z.blocks), popped)
    <3>1. Processed(r, a) \in Nat /\ req \in [Requests -> Request]
      BY <2>1, ArgumentTypes DEF Inv, Sound
    <3> QED BY <1>3, <3>1, TrimmedEffect
  <2>6. z.blocks \in Seq(Blocks)
    BY <2>5, RequestType DEF Keeps
  <2>7. q.blocks = <<>> => z.blocks = <<>>
    <3> DEFINE u == z.blocks
    <3>1. u \in Seq(Blocks) /\ (q.blocks = <<>> => Len(u) = 0)
      BY <2>5, <2>6
    <3> HIDE DEF u
    <3>2. q.blocks = <<>> => u = <<>>
      BY <3>1
    <3> QED BY <3>2 DEF u
  <2>8. tab2[r] = z.blocks /\ \A x \in Requests : (x # r => tab2[x] = <<>>) /\ popped[x] = <<>>
    <3>1. tab \in Lists /\ \A x \in Requests : (x # r => tab[x] = <<>>) /\ popped[x] = <<>>
      BY <1>1, <1>3 DEF Backed
    <3> HIDE DEF tab, z
    <3> QED BY <2>6, <3>1 DEF Lists, Relist
  <2>9. Backed(s.p, tab2, popped)
    BY <2>5
  <2>10. need <= have /\ need \in Nat /\ have \in Nat
    <3>1. hit = <<>> \/ (z.blocks = <<>> /\ h <= cdiv(n, block_size))
      BY <1>13, <2>7
    <3> HIDE DEF q, n, h, tab2, z, s
    <3> QED BY <1>12, <1>13, <1>14, <2>8, <2>9, <3>1, LoneFits DEF h
  <2>11. SlotsFit(r, a) <=> need + 0 <= have - 0
    BY <1>2, <1>8, <2>4 DEF SlotsFit
  <2> HIDE DEF need, have
  <2> QED BY <2>10, <2>11
<1> QED BY <1>8, <1>15, <1>16 DEF Admits, a

(* Neither the watermark nor the gate for the full sequence can keep out a  *)
(* request that is alone and whose tokens fit in the pool: allocate_slots   *)
(* refuses it only for want of blocks, and there are enough                 *)
(* (LoneRequestIsAdmitted).                                                 *)
THEOREM LoneRequestIsAlwaysAdmitted == Spec => []LoneRequestIsAdmitted
<1>1. Inv /\ OnlyRunning => LoneRequestIsAdmitted
  <2>1. SUFFICES ASSUME Inv, OnlyRunning, NEW r \in Requests, IsAlone(r)
                 PROVE  LET left == req[r].num_tokens - LocalComputed(r, Arguments(0, HitOf(r), 0, 0, 0, TRUE, FALSE))
                        IN  Admits(r, Arguments(left, HitOf(r), 0, 0, 0, TRUE, FALSE))
    BY DEF LoneRequestIsAdmitted
  <2> DEFINE hit == HitOf(r)
             left == req[r].num_tokens - LocalComputed(r, Arguments(0, hit, 0, 0, 0, TRUE, FALSE))
  <2>2. Admits(r, Arguments(left, hit, 0, 0, 0, TRUE, FALSE))
    BY <2>1, LoneAdmission
  <2> QED BY <2>2
<1> QED BY <1>1, InvAlways, OnlyRunningAlways, PTL
=============================================================================
