--------------------------- MODULE BlockPool_proof ---------------------------
(***************************************************************************)
(* Lemmas about the operators of the block pool, for the proofs about the  *)
(* pool and about the manager above it: what each method leaves alone, and *)
(* what it does to the free list, the references and the cache.            *)
(***************************************************************************)
EXTENDS BlockPool, TLAPS, WellFoundedInduction, SequenceTheorems, FiniteSetTheorems

----------------------------------------------------------------------------
(* Sequences and recursive functions                                        *)

LEMMA BoundedInduction ==
    ASSUME NEW n \in Nat, NEW S, 0 \in S, \A i \in 1..n : i - 1 \in S => i \in S
    PROVE  0..n \subseteq S
<1> DEFINE Bad == (0..n) \ S
<1>1. SUFFICES ASSUME Bad # {} PROVE FALSE
  OBVIOUS
<1>2. Bad \subseteq Nat
  OBVIOUS
<1>3. PICK i \in Bad : \A j \in Bad : ~ (<<j, i>> \in OpToRel(<, Nat))
  BY <1>1, <1>2, WFMin, NatLessThanWellFounded
<1>4. \A j \in Bad : ~ (j < i)
  BY <1>2, <1>3 DEF OpToRel
<1>5. i # 0 /\ i - 1 \in 0..n /\ i - 1 \in S
  BY <1>4
<1> QED BY <1>5

(* f holds what n steps lead to from t0.                                    *)
Walks(f, T, t0, n, step) == f \in [0..n -> T] /\ f[0] = t0 /\ \A i \in 1..n : f[i] = step[i][f[i-1]]

LEMMA StepFunction ==
    ASSUME NEW T, NEW t0 \in T, NEW n \in Nat, NEW step \in [1..n -> [T -> T]]
    PROVE  \E f : Walks(f, T, t0, n, step)
<1> DEFINE Upto(k) == \E f \in [0..k -> T] : f = [i \in 0..k |-> IF i = 0 THEN t0 ELSE step[i][f[i-1]]]
           S == {k \in 0..n : Upto(k)}
<1>1. Upto(0)
  <2>1. [i \in 0..0 |-> t0] \in [0..0 -> T]
    OBVIOUS
  <2> DEFINE f == [i \in 0..0 |-> t0]
  <2>2. f = [i \in 0..0 |-> IF i = 0 THEN t0 ELSE step[i][f[i-1]]]
    OBVIOUS
  <2> QED BY <2>1, <2>2
<1>2. ASSUME NEW k \in 1..n, k - 1 \in S
      PROVE  k \in S
  <2>1. PICK f \in [0..k-1 -> T] : f = [i \in 0..k-1 |-> IF i = 0 THEN t0 ELSE step[i][f[i-1]]]
    BY <1>2
  <2> DEFINE g == [i \in 0..k |-> IF i = k THEN step[k][f[k-1]] ELSE f[i]]
  <2>2. g \in [0..k -> T]
    <3>1. k - 1 \in 0..k-1 /\ f[k-1] \in T /\ step[k][f[k-1]] \in T
      BY <1>2, <2>1
    <3>2. ASSUME NEW i \in 0..k, i # k PROVE f[i] \in T
      BY <3>2, <2>1
    <3> QED BY <3>1, <3>2
  <2>3. ASSUME NEW i \in 0..k
        PROVE  g[i] = IF i = 0 THEN t0 ELSE step[i][g[i-1]]
    <3>1. CASE i = k
      <4>1. k # 0 /\ k - 1 \in 0..k /\ k - 1 # k
        BY <1>2
      <4>2. g[k-1] = f[k-1] /\ g[k] = step[k][f[k-1]]
        BY <4>1
      <4> QED BY <3>1, <4>1, <4>2
    <3>2. CASE i # k
      <4>1. i \in 0..k-1
        BY <3>2
      <4>2. f[i] = IF i = 0 THEN t0 ELSE step[i][f[i-1]]
        BY <2>1, <4>1
      <4> QED BY <4>1, <4>2, <3>2
    <3> QED BY <3>1, <3>2
  <2>4. g = [i \in 0..k |-> IF i = 0 THEN t0 ELSE step[i][g[i-1]]]
    BY <2>3
  <2>5. Upto(k)
    BY <2>2, <2>4
  <2>6. k \in 0..n
    OBVIOUS
  <2> HIDE DEF Upto
  <2> QED BY <2>5, <2>6
<1>3. 0..n \subseteq S
  <2>1. 0 \in S
    BY <1>1
  <2> HIDE DEF S
  <2> QED BY <1>2, <2>1, BoundedInduction
<1>4. PICK f \in [0..n -> T] : f = [i \in 0..n |-> IF i = 0 THEN t0 ELSE step[i][f[i-1]]]
  BY <1>3
<1>5. f[0] = t0 /\ \A i \in 1..n : f[i] = step[i][f[i-1]]
  <2>1. 0 \in 0..n /\ \A i \in 1..n : i \in 0..n /\ i # 0
    OBVIOUS
  <2> QED BY <1>4, <2>1
<1> QED BY <1>5 DEF Walks

Filters(f, T, s, S) ==
    /\ f \in [0..Len(s) -> Seq(T)] /\ f[0] = <<>> /\ Filter(s, S) = f[Len(s)]
    /\ \A i \in 1..Len(s) : f[i] = IF s[i] \in S THEN Append(f[i-1], s[i]) ELSE f[i-1]

LEMMA FilterSteps ==
    ASSUME NEW T, NEW s, NEW S, s \in Seq(T)
    PROVE  \E f : Filters(f, T, s, S)
<1> DEFINE n == Len(s)
           W == Seq(T)
           e == <<>>
           step == [i \in 1..n |-> [q \in W |-> IF s[i] \in S THEN Append(q, s[i]) ELSE q]]
           Is(f) == f = [i \in 0..Len(s) |-> IF i = 0 THEN <<>> ELSE IF s[i] \in S THEN Append(f[i-1], s[i]) ELSE f[i-1]]
<1>1. s \in Seq(T)
  OBVIOUS
<1>2. n \in Nat /\ e \in W
  BY <1>1
<1>3. step \in [1..n -> [W -> W]]
  BY <1>1
<1>14. \A i \in 0..n : i = 0 \/ (i # 0 /\ i \in 1..n)
  BY <1>2
<1>4. PICK f : f \in [0..n -> W] /\ f[0] = e /\ \A i \in 1..n : f[i] = step[i][f[i-1]]
  <2> HIDE DEF n, W, e, step
  <2>1. \E f : Walks(f, W, e, n, step)
    BY <1>2, <1>3, StepFunction, Zenon
  <2> QED BY <2>1 DEF Walks
<1>5. ASSUME NEW i \in 1..n
      PROVE  f[i] = IF s[i] \in S THEN Append(f[i-1], s[i]) ELSE f[i-1]
  <2>1. f[i-1] \in W
    <3> HIDE DEF W, n
    <3> QED BY <1>2, <1>4
  <2> HIDE DEF W, n
  <2> QED BY <1>4, <2>1
<1>6. Is(f)
  <2>1. \A i \in 0..n : f[i] = IF i = 0 THEN e ELSE IF s[i] \in S THEN Append(f[i-1], s[i]) ELSE f[i-1]
    <3> HIDE DEF W, n, e
    <3> QED BY <1>14, <1>4, <1>5
  <2> QED BY <1>4, <2>1
<1>7. PICK g : g = CHOOSE h : Is(h)
  OBVIOUS
<1>8. Is(g)
  <2> HIDE DEF Is
  <2> QED BY <1>6, <1>7
<1>9. Filter(s, S) = g[n]
  BY <1>7 DEF Filter
<1>10. g[0] = e /\ \A i \in 1..n : g[i] = IF s[i] \in S THEN Append(g[i-1], s[i]) ELSE g[i-1]
  <2>1. 0 \in 0..n /\ \A i \in 1..n : i # 0 /\ i \in 0..n
    BY <1>2
  <2> QED BY <1>8, <2>1
<1>11. 0..n \subseteq {i \in 0..n : g[i] \in W}
  <2> DEFINE Good == {i \in 0..n : g[i] \in W}
  <2>1. 0 \in Good
    <3>1. g[0] \in W
      BY <1>2, <1>10, Zenon
    <3>2. 0 \in 0..n
      BY <1>2
    <3> QED BY <3>1, <3>2
  <2>2. ASSUME NEW i \in 1..n, i-1 \in Good
        PROVE  i \in Good
    <3>1. i \in 0..n /\ s[i] \in T
      BY <1>1, <1>2
    <3>2. g[i-1] \in W
      BY <2>2
    <3>3. Append(g[i-1], s[i]) \in W
      BY <3>1, <3>2
    <3>4. g[i] = IF s[i] \in S THEN Append(g[i-1], s[i]) ELSE g[i-1]
      BY <1>10
    <3>5. g[i] \in W
      <4> HIDE DEF W
      <4> QED BY <3>2, <3>3, <3>4
    <3> QED BY <3>1, <3>5
  <2>3. n \in Nat
    BY <1>2
  <2>4. 0..n \subseteq Good
    <3> HIDE DEF Good, n
    <3> QED BY <2>3, <2>1, <2>2, BoundedInduction
  <2> QED BY <2>4
<1>12. g \in [0..n -> W]
  <2> HIDE DEF W, e
  <2> QED BY <1>8, <1>11
<1>13. Filters(g, T, s, S)
  BY <1>9, <1>10, <1>12 DEF Filters
<1> QED BY <1>13

(* Appending to a sequence *)
LEMMA AppendFacts ==
    ASSUME NEW T, NEW q \in Seq(T), NEW x \in T
    PROVE  /\ Append(q, x) \in Seq(T) /\ Len(Append(q, x)) = Len(q) + 1
           /\ ToSet(Append(q, x)) = ToSet(q) \cup {x}
           /\ IsInjective(q) /\ x \notin ToSet(q) => IsInjective(Append(q, x))
<1> DEFINE a == Append(q, x)
           n == Len(q)
<1>1. /\ a \in Seq(T) /\ Len(a) = n + 1 /\ n \in Nat /\ DOMAIN q = 1..n /\ DOMAIN a = 1..n+1
      /\ a[n+1] = x /\ \A i \in 1..n : a[i] = q[i]
  OBVIOUS
<1>2. ToSet(a) = ToSet(q) \cup {x}
  <2> HIDE DEF a, n
  <2>1. \A i \in 1..n+1 : i \in 1..n \/ i = n+1
    BY <1>1
  <2>2. n+1 \in 1..n+1 /\ 1..n \subseteq 1..n+1
    BY <1>1
  <2> QED BY <1>1, <2>1, <2>2 DEF ToSet
<1>3. ASSUME IsInjective(q), x \notin ToSet(q)
      PROVE  IsInjective(a)
  <2> HIDE DEF a, n
  <2>1. \A i \in 1..n+1 : i \in 1..n \/ i = n+1
    BY <1>1
  <2>2. \A i \in 1..n : q[i] # x
    BY <1>1, <1>3 DEF ToSet
  <2> QED BY <1>1, <1>3, <2>1, <2>2 DEF IsInjective
<1> QED BY <1>1, <1>2, <1>3

LEMMA ConcatFacts ==
    ASSUME NEW T, NEW s \in Seq(T), NEW t \in Seq(T)
    PROVE  /\ s \o t \in Seq(T) /\ Len(s \o t) = Len(s) + Len(t)
           /\ ToSet(s \o t) = ToSet(s) \cup ToSet(t)
           /\ IsInjective(s) /\ IsInjective(t) /\ (\A x : x \in ToSet(s) => x \notin ToSet(t))
              => IsInjective(s \o t)
<1> DEFINE c == s \o t
           m == Len(s)
           n == Len(t)
<1>1. /\ c \in Seq(T) /\ Len(c) = m + n /\ m \in Nat /\ n \in Nat
      /\ DOMAIN s = 1..m /\ DOMAIN t = 1..n /\ DOMAIN c = 1..m+n
  OBVIOUS
<1>2. \A i \in 1..m : i \in 1..m+n /\ c[i] = s[i]
  BY <1>1
<1>3. \A i \in 1..n : m+i \in 1..m+n /\ c[m+i] = t[i]
  BY <1>1
<1>4. \A i \in 1..m+n : i \in 1..m \/ (i-m \in 1..n /\ i = m+(i-m) /\ c[i] = t[i-m])
  BY <1>1
<1>5. ToSet(c) = ToSet(s) \cup ToSet(t)
  <2> HIDE DEF c, m, n
  <2>1. \A i \in 1..m+n : c[i] \in ToSet(s) \cup ToSet(t)
    BY <1>1, <1>2, <1>4 DEF ToSet
  <2>2. \A i \in 1..m : s[i] \in ToSet(c)
    BY <1>1, <1>2 DEF ToSet
  <2>3. \A i \in 1..n : t[i] \in ToSet(c)
    <3> SUFFICES ASSUME NEW i \in 1..n PROVE t[i] \in ToSet(c)
      OBVIOUS
    <3> QED BY <1>1, <1>3 DEF ToSet
  <2> QED BY <1>1, <2>1, <2>2, <2>3 DEF ToSet
<1>6. ASSUME IsInjective(s), IsInjective(t), \A x : x \in ToSet(s) => x \notin ToSet(t)
      PROVE  IsInjective(c)
  <2> HIDE DEF c, m, n
  <2>1. \A i \in 1..m, j \in 1..n : s[i] # t[j]
    BY <1>1, <1>6 DEF ToSet
  <2>2. SUFFICES ASSUME NEW i \in 1..m+n, NEW j \in 1..m+n, c[i] = c[j]
                 PROVE  i = j
    BY <1>1 DEF IsInjective
  <2>3. CASE i \in 1..m /\ j \in 1..m
    BY <1>1, <1>2, <1>6, <2>2, <2>3 DEF IsInjective
  <2>4. CASE i \in 1..m /\ j \notin 1..m
    BY <1>2, <1>4, <2>1, <2>2, <2>4
  <2>5. CASE i \notin 1..m /\ j \in 1..m
    BY <1>2, <1>4, <2>1, <2>2, <2>5
  <2>6. CASE i \notin 1..m /\ j \notin 1..m
    <3>1. i-m \in 1..n /\ j-m \in 1..n /\ c[i] = t[i-m] /\ c[j] = t[j-m]
      BY <1>4, <2>6
    <3>2. i-m = j-m
      BY <1>1, <1>6, <2>2, <3>1 DEF IsInjective
    <3> QED BY <1>1, <3>2
  <2> QED BY <2>3, <2>4, <2>5, <2>6
<1> QED BY <1>1, <1>5, <1>6

LEMMA FilterProperties ==
    ASSUME NEW T, NEW s, NEW S, s \in Seq(T)
    PROVE  /\ Filter(s, S) \in Seq(T) /\ Len(Filter(s, S)) <= Len(s)
           /\ ToSet(Filter(s, S)) = ToSet(s) \cap S
           /\ (\A i, j \in DOMAIN s : s[i] = s[j] /\ s[i] \in S => i = j) => IsInjective(Filter(s, S))
<1>0. PICK f : Filters(f, T, s, S)
  BY FilterSteps
<1>1. /\ f \in [0..Len(s) -> Seq(T)] /\ f[0] = <<>> /\ Filter(s, S) = f[Len(s)]
      /\ \A i \in 1..Len(s) : f[i] = IF s[i] \in S THEN Append(f[i-1], s[i]) ELSE f[i-1]
  BY <1>0 DEF Filters
<1> DEFINE n == Len(s)
           First(i) == {s[j] : j \in 1..i}
           Single == \A i, j \in DOMAIN s : s[i] = s[j] /\ s[i] \in S => i = j
           Ok(i) == /\ Len(f[i]) <= i
                    /\ ToSet(f[i]) = First(i) \cap S
                    /\ Single => IsInjective(f[i])
           Good == {i \in 0..n : Ok(i)}
<1>2. n \in Nat /\ DOMAIN s = 1..n
  OBVIOUS
<1>3. 0 \in Good
  <2>1. 0 \in 0..n
    BY <1>2
  <2>2. Len(f[0]) = 0 /\ ToSet(f[0]) = {} /\ IsInjective(f[0])
    BY <1>1 DEF ToSet, IsInjective
  <2>3. First(0) = {}
    OBVIOUS
  <2> QED BY <2>1, <2>2, <2>3
<1>4. ASSUME NEW i \in 1..n, i-1 \in Good
      PROVE  i \in Good
  <2>1. f[i-1] \in Seq(T) /\ s[i] \in T /\ i \in 0..n /\ i - 1 \in Nat /\ i \in Nat /\ Ok(i-1)
    <3>1. i \in 0..n /\ i - 1 \in 0..n /\ Ok(i-1)
      <4> HIDE DEF Ok, n
      <4> QED BY <1>2, <1>4
    <3> HIDE DEF Ok
    <3> QED BY <1>1, <3>1
  <2>2. First(i) = First(i-1) \cup {s[i]}
    BY <2>1
  <2>3. ASSUME Single, s[i] \in S
        PROVE  s[i] \notin First(i-1)
    <3>1. \A j \in 1..i-1 : j \in DOMAIN s /\ i \in DOMAIN s /\ j # i
      BY <1>2, <2>1
    <3> QED BY <2>3, <3>1
  <2>4. CASE s[i] \notin S
    <3>1. f[i] = f[i-1]
      BY <1>1, <2>4
    <3>2. First(i) \cap S = First(i-1) \cap S
      BY <2>2, <2>4
    <3>3. Len(f[i]) \in Nat
      BY <2>1, <3>1
    <3>4. Len(f[i]) <= i
      BY <2>1, <3>1, <3>3
    <3> QED BY <2>1, <3>1, <3>2, <3>4
  <2>5. CASE s[i] \in S
    <3>1. f[i] = Append(f[i-1], s[i])
      BY <1>1, <2>5
    <3> DEFINE q == f[i-1]
               x == s[i]
    <3>2. /\ Len(f[i]) = Len(q) + 1 /\ ToSet(f[i]) = ToSet(q) \cup {x}
          /\ IsInjective(q) /\ x \notin ToSet(q) => IsInjective(f[i])
      <4>1. q \in Seq(T) /\ x \in T /\ f[i] = Append(q, x)
        BY <2>1, <3>1
      <4> HIDE DEF q, x
      <4> QED BY <4>1, AppendFacts
    <3>3. Len(f[i]) <= i
      <4>1. Len(q) \in Nat /\ Len(q) <= i - 1
        BY <2>1
      <4> QED BY <4>1, <3>2
    <3>4. ToSet(f[i]) = First(i) \cap S
      <4> HIDE DEF First, q
      <4> QED BY <2>1, <2>2, <2>5, <3>2 DEF q
    <3>5. Single => IsInjective(f[i])
      <4> HIDE DEF First, Single
      <4> QED BY <2>1, <2>3, <2>5, <3>2
    <3> QED BY <2>1, <3>3, <3>4, <3>5
  <2> QED BY <2>4, <2>5
<1>5. n \in Good
  <2>1. 0..n \subseteq Good
    <3> HIDE DEF Good, n
    <3> QED BY <1>2, <1>3, <1>4, BoundedInduction
  <2> HIDE DEF Good, n
  <2> QED BY <1>2, <2>1
<1>6. First(n) = ToSet(s)
  BY <1>2 DEF ToSet
<1>7. Filter(s, S) = f[n] /\ f[n] \in Seq(T)
  BY <1>1, <1>2
<1> QED BY <1>5, <1>6, <1>7

----------------------------------------------------------------------------
(* The state of the pool and of its events *)
PoolEvent == [kind : {"stored", "removed", "cleared"}, keys : SUBSET Keys, parent : Keys \cup {None}]
PoolState == [free : Seq(Blocks), ref : [Blocks -> Nat], hash : [Blocks -> Keys \cup {None}],
              extra : [Blocks -> SUBSET Keys], map : [Keys -> Seq(Blocks)], events : Seq(PoolEvent)]

SameFree(p, q) == q.free = p.free /\ q.ref = p.ref
SameCache(p, q) == q.hash = p.hash /\ q.extra = p.extra /\ q.map = p.map

(* A state with some of its fields replaced is a state.                     *)
LEMMA PoolFields ==
    ASSUME NEW p \in PoolState
    PROVE  /\ p.free \in Seq(Blocks) /\ p.ref \in [Blocks -> Nat] /\ p.hash \in [Blocks -> Keys \cup {None}]
           /\ p.extra \in [Blocks -> SUBSET Keys] /\ p.map \in [Keys -> Seq(Blocks)] /\ p.events \in Seq(PoolEvent)
BY DEF PoolState

LEMMA FreeFields ==
    ASSUME NEW p \in PoolState, NEW f \in Seq(Blocks), NEW r \in [Blocks -> Nat]
    PROVE  LET q == [p EXCEPT !.ref = r, !.free = f]
           IN  q \in PoolState /\ q.free = f /\ q.ref = r /\ q.events = p.events /\ SameCache(p, q)
<1> DEFINE q == [p EXCEPT !.ref = r, !.free = f]
<1>1. q \in PoolState
  BY DEF PoolState
<1>2. q.free = f /\ q.ref = r /\ q.events = p.events /\ SameCache(p, q)
  BY DEF PoolState, SameCache
<1> QED BY <1>1, <1>2

LEMMA CacheFields ==
    ASSUME NEW p \in PoolState, NEW h \in [Blocks -> Keys \cup {None}], NEW x \in [Blocks -> SUBSET Keys],
           NEW m \in [Keys -> Seq(Blocks)]
    PROVE  LET q == [p EXCEPT !.hash = h, !.extra = x, !.map = m]
           IN  q \in PoolState /\ q.hash = h /\ q.extra = x /\ q.map = m /\ q.events = p.events /\ SameFree(p, q)
<1> DEFINE q == [p EXCEPT !.hash = h, !.extra = x, !.map = m]
<1>1. q \in PoolState
  BY DEF PoolState
<1>2. q.hash = h /\ q.extra = x /\ q.map = m /\ q.events = p.events /\ SameFree(p, q)
  BY DEF PoolState, SameFree
<1> QED BY <1>1, <1>2

LEMMA EventFields ==
    ASSUME NEW p \in PoolState, NEW e \in Seq(PoolEvent)
    PROVE  LET q == [p EXCEPT !.events = e]
           IN  q \in PoolState /\ q.events = e /\ SameFree(p, q) /\ SameCache(p, q)
<1> DEFINE q == [p EXCEPT !.events = e]
<1>1. q \in PoolState
  BY DEF PoolState
<1>2. q.events = e /\ SameFree(p, q) /\ SameCache(p, q)
  BY DEF PoolState, SameFree, SameCache
<1> QED BY <1>1, <1>2

LEMMA EmitEffect ==
    ASSUME NEW p \in PoolState, NEW kind \in {"stored", "removed", "cleared"}, NEW ks \in SUBSET Keys,
           NEW parent \in Keys \cup {None}
    PROVE  LET q == Emit(p, kind, ks, parent)
           IN  /\ q \in PoolState /\ SameFree(p, q) /\ SameCache(p, q)
               /\ q.events = IF enable_kv_cache_events THEN Append(p.events, Event(kind, ks, parent)) ELSE p.events
               /\ Event(kind, ks, parent) \in PoolEvent
<1> DEFINE e == Event(kind, ks, parent)
           es == Append(p.events, e)
<1>1. e \in PoolEvent
  BY DEF Event, PoolEvent
<1>2. p.events \in Seq(PoolEvent)
  BY PoolFields
<1>3. es \in Seq(PoolEvent)
  <2> HIDE DEF e
  <2> QED BY <1>1, <1>2
<1>4. CASE enable_kv_cache_events
  <2>1. Emit(p, kind, ks, parent) = [p EXCEPT !.events = es]
    BY <1>4 DEF Emit
  <2> HIDE DEF es
  <2> QED BY <1>1, <1>3, <1>4, <2>1, EventFields DEF es
<1>5. CASE ~enable_kv_cache_events
  BY <1>1, <1>5 DEF Emit, SameFree, SameCache
<1> QED BY <1>4, <1>5

(* A key is added to the entries of a block.                                *)
Added(p, k, b, q) ==
    /\ q.map = [p.map EXCEPT ![k] = Append(p.map[k], b)]
    /\ IF p.hash[b] = None THEN q.hash = [p.hash EXCEPT ![b] = k] /\ q.extra = p.extra
       ELSE q.hash = p.hash /\ q.extra = [p.extra EXCEPT ![b] = p.extra[b] \cup {k}]

LEMMA InsertEffect ==
    ASSUME NEW p \in PoolState, NEW k \in Keys, NEW b \in Blocks
    PROVE  LET q == _insert_block_hash(p, k, b)
           IN  /\ q \in PoolState /\ SameFree(p, q) /\ q.events = p.events
               /\ IF p.hash[b] = k \/ contain(p, k, b) THEN q = p ELSE Added(p, k, b, q)
<1> DEFINE m == insert(p.map, k, b)
           h == [p.hash EXCEPT ![b] = k]
           x == [p.extra EXCEPT ![b] = p.extra[b] \cup {k}]
<1>1. /\ p.hash \in [Blocks -> Keys \cup {None}] /\ p.extra \in [Blocks -> SUBSET Keys]
      /\ p.map \in [Keys -> Seq(Blocks)]
  BY PoolFields
<1>2. m \in [Keys -> Seq(Blocks)] /\ m = [p.map EXCEPT ![k] = Append(p.map[k], b)]
  BY <1>1 DEF insert
<1>3. h \in [Blocks -> Keys \cup {None}]
  BY <1>1
<1>4. x \in [Blocks -> SUBSET Keys]
  BY <1>1
<1>5. CASE p.hash[b] = k \/ contain(p, k, b)
  BY <1>5 DEF _insert_block_hash, SameFree
<1>6. CASE ~ (p.hash[b] = k \/ contain(p, k, b)) /\ p.hash[b] = None
  <2> DEFINE y == p.extra
             q == [p EXCEPT !.hash = h, !.extra = y, !.map = m]
  <2>1. _insert_block_hash(p, k, b) = [p EXCEPT !.hash = h, !.map = m]
    BY <1>6 DEF _insert_block_hash
  <2>2. [p EXCEPT !.hash = h, !.map = m] = q
    <3> HIDE DEF h, m
    <3> QED BY DEF PoolState
  <2>3. q \in PoolState /\ q.hash = h /\ q.extra = y /\ q.map = m /\ q.events = p.events /\ SameFree(p, q)
    <3>1. y \in [Blocks -> SUBSET Keys] /\ m \in [Keys -> Seq(Blocks)]
      BY <1>1, <1>2
    <3> HIDE DEF h, m, y
    <3> QED BY <1>3, <3>1, CacheFields
  <2>4. Added(p, k, b, q)
    <3> HIDE DEF q, m
    <3> QED BY <1>2, <1>6, <2>3 DEF Added
  <2> HIDE DEF q
  <2> QED BY <1>6, <2>1, <2>2, <2>3, <2>4
<1>7. CASE ~ (p.hash[b] = k \/ contain(p, k, b)) /\ p.hash[b] # None
  <2> DEFINE y == p.hash
             q == [p EXCEPT !.hash = y, !.extra = x, !.map = m]
  <2>1. _insert_block_hash(p, k, b) = [p EXCEPT !.extra = x, !.map = m]
    BY <1>7 DEF _insert_block_hash
  <2>2. [p EXCEPT !.extra = x, !.map = m] = q
    <3> HIDE DEF x, m
    <3> QED BY DEF PoolState
  <2>3. q \in PoolState /\ q.hash = y /\ q.extra = x /\ q.map = m /\ q.events = p.events /\ SameFree(p, q)
    <3>1. y \in [Blocks -> Keys \cup {None}] /\ m \in [Keys -> Seq(Blocks)]
      BY <1>1, <1>2
    <3> HIDE DEF x, m, y
    <3> QED BY <1>4, <3>1, CacheFields
  <2>4. Added(p, k, b, q)
    <3> HIDE DEF q, m
    <3> QED BY <1>2, <1>7, <2>3 DEF Added
  <2> HIDE DEF q
  <2> QED BY <1>7, <2>1, <2>2, <2>3, <2>4
<1> QED BY <1>5, <1>6, <1>7

(* All the keys of a block are removed from its entries.                    *)
Removed(p, b, q) ==
    /\ q.hash = [p.hash EXCEPT ![b] = None] /\ q.extra = [p.extra EXCEPT ![b] = {}]
    /\ q.map = pop(p.map, OwnKeys(p, b), b)

AllBut(b) == Blocks \ {b}

LEMMA PopIsMap ==
    ASSUME NEW m \in [Keys -> Seq(Blocks)], NEW ks, NEW b
    PROVE  /\ pop(m, ks, b) \in [Keys -> Seq(Blocks)]
           /\ \A k \in Keys : pop(m, ks, b)[k] = IF k \in ks THEN Filter(m[k], AllBut(b)) ELSE m[k]
<1>1. ASSUME NEW k \in Keys
      PROVE  Filter(m[k], Blocks \ {b}) \in Seq(Blocks)
  <2>1. m[k] \in Seq(Blocks)
    OBVIOUS
  <2> QED BY <2>1, FilterProperties
<1> QED BY <1>1 DEF pop, AllBut

LEMMA RemoveEffect ==
    ASSUME NEW p \in PoolState, NEW b \in Blocks
    PROVE  LET q == _remove_cached_block_hashes(p, b)
           IN  q \in PoolState /\ SameFree(p, q) /\ q.events = p.events /\ Removed(p, b, q)
<1> DEFINE m == pop(p.map, OwnKeys(p, b), b)
           h == [p.hash EXCEPT ![b] = None]
           x == [p.extra EXCEPT ![b] = {}]
<1>1. /\ p.hash \in [Blocks -> Keys \cup {None}] /\ p.extra \in [Blocks -> SUBSET Keys]
      /\ p.map \in [Keys -> Seq(Blocks)]
  BY PoolFields
<1>2. m \in [Keys -> Seq(Blocks)]
  BY <1>1, PopIsMap
<1>3. h \in [Blocks -> Keys \cup {None}]
  BY <1>1
<1>4. x \in [Blocks -> SUBSET Keys]
  BY <1>1
<1>5. _remove_cached_block_hashes(p, b) = [p EXCEPT !.hash = h, !.extra = x, !.map = m]
  BY DEF _remove_cached_block_hashes
<1> DEFINE q == [p EXCEPT !.hash = h, !.extra = x, !.map = m]
<1>6. q \in PoolState /\ q.hash = h /\ q.extra = x /\ q.map = m /\ q.events = p.events /\ SameFree(p, q)
  <2> HIDE DEF h, x, m
  <2> QED BY <1>2, <1>3, <1>4, CacheFields
<1>7. Removed(p, b, q)
  <2> HIDE DEF q
  <2> QED BY <1>6 DEF Removed
<1> HIDE DEF q
<1> QED BY <1>5, <1>6, <1>7 DEF q

LEMMA UnhashEffect ==
    ASSUME NEW p \in PoolState, NEW b \in Blocks
    PROVE  LET q == Unhash(p, b)
           IN  /\ q \in PoolState /\ SameFree(p, q) /\ Removed(p, b, q)
               /\ q.events = IF enable_kv_cache_events /\ removed_hashes(p, b) # {}
                             THEN Append(p.events, Event("removed", removed_hashes(p, b), None)) ELSE p.events
               /\ removed_hashes(p, b) \in SUBSET Keys
               /\ Event("removed", removed_hashes(p, b), None) \in PoolEvent
<1> DEFINE r == _remove_cached_block_hashes(p, b)
           ks == removed_hashes(p, b)
<1>1. r \in PoolState /\ SameFree(p, r) /\ r.events = p.events /\ Removed(p, b, r)
  BY RemoveEffect
<1>2. ks \in SUBSET Keys
  <2>1. p.hash \in [Blocks -> Keys \cup {None}] /\ p.extra \in [Blocks -> SUBSET Keys]
    BY PoolFields
  <2> QED BY <2>1 DEF removed_hashes, OwnKeys
<1>3. Unhash(p, b) = IF ks = {} THEN r ELSE Emit(r, "removed", ks, None)
  BY DEF Unhash
<1> DEFINE e == Emit(r, "removed", ks, None)
<1>4. /\ e \in PoolState /\ SameFree(r, e) /\ SameCache(r, e)
      /\ e.events = IF enable_kv_cache_events THEN Append(r.events, Event("removed", ks, None)) ELSE r.events
      /\ Event("removed", ks, None) \in PoolEvent
  <2> HIDE DEF r, ks
  <2> QED BY <1>1, <1>2, EmitEffect
<1>5. SameFree(p, e) /\ Removed(p, b, e)
  <2> HIDE DEF r, e
  <2> QED BY <1>1, <1>4 DEF SameFree, SameCache, Removed
<1>6. CASE ks = {}
  <2>1. Unhash(p, b) = r
    BY <1>3, <1>6
  <2> HIDE DEF r, e
  <2> QED BY <1>1, <1>2, <1>4, <1>6, <2>1
<1>7. CASE ks # {}
  <2>1. Unhash(p, b) = e
    BY <1>3, <1>7
  <2>2. e.events = IF enable_kv_cache_events THEN Append(p.events, Event("removed", ks, None)) ELSE p.events
    <3> HIDE DEF r, e, ks
    <3> QED BY <1>1, <1>4
  <2> HIDE DEF r, e
  <2> QED BY <1>2, <1>4, <1>5, <1>7, <2>1, <2>2
<1> QED BY <1>6, <1>7

----------------------------------------------------------------------------
(* The hashes of the blocks and the map                                     *)

(* Hashes, further keys and map agree; HashesAgree of PoolCalls.            *)
Agree(p) ==
    /\ \A b \in Blocks, k \in Keys : contain(p, k, b) <=> k \in OwnKeys(p, b)
    /\ \A b \in Blocks : p.hash[b] = None => p.extra[b] = {}
    /\ \A k \in Keys : IsInjective(p.map[k])

(* The entries of the other blocks are the same.                            *)
OthersKept(p, b, q) ==
    \A c \in Blocks \ {b} : q.hash[c] = p.hash[c] /\ q.extra[c] = p.extra[c] /\ OwnKeys(q, c) = OwnKeys(p, c)

LEMMA OwnKeysType ==
    ASSUME NEW p \in PoolState, NEW b \in Blocks
    PROVE  OwnKeys(p, b) \in SUBSET Keys /\ (p.hash[b] # None => p.hash[b] \in Keys)
<1>1. p.hash \in [Blocks -> Keys \cup {None}] /\ p.extra \in [Blocks -> SUBSET Keys]
  BY PoolFields
<1> QED BY <1>1 DEF OwnKeys

LEMMA OthersHaveTheirKeys ==
    ASSUME NEW p, NEW q, NEW b, \A c \in Blocks \ {b} : q.hash[c] = p.hash[c] /\ q.extra[c] = p.extra[c]
    PROVE  OthersKept(p, b, q)
BY DEF OthersKept, OwnKeys

LEMMA AgreeRemoved ==
    ASSUME NEW p \in PoolState, NEW q \in PoolState, NEW b \in Blocks, Agree(p), Removed(p, b, q)
    PROVE  /\ Agree(q) /\ q.hash[b] = None /\ q.extra[b] = {} /\ OthersKept(p, b, q)
           /\ \A c \in Blocks, k \in Keys : contain(q, k, c) <=> contain(p, k, c) /\ c # b
<1>1. /\ p.hash \in [Blocks -> Keys \cup {None}] /\ p.extra \in [Blocks -> SUBSET Keys]
      /\ p.map \in [Keys -> Seq(Blocks)]
  BY PoolFields
<1>2. q.hash[b] = None /\ q.extra[b] = {} /\ OwnKeys(q, b) = {}
  BY <1>1 DEF Removed, OwnKeys
<1>3. \A c \in Blocks \ {b} : q.hash[c] = p.hash[c] /\ q.extra[c] = p.extra[c]
  BY <1>1 DEF Removed
<1>4. OthersKept(p, b, q)
  BY <1>3, OthersHaveTheirKeys
<1>5. ASSUME NEW k \in Keys
      PROVE  ToSet(q.map[k]) = ToSet(p.map[k]) \ {b} /\ IsInjective(q.map[k])
  <2>1. q.map[k] = IF k \in OwnKeys(p, b) THEN Filter(p.map[k], AllBut(b)) ELSE p.map[k]
    <3> DEFINE ks == OwnKeys(p, b)
               m == p.map
    <3>1. m \in [Keys -> Seq(Blocks)]
      BY <1>1
    <3>2. \A j \in Keys : pop(m, ks, b)[j] = IF j \in ks THEN Filter(m[j], AllBut(b)) ELSE m[j]
      <4> HIDE DEF ks, m
      <4> QED BY <3>1, PopIsMap
    <3> QED BY <3>2 DEF Removed
  <2> DEFINE s == p.map[k]
  <2>2. s \in Seq(Blocks) /\ ToSet(s) \subseteq Blocks
    <3>1. s \in Seq(Blocks)
      BY <1>1
    <3> QED BY <3>1 DEF ToSet
  <2>3. b \in ToSet(s) <=> k \in OwnKeys(p, b)
    BY DEF Agree, contain
  <2>4. IsInjective(s)
    BY DEF Agree
  <2>5. /\ ToSet(Filter(s, AllBut(b))) = ToSet(s) \cap (Blocks \ {b})
        /\ IsInjective(Filter(s, AllBut(b)))
    <3>1. \A i, j \in DOMAIN s : s[i] = s[j] => i = j
      BY <2>4 DEF IsInjective
    <3> HIDE DEF s
    <3>2. /\ ToSet(Filter(s, AllBut(b))) = ToSet(s) \cap AllBut(b)
          /\ IsInjective(Filter(s, AllBut(b)))
      BY <2>2, <3>1, FilterProperties
    <3> QED BY <3>2 DEF AllBut
  <2> HIDE DEF s
  <2> QED BY <2>1, <2>2, <2>3, <2>4, <2>5 DEF s
<1>6. Agree(q)
  <2>1. ASSUME NEW c \in Blocks, NEW k \in Keys
        PROVE  contain(q, k, c) <=> k \in OwnKeys(q, c)
    <3>1. contain(q, k, c) <=> contain(p, k, c) /\ c # b
      BY <1>5 DEF contain
    <3>2. CASE c = b
      BY <1>2, <3>1, <3>2
    <3>3. CASE c # b
      <4>1. OwnKeys(q, c) = OwnKeys(p, c)
        BY <1>4, <3>3 DEF OthersKept
      <4> QED BY <3>1, <3>3, <4>1 DEF Agree
    <3> QED BY <3>2, <3>3
  <2>2. ASSUME NEW c \in Blocks, q.hash[c] = None
        PROVE  q.extra[c] = {}
    BY <1>2, <1>3, <2>2 DEF Agree
  <2> QED BY <1>5, <2>1, <2>2 DEF Agree
<1>7. \A c \in Blocks, k \in Keys : contain(q, k, c) <=> contain(p, k, c) /\ c # b
  BY <1>5 DEF contain
<1> QED BY <1>2, <1>4, <1>6, <1>7

LEMMA AgreeAdded ==
    ASSUME NEW p \in PoolState, NEW q \in PoolState, NEW k \in Keys, NEW b \in Blocks, Agree(p), Added(p, k, b, q),
           ~contain(p, k, b)
    PROVE  /\ Agree(q) /\ OthersKept(p, b, q)
           /\ \A c \in Blocks, j \in Keys : contain(q, j, c) <=> contain(p, j, c) \/ (c = b /\ j = k)
<1>1. /\ p.hash \in [Blocks -> Keys \cup {None}] /\ p.extra \in [Blocks -> SUBSET Keys]
      /\ p.map \in [Keys -> Seq(Blocks)]
  BY PoolFields
<1>2. k # None
  BY NoneAssumption
<1>3. OwnKeys(q, b) = OwnKeys(p, b) \cup {k} /\ q.hash[b] # None
  <2>1. CASE p.hash[b] = None
    <3>1. q.hash[b] = k /\ q.extra[b] = p.extra[b] /\ p.extra[b] = {}
      BY <1>1, <2>1 DEF Added, Agree
    <3> QED BY <1>2, <2>1, <3>1 DEF OwnKeys
  <2>2. CASE p.hash[b] # None
    <3>1. q.hash[b] = p.hash[b] /\ q.extra[b] = p.extra[b] \cup {k}
      BY <1>1, <2>2 DEF Added
    <3> QED BY <2>2, <3>1 DEF OwnKeys
  <2> QED BY <2>1, <2>2
<1>4. \A c \in Blocks \ {b} : q.hash[c] = p.hash[c] /\ q.extra[c] = p.extra[c]
  BY <1>1 DEF Added
<1>5. OthersKept(p, b, q)
  BY <1>4, OthersHaveTheirKeys
<1>6. ASSUME NEW j \in Keys
      PROVE  /\ ToSet(q.map[j]) = IF j = k THEN ToSet(p.map[j]) \cup {b} ELSE ToSet(p.map[j])
             /\ IsInjective(q.map[j])
  <2> DEFINE s == p.map[j]
  <2>1. q.map[j] = IF j = k THEN Append(s, b) ELSE s
    BY <1>1 DEF Added
  <2>2. s \in Seq(Blocks)
    BY <1>1
  <2>3. IsInjective(s)
    BY DEF Agree
  <2>4. j = k => b \notin ToSet(s)
    BY DEF contain
  <2>5. ToSet(Append(s, b)) = ToSet(s) \cup {b} /\ (b \notin ToSet(s) => IsInjective(Append(s, b)))
    <3> HIDE DEF s
    <3> QED BY <2>2, <2>3, AppendFacts
  <2> HIDE DEF s
  <2> QED BY <2>1, <2>3, <2>4, <2>5 DEF s
<1>7. Agree(q)
  <2>1. ASSUME NEW c \in Blocks, NEW j \in Keys
        PROVE  contain(q, j, c) <=> j \in OwnKeys(q, c)
    <3>1. contain(q, j, c) <=> contain(p, j, c) \/ (j = k /\ c = b)
      BY <1>6 DEF contain
    <3>2. CASE c = b
      BY <1>3, <3>1, <3>2 DEF Agree
    <3>3. CASE c # b
      <4>1. OwnKeys(q, c) = OwnKeys(p, c)
        BY <1>5, <3>3 DEF OthersKept
      <4> QED BY <3>1, <3>3, <4>1 DEF Agree
    <3> QED BY <3>2, <3>3
  <2>2. ASSUME NEW c \in Blocks, q.hash[c] = None
        PROVE  q.extra[c] = {}
    BY <1>3, <1>4, <2>2 DEF Agree
  <2> QED BY <1>6, <2>1, <2>2 DEF Agree
<1>8. \A c \in Blocks, j \in Keys : contain(q, j, c) <=> contain(p, j, c) \/ (c = b /\ j = k)
  BY <1>6 DEF contain
<1> QED BY <1>5, <1>7, <1>8

(* _insert_block_hash, whether the key was there or not                     *)
LEMMA AgreeInserted ==
    ASSUME NEW p \in PoolState, NEW k \in Keys, NEW b \in Blocks, Agree(p)
    PROVE  LET q == _insert_block_hash(p, k, b)
           IN  /\ q \in PoolState /\ SameFree(p, q) /\ q.events = p.events
               /\ Agree(q) /\ OthersKept(p, b, q)
               /\ \A c \in Blocks, j \in Keys : contain(q, j, c) <=> contain(p, j, c) \/ (c = b /\ j = k)
               /\ p.hash[b] = None => q.hash[b] = k /\ q.extra[b] = {}
<1> DEFINE q == _insert_block_hash(p, k, b)
<1>1. /\ q \in PoolState /\ SameFree(p, q) /\ q.events = p.events
      /\ IF p.hash[b] = k \/ contain(p, k, b) THEN q = p ELSE Added(p, k, b, q)
  BY InsertEffect
<1>2. contain(p, k, b) <=> k \in OwnKeys(p, b)
  BY DEF Agree
<1>3. k # None
  BY NoneAssumption
<1>4. p.hash[b] = k => k \in OwnKeys(p, b)
  BY <1>3 DEF OwnKeys
<1> HIDE DEF q
<1>5. CASE contain(p, k, b)
  <2>1. q = p
    BY <1>1, <1>5
  <2>2. OthersKept(p, b, q)
    BY <2>1 DEF OthersKept
  <2>4. p.hash[b] # None
    BY <1>2, <1>5 DEF Agree, OwnKeys
  <2> QED BY <1>1, <1>2, <1>5, <2>1, <2>2, <2>4 DEF q
<1>6. CASE ~contain(p, k, b)
  <2>1. Added(p, k, b, q)
    BY <1>1, <1>2, <1>4, <1>6
  <2>2. /\ Agree(q) /\ OthersKept(p, b, q)
        /\ \A c \in Blocks, j \in Keys : contain(q, j, c) <=> contain(p, j, c) \/ (c = b /\ j = k)
    <3>1. q \in PoolState
      BY <1>1
    <3> QED BY <1>6, <2>1, <3>1, AgreeAdded
  <2>3. ASSUME p.hash[b] = None
        PROVE  q.hash[b] = k /\ q.extra[b] = {}
    <3>1. p.hash \in [Blocks -> Keys \cup {None}]
      BY PoolFields
    <3> QED BY <2>1, <2>3, <3>1 DEF Added, Agree
  <2> QED BY <1>1, <2>2, <2>3 DEF q
<1> QED BY <1>5, <1>6

----------------------------------------------------------------------------
(* A list of blocks is evicted                                              *)

LEMMA EvictedSteps ==
    ASSUME NEW p \in PoolState, NEW blocks
    PROVE  blocks \in Seq(Blocks) =>
           \E f \in [0..Len(blocks) -> PoolState] :
              /\ f[0] = p /\ Evicted(p, blocks) = f[Len(blocks)]
              /\ \A i \in 1..Len(blocks) : f[i] = _maybe_evict_cached_block(f[i-1], blocks[i])
<1> DEFINE n == Len(blocks)
           W == PoolState
           step == [i \in 1..n |-> [q \in W |-> _maybe_evict_cached_block(q, blocks[i])]]
           Is(f) == f = [i \in 0..Len(blocks) |-> IF i = 0 THEN p ELSE _maybe_evict_cached_block(f[i-1], blocks[i])]
<1>1. SUFFICES ASSUME blocks \in Seq(Blocks)
               PROVE  \E f \in [0..n -> PoolState] :
                        /\ f[0] = p /\ Evicted(p, blocks) = f[n]
                        /\ \A i \in 1..n : f[i] = _maybe_evict_cached_block(f[i-1], blocks[i])
  OBVIOUS
<1>2. n \in Nat /\ p \in W
  BY <1>1
<1>3. ASSUME NEW i \in 1..n, NEW q \in W
      PROVE  _maybe_evict_cached_block(q, blocks[i]) \in W
  <2>1. blocks[i] \in Blocks
    BY <1>1
  <2> QED BY <2>1, UnhashEffect DEF _maybe_evict_cached_block
<1>4. step \in [1..n -> [W -> W]]
  <2> HIDE DEF W, n
  <2> QED BY <1>3
<1>5. \A i \in 0..n : i = 0 \/ (i # 0 /\ i \in 1..n)
  BY <1>2
<1>6. PICK f : f \in [0..n -> W] /\ f[0] = p /\ \A i \in 1..n : f[i] = step[i][f[i-1]]
  <2> HIDE DEF n, W, step, Is
  <2>1. \E f : Walks(f, W, p, n, step)
    BY <1>2, <1>4, StepFunction, Zenon
  <2> QED BY <2>1 DEF Walks
<1>7. ASSUME NEW i \in 1..n
      PROVE  f[i] = _maybe_evict_cached_block(f[i-1], blocks[i])
  <2>1. f[i-1] \in W
    <3> HIDE DEF W, n
    <3> QED BY <1>2, <1>6
  <2> HIDE DEF W, n
  <2> QED BY <1>6, <2>1
<1>8. Is(f)
  <2>1. \A i \in 0..n : f[i] = IF i = 0 THEN p ELSE _maybe_evict_cached_block(f[i-1], blocks[i])
    <3> HIDE DEF W, n
    <3> QED BY <1>5, <1>6, <1>7
  <2> QED BY <1>6, <2>1
<1>9. PICK g : g = CHOOSE h : Is(h)
  OBVIOUS
<1>10. Is(g)
  <2> HIDE DEF Is
  <2> QED BY <1>8, <1>9
<1>11. Evicted(p, blocks) = g[n]
  BY <1>9 DEF Evicted
<1>12. g[0] = p /\ \A i \in 1..n : g[i] = _maybe_evict_cached_block(g[i-1], blocks[i])
  <2>1. 0 \in 0..n /\ \A i \in 1..n : i # 0 /\ i \in 0..n
    BY <1>2
  <2> QED BY <1>10, <2>1
<1> DEFINE Good == {i \in 0..n : g[i] \in W}
<1>13. 0 \in Good
  <2> HIDE DEF W, n
  <2> QED BY <1>2, <1>12
<1>14. ASSUME NEW i \in 1..n, i-1 \in Good
       PROVE  i \in Good
  <2> HIDE DEF W, n
  <2> QED BY <1>2, <1>3, <1>12, <1>14
<1>15. 0..n \subseteq Good
  <2> HIDE DEF Good, n
  <2> QED BY <1>2, <1>13, <1>14, BoundedInduction
<1>16. g \in [0..n -> W]
  <2> HIDE DEF W
  <2> QED BY <1>10, <1>15
<1> QED BY <1>11, <1>12, <1>16

----------------------------------------------------------------------------
(* What the events tell                                                     *)

(* What a consumer believes is cached is, in the groups without null blocks. *)
HasBlock(p, k) == \E c \in Blocks : contain(p, k, c)
Truthful(p, v) ==
    /\ enable_kv_cache_events \/ (p.events = <<>> /\ v = {})
    /\ \A k \in Replay(v, p.events) : k.group \notin Sparse => HasBlock(p, k)

LEMMA ReplayAppend ==
    ASSUME NEW T, NEW es \in Seq(T), NEW e \in T, NEW v, NEW k \in Keys
    PROVE  k \in Replay(v, Append(es, e)) <=> Stores(e, k) \/ (k \in Replay(v, es) /\ ~Drops(e, k))
<1> DEFINE a == Append(es, e)
           n == Len(es)
<1>1. /\ n \in Nat /\ Len(a) = n + 1 /\ DOMAIN es = 1..n /\ DOMAIN a = 1..n+1
      /\ a[n+1] = e /\ \A i \in 1..n : a[i] = es[i]
  OBVIOUS
<1>2. Stores(e, k) => ~Drops(e, k)
  BY DEF Stores, Drops
<1> HIDE DEF a
<1>3. /\ \A i \in 1..n+1 : i \in 1..n \/ i = n+1
      /\ 1..n \subseteq 1..n+1 /\ n+1 \in 1..n+1
      /\ \A i \in 1..n : i+1..n \subseteq i+1..n+1 /\ n+1 \in i+1..n+1 /\ \A j \in i+1..n+1 : j \in i+1..n \/ j = n+1
      /\ \A i \in 1..n : i+1..n \subseteq 1..n
      /\ (n+1)+1..n+1 = {}
  BY <1>1
<1>4. (\A i \in DOMAIN a : ~Drops(a[i], k)) <=> (\A i \in DOMAIN es : ~Drops(es[i], k)) /\ ~Drops(e, k)
  <2> HIDE DEF n
  <2> QED BY <1>1, <1>3
<1>5. ASSUME NEW i \in 1..n
      PROVE  (\A j \in i+1..n+1 : ~Drops(a[j], k)) <=> (\A j \in i+1..n : ~Drops(es[j], k)) /\ ~Drops(e, k)
  <2>1. \A j \in i+1..n : a[j] = es[j]
    BY <1>1, <1>3
  <2> HIDE DEF n
  <2> QED BY <1>1, <1>3, <2>1
<1> DEFINE In(es2) == \E i \in DOMAIN es2 : Stores(es2[i], k) /\ \A j \in i+1..Len(es2) : ~Drops(es2[j], k)
<1>6. In(a) <=> Stores(e, k) \/ (In(es) /\ ~Drops(e, k))
  <2>1. In(a) <=> \E i \in 1..n+1 : Stores(a[i], k) /\ \A j \in i+1..n+1 : ~Drops(a[j], k)
    BY <1>1
  <2>2. In(es) <=> \E i \in 1..n : Stores(es[i], k) /\ \A j \in i+1..n : ~Drops(es[j], k)
    BY <1>1
  <2> HIDE DEF n, In
  <2>3. \A j \in (n+1)+1..n+1 : ~Drops(a[j], k)
    BY <1>3
  <2>4. ASSUME Stores(e, k)
        PROVE  In(a)
    BY <1>1, <1>3, <2>1, <2>3, <2>4
  <2>5. ASSUME In(es), ~Drops(e, k)
        PROVE  In(a)
    <3>1. PICK i \in 1..n : Stores(es[i], k) /\ \A j \in i+1..n : ~Drops(es[j], k)
      BY <2>2, <2>5
    <3>2. Stores(a[i], k) /\ i \in 1..n+1
      BY <1>1, <1>3, <3>1
    <3>3. \A j \in i+1..n+1 : ~Drops(a[j], k)
      BY <1>5, <2>5, <3>1
    <3> QED BY <2>1, <3>2, <3>3
  <2>6. ASSUME In(a)
        PROVE  Stores(e, k) \/ (In(es) /\ ~Drops(e, k))
    <3>1. PICK i \in 1..n+1 : Stores(a[i], k) /\ \A j \in i+1..n+1 : ~Drops(a[j], k)
      BY <2>1, <2>6
    <3>2. CASE i = n+1
      BY <1>1, <3>1, <3>2
    <3>3. CASE i \in 1..n
      <4>1. Stores(es[i], k)
        BY <1>1, <3>1, <3>3
      <4>2. (\A j \in i+1..n : ~Drops(es[j], k)) /\ ~Drops(e, k)
        BY <1>5, <3>1, <3>3
      <4> QED BY <2>2, <3>3, <4>1, <4>2
    <3> QED BY <1>3, <3>1, <3>2, <3>3
  <2> QED BY <2>4, <2>5, <2>6
<1>7. k \in Replay(v, a) <=> (k \in v /\ \A i \in DOMAIN a : ~Drops(a[i], k)) \/ In(a)
  BY DEF Replay
<1>8. k \in Replay(v, es) <=> (k \in v /\ \A i \in DOMAIN es : ~Drops(es[i], k)) \/ In(es)
  BY DEF Replay
<1> HIDE DEF In
<1> QED BY <1>2, <1>4, <1>6, <1>7, <1>8 DEF a

LEMMA ReplayNothing ==
    ASSUME NEW v, v \subseteq Keys
    PROVE  Replay(v, <<>>) = v
BY DEF Replay

LEMMA TruthfulKept ==
    ASSUME NEW p \in PoolState, NEW q \in PoolState, NEW v, Truthful(p, v), q.events = p.events,
           \A k \in Keys : HasBlock(p, k) => HasBlock(q, k)
    PROVE  Truthful(q, v)
<1>1. \A k \in Replay(v, p.events) : k \in Keys
  BY DEF Replay
<1> QED BY <1>1 DEF Truthful

LEMMA TruthfulTold ==
    ASSUME NEW p \in PoolState, NEW q \in PoolState, NEW e \in PoolEvent, NEW v, Truthful(p, v),
           q.events = IF enable_kv_cache_events THEN Append(p.events, e) ELSE p.events,
           \A k \in Keys : (k.group \notin Sparse /\ Stores(e, k)) \/ (HasBlock(p, k) /\ ~Drops(e, k)) => HasBlock(q, k)
    PROVE  Truthful(q, v)
<1>1. p.events \in Seq(PoolEvent)
  BY PoolFields
<1>2. CASE enable_kv_cache_events
  <2>1. SUFFICES ASSUME NEW k \in Replay(v, q.events), k.group \notin Sparse
                 PROVE  HasBlock(q, k)
    BY <1>2 DEF Truthful
  <2>2. k \in Keys
    BY DEF Replay
  <2> DEFINE es == p.events
  <2>3. k \in Replay(v, Append(es, e))
    BY <1>2
  <2>4. Stores(e, k) \/ (k \in Replay(v, es) /\ ~Drops(e, k))
    <3> HIDE DEF es
    <3> QED BY <1>1, <2>2, <2>3, ReplayAppend DEF es
  <2>5. k \in Replay(v, es) => HasBlock(p, k)
    BY <2>1 DEF Truthful
  <2> QED BY <2>1, <2>2, <2>4, <2>5
<1>3. CASE ~enable_kv_cache_events
  <2>1. p.events = <<>> /\ v = {} /\ q.events = <<>>
    BY <1>3 DEF Truthful
  <2>2. Replay(v, q.events) = {}
    BY <2>1, ReplayNothing
  <2> QED BY <2>1, <2>2 DEF Truthful
<1> QED BY <1>2, <1>3

(* Unhash, and with it _maybe_evict_cached_block                            *)
LEMMA UnhashAgree ==
    ASSUME NEW p \in PoolState, NEW b \in Blocks, Agree(p)
    PROVE  LET q == Unhash(p, b)
           IN  /\ q \in PoolState /\ SameFree(p, q) /\ Agree(q)
               /\ q.hash[b] = None /\ q.extra[b] = {} /\ OthersKept(p, b, q)
               /\ \A c \in Blocks, k \in Keys : contain(q, k, c) <=> contain(p, k, c) /\ c # b
               /\ \A v : Truthful(p, v) => Truthful(q, v)
<1> DEFINE q == Unhash(p, b)
           ks == removed_hashes(p, b)
           e == Event("removed", ks, None)
<1>1. /\ q \in PoolState /\ SameFree(p, q) /\ Removed(p, b, q)
      /\ q.events = IF enable_kv_cache_events /\ ks # {} THEN Append(p.events, e) ELSE p.events
      /\ ks \in SUBSET Keys /\ e \in PoolEvent
  BY UnhashEffect
<1>2. /\ Agree(q) /\ q.hash[b] = None /\ q.extra[b] = {} /\ OthersKept(p, b, q)
      /\ \A c \in Blocks, k \in Keys : contain(q, k, c) <=> contain(p, k, c) /\ c # b
  <2> HIDE DEF q
  <2> QED BY <1>1, AgreeRemoved
<1>3. \A k \in Keys : k \in ks <=> contain(p, k, b)
  BY DEF removed_hashes, Agree
<1>4. ASSUME NEW v, Truthful(p, v)
      PROVE  Truthful(q, v)
  <2>1. CASE ks = {}
    <3>1. q.events = p.events
      BY <1>1, <2>1
    <3>2. \A k \in Keys : HasBlock(p, k) => HasBlock(q, k)
      BY <1>2, <1>3, <2>1 DEF HasBlock
    <3> HIDE DEF q
    <3> QED BY <1>1, <1>4, <3>1, <3>2, TruthfulKept
  <2>2. CASE ks # {}
    <3>1. q.events = IF enable_kv_cache_events THEN Append(p.events, e) ELSE p.events
      BY <1>1, <2>2
    <3>2. \A k \in Keys : ~Stores(e, k) /\ (~Drops(e, k) => ~contain(p, k, b))
      BY <1>3 DEF Stores, Drops, Event
    <3>3. \A k \in Keys : Stores(e, k) \/ (HasBlock(p, k) /\ ~Drops(e, k)) => HasBlock(q, k)
      <4> HIDE DEF q, e
      <4> QED BY <1>2, <3>2 DEF HasBlock
    <3> HIDE DEF q, e
    <3> QED BY <1>1, <1>4, <3>1, <3>3, TruthfulTold
  <2> QED BY <2>1, <2>2
<1> HIDE DEF q
<1> QED BY <1>1, <1>2, <1>4 DEF q

(* The entries of the blocks in a list are gone, the others are the same.   *)
Emptied(p, blocks, q) ==
    /\ SameFree(p, q)
    /\ \A c \in Blocks : IF c \in ToSet(blocks) THEN q.hash[c] = None /\ q.extra[c] = {}
                         ELSE q.hash[c] = p.hash[c] /\ q.extra[c] = p.extra[c]
    /\ \A c \in Blocks, k \in Keys : contain(q, k, c) <=> contain(p, k, c) /\ c \notin ToSet(blocks)

LEMMA EvictedEffect ==
    ASSUME NEW p \in PoolState, NEW blocks, blocks \in Seq(Blocks), Agree(p)
    PROVE  LET q == Evicted(p, blocks)
           IN  q \in PoolState /\ Agree(q) /\ Emptied(p, blocks, q) /\ \A v : Truthful(p, v) => Truthful(q, v)
<1>1. PICK f \in [0..Len(blocks) -> PoolState] :
              /\ f[0] = p /\ Evicted(p, blocks) = f[Len(blocks)]
              /\ \A i \in 1..Len(blocks) : f[i] = _maybe_evict_cached_block(f[i-1], blocks[i])
  BY EvictedSteps
<1> DEFINE n == Len(blocks)
           In(i, c) == \E j \in 1..i : blocks[j] = c
           Ok(i) == /\ SameFree(p, f[i]) /\ Agree(f[i]) /\ \A v : Truthful(p, v) => Truthful(f[i], v)
                    /\ \A c \in Blocks : IF In(i, c) THEN f[i].hash[c] = None /\ f[i].extra[c] = {}
                                         ELSE f[i].hash[c] = p.hash[c] /\ f[i].extra[c] = p.extra[c]
                    /\ \A c \in Blocks, k \in Keys : contain(f[i], k, c) <=> contain(p, k, c) /\ ~In(i, c)
           Good == {i \in 0..n : Ok(i)}
<1>2. n \in Nat
  OBVIOUS
<1>3. 0 \in Good
  <2>1. 0 \in 0..n /\ \A c : ~In(0, c)
    BY <1>2
  <2>2. SameFree(p, p)
    BY DEF SameFree
  <2> HIDE DEF In
  <2> QED BY <1>1, <2>1, <2>2
<1>4. ASSUME NEW i \in 1..n, i-1 \in Good
      PROVE  i \in Good
  <2>1. i \in 0..n /\ f[i-1] \in PoolState /\ blocks[i] \in Blocks /\ Ok(i-1)
    BY <1>1, <1>4
  <2> DEFINE b == blocks[i]
             r == f[i-1]
             s == f[i]
  <2>2. \A c : In(i, c) <=> In(i-1, c) \/ c = b
    <3>1. \A j \in 1..i : j \in 1..i-1 \/ j = i
      BY <2>1
    <3>2. 1..i-1 \subseteq 1..i /\ i \in 1..i
      BY <2>1
    <3> QED BY <3>1, <3>2
  <2>3. s = Unhash(r, b)
    BY <1>1 DEF _maybe_evict_cached_block
  <2> HIDE DEF In
  <2>4. /\ SameFree(r, s) /\ Agree(s) /\ s.hash[b] = None /\ s.extra[b] = {} /\ OthersKept(r, b, s)
        /\ \A c \in Blocks, k \in Keys : contain(s, k, c) <=> contain(r, k, c) /\ c # b
        /\ \A v : Truthful(r, v) => Truthful(s, v)
    <3>1. r \in PoolState /\ Agree(r) /\ b \in Blocks
      BY <2>1
    <3> HIDE DEF r, b, s
    <3> QED BY <2>3, <3>1, UnhashAgree
  <2>5. Ok(i)
    <3>1. SameFree(p, s)
      BY <2>1, <2>4 DEF SameFree
    <3>2. \A v : Truthful(p, v) => Truthful(s, v)
      BY <2>1, <2>4
    <3>3. ASSUME NEW c \in Blocks
          PROVE  /\ IF In(i, c) THEN s.hash[c] = None /\ s.extra[c] = {}
                                ELSE s.hash[c] = p.hash[c] /\ s.extra[c] = p.extra[c]
                 /\ \A k \in Keys : contain(s, k, c) <=> contain(p, k, c) /\ ~In(i, c)
      <4>1. c = b \/ (s.hash[c] = r.hash[c] /\ s.extra[c] = r.extra[c])
        BY <2>4 DEF OthersKept
      <4>2. IF In(i-1, c) THEN r.hash[c] = None /\ r.extra[c] = {}
                          ELSE r.hash[c] = p.hash[c] /\ r.extra[c] = p.extra[c]
        BY <2>1
      <4>3. \A k \in Keys : contain(r, k, c) <=> contain(p, k, c) /\ ~In(i-1, c)
        BY <2>1
      <4> HIDE DEF b, r, s
      <4> QED BY <2>2, <2>4, <4>1, <4>2, <4>3
    <3> QED BY <2>4, <3>1, <3>2, <3>3
  <2> HIDE DEF Ok
  <2> QED BY <2>1, <2>5
<1>5. n \in Good
  <2>1. 0..n \subseteq Good
    <3> HIDE DEF Good, n
    <3> QED BY <1>2, <1>3, <1>4, BoundedInduction
  <2> QED BY <1>2, <2>1
<1>6. \A c : In(n, c) <=> c \in ToSet(blocks)
  BY DEF ToSet
<1> DEFINE q == f[n]
<1>7. q \in PoolState
  BY <1>1, <1>2
<1>8. Ok(n)
  BY <1>5
<1> HIDE DEF In
<1>9. Emptied(p, blocks, q)
  BY <1>6, <1>8 DEF Emptied
<1> QED BY <1>1, <1>7, <1>8, <1>9

----------------------------------------------------------------------------
(* The keys of full blocks                                                  *)

(* Products and quotients of the block sizes                                *)
LEMMA Quotient ==
    ASSUME NEW n \in Nat, NEW d \in Nat \ {0}, NEW c \in Nat, c * d <= n
    PROVE  c <= n \div d
<1> DEFINE q == n \div d
<1>1. q \in Nat /\ n = q * d + (n % d) /\ n % d \in 0..d-1
  OBVIOUS
<1>2. SUFFICES ASSUME c > q PROVE FALSE
  BY <1>1
<1>3. c >= q + 1 /\ c - (q + 1) \in Nat
  BY <1>1, <1>2
<1>4. (c - (q + 1)) * d \in Nat
  BY <1>3
<1>5. c * d = q * d + d + (c - (q + 1)) * d
  BY <1>1, <1>3
<1>6. c * d \in Nat /\ q * d \in Nat
  BY <1>1
<1> HIDE DEF q
<1> QED BY <1>1, <1>4, <1>5, <1>6

LEMMA Divisible ==
    ASSUME NEW d \in Nat \ {0}, NEW y \in Nat
    PROVE  (y * d) % d = 0
OBVIOUS

LEMMA DivisibleBefore ==
    ASSUME NEW d \in Nat \ {0}, NEW n \in Nat, n >= d, n % d = 0
    PROVE  (n - d) % d = 0
<1> DEFINE y == (n \div d) - 1
<1>1. n = (n \div d) * d /\ n \div d \in Nat
  OBVIOUS
<1>2. n \div d >= 1
  BY <1>1
<1>3. y \in Nat
  BY <1>1, <1>2
<1>4. n - d = y * d
  BY <1>1
<1>5. (y * d) % d = 0
  <2> HIDE DEF y
  <2> QED BY <1>3, Divisible
<1> HIDE DEF y
<1> QED BY <1>4, <1>5

LEMMA KeyOfPrefix ==
    ASSUME NEW t \in Tokens, NEW n \in Nat \ {0}, n <= Len(t), n % hash_block_size = 0, NEW g \in Groups
    PROVE  Key(Hash(t, n), g) \in Keys
<1> DEFINE h == hash_block_size
           i == n \div h
<1>1. h \in Nat \ {0} /\ Len(t) \in Nat
  BY BlockPoolAssumption
<1>2. n = i * h /\ i \in Nat
  BY <1>1
<1>3. i # 0
  BY <1>1, <1>2
<1>4. i <= Len(t) \div h
  <2> HIDE DEF h, i
  <2> QED BY <1>1, <1>2, Quotient
<1>5. i \in 1..(Len(t) \div h)
  <2>1. Len(t) \div h \in Nat
    BY <1>1
  <2> HIDE DEF h, i
  <2> QED BY <1>2, <1>3, <1>4, <2>1
<1>6. Key(Hash(t, i * hash_block_size), g) \in Keys
  <2> HIDE DEF i
  <2> QED BY <1>5 DEF Keys
<1> HIDE DEF i
<1> QED BY <1>2, <1>6

LEMMA Multiple ==
    ASSUME NEW i \in Nat
    PROVE  (i * block_size) % hash_block_size = 0 /\ i * block_size \in Nat /\ (i # 0 => i * block_size # 0)
<1> DEFINE h == hash_block_size
           m == block_size \div h
<1>1. h \in Nat \ {0} /\ block_size \in Nat \ {0} /\ block_size % h = 0
  BY BlockPoolAssumption
<1>2. m \in Nat /\ block_size = m * h
  BY <1>1
<1>3. i * block_size = (i * m) * h /\ i * m \in Nat
  <2> HIDE DEF m, h
  <2> QED BY <1>1, <1>2
<1>4. \A x \in Nat : (x * h) % h = 0
  <2> HIDE DEF h
  <2> QED BY <1>1, Divisible
<1>5. (i * block_size) % h = 0
  <2> HIDE DEF m, h
  <2> QED BY <1>3, <1>4
<1>6. i * block_size \in Nat /\ (i # 0 => i * block_size # 0)
  BY <1>1
<1> QED BY <1>5, <1>6

LEMMA FullKeyType ==
    ASSUME NEW t \in Tokens, NEW i \in Nat \ {0}, i * block_size <= Len(t), NEW g \in Groups
    PROVE  FullKey(t, i, g) \in Keys
<1> DEFINE n == i * block_size
<1>1. n \in Nat \ {0} /\ n % hash_block_size = 0 /\ n <= Len(t)
  BY Multiple
<1>2. Key(Hash(t, n), g) \in Keys
  <2> HIDE DEF n
  <2> QED BY <1>1, KeyOfPrefix
<1> QED BY <1>2 DEF FullKey

LEMMA Monotone ==
    ASSUME NEW i \in Nat, NEW j \in Nat, i <= j
    PROVE  i * block_size <= j * block_size
<1>1. block_size \in Nat /\ j - i \in Nat
  BY BlockPoolAssumption
<1>2. (j - i) * block_size \in Nat /\ j * block_size = i * block_size + (j - i) * block_size /\ i * block_size \in Nat
  BY <1>1
<1> QED BY <1>2

----------------------------------------------------------------------------
(* Full blocks are entered                                                  *)

(* One new full block: the entries it had are gone, whatever they were.     *)
LEMMA CacheFullBlockEffect ==
    ASSUME NEW p \in PoolState, NEW k \in Keys, NEW b \in Blocks, Agree(p)
    PROVE  LET q == CacheFullBlock(p, k, b)
           IN  /\ q \in PoolState /\ SameFree(p, q) /\ Agree(q)
               /\ q.hash[b] = k /\ q.extra[b] = {} /\ OthersKept(p, b, q)
               /\ \A c \in Blocks, j \in Keys : contain(q, j, c) <=> (contain(p, j, c) /\ c # b) \/ (c = b /\ j = k)
               /\ \A v : Truthful(p, v) => Truthful(q, v)
<1> DEFINE u == IF p.hash[b] = None THEN p ELSE Unhash(p, b)
           q == _insert_block_hash(u, k, b)
<1>1. /\ u \in PoolState /\ SameFree(p, u) /\ Agree(u) /\ u.hash[b] = None /\ OthersKept(p, b, u)
      /\ \A c \in Blocks, j \in Keys : contain(u, j, c) <=> contain(p, j, c) /\ c # b
      /\ \A v : Truthful(p, v) => Truthful(u, v)
  <2>1. CASE p.hash[b] = None
    <3>1. u = p
      BY <2>1
    <3>2. \A j \in Keys : ~contain(p, j, b)
      BY <2>1 DEF Agree, OwnKeys
    <3> QED BY <2>1, <3>1, <3>2 DEF SameFree, OthersKept
  <2>2. CASE p.hash[b] # None
    <3>1. u = Unhash(p, b)
      BY <2>2
    <3> HIDE DEF u
    <3> QED BY <3>1, UnhashAgree
  <2> QED BY <2>1, <2>2
<1>2. /\ q \in PoolState /\ SameFree(u, q) /\ q.events = u.events /\ Agree(q) /\ OthersKept(u, b, q)
      /\ \A c \in Blocks, j \in Keys : contain(q, j, c) <=> contain(u, j, c) \/ (c = b /\ j = k)
      /\ q.hash[b] = k /\ q.extra[b] = {}
  <2> HIDE DEF u
  <2> QED BY <1>1, AgreeInserted
<1> HIDE DEF q, u
<1>3. SameFree(p, q) /\ OthersKept(p, b, q)
  BY <1>1, <1>2 DEF SameFree, OthersKept
<1>4. \A c \in Blocks, j \in Keys : contain(q, j, c) <=> (contain(p, j, c) /\ c # b) \/ (c = b /\ j = k)
  BY <1>1, <1>2
<1>5. \A j \in Keys : HasBlock(u, j) => HasBlock(q, j)
  BY <1>2 DEF HasBlock
<1>6. \A v : Truthful(p, v) => Truthful(q, v)
  BY <1>1, <1>2, <1>5, TruthfulKept
<1>7. CacheFullBlock(p, k, b) = q
  BY DEF CacheFullBlock, q, u
<1> QED BY <1>2, <1>3, <1>4, <1>6, <1>7

(* The loop of cache_full_blocks                                            *)
Entered(p, t, blocks, from, to, g, mask) ==
    LET new == NewFull(blocks, from, to, mask)
        cached[i \in 0..to] == IF i = 0 THEN p
                               ELSE IF i \in new THEN CacheFullBlock(cached[i-1], FullKey(t, i, g), blocks[i])
                               ELSE cached[i-1]
    IN  cached[to]

(* What it enters are keys of blocks.                                       *)
EntersKeys(t, blocks, from, to, g, mask) ==
    \A i \in NewFull(blocks, from, to, mask) : FullKey(t, i, g) \in Keys /\ blocks[i] \in Blocks

EntersInSteps(f, p, t, blocks, from, to, g, mask) ==
    /\ f \in [0..to -> PoolState] /\ f[0] = p /\ Entered(p, t, blocks, from, to, g, mask) = f[to]
    /\ \A i \in 1..to : /\ Agree(f[i])
                        /\ f[i] = IF i \in NewFull(blocks, from, to, mask)
                                  THEN CacheFullBlock(f[i-1], FullKey(t, i, g), blocks[i]) ELSE f[i-1]

LEMMA EnteredSteps ==
    ASSUME NEW p \in PoolState, NEW t, NEW blocks, NEW from \in Nat, NEW to \in Nat, NEW g, NEW mask, Agree(p),
           EntersKeys(t, blocks, from, to, g, mask)
    PROVE  \E f : EntersInSteps(f, p, t, blocks, from, to, g, mask)
<1> DEFINE new == NewFull(blocks, from, to, mask)
           W == {q \in PoolState : Agree(q)}
           next(q, i) == IF i \in new THEN CacheFullBlock(q, FullKey(t, i, g), blocks[i]) ELSE q
           step == [i \in 1..to |-> [q \in W |-> next(q, i)]]
           Is(f) == f = [i \in 0..to |-> IF i = 0 THEN p
                                         ELSE IF i \in new THEN CacheFullBlock(f[i-1], FullKey(t, i, g), blocks[i])
                                         ELSE f[i-1]]
<1>2. p \in W /\ to \in Nat
  OBVIOUS
<1>3. ASSUME NEW i \in 1..to, NEW q \in W
      PROVE  next(q, i) \in W
  <2>1. CASE i \in new
    <3>1. FullKey(t, i, g) \in Keys /\ blocks[i] \in Blocks
      BY <2>1 DEF EntersKeys
    <3>2. CacheFullBlock(q, FullKey(t, i, g), blocks[i]) \in W
      BY <3>1, CacheFullBlockEffect
    <3> QED BY <2>1, <3>2
  <2>2. CASE i \notin new
    BY <2>2
  <2> QED BY <2>1, <2>2
<1>4. step \in [1..to -> [W -> W]]
  <2> HIDE DEF W, next
  <2> QED BY <1>3
<1>5. \A i \in 0..to : i = 0 \/ (i # 0 /\ i \in 1..to)
  OBVIOUS
<1>6. PICK f : f \in [0..to -> W] /\ f[0] = p /\ \A i \in 1..to : f[i] = step[i][f[i-1]]
  <2> HIDE DEF W, step, new, Is, next
  <2>1. \E f : Walks(f, W, p, to, step)
    BY <1>2, <1>4, StepFunction, Zenon
  <2> QED BY <2>1 DEF Walks
<1>7. ASSUME NEW i \in 1..to
      PROVE  f[i] = next(f[i-1], i)
  <2>1. f[i-1] \in W
    <3> HIDE DEF W, next
    <3> QED BY <1>6
  <2> HIDE DEF W, next
  <2> QED BY <1>6, <2>1
<1>8. Is(f)
  <2>1. \A i \in 0..to : f[i] = IF i = 0 THEN p ELSE next(f[i-1], i)
    <3> HIDE DEF W, next
    <3> QED BY <1>5, <1>6, <1>7
  <2> HIDE DEF W, new
  <2> QED BY <1>6, <2>1
<1>9. PICK h : h = CHOOSE f2 : Is(f2)
  OBVIOUS
<1>10. Is(h)
  <2> HIDE DEF Is
  <2> QED BY <1>8, <1>9
<1>11. Entered(p, t, blocks, from, to, g, mask) = h[to]
  BY <1>9 DEF Entered
<1>12. h[0] = p /\ \A i \in 1..to : h[i] = next(h[i-1], i)
  <2>1. 0 \in 0..to /\ \A i \in 1..to : i # 0 /\ i \in 0..to
    OBVIOUS
  <2> HIDE DEF new
  <2> QED BY <1>10, <2>1
<1> DEFINE Good == {i \in 0..to : h[i] \in W}
<1>13. 0 \in Good
  <2> HIDE DEF W, next
  <2> QED BY <1>2, <1>12
<1>14. ASSUME NEW i \in 1..to, i-1 \in Good
       PROVE  i \in Good
  <2> HIDE DEF W, next
  <2> QED BY <1>3, <1>12, <1>14
<1>15. 0..to \subseteq Good
  <2> HIDE DEF Good
  <2> QED BY <1>13, <1>14, BoundedInduction
<1>16. h \in [0..to -> PoolState] /\ \A i \in 1..to : Agree(h[i])
  <2>1. \A i \in 0..to : h[i] \in PoolState /\ Agree(h[i])
    BY <1>15
  <2>2. h = [i \in 0..to |-> h[i]]
    <3> HIDE DEF new
    <3> QED BY <1>10
  <2> HIDE DEF Good, W, next, Is
  <2> QED BY <2>1, <2>2
<1> QED BY <1>11, <1>12, <1>16 DEF EntersInSteps

(* The entries after cache_full_blocks has entered the blocks at new.       *)
AreEntered(p, t, blocks, new, g, q) ==
    /\ SameFree(p, q)
    /\ \A i \in new : q.hash[blocks[i]] = FullKey(t, i, g) /\ q.extra[blocks[i]] = {}
    /\ \A c \in Blocks : (\A i \in new : blocks[i] # c) => q.hash[c] = p.hash[c] /\ q.extra[c] = p.extra[c]
    /\ \A c \in Blocks, j \in Keys : contain(q, j, c) <=>
           \/ contain(p, j, c) /\ \A i \in new : blocks[i] # c
           \/ \E i \in new : blocks[i] = c /\ j = FullKey(t, i, g)

AreDistinct(blocks, new) == \A i, j \in new : blocks[i] = blocks[j] => i = j

LEMMA EnteredEffect ==
    ASSUME NEW p \in PoolState, NEW t, NEW blocks, NEW from \in Nat, NEW to \in Nat, NEW g, NEW mask, Agree(p),
           EntersKeys(t, blocks, from, to, g, mask), AreDistinct(blocks, NewFull(blocks, from, to, mask))
    PROVE  LET q == Entered(p, t, blocks, from, to, g, mask)
           IN  /\ q \in PoolState /\ Agree(q) /\ AreEntered(p, t, blocks, NewFull(blocks, from, to, mask), g, q)
               /\ \A v : Truthful(p, v) => Truthful(q, v)
<1> DEFINE new == NewFull(blocks, from, to, mask)
<1>0. PICK f : EntersInSteps(f, p, t, blocks, from, to, g, mask)
  BY EnteredSteps, Zenon
<1>1. /\ f \in [0..to -> PoolState] /\ f[0] = p /\ Entered(p, t, blocks, from, to, g, mask) = f[to]
      /\ \A i \in 1..to : /\ Agree(f[i])
                          /\ f[i] = IF i \in new THEN CacheFullBlock(f[i-1], FullKey(t, i, g), blocks[i]) ELSE f[i-1]
  BY <1>0 DEF EntersInSteps
<1> DEFINE Upto(i) == {j \in new : j <= i}
           Ok(i) == AreEntered(p, t, blocks, Upto(i), g, f[i]) /\ \A v : Truthful(p, v) => Truthful(f[i], v)
           Good == {i \in 0..to : Ok(i)}
<1>2. new \subseteq 1..to
  BY DEF NewFull
<1>3. 0 \in Good
  <2>1. 0 \in 0..to /\ Upto(0) = {}
    BY <1>2
  <2>2. SameFree(p, p)
    BY DEF SameFree
  <2>3. AreEntered(p, t, blocks, {}, g, p)
    BY <2>2 DEF AreEntered
  <2> HIDE DEF Upto
  <2> QED BY <1>1, <2>1, <2>3
<1>4. ASSUME NEW i \in 1..to, i-1 \in Good
      PROVE  i \in Good
  <2>1. i \in 0..to /\ f[i-1] \in PoolState /\ Ok(i-1) /\ i - 1 \in 0..to
    BY <1>1, <1>4
  <2>2. Agree(f[i-1])
    <3>1. i - 1 = 0 \/ i - 1 \in 1..to
      BY <2>1
    <3> QED BY <1>1, <3>1
  <2> DEFINE r == f[i-1]
             s == f[i]
             k == FullKey(t, i, g)
             b == blocks[i]
  <2>3. CASE i \notin new
    <3>1. s = r
      BY <1>1, <2>3
    <3>2. Upto(i) = Upto(i-1)
      BY <1>2, <2>1, <2>3
    <3> HIDE DEF Upto
    <3>3. Ok(i)
      BY <2>1, <3>1, <3>2
    <3> QED BY <2>1, <3>3
  <2>4. CASE i \in new
    <3>1. k \in Keys /\ b \in Blocks
      BY <2>4 DEF EntersKeys
    <3>2. s = CacheFullBlock(r, k, b)
      BY <1>1, <2>4
    <3>3. /\ SameFree(r, s) /\ s.hash[b] = k /\ s.extra[b] = {} /\ OthersKept(r, b, s)
          /\ \A c \in Blocks, j \in Keys : contain(s, j, c) <=> (contain(r, j, c) /\ c # b) \/ (c = b /\ j = k)
          /\ \A v : Truthful(r, v) => Truthful(s, v)
      <4>1. r \in PoolState /\ Agree(r)
        BY <2>1, <2>2
      <4> HIDE DEF r, s, k, b
      <4> QED BY <3>1, <3>2, <4>1, CacheFullBlockEffect
    <3>4. \A j : j \in Upto(i) <=> j \in Upto(i-1) \/ j = i
      BY <1>2, <2>1, <2>4
    <3>5. \A j \in Upto(i-1) : blocks[j] # b /\ j # i /\ blocks[j] \in Blocks
      BY <1>2, <2>1, <2>4 DEF AreDistinct, EntersKeys
    <3>6. AreEntered(p, t, blocks, Upto(i-1), g, r)
      BY <2>1
    <3>7. \A v : Truthful(p, v) => Truthful(s, v)
      BY <2>1, <3>3
    <3> DEFINE new1 == Upto(i-1)
               new2 == Upto(i)
    <3>8. AreEntered(p, t, blocks, new2, g, s)
      <4>0. \A j : j \in new2 <=> j \in new1 \/ j = i
        BY <3>4
      <4> HIDE DEF new1, new2
      <4>1. SameFree(p, s)
        BY <3>3, <3>6 DEF SameFree, AreEntered, new1
      <4>2. \A j \in new2 : s.hash[blocks[j]] = FullKey(t, j, g) /\ s.extra[blocks[j]] = {}
        <5>1. \A j \in new1 : /\ r.hash[blocks[j]] = FullKey(t, j, g) /\ r.extra[blocks[j]] = {}
                              /\ blocks[j] \in Blocks \ {b}
          BY <3>5, <3>6 DEF AreEntered, new1
        <5>2. \A c \in Blocks \ {b} : s.hash[c] = r.hash[c] /\ s.extra[c] = r.extra[c]
          BY <3>3 DEF OthersKept
        <5>3. ASSUME NEW j \in new1
              PROVE  s.hash[blocks[j]] = FullKey(t, j, g) /\ s.extra[blocks[j]] = {}
          BY <5>1, <5>2
        <5> QED BY <3>3, <4>0, <5>3
      <4>3. ASSUME NEW c \in Blocks, \A j \in new2 : blocks[j] # c
            PROVE  s.hash[c] = p.hash[c] /\ s.extra[c] = p.extra[c]
        <5>1. c # b /\ \A j \in new1 : blocks[j] # c
          BY <4>0, <4>3
        <5>2. r.hash[c] = p.hash[c] /\ r.extra[c] = p.extra[c]
          BY <3>6, <5>1 DEF AreEntered, new1
        <5> QED BY <3>3, <5>1, <5>2 DEF OthersKept
      <4>4. ASSUME NEW c \in Blocks, NEW j \in Keys
            PROVE  contain(s, j, c) <=> \/ contain(p, j, c) /\ \A l \in new2 : blocks[l] # c
                                        \/ \E l \in new2 : blocks[l] = c /\ j = FullKey(t, l, g)
        <5>1. contain(r, j, c) <=> \/ contain(p, j, c) /\ \A l \in new1 : blocks[l] # c
                                   \/ \E l \in new1 : blocks[l] = c /\ j = FullKey(t, l, g)
          BY <3>6 DEF AreEntered, new1
        <5>2. contain(s, j, c) <=> (contain(r, j, c) /\ c # b) \/ (c = b /\ j = k)
          BY <3>3
        <5>3. \A l \in new1 : blocks[l] # b
          BY <3>5 DEF new1
        <5> HIDE DEF r, s, k
        <5>4. CASE c = b
          <6>1. contain(s, j, c) <=> j = k
            BY <5>2, <5>4
          <6>2. (\E l \in new2 : blocks[l] = c /\ j = FullKey(t, l, g)) <=> j = k
            BY <4>0, <5>3, <5>4 DEF k
          <6>3. ~ \A l \in new2 : blocks[l] # c
            BY <4>0, <5>4
          <6> QED BY <6>1, <6>2, <6>3
        <5>5. CASE c # b
          <6>1. (\E l \in new2 : blocks[l] = c /\ j = FullKey(t, l, g))
                <=> (\E l \in new1 : blocks[l] = c /\ j = FullKey(t, l, g))
            BY <4>0, <5>5
          <6>2. (\A l \in new2 : blocks[l] # c) <=> (\A l \in new1 : blocks[l] # c)
            BY <4>0, <5>5
          <6> QED BY <5>1, <5>2, <5>5, <6>1, <6>2
        <5> QED BY <5>4, <5>5
      <4> HIDE DEF s
      <4> QED BY <4>1, <4>2, <4>3, <4>4 DEF AreEntered
    <3>9. Ok(i)
      BY <3>7, <3>8
    <3> HIDE DEF Ok
    <3> QED BY <2>1, <3>9
  <2> QED BY <2>3, <2>4
<1>5. to \in Good
  <2>1. 0..to \subseteq Good
    <3> HIDE DEF Good
    <3> QED BY <1>3, <1>4, BoundedInduction
  <2> QED BY <2>1
<1>6. Upto(to) = new
  BY <1>2
<1>7. f[to] \in PoolState /\ Agree(f[to])
  <2>1. to = 0 \/ to \in 1..to
    OBVIOUS
  <2>2. to \in 0..to
    OBVIOUS
  <2> QED BY <1>1, <2>1, <2>2
<1>8. Ok(to)
  BY <1>5
<1> HIDE DEF Upto
<1> QED BY <1>1, <1>6, <1>7, <1>8

(* What the caller of cache_full_blocks may ask for.                        *)
MayEnter(t, blocks, from, to, g, mask) ==
    /\ from \in Nat /\ to \in Nat /\ to * block_size <= Len(t) /\ t \in Tokens /\ g \in Groups
    /\ \A i \in NewFull(blocks, from, to, mask) : blocks[i] \in Blocks
    /\ AreDistinct(blocks, NewFull(blocks, from, to, mask))

LEMMA CacheFullEffect ==
    ASSUME NEW p \in PoolState, NEW t, NEW blocks, NEW from, NEW to, NEW g, NEW mask, Agree(p),
           MayEnter(t, blocks, from, to, g, mask)
    PROVE  LET q == cache_full_blocks(p, t, blocks, from, to, g, mask)
           IN  /\ q \in PoolState /\ Agree(q) /\ AreEntered(p, t, blocks, NewFull(blocks, from, to, mask), g, q)
               /\ \A v : Truthful(p, v) => Truthful(q, v)
<1> DEFINE new == NewFull(blocks, from, to, mask)
           r == Entered(p, t, blocks, from, to, g, mask)
           ks == {FullKey(t, i, g) : i \in new}
           parent == ParentKey(t, from, g)
           e == Event("stored", ks, parent)
           q == Emit(r, "stored", ks, parent)
<1>1. from \in Nat /\ to \in Nat /\ new \subseteq 1..to /\ to * block_size <= Len(t) /\ t \in Tokens /\ g \in Groups
  BY DEF MayEnter, NewFull
<1>2. Len(t) \in Nat
  BY <1>1, BlockPoolAssumption
<1>3. ASSUME NEW i \in 1..to
      PROVE  FullKey(t, i, g) \in Keys
  <2>1. i \in Nat \ {0} /\ i <= to
    BY <1>1
  <2>2. i * block_size <= to * block_size
    BY <1>1, <2>1, Monotone
  <2>3. i * block_size \in Nat /\ to * block_size \in Nat
    BY <1>1, <2>1, Multiple
  <2>4. i * block_size <= Len(t)
    BY <1>1, <1>2, <2>2, <2>3
  <2> QED BY <1>1, <2>1, <2>4, FullKeyType
<1>4. EntersKeys(t, blocks, from, to, g, mask)
  BY <1>1, <1>3 DEF EntersKeys, MayEnter
<1>5. CASE from >= to
  <2>1. \A i : i \notin new
    BY <1>1, <1>5 DEF NewFull
  <2>2. cache_full_blocks(p, t, blocks, from, to, g, mask) = p
    BY <1>5 DEF cache_full_blocks
  <2>3. SameFree(p, p)
    BY DEF SameFree
  <2> HIDE DEF new
  <2>4. AreEntered(p, t, blocks, new, g, p)
    BY <2>1, <2>3 DEF AreEntered
  <2> QED BY <2>2, <2>4 DEF new
<1>6. CASE ~(from >= to)
  <2>1. cache_full_blocks(p, t, blocks, from, to, g, mask) = q
    BY <1>6 DEF cache_full_blocks, Entered
  <2>2. /\ r \in PoolState /\ Agree(r) /\ AreEntered(p, t, blocks, new, g, r)
        /\ \A v : Truthful(p, v) => Truthful(r, v)
    <3>1. AreDistinct(blocks, new)
      BY DEF MayEnter
    <3> QED BY <1>1, <1>4, <3>1, EnteredEffect
  <2>3. ks \in SUBSET Keys
    BY <1>1, <1>3
  <2>4. parent \in Keys \cup {None}
    <3>1. from = 0 \/ from \in 1..to
      BY <1>1, <1>6
    <3>2. CASE from = 0
      BY <3>2 DEF ParentKey
    <3>3. CASE from \in 1..to
      <4>1. FullKey(t, from, g) \in Keys /\ from # 0
        BY <1>3, <3>3
      <4> QED BY <4>1 DEF ParentKey
    <3> QED BY <3>1, <3>2, <3>3
  <2>5. /\ q \in PoolState /\ SameFree(r, q) /\ SameCache(r, q) /\ e \in PoolEvent
        /\ q.events = IF enable_kv_cache_events THEN Append(r.events, e) ELSE r.events
    <3> HIDE DEF r, ks, parent
    <3> QED BY <2>2, <2>3, <2>4, EmitEffect
  <2>6. \A j \in Keys, c \in Blocks : /\ contain(q, j, c) <=> contain(r, j, c)
                                      /\ OwnKeys(q, c) = OwnKeys(r, c)
    BY <2>5 DEF SameCache, contain, OwnKeys
  <2>7. Agree(q)
    <3> HIDE DEF q, r
    <3> QED BY <2>2, <2>5, <2>6 DEF Agree, SameCache
  <2>8. AreEntered(p, t, blocks, new, g, q)
    <3> HIDE DEF q, r, new
    <3>1. SameFree(p, q)
      BY <2>2, <2>5 DEF AreEntered, SameFree
    <3> QED BY <2>2, <2>5, <2>6, <3>1 DEF AreEntered, SameCache
  <2>9. ASSUME NEW v, Truthful(p, v)
        PROVE  Truthful(q, v)
    <3>1. Truthful(r, v)
      BY <2>2, <2>9
    <3>2. ASSUME NEW k \in Keys, Stores(e, k) \/ HasBlock(r, k)
          PROVE  HasBlock(q, k)
      <4>1. CASE HasBlock(r, k)
        BY <2>6, <4>1 DEF HasBlock
      <4>2. CASE Stores(e, k)
        <5>1. k \in ks
          BY <4>2 DEF Stores, Event
        <5>2. PICK i \in new : k = FullKey(t, i, g)
          BY <5>1
        <5>3. blocks[i] \in Blocks
          BY DEF MayEnter
        <5>4. contain(q, k, blocks[i])
          <6> HIDE DEF q, new
          <6> QED BY <2>8, <5>2, <5>3 DEF AreEntered
        <5> QED BY <5>3, <5>4 DEF HasBlock
      <4> QED BY <3>2, <4>1, <4>2
    <3> HIDE DEF q, r, e
    <3> QED BY <2>2, <2>5, <3>1, <3>2, TruthfulTold
  <2> HIDE DEF q
  <2> QED BY <2>1, <2>5, <2>7, <2>8, <2>9
<1> QED BY <1>5, <1>6

----------------------------------------------------------------------------
(* Partial blocks, copies, reset and events                                 *)

(* An event about a pool whose cache is that of r.                          *)
LEMMA AgreeEmitted ==
    ASSUME NEW p \in PoolState, NEW q \in PoolState, Agree(p), SameCache(p, q)
    PROVE  Agree(q) /\ \A j \in Keys, c \in Blocks : contain(q, j, c) <=> contain(p, j, c)
<1>1. \A j \in Keys, c \in Blocks : /\ contain(q, j, c) <=> contain(p, j, c)
                                    /\ OwnKeys(q, c) = OwnKeys(p, c)
  BY DEF SameCache, contain, OwnKeys
<1>2. Agree(q)
  BY <1>1 DEF Agree, SameCache
<1> QED BY <1>1, <1>2

LEMMA CachePartialEffect ==
    ASSUME NEW p \in PoolState, NEW t \in Tokens, NEW b \in Blocks, NEW n \in Nat \ {0}, NEW g \in Groups, Agree(p),
           n <= Len(t), n % hash_block_size = 0
    PROVE  LET q == cache_partial_block(p, t, b, n, g)
           IN  /\ q \in PoolState /\ SameFree(p, q) /\ Agree(q) /\ Key(Hash(t, n), g) \in Keys
               /\ \A c \in Blocks, j \in Keys : contain(q, j, c) => contain(p, j, c) \/ (c = b /\ j = Key(Hash(t, n), g))
               /\ \A v : Truthful(p, v) => Truthful(q, v)
<1> DEFINE k == Key(Hash(t, n), g)
           already == p.hash[b] = k \/ contain(p, k, b)
           shorter == ~already /\ p.hash[b] # None /\ NumTokens(p.hash[b]) < n
           u == IF shorter THEN Unhash(p, b) ELSE p
           r == _insert_block_hash(u, k, b)
           ks == {k}
           parent == PartialParent(t, n, g)
           e == Event("stored", ks, parent)
           q == Emit(r, "stored", ks, parent)
<1>1. k \in Keys
  BY KeyOfPrefix
<1>2. /\ u \in PoolState /\ SameFree(p, u) /\ Agree(u)
      /\ \A c \in Blocks, j \in Keys : contain(u, j, c) => contain(p, j, c)
      /\ \A v : Truthful(p, v) => Truthful(u, v)
  <2>1. CASE shorter
    <3>1. u = Unhash(p, b)
      BY <2>1
    <3> HIDE DEF u
    <3> QED BY <3>1, UnhashAgree
  <2>2. CASE ~shorter
    <3>1. u = p
      BY <2>2
    <3> HIDE DEF u
    <3> QED BY <3>1 DEF SameFree
  <2> HIDE DEF shorter
  <2> QED BY <2>1, <2>2
<1>3. /\ r \in PoolState /\ SameFree(u, r) /\ r.events = u.events /\ Agree(r)
      /\ \A c \in Blocks, j \in Keys : contain(r, j, c) <=> contain(u, j, c) \/ (c = b /\ j = k)
  <2> HIDE DEF u, k
  <2> QED BY <1>1, <1>2, AgreeInserted
<1> HIDE DEF u, shorter
<1>4. SameFree(p, r)
  <2> HIDE DEF r
  <2> QED BY <1>2, <1>3 DEF SameFree
<1>5. \A c \in Blocks, j \in Keys : contain(r, j, c) => contain(p, j, c) \/ (c = b /\ j = k)
  <2> HIDE DEF r, k
  <2> QED BY <1>2, <1>3
<1>6. ASSUME NEW v, Truthful(p, v)
      PROVE  Truthful(r, v)
  <2>1. \A j \in Keys : HasBlock(u, j) => HasBlock(r, j)
    <3> HIDE DEF r, k
    <3> QED BY <1>3 DEF HasBlock
  <2> HIDE DEF r
  <2> QED BY <1>2, <1>3, <1>6, <2>1, TruthfulKept
<1>7. parent \in Keys \cup {None}
  <2>1. CASE n = hash_block_size
    BY <2>1 DEF PartialParent
  <2>2. CASE n # hash_block_size
    <3> DEFINE m == n - hash_block_size
    <3>1. hash_block_size \in Nat \ {0} /\ Len(t) \in Nat
      BY BlockPoolAssumption
    <3>2. n >= hash_block_size
      BY <3>1
    <3>3. m \in Nat \ {0} /\ m <= Len(t)
      BY <2>2, <3>1, <3>2
    <3>4. m % hash_block_size = 0
      BY <3>1, <3>2, DivisibleBefore
    <3>5. Key(Hash(t, m), g) \in Keys
      <4> HIDE DEF m
      <4> QED BY <3>3, <3>4, KeyOfPrefix
    <3> QED BY <2>2, <3>5 DEF PartialParent
  <2> QED BY <2>1, <2>2
<1>8. /\ q \in PoolState /\ SameFree(r, q) /\ SameCache(r, q) /\ e \in PoolEvent
      /\ q.events = IF enable_kv_cache_events THEN Append(r.events, e) ELSE r.events
  <2>1. ks \in SUBSET Keys
    BY <1>1
  <2> HIDE DEF r, ks, parent
  <2> QED BY <1>3, <1>7, <2>1, EmitEffect
<1>9. CASE already
  <2>1. cache_partial_block(p, t, b, n, g) = r
    BY <1>9 DEF cache_partial_block, u, shorter
  <2> HIDE DEF r
  <2> QED BY <1>1, <1>3, <1>4, <1>5, <1>6, <2>1
<1>10. CASE ~already
  <2>1. cache_partial_block(p, t, b, n, g) = q
    BY <1>10 DEF cache_partial_block, u, shorter
  <2>2. Agree(q) /\ \A j \in Keys, c \in Blocks : contain(q, j, c) <=> contain(r, j, c)
    <3> HIDE DEF q, r
    <3> QED BY <1>3, <1>8, AgreeEmitted
  <2>3. ASSUME NEW v, Truthful(p, v)
        PROVE  Truthful(q, v)
    <3>1. \A j \in Keys : Stores(e, j) => j = k
      BY DEF Stores, Event
    <3>2. contain(r, k, b)
      BY <1>1, <1>3
    <3>3. Truthful(r, v)
      BY <1>6, <2>3
    <3> HIDE DEF q, r, e, k
    <3>4. \A j \in Keys : Stores(e, j) \/ (HasBlock(r, j) /\ ~Drops(e, j)) => HasBlock(q, j)
      BY <2>2, <3>1, <3>2 DEF HasBlock
    <3> QED BY <1>3, <1>8, <3>3, <3>4, TruthfulTold
  <2>4. SameFree(p, q)
    <3> HIDE DEF q, r
    <3> QED BY <1>4, <1>8 DEF SameFree
  <2> HIDE DEF q, r
  <2> QED BY <1>1, <1>5, <1>8, <2>1, <2>2, <2>3, <2>4
<1> QED BY <1>9, <1>10

(* The keys of src become keys of dst.                                      *)
LEMMA MoveEffect ==
    ASSUME NEW p \in PoolState, NEW src \in Blocks, NEW dst \in Blocks, Agree(p), src # dst, MayMove(p, src, dst)
    PROVE  LET q == move_block_hashes(p, src, dst)
           IN  /\ q \in PoolState /\ SameFree(p, q) /\ Agree(q)
               /\ \A c \in Blocks, j \in Keys : contain(q, j, c) <=>
                       (contain(p, j, c) /\ c # src) \/ (c = dst /\ contain(p, j, src))
               /\ \A v : Truthful(p, v) => Truthful(q, v)
<1> DEFINE ks == removed_hashes(p, src)
           r == _remove_cached_block_hashes(p, src)
           primary == IF p.hash[src] \in ks THEN p.hash[src] ELSE CHOOSE k \in ks : TRUE
           h == [r.hash EXCEPT ![dst] = primary]
           x == [r.extra EXCEPT ![dst] = ks \ {primary}]
           m == [k \in Keys |-> IF k \in ks THEN Append(r.map[k], dst) ELSE r.map[k]]
           moved == [r EXCEPT !.hash = h, !.extra = x, !.map = m]
           q == IF ks = {} THEN r ELSE moved
<1>1. move_block_hashes(p, src, dst) = q
  BY DEF move_block_hashes
<1>2. r \in PoolState /\ SameFree(p, r) /\ r.events = p.events /\ Removed(p, src, r)
  BY RemoveEffect
<1>3. /\ Agree(r) /\ r.hash[src] = None /\ r.extra[src] = {} /\ OthersKept(p, src, r)
      /\ \A c \in Blocks, k \in Keys : contain(r, k, c) <=> contain(p, k, c) /\ c # src
  <2> HIDE DEF r
  <2> QED BY <1>2, AgreeRemoved
<1>4. /\ r.hash \in [Blocks -> Keys \cup {None}] /\ r.extra \in [Blocks -> SUBSET Keys]
      /\ r.map \in [Keys -> Seq(Blocks)]
  <2> HIDE DEF r
  <2> QED BY <1>2, PoolFields
<1>5. ks \subseteq Keys /\ \A k \in Keys : k \in ks <=> contain(p, k, src)
  BY OwnKeysType DEF removed_hashes, Agree
<1>6. \A k \in Keys : ~contain(p, k, dst) /\ ~contain(r, k, dst)
  <2>1. OwnKeys(p, dst) = {}
    BY DEF MayMove, OwnKeys
  <2> HIDE DEF r
  <2> QED BY <1>3, <2>1 DEF Agree
<1>7. CASE ks = {}
  <2>1. q = r
    BY <1>7
  <2>2. \A k \in Keys : ~contain(p, k, src)
    BY <1>5, <1>7
  <2> HIDE DEF r, q, ks
  <2>3. \A k \in Keys : HasBlock(p, k) => HasBlock(r, k)
    BY <1>3, <2>2 DEF HasBlock
  <2>4. \A v : Truthful(p, v) => Truthful(r, v)
    BY <1>2, <2>3, TruthfulKept
  <2> QED BY <1>1, <1>2, <1>3, <2>1, <2>2, <2>4
<1>8. CASE ks # {}
  <2>1. primary \in ks /\ primary \in Keys /\ primary # None
    BY <1>5, <1>8, NoneAssumption
  <2>2. m \in [Keys -> Seq(Blocks)]
    <3>1. \A k \in Keys : Append(r.map[k], dst) \in Seq(Blocks) /\ r.map[k] \in Seq(Blocks)
      BY <1>4
    <3> HIDE DEF r, ks
    <3> QED BY <3>1
  <2>3. h \in [Blocks -> Keys \cup {None}] /\ x \in [Blocks -> SUBSET Keys]
    <3> HIDE DEF r, ks, primary
    <3> QED BY <1>4, <1>5, <2>1
  <2>4. moved \in PoolState /\ moved.hash = h /\ moved.extra = x /\ moved.map = m /\ moved.events = r.events /\ SameFree(r, moved)
    <3> HIDE DEF r, h, x, m
    <3> QED BY <1>2, <2>2, <2>3, CacheFields
  <2>5. ASSUME NEW k \in Keys
        PROVE  /\ ToSet(moved.map[k]) = IF k \in ks THEN ToSet(r.map[k]) \cup {dst} ELSE ToSet(r.map[k])
               /\ IsInjective(moved.map[k])
    <3> DEFINE s == r.map[k]
    <3>1. moved.map[k] = IF k \in ks THEN Append(s, dst) ELSE s
      <4> HIDE DEF moved
      <4> QED BY <2>4
    <3>2. s \in Seq(Blocks) /\ IsInjective(s) /\ dst \notin ToSet(s)
      BY <1>3, <1>4, <1>6 DEF Agree, contain
    <3>3. ToSet(Append(s, dst)) = ToSet(s) \cup {dst} /\ IsInjective(Append(s, dst))
      <4> HIDE DEF s
      <4> QED BY <3>2, AppendFacts
    <3> HIDE DEF moved, ks, s
    <3> QED BY <3>1, <3>2, <3>3 DEF s
  <2>6. \A c \in Blocks, k \in Keys : contain(moved, k, c) <=> contain(r, k, c) \/ (c = dst /\ k \in ks)
    <3> HIDE DEF moved, r, ks
    <3> QED BY <2>5 DEF contain
  <2>7. OwnKeys(moved, dst) = ks /\ moved.hash[dst] # None
    <3>1. moved.hash[dst] = primary /\ moved.extra[dst] = ks \ {primary}
      <4> HIDE DEF moved, r, ks, primary
      <4> QED BY <1>4, <2>4
    <3> HIDE DEF moved, ks, primary
    <3> QED BY <2>1, <3>1 DEF OwnKeys
  <2>8. \A c \in Blocks \ {dst} : moved.hash[c] = r.hash[c] /\ moved.extra[c] = r.extra[c]
    <3> HIDE DEF moved, r, ks, primary
    <3> QED BY <1>4, <2>4
  <2>9. \A c \in Blocks \ {dst} : OwnKeys(moved, c) = OwnKeys(r, c)
    <3> HIDE DEF moved, r
    <3> QED BY <2>8 DEF OwnKeys
  <2> HIDE DEF moved, r, ks
  <2>10. ASSUME NEW c \in Blocks, NEW k \in Keys
         PROVE  contain(moved, k, c) <=> k \in OwnKeys(moved, c)
    <3>1. CASE c = dst
      BY <1>6, <2>6, <2>7, <3>1
    <3>2. CASE c # dst
      BY <1>3, <2>6, <2>9, <3>2 DEF Agree
    <3> QED BY <3>1, <3>2
  <2>11. ASSUME NEW c \in Blocks, moved.hash[c] = None
         PROVE  moved.extra[c] = {}
    BY <1>3, <2>7, <2>8, <2>11 DEF Agree
  <2>12. Agree(moved)
    BY <2>5, <2>10, <2>11 DEF Agree
  <2>13. \A c \in Blocks, j \in Keys : contain(moved, j, c) <=>
                       (contain(p, j, c) /\ c # src) \/ (c = dst /\ contain(p, j, src))
    BY <1>3, <1>5, <2>6
  <2>14. \A j \in Keys : HasBlock(p, j) => HasBlock(moved, j)
    BY <2>13 DEF HasBlock
  <2>15. moved.events = p.events /\ SameFree(p, moved)
    BY <1>2, <2>4 DEF SameFree
  <2>16. \A v : Truthful(p, v) => Truthful(moved, v)
    BY <2>4, <2>14, <2>15, TruthfulKept
  <2> QED BY <1>1, <1>8, <2>4, <2>12, <2>13, <2>15, <2>16
<1> QED BY <1>7, <1>8

LEMMA OneBlock ==
    ASSUME NEW p \in PoolState, NEW k \in Keys
    PROVE  /\ get_one_block(p, k) # None <=> HasBlock(p, k)
           /\ get_one_block(p, k) # None => get_one_block(p, k) \in Blocks /\ contain(p, k, get_one_block(p, k))
<1> DEFINE s == p.map[k]
<1>1. s \in Seq(Blocks)
  BY PoolFields
<1>2. CASE s = <<>>
  <2>1. ToSet(s) = {}
    BY <1>2 DEF ToSet
  <2> QED BY <1>2, <2>1 DEF get_one_block, HasBlock, contain
<1>3. CASE s # <<>>
  <2>1. 1 \in DOMAIN s /\ Head(s) = s[1] /\ s[1] \in Blocks
    BY <1>1, <1>3
  <2>2. Head(s) \in ToSet(s) /\ Head(s) \in Blocks /\ Head(s) # None
    BY <2>1, NoneAssumption DEF ToSet
  <2>3. get_one_block(p, k) = Head(s)
    BY <1>3 DEF get_one_block
  <2> HIDE DEF s
  <2> QED BY <2>2, <2>3 DEF HasBlock, contain, s
<1> QED BY <1>2, <1>3

LEMMA ResetEffect ==
    ASSUME NEW p \in PoolState, Agree(p)
    PROVE  LET q == reset_prefix_cache(p)
           IN  /\ q \in PoolState /\ SameFree(p, q) /\ Agree(q)
               /\ \A c \in Blocks, k \in Keys : contain(q, k, c) => contain(p, k, c)
               /\ \A c \in Blocks : /\ q.hash[c] = p.hash[c] \/ q.hash[c] = None
                                    /\ q.extra[c] = p.extra[c] \/ q.extra[c] = {}
               /\ \A v : Truthful(p, v) => Truthful(q, v)
<1> DEFINE h == [b \in Blocks |-> None]
           x == [b \in Blocks |-> {}]
           m == [k \in Keys |-> <<>>]
           r == [p EXCEPT !.hash = h, !.extra = x, !.map = m]
           ks == {}
           e == Event("cleared", ks, None)
           q == Emit(r, "cleared", ks, None)
<1>1. r \in PoolState /\ r.hash = h /\ r.extra = x /\ r.map = m /\ r.events = p.events /\ SameFree(p, r)
  <2>1. h \in [Blocks -> Keys \cup {None}] /\ x \in [Blocks -> SUBSET Keys] /\ m \in [Keys -> Seq(Blocks)]
    OBVIOUS
  <2> HIDE DEF h, x, m
  <2> QED BY <2>1, CacheFields
<1>2. /\ q \in PoolState /\ SameFree(r, q) /\ SameCache(r, q) /\ e \in PoolEvent
      /\ q.events = IF enable_kv_cache_events THEN Append(r.events, e) ELSE r.events
  <2>1. ks \in SUBSET Keys
    OBVIOUS
  <2> HIDE DEF r, ks
  <2> QED BY <1>1, <2>1, EmitEffect
<1> DEFINE hq == q.hash
           xq == q.extra
           mq == q.map
<1>3. hq = h /\ xq = x /\ mq = m
  <2> HIDE DEF r, h, x, m, q
  <2> QED BY <1>1, <1>2 DEF SameCache
<1>4. \A b \in Blocks : q.hash[b] = None /\ q.extra[b] = {}
  <2>1. \A b \in Blocks : hq[b] = None /\ xq[b] = {}
    <3> HIDE DEF hq, xq
    <3> QED BY <1>3
  <2> QED BY <2>1
<1>5. \A k \in Keys : q.map[k] = <<>>
  <2>1. \A k \in Keys : mq[k] = <<>>
    <3> HIDE DEF mq
    <3> QED BY <1>3
  <2> QED BY <2>1
<1> HIDE DEF q, r
<1>6. \A b \in Blocks, k \in Keys : ~contain(q, k, b) /\ OwnKeys(q, b) = {}
  BY <1>4, <1>5 DEF contain, ToSet, OwnKeys
<1>7. Agree(q)
  BY <1>4, <1>5, <1>6 DEF Agree, IsInjective
<1>8. CASE CanReset(p)
  <2>1. reset_prefix_cache(p) = q
    BY <1>8 DEF reset_prefix_cache, q, r
  <2>2. ASSUME NEW v, Truthful(p, v)
        PROVE  Truthful(q, v)
    <3>1. \A k \in Keys : Drops(e, k) /\ ~Stores(e, k)
      BY DEF Drops, Stores, Event
    <3>2. q.events = IF enable_kv_cache_events THEN Append(p.events, e) ELSE p.events
      BY <1>1, <1>2
    <3> HIDE DEF e
    <3> QED BY <1>2, <2>2, <3>1, <3>2, TruthfulTold
  <2>3. SameFree(p, q)
    BY <1>1, <1>2 DEF SameFree
  <2> QED BY <1>2, <1>4, <1>6, <1>7, <2>1, <2>2, <2>3
<1>9. CASE ~CanReset(p)
  <2>1. reset_prefix_cache(p) = p
    BY <1>9 DEF reset_prefix_cache
  <2> QED BY <2>1 DEF SameFree
<1> QED BY <1>8, <1>9

LEMMA EmitCachedEffect ==
    ASSUME NEW p \in PoolState, NEW t \in Tokens, NEW n \in Nat, NEW g \in Groups, Agree(p), n * block_size <= Len(t),
           g \notin Sparse => \A i \in 1..n : get_one_block(p, FullKey(t, i, g)) # None
    PROVE  LET q == emit_cached_block_events(p, t, n, g)
           IN  /\ q \in PoolState /\ SameFree(p, q) /\ Agree(q)
               /\ \A c \in Blocks, k \in Keys : contain(q, k, c) <=> contain(p, k, c)
               /\ \A v : Truthful(p, v) => Truthful(q, v)
<1> DEFINE ks == {FullKey(t, i, g) : i \in 1..n}
           e == Event("stored", ks, None)
           q == Emit(p, "stored", ks, None)
<1>1. ASSUME NEW i \in 1..n
      PROVE  /\ FullKey(t, i, g) \in Keys /\ FullKey(t, i, g).group = g
             /\ g \notin Sparse => HasBlock(p, FullKey(t, i, g))
  <2>1. i \in Nat \ {0} /\ i <= n /\ Len(t) \in Nat
    BY BlockPoolAssumption
  <2>2. i * block_size <= n * block_size
    BY <2>1, Monotone
  <2>3. i * block_size \in Nat /\ n * block_size \in Nat
    BY <2>1, Multiple
  <2>4. FullKey(t, i, g) \in Keys
    BY <2>1, <2>2, <2>3, FullKeyType
  <2>5. FullKey(t, i, g).group = g
    BY DEF FullKey, Key
  <2> QED BY <2>4, <2>5, OneBlock
<1>2. ks \in SUBSET Keys
  BY <1>1
<1>3. \A k \in ks : k.group \notin Sparse => HasBlock(p, k)
  BY <1>1
<1>4. /\ q \in PoolState /\ SameFree(p, q) /\ SameCache(p, q) /\ e \in PoolEvent
      /\ q.events = IF enable_kv_cache_events THEN Append(p.events, e) ELSE p.events
  <2> HIDE DEF ks
  <2> QED BY <1>2, EmitEffect
<1> HIDE DEF q
<1>5. Agree(q) /\ \A k \in Keys, c \in Blocks : contain(q, k, c) <=> contain(p, k, c)
  BY <1>4, AgreeEmitted
<1>6. \A k \in Keys : k.group \notin Sparse /\ Stores(e, k) => HasBlock(p, k)
  BY <1>3 DEF Stores, Event
<1> HIDE DEF e
<1>7. \A k \in Keys : (k.group \notin Sparse /\ Stores(e, k)) \/ (HasBlock(p, k) /\ ~Drops(e, k)) => HasBlock(q, k)
  BY <1>5, <1>6 DEF HasBlock
<1>8. \A v : Truthful(p, v) => Truthful(q, v)
  BY <1>4, <1>7, TruthfulTold
<1>9. CASE n = 0
  <2>1. emit_cached_block_events(p, t, n, g) = p
    BY <1>9 DEF emit_cached_block_events
  <2> QED BY <2>1 DEF SameFree
<1>10. CASE n # 0
  <2>1. emit_cached_block_events(p, t, n, g) = q
    BY <1>10 DEF emit_cached_block_events, q
  <2> QED BY <1>4, <1>5, <1>8, <2>1
<1> QED BY <1>9, <1>10

LEMMA TakeEffect ==
    ASSUME NEW p \in PoolState, Agree(p)
    PROVE  LET q == take_events(p)
           IN  /\ q \in PoolState /\ SameFree(p, q) /\ Agree(q)
               /\ \A c \in Blocks, k \in Keys : contain(q, k, c) <=> contain(p, k, c)
               /\ \A v : Truthful(p, v) => Truthful(q, Replay(v, p.events))
<1> DEFINE none == <<>>
           q == [p EXCEPT !.events = none]
<1>1. none \in Seq(PoolEvent)
  OBVIOUS
<1>2. q \in PoolState /\ q.events = none /\ SameFree(p, q) /\ SameCache(p, q)
  <2> HIDE DEF none
  <2> QED BY <1>1, EventFields
<1> HIDE DEF q
<1>3. Agree(q) /\ \A k \in Keys, c \in Blocks : contain(q, k, c) <=> contain(p, k, c)
  BY <1>2, AgreeEmitted
<1>4. ASSUME NEW v, Truthful(p, v)
      PROVE  Truthful(q, Replay(v, p.events))
  <2> DEFINE w == Replay(v, p.events)
  <2>1. w \subseteq Keys
    BY DEF Replay
  <2>2. Replay(w, <<>>) = w
    <3> HIDE DEF w
    <3> QED BY <2>1, ReplayNothing
  <2>3. ASSUME ~enable_kv_cache_events
        PROVE  w = {}
    <3>1. v = {} /\ p.events = <<>>
      BY <1>4, <2>3 DEF Truthful
    <3>2. Replay({}, <<>>) = {}
      BY ReplayNothing
    <3> QED BY <3>1, <3>2
  <2>4. \A k \in w : k.group \notin Sparse => HasBlock(q, k)
    <3>1. \A k \in w : k.group \notin Sparse => HasBlock(p, k)
      BY <1>4 DEF Truthful
    <3> HIDE DEF w
    <3> QED BY <1>3, <2>1, <3>1 DEF HasBlock
  <2> HIDE DEF w
  <2>5. Truthful(q, w)
    BY <1>2, <2>2, <2>3, <2>4 DEF Truthful
  <2> QED BY <2>5 DEF w
<1>5. take_events(p) = q
  BY DEF take_events, q
<1> QED BY <1>2, <1>3, <1>4, <1>5

----------------------------------------------------------------------------
(* The free list                                                            *)

(* The first n elements of a sequence without repetitions, and the rest     *)
LEMMA SplitFacts ==
    ASSUME NEW T, NEW s \in Seq(T), NEW n \in Nat, n <= Len(s), IsInjective(s)
    PROVE  LET a == SubSeq(s, 1, n)
               z == SubSeq(s, n + 1, Len(s))
           IN  /\ a \in Seq(T) /\ z \in Seq(T) /\ Len(a) = n /\ Len(z) = Len(s) - n
               /\ IsInjective(a) /\ IsInjective(z)
               /\ \A x : x \in ToSet(z) <=> x \in ToSet(s) /\ x \notin ToSet(a)
               /\ \A x : x \in ToSet(a) => x \in ToSet(s)
<1> DEFINE a == SubSeq(s, 1, n)
           z == SubSeq(s, n + 1, Len(s))
           l == Len(s)
<1>1. /\ l \in Nat /\ DOMAIN s = 1..l
      /\ a \in Seq(T) /\ Len(a) = n /\ DOMAIN a = 1..n /\ \A i \in 1..n : a[i] = s[i]
  OBVIOUS
<1>2. /\ z \in Seq(T) /\ Len(z) = l - n /\ DOMAIN z = 1..l-n /\ \A i \in 1..l-n : z[i] = s[n+i]
  OBVIOUS
<1> HIDE DEF a, z, l
<1>3. /\ \A i \in 1..n : i \in 1..l
      /\ \A i \in 1..l-n : n+i \in 1..l /\ n+i \notin 1..n
      /\ \A i \in 1..l : i \in 1..n \/ (i-n \in 1..l-n /\ n+(i-n) = i)
  BY <1>1 DEF l
<1>4. \A x : x \in ToSet(s) <=> \E i \in 1..l : x = s[i]
  BY <1>1 DEF ToSet
<1>5. \A x : x \in ToSet(a) <=> \E i \in 1..n : x = s[i]
  BY <1>1 DEF ToSet
<1>6. \A x : x \in ToSet(z) <=> \E i \in 1..l-n : x = s[n+i]
  BY <1>2 DEF ToSet
<1>7. \A i, j \in 1..l : s[i] = s[j] => i = j
  BY <1>1 DEF IsInjective
<1>8. IsInjective(a)
  BY <1>1, <1>3, <1>7 DEF IsInjective
<1>9. IsInjective(z)
  <2>1. ASSUME NEW i \in 1..l-n, NEW j \in 1..l-n, z[i] = z[j]
        PROVE  i = j
    <3>1. s[n+i] = s[n+j]
      BY <1>2, <2>1
    <3>2. n+i = n+j
      BY <1>3, <1>7, <3>1
    <3> QED BY <3>2
  <2> QED BY <1>2, <2>1 DEF IsInjective
<1>10. ASSUME NEW x, x \in ToSet(z)
       PROVE  x \in ToSet(s) /\ x \notin ToSet(a)
  <2>1. PICK i \in 1..l-n : x = s[n+i]
    BY <1>6, <1>10
  <2>2. n+i \in 1..l /\ n+i \notin 1..n
    BY <1>3
  <2>3. \A j \in 1..n : s[j] # x
    BY <1>3, <1>7, <2>1, <2>2
  <2> QED BY <1>4, <1>5, <2>1, <2>2, <2>3
<1>11. ASSUME NEW x, x \in ToSet(s), x \notin ToSet(a)
       PROVE  x \in ToSet(z)
  <2>1. PICK i \in 1..l : x = s[i]
    BY <1>4, <1>11
  <2>2. i \notin 1..n
    BY <1>5, <1>11, <2>1
  <2>3. i-n \in 1..l-n /\ n+(i-n) = i
    BY <1>3, <2>2
  <2> QED BY <1>6, <2>1, <2>3
<1>12. \A x : x \in ToSet(a) => x \in ToSet(s)
  BY <1>3, <1>4, <1>5
<1> QED BY <1>1, <1>2, <1>8, <1>9, <1>10, <1>11, <1>12 DEF a, z, l

(* The free list, element by element *)
LEMMA FreeListMeaning ==
    ASSUME NEW p \in PoolState
    PROVE  IsFreeListExact(p) <=> /\ IsInjective(p.free)
                                  /\ \A b \in Blocks : b \in ToSet(p.free) <=> b # null_block /\ p.ref[b] = 0
<1>1. p.free \in Seq(Blocks)
  BY PoolFields
<1>2. ToSet(p.free) \subseteq Blocks
  BY <1>1 DEF ToSet
<1> QED BY <1>2 DEF IsFreeListExact

LEMMA GetEffect ==
    ASSUME NEW p \in PoolState, NEW n \in Nat, Agree(p), IsFreeListExact(p), CanGet(p, n)
    PROVE  LET q == get_new_blocks(p, n)
               new == new_blocks(p, n)
           IN  /\ q \in PoolState /\ Agree(q) /\ IsFreeListExact(q)
               /\ new \in Seq(Blocks) /\ Len(new) = n /\ IsInjective(new)
               /\ \A b \in Blocks : b \in ToSet(new) => b # null_block /\ p.ref[b] = 0
               /\ \A b \in Blocks : q.ref[b] = IF b \in ToSet(new) THEN 1 ELSE p.ref[b]
               /\ Len(q.free) = Len(p.free) - n
               /\ \A c \in Blocks : IF c \in ToSet(new) THEN q.hash[c] = None /\ q.extra[c] = {}
                                    ELSE q.hash[c] = p.hash[c] /\ q.extra[c] = p.extra[c]
               /\ \A c \in Blocks, k \in Keys : contain(q, k, c) <=> contain(p, k, c) /\ c \notin ToSet(new)
               /\ \A v : Truthful(p, v) => Truthful(q, v)
<1> DEFINE new == new_blocks(p, n)
           u == Evicted(p, new)
           f == SubSeq(u.free, n + 1, Len(u.free))
           r == [b \in Blocks |-> IF b \in ToSet(new) THEN u.ref[b] + 1 ELSE u.ref[b]]
           q == [u EXCEPT !.ref = r, !.free = f]
           s == p.free
<1>1. s \in Seq(Blocks) /\ IsInjective(s) /\ n <= Len(s) /\ p.ref \in [Blocks -> Nat]
  BY PoolFields DEF IsFreeListExact, CanGet, get_num_free_blocks
<1> DEFINE a == SubSeq(s, 1, n)
           z == SubSeq(s, n + 1, Len(s))
<1>2. /\ a \in Seq(Blocks) /\ z \in Seq(Blocks) /\ Len(a) = n /\ Len(z) = Len(s) - n
      /\ IsInjective(a) /\ IsInjective(z)
      /\ \A x : x \in ToSet(z) <=> x \in ToSet(s) /\ x \notin ToSet(a)
      /\ \A x : x \in ToSet(a) => x \in ToSet(s)
  <2> HIDE DEF s
  <2> QED BY <1>1, SplitFacts
<1>3. new = a
  BY DEF new_blocks
<1>4. u \in PoolState /\ Agree(u) /\ Emptied(p, new, u) /\ \A v : Truthful(p, v) => Truthful(u, v)
  <2>1. new \in Seq(Blocks)
    BY <1>2, <1>3
  <2> HIDE DEF new
  <2> QED BY <2>1, EvictedEffect
<1>5. u.free = s /\ u.ref = p.ref
  BY <1>4 DEF Emptied, SameFree
<1>6. f = z
  BY <1>5
<1>7. r \in [Blocks -> Nat]
  <2> HIDE DEF new, u
  <2> QED BY <1>1, <1>5
<1>8. q \in PoolState /\ q.free = f /\ q.ref = r /\ q.events = u.events /\ SameCache(u, q)
  <2>1. f \in Seq(Blocks)
    BY <1>2, <1>6
  <2> HIDE DEF f, r, u
  <2> QED BY <1>4, <1>7, <2>1, FreeFields
<1>9. get_new_blocks(p, n) = q
  BY DEF get_new_blocks
<1> HIDE DEF q
<1>10. Agree(q) /\ \A k \in Keys, c \in Blocks : contain(q, k, c) <=> contain(u, k, c)
  <2> HIDE DEF u
  <2> QED BY <1>4, <1>8, AgreeEmitted
<1>11. \A v : Truthful(p, v) => Truthful(q, v)
  <2>1. \A k \in Keys : HasBlock(u, k) => HasBlock(q, k)
    <3> HIDE DEF u
    <3> QED BY <1>10 DEF HasBlock
  <2> HIDE DEF u
  <2> QED BY <1>4, <1>8, <2>1, TruthfulKept
<1>12. \A b \in Blocks : b \in ToSet(s) <=> b # null_block /\ p.ref[b] = 0
  BY FreeListMeaning
<1>13. \A b \in Blocks : b \in ToSet(new) => b # null_block /\ p.ref[b] = 0
  <2> HIDE DEF s, a, z, new
  <2> QED BY <1>2, <1>3, <1>12
<1>14. \A b \in Blocks : q.ref[b] = IF b \in ToSet(new) THEN 1 ELSE p.ref[b]
  <2>1. \A b \in Blocks : q.ref[b] = IF b \in ToSet(new) THEN p.ref[b] + 1 ELSE p.ref[b]
    <3> HIDE DEF new, u
    <3> QED BY <1>5, <1>8
  <2> HIDE DEF new
  <2> QED BY <1>13, <2>1
<1>15. IsFreeListExact(q)
  <2>1. ToSet(q.free) = ToSet(z) /\ IsInjective(q.free)
    <3> HIDE DEF z, f
    <3> QED BY <1>2, <1>6, <1>8
  <2>2. \A b \in Blocks : b \in ToSet(q.free) <=> b # null_block /\ q.ref[b] = 0
    <3> HIDE DEF s, a, z, new
    <3> QED BY <1>2, <1>3, <1>12, <1>14, <2>1
  <2> QED BY <1>8, <2>1, <2>2, FreeListMeaning
<1>16. \A c \in Blocks : IF c \in ToSet(new) THEN q.hash[c] = None /\ q.extra[c] = {}
                                    ELSE q.hash[c] = p.hash[c] /\ q.extra[c] = p.extra[c]
  <2> HIDE DEF new, u
  <2> QED BY <1>4, <1>8 DEF Emptied, SameCache
<1>17. \A c \in Blocks, k \in Keys : contain(q, k, c) <=> contain(p, k, c) /\ c \notin ToSet(new)
  <2> HIDE DEF new, u
  <2> QED BY <1>4, <1>10 DEF Emptied
<1>18. /\ new \in Seq(Blocks) /\ Len(new) = n /\ IsInjective(new) /\ Len(q.free) = Len(p.free) - n
  BY <1>2, <1>3, <1>6, <1>8
<1> HIDE DEF new
<1> QED BY <1>8, <1>9, <1>10, <1>11, <1>13, <1>14, <1>15, <1>16, <1>17, <1>18 DEF new

LEMMA GainsMeaning ==
    ASSUME NEW p \in PoolState, NEW blocks, blocks \in Seq(Blocks)
    PROVE  /\ Gains(p, blocks) \in [Blocks -> Nat]
           /\ \A b \in Blocks : Gains(p, blocks)[b] = 0 <=> p.ref[b] = 0 /\ (b = null_block \/ b \notin ToSet(blocks))
           /\ \A b \in Blocks : b = null_block \/ b \notin ToSet(blocks) => Gains(p, blocks)[b] = p.ref[b]
           /\ IsInjective(blocks) =>
                \A b \in Blocks : b # null_block /\ b \in ToSet(blocks) => Gains(p, blocks)[b] = p.ref[b] + 1
<1> DEFINE at(b) == {i \in DOMAIN blocks : blocks[i] = b}
           gain(b) == IF b = null_block THEN p.ref[b] ELSE p.ref[b] + Cardinality(at(b))
<1>1. p.ref \in [Blocks -> Nat]
  BY PoolFields
<1>2. ASSUME NEW b \in Blocks
      PROVE  /\ Cardinality(at(b)) \in Nat /\ (Cardinality(at(b)) = 0 <=> b \notin ToSet(blocks))
             /\ IsInjective(blocks) /\ b \in ToSet(blocks) => Cardinality(at(b)) = 1
  <2>1. IsFiniteSet(at(b))
    <3>1. IsFiniteSet(1..Len(blocks)) /\ DOMAIN blocks = 1..Len(blocks)
      BY FS_Interval
    <3>2. at(b) \subseteq 1..Len(blocks)
      BY <3>1
    <3> QED BY <3>1, <3>2, FS_Subset
  <2>2. at(b) = {} <=> b \notin ToSet(blocks)
    BY DEF ToSet
  <2>3. ASSUME IsInjective(blocks), b \in ToSet(blocks)
        PROVE  Cardinality(at(b)) = 1
    <3>1. PICK i \in DOMAIN blocks : blocks[i] = b
      BY <2>3 DEF ToSet
    <3>2. at(b) = {i}
      BY <2>3, <3>1 DEF IsInjective
    <3> QED BY <3>2, FS_Singleton
  <2>4. Cardinality(at(b)) \in Nat
    BY <2>1, FS_CardinalityType
  <2>5. Cardinality(at(b)) = 0 <=> at(b) = {}
    BY <2>1, FS_EmptySet
  <2> QED BY <2>2, <2>3, <2>4, <2>5
<1>3. \A b \in Blocks : Gains(p, blocks)[b] = gain(b)
  BY DEF Gains
<1>4. Gains(p, blocks) = [b \in Blocks |-> gain(b)]
  BY DEF Gains
<1>5. \A b \in Blocks : gain(b) \in Nat
  <2> HIDE DEF at
  <2> QED BY <1>1, <1>2
<1>6. Gains(p, blocks) \in [Blocks -> Nat]
  <2> HIDE DEF gain
  <2> QED BY <1>4, <1>5
<1> HIDE DEF at
<1> QED BY <1>1, <1>2, <1>3, <1>6

LEMMA TouchEffect ==
    ASSUME NEW p \in PoolState, NEW blocks, blocks \in Seq(Blocks), IsFreeListExact(p)
    PROVE  LET q == touch(p, blocks)
           IN  /\ q \in PoolState /\ SameCache(p, q) /\ q.events = p.events /\ IsFreeListExact(q)
               /\ q.ref = Gains(p, blocks)
<1> DEFINE kept == {b \in Blocks : p.ref[b] > 0 \/ b \notin ToSet(blocks)}
           s == p.free
           f == Filter(s, kept)
           r == Gains(p, blocks)
           q == [p EXCEPT !.ref = r, !.free = f]
<1>1. s \in Seq(Blocks) /\ IsInjective(s) /\ p.ref \in [Blocks -> Nat]
  BY PoolFields DEF IsFreeListExact
<1>2. /\ r \in [Blocks -> Nat]
      /\ \A b \in Blocks : r[b] = 0 <=> p.ref[b] = 0 /\ (b = null_block \/ b \notin ToSet(blocks))
  BY GainsMeaning
<1>3. f \in Seq(Blocks) /\ ToSet(f) = ToSet(s) \cap kept /\ IsInjective(f)
  <2>1. \A i, j \in DOMAIN s : s[i] = s[j] => i = j
    BY <1>1 DEF IsInjective
  <2> HIDE DEF s, kept
  <2> QED BY <1>1, <2>1, FilterProperties
<1>4. q \in PoolState /\ q.free = f /\ q.ref = r /\ q.events = p.events /\ SameCache(p, q)
  <2> HIDE DEF f, r
  <2> QED BY <1>2, <1>3, FreeFields
<1>5. touch(p, blocks) = q
  BY DEF touch
<1>6. \A b \in Blocks : b \in ToSet(s) <=> b # null_block /\ p.ref[b] = 0
  BY FreeListMeaning
<1>7. \A b \in Blocks : b \in kept <=> p.ref[b] # 0 \/ b \notin ToSet(blocks)
  BY <1>1
<1>8. \A b \in Blocks : b \in ToSet(f) <=> b # null_block /\ r[b] = 0
  <2> HIDE DEF s, kept, f, r
  <2> QED BY <1>2, <1>3, <1>6, <1>7
<1> HIDE DEF q, f, r
<1>9. IsFreeListExact(q)
  BY <1>3, <1>4, <1>8, FreeListMeaning
<1> QED BY <1>4, <1>5, <1>9 DEF r

(* The blocks that are given back hold a reference each, apart from null.   *)
MayFree(p, blocks) ==
    /\ blocks \in Seq(Blocks)
    /\ \A i \in DOMAIN blocks : blocks[i] # null_block => p.ref[blocks[i]] > 0
    /\ \A i, j \in DOMAIN blocks : blocks[i] = blocks[j] /\ blocks[i] # null_block => i = j

LEMMA FreeEffect ==
    ASSUME NEW p \in PoolState, NEW blocks, MayFree(p, blocks), IsFreeListExact(p)
    PROVE  LET q == free_blocks(p, blocks)
           IN  /\ q \in PoolState /\ SameCache(p, q) /\ q.events = p.events /\ IsFreeListExact(q)
               /\ \A b \in Blocks : q.ref[b] = IF b # null_block /\ b \in ToSet(blocks) THEN p.ref[b] - 1 ELSE p.ref[b]
               /\ Len(q.free) >= Len(p.free)
<1> DEFINE once == {b \in Blocks \ {null_block} : p.ref[b] = 1}
           bare == {b \in Blocks : p.hash[b] = None}
           hashed == {b \in Blocks : p.hash[b] # None}
           last == Filter(blocks, once)
           without_hash == Filter(last, bare)
           with_hash == Filter(last, hashed)
           s == p.free
           f1 == without_hash \o s
           f == f1 \o with_hash
           r == [b \in Blocks |-> IF b \in ToSet(blocks) \ {null_block} THEN p.ref[b] - 1 ELSE p.ref[b]]
           q == [p EXCEPT !.ref = r, !.free = f]
<1>1. s \in Seq(Blocks) /\ IsInjective(s) /\ p.ref \in [Blocks -> Nat]
  BY PoolFields DEF IsFreeListExact
<1>2. /\ last \in Seq(Blocks) /\ ToSet(last) = ToSet(blocks) \cap once /\ IsInjective(last)
  <2>1. \A i, j \in DOMAIN blocks : blocks[i] = blocks[j] /\ blocks[i] \in once => i = j
    BY DEF MayFree
  <2>2. blocks \in Seq(Blocks)
    BY DEF MayFree
  <2> HIDE DEF once
  <2> QED BY <2>1, <2>2, FilterProperties
<1>3. \A i, j \in DOMAIN last : last[i] = last[j] => i = j
  BY <1>2 DEF IsInjective
<1>4. without_hash \in Seq(Blocks) /\ ToSet(without_hash) = ToSet(last) \cap bare /\ IsInjective(without_hash)
  <2> HIDE DEF last, bare
  <2> QED BY <1>2, <1>3, FilterProperties
<1>5. with_hash \in Seq(Blocks) /\ ToSet(with_hash) = ToSet(last) \cap hashed /\ IsInjective(with_hash)
  <2> HIDE DEF last, hashed
  <2> QED BY <1>2, <1>3, FilterProperties
<1>6. \A b \in Blocks : b \in ToSet(s) <=> b # null_block /\ p.ref[b] = 0
  BY FreeListMeaning
<1>7. \A b \in Blocks : b \in ToSet(last) <=> b # null_block /\ p.ref[b] = 1 /\ b \in ToSet(blocks)
  <2>1. \A b \in Blocks : b \in once <=> b # null_block /\ p.ref[b] = 1
    OBVIOUS
  <2> HIDE DEF once, last
  <2> QED BY <1>2, <2>1
<1>8. ToSet(s) \subseteq Blocks /\ ToSet(last) \subseteq Blocks
  BY <1>1, <1>2 DEF ToSet
<1>9. \A x : x \in ToSet(without_hash) => x \notin ToSet(s)
  <2> HIDE DEF s, last, without_hash, bare
  <2> QED BY <1>4, <1>6, <1>7, <1>8
<1>10. /\ f1 \in Seq(Blocks) /\ Len(f1) = Len(without_hash) + Len(s)
       /\ ToSet(f1) = ToSet(without_hash) \cup ToSet(s) /\ IsInjective(f1)
  <2>1. without_hash \in Seq(Blocks) /\ s \in Seq(Blocks) /\ IsInjective(without_hash) /\ IsInjective(s)
    BY <1>1, <1>4
  <2> HIDE DEF s, without_hash
  <2> QED BY <1>9, <2>1, ConcatFacts
<1>11. \A x : x \in ToSet(f1) => x \notin ToSet(with_hash)
  <2>1. \A b \in Blocks : b \in hashed => b \notin bare
    OBVIOUS
  <2> HIDE DEF s, last, without_hash, with_hash, f1, bare, hashed
  <2> QED BY <1>4, <1>5, <1>6, <1>7, <1>8, <1>10, <2>1
<1>12. /\ f \in Seq(Blocks) /\ Len(f) = Len(f1) + Len(with_hash)
       /\ ToSet(f) = ToSet(f1) \cup ToSet(with_hash) /\ IsInjective(f)
  <2>1. f1 \in Seq(Blocks) /\ with_hash \in Seq(Blocks) /\ IsInjective(f1) /\ IsInjective(with_hash)
    BY <1>5, <1>10
  <2> HIDE DEF f1, with_hash
  <2> QED BY <1>11, <2>1, ConcatFacts
<1>13. \A b \in Blocks : b \in ToSet(f) <=> b \in ToSet(s) \/ b \in ToSet(last)
  <2>1. \A b \in Blocks : b \in hashed \/ b \in bare
    OBVIOUS
  <2> HIDE DEF s, last, without_hash, with_hash, f1, f, bare, hashed
  <2> QED BY <1>4, <1>5, <1>10, <1>12, <2>1
<1>14. Len(f) >= Len(s)
  <2>1. Len(without_hash) \in Nat /\ Len(with_hash) \in Nat /\ Len(s) \in Nat
    BY <1>1, <1>4, <1>5
  <2> HIDE DEF s, last, without_hash, with_hash, f1, f
  <2> QED BY <1>10, <1>12, <2>1
<1>15. \A b \in Blocks : b \in ToSet(blocks) /\ b # null_block => p.ref[b] > 0
  BY DEF MayFree, ToSet
<1>16. r \in [Blocks -> Nat] /\ \A b \in Blocks : r[b] = 0 <=> p.ref[b] = 0 \/ (b # null_block /\ b \in ToSet(blocks) /\ p.ref[b] = 1)
  <2>1. \A b \in Blocks : p.ref[b] \in Nat
    BY <1>1
  <2> QED BY <1>15, <2>1
<1>17. free_blocks(p, blocks) = q
  BY DEF free_blocks
<1>18. q \in PoolState /\ q.free = f /\ q.ref = r /\ q.events = p.events /\ SameCache(p, q)
  <2> HIDE DEF f, r
  <2> QED BY <1>12, <1>16, FreeFields
<1>19. \A b \in Blocks : b \in ToSet(f) <=> b # null_block /\ r[b] = 0
  <2> HIDE DEF s, last, f, r
  <2> QED BY <1>6, <1>7, <1>13, <1>16
<1>20. \A b \in Blocks : q.ref[b] = IF b # null_block /\ b \in ToSet(blocks) THEN p.ref[b] - 1 ELSE p.ref[b]
  <2> HIDE DEF q
  <2> QED BY <1>18
<1> HIDE DEF q, f, r, s
<1>21. IsFreeListExact(q)
  BY <1>12, <1>18, <1>19, FreeListMeaning
<1> QED BY <1>14, <1>17, <1>18, <1>20, <1>21 DEF s

----------------------------------------------------------------------------
(* Prefixes, slots and the sequence of a set                                *)

(* The sequence of the elements of a finite set                             *)
LEMMA SetToSeqFacts ==
    ASSUME NEW T, NEW S, IsFiniteSet(S), S \subseteq T
    PROVE  /\ SetToSeq(S) \in Seq(T) /\ IsInjective(SetToSeq(S))
           /\ \A x : x \in ToSet(SetToSeq(S)) => x \in S
<1> DEFINE n == Cardinality(S)
           f == SetToSeq(S)
<1>1. n \in Nat /\ ExistsBijection(1..n, S)
  BY FS_CardinalityType
<1>2. \E g \in [1..n -> S] : IsInjective(g)
  BY <1>1 DEF ExistsBijection, Bijection, Injection
<1>3. f \in [1..n -> S] /\ IsInjective(f)
  BY <1>2 DEF SetToSeq
<1> HIDE DEF f, n
<1>4. f \in [1..n -> T]
  BY <1>3
<1>5. f \in Seq(T) /\ DOMAIN f = 1..n
  BY <1>1, <1>4
<1>6. \A x : x \in ToSet(f) => x \in S
  BY <1>3, <1>5 DEF ToSet
<1> QED BY <1>3, <1>5, <1>6 DEF f

LEMMA FiniteBlocks == IsFiniteSet(Blocks) /\ \A S : S \subseteq Blocks => IsFiniteSet(S)
<1>1. IsFiniteSet(Blocks)
  <2>1. num_gpu_blocks - 1 \in Int
    BY BlockPoolAssumption
  <2> QED BY <2>1, FS_Interval DEF Blocks
<1> QED BY <1>1, FS_Subset

LEMMA PrefixMeaning ==
    ASSUME NEW s \in Seq(Nat), NEW t \in Seq(Nat)
    PROVE  IsPrefix(s, t) <=> Len(s) <= Len(t) /\ \A i \in 1..Len(s) : s[i] = t[i]
<1> DEFINE n == Len(s)
           a == SubSeq(s, 1, n)
           b == SubSeq(t, 1, n)
<1>1. n \in Nat /\ Len(t) \in Nat
  OBVIOUS
<1>2. CASE n <= Len(t)
  <2>0. a \in Seq(Nat) /\ Len(a) = n /\ \A i \in 1..n : a[i] = s[i]
    BY <1>1
  <2>1. /\ a \in Seq(Nat) /\ Len(a) = n /\ \A i \in 1..n : a[i] = s[i]
        /\ b \in Seq(Nat) /\ Len(b) = n /\ \A i \in 1..n : b[i] = t[i]
    <3> HIDE DEF a, n
    <3>1. b \in Seq(Nat) /\ Len(b) = n /\ \A i \in 1..n : b[i] = t[i]
      BY <1>1, <1>2
    <3> QED BY <2>0, <3>1
  <2> HIDE DEF a, b, n
  <2>2. ASSUME \A i \in 1..n : s[i] = t[i]
        PROVE  a = b
    <3>1. \A i \in 1..n : a[i] = b[i]
      BY <2>1, <2>2, Zenon
    <3>2. a \in Seq(Nat) /\ b \in Seq(Nat) /\ Len(a) = n /\ Len(b) = n
      BY <2>1
    <3>3. \A i \in 1..Len(a) : a[i] = b[i]
      BY <3>1, <3>2, Zenon
    <3> QED BY <3>2, <3>3
  <2>3. a = b => \A i \in 1..n : s[i] = t[i]
    BY <2>1
  <2>4. IsPrefix(s, t) <=> n <= Len(t) /\ a = b
    BY DEF IsPrefix, n, a, b
  <2> QED BY <1>2, <2>2, <2>3, <2>4 DEF n
<1>3. CASE ~(n <= Len(t))
  BY <1>3 DEF IsPrefix
<1> QED BY <1>2, <1>3

LEMMA HashFacts ==
    ASSUME NEW t \in Tokens, NEW n \in Nat, n <= Len(t)
    PROVE  Hash(t, n) \in Seq(Nat) /\ Len(Hash(t, n)) = n /\ \A i \in 1..n : Hash(t, n)[i] = t[i]
<1>1. t \in Seq(Nat)
  BY BlockPoolAssumption
<1> QED BY <1>1 DEF Hash

LEMMA KeyFacts ==
    ASSUME NEW k \in Keys
    PROVE  k.hash \in Seq(Nat) /\ NumTokens(k) \in Nat \ {0} /\ k.group \in Groups /\ NumTokens(k) = Len(k.hash)
<1>0. PICK t \in Tokens : \E i \in 1..(Len(t) \div hash_block_size), g \in Groups : k = Key(Hash(t, i * hash_block_size), g)
  BY DEF Keys
<1>1. PICK i \in 1..(Len(t) \div hash_block_size), g \in Groups : k = Key(Hash(t, i * hash_block_size), g)
  BY <1>0
<1> DEFINE h == hash_block_size
           l == Len(t)
           n == i * h
<1>2. h \in Nat \ {0} /\ l \in Nat /\ t \in Seq(Nat)
  BY BlockPoolAssumption
<1>3. i \in Nat /\ i <= l \div h /\ i # 0
  <2>1. l \div h \in Nat
    BY <1>2
  <2> QED BY <2>1
<1>4. n \in Nat \ {0} /\ n <= l
  <2> DEFINE q == l \div h
  <2>1. q \in Nat /\ l = q * h + (l % h) /\ l % h \in 0..h-1
    BY <1>2
  <2>2. (q - i) * h \in Nat /\ q * h = i * h + (q - i) * h /\ i * h \in Nat /\ i * h # 0 /\ q * h \in Nat
    <3>1. q - i \in Nat
      BY <1>3, <2>1
    <3> HIDE DEF q, h
    <3> QED BY <1>2, <1>3, <2>1, <3>1
  <2>3. n \in Nat /\ n # 0
    BY <2>2
  <2>4. n <= q * h
    <3> HIDE DEF q, h
    <3> QED BY <2>2
  <2>5. q * h <= l
    <3> HIDE DEF q, h, l, n
    <3> QED BY <1>2, <2>1, <2>2
  <2>6. n \in Nat /\ q * h \in Nat /\ l \in Nat
    BY <1>2, <2>2
  <2> HIDE DEF q, h, l, n
  <2> QED BY <2>3, <2>4, <2>5, <2>6
<1>5. Hash(t, n) \in Seq(Nat) /\ Len(Hash(t, n)) = n
  <2> HIDE DEF n
  <2> QED BY <1>4, HashFacts
<1>6. k.hash = Hash(t, n) /\ k.group = g
  BY <1>1 DEF Key
<1> HIDE DEF n
<1> QED BY <1>4, <1>5, <1>6 DEF NumTokens

LEMMA DivisionIs ==
    ASSUME NEW d \in Nat \ {0}, NEW q \in Nat, NEW r \in 0..d-1
    PROVE  (q * d + r) \div d = q
OBVIOUS

LEMMA SlotFacts ==
    /\ \A i \in Nat : Slot(i * block_size) = i
    /\ \A n \in Nat : Slot(n) \in Nat /\ n <= Slot(n) * block_size
<1> DEFINE d == block_size
<1>1. d \in Nat \ {0}
  BY BlockPoolAssumption
<1>2. ASSUME NEW i \in Nat
      PROVE  Slot(i * block_size) = i
  <2> DEFINE r == d - 1
  <2>1. r \in 0..d-1
    BY <1>1
  <2>2. (i * d + r) \div d = i
    <3> HIDE DEF d, r
    <3> QED BY <1>1, <2>1, DivisionIs
  <2>3. i * d + r = i * d + d - 1
    <3>1. i * d \in Nat
      BY <1>1
    <3> QED BY <1>1, <3>1
  <2> QED BY <2>2, <2>3 DEF Slot
<1>3. ASSUME NEW n \in Nat
      PROVE  Slot(n) \in Nat /\ n <= Slot(n) * block_size
  <2> DEFINE m == n + d - 1
             q == m \div d
  <2>1. m \in Nat
    BY <1>1
  <2>2. q \in Nat /\ m = q * d + (m % d) /\ m % d \in 0..d-1
    <3> HIDE DEF m, d
    <3> QED BY <1>1, <2>1
  <2>3. q * d \in Nat
    <3> HIDE DEF q, d
    <3> QED BY <1>1, <2>2
  <2>4. n <= q * d
    <3> HIDE DEF q
    <3> QED BY <1>1, <2>2, <2>3
  <2> QED BY <2>2, <2>4 DEF Slot
<1> QED BY <1>2, <1>3
(* The pool at the start                                                    *)
LEMMA NewPoolFacts ==
    /\ NewPool \in PoolState /\ IsFreeListExact(NewPool) /\ Agree(NewPool) /\ NewPool.events = <<>>
    /\ Len(NewPool.free) = num_gpu_blocks - 1
    /\ \A b \in Blocks : NewPool.ref[b] = 0 /\ NewPool.hash[b] = None /\ NewPool.extra[b] = {}
    /\ \A k \in Keys, b \in Blocks : ~contain(NewPool, k, b)
<1> DEFINE N == num_gpu_blocks
           f == [i \in 1..N-1 |-> i]
           p == NewPool
<1>1. N \in Nat \ {0}
  BY BlockPoolAssumption
<1>2. f \in [1..N-1 -> Blocks]
  BY <1>1 DEF Blocks
<1>3. f \in Seq(Blocks) /\ Len(f) = N - 1
  <2>1. N - 1 \in Nat /\ DOMAIN f = 1..N-1
    BY <1>1
  <2> HIDE DEF f
  <2> QED BY <1>2, <2>1
<1>4. p \in PoolState
  <2>1. [k \in Keys |-> <<>>] \in [Keys -> Seq(Blocks)] /\ <<>> \in Seq(PoolEvent)
    OBVIOUS
  <2>2. [b \in Blocks |-> 0] \in [Blocks -> Nat] /\ [b \in Blocks |-> None] \in [Blocks -> Keys \cup {None}]
    OBVIOUS
  <2>3. [b \in Blocks |-> {}] \in [Blocks -> SUBSET Keys]
    OBVIOUS
  <2> HIDE DEF f
  <2> QED BY <1>3, <2>1, <2>2, <2>3 DEF NewPool, PoolState, f
<1>5. p.free = f /\ \A b \in Blocks : p.ref[b] = 0 /\ p.hash[b] = None /\ p.extra[b] = {}
  BY DEF NewPool
<1>6. p.events = <<>> /\ \A k \in Keys : p.map[k] = <<>>
  BY DEF NewPool
<1> HIDE DEF p
<1>7. IsFreeListExact(p)
  <2>1. IsInjective(f) /\ \A b \in Blocks : b \in ToSet(f) <=> b # null_block
    BY <1>1 DEF IsInjective, ToSet, Blocks, null_block
  <2> HIDE DEF f
  <2> QED BY <1>4, <1>5, <2>1, FreeListMeaning
<1>8. \A k \in Keys, b \in Blocks : ~contain(p, k, b) /\ OwnKeys(p, b) = {}
  BY <1>5, <1>6 DEF contain, ToSet, OwnKeys
<1>9. Agree(p)
  BY <1>5, <1>6, <1>8 DEF Agree, IsInjective
<1> HIDE DEF f
<1> QED BY <1>3, <1>4, <1>5, <1>6, <1>7, <1>8, <1>9 DEF p
=============================================================================
