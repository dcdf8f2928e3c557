-------------------------- MODULE KVCacheUtils_proof --------------------------
(***************************************************************************)
(* Proofs about the two halves of vllm_v1_core_kv_cache_utils.py.          *)
(* First the prefix-cache hashes, for every set of requests, every block   *)
(* size, prompts of any length with any number of images, and any sampled  *)
(* tokens.  Then the plan of get_kv_cache_configs, for any number of       *)
(* workers with any layers, and any memory and settings.                   *)
(***************************************************************************)
EXTENDS BlockHashes, KVCacheConfig, TLAPS, WellFoundedInduction, SequenceTheorems, FiniteSetTheorems

----------------------------------------------------------------------------
(* Recursive functions *)

LEMMA BoundedInduction ==
    ASSUME NEW n \in Nat, NEW S, 0 \in S, \A i \in 1..n : i - 1 \in S => i \in S
    PROVE  0..n \subseteq S
<1> DEFINE Bad == (0..n) \ S
<1>1. SUFFICES ASSUME Bad # {} PROVE FALSE
  OBVIOUS
<1>2. Bad \subseteq Nat
  OBVIOUS
<1>3. PICK i \in Bad : \A j \in Bad : ~ (<<j, i>> \in OpToRel(<, Nat))
  BY <1>1, <1>2, WFMin, NatLessThanWellFounded
<1>4. \A j \in Bad : ~ (j < i)
  BY <1>2, <1>3 DEF OpToRel
<1>5. i # 0 /\ i - 1 \in 0..n /\ i - 1 \in S
  BY <1>4
<1> QED BY <1>5

(* f holds what n steps lead to from t0. *)
Walks(f, T, t0, n, step) == f \in [0..n -> T] /\ f[0] = t0 /\ \A i \in 1..n : f[i] = step[i][f[i-1]]

LEMMA StepFunction ==
    ASSUME NEW T, NEW t0 \in T, NEW n \in Nat, NEW step \in [1..n -> [T -> T]]
    PROVE  \E f : Walks(f, T, t0, n, step)
<1> DEFINE Reached(k) == \E f \in [0..k -> T] : f = [i \in 0..k |-> IF i = 0 THEN t0 ELSE step[i][f[i-1]]]
           S == {k \in 0..n : Reached(k)}
<1>1. Reached(0)
  <2>1. [i \in 0..0 |-> t0] \in [0..0 -> T]
    OBVIOUS
  <2> DEFINE f == [i \in 0..0 |-> t0]
  <2>2. f = [i \in 0..0 |-> IF i = 0 THEN t0 ELSE step[i][f[i-1]]]
    OBVIOUS
  <2> QED BY <2>1, <2>2
<1>2. ASSUME NEW k \in 1..n, k - 1 \in S
      PROVE  k \in S
  <2>1. PICK f \in [0..k-1 -> T] : f = [i \in 0..k-1 |-> IF i = 0 THEN t0 ELSE step[i][f[i-1]]]
    BY <1>2
  <2> DEFINE g == [i \in 0..k |-> IF i = k THEN step[k][f[k-1]] ELSE f[i]]
  <2>2. g \in [0..k -> T]
    <3>1. k - 1 \in 0..k-1 /\ f[k-1] \in T /\ step[k][f[k-1]] \in T
      BY <1>2, <2>1
    <3>2. ASSUME NEW i \in 0..k, i # k PROVE f[i] \in T
      BY <3>2, <2>1
    <3> QED BY <3>1, <3>2
  <2>3. ASSUME NEW i \in 0..k
        PROVE  g[i] = IF i = 0 THEN t0 ELSE step[i][g[i-1]]
    <3>1. CASE i = k
      <4>1. k # 0 /\ k - 1 \in 0..k /\ k - 1 # k
        BY <1>2
      <4>2. g[k-1] = f[k-1] /\ g[k] = step[k][f[k-1]]
        BY <4>1
      <4> QED BY <3>1, <4>1, <4>2
    <3>2. CASE i # k
      <4>1. i \in 0..k-1
        BY <3>2
      <4>2. f[i] = IF i = 0 THEN t0 ELSE step[i][f[i-1]]
        BY <2>1, <4>1
      <4> QED BY <4>1, <4>2, <3>2
    <3> QED BY <3>1, <3>2
  <2>4. g = [i \in 0..k |-> IF i = 0 THEN t0 ELSE step[i][g[i-1]]]
    BY <2>3
  <2>5. Reached(k)
    BY <2>2, <2>4
  <2>6. k \in 0..n
    OBVIOUS
  <2> HIDE DEF Reached
  <2> QED BY <2>5, <2>6
<1>3. 0..n \subseteq S
  <2>1. 0 \in S
    BY <1>1
  <2> HIDE DEF S
  <2> QED BY <1>2, <2>1, BoundedInduction
<1>4. PICK f \in [0..n -> T] : f = [i \in 0..n |-> IF i = 0 THEN t0 ELSE step[i][f[i-1]]]
  BY <1>3
<1>5. f[0] = t0 /\ \A i \in 1..n : f[i] = step[i][f[i-1]]
  <2>1. 0 \in 0..n /\ \A i \in 1..n : i \in 0..n /\ i # 0
    OBVIOUS
  <2> QED BY <1>4, <2>1
<1> QED BY <1>5 DEF Walks

----------------------------------------------------------------------------
(* The scan of _gen_mm_extra_hash_keys *)

MMKey == Identifiers \X Int
Scanned == [keys : Seq(MMKey), idx : Nat]
Nothing(i) == [keys |-> <<>>, idx |-> i]

(* What the scan gives from feature i on, when it gives rest from the next. *)
ScanStep(fs, start, end, i, rest) ==
    IF i > Len(fs) \/ end <= fs[i].offset THEN [keys |-> <<>>, idx |-> i]
    ELSE IF start >= End(fs[i]) THEN rest
    ELSE LET key == << <<fs[i].identifier, fs[i].offset - start>> >>
         IN  IF end >= End(fs[i]) THEN [keys |-> key \o rest.keys, idx |-> rest.idx]
             ELSE [keys |-> key, idx |-> i]

Scans(g, fs, start, end) ==
    /\ g \in [1..Len(fs)+1 -> Scanned] /\ g[Len(fs)+1] = Nothing(Len(fs)+1)
    /\ \A i \in 1..Len(fs) : g[i] = ScanStep(fs, start, end, i, g[i+1])

(* MMKeys is the scan, from the feature asked for. *)
IsScan(g, fs, start, end) ==
    /\ Scans(g, fs, start, end)
    /\ \A from \in Int :
         MMKeys(fs, start, end, from) =
             IF fs = <<>> THEN Nothing(from)
             ELSE IF End(fs[Len(fs)]) <= start THEN Nothing(from)
             ELSE g[Position(fs, from)]

LEMMA FeatureTypes ==
    ASSUME NEW fs \in Seq(MMFeature), NEW i \in 1..Len(fs)
    PROVE  /\ fs[i].identifier \in Identifiers /\ fs[i].offset \in Nat /\ fs[i].length \in Nat \ {0}
           /\ End(fs[i]) \in Nat /\ fs[i].offset < End(fs[i])
<1>1. fs[i] \in MMFeature
  OBVIOUS
<1> QED BY <1>1 DEF MMFeature, End

LEMMA ScanStepTypes ==
    ASSUME NEW fs \in Seq(MMFeature), NEW start \in Int, NEW end \in Int, NEW i \in 1..Len(fs)+1, NEW rest \in Scanned
    PROVE  ScanStep(fs, start, end, i, rest) \in Scanned
<1>1. CASE i > Len(fs) \/ end <= fs[i].offset
  BY <1>1 DEF ScanStep, Scanned
<1>2. CASE ~(i > Len(fs) \/ end <= fs[i].offset)
  <2> DEFINE key == <<fs[i].identifier, fs[i].offset - start>>
  <2>0. i \in Nat /\ i \in 1..Len(fs)
    BY <1>2
  <2>1. key \in MMKey
    BY <2>0, FeatureTypes DEF MMKey
  <2>2. <<key>> \in Seq(MMKey) /\ rest.keys \in Seq(MMKey) /\ rest.idx \in Nat
    BY <2>1 DEF Scanned
  <2>3. <<key>> \o rest.keys \in Seq(MMKey)
    BY <2>2, ConcatProperties
  <2>4. [keys |-> <<key>>, idx |-> i] \in Scanned /\ [keys |-> <<key>> \o rest.keys, idx |-> rest.idx] \in Scanned
    BY <2>0, <2>2, <2>3 DEF Scanned
  <2>5. ScanStep(fs, start, end, i, rest) \in {rest, [keys |-> <<key>> \o rest.keys, idx |-> rest.idx], [keys |-> <<key>>, idx |-> i]}
    BY <1>2 DEF ScanStep
  <2> HIDE DEF key
  <2> QED BY <2>4, <2>5
<1> QED BY <1>1, <1>2

LEMMA ScanExists ==
    ASSUME NEW fs \in Seq(MMFeature), NEW start \in Int, NEW end \in Int
    PROVE  \E g : IsScan(g, fs, start, end)
<1> DEFINE n == Len(fs)
           t0 == Nothing(n + 1)
           step == [k \in 1..n |-> [rest \in Scanned |-> ScanStep(fs, start, end, n + 1 - k, rest)]]
           Is(Scan) == Scan = [i \in 1..Len(fs)+1 |->
                IF i > Len(fs) \/ end <= fs[i].offset THEN [keys |-> <<>>, idx |-> i]
                ELSE IF start >= End(fs[i]) THEN Scan[i + 1]
                ELSE LET key == << <<fs[i].identifier, fs[i].offset - start>> >>
                     IN  IF end >= End(fs[i])
                         THEN [keys |-> key \o Scan[i + 1].keys, idx |-> Scan[i + 1].idx]
                         ELSE [keys |-> key, idx |-> i]]
           Follows(h) == h = [i \in 1..n+1 |-> ScanStep(fs, start, end, i, h[i+1])]
<1>1. n \in Nat /\ t0 \in Scanned
  BY DEF Scanned, Nothing
<1>2. step \in [1..n -> [Scanned -> Scanned]]
  <2>1. ASSUME NEW k \in 1..n, NEW rest \in Scanned PROVE ScanStep(fs, start, end, n + 1 - k, rest) \in Scanned
    <3>1. n + 1 - k \in 1..Len(fs)+1
      BY <1>1
    <3> QED BY <3>1, ScanStepTypes
  <2> HIDE DEF n
  <2> QED BY <2>1
<1>3. PICK f : f \in [0..n -> Scanned] /\ f[0] = t0 /\ \A k \in 1..n : f[k] = step[k][f[k-1]]
  <2> HIDE DEF n, t0, step
  <2>1. \E f : Walks(f, Scanned, t0, n, step)
    BY <1>1, <1>2, StepFunction, Zenon
  <2> QED BY <2>1 DEF Walks
<1>4. \A h : Is(h) <=> Follows(h)
  BY DEF ScanStep
<1>5. \E h : Is(h)
  <2> DEFINE h == [i \in 1..n+1 |-> f[n + 1 - i]]
  <2>1. \A i \in 1..n+1 : ScanStep(fs, start, end, i, h[i+1]) = h[i]
    <3> SUFFICES ASSUME NEW i \in 1..n+1 PROVE ScanStep(fs, start, end, i, h[i+1]) = h[i]
      OBVIOUS
    <3>1. CASE i = n + 1
      <4>1. h[i] = f[0]
        BY <1>1, <3>1
      <4>2. i > Len(fs)
        BY <1>1, <3>1
      <4> HIDE DEF h
      <4> QED BY <1>3, <4>1, <4>2, <3>1 DEF ScanStep, Nothing
    <3>2. CASE i # n + 1
      <4> DEFINE k == n + 1 - i
      <4>1. k \in 1..n /\ n + 1 - k = i /\ i + 1 \in 1..n+1 /\ n + 1 - (i + 1) = k - 1 /\ k - 1 \in 0..n
        BY <1>1, <3>2
      <4>2. h[i] = f[k] /\ h[i+1] = f[k-1]
        BY <4>1
      <4>3. f[k-1] \in Scanned
        <5> HIDE DEF n, k
        <5> QED BY <1>3, <4>1
      <4>4. f[k] = step[k][f[k-1]]
        <5> HIDE DEF n, k, step
        <5> QED BY <1>3, <4>1
      <4> HIDE DEF h, k
      <4>5. step[k][f[k-1]] = ScanStep(fs, start, end, i, f[k-1])
        BY <4>1, <4>3
      <4> QED BY <4>2, <4>4, <4>5
    <3> QED BY <3>1, <3>2
  <2>2. h = [i \in 1..n+1 |-> h[i]]
    OBVIOUS
  <2>3. Follows(h)
    <3> HIDE DEF h
    <3> QED BY <2>1, <2>2
  <2> HIDE DEF Is, Follows, h
  <2> QED BY <1>4, <2>3
<1>6. PICK g : g = CHOOSE h : Is(h)
  OBVIOUS
<1>7. Is(g)
  <2> HIDE DEF Is
  <2> QED BY <1>5, <1>6
<1>8. Follows(g)
  <2> HIDE DEF Is, Follows
  <2> QED BY <1>4, <1>7
<1>9. g[n+1] = t0 /\ \A i \in 1..n : g[i] = ScanStep(fs, start, end, i, g[i+1])
  <2>1. n + 1 \in 1..n+1 /\ n + 1 > Len(fs) /\ \A i \in 1..n : i \in 1..n+1
    BY <1>1
  <2>2. \A i \in 1..n+1 : g[i] = ScanStep(fs, start, end, i, g[i+1])
    <3> HIDE DEF n
    <3> QED BY <1>8
  <2>3. g[n+1] = t0
    BY <2>1, <2>2 DEF ScanStep, Nothing
  <2> HIDE DEF n
  <2> QED BY <2>1, <2>2, <2>3
<1>10. g \in [1..n+1 -> Scanned]
  <2> DEFINE Good == {k \in 0..n : g[n + 1 - k] \in Scanned}
  <2>1. 0 \in Good
    BY <1>1, <1>9
  <2>2. ASSUME NEW k \in 1..n, k - 1 \in Good PROVE k \in Good
    <3> DEFINE i == n + 1 - k
    <3>1. i \in 1..n /\ i \in 1..Len(fs)+1 /\ i + 1 = n + 1 - (k - 1) /\ k \in 0..n
      BY <1>1
    <3>2. g[i+1] \in Scanned
      BY <2>2, <3>1
    <3>3. g[i] = ScanStep(fs, start, end, i, g[i+1])
      <4> HIDE DEF i, n
      <4> QED BY <1>9, <3>1
    <3>4. ScanStep(fs, start, end, i, g[i+1]) \in Scanned
      <4> HIDE DEF i, n
      <4> QED BY <3>1, <3>2, ScanStepTypes
    <3> QED BY <3>1, <3>3, <3>4
  <2>3. 0..n \subseteq Good
    <3> HIDE DEF Good
    <3> QED BY <1>1, <2>1, <2>2, BoundedInduction
  <2>4. \A i \in 1..n+1 : n + 1 - i \in 0..n /\ n + 1 - (n + 1 - i) = i
    BY <1>1
  <2>5. \A i \in 1..n+1 : g[i] \in Scanned
    BY <2>3, <2>4
  <2>6. g = [i \in 1..n+1 |-> g[i]]
    <3>1. \E S : \E h : g = [i \in 1..n+1 |-> ScanStep(fs, start, end, i, g[i+1])]
      BY <1>8
    <3> HIDE DEF n
    <3> QED BY <3>1
  <2> HIDE DEF n
  <2> QED BY <2>5, <2>6
<1>11. Scans(g, fs, start, end)
  BY <1>9, <1>10 DEF Scans
<1>12. ASSUME NEW from \in Int
       PROVE  MMKeys(fs, start, end, from) =
                 IF fs = <<>> THEN Nothing(from)
                 ELSE IF End(fs[Len(fs)]) <= start THEN Nothing(from)
                 ELSE g[Position(fs, from)]
  BY <1>6 DEF MMKeys, Nothing
<1> QED BY <1>11, <1>12 DEF IsScan

(* The images are in the order of their places. *)
Sorted(fs) == \A i, j \in 1..Len(fs) : i < j => End(fs[i]) <= fs[j].offset

LEMMA InputsAreSorted ==
    ASSUME NEW q \in Inputs
    PROVE  q.mm_features \in Seq(MMFeature) /\ Sorted(q.mm_features)
<1> DEFINE fs == q.mm_features
           n == Len(fs)
<1>1. fs \in Seq(MMFeature) /\ n \in Nat
  BY BlockHashesAssumption DEF Input
<1>2. \A j \in 1..n-1 : End(fs[j]) <= fs[j + 1].offset
  BY BlockHashesAssumption
<1>3. ASSUME NEW i \in 1..n
      PROVE  \A j \in 1..n : i < j => End(fs[i]) <= fs[j].offset
  <2> DEFINE Good == {k \in 0..n : i < k => End(fs[i]) <= fs[k].offset}
  <2>1. 0 \in Good
    BY <1>1
  <2>2. ASSUME NEW k \in 1..n, k - 1 \in Good PROVE k \in Good
    <3> SUFFICES ASSUME i < k PROVE End(fs[i]) <= fs[k].offset
      BY <1>1
    <3>1. k - 1 \in 1..n-1 /\ k - 1 \in 1..n /\ (k - 1) + 1 = k
      BY <1>1
    <3>2. End(fs[k-1]) <= fs[k].offset
      BY <1>2, <3>1
    <3>3. CASE i = k - 1
      BY <3>2, <3>3
    <3>4. CASE i < k - 1
      <4>1. End(fs[i]) <= fs[k-1].offset
        BY <2>2, <3>4
      <4>2. End(fs[i]) \in Nat /\ fs[k-1].offset \in Nat /\ End(fs[k-1]) \in Nat /\ fs[k].offset \in Nat
            /\ fs[k-1].offset < End(fs[k-1])
        <5> HIDE DEF n, fs
        <5> QED BY <1>1, <3>1, FeatureTypes DEF n
      <4> HIDE DEF fs, n
      <4> QED BY <3>2, <4>1, <4>2
    <3> QED BY <3>1, <3>3, <3>4
  <2>3. 0..n \subseteq Good
    <3> HIDE DEF Good
    <3> QED BY <1>1, <2>1, <2>2, BoundedInduction
  <2> QED BY <1>1, <2>3
<1> QED BY <1>1, <1>3 DEF Sorted

(* What the scan leaves to the next block is behind all it has passed. *)
Behind(fs, end, i, k) == k \in i..Len(fs)+1 /\ \A j \in 1..k-1 : i <= j => End(fs[j]) <= end

(* The images from i on that have a token in the block. *)
Inside(fs, start, end, i) == {j \in 1..Len(fs) : i <= j /\ fs[j].offset < end /\ start < End(fs[j])}
MMKeyOf(f, start) == <<f.identifier, f.offset - start>>
KeysOf(fs, start, J) == {MMKeyOf(fs[j], start) : j \in J}

ScanIsRight(fs, start, end, i, s) ==
    s \in Scanned /\ Behind(fs, end, i, s.idx) /\ ToSet(s.keys) = KeysOf(fs, start, Inside(fs, start, end, i))

LEMMA ToSetOfConcat ==
    ASSUME NEW T, NEW s \in Seq(T), NEW t \in Seq(T)
    PROVE  ToSet(s \o t) = ToSet(s) \cup ToSet(t)
<1> DEFINE u == s \o t
<1>1. u \in Seq(T) /\ Len(u) = Len(s) + Len(t)
  BY ConcatProperties
<1>2. \A i \in 1..Len(u) : u[i] = IF i <= Len(s) THEN s[i] ELSE t[i - Len(s)]
  BY ConcatProperties
<1>3. Len(s) \in Nat /\ Len(t) \in Nat /\ DOMAIN s = 1..Len(s) /\ DOMAIN t = 1..Len(t) /\ DOMAIN u = 1..Len(u)
  BY <1>1
<1> HIDE DEF u
<1>4. ASSUME NEW x \in ToSet(u) PROVE x \in ToSet(s) \cup ToSet(t)
  <2>1. PICK i \in 1..Len(u) : x = u[i]
    BY <1>3 DEF ToSet
  <2>2. CASE i <= Len(s)
    <3>1. i \in 1..Len(s) /\ x = s[i]
      BY <1>2, <1>3, <2>1, <2>2
    <3> QED BY <1>3, <3>1 DEF ToSet
  <2>3. CASE ~(i <= Len(s))
    <3>1. i - Len(s) \in 1..Len(t) /\ x = t[i - Len(s)]
      BY <1>1, <1>2, <1>3, <2>1, <2>3
    <3> QED BY <1>3, <3>1 DEF ToSet
  <2> QED BY <2>2, <2>3
<1>5. ASSUME NEW x \in ToSet(s) PROVE x \in ToSet(u)
  <2>1. PICK i \in 1..Len(s) : x = s[i]
    BY <1>3, <1>5 DEF ToSet
  <2>2. i \in 1..Len(u) /\ u[i] = s[i]
    BY <1>1, <1>2, <1>3
  <2> QED BY <1>3, <2>1, <2>2 DEF ToSet
<1>6. ASSUME NEW x \in ToSet(t) PROVE x \in ToSet(u)
  <2>1. PICK i \in 1..Len(t) : x = t[i]
    BY <1>3, <1>6 DEF ToSet
  <2>2. i + Len(s) \in 1..Len(u) /\ ~(i + Len(s) <= Len(s)) /\ (i + Len(s)) - Len(s) = i
    BY <1>1, <1>3
  <2>3. u[i + Len(s)] = t[i]
    BY <1>2, <2>2
  <2> QED BY <1>3, <2>1, <2>2, <2>3 DEF ToSet
<1> QED BY <1>4, <1>5, <1>6 DEF u

LEMMA ToSetOfOne == \A x : ToSet(<<x>>) = {x} /\ ToSet(<<>>) = {}
BY DEF ToSet

LEMMA ScanStepIsRight ==
    ASSUME NEW fs \in Seq(MMFeature), Sorted(fs), NEW start \in Nat, NEW end \in Nat, start < end,
           NEW i \in 1..Len(fs), NEW rest, ScanIsRight(fs, start, end, i + 1, rest)
    PROVE  ScanIsRight(fs, start, end, i, ScanStep(fs, start, end, i, rest))
<1> DEFINE n == Len(fs)
           off == fs[i].offset
           last == End(fs[i])
           key == MMKeyOf(fs[i], start)
           s == ScanStep(fs, start, end, i, rest)
           more == Inside(fs, start, end, i + 1)
<1>1. n \in Nat /\ off \in Nat /\ last \in Nat /\ off < last /\ i \in Nat /\ i <= n
  BY FeatureTypes
<1>2. \A j \in 1..n : fs[j].offset \in Nat /\ End(fs[j]) \in Nat /\ fs[j].offset < End(fs[j])
  BY FeatureTypes
<1>3. \A j \in 1..n : i < j => last <= fs[j].offset
  BY DEF Sorted
<1>4. key \in MMKey
  BY FeatureTypes DEF MMKey, MMKeyOf
<1>5. s \in Scanned
  <2>1. rest \in Scanned /\ i \in 1..Len(fs)+1
    BY <1>1 DEF ScanIsRight
  <2> HIDE DEF n, s
  <2> QED BY <2>1, ScanStepTypes DEF s
<1>6. s = IF end <= off THEN [keys |-> <<>>, idx |-> i]
          ELSE IF start >= last THEN rest
          ELSE IF end >= last THEN [keys |-> <<key>> \o rest.keys, idx |-> rest.idx]
          ELSE [keys |-> <<key>>, idx |-> i]
  <2>1. ~(i > Len(fs))
    BY <1>1
  <2> QED BY <2>1 DEF ScanStep, MMKeyOf
<1>7. rest.keys \in Seq(MMKey) /\ rest.idx \in i+1..n+1 /\ ToSet(rest.keys) = KeysOf(fs, start, more)
      /\ \A j \in 1..rest.idx-1 : i + 1 <= j => End(fs[j]) <= end
  BY DEF ScanIsRight, Scanned, Behind
<1>8. \A j \in 1..n : i <= j <=> (i = j \/ i + 1 <= j)
  BY <1>1
<1>9. Inside(fs, start, end, i) = IF off < end /\ start < last THEN {i} \cup more ELSE more
  BY <1>1, <1>8 DEF Inside
<1>10. KeysOf(fs, start, {i} \cup more) = {key} \cup KeysOf(fs, start, more) /\ KeysOf(fs, start, {}) = {}
  BY DEF KeysOf
<1> HIDE DEF n, off, last, key, s, more
<1>11. Behind(fs, end, i, i)
  BY <1>1 DEF Behind, n
<1>12. CASE end <= off
  <2>1. more = {}
    <3>1. \A j \in 1..n : i + 1 <= j => end <= fs[j].offset
      BY <1>1, <1>2, <1>3, <1>12
    <3> QED BY <1>2, <3>1 DEF more, Inside, n
  <2>2. s.idx = i /\ s.keys = <<>>
    BY <1>6, <1>12
  <2>3. Inside(fs, start, end, i) = {}
    BY <1>1, <1>9, <1>12, <2>1
  <2> QED BY <1>5, <1>10, <1>11, <2>2, <2>3, ToSetOfOne DEF ScanIsRight, s
<1>13. CASE ~(end <= off) /\ start >= last
  <2>1. s = rest
    BY <1>6, <1>13
  <2>2. Inside(fs, start, end, i) = more
    BY <1>1, <1>9, <1>13
  <2>3. Behind(fs, end, i, rest.idx)
    <3>1. rest.idx \in i..n+1
      BY <1>1, <1>7
    <3>2. ASSUME NEW j \in 1..rest.idx-1, i <= j PROVE End(fs[j]) <= end
      <4>1. CASE j = i
        BY <1>1, <1>13, <4>1 DEF last
      <4>2. CASE j # i
        BY <1>1, <1>7, <3>2, <4>2
      <4> QED BY <4>1, <4>2
    <3> QED BY <3>1, <3>2 DEF Behind, n
  <2> QED BY <1>5, <1>7, <2>1, <2>2, <2>3 DEF ScanIsRight, s
<1>14. CASE ~(end <= off) /\ ~(start >= last) /\ end >= last
  <2>1. s.keys = <<key>> \o rest.keys /\ s.idx = rest.idx
    BY <1>6, <1>14
  <2>2. Inside(fs, start, end, i) = {i} \cup more
    BY <1>1, <1>9, <1>14
  <2>3. Behind(fs, end, i, rest.idx)
    <3>1. rest.idx \in i..n+1
      BY <1>1, <1>7
    <3>2. ASSUME NEW j \in 1..rest.idx-1, i <= j PROVE End(fs[j]) <= end
      <4>1. CASE j = i
        BY <1>1, <1>14, <4>1 DEF last
      <4>2. CASE j # i
        BY <1>1, <1>7, <3>2, <4>2
      <4> QED BY <4>1, <4>2
    <3> QED BY <3>1, <3>2 DEF Behind, n
  <2> DEFINE a == <<key>>
             b == rest.keys
             c == s.keys
  <2>4. a \in Seq(MMKey) /\ b \in Seq(MMKey) /\ c = a \o b
    BY <1>4, <1>7, <2>1
  <2>5. ToSet(c) = ToSet(a) \cup ToSet(b)
    <3> HIDE DEF a, b, c
    <3> QED BY <2>4, ToSetOfConcat
  <2>6. ToSet(s.keys) = KeysOf(fs, start, Inside(fs, start, end, i))
    BY <1>7, <1>10, <2>2, <2>5, ToSetOfOne
  <2> QED BY <1>5, <2>1, <2>3, <2>6 DEF ScanIsRight, s
<1>15. CASE ~(end <= off) /\ ~(start >= last) /\ ~(end >= last)
  <2>0. s = [keys |-> <<key>>, idx |-> i]
    BY <1>6, <1>15, Zenon
  <2>1. s.keys = <<key>> /\ s.idx = i
    BY <2>0
  <2>2. Inside(fs, start, end, i) = {i} \cup more
    BY <1>1, <1>9, <1>15
  <2>3. more = {}
    <3>1. \A j \in 1..n : i + 1 <= j => end <= fs[j].offset
      BY <1>1, <1>2, <1>3, <1>15
    <3> QED BY <1>2, <3>1 DEF more, Inside, n
  <2>4. ToSet(s.keys) = KeysOf(fs, start, Inside(fs, start, end, i))
    <3>1. ToSet(s.keys) = {key}
      BY <2>1, ToSetOfOne
    <3>2. KeysOf(fs, start, {i} \cup {}) = {key} \cup KeysOf(fs, start, {})
      BY <1>10, <2>3
    <3>3. {i} \cup {} = {i} /\ {key} \cup {} = {key}
      OBVIOUS
    <3> QED BY <1>10, <2>2, <2>3, <3>1, <3>2, <3>3, Zenon
  <2> QED BY <1>5, <1>11, <2>1, <2>4 DEF ScanIsRight, s
<1> QED BY <1>12, <1>13, <1>14, <1>15 DEF s

LEMMA ScanRight ==
    ASSUME NEW fs \in Seq(MMFeature), Sorted(fs), NEW start \in Nat, NEW end \in Nat, start < end,
           NEW g, Scans(g, fs, start, end)
    PROVE  \A i \in 1..Len(fs)+1 : ScanIsRight(fs, start, end, i, g[i])
<1> DEFINE n == Len(fs)
           Good == {k \in 0..n : ScanIsRight(fs, start, end, n + 1 - k, g[n + 1 - k])}
<1>1. n \in Nat
  OBVIOUS
<1>2. 0 \in Good
  <2>1. n + 1 - 0 = n + 1 /\ n + 1 \in 1..n+1
    BY <1>1
  <2>2. g[n+1] \in Scanned /\ g[n+1] = Nothing(n+1)
    BY <2>1 DEF Scans
  <2>3. Behind(fs, end, n + 1, n + 1)
    BY <1>1 DEF Behind
  <2>4. Inside(fs, start, end, n + 1) = {}
    BY <1>1 DEF Inside
  <2>5. ScanIsRight(fs, start, end, n + 1, g[n + 1])
    BY <2>2, <2>3, <2>4, ToSetOfOne DEF ScanIsRight, Nothing, KeysOf
  <2> QED BY <1>1, <2>1, <2>5
<1>3. ASSUME NEW k \in 1..n, k - 1 \in Good PROVE k \in Good
  <2> DEFINE i == n + 1 - k
  <2>1. i \in 1..n /\ n + 1 - (k - 1) = i + 1 /\ k \in 0..n
    BY <1>1
  <2>2. ScanIsRight(fs, start, end, i + 1, g[i + 1])
    BY <1>3, <2>1
  <2>3. g[i] = ScanStep(fs, start, end, i, g[i + 1])
    BY <2>1 DEF Scans
  <2> HIDE DEF i
  <2>4. ScanIsRight(fs, start, end, i, ScanStep(fs, start, end, i, g[i + 1]))
    BY <2>1, <2>2, ScanStepIsRight
  <2> QED BY <2>1, <2>3, <2>4 DEF i
<1>4. 0..n \subseteq Good
  <2> HIDE DEF Good
  <2> QED BY <1>1, <1>2, <1>3, BoundedInduction
<1>5. \A i \in 1..n+1 : n + 1 - i \in 0..n /\ n + 1 - (n + 1 - i) = i
  BY <1>1
<1> QED BY <1>4, <1>5

(* The scan passes the images that end before the block. *)
LEMMA ScanSkips ==
    ASSUME NEW fs \in Seq(MMFeature), NEW start \in Nat, NEW end \in Nat, start < end,
           NEW g, Scans(g, fs, start, end), NEW i \in 1..Len(fs)+1, NEW i0 \in 1..i,
           \A j \in 1..i-1 : i0 <= j => End(fs[j]) <= start
    PROVE  g[i] = g[i0]
<1> DEFINE m == i - i0
           Good == {k \in 0..m : g[i0 + k] = g[i0]}
<1>1. m \in Nat /\ i = i0 + m /\ Len(fs) \in Nat /\ i0 + m <= Len(fs) + 1 /\ i0 \in Nat /\ i0 # 0 /\ i0 + 0 = i0
  OBVIOUS
<1>2. 0 \in Good
  BY <1>1
<1>3. ASSUME NEW k \in 1..m, k - 1 \in Good PROVE k \in Good
  <2> DEFINE j == i0 + (k - 1)
  <2>1. j \in 1..Len(fs) /\ j + 1 = i0 + k /\ k \in 0..m /\ j \in 1..i-1 /\ i0 <= j
    BY <1>1
  <2>2. g[j] = g[i0]
    BY <1>3
  <2> HIDE DEF j
  <2>3. End(fs[j]) <= start
    BY <2>1
  <2>4. ~(j > Len(fs) \/ end <= fs[j].offset) /\ start >= End(fs[j])
    BY <1>1, <2>1, <2>3, FeatureTypes
  <2>5. g[j] = g[j + 1]
    BY <2>1, <2>4 DEF Scans, ScanStep
  <2> QED BY <2>1, <2>2, <2>5
<1>4. 0..m \subseteq Good
  <2> HIDE DEF Good, m
  <2> QED BY <1>1, <1>2, <1>3, BoundedInduction
<1>5. m \in Good
  <2> HIDE DEF Good, m
  <2> QED BY <1>1, <1>4
<1>6. g[i0 + m] = g[i0]
  BY <1>5
<1> QED BY <1>1, <1>6

----------------------------------------------------------------------------
(* The keys of a block *)

(* Where the scan of a block may start: an image, or -1 for the last.  A    *)
(* chain that set out from f0, 1 or -1, is at a place from which the scan   *)
(* finds what it would from f0: the images before are behind.               *)
Places(fs) == {-1} \cup 1..Len(fs)+1
Starts(fs, start, from, f0) ==
    \/ from = f0
    \/ /\ from \in 1..Len(fs)+1 /\ Position(fs, f0) <= from
       /\ \A j \in 1..from-1 : Position(fs, f0) <= j => End(fs[j]) <= start

LEMMA MMKeysTypes ==
    ASSUME NEW fs \in Seq(MMFeature), Sorted(fs), NEW start \in Nat, NEW end \in Nat, start < end,
           NEW from \in Places(fs)
    PROVE  /\ MMKeys(fs, start, end, from).keys \in Seq(MMKey)
           /\ MMKeys(fs, start, end, from).idx \in Places(fs)
<1>1. PICK g : IsScan(g, fs, start, end)
  BY ScanExists
<1>2. from \in Int /\ Len(fs) \in Nat
  BY DEF Places
<1>3. CASE MMKeys(fs, start, end, from) = Nothing(from)
  BY <1>3 DEF Nothing
<1>4. CASE fs # <<>> /\ MMKeys(fs, start, end, from) = g[Position(fs, from)]
  <2> DEFINE i == Position(fs, from)
  <2>1. Len(fs) # 0
    BY <1>4, EmptySeq
  <2>2. i \in 1..Len(fs)+1
    BY <1>2, <2>1 DEF Places, Position
  <2> HIDE DEF i
  <2>3. ScanIsRight(fs, start, end, i, g[i])
    BY <1>1, <2>2, ScanRight DEF IsScan
  <2>4. g[i].keys \in Seq(MMKey) /\ g[i].idx \in i..Len(fs)+1
    BY <2>3 DEF ScanIsRight, Scanned, Behind
  <2>5. g[i].idx \in 1..Len(fs)+1
    BY <1>2, <2>2, <2>4
  <2> QED BY <1>4, <2>4, <2>5 DEF Places, i
<1> QED BY <1>1, <1>2, <1>3, <1>4 DEF IsScan

LEMMA AllEndByTheLast ==
    ASSUME NEW fs \in Seq(MMFeature), Sorted(fs), NEW start \in Nat, fs # <<>>, End(fs[Len(fs)]) <= start
    PROVE  \A j \in 1..Len(fs) : End(fs[j]) <= start
<1> DEFINE n == Len(fs)
<1>1. n \in Nat /\ n # 0 /\ n \in 1..n
  BY EmptySeq
<1>2. fs[n].offset \in Nat /\ End(fs[n]) \in Nat /\ fs[n].offset < End(fs[n])
  BY <1>1, FeatureTypes
<1>3. ASSUME NEW j \in 1..n PROVE End(fs[j]) <= start
  <2>1. End(fs[j]) \in Nat
    BY FeatureTypes
  <2>2. CASE j = n
    BY <2>2
  <2>3. CASE j # n
    <3>1. j < n
      BY <1>1, <2>3
    <3>2. End(fs[j]) <= fs[n].offset
      BY <1>1, <3>1 DEF Sorted
    <3> QED BY <1>2, <2>1, <3>2
  <2> QED BY <2>2, <2>3
<1> QED BY <1>3

LEMMA PositionOfImage ==
    ASSUME NEW fs \in Seq(MMFeature), NEW f0 \in {1, -1}, fs # <<>>
    PROVE  Position(fs, f0) \in 1..Len(fs) /\ Position(fs, 1) = 1 /\ Position(fs, -1) = Len(fs)
<1>1. Len(fs) \in Nat /\ Len(fs) # 0
  BY EmptySeq
<1> QED BY <1>1 DEF Position

LEMMA MMKeysFollow ==
    ASSUME NEW fs \in Seq(MMFeature), Sorted(fs), NEW start \in Nat, NEW end \in Nat, start < end,
           NEW f0 \in {1, -1}, NEW from, Starts(fs, start, from, f0)
    PROVE  /\ MMKeys(fs, start, end, from).keys = MMKeys(fs, start, end, f0).keys
           /\ Starts(fs, end, MMKeys(fs, start, end, from).idx, f0)
<1>1. PICK g : IsScan(g, fs, start, end)
  BY ScanExists
<1>2. from \in Int /\ Len(fs) \in Nat /\ f0 \in Int
  BY DEF Starts
<1>3. Starts(fs, end, from, f0)
  <2>1. \A j \in 1..Len(fs) : End(fs[j]) \in Nat
    BY FeatureTypes
  <2>2. ASSUME from \in 1..Len(fs)+1, NEW j \in 1..from-1, End(fs[j]) <= start PROVE End(fs[j]) <= end
    <3>1. j \in 1..Len(fs)
      BY <1>2, <2>2
    <3> QED BY <2>1, <2>2, <3>1
  <2> QED BY <2>2 DEF Starts
<1>4. CASE fs = <<>> \/ End(fs[Len(fs)]) <= start
  <2>1. MMKeys(fs, start, end, from) = Nothing(from) /\ MMKeys(fs, start, end, f0) = Nothing(f0)
    BY <1>1, <1>2, <1>4 DEF IsScan
  <2> QED BY <1>3, <2>1 DEF Nothing
<1>5. CASE ~(fs = <<>> \/ End(fs[Len(fs)]) <= start)
  <2> DEFINE i == Position(fs, from)
             i0 == Position(fs, f0)
             s == MMKeys(fs, start, end, from)
             t == MMKeys(fs, start, end, f0)
  <2>1. i0 \in 1..Len(fs)
    BY <1>5, PositionOfImage
  <2>2. i \in 1..Len(fs)+1 /\ i0 <= i /\ \A j \in 1..i-1 : i0 <= j => End(fs[j]) <= start
    <3>1. CASE from = f0
      BY <1>2, <2>1, <3>1
    <3>2. CASE from # f0
      <4>1. from \in 1..Len(fs)+1 /\ i0 <= from /\ \A j \in 1..from-1 : i0 <= j => End(fs[j]) <= start
        BY <3>2 DEF Starts
      <4>2. i = from
        BY <1>2, <4>1 DEF Position
      <4> QED BY <4>1, <4>2
    <3> QED BY <3>1, <3>2
  <2>3. s = g[i] /\ t = g[i0]
    BY <1>1, <1>2, <1>5 DEF IsScan
  <2> HIDE DEF i, i0, s, t
  <2>4. Scans(g, fs, start, end)
    BY <1>1 DEF IsScan
  <2>5. g[i] = g[i0]
    <3>1. i0 \in 1..i
      BY <1>2, <2>1, <2>2
    <3> QED BY <2>2, <2>4, <3>1, ScanSkips
  <2>6. ScanIsRight(fs, start, end, i0, g[i0])
    <3>1. i0 \in 1..Len(fs)+1
      BY <1>2, <2>1
    <3> QED BY <2>4, <3>1, ScanRight
  <2>7. g[i0].idx \in i0..Len(fs)+1 /\ \A j \in 1..g[i0].idx-1 : i0 <= j => End(fs[j]) <= end
    BY <2>6 DEF ScanIsRight, Behind
  <2>8. Starts(fs, end, g[i0].idx, f0)
    BY <1>2, <2>1, <2>7 DEF Starts, i0
  <2>9. s.keys = t.keys /\ Starts(fs, end, s.idx, f0)
    BY <2>3, <2>5, <2>8
  <2> QED BY <2>9 DEF s, t
<1> QED BY <1>4, <1>5

LEMMA MMKeysAreThoseInside ==
    ASSUME NEW fs \in Seq(MMFeature), Sorted(fs), NEW start \in Nat, NEW end \in Nat, start < end,
           NEW f0 \in {1, -1}
    PROVE  ToSet(MMKeys(fs, start, end, f0).keys) = KeysOf(fs, start, Inside(fs, start, end, Position(fs, f0)))
<1>1. PICK g : IsScan(g, fs, start, end)
  BY ScanExists
<1>2. Len(fs) \in Nat /\ f0 \in Int
  OBVIOUS
<1> DEFINE i0 == Position(fs, f0)
<1>3. CASE fs = <<>> \/ End(fs[Len(fs)]) <= start
  <2>1. MMKeys(fs, start, end, f0) = Nothing(f0)
    BY <1>1, <1>2, <1>3 DEF IsScan
  <2>2. \A j \in 1..Len(fs) : End(fs[j]) <= start /\ End(fs[j]) \in Nat
    BY <1>3, AllEndByTheLast, FeatureTypes
  <2>3. Inside(fs, start, end, i0) = {}
    BY <2>2 DEF Inside
  <2> QED BY <2>1, <2>3, ToSetOfOne DEF Nothing, KeysOf
<1>4. CASE ~(fs = <<>> \/ End(fs[Len(fs)]) <= start)
  <2>1. MMKeys(fs, start, end, f0) = g[i0]
    BY <1>1, <1>2, <1>4 DEF IsScan
  <2>2. i0 \in 1..Len(fs)+1
    BY <1>2, <1>4, PositionOfImage
  <2> HIDE DEF i0
  <2>3. ScanIsRight(fs, start, end, i0, g[i0])
    BY <1>1, <2>2, ScanRight DEF IsScan
  <2> QED BY <2>1, <2>3 DEF ScanIsRight, i0
<1> QED BY <1>3, <1>4

Key == MMKey \cup Loras \cup Salts
Salt(q, start) == IF start = 0 THEN q.salt ELSE <<>>

LEMMA InputTypes ==
    ASSUME NEW q \in Inputs
    PROVE  /\ q.prompt \in Seq(Tokens) /\ q.mm_features \in Seq(MMFeature)
           /\ q.lora \in Optional(Loras) /\ q.salt \in Optional(Salts)
           /\ q.lora \in Seq(Key) /\ q.salt \in Seq(Key)
           /\ ToSet(q.lora) \subseteq Loras /\ ToSet(q.salt) \subseteq Salts
<1>1. q \in Input
  BY BlockHashesAssumption
<1>2. q.prompt \in Seq(Tokens) /\ q.mm_features \in Seq(MMFeature) /\ q.lora \in Optional(Loras) /\ q.salt \in Optional(Salts)
  BY <1>1 DEF Input
<1>3. ASSUME NEW S, S \subseteq Key, NEW o \in Optional(S) PROVE o \in Seq(Key) /\ ToSet(o) \subseteq S
  <2>1. CASE o = <<>>
    BY <2>1, ToSetOfOne
  <2>2. ASSUME NEW x \in S, o = <<x>> PROVE o \in Seq(Key) /\ ToSet(o) \subseteq S
    <3>1. x \in Key
      BY <1>3
    <3> QED BY <2>2, <3>1, ToSetOfOne
  <2> QED BY <2>1, <2>2 DEF Optional
<1> QED BY <1>2, <1>3 DEF Key

LEMMA SaltTypes ==
    ASSUME NEW q \in Inputs, NEW start
    PROVE  Salt(q, start) \in Seq(Key) /\ ToSet(Salt(q, start)) = IF start = 0 THEN ToSet(q.salt) ELSE {}
<1>1. CASE start = 0
  BY <1>1, InputTypes DEF Salt
<1>2. CASE start # 0
  BY <1>2, ToSetOfOne DEF Salt
<1> QED BY <1>1, <1>2

Three(a, b, c) == a \o b \o c

LEMMA ExtraIs ==
    ASSUME NEW q, NEW start, NEW end, NEW from
    PROVE  /\ ExtraKeys(q, start, end, from).keys = Three(q.lora, MMKeys(q.mm_features, start, end, from).keys, Salt(q, start))
           /\ ExtraKeys(q, start, end, from).idx = MMKeys(q.mm_features, start, end, from).idx
BY DEF ExtraKeys, Salt, Three

LEMMA ConcatThree ==
    ASSUME NEW T, NEW s \in Seq(T), NEW t \in Seq(T), NEW u \in Seq(T)
    PROVE  Three(s, t, u) \in Seq(T) /\ ToSet(Three(s, t, u)) = ToSet(s) \cup ToSet(t) \cup ToSet(u)
<1> DEFINE v == s \o t
           w == v \o u
<1>1. v \in Seq(T)
  BY ConcatProperties
<1>2. ToSet(v) = ToSet(s) \cup ToSet(t)
  BY ToSetOfConcat
<1> HIDE DEF v
<1>3. w \in Seq(T)
  BY <1>1, ConcatProperties
<1>4. ToSet(w) = ToSet(v) \cup ToSet(u)
  BY <1>1, ToSetOfConcat
<1> QED BY <1>2, <1>3, <1>4 DEF v, Three

LEMMA ExtraTypes ==
    ASSUME NEW q \in Inputs, NEW start \in Nat, NEW end \in Nat, start < end, NEW from \in Places(q.mm_features)
    PROVE  /\ ExtraKeys(q, start, end, from).keys \in Seq(Key)
           /\ ExtraKeys(q, start, end, from).idx \in Places(q.mm_features)
<1> DEFINE fs == q.mm_features
           a == q.lora
           b == MMKeys(fs, start, end, from).keys
           c == Salt(q, start)
<1>1. fs \in Seq(MMFeature) /\ Sorted(fs)
  BY InputsAreSorted
<1>2. b \in Seq(MMKey) /\ MMKeys(fs, start, end, from).idx \in Places(fs)
  <2> HIDE DEF fs
  <2> QED BY <1>1, MMKeysTypes DEF fs
<1>3. b \in Seq(Key)
  <2> HIDE DEF b
  <2> QED BY <1>2 DEF Key
<1>4. a \in Seq(Key) /\ c \in Seq(Key)
  BY InputTypes, SaltTypes
<1> HIDE DEF fs, a, b, c
<1>5. Three(a, b, c) \in Seq(Key)
  BY <1>3, <1>4, ConcatThree
<1> QED BY <1>2, <1>5, ExtraIs DEF fs, a, b, c

LEMMA ExtraFollow ==
    ASSUME NEW q \in Inputs, NEW start \in Nat, NEW end \in Nat, start < end,
           NEW f0 \in {1, -1}, NEW from, Starts(q.mm_features, start, from, f0)
    PROVE  /\ ExtraKeys(q, start, end, from).keys = ExtraKeys(q, start, end, f0).keys
           /\ Starts(q.mm_features, end, ExtraKeys(q, start, end, from).idx, f0)
<1> DEFINE fs == q.mm_features
           s == MMKeys(fs, start, end, from)
           t == MMKeys(fs, start, end, f0)
<1>1. fs \in Seq(MMFeature) /\ Sorted(fs)
  BY InputsAreSorted
<1>2. s.keys = t.keys /\ Starts(fs, end, s.idx, f0)
  <2> HIDE DEF fs
  <2> QED BY <1>1, MMKeysFollow DEF fs
<1>3. ExtraKeys(q, start, end, from).keys = Three(q.lora, s.keys, Salt(q, start))
      /\ ExtraKeys(q, start, end, f0).keys = Three(q.lora, t.keys, Salt(q, start))
      /\ ExtraKeys(q, start, end, from).idx = s.idx
  BY ExtraIs
<1> QED BY <1>2, <1>3

LEMMA KeysContent ==
    ASSUME NEW q \in Inputs, NEW start \in Nat, NEW end \in Nat, start < end, NEW f0 \in {1, -1}
    PROVE  ToSet(ExtraKeys(q, start, end, f0).keys) =
              ToSet(q.lora) \cup KeysOf(q.mm_features, start, Inside(q.mm_features, start, end, Position(q.mm_features, f0)))
              \cup (IF start = 0 THEN ToSet(q.salt) ELSE {})
<1> DEFINE fs == q.mm_features
           a == q.lora
           b == MMKeys(fs, start, end, f0).keys
           c == Salt(q, start)
           d == KeysOf(fs, start, Inside(fs, start, end, Position(fs, f0)))
<1>1. fs \in Seq(MMFeature) /\ Sorted(fs) /\ f0 \in Places(fs)
  BY InputsAreSorted DEF Places
<1>2. b \in Seq(MMKey) /\ ToSet(b) = d
  <2> HIDE DEF fs
  <2> QED BY <1>1, MMKeysTypes, MMKeysAreThoseInside
<1>3. b \in Seq(Key)
  <2> HIDE DEF b
  <2> QED BY <1>2 DEF Key
<1>4. a \in Seq(Key) /\ c \in Seq(Key) /\ ToSet(c) = IF start = 0 THEN ToSet(q.salt) ELSE {}
  BY InputTypes, SaltTypes
<1>5. ExtraKeys(q, start, end, f0).keys = Three(a, b, c)
  BY ExtraIs
<1> HIDE DEF fs, a, b, c, d
<1>6. ToSet(Three(a, b, c)) = ToSet(a) \cup ToSet(b) \cup ToSet(c)
  BY <1>3, <1>4, ConcatThree
<1>7. ToSet(ExtraKeys(q, start, end, f0).keys) = ToSet(a) \cup d \cup (IF start = 0 THEN ToSet(q.salt) ELSE {})
  BY <1>2, <1>4, <1>5, <1>6
<1> QED BY <1>7 DEF a, d, fs

(* The keys of the j-th block, for a chain that set out from f0; with one   *)
(* image at most both are the same.                                         *)
BlockKeys(q, j, f0) == ExtraKeys(q, (j - 1) * hash_block_size, (j - 1) * hash_block_size + hash_block_size, f0).keys

LEMMA OneImage ==
    ASSUME NEW q \in Inputs, Len(q.mm_features) <= 1, NEW j
    PROVE  BlockKeys(q, j, -1) = BlockKeys(q, j, 1)
<1> DEFINE fs == q.mm_features
<1>1. fs \in Seq(MMFeature) /\ Len(fs) \in Nat /\ Len(fs) <= 1
  BY InputTypes
<1>2. ASSUME NEW start, NEW end PROVE MMKeys(fs, start, end, -1).keys = MMKeys(fs, start, end, 1).keys
  <2>1. fs = <<>> \/ Position(fs, -1) = Position(fs, 1)
    <3> DEFINE n == Len(fs)
    <3>0. n \in Nat /\ n <= 1
      BY <1>1
    <3> HIDE DEF n
    <3>2. n = 0 \/ n = 1
      BY <3>0
    <3>1. Len(fs) = 0 \/ Len(fs) = 1
      BY <3>2 DEF n
    <3> QED BY <1>1, <3>1, EmptySeq DEF Position
  <2> HIDE DEF fs
  <2> QED BY <2>1 DEF MMKeys
<1> QED BY <1>2, ExtraIs DEF BlockKeys

----------------------------------------------------------------------------
(* The chain of hashes *)

Cell == [tokens : Seq(Tokens), keys : Seq(Key)]
Hash == Seq(Cell)
BlockTokens(tokens, j) == SubSeq(tokens, (j - 1) * hash_block_size + 1, (j - 1) * hash_block_size + hash_block_size)

(* A hash stands for the first n blocks: the tokens of each and its keys,   *)
(* those from the first image on for the blocks of the prompt.  Of a block  *)
(* behind it they may be those from the last image on.                      *)
KeysOfBlock(q, j, keys) ==
    \/ keys = BlockKeys(q, j, 1)
    \/ (Len(q.prompt) \div hash_block_size < j /\ keys = BlockKeys(q, j, -1))
HashOf(q, tokens, h, n) ==
    /\ h \in Hash /\ Len(h) = n
    /\ \A j \in 1..n : h[j].tokens = BlockTokens(tokens, j) /\ KeysOfBlock(q, j, h[j].keys)

RunState(q) == [parent : Hash, idx : Places(q.mm_features), made : Seq(Hash)]
RunStart(parent, from) == [parent |-> parent, idx |-> from, made |-> <<>>]
RunStep(q, tokens, k, n, before) ==
    LET start == (k + n - 1) * hash_block_size
        extra == ExtraKeys(q, start, start + hash_block_size, before.idx)
        hash == hash_block_tokens(before.parent, SubSeq(tokens, start + 1, start + hash_block_size), extra.keys)
    IN  [parent |-> hash, idx |-> extra.idx, made |-> Append(before.made, hash)]

LEMMA BlockSize == hash_block_size \in Nat \ {0}
BY BlockHashesAssumption

LEMMA Division ==
    ASSUME NEW n \in Nat
    PROVE  /\ n \div hash_block_size \in Nat /\ (n \div hash_block_size) * hash_block_size \in Nat
           /\ (n \div hash_block_size) * hash_block_size <= n
           /\ n < (n \div hash_block_size) * hash_block_size + hash_block_size
<1>1. hash_block_size \in Nat \ {0}
  BY BlockSize
<1> QED BY <1>1

LEMMA Blocks ==
    ASSUME NEW p \in Nat \ {0}
    PROVE  /\ (p - 1) * hash_block_size \in Nat
           /\ (p - 1) * hash_block_size + hash_block_size = p * hash_block_size
           /\ p * hash_block_size \in Nat
           /\ (p - 1) * hash_block_size < (p - 1) * hash_block_size + hash_block_size
BY BlockSize

LEMMA HashBlock ==
    ASSUME NEW q \in Inputs, NEW tokens \in Seq(Tokens), NEW p \in Nat \ {0}, p * hash_block_size <= Len(tokens),
           NEW keys \in Seq(Key), NEW parent \in Hash
    PROVE  /\ hash_block_tokens(parent, BlockTokens(tokens, p), keys) \in Hash
           /\ Len(hash_block_tokens(parent, BlockTokens(tokens, p), keys)) = Len(parent) + 1
           /\ \A j \in 1..Len(parent) : hash_block_tokens(parent, BlockTokens(tokens, p), keys)[j] = parent[j]
           /\ hash_block_tokens(parent, BlockTokens(tokens, p), keys)[Len(parent) + 1].tokens = BlockTokens(tokens, p)
           /\ hash_block_tokens(parent, BlockTokens(tokens, p), keys)[Len(parent) + 1].keys = keys
<1> DEFINE t == BlockTokens(tokens, p)
           c == [tokens |-> t, keys |-> keys]
           h == Append(parent, c)
<1>1. t \in Seq(Tokens)
  <2> DEFINE a == (p - 1) * hash_block_size + 1
             b == (p - 1) * hash_block_size + hash_block_size
  <2> DEFINE u == (p - 1) * hash_block_size
             v == p * hash_block_size
  <2>0. u \in Nat /\ u + hash_block_size = v /\ v <= Len(tokens) /\ Len(tokens) \in Nat /\ hash_block_size \in Nat
    BY Blocks, BlockSize
  <2>1. a \in Int /\ b \in Int /\ 1 <= a /\ b <= Len(tokens)
    <3> HIDE DEF u, v
    <3>1. a = u + 1 /\ b = u + hash_block_size
      BY DEF u
    <3> HIDE DEF a, b
    <3> QED BY <2>0, <3>1
  <2>2. t = SubSeq(tokens, a, b)
    BY DEF BlockTokens
  <2>3. \A i \in a..b : tokens[i] \in Tokens
    <3> HIDE DEF a, b
    <3> QED BY <2>1
  <2> HIDE DEF a, b, t
  <2> QED BY <2>1, <2>2, <2>3, SubSeqProperties
<1>2. c \in Cell
  BY <1>1 DEF Cell
<1>3. c.tokens = t /\ c.keys = keys
  OBVIOUS
<1>4. hash_block_tokens(parent, t, keys) = h
  BY DEF hash_block_tokens
<1> HIDE DEF t, c
<1>5. h \in Hash /\ Len(h) = Len(parent) + 1 /\ h[Len(parent) + 1] = c /\ \A j \in 1..Len(parent) : h[j] = parent[j]
  BY <1>2, AppendProperties DEF Hash
<1> HIDE DEF h
<1> QED BY <1>3, <1>4, <1>5 DEF t

(* What n blocks of a chain made, from block k on. *)
RunIsRight(q, tokens, k, n, f0, s) ==
    /\ HashOf(q, tokens, s.parent, k + n)
    /\ s.idx \in Places(q.mm_features) /\ Starts(q.mm_features, (k + n) * hash_block_size, s.idx, f0)
    /\ s.made \in Seq(Hash) /\ Len(s.made) = n
    /\ \A i \in 1..n : HashOf(q, tokens, s.made[i], k + i)

(* A chain from block k on sets out from the first image, or from the last  *)
(* one when the prompt is behind it.                                        *)
SetsOut(q, k, f0) ==
    \/ f0 = 1
    \/ (f0 = -1 /\ Len(q.prompt) \div hash_block_size <= k)

LEMMA RunStepTypes ==
    ASSUME NEW q \in Inputs, NEW tokens \in Seq(Tokens), NEW k \in Nat, NEW n \in Nat \ {0},
           (k + n) * hash_block_size <= Len(tokens), NEW s \in RunState(q)
    PROVE  RunStep(q, tokens, k, n, s) \in RunState(q)
<1> DEFINE p == k + n
           start == (p - 1) * hash_block_size
           end == (p - 1) * hash_block_size + hash_block_size
           extra == ExtraKeys(q, start, end, s.idx)
           keys == extra.keys
           hash == hash_block_tokens(s.parent, BlockTokens(tokens, p), keys)
           made == Append(s.made, hash)
<1>1. p \in Nat \ {0} /\ p * hash_block_size <= Len(tokens)
  OBVIOUS
<1>2. s.parent \in Hash /\ s.idx \in Places(q.mm_features) /\ s.made \in Seq(Hash)
  BY DEF RunState
<1>3. start \in Nat /\ end \in Nat /\ start < end
  <2> HIDE DEF p
  <2> QED BY <1>1, Blocks, BlockSize
<1>4. keys \in Seq(Key) /\ extra.idx \in Places(q.mm_features)
  <2> HIDE DEF start, end
  <2> QED BY <1>2, <1>3, ExtraTypes
<1>5. hash \in Hash
  <2> HIDE DEF p, keys
  <2> QED BY <1>1, <1>2, <1>4, HashBlock
<1>6. made \in Seq(Hash)
  <2> HIDE DEF hash
  <2> QED BY <1>2, <1>5, AppendProperties
<1>7. RunStep(q, tokens, k, n, s) = [parent |-> hash, idx |-> extra.idx, made |-> made]
  BY DEF RunStep, BlockTokens
<1> HIDE DEF hash, extra, made
<1> QED BY <1>4, <1>5, <1>6, <1>7 DEF RunState

LEMMA RunStepIsRight ==
    ASSUME NEW q \in Inputs, NEW tokens \in Seq(Tokens), NEW k \in Nat, NEW n \in Nat \ {0},
           (k + n) * hash_block_size <= Len(tokens), NEW f0, SetsOut(q, k, f0),
           NEW s, RunIsRight(q, tokens, k, n - 1, f0, s)
    PROVE  RunIsRight(q, tokens, k, n, f0, RunStep(q, tokens, k, n, s))
<1> DEFINE p == k + n
           start == (p - 1) * hash_block_size
           end == (p - 1) * hash_block_size + hash_block_size
           extra == ExtraKeys(q, start, end, s.idx)
           keys == extra.keys
           parent == s.parent
           hash == hash_block_tokens(parent, BlockTokens(tokens, p), keys)
           made == Append(s.made, hash)
           new == RunStep(q, tokens, k, n, s)
<1>1. p \in Nat \ {0} /\ p * hash_block_size <= Len(tokens) /\ k + (n - 1) = p - 1 /\ p - 1 \in Nat
  OBVIOUS
<1>2. /\ parent \in Hash /\ Len(parent) = p - 1 /\ s.idx \in Places(q.mm_features)
      /\ s.made \in Seq(Hash) /\ Len(s.made) = n - 1
      /\ \A j \in 1..p-1 : parent[j].tokens = BlockTokens(tokens, j) /\ KeysOfBlock(q, j, parent[j].keys)
      /\ Starts(q.mm_features, start, s.idx, f0)
      /\ \A i \in 1..n-1 : HashOf(q, tokens, s.made[i], k + i)
  BY <1>1 DEF RunIsRight, HashOf
<1>3. start \in Nat /\ end \in Nat /\ start < end /\ end = p * hash_block_size
  <2> HIDE DEF p
  <2> QED BY <1>1, Blocks, BlockSize
<1>4. keys \in Seq(Key) /\ extra.idx \in Places(q.mm_features)
  <2> HIDE DEF start, end
  <2> QED BY <1>2, <1>3, ExtraTypes
<1>5. KeysOfBlock(q, p, keys) /\ Starts(q.mm_features, end, extra.idx, f0)
  <2>1. f0 \in {1, -1}
    BY DEF SetsOut
  <2>2. f0 = -1 => Len(q.prompt) \div hash_block_size < p
    <3> DEFINE e == Len(q.prompt) \div hash_block_size
    <3>0. Len(q.prompt) \in Nat
      BY InputTypes
    <3>1. e \in Nat
      BY <3>0, Division
    <3>2. f0 = -1 => e <= k
      BY DEF SetsOut
    <3> HIDE DEF e
    <3>3. f0 = -1 => e < p
      BY <3>1, <3>2
    <3> QED BY <3>3 DEF e
  <2> HIDE DEF p
  <2>3. keys = BlockKeys(q, p, f0) /\ Starts(q.mm_features, end, extra.idx, f0)
    BY <1>2, <1>3, <2>1, ExtraFollow DEF BlockKeys
  <2> QED BY <2>1, <2>2, <2>3 DEF KeysOfBlock
<1>6. /\ hash \in Hash /\ Len(hash) = p /\ \A j \in 1..p-1 : hash[j] = parent[j]
      /\ hash[p].tokens = BlockTokens(tokens, p) /\ hash[p].keys = keys
  <2>1. Len(parent) + 1 = p
    BY <1>1, <1>2
  <2> HIDE DEF p, keys, parent
  <2>2. /\ hash_block_tokens(parent, BlockTokens(tokens, p), keys) \in Hash
        /\ Len(hash_block_tokens(parent, BlockTokens(tokens, p), keys)) = Len(parent) + 1
        /\ \A j \in 1..Len(parent) : hash_block_tokens(parent, BlockTokens(tokens, p), keys)[j] = parent[j]
        /\ hash_block_tokens(parent, BlockTokens(tokens, p), keys)[Len(parent) + 1].tokens = BlockTokens(tokens, p)
        /\ hash_block_tokens(parent, BlockTokens(tokens, p), keys)[Len(parent) + 1].keys = keys
    BY <1>1, <1>2, <1>4, HashBlock
  <2> QED BY <1>2, <2>1, <2>2
<1>7. new = [parent |-> hash, idx |-> extra.idx, made |-> made]
  BY DEF RunStep, BlockTokens
<1> HIDE DEF hash, keys
<1>8. made \in Seq(Hash) /\ Len(made) = n /\ made[n] = hash /\ \A i \in 1..n-1 : made[i] = s.made[i]
  BY <1>2, <1>6, AppendProperties
<1> HIDE DEF p, start, end, extra, parent, made
<1>9. new.parent = hash /\ new.idx = extra.idx /\ new.made = made
  BY <1>7
<1> HIDE DEF new
<1>10. HashOf(q, tokens, hash, p)
  <2> SUFFICES ASSUME NEW j \in 1..p
               PROVE  hash[j].tokens = BlockTokens(tokens, j) /\ KeysOfBlock(q, j, hash[j].keys)
    BY <1>6 DEF HashOf
  <2>1. CASE j = p
    BY <1>5, <1>6, <2>1
  <2>2. CASE j # p
    <3>1. j \in 1..p-1
      BY <1>1, <2>2
    <3> QED BY <1>2, <1>6, <3>1
  <2> QED BY <2>1, <2>2
<1>11. \A i \in 1..n : HashOf(q, tokens, made[i], k + i)
  <2> SUFFICES ASSUME NEW i \in 1..n PROVE HashOf(q, tokens, made[i], k + i)
    OBVIOUS
  <2>1. CASE i = n
    BY <1>8, <1>10, <2>1 DEF p
  <2>2. CASE i # n
    <3>1. i \in 1..n-1
      BY <2>2
    <3> QED BY <1>2, <1>8, <3>1
  <2> QED BY <2>1, <2>2
<1>12. Starts(q.mm_features, p * hash_block_size, extra.idx, f0)
  BY <1>3, <1>5
<1>13. RunIsRight(q, tokens, k, n, f0, new)
  BY <1>4, <1>8, <1>9, <1>10, <1>11, <1>12 DEF RunIsRight, p
<1> QED BY <1>13 DEF new

Runs(R, q, tokens, k, m, parent, from) ==
    /\ R[0] = RunStart(parent, from)
    /\ \A n \in 1..m : R[n] = RunStep(q, tokens, k, n, R[n - 1])
    /\ Chain(q, tokens, k, parent, from) = R[m].made

LEMMA RunExists ==
    ASSUME NEW q \in Inputs, NEW tokens \in Seq(Tokens), NEW k \in Nat, NEW m \in Nat,
           m = Len(tokens) \div hash_block_size - k, (k + m) * hash_block_size <= Len(tokens),
           NEW parent \in Hash, NEW from \in Places(q.mm_features)
    PROVE  \E R : Runs(R, q, tokens, k, m, parent, from)
<1> DEFINE T == RunState(q)
           t0 == RunStart(parent, from)
           step == [n \in 1..m |-> [s \in T |-> RunStep(q, tokens, k, n, s)]]
           B == hash_block_size
           Is(Run) == Run = [n \in 0..Len(tokens) \div B - k |->
            IF n = 0 THEN [parent |-> parent, idx |-> from, made |-> <<>>]
            ELSE LET before == Run[n - 1]
                     start == (k + n - 1) * B
                     extra == ExtraKeys(q, start, start + B, before.idx)
                     hash == hash_block_tokens(before.parent, SubSeq(tokens, start + 1, start + B), extra.keys)
                 IN  [parent |-> hash, idx |-> extra.idx, made |-> Append(before.made, hash)]]
           Follows(R) == R = [n \in 0..m |-> IF n = 0 THEN t0 ELSE RunStep(q, tokens, k, n, R[n - 1])]
<1>1. t0 \in T
  BY DEF RunState, RunStart
<1>2. step \in [1..m -> [T -> T]]
  <2>1. ASSUME NEW n \in 1..m, NEW s \in T PROVE RunStep(q, tokens, k, n, s) \in T
    <3>1. (k + n) * hash_block_size <= Len(tokens)
      <4>1. k + n <= k + m /\ k + n \in Nat /\ k + m \in Nat
        OBVIOUS
      <4>2. (k + n) * hash_block_size <= (k + m) * hash_block_size
        <5> DEFINE u == k + n
                   v == k + m
        <5>1. u <= v /\ u \in Nat /\ v \in Nat /\ v - u \in Nat
          BY <4>1
        <5> HIDE DEF u, v
        <5>2. (v - u) * hash_block_size \in Nat /\ (v - u) * hash_block_size = v * hash_block_size - u * hash_block_size
              /\ v * hash_block_size \in Nat /\ u * hash_block_size \in Nat
          BY <5>1, BlockSize
        <5>3. u * hash_block_size <= v * hash_block_size
          BY <5>2
        <5> QED BY <5>3 DEF u, v
      <4>3. (k + n) * hash_block_size \in Nat /\ (k + m) * hash_block_size \in Nat
        BY <4>1, BlockSize
      <4> QED BY <4>2, <4>3
    <3>2. n \in Nat \ {0}
      OBVIOUS
    <3> QED BY <3>1, <3>2, RunStepTypes
  <2> HIDE DEF T
  <2> QED BY <2>1
<1>3. PICK f : f \in [0..m -> T] /\ f[0] = t0 /\ \A n \in 1..m : f[n] = step[n][f[n-1]]
  <2> HIDE DEF T, t0, step
  <2>1. \E f : Walks(f, T, t0, m, step)
    BY <1>1, <1>2, StepFunction, Zenon
  <2> QED BY <2>1 DEF Walks
<1>4. \A R : Is(R) <=> Follows(R)
  BY DEF RunStart, RunStep
<1>5. Follows(f)
  <2>1. \A n \in 1..m : f[n] = RunStep(q, tokens, k, n, f[n-1])
    <3> SUFFICES ASSUME NEW n \in 1..m PROVE f[n] = RunStep(q, tokens, k, n, f[n-1])
      OBVIOUS
    <3>1. f[n-1] \in T
      <4>1. n - 1 \in 0..m
        OBVIOUS
      <4> HIDE DEF T
      <4> QED BY <1>3, <4>1
    <3> HIDE DEF T, t0
    <3> QED BY <1>3, <3>1
  <2>2. \A n \in 0..m : n = 0 \/ n \in 1..m
    OBVIOUS
  <2>3. \A n \in 0..m : f[n] = IF n = 0 THEN t0 ELSE RunStep(q, tokens, k, n, f[n-1])
    <3> HIDE DEF T, t0, step
    <3> QED BY <1>3, <2>1, <2>2
  <2> HIDE DEF T, t0, step
  <2> QED BY <1>3, <2>3
<1>6. PICK g : g = CHOOSE h : Is(h)
  OBVIOUS
<1>7. Follows(g)
  <2> HIDE DEF Is, Follows
  <2> QED BY <1>4, <1>5, <1>6
<1>8. g[0] = t0 /\ \A n \in 1..m : g[n] = RunStep(q, tokens, k, n, g[n-1])
  <2>1. 0 \in 0..m /\ \A n \in 1..m : n \in 0..m /\ n # 0
    OBVIOUS
  <2> HIDE DEF t0
  <2> QED BY <1>7, <2>1
<1>9. Chain(q, tokens, k, parent, from) = g[m].made
  BY <1>6 DEF Chain
<1> QED BY <1>8, <1>9 DEF Runs

IsChain(q, tokens, k, c) ==
    /\ c \in Seq(Hash) /\ Len(c) = Len(tokens) \div hash_block_size - k
    /\ \A i \in 1..Len(c) : HashOf(q, tokens, c[i], k + i)

LEMMA Products ==
    ASSUME NEW u \in Nat, NEW v \in Nat
    PROVE  /\ u * hash_block_size \in Nat
           /\ u <= v <=> u * hash_block_size <= v * hash_block_size
           /\ (u + 1) * hash_block_size = u * hash_block_size + hash_block_size
<1> DEFINE B == hash_block_size
<1>1. B \in Nat \ {0}
  BY BlockSize
<1> HIDE DEF B
<1>2. ASSUME NEW x \in Nat, NEW y \in Nat, x <= y PROVE x * B <= y * B
  <2>1. y - x \in Nat /\ (y - x) * B \in Nat /\ (y - x) * B = y * B - x * B /\ x * B \in Nat /\ y * B \in Nat
    BY <1>1, <1>2
  <2> QED BY <2>1
<1>3. ASSUME NEW x \in Nat PROVE x * B \in Nat /\ (x + 1) * B = x * B + B
  BY <1>1
<1>4. ASSUME u * B <= v * B PROVE u <= v
  <2> SUFFICES ASSUME v + 1 <= u PROVE FALSE
    OBVIOUS
  <2>1. (v + 1) * B <= u * B
    BY <1>2
  <2> QED BY <1>1, <1>3, <1>4, <2>1
<1> QED BY <1>2, <1>3, <1>4 DEF B

(* Up to which block n tokens reach. *)
Complete(n, d) ==
    /\ d \in Nat
    /\ \A j \in Nat :
          /\ j * hash_block_size \in Nat
          /\ (j <= d <=> j * hash_block_size <= n)
          /\ (j * hash_block_size + hash_block_size > n <=> d <= j)

LEMMA CompleteBlocks ==
    ASSUME NEW n \in Nat
    PROVE  Complete(n, n \div hash_block_size)
<1> DEFINE d == n \div hash_block_size
           B == hash_block_size
<1>1. d \in Nat /\ d * B \in Nat /\ d * B <= n /\ n < d * B + B
  BY Division
<1> HIDE DEF d
<1>2. ASSUME NEW j \in Nat
      PROVE  j * B \in Nat /\ (j <= d <=> j * B <= n) /\ (j * B + B > n <=> d <= j)
  <2> DEFINE x == j * B
             y == d * B
  <2>1. j * hash_block_size \in Nat /\ (j <= d <=> j * hash_block_size <= d * hash_block_size)
    BY <1>1, Products
  <2>2. d <= j <=> d * hash_block_size <= j * hash_block_size
    BY <1>1, Products
  <2>3. d + 1 <= j <=> (d + 1) * hash_block_size <= j * hash_block_size
    BY <1>1, Products
  <2>4. (d + 1) * hash_block_size = d * hash_block_size + hash_block_size
    BY <1>1, Products
  <2>5. j + 1 <= d <=> (j + 1) * hash_block_size <= d * hash_block_size
    BY <1>1, Products
  <2>6. (j + 1) * hash_block_size = j * hash_block_size + hash_block_size
    BY Products
  <2>7. /\ x \in Nat /\ (j <= d <=> x <= y) /\ (d <= j <=> y <= x) /\ (d + 1 <= j <=> y + B <= x)
        /\ (j + 1 <= d <=> x + B <= y) /\ B \in Nat \ {0} /\ y \in Nat /\ y <= n /\ n < y + B
    BY <1>1, <2>1, <2>2, <2>3, <2>4, <2>5, <2>6, BlockSize
  <2> HIDE DEF x, y, B
  <2>8. x \in Nat /\ (j <= d <=> x <= n) /\ (x + B > n <=> d <= j)
    BY <1>1, <2>7
  <2> QED BY <2>8 DEF x
<1> QED BY <1>1, <1>2 DEF Complete, d

LEMMA ChainIsRight ==
    ASSUME NEW q \in Inputs, NEW tokens \in Seq(Tokens), NEW k \in Nat, k <= Len(tokens) \div hash_block_size,
           NEW parent, HashOf(q, tokens, parent, k), NEW from, SetsOut(q, k, from)
    PROVE  IsChain(q, tokens, k, Chain(q, tokens, k, parent, from))
<1> DEFINE d == Len(tokens) \div hash_block_size
           m == d - k
           c == Chain(q, tokens, k, parent, from)
<1>1. d \in Nat /\ m \in Nat /\ k + m = d /\ d * hash_block_size <= Len(tokens)
  <2>1. Len(tokens) \in Nat
    OBVIOUS
  <2>2. d \in Nat /\ d * hash_block_size <= Len(tokens)
    BY <2>1, Division
  <2> HIDE DEF d
  <2> QED BY <2>2 DEF d
<1>2. parent \in Hash
  BY DEF HashOf
<1>20. from \in {1, -1} /\ from \in Places(q.mm_features)
  <2>1. Len(q.mm_features) \in Nat
    BY InputTypes
  <2> QED BY <2>1 DEF SetsOut, Places
<1>3. PICK R : Runs(R, q, tokens, k, m, parent, from)
  <2>1. (k + m) * hash_block_size <= Len(tokens) /\ m = Len(tokens) \div hash_block_size - k
    BY <1>1
  <2> HIDE DEF m
  <2> QED BY <1>1, <1>2, <1>20, <2>1, RunExists
<1> DEFINE Good == {n \in 0..m : RunIsRight(q, tokens, k, n, from, R[n])}
<1> HIDE DEF d, m, c
<1>4. 0 \in Good
  <2>1. R[0] = RunStart(parent, from)
    BY <1>3 DEF Runs
  <2>2. R[0].parent = parent /\ R[0].idx = from /\ R[0].made = <<>>
    BY <2>1 DEF RunStart
  <2>3. k + 0 = k /\ Len(<<>>) = 0 /\ <<>> \in Seq(Hash)
    OBVIOUS
  <2>4. RunIsRight(q, tokens, k, 0, from, R[0])
    BY <1>20, <2>2, <2>3 DEF RunIsRight, Starts
  <2> QED BY <1>1, <2>4
<1>5. ASSUME NEW n \in 1..m, n - 1 \in Good PROVE n \in Good
  <2>1. R[n] = RunStep(q, tokens, k, n, R[n-1])
    BY <1>3 DEF Runs
  <2>2. RunIsRight(q, tokens, k, n - 1, from, R[n-1]) /\ n \in Nat \ {0} /\ n \in 0..m
    BY <1>1, <1>5
  <2>3. (k + n) * hash_block_size <= Len(tokens)
    <3> DEFINE u == k + n
    <3>1. u \in Nat /\ u <= d
      BY <1>1
    <3> HIDE DEF u
    <3>2. u * hash_block_size <= d * hash_block_size /\ u * hash_block_size \in Nat /\ d * hash_block_size \in Nat
      BY <1>1, <3>1, Products
    <3>3. u * hash_block_size <= Len(tokens)
      BY <1>1, <3>2
    <3> QED BY <3>3 DEF u
  <2>4. RunIsRight(q, tokens, k, n, from, RunStep(q, tokens, k, n, R[n-1]))
    BY <2>2, <2>3, RunStepIsRight
  <2> QED BY <2>1, <2>2, <2>4
<1>6. 0..m \subseteq Good
  <2> HIDE DEF Good
  <2> QED BY <1>1, <1>4, <1>5, BoundedInduction
<1>7. RunIsRight(q, tokens, k, m, from, R[m]) /\ c = R[m].made
  BY <1>1, <1>3, <1>6 DEF Runs, c
<1>8. c \in Seq(Hash) /\ Len(c) = m /\ \A i \in 1..m : HashOf(q, tokens, c[i], k + i)
  BY <1>7 DEF RunIsRight
<1> QED BY <1>8 DEF IsChain, c, m, d

LEMMA BlockTokensAre ==
    ASSUME NEW tokens \in Seq(Tokens), NEW p \in Nat \ {0}, p * hash_block_size <= Len(tokens)
    PROVE  /\ BlockTokens(tokens, p) \in Seq(Tokens) /\ Len(BlockTokens(tokens, p)) = hash_block_size
           /\ \A i \in 1..hash_block_size : /\ (p - 1) * hash_block_size + i \in 1..Len(tokens)
                                            /\ (p - 1) * hash_block_size + i <= p * hash_block_size
                                            /\ BlockTokens(tokens, p)[i] = tokens[(p - 1) * hash_block_size + i]
<1> DEFINE B == hash_block_size
           u == (p - 1) * B
           v == p * B
           a == u + 1
           b == u + B
           t == BlockTokens(tokens, p)
<1>1. u \in Nat /\ u + B = v /\ v <= Len(tokens) /\ Len(tokens) \in Nat /\ B \in Nat \ {0}
  BY Blocks, BlockSize
<1>2. t = SubSeq(tokens, a, b)
  BY DEF BlockTokens
<1> HIDE DEF u, v, B, t
<1>3. a \in Int /\ b \in Int /\ 1 <= a /\ b <= Len(tokens) /\ a <= b + 1 /\ \A i \in a..b : i \in 1..Len(tokens)
  BY <1>1
<1>4. \A i \in a..b : tokens[i] \in Tokens
  BY <1>3
<1>5. b - a + 1 = B /\ \A i \in 1..B : u + i \in 1..Len(tokens) /\ u + i <= v /\ a + i - 1 = u + i
  BY <1>1
<1> HIDE DEF a, b
<1>6. t \in Seq(Tokens) /\ Len(t) = IF a <= b THEN b - a + 1 ELSE 0
  BY <1>2, <1>3, <1>4, SubSeqProperties
<1>7. \A i \in 1..Len(t) : t[i] = tokens[a + i - 1]
  BY <1>2, <1>3, <1>4, SubSeqProperties
<1>8. Len(t) = B
  BY <1>1, <1>5, <1>6 DEF a, b
<1>9. \A i \in 1..B : u + i \in 1..Len(tokens) /\ u + i <= v /\ t[i] = tokens[u + i]
  BY <1>5, <1>7, <1>8
<1> QED BY <1>6, <1>8, <1>9 DEF t, u, v, B

LEMMA SameBlocks ==
    ASSUME NEW s \in Seq(Tokens), NEW t \in Seq(Tokens), NEW n \in Nat, \A i \in 1..n : s[i] = t[i],
           NEW p \in Nat \ {0}, p * hash_block_size <= n, n <= Len(s), n <= Len(t)
    PROVE  BlockTokens(s, p) = BlockTokens(t, p)
<1> DEFINE a == BlockTokens(s, p)
           b == BlockTokens(t, p)
           B == hash_block_size
           u == (p - 1) * hash_block_size
           v == p * hash_block_size
<1>0. B \in Nat /\ v \in Nat /\ Len(s) \in Nat /\ Len(t) \in Nat /\ v <= Len(s) /\ v <= Len(t) /\ v <= n
  <2>1. B \in Nat /\ v \in Nat /\ v <= n
    BY Blocks, BlockSize
  <2>2. Len(s) \in Nat /\ Len(t) \in Nat
    OBVIOUS
  <2> HIDE DEF B, v
  <2> QED BY <2>1, <2>2
<1>1. a \in Seq(Tokens) /\ Len(a) = B /\ \A i \in 1..B : u + i \in 1..Len(s) /\ u + i <= v /\ a[i] = s[u + i]
  <2>1. p * hash_block_size <= Len(s)
    BY <1>0
  <2> QED BY <2>1, BlockTokensAre
<1>2. b \in Seq(Tokens) /\ Len(b) = B /\ \A i \in 1..B : b[i] = t[u + i]
  <2>1. p * hash_block_size <= Len(t)
    BY <1>0
  <2> QED BY <2>1, BlockTokensAre
<1> HIDE DEF a, b, B, u, v
<1>3. \A i \in 1..B : a[i] = b[i]
  <2> SUFFICES ASSUME NEW i \in 1..B PROVE a[i] = b[i]
    OBVIOUS
  <2>1. u + i \in 1..n
    BY <1>0, <1>1
  <2> QED BY <1>1, <1>2, <2>1
<1>4. a = b
  BY <1>1, <1>2, <1>3, SeqEqual
<1> QED BY <1>4 DEF a, b

----------------------------------------------------------------------------
(* The invariant *)

HashList(q, tokens, hashes) ==
    /\ hashes \in Seq(Hash) /\ Len(hashes) = Len(tokens) \div hash_block_size
    /\ \A n \in 1..Len(hashes) : HashOf(q, tokens, hashes[n], n)

(* Inductive: what the three properties say is said of each hash through    *)
(* what it was made of, which later steps do not change.                    *)
RequestInv(r) ==
    /\ input[r] \in Inputs /\ all_tokens[r] \in Seq(Tokens) /\ Len(input[r].prompt) <= Len(all_tokens[r])
    /\ \A i \in 1..Len(input[r].prompt) : all_tokens[r][i] = input[r].prompt[i]
    /\ HashList(input[r], all_tokens[r], block_hashes[r])
IInv ==
    /\ input \in [Requests -> Inputs] /\ all_tokens \in [Requests -> Seq(Tokens)]
    /\ block_hashes \in [Requests -> Seq(Hash)]
    /\ \A r \in Requests : RequestInv(r)

LEMMA NoHash ==
    ASSUME NEW q, NEW tokens
    PROVE  HashOf(q, tokens, NONE_HASH, 0)
BY DEF HashOf, NONE_HASH, Hash

LEMMA HasherOfNone ==
    ASSUME NEW q \in Inputs, NEW tokens \in Seq(Tokens)
    PROVE  IsChain(q, tokens, 0, request_block_hasher(q, tokens, <<>>))
<1> DEFINE c == request_block_hasher(q, tokens, <<>>)
           d == Len(tokens) \div hash_block_size
           n == Len(tokens)
           first == Chain(q, tokens, 0, NONE_HASH, 1)
<1>1. n \in Nat /\ Complete(n, d)
  BY CompleteBlocks
<1>2. c = IF 0 * hash_block_size + hash_block_size > n THEN <<>> ELSE first
  BY DEF request_block_hasher
<1>3. IsChain(q, tokens, 0, first)
  <2> DEFINE none == NONE_HASH
  <2>2. SetsOut(q, 0, 1)
    BY DEF SetsOut
  <2>3. HashOf(q, tokens, none, 0)
    BY NoHash
  <2>4. 0 <= Len(tokens) \div hash_block_size
    BY <1>1 DEF Complete
  <2> HIDE DEF none
  <2>5. IsChain(q, tokens, 0, Chain(q, tokens, 0, none, 1))
    BY <2>2, <2>3, <2>4, ChainIsRight
  <2> QED BY <2>5 DEF none
<1>4. CASE 0 * hash_block_size + hash_block_size > n
  <2>1. d <= 0
    BY <1>1, <1>4 DEF Complete
  <2>2. d = 0 /\ c = <<>>
    <3> HIDE DEF d
    <3> QED BY <1>1, <1>2, <1>4, <2>1 DEF Complete
  <2>3. c \in Seq(Hash) /\ Len(c) = 0 /\ Len(tokens) \div hash_block_size - 0 = 0
    <3>1. Len(tokens) \div hash_block_size - 0 = 0
      BY <2>2
    <3> HIDE DEF c, d
    <3> QED BY <2>2, <3>1
  <2> HIDE DEF c
  <2>4. IsChain(q, tokens, 0, c)
    BY <2>3 DEF IsChain
  <2> QED BY <2>4 DEF c
<1>5. CASE ~(0 * hash_block_size + hash_block_size > n)
  <2>1. c = first
    BY <1>2, <1>5
  <2> QED BY <1>3, <2>1
<1> QED BY <1>4, <1>5

LEMMA FirstHashes ==
    ASSUME NEW q \in Inputs, NEW tokens \in Seq(Tokens), NEW c, IsChain(q, tokens, 0, c)
    PROVE  HashList(q, tokens, c)
<1> DEFINE d == Len(tokens) \div hash_block_size
           l == Len(c)
<1>1. c \in Seq(Hash) /\ l = d - 0 /\ \A n \in 1..l : HashOf(q, tokens, c[n], 0 + n)
  BY DEF IsChain
<1>2. d \in Nat /\ l \in Nat
  BY <1>1, Division
<1> HIDE DEF d, l
<1>3. l = d /\ \A n \in 1..l : 0 + n = n
  BY <1>1, <1>2
<1>4. \A n \in 1..l : HashOf(q, tokens, c[n], n)
  BY <1>1, <1>3
<1> QED BY <1>1, <1>3, <1>4 DEF HashList, HashOf, d, l

(* What a hash was made of stays when tokens are appended. *)
LEMMA HashesStay ==
    ASSUME NEW q, NEW s \in Seq(Tokens), NEW t \in Seq(Tokens), Len(s) <= Len(t), \A i \in 1..Len(s) : s[i] = t[i],
           NEW n \in Nat, n * hash_block_size <= Len(s), NEW h, HashOf(q, s, h, n)
    PROVE  HashOf(q, t, h, n)
<1>1. ASSUME NEW j \in 1..n PROVE BlockTokens(s, j) = BlockTokens(t, j)
  <2>1. j \in Nat \ {0} /\ j <= n
    OBVIOUS
  <2>2. j * hash_block_size <= n * hash_block_size /\ j * hash_block_size \in Nat /\ n * hash_block_size \in Nat
    BY <2>1, Products
  <2>3. j * hash_block_size <= Len(s)
    <3> DEFINE u == j * hash_block_size
               v == n * hash_block_size
    <3>1. u <= v /\ v <= Len(s) /\ u \in Nat /\ v \in Nat /\ Len(s) \in Nat
      BY <2>2
    <3> HIDE DEF u, v
    <3>2. u <= Len(s)
      BY <3>1
    <3> QED BY <3>2 DEF u
  <2> QED BY <2>1, <2>3, SameBlocks
<1> QED BY <1>1 DEF HashOf

LEMMA HashesGrow ==
    ASSUME NEW q \in Inputs, NEW s \in Seq(Tokens), NEW t \in Seq(Tokens), Len(s) <= Len(t),
           \A i \in 1..Len(s) : s[i] = t[i], Len(q.prompt) <= Len(s),
           NEW hashes, HashList(q, s, hashes)
    PROVE  HashList(q, t, hashes \o request_block_hasher(q, t, hashes))
<1> DEFINE k == Len(hashes)
           d == Len(t) \div hash_block_size
           e == Len(q.prompt) \div hash_block_size
           c == request_block_hasher(q, t, hashes)
           all == hashes \o c
           l == Len(s)
           m == Len(t)
           p == Len(q.prompt)
<1>1. /\ l \in Nat /\ m \in Nat /\ p \in Nat /\ p <= l /\ l <= m
      /\ hashes \in Seq(Hash) /\ k \in Nat
      /\ k = l \div hash_block_size /\ \A n \in 1..k : HashOf(q, s, hashes[n], n)
  BY InputTypes DEF HashList
<1>2. Complete(l, k) /\ Complete(m, d) /\ Complete(p, e)
  <2>1. Complete(l, l \div hash_block_size) /\ Complete(m, m \div hash_block_size) /\ Complete(p, p \div hash_block_size)
    <3> HIDE DEF l, m, p
    <3> QED BY <1>1, CompleteBlocks
  <2>2. l \div hash_block_size = k
    BY <1>1
  <2> QED BY <2>1, <2>2
<1>4. c = IF k * hash_block_size + hash_block_size > m THEN <<>>
          ELSE Chain(q, t, k, IF hashes = <<>> THEN NONE_HASH ELSE Last(hashes), IF hashes = <<>> THEN 1 ELSE -1)
  BY DEF request_block_hasher
<1> HIDE DEF d, e, p, m, l, c, all, k
<1>5. k <= d /\ e <= k
  <2> DEFINE x == k * hash_block_size
             y == e * hash_block_size
  <2>1. /\ k \in Nat /\ e \in Nat /\ d \in Nat /\ x \in Nat /\ y \in Nat /\ (k <= k <=> x <= l)
        /\ (k <= d <=> x <= m) /\ (e <= e <=> y <= p) /\ (e <= k <=> y <= l)
    BY <1>1, <1>2 DEF Complete
  <2> HIDE DEF x, y
  <2> QED BY <1>1, <2>1
<1>6. \A n \in 1..k : HashOf(q, t, hashes[n], n)
  <2> SUFFICES ASSUME NEW n \in 1..k PROVE HashOf(q, t, hashes[n], n)
    OBVIOUS
  <2> DEFINE h == hashes[n]
  <2>1. n \in Nat /\ n <= k
    BY <1>1
  <2>2. n * hash_block_size <= Len(s)
    BY <1>2, <2>1 DEF Complete, l
  <2>3. HashOf(q, s, h, n)
    BY <1>1
  <2> HIDE DEF h
  <2>4. HashOf(q, t, h, n)
    BY <2>1, <2>2, <2>3, HashesStay
  <2> QED BY <2>4 DEF h
<1>7. IsChain(q, t, k, c)
  <2>1. CASE k * hash_block_size + hash_block_size > m
    <3>1. d <= k /\ d \in Nat
      BY <1>1, <1>2, <2>1 DEF Complete
    <3>2. d - k = 0
      BY <1>1, <1>5, <3>1
    <3>3. c = <<>>
      BY <1>4, <2>1
    <3>4. c \in Seq(Hash) /\ Len(c) = 0 /\ 1..Len(c) = {}
      BY <3>3
    <3> QED BY <3>2, <3>4 DEF IsChain, d
  <2>2. CASE ~(k * hash_block_size + hash_block_size > m) /\ k = 0
    <3>1. hashes = <<>>
      BY <1>1, <2>2, EmptySeq DEF k
    <3>2. IsChain(q, t, 0, c)
      BY <3>1, HasherOfNone DEF c
    <3> QED BY <2>2, <3>2
  <2>3. CASE ~(k * hash_block_size + hash_block_size > m) /\ k # 0
    <3> DEFINE parent == hashes[k]
               from == -1
    <3>1. hashes # <<>> /\ k \in 1..k
      BY <1>1, <2>3 DEF k
    <3>2. c = Chain(q, t, k, parent, from)
      BY <1>4, <2>3, <3>1 DEF Last, k
    <3>4. HashOf(q, t, parent, k)
      BY <1>6, <3>1
    <3>5. SetsOut(q, k, from)
      BY <1>5 DEF SetsOut, e
    <3>7. k <= Len(t) \div hash_block_size
      BY <1>5 DEF d
    <3> HIDE DEF parent, from
    <3>8. IsChain(q, t, k, Chain(q, t, k, parent, from))
      BY <1>1, <3>4, <3>5, <3>7, ChainIsRight
    <3> QED BY <3>2, <3>8
  <2> QED BY <2>1, <2>2, <2>3
<1>8. c \in Seq(Hash) /\ Len(c) = d - k /\ \A i \in 1..Len(c) : HashOf(q, t, c[i], k + i)
  BY <1>7 DEF IsChain, d
<1>10. all \in Seq(Hash) /\ Len(all) = k + Len(c)
  <2>1. hashes \o c \in Seq(Hash) /\ Len(hashes \o c) = Len(hashes) + Len(c)
    BY <1>1, <1>8, ConcatProperties
  <2> QED BY <2>1 DEF all, k
<1>11. \A i \in 1..Len(all) : all[i] = IF i <= k THEN hashes[i] ELSE c[i - k]
  <2>1. \A i \in 1..Len(hashes) + Len(c) : (hashes \o c)[i] = IF i <= Len(hashes) THEN hashes[i] ELSE c[i - Len(hashes)]
    BY <1>1, <1>8, ConcatProperties
  <2> QED BY <1>10, <2>1 DEF all, k
<1>12. Len(all) = d /\ Len(c) \in Nat
  <2>1. d \in Nat /\ Len(c) \in Nat
    BY <1>2, <1>8 DEF Complete
  <2> QED BY <1>1, <1>5, <1>8, <1>10, <2>1
<1>13. ASSUME NEW n \in 1..Len(all) PROVE HashOf(q, t, all[n], n)
  <2>0. n \in Nat
    BY <1>12
  <2>1. CASE n <= k
    <3>1. n \in 1..k
      BY <2>0, <2>1, <1>1
    <3> QED BY <1>6, <1>11, <2>1, <3>1
  <2>2. CASE ~(n <= k)
    <3> DEFINE i == n - k
    <3>1. i \in 1..Len(c) /\ k + i = n /\ k < n
      BY <1>1, <1>10, <1>12, <2>0, <2>2
    <3>2. all[n] = c[i]
      BY <1>11, <2>2
    <3> HIDE DEF i
    <3> QED BY <1>8, <3>1, <3>2
  <2> QED BY <2>1, <2>2
<1>14. HashList(q, t, all)
  BY <1>10, <1>12, <1>13 DEF HashList, d
<1> QED BY <1>14 DEF all, c

----------------------------------------------------------------------------
(* What equal hashes say *)

(* The block a position is in. *)
InBlock(i, j) ==
    /\ j \in Nat \ {0} /\ (j - 1) * hash_block_size \in Nat /\ j * hash_block_size \in Nat
    /\ (j - 1) * hash_block_size < i /\ i <= j * hash_block_size
    /\ \A n \in Nat : i <= n * hash_block_size => j <= n

LEMMA BlockOfPosition ==
    ASSUME NEW i \in Nat \ {0}
    PROVE  \E j : InBlock(i, j)
<1> DEFINE k == (i - 1) \div hash_block_size
           j == k + 1
           u == k * hash_block_size
           v == j * hash_block_size
<1>1. k \in Nat /\ u \in Nat /\ u <= i - 1 /\ i - 1 < u + hash_block_size
  <2>1. i - 1 \in Nat
    OBVIOUS
  <2> QED BY <2>1, Division
<1> HIDE DEF k
<1>2. j \in Nat \ {0} /\ j - 1 = k
  BY <1>1
<1>3. v = u + hash_block_size /\ v \in Nat
  BY <1>1, <1>2, Products
<1>4. u < i /\ i <= v
  <2> HIDE DEF u, v
  <2> QED BY <1>1, <1>3, BlockSize
<1>5. ASSUME NEW n \in Nat, i <= n * hash_block_size PROVE j <= n
  <2> DEFINE w == n * hash_block_size
  <2>1. w \in Nat /\ (n <= k <=> w <= u)
    BY <1>1, Products
  <2> HIDE DEF u, v, w
  <2>2. ~(n <= k)
    BY <1>1, <1>4, <1>5, <2>1 DEF w
  <2> QED BY <1>1, <2>2
<1>6. (j - 1) * hash_block_size = u
  BY <1>2
<1>7. InBlock(i, j)
  <2> HIDE DEF j, u
  <2> QED BY <1>1, <1>2, <1>3, <1>4, <1>5, <1>6 DEF InBlock, v
<1> QED BY <1>7

LEMMA SameTokens ==
    ASSUME NEW q, NEW p, NEW s \in Seq(Tokens), NEW t \in Seq(Tokens), NEW n \in Nat,
           n * hash_block_size <= Len(s), n * hash_block_size <= Len(t),
           NEW h, HashOf(q, s, h, n), HashOf(p, t, h, n)
    PROVE  \A i \in 1..n * hash_block_size : s[i] = t[i]
<1> DEFINE w == n * hash_block_size
<1>0. w \in Nat
  BY Products
<1>1. w \in Nat /\ w <= Len(s) /\ w <= Len(t) /\ Len(s) \in Nat /\ Len(t) \in Nat
  BY <1>0
<1> SUFFICES ASSUME NEW i \in 1..w PROVE s[i] = t[i]
  OBVIOUS
<1>2. i \in Nat \ {0} /\ i <= n * hash_block_size
  BY <1>1
<1>3. PICK j : InBlock(i, j)
  BY <1>2, BlockOfPosition
<1> DEFINE u == (j - 1) * hash_block_size
           v == j * hash_block_size
           c == i - u
<1>4. j \in Nat \ {0} /\ u \in Nat /\ v \in Nat /\ u < i /\ i <= v /\ j <= n
  BY <1>2, <1>3 DEF InBlock
<1>5. v = u + hash_block_size /\ v <= w
  BY <1>4, Blocks, Products
<1>6. c \in 1..hash_block_size /\ u + c = i
  <2> HIDE DEF u, v
  <2> QED BY <1>2, <1>4, <1>5, BlockSize
<1>7. v <= Len(s) /\ v <= Len(t)
  <2> HIDE DEF v, w
  <2> QED BY <1>1, <1>4, <1>5
<1>8. j \in 1..n
  BY <1>4
<1>9. BlockTokens(s, j) = BlockTokens(t, j)
  BY <1>8 DEF HashOf
<1>10. BlockTokens(s, j)[c] = s[u + c] /\ BlockTokens(t, j)[c] = t[u + c]
  <2> HIDE DEF c
  <2> QED BY <1>4, <1>6, <1>7, BlockTokensAre
<1> HIDE DEF u, c
<1> QED BY <1>6, <1>9, <1>10

LEMMA FirstOf ==
    ASSUME NEW T, NEW s \in Seq(T), NEW m \in Nat, m <= Len(s)
    PROVE  SubSeq(s, 1, m) \in Seq(T) /\ Len(SubSeq(s, 1, m)) = m /\ \A i \in 1..m : SubSeq(s, 1, m)[i] = s[i]
BY SubSeqProperties

LEMMA SamePrefix ==
    ASSUME NEW T, NEW s \in Seq(T), NEW t \in Seq(T), NEW m \in Nat, m <= Len(s), m <= Len(t),
           \A i \in 1..m : s[i] = t[i]
    PROVE  SubSeq(s, 1, m) = SubSeq(t, 1, m)
<1> DEFINE a == SubSeq(s, 1, m)
           b == SubSeq(t, 1, m)
<1>1. a \in Seq(T) /\ Len(a) = m /\ \A i \in 1..m : a[i] = s[i]
  BY FirstOf
<1>2. b \in Seq(T) /\ Len(b) = m /\ \A i \in 1..m : b[i] = t[i]
  BY FirstOf
<1> HIDE DEF a, b
<1>3. a = b
  BY <1>1, <1>2, SeqEqual
<1> QED BY <1>3 DEF a, b

LEMMA SameOptional ==
    ASSUME NEW S, NEW a \in Optional(S), NEW b \in Optional(S), ToSet(a) = ToSet(b)
    PROVE  a = b
<1>1. a = <<>> \/ \E x \in S : a = <<x>>
  BY DEF Optional
<1>2. b = <<>> \/ \E x \in S : b = <<x>>
  BY DEF Optional
<1> QED BY <1>1, <1>2, ToSetOfOne

(* Block j of q shows the image with the key y to a scan from f0. *)
Shown(q, j, y, f0, i) ==
    /\ i \in 1..Len(q.mm_features) /\ Position(q.mm_features, f0) <= i
    /\ q.mm_features[i].offset < j * hash_block_size /\ (j - 1) * hash_block_size < End(q.mm_features[i])
    /\ y = MMKeyOf(q.mm_features[i], (j - 1) * hash_block_size)
Says(q, j, keys, f0) ==
    /\ (j # 1 => ToSet(keys) \ MMKey = ToSet(q.lora))
    /\ \A y \in MMKey : y \in ToSet(keys) <=> \E i : Shown(q, j, y, f0, i)

LEMMA BlockSays ==
    ASSUME NEW q \in Inputs, NEW j \in Nat \ {0}, NEW f0 \in {1, -1}
    PROVE  Says(q, j, BlockKeys(q, j, f0), f0)
<1> DEFINE fs == q.mm_features
           start == (j - 1) * hash_block_size
           end == (j - 1) * hash_block_size + hash_block_size
           K == ToSet(BlockKeys(q, j, f0))
           J == Inside(fs, start, end, Position(fs, f0))
           M == KeysOf(fs, start, J)
           Z == IF start = 0 THEN ToSet(q.salt) ELSE {}
<1>1. start \in Nat /\ end \in Nat /\ start < end /\ end = j * hash_block_size
  BY Blocks
<1>2. K = ToSet(q.lora) \cup M \cup Z
  <2>1. BlockKeys(q, j, f0) = ExtraKeys(q, start, end, f0).keys
    BY DEF BlockKeys
  <2> HIDE DEF start, end, K
  <2>2. ToSet(ExtraKeys(q, start, end, f0).keys) = ToSet(q.lora) \cup M \cup Z
    BY <1>1, KeysContent
  <2> HIDE DEF M, Z
  <2> QED BY <2>1, <2>2 DEF K
<1>3. ToSet(q.lora) \subseteq Loras /\ ToSet(q.salt) \subseteq Salts /\ fs \in Seq(MMFeature)
  BY InputTypes
<1>4. j # 1 => start # 0
  <2>1. hash_block_size \in Nat \ {0}
    BY BlockHashesAssumption
  <2>2. \A m \in Nat \ {0} : m * hash_block_size # 0
    BY <2>1
  <2>3. j # 1 => j - 1 \in Nat \ {0}
    OBVIOUS
  <2> QED BY <2>2, <2>3
<1>5. M \subseteq MMKey
  <2>1. \A i \in 1..Len(fs) : MMKeyOf(fs[i], start) \in MMKey
    <3> HIDE DEF fs, start
    <3> QED BY <1>1, <1>3, FeatureTypes DEF MMKey, MMKeyOf
  <2> QED BY <2>1 DEF KeysOf, Inside
<1>6. \A y : y \in M <=> \E i : Shown(q, j, y, f0, i)
  <2>1. \A i : i \in J <=> (i \in 1..Len(fs) /\ Position(fs, f0) <= i /\ fs[i].offset < j * hash_block_size /\ start < End(fs[i]))
    BY <1>1 DEF Inside
  <2>2. \A i, y : Shown(q, j, y, f0, i) <=> (i \in J /\ y = MMKeyOf(fs[i], start))
    BY <2>1 DEF Shown
  <2> HIDE DEF J, fs, start
  <2> QED BY <2>2 DEF KeysOf
<1>7. Z \subseteq Salts /\ (j # 1 => Z = {})
  BY <1>3, <1>4
<1>8. Loras \cap MMKey = {} /\ Salts \cap MMKey = {}
  BY BlockHashesAssumption DEF MMKey
<1> DEFINE a == ToSet(q.lora)
<1> HIDE DEF K, M, Z, a
<1>10. a \subseteq Loras /\ K = a \cup M \cup Z
  BY <1>2, <1>3 DEF a
<1>11. j # 1 => K \ MMKey = a
  BY <1>5, <1>7, <1>8, <1>10
<1>13. \A y \in MMKey : y \in K <=> y \in M
  BY <1>7, <1>8, <1>10
<1> QED BY <1>6, <1>11, <1>13 DEF Says, K, a

LEMMA HashSays ==
    ASSUME NEW q \in Inputs, NEW j \in Nat \ {0}, NEW keys, KeysOfBlock(q, j, keys)
    PROVE  \E f0 \in {1, -1} : Says(q, j, keys, f0)
BY BlockSays DEF KeysOfBlock

LEMMA InToSet ==
    ASSUME NEW T, NEW s \in Seq(T)
    PROVE  \A x \in ToSet(s) : \E i \in 1..Len(s) : x = s[i]
BY DEF ToSet

(* The tokens of a request begin with its prompt. *)
BeginsWith(s, u) == Len(u) <= Len(s) /\ \A i \in 1..Len(u) : s[i] = u[i]

(* The first block's keys are the adapter's name, the images' keys and the  *)
(* salt, in this order.                                                     *)
LEMMA FirstBlockKeys ==
    ASSUME NEW q \in Inputs, NEW keys, KeysOfBlock(q, 1, keys)
    PROVE  \E m \in Seq(MMKey) : keys = Three(q.lora, m, q.salt)
<1>1. PICK f0 \in {1, -1} : keys = BlockKeys(q, 1, f0)
  BY DEF KeysOfBlock
<1> DEFINE fs == q.mm_features
           B == hash_block_size
           m == MMKeys(fs, 0, B, f0).keys
<1>2. B \in Nat \ {0} /\ (1 - 1) * B = 0 /\ (1 - 1) * B + B = B
  BY BlockHashesAssumption
<1>3. keys = ExtraKeys(q, 0, B, f0).keys
  BY <1>1, <1>2 DEF BlockKeys
<1>4. keys = Three(q.lora, m, q.salt)
  BY <1>3, ExtraIs DEF Salt
<1>5. fs \in Seq(MMFeature) /\ Sorted(fs) /\ f0 \in Places(fs)
  BY InputsAreSorted DEF Places
<1>6. m \in Seq(MMKey)
  <2> HIDE DEF fs
  <2> QED BY <1>2, <1>5, MMKeysTypes
<1> QED BY <1>4, <1>6

IsThree(w, s, t, u, T) ==
    /\ w \in Seq(T) /\ Len(w) = Len(s) + Len(t) + Len(u)
    /\ \A i \in 1..Len(s) : w[i] = s[i]
    /\ \A i \in 1..Len(t) : w[Len(s) + i] = t[i]
    /\ \A i \in 1..Len(u) : w[Len(s) + Len(t) + i] = u[i]

LEMMA IndexThree ==
    ASSUME NEW T, NEW s \in Seq(T), NEW t \in Seq(T), NEW u \in Seq(T)
    PROVE  IsThree(Three(s, t, u), s, t, u, T)
<1> DEFINE v == s \o t
           z == v \o u
<1>1. v \in Seq(T) /\ Len(v) = Len(s) + Len(t)
  BY ConcatProperties
<1>2. \A i \in 1..Len(s) + Len(t) : v[i] = IF i <= Len(s) THEN s[i] ELSE t[i - Len(s)]
  BY ConcatProperties
<1> HIDE DEF v
<1>3. z \in Seq(T) /\ Len(z) = Len(v) + Len(u)
  BY <1>1, ConcatProperties
<1>4. \A i \in 1..Len(v) + Len(u) : z[i] = IF i <= Len(v) THEN v[i] ELSE u[i - Len(v)]
  BY <1>1, ConcatProperties
<1>5. Three(s, t, u) = z
  BY DEF Three, v
<1> HIDE DEF z
<1>6. Len(s) \in Nat /\ Len(t) \in Nat /\ Len(u) \in Nat
  OBVIOUS
<1>7. ASSUME NEW i \in 1..Len(s) PROVE z[i] = s[i]
  <2>1. i \in 1..Len(s) + Len(t) /\ i \in 1..Len(v) + Len(u) /\ i <= Len(v) /\ i <= Len(s)
    BY <1>1, <1>6
  <2> QED BY <1>2, <1>4, <2>1
<1>8. ASSUME NEW i \in 1..Len(t) PROVE z[Len(s) + i] = t[i]
  <2> DEFINE k == Len(s) + i
  <2>1. /\ k \in 1..Len(s) + Len(t) /\ k \in 1..Len(v) + Len(u) /\ k <= Len(v) /\ ~(k <= Len(s))
        /\ k - Len(s) = i
    BY <1>1, <1>6
  <2> HIDE DEF k
  <2>2. z[k] = t[i]
    BY <1>2, <1>4, <2>1
  <2> QED BY <2>2 DEF k
<1>9. ASSUME NEW i \in 1..Len(u) PROVE z[Len(s) + Len(t) + i] = u[i]
  <2> DEFINE k == Len(s) + Len(t) + i
  <2>1. k \in 1..Len(v) + Len(u) /\ ~(k <= Len(v)) /\ k - Len(v) = i
    BY <1>1, <1>6
  <2> HIDE DEF k
  <2>2. z[k] = u[i]
    BY <1>4, <2>1
  <2> QED BY <2>2 DEF k
<1>10. IsThree(z, s, t, u, T)
  BY <1>1, <1>3, <1>7, <1>8, <1>9 DEF IsThree
<1> QED BY <1>5, <1>10

(* A list of the three parts with at most one name at each end: what the    *)
(* ends show.                                                               *)
AtMostOne(a, D) == a \in Seq(D) /\ Len(a) <= 1

LEMMA ShortFacts ==
    ASSUME NEW D, NEW a, AtMostOne(a, D)
    PROVE  a \in Seq(D) /\ Len(a) \in {0, 1} /\ (Len(a) = 1 => a[1] \in D)
<1>1. a \in Seq(D) /\ Len(a) <= 1
  BY DEF AtMostOne
<1>2. Len(a) \in Nat
  BY <1>1
<1> DEFINE n == Len(a)
<1>3. n \in {0, 1}
  <2>1. n \in Nat /\ n <= 1
    BY <1>1, <1>2
  <2> HIDE DEF n
  <2> QED BY <2>1
<1>4. n = 1 => a[1] \in D
  BY <1>1
<1> QED BY <1>1, <1>3, <1>4

ShowsEnds(w, a, m, c, D, M) ==
    /\ Len(a) \in {0, 1} /\ Len(c) \in {0, 1} /\ Len(m) \in Nat /\ Len(w) = Len(a) + Len(m) + Len(c)
    /\ Len(a) = 1 => w[1] \in D /\ w[1] = a[1]
    /\ Len(c) = 1 => w[Len(w)] \in D /\ w[Len(w)] = c[1]
    /\ Len(m) > 0 /\ Len(a) = 0 => w[1] \in M
    /\ Len(m) > 0 /\ Len(c) = 0 => w[Len(w)] \in M

LEMMA Ends ==
    ASSUME NEW D, NEW M, NEW a, NEW c, AtMostOne(a, D), AtMostOne(c, D), NEW m \in Seq(M)
    PROVE  ShowsEnds(Three(a, m, c), a, m, c, D, M)
<1> DEFINE T == D \cup M
           w == Three(a, m, c)
           W == Len(w)
           x == Len(a)
           z == Len(c)
           p == Len(m)
<1>1. /\ a \in Seq(D) /\ c \in Seq(D) /\ Len(a) \in {0, 1} /\ Len(c) \in {0, 1}
      /\ (Len(a) = 1 => a[1] \in D) /\ (Len(c) = 1 => c[1] \in D)
  BY ShortFacts
<1>2. a \in Seq(T) /\ c \in Seq(T) /\ m \in Seq(T)
  BY <1>1
<1>3. x \in {0, 1} /\ z \in {0, 1} /\ p \in Nat
  BY <1>1
<1> HIDE DEF T
<1>0. IsThree(w, a, m, c, T)
  BY <1>2, IndexThree
<1> HIDE DEF w
<1>4. Len(w) = Len(a) + Len(m) + Len(c)
  BY <1>0 DEF IsThree
<1>5. \A i \in 1..Len(a) : w[i] = a[i]
  BY <1>0 DEF IsThree
<1>6. \A i \in 1..Len(m) : w[Len(a) + i] = m[i]
  BY <1>0 DEF IsThree
<1>7. \A i \in 1..Len(c) : w[Len(a) + Len(m) + i] = c[i]
  BY <1>0 DEF IsThree
<1>8. W = x + p + z
  BY <1>4
<1>9. x = 1 => w[1] \in D /\ w[1] = a[1]
  <2> SUFFICES ASSUME x = 1 PROVE w[1] \in D /\ w[1] = a[1]
    OBVIOUS
  <2>1. 1 \in 1..Len(a)
    OBVIOUS
  <2> QED BY <1>1, <1>5, <2>1
<1>10. z = 1 => w[W] \in D /\ w[W] = c[1]
  <2> SUFFICES ASSUME z = 1 PROVE w[W] \in D /\ w[W] = c[1]
    OBVIOUS
  <2>1. 1 \in 1..Len(c) /\ W = Len(a) + Len(m) + 1
    BY <1>8
  <2>2. w[Len(a) + Len(m) + 1] = c[1]
    BY <1>7, <2>1
  <2>3. c[1] \in D
    BY <1>1
  <2> HIDE DEF W
  <2> QED BY <2>1, <2>2, <2>3
<1>11. p > 0 /\ x = 0 => w[1] \in M
  <2> SUFFICES ASSUME p > 0, x = 0 PROVE w[1] \in M
    OBVIOUS
  <2>1. 1 \in 1..Len(m) /\ Len(a) + 1 = 1
    BY <1>3
  <2>2. w[Len(a) + 1] = m[1]
    BY <1>6, <2>1
  <2> QED BY <2>1, <2>2
<1>12. p > 0 /\ z = 0 => w[W] \in M
  <2> SUFFICES ASSUME p > 0, z = 0 PROVE w[W] \in M
    OBVIOUS
  <2>1. p \in 1..Len(m) /\ Len(a) + p = W
    BY <1>3, <1>8
  <2>2. w[Len(a) + p] = m[p]
    BY <1>6, <2>1
  <2> QED BY <2>1, <2>2
<1>13. ShowsEnds(w, a, m, c, D, M)
  BY <1>3, <1>8, <1>9, <1>10, <1>11, <1>12 DEF ShowsEnds
<1> QED BY <1>13 DEF w

IsJoined(j, a, c, D) ==
    /\ j \in Seq(D) /\ Len(j) = Len(a) + Len(c)
    /\ Len(a) = 1 => j[1] = a[1]
    /\ Len(c) = 1 => j[Len(a) + 1] = c[1]

LEMMA JoinTwo ==
    ASSUME NEW D, NEW a, NEW c, AtMostOne(a, D), AtMostOne(c, D)
    PROVE  IsJoined(a \o c, a, c, D)
<1> DEFINE j == a \o c
           x == Len(a)
           z == Len(c)
<1>1. a \in Seq(D) /\ c \in Seq(D) /\ x \in {0, 1} /\ z \in {0, 1}
  BY ShortFacts
<1>2. j \in Seq(D) /\ Len(j) = x + z
  BY <1>1, ConcatProperties
<1>3. \A i \in 1..x+z : j[i] = IF i <= x THEN a[i] ELSE c[i - x]
  BY <1>1, ConcatProperties
<1> HIDE DEF j
<1>4. x = 1 => j[1] = a[1]
  BY <1>1, <1>3
<1>5. z = 1 => j[x + 1] = c[1]
  <2> SUFFICES ASSUME z = 1 PROVE j[x + 1] = c[1]
    OBVIOUS
  <2>1. x + 1 \in 1..x+z /\ ~(x + 1 <= x) /\ x + 1 - x = 1
    BY <1>1
  <2> QED BY <1>3, <2>1
<1>6. IsJoined(j, a, c, D)
  BY <1>2, <1>4, <1>5 DEF IsJoined
<1> QED BY <1>6 DEF j

(* With the images' keys between them, which neither can be, the names in a *)
(* row are read off the list from its ends.                                 *)
SameRow(a, c, b, d) == a \o c = b \o d

LEMMA SameNames ==
    ASSUME NEW D, NEW M, D \cap M = {},
           NEW a, NEW b, NEW c, NEW d, AtMostOne(a, D), AtMostOne(b, D), AtMostOne(c, D), AtMostOne(d, D),
           NEW m \in Seq(M), NEW k \in Seq(M), Three(a, m, c) = Three(b, k, d)
    PROVE  SameRow(a, c, b, d)
<1> DEFINE w == Three(a, m, c)
           W == Len(w)
           x == Len(a)
           y == Len(b)
           z == Len(c)
           v == Len(d)
           p == Len(m)
           q == Len(k)
           ac == a \o c
           bd == b \o d
<1>1. w = Three(b, k, d)
  OBVIOUS
<1>2. /\ x \in {0, 1} /\ z \in {0, 1} /\ p \in Nat /\ W = x + p + z
      /\ x = 1 => w[1] \in D /\ w[1] = a[1]
      /\ z = 1 => w[W] \in D /\ w[W] = c[1]
      /\ p > 0 /\ x = 0 => w[1] \in M
      /\ p > 0 /\ z = 0 => w[W] \in M
  <2>1. ShowsEnds(w, a, m, c, D, M)
    BY Ends
  <2> HIDE DEF w
  <2> QED BY <2>1 DEF ShowsEnds
<1>3. /\ y \in {0, 1} /\ v \in {0, 1} /\ q \in Nat /\ W = y + q + v
      /\ y = 1 => w[1] \in D /\ w[1] = b[1]
      /\ v = 1 => w[W] \in D /\ w[W] = d[1]
      /\ q > 0 /\ y = 0 => w[1] \in M
      /\ q > 0 /\ v = 0 => w[W] \in M
  <2>1. ShowsEnds(w, b, k, d, D, M)
    BY <1>1, Ends
  <2> HIDE DEF w
  <2> QED BY <2>1 DEF ShowsEnds
<1>4. ac \in Seq(D) /\ Len(ac) = x + z /\ (x = 1 => ac[1] = a[1]) /\ (z = 1 => ac[x + 1] = c[1])
  <2>1. IsJoined(ac, a, c, D)
    BY JoinTwo
  <2> HIDE DEF ac
  <2> QED BY <2>1 DEF IsJoined
<1>5. bd \in Seq(D) /\ Len(bd) = y + v /\ (y = 1 => bd[1] = b[1]) /\ (v = 1 => bd[y + 1] = d[1])
  <2>1. IsJoined(bd, b, d, D)
    BY JoinTwo
  <2> HIDE DEF bd
  <2> QED BY <2>1 DEF IsJoined
<1> HIDE DEF ac, bd, w, W, x, y, z, v, p, q
<1>6. ~(w[1] \in D /\ w[1] \in M) /\ ~(w[W] \in D /\ w[W] \in M)
  OBVIOUS
<1>7. x + z = y + v
  <2>1. ASSUME x + z < y + v PROVE FALSE
    <3>1. p > 0
      BY <1>2, <1>3, <2>1
    <3>2. (x = 0 => y = 0) /\ (z = 0 => v = 0)
      BY <1>2, <1>3, <1>6, <3>1
    <3> QED BY <1>2, <1>3, <2>1, <3>2
  <2>2. ASSUME y + v < x + z PROVE FALSE
    <3>1. q > 0
      BY <1>2, <1>3, <2>2
    <3>2. (y = 0 => x = 0) /\ (v = 0 => z = 0)
      BY <1>2, <1>3, <1>6, <3>1
    <3> QED BY <1>2, <1>3, <2>2, <3>2
  <2> QED BY <1>2, <1>3, <2>1, <2>2
<1>8. p = q
  BY <1>2, <1>3, <1>7
<1>9. \A i \in 1..x+z : ac[i] = bd[i]
  <2>1. CASE x = y
    <3>1. z = v
      BY <1>2, <1>3, <1>7, <2>1
    <3>2. x = 1 => ac[1] = bd[1]
      BY <1>2, <1>3, <1>4, <1>5, <2>1
    <3>3. z = 1 => ac[x + 1] = bd[x + 1]
      BY <1>2, <1>3, <1>4, <1>5, <2>1, <3>1
    <3> QED BY <1>2, <3>2, <3>3
  <2>2. CASE x # y
    <3>1. x + z = 1 /\ p = 0 /\ W = 1
      BY <1>2, <1>3, <1>6, <1>7, <1>8, <2>2
    <3>2. ac[1] = w[1] /\ bd[1] = w[1]
      BY <1>2, <1>3, <1>4, <1>5, <1>7, <3>1
    <3> QED BY <3>1, <3>2
  <2> QED BY <2>1, <2>2
<1>10. ac = bd
  BY <1>4, <1>5, <1>7, <1>9, SeqEqual
<1> QED BY <1>10 DEF ac, bd, SameRow

LEMMA OptionalIsShort ==
    ASSUME NEW S, NEW D, S \subseteq D, NEW o \in Optional(S)
    PROVE  AtMostOne(o, D)
<1>1. CASE o = <<>>
  BY <1>1 DEF AtMostOne
<1>2. ASSUME NEW x \in S, o = <<x>> PROVE AtMostOne(o, D)
  BY <1>2 DEF AtMostOne
<1> QED BY <1>1, <1>2 DEF Optional

LEMMA SameOwner ==
    ASSUME NEW q \in Inputs, NEW p \in Inputs, NEW s, NEW t, NEW n \in Nat \ {0}, NEW h,
           HashOf(q, s, h, n), HashOf(p, t, h, n)
    PROVE  Owner(q, n) = Owner(p, n)
<1> DEFINE D == Loras \cup Salts
           first == h[1].keys
           second == h[2].keys
<1>1. 1 \in 1..n /\ 1 \in Nat \ {0} /\ 2 \in Nat \ {0} /\ (n # 1 => 2 \in 1..n)
  OBVIOUS
<1>2. KeysOfBlock(q, 1, first) /\ KeysOfBlock(p, 1, first)
  BY <1>1 DEF HashOf
<1>3. n # 1 => KeysOfBlock(q, 2, second) /\ KeysOfBlock(p, 2, second)
  BY <1>1 DEF HashOf
<1> HIDE DEF first, second
<1>4. /\ q.lora \in Optional(Loras) /\ p.lora \in Optional(Loras)
      /\ q.salt \in Optional(Salts) /\ p.salt \in Optional(Salts)
  BY InputTypes
<1>5. AtMostOne(q.lora, D) /\ AtMostOne(p.lora, D) /\ AtMostOne(q.salt, D) /\ AtMostOne(p.salt, D)
  BY <1>4, OptionalIsShort
<1>6. D \cap MMKey = {}
  BY BlockHashesAssumption DEF MMKey
<1>7. PICK m \in Seq(MMKey) : first = Three(q.lora, m, q.salt)
  BY <1>2, FirstBlockKeys
<1>8. PICK k \in Seq(MMKey) : first = Three(p.lora, k, p.salt)
  BY <1>2, FirstBlockKeys
<1>9. q.lora \o q.salt = p.lora \o p.salt
  <2> DEFINE a == q.lora
             b == p.lora
             c == q.salt
             d == p.salt
  <2>1. /\ AtMostOne(a, D) /\ AtMostOne(b, D) /\ AtMostOne(c, D) /\ AtMostOne(d, D)
        /\ Three(a, m, c) = Three(b, k, d) /\ m \in Seq(MMKey) /\ k \in Seq(MMKey)
    BY <1>5, <1>7, <1>8
  <2> HIDE DEF a, b, c, d, D
  <2>2. SameRow(a, c, b, d)
    BY ONLY <1>6, <2>1, SameNames
  <2> QED BY <2>2 DEF a, b, c, d, SameRow
<1>10. CASE n = 1
  BY <1>9, <1>10 DEF Owner
<1>11. CASE n # 1
  <2>1. PICK f \in {1, -1} : Says(q, 2, second, f)
    BY <1>1, <1>3, <1>11, HashSays
  <2>2. PICK g \in {1, -1} : Says(p, 2, second, g)
    BY <1>1, <1>3, <1>11, HashSays
  <2>3. ToSet(q.lora) = ToSet(p.lora)
    <3>1. 2 # 1
      OBVIOUS
    <3>2. ToSet(second) \ MMKey = ToSet(q.lora)
      BY <2>1, <3>1, Zenon DEF Says
    <3>3. ToSet(second) \ MMKey = ToSet(p.lora)
      BY <2>2, <3>1, Zenon DEF Says
    <3> QED BY <3>2, <3>3
  <2>4. q.lora = p.lora
    BY <1>4, <2>3, SameOptional
  <2>5. q.salt = p.salt
    <3> DEFINE a == q.lora
               c == q.salt
               d == p.salt
    <3>1. a \in Seq(D) /\ c \in Seq(D) /\ d \in Seq(D) /\ a \o c = a \o d
      BY <1>5, <1>9, <2>4 DEF AtMostOne
    <3> HIDE DEF a, c, d
    <3>2. Len(c) = Len(d)
      <4>1. Len(a \o c) = Len(a) + Len(c) /\ Len(a \o d) = Len(a) + Len(d) /\ Len(a) \in Nat /\ Len(c) \in Nat /\ Len(d) \in Nat
        BY <3>1
      <4> QED BY <3>1, <4>1
    <3>3. \A i \in 1..Len(c) : c[i] = d[i]
      <4>1. SUFFICES ASSUME NEW i \in 1..Len(c) PROVE c[i] = d[i]
        OBVIOUS
      <4>2. (a \o c)[Len(a) + i] = c[i] /\ (a \o d)[Len(a) + i] = d[i]
        BY <3>1, <3>2
      <4> QED BY <3>1, <4>2
    <3>4. c = d
      BY <3>1, <3>2, <3>3, SeqEqual
    <3> QED BY <3>4 DEF c, d
  <2> QED BY <1>11, <2>4, <2>5 DEF Owner
<1> QED BY <1>10, <1>11

LEMMA ShownKey ==
    ASSUME NEW q \in Inputs, NEW j \in Nat \ {0}, NEW y, NEW f0, NEW i, Shown(q, j, y, f0, i)
    PROVE  y \in MMKey
<1>1. (j - 1) * hash_block_size \in Nat
  BY Blocks
<1>2. q.mm_features \in Seq(MMFeature)
  BY InputTypes
<1> QED BY <1>1, <1>2, FeatureTypes DEF MMKey, MMKeyOf, Shown

LEMMA SameKeySamePlace ==
    ASSUME NEW q \in Inputs, NEW p \in Inputs, NEW j \in Nat \ {0}, NEW y, NEW f, NEW g, NEW i, NEW k,
           Shown(q, j, y, f, i), Shown(p, j, y, g, k)
    PROVE  q.mm_features[i].identifier = p.mm_features[k].identifier /\ q.mm_features[i].offset = p.mm_features[k].offset
<1> DEFINE a == q.mm_features[i]
           b == p.mm_features[k]
           u == (j - 1) * hash_block_size
<1>1. u \in Nat
  BY Blocks
<1>2. q.mm_features \in Seq(MMFeature) /\ p.mm_features \in Seq(MMFeature)
  BY InputTypes
<1>3. a.offset \in Nat /\ b.offset \in Nat
  BY <1>2, FeatureTypes DEF Shown
<1>4. <<a.identifier, a.offset - u>> = <<b.identifier, b.offset - u>>
  BY DEF Shown, MMKeyOf
<1>5. a.identifier = b.identifier /\ a.offset - u = b.offset - u
  BY <1>4
<1> HIDE DEF a, b, u
<1>6. a.identifier = b.identifier /\ a.offset = b.offset
  BY <1>1, <1>3, <1>5
<1> QED BY <1>6 DEF a, b

(* An image is shown by the block it begins in, and by any block with one   *)
(* of its tokens.                                                           *)
LEMMA ImageIsShown ==
    ASSUME NEW q \in Inputs, NEW i \in 1..Len(q.mm_features), NEW x \in Nat, NEW j, InBlock(x + 1, j),
           q.mm_features[i].offset <= x, x < End(q.mm_features[i]),
           NEW f0 \in {1, -1}, Position(q.mm_features, f0) <= i
    PROVE  \E y \in MMKey : Shown(q, j, y, f0, i)
<1> DEFINE fs == q.mm_features
           u == (j - 1) * hash_block_size
           v == j * hash_block_size
           y == MMKeyOf(fs[i], u)
<1>1. fs \in Seq(MMFeature)
  BY InputTypes
<1>2. fs[i].offset \in Nat /\ End(fs[i]) \in Nat
  BY <1>1, FeatureTypes
<1>3. j \in Nat \ {0} /\ u \in Nat /\ v \in Nat /\ u < x + 1 /\ x + 1 <= v
  BY DEF InBlock
<1>4. fs[i].offset < v /\ u < End(fs[i])
  <2> HIDE DEF u, v
  <2> QED BY <1>2, <1>3
<1>5. Shown(q, j, y, f0, i)
  BY <1>4 DEF Shown
<1>6. y \in MMKey
  <2> HIDE DEF y
  <2> QED BY <1>3, <1>5, ShownKey
<1> QED BY <1>5, <1>6

(* Has q the image f, at the same place? *)
HasImage(q, f) ==
    \E k \in 1..Len(q.mm_features) : /\ q.mm_features[k].identifier = f.identifier
                                     /\ q.mm_features[k].offset = f.offset

LEMMA ImagesOfThePrompt ==
    ASSUME NEW q \in Inputs, NEW p \in Inputs, NEW s, NEW t, NEW n \in Nat, NEW h,
           HashOf(q, s, h, n), HashOf(p, t, h, n), n <= Len(q.prompt) \div hash_block_size,
           NEW i \in 1..Len(q.mm_features), q.mm_features[i].offset < n * hash_block_size
    PROVE  HasImage(p, q.mm_features[i])
<1> DEFINE fs == q.mm_features
           x == fs[i].offset
           e == Len(q.prompt) \div hash_block_size
<1>1. fs \in Seq(MMFeature) /\ Len(fs) \in Nat /\ Len(q.prompt) \in Nat
  BY InputTypes
<1>2. x \in Nat /\ x < End(fs[i])
  BY <1>1, FeatureTypes
<1>3. x + 1 \in Nat \ {0}
  BY <1>2
<1>4. PICK j : InBlock(x + 1, j)
  <2> HIDE DEF x
  <2> QED BY <1>3, BlockOfPosition
<1>5. j \in Nat \ {0} /\ j <= n
  <2> DEFINE w == n * hash_block_size
  <2>1. w \in Nat /\ x < w
    BY Products
  <2>2. x + 1 <= w
    <3> HIDE DEF x, w
    <3> QED BY <1>2, <2>1
  <2> QED BY <1>4, <2>2 DEF InBlock
<1> DEFINE keys == h[j].keys
<1>6. keys = BlockKeys(q, j, 1) /\ KeysOfBlock(p, j, keys)
  <2>1. j \in 1..n
    BY <1>5
  <2>2. KeysOfBlock(q, j, keys) /\ KeysOfBlock(p, j, keys)
    BY <2>1 DEF HashOf
  <2>3. e \in Nat /\ n <= e
    <3>1. e \in Nat
      BY <1>1, Division
    <3> QED BY <3>1
  <2> HIDE DEF e
  <2>4. ~(e < j)
    BY <1>5, <2>3
  <2> HIDE DEF keys
  <2> QED BY <2>2, <2>4 DEF KeysOfBlock, e
<1>7. Says(q, j, keys, 1)
  <2>1. Says(q, j, BlockKeys(q, j, 1), 1)
    BY <1>5, BlockSays
  <2> HIDE DEF keys
  <2> QED BY <1>6, <2>1
<1>8. PICK f0 \in {1, -1} : Says(p, j, keys, f0)
  <2> HIDE DEF keys
  <2> QED BY <1>5, <1>6, HashSays
<1>9. Position(fs, 1) <= i
  BY <1>1 DEF Position
<1>10. PICK y \in MMKey : Shown(q, j, y, 1, i)
  <2>1. x <= x
    BY <1>2
  <2> QED BY <1>2, <1>4, <1>9, <2>1, ImageIsShown
<1> HIDE DEF keys
<1>11. y \in ToSet(keys)
  BY <1>7, <1>10 DEF Says
<1>12. PICK k : Shown(p, j, y, f0, k)
  BY <1>8, <1>11 DEF Says
<1>13. q.mm_features[i].identifier = p.mm_features[k].identifier /\ q.mm_features[i].offset = p.mm_features[k].offset
  BY <1>5, <1>10, <1>12, SameKeySamePlace
<1>14. k \in 1..Len(p.mm_features)
  BY <1>12 DEF Shown
<1> QED BY <1>13, <1>14 DEF HasImage

(* The other direction: when the keys of a block are only those of the last *)
(* image of p, an earlier one of p would leave a placeholder where q has it *)
(* too, and the image of q that is there would be p's last one, behind it.  *)
LEMMA ImagesOfTheOther ==
    ASSUME NEW q \in Inputs, NEW p \in Inputs, NEW s \in Seq(Tokens), NEW t \in Seq(Tokens), NEW n \in Nat, NEW h,
           HashOf(q, s, h, n), HashOf(p, t, h, n), n <= Len(q.prompt) \div hash_block_size,
           BeginsWith(s, q.prompt), BeginsWith(t, p.prompt), n * hash_block_size <= Len(t),
           NEW i \in 1..Len(p.mm_features), p.mm_features[i].offset < n * hash_block_size
    PROVE  HasImage(q, p.mm_features[i])
<1> DEFINE fs == p.mm_features
           x == fs[i].offset
           e == Len(q.prompt) \div hash_block_size
           w == n * hash_block_size
           l == Len(q.prompt)
           pos == x + 1
<1>1. fs \in Seq(MMFeature) /\ Len(fs) \in Nat /\ l \in Nat /\ Len(p.prompt) \in Nat /\ Sorted(fs)
      /\ q.mm_features \in Seq(MMFeature) /\ Len(q.mm_features) \in Nat
  <2>1. q.mm_features \in Seq(MMFeature) /\ q.prompt \in Seq(Tokens)
    BY InputTypes
  <2>2. fs \in Seq(MMFeature) /\ p.prompt \in Seq(Tokens) /\ Sorted(fs)
    BY InputTypes, InputsAreSorted
  <2> HIDE DEF fs
  <2> QED BY <2>1, <2>2
<1>2. x \in Nat /\ x < End(fs[i]) /\ End(fs[i]) \in Nat
  BY <1>1, FeatureTypes
<1>3. pos \in Nat \ {0}
  BY <1>2
<1>4. PICK j : InBlock(pos, j)
  <2> HIDE DEF pos
  <2> QED BY <1>3, BlockOfPosition
<1>5. w \in Nat /\ pos <= w /\ w <= l
  <2>1. w \in Nat /\ x < w
    BY Products
  <2>2. Complete(l, e)
    <3> HIDE DEF l
    <3> QED BY <1>1, CompleteBlocks DEF l
  <2>3. w <= l
    BY <2>2 DEF Complete
  <2> HIDE DEF x, w
  <2> QED BY <1>2, <2>1, <2>3
<1>6. j \in Nat \ {0} /\ j <= n
  BY <1>4, <1>5 DEF InBlock
<1> DEFINE keys == h[j].keys
<1>7. keys = BlockKeys(q, j, 1) /\ KeysOfBlock(p, j, keys)
  <2>1. j \in 1..n
    BY <1>6
  <2>2. KeysOfBlock(q, j, keys) /\ KeysOfBlock(p, j, keys)
    BY <2>1 DEF HashOf
  <2>3. e \in Nat /\ n <= e
    <3>1. e \in Nat
      <4> HIDE DEF l
      <4> QED BY <1>1, Division DEF l
    <3> QED BY <3>1
  <2> HIDE DEF e
  <2>4. ~(e < j)
    BY <1>6, <2>3
  <2> HIDE DEF keys
  <2> QED BY <2>2, <2>4 DEF KeysOfBlock, e
<1>8. Says(q, j, keys, 1)
  <2>1. Says(q, j, BlockKeys(q, j, 1), 1)
    BY <1>6, BlockSays
  <2> HIDE DEF keys
  <2> QED BY <1>7, <2>1
<1> HIDE DEF keys
<1>9. PICK f0 \in {1, -1} : Says(p, j, keys, f0)
  BY <1>6, <1>7, HashSays
<1>10. fs # <<>>
  <2>1. Len(fs) # 0
    BY <1>1
  <2> HIDE DEF fs
  <2> QED BY <1>1, <2>1, EmptySeq
<1>11. Position(fs, 1) = 1 /\ Position(fs, -1) = Len(fs)
  <2> HIDE DEF fs
  <2> QED BY <1>1, <1>10, PositionOfImage
<1>12. CASE Position(fs, f0) <= i
  <2>1. PICK y \in MMKey : Shown(p, j, y, f0, i)
    <3>1. x <= x
      BY <1>2
    <3> QED BY <1>2, <1>4, <1>12, <3>1, ImageIsShown
  <2>2. y \in ToSet(keys)
    BY <1>9, <2>1 DEF Says
  <2>3. PICK k : Shown(q, j, y, 1, k)
    BY <1>8, <2>2 DEF Says
  <2>4. q.mm_features[k].identifier = p.mm_features[i].identifier /\ q.mm_features[k].offset = p.mm_features[i].offset
    BY <1>6, <2>1, <2>3, SameKeySamePlace
  <2>5. k \in 1..Len(q.mm_features)
    BY <2>3 DEF Shown
  <2> QED BY <2>4, <2>5 DEF HasImage
<1>13. CASE ~(Position(fs, f0) <= i)
  <2>1. f0 = -1 /\ i < Len(fs)
    <3> HIDE DEF fs
    <3>1. f0 # 1
      BY <1>1, <1>11, <1>13
    <3> QED BY <1>1, <1>11, <1>13, <3>1
  <2> DEFINE m == Len(fs)
  <2>2. m \in 1..Len(fs) /\ End(fs[i]) <= fs[m].offset /\ fs[m].offset \in Nat
    <3>0. i \in 1..m
      OBVIOUS
    <3> HIDE DEF fs
    <3>1. m \in 1..Len(fs) /\ i \in 1..Len(fs) /\ i < m
      BY <1>1, <2>1, <3>0
    <3>2. End(fs[i]) <= fs[m].offset
      BY <1>1, <3>1 DEF Sorted
    <3> QED BY <1>1, <3>1, <3>2, FeatureTypes
  <2>3. pos \in 1..Len(p.prompt) /\ p.prompt[pos] \in Placeholders
    <3>1. fs[i] \in ToSet(fs)
      BY <1>1 DEF ToSet
    <3>2. End(fs[i]) <= Len(p.prompt)
      BY <3>1, BlockHashesAssumption
    <3>3. fs[i].offset < pos /\ pos <= End(fs[i]) /\ pos \in 1..Len(p.prompt)
      <4> DEFINE z == End(fs[i])
      <4> HIDE DEF x, z
      <4>1. x < pos /\ pos <= z /\ pos \in 1..Len(p.prompt)
        BY <1>1, <1>2, <3>2 DEF z
      <4> QED BY <4>1 DEF x, z
    <3> HIDE DEF pos
    <3> QED BY <3>1, <3>3, BlockHashesAssumption
  <2>4. p.prompt[pos] = q.prompt[pos] /\ pos \in 1..Len(q.prompt)
    <3>1. n * hash_block_size <= Len(s)
      <4>1. w <= l /\ l <= Len(s) /\ Len(s) \in Nat
        BY <1>5 DEF BeginsWith
      <4> HIDE DEF w, l
      <4>2. w <= Len(s)
        BY <1>1, <1>5, <4>1
      <4> QED BY <4>2 DEF w
    <3>2. \A c \in 1..n * hash_block_size : s[c] = t[c]
      BY <3>1, SameTokens
    <3>3. pos \in 1..w /\ pos \in 1..l
      <4> HIDE DEF pos, w, l
      <4> QED BY <1>1, <1>3, <1>5
    <3>4. s[pos] = t[pos]
      BY <3>2, <3>3
    <3> HIDE DEF pos
    <3>5. t[pos] = p.prompt[pos] /\ s[pos] = q.prompt[pos]
      BY <2>3, <3>3 DEF BeginsWith
    <3> QED BY <3>3, <3>4, <3>5
  <2>5. PICK g \in ToSet(q.mm_features) : g.offset < pos /\ pos <= End(g)
    <3> HIDE DEF pos
    <3> QED BY <2>3, <2>4, BlockHashesAssumption
  <2>6. PICK k \in 1..Len(q.mm_features) : g = q.mm_features[k]
    BY <1>1, InToSet
  <2>7. q.mm_features[k].offset \in Nat /\ End(q.mm_features[k]) \in Nat
    BY <1>1, FeatureTypes
  <2>8. q.mm_features[k].offset <= x /\ x < End(q.mm_features[k])
    <3> DEFINE a == q.mm_features[k].offset
               b == End(q.mm_features[k])
    <3>1. a \in Nat /\ b \in Nat /\ a < x + 1 /\ x + 1 <= b
      BY <2>5, <2>6, <2>7
    <3> HIDE DEF a, b, x
    <3>2. a <= x /\ x < b
      BY <1>2, <3>1
    <3> QED BY <3>2 DEF a, b
  <2>9. Position(q.mm_features, 1) <= k
    BY <1>1 DEF Position
  <2>10. PICK y \in MMKey : Shown(q, j, y, 1, k)
    BY <1>2, <1>4, <2>8, <2>9, ImageIsShown
  <2>11. y \in ToSet(keys)
    BY <1>8, <2>10 DEF Says
  <2>12. PICK k2 : Shown(p, j, y, f0, k2)
    BY <1>9, <2>11 DEF Says
  <2>13. q.mm_features[k].offset = fs[k2].offset
    BY <1>6, <2>10, <2>12, SameKeySamePlace
  <2>14. k2 = m
    <3>1. k2 \in 1..Len(fs) /\ Position(fs, f0) <= k2
      BY <2>12 DEF Shown
    <3> HIDE DEF fs
    <3> QED BY <1>1, <1>11, <2>1, <3>1
  <2>15. fs[m].offset <= x /\ x < End(fs[i]) /\ End(fs[i]) <= fs[m].offset
    BY <1>2, <2>2, <2>8, <2>13, <2>14
  <2> DEFINE a == fs[m].offset
             b == End(fs[i])
  <2>16. a \in Nat /\ b \in Nat /\ a <= x /\ x < b /\ b <= a
    BY <1>2, <2>2, <2>15
  <2> HIDE DEF a, b, x
  <2> QED BY <1>2, <2>16
<1> QED BY <1>12, <1>13

----------------------------------------------------------------------------
(* The view of a coarser group *)

LEMMA Flattens ==
    ASSUME NEW T, NEW seqs \in Seq(Seq(T)), Len(seqs) # 0
    PROVE  \E g : /\ FlattenSeq(seqs) = g[Len(seqs)] /\ g[1] = seqs[1]
                  /\ \A i \in 2..Len(seqs) : g[i] = g[i-1] \o seqs[i]
<1> DEFINE n == Len(seqs)
           S == Seq(T)
           t0 == <<>>
           step == [k \in 1..n |-> [s \in S |-> s \o seqs[k]]]
           Is(flatten) == flatten = [i \in 1..Len(seqs) |-> IF i = 1 THEN seqs[i] ELSE flatten[i-1] \o seqs[i]]
<1>1. n \in Nat /\ n # 0 /\ t0 \in S
  OBVIOUS
<1>2. \A k \in 1..n : seqs[k] \in S
  OBVIOUS
<1>3. step \in [1..n -> [S -> S]]
  <2>1. ASSUME NEW k \in 1..n, NEW s \in S PROVE s \o seqs[k] \in S
    <3> DEFINE u == seqs[k]
    <3>1. u \in Seq(T)
      BY <1>2
    <3> HIDE DEF u
    <3> QED BY <3>1, ConcatProperties
  <2> HIDE DEF n, S
  <2> QED BY <2>1
<1>4. PICK f : f \in [0..n -> S] /\ f[0] = t0 /\ \A k \in 1..n : f[k] = step[k][f[k-1]]
  <2> HIDE DEF n, S, t0, step
  <2>1. \E f : Walks(f, S, t0, n, step)
    BY <1>1, <1>3, StepFunction, Zenon
  <2> QED BY <2>1 DEF Walks
<1>5. \E g : Is(g)
  <2> DEFINE g == [i \in 1..n |-> f[i]]
  <2>1. \A i \in 1..n : g[i] = IF i = 1 THEN seqs[i] ELSE g[i-1] \o seqs[i]
    <3> SUFFICES ASSUME NEW i \in 1..n PROVE g[i] = IF i = 1 THEN seqs[i] ELSE g[i-1] \o seqs[i]
      OBVIOUS
    <3> DEFINE before == f[i-1]
               u == seqs[i]
    <3>1. i \in Nat /\ i # 0 /\ i - 1 \in 0..n /\ (i # 1 => i - 1 \in 1..n)
      BY <1>1
    <3>2. before \in S /\ u \in S
      <4> HIDE DEF n, S
      <4> QED BY <1>2, <1>4, <3>1
    <3>3. f[i] = before \o u
      <4>1. f[i] = step[i][before]
        BY <1>4
      <4> HIDE DEF before, n, S
      <4> QED BY <3>2, <4>1
    <3>4. CASE i = 1
      <4>1. before = <<>>
        BY <1>4, <3>4
      <4> HIDE DEF before, u
      <4>2. f[i] = u
        BY <3>2, <3>3, <4>1, ConcatEmptySeq
      <4> QED BY <3>4, <4>2 DEF u
    <3>5. CASE i # 1
      <4>1. g[i-1] = before /\ g[i] = f[i]
        BY <3>1, <3>5
      <4> QED BY <3>3, <3>5, <4>1
    <3> QED BY <3>4, <3>5
  <2>2. g = [i \in 1..n |-> IF i = 1 THEN seqs[i] ELSE g[i-1] \o seqs[i]]
    <3>1. g = [i \in 1..n |-> g[i]]
      OBVIOUS
    <3> HIDE DEF g
    <3> QED BY <2>1, <3>1
  <2> HIDE DEF g
  <2> QED BY <2>2
<1>6. PICK g : g = CHOOSE h : Is(h)
  OBVIOUS
<1>7. Is(g)
  <2> HIDE DEF Is
  <2> QED BY <1>5, <1>6
<1>8. FlattenSeq(seqs) = g[n]
  BY <1>1, <1>6 DEF FlattenSeq
<1>9. \A i \in 1..n : g[i] = IF i = 1 THEN seqs[i] ELSE g[i-1] \o seqs[i]
  <2> HIDE DEF n
  <2> QED BY <1>7 DEF n
<1>10. 1 \in 1..n /\ \A i \in 2..n : i \in 1..n /\ i # 1
  BY <1>1
<1>11. g[1] = seqs[1] /\ \A i \in 2..n : g[i] = g[i-1] \o seqs[i]
  <2> HIDE DEF n
  <2> QED BY <1>9, <1>10
<1> QED BY <1>8, <1>11

LEMMA JoinBlocks ==
    ASSUME NEW t \in Seq(Tokens), NEW p \in Nat \ {0}, p * hash_block_size <= Len(t)
    PROVE  SubSeq(t, 1, (p - 1) * hash_block_size) \o BlockTokens(t, p) = SubSeq(t, 1, p * hash_block_size)
<1> DEFINE B == hash_block_size
           u == (p - 1) * B
           v == p * B
           a == SubSeq(t, 1, u)
           b == BlockTokens(t, p)
           c == SubSeq(t, 1, v)
           d == a \o b
<1>1. u \in Nat /\ u + B = v /\ v <= Len(t) /\ Len(t) \in Nat /\ B \in Nat \ {0} /\ v \in Nat
  BY Blocks, BlockSize
<1>2. b \in Seq(Tokens) /\ Len(b) = B /\ \A i \in 1..B : b[i] = t[u + i]
  BY BlockTokensAre
<1> HIDE DEF B, u, v, b
<1>4. a \in Seq(Tokens) /\ Len(a) = u /\ \A i \in 1..u : a[i] = t[i]
  <2>1. u <= Len(t)
    BY <1>1
  <2> QED BY <1>1, <2>1, FirstOf
<1>5. c \in Seq(Tokens) /\ Len(c) = v /\ \A i \in 1..v : c[i] = t[i]
  BY <1>1, FirstOf
<1> HIDE DEF a, c
<1>6. d \in Seq(Tokens) /\ Len(d) = u + B /\ \A i \in 1..u + B : d[i] = IF i <= u THEN a[i] ELSE b[i - u]
  <2>1. a \in Seq(Tokens) /\ b \in Seq(Tokens) /\ Len(a) = u /\ Len(b) = B
    BY <1>2, <1>4
  <2>2. d \in Seq(Tokens) /\ Len(d) = Len(a) + Len(b)
        /\ \A i \in 1..Len(a) + Len(b) : d[i] = IF i <= Len(a) THEN a[i] ELSE b[i - Len(a)]
    BY <2>1, ConcatProperties
  <2> HIDE DEF d
  <2> QED BY <2>1, <2>2
<1> HIDE DEF d
<1>7. \A i \in 1..v : d[i] = c[i]
  <2> SUFFICES ASSUME NEW i \in 1..v PROVE d[i] = c[i]
    OBVIOUS
  <2>1. CASE i <= u
    <3>1. i \in 1..u /\ i \in 1..u + B
      BY <1>1, <2>1
    <3> QED BY <1>4, <1>5, <1>6, <2>1, <3>1
  <2>2. CASE ~(i <= u)
    <3>1. i - u \in 1..B /\ u + (i - u) = i /\ i \in 1..u + B
      BY <1>1, <2>2
    <3>2. b[i - u] = t[i]
      BY <1>2, <3>1
    <3> QED BY <1>5, <1>6, <2>2, <3>1, <3>2
  <2> QED BY <2>1, <2>2
<1>8. d = c
  BY <1>1, <1>5, <1>6, <1>7, SeqEqual
<1> QED BY <1>8 DEF a, b, c, d, u, v, B

LEMMA FirstBlock ==
    ASSUME NEW t
    PROVE  BlockTokens(t, 1) = SubSeq(t, 1, 1 * hash_block_size)
<1>1. (1 - 1) * hash_block_size + 1 = 1 /\ (1 - 1) * hash_block_size + hash_block_size = 1 * hash_block_size
  BY BlockSize
<1> QED BY <1>1 DEF BlockTokens

(* The tokens in a hash are all the tokens up to its block. *)
TokensOf(h) == [j \in DOMAIN h |-> h[j].tokens]

LEMMA HashCoversItsPrefix ==
    ASSUME NEW q, NEW t \in Seq(Tokens), NEW n \in Nat \ {0}, n * hash_block_size <= Len(t),
           NEW h, HashOf(q, t, h, n)
    PROVE  FlattenSeq(TokensOf(h)) = SubSeq(t, 1, n * hash_block_size)
<1> DEFINE seqs == TokensOf(h)
           w == n * hash_block_size
<1>1. h \in Seq(Cell) /\ Len(h) = n /\ DOMAIN h = 1..n
  BY DEF HashOf, Hash
<1>2. \A j \in 1..n : h[j].tokens = BlockTokens(t, j) /\ h[j].tokens \in Seq(Tokens)
  <2>1. \A j \in 1..n : h[j] \in Cell
    BY <1>1
  <2> QED BY <2>1 DEF HashOf, Cell
<1>3. seqs \in Seq(Seq(Tokens)) /\ Len(seqs) = n /\ \A j \in 1..n : seqs[j] = BlockTokens(t, j)
  <2>1. seqs = [j \in 1..n |-> h[j].tokens]
    BY <1>1 DEF TokensOf
  <2>2. seqs \in [1..n -> Seq(Tokens)]
    <3> HIDE DEF seqs
    <3> QED BY <1>2, <2>1
  <2> HIDE DEF seqs
  <2> QED BY <1>2, <2>1, <2>2
<1> HIDE DEF seqs
<1>4. PICK g : /\ FlattenSeq(seqs) = g[n] /\ g[1] = seqs[1]
               /\ \A i \in 2..n : g[i] = g[i-1] \o seqs[i]
  <2>1. Len(seqs) # 0
    BY <1>3
  <2> QED BY <1>3, <2>1, Flattens
<1> DEFINE Good == {k \in 0..n : k = 0 \/ g[k] = SubSeq(t, 1, k * hash_block_size)}
<1>5. 0 \in Good
  OBVIOUS
<1>6. ASSUME NEW k \in 1..n, k - 1 \in Good PROVE k \in Good
  <2>1. CASE k = 1
    <3>1. g[1] = SubSeq(t, 1, 1 * hash_block_size)
      <4>1. 1 \in 1..n
        OBVIOUS
      <4>2. g[1] = BlockTokens(t, 1)
        BY <1>3, <1>4, <4>1
      <4> QED BY <4>2, FirstBlock
    <3> QED BY <2>1, <3>1
  <2>2. CASE k # 1
    <3> DEFINE a == SubSeq(t, 1, (k - 1) * hash_block_size)
               b == BlockTokens(t, k)
    <3>1. k \in 2..n /\ k - 1 # 0 /\ k \in Nat \ {0} /\ k <= n
      BY <2>2
    <3>2. g[k-1] = a
      BY <1>6, <3>1
    <3>3. g[k] = g[k-1] \o b
      BY <1>3, <1>4, <3>1
    <3>4. k * hash_block_size <= Len(t)
      <4> DEFINE x == k * hash_block_size
      <4>1. x \in Nat /\ w \in Nat /\ x <= w
        BY <3>1, Products
      <4>2. w <= Len(t) /\ Len(t) \in Nat
        OBVIOUS
      <4> HIDE DEF x, w
      <4>3. x <= Len(t)
        BY <4>1, <4>2
      <4> QED BY <4>3 DEF x
    <3>5. a \o b = SubSeq(t, 1, k * hash_block_size)
      BY <3>1, <3>4, JoinBlocks
    <3> HIDE DEF a, b
    <3>6. g[k] = SubSeq(t, 1, k * hash_block_size)
      BY <3>2, <3>3, <3>5
    <3> QED BY <3>6
  <2> QED BY <2>1, <2>2
<1>7. 0..n \subseteq Good
  <2> HIDE DEF Good
  <2> QED BY <1>5, <1>6, BoundedInduction
<1>8. g[n] = SubSeq(t, 1, n * hash_block_size)
  <2>1. n \in Good
    <3> HIDE DEF Good
    <3> QED BY <1>7
  <2> QED BY <2>1
<1> QED BY <1>4, <1>8 DEF seqs

(* A group's blocks are a whole number of hash blocks. *)
Scale == target_block_size \div hash_block_size

LEMMA Scaled ==
    /\ Scale \in Nat \ {0}
    /\ \A i \in Nat : i * Scale \in Nat /\ (i * Scale) * hash_block_size = i * target_block_size
<1> DEFINE B == hash_block_size
           T == target_block_size
           k == T \div B
<1>1. B \in Nat \ {0} /\ T \in Nat \ {0} /\ T % B = 0
  BY BlockHashesAssumption
<1> HIDE DEF B, T
<1>2. k \in Nat /\ T = B * k + (T % B)
  BY <1>1
<1> HIDE DEF k
<1>3. T = B * k
  BY <1>1, <1>2
<1>4. k # 0
  BY <1>1, <1>2, <1>3
<1>5. ASSUME NEW i \in Nat PROVE i * k \in Nat /\ (i * k) * B = i * T
  BY <1>1, <1>2, <1>3
<1> QED BY <1>2, <1>4, <1>5 DEF Scale, k, B, T

LEMMA DivisionIsUnique ==
    ASSUME NEW n \in Nat, NEW d \in Nat \ {0}, NEW m \in Nat, m * d <= n, n < (m + 1) * d
    PROVE  n \div d = m
<1> DEFINE k == n \div d
<1>1. k \in Nat /\ k * d <= n /\ n < (k + 1) * d
  OBVIOUS
<1> HIDE DEF k
<1>2. ASSUME NEW x \in Nat, NEW y \in Nat, x < y PROVE (x + 1) * d <= y * d
  <2>1. y - (x + 1) \in Nat /\ (y - (x + 1)) * d \in Nat /\ (y - (x + 1)) * d = y * d - (x + 1) * d
        /\ y * d \in Nat /\ (x + 1) * d \in Nat
    BY <1>2
  <2> QED BY <2>1
<1>3. ~(k < m)
  <2> SUFFICES ASSUME k < m PROVE FALSE
    OBVIOUS
  <2>1. (k + 1) * d <= m * d
    BY <1>1, <1>2
  <2>2. (k + 1) * d \in Nat /\ m * d \in Nat
    BY <1>1
  <2> QED BY <1>1, <2>1, <2>2
<1>4. ~(m < k)
  <2> SUFFICES ASSUME m < k PROVE FALSE
    OBVIOUS
  <2>1. (m + 1) * d <= k * d
    BY <1>1, <1>2
  <2>2. (m + 1) * d \in Nat /\ k * d \in Nat
    BY <1>1
  <2> QED BY <1>1, <2>1, <2>2
<1>5. k = m
  BY <1>1, <1>3, <1>4
<1> QED BY <1>5 DEF k

LEMMA CoarseBlocks ==
    ASSUME NEW n \in Nat
    PROVE  (n \div hash_block_size) \div Scale = n \div target_block_size
<1> DEFINE B == hash_block_size
           T == target_block_size
           d == n \div B
           m == d \div Scale
           x == m * Scale
           y == (m + 1) * Scale
<1>1. B \in Nat \ {0} /\ T \in Nat \ {0}
  BY BlockHashesAssumption
<1>2. d \in Nat /\ d * B <= n /\ n < d * B + B
  BY Division
<1>3. m \in Nat /\ x \in Nat /\ y \in Nat /\ x <= d /\ d < y
  <2>1. Scale \in Nat \ {0}
    BY Scaled
  <2> HIDE DEF d
  <2>2. m \in Nat /\ m * Scale <= d /\ d < (m + 1) * Scale
    BY <1>2, <2>1
  <2>3. (m + 1) * Scale \in Nat /\ m * Scale \in Nat
    BY <2>1, <2>2
  <2> QED BY <2>2, <2>3
<1> HIDE DEF m
<1>4. x * B = m * T /\ y * B = (m + 1) * T
  BY <1>3, Scaled
<1> HIDE DEF d, x, y
<1>5. x * B <= d * B /\ (d + 1) * B <= y * B /\ (d + 1) * B = d * B + B
  <2>1. d + 1 \in Nat /\ d + 1 <= y
    BY <1>2, <1>3
  <2> QED BY <1>2, <1>3, <2>1, Products
<1>6. x * B \in Nat /\ y * B \in Nat /\ d * B \in Nat
  BY <1>2, <1>3, Products
<1>7. m * T <= n /\ n < (m + 1) * T
  <2> DEFINE a == x * B
             b == y * B
             c == d * B
             e == (d + 1) * B
  <2>1. /\ a \in Nat /\ b \in Nat /\ c \in Nat /\ a <= c /\ e <= b /\ e = c + B /\ c <= n /\ n < c + B
        /\ a = m * T /\ b = (m + 1) * T
    BY <1>2, <1>4, <1>5, <1>6
  <2> HIDE DEF a, b, c, e
  <2>2. a <= n /\ n < b
    <3> HIDE DEF B
    <3> QED BY <1>1, <2>1
  <2> HIDE DEF T
  <2> QED BY <2>1, <2>2
<1>8. n \div T = m
  <2> HIDE DEF T
  <2> QED BY <1>1, <1>3, <1>7, DivisionIsUnique
<1> QED BY <1>8 DEF m, d

----------------------------------------------------------------------------
(* The invariant of the specification *)

LEMMA InitInv == Init => IInv
<1> SUFFICES ASSUME Init PROVE IInv
  OBVIOUS
<1>1. input \in [Requests -> Inputs] /\ all_tokens = [r \in Requests |-> input[r].prompt]
      /\ block_hashes = [r \in Requests |-> request_block_hasher(input[r], input[r].prompt, <<>>)]
  BY DEF Init
<1>2. ASSUME NEW r \in Requests
      PROVE  /\ RequestInv(r)
             /\ input[r].prompt \in Seq(Tokens)
             /\ request_block_hasher(input[r], input[r].prompt, <<>>) \in Seq(Hash)
  <2> DEFINE q == input[r]
             t == q.prompt
             c == request_block_hasher(q, t, <<>>)
  <2>1. q \in Inputs
    BY <1>1
  <2> HIDE DEF q
  <2>2. t \in Seq(Tokens)
    BY <2>1, InputTypes
  <2> HIDE DEF t
  <2>3. IsChain(q, t, 0, c)
    BY <2>1, <2>2, HasherOfNone
  <2> HIDE DEF c
  <2>4. HashList(q, t, c)
    BY <2>1, <2>2, <2>3, FirstHashes
  <2>5. all_tokens[r] = t /\ block_hashes[r] = c
    BY <1>1 DEF q, t, c
  <2>6. Len(t) \in Nat /\ Len(t) <= Len(t)
    BY <2>2
  <2>7. RequestInv(r)
    BY <2>1, <2>2, <2>4, <2>5, <2>6 DEF RequestInv, q, t
  <2> QED BY <2>2, <2>4, <2>7 DEF HashList, q, t, c
<1>3. all_tokens \in [Requests -> Seq(Tokens)] /\ block_hashes \in [Requests -> Seq(Hash)]
  BY <1>1, <1>2
<1> QED BY <1>1, <1>2, <1>3 DEF IInv

LEMMA Appended ==
    ASSUME NEW s \in Seq(Tokens), NEW new \in Seq(Tokens), NEW u, BeginsWith(s, u), Len(u) \in Nat
    PROVE  /\ s \o new \in Seq(Tokens) /\ Len(s) <= Len(s \o new) /\ \A i \in 1..Len(s) : s[i] = (s \o new)[i]
           /\ BeginsWith(s \o new, u)
<1> DEFINE t == s \o new
<1>1. t \in Seq(Tokens) /\ Len(t) = Len(s) + Len(new) /\ Len(s) \in Nat /\ Len(new) \in Nat
      /\ \A i \in 1..Len(s) + Len(new) : t[i] = IF i <= Len(s) THEN s[i] ELSE new[i - Len(s)]
  BY ConcatProperties
<1> HIDE DEF t
<1>2. Len(s) <= Len(t)
  BY <1>1
<1>3. \A i \in 1..Len(s) : s[i] = t[i]
  <2>1. \A i \in 1..Len(s) : i \in 1..Len(s) + Len(new) /\ i <= Len(s)
    BY <1>1
  <2> QED BY <1>1, <2>1
<1>4. BeginsWith(t, u)
  <2>1. Len(u) <= Len(s) /\ \A i \in 1..Len(u) : s[i] = u[i]
    BY DEF BeginsWith
  <2>2. Len(u) <= Len(t) /\ \A i \in 1..Len(u) : i \in 1..Len(s)
    BY <1>1, <1>2, <2>1
  <2> QED BY <1>3, <2>1, <2>2 DEF BeginsWith
<1> QED BY <1>1, <1>2, <1>3, <1>4 DEF t

LEMMA NextInv == IInv /\ [Next]_vars => IInv'
<1> SUFFICES ASSUME IInv, [Next]_vars PROVE IInv'
  OBVIOUS
<1>1. CASE UNCHANGED vars
  BY <1>1 DEF IInv, RequestInv, vars
<1>2. ASSUME NEW r \in Requests, NEW new \in Sampled, AppendTokens(r, new)
      PROVE  IInv'
  <2> DEFINE q == input[r]
             s == all_tokens[r]
             t == s \o new
             hashes == block_hashes[r]
             c == request_block_hasher(q, t, hashes)
             longer == hashes \o c
  <2>1. /\ all_tokens \in [Requests -> Seq(Tokens)] /\ block_hashes \in [Requests -> Seq(Hash)]
        /\ input \in [Requests -> Inputs] /\ RequestInv(r) /\ \A o \in Requests : RequestInv(o)
    BY DEF IInv
  <2>2. new \in Seq(Tokens)
    BY BlockHashesAssumption
  <2>3. q \in Inputs /\ s \in Seq(Tokens) /\ BeginsWith(s, q.prompt) /\ HashList(q, s, hashes)
    BY <2>1 DEF RequestInv, BeginsWith
  <2>4. all_tokens' = [all_tokens EXCEPT ![r] = t] /\ input' = input
    BY <1>2 DEF AppendTokens
  <2>5. all_tokens'[r] = t
    BY <2>1, <2>4
  <2>6. block_hashes' = [block_hashes EXCEPT ![r] = longer]
    BY <1>2, <2>5 DEF AppendTokens
  <2> HIDE DEF q, s, hashes
  <2>7. Len(q.prompt) \in Nat
    BY <2>3, InputTypes
  <2>8. t \in Seq(Tokens) /\ Len(s) <= Len(t) /\ BeginsWith(t, q.prompt) /\ \A i \in 1..Len(s) : s[i] = t[i]
    BY <2>2, <2>3, <2>7, Appended
  <2> HIDE DEF t
  <2>9. HashList(q, t, longer)
    <3>1. Len(q.prompt) <= Len(s)
      BY <2>3 DEF BeginsWith
    <3> QED BY <2>3, <2>8, <3>1, HashesGrow
  <2>10. longer \in Seq(Hash)
    BY <2>9 DEF HashList
  <2> HIDE DEF longer
  <2>11. input'[r] = q /\ all_tokens'[r] = t /\ block_hashes'[r] = longer
    BY <2>1, <2>4, <2>6 DEF q
  <2>12. RequestInv(r)'
    BY <2>3, <2>8, <2>9, <2>11 DEF RequestInv, BeginsWith
  <2>13. ASSUME NEW o \in Requests, o # r PROVE RequestInv(o)'
    <3>1. input'[o] = input[o] /\ all_tokens'[o] = all_tokens[o] /\ block_hashes'[o] = block_hashes[o]
      BY <2>1, <2>4, <2>6, <2>13
    <3>2. RequestInv(o)
      BY <2>1
    <3> QED BY <3>1, <3>2 DEF RequestInv
  <2>14. all_tokens' \in [Requests -> Seq(Tokens)] /\ block_hashes' \in [Requests -> Seq(Hash)] /\ input' \in [Requests -> Inputs]
    BY <2>1, <2>4, <2>6, <2>8, <2>10
  <2> QED BY <2>12, <2>13, <2>14 DEF IInv
<1> QED BY <1>1, <1>2 DEF Next

LEMMA InvAlways == Spec => []IInv
BY InitInv, NextInv, PTL DEF Spec

LEMMA RequestFacts ==
    ASSUME IInv, NEW r \in Requests
    PROVE  /\ input[r] \in Inputs /\ all_tokens[r] \in Seq(Tokens) /\ BeginsWith(all_tokens[r], input[r].prompt)
           /\ HashList(input[r], all_tokens[r], block_hashes[r])
BY DEF IInv, RequestInv, BeginsWith

(* What is known of the n-th hash of a list. *)
LEMMA HashInList ==
    ASSUME NEW q, NEW t \in Seq(Tokens), NEW hashes, HashList(q, t, hashes), NEW n \in Nat \ {0}, n <= Len(hashes)
    PROVE  HashOf(q, t, hashes[n], n) /\ n * hash_block_size <= Len(t) /\ n * hash_block_size \in Nat
<1> DEFINE l == Len(t)
           d == l \div hash_block_size
<1>1. l \in Nat /\ hashes \in Seq(Hash) /\ Len(hashes) = d
  BY DEF HashList
<1>2. Complete(l, d)
  <2> HIDE DEF l
  <2> QED BY <1>1, CompleteBlocks DEF l
<1>3. n \in 1..Len(hashes)
  BY <1>1
<1>4. n <= d
  BY <1>1
<1> HIDE DEF d, l
<1>5. n * hash_block_size <= l /\ n * hash_block_size \in Nat
  BY <1>2, <1>4 DEF Complete
<1> QED BY <1>3, <1>5 DEF HashList, l

----------------------------------------------------------------------------
(* The properties *)

LEMMA UptoIs ==
    ASSUME NEW q \in Inputs, NEW p \in Inputs, NEW n,
           \A i \in 1..Len(q.mm_features) : q.mm_features[i].offset < n => HasImage(p, q.mm_features[i])
    PROVE  Upto(q, n) \subseteq Upto(p, n)
<1>1. q.mm_features \in Seq(MMFeature) /\ p.mm_features \in Seq(MMFeature)
  BY InputTypes
<1>2. \A k \in 1..Len(p.mm_features) : p.mm_features[k] \in ToSet(p.mm_features)
  BY <1>1 DEF ToSet
<1> SUFFICES ASSUME NEW x \in Upto(q, n) PROVE x \in Upto(p, n)
  OBVIOUS
<1>3. PICK f \in ToSet(q.mm_features) : f.offset < n /\ x = <<f.identifier, f.offset>>
  BY DEF Upto
<1>4. PICK i \in 1..Len(q.mm_features) : f = q.mm_features[i]
  BY <1>1, InToSet
<1>5. PICK k \in 1..Len(p.mm_features) : f.identifier = p.mm_features[k].identifier /\ f.offset = p.mm_features[k].offset
  <2>1. HasImage(p, f)
    BY <1>3, <1>4
  <2> QED BY <2>1 DEF HasImage
<1>6. p.mm_features[k] \in ToSet(p.mm_features) /\ p.mm_features[k].offset < n
      /\ x = <<p.mm_features[k].identifier, p.mm_features[k].offset>>
  BY <1>2, <1>3, <1>5
<1> QED BY <1>6 DEF Upto

LEMMA InvSeparates == IInv => PromptBlocksSeparated
<1> SUFFICES ASSUME IInv, NEW r \in Requests, NEW s \in Requests,
                    NEW n \in 1..(Len(input[r].prompt) \div hash_block_size),
                    n <= Len(block_hashes[r]), n <= Len(block_hashes[s]), block_hashes[r][n] = block_hashes[s][n]
             PROVE  Meaning(r, n) = Meaning(s, n)
  BY DEF PromptBlocksSeparated, SameHashSamePrefix
<1> DEFINE q == input[r]
           p == input[s]
           t == all_tokens[r]
           u == all_tokens[s]
           h == block_hashes[r][n]
           w == n * hash_block_size
<1>1. q \in Inputs /\ t \in Seq(Tokens) /\ BeginsWith(t, q.prompt) /\ HashList(q, t, block_hashes[r])
  BY RequestFacts
<1>2. p \in Inputs /\ u \in Seq(Tokens) /\ BeginsWith(u, p.prompt) /\ HashList(p, u, block_hashes[s])
  BY RequestFacts
<1>3. n \in Nat \ {0} /\ n <= Len(q.prompt) \div hash_block_size
  OBVIOUS
<1>4. HashOf(q, t, h, n) /\ w <= Len(t) /\ w \in Nat
  <2> HIDE DEF q, t
  <2> QED BY <1>1, <1>3, HashInList
<1>5. HashOf(p, u, h, n) /\ w <= Len(u)
  <2>1. HashOf(p, u, block_hashes[s][n], n) /\ w <= Len(u)
    <3> HIDE DEF p, u
    <3> QED BY <1>2, <1>3, HashInList
  <2> QED BY <2>1
<1> HIDE DEF q, p, t, u, h
<1>6. SubSeq(t, 1, w) = SubSeq(u, 1, w)
  <2>1. \A i \in 1..n * hash_block_size : t[i] = u[i]
    BY <1>1, <1>2, <1>3, <1>4, <1>5, SameTokens
  <2> QED BY <1>1, <1>2, <1>4, <1>5, <2>1, SamePrefix
<1>7. Owner(q, n) = Owner(p, n)
  BY <1>1, <1>2, <1>3, <1>4, <1>5, SameOwner
<1>8. Upto(q, w) \subseteq Upto(p, w)
  <2>1. ASSUME NEW i \in 1..Len(q.mm_features), q.mm_features[i].offset < w
        PROVE  HasImage(p, q.mm_features[i])
    <3>1. n \in Nat
      BY <1>3
    <3> QED BY <1>1, <1>2, <1>3, <1>4, <1>5, <2>1, <3>1, ImagesOfThePrompt
  <2> HIDE DEF w
  <2> QED BY <1>1, <1>2, <2>1, UptoIs
<1>9. Upto(p, w) \subseteq Upto(q, w)
  <2>1. ASSUME NEW i \in 1..Len(p.mm_features), p.mm_features[i].offset < w
        PROVE  HasImage(q, p.mm_features[i])
    <3>1. n \in Nat
      BY <1>3
    <3> QED BY <1>1, <1>2, <1>3, <1>4, <1>5, <2>1, <3>1, ImagesOfTheOther
  <2> HIDE DEF w
  <2> QED BY <1>1, <1>2, <2>1, UptoIs
<1> HIDE DEF w
<1>10. <<SubSeq(t, 1, w), Upto(q, w), Owner(q, n)>> = <<SubSeq(u, 1, w), Upto(p, w), Owner(p, n)>>
  <2>1. Upto(q, w) = Upto(p, w)
    BY <1>8, <1>9, Zenon
  <2> QED BY <1>6, <1>7, <2>1, Zenon
<1> QED BY <1>10 DEF Meaning, q, p, t, u, w

LEMMA SameHash ==
    ASSUME NEW q \in Inputs, Len(q.mm_features) <= 1, NEW t, NEW n \in Nat,
           NEW h, HashOf(q, t, h, n), NEW g, HashOf(q, t, g, n)
    PROVE  h = g
<1>1. h \in Seq(Cell) /\ g \in Seq(Cell) /\ Len(h) = n /\ Len(g) = n
  BY DEF HashOf, Hash
<1>2. ASSUME NEW j \in 1..n PROVE h[j] = g[j]
  <2> DEFINE a == h[j]
             b == g[j]
  <2>1. a \in Cell /\ b \in Cell
    BY <1>1
  <2>2. a.tokens = b.tokens
    BY DEF HashOf
  <2>3. a.keys = BlockKeys(q, j, 1) /\ b.keys = BlockKeys(q, j, 1)
    <3>1. KeysOfBlock(q, j, a.keys) /\ KeysOfBlock(q, j, b.keys)
      BY DEF HashOf
    <3>2. BlockKeys(q, j, -1) = BlockKeys(q, j, 1)
      BY OneImage
    <3> HIDE DEF a, b
    <3> QED BY <3>1, <3>2 DEF KeysOfBlock
  <2> HIDE DEF a, b
  <2>4. a = b
    BY <2>1, <2>2, <2>3 DEF Cell
  <2> QED BY <2>4 DEF a, b
<1> QED BY <1>1, <1>2, SeqEqual

LEMMA InvIndependent == IInv => HashIndependentOfGrowth
<1> SUFFICES ASSUME IInv, NEW r \in Requests, Len(input[r].mm_features) <= 1
             PROVE  block_hashes[r] = Chain(input[r], all_tokens[r], 0, NONE_HASH, 1)
  BY DEF HashIndependentOfGrowth
<1> DEFINE q == input[r]
           t == all_tokens[r]
           a == block_hashes[r]
           none == NONE_HASH
           c == Chain(q, t, 0, none, 1)
<1>1. q \in Inputs /\ t \in Seq(Tokens) /\ HashList(q, t, a) /\ Len(q.mm_features) <= 1
  BY RequestFacts
<1> HIDE DEF q, t, a
<1>2. HashList(q, t, c)
  <2>1. SetsOut(q, 0, 1)
    BY DEF SetsOut
  <2>2. HashOf(q, t, none, 0)
    BY NoHash
  <2>3. 0 <= Len(t) \div hash_block_size
    <3>1. Len(t) \in Nat
      BY <1>1
    <3>2. Len(t) \div hash_block_size \in Nat
      BY <3>1, Division
    <3> QED BY <3>2
  <2> HIDE DEF none
  <2>4. IsChain(q, t, 0, c)
    BY <1>1, <2>1, <2>2, <2>3, ChainIsRight
  <2> HIDE DEF c
  <2> QED BY <1>1, <2>4, FirstHashes
<1> HIDE DEF c
<1>3. a \in Seq(Hash) /\ c \in Seq(Hash) /\ Len(a) = Len(c) /\ Len(a) \in Nat
  BY <1>1, <1>2 DEF HashList
<1>4. ASSUME NEW n \in 1..Len(a) PROVE a[n] = c[n]
  <2> DEFINE h == a[n]
             g == c[n]
  <2>1. HashOf(q, t, h, n) /\ HashOf(q, t, g, n) /\ n \in Nat
    BY <1>1, <1>2, <1>3 DEF HashList
  <2> HIDE DEF h, g
  <2>2. h = g
    BY <1>1, <2>1, SameHash
  <2> QED BY <2>2 DEF h, g
<1>5. a = c
  BY <1>3, <1>4, SeqEqual
<1> QED BY <1>5 DEF a, c, q, t, none

LEMMA InvCoarse == IInv => CoarseHashesCoverTheirBlocks
<1> SUFFICES ASSUME IInv, NEW r \in Requests
             PROVE  LET coarse == Resolved(block_hashes[r], target_block_size)
                    IN  /\ Len(coarse) = Len(all_tokens[r]) \div target_block_size
                        /\ \A i \in DOMAIN coarse :
                             FlattenSeq([j \in DOMAIN coarse[i] |-> coarse[i][j].tokens])
                                 = SubSeq(all_tokens[r], 1, i * target_block_size)
  BY DEF CoarseHashesCoverTheirBlocks
<1> DEFINE q == input[r]
           t == all_tokens[r]
           hashes == block_hashes[r]
           d == Len(hashes)
           m == d \div Scale
           coarse == Resolved(hashes, target_block_size)
<1>1. q \in Inputs /\ t \in Seq(Tokens) /\ HashList(q, t, hashes)
  BY RequestFacts
<1>2. hashes \in Seq(Hash) /\ d \in Nat /\ d = Len(t) \div hash_block_size /\ Len(t) \in Nat
  BY <1>1 DEF HashList
<1>3. coarse = [i \in 1..m |-> hashes[i * Scale]]
  BY DEF Resolved, Scale
<1> HIDE DEF hashes, d, t, q
<1>4. m \in Nat /\ m * Scale <= d /\ m * Scale \in Nat
  <2>1. Scale \in Nat \ {0}
    BY Scaled
  <2> QED BY <1>2, <2>1
<1>5. m = Len(t) \div target_block_size
  BY <1>2, CoarseBlocks
<1> HIDE DEF m
<1>6. ASSUME NEW i \in 1..m PROVE i * Scale \in Nat \ {0} /\ i * Scale <= d /\ (i * Scale) * hash_block_size = i * target_block_size
  <2>1. Scale \in Nat \ {0} /\ i \in Nat \ {0} /\ i <= m
    BY <1>4, Scaled
  <2>2. i * Scale \in Nat \ {0}
    BY <2>1
  <2>3. i * Scale <= m * Scale
    <3>1. m - i \in Nat /\ (m - i) * Scale \in Nat /\ (m - i) * Scale = m * Scale - i * Scale
      BY <1>4, <2>1
    <3> QED BY <1>4, <2>2, <3>1
  <2>4. (i * Scale) * hash_block_size = i * target_block_size
    BY <2>1, Scaled
  <2> DEFINE x == i * Scale
             y == m * Scale
  <2>5. x \in Nat /\ y \in Nat /\ x <= y /\ y <= d
    BY <1>4, <2>2, <2>3
  <2> HIDE DEF x, y
  <2>6. x <= d
    BY <1>2, <2>5
  <2> QED BY <2>2, <2>4, <2>6 DEF x
<1>7. coarse \in [1..m -> Hash]
  <2>1. \A i \in 1..m : hashes[i * Scale] \in Hash
    <3> SUFFICES ASSUME NEW i \in 1..m PROVE hashes[i * Scale] \in Hash
      OBVIOUS
    <3> DEFINE x == i * Scale
    <3>1. x \in 1..d
      BY <1>2, <1>6
    <3> HIDE DEF x
    <3>2. hashes[x] \in Hash
      BY <1>2, <3>1 DEF d
    <3> QED BY <3>2 DEF x
  <2> HIDE DEF coarse
  <2> QED BY <1>3, <2>1
<1> HIDE DEF coarse
<1>8. Len(coarse) = m /\ DOMAIN coarse = 1..m
  BY <1>4, <1>7
<1>9. ASSUME NEW i \in 1..m
      PROVE  FlattenSeq([j \in DOMAIN coarse[i] |-> coarse[i][j].tokens]) = SubSeq(t, 1, i * target_block_size)
  <2> DEFINE x == i * Scale
             h == hashes[x]
  <2>1. x \in Nat \ {0} /\ x <= d /\ x * hash_block_size = i * target_block_size
    BY <1>6
  <2>2. coarse[i] = h
    BY <1>3
  <2> HIDE DEF x
  <2>3. HashOf(q, t, h, x) /\ x * hash_block_size <= Len(t)
    BY <1>1, <2>1, HashInList DEF d
  <2> HIDE DEF h
  <2>4. FlattenSeq(TokensOf(h)) = SubSeq(t, 1, x * hash_block_size)
    BY <1>1, <2>1, <2>3, HashCoversItsPrefix
  <2>5. TokensOf(h) = [j \in DOMAIN coarse[i] |-> coarse[i][j].tokens]
    BY <2>2 DEF TokensOf
  <2> QED BY <2>1, <2>4, <2>5
<1> QED BY <1>5, <1>8, <1>9 DEF coarse, t, hashes

(* Two requests have the same hash for a block of their prompts only when   *)
(* the tokens up to its end, the images in them, and its owner are the      *)
(* same: adapter and salt each from the second block on, the two names in a *)
(* row for the first block alone (PromptBlocksSeparated).                   *)
THEOREM SeparatedHolds == Spec => []PromptBlocksSeparated
BY InvAlways, InvSeparates, PTL

(* With one image at most, the hashes of a request are those one run of the *)
(* hasher over its tokens would give, however they came.                    *)
THEOREM IndependentHolds == Spec => []HashIndependentOfGrowth
BY InvAlways, InvIndependent, PTL

(* The hashes a group with larger blocks reads are one for each of its      *)
(* blocks, and each covers all tokens up to the end of it.                  *)
THEOREM CoarseHolds == Spec => []CoarseHashesCoverTheirBlocks
BY InvAlways, InvCoarse, PTL

----------------------------------------------------------------------------
(* Sums *)

SumOf(g, s) == g \in [0..Len(s) -> Nat] /\ g[0] = 0 /\ \A i \in 1..Len(s) : g[i] = g[i-1] + s[i]

LEMMA Sums ==
    ASSUME NEW s \in Seq(Nat)
    PROVE  \E g : SumOf(g, s) /\ SumSeq(s) = g[Len(s)]
<1> DEFINE n == Len(s)
           step == [i \in 1..n |-> [x \in Nat |-> x + s[i]]]
           Is(sum) == sum = [i \in 0..Len(s) |-> IF i = 0 THEN 0 ELSE sum[i-1] + s[i]]
<1>1. n \in Nat /\ \A i \in 1..n : s[i] \in Nat
  OBVIOUS
<1>2. step \in [1..n -> [Nat -> Nat]]
  BY <1>1
<1>3. PICK f : f \in [0..n -> Nat] /\ f[0] = 0 /\ \A i \in 1..n : f[i] = step[i][f[i-1]]
  <2> HIDE DEF n, step
  <2>1. \E f : Walks(f, Nat, 0, n, step)
    BY <1>1, <1>2, StepFunction
  <2> QED BY <2>1 DEF Walks
<1>4. \A i \in 1..n : f[i] = f[i-1] + s[i]
  <2> SUFFICES ASSUME NEW i \in 1..n PROVE f[i] = f[i-1] + s[i]
    OBVIOUS
  <2>1. i - 1 \in 0..n
    BY <1>1
  <2>2. f[i-1] \in Nat
    BY <1>3, <2>1
  <2> QED BY <1>3, <2>2
<1>5. Is(f)
  <2>1. \A i \in 0..n : f[i] = IF i = 0 THEN 0 ELSE f[i-1] + s[i]
    <3> HIDE DEF step
    <3> QED BY <1>3, <1>4
  <2> QED BY <1>3, <2>1
<1>6. PICK g : g = CHOOSE h : Is(h)
  OBVIOUS
<1>7. Is(g)
  <2> HIDE DEF Is
  <2> QED BY <1>5, <1>6
<1>8. SumSeq(s) = g[n]
  BY <1>6 DEF SumSeq
<1>9. \A i \in 0..n : g[i] = IF i = 0 THEN 0 ELSE g[i-1] + s[i]
  <2> HIDE DEF n
  <2> QED BY <1>7 DEF n
<1> DEFINE Good == {i \in 0..n : g[i] = f[i]}
<1>10. 0..n \subseteq Good
  <2>1. 0 \in Good
    BY <1>1, <1>3, <1>9
  <2>2. ASSUME NEW i \in 1..n, i - 1 \in Good PROVE i \in Good
    BY <1>4, <1>9, <2>2
  <2> HIDE DEF Good, n
  <2> QED BY <1>1, <2>1, <2>2, BoundedInduction
<1>11. f[n] = g[n] /\ SumOf(f, s)
  BY <1>1, <1>3, <1>4, <1>10 DEF SumOf
<1> QED BY <1>8, <1>11

LEMMA SumType ==
    ASSUME NEW s \in Seq(Nat)
    PROVE  SumSeq(s) \in Nat
<1>1. PICK g : SumOf(g, s) /\ SumSeq(s) = g[Len(s)]
  BY Sums
<1> QED BY <1>1 DEF SumOf

LEMMA SumIsMonotone ==
    ASSUME NEW s \in Seq(Nat), NEW t \in Seq(Nat), Len(s) = Len(t), \A i \in 1..Len(s) : s[i] <= t[i]
    PROVE  SumSeq(s) <= SumSeq(t)
<1> DEFINE n == Len(s)
<1>1. PICK g : SumOf(g, s) /\ SumSeq(s) = g[Len(s)]
  BY Sums
<1>2. PICK h : SumOf(h, t) /\ SumSeq(t) = h[Len(t)]
  BY Sums
<1>3. n \in Nat /\ \A i \in 1..n : s[i] \in Nat /\ t[i] \in Nat
  OBVIOUS
<1> DEFINE Good == {i \in 0..n : g[i] <= h[i]}
<1>4. 0 \in Good
  BY <1>1, <1>2, <1>3 DEF SumOf
<1>5. ASSUME NEW i \in 1..n, i - 1 \in Good PROVE i \in Good
  <2>1. g[i-1] \in Nat /\ h[i-1] \in Nat /\ g[i] = g[i-1] + s[i] /\ h[i] = h[i-1] + t[i]
    <3>1. i - 1 \in 0..n
      BY <1>3
    <3> QED BY <1>1, <1>2, <1>3, <3>1 DEF SumOf
  <2>2. s[i] \in Nat /\ t[i] \in Nat /\ s[i] <= t[i] /\ g[i-1] <= h[i-1]
    BY <1>3, <1>5
  <2>3. g[i] <= h[i]
    BY <2>1, <2>2, SMTT(30)
  <2>4. i \in 0..n
    BY <1>3
  <2> QED BY <2>3, <2>4
<1>6. 0..n \subseteq Good
  <2> HIDE DEF Good, n
  <2> QED BY <1>3, <1>4, <1>5, BoundedInduction
<1> QED BY <1>1, <1>2, <1>3, <1>6

(* A sum whose terms are all k times those of another. *)
LEMMA SumIsScaled ==
    ASSUME NEW s \in Seq(Nat), NEW t \in Seq(Nat), NEW k \in Nat, Len(s) = Len(t),
           \A i \in 1..Len(s) : t[i] = s[i] * k
    PROVE  SumSeq(t) = SumSeq(s) * k
<1> DEFINE n == Len(s)
<1>1. PICK g : SumOf(g, s) /\ SumSeq(s) = g[Len(s)]
  BY Sums
<1>2. PICK h : SumOf(h, t) /\ SumSeq(t) = h[Len(t)]
  BY Sums
<1>3. n \in Nat /\ \A i \in 1..n : s[i] \in Nat /\ t[i] \in Nat
  OBVIOUS
<1> DEFINE Good == {i \in 0..n : h[i] = g[i] * k}
<1>4. 0 \in Good
  BY <1>1, <1>2, <1>3 DEF SumOf
<1>5. ASSUME NEW i \in 1..n, i - 1 \in Good PROVE i \in Good
  <2>1. g[i-1] \in Nat /\ h[i-1] \in Nat /\ g[i] = g[i-1] + s[i] /\ h[i] = h[i-1] + t[i]
    <3>1. i - 1 \in 0..n
      BY <1>3
    <3> QED BY <1>1, <1>2, <1>3, <3>1 DEF SumOf
  <2>2. s[i] \in Nat /\ t[i] = s[i] * k /\ h[i-1] = g[i-1] * k
    BY <1>3, <1>5
  <2>3. (g[i-1] + s[i]) * k = g[i-1] * k + s[i] * k
    BY <2>1, <2>2, SMTT(30)
  <2>4. h[i] = g[i] * k
    BY <2>1, <2>2, <2>3
  <2> QED BY <2>4
<1>6. 0..n \subseteq Good
  <2> HIDE DEF Good, n
  <2> QED BY <1>3, <1>4, <1>5, BoundedInduction
<1> QED BY <1>1, <1>2, <1>3, <1>6

LEMMA SumOfEqual ==
    ASSUME NEW t \in Seq(Nat), NEW k \in Nat, \A i \in 1..Len(t) : t[i] = k
    PROVE  SumSeq(t) = Len(t) * k
<1> DEFINE n == Len(t)
<1>2. PICK h : SumOf(h, t) /\ SumSeq(t) = h[Len(t)]
  BY Sums
<1>3. n \in Nat
  OBVIOUS
<1> DEFINE Good == {i \in 0..n : h[i] = i * k}
<1>4. 0 \in Good
  BY <1>2, <1>3 DEF SumOf
<1>5. ASSUME NEW i \in 1..n, i - 1 \in Good PROVE i \in Good
  <2>1. h[i] = h[i-1] + t[i] /\ t[i] = k
    BY <1>2 DEF SumOf
  <2>3. h[i-1] = (i - 1) * k /\ i \in Nat
    BY <1>3, <1>5
  <2>2. (i - 1) * k + k = i * k
    BY <2>3
  <2>4. h[i] = i * k
    BY <2>1, <2>2, <2>3
  <2> QED BY <2>4
<1>6. 0..n \subseteq Good
  <2> HIDE DEF Good, n
  <2> QED BY <1>3, <1>4, <1>5, BoundedInduction
<1> QED BY <1>2, <1>3, <1>6

----------------------------------------------------------------------------
(* Selections *)

Distinct(s) == \A i, j \in 1..Len(s) : i # j => s[i] # s[j]

(* t is what of s is in S: in T, without repetition if s has none. *)
Selects(t, s, S, T) ==
    /\ t \in Seq(T) /\ Len(t) <= Len(s)
    /\ \A x : (\E i \in 1..Len(t) : t[i] = x) <=> (x \in S /\ \E i \in 1..Len(s) : s[i] = x)
    /\ Distinct(s) => Distinct(t)

LEMMA OnlySelects ==
    ASSUME NEW T, NEW s \in Seq(T), NEW S
    PROVE  Selects(Only(s, S), s, S, T)
<1> DEFINE n == Len(s)
           step == [i \in 1..n |-> [x \in Seq(T) |-> IF s[i] \in S THEN Append(x, s[i]) ELSE x]]
           Is(kept) == kept = [i \in 0..Len(s) |-> IF i = 0 THEN <<>>
                                  ELSE IF s[i] \in S THEN Append(kept[i-1], s[i]) ELSE kept[i-1]]
<1>1. n \in Nat /\ (\A i \in 1..n : s[i] \in T) /\ <<>> \in Seq(T)
  OBVIOUS
<1>2. step \in [1..n -> [Seq(T) -> Seq(T)]]
  <2>1. ASSUME NEW i \in 1..n, NEW x \in Seq(T) PROVE Append(x, s[i]) \in Seq(T)
    BY <1>1, AppendProperties
  <2> HIDE DEF n
  <2> QED BY <2>1
<1>3. PICK f : f \in [0..n -> Seq(T)] /\ f[0] = <<>> /\ \A i \in 1..n : f[i] = step[i][f[i-1]]
  <2> DEFINE e == <<>>
  <2>0. e \in Seq(T)
    OBVIOUS
  <2> HIDE DEF n, step, e
  <2>1. \E f : Walks(f, Seq(T), e, n, step)
    BY <1>1, <1>2, <2>0, StepFunction
  <2> QED BY <2>1 DEF Walks, e
<1>4. \A i \in 1..n : f[i-1] \in Seq(T) /\ f[i] = IF s[i] \in S THEN Append(f[i-1], s[i]) ELSE f[i-1]
  <2> SUFFICES ASSUME NEW i \in 1..n PROVE f[i-1] \in Seq(T) /\ f[i] = IF s[i] \in S THEN Append(f[i-1], s[i]) ELSE f[i-1]
    OBVIOUS
  <2>1. i - 1 \in 0..n
    BY <1>1
  <2>2. f[i-1] \in Seq(T)
    BY <1>3, <2>1
  <2>3. f[i] = step[i][f[i-1]]
    BY <1>3
  <2> DEFINE u == f[i-1]
  <2> HIDE DEF u, n
  <2>4. step[i][u] = IF s[i] \in S THEN Append(u, s[i]) ELSE u
    BY <2>2 DEF u
  <2> QED BY <2>2, <2>3, <2>4 DEF u
<1>5. Is(f)
  <2>1. \A i \in 0..n : f[i] = IF i = 0 THEN <<>> ELSE IF s[i] \in S THEN Append(f[i-1], s[i]) ELSE f[i-1]
    <3> SUFFICES ASSUME NEW i \in 0..n
                 PROVE  f[i] = IF i = 0 THEN <<>> ELSE IF s[i] \in S THEN Append(f[i-1], s[i]) ELSE f[i-1]
      OBVIOUS
    <3>1. CASE i = 0
      BY <1>3, <3>1
    <3>2. CASE i # 0
      <4>1. i \in 1..n
        BY <1>1, <3>2
      <4> HIDE DEF n
      <4> QED BY <1>4, <3>2, <4>1
    <3> QED BY <3>1, <3>2
  <2> QED BY <1>3, <2>1
<1>6. PICK g : g = CHOOSE h : Is(h)
  OBVIOUS
<1>7. Is(g)
  <2> HIDE DEF Is
  <2> QED BY <1>5, <1>6
<1>8. Only(s, S) = g[n]
  BY <1>6 DEF Only
<1>9. g[0] = <<>> /\ \A i \in 1..n : g[i] = IF s[i] \in S THEN Append(g[i-1], s[i]) ELSE g[i-1]
  <2>1. \A i \in 0..n : g[i] = IF i = 0 THEN <<>> ELSE IF s[i] \in S THEN Append(g[i-1], s[i]) ELSE g[i-1]
    BY <1>7
  <2>2. 0 \in 0..n /\ \A i \in 1..n : i \in 0..n /\ i # 0
    BY <1>1
  <2> QED BY <2>1, <2>2
<1> DEFINE In(k) == \A x : (\E i \in 1..Len(g[k]) : g[k][i] = x) <=> (x \in S /\ \E i \in 1..k : s[i] = x)
           Good == {k \in 0..n : /\ g[k] \in Seq(T) /\ Len(g[k]) <= k /\ In(k)
                                 /\ (Distinct(s) => Distinct(g[k]))}
<1>10. 0 \in Good
  <2>1. g[0] \in Seq(T) /\ Len(g[0]) = 0
    BY <1>9
  <2>2. In(0)
    BY <2>1
  <2>3. Distinct(g[0])
    BY <2>1 DEF Distinct
  <2> HIDE DEF In
  <2> QED BY <1>1, <2>1, <2>2, <2>3
<1>11. ASSUME NEW k \in 1..n, k - 1 \in Good PROVE k \in Good
  <2> DEFINE u == g[k-1]
             v == g[k]
             y == s[k]
  <2>1. u \in Seq(T) /\ Len(u) <= k - 1 /\ In(k-1) /\ (Distinct(s) => Distinct(u)) /\ y \in T /\ Len(u) \in Nat
    <3>1. u \in Seq(T) /\ Len(u) <= k - 1 /\ In(k-1) /\ (Distinct(s) => Distinct(u))
      <4> HIDE DEF In
      <4> QED BY <1>11
    <3>2. y \in T
      BY <1>1
    <3> HIDE DEF In, u, y
    <3>3. Len(u) \in Nat
      BY <3>1
    <3> QED BY <3>1, <3>2, <3>3
  <2>2. v = IF y \in S THEN Append(u, y) ELSE u
    BY <1>9
  <2>3. \A x : (\E i \in 1..k : s[i] = x) <=> (x = y \/ \E i \in 1..k-1 : s[i] = x)
    <3>1. \A i \in 1..k : i = k \/ i \in 1..k-1
      BY <1>1
    <3>2. k \in 1..k /\ \A i \in 1..k-1 : i \in 1..k
      BY <1>1
    <3> QED BY <3>1, <3>2
  <2>4. \A x : (\E i \in 1..Len(u) : u[i] = x) <=> (x \in S /\ \E i \in 1..k-1 : s[i] = x)
    BY <2>1
  <2>5. CASE y \notin S
    <3>1. v = u
      BY <2>2, <2>5
    <3>2. In(k)
      BY <2>3, <2>4, <2>5, <3>1
    <3>3. k \in 0..n /\ Len(u) <= k
      BY <1>1, <2>1
    <3> HIDE DEF In
    <3> QED BY <2>1, <3>1, <3>2, <3>3
  <2>6. CASE y \in S
    <3> HIDE DEF u, v, y
    <3>1. v = Append(u, y)
      BY <2>2, <2>6
    <3>2. v \in Seq(T) /\ Len(v) = Len(u) + 1 /\ (\A i \in 1..Len(u) : v[i] = u[i]) /\ v[Len(u) + 1] = y
      BY <2>1, <3>1, AppendProperties
    <3>3. \A i \in 1..Len(v) : i \in 1..Len(u) \/ i = Len(u) + 1
      BY <2>1, <3>2
    <3>4. Len(u) + 1 \in 1..Len(v) /\ \A i \in 1..Len(u) : i \in 1..Len(v)
      BY <2>1, <3>2
    <3>5. \A x : (\E i \in 1..Len(v) : v[i] = x) <=> (x = y \/ \E i \in 1..Len(u) : u[i] = x)
      BY <3>2, <3>3, <3>4
    <3>6. In(k)
      <4>1. \A x : (\E i \in 1..Len(v) : v[i] = x) <=> (x \in S /\ \E i \in 1..k : s[i] = x)
        BY <2>3, <2>4, <2>6, <3>5
      <4> QED BY <4>1 DEF v
    <3>7. ASSUME Distinct(s) PROVE Distinct(v)
      <4>1. ASSUME NEW i \in 1..Len(u) PROVE u[i] # y
        <5>1. \E j \in 1..k-1 : s[j] = u[i]
          BY <2>4
        <5>2. PICK j \in 1..k-1 : s[j] = u[i]
          BY <5>1
        <5>3. j \in 1..Len(s) /\ k \in 1..Len(s) /\ j # k
          BY <1>1
        <5> QED BY <3>7, <5>2, <5>3 DEF Distinct, y
      <4>2. \A i, j \in 1..Len(u) : i # j => u[i] # u[j]
        BY <2>1, <3>7 DEF Distinct
      <4> QED BY <3>2, <3>3, <4>1, <4>2 DEF Distinct
    <3>8. Len(v) <= k /\ k \in 0..n
      BY <1>1, <2>1, <3>2
    <3> HIDE DEF In, n
    <3> QED BY <3>2, <3>6, <3>7, <3>8 DEF v
  <2> QED BY <2>5, <2>6
<1>12. 0..n \subseteq Good
  <2> HIDE DEF Good, n
  <2> QED BY <1>1, <1>10, <1>11, BoundedInduction
<1>13. n \in Good
  <2> HIDE DEF Good, n
  <2> QED BY <1>1, <1>12
<1> QED BY <1>8, <1>13 DEF Selects
----------------------------------------------------------------------------
(* Greatest and least *)

LEMMA MaxIs ==
    ASSUME NEW S \in SUBSET Nat, IsFiniteSet(S), S # {}
    PROVE  Max(S) \in S /\ \A y \in S : y <= Max(S)
<1> DEFINE n == Cardinality(S)
<1>1. n \in Nat /\ ExistsBijection(1..n, S)
  BY FS_CardinalityType
<1>2. PICK f : f \in Bijection(1..n, S)
  BY <1>1 DEF ExistsBijection
<1>3. (\A i \in 1..n : f[i] \in S) /\ \A x \in S : \E i \in 1..n : f[i] = x
  BY <1>2 DEF Bijection, Injection, Surjection, IsInjective
<1> HIDE DEF n
<1> DEFINE Good == {k \in 0..n : k = 0 \/ \E j \in 1..k : \A i \in 1..k : f[i] <= f[j]}
<1>4. 0 \in Good
  BY <1>1
<1>5. ASSUME NEW k \in 1..n, k - 1 \in Good PROVE k \in Good
  <2>0. \A i \in 1..n : f[i] \in Nat
    BY <1>3
  <2>1. f[k] \in Nat /\ \A i \in 1..k : i \in 1..n /\ f[i] \in Nat /\ (i = k \/ i \in 1..k-1)
    BY <1>1, <2>0
  <2>2. CASE k - 1 = 0
    <3>1. k \in 1..k /\ \A i \in 1..k : f[i] <= f[k]
      BY <2>1, <2>2
    <3> QED BY <1>1, <3>1
  <2>3. CASE k - 1 # 0
    <3>1. PICK j \in 1..k-1 : \A i \in 1..k-1 : f[i] <= f[j]
      BY <1>5, <2>3
    <3>2. k \in 1..k /\ j \in 1..k
      BY <1>1
    <3>3. CASE f[k] <= f[j]
      <4>1. \A i \in 1..k : f[i] <= f[j]
        BY <2>1, <3>1, <3>3
      <4> QED BY <1>1, <3>2, <4>1
    <3>4. CASE ~(f[k] <= f[j])
      <4>1. \A i \in 1..k : f[i] <= f[k]
        BY <2>1, <3>1, <3>2, <3>4
      <4> QED BY <1>1, <3>2, <4>1
    <3> QED BY <3>3, <3>4
  <2> QED BY <2>2, <2>3
<1>6. n \in Good
  <2>1. 0..n \subseteq Good
    <3> HIDE DEF Good
    <3> QED BY <1>1, <1>4, <1>5, BoundedInduction
  <2>2. n \in 0..n
    BY <1>1
  <2> HIDE DEF Good
  <2> QED BY <2>1, <2>2
<1>7. n # 0
  <2>1. PICK x \in S : TRUE
    OBVIOUS
  <2>2. PICK i \in 1..n : f[i] = x
    BY <1>3
  <2> QED BY <1>1, <2>2
<1>8. PICK j \in 1..n : \A i \in 1..n : f[i] <= f[j]
  BY <1>6, <1>7
<1>9. f[j] \in S /\ \A y \in S : y <= f[j] /\ f[j] >= y
  BY <1>3, <1>8
<1>10. PICK m : m = Max(S)
  OBVIOUS
<1>11. m \in S /\ \A y \in S : m >= y
  BY <1>9, <1>10 DEF Max
<1> QED BY <1>10, <1>11

LEMMA MinIs ==
    ASSUME NEW S \in SUBSET Nat, S # {}
    PROVE  Min(S) \in S /\ \A y \in S : Min(S) <= y
<1> DEFINE Bad == S
<1>0. Bad \subseteq Nat /\ Bad # {}
  OBVIOUS
<1>1. PICK i \in Bad : \A j \in Bad : ~ (<<j, i>> \in OpToRel(<, Nat))
  BY <1>0, WFMin, NatLessThanWellFounded
<1>5. \A j \in Bad : ~ (j < i)
  BY <1>0, <1>1 DEF OpToRel
<1>2. \A j \in S : i <= j
  <2>1. \A j \in Bad : j \in Nat /\ i \in Nat
    BY <1>0
  <2> QED BY <2>1, <1>5
<1>3. PICK m : m = Min(S)
  OBVIOUS
<1>4. m \in S /\ \A y \in S : m =< y
  BY <1>2, <1>3 DEF Min
<1> QED BY <1>3, <1>4

LEMMA ValuesAreFinite ==
    ASSUME NEW D, IsFiniteSet(D), NEW f, DOMAIN f = D, NEW R, R = {f[x] : x \in D}
    PROVE  IsFiniteSet(R) /\ Cardinality(R) <= Cardinality(D)
<1> DEFINE h == [x \in D |-> f[x]]
<1>1. h \in Surjection(D, R)
  BY DEF Surjection
<1> QED BY <1>1, FS_Surjection

(* m is the greatest of the values of f. *)
Greatest(m, f, D) == m \in Nat /\ (\E x \in D : m = f[x]) /\ \A x \in D : f[x] <= m
LEMMA MaxOfValues ==
    ASSUME NEW D, IsFiniteSet(D), D # {}, NEW f \in [D -> Nat], NEW R, R = {f[x] : x \in D}
    PROVE  Greatest(Max(R), f, D)
<1>1. R \subseteq Nat /\ R # {}
  OBVIOUS
<1>2. IsFiniteSet(R)
  BY ValuesAreFinite
<1>3. Max(R) \in R /\ \A y \in R : y <= Max(R)
  BY <1>1, <1>2, MaxIs
<1> QED BY <1>1, <1>3 DEF Greatest

LEMMA MaxIsMonotone ==
    ASSUME NEW D, IsFiniteSet(D), D # {}, NEW f \in [D -> Nat], NEW h \in [D -> Nat],
           \A x \in D : f[x] <= h[x], NEW R, R = {f[x] : x \in D}, NEW Q, Q = {h[x] : x \in D}
    PROVE  Max(R) <= Max(Q)
<1>1. Greatest(Max(R), f, D) /\ Greatest(Max(Q), h, D)
  BY MaxOfValues
<1>2. PICK x \in D : Max(R) = f[x]
  BY <1>1 DEF Greatest
<1>3. h[x] <= Max(Q) /\ f[x] <= h[x] /\ h[x] \in Nat /\ f[x] \in Nat /\ Max(Q) \in Nat
  BY <1>1 DEF Greatest
<1> QED BY <1>2, <1>3

LEMMA LargerOfTwo ==
    ASSUME NEW a \in Nat
    PROVE  Max({a, 1}) \in Nat \ {0}
<1> DEFINE S == {a, 1}
<1>1. S \subseteq Nat /\ S # {} /\ 1 \in S
  OBVIOUS
<1>2. IsFiniteSet(S)
  <2>1. IsFiniteSet({a})
    BY FS_Singleton
  <2>2. S = {a} \cup {1}
    OBVIOUS
  <2> HIDE DEF S
  <2> QED BY <2>1, <2>2, FS_AddElement
<1> HIDE DEF S
<1>3. Max(S) \in S /\ 1 <= Max(S)
  BY <1>1, <1>2, MaxIs
<1>5. Max(S) \in Nat
  BY <1>1, <1>3
<1>4. Max(S) \in Nat \ {0}
  BY <1>3, <1>5
<1> QED BY <1>4 DEF S

(* t lists S, each element once. *)
Lists(t, S) == t \in Seq(S) /\ Distinct(t) /\ \A x \in S : \E i \in 1..Len(t) : t[i] = x

LEMMA InOrderLists ==
    ASSUME NEW S, IsFiniteSet(S), S \subseteq Nat \ {0}
    PROVE  Lists(InOrder(S), S)
<1> DEFINE U == S \cup {0}
           m == Max(U)
           s == [i \in 1..m |-> i]
           t == Only(s, S)
<1>1. m \in Nat /\ \A x \in S : x <= m
  <2>1. IsFiniteSet(U) /\ U \subseteq Nat /\ U # {}
    BY FS_AddElement
  <2> HIDE DEF U
  <2>2. m \in U /\ \A y \in U : y <= m
    BY <2>1, MaxIs
  <2> QED BY <2>1, <2>2 DEF U
<1> HIDE DEF m
<1>2. s \in Seq(Nat) /\ Len(s) = m
  BY <1>1
<1>3. Distinct(s) /\ \A x \in S : \E i \in 1..Len(s) : s[i] = x
  BY <1>1, <1>2 DEF Distinct
<1>4. Selects(t, s, S, Nat)
  <2> HIDE DEF s
  <2> QED BY <1>2, OnlySelects
<1> HIDE DEF s, t
<1>5. t \in Seq(Nat) /\ Distinct(t)
      /\ \A x : (\E i \in 1..Len(t) : t[i] = x) <=> (x \in S /\ \E i \in 1..Len(s) : s[i] = x)
  BY <1>3, <1>4 DEF Selects
<1>6. \A x \in S : \E i \in 1..Len(t) : t[i] = x
  BY <1>3, <1>5
<1>7. t \in Seq(S)
  <2>1. t = [i \in 1..Len(t) |-> t[i]] /\ Len(t) \in Nat
    BY <1>5
  <2>2. \A i \in 1..Len(t) : t[i] \in S
    BY <1>5
  <2> QED BY <2>1, <2>2
<1>8. Lists(t, S)
  BY <1>5, <1>6, <1>7 DEF Lists
<1> QED BY <1>8 DEF InOrder, t, s, m, U

----------------------------------------------------------------------------
(* Rounding up *)

LEMMA Quotient ==
    ASSUME NEW a \in Nat, NEW d \in Nat \ {0}
    PROVE  /\ a \div d \in Nat /\ (a \div d) * d <= a
           /\ \A b \in Nat : a <= b => a \div d <= b \div d
           /\ (d <= a => a \div d # 0)
  OBVIOUS

LEMMA RoundedUp ==
    ASSUME NEW a \in Nat, NEW d \in Nat \ {0}
    PROVE  /\ cdiv(a, d) \in Nat
           /\ (a # 0 => cdiv(a, d) # 0) /\ cdiv(a, d) <= a
           /\ \A k \in 1..cdiv(a, d) : (k - 1) * d < a
           /\ \A b \in Nat : a <= b => cdiv(a, d) <= cdiv(b, d)
<1> DEFINE q == (a + d - 1) \div d
<1>1. a + d - 1 \in Nat /\ q \in Nat /\ q * d <= a + d - 1
  <2>1. a + d - 1 \in Nat
    OBVIOUS
  <2> DEFINE e == a + d - 1
  <2> HIDE DEF e
  <2>2. e \div d \in Nat /\ (e \div d) * d <= e
    BY <2>1, Quotient DEF e
  <2> QED BY <2>1, <2>2 DEF e
<1>2. a # 0 => q # 0
  OBVIOUS
<1>3. \A k \in 1..q : (k - 1) * d < a
  <2> SUFFICES ASSUME NEW k \in 1..q PROVE (k - 1) * d < a
    OBVIOUS
  <2> HIDE DEF q
  <2>1. k \in Nat /\ q \in Nat /\ k <= q
    BY <1>1
  <2>2. k * d <= q * d
    BY <2>1
  <2>3. (k - 1) * d = k * d - d /\ k * d \in Nat /\ q * d \in Nat
    BY <2>1
  <2> DEFINE u == k * d
             v == q * d
             w == (k - 1) * d
  <2> HIDE DEF u, v, w
  <2>4. u <= v /\ w = u - d /\ u \in Nat /\ v \in Nat /\ v <= a + d - 1
    BY <1>1, <2>2, <2>3 DEF u, v, w
  <2>5. w < a
    BY <2>4
  <2> QED BY <2>5 DEF w
<1>4. ASSUME NEW b \in Nat, a <= b PROVE q <= (b + d - 1) \div d
  BY <1>4
<1>5. q <= a
  <2>1. CASE q = 0
    BY <2>1
  <2>2. CASE q # 0
    <3>1. q \in 1..q
      BY <1>1, <2>2
    <3>2. (q - 1) * d < a
      BY <1>3, <3>1
    <3> HIDE DEF q
    <3>3. q - 1 \in Nat /\ (q - 1) * 1 <= (q - 1) * d
      BY <1>1, <2>2
    <3>4. (q - 1) * d \in Nat
      BY <3>3
    <3> QED BY <1>1, <3>2, <3>3, <3>4
  <2> QED BY <2>1, <2>2
<1> QED BY <1>1, <1>2, <1>3, <1>4, <1>5 DEF cdiv

----------------------------------------------------------------------------
(* Sequences *)

LEMMA FunctionIsSeq ==
    ASSUME NEW T, NEW n \in Nat, NEW f \in [1..n -> T]
    PROVE  f \in Seq(T) /\ Len(f) = n
<1>1. f = [i \in 1..n |-> f[i]] /\ \A i \in 1..n : f[i] \in T
  OBVIOUS
<1> QED BY <1>1

LEMMA FlattenedType ==
    ASSUME NEW T, NEW seqs \in Seq(Seq(T))
    PROVE  FlattenSeq(seqs) \in Seq(T) /\ (Len(seqs) # 0 /\ Len(seqs[1]) # 0 => Len(FlattenSeq(seqs)) # 0)
<1>1. CASE Len(seqs) = 0
  <2>1. FlattenSeq(seqs) = seqs
    BY <1>1 DEF FlattenSeq
  <2>2. seqs = <<>>
    BY <1>1
  <2> QED BY <1>1, <2>1, <2>2
<1>2. CASE Len(seqs) # 0
  <2> DEFINE n == Len(seqs)
  <2>1. PICK g : /\ FlattenSeq(seqs) = g[n] /\ g[1] = seqs[1]
                 /\ \A i \in 2..n : g[i] = g[i-1] \o seqs[i]
    BY <1>2, Flattens
  <2>2. n \in Nat /\ \A i \in 1..n : seqs[i] \in Seq(T)
    OBVIOUS
  <2> DEFINE Good == {i \in 0..n : i # 0 => g[i] \in Seq(T) /\ (Len(seqs[1]) # 0 => Len(g[i]) # 0)}
  <2>3. 0 \in Good
    BY <2>2
  <2>4. ASSUME NEW i \in 1..n, i - 1 \in Good PROVE i \in Good
    <3>1. CASE i = 1
      <4>1. g[i] \in Seq(T) /\ (Len(seqs[1]) # 0 => Len(g[i]) # 0)
        BY <2>1, <2>2, <3>1
      <4> QED BY <2>2, <4>1
    <3>2. CASE i # 1
      <4> DEFINE u == g[i-1]
                 v == seqs[i]
      <4>1. u \in Seq(T) /\ (Len(seqs[1]) # 0 => Len(u) # 0)
        BY <2>2, <2>4, <3>2
      <4>5. i \in 2..n
        BY <2>2, <3>2
      <4>2. v \in Seq(T) /\ g[i] = u \o v
        BY <2>1, <2>2, <4>5
      <4> HIDE DEF u, v
      <4>8. u \in Seq(T) /\ v \in Seq(T)
        BY <4>1, <4>2, Zenon
      <4>6. Len(u) \in Nat /\ Len(v) \in Nat
        BY <4>8, LenProperties, SMTT(30)
      <4>7. u \o v \in Seq(T) /\ Len(u \o v) = Len(u) + Len(v)
        BY <4>8, ConcatProperties, SMTT(30)
      <4>3. u \o v \in Seq(T) /\ Len(u \o v) = Len(u) + Len(v) /\ Len(u) \in Nat /\ Len(v) \in Nat
        BY <4>6, <4>7
      <4>4. g[i] \in Seq(T) /\ (Len(seqs[1]) # 0 => Len(g[i]) # 0)
        BY <4>1, <4>2, <4>3
      <4> QED BY <2>2, <4>4
    <3> QED BY <3>1, <3>2
  <2>5. 0..n \subseteq Good
    <3> HIDE DEF Good, n
    <3> QED BY <2>2, <2>3, <2>4, BoundedInduction
  <2>6. g[n] \in Seq(T) /\ (Len(seqs[1]) # 0 => Len(g[n]) # 0)
    <3>1. n \in 0..n /\ n # 0
      BY <1>2, <2>2
    <3> QED BY <2>5, <3>1
  <2> QED BY <2>1, <2>6
<1> QED BY <1>1, <1>2

LEMMA EveryNthType ==
    ASSUME NEW T, NEW s \in Seq(T), NEW n \in Nat \ {0}, n <= Len(s), NEW i \in 1..n
    PROVE  EveryNth(s, i, n) \in Seq(T) /\ Len(EveryNth(s, i, n)) # 0
<1> DEFINE a == Len(s) - i + 1
           m == cdiv(a, n)
           f == [k \in 1..m |-> s[i + (k - 1) * n]]
<1>1. Len(s) \in Nat /\ i \in Nat \ {0} /\ a \in Nat \ {0}
  OBVIOUS
<1>2. m \in Nat /\ m # 0 /\ \A k \in 1..m : (k - 1) * n < a
  <2> HIDE DEF a
  <2> QED BY <1>1, RoundedUp
<1>3. f \in [1..m -> T]
  <2> SUFFICES ASSUME NEW k \in 1..m PROVE s[i + (k - 1) * n] \in T
    OBVIOUS
  <2> DEFINE x == (k - 1) * n
  <2> HIDE DEF m
  <2>1. x \in Nat
    BY <1>2
  <2>2. x < a
    BY <1>2
  <2> HIDE DEF x
  <2>3. i + x \in 1..Len(s)
    BY <1>1, <2>1, <2>2
  <2>4. s[i + x] \in T
    BY <2>3
  <2> QED BY <2>4 DEF x
<1>4. f \in Seq(T) /\ Len(f) = m
  <2> HIDE DEF f, m
  <2> QED BY <1>2, <1>3, FunctionIsSeq
<1>5. EveryNth(s, i, n) = f
  BY DEF EveryNth
<1> HIDE DEF f, m
<1> QED BY <1>2, <1>4, <1>5

LEMMA UpTo ==
    ASSUME NEW n \in Nat
    PROVE  IsFiniteSet(1..n) /\ Cardinality(1..n) = n
BY FS_Interval, SMTT(30)

LEMMA ListedType ==
    ASSUME NEW t, NEW S, Lists(t, S)
    PROVE  t \in Seq(S) /\ Len(t) \in Nat /\ IsFiniteSet(S) /\ Cardinality(S) = Len(t)
<1> DEFINE n == Len(t)
<1>1. t \in Seq(S) /\ n \in Nat
  BY DEF Lists
<1>2. t \in Bijection(1..n, S)
  <2>1. t \in [1..n -> S] /\ \A x \in S : \E i \in 1..n : t[i] = x
    BY DEF Lists
  <2>2. \A i, j \in 1..n : t[i] = t[j] => i = j
    BY DEF Lists, Distinct
  <2> HIDE DEF n
  <2> QED BY <2>1, <2>2 DEF Bijection, Injection, Surjection, IsInjective
<1>3. IsFiniteSet(1..n) /\ Cardinality(1..n) = n
  <2> HIDE DEF n
  <2> QED BY <1>1, UpTo
<1>4. ExistsBijection(1..n, S)
  BY <1>2 DEF ExistsBijection
<1>5. IsFiniteSet(S) /\ Cardinality(S) = Cardinality(1..n)
  <2> DEFINE I == 1..n
  <2>1. IsFiniteSet(I) /\ ExistsBijection(I, S)
    BY <1>3, <1>4
  <2> HIDE DEF I
  <2>2. IsFiniteSet(S) /\ Cardinality(S) = Cardinality(I)
    BY <2>1, FS_Bijection
  <2> QED BY <2>2 DEF I
<1> QED BY <1>1, <1>3, <1>5

LEMMA ElementsAreFinite ==
    ASSUME NEW T, NEW s \in Seq(T)
    PROVE  IsFiniteSet(ToSet(s)) /\ ToSet(s) \subseteq T
<1> DEFINE R == {s[x] : x \in 1..Len(s)}
           I == 1..Len(s)
<1>1. Len(s) \in Nat /\ DOMAIN s = I
  OBVIOUS
<1>2. IsFiniteSet(I)
  BY <1>1, FS_Interval
<1>3. IsFiniteSet(R)
  <2>1. R = {s[x] : x \in I}
    OBVIOUS
  <2> HIDE DEF R, I
  <2> QED BY <1>1, <1>2, <2>1, ValuesAreFinite
<1>4. ToSet(s) = R
  BY <1>1 DEF ToSet
<1> QED BY <1>3, <1>4

----------------------------------------------------------------------------
(* What a group of layers takes *)

LEMMA BatchedTokens == max_num_batched_tokens \in Nat \ {0}
  BY KVCacheConfigAssumption

LEMMA BytesGrow ==
    ASSUME NEW s \in LayerSpec, NEW len \in Nat, NEW more \in Nat, len <= more
    PROVE  MaxBytes(s, len) \in Nat /\ MaxBytes(s, len) <= MaxBytes(s, more)
<1>1. s.block_size \in Nat \ {0} /\ s.page \in Nat /\ s.window \in Nat /\ s.kind \in Kinds
  BY DEF LayerSpec
<1>2. ASSUME NEW a \in Nat, NEW b \in Nat, a <= b
      PROVE  a * s.page \in Nat /\ a * s.page <= b * s.page
  BY <1>1, <1>2
<1>3. CASE s.kind \in {"full", "mla", "hidden"}
  <2> DEFINE a == cdiv(len, s.block_size)
             b == cdiv(more, s.block_size)
  <2>1. a \in Nat /\ b \in Nat /\ a <= b
    BY <1>1, RoundedUp
  <2>2. MaxBytes(s, len) = a * s.page /\ MaxBytes(s, more) = b * s.page
    BY <1>3 DEF MaxBytes
  <2> HIDE DEF a, b
  <2>3. a * s.page \in Nat /\ a * s.page <= b * s.page
    BY <1>2, <2>1
  <2> QED BY <2>2, <2>3
<1>4. CASE s.kind \in {"sliding", "swamla"}
  <2> DEFINE w == s.window - 1 + max_num_batched_tokens
             a == cdiv(Least(w, len), s.block_size)
             b == cdiv(Least(w, more), s.block_size)
  <2>1. w \in Nat
    BY <1>1, BatchedTokens
  <2> HIDE DEF w
  <2>2. Least(w, len) \in Nat /\ Least(w, more) \in Nat /\ Least(w, len) <= Least(w, more)
    BY <2>1 DEF Least
  <2>3. a \in Nat /\ b \in Nat /\ a <= b
    BY <1>1, <2>2, RoundedUp
  <2>4. MaxBytes(s, len) = (a + 1) * s.page /\ MaxBytes(s, more) = (b + 1) * s.page
    BY <1>4 DEF MaxBytes, w
  <2> HIDE DEF a, b
  <2>5. a + 1 \in Nat /\ b + 1 \in Nat /\ a + 1 <= b + 1
    BY <2>3
  <2>6. (a + 1) * s.page \in Nat /\ (a + 1) * s.page <= (b + 1) * s.page
    BY <1>2, <2>5
  <2> QED BY <2>4, <2>6
<1>5. CASE s.kind = "mamba"
  BY <1>1, <1>5 DEF MaxBytes
<1> QED BY <1>1, <1>3, <1>4, <1>5 DEF Kinds

LEMMA PagesGrow ==
    ASSUME NEW s \in LayerSpec, NEW page \in Nat \ {0}, NEW len \in Nat, NEW more \in Nat, len <= more
    PROVE  /\ cdiv(MaxBytes(s, len), page) \in Nat
           /\ cdiv(MaxBytes(s, len), page) <= cdiv(MaxBytes(s, more), page)
<1>1. MaxBytes(s, len) \in Nat /\ MaxBytes(s, more) \in Nat /\ MaxBytes(s, len) <= MaxBytes(s, more)
  BY BytesGrow
<1> QED BY <1>1, RoundedUp

(* A group has layers, each with a spec; its layers on a worker are all of  *)
(* them or none.                                                            *)
FineGroup(g) ==
    /\ IsFiniteSet(DOMAIN g.layers) /\ g.layers \in [DOMAIN g.layers -> LayerSpec] /\ g.spec \in LayerSpec
    /\ g.order \in Seq(DOMAIN g.layers) /\ Len(g.order) # 0
    /\ g.names \in Seq(DOMAIN g.layers) /\ (Len(g.names) # 0 => g.names = g.order)
FineGroups(groups) ==
    Len(groups) \in Nat \ {0} /\ DOMAIN groups = 1..Len(groups) /\ \A i \in DOMAIN groups : FineGroup(groups[i])

LEMMA FineParts ==
    ASSUME NEW g, FineGroup(g)
    PROVE  /\ IsFiniteSet(DOMAIN g.layers) /\ DOMAIN g.layers # {}
           /\ \A n \in DOMAIN g.layers : g.layers[n] \in LayerSpec /\ g.layers[n].page \in Nat \ {0}
           /\ g.spec \in LayerSpec /\ g.spec.page \in Nat \ {0}
           /\ Len(g.order) \in Nat /\ DOMAIN g.order = 1..Len(g.order)
           /\ \A i \in 1..Len(g.order) : g.order[i] \in DOMAIN g.layers
           /\ Len(g.names) \in Nat /\ DOMAIN g.names = 1..Len(g.names)
           /\ \A i \in 1..Len(g.names) : g.names[i] \in DOMAIN g.layers
<1> DEFINE D == DOMAIN g.layers
<1>1. IsFiniteSet(D) /\ g.layers \in [D -> LayerSpec] /\ g.spec \in LayerSpec
      /\ g.order \in Seq(D) /\ Len(g.order) # 0 /\ g.names \in Seq(D)
  BY DEF FineGroup
<1>2. \A n \in D : g.layers[n] \in LayerSpec
  BY <1>1
<1>3. \A s \in LayerSpec : s.page \in Nat \ {0}
  BY DEF LayerSpec
<1> HIDE DEF D
<1>4. Len(g.order) \in Nat /\ DOMAIN g.order = 1..Len(g.order) /\ \A i \in 1..Len(g.order) : g.order[i] \in D
  BY <1>1
<1>5. Len(g.names) \in Nat /\ DOMAIN g.names = 1..Len(g.names) /\ \A i \in 1..Len(g.names) : g.names[i] \in D
  BY <1>1
<1>6. D # {}
  BY <1>1, <1>4
<1> QED BY <1>1, <1>2, <1>3, <1>4, <1>5, <1>6 DEF D

LEMMA GroupsAreFinite ==
    ASSUME NEW groups, FineGroups(groups)
    PROVE  IsFiniteSet(DOMAIN groups) /\ DOMAIN groups # {} /\ 1 \in DOMAIN groups
<1>1. Len(groups) \in Nat \ {0} /\ DOMAIN groups = 1..Len(groups)
  BY DEF FineGroups
<1>2. IsFiniteSet(1..Len(groups))
  BY <1>1, FS_Interval
<1> QED BY <1>1, <1>2

LEMMA LargestGroupIs ==
    ASSUME NEW groups, FineGroups(groups)
    PROVE  LargestGroup(groups) \in Nat
<1> DEFINE D == DOMAIN groups
           f == [i \in D |-> Len(groups[i].names)]
           R == {Len(groups[i].names) : i \in D}
<1>1. f \in [D -> Nat]
  <2>1. \A i \in D : Len(groups[i].names) \in Nat
    BY FineParts DEF FineGroups
  <2> QED BY <2>1
<1>2. R = {f[x] : x \in D}
  OBVIOUS
<1>3. IsFiniteSet(D) /\ D # {}
  BY GroupsAreFinite
<1>4. LargestGroup(groups) = Max(R)
  BY DEF LargestGroup
<1> HIDE DEF D, f, R
<1>5. Greatest(Max(R), f, D)
  BY <1>1, <1>2, <1>3, MaxOfValues
<1> QED BY <1>4, <1>5 DEF Greatest

LEMMA MaxPagesGrow ==
    ASSUME NEW g, FineGroup(g), NEW len \in Nat, NEW more \in Nat, len <= more
    PROVE  MaxPages(g, len) \in Nat /\ MaxPages(g, len) <= MaxPages(g, more)
<1> DEFINE D == DOMAIN g.layers
           f == [n \in D |-> cdiv(MaxBytes(g.layers[n], len), g.layers[n].page)]
           h == [n \in D |-> cdiv(MaxBytes(g.layers[n], more), g.layers[n].page)]
           R == {cdiv(MaxBytes(g.layers[n], len), g.layers[n].page) : n \in D}
           Q == {cdiv(MaxBytes(g.layers[n], more), g.layers[n].page) : n \in D}
<1>1. IsFiniteSet(D) /\ D # {} /\ \A n \in D : g.layers[n] \in LayerSpec /\ g.layers[n].page \in Nat \ {0}
  BY FineParts
<1>2. \A n \in D : f[n] \in Nat /\ h[n] \in Nat /\ f[n] <= h[n]
  <2> SUFFICES ASSUME NEW n \in D PROVE f[n] \in Nat /\ h[n] \in Nat /\ f[n] <= h[n]
    OBVIOUS
  <2> DEFINE s == g.layers[n]
             p == g.layers[n].page
  <2>1. s \in LayerSpec /\ p \in Nat \ {0} /\ more <= more
    BY <1>1
  <2> HIDE DEF s, p, D
  <2>2. cdiv(MaxBytes(s, len), p) \in Nat /\ cdiv(MaxBytes(s, more), p) \in Nat
        /\ cdiv(MaxBytes(s, len), p) <= cdiv(MaxBytes(s, more), p)
    BY <2>1, PagesGrow
  <2>3. f[n] = cdiv(MaxBytes(s, len), p) /\ h[n] = cdiv(MaxBytes(s, more), p)
    BY DEF s, p
  <2> QED BY <2>2, <2>3
<1>3. f \in [D -> Nat] /\ h \in [D -> Nat] /\ R = {f[x] : x \in D} /\ Q = {h[x] : x \in D}
  <2>1. f = [n \in D |-> f[n]] /\ h = [n \in D |-> h[n]]
    OBVIOUS
  <2>2. \A n \in D : f[n] = cdiv(MaxBytes(g.layers[n], len), g.layers[n].page)
                     /\ h[n] = cdiv(MaxBytes(g.layers[n], more), g.layers[n].page)
    OBVIOUS
  <2> HIDE DEF f, h, D
  <2> QED BY <1>2, <2>1, <2>2
<1>4. MaxPages(g, len) = Max(R) /\ MaxPages(g, more) = Max(Q)
  BY DEF MaxPages
<1> HIDE DEF D, f, h, R, Q
<1>5. Greatest(Max(R), f, D)
  BY <1>1, <1>3, MaxOfValues
<1>6. Max(R) <= Max(Q)
  BY <1>1, <1>2, <1>3, MaxIsMonotone
<1> QED BY <1>4, <1>5, <1>6 DEF Greatest

LEMMA PagesOfLayers ==
    ASSUME NEW D, IsFiniteSet(D), NEW layers \in [D -> LayerSpec]
    PROVE  /\ IsFiniteSet(PageSizes(layers)) /\ PageSizes(layers) \subseteq Nat \ {0}
           /\ \A n \in D : layers[n].page \in PageSizes(layers)
           /\ \A p \in PageSizes(layers) : \E n \in D : layers[n].page = p
<1> DEFINE f == [n \in D |-> layers[n].page]
           R == {f[n] : n \in D}
<1>1. R = PageSizes(layers)
  BY DEF PageSizes, Range
<1>2. \A n \in D : f[n] \in Nat \ {0} /\ f[n] = layers[n].page
  BY DEF LayerSpec
<1>3. IsFiniteSet(R)
  <2>1. DOMAIN f = D
    OBVIOUS
  <2> HIDE DEF f
  <2> QED BY <2>1, ValuesAreFinite
<1> QED BY <1>1, <1>2, <1>3

LEMMA NumLayerTuplesIs ==
    ASSUME NEW D, IsFiniteSet(D), D # {}, NEW layers \in [D -> LayerSpec]
    PROVE  /\ NumLayerTuples(layers) \in Nat \ {0}
           /\ \A p \in PageSizes(layers) : IsFiniteSet(LayersOfPage(layers, p)) /\ LayersOfPage(layers, p) \subseteq D
<1> DEFINE P == PageSizes(layers)
           f == [p \in P |-> Cardinality(LayersOfPage(layers, p))]
           R == {Cardinality(LayersOfPage(layers, p)) : p \in P}
<1>1. IsFiniteSet(P) /\ (\A n \in D : layers[n].page \in P) /\ \A p \in P : \E n \in D : layers[n].page = p
  BY PagesOfLayers
<1>2. P # {}
  BY <1>1
<1>3. ASSUME NEW p \in P
      PROVE  IsFiniteSet(LayersOfPage(layers, p)) /\ LayersOfPage(layers, p) \subseteq D
             /\ Cardinality(LayersOfPage(layers, p)) \in Nat \ {0}
  <2> DEFINE L == LayersOfPage(layers, p)
  <2>1. L \subseteq D
    BY DEF LayersOfPage
  <2>2. L # {}
    BY <1>1 DEF LayersOfPage
  <2> HIDE DEF L
  <2>3. IsFiniteSet(L)
    BY <2>1, FS_Subset
  <2>4. Cardinality(L) \in Nat /\ Cardinality(L) # 0
    BY <2>2, <2>3, FS_CardinalityType, FS_EmptySet
  <2> QED BY <2>1, <2>3, <2>4 DEF L
<1>4. f \in [P -> Nat] /\ R = {f[p] : p \in P} /\ \A p \in P : f[p] # 0
  <2> HIDE DEF P
  <2>1. \A p \in P : f[p] \in Nat /\ f[p] # 0 /\ f[p] = Cardinality(LayersOfPage(layers, p))
    BY <1>3
  <2> QED BY <2>1
<1>5. NumLayerTuples(layers) = Max(R)
  BY DEF NumLayerTuples
<1>6. Greatest(Max(R), f, P)
  <2> HIDE DEF P, R, f
  <2> QED BY <1>1, <1>2, <1>4, MaxOfValues
<1>7. Max(R) \in Nat \ {0}
  <2> HIDE DEF P, R, f
  <2>1. \E p \in P : Max(R) = f[p]
    BY <1>6 DEF Greatest
  <2> QED BY <1>4, <1>6, <2>1 DEF Greatest
<1> QED BY <1>3, <1>5, <1>7

LEMMA TuplesOfGroups ==
    ASSUME NEW groups, FineGroups(groups)
    PROVE  Max({NumLayerTuples(groups[i].layers) : i \in DOMAIN groups}) \in Nat
<1> DEFINE D == DOMAIN groups
           f == [i \in D |-> NumLayerTuples(groups[i].layers)]
           R == {NumLayerTuples(groups[i].layers) : i \in D}
<1>1. f \in [D -> Nat]
  <2>1. ASSUME NEW i \in D PROVE NumLayerTuples(groups[i].layers) \in Nat
    <3> DEFINE g == groups[i]
               E == DOMAIN g.layers
    <3>1. FineGroup(g)
      BY DEF FineGroups
    <3> HIDE DEF g
    <3>2. IsFiniteSet(E) /\ E # {} /\ g.layers \in [E -> LayerSpec]
      BY <3>1, FineParts DEF FineGroup
    <3> HIDE DEF E
    <3>3. NumLayerTuples(g.layers) \in Nat
      BY <3>2, NumLayerTuplesIs
    <3> QED BY <3>3 DEF g
  <2> HIDE DEF D
  <2> QED BY <2>1
<1>2. R = {f[x] : x \in D}
  OBVIOUS
<1>3. IsFiniteSet(D) /\ D # {}
  BY GroupsAreFinite
<1>4. Max(R) \in Nat
  <2> HIDE DEF D, f, R
  <2>1. Greatest(Max(R), f, D)
    BY <1>1, <1>2, <1>3, MaxOfValues
  <2> QED BY <2>1 DEF Greatest
<1> QED BY <1>4

LEMMA UniformPageType ==
    ASSUME NEW g, FineGroup(g)
    PROVE  UniformPage(g) \in Nat
<1> DEFINE n == Len(g.order)
           f == [i \in 1..n |-> g.layers[g.order[i]].page]
<1>1. n \in Nat /\ f \in [1..n -> Nat] /\ DOMAIN g.order = 1..n
  BY FineParts
<1>2. UniformPage(g) = SumSeq(f)
  BY <1>1 DEF UniformPage
<1> HIDE DEF f, n
<1>3. f \in Seq(Nat)
  BY <1>1, FunctionIsSeq
<1> QED BY <1>2, <1>3, SumType

(* The pages of the layers of all groups. *)
LEMMA SpecInIs ==
    ASSUME NEW g, FineGroup(g), NEW n \in ToSet(g.names)
    PROVE  SpecIn(g, n).page \in Nat \ {0}
<1>1. n \in DOMAIN g.layers
  BY FineParts DEF ToSet
<1> QED BY <1>1, FineParts DEF SpecIn

LEMMA SlotPagesAre ==
    ASSUME NEW groups, FineGroups(groups)
    PROVE  IsFiniteSet(SlotPages(groups)) /\ SlotPages(groups) \subseteq Nat \ {0}
<1> DEFINE Pages(g) == {SpecIn(g, n).page : n \in ToSet(g.names)}
           D == DOMAIN groups
           f == [i \in D |-> Pages(groups[i])]
           R == {f[i] : i \in D}
<1>1. ASSUME NEW g, FineGroup(g) PROVE IsFiniteSet(Pages(g)) /\ Pages(g) \subseteq Nat \ {0}
  <2> DEFINE N == ToSet(g.names)
             h == [n \in N |-> SpecIn(g, n).page]
             H == {h[n] : n \in N}
  <2>1. IsFiniteSet(N)
    <3> DEFINE E == DOMAIN g.layers
    <3>1. g.names \in Seq(E)
      BY <1>1 DEF FineGroup
    <3> HIDE DEF E
    <3> QED BY <3>1, ElementsAreFinite
  <2>2. \A n \in N : h[n] \in Nat \ {0}
    BY <1>1, SpecInIs
  <2>3. Pages(g) = H /\ DOMAIN h = N
    OBVIOUS
  <2> HIDE DEF Pages, N, h
  <2>4. IsFiniteSet(H)
    BY <2>1, <2>3, ValuesAreFinite
  <2> QED BY <2>2, <2>3, <2>4
<1>2. IsFiniteSet(D) /\ \A i \in D : FineGroup(groups[i])
  BY GroupsAreFinite DEF FineGroups
<1>3. SlotPages(groups) = UNION R
  BY DEF SlotPages, ToSet
<1>4. IsFiniteSet(R)
  <2>1. DOMAIN f = D
    OBVIOUS
  <2> HIDE DEF f, D
  <2> QED BY <1>2, <2>1, ValuesAreFinite
<1>5. \A S \in R : IsFiniteSet(S) /\ S \subseteq Nat \ {0}
  <2> SUFFICES ASSUME NEW i \in D PROVE IsFiniteSet(f[i]) /\ f[i] \subseteq Nat \ {0}
    OBVIOUS
  <2>1. FineGroup(groups[i])
    BY <1>2
  <2> DEFINE g == groups[i]
  <2> HIDE DEF Pages, g
  <2>2. IsFiniteSet(Pages(g)) /\ Pages(g) \subseteq Nat \ {0}
    BY <1>1, <2>1 DEF g
  <2>3. f[i] = Pages(g)
    BY DEF g
  <2> QED BY <2>2, <2>3
<1> HIDE DEF R
<1>6. IsFiniteSet(UNION R)
  BY <1>4, <1>5, FS_UNION
<1> QED BY <1>3, <1>5, <1>6

LEMMA OfPageType ==
    ASSUME NEW g, FineGroup(g), NEW ps
    PROVE  Len(OfPage(g, ps)) \in Nat
<1> DEFINE E == DOMAIN g.layers
           S == {n \in ToSet(g.names) : SpecIn(g, n).page = ps}
           s == g.names
<1>1. s \in Seq(E)
  BY DEF FineGroup
<1> HIDE DEF E, S, s
<1>2. Only(s, S) \in Seq(E)
  <2>1. Selects(Only(s, S), s, S, E)
    BY <1>1, OnlySelects
  <2> QED BY <2>1 DEF Selects
<1>3. Len(Only(s, S)) \in Nat
  BY <1>2, LenProperties
<1> QED BY <1>3 DEF OfPage, S, s

LEMMA NumSlotsType ==
    ASSUME NEW groups, FineGroups(groups), NEW ps
    PROVE  NumSlots(groups, ps) \in Nat
<1> DEFINE D == DOMAIN groups
           f == [i \in D |-> Len(OfPage(groups[i], ps))]
           R == {Len(OfPage(g, ps)) : g \in ToSet(groups)}
<1>1. f \in [D -> Nat]
  <2>1. ASSUME NEW i \in D PROVE Len(OfPage(groups[i], ps)) \in Nat
    BY OfPageType DEF FineGroups
  <2> HIDE DEF D
  <2> QED BY <2>1
<1>2. R = {f[x] : x \in D}
  BY DEF ToSet
<1>3. IsFiniteSet(D) /\ D # {}
  BY GroupsAreFinite
<1>4. NumSlots(groups, ps) = Max(R)
  BY DEF NumSlots
<1> HIDE DEF D, f, R
<1>5. Greatest(Max(R), f, D)
  BY <1>1, <1>2, <1>3, MaxOfValues
<1> QED BY <1>4, <1>5 DEF Greatest

LEMMA PoolBytesType ==
    ASSUME NEW groups, FineGroups(groups), NEW c
    PROVE  _pool_bytes_per_block(c, groups) \in Nat
<1>1. FineGroup(groups[1])
  BY GroupsAreFinite DEF FineGroups
<1>2. CASE OneUniform(groups)
  BY <1>1, <1>2, UniformPageType DEF _pool_bytes_per_block
<1>3. CASE ~OneUniform(groups) /\ Packed(c, groups)
  <2> DEFINE S == SlotPages(groups)
             s == PagesInOrder(groups)
             n == Len(s)
             f == [i \in 1..n |-> s[i] * NumSlots(groups, s[i])]
  <2>1. IsFiniteSet(S) /\ S \subseteq Nat \ {0}
    BY SlotPagesAre
  <2>2. s \in Seq(S)
    <3> HIDE DEF S
    <3>1. Lists(InOrder(S), S)
      BY <2>1, InOrderLists
    <3> QED BY <3>1 DEF Lists, PagesInOrder, S
  <2> HIDE DEF S, s
  <2>7. S \subseteq Nat
    BY <2>1
  <2>8. s \in Seq(Nat)
    BY <2>2, <2>7, SeqMonotonic
  <2>3. n \in Nat /\ DOMAIN s = 1..n /\ \A i \in 1..n : s[i] \in Nat
    BY <2>8
  <2>4. f \in [1..n -> Nat]
    <3>1. ASSUME NEW i \in 1..n PROVE s[i] * NumSlots(groups, s[i]) \in Nat
      <4>1. s[i] \in Nat
        BY <2>3
      <4>2. NumSlots(groups, s[i]) \in Nat
        BY NumSlotsType
      <4> QED BY <4>1, <4>2
    <3> HIDE DEF n
    <3> QED BY <3>1
  <2>5. _pool_bytes_per_block(c, groups) = SumSeq(f)
    BY <1>3, <2>3 DEF _pool_bytes_per_block, s
  <2> HIDE DEF f, n
  <2>6. f \in Seq(Nat)
    BY <2>3, <2>4, FunctionIsSeq
  <2> QED BY <2>5, <2>6, SumType
<1>4. CASE ~OneUniform(groups) /\ ~Packed(c, groups)
  <2>1. _pool_bytes_per_block(c, groups) = groups[1].spec.page * LargestGroup(groups)
    BY <1>4 DEF _pool_bytes_per_block
  <2>2. groups[1].spec.page \in Nat
    BY <1>1, FineParts
  <2>3. LargestGroup(groups) \in Nat
    BY LargestGroupIs
  <2> QED BY <2>1, <2>2, <2>3
<1> QED BY <1>2, <1>3, <1>4

----------------------------------------------------------------------------
(* A longer request takes no less *)

LEMMA ProductGrows ==
    ASSUME NEW a \in Nat, NEW b \in Nat, NEW m \in Nat, NEW k \in Nat, m <= k
    PROVE  a * m \in Nat /\ a * m <= a * k /\ a * m * b \in Nat /\ a * m * b <= a * k * b
<1>1. a * m \in Nat /\ a * k \in Nat /\ a * m <= a * k
  OBVIOUS
<1> DEFINE x == a * m
           y == a * k
<1> HIDE DEF x, y
<1>2. x * b \in Nat /\ x * b <= y * b
  <2>1. x \in Nat /\ y \in Nat /\ x <= y
    BY <1>1 DEF x, y
  <2> QED BY <2>1
<1> QED BY <1>1, <1>2 DEF x, y

LEMMA MemoryGrows ==
    ASSUME NEW groups, FineGroups(groups), NEW len \in Nat, NEW more \in Nat, len <= more
    PROVE  /\ _max_memory_usage_bytes_from_groups(groups, len) \in Nat
           /\ _max_memory_usage_bytes_from_groups(groups, len) <= _max_memory_usage_bytes_from_groups(groups, more)
<1> DEFINE Memory(l) == _max_memory_usage_bytes_from_groups(groups, l)
<1>1. groups # <<>> /\ 1 \in DOMAIN groups /\ FineGroup(groups[1])
  BY GroupsAreFinite DEF FineGroups
<1>2. Len(groups) \in Nat /\ DOMAIN groups = 1..Len(groups) /\ \A i \in 1..Len(groups) : FineGroup(groups[i])
  BY DEF FineGroups
<1>3. CASE OneUniform(groups)
  <2> DEFINE g == groups[1]
             n == Len(g.order)
             f == [i \in 1..n |-> MaxBytes(g.layers[g.order[i]], len)]
             h == [i \in 1..n |-> MaxBytes(g.layers[g.order[i]], more)]
  <2>1. n \in Nat /\ DOMAIN g.order = 1..n /\ \A i \in 1..n : g.layers[g.order[i]] \in LayerSpec
    BY <1>1, FineParts
  <2>2. \A i \in 1..n : f[i] \in Nat /\ h[i] \in Nat /\ f[i] <= h[i]
    <3> SUFFICES ASSUME NEW i \in 1..n PROVE f[i] \in Nat /\ h[i] \in Nat /\ f[i] <= h[i]
      OBVIOUS
    <3> DEFINE s == g.layers[g.order[i]]
    <3>1. s \in LayerSpec /\ more <= more
      BY <2>1
    <3> HIDE DEF s
    <3>2. MaxBytes(s, len) \in Nat /\ MaxBytes(s, more) \in Nat /\ MaxBytes(s, len) <= MaxBytes(s, more)
      BY <3>1, BytesGrow
    <3> QED BY <3>2 DEF s
  <2>3. Memory(len) = SumSeq(f) /\ Memory(more) = SumSeq(h)
    BY <1>1, <1>3, <2>1 DEF _max_memory_usage_bytes_from_groups
  <2>4. f = [i \in 1..n |-> f[i]] /\ h = [i \in 1..n |-> h[i]]
    OBVIOUS
  <2> HIDE DEF f, h, n, Memory
  <2>5. f \in [1..n -> Nat] /\ h \in [1..n -> Nat]
    BY <2>2, <2>4
  <2>6. f \in Seq(Nat) /\ h \in Seq(Nat) /\ Len(f) = n /\ Len(h) = n
    BY <2>1, <2>5, FunctionIsSeq
  <2>7. SumSeq(f) \in Nat /\ SumSeq(f) <= SumSeq(h)
    BY <2>2, <2>6, SumType, SumIsMonotone
  <2> QED BY <2>3, <2>7 DEF Memory
<1>4. CASE ~OneUniform(groups) /\ AllUniform(groups)
  <2> DEFINE tuple == SumSeq(InOrder(PageSizes(groups[1].layers)))
             tuples == Max({NumLayerTuples(groups[i].layers) : i \in DOMAIN groups})
             n == Len(groups)
             f == [i \in 1..n |-> tuples * MaxPages(groups[i], len) * tuple]
             h == [i \in 1..n |-> tuples * MaxPages(groups[i], more) * tuple]
  <2>1. tuples \in Nat
    BY TuplesOfGroups
  <2>2. tuple \in Nat
    <3> DEFINE g == groups[1]
               D == DOMAIN g.layers
               S == PageSizes(g.layers)
               s == InOrder(S)
    <3>1. IsFiniteSet(D) /\ g.layers \in [D -> LayerSpec]
      BY <1>1 DEF FineGroup
    <3> HIDE DEF D
    <3>2. IsFiniteSet(S) /\ S \subseteq Nat \ {0}
      BY <3>1, PagesOfLayers
    <3> HIDE DEF S
    <3>3. Lists(s, S)
      BY <3>2, InOrderLists
    <3>4. s \in Seq(S) /\ S \subseteq Nat
      BY <3>2, <3>3 DEF Lists
    <3> HIDE DEF s
    <3>5. s \in Seq(Nat)
      BY <3>4, SeqMonotonic
    <3>6. SumSeq(s) \in Nat
      BY <3>5, SumType
    <3> QED BY <3>6 DEF s, S
  <2>3. Memory(len) = SumSeq(f) /\ Memory(more) = SumSeq(h)
    BY <1>1, <1>2, <1>4 DEF _max_memory_usage_bytes_from_groups
  <2> HIDE DEF tuple, tuples
  <2>4. \A i \in 1..n : f[i] \in Nat /\ h[i] \in Nat /\ f[i] <= h[i]
    <3> SUFFICES ASSUME NEW i \in 1..n PROVE f[i] \in Nat /\ h[i] \in Nat /\ f[i] <= h[i]
      OBVIOUS
    <3> DEFINE a == MaxPages(groups[i], len)
               b == MaxPages(groups[i], more)
    <3>1. a \in Nat /\ b \in Nat /\ a <= b
      <4>1. FineGroup(groups[i]) /\ more <= more
        BY <1>2
      <4> QED BY <4>1, MaxPagesGrow
    <3>2. f[i] = tuples * a * tuple /\ h[i] = tuples * b * tuple
      OBVIOUS
    <3> HIDE DEF a, b, f, h
    <3>3. b <= b
      BY <3>1
    <3>4. tuples * a * tuple \in Nat /\ tuples * a * tuple <= tuples * b * tuple
      BY <2>1, <2>2, <3>1, ProductGrows
    <3>5. tuples * b * tuple \in Nat
      BY <2>1, <2>2, <3>1, <3>3, ProductGrows
    <3> QED BY <3>2, <3>4, <3>5
  <2>5. f = [i \in 1..n |-> f[i]] /\ h = [i \in 1..n |-> h[i]]
    OBVIOUS
  <2>8. n \in Nat
    BY <1>2
  <2> HIDE DEF f, h, n, Memory
  <2>6. f \in [1..n -> Nat] /\ h \in [1..n -> Nat]
    BY <2>4, <2>5
  <2>7. f \in Seq(Nat) /\ h \in Seq(Nat) /\ Len(f) = n /\ Len(h) = n
    BY <2>8, <2>6, FunctionIsSeq
  <2>9. SumSeq(f) \in Nat /\ SumSeq(f) <= SumSeq(h)
    BY <2>4, <2>7, SumType, SumIsMonotone
  <2> QED BY <2>3, <2>9 DEF Memory
<1>5. CASE ~OneUniform(groups) /\ ~AllUniform(groups)
  <2> DEFINE page == groups[1].spec.page
             n == Len(groups)
             f == [i \in 1..n |-> cdiv(MaxBytes(groups[i].spec, len), page)]
             h == [i \in 1..n |-> cdiv(MaxBytes(groups[i].spec, more), page)]
  <2>1. page \in Nat \ {0}
    BY <1>1, FineParts
  <2>2. LargestGroup(groups) \in Nat
    BY LargestGroupIs
  <2>3. Memory(len) = LargestGroup(groups) * page * SumSeq(f) /\ Memory(more) = LargestGroup(groups) * page * SumSeq(h)
    BY <1>1, <1>2, <1>5 DEF _max_memory_usage_bytes_from_groups
  <2> HIDE DEF page
  <2>4. \A i \in 1..n : f[i] \in Nat /\ h[i] \in Nat /\ f[i] <= h[i]
    <3> SUFFICES ASSUME NEW i \in 1..n PROVE f[i] \in Nat /\ h[i] \in Nat /\ f[i] <= h[i]
      OBVIOUS
    <3> DEFINE s == groups[i].spec
    <3>1. s \in LayerSpec /\ more <= more
      BY <1>2, FineParts
    <3> HIDE DEF s
    <3>2. cdiv(MaxBytes(s, len), page) \in Nat /\ cdiv(MaxBytes(s, more), page) \in Nat
          /\ cdiv(MaxBytes(s, len), page) <= cdiv(MaxBytes(s, more), page)
      BY <2>1, <3>1, PagesGrow
    <3> QED BY <3>2 DEF s
  <2>5. f = [i \in 1..n |-> f[i]] /\ h = [i \in 1..n |-> h[i]]
    OBVIOUS
  <2>8. n \in Nat
    BY <1>2
  <2> HIDE DEF f, h, n, Memory
  <2>6. f \in [1..n -> Nat] /\ h \in [1..n -> Nat]
    BY <2>4, <2>5
  <2>7. f \in Seq(Nat) /\ h \in Seq(Nat) /\ Len(f) = n /\ Len(h) = n
    BY <2>8, <2>6, FunctionIsSeq
  <2>9. SumSeq(f) \in Nat /\ SumSeq(h) \in Nat /\ SumSeq(f) <= SumSeq(h)
    BY <2>4, <2>7, SumType, SumIsMonotone
  <2>10. LargestGroup(groups) * page \in Nat
    BY <2>1, <2>2
  <2>11. LargestGroup(groups) * page * SumSeq(f) \in Nat
         /\ LargestGroup(groups) * page * SumSeq(f) <= LargestGroup(groups) * page * SumSeq(h)
    BY <2>9, <2>10, ProductGrows
  <2> QED BY <2>3, <2>11 DEF Memory
<1> QED BY <1>3, <1>4, <1>5

LEMMA ShorterFits ==
    ASSUME NEW groups, FineGroups(groups), NEW memory \in Int, NEW len \in Nat, NEW more \in Nat, len <= more,
           Fits(groups, memory, more)
    PROVE  Fits(groups, memory, len)
<1> DEFINE a == _max_memory_usage_bytes_from_groups(groups, len)
           b == _max_memory_usage_bytes_from_groups(groups, more)
<1>1. a \in Nat /\ a <= b
  BY MemoryGrows
<1>2. b \in Nat
  <2>1. more <= more
    OBVIOUS
  <2> QED BY <2>1, MemoryGrows
<1>3. b <= memory
  BY DEF Fits
<1> HIDE DEF a, b
<1>4. a <= memory
  BY <1>1, <1>2, <1>3
<1> QED BY <1>4 DEF Fits, a

----------------------------------------------------------------------------
(* The binary search *)

SearchStep(groups, memory, f, s) ==
    IF s.left > s.right THEN s.result
    ELSE IF Fits(groups, memory, Mid(s)) THEN f[RightHalf(s)] ELSE f[LeftHalf(s)]

Size(s) == s.right - s.left + 1

LEMMA Halves ==
    ASSUME NEW o \in Nat \ {0}, NEW s \in Searches(o)
    PROVE  /\ s.left \in 1..o+1 /\ s.right \in 0..o /\ s.result \in 1..o
           /\ Size(s) \in Int /\ Size(s) <= o /\ (Size(s) <= 0 <=> s.left > s.right)
           /\ ~(s.left > s.right) =>
                 /\ Mid(s) \in 1..o /\ s.left <= Mid(s) /\ Mid(s) <= s.right
                 /\ RightHalf(s) \in Searches(o) /\ LeftHalf(s) \in Searches(o)
                 /\ Size(RightHalf(s)) < Size(s) /\ Size(LeftHalf(s)) < Size(s)
                 /\ RightHalf(s).left = Mid(s) + 1 /\ RightHalf(s).right = s.right /\ RightHalf(s).result = Mid(s)
                 /\ LeftHalf(s).left = s.left /\ LeftHalf(s).right = Mid(s) - 1 /\ LeftHalf(s).result = s.result
<1>1. s.left \in 1..o+1 /\ s.right \in 0..o /\ s.result \in 1..o
  BY DEF Searches
<1>2. Size(s) \in Int /\ Size(s) <= o /\ (Size(s) <= 0 <=> s.left > s.right)
  BY <1>1 DEF Size
<1>3. ASSUME ~(s.left > s.right)
      PROVE  /\ Mid(s) \in 1..o /\ s.left <= Mid(s) /\ Mid(s) <= s.right
             /\ RightHalf(s) \in Searches(o) /\ LeftHalf(s) \in Searches(o)
             /\ Size(RightHalf(s)) < Size(s) /\ Size(LeftHalf(s)) < Size(s)
             /\ RightHalf(s).left = Mid(s) + 1 /\ RightHalf(s).right = s.right /\ RightHalf(s).result = Mid(s)
             /\ LeftHalf(s).left = s.left /\ LeftHalf(s).right = Mid(s) - 1 /\ LeftHalf(s).result = s.result
  <2>1. Mid(s) \in 1..o /\ s.left <= Mid(s) /\ Mid(s) <= s.right
    BY <1>1, <1>3 DEF Mid
  <2>2. RightHalf(s).left = Mid(s) + 1 /\ RightHalf(s).right = s.right /\ RightHalf(s).result = Mid(s)
        /\ RightHalf(s) \in Searches(o)
    BY <1>1, <2>1 DEF RightHalf, Searches
  <2>3. LeftHalf(s).left = s.left /\ LeftHalf(s).right = Mid(s) - 1 /\ LeftHalf(s).result = s.result
        /\ LeftHalf(s) \in Searches(o)
    BY <1>1, <2>1 DEF LeftHalf, Searches
  <2>4. Size(RightHalf(s)) < Size(s) /\ Size(LeftHalf(s)) < Size(s)
    BY <1>1, <2>1, <2>2, <2>3 DEF Size
  <2> QED BY <2>1, <2>2, <2>3, <2>4
<1> QED BY <1>1, <1>2, <1>3

(* The recursion of the search has a solution. *)
LEMMA SearchExists ==
    ASSUME NEW o \in Nat \ {0}, NEW groups, NEW memory
    PROVE  \E f : f = [s \in Searches(o) |-> SearchStep(groups, memory, f, s)]
<1> DEFINE X == Searches(o)
           T == [X -> 1..o]
           n == o + 1
           t0 == [s \in X |-> s.result]
           step == [i \in 1..n |-> [f \in T |-> [s \in X |-> SearchStep(groups, memory, f, s)]]]
<1>1. n \in Nat /\ t0 \in T
  BY Halves
<1>2. ASSUME NEW f \in T PROVE [s \in X |-> SearchStep(groups, memory, f, s)] \in T
  <2> SUFFICES ASSUME NEW s \in X PROVE SearchStep(groups, memory, f, s) \in 1..o
    OBVIOUS
  <2>1. s.result \in 1..o /\ (~(s.left > s.right) => RightHalf(s) \in X /\ LeftHalf(s) \in X)
    BY Halves
  <2> HIDE DEF X
  <2> QED BY <2>1 DEF SearchStep
<1>3. step \in [1..n -> [T -> T]]
  <2> HIDE DEF T, X
  <2> QED BY <1>2
<1>4. PICK F : F \in [0..n -> T] /\ F[0] = t0 /\ \A i \in 1..n : F[i] = step[i][F[i-1]]
  <2> HIDE DEF T, n, t0, step
  <2>1. \E F : Walks(F, T, t0, n, step)
    BY <1>1, <1>3, StepFunction
  <2> QED BY <2>1 DEF Walks
<1>5. \A i \in 1..n : F[i-1] \in T /\ F[i] = [s \in X |-> SearchStep(groups, memory, F[i-1], s)]
  <2> SUFFICES ASSUME NEW i \in 1..n PROVE F[i-1] \in T /\ F[i] = [s \in X |-> SearchStep(groups, memory, F[i-1], s)]
    OBVIOUS
  <2> DEFINE before == F[i-1]
  <2>1. before \in T
    <3>1. i - 1 \in 0..n
      BY <1>1
    <3> HIDE DEF T, n
    <3> QED BY <1>4, <3>1
  <2>2. F[i] = step[i][before]
    BY <1>4
  <2> HIDE DEF before, T, X
  <2>3. F[i] = [s \in X |-> SearchStep(groups, memory, before, s)]
    BY <2>1, <2>2
  <2> QED BY <2>1, <2>3 DEF before
<1> DEFINE Good == {k \in 0..o : \A s \in X : Size(s) <= k => F[k+1][s] = F[k][s]}
<1>6. 0 \in Good
  <2> SUFFICES ASSUME NEW s \in X, Size(s) <= 0 PROVE F[1][s] = F[0][s]
    BY <1>1
  <2>1. s.left > s.right
    BY Halves
  <2>2. 1 \in 1..n /\ 1 - 1 = 0
    BY <1>1
  <2>3. F[1] = [x \in X |-> SearchStep(groups, memory, F[0], x)]
    BY <1>5, <2>2
  <2>4. F[1][s] = SearchStep(groups, memory, F[0], s)
    BY <2>3
  <2>5. F[0][s] = s.result
    BY <1>4
  <2> QED BY <2>1, <2>4, <2>5 DEF SearchStep
<1>7. ASSUME NEW k \in 1..o, k - 1 \in Good PROVE k \in Good
  <2> SUFFICES ASSUME NEW s \in X, Size(s) <= k PROVE F[k+1][s] = F[k][s]
    OBVIOUS
  <2>1. k \in 1..n /\ k + 1 \in 1..n /\ k + 1 - 1 = k /\ k - 1 + 1 = k
    BY <1>1
  <2>2. F[k] = [x \in X |-> SearchStep(groups, memory, F[k-1], x)]
    BY <1>5, <2>1
  <2>3. F[k+1] = [x \in X |-> SearchStep(groups, memory, F[k], x)]
    BY <1>5, <2>1
  <2>4. \A x \in X : Size(x) <= k - 1 => F[k][x] = F[k-1][x]
    BY <1>7, <2>1
  <2>5. ~(s.left > s.right) =>
           /\ RightHalf(s) \in X /\ LeftHalf(s) \in X /\ Size(RightHalf(s)) <= k - 1 /\ Size(LeftHalf(s)) <= k - 1
    <3>1. ASSUME ~(s.left > s.right)
          PROVE  /\ RightHalf(s) \in X /\ LeftHalf(s) \in X
                 /\ Size(RightHalf(s)) < Size(s) /\ Size(LeftHalf(s)) < Size(s) /\ Size(s) \in Int
                 /\ Size(RightHalf(s)) \in Int /\ Size(LeftHalf(s)) \in Int
      BY <3>1, Halves
    <3> HIDE DEF X
    <3> QED BY <3>1
  <2>6. ~(s.left > s.right) => F[k][RightHalf(s)] = F[k-1][RightHalf(s)] /\ F[k][LeftHalf(s)] = F[k-1][LeftHalf(s)]
    <3> HIDE DEF X
    <3> QED BY <2>4, <2>5
  <2>7. SearchStep(groups, memory, F[k], s) = SearchStep(groups, memory, F[k-1], s)
    BY <2>6 DEF SearchStep
  <2> HIDE DEF X
  <2> QED BY <2>2, <2>3, <2>7
<1>8. 0..o \subseteq Good
  <2> HIDE DEF Good
  <2> QED BY <1>6, <1>7, BoundedInduction
<1>9. \A s \in X : F[n][s] = F[o][s]
  <2>1. o \in 0..o
    OBVIOUS
  <2>2. o \in Good
    BY <1>8, <2>1
  <2>3. \A s \in X : Size(s) <= o
    BY Halves
  <2> HIDE DEF X
  <2> QED BY <2>2, <2>3
<1>10. F[n] = [s \in X |-> SearchStep(groups, memory, F[n], s)]
  <2>1. n \in 1..n /\ n - 1 = o
    BY <1>1
  <2>2. F[n] = [s \in X |-> SearchStep(groups, memory, F[o], s)]
    BY <1>5, <2>1
  <2>3. \A s \in X : SearchStep(groups, memory, F[n], s) = SearchStep(groups, memory, F[o], s)
    <3> SUFFICES ASSUME NEW s \in X PROVE SearchStep(groups, memory, F[n], s) = SearchStep(groups, memory, F[o], s)
      OBVIOUS
    <3>1. ~(s.left > s.right) => RightHalf(s) \in X /\ LeftHalf(s) \in X
      BY Halves
    <3> HIDE DEF X, n
    <3> QED BY <1>9, <3>1 DEF SearchStep
  <2> HIDE DEF X, n
  <2>4. [s \in X |-> SearchStep(groups, memory, F[o], s)] = [s \in X |-> SearchStep(groups, memory, F[n], s)]
    BY <2>3
  <2> QED BY <2>2, <2>4
<1> QED BY <1>10

(* Nothing longer than what the search returns fits. *)
LEMMA SearchIsLongest ==
    ASSUME NEW o \in Nat \ {0}, NEW groups, FineGroups(groups), NEW memory \in Int,
           NEW f, f = [s \in Searches(o) |-> SearchStep(groups, memory, f, s)],
           NEW len \in 1..o, Fits(groups, memory, len)
    PROVE  \A s \in Searches(o) :
              /\ f[s] \in 1..o
              /\ /\ s.left - 1 <= s.result /\ (s.result < s.left \/ s.result = 1)
                 /\ (len <= s.right \/ len <= s.result)
                 => len <= f[s]
<1> DEFINE X == Searches(o)
           Start(s) == /\ s.left - 1 <= s.result /\ (s.result < s.left \/ s.result = 1)
                       /\ (len <= s.right \/ len <= s.result)
           Good == {k \in 0..o : \A s \in X : Size(s) <= k => f[s] \in 1..o /\ (Start(s) => len <= f[s])}
<1>1. \A s \in X : f[s] = SearchStep(groups, memory, f, s)
  <2> HIDE DEF X
  <2> QED BY DEF X
<1>2. ASSUME NEW s \in X, s.left > s.right PROVE f[s] \in 1..o /\ (Start(s) => len <= f[s])
  <2>1. f[s] = s.result
    BY <1>1, <1>2 DEF SearchStep
  <2>2. s.left \in 1..o+1 /\ s.right \in 0..o /\ s.result \in 1..o
    BY Halves
  <2> QED BY <1>2, <2>1, <2>2
<1>3. 0 \in Good
  <2> SUFFICES ASSUME NEW s \in X, Size(s) <= 0 PROVE f[s] \in 1..o /\ (Start(s) => len <= f[s])
    OBVIOUS
  <2>1. s.left > s.right
    BY Halves
  <2> HIDE DEF Start, X
  <2> QED BY <1>2, <2>1
<1>4. ASSUME NEW k \in 1..o, k - 1 \in Good PROVE k \in Good
  <2> SUFFICES ASSUME NEW s \in X, Size(s) <= k PROVE f[s] \in 1..o /\ (Start(s) => len <= f[s])
    OBVIOUS
  <2>1. CASE s.left > s.right
    <3> HIDE DEF Start, X
    <3> QED BY <1>2, <2>1
  <2>2. CASE ~(s.left > s.right)
    <3> DEFINE r == RightHalf(s)
               l == LeftHalf(s)
               m == Mid(s)
    <3>1. /\ m \in 1..o /\ s.left <= m /\ m <= s.right /\ r \in X /\ l \in X
          /\ r.left = m + 1 /\ r.right = s.right /\ r.result = m
          /\ l.left = s.left /\ l.right = m - 1 /\ l.result = s.result
      BY <2>2, Halves
    <3>2. s.left \in 1..o+1 /\ s.right \in 0..o /\ s.result \in 1..o
      BY Halves
    <3>3. Size(r) <= k - 1 /\ Size(l) <= k - 1
      <4>1. Size(r) < Size(s) /\ Size(l) < Size(s) /\ Size(s) \in Int
        BY <2>2, Halves
      <4>2. Size(r) \in Int /\ Size(l) \in Int
        BY <3>1, Halves
      <4> HIDE DEF r, l
      <4> QED BY <4>1, <4>2
    <3>4. \A x \in X : Size(x) <= k - 1 => f[x] \in 1..o /\ (Start(x) => len <= f[x])
      BY <1>4
    <3>5. f[s] = IF Fits(groups, memory, m) THEN f[r] ELSE f[l]
      BY <1>1, <2>2 DEF SearchStep
    <3> HIDE DEF r, l, m
    <3>6. CASE Fits(groups, memory, m)
      <4>1. Start(s) => Start(r)
        BY <3>1, <3>2
      <4> HIDE DEF Start
      <4>2. f[r] \in 1..o /\ (Start(r) => len <= f[r])
        BY <3>1, <3>3, <3>4
      <4> QED BY <3>5, <3>6, <4>1, <4>2
    <3>7. CASE ~Fits(groups, memory, m)
      <4>1. len < m
        <5>1. m \in Nat /\ len \in Nat
          BY <3>1
        <5>2. ~(m <= len)
          BY <3>7, <5>1, ShorterFits
        <5> QED BY <5>1, <5>2
      <4>2. Start(s) => Start(l)
        BY <3>1, <3>2, <4>1
      <4> HIDE DEF Start
      <4>3. f[l] \in 1..o /\ (Start(l) => len <= f[l])
        BY <3>1, <3>3, <3>4
      <4> QED BY <3>5, <3>7, <4>2, <4>3
    <3> QED BY <3>6, <3>7
  <2> QED BY <2>1, <2>2
<1>5. 0..o \subseteq Good
  <2> HIDE DEF Good
  <2> QED BY <1>3, <1>4, BoundedInduction
<1>6. \A s \in X : f[s] \in 1..o /\ (Start(s) => len <= f[s])
  <2>1. o \in Good
    <3>1. o \in 0..o
      OBVIOUS
    <3> QED BY <1>5, <3>1
  <2>2. \A s \in X : Size(s) <= o
    BY Halves
  <2> HIDE DEF X, Start
  <2> QED BY <2>1, <2>2
<1> QED BY <1>6

LEMMA EstimatedLenIs ==
    ASSUME NEW o \in Nat \ {0}, NEW groups, FineGroups(groups), NEW memory \in Int
    PROVE  /\ EstimatedLen(groups, memory, o) \in Nat
           /\ \A len \in 1..o : Fits(groups, memory, len) => len <= EstimatedLen(groups, memory, o)
<1> DEFINE Is(f) == f = [s \in Searches(o) |-> SearchStep(groups, memory, f, s)]
           start == [left |-> 1, right |-> o, result |-> 1]
<1>1. PICK f : f = CHOOSE g : Is(g)
  OBVIOUS
<1>2. Is(f)
  <2>1. \E g : Is(g)
    BY SearchExists
  <2> HIDE DEF Is
  <2> QED BY <1>1, <2>1
<1>3. EstimatedLen(groups, memory, o) = IF Fits(groups, memory, 1) THEN f[start] ELSE 0
  BY <1>1 DEF EstimatedLen, SearchStep
<1>4. start \in Searches(o) /\ start.left = 1 /\ start.right = o /\ start.result = 1
  BY DEF Searches
<1> HIDE DEF start
<1>5. CASE Fits(groups, memory, 1)
  <2>1. ASSUME NEW len \in 1..o, Fits(groups, memory, len)
        PROVE  f[start] \in 1..o /\ len <= f[start]
    <3>1. \A s \in Searches(o) :
              /\ f[s] \in 1..o
              /\ /\ s.left - 1 <= s.result /\ (s.result < s.left \/ s.result = 1)
                 /\ (len <= s.right \/ len <= s.result)
                 => len <= f[s]
      BY <1>2, <2>1, SearchIsLongest
    <3>2. 1 - 1 <= 1 /\ len <= o
      OBVIOUS
    <3> QED BY <1>4, <3>1, <3>2
  <2>2. 1 \in 1..o
    OBVIOUS
  <2>3. f[start] \in 1..o
    BY <1>5, <2>1, <2>2
  <2> QED BY <1>3, <1>5, <2>1, <2>3
<1>6. CASE ~Fits(groups, memory, 1)
  <2>1. \A len \in 1..o : ~Fits(groups, memory, len)
    <3> SUFFICES ASSUME NEW len \in 1..o, Fits(groups, memory, len) PROVE FALSE
      OBVIOUS
    <3>1. 1 <= len /\ len \in Nat /\ 1 \in Nat
      OBVIOUS
    <3> QED BY <1>6, <3>1, ShorterFits
  <2> QED BY <1>3, <1>6, <2>1
<1> QED BY <1>5, <1>6

----------------------------------------------------------------------------
(* Grouping *)

NonEmpty(D) == {s \in Seq(D) : Len(s) # 0}
GroupRecords(D) == [names : Seq(D), uniform : BOOLEAN, spec : LayerSpec, order : Seq(D),
                    layers : UNION {[E -> LayerSpec] : E \in SUBSET D}]
Groups(D) == {g \in GroupRecords(D) : FineGroup(g)}

LEMMA GroupOfIsFine ==
    ASSUME NEW D, NEW layers \in [D -> LayerSpec], NEW names \in NonEmpty(D), NEW b \in BOOLEAN
    PROVE  GroupOf(names, layers, b) \in Groups(D)
<1> DEFINE E == ToSet(names)
           h == [n \in E |-> layers[n]]
           g == [names |-> names, uniform |-> b, spec |-> layers[names[1]], order |-> names, layers |-> h]
<1>1. names \in Seq(D) /\ Len(names) \in Nat \ {0} /\ names[1] \in D /\ IsFiniteSet(E) /\ E \subseteq D
  <2>1. names \in Seq(D) /\ Len(names) # 0
    BY DEF NonEmpty
  <2>2. IsFiniteSet(E) /\ E \subseteq D
    BY <2>1, ElementsAreFinite
  <2> HIDE DEF E
  <2> QED BY <2>1, <2>2
<1>2. h \in [E -> LayerSpec] /\ DOMAIN h = E /\ layers[names[1]] \in LayerSpec
  <2> HIDE DEF E
  <2>1. \A n \in E : layers[n] \in LayerSpec
    BY <1>1
  <2>2. layers[names[1]] \in LayerSpec
    BY <1>1
  <2> HIDE DEF h
  <2> QED BY <2>1, <2>2 DEF h
<1>3. names \in Seq(E)
  <2>1. \A i \in 1..Len(names) : names[i] \in E
    BY <1>1 DEF ToSet
  <2>2. names = [i \in 1..Len(names) |-> names[i]]
    BY <1>1
  <2> HIDE DEF E
  <2> QED BY <1>1, <2>1, <2>2
<1>4. GroupOf(names, layers, b) = g
  BY DEF GroupOf
<1> HIDE DEF E, h
<1>5. FineGroup(g)
  BY <1>1, <1>2, <1>3 DEF FineGroup
<1>6. g \in GroupRecords(D)
  BY <1>1, <1>2 DEF GroupRecords
<1> HIDE DEF g
<1> QED BY <1>4, <1>5, <1>6 DEF Groups

LEMMA GroupsAreFine ==
    ASSUME NEW D, NEW groups \in Seq(Groups(D)), Len(groups) # 0
    PROVE  FineGroups(groups)
<1> DEFINE T == Groups(D)
<1>1. \A g \in T : FineGroup(g)
  BY DEF Groups
<1> HIDE DEF T
<1>2. groups \in Seq(T)
  BY DEF T
<1> QED BY <1>1, <1>2 DEF FineGroups

LEMMA ListsOfNames ==
    ASSUME NEW D, IsFiniteSet(D), D \subseteq Nat \ {0}, NEW S \in SUBSET D
    PROVE  /\ InOrder(S) \in Seq(D) /\ Lists(InOrder(S), S) /\ IsFiniteSet(S)
           /\ Len(InOrder(S)) = Cardinality(S) /\ (S # {} => InOrder(S) \in NonEmpty(D))
           /\ \A i \in 1..Len(InOrder(S)) : InOrder(S)[i] \in S
<1> DEFINE t == InOrder(S)
<1>1. IsFiniteSet(S)
  BY FS_Subset
<1>2. Lists(t, S)
  BY <1>1, InOrderLists
<1> HIDE DEF t
<1>3. t \in Seq(S) /\ Len(t) = Cardinality(S)
  BY <1>2, ListedType
<1>4. t \in Seq(D)
  BY <1>3, SeqMonotonic
<1>5. S # {} => Len(t) # 0
  BY <1>1, <1>3, FS_EmptySet
<1>6. \A i \in 1..Len(t) : t[i] \in S
  BY <1>3
<1> QED BY <1>1, <1>2, <1>3, <1>4, <1>5, <1>6 DEF t, NonEmpty

LEMMA SplitIsFine ==
    ASSUME NEW D, NEW names \in NonEmpty(D), NEW size \in Nat \ {0}
    PROVE  SplitGroups(names, size) \in Seq(NonEmpty(D)) /\ Len(SplitGroups(names, size)) # 0
<1> DEFINE n == cdiv(Len(names), size)
           f == [i \in 1..n |-> EveryNth(names, i, n)]
           T == NonEmpty(D)
<1>1. names \in Seq(D) /\ Len(names) \in Nat \ {0}
  BY DEF NonEmpty
<1>2. n \in Nat \ {0} /\ n <= Len(names)
  BY <1>1, RoundedUp
<1>3. f \in [1..n -> T]
  <2>1. ASSUME NEW i \in 1..n PROVE EveryNth(names, i, n) \in T
    <3> HIDE DEF n
    <3>1. EveryNth(names, i, n) \in Seq(D) /\ Len(EveryNth(names, i, n)) # 0
      BY <1>1, <1>2, EveryNthType
    <3> QED BY <3>1 DEF NonEmpty
  <2> HIDE DEF T, n
  <2> QED BY <2>1
<1>4. f \in Seq(T) /\ Len(f) = n
  <2> HIDE DEF T, n, f
  <2> QED BY <1>2, <1>3, FunctionIsSeq
<1>5. SplitGroups(names, size) = f
  BY DEF SplitGroups
<1> HIDE DEF f, n
<1> QED BY <1>2, <1>4, <1>5

LEMMA OfSpecIs ==
    ASSUME NEW D, IsFiniteSet(D), D \subseteq Nat \ {0}, NEW layers \in [D -> LayerSpec], NEW n \in D
    PROVE  OfSpec(layers, layers[n]) \in NonEmpty(D)
<1> DEFINE S == {m \in D : layers[m] = layers[n]}
<1>1. S \in SUBSET D /\ S # {} /\ OfSpec(layers, layers[n]) = InOrder(S)
  BY DEF OfSpec
<1> HIDE DEF S
<1> QED BY <1>1, ListsOfNames

LEMMA GroupSizeIs ==
    ASSUME NEW D, IsFiniteSet(D), D \subseteq Nat \ {0}, D # {}, NEW layers \in [D -> LayerSpec]
    PROVE  GroupSize(layers) \in Nat \ {0}
<1> DEFINE f == [n \in D |-> Len(OfSpec(layers, layers[n]))]
           R == {f[n] : n \in D}
           sizes == {Len(OfSpec(layers, s)) : s \in Range(layers)}
<1>1. \A n \in D : f[n] \in Nat \ {0}
  <2> SUFFICES ASSUME NEW n \in D PROVE Len(OfSpec(layers, layers[n])) \in Nat \ {0}
    OBVIOUS
  <2>1. OfSpec(layers, layers[n]) \in NonEmpty(D)
    BY OfSpecIs
  <2> QED BY <2>1 DEF NonEmpty
<1>2. sizes = R
  BY DEF Range
<1>3. IsFiniteSet(R)
  <2>1. DOMAIN f = D /\ R = {f[n] : n \in D}
    OBVIOUS
  <2> HIDE DEF f, R, sizes
  <2>2. IsFiniteSet(D)
    OBVIOUS
  <2> QED BY ONLY <2>1, <2>2, ValuesAreFinite
<1>4. R \subseteq Nat \ {0} /\ R # {}
  <2> HIDE DEF f
  <2> QED BY <1>1
<1> HIDE DEF R
<1>5. R \in SUBSET Nat
  BY <1>4
<1>6. Max(R) \in R /\ Min(R) \in R
  BY <1>3, <1>4, <1>5, MaxIs, MinIs
<1>7. GroupSize(layers) = IF 2 * Max(R) < 3 * Min(R) THEN Max(R) ELSE Min(R)
  BY <1>2 DEF GroupSize
<1> QED BY <1>4, <1>6, <1>7

LEMMA FirstOfSpecIs ==
    ASSUME NEW D, IsFiniteSet(D), D \subseteq Nat \ {0}, D # {}, NEW layers \in [D -> LayerSpec]
    PROVE  FirstOfSpec(layers) \in NonEmpty(D)
<1> DEFINE S == {n \in D : \A m \in D : m < n => layers[m] # layers[n]}
<1>1. Min(D) \in D /\ \A m \in D : Min(D) <= m
  <2>1. D \in SUBSET Nat
    OBVIOUS
  <2> QED BY <2>1, MinIs
<1>2. Min(D) \in S
  <2>1. \A m \in D : m \in Nat /\ Min(D) \in Nat
    BY <1>1
  <2> QED BY <1>1, <2>1
<1>3. FirstOfSpec(layers) = InOrder(S) /\ S \in SUBSET D
  BY DEF FirstOfSpec
<1> HIDE DEF S
<1> QED BY <1>2, <1>3, ListsOfNames

LEMMA UniformPageGroupsAreFine ==
    ASSUME NEW D, IsFiniteSet(D), D \subseteq Nat \ {0}, D # {}, NEW layers \in [D -> LayerSpec]
    PROVE  UniformPageGroups(layers) \in Seq(Groups(D)) /\ Len(UniformPageGroups(layers)) # 0
<1> DEFINE first == FirstOfSpec(layers)
           m == Len(first)
           T == NonEmpty(D)
           seqs == [i \in 1..m |-> SplitGroups(OfSpec(layers, layers[first[i]]), GroupSize(layers))]
           lists == FlattenSeq(seqs)
<1>1. first \in Seq(D) /\ m \in Nat \ {0}
  <2>1. first \in NonEmpty(D)
    BY FirstOfSpecIs
  <2> HIDE DEF first
  <2> QED BY <2>1 DEF NonEmpty
<1> HIDE DEF first
<1>2. DOMAIN first = 1..m /\ \A i \in 1..m : first[i] \in D
  BY <1>1
<1>3. \A i \in 1..m : seqs[i] \in Seq(T) /\ Len(seqs[i]) # 0
  <2> SUFFICES ASSUME NEW i \in 1..m PROVE seqs[i] \in Seq(T) /\ Len(seqs[i]) # 0
    OBVIOUS
  <2> DEFINE names == OfSpec(layers, layers[first[i]])
             size == GroupSize(layers)
  <2>1. names \in NonEmpty(D)
    <3>1. first[i] \in D
      BY <1>2
    <3> QED BY <3>1, OfSpecIs
  <2>2. size \in Nat \ {0}
    BY GroupSizeIs
  <2>3. seqs[i] = SplitGroups(names, size)
    OBVIOUS
  <2> HIDE DEF names, size, seqs
  <2> QED BY <2>1, <2>2, <2>3, SplitIsFine
<1>4. seqs \in Seq(Seq(T)) /\ Len(seqs) = m
  <2>1. seqs \in [1..m -> Seq(T)]
    <3>1. seqs = [i \in 1..m |-> seqs[i]]
      OBVIOUS
    <3> HIDE DEF seqs, T, m
    <3> QED BY <1>3, <3>1
  <2> DEFINE U == Seq(T)
  <2> HIDE DEF seqs, m, U
  <2>2. seqs \in Seq(U) /\ Len(seqs) = m
    BY <1>1, <2>1, FunctionIsSeq DEF U
  <2> QED BY <2>2 DEF U
<1>5. lists \in Seq(T) /\ Len(lists) # 0
  <2> HIDE DEF seqs, T, m
  <2>1. Len(seqs) # 0 /\ 1 \in 1..m
    BY <1>1, <1>4
  <2>2. Len(seqs[1]) # 0
    BY <1>3, <2>1
  <2> QED BY <1>4, <2>1, <2>2, FlattenedType
<1>6. UniformPageGroups(layers) = [i \in DOMAIN lists |-> Group(lists[i], layers)]
  <2>1. SpecsInOrder(layers) = [i \in 1..m |-> layers[first[i]]]
    BY <1>2 DEF SpecsInOrder, first
  <2>2. [i \in DOMAIN SpecsInOrder(layers) |-> SplitGroups(OfSpec(layers, SpecsInOrder(layers)[i]), GroupSize(layers))] = seqs
    BY <2>1
  <2> HIDE DEF seqs, m
  <2> QED BY <2>2 DEF UniformPageGroups
<1> DEFINE f == [i \in 1..Len(lists) |-> Group(lists[i], layers)]
<1> HIDE DEF lists
<1>7. Len(lists) \in Nat /\ DOMAIN lists = 1..Len(lists) /\ \A i \in 1..Len(lists) : lists[i] \in T
  <2> HIDE DEF T
  <2> QED BY <1>5
<1>8. UniformPageGroups(layers) = f
  BY <1>6, <1>7
<1>9. f \in [1..Len(lists) -> Groups(D)]
  <2>1. ASSUME NEW i \in 1..Len(lists) PROVE Group(lists[i], layers) \in Groups(D)
    <3>1. lists[i] \in NonEmpty(D) /\ FALSE \in BOOLEAN
      BY <1>7
    <3> QED BY <3>1, GroupOfIsFine DEF Group
  <2> QED BY <2>1
<1> HIDE DEF f
<1>10. f \in Seq(Groups(D)) /\ Len(f) = Len(lists)
  BY <1>7, <1>9, FunctionIsSeq
<1> QED BY <1>5, <1>8, <1>10

----------------------------------------------------------------------------
(* Specs with another page *)

LEMMA SpecWith ==
    ASSUME NEW s \in LayerSpec, NEW p \in Nat \ {0}, NEW b \in Nat \ {0}
    PROVE  /\ [s EXCEPT !.page = p] \in LayerSpec
           /\ [s EXCEPT !.page = p, !.block_size = b] \in LayerSpec
<1>1. [s EXCEPT !.page = p] \in LayerSpec
  BY DEF LayerSpec
<1>2. [s EXCEPT !.page = p, !.block_size = b] \in LayerSpec
  BY DEF LayerSpec
<1> QED BY <1>1, <1>2

LEMMA EnlargedIs ==
    ASSUME NEW s \in LayerSpec, NEW ps \in Nat \ {0}, Enlarged(s, ps) # None
    PROVE  Enlarged(s, ps) \in LayerSpec
<1>1. s.page \in Nat \ {0} /\ s.block_size \in Nat \ {0}
  BY DEF LayerSpec
<1> DEFINE b == s.block_size * (ps \div s.page)
<1>2. CASE s.page # ps /\ s.kind # "mamba" /\ ps % s.page = 0
  <2>1. s.page <= ps
    BY <1>1, <1>2
  <2> DEFINE q == ps \div s.page
  <2>2. q \in Nat \ {0}
    BY <1>1, <2>1, Quotient
  <2> HIDE DEF q
  <2>3. s.block_size * q \in Nat \ {0}
    BY <1>1, <2>2
  <2>4. b \in Nat \ {0}
    BY <2>3 DEF q
  <2>5. Enlarged(s, ps) = [s EXCEPT !.page = ps, !.block_size = b]
    BY <1>2 DEF Enlarged
  <2> HIDE DEF b
  <2> DEFINE x == [s EXCEPT !.page = ps, !.block_size = b]
  <2>6. x \in LayerSpec
    BY <2>4, SpecWith
  <2> HIDE DEF x
  <2>7. Enlarged(s, ps) = x
    BY <2>5 DEF x
  <2> QED BY <2>6, <2>7
<1>3. CASE ~(s.page # ps /\ s.kind # "mamba" /\ ps % s.page = 0)
  <2>1. Enlarged(s, ps) = s \/ Enlarged(s, ps) = [s EXCEPT !.page = ps]
    BY <1>3 DEF Enlarged
  <2> QED BY <1>1, <2>1, SpecWith
<1> QED BY <1>2, <1>3

LEMMA HiddenSpecIs ==
    ASSUME NEW s \in TokenSpec, s.kind = "hidden", NEW page \in Nat \ {0}
    PROVE  [s EXCEPT !.page = page, !.block_size = Max({page \div (s.page \div s.block_size), 1})] \in LayerSpec
<1>1. s \in LayerSpec /\ s.page \in Nat \ {0} /\ s.block_size \in Nat \ {0} /\ s.block_size <= s.page
  BY DEF TokenSpec, LayerSpec
<1> DEFINE q == s.page \div s.block_size
<1>2. q \in Nat \ {0}
  BY <1>1, Quotient
<1> HIDE DEF q
<1> DEFINE a == page \div q
<1>3. a \in Nat
  BY <1>2, Quotient
<1> HIDE DEF a
<1>4. Max({a, 1}) \in Nat \ {0}
  BY <1>3, LargerOfTwo
<1> DEFINE b == Max({a, 1})
<1> HIDE DEF b
<1>5. [s EXCEPT !.page = page, !.block_size = b] \in LayerSpec
  BY <1>1, <1>4, SpecWith DEF b
<1> QED BY <1>5 DEF b, a, q

LEMMA UnifiedPagesAre ==
    ASSUME NEW E, IsFiniteSet(E), NEW layers \in [E -> LayerSpec], None \notin Range(unify_kv_cache_spec_page_size(layers))
    PROVE  unify_kv_cache_spec_page_size(layers) \in [E -> LayerSpec]
<1> DEFINE P == PageSizes(layers)
           ps == Max(P)
           f == [n \in E |-> Enlarged(layers[n], ps)]
<1>1. unify_kv_cache_spec_page_size(layers) = f
  BY DEF unify_kv_cache_spec_page_size
<1>2. ASSUME NEW n \in E PROVE f[n] \in LayerSpec
  <2>1. IsFiniteSet(P) /\ P \subseteq Nat \ {0} /\ layers[n].page \in P
    BY PagesOfLayers
  <2> HIDE DEF P
  <2>2. P \in SUBSET Nat /\ P # {}
    BY <2>1
  <2>3. ps \in P
    BY <2>1, <2>2, MaxIs
  <2>4. ps \in Nat \ {0} /\ layers[n] \in LayerSpec
    BY <2>1, <2>3
  <2>5. f[n] # None
    <3>1. f[n] \in Range(f) /\ None \notin Range(f)
      BY <1>1 DEF Range
    <3> QED BY <3>1
  <2> HIDE DEF ps
  <2>6. Enlarged(layers[n], ps) # None /\ f[n] = Enlarged(layers[n], ps)
    BY <2>5
  <2> QED BY <2>4, <2>6, EnlargedIs
<1>3. f \in [E -> LayerSpec]
  <2>1. f = [n \in E |-> f[n]]
    OBVIOUS
  <2> HIDE DEF f
  <2> QED BY <1>2, <2>1
<1> QED BY <1>1, <1>3

LEMMA FewerGroups ==
    ASSUME NEW D, NEW E \in SUBSET D
    PROVE  Groups(E) \subseteq Groups(D)
<1> SUFFICES ASSUME NEW g \in Groups(E) PROVE g \in Groups(D)
  OBVIOUS
<1>1. g \in GroupRecords(E) /\ FineGroup(g)
  BY DEF Groups
<1>2. Seq(E) \subseteq Seq(D)
  BY SeqMonotonic
<1>3. UNION {[F -> LayerSpec] : F \in SUBSET E} \subseteq UNION {[F -> LayerSpec] : F \in SUBSET D}
  OBVIOUS
<1>4. g \in GroupRecords(D)
  <2> DEFINE U == UNION {[F -> LayerSpec] : F \in SUBSET E}
             V == UNION {[F -> LayerSpec] : F \in SUBSET D}
             A == Seq(E)
             B == Seq(D)
  <2>1. g \in [names : A, uniform : BOOLEAN, spec : LayerSpec, order : A, layers : U]
    BY <1>1 DEF GroupRecords
  <2>2. A \subseteq B /\ U \subseteq V
    BY <1>2, <1>3
  <2> HIDE DEF A, B, U, V
  <2>3. g \in [names : B, uniform : BOOLEAN, spec : LayerSpec, order : B, layers : V]
    BY <2>1, <2>2
  <2> QED BY <2>3 DEF GroupRecords, B, V
<1> QED BY <1>1, <1>4 DEF Groups

LEMMA HiddenGroupIs ==
    ASSUME NEW D, NEW n \in D, NEW s \in TokenSpec, s.kind = "hidden", NEW page \in Nat \ {0}
    PROVE  HiddenGroup(n, s, page) \in Groups(D)
<1> DEFINE t == [s EXCEPT !.page = page, !.block_size = Max({page \div (s.page \div s.block_size), 1})]
           N == {n}
           layers == [m \in N |-> t]
           names == <<n>>
<1>1. t \in LayerSpec
  BY HiddenSpecIs
<1>2. HiddenGroup(n, s, page) = GroupOf(names, layers, FALSE)
  BY DEF HiddenGroup, Group
<1>3. names \in NonEmpty(N)
  BY DEF NonEmpty
<1> HIDE DEF t
<1>4. layers \in [N -> LayerSpec] /\ FALSE \in BOOLEAN
  BY <1>1
<1>5. N \in SUBSET D
  OBVIOUS
<1> HIDE DEF N, layers, names
<1>6. GroupOf(names, layers, FALSE) \in Groups(N)
  BY <1>3, <1>4, GroupOfIsFine
<1>7. Groups(N) \subseteq Groups(D)
  BY <1>5, FewerGroups
<1> QED BY <1>2, <1>6, <1>7

LEMMA MixedGroupsAreFine ==
    ASSUME NEW D, IsFiniteSet(D), D \subseteq Nat \ {0}, NEW layers \in [D -> TokenSpec],
           DOMAIN RestOf(layers) # {}, None \notin Range(RestOf(layers))
    PROVE  MixedGroups(layers) \in Seq(Groups(D)) /\ Len(MixedGroups(layers)) # 0
<1> DEFINE H == HiddenNames(layers)
           E == D \ H
           rest == RestOf(layers)
           groups == UniformPageGroups(rest)
           names == InOrder(H)
           page == groups[1].spec.page
           f == [i \in 1..Len(names) |-> HiddenGroup(names[i], layers[names[i]], page)]
<1>1. H \in SUBSET D /\ E \in SUBSET D /\ \A n \in H : layers[n].kind = "hidden"
  BY DEF HiddenNames
<1>2. IsFiniteSet(E) /\ E \subseteq Nat \ {0}
  <2> HIDE DEF E
  <2>1. IsFiniteSet(E)
    BY <1>1, FS_Subset
  <2> QED BY <1>1, <2>1
<1>3. rest \in [E -> LayerSpec]
  <2> DEFINE some == Restrict(layers, DOMAIN layers \ H)
  <2>1. some \in [E -> LayerSpec]
    BY <1>1 DEF Restrict, TokenSpec
  <2>2. rest = unify_kv_cache_spec_page_size(some)
    BY DEF RestOf
  <2> HIDE DEF some, E, rest
  <2>3. None \notin Range(unify_kv_cache_spec_page_size(some))
    BY <2>2 DEF rest
  <2> QED BY <1>2, <2>1, <2>2, <2>3, UnifiedPagesAre
<1>4. E # {}
  BY <1>3
<1> HIDE DEF E, rest, H
<1>5. groups \in Seq(Groups(E)) /\ Len(groups) # 0
  BY <1>2, <1>3, <1>4, UniformPageGroupsAreFine
<1> HIDE DEF groups
<1>6. groups \in Seq(Groups(D))
  <2>1. Groups(E) \subseteq Groups(D)
    BY <1>1, FewerGroups
  <2> QED BY <1>5, <2>1, SeqMonotonic
<1>7. page \in Nat \ {0}
  <2>1. FineGroups(groups)
    BY <1>5, GroupsAreFine
  <2>2. FineGroup(groups[1])
    BY <2>1, GroupsAreFinite DEF FineGroups
  <2> QED BY <2>2, FineParts
<1>8. names \in Seq(D) /\ \A i \in 1..Len(names) : names[i] \in H
  BY <1>1, ListsOfNames
<1> HIDE DEF names, page
<1>9. f \in [1..Len(names) -> Groups(D)]
  <2>1. ASSUME NEW i \in 1..Len(names) PROVE HiddenGroup(names[i], layers[names[i]], page) \in Groups(D)
    <3> DEFINE n == names[i]
               s == layers[n]
    <3>1. n \in D /\ s \in TokenSpec /\ s.kind = "hidden"
      BY <1>1, <1>8
    <3> HIDE DEF n, s
    <3>2. HiddenGroup(n, s, page) \in Groups(D)
      BY <1>7, <3>1, HiddenGroupIs
    <3> QED BY <3>2 DEF n, s
  <2> QED BY <2>1
<1>10. MixedGroups(layers) = groups \o f
  <2>1. DOMAIN names = 1..Len(names)
    BY <1>8
  <2> QED BY <2>1 DEF MixedGroups, groups, rest, names, H, page
<1> DEFINE T == Groups(D)
<1> HIDE DEF f, T
<1>11. f \in Seq(T)
  <2>1. Len(names) \in Nat
    BY <1>8
  <2> QED BY <1>9, <2>1, FunctionIsSeq DEF T
<1>12. groups \in Seq(T)
  BY <1>6 DEF T
<1>13. groups \o f \in Seq(T) /\ Len(groups \o f) = Len(groups) + Len(f)
  BY <1>11, <1>12, ConcatProperties
<1>14. Len(groups) \in Nat /\ Len(f) \in Nat
  BY <1>11, <1>12
<1> QED BY <1>5, <1>10, <1>13, <1>14 DEF T

----------------------------------------------------------------------------
(* The layer tuples *)

LEMMA ApproximateGcdIs ==
    ASSUME NEW values \in Seq(Nat), NEW lower \in Nat \ {0}
    PROVE  _approximate_gcd(values, lower) \in Nat \ {0}
<1> DEFINE last == Max(ToSet(values) \cup {lower})
           T == Nat \ {0}
           Next1(d, best) == IF d <= lower THEN lower
                             ELSE IF Padding(values, d) <= Padding(values, best) THEN d ELSE best
           step == [d \in 1..last |-> [b \in T |-> Next1(d, b)]]
           Is(best) == best = [d \in 0..last |->
                          IF d <= lower THEN lower
                          ELSE IF Padding(values, d) <= Padding(values, best[d - 1]) THEN d ELSE best[d - 1]]
<1>1. last \in Nat
  <2> DEFINE U == ToSet(values) \cup {lower}
  <2>1. IsFiniteSet(ToSet(values)) /\ ToSet(values) \subseteq Nat
    BY ElementsAreFinite
  <2>2. IsFiniteSet(U)
    BY <2>1, FS_AddElement
  <2>3. U \in SUBSET Nat /\ U # {}
    BY <2>1
  <2> HIDE DEF U
  <2>4. Max(U) \in U
    BY <2>2, <2>3, MaxIs
  <2>5. Max(U) \in Nat
    BY <2>3, <2>4
  <2> QED BY <2>5 DEF U
<1>2. _approximate_gcd(values, lower) = (CHOOSE best : Is(best))[last]
  BY DEF _approximate_gcd
<1> HIDE DEF last
<1>3. step \in [1..last -> [T -> T]]
  <2>1. ASSUME NEW d \in 1..last, NEW b \in T PROVE Next1(d, b) \in T
    BY <1>1
  <2> HIDE DEF Next1, T
  <2> QED BY <2>1
<1>4. PICK f : f \in [0..last -> T] /\ f[0] = lower /\ \A d \in 1..last : f[d] = step[d][f[d-1]]
  <2>1. lower \in T
    OBVIOUS
  <2> HIDE DEF T, step
  <2>2. \E f : Walks(f, T, lower, last, step)
    BY <1>1, <1>3, <2>1, StepFunction
  <2> QED BY <2>2 DEF Walks
<1>5. Is(f)
  <2>1. \A d \in 0..last : f[d] = IF d <= lower THEN lower
                          ELSE IF Padding(values, d) <= Padding(values, f[d - 1]) THEN d ELSE f[d - 1]
    <3> SUFFICES ASSUME NEW d \in 0..last
                 PROVE  f[d] = IF d <= lower THEN lower
                               ELSE IF Padding(values, d) <= Padding(values, f[d - 1]) THEN d ELSE f[d - 1]
      OBVIOUS
    <3>1. CASE d = 0
      BY <1>4, <3>1
    <3>2. CASE d # 0
      <4>1. d \in 1..last /\ d - 1 \in 0..last
        BY <1>1, <3>2
      <4> DEFINE b == f[d-1]
      <4>2. b \in T
        <5> HIDE DEF T
        <5> QED BY <1>4, <4>1
      <4>3. f[d] = step[d][b]
        BY <1>4, <4>1
      <4> HIDE DEF b
      <4>4. f[d] = Next1(d, b)
        <5> HIDE DEF T, Next1
        <5> QED BY <4>1, <4>2, <4>3
      <4> QED BY <4>4 DEF b
    <3> QED BY <3>1, <3>2
  <2>2. f = [d \in 0..last |-> f[d]]
    BY <1>4
  <2> HIDE DEF T
  <2> QED BY <2>1, <2>2
<1>6. PICK g : g = CHOOSE best : Is(best)
  OBVIOUS
<1>7. Is(g)
  <2> HIDE DEF Is
  <2> QED BY <1>5, <1>6
<1>8. \A d \in 0..last : g[d] = IF d <= lower THEN lower
                          ELSE IF Padding(values, d) <= Padding(values, g[d - 1]) THEN d ELSE g[d - 1]
  BY <1>7
<1> DEFINE Good == {d \in 0..last : g[d] \in T}
<1>9. 0 \in Good
  <2>1. 0 \in 0..last /\ 0 <= lower
    BY <1>1
  <2> QED BY <1>8, <2>1
<1>10. ASSUME NEW d \in 1..last, d - 1 \in Good PROVE d \in Good
  <2>1. d \in 0..last /\ d \in T /\ g[d-1] \in T
    BY <1>1, <1>10
  <2> QED BY <1>8, <2>1
<1>11. last \in Good
  <2>1. last \in 0..last
    BY <1>1
  <2> HIDE DEF Good
  <2>2. 0..last \subseteq Good
    BY <1>1, <1>9, <1>10, BoundedInduction
  <2> QED BY <2>1, <2>2
<1> QED BY <1>2, <1>6, <1>11

LEMMA SwaLayersAre ==
    ASSUME NEW D, IsFiniteSet(D), D \subseteq Nat \ {0}, NEW layers \in [D -> LayerSpec],
           NEW i \in DOMAIN KeysInOrder(layers)
    PROVE  LET swa == SwaLayers(layers, KeysInOrder(layers)[i])
           IN  swa \in [DOMAIN swa -> LayerSpec] /\ DOMAIN swa \subseteq SwaNames(layers) /\ DOMAIN swa # {}
               /\ \A n \in DOMAIN swa : swa[n] = layers[n]
<1> DEFINE S == SwaNames(layers)
           first == FirstOfKey(layers)
           key == KeysInOrder(layers)[i]
           F == {n \in S : \A m \in S : m < n => KeyOf(layers[m]) # KeyOf(layers[n])}
           E == {n \in S : KeyOf(layers[n]) = key}
           swa == SwaLayers(layers, key)
<1>1. S \subseteq D
  BY DEF SwaNames
<1>2. first = InOrder(F) /\ F \in SUBSET D
  BY <1>1 DEF FirstOfKey
<1>3. DOMAIN KeysInOrder(layers) = DOMAIN first /\ key = KeyOf(layers[first[i]])
  BY DEF KeysInOrder
<1>4. DOMAIN first = 1..Len(first) /\ \A k \in 1..Len(first) : first[k] \in F
  <2> HIDE DEF first, F
  <2>1. first \in Seq(D) /\ \A k \in 1..Len(first) : first[k] \in F
    BY <1>2, ListsOfNames
  <2> QED BY <2>1
<1>5. first[i] \in E
  <2>1. first[i] \in F
    BY <1>3, <1>4
  <2> HIDE DEF key, first, KeyOf, S
  <2> QED BY <1>3, <2>1
<1>6. swa = [n \in E |-> layers[n]]
  BY DEF SwaLayers, Restrict
<1>7. E \subseteq S
  OBVIOUS
<1> HIDE DEF E, S, swa
<1>8. DOMAIN swa = E /\ \A n \in E : swa[n] = layers[n] /\ layers[n] \in LayerSpec
  BY <1>1, <1>6, <1>7
<1>9. swa \in [E -> LayerSpec]
  BY <1>6, <1>8
<1>10. swa \in [DOMAIN swa -> LayerSpec] /\ DOMAIN swa \subseteq S /\ DOMAIN swa # {} /\ \A n \in DOMAIN swa : swa[n] = layers[n]
  BY <1>5, <1>7, <1>8, <1>9
<1> QED BY <1>10 DEF swa, key, S

LEMMA MlaLayersAre ==
    ASSUME NEW D, IsFiniteSet(D), NEW layers \in [D -> LayerSpec], DOMAIN MlaLayers(layers) # {}
    PROVE  /\ IsFiniteSet(DOMAIN MlaLayers(layers)) /\ DOMAIN MlaLayers(layers) \subseteq D
           /\ MlaLayers(layers) \in [DOMAIN MlaLayers(layers) -> LayerSpec]
           /\ PageSizes(MlaLayers(layers)) \subseteq Nat \ {0}
           /\ Max(PageSizes(MlaLayers(layers))) \in PageSizes(MlaLayers(layers))
           /\ NumLayerTuples(MlaLayers(layers)) \in Nat \ {0}
<1> DEFINE M == {n \in D : layers[n].kind = "mla"}
           mla == MlaLayers(layers)
           P == PageSizes(mla)
<1>1. mla = [n \in M |-> layers[n]] /\ M \subseteq D
  BY DEF MlaLayers, Restrict
<1>2. DOMAIN mla = M /\ mla \in [M -> LayerSpec]
  <2> HIDE DEF mla
  <2> QED BY <1>1
<1> HIDE DEF M
<1>3. IsFiniteSet(M) /\ M # {}
  BY <1>1, <1>2, FS_Subset
<1> HIDE DEF mla
<1>4. IsFiniteSet(P) /\ P \subseteq Nat \ {0} /\ (\A n \in M : mla[n].page \in P) /\ NumLayerTuples(mla) \in Nat \ {0}
  BY <1>2, <1>3, PagesOfLayers, NumLayerTuplesIs
<1> HIDE DEF P
<1>5. P \in SUBSET Nat /\ P # {}
  BY <1>3, <1>4
<1>6. Max(P) \in P
  BY <1>4, <1>5, MaxIs
<1> QED BY <1>1, <1>2, <1>3, <1>4, <1>6 DEF P, mla

LEMMA PaddedAre ==
    ASSUME NEW E, NEW swa \in [E -> LayerSpec], NEW sizes \in SUBSET (Nat \ {0}),
           \A n \in E : \E p \in sizes : swa[n].page <= p
    PROVE  PaddedToMla(swa, sizes) \in [E -> LayerSpec]
<1> DEFINE Next1(n) == {ps \in sizes : ps >= swa[n].page}
           f == [n \in E |-> [swa[n] EXCEPT !.page = Min(Next1(n))]]
<1>1. PaddedToMla(swa, sizes) = f
  BY DEF PaddedToMla
<1>2. ASSUME NEW n \in E PROVE f[n] \in LayerSpec
  <2> DEFINE S == Next1(n)
             s == swa[n]
             m == Min(S)
  <2>1. S \subseteq Nat \ {0} /\ S # {}
    <3>1. PICK p \in sizes : swa[n].page <= p
      OBVIOUS
    <3>2. p \in Nat /\ swa[n].page \in Nat
      BY DEF LayerSpec
    <3> QED BY <3>1, <3>2
  <2>2. s \in LayerSpec
    OBVIOUS
  <2>3. f[n] = [s EXCEPT !.page = m]
    OBVIOUS
  <2> HIDE DEF S, s, f
  <2>4. S \in SUBSET Nat
    BY <2>1
  <2>5. m \in S
    BY <2>1, <2>4, MinIs
  <2>6. m \in Nat \ {0}
    BY <2>1, <2>5
  <2> HIDE DEF m
  <2> QED BY <2>2, <2>3, <2>6, SpecWith
<1>3. f \in [E -> LayerSpec]
  <2>1. f = [n \in E |-> f[n]]
    OBVIOUS
  <2> HIDE DEF f
  <2> QED BY <1>2, <2>1
<1> QED BY <1>1, <1>3

LEMMA SwaOfIs ==
    ASSUME NEW D, IsFiniteSet(D), D \subseteq Nat \ {0}, NEW layers \in [D -> LayerSpec], CanTuple(layers),
           NEW i \in DOMAIN KeysInOrder(layers)
    PROVE  /\ DOMAIN SwaOf(layers, i) \subseteq D /\ DOMAIN SwaOf(layers, i) # {}
           /\ SwaOf(layers, i) \in [DOMAIN SwaOf(layers, i) -> LayerSpec]
           /\ \A p \in PageSizes(SwaOf(layers, i)) :
                 Cardinality(LayersOfPage(SwaOf(layers, i), p)) = NumLayerTuples(SwaOf(layers, i))
<1> DEFINE swa == SwaLayers(layers, KeysInOrder(layers)[i])
           E == DOMAIN swa
           P == PageSizes(MlaLayers(layers))
           out == SwaOf(layers, i)
<1>1. swa \in [E -> LayerSpec] /\ E \subseteq SwaNames(layers) /\ E # {} /\ \A n \in E : swa[n] = layers[n]
  BY SwaLayersAre
<1>2. P \subseteq Nat \ {0} /\ Max(P) \in P
  BY MlaLayersAre DEF CanTuple
<1>3. \A n \in SwaNames(layers) : layers[n].page <= Max(P)
  BY DEF CanTuple
<1>4. \A p \in PageSizes(out) : Cardinality(LayersOfPage(out, p)) = NumLayerTuples(out)
  BY DEF CanTuple
<1>5. out = PaddedToMla(swa, P)
  BY DEF SwaOf
<1>6. SwaNames(layers) \subseteq D
  BY DEF SwaNames
<1> HIDE DEF swa, E, P, out
<1>7. out \in [E -> LayerSpec]
  <2>1. \A n \in E : \E p \in P : swa[n].page <= p
    BY <1>1, <1>2, <1>3
  <2> QED BY <1>1, <1>2, <1>5, <2>1, PaddedAre
<1>8. DOMAIN out = E
  BY <1>7
<1> QED BY <1>1, <1>4, <1>6, <1>7, <1>8 DEF out

LEMMA TupleNamesAre ==
    ASSUME NEW E, IsFiniteSet(E), E \subseteq Nat \ {0}, E # {}, NEW swa \in [E -> LayerSpec],
           \A p \in PageSizes(swa) : Cardinality(LayersOfPage(swa, p)) = NumLayerTuples(swa)
    PROVE  TupleNames(swa) \in Seq(NonEmpty(E)) /\ Len(TupleNames(swa)) = NumLayerTuples(swa)
<1> DEFINE m == NumLayerTuples(swa)
           first == FirstOfPage(swa)
           F == {n \in E : \A k \in E : k < n => swa[k].page # swa[n].page}
           T == NonEmpty(E)
           tuple(i) == [j \in DOMAIN first |-> InOrder(LayersOfPage(swa, swa[first[j]].page))[i]]
           f == [i \in 1..m |-> tuple(i)]
<1>1. m \in Nat \ {0} /\ \A p \in PageSizes(swa) : LayersOfPage(swa, p) \in SUBSET E
  BY NumLayerTuplesIs
<1>2. first = InOrder(F) /\ F \in SUBSET E
  BY DEF FirstOfPage
<1>3. F # {}
  <2>1. E \in SUBSET Nat
    OBVIOUS
  <2>2. Min(E) \in E /\ \A k \in E : Min(E) <= k
    BY <2>1, MinIs
  <2>3. \A k \in E : k \in Nat /\ Min(E) \in Nat
    BY <2>2
  <2>4. Min(E) \in F
    BY <2>2, <2>3
  <2> QED BY <2>4
<1> HIDE DEF m, first, F
<1>4. first \in NonEmpty(E)
  BY <1>2, <1>3, ListsOfNames
<1>5. first \in Seq(E) /\ Len(first) \in Nat \ {0} /\ DOMAIN first = 1..Len(first)
  BY <1>4 DEF NonEmpty
<1>6. ASSUME NEW i \in 1..m PROVE tuple(i) \in T
  <2> DEFINE n == Len(first)
             h == [j \in 1..n |-> InOrder(LayersOfPage(swa, swa[first[j]].page))[i]]
  <2>1. tuple(i) = h
    BY <1>5
  <2>2. ASSUME NEW j \in 1..n PROVE h[j] \in E
    <3> DEFINE p == swa[first[j]].page
               S == LayersOfPage(swa, p)
    <3>1. p \in PageSizes(swa)
      <4>1. first[j] \in E
        BY <1>5
      <4> QED BY <4>1, PagesOfLayers
    <3> HIDE DEF p
    <3>2. S \in SUBSET E /\ Cardinality(S) = m
      BY <1>1, <3>1 DEF m
    <3> HIDE DEF S
    <3>3. InOrder(S) \in Seq(E) /\ Len(InOrder(S)) = m
      BY <3>2, ListsOfNames
    <3>4. InOrder(S)[i] \in E
      BY <3>3
    <3> QED BY <3>4 DEF S, p
  <2>3. h \in [1..n -> E]
    <3>1. h = [j \in 1..n |-> h[j]]
      OBVIOUS
    <3> HIDE DEF h
    <3> QED BY <2>2, <3>1
  <2> HIDE DEF h, tuple
  <2>4. h \in Seq(E) /\ Len(h) = n
    BY <1>5, <2>3, FunctionIsSeq
  <2> QED BY <1>5, <2>1, <2>4 DEF NonEmpty
<1>7. f \in [1..m -> T]
  <2> HIDE DEF tuple, T
  <2> QED BY <1>6
<1>8. TupleNames(swa) = f
  BY DEF TupleNames, first, m
<1> HIDE DEF f, T
<1>9. f \in Seq(T) /\ Len(f) = m
  BY <1>1, <1>7, FunctionIsSeq
<1> QED BY <1>8, <1>9 DEF T, m

LEMMA SwaGroupsAre ==
    ASSUME NEW E, IsFiniteSet(E), E \subseteq Nat \ {0}, E # {}, NEW swa \in [E -> LayerSpec],
           \A p \in PageSizes(swa) : Cardinality(LayersOfPage(swa, p)) = NumLayerTuples(swa),
           NEW tuples \in Nat \ {0}
    PROVE  SwaGroups(swa, tuples) \in Seq(Groups(E))
<1> DEFINE m == NumLayerTuples(swa)
           n == cdiv(m, tuples)
           T == NonEmpty(E)
           s == TupleNames(swa)
           f == [i \in 1..n |-> UniformGroup(FlattenSeq(EveryNth(s, i, n)), swa)]
<1>1. s \in Seq(T) /\ Len(s) = m
  BY TupleNamesAre
<1>2. m \in Nat \ {0}
  BY NumLayerTuplesIs
<1> HIDE DEF s, m
<1>3. n \in Nat \ {0} /\ n <= m
  BY <1>2, RoundedUp
<1> HIDE DEF n
<1>4. ASSUME NEW i \in 1..n PROVE f[i] \in Groups(E)
  <2> DEFINE u == EveryNth(s, i, n)
  <2>1. u \in Seq(T) /\ Len(u) # 0
    <3> HIDE DEF T
    <3> QED BY <1>1, <1>3, EveryNthType
  <2> HIDE DEF u
  <2>2. u \in Seq(Seq(E)) /\ Len(u[1]) # 0
    <3>1. T \subseteq Seq(E) /\ \A x \in T : Len(x) # 0
      BY DEF NonEmpty
    <3> HIDE DEF T
    <3> DEFINE U == Seq(E)
    <3> HIDE DEF U
    <3>2. u \in Seq(U)
      BY <2>1, <3>1, SeqMonotonic DEF U
    <3>3. u[1] \in T
      BY <2>1
    <3> QED BY <3>1, <3>2, <3>3 DEF U
  <2>3. FlattenSeq(u) \in Seq(E) /\ Len(FlattenSeq(u)) # 0
    BY <2>1, <2>2, FlattenedType
  <2> DEFINE names == FlattenSeq(u)
  <2>4. names \in NonEmpty(E) /\ TRUE \in BOOLEAN
    BY <2>3 DEF NonEmpty
  <2> HIDE DEF names
  <2>5. GroupOf(names, swa, TRUE) \in Groups(E)
    BY <2>4, GroupOfIsFine
  <2>6. f[i] = GroupOf(names, swa, TRUE)
    BY DEF UniformGroup, names, u
  <2> QED BY <2>5, <2>6
<1>5. f \in [1..n -> Groups(E)]
  <2>1. f = [i \in 1..n |-> f[i]]
    OBVIOUS
  <2> HIDE DEF f
  <2> QED BY <1>4, <2>1
<1>6. SwaGroups(swa, tuples) = f
  BY DEF SwaGroups, n, m, s
<1> DEFINE G == Groups(E)
<1> HIDE DEF f, G
<1>7. f \in Seq(G)
  BY <1>3, <1>5, FunctionIsSeq DEF G
<1> QED BY <1>6, <1>7 DEF G

LEMMA NumTuplesIs ==
    ASSUME NEW D, IsFiniteSet(D), D \subseteq Nat \ {0}, NEW layers \in [D -> LayerSpec], CanTuple(layers)
    PROVE  NumTuples(layers) \in Nat \ {0}
<1> DEFINE a == NumLayerTuples(MlaLayers(layers))
           keys == KeysInOrder(layers)
           n == Len(FirstOfKey(layers))
           f == [i \in DOMAIN keys |-> NumLayerTuples(SwaLayers(layers, keys[i]))]
           one == <<a>>
           counts == one \o f
<1>1. a \in Nat \ {0}
  BY MlaLayersAre DEF CanTuple
<1>2. DOMAIN keys = 1..n /\ n \in Nat
  <2> DEFINE S == {k \in SwaNames(layers) : \A m \in SwaNames(layers) : m < k => KeyOf(layers[m]) # KeyOf(layers[k])}
  <2>1. S \in SUBSET D /\ FirstOfKey(layers) = InOrder(S)
    BY DEF SwaNames, FirstOfKey
  <2> HIDE DEF S
  <2>2. FirstOfKey(layers) \in Seq(D)
    BY <2>1, ListsOfNames
  <2> QED BY <2>2 DEF KeysInOrder
<1>3. f \in [1..n -> Nat]
  <2>1. ASSUME NEW i \in DOMAIN keys PROVE NumLayerTuples(SwaLayers(layers, keys[i])) \in Nat
    <3> DEFINE swa == SwaLayers(layers, keys[i])
               E == DOMAIN swa
    <3>1. swa \in [E -> LayerSpec] /\ E \subseteq SwaNames(layers) /\ E # {}
      BY SwaLayersAre
    <3>2. SwaNames(layers) \subseteq D
      BY DEF SwaNames
    <3> HIDE DEF E
    <3>3. IsFiniteSet(E)
      <4>1. E \in SUBSET D
        BY <3>1, <3>2
      <4> QED BY <4>1, FS_Subset
    <3> HIDE DEF swa
    <3>4. NumLayerTuples(swa) \in Nat
      BY <3>1, <3>3, NumLayerTuplesIs
    <3> QED BY <3>4 DEF swa
  <2> HIDE DEF keys
  <2>2. f \in [DOMAIN keys -> Nat]
    BY <2>1
  <2> HIDE DEF f
  <2> QED BY <1>2, <2>2
<1>4. NumTuples(layers) = _approximate_gcd(counts, counts[1])
  BY DEF NumTuples
<1> HIDE DEF f, a, n
<1>5. f \in Seq(Nat)
  BY <1>2, <1>3, FunctionIsSeq
<1>6. one \in Seq(Nat) /\ Len(one) = 1 /\ one[1] = a
  BY <1>1
<1> HIDE DEF one
<1>7. counts \in Seq(Nat) /\ counts[1] = a
  <2>1. 1 \in 1..Len(one)+Len(f) /\ 1 <= Len(one)
    BY <1>5, <1>6
  <2> QED BY <1>5, <1>6, <2>1, ConcatProperties
<1> HIDE DEF counts
<1> QED BY <1>1, <1>4, <1>7, ApproximateGcdIs

LEMMA TupleGroupsAreFine ==
    ASSUME NEW D, IsFiniteSet(D), D \subseteq Nat \ {0}, NEW layers \in [D -> LayerSpec], CanTuple(layers)
    PROVE  TupleGroups(layers) \in Seq(Groups(D)) /\ Len(TupleGroups(layers)) # 0
<1> DEFINE mla == MlaLayers(layers)
           M == DOMAIN mla
           g == UniformGroup(InOrder(M), mla)
           n == Len(FirstOfKey(layers))
           f == [i \in 1..n |-> SwaGroups(SwaOf(layers, i), NumTuples(layers))]
           T == Groups(D)
           one == <<g>>
           rest == FlattenSeq(f)
<1>1. g \in T
  <2>1. IsFiniteSet(M) /\ M \subseteq D /\ M # {} /\ mla \in [M -> LayerSpec]
    BY MlaLayersAre DEF CanTuple
  <2>2. g = GroupOf(InOrder(M), mla, TRUE)
    BY DEF UniformGroup
  <2>8. TRUE \in BOOLEAN
    OBVIOUS
  <2> HIDE DEF mla, M, g
  <2>3. M \in SUBSET M /\ M \subseteq Nat \ {0} /\ M \in SUBSET D
    BY <2>1
  <2> DEFINE names == InOrder(M)
  <2>4. names \in NonEmpty(M)
    BY <2>1, <2>3, ListsOfNames
  <2> HIDE DEF names
  <2>5. GroupOf(names, mla, TRUE) \in Groups(M)
    BY <2>1, <2>4, <2>8, GroupOfIsFine
  <2>6. Groups(M) \subseteq Groups(D)
    BY <2>3, FewerGroups
  <2> QED BY <2>2, <2>5, <2>6 DEF names
<1>2. DOMAIN KeysInOrder(layers) = 1..n /\ n \in Nat
  <2> DEFINE S == {k \in SwaNames(layers) : \A m \in SwaNames(layers) : m < k => KeyOf(layers[m]) # KeyOf(layers[k])}
  <2>1. S \in SUBSET D /\ FirstOfKey(layers) = InOrder(S)
    BY DEF SwaNames, FirstOfKey
  <2> HIDE DEF S
  <2>2. FirstOfKey(layers) \in Seq(D)
    BY <2>1, ListsOfNames
  <2> QED BY <2>2 DEF KeysInOrder
<1>3. ASSUME NEW i \in 1..n PROVE f[i] \in Seq(T)
  <2> DEFINE swa == SwaOf(layers, i)
             E == DOMAIN swa
             tuples == NumTuples(layers)
  <2>1. /\ E \subseteq D /\ E # {} /\ swa \in [E -> LayerSpec]
        /\ \A p \in PageSizes(swa) : Cardinality(LayersOfPage(swa, p)) = NumLayerTuples(swa)
    <3>1. i \in DOMAIN KeysInOrder(layers)
      BY <1>2
    <3> QED BY <3>1, SwaOfIs
  <2>2. tuples \in Nat \ {0}
    BY NumTuplesIs
  <2>3. f[i] = SwaGroups(swa, tuples)
    OBVIOUS
  <2> HIDE DEF swa, E, tuples, f, T
  <2>4. E \in SUBSET D /\ E \subseteq Nat \ {0}
    BY <2>1
  <2>5. IsFiniteSet(E)
    BY <2>4, FS_Subset
  <2>6. SwaGroups(swa, tuples) \in Seq(Groups(E))
    BY <2>1, <2>2, <2>4, <2>5, SwaGroupsAre
  <2>7. Groups(E) \subseteq Groups(D)
    BY <2>4, FewerGroups
  <2>8. SwaGroups(swa, tuples) \in Seq(Groups(D))
    BY <2>6, <2>7, SeqMonotonic
  <2> QED BY <2>3, <2>8 DEF T
<1>4. TupleGroups(layers) = one \o rest
  BY <1>2 DEF TupleGroups
<1>5. f \in Seq(Seq(T))
  <2> DEFINE U == Seq(T)
  <2>1. f = [i \in 1..n |-> f[i]]
    OBVIOUS
  <2> HIDE DEF f, T, n
  <2>2. f \in [1..n -> U]
    BY <1>3, <2>1
  <2> HIDE DEF U
  <2>3. f \in Seq(U)
    BY <1>2, <2>2, FunctionIsSeq
  <2> QED BY <2>3 DEF U
<1>6. rest \in Seq(T)
  <2> HIDE DEF f, T
  <2> QED BY <1>5, FlattenedType
<1>7. one \in Seq(T) /\ Len(one) = 1
  <2> HIDE DEF g, T
  <2> QED BY <1>1
<1> HIDE DEF one, rest, T
<1>8. one \o rest \in Seq(T) /\ Len(one \o rest) = 1 + Len(rest) /\ Len(rest) \in Nat
  <2>1. one \o rest \in Seq(T) /\ Len(one \o rest) = Len(one) + Len(rest)
    BY ONLY <1>6, <1>7, ConcatProperties
  <2>2. Len(rest) \in Nat
    BY ONLY <1>6
  <2> QED BY <1>7, <2>1, <2>2
<1> QED BY <1>4, <1>8 DEF T

(* Whatever get_kv_cache_groups returns are proper groups. *)
LEMMA GroupsOfAreFine ==
    ASSUME NEW D, IsFiniteSet(D), D \subseteq Nat \ {0}, NEW layers \in [D -> TokenSpec]
    PROVE  \/ GroupsOf(layers) = None \/ GroupsOf(layers) = <<>>
           \/ GroupsOf(layers) \in Seq(Groups(D)) /\ Len(GroupsOf(layers)) # 0
<1>1. layers \in [D -> LayerSpec]
  BY DEF TokenSpec
<1>2. DOMAIN layers = D
  OBVIOUS
<1>3. ASSUME NEW b \in BOOLEAN, D # {}
      PROVE  <<GroupOf(InOrder(D), layers, b)>> \in Seq(Groups(D)) /\ Len(<<GroupOf(InOrder(D), layers, b)>>) # 0
  <2> DEFINE names == InOrder(D)
  <2>1. names \in NonEmpty(D)
    <3>1. D \in SUBSET D
      OBVIOUS
    <3> QED BY <1>3, <3>1, ListsOfNames
  <2> HIDE DEF names
  <2>2. GroupOf(names, layers, b) \in Groups(D)
    BY <1>1, <2>1, GroupOfIsFine
  <2> DEFINE g == GroupOf(names, layers, b)
             T == Groups(D)
  <2> HIDE DEF g, T
  <2>3. <<g>> \in Seq(T) /\ Len(<<g>>) # 0
    BY <2>2 DEF g, T
  <2> QED BY <2>3 DEF g, T, names
<1>4. CASE D = {}
  BY <1>2, <1>4 DEF GroupsOf
<1>5. CASE D # {} /\ Merge(Range(layers))
  <2>1. GroupsOf(layers) = <<GroupOf(InOrder(D), layers, FALSE)>>
    BY <1>2, <1>5 DEF GroupsOf, Group
  <2>2. FALSE \in BOOLEAN
    OBVIOUS
  <2> QED BY <1>3, <1>5, <2>1, <2>2
<1>6. CASE D # {} /\ ~Merge(Range(layers)) /\ IsUniformType(Range(layers))
  <2>1. GroupsOf(layers) = <<GroupOf(InOrder(D), layers, TRUE)>>
    BY <1>2, <1>6 DEF GroupsOf, UniformGroup
  <2>2. TRUE \in BOOLEAN
    OBVIOUS
  <2> QED BY <1>3, <1>6, <2>1, <2>2
<1>7. CASE /\ D # {} /\ ~Merge(Range(layers)) /\ ~IsUniformType(Range(layers))
           /\ HasKind(layers, "swamla") /\ Cardinality(PageSizes(layers)) > 1
  <2>1. GroupsOf(layers) = IF CanTuple(layers) THEN TupleGroups(layers) ELSE None
    BY <1>2, <1>7 DEF GroupsOf
  <2> QED BY <1>1, <2>1, TupleGroupsAreFine
<1>8. CASE /\ D # {} /\ ~Merge(Range(layers)) /\ ~IsUniformType(Range(layers))
           /\ ~(HasKind(layers, "swamla") /\ Cardinality(PageSizes(layers)) > 1)
  <2>1. GroupsOf(layers) = IF DOMAIN RestOf(layers) = {} \/ None \in Range(RestOf(layers)) THEN None ELSE MixedGroups(layers)
    BY <1>2, <1>8 DEF GroupsOf
  <2> QED BY <2>1, MixedGroupsAreFine
<1> QED BY <1>4, <1>5, <1>6, <1>7, <1>8

LEMMA WidenedIs ==
    ASSUME NEW s \in TokenSpec, NEW b \in Nat \ {0}
    PROVE  Widened(s, b) \in TokenSpec
<1>1. s \in LayerSpec /\ s.page \in Nat \ {0} /\ s.block_size \in Nat \ {0} /\ (s.kind # "mamba" => s.block_size <= s.page)
  BY DEF TokenSpec, LayerSpec
<1>2. CASE s.kind = "sliding"
  <2> DEFINE t == [s EXCEPT !.kind = "full"]
  <2>1. t \in LayerSpec /\ t.block_size = s.block_size /\ t.page = s.page /\ t.kind = "full"
    BY <1>1 DEF LayerSpec, Kinds
  <2>2. Widened(s, b) = t
    BY <1>2 DEF Widened
  <2> HIDE DEF t
  <2> QED BY <1>1, <1>2, <2>1, <2>2 DEF TokenSpec
<1>3. CASE s.kind = "swamla"
  <2> DEFINE p == (s.page * b) \div s.block_size
             t == [s EXCEPT !.kind = "mla", !.window = 0, !.block_size = b, !.page = p]
  <2>1. p \in Nat /\ b <= p
    <3> DEFINE x == s.page * b
               d == s.block_size
    <3>1. x \in Nat /\ d \in Nat \ {0} /\ d * b <= x
      BY <1>1, <1>3
    <3>2. d * b \in Nat /\ (d * b) \div d = b
      BY <3>1
    <3> HIDE DEF x, d
    <3>3. (d * b) \div d <= x \div d
      BY <3>1, <3>2, Quotient
    <3>4. x \div d \in Nat
      BY <3>1, Quotient
    <3> QED BY <3>2, <3>3, <3>4 DEF x, d
  <2>2. Widened(s, b) = t
    BY <1>3 DEF Widened
  <2>3. p \in Nat \ {0}
    BY <2>1
  <2> HIDE DEF p
  <2>4. t \in LayerSpec /\ t.block_size = b /\ t.page = p /\ t.kind = "mla"
    BY <1>1, <2>3 DEF LayerSpec, Kinds
  <2> HIDE DEF t
  <2> QED BY <2>1, <2>2, <2>4 DEF TokenSpec
<1>4. CASE s.kind \notin {"sliding", "swamla"}
  BY <1>4 DEF Widened
<1> QED BY <1>2, <1>3, <1>4

LEMMA HybridSpecsAre ==
    ASSUME NEW D, IsFiniteSet(D), D \subseteq Nat \ {0}, NEW layers \in [D -> TokenSpec]
    PROVE  unify_hybrid_kv_cache_specs(layers) \in [D -> TokenSpec]
<1>1. CASE Unified(layers) \/ ~(HasKind(layers, "full") \/ HasKind(layers, "mla"))
  BY <1>1 DEF unify_hybrid_kv_cache_specs
<1>2. CASE ~Unified(layers) /\ (HasKind(layers, "full") \/ HasKind(layers, "mla"))
  <2> DEFINE S == {n \in D : layers[n].kind \in {"full", "mla"}}
             b == FullBlockSize(layers)
             f == [n \in D |-> Widened(layers[n], b)]
  <2>1. S \in SUBSET Nat /\ S # {} /\ S \subseteq D
    BY <1>2 DEF HasKind, Range
  <2>2. b = layers[Min(S)].block_size
    BY DEF FullBlockSize
  <2> HIDE DEF S, b
  <2>3. Min(S) \in D
    BY <2>1, MinIs
  <2>4. b \in Nat \ {0}
    BY <2>2, <2>3 DEF TokenSpec, LayerSpec
  <2>5. f \in [D -> TokenSpec]
    <3>1. \A n \in D : Widened(layers[n], b) \in TokenSpec
      BY <2>4, WidenedIs
    <3> QED BY <3>1
  <2>6. unify_hybrid_kv_cache_specs(layers) = f
    BY <1>2 DEF unify_hybrid_kv_cache_specs, b
  <2> QED BY <2>5, <2>6
<1> QED BY <1>1, <1>2

LEMMA GotGroupsAreFine ==
    ASSUME NEW D, IsFiniteSet(D), D \subseteq Nat \ {0}, NEW layers \in [D -> TokenSpec], NEW c
    PROVE  \/ get_kv_cache_groups(c, layers) = None \/ get_kv_cache_groups(c, layers) = <<>>
           \/ get_kv_cache_groups(c, layers) \in Seq(Groups(D)) /\ Len(get_kv_cache_groups(c, layers)) # 0
<1>1. PICK l : l = IF c.disable_hybrid THEN unify_hybrid_kv_cache_specs(layers) ELSE layers
  OBVIOUS
<1>2. l \in [D -> TokenSpec]
  BY <1>1, HybridSpecsAre
<1>3. get_kv_cache_groups(c, layers) = None \/ get_kv_cache_groups(c, layers) = GroupsOf(l)
  BY <1>1 DEF get_kv_cache_groups
<1>4. \/ GroupsOf(l) = None \/ GroupsOf(l) = <<>>
      \/ GroupsOf(l) \in Seq(Groups(D)) /\ Len(GroupsOf(l)) # 0
  BY <1>2, GroupsOfAreFine
<1> QED BY <1>3, <1>4

----------------------------------------------------------------------------
(* The groups of a worker *)

LEMMA ProjectedGroupIsFine ==
    ASSUME NEW g, FineGroup(g), NEW worker
    PROVE  FineGroup(ProjectedGroup(g, worker))
<1> DEFINE D == DOMAIN g.layers
           mine == Only(g.names, DOMAIN worker)
           some == [n \in ToSet(mine) |-> g.layers[n]]
           p == ProjectedGroup(g, worker)
<1>1. IsFiniteSet(D) /\ g.layers \in [D -> LayerSpec] /\ g.spec \in LayerSpec
      /\ g.order \in Seq(D) /\ Len(g.order) # 0 /\ g.names \in Seq(D)
  BY DEF FineGroup
<1>2. mine \in Seq(D)
  <2> HIDE DEF D
  <2>1. Selects(mine, g.names, DOMAIN worker, D)
    BY <1>1, OnlySelects
  <2> QED BY <2>1 DEF Selects
<1>3. /\ p.names = mine /\ p.spec = g.spec
      /\ p.order = IF mine = <<>> THEN g.order ELSE mine
      /\ p.layers = IF mine = <<>> THEN g.layers ELSE some
  BY DEF ProjectedGroup
<1>7. ProjectedGroup(g, worker) = p
  OBVIOUS
<1> HIDE DEF mine, p
<1> SUFFICES FineGroup(p)
  BY <1>7
<1>4. CASE mine = <<>>
  <2>1. p.names = mine /\ Len(p.names) = 0 /\ p.order = g.order /\ p.layers = g.layers
    BY <1>3, <1>4
  <2>2. DOMAIN p.layers = D
    BY <2>1
  <2> HIDE DEF D
  <2> QED BY <1>1, <1>2, <1>3, <2>1, <2>2 DEF FineGroup
<1>5. CASE mine # <<>>
  <2> DEFINE E == ToSet(mine)
  <2>1. p.names = mine /\ p.order = mine /\ p.layers = some
    BY <1>3, <1>5
  <2> HIDE DEF D
  <2>2. IsFiniteSet(E) /\ E \subseteq D
    BY <1>2, ElementsAreFinite
  <2>3. Len(mine) # 0
    BY <1>2, <1>5
  <2>4. mine \in Seq(E)
    <3>1. \A i \in 1..Len(mine) : mine[i] \in E
      BY <1>2 DEF ToSet
    <3>2. mine = [i \in 1..Len(mine) |-> mine[i]]
      BY <1>2
    <3> HIDE DEF E
    <3> QED BY <1>2, <3>1, <3>2
  <2>5. some \in [E -> LayerSpec] /\ DOMAIN some = E
    <3> HIDE DEF E
    <3>1. \A n \in E : g.layers[n] \in LayerSpec
      BY <1>1, <2>2
    <3>2. some = [n \in E |-> g.layers[n]]
      BY DEF E
    <3> HIDE DEF some
    <3> QED BY <3>1, <3>2
  <2> HIDE DEF E, some
  <2>6. DOMAIN p.layers = E
    BY <2>1, <2>5
  <2> QED BY <1>1, <1>3, <2>1, <2>2, <2>3, <2>4, <2>5, <2>6 DEF FineGroup
<1> QED BY <1>4, <1>5

LEMMA ProjectedAreFine ==
    ASSUME NEW groups, FineGroups(groups), NEW worker
    PROVE  FineGroups(Projected(groups, worker))
<1> DEFINE n == Len(groups)
           p == Projected(groups, worker)
<1>1. n \in Nat \ {0} /\ DOMAIN groups = 1..n /\ \A i \in 1..n : FineGroup(groups[i])
  BY DEF FineGroups
<1>2. p = [i \in 1..n |-> ProjectedGroup(groups[i], worker)]
  BY <1>1 DEF Projected
<1> HIDE DEF n, p
<1>3. DOMAIN p = 1..n /\ Len(p) = n
  BY <1>1, <1>2
<1>4. \A i \in 1..n : FineGroup(p[i])
  BY <1>1, <1>2, ProjectedGroupIsFine
<1>5. FineGroups(p)
  BY <1>1, <1>3, <1>4 DEF FineGroups
<1> QED BY <1>5 DEF p

(* What the assumption says of one case. *)
LEMMA CaseParts ==
    ASSUME NEW c \in Cases
    PROVE  LET W == DOMAIN c.workers
           IN  /\ W \subseteq Nat /\ W # {} /\ IsFiniteSet(W) /\ IsFiniteSet(UNION {DOMAIN c.workers[w] : w \in W})
               /\ \A w \in W : c.memory[w] \in Int
               /\ \A w \in W : \A n \in DOMAIN c.workers[w] : n \in Nat \ {0} /\ c.workers[w][n] \in TokenSpec
               /\ c.max_len \in Nat \ {0} /\ c.override \in Nat \cup {None} /\ c.auto_fit \in BOOLEAN
<1> DEFINE W == DOMAIN c.workers
           m == Len(c.workers)
<1>1. IsCase(c)
  BY KVCacheConfigAssumption
<1>2. /\ m \in Nat \ {0} /\ W = 1..m
      /\ IsFiniteSet(UNION {DOMAIN c.workers[w] : w \in W})
      /\ \A w \in W : c.memory[w] \in Int
      /\ \A w \in W : \A n \in DOMAIN c.workers[w] : n \in Nat \ {0} /\ c.workers[w][n] \in TokenSpec
      /\ c.max_len \in Nat \ {0} /\ c.override \in Nat \cup {None} /\ c.auto_fit \in BOOLEAN
  BY <1>1 DEF IsCase
<1> HIDE DEF W, m
<1>4. m \in Nat /\ m # 0 /\ W = 1..m
  BY <1>2
<1>5. IsFiniteSet(1..m)
  BY <1>4, FS_Interval
<1>6. 1 \in 1..m
  BY <1>4
<1>7. W \subseteq Nat
  BY <1>4
<1>3. W \subseteq Nat /\ W # {} /\ IsFiniteSet(W)
  BY <1>4, <1>5, <1>6, <1>7, Zenon
<1> QED BY <1>2, <1>3 DEF W

LEMMA MergedSpecsAre ==
    ASSUME NEW c \in Cases
    PROVE  \E D : IsFiniteSet(D) /\ D \subseteq Nat \ {0} /\ MergedSpecs(c) \in [D -> TokenSpec]
<1> DEFINE W == DOMAIN c.workers
           D == UNION {DOMAIN c.workers[w] : w \in W}
           Holders(n) == {w \in W : n \in DOMAIN c.workers[w]}
           f == [n \in D |-> c.workers[Min(Holders(n))][n]]
<1>1. W \subseteq Nat /\ IsFiniteSet(D)
      /\ \A w \in W : \A n \in DOMAIN c.workers[w] : n \in Nat \ {0} /\ c.workers[w][n] \in TokenSpec
  BY CaseParts
<1>2. D \subseteq Nat \ {0}
  <2> HIDE DEF W
  <2> QED BY <1>1
<1>3. ASSUME NEW n \in D PROVE f[n] \in TokenSpec
  <2> DEFINE S == Holders(n)
  <2>1. S \in SUBSET Nat /\ S # {}
    BY <1>1
  <2>2. f[n] = c.workers[Min(S)][n]
    OBVIOUS
  <2>3. \A w \in S : w \in W /\ n \in DOMAIN c.workers[w]
    OBVIOUS
  <2> HIDE DEF S, f, W
  <2>4. Min(S) \in S
    BY <2>1, MinIs
  <2> QED BY <1>1, <2>2, <2>3, <2>4
<1>4. MergedSpecs(c) = f
  BY DEF MergedSpecs
<1>5. f \in [D -> TokenSpec]
  <2>1. f = [n \in D |-> f[n]]
    OBVIOUS
  <2> HIDE DEF f, D
  <2> QED BY <1>3, <2>1
<1> HIDE DEF D, f
<1> QED BY <1>1, <1>2, <1>4, <1>5

----------------------------------------------------------------------------
(* What is allocated *)

LEMMA Unscaled ==
    ASSUME NEW x \in Nat, NEW num \in Nat \ {0}
    PROVE  (x * num) \div num = x
  OBVIOUS

LEMMA SeparateAllocation ==
    ASSUME NEW n \in Nat, NEW sizes \in [1..n -> Nat], NEW tensors, DOMAIN tensors = 1..n,
           \A i \in 1..n : tensors[i].stride = 0 /\ tensors[i].size = sizes[i]
    PROVE  Allocated(tensors) = SumSeq(sizes)
<1>1. ~ \E t \in Range(tensors) : t.stride > 0
  BY DEF Range
<1>2. [i \in DOMAIN tensors |-> tensors[i].size] = sizes
  OBVIOUS
<1>3. Allocated(tensors) = SumSeq([i \in DOMAIN tensors |-> tensors[i].size])
  BY <1>1 DEF Allocated
<1> QED BY <1>2, <1>3

LEMMA SharedAllocation ==
    ASSUME NEW v \in Nat, NEW tensors, \A i \in DOMAIN tensors : tensors[i].stride > 0 /\ tensors[i].size = v
    PROVE  Allocated(tensors) \in Nat /\ Allocated(tensors) <= v
<1>1. CASE DOMAIN tensors = {}
  <2> DEFINE f == [i \in DOMAIN tensors |-> tensors[i].size]
  <2>1. Allocated(tensors) = SumSeq(f)
    BY <1>1 DEF Allocated, Range
  <2>2. 1..0 = {} /\ 0 \in Nat
    OBVIOUS
  <2>3. f \in [1..0 -> Nat]
    BY <1>1, <2>2
  <2> HIDE DEF f
  <2>4. f \in Seq(Nat) /\ Len(f) = 0
    BY <2>2, <2>3, FunctionIsSeq
  <2>5. SumSeq(f) = Len(f) * 0
    <3>1. 0 \in Nat /\ \A i \in 1..Len(f) : f[i] = 0
      BY <2>4
    <3> QED BY <2>4, <3>1, SumOfEqual
  <2> QED BY <2>1, <2>4, <2>5
<1>2. CASE DOMAIN tensors # {}
  <2> DEFINE S == {t.size : t \in Range(tensors)}
             V == {v}
  <2>1. S = V
    BY <1>2 DEF Range
  <2>2. \E t \in Range(tensors) : t.stride > 0
    BY <1>2 DEF Range
  <2>3. Allocated(tensors) = Max(V)
    BY <2>1, <2>2 DEF Allocated
  <2>4. IsFiniteSet(V) /\ V \in SUBSET Nat /\ V # {}
    BY FS_Singleton
  <2> HIDE DEF V
  <2>5. Max(V) \in V
    BY <2>4, MaxIs
  <2>6. Max(V) = v
    BY <2>5 DEF V
  <2> QED BY <2>3, <2>6
<1> QED BY <1>1, <1>2

AtMost(a, b) == a \in Nat /\ a <= b

(* The tensors of a plan, once its block count is cut to few. *)
Cut(tensors, num, few) == [i \in DOMAIN tensors |-> [tensors[i] EXCEPT !.size = (@ \div num) * few]]

LEMMA CutTensor ==
    ASSUME NEW x \in Nat, NEW num \in Nat \ {0}, NEW few \in Nat \ {0}, NEW l, NEW o, NEW st,
           NEW y, y = x * num, NEW tensors, NEW i \in DOMAIN tensors, tensors[i] = Tensor(y, l, o, st)
    PROVE  Cut(tensors, num, few)[i].size = x * few /\ Cut(tensors, num, few)[i].stride = st
<1>1. (x * num) \div num = x
  BY Unscaled
<1>2. tensors[i] = [size |-> y, shared_by |-> l, offset |-> o, stride |-> st] /\ y \div num = x
  BY <1>1 DEF Tensor
<1>3. Cut(tensors, num, few)[i] = [tensors[i] EXCEPT !.size = (@ \div num) * few]
  BY DEF Cut
<1> QED BY <1>2, <1>3

LEMMA LayerTensorsFit ==
    ASSUME NEW g, FineGroup(g), NEW num \in Nat \ {0}, NEW few \in Nat \ {0}
    PROVE  AtMost(Allocated(Cut(LayerTensors(g, num), num, few)), UniformPage(g) * few)
<1> DEFINE n == Len(g.names)
           pages == [i \in 1..n |-> g.layers[g.names[i]].page]
           sizes == [i \in 1..n |-> pages[i] * few]
           tensors == LayerTensors(g, num)
           cut == Cut(tensors, num, few)
<1>1. n \in Nat /\ DOMAIN g.names = 1..n /\ \A i \in 1..n : pages[i] \in Nat
  BY FineParts
<1>2. tensors = [i \in 1..n |-> Tensor(pages[i] * num, <<g.names[i]>>, 0, 0)]
  BY <1>1 DEF LayerTensors
<1>3. pages \in [1..n -> Nat] /\ sizes \in [1..n -> Nat]
  <2>1. pages = [i \in 1..n |-> pages[i]]
    OBVIOUS
  <2> HIDE DEF pages, n
  <2>2. \A i \in 1..n : pages[i] * few \in Nat
    BY <1>1
  <2> QED BY <1>1, <2>1, <2>2
<1>11. \A i \in 1..n : sizes[i] = pages[i] * few
  OBVIOUS
<1>12. Len(g.names) # 0 => UniformPage(g) = SumSeq(pages)
  BY <1>1 DEF FineGroup, UniformPage

<1> HIDE DEF tensors, pages, sizes
<1>4. DOMAIN tensors = 1..n /\ \A i \in 1..n : tensors[i] = Tensor(pages[i] * num, <<g.names[i]>>, 0, 0)
  BY <1>2
<1>5. DOMAIN cut = 1..n
  BY <1>4 DEF Cut
<1>6. ASSUME NEW i \in 1..n PROVE cut[i].stride = 0 /\ cut[i].size = sizes[i]
  <2> DEFINE x == pages[i]
             l == <<g.names[i]>>
             y == x * num
  <2>1. x \in Nat /\ i \in DOMAIN tensors /\ tensors[i] = Tensor(y, l, 0, 0) /\ y = x * num
    BY <1>1, <1>4
  <2> HIDE DEF x, l, y, n
  <2>3. Cut(tensors, num, few)[i].size = x * few /\ Cut(tensors, num, few)[i].stride = 0
    BY <2>1, CutTensor
  <2>2. cut[i].size = x * few /\ cut[i].stride = 0
    BY <2>3
  <2> QED BY <1>11, <2>2 DEF x
<1> HIDE DEF cut, n
<1>7. Allocated(cut) = SumSeq(sizes)
  BY <1>1, <1>3, <1>5, <1>6, SeparateAllocation
<1>8. pages \in Seq(Nat) /\ sizes \in Seq(Nat) /\ Len(pages) = n /\ Len(sizes) = n
  BY <1>1, <1>3, FunctionIsSeq
<1>9. SumSeq(sizes) = SumSeq(pages) * few
  BY <1>8, <1>11, SumIsScaled
<1>10. UniformPage(g) \in Nat
  BY UniformPageType
<1>14. CASE n = 0
  <2>1. 0 \in Nat /\ \A i \in 1..Len(sizes) : sizes[i] = 0
    BY <1>8, <1>14
  <2>2. SumSeq(sizes) = Len(sizes) * 0
    BY <1>8, <2>1, SumOfEqual
  <2>3. SumSeq(sizes) = 0
    BY <1>8, <1>14, <2>2
  <2>4. 0 <= UniformPage(g) * few
    BY <1>10
  <2> QED BY <1>7, <2>3, <2>4 DEF AtMost, cut, tensors
<1>15. CASE n # 0
  <2>1. SumSeq(sizes) = UniformPage(g) * few
    BY <1>9, <1>12, <1>15 DEF n
  <2>2. UniformPage(g) * few \in Nat
    BY <1>10
  <2> QED BY <1>7, <2>1, <2>2 DEF AtMost, cut, tensors
<1> QED BY <1>14, <1>15

LEMMA PooledTensorsFit ==
    ASSUME NEW groups, FineGroups(groups), NEW num \in Nat \ {0}, NEW few \in Nat \ {0}
    PROVE  AtMost(Allocated(Cut(PooledTensors(groups, num), num, few)), groups[1].spec.page * LargestGroup(groups) * few)
<1> DEFINE n == LargestGroup(groups)
           page == groups[1].spec.page
           layers(i) == FlattenSeq([j \in DOMAIN groups |-> IF i <= Len(groups[j].names) THEN <<groups[j].names[i]>> ELSE <<>>])
           tensors == PooledTensors(groups, num)
           cut == Cut(tensors, num, few)
           each == page * few
           sizes == [i \in 1..n |-> each]
<1>1. n \in Nat
  BY LargestGroupIs
<1>2. page \in Nat
  <2>1. FineGroup(groups[1])
    BY GroupsAreFinite DEF FineGroups
  <2> QED BY <2>1, FineParts
<1>3. tensors = [i \in 1..n |-> Tensor(page * num, layers(i), 0, 0)]
  BY DEF PooledTensors
<1> HIDE DEF n, page, layers, tensors
<1>4. DOMAIN tensors = 1..n /\ \A i \in 1..n : tensors[i] = Tensor(page * num, layers(i), 0, 0)
  BY <1>3
<1>5. DOMAIN cut = 1..n
  BY <1>4 DEF Cut
<1>6. each \in Nat
  BY <1>2
<1>7. ASSUME NEW i \in 1..n PROVE cut[i].stride = 0 /\ cut[i].size = each
  <2> DEFINE l == layers(i)
             y == page * num
  <2>1. i \in DOMAIN tensors /\ tensors[i] = Tensor(y, l, 0, 0) /\ y = page * num
    BY <1>4
  <2> HIDE DEF l, y
  <2> QED BY <1>2, <2>1, CutTensor
<1> HIDE DEF cut, each
<1>8. sizes \in [1..n -> Nat] /\ \A i \in 1..n : sizes[i] = each
  BY <1>6
<1> HIDE DEF sizes
<1>9. Allocated(cut) = SumSeq(sizes)
  BY <1>1, <1>5, <1>7, <1>8, SeparateAllocation
<1>10. sizes \in Seq(Nat) /\ Len(sizes) = n
  BY <1>1, <1>8, FunctionIsSeq
<1>11. SumSeq(sizes) = n * each
  <2>1. \A i \in 1..Len(sizes) : sizes[i] = each
    BY <1>8, <1>10
  <2>2. SumSeq(sizes) = Len(sizes) * each
    BY <1>6, <1>10, <2>1, SumOfEqual
  <2> QED BY <1>10, <2>2
<1>12. n * (page * few) = page * n * few /\ page * n * few \in Nat
  BY <1>1, <1>2
<1>13. AtMost(Allocated(cut), page * n * few)
  BY <1>9, <1>11, <1>12 DEF each, AtMost
<1> QED BY <1>13 DEF cut, tensors, page, n

LEMMA PackedTensorsFit ==
    ASSUME NEW groups, NEW pool \in Nat \ {0}, NEW num \in Nat \ {0}, NEW few \in Nat \ {0}
    PROVE  AtMost(Allocated(Cut(PackedTensors(groups, pool, num), num, few)), pool * few)
<1> DEFINE D == DOMAIN Slots(groups)
           layers(i) == Slots(groups)[i].layers
           offset(i) == SumSeq([j \in 1..i-1 |-> Slots(groups)[j].ps])
           tensors == PackedTensors(groups, pool, num)
           cut == Cut(tensors, num, few)
           v == pool * few
<1>1. tensors = [i \in D |-> Tensor(pool * num, layers(i), offset(i), pool)]
  BY DEF PackedTensors
<1> HIDE DEF D, layers, offset, tensors
<1>2. DOMAIN tensors = D /\ \A i \in D : tensors[i] = Tensor(pool * num, layers(i), offset(i), pool)
  BY <1>1
<1>3. DOMAIN cut = D
  BY <1>2 DEF Cut
<1>4. v \in Nat
  OBVIOUS
<1>5. ASSUME NEW i \in D PROVE cut[i].stride > 0 /\ cut[i].size = v
  <2> DEFINE l == layers(i)
             o == offset(i)
             y == pool * num
  <2>1. i \in DOMAIN tensors /\ tensors[i] = Tensor(y, l, o, pool) /\ pool \in Nat /\ y = pool * num
    BY <1>2
  <2> HIDE DEF l, o, y
  <2>2. cut[i].size = pool * few /\ cut[i].stride = pool
    BY <2>1, CutTensor
  <2> QED BY <2>2
<1> HIDE DEF cut, v
<1>6. AtMost(Allocated(cut), v)
  BY <1>3, <1>4, <1>5, SharedAllocation DEF AtMost
<1> QED BY <1>6 DEF cut, v, tensors

LEMMA TensorsFit ==
    ASSUME NEW c, NEW groups, FineGroups(groups), _pool_bytes_per_block(c, groups) # 0,
           NEW num \in Nat \ {0}, NEW few \in Nat \ {0}
    PROVE  AtMost(Allocated(Cut(TensorsOf(c, groups, num), num, few)), _pool_bytes_per_block(c, groups) * few)
<1> DEFINE pool == _pool_bytes_per_block(c, groups)
<1>1. pool \in Nat \ {0}
  BY PoolBytesType
<1>2. CASE OneUniform(groups)
  <2> DEFINE g == groups[1]
  <2>1. FineGroup(g)
    BY GroupsAreFinite DEF FineGroups
  <2>2. TensorsOf(c, groups, num) = LayerTensors(g, num) /\ pool = UniformPage(g)
    BY <1>2 DEF TensorsOf, _pool_bytes_per_block
  <2> HIDE DEF g, pool
  <2>3. AtMost(Allocated(Cut(LayerTensors(g, num), num, few)), UniformPage(g) * few)
    BY <2>1, LayerTensorsFit
  <2>4. AtMost(Allocated(Cut(TensorsOf(c, groups, num), num, few)), pool * few)
    BY <2>2, <2>3
  <2> QED BY <2>4 DEF pool
<1>3. CASE ~OneUniform(groups) /\ Packed(c, groups)
  <2>1. TensorsOf(c, groups, num) = PackedTensors(groups, pool, num)
    BY <1>3 DEF TensorsOf
  <2> HIDE DEF pool
  <2>2. AtMost(Allocated(Cut(PackedTensors(groups, pool, num), num, few)), pool * few)
    BY <1>1, PackedTensorsFit
  <2>3. AtMost(Allocated(Cut(TensorsOf(c, groups, num), num, few)), pool * few)
    BY <2>1, <2>2
  <2> QED BY <2>3 DEF pool
<1>4. CASE ~OneUniform(groups) /\ ~Packed(c, groups)
  <2>1. TensorsOf(c, groups, num) = PooledTensors(groups, num) /\ pool = groups[1].spec.page * LargestGroup(groups)
    BY <1>4 DEF TensorsOf, _pool_bytes_per_block
  <2> HIDE DEF pool
  <2>2. AtMost(Allocated(Cut(PooledTensors(groups, num), num, few)), groups[1].spec.page * LargestGroup(groups) * few)
    BY PooledTensorsFit
  <2>3. AtMost(Allocated(Cut(TensorsOf(c, groups, num), num, few)), pool * few)
    BY <2>1, <2>2
  <2> QED BY <2>3 DEF pool
<1> QED BY <1>2, <1>3, <1>4

----------------------------------------------------------------------------
(* A plan *)

Memory(c, p) == [w \in DOMAIN c.workers |-> EffectiveMemory(c, p.mine[w], w)]
Configs(c, p) == [w \in DOMAIN c.workers |-> ConfigFromGroups(c, p.mine[w], Memory(c, p)[w])]
Fewest(c, p) == Min({Configs(c, p)[w].num_blocks : w \in DOMAIN c.workers})

(* What is known of a plan p made for the case c. *)
IsPlanFor(c, p) ==
    /\ DOMAIN p.mine = DOMAIN c.workers
    /\ \A w \in DOMAIN c.workers : /\ FineGroups(p.mine[w]) /\ _pool_bytes_per_block(c, p.mine[w]) > 0
                                   /\ Memory(c, p)[w] > 0
                                   /\ p.configs[w] = Shrunk(Configs(c, p)[w], Fewest(c, p))
    /\ Fewest(c, p) > 0
    /\ p.max_len > 0 /\ p.max_len = IF c.auto_fit THEN FittedLen(c, p.mine, Memory(c, p)) ELSE c.max_len

LEMMA PlansArePlans ==
    ASSUME NEW c \in Cases, NEW p, p = get_kv_cache_configs(c), p.ok, p.groups # <<>>
    PROVE  IsPlanFor(c, p)
<1> DEFINE W == DOMAIN c.workers
           groups == get_kv_cache_groups(c, MergedSpecs(c))
           mine == [w \in W |-> Projected(groups, c.workers[w])]
           memory == [w \in W |-> EffectiveMemory(c, mine[w], w)]
           len == IF c.auto_fit /\ groups # <<>> THEN FittedLen(c, mine, memory) ELSE c.max_len
           enough == \A w \in W : memory[w] > 0 /\ Fits(mine[w], memory[w], len)
           divides == \A w \in W : _pool_bytes_per_block(c, mine[w]) > 0
           configs == [w \in W |-> ConfigFromGroups(c, mine[w], memory[w])]
           fewest == Min({configs[w].num_blocks : w \in W})
           shrunk == [w \in W |-> Shrunk(configs[w], fewest)]
           assigned == \A w \in W : Assigned(mine[w], c.workers[w])
           made == [ok |-> TRUE, max_len |-> len, groups |-> groups, mine |-> mine, configs |-> shrunk]
<1>1. p = IF ~Agreeing(c) \/ groups = None THEN Failed
          ELSE IF groups # <<>> /\ ~(divides /\ len > 0 /\ enough) THEN Failed
          ELSE IF ~(fewest > 0 /\ assigned) THEN Failed
          ELSE made
  BY DEF get_kv_cache_configs
<1>2. Failed.ok = FALSE
  BY DEF Failed
<1>3. made.max_len = len /\ made.groups = groups /\ made.mine = mine /\ made.configs = shrunk
  OBVIOUS
<1>4. mine = [w \in W |-> Projected(groups, c.workers[w])]
      /\ memory = [w \in W |-> EffectiveMemory(c, mine[w], w)]
      /\ configs = [w \in W |-> ConfigFromGroups(c, mine[w], memory[w])]
      /\ fewest = Min({configs[w].num_blocks : w \in W})
      /\ shrunk = [w \in W |-> Shrunk(configs[w], fewest)]
  OBVIOUS
<1>5. (enough <=> \A w \in W : memory[w] > 0 /\ Fits(mine[w], memory[w], len))
      /\ (divides <=> \A w \in W : _pool_bytes_per_block(c, mine[w]) > 0)
      /\ len = IF c.auto_fit /\ groups # <<>> THEN FittedLen(c, mine, memory) ELSE c.max_len
  OBVIOUS
<1> HIDE DEF groups, mine, memory, len, enough, divides, configs, fewest, shrunk, assigned, made
<1>6. p = made /\ groups # None /\ (groups # <<>> => divides /\ len > 0 /\ enough) /\ fewest > 0
  BY <1>1, <1>2
<1>7. p.mine = mine /\ p.max_len = len /\ p.configs = shrunk /\ groups # <<>>
  BY <1>3, <1>6
<1>8. FineGroups(groups)
  <2>1. PICK D : IsFiniteSet(D) /\ D \subseteq Nat \ {0} /\ MergedSpecs(c) \in [D -> TokenSpec]
    BY MergedSpecsAre
  <2>2. groups \in Seq(Groups(D)) /\ Len(groups) # 0
    BY <1>6, <1>7, <2>1, GotGroupsAreFine DEF groups
  <2> QED BY <2>2, GroupsAreFine
<1>9. \A w \in W : FineGroups(mine[w])
  <2>1. \A w \in W : mine[w] = Projected(groups, c.workers[w])
    BY <1>4
  <2> HIDE DEF W
  <2> QED BY <1>8, <2>1, ProjectedAreFine
<1>10. Memory(c, p) = memory
  BY <1>4, <1>7 DEF Memory
<1>11. Configs(c, p) = configs
  BY <1>4, <1>7, <1>10 DEF Configs
<1>12. Fewest(c, p) = fewest
  <2> DEFINE R(f) == {f[w].num_blocks : w \in W}
  <2>1. Fewest(c, p) = Min(R(Configs(c, p)))
    BY DEF Fewest
  <2>2. fewest = Min(R(configs))
    BY <1>4
  <2> HIDE DEF R
  <2> QED BY <1>11, <2>1, <2>2
<1>13. DOMAIN p.mine = W
  BY <1>4, <1>7
<1>14. \A w \in W : p.configs[w] = Shrunk(configs[w], fewest)
  <2> HIDE DEF W
  <2> QED BY <1>4, <1>7
<1>15. \A w \in W : _pool_bytes_per_block(c, p.mine[w]) > 0 /\ memory[w] > 0
  BY <1>5, <1>6, <1>7
<1>16. p.max_len = IF c.auto_fit THEN FittedLen(c, mine, memory) ELSE c.max_len
  BY <1>5, <1>7
<1>17. (\A w \in W : FineGroups(p.mine[w])) /\ p.max_len > 0
  BY <1>6, <1>7, <1>9
<1> QED BY <1>6, <1>7, <1>10, <1>11, <1>12, <1>13, <1>14, <1>15, <1>16, <1>17 DEF IsPlanFor

LEMMA MemoryType ==
    ASSUME NEW c \in Cases, NEW p, IsPlanFor(c, p), NEW w \in DOMAIN c.workers
    PROVE  /\ Memory(c, p)[w] \in Int
           /\ Memory(c, p)[w] = IF c.override = None THEN c.memory[w]
                                ELSE c.override * _pool_bytes_per_block(c, p.mine[w])
<1>1. FineGroups(p.mine[w])
  BY DEF IsPlanFor
<1>2. p.mine[w] # <<>>
  BY <1>1 DEF FineGroups
<1>3. Memory(c, p)[w] = IF c.override = None THEN c.memory[w]
                        ELSE c.override * _pool_bytes_per_block(c, p.mine[w])
  BY <1>2 DEF Memory, EffectiveMemory
<1>4. c.memory[w] \in Int /\ c.override \in Nat \cup {None}
  BY CaseParts
<1>5. _pool_bytes_per_block(c, p.mine[w]) \in Nat
  BY <1>1, PoolBytesType
<1> QED BY <1>3, <1>4, <1>5

LEMMA FittedIsLongest ==
    ASSUME NEW c \in Cases, NEW p, IsPlanFor(c, p), c.auto_fit, NEW len \in 1..c.max_len,
           \A w \in DOMAIN c.workers : Fits(p.mine[w], Memory(c, p)[w], len)
    PROVE  len <= p.max_len
<1> DEFINE W == DOMAIN c.workers
           m == Memory(c, p)
           o == c.max_len
           S == {EstimatedLen(p.mine[w], m[w], o) : w \in DOMAIN p.mine} \cup {o}
<1>1. o \in Nat \ {0}
  BY CaseParts
<1>2. DOMAIN p.mine = W
  BY DEF IsPlanFor
<1>3. ASSUME NEW w \in W
      PROVE  EstimatedLen(p.mine[w], m[w], o) \in Nat /\ len <= EstimatedLen(p.mine[w], m[w], o)
  <2> DEFINE g == p.mine[w]
             mem == m[w]
  <2>1. FineGroups(g) /\ mem \in Int /\ Fits(g, mem, len)
    BY MemoryType DEF IsPlanFor
  <2> HIDE DEF g, mem
  <2>2. EstimatedLen(g, mem, o) \in Nat /\ len <= EstimatedLen(g, mem, o)
    BY <1>1, <2>1, EstimatedLenIs
  <2> QED BY <2>2 DEF g, mem
<1>4. p.max_len = Min(S)
  BY DEF IsPlanFor, FittedLen
<1>5. \A x \in S : x \in Nat /\ len <= x
  <2> HIDE DEF W, m
  <2> QED BY <1>1, <1>2, <1>3
<1>6. S \in SUBSET Nat /\ S # {}
  <2>1. o \in S
    OBVIOUS
  <2> HIDE DEF S
  <2> QED BY <1>5, <2>1
<1> HIDE DEF S
<1>7. Min(S) \in S
  BY <1>6, MinIs
<1> QED BY <1>4, <1>5, <1>7

LEMMA PlannedFits ==
    ASSUME NEW c \in Cases, NEW p, IsPlanFor(c, p), c.override = None, NEW w \in DOMAIN c.workers
    PROVE  Allocated(p.configs[w].tensors) <= c.memory[w]
<1> DEFINE W == DOMAIN c.workers
           m == Memory(c, p)
           pool(v) == _pool_bytes_per_block(c, p.mine[v])
           num(v) == m[v] \div pool(v)
           few == Fewest(c, p)
           R == {Configs(c, p)[v].num_blocks : v \in W}
<1>1. ASSUME NEW v \in W
      PROVE  /\ m[v] \in Nat /\ pool(v) \in Nat \ {0} /\ FineGroups(p.mine[v])
             /\ Configs(c, p)[v].num_blocks = num(v) /\ num(v) \in Nat
             /\ Configs(c, p)[v].tensors = TensorsOf(c, p.mine[v], num(v))
  <2>1. FineGroups(p.mine[v]) /\ pool(v) > 0 /\ m[v] > 0
    BY DEF IsPlanFor
  <2>2. pool(v) \in Nat
    BY <2>1, PoolBytesType
  <2>3. m[v] \in Int
    BY MemoryType
  <2>4. m[v] \in Nat /\ pool(v) \in Nat \ {0}
    BY <2>1, <2>2, <2>3
  <2>5. num(v) \in Nat
    <3> HIDE DEF m, pool
    <3> QED BY <2>4, Quotient
  <2>6. p.mine[v] # <<>>
    BY <2>1 DEF FineGroups
  <2>7. Configs(c, p)[v] = [num_blocks |-> num(v), tensors |-> TensorsOf(c, p.mine[v], num(v))]
    BY <2>6 DEF Configs, ConfigFromGroups, NumBlocks
  <2> HIDE DEF m, pool, num
  <2> QED BY <2>1, <2>4, <2>5, <2>7
<1>2. few \in R /\ few \in Nat \ {0} /\ \A v \in W : few <= num(v)
  <2>1. few = Min(R) /\ few > 0
    BY DEF Fewest, IsPlanFor
  <2>2. R \in SUBSET Nat
    <3> HIDE DEF W, num, pool, m
    <3> QED BY <1>1
  <2>3. R # {}
    OBVIOUS
  <2>4. \A v \in W : num(v) \in R
    <3> HIDE DEF W, num, pool, m
    <3> QED BY <1>1
  <2> HIDE DEF R, num, few, W
  <2>5. Min(R) \in R /\ \A y \in R : Min(R) <= y
    BY <2>2, <2>3, MinIs
  <2>6. few \in R /\ \A v \in W : few <= num(v)
    BY <2>1, <2>4, <2>5
  <2>7. few \in Nat
    BY <2>2, <2>6
  <2> QED BY <2>1, <2>6, <2>7
<1>3. p.configs[w] = Shrunk(Configs(c, p)[w], few)
  BY DEF IsPlanFor
<1> DEFINE g == p.mine[w]
           n == num(w)
           b == pool(w)
           k == m[w]
<1>4. k \in Nat /\ b \in Nat \ {0} /\ FineGroups(g) /\ n \in Nat /\ few <= n
      /\ Configs(c, p)[w].num_blocks = n /\ Configs(c, p)[w].tensors = TensorsOf(c, g, n) /\ b = _pool_bytes_per_block(c, g)
  BY <1>1, <1>2
<1>5. n = k \div b
  OBVIOUS
<1>6. k = c.memory[w]
  BY MemoryType
<1> HIDE DEF g, n, b, k, num, pool, m, few, W, R
<1>7. n \in Nat \ {0}
  BY <1>2, <1>4
<1>8. p.configs[w].tensors = Cut(TensorsOf(c, g, n), n, few)
  BY <1>3, <1>4 DEF Shrunk, Cut
<1>9. AtMost(Allocated(Cut(TensorsOf(c, g, n), n, few)), b * few)
  <2>1. _pool_bytes_per_block(c, g) # 0
    BY <1>4
  <2> QED BY <1>2, <1>4, <1>7, <2>1, TensorsFit
<1>10. b * few <= k
  <2>1. n * b <= k
    BY <1>4, <1>5, Quotient
  <2>2. few \in Nat /\ few <= n /\ n \in Nat /\ b \in Nat
    BY <1>2, <1>4
  <2>3. b * few <= b * n
    BY <2>2, ProductGrows
  <2>4. b * n = n * b /\ b * n \in Nat /\ b * few \in Nat
    BY <2>2
  <2> DEFINE x == b * few
             y == b * n
             z == n * b
  <2>5. x <= y /\ y = z /\ z <= k /\ x \in Nat /\ y \in Nat
    BY <2>1, <2>3, <2>4
  <2> HIDE DEF x, y, z
  <2>6. x <= k
    BY <1>4, <2>5
  <2> QED BY <2>6 DEF x
<1> DEFINE a == Allocated(Cut(TensorsOf(c, g, n), n, few))
           x == b * few
<1>11. a \in Nat /\ a <= x /\ x <= k /\ x \in Nat /\ p.configs[w].tensors = Cut(TensorsOf(c, g, n), n, few)
  BY <1>2, <1>4, <1>8, <1>9, <1>10 DEF AtMost
<1> HIDE DEF x
<1>12. a <= k
  BY <1>4, <1>11
<1> QED BY <1>6, <1>11, <1>12

LEMMA ShrunkBlocks ==
    ASSUME NEW cfg, NEW n
    PROVE  Shrunk(cfg, n).num_blocks = n
<1> DEFINE t == [i \in DOMAIN cfg.tensors |-> [cfg.tensors[i] EXCEPT !.size = (@ \div cfg.num_blocks) * n]]
<1>1. Shrunk(cfg, n) = [num_blocks |-> n, tensors |-> t]
  BY DEF Shrunk
<1> HIDE DEF t
<1> QED BY <1>1

LEMMA BlocksType ==
    ASSUME NEW c \in Cases, NEW p, IsPlanFor(c, p), NEW w \in DOMAIN c.workers
    PROVE  Configs(c, p)[w].num_blocks \in Nat
<1> DEFINE g == p.mine[w]
           b == _pool_bytes_per_block(c, g)
           m == Memory(c, p)[w]
<1>1. FineGroups(g) /\ b > 0 /\ m > 0
  BY DEF IsPlanFor
<1>2. b \in Nat /\ m \in Int
  BY <1>1, PoolBytesType, MemoryType
<1>3. m \div b \in Nat
  <2>1. m \in Nat /\ b \in Nat \ {0}
    BY <1>1, <1>2
  <2> HIDE DEF m, b
  <2> QED BY <2>1, Quotient
<1>4. c.override \in Nat \cup {None}
  BY CaseParts
<1>5. Configs(c, p)[w].num_blocks = IF c.override # None THEN c.override ELSE m \div b
  BY <1>1 DEF Configs, ConfigFromGroups, NumBlocks, FineGroups
<1> QED BY <1>3, <1>4, <1>5

LEMMA FewestType ==
    ASSUME NEW c \in Cases, NEW p, IsPlanFor(c, p)
    PROVE  Fewest(c, p) \in Nat \ {0} /\ \A w \in DOMAIN c.workers : p.configs[w].num_blocks = Fewest(c, p)
<1> DEFINE W == DOMAIN c.workers
           R == {Configs(c, p)[w].num_blocks : w \in W}
<1>1. \A w \in W : Configs(c, p)[w].num_blocks \in Nat
  BY BlocksType
<1>2. R \in SUBSET Nat /\ R # {}
  <2>1. W # {}
    BY CaseParts
  <2> HIDE DEF W
  <2> QED BY <1>1, <2>1
<1>3. Fewest(c, p) = Min(R) /\ Fewest(c, p) > 0
  BY DEF Fewest, IsPlanFor
<1> HIDE DEF R
<1>4. Min(R) \in R
  BY <1>2, MinIs
<1>5. \A w \in W : p.configs[w] = Shrunk(Configs(c, p)[w], Fewest(c, p))
  BY DEF IsPlanFor
<1>6. \A w \in W : p.configs[w].num_blocks = Fewest(c, p)
  <2> HIDE DEF W
  <2> QED BY <1>5, ShrunkBlocks
<1>7. Fewest(c, p) \in Nat \ {0}
  <2> DEFINE few == Fewest(c, p)
  <2>1. few \in Nat /\ few > 0
    BY <1>2, <1>3, <1>4
  <2> HIDE DEF few
  <2>2. few \in Nat \ {0}
    BY <2>1
  <2> QED BY <2>2 DEF few
<1> QED BY <1>6, <1>7

LEMMA LengthType ==
    ASSUME NEW c \in Cases, NEW p, IsPlanFor(c, p)
    PROVE  p.max_len \in 1..c.max_len
<1> DEFINE W == DOMAIN c.workers
           m == Memory(c, p)
           o == c.max_len
           S == {EstimatedLen(p.mine[w], m[w], o) : w \in DOMAIN p.mine} \cup {o}
<1>1. o \in Nat \ {0}
  BY CaseParts
<1>2. DOMAIN p.mine = W /\ p.max_len > 0
  BY DEF IsPlanFor
<1>3. CASE ~c.auto_fit
  BY <1>1, <1>3 DEF IsPlanFor
<1>4. CASE c.auto_fit
  <2>1. ASSUME NEW w \in W
        PROVE  EstimatedLen(p.mine[w], m[w], o) \in Nat
    <3> DEFINE g == p.mine[w]
               mem == m[w]
    <3>1. FineGroups(g) /\ mem \in Int
      BY MemoryType DEF IsPlanFor
    <3> HIDE DEF g, mem
    <3>2. EstimatedLen(g, mem, o) \in Nat
      BY <1>1, <3>1, EstimatedLenIs
    <3> QED BY <3>2 DEF g, mem
  <2>2. p.max_len = Min(S)
    BY <1>4 DEF IsPlanFor, FittedLen
  <2>3. S \in SUBSET Nat
    <3> HIDE DEF W, m
    <3> QED BY <1>1, <1>2, <2>1
  <2>4. o \in S
    OBVIOUS
  <2> HIDE DEF S
  <2>5. Min(S) \in S /\ Min(S) <= o
    BY <2>3, <2>4, MinIs
  <2>6. p.max_len \in Nat /\ p.max_len <= o
    BY <2>2, <2>3, <2>5
  <2> QED BY <1>1, <1>2, <2>6
<1>5. c.auto_fit \in BOOLEAN
  BY CaseParts
<1> QED BY <1>3, <1>4, <1>5

(* A plan without groups, for workers without layers of their own. *)
LEMMA NoGroups ==
    ASSUME NEW c \in Cases, NEW p, p = get_kv_cache_configs(c), p.ok, p.groups = <<>>
    PROVE  p.max_len = c.max_len /\ \A w \in DOMAIN c.workers : p.configs[w].num_blocks = 1
<1> DEFINE W == DOMAIN c.workers
           groups == get_kv_cache_groups(c, MergedSpecs(c))
           mine == [w \in W |-> Projected(groups, c.workers[w])]
           memory == [w \in W |-> EffectiveMemory(c, mine[w], w)]
           len == IF c.auto_fit /\ groups # <<>> THEN FittedLen(c, mine, memory) ELSE c.max_len
           enough == \A w \in W : memory[w] > 0 /\ Fits(mine[w], memory[w], len)
           divides == \A w \in W : _pool_bytes_per_block(c, mine[w]) > 0
           configs == [w \in W |-> ConfigFromGroups(c, mine[w], memory[w])]
           R == {configs[w].num_blocks : w \in W}
           shrunk == [w \in W |-> Shrunk(configs[w], Min(R))]
           assigned == \A w \in W : Assigned(mine[w], c.workers[w])
           made == [ok |-> TRUE, max_len |-> len, groups |-> groups, mine |-> mine, configs |-> shrunk]
<1>1. p = IF ~Agreeing(c) \/ groups = None THEN Failed
          ELSE IF groups # <<>> /\ ~(divides /\ len > 0 /\ enough) THEN Failed
          ELSE IF ~(Min(R) > 0 /\ assigned) THEN Failed
          ELSE made
  BY DEF get_kv_cache_configs
<1>2. Failed.ok = FALSE
  BY DEF Failed
<1>3. made.max_len = len /\ made.groups = groups /\ made.configs = shrunk
  OBVIOUS
<1>4. mine = [w \in W |-> Projected(groups, c.workers[w])]
      /\ configs = [w \in W |-> ConfigFromGroups(c, mine[w], memory[w])]
      /\ shrunk = [w \in W |-> Shrunk(configs[w], Min(R))]
      /\ R = {configs[w].num_blocks : w \in W}
      /\ (groups = <<>> => len = c.max_len)
  OBVIOUS
<1>5. W # {}
  BY CaseParts
<1> HIDE DEF W, groups, mine, memory, len, enough, divides, configs, R, shrunk, assigned, made
<1>6. p = made
  BY <1>1, <1>2
<1>7. groups = <<>> /\ p.max_len = len /\ p.configs = shrunk
  BY <1>3, <1>6
<1>8. \A w \in W : mine[w] = <<>>
  BY <1>4, <1>7 DEF Projected
<1>9. \A w \in W : configs[w].num_blocks = 1
  BY <1>4, <1>8 DEF ConfigFromGroups
<1>10. R \in SUBSET Nat /\ R # {} /\ \A r \in R : r = 1
  BY <1>4, <1>5, <1>9
<1>11. Min(R) = 1
  BY <1>10, MinIs
<1>12. \A w \in W : p.configs[w].num_blocks = 1
  BY <1>4, <1>7, <1>11, ShrunkBlocks
<1> QED BY <1>4, <1>7, <1>12 DEF W

----------------------------------------------------------------------------
(* What a flattened list holds *)

(* Position f of s is position q[f] of the list p[f], one to one, for the   *)
(* first m lists.                                                           *)
Joins(s, seqs, m, p, q) ==
    /\ \A f \in 1..Len(s) : p[f] \in 1..m /\ q[f] \in 1..Len(seqs[p[f]]) /\ s[f] = seqs[p[f]][q[f]]
    /\ \A f, h \in 1..Len(s) : p[f] = p[h] /\ q[f] = q[h] => f = h
    /\ \A i \in 1..m : \A k \in 1..Len(seqs[i]) : \E f \in 1..Len(s) : p[f] = i /\ q[f] = k

LEMMA JoinOne ==
    ASSUME NEW T, NEW seqs, NEW m \in Nat, NEW s \in Seq(T), NEW p, NEW q, Joins(s, seqs, m, p, q),
           NEW t \in Seq(T), seqs[m + 1] = t
    PROVE  \E u, v : Joins(s \o t, seqs, m + 1, u, v)
<1> DEFINE a == Len(s)
           st == s \o t
           u == [f \in 1..Len(st) |-> IF f <= a THEN p[f] ELSE m + 1]
           v == [f \in 1..Len(st) |-> IF f <= a THEN q[f] ELSE f - a]
<1>1. /\ a \in Nat /\ Len(t) \in Nat /\ Len(st) = a + Len(t)
      /\ \A f \in 1..a : st[f] = s[f]
      /\ \A k \in 1..Len(t) : st[a + k] = t[k]
  BY ConcatProperties
<1> HIDE DEF st
<1>2. /\ \A f \in 1..a : f \in 1..Len(st) /\ u[f] = p[f] /\ v[f] = q[f]
      /\ \A k \in 1..Len(t) : a + k \in 1..Len(st) /\ u[a + k] = m + 1 /\ v[a + k] = k
  BY <1>1
<1>3. \A f \in 1..Len(st) : f \in 1..a \/ \E k \in 1..Len(t) : f = a + k
  <2> SUFFICES ASSUME NEW f \in 1..Len(st), f \notin 1..a PROVE \E k \in 1..Len(t) : f = a + k
    OBVIOUS
  <2>1. f - a \in 1..Len(t) /\ f = a + (f - a)
    BY <1>1
  <2> QED BY <2>1
<1> HIDE DEF a, u, v
<1>4. ASSUME NEW f \in 1..a
      PROVE  p[f] \in 1..m /\ q[f] \in 1..Len(seqs[p[f]]) /\ s[f] = seqs[p[f]][q[f]]
  BY DEF Joins, a
<1>5. ASSUME NEW f \in 1..Len(st)
      PROVE  u[f] \in 1..m+1 /\ v[f] \in 1..Len(seqs[u[f]]) /\ st[f] = seqs[u[f]][v[f]]
  <2>1. CASE f \in 1..a
    <3>1. u[f] = p[f] /\ v[f] = q[f] /\ st[f] = s[f]
      BY <1>1, <1>2, <2>1
    <3>2. u[f] \in 1..m+1
      BY <1>4, <2>1, <3>1
    <3> QED BY <1>4, <2>1, <3>1, <3>2
  <2>2. CASE f \notin 1..a
    <3>1. PICK k \in 1..Len(t) : f = a + k
      BY <1>3, <2>2
    <3>2. u[f] = m + 1 /\ v[f] = k /\ st[f] = t[k]
      BY <1>1, <1>2, <3>1
    <3> QED BY <3>2
  <2> QED BY <2>1, <2>2
<1>6. ASSUME NEW f \in 1..Len(st), NEW h \in 1..Len(st), u[f] = u[h], v[f] = v[h]
      PROVE  f = h
  <2>1. \A x \in 1..Len(st) : x \in 1..a => u[x] # m + 1
    <3> SUFFICES ASSUME NEW x \in 1..a PROVE u[x] # m + 1
      OBVIOUS
    <3>1. u[x] \in 1..m
      BY <1>2, <1>4
    <3> QED BY <3>1
  <2>2. \A x \in 1..Len(st) : x \notin 1..a => u[x] = m + 1 /\ x = a + v[x]
    BY <1>2, <1>3
  <2>3. CASE f \in 1..a /\ h \in 1..a
    BY <1>2, <1>6, <2>3 DEF Joins, a
  <2>4. CASE ~(f \in 1..a /\ h \in 1..a)
    <3>1. f \notin 1..a /\ h \notin 1..a
      BY <1>6, <2>1, <2>2, <2>4
    <3> QED BY <1>6, <2>2, <3>1
  <2> QED BY <2>3, <2>4
<1>7. ASSUME NEW i \in 1..m+1, NEW k \in 1..Len(seqs[i])
      PROVE  \E f \in 1..Len(st) : u[f] = i /\ v[f] = k
  <2>1. CASE i = m + 1
    BY <1>2, <2>1
  <2>2. CASE i # m + 1
    <3>1. i \in 1..m
      BY <2>2
    <3>2. PICK f \in 1..a : p[f] = i /\ q[f] = k
      BY <3>1 DEF Joins, a
    <3> QED BY <1>2, <3>2
  <2> QED BY <2>1, <2>2
<1>8. Joins(st, seqs, m + 1, u, v)
  BY <1>5, <1>6, <1>7 DEF Joins
<1> QED BY <1>8 DEF st

LEMMA Joined ==
    ASSUME NEW T, NEW seqs \in Seq(Seq(T))
    PROVE  \E p, q : Joins(FlattenSeq(seqs), seqs, Len(seqs), p, q)
<1> DEFINE n == Len(seqs)
<1>1. n \in Nat /\ \A i \in 1..n : seqs[i] \in Seq(T)
  OBVIOUS
<1>2. CASE n = 0
  <2>1. FlattenSeq(seqs) = seqs /\ Len(FlattenSeq(seqs)) = 0
    BY <1>2 DEF FlattenSeq
  <2> HIDE DEF n
  <2>2. Joins(FlattenSeq(seqs), seqs, n, 0, 0)
    BY <1>2, <2>1 DEF Joins
  <2> QED BY <2>2 DEF n
<1>3. CASE n # 0
  <2>1. PICK g : /\ FlattenSeq(seqs) = g[n] /\ g[1] = seqs[1]
                 /\ \A i \in 2..n : g[i] = g[i-1] \o seqs[i]
    BY <1>3, Flattens
  <2> DEFINE Good == {i \in 0..n : i # 0 => g[i] \in Seq(T) /\ \E p, q : Joins(g[i], seqs, i, p, q)}
  <2> HIDE DEF n
  <2>2. 0 \in Good
    BY <1>1
  <2>3. ASSUME NEW i \in 1..n, i - 1 \in Good PROVE i \in Good
    <3>1. CASE i = 1
      <4> DEFINE s == seqs[1]
                 p == [f \in 1..Len(s) |-> 1]
                 q == [f \in 1..Len(s) |-> f]
      <4>1. s \in Seq(T) /\ g[1] = s /\ s = seqs[1]
        BY <1>1, <2>1, <3>1
      <4>2. \A f \in 1..Len(s) : p[f] = 1 /\ q[f] = f
        OBVIOUS
      <4> HIDE DEF p, q, s
      <4>3. \A j \in 1..1 : j = 1
        OBVIOUS
      <4>4. Joins(s, seqs, 1, p, q)
        BY <4>1, <4>2, <4>3 DEF Joins
      <4>5. i \in 0..n
        BY <1>1
      <4> QED BY <3>1, <4>1, <4>4, <4>5
    <3>2. CASE i # 1
      <4> DEFINE m == i - 1
                 s == g[m]
                 t == seqs[i]
      <4>1. m \in Nat /\ i = m + 1 /\ i \in 2..n /\ i \in 0..n /\ m # 0
        BY <1>1, <3>2
      <4>2. s \in Seq(T) /\ t \in Seq(T) /\ g[i] = s \o t /\ seqs[m + 1] = t /\ \E p, q : Joins(s, seqs, m, p, q)
        BY <1>1, <2>1, <2>3, <4>1
      <4> HIDE DEF m, s, t, Good
      <4>3. \E u, v : Joins(s \o t, seqs, m + 1, u, v)
        BY <4>1, <4>2, JoinOne
      <4>4. s \o t \in Seq(T)
        BY <4>2, ConcatProperties
      <4> QED BY <4>1, <4>2, <4>3, <4>4 DEF Good
    <3> QED BY <3>1, <3>2
  <2>4. 0..n \subseteq Good
    <3> HIDE DEF Good
    <3> QED BY <1>1, <2>2, <2>3, BoundedInduction
  <2>5. n \in Good
    BY <1>1, <2>4
  <2> QED BY <1>3, <2>1, <2>5 DEF n
<1> QED BY <1>2, <1>3

----------------------------------------------------------------------------
(* Partial sums *)

LEMMA SumIs ==
    ASSUME NEW s \in Seq(Nat), NEW f, SumOf(f, s)
    PROVE  SumSeq(s) = f[Len(s)]
<1> DEFINE n == Len(s)
<1>1. PICK g : SumOf(g, s) /\ SumSeq(s) = g[n]
  BY Sums
<1>2. n \in Nat
  OBVIOUS
<1> DEFINE Good == {i \in 0..n : g[i] = f[i]}
<1>3. 0 \in Good
  BY <1>1, <1>2 DEF SumOf
<1>4. ASSUME NEW i \in 1..n, i - 1 \in Good PROVE i \in Good
  <2>1. g[i] = g[i-1] + s[i] /\ f[i] = f[i-1] + s[i]
    BY <1>1 DEF SumOf
  <2>2. g[i-1] = f[i-1] /\ i \in 0..n
    BY <1>2, <1>4
  <2> QED BY <2>1, <2>2
<1>5. 0..n \subseteq Good
  <2> HIDE DEF Good, n
  <2> QED BY <1>2, <1>3, <1>4, BoundedInduction
<1>6. n \in Good
  <2> HIDE DEF Good, n
  <2> QED BY <1>2, <1>5
<1> QED BY <1>1, <1>6

LEMMA SumOfConcat ==
    ASSUME NEW s \in Seq(Nat), NEW t \in Seq(Nat)
    PROVE  SumSeq(s \o t) = SumSeq(s) + SumSeq(t)
<1> DEFINE a == Len(s)
           b == Len(t)
           st == s \o t
<1>1. PICK g : SumOf(g, s) /\ SumSeq(s) = g[a]
  BY Sums
<1>2. PICK h : SumOf(h, t) /\ SumSeq(t) = h[b]
  BY Sums
<1>3. /\ a \in Nat /\ b \in Nat /\ st \in Seq(Nat) /\ Len(st) = a + b
      /\ \A i \in 1..a : st[i] = s[i]
      /\ \A i \in 1..b : st[a + i] = t[i] /\ t[i] \in Nat
  BY ConcatProperties
<1> DEFINE f == [i \in 0..a+b |-> IF i <= a THEN g[i] ELSE g[a] + h[i - a]]
<1>4. /\ g[0] = 0 /\ h[0] = 0
      /\ \A i \in 0..a : g[i] \in Nat
      /\ \A i \in 0..b : h[i] \in Nat
      /\ \A i \in 1..a : g[i] = g[i-1] + s[i]
      /\ \A i \in 1..b : h[i] = h[i-1] + t[i]
  BY <1>1, <1>2 DEF SumOf
<1> HIDE DEF a, b, st
<1>5. /\ \A i \in 0..a : f[i] = g[i]
      /\ \A i \in 0..b : f[a + i] = g[a] + h[i]
  <2>1. \A i \in 0..a : f[i] = g[i]
    BY <1>3
  <2>2. ASSUME NEW i \in 0..b PROVE f[a + i] = g[a] + h[i]
    <3>1. CASE i = 0
      <4>1. a + i = a /\ a \in 0..a
        BY <1>3, <3>1
      <4>2. f[a] = g[a] /\ g[a] \in Nat
        BY <1>4, <2>1, <4>1
      <4> QED BY <1>4, <3>1, <4>1, <4>2
    <3>2. CASE i # 0
      <4>1. a + i \in 0..a+b /\ ~(a + i <= a) /\ (a + i) - a = i
        BY <1>3, <3>2
      <4> QED BY <4>1
    <3> QED BY <3>1, <3>2
  <2> QED BY <2>1, <2>2
<1>6. DOMAIN f = 0..a+b /\ f = [i \in 0..a+b |-> f[i]]
  OBVIOUS
<1> HIDE DEF f
<1>7. \A i \in 0..a+b : i \in 0..a \/ \E j \in 1..b : i = a + j
  <2> SUFFICES ASSUME NEW i \in 0..a+b, i \notin 0..a PROVE \E j \in 1..b : i = a + j
    OBVIOUS
  <2>1. i - a \in 1..b /\ i = a + (i - a)
    BY <1>3
  <2> QED BY <2>1
<1>8. ASSUME NEW i \in 0..a+b PROVE f[i] \in Nat
  <2>1. CASE i \in 0..a
    BY <1>4, <1>5, <2>1
  <2>2. CASE i \notin 0..a
    <3>1. PICK j \in 1..b : i = a + j
      BY <1>7, <2>2
    <3>2. j \in 0..b /\ a \in 0..a
      BY <1>3
    <3>3. f[i] = g[a] + h[j] /\ g[a] \in Nat /\ h[j] \in Nat
      BY <1>4, <1>5, <3>1, <3>2
    <3> QED BY <3>3
  <2> QED BY <2>1, <2>2
<1>9. ASSUME NEW i \in 1..a+b PROVE f[i] = f[i-1] + st[i]
  <2>1. CASE i \in 1..a
    <3>1. i \in 0..a /\ i - 1 \in 0..a
      BY <1>3, <2>1
    <3> QED BY <1>3, <1>4, <1>5, <2>1, <3>1
  <2>2. CASE i \notin 1..a
    <3>1. PICK j \in 1..b : i = a + j
      BY <1>3, <1>7, <2>2
    <3>2. j \in 0..b /\ j - 1 \in 0..b /\ i - 1 = a + (j - 1)
      BY <1>3, <3>1
    <3>3. f[i] = g[a] + h[j] /\ f[i-1] = g[a] + h[j-1] /\ h[j] = h[j-1] + t[j] /\ st[i] = t[j]
      BY <1>3, <1>4, <1>5, <3>1, <3>2
    <3>4. g[a] \in Nat /\ h[j-1] \in Nat /\ t[j] \in Nat
      <4>1. a \in 0..a
        BY <1>3
      <4> QED BY <1>3, <1>4, <3>2, <4>1
    <3> QED BY <3>3, <3>4
  <2> QED BY <2>1, <2>2
<1>10. SumOf(f, st)
  <2>1. f \in [0..a+b -> Nat]
    BY <1>6, <1>8
  <2>2. f[0] = 0
    BY <1>3, <1>4, <1>5
  <2> QED BY <1>3, <1>9, <2>1, <2>2 DEF SumOf
<1>11. SumSeq(st) = f[a + b]
  BY <1>3, <1>10, SumIs
<1>12. b \in 0..b
  BY <1>3
<1>13. f[a + b] = g[a] + h[b]
  BY <1>5, <1>12
<1> QED BY <1>1, <1>2, <1>11, <1>13 DEF st

(* The sum of what comes before position i. *)
Before(s, i) == SumSeq([j \in 1..i-1 |-> s[j]])

LEMMA BeforeGrows ==
    ASSUME NEW s \in Seq(Nat), NEW i \in 1..Len(s)
    PROVE  /\ Before(s, i) \in Nat /\ Before(s, i) + s[i] <= SumSeq(s)
           /\ \A j \in 1..Len(s) : i < j => Before(s, j) \in Nat /\ Before(s, i) + s[i] <= Before(s, j)
<1> DEFINE n == Len(s)
<1>1. PICK g : SumOf(g, s) /\ SumSeq(s) = g[n]
  BY Sums
<1>2. n \in Nat /\ i \in Nat \ {0} /\ i <= n /\ \A k \in 1..n : s[k] \in Nat
  OBVIOUS
<1>3. (\A k \in 0..n : g[k] \in Nat) /\ g[0] = 0 /\ \A k \in 1..n : g[k] = g[k-1] + s[k]
  BY <1>1 DEF SumOf
<1>4. ASSUME NEW k \in 1..n PROVE Before(s, k) = g[k-1]
  <2> DEFINE m == k - 1
             t == [j \in 1..m |-> s[j]]
             f == [j \in 0..m |-> g[j]]
  <2>1. m \in Nat /\ m <= n
    BY <1>2
  <2> HIDE DEF n, m
  <2>2. t \in [1..m -> Nat]
    BY <1>2, <2>1
  <2>3. t \in Seq(Nat) /\ Len(t) = m
    <3> HIDE DEF t
    <3> QED BY <2>1, <2>2, FunctionIsSeq
  <2>4. SumOf(f, t)
    <3>0. \A j \in 0..m : j \in 0..n
      BY <1>2, <2>1
    <3>1. f \in [0..m -> Nat] /\ f[0] = 0
      <4>1. \A j \in 0..m : g[j] \in Nat
        BY <1>3, <3>0
      <4>2. 0 \in 0..m
        BY <2>1
      <4> QED BY <1>3, <4>1, <4>2
    <3>2. ASSUME NEW j \in 1..m PROVE f[j] = f[j-1] + t[j]
      <4>1. j \in 0..m /\ j - 1 \in 0..m /\ j \in 1..n
        BY <1>2, <2>1
      <4>2. f[j] = g[j] /\ f[j-1] = g[j-1] /\ t[j] = s[j]
        BY <4>1
      <4> QED BY <1>3, <4>1, <4>2
    <3> HIDE DEF f, t
    <3> QED BY <2>3, <3>1, <3>2 DEF SumOf
  <2>5. f[m] = g[m]
    BY <2>1
  <2>6. Before(s, k) = SumSeq(t)
    BY DEF Before, m
  <2> HIDE DEF f, t
  <2>7. SumSeq(t) = f[m]
    BY <2>3, <2>4, SumIs
  <2> QED BY <2>5, <2>6, <2>7 DEF m
<1> DEFINE Good == {k \in 0..n : i <= k => g[i] <= g[k]}
<1>5. 0..n \subseteq Good
  <2>1. 0 \in Good
    BY <1>2
  <2>2. ASSUME NEW k \in 1..n, k - 1 \in Good PROVE k \in Good
    <3>1. k \in 0..n /\ k - 1 \in 0..n /\ i \in 0..n
      BY <1>2
    <3>2. g[k] = g[k-1] + s[k] /\ g[k-1] \in Nat /\ s[k] \in Nat /\ g[k] \in Nat /\ g[i] \in Nat
      BY <1>2, <1>3, <3>1
    <3>3. CASE i = k
      BY <3>1, <3>2, <3>3
    <3>4. CASE i # k
      <4>1. i <= k => g[i] <= g[k-1]
        BY <1>2, <2>2, <3>4
      <4> QED BY <3>1, <3>2, <4>1
    <3> QED BY <3>3, <3>4
  <2> HIDE DEF Good, n
  <2> QED BY <1>2, <2>1, <2>2, BoundedInduction
<1> HIDE DEF n
<1>6. i \in 1..n /\ n \in 0..n /\ i - 1 \in 0..n
  BY <1>2
<1>7. Before(s, i) \in Nat /\ Before(s, i) + s[i] = g[i]
  BY <1>3, <1>4, <1>6
<1>8. g[i] <= SumSeq(s)
  BY <1>1, <1>2, <1>5, <1>6
<1>9. ASSUME NEW j \in 1..n, i < j PROVE Before(s, j) \in Nat /\ g[i] <= Before(s, j)
  <2>1. j - 1 \in 0..n /\ i <= j - 1
    BY <1>2, <1>9
  <2>2. Before(s, j) = g[j-1]
    BY <1>4
  <2> QED BY <1>3, <1>5, <2>1, <2>2
<1> QED BY <1>7, <1>8, <1>9 DEF n

(* The pages of slots, and of slots put together. *)
PagesOf(s) == [i \in 1..Len(s) |-> s[i].ps]

LEMMA PagesOfType ==
    ASSUME NEW T, \A x \in T : x.ps \in Nat, NEW s \in Seq(T)
    PROVE  PagesOf(s) \in Seq(Nat) /\ Len(PagesOf(s)) = Len(s) /\ \A i \in 1..Len(s) : PagesOf(s)[i] = s[i].ps
<1> DEFINE n == Len(s)
           f == [i \in 1..n |-> s[i].ps]
<1>1. n \in Nat /\ \A i \in 1..n : s[i] \in T
  OBVIOUS
<1> HIDE DEF n
<1>2. f \in [1..n -> Nat]
  BY <1>1
<1>3. PagesOf(s) = f /\ \A i \in 1..n : f[i] = s[i].ps
  BY DEF PagesOf, n
<1> HIDE DEF f
<1>4. f \in Seq(Nat) /\ Len(f) = n
  BY <1>1, <1>2, FunctionIsSeq
<1> QED BY <1>3, <1>4 DEF n

LEMMA PagesOfConcat ==
    ASSUME NEW T, \A x \in T : x.ps \in Nat, NEW s \in Seq(T), NEW t \in Seq(T)
    PROVE  PagesOf(s \o t) = PagesOf(s) \o PagesOf(t)
<1> DEFINE st == s \o t
           u == PagesOf(st)
           v == PagesOf(s)
           w == PagesOf(t)
<1>1. /\ Len(s) \in Nat /\ Len(t) \in Nat /\ st \in Seq(T) /\ Len(st) = Len(s) + Len(t)
      /\ \A i \in 1..Len(st) : st[i] = IF i <= Len(s) THEN s[i] ELSE t[i - Len(s)]
  BY ConcatProperties
<1> HIDE DEF st
<1>2. v \in Seq(Nat) /\ Len(v) = Len(s) /\ \A i \in 1..Len(s) : v[i] = s[i].ps
  BY PagesOfType
<1>3. w \in Seq(Nat) /\ Len(w) = Len(t) /\ \A i \in 1..Len(t) : w[i] = t[i].ps
  BY PagesOfType
<1>4. u \in Seq(Nat) /\ Len(u) = Len(st) /\ \A i \in 1..Len(st) : u[i] = st[i].ps
  BY <1>1, PagesOfType
<1> HIDE DEF u, v, w
<1>5. /\ v \o w \in Seq(Nat) /\ Len(v \o w) = Len(v) + Len(w)
      /\ \A i \in 1..Len(v)+Len(w) : (v \o w)[i] = IF i <= Len(v) THEN v[i] ELSE w[i - Len(v)]
  BY <1>2, <1>3, ConcatProperties
<1>6. ASSUME NEW i \in 1..Len(st) PROVE u[i] = (v \o w)[i]
  <2>1. CASE i <= Len(s)
    <3>1. i \in 1..Len(s)
      BY <1>1, <2>1
    <3>2. u[i] = s[i].ps /\ (v \o w)[i] = v[i]
      BY <1>1, <1>2, <1>3, <1>4, <1>5, <2>1
    <3> QED BY <1>2, <3>1, <3>2
  <2>2. CASE ~(i <= Len(s))
    <3>1. i - Len(s) \in 1..Len(t)
      BY <1>1, <2>2
    <3>2. u[i] = t[i - Len(s)].ps /\ (v \o w)[i] = w[i - Len(s)]
      BY <1>1, <1>2, <1>3, <1>4, <1>5, <2>2
    <3> QED BY <1>3, <3>1, <3>2
  <2> QED BY <2>1, <2>2
<1> DEFINE x == v \o w
<1>7. x \in Seq(Nat) /\ Len(x) = Len(u) /\ \A i \in 1..Len(u) : u[i] = x[i]
  BY <1>1, <1>2, <1>3, <1>4, <1>5, <1>6
<1> HIDE DEF x
<1>8. u = x
  BY <1>4, <1>7, SeqEqual
<1> QED BY <1>8 DEF u, v, w, x, st

LEMMA PagesOfFlattened ==
    ASSUME NEW T, \A x \in T : x.ps \in Nat, NEW seqs \in Seq(Seq(T)),
           NEW sums \in Seq(Nat), Len(sums) = Len(seqs), \A i \in 1..Len(seqs) : sums[i] = SumSeq(PagesOf(seqs[i]))
    PROVE  SumSeq(PagesOf(FlattenSeq(seqs))) = SumSeq(sums)
<1> DEFINE n == Len(seqs)
<1>1. n \in Nat /\ \A i \in 1..n : seqs[i] \in Seq(T)
  OBVIOUS
<1>2. PICK h : SumOf(h, sums) /\ SumSeq(sums) = h[n]
  BY Sums
<1>3. h[0] = 0 /\ \A i \in 1..n : h[i] = h[i-1] + sums[i]
  BY <1>2 DEF SumOf
<1>4. CASE n = 0
  <2>1. FlattenSeq(seqs) = seqs
    BY <1>4 DEF FlattenSeq
  <2>2. seqs \in Seq(T) /\ Len(seqs) = 0
    <3>1. seqs = <<>>
      BY <1>4
    <3> QED BY <1>4, <3>1
  <2> DEFINE u == PagesOf(seqs)
  <2>3. u \in Seq(Nat) /\ Len(u) = 0
    BY <2>2, PagesOfType
  <2> HIDE DEF u
  <2>4. PICK f : SumOf(f, u) /\ SumSeq(u) = f[Len(u)]
    BY <2>3, Sums
  <2>5. SumSeq(u) = 0
    BY <2>3, <2>4 DEF SumOf
  <2> QED BY <1>2, <1>3, <1>4, <2>1, <2>5 DEF u
<1>5. CASE n # 0
  <2>1. PICK g : /\ FlattenSeq(seqs) = g[n] /\ g[1] = seqs[1]
                 /\ \A i \in 2..n : g[i] = g[i-1] \o seqs[i]
    BY <1>5, Flattens
  <2>2. \A i \in 1..n : sums[i] = SumSeq(PagesOf(seqs[i])) /\ sums[i] \in Nat
    OBVIOUS
  <2> DEFINE Good == {i \in 0..n : i # 0 => g[i] \in Seq(T) /\ SumSeq(PagesOf(g[i])) = h[i]}
  <2> HIDE DEF n
  <2>3. 0 \in Good
    BY <1>1
  <2>4. ASSUME NEW i \in 1..n, i - 1 \in Good PROVE i \in Good
    <3>1. CASE i = 1
      <4>1. h[1] = h[0] + sums[1] /\ sums[1] \in Nat /\ 1 \in 1..n /\ i \in 0..n
        BY <1>1, <1>3, <2>2, <3>1
      <4>2. SumSeq(PagesOf(g[1])) = h[1]
        BY <1>3, <2>1, <2>2, <4>1
      <4> QED BY <1>1, <2>1, <3>1, <4>1, <4>2
    <3>2. CASE i # 1
      <4> DEFINE s == g[i-1]
                 t == seqs[i]
                 v == PagesOf(s)
                 w == PagesOf(t)
      <4>1. i \in 2..n /\ i \in 0..n /\ i - 1 # 0 /\ i \in Nat
        BY <1>1, <3>2
      <4>2. s \in Seq(T) /\ t \in Seq(T) /\ g[i] = s \o t /\ SumSeq(v) = h[i-1] /\ SumSeq(w) = sums[i]
        BY <1>1, <2>1, <2>2, <2>4, <4>1
      <4> HIDE DEF s, t, Good
      <4>3. v \in Seq(Nat) /\ w \in Seq(Nat)
        BY <4>2, PagesOfType
      <4>4. PagesOf(s \o t) = v \o w
        BY <4>2, PagesOfConcat
      <4> HIDE DEF v, w
      <4>5. SumSeq(v \o w) = SumSeq(v) + SumSeq(w)
        BY <4>3, SumOfConcat
      <4>6. SumSeq(PagesOf(g[i])) = h[i]
        BY <1>3, <4>2, <4>4, <4>5
      <4>7. g[i] \in Seq(T)
        BY <4>2, ConcatProperties
      <4> QED BY <4>1, <4>6, <4>7 DEF Good
    <3> QED BY <3>1, <3>2
  <2>5. 0..n \subseteq Good
    <3> HIDE DEF Good
    <3> QED BY <1>1, <2>3, <2>4, BoundedInduction
  <2>6. n \in Good
    BY <1>1, <2>5
  <2> QED BY <1>2, <1>5, <2>1, <2>6 DEF n
<1> QED BY <1>4, <1>5

----------------------------------------------------------------------------
(* Lists without a common name *)

(* x is at position k of s, and at position k of the i-th of the lists. *)
In(s, k, x) == k \in 1..Len(s) /\ s[k] = x
At(lists, i, k, x) == i \in 1..Len(lists) /\ In(lists[i], k, x)

(* No name is twice in the lists, and none of s in t. *)
Apart(lists) == \A i, j, k, l, x : At(lists, i, k, x) /\ At(lists, j, l, x) => i = j /\ k = l
Disjoint(s, t) == \A i, j, k, l, x : ~(At(s, i, k, x) /\ At(t, j, l, x))

LEMMA ApartParts ==
    ASSUME NEW lists, NEW parts, NEW p, NEW q, Joins(lists, parts, Len(parts), p, q),
           \A a \in 1..Len(parts) : Apart(parts[a]),
           \A a, b \in 1..Len(parts) : a # b => Disjoint(parts[a], parts[b])
    PROVE  Apart(lists)
<1>1. ASSUME NEW i, NEW k, NEW x, At(lists, i, k, x)
      PROVE  i \in 1..Len(lists) /\ p[i] \in 1..Len(parts) /\ At(parts[p[i]], q[i], k, x)
  BY <1>1 DEF Joins, At
<1>2. ASSUME NEW i, NEW j, NEW k, NEW l, NEW x, At(lists, i, k, x), At(lists, j, l, x)
      PROVE  i = j /\ k = l
  <2>1. /\ i \in 1..Len(lists) /\ p[i] \in 1..Len(parts) /\ At(parts[p[i]], q[i], k, x)
        /\ j \in 1..Len(lists) /\ p[j] \in 1..Len(parts) /\ At(parts[p[j]], q[j], l, x)
    BY <1>1, <1>2
  <2>2. p[i] = p[j]
    BY <2>1 DEF Disjoint
  <2>3. q[i] = q[j] /\ k = l
    BY <2>1, <2>2 DEF Apart
  <2>4. i = j
    BY <2>1, <2>2, <2>3 DEF Joins
  <2> QED BY <2>3, <2>4
<1> QED BY <1>2 DEF Apart

LEMMA ApartFlat ==
    ASSUME NEW s, NEW lists, NEW p, NEW q, Joins(s, lists, Len(lists), p, q), Apart(lists)
    PROVE  Distinct(s)
<1>1. ASSUME NEW f \in 1..Len(s) PROVE At(lists, p[f], q[f], s[f])
  BY DEF Joins, At, In
<1>2. ASSUME NEW f \in 1..Len(s), NEW h \in 1..Len(s), s[f] = s[h] PROVE f = h
  <2>1. At(lists, p[f], q[f], s[f]) /\ At(lists, p[h], q[h], s[f])
    BY <1>1, <1>2
  <2>2. p[f] = p[h] /\ q[f] = q[h]
    BY <2>1 DEF Apart
  <2> QED BY <2>2 DEF Joins
<1> QED BY <1>2 DEF Distinct

LEMMA ApartJoined ==
    ASSUME NEW T, NEW s \in Seq(T), NEW t \in Seq(T), Apart(s), Apart(t), Disjoint(s, t)
    PROVE  Apart(s \o t)
<1> DEFINE st == s \o t
<1>1. /\ Len(s) \in Nat /\ Len(t) \in Nat /\ Len(st) = Len(s) + Len(t)
      /\ \A i \in 1..Len(st) : st[i] = IF i <= Len(s) THEN s[i] ELSE t[i - Len(s)]
  BY ConcatProperties
<1> HIDE DEF st
<1>2. ASSUME NEW i, NEW k, NEW x, At(st, i, k, x)
      PROVE  i \in Int /\ ((i <= Len(s) /\ At(s, i, k, x)) \/ (~(i <= Len(s)) /\ At(t, i - Len(s), k, x)))
  <2>1. i \in 1..Len(st) /\ In(st[i], k, x)
    BY <1>2 DEF At
  <2>2. CASE i <= Len(s)
    <3>1. i \in 1..Len(s) /\ st[i] = s[i]
      BY <1>1, <2>1, <2>2
    <3> QED BY <2>1, <2>2, <3>1 DEF At
  <2>3. CASE ~(i <= Len(s))
    <3>1. i - Len(s) \in 1..Len(t) /\ st[i] = t[i - Len(s)]
      BY <1>1, <2>1, <2>3
    <3> QED BY <2>1, <2>3, <3>1 DEF At
  <2> QED BY <2>2, <2>3
<1>3. ASSUME NEW i, NEW j, NEW k, NEW l, NEW x, At(st, i, k, x), At(st, j, l, x)
      PROVE  i = j /\ k = l
  <2>1. /\ i \in Int /\ ((i <= Len(s) /\ At(s, i, k, x)) \/ (~(i <= Len(s)) /\ At(t, i - Len(s), k, x)))
        /\ j \in Int /\ ((j <= Len(s) /\ At(s, j, l, x)) \/ (~(j <= Len(s)) /\ At(t, j - Len(s), l, x)))
    BY <1>2, <1>3
  <2>2. CASE i <= Len(s) /\ j <= Len(s)
    BY <2>1, <2>2 DEF Apart
  <2>3. CASE ~(i <= Len(s)) /\ ~(j <= Len(s))
    <3>1. i - Len(s) = j - Len(s) /\ k = l
      BY <2>1, <2>3 DEF Apart
    <3> QED BY <1>1, <2>1, <3>1
  <2> QED BY <2>1, <2>2, <2>3 DEF Disjoint
<1>4. Apart(st)
  BY <1>3 DEF Apart
<1> QED BY <1>4 DEF st

----------------------------------------------------------------------------
(* Every n-th element *)

NthIndex(i, k, n) == i + (k - 1) * n

LEMMA NthIndexUnique ==
    ASSUME NEW n \in Nat \ {0}, NEW i \in 1..n, NEW j \in 1..n, NEW k \in Nat \ {0}, NEW l \in Nat \ {0},
           NthIndex(i, k, n) = NthIndex(j, l, n)
    PROVE  i = j /\ k = l
<1>1. ASSUME NEW a \in 1..n, NEW b \in 1..n, NEW x \in Nat \ {0}, NEW y \in Nat \ {0}, x < y
      PROVE  NthIndex(a, x, n) < NthIndex(b, y, n)
  <2> DEFINE u == x - 1
             v == y - 1
  <2>1. u \in Nat /\ v \in Nat /\ u + 1 <= v
    BY <1>1
  <2> HIDE DEF u, v
  <2>2. u * n \in Nat /\ v * n \in Nat /\ (u + 1) * n = u * n + n /\ (u + 1) * n <= v * n
    BY <2>1
  <2> DEFINE r == u * n
             s == v * n
             t == (u + 1) * n
  <2>3. r \in Nat /\ s \in Nat /\ t = r + n /\ t <= s
    BY <2>2
  <2> HIDE DEF r, s, t
  <2>4. a + r < b + s
    BY <2>3
  <2> QED BY <2>4 DEF NthIndex, r, s, u, v
<1>2. k = l
  <2>1. ~(k < l) /\ ~(l < k)
    <3>1. NthIndex(i, k, n) \in Int /\ NthIndex(j, l, n) \in Int
      BY DEF NthIndex
    <3> DEFINE x == NthIndex(i, k, n)
    <3>2. x \in Int /\ (k < l => x < x) /\ (l < k => x < x)
      BY <1>1, <3>1
    <3> HIDE DEF x
    <3> QED BY <3>2
  <2> QED BY <2>1
<1>3. i = j
  <2> DEFINE r == (k - 1) * n
  <2>1. r \in Int
    OBVIOUS
  <2>2. i + r = j + r
    BY <1>2 DEF NthIndex
  <2> HIDE DEF r
  <2> QED BY <2>1, <2>2
<1> QED BY <1>2, <1>3

LEMMA EveryNthIs ==
    ASSUME NEW T, NEW s \in Seq(T), NEW n \in Nat \ {0}, n <= Len(s), NEW i \in 1..n
    PROVE  /\ EveryNth(s, i, n) \in Seq(T)
           /\ \A k \in 1..Len(EveryNth(s, i, n)) : /\ k \in Nat \ {0} /\ NthIndex(i, k, n) \in 1..Len(s)
                                                   /\ EveryNth(s, i, n)[k] = s[NthIndex(i, k, n)]
<1> DEFINE a == Len(s) - i + 1
           m == cdiv(a, n)
           f == [k \in 1..m |-> s[NthIndex(i, k, n)]]
<1>1. Len(s) \in Nat /\ i \in Nat \ {0} /\ a \in Nat \ {0}
  OBVIOUS
<1>2. m \in Nat /\ \A k \in 1..m : (k - 1) * n < a
  <2> HIDE DEF a
  <2> QED BY <1>1, RoundedUp
<1>3. EveryNth(s, i, n) = f
  BY DEF EveryNth, NthIndex
<1>4. \A k \in 1..m : NthIndex(i, k, n) \in 1..Len(s)
  <2> SUFFICES ASSUME NEW k \in 1..m PROVE NthIndex(i, k, n) \in 1..Len(s)
    OBVIOUS
  <2> DEFINE x == (k - 1) * n
  <2> HIDE DEF m
  <2>1. x \in Nat /\ x < a
    BY <1>2
  <2> HIDE DEF x
  <2>2. i + x \in 1..Len(s)
    BY <1>1, <2>1
  <2> QED BY <2>2 DEF x, NthIndex
<1> HIDE DEF m
<1>5. f \in [1..m -> T]
  <2>1. \A k \in 1..m : s[NthIndex(i, k, n)] \in T
    BY <1>4
  <2> QED BY <2>1
<1>6. \A k \in 1..m : f[k] = s[NthIndex(i, k, n)]
  OBVIOUS
<1> HIDE DEF f
<1>7. f \in Seq(T) /\ Len(f) = m
  BY <1>2, <1>5, FunctionIsSeq
<1> QED BY <1>2, <1>3, <1>4, <1>6, <1>7

(* Taking every n-th from each start splits a list without losing order. *)
LEMMA NthApart ==
    ASSUME NEW D, NEW names \in Seq(D), Distinct(names), NEW n \in Nat \ {0}, n <= Len(names),
           NEW s, Len(s) = n, \A i \in 1..n : s[i] = EveryNth(names, i, n)
    PROVE  /\ Apart(s)
           /\ \A i, k, x : At(s, i, k, x) => \E f : In(names, f, x)
<1>1. ASSUME NEW i, NEW k, NEW x, At(s, i, k, x)
      PROVE  i \in 1..n /\ k \in Nat \ {0} /\ In(names, NthIndex(i, k, n), x)
  <2>1. i \in 1..n /\ s[i] = EveryNth(names, i, n) /\ In(s[i], k, x)
    BY <1>1 DEF At
  <2>2. \A h \in 1..Len(EveryNth(names, i, n)) : /\ h \in Nat \ {0} /\ NthIndex(i, h, n) \in 1..Len(names)
                                                 /\ EveryNth(names, i, n)[h] = names[NthIndex(i, h, n)]
    BY <2>1, EveryNthIs
  <2> QED BY <2>1, <2>2 DEF In
<1>2. ASSUME NEW i, NEW j, NEW k, NEW l, NEW x, At(s, i, k, x), At(s, j, l, x)
      PROVE  i = j /\ k = l
  <2>1. /\ i \in 1..n /\ k \in Nat \ {0} /\ In(names, NthIndex(i, k, n), x)
        /\ j \in 1..n /\ l \in Nat \ {0} /\ In(names, NthIndex(j, l, n), x)
    BY <1>1, <1>2
  <2>2. NthIndex(i, k, n) = NthIndex(j, l, n)
    BY <2>1 DEF Distinct, In
  <2> QED BY <2>1, <2>2, NthIndexUnique
<1>3. Apart(s)
  BY <1>2 DEF Apart
<1> QED BY <1>1, <1>3

LEMMA SplitApart ==
    ASSUME NEW D, NEW names \in NonEmpty(D), Distinct(names), NEW size \in Nat \ {0}
    PROVE  /\ Apart(SplitGroups(names, size))
           /\ \A i, k, x : At(SplitGroups(names, size), i, k, x) => \E f : In(names, f, x)
<1> DEFINE n == cdiv(Len(names), size)
           s == SplitGroups(names, size)
<1>1. names \in Seq(D) /\ Len(names) \in Nat \ {0}
  BY DEF NonEmpty
<1>2. n \in Nat \ {0} /\ n <= Len(names)
  BY <1>1, RoundedUp
<1>3. s = [i \in 1..n |-> EveryNth(names, i, n)]
  BY DEF SplitGroups
<1> HIDE DEF n, s
<1>4. Len(s) = n /\ \A i \in 1..n : s[i] = EveryNth(names, i, n)
  BY <1>2, <1>3
<1>5. Apart(s) /\ \A i, k, x : At(s, i, k, x) => \E f : In(names, f, x)
  BY <1>1, <1>2, <1>4, NthApart
<1> QED BY <1>5 DEF s

(* The lists may be flattened after that. *)
LEMMA NthListsApart ==
    ASSUME NEW D, NEW lists \in Seq(Seq(D)), Apart(lists), NEW n \in Nat \ {0}, n <= Len(lists),
           NEW flats, Len(flats) = n, \A i \in 1..n : flats[i] = FlattenSeq(EveryNth(lists, i, n))
    PROVE  /\ Apart(flats)
           /\ \A i, f, x : At(flats, i, f, x) => \E a, b : At(lists, a, b, x)
<1> DEFINE T == Seq(D)
           u(i) == EveryNth(lists, i, n)
<1>1. ASSUME NEW i \in 1..n
      PROVE  /\ u(i) \in Seq(T)
             /\ \A k \in 1..Len(u(i)) : k \in Nat \ {0} /\ NthIndex(i, k, n) \in 1..Len(lists) /\ u(i)[k] = lists[NthIndex(i, k, n)]
  <2> HIDE DEF T
  <2>1. lists \in Seq(T)
    BY DEF T
  <2> QED BY <2>1, EveryNthIs
<1>2. ASSUME NEW i \in 1..n PROVE \E p, q : Joins(flats[i], u(i), Len(u(i)), p, q)
  <2>1. u(i) \in Seq(Seq(D)) /\ flats[i] = FlattenSeq(u(i))
    BY <1>1
  <2> HIDE DEF u
  <2> QED BY <2>1, Joined
<1> HIDE DEF u
<1>3. ASSUME NEW i \in 1..n, NEW k, NEW l, NEW x, At(u(i), k, l, x)
      PROVE  k \in Nat \ {0} /\ At(lists, NthIndex(i, k, n), l, x)
  BY <1>1, <1>3 DEF At
<1>4. ASSUME NEW i \in 1..n PROVE Apart(u(i)) /\ Distinct(flats[i])
  <2>1. ASSUME NEW a, NEW b, NEW k, NEW l, NEW x, At(u(i), a, k, x), At(u(i), b, l, x)
        PROVE  a = b /\ k = l
    <3>1. /\ a \in Nat \ {0} /\ At(lists, NthIndex(i, a, n), k, x)
          /\ b \in Nat \ {0} /\ At(lists, NthIndex(i, b, n), l, x)
      BY <1>3, <2>1
    <3>2. NthIndex(i, a, n) = NthIndex(i, b, n) /\ k = l
      BY <3>1 DEF Apart
    <3> QED BY <3>1, <3>2, NthIndexUnique
  <2>2. Apart(u(i))
    BY <2>1 DEF Apart
  <2> QED BY <1>2, <2>2, ApartFlat
<1>5. ASSUME NEW i, NEW f, NEW x, At(flats, i, f, x)
      PROVE  /\ i \in 1..n /\ In(flats[i], f, x)
             /\ \E a \in Nat \ {0} : \E b : At(lists, NthIndex(i, a, n), b, x)
  <2>1. i \in 1..n /\ In(flats[i], f, x)
    BY <1>5 DEF At
  <2>2. PICK p, q : Joins(flats[i], u(i), Len(u(i)), p, q)
    BY <1>2, <2>1
  <2>3. At(u(i), p[f], q[f], x)
    BY <2>1, <2>2 DEF Joins, At, In
  <2> QED BY <1>3, <2>1, <2>3
<1>6. ASSUME NEW i, NEW j, NEW k, NEW l, NEW x, At(flats, i, k, x), At(flats, j, l, x)
      PROVE  i = j /\ k = l
  <2>1. /\ i \in 1..n /\ In(flats[i], k, x) /\ j \in 1..n /\ In(flats[j], l, x)
    BY <1>5, <1>6
  <2>2. PICK a \in Nat \ {0} : \E b : At(lists, NthIndex(i, a, n), b, x)
    BY <1>5, <1>6
  <2>3. PICK c \in Nat \ {0} : \E b : At(lists, NthIndex(j, c, n), b, x)
    BY <1>5, <1>6
  <2>4. NthIndex(i, a, n) = NthIndex(j, c, n)
    BY <2>2, <2>3 DEF Apart
  <2>5. i = j
    BY <2>1, <2>4, NthIndexUnique
  <2>6. k = l
    BY <1>4, <2>1, <2>5 DEF Distinct, In
  <2> QED BY <2>5, <2>6
<1>7. Apart(flats)
  BY <1>6 DEF Apart
<1>8. \A i, f, x : At(flats, i, f, x) => \E a, b : At(lists, a, b, x)
  BY <1>5
<1> QED BY <1>7, <1>8

----------------------------------------------------------------------------
(* Groups without a common layer *)

NamesOf(groups) == [i \in 1..Len(groups) |-> groups[i].names]

LEMMA NamesAt ==
    ASSUME NEW groups, Len(groups) \in Nat
    PROVE  /\ Len(NamesOf(groups)) = Len(groups)
           /\ \A i \in 1..Len(groups) : NamesOf(groups)[i] = groups[i].names
           /\ \A i, k, x : At(NamesOf(groups), i, k, x) <=> i \in 1..Len(groups) /\ In(groups[i].names, k, x)
<1>1. Len(NamesOf(groups)) = Len(groups) /\ \A i \in 1..Len(groups) : NamesOf(groups)[i] = groups[i].names
  BY DEF NamesOf
<1>2. \A i, k, x : At(NamesOf(groups), i, k, x) <=> i \in 1..Len(groups) /\ In(groups[i].names, k, x)
  BY <1>1 DEF At
<1> QED BY <1>1, <1>2

(* Groups made of lists of names have those lists. *)
LEMMA NamesOfLists ==
    ASSUME NEW lists, Len(lists) \in Nat, Apart(lists), NEW groups, Len(groups) = Len(lists),
           \A i \in 1..Len(lists) : groups[i].names = lists[i]
    PROVE  Apart(NamesOf(groups))
<1>1. \A i, k, x : At(NamesOf(groups), i, k, x) => At(lists, i, k, x)
  BY NamesAt DEF At
<1> QED BY <1>1 DEF Apart

LEMMA NamesOfConcat ==
    ASSUME NEW T, NEW s \in Seq(T), NEW t \in Seq(T), Apart(NamesOf(s)), Apart(NamesOf(t)),
           Disjoint(NamesOf(s), NamesOf(t))
    PROVE  Apart(NamesOf(s \o t))
<1> DEFINE st == s \o t
           a == NamesOf(s)
           b == NamesOf(t)
           ab == a \o b
           U == {g.names : g \in T}
<1>1. /\ Len(s) \in Nat /\ Len(t) \in Nat /\ Len(st) = Len(s) + Len(t)
      /\ \A i \in 1..Len(st) : st[i] = IF i <= Len(s) THEN s[i] ELSE t[i - Len(s)]
  BY ConcatProperties
<1>2. a \in Seq(U) /\ Len(a) = Len(s) /\ b \in Seq(U) /\ Len(b) = Len(t)
  <2>1. a \in [1..Len(s) -> U] /\ b \in [1..Len(t) -> U]
    BY DEF NamesOf
  <2> HIDE DEF a, b, U
  <2> QED BY <1>1, <2>1, FunctionIsSeq
<1> HIDE DEF U
<1>3. /\ Len(ab) = Len(a) + Len(b)
      /\ \A i \in 1..Len(ab) : ab[i] = IF i <= Len(a) THEN a[i] ELSE b[i - Len(a)]
  <2>1. a \in Seq(U) /\ b \in Seq(U)
    BY <1>2
  <2> HIDE DEF a, b
  <2>2. /\ Len(a \o b) = Len(a) + Len(b)
        /\ \A i \in 1..Len(a) + Len(b) : (a \o b)[i] = IF i <= Len(a) THEN a[i] ELSE b[i - Len(a)]
    BY ONLY <2>1, ConcatProperties
  <2> QED BY ONLY <2>2
<1>4. Apart(ab)
  <2>1. Apart(a) /\ Apart(b) /\ Disjoint(a, b)
    OBVIOUS
  <2> HIDE DEF a, b, ab
  <2>2. Apart(a \o b)
    BY <1>2, <2>1, ApartJoined
  <2> QED BY <2>2 DEF ab
<1>5. /\ \A i \in 1..Len(s) : a[i] = s[i].names
      /\ \A i \in 1..Len(t) : b[i] = t[i].names
  BY DEF NamesOf
<1> HIDE DEF st, a, b, ab
<1>6. \A i \in 1..Len(ab) : st[i].names = ab[i]
  <2> SUFFICES ASSUME NEW i \in 1..Len(ab) PROVE st[i].names = ab[i]
    OBVIOUS
  <2>1. i \in Int /\ i \in 1..Len(st) /\ Len(a) = Len(s)
    BY <1>1, <1>2, <1>3
  <2>2. CASE i <= Len(s)
    <3>1. i \in 1..Len(s)
      BY <1>1, <2>1, <2>2
    <3>2. st[i] = s[i] /\ ab[i] = a[i]
      BY <1>1, <1>3, <2>1, <2>2
    <3> QED BY <1>5, <3>1, <3>2
  <2>3. CASE ~(i <= Len(s))
    <3>1. i - Len(s) \in 1..Len(t)
      BY <1>1, <2>1, <2>3
    <3>2. st[i] = t[i - Len(s)] /\ ab[i] = b[i - Len(s)]
      BY <1>1, <1>3, <2>1, <2>3
    <3> QED BY <1>5, <3>1, <3>2
  <2> QED BY <2>2, <2>3
<1>7. Len(st) = Len(ab) /\ Len(ab) \in Nat
  BY <1>1, <1>2, <1>3
<1>8. Apart(NamesOf(st))
  BY <1>4, <1>6, <1>7, NamesOfLists
<1> QED BY <1>8 DEF st

LEMMA NamesOfParts ==
    ASSUME NEW T, NEW parts \in Seq(Seq(T)), \A a \in 1..Len(parts) : Apart(NamesOf(parts[a])),
           \A a, b \in 1..Len(parts) : a # b => Disjoint(NamesOf(parts[a]), NamesOf(parts[b]))
    PROVE  /\ Apart(NamesOf(FlattenSeq(parts)))
           /\ \A i \in 1..Len(FlattenSeq(parts)) : \E a \in 1..Len(parts) : \E b \in 1..Len(parts[a]) :
                 FlattenSeq(parts)[i] = parts[a][b]
<1> DEFINE s == FlattenSeq(parts)
           m == Len(parts)
           names == [a \in 1..m |-> NamesOf(parts[a])]
<1>1. PICK p, q : Joins(s, parts, m, p, q)
  BY Joined
<1>2. s \in Seq(T)
  BY FlattenedType
<1>3. Len(s) \in Nat /\ m \in Nat /\ \A a \in 1..m : Len(parts[a]) \in Nat
  <2>1. \A a \in 1..m : parts[a] \in Seq(T)
    OBVIOUS
  <2> QED BY <1>2, <2>1
<1>4. Len(names) = m /\ \A a \in 1..m : /\ names[a] = NamesOf(parts[a]) /\ Len(names[a]) = Len(parts[a])
                                        /\ \A b \in 1..Len(parts[a]) : names[a][b] = parts[a][b].names
  <2>1. Len(names) = m /\ \A a \in 1..m : names[a] = NamesOf(parts[a])
    BY <1>3
  <2> HIDE DEF names
  <2> QED BY <1>3, <2>1, NamesAt
<1> HIDE DEF s, m, names
<1>5. Len(NamesOf(s)) = Len(s) /\ \A i \in 1..Len(s) : NamesOf(s)[i] = s[i].names
  BY <1>3, NamesAt
<1>6. ASSUME NEW f \in 1..Len(s)
      PROVE  p[f] \in 1..m /\ q[f] \in 1..Len(parts[p[f]]) /\ s[f] = parts[p[f]][q[f]]
  BY <1>1 DEF Joins
<1>7. ASSUME NEW f \in 1..Len(NamesOf(s))
      PROVE  p[f] \in 1..m /\ q[f] \in 1..Len(names[p[f]]) /\ NamesOf(s)[f] = names[p[f]][q[f]]
  <2> DEFINE a == p[f]
             b == q[f]
  <2>1. f \in 1..Len(s) /\ NamesOf(s)[f] = s[f].names
    BY <1>5
  <2>2. a \in 1..m /\ b \in 1..Len(parts[a]) /\ s[f] = parts[a][b]
    BY <1>6, <2>1
  <2> HIDE DEF a, b
  <2>3. Len(names[a]) = Len(parts[a]) /\ names[a][b] = parts[a][b].names
    BY <1>4, <2>2
  <2>4. a \in 1..m /\ b \in 1..Len(names[a]) /\ NamesOf(s)[f] = names[a][b]
    BY <2>1, <2>2, <2>3
  <2> QED BY <2>4 DEF a, b
<1>8. Joins(NamesOf(s), names, Len(names), p, q)
  <2>1. \A f, h \in 1..Len(NamesOf(s)) : p[f] = p[h] /\ q[f] = q[h] => f = h
    BY <1>1, <1>5 DEF Joins
  <2>2. \A i \in 1..m : \A k \in 1..Len(names[i]) : \E f \in 1..Len(NamesOf(s)) : p[f] = i /\ q[f] = k
    BY <1>1, <1>4, <1>5 DEF Joins
  <2> QED BY <1>4, <1>7, <2>1, <2>2 DEF Joins
<1>9. /\ \A a \in 1..Len(names) : Apart(names[a])
      /\ \A a, b \in 1..Len(names) : a # b => Disjoint(names[a], names[b])
  BY <1>4 DEF m
<1>10. Apart(NamesOf(s))
  BY <1>8, <1>9, ApartParts
<1>11. \A i \in 1..Len(s) : \E a \in 1..m : \E b \in 1..Len(parts[a]) : s[i] = parts[a][b]
  BY <1>6
<1> QED BY <1>10, <1>11 DEF s, m

----------------------------------------------------------------------------
(* How groups are made, again *)

(* A name of the list is a name of the set, and is there once. *)
LEMMA InOrderIn ==
    ASSUME NEW D, IsFiniteSet(D), D \subseteq Nat \ {0}, NEW S \in SUBSET D
    PROVE  /\ Distinct(InOrder(S))
           /\ \A k, x : In(InOrder(S), k, x) => x \in S
           /\ \A k, l, x : In(InOrder(S), k, x) /\ In(InOrder(S), l, x) => k = l
<1> DEFINE t == InOrder(S)
<1>1. Lists(t, S) /\ \A i \in 1..Len(t) : t[i] \in S
  BY ListsOfNames
<1> HIDE DEF t
<1>2. Distinct(t)
  BY <1>1 DEF Lists
<1>3. \A k, x : In(t, k, x) => x \in S
  BY <1>1 DEF In
<1>4. \A k, l, x : In(t, k, x) /\ In(t, l, x) => k = l
  BY <1>2 DEF In, Distinct
<1> QED BY <1>2, <1>3, <1>4 DEF t

(* One group of each of the lists of each spec. *)
LEMMA UniformPageGroupsApart ==
    ASSUME NEW D, IsFiniteSet(D), D \subseteq Nat \ {0}, D # {}, NEW layers \in [D -> LayerSpec]
    PROVE  /\ Apart(NamesOf(UniformPageGroups(layers)))
           /\ \A i \in 1..Len(UniformPageGroups(layers)) :
                 /\ UniformPageGroups(layers)[i].uniform = FALSE
                 /\ \E n \in D : UniformPageGroups(layers)[i].spec = layers[n]
           /\ \A i, k, x : At(NamesOf(UniformPageGroups(layers)), i, k, x) => x \in D
<1> DEFINE first == FirstOfSpec(layers)
           m == Len(first)
           T == NonEmpty(D)
           F == {n \in D : \A k \in D : k < n => layers[k] # layers[n]}
           named(i) == OfSpec(layers, layers[first[i]])
           seqs == [i \in 1..m |-> SplitGroups(named(i), GroupSize(layers))]
           lists == FlattenSeq(seqs)
<1>1. first \in Seq(D) /\ m \in Nat \ {0} /\ first = InOrder(F) /\ F \in SUBSET D
  <2>1. first \in NonEmpty(D)
    BY FirstOfSpecIs
  <2>2. first = InOrder(F)
    BY DEF FirstOfSpec
  <2> HIDE DEF first
  <2> QED BY <2>1, <2>2 DEF NonEmpty
<1>2. Distinct(first) /\ \A k \in 1..m : first[k] \in F
  <2> HIDE DEF F, first
  <2>1. Distinct(InOrder(F)) /\ \A k, x : In(InOrder(F), k, x) => x \in F
    BY <1>1, InOrderIn
  <2>2. \A k \in 1..m : In(first, k, first[k])
    BY DEF In
  <2> QED BY <1>1, <2>1, <2>2
<1> HIDE DEF first
<1>3. DOMAIN first = 1..m /\ \A i \in 1..m : first[i] \in D
  <2>1. first \in Seq(D)
    BY <1>1
  <2> QED BY ONLY <2>1
<1>4. ASSUME NEW i \in 1..m
      PROVE  /\ seqs[i] \in Seq(T) /\ Len(seqs[i]) # 0 /\ Apart(seqs[i])
             /\ \A a, k, x : At(seqs[i], a, k, x) => x \in D /\ layers[x] = layers[first[i]]
  <2> DEFINE names == named(i)
             size == GroupSize(layers)
             S == {n \in D : layers[n] = layers[first[i]]}
  <2>1. names \in NonEmpty(D)
    <3>1. first[i] \in D
      BY <1>3
    <3> QED BY <3>1, OfSpecIs
  <2>2. size \in Nat \ {0}
    BY GroupSizeIs
  <2>3. seqs[i] = SplitGroups(names, size)
    OBVIOUS
  <2>4. S \in SUBSET D /\ names = InOrder(S)
    BY DEF OfSpec
  <2>5. \A x \in S : x \in D /\ layers[x] = layers[first[i]]
    OBVIOUS
  <2> HIDE DEF names, size, seqs, S
  <2>6. Distinct(names) /\ \A k, x : In(names, k, x) => x \in S
    BY <2>4, InOrderIn
  <2>7. /\ SplitGroups(names, size) \in Seq(T) /\ Len(SplitGroups(names, size)) # 0
        /\ Apart(SplitGroups(names, size))
        /\ \A a, k, x : At(SplitGroups(names, size), a, k, x) => \E f : In(names, f, x)
    BY <2>1, <2>2, <2>6, SplitIsFine, SplitApart
  <2> QED BY <2>3, <2>5, <2>6, <2>7
<1>5. seqs \in Seq(Seq(T)) /\ Len(seqs) = m
  <2>1. seqs \in [1..m -> Seq(T)]
    <3>1. seqs = [i \in 1..m |-> seqs[i]]
      OBVIOUS
    <3> HIDE DEF seqs, T, m
    <3> QED BY <1>4, <3>1
  <2> DEFINE U == Seq(T)
  <2> HIDE DEF seqs, m, U
  <2>2. seqs \in Seq(U) /\ Len(seqs) = m
    BY <1>1, <2>1, FunctionIsSeq DEF U
  <2> QED BY <2>2 DEF U
<1>6. SpecsInOrder(layers) = [i \in 1..m |-> layers[first[i]]]
  BY <1>3 DEF SpecsInOrder, first
<1>7. UniformPageGroups(layers) = [i \in DOMAIN lists |-> Group(lists[i], layers)]
  <2>1. [i \in DOMAIN SpecsInOrder(layers) |-> SplitGroups(OfSpec(layers, SpecsInOrder(layers)[i]), GroupSize(layers))] = seqs
    BY <1>6
  <2> HIDE DEF seqs, m
  <2> QED BY <2>1 DEF UniformPageGroups
<1> DEFINE groups == UniformPageGroups(layers)
<1> HIDE DEF seqs, named, m, F
<1>8. \A i \in 1..m : \A a, k, x : At(seqs[i], a, k, x) => layers[x] = layers[first[i]]
  BY <1>4
<1>9. \A a, b \in 1..Len(seqs) : a # b => Disjoint(seqs[a], seqs[b])
  <2> SUFFICES ASSUME NEW a \in 1..m, NEW b \in 1..m, a # b, NEW i, NEW j, NEW k, NEW l, NEW x,
                      At(seqs[a], i, k, x), At(seqs[b], j, l, x)
               PROVE  FALSE
    BY <1>5 DEF Disjoint
  <2> DEFINE n == first[a]
             h == first[b]
  <2>1. layers[n] = layers[h]
    <3>1. layers[x] = layers[first[a]] /\ layers[x] = layers[first[b]]
      BY ONLY <1>8, a \in 1..m, b \in 1..m, At(seqs[a], i, k, x), At(seqs[b], j, l, x)
    <3> QED BY ONLY <3>1
  <2>2. n # h
    BY <1>2 DEF Distinct, m
  <2>3. n \in F /\ h \in F
    BY <1>2
  <2> HIDE DEF n, h
  <2>4. n \in Nat /\ h \in Nat /\ n \in D /\ h \in D /\ (h < n => layers[h] # layers[n]) /\ (n < h => layers[n] # layers[h])
    BY <2>3 DEF F
  <2> QED BY <2>1, <2>2, <2>4
<1>10. PICK p, q : Joins(lists, seqs, Len(seqs), p, q)
  <2> HIDE DEF T
  <2> QED BY <1>5, Joined
<1>11. lists \in Seq(T)
  <2> HIDE DEF T
  <2> QED BY <1>5, FlattenedType
<1>12. Apart(lists)
  <2> HIDE DEF lists
  <2>1. \A a \in 1..Len(seqs) : Apart(seqs[a])
    BY <1>4, <1>5
  <2> QED BY <1>9, <1>10, <2>1, ApartParts
<1> HIDE DEF lists
<1>13. Len(lists) \in Nat /\ DOMAIN lists = 1..Len(lists) /\ \A i \in 1..Len(lists) : lists[i] \in T
  <2> HIDE DEF T
  <2> QED BY <1>11
<1>14. Len(groups) = Len(lists) /\ \A i \in 1..Len(lists) : groups[i] = Group(lists[i], layers)
  BY <1>7, <1>13
<1>15. \A i \in 1..Len(lists) : /\ groups[i].names = lists[i] /\ groups[i].uniform = FALSE
                                /\ groups[i].spec = layers[lists[i][1]] /\ lists[i][1] \in D
                                /\ \A k, x : In(lists[i], k, x) => x \in D
  <2> SUFFICES ASSUME NEW i \in 1..Len(lists)
               PROVE  /\ groups[i].names = lists[i] /\ groups[i].uniform = FALSE
                      /\ groups[i].spec = layers[lists[i][1]] /\ lists[i][1] \in D
                      /\ \A k, x : In(lists[i], k, x) => x \in D
    OBVIOUS
  <2> DEFINE s == lists[i]
  <2>1. s \in Seq(D) /\ Len(s) # 0
    BY <1>13 DEF NonEmpty
  <2>2. groups[i] = Group(s, layers)
    BY <1>14
  <2> HIDE DEF s, groups
  <2>3. groups[i].names = s /\ groups[i].uniform = FALSE /\ groups[i].spec = layers[s[1]]
    BY <2>2 DEF Group, GroupOf
  <2>4. s[1] \in D /\ \A k, x : In(s, k, x) => x \in D
    BY <2>1 DEF In
  <2> QED BY <2>3, <2>4 DEF s
<1> HIDE DEF groups
<1>16. Apart(NamesOf(groups))
  BY <1>12, <1>13, <1>14, <1>15, NamesOfLists
<1>17. \A i \in 1..Len(groups) : groups[i].uniform = FALSE /\ \E n \in D : groups[i].spec = layers[n]
  BY <1>14, <1>15
<1>18. \A i, k, x : At(NamesOf(groups), i, k, x) => x \in D
  BY <1>13, <1>14, <1>15, NamesAt
<1> QED BY <1>16, <1>17, <1>18 DEF groups

(* All the specs have the largest page afterwards. *)
LEMMA OnePage ==
    ASSUME NEW E, IsFiniteSet(E), NEW layers \in [E -> LayerSpec], None \notin Range(unify_kv_cache_spec_page_size(layers)),
           NEW n \in E
    PROVE  unify_kv_cache_spec_page_size(layers)[n].page = Max(PageSizes(layers))
<1> DEFINE ps == Max(PageSizes(layers))
           u == unify_kv_cache_spec_page_size(layers)
           s == layers[n]
<1>1. u[n] = Enlarged(s, ps) /\ u[n] \in Range(u)
  BY DEF unify_kv_cache_spec_page_size, Range
<1>2. u[n] # None /\ s \in LayerSpec
  BY <1>1
<1> HIDE DEF u, s, ps
<1>3. ASSUME s.page = ps PROVE u[n].page = ps
  <2>1. u[n] = s
    BY <1>1, <1>3 DEF Enlarged
  <2> QED BY <1>3, <2>1
<1>4. ASSUME s.page # ps PROVE u[n].page = ps
  <2> DEFINE b == s.block_size * (ps \div s.page)
  <2>1. u[n] = [s EXCEPT !.page = ps] \/ u[n] = [s EXCEPT !.page = ps, !.block_size = b]
    BY <1>1, <1>2, <1>4 DEF Enlarged
  <2> HIDE DEF b
  <2>2. [s EXCEPT !.page = ps].page = ps /\ [s EXCEPT !.page = ps, !.block_size = b].page = ps
    BY <1>2 DEF LayerSpec
  <2>3. u[n].page = ps
    BY <2>1, <2>2
  <2> QED BY <2>3
<1>5. u[n].page = ps
  BY <1>3, <1>4
<1> QED BY <1>5 DEF u, ps

----------------------------------------------------------------------------

(* All groups have a spec per layer, or none has and all pages are one. *)
PagesAgree(groups) ==
    \/ \A i \in 1..Len(groups) : groups[i].uniform = TRUE
    \/ \A i \in 1..Len(groups) : groups[i].uniform = FALSE /\ groups[i].spec.page = groups[1].spec.page

LEMMA HiddenGroupHas ==
    ASSUME NEW n, NEW s \in LayerSpec, NEW page
    PROVE  /\ HiddenGroup(n, s, page).names = <<n>> /\ HiddenGroup(n, s, page).uniform = FALSE
           /\ HiddenGroup(n, s, page).spec.page = page
<1> DEFINE b == Max({page \div (s.page \div s.block_size), 1})
           t == [s EXCEPT !.page = page, !.block_size = b]
           layers == [m \in {n} |-> t]
           names == <<n>>
<1>1. HiddenGroup(n, s, page) = GroupOf(names, layers, FALSE)
  BY DEF HiddenGroup, Group
<1>2. layers[names[1]] = t
  OBVIOUS
<1> HIDE DEF b
<1>3. t.page = page
  BY DEF LayerSpec
<1> HIDE DEF t, layers, names
<1>4. /\ GroupOf(names, layers, FALSE).names = names /\ GroupOf(names, layers, FALSE).uniform = FALSE
      /\ GroupOf(names, layers, FALSE).spec = t
  BY <1>2 DEF GroupOf
<1> QED BY <1>1, <1>3, <1>4 DEF names

LEMMA MixedGroupsApart ==
    ASSUME NEW D, IsFiniteSet(D), D \subseteq Nat \ {0}, NEW layers \in [D -> TokenSpec],
           DOMAIN RestOf(layers) # {}, None \notin Range(RestOf(layers))
    PROVE  Apart(NamesOf(MixedGroups(layers))) /\ PagesAgree(MixedGroups(layers))
<1> DEFINE H == HiddenNames(layers)
           E == D \ H
           rest == RestOf(layers)
           groups == UniformPageGroups(rest)
           names == InOrder(H)
           page == groups[1].spec.page
           f == [i \in 1..Len(names) |-> HiddenGroup(names[i], layers[names[i]], page)]
           some == Restrict(layers, E)
           ps == Max(PageSizes(some))
<1>1. H \in SUBSET D /\ E \in SUBSET D /\ \A n \in H : layers[n].kind = "hidden" /\ layers[n] \in TokenSpec
  BY DEF HiddenNames
<1>2. IsFiniteSet(E) /\ E \subseteq Nat \ {0} /\ \A x : x \in E => x \notin H
  <2>1. \A x : x \in E => x \notin H
    OBVIOUS
  <2> HIDE DEF E
  <2>2. IsFiniteSet(E)
    BY <1>1, FS_Subset
  <2> QED BY <1>1, <2>1, <2>2
<1>3. some \in [E -> LayerSpec] /\ rest = unify_kv_cache_spec_page_size(some)
  <2>1. some \in [E -> LayerSpec]
    BY <1>1 DEF Restrict, TokenSpec
  <2>2. rest = unify_kv_cache_spec_page_size(some)
    BY DEF RestOf
  <2> QED BY <2>1, <2>2
<1> HIDE DEF some, E, H
<1>4. rest \in [E -> LayerSpec] /\ \A n \in E : rest[n].page = ps
  <2> HIDE DEF rest
  <2>1. None \notin Range(unify_kv_cache_spec_page_size(some))
    BY <1>3 DEF rest
  <2> QED BY <1>2, <1>3, <2>1, UnifiedPagesAre, OnePage
<1>5. E # {}
  BY <1>4
<1> HIDE DEF rest, ps
<1>6. /\ groups \in Seq(Groups(E)) /\ Len(groups) # 0 /\ Apart(NamesOf(groups))
      /\ \A i \in 1..Len(groups) : groups[i].uniform = FALSE /\ \E n \in E : groups[i].spec = rest[n]
      /\ \A i, k, x : At(NamesOf(groups), i, k, x) => x \in E
  BY <1>2, <1>4, <1>5, UniformPageGroupsAreFine, UniformPageGroupsApart
<1> HIDE DEF groups
<1>7. Len(groups) \in Nat \ {0} /\ \A i \in 1..Len(groups) : groups[i].uniform = FALSE /\ groups[i].spec.page = ps
  <2>1. Len(groups) \in Nat
    BY <1>6
  <2> QED BY <1>4, <1>6, <2>1
<1>8. page = ps
  BY <1>7
<1>9. /\ names \in Seq(D) /\ \A i \in 1..Len(names) : names[i] \in H
      /\ \A k, l, x : In(names, k, x) /\ In(names, l, x) => k = l
  BY <1>1, ListsOfNames, InOrderIn
<1>10. MixedGroups(layers) = groups \o f
  <2>1. DOMAIN names = 1..Len(names)
    BY <1>9
  <2> QED BY <2>1 DEF MixedGroups, groups, rest, names, H, page
<1> HIDE DEF names, page
<1>11. Len(names) \in Nat
  BY <1>9
<1>12. \A i \in 1..Len(names) : f[i].names = <<names[i]>> /\ f[i].uniform = FALSE /\ f[i].spec.page = page
  <2> SUFFICES ASSUME NEW i \in 1..Len(names)
               PROVE  f[i].names = <<names[i]>> /\ f[i].uniform = FALSE /\ f[i].spec.page = page
    OBVIOUS
  <2> DEFINE n == names[i]
             s == layers[n]
  <2>1. s \in LayerSpec
    BY <1>1, <1>9 DEF TokenSpec
  <2>2. f[i] = HiddenGroup(n, s, page)
    OBVIOUS
  <2> HIDE DEF n, s, f
  <2>3. HiddenGroup(n, s, page).names = <<n>> /\ HiddenGroup(n, s, page).uniform = FALSE /\ HiddenGroup(n, s, page).spec.page = page
    BY ONLY <2>1, HiddenGroupHas
  <2> QED BY <2>2, <2>3 DEF n
<1>13. Len(f) = Len(names) /\ f \in Seq(Range(f))
  <2>1. f \in [1..Len(names) -> Range(f)]
    <3>1. DOMAIN f = 1..Len(names) /\ \A i \in 1..Len(names) : f[i] \in Range(f)
      BY DEF Range
    <3> QED BY <3>1
  <2> DEFINE R == Range(f)
  <2> HIDE DEF f, R
  <2>2. f \in [1..Len(names) -> R]
    BY <2>1 DEF R
  <2> QED BY <1>11, <2>2, FunctionIsSeq DEF R
<1> HIDE DEF f
<1>14. ASSUME NEW i, NEW k, NEW x, At(NamesOf(f), i, k, x)
       PROVE  k = 1 /\ In(names, i, x) /\ x \in H
  <2>1. i \in 1..Len(names) /\ In(f[i].names, k, x)
    BY <1>11, <1>13, <1>14, NamesAt
  <2> DEFINE y == names[i]
  <2>2. f[i].names = <<y>> /\ y \in H
    BY <1>9, <1>12, <2>1
  <2> HIDE DEF y
  <2>3. In(<<y>>, k, x)
    BY <2>1, <2>2
  <2>4. k = 1 /\ x = y
    BY <2>3 DEF In
  <2> QED BY <2>1, <2>2, <2>4 DEF In, y
<1>15. Apart(NamesOf(f))
  <2> SUFFICES ASSUME NEW i, NEW j, NEW k, NEW l, NEW x, At(NamesOf(f), i, k, x), At(NamesOf(f), j, l, x)
               PROVE  i = j /\ k = l
    BY DEF Apart
  <2> QED BY <1>9, <1>14
<1>16. Disjoint(NamesOf(groups), NamesOf(f))
  BY <1>2, <1>6, <1>14 DEF Disjoint
<1> DEFINE T == Groups(E) \cup Range(f)
<1>17. groups \in Seq(T) /\ f \in Seq(T)
  <2>1. Groups(E) \subseteq T /\ Range(f) \subseteq T
    OBVIOUS
  <2> HIDE DEF T
  <2> QED BY <1>6, <1>13, <2>1, SeqMonotonic
<1> HIDE DEF T
<1>18. Apart(NamesOf(groups \o f))
  BY <1>6, <1>15, <1>16, <1>17, NamesOfConcat
<1> DEFINE gs == groups \o f
<1>19. /\ Len(gs) = Len(groups) + Len(f)
       /\ \A i \in 1..Len(groups) + Len(f) : gs[i] = IF i <= Len(groups) THEN groups[i] ELSE f[i - Len(groups)]
  BY <1>17, ConcatProperties
<1> HIDE DEF gs
<1>20. \A i \in 1..Len(gs) : gs[i].uniform = FALSE /\ gs[i].spec.page = ps
  <2> SUFFICES ASSUME NEW i \in 1..Len(gs) PROVE gs[i].uniform = FALSE /\ gs[i].spec.page = ps
    OBVIOUS
  <2>1. CASE i <= Len(groups)
    <3>1. gs[i] = groups[i] /\ i \in 1..Len(groups)
      BY <1>7, <1>11, <1>13, <1>19, <2>1
    <3> QED BY <1>7, <3>1
  <2>2. CASE ~(i <= Len(groups))
    <3>1. gs[i] = f[i - Len(groups)] /\ i - Len(groups) \in 1..Len(names)
      BY <1>7, <1>11, <1>13, <1>19, <2>2
    <3> QED BY <1>8, <1>12, <3>1
  <2> QED BY <2>1, <2>2
<1>21. gs[1].spec.page = ps
  <2>1. 1 \in 1..Len(gs)
    BY <1>7, <1>11, <1>13, <1>19
  <2> QED BY <1>20, <2>1
<1>22. PagesAgree(gs)
  BY <1>20, <1>21 DEF PagesAgree
<1> QED BY <1>10, <1>18, <1>22 DEF gs

----------------------------------------------------------------------------
(* The layer tuples, again *)

LEMMA TupleNamesApart ==
    ASSUME NEW E, IsFiniteSet(E), E \subseteq Nat \ {0}, E # {}, NEW swa \in [E -> LayerSpec],
           \A p \in PageSizes(swa) : Cardinality(LayersOfPage(swa, p)) = NumLayerTuples(swa)
    PROVE  Apart(TupleNames(swa)) /\ \A i, j, x : At(TupleNames(swa), i, j, x) => x \in E
<1> DEFINE m == NumLayerTuples(swa)
           first == FirstOfPage(swa)
           F == {n \in E : \A k \in E : k < n => swa[k].page # swa[n].page}
           listed(j) == InOrder(LayersOfPage(swa, swa[first[j]].page))
           tuple(i) == [j \in DOMAIN first |-> listed(j)[i]]
           s == TupleNames(swa)
<1>1. m \in Nat \ {0} /\ \A p \in PageSizes(swa) : LayersOfPage(swa, p) \in SUBSET E
  BY NumLayerTuplesIs
<1>2. first = InOrder(F) /\ F \in SUBSET E
  BY DEF FirstOfPage
<1>3. s = [i \in 1..m |-> tuple(i)]
  BY DEF TupleNames
<1> HIDE DEF m, first, F, s, tuple
<1>4. /\ first \in Seq(E) /\ Distinct(first) /\ \A k \in 1..Len(first) : first[k] \in F
  BY <1>2, ListsOfNames, InOrderIn
<1>5. DOMAIN first = 1..Len(first) /\ Len(first) \in Nat
  BY <1>4
<1>6. Len(s) = m /\ \A i \in 1..m : s[i] = tuple(i)
  BY <1>1, <1>3
<1>7. ASSUME NEW i, NEW j, NEW x, At(s, i, j, x)
      PROVE  j \in 1..Len(first) /\ In(listed(j), i, x) /\ x \in E /\ swa[x].page = swa[first[j]].page
  <2>1. i \in 1..m /\ In(tuple(i), j, x)
    BY <1>6, <1>7 DEF At
  <2>2. Len(tuple(i)) = Len(first) /\ \A k \in 1..Len(first) : tuple(i)[k] = listed(k)[i]
    BY <1>5 DEF tuple
  <2>3. j \in 1..Len(first) /\ listed(j)[i] = x
    BY <2>1, <2>2 DEF In
  <2> DEFINE p == swa[first[j]].page
             S == LayersOfPage(swa, p)
  <2>4. first[j] \in E
    BY <1>4, <2>3
  <2>5. p \in PageSizes(swa)
    BY <2>4, PagesOfLayers
  <2>6. S \in SUBSET E /\ Cardinality(S) = m
    BY <1>1, <2>5 DEF m
  <2>7. listed(j) = InOrder(S) /\ \A y \in S : swa[y].page = p
    BY DEF LayersOfPage
  <2> HIDE DEF S, listed, p
  <2>8. Len(InOrder(S)) = m /\ \A k, y : In(InOrder(S), k, y) => y \in S
    BY <2>6, ListsOfNames, InOrderIn
  <2>9. In(listed(j), i, x)
    BY <2>1, <2>3, <2>7, <2>8 DEF In
  <2>10. x \in S
    BY <2>7, <2>8, <2>9
  <2> QED BY <2>3, <2>6, <2>7, <2>9, <2>10 DEF p
<1>8. ASSUME NEW i, NEW a, NEW j, NEW b, NEW x, At(s, i, j, x), At(s, a, b, x)
      PROVE  i = a /\ j = b
  <2>1. /\ j \in 1..Len(first) /\ In(listed(j), i, x) /\ swa[x].page = swa[first[j]].page
        /\ b \in 1..Len(first) /\ In(listed(b), a, x) /\ swa[x].page = swa[first[b]].page
    BY <1>7, <1>8
  <2>2. first[j] = first[b]
    <3> DEFINE n == first[j]
               h == first[b]
    <3>1. n \in F /\ h \in F /\ swa[n].page = swa[h].page
      BY <1>4, <2>1
    <3> HIDE DEF n, h
    <3>2. n \in Nat /\ h \in Nat /\ n \in E /\ h \in E /\ ~(h < n) /\ ~(n < h)
      BY <3>1 DEF F
    <3>3. n = h
      BY <3>2
    <3> QED BY <3>3 DEF n, h
  <2>3. j = b
    BY <1>4, <2>1, <2>2 DEF Distinct
  <2> DEFINE p == swa[first[j]].page
             S == LayersOfPage(swa, p)
  <2>4. first[j] \in E
    BY <1>4, <2>1
  <2>5. p \in PageSizes(swa)
    BY <2>4, PagesOfLayers
  <2>6. S \in SUBSET E /\ listed(j) = InOrder(S)
    BY <1>1, <2>5
  <2> HIDE DEF S, listed, p
  <2>7. \A k, l, y : In(InOrder(S), k, y) /\ In(InOrder(S), l, y) => k = l
    BY <2>6, InOrderIn
  <2> QED BY <2>1, <2>3, <2>6, <2>7
<1>9. Apart(s) /\ \A i, j, x : At(s, i, j, x) => x \in E
  <2>1. Apart(s)
    BY <1>8 DEF Apart
  <2> QED BY <1>7, <2>1
<1> QED BY <1>9 DEF s

LEMMA SwaGroupsApart ==
    ASSUME NEW E, IsFiniteSet(E), E \subseteq Nat \ {0}, E # {}, NEW swa \in [E -> LayerSpec],
           \A p \in PageSizes(swa) : Cardinality(LayersOfPage(swa, p)) = NumLayerTuples(swa),
           NEW tuples \in Nat \ {0}
    PROVE  /\ Apart(NamesOf(SwaGroups(swa, tuples)))
           /\ \A i, k, x : At(NamesOf(SwaGroups(swa, tuples)), i, k, x) => x \in E
           /\ \A i \in 1..Len(SwaGroups(swa, tuples)) : SwaGroups(swa, tuples)[i].uniform = TRUE
<1> DEFINE m == NumLayerTuples(swa)
           n == cdiv(m, tuples)
           s == TupleNames(swa)
           flats == [i \in 1..n |-> FlattenSeq(EveryNth(s, i, n))]
           groups == SwaGroups(swa, tuples)
<1>1. s \in Seq(NonEmpty(E)) /\ Len(s) = m /\ Apart(s) /\ \A i, j, x : At(s, i, j, x) => x \in E
  BY TupleNamesAre, TupleNamesApart
<1>2. m \in Nat \ {0}
  BY NumLayerTuplesIs
<1>3. groups = [i \in 1..n |-> UniformGroup(FlattenSeq(EveryNth(s, i, n)), swa)]
  BY DEF SwaGroups
<1> HIDE DEF s, m, groups
<1>4. n \in Nat \ {0} /\ n <= m
  BY <1>2, RoundedUp
<1> HIDE DEF n
<1>5. s \in Seq(Seq(E))
  <2> DEFINE T == NonEmpty(E)
             U == Seq(E)
  <2>1. T \subseteq U /\ s \in Seq(T)
    BY <1>1 DEF NonEmpty
  <2> HIDE DEF T, U
  <2>2. s \in Seq(U)
    BY <2>1, SeqMonotonic
  <2> QED BY <2>2 DEF U
<1>6. Len(flats) = n /\ \A i \in 1..n : flats[i] = FlattenSeq(EveryNth(s, i, n))
  BY <1>4
<1> HIDE DEF flats
<1>7. Apart(flats) /\ \A i, f, x : At(flats, i, f, x) => \E a, b : At(s, a, b, x)
  BY <1>1, <1>4, <1>5, <1>6, NthListsApart
<1>8. Len(groups) = n /\ \A i \in 1..n : groups[i].names = flats[i] /\ groups[i].uniform = TRUE
  <2>1. Len(groups) = n /\ \A i \in 1..n : groups[i] = UniformGroup(flats[i], swa)
    BY <1>3, <1>4, <1>6
  <2> QED BY <2>1 DEF UniformGroup, GroupOf
<1>9. Apart(NamesOf(groups))
  BY <1>4, <1>6, <1>7, <1>8, NamesOfLists
<1>10. \A i, k, x : At(NamesOf(groups), i, k, x) => x \in E
  <2>1. \A i, k, x : At(NamesOf(groups), i, k, x) => At(flats, i, k, x)
    BY <1>4, <1>6, <1>8, NamesAt DEF At
  <2> QED BY <1>1, <1>7, <2>1
<1>11. \A i \in 1..Len(groups) : groups[i].uniform = TRUE
  BY <1>8
<1> QED BY <1>9, <1>10, <1>11 DEF groups

LEMMA KeysDiffer ==
    ASSUME NEW D, IsFiniteSet(D), D \subseteq Nat \ {0}, NEW layers \in [D -> LayerSpec],
           NEW i \in DOMAIN KeysInOrder(layers), NEW j \in DOMAIN KeysInOrder(layers), i # j
    PROVE  KeysInOrder(layers)[i] # KeysInOrder(layers)[j]
<1> DEFINE S == SwaNames(layers)
           first == FirstOfKey(layers)
           K(n) == KeyOf(layers[n])
           F == {n \in S : \A m \in S : m < n => K(m) # K(n)}
           keys == KeysInOrder(layers)
           a == first[i]
           b == first[j]
<1>1. S \subseteq D
  BY DEF SwaNames
<1>2. first = InOrder(F) /\ F \in SUBSET D
  BY <1>1 DEF FirstOfKey
<1>3. DOMAIN keys = DOMAIN first /\ keys[i] = K(a) /\ keys[j] = K(b)
  BY DEF KeysInOrder
<1>4. i \in DOMAIN first /\ j \in DOMAIN first
  BY <1>3
<1> HIDE DEF first, F, keys
<1>5. first \in Seq(D) /\ Distinct(first) /\ \A k \in 1..Len(first) : first[k] \in F
  BY <1>2, ListsOfNames, InOrderIn
<1>6. DOMAIN first = 1..Len(first)
  BY <1>5
<1>7. a \in F /\ b \in F /\ a # b
  BY <1>4, <1>5, <1>6 DEF Distinct
<1> HIDE DEF a, b, K, S
<1>8. a \in S /\ b \in S /\ (b < a => K(b) # K(a)) /\ (a < b => K(a) # K(b))
  BY <1>7 DEF F
<1>9. a \in Nat /\ b \in Nat
  BY <1>1, <1>8
<1>10. K(a) # K(b)
  BY <1>7, <1>8, <1>9
<1> QED BY <1>3, <1>10 DEF keys

LEMMA SwaOfHas ==
    ASSUME NEW D, IsFiniteSet(D), D \subseteq Nat \ {0}, NEW layers \in [D -> LayerSpec],
           NEW i \in DOMAIN KeysInOrder(layers)
    PROVE  \A n \in DOMAIN SwaOf(layers, i) : layers[n].kind = "swamla" /\ KeyOf(layers[n]) = KeysInOrder(layers)[i]
BY DEF SwaOf, PaddedToMla, SwaLayers, SwaNames, Restrict

LEMMA TupleGroupsApart ==
    ASSUME NEW D, IsFiniteSet(D), D \subseteq Nat \ {0}, NEW layers \in [D -> LayerSpec], CanTuple(layers)
    PROVE  Apart(NamesOf(TupleGroups(layers))) /\ PagesAgree(TupleGroups(layers))
<1> DEFINE mla == MlaLayers(layers)
           M == DOMAIN mla
           names == InOrder(M)
           g == UniformGroup(names, mla)
           keys == KeysInOrder(layers)
           n == Len(FirstOfKey(layers))
           f == [i \in 1..n |-> SwaGroups(SwaOf(layers, i), NumTuples(layers))]
           T == Groups(D)
           one == <<g>>
           rest == FlattenSeq(f)
<1>1. M \in SUBSET D /\ \A x \in M : layers[x].kind = "mla"
  BY DEF MlaLayers, Restrict
<1>2. g.names = names /\ g.uniform = TRUE
  BY DEF UniformGroup, GroupOf
<1> HIDE DEF M, mla
<1>3. \A k, x : In(names, k, x) => x \in M
  BY <1>1, InOrderIn
<1>4. \A k, l, x : In(names, k, x) /\ In(names, l, x) => k = l
  BY <1>1, InOrderIn
<1>5. DOMAIN keys = 1..n /\ n \in Nat
  <2> DEFINE S == {k \in SwaNames(layers) : \A m \in SwaNames(layers) : m < k => KeyOf(layers[m]) # KeyOf(layers[k])}
  <2>1. S \in SUBSET D /\ FirstOfKey(layers) = InOrder(S)
    BY DEF SwaNames, FirstOfKey
  <2> HIDE DEF S
  <2>2. FirstOfKey(layers) \in Seq(D)
    BY <2>1, ListsOfNames
  <2> QED BY <2>2 DEF KeysInOrder
<1> HIDE DEF n, names
<1>6. TupleGroups(layers) = one \o rest
  BY <1>5 DEF TupleGroups, M, mla, names, keys
<1> HIDE DEF keys
<1>7. ASSUME NEW i \in 1..n
      PROVE  /\ f[i] \in Seq(T) /\ Apart(NamesOf(f[i])) /\ \A a \in 1..Len(f[i]) : f[i][a].uniform = TRUE
             /\ \A a, k, x : At(NamesOf(f[i]), a, k, x) => layers[x].kind = "swamla" /\ KeyOf(layers[x]) = keys[i]
  <2> DEFINE swa == SwaOf(layers, i)
             E == DOMAIN swa
             tuples == NumTuples(layers)
  <2>0. i \in DOMAIN KeysInOrder(layers)
    BY <1>5 DEF keys
  <2>1. /\ E \subseteq D /\ E # {} /\ swa \in [E -> LayerSpec]
        /\ \A p \in PageSizes(swa) : Cardinality(LayersOfPage(swa, p)) = NumLayerTuples(swa)
    BY <2>0, SwaOfIs
  <2>2. \A x \in E : layers[x].kind = "swamla" /\ KeyOf(layers[x]) = keys[i]
    BY <2>0, SwaOfHas DEF keys
  <2>3. tuples \in Nat \ {0}
    BY NumTuplesIs
  <2>4. f[i] = SwaGroups(swa, tuples)
    OBVIOUS
  <2> HIDE DEF swa, E, tuples, f, T
  <2>5. E \in SUBSET D /\ E \subseteq Nat \ {0}
    BY <2>1
  <2>6. IsFiniteSet(E)
    BY <2>5, FS_Subset
  <2>7. SwaGroups(swa, tuples) \in Seq(Groups(E))
    BY <2>1, <2>3, <2>5, <2>6, SwaGroupsAre
  <2>8. Groups(E) \subseteq Groups(D)
    BY <2>5, FewerGroups
  <2>9. SwaGroups(swa, tuples) \in Seq(Groups(D))
    BY <2>7, <2>8, SeqMonotonic
  <2>10. /\ Apart(NamesOf(SwaGroups(swa, tuples)))
         /\ \A a, k, x : At(NamesOf(SwaGroups(swa, tuples)), a, k, x) => x \in E
         /\ \A a \in 1..Len(SwaGroups(swa, tuples)) : SwaGroups(swa, tuples)[a].uniform = TRUE
    BY <2>1, <2>3, <2>5, <2>6, SwaGroupsApart
  <2> QED BY <2>2, <2>4, <2>9, <2>10 DEF T
<1>8. f \in Seq(Seq(T)) /\ Len(f) = n
  <2> DEFINE U == Seq(T)
  <2>1. f = [i \in 1..n |-> f[i]]
    OBVIOUS
  <2> HIDE DEF f, T
  <2>2. f \in [1..n -> U]
    BY <1>7, <2>1
  <2> HIDE DEF U
  <2>3. f \in Seq(U) /\ Len(f) = n
    BY <1>5, <2>2, FunctionIsSeq
  <2> QED BY <2>3 DEF U
<1>9. g \in T
  <2>1. IsFiniteSet(M) /\ M # {} /\ mla \in [M -> LayerSpec]
    BY MlaLayersAre DEF CanTuple, M, mla
  <2>2. TRUE \in BOOLEAN /\ M \in SUBSET M /\ M \subseteq Nat \ {0}
    BY <1>1
  <2>3. names \in NonEmpty(M)
    BY <2>1, <2>2, ListsOfNames DEF names
  <2>4. GroupOf(names, mla, TRUE) \in Groups(M)
    BY <2>1, <2>2, <2>3, GroupOfIsFine
  <2>5. Groups(M) \subseteq Groups(D)
    BY <1>1, FewerGroups
  <2> QED BY <2>4, <2>5 DEF UniformGroup
<1> HIDE DEF f, T, g
<1>10. \A i \in 1..n : \A a, k, x : At(NamesOf(f[i]), a, k, x) => layers[x].kind = "swamla" /\ KeyOf(layers[x]) = keys[i]
  BY <1>7
<1>11. \A i, j \in 1..n : i # j => keys[i] # keys[j]
  BY <1>5, KeysDiffer DEF keys
<1>12. ASSUME NEW i \in 1..n, NEW j \in 1..n, i # j PROVE Disjoint(NamesOf(f[i]), NamesOf(f[j]))
  <2> SUFFICES ASSUME NEW a, NEW b, NEW k, NEW l, NEW x, At(NamesOf(f[i]), a, k, x), At(NamesOf(f[j]), b, l, x)
               PROVE  FALSE
    BY DEF Disjoint
  <2>1. KeyOf(layers[x]) = keys[i]
    BY <1>10
  <2>2. KeyOf(layers[x]) = keys[j]
    BY <1>10
  <2> HIDE DEF KeyOf
  <2> QED BY <1>11, <1>12, <2>1, <2>2
<1>13. /\ Apart(NamesOf(rest))
       /\ \A i \in 1..Len(rest) : \E a \in 1..n : \E b \in 1..Len(f[a]) : rest[i] = f[a][b]
  <2>1. \A a \in 1..Len(f) : Apart(NamesOf(f[a]))
    BY <1>7, <1>8
  <2>2. \A a, b \in 1..Len(f) : a # b => Disjoint(NamesOf(f[a]), NamesOf(f[b]))
    BY <1>8, <1>12
  <2>3. /\ Apart(NamesOf(FlattenSeq(f)))
        /\ \A i \in 1..Len(FlattenSeq(f)) : \E a \in 1..Len(f) : \E b \in 1..Len(f[a]) : FlattenSeq(f)[i] = f[a][b]
    BY <1>8, <2>1, <2>2, NamesOfParts
  <2> QED BY <1>8, <2>3
<1>14. rest \in Seq(T)
  BY <1>8, FlattenedType
<1>15. one \in Seq(T) /\ Len(one) = 1 /\ one[1] = g
  BY <1>9
<1> HIDE DEF one, rest
<1>16. Len(rest) \in Nat
  BY <1>14
<1>17. \A i \in 1..Len(rest) : /\ rest[i].uniform = TRUE
                               /\ \A k, x : In(rest[i].names, k, x) => layers[x].kind = "swamla"
  <2> SUFFICES ASSUME NEW i \in 1..Len(rest)
               PROVE  rest[i].uniform = TRUE /\ \A k, x : In(rest[i].names, k, x) => layers[x].kind = "swamla"
    OBVIOUS
  <2>1. PICK a \in 1..n : \E b \in 1..Len(f[a]) : rest[i] = f[a][b]
    BY <1>13
  <2>2. PICK b \in 1..Len(f[a]) : rest[i] = f[a][b]
    BY <2>1
  <2> DEFINE u == f[a]
  <2>3. /\ u \in Seq(T) /\ b \in 1..Len(u) /\ rest[i] = u[b] /\ u[b].uniform = TRUE
        /\ \A c, k, x : At(NamesOf(u), c, k, x) => layers[x].kind = "swamla"
    BY <1>7, <2>2
  <2> HIDE DEF u
  <2>4. Len(u) \in Nat
    BY <2>3
  <2>5. \A k, x : In(u[b].names, k, x) => At(NamesOf(u), b, k, x)
    BY <2>3, <2>4, NamesAt
  <2> QED BY <2>3, <2>5
<1>18. \A i, k, x : At(NamesOf(one), i, k, x) => i = 1 /\ In(names, k, x)
  <2> SUFFICES ASSUME NEW i, NEW k, NEW x, At(NamesOf(one), i, k, x) PROVE i = 1 /\ In(names, k, x)
    OBVIOUS
  <2>1. i \in 1..Len(one) /\ In(one[i].names, k, x)
    BY <1>15, NamesAt
  <2> QED BY <1>2, <1>15, <2>1
<1>19. Apart(NamesOf(one))
  BY <1>4, <1>18 DEF Apart
<1>20. Disjoint(NamesOf(one), NamesOf(rest))
  <2> SUFFICES ASSUME NEW i, NEW j, NEW k, NEW l, NEW x, At(NamesOf(one), i, k, x), At(NamesOf(rest), j, l, x)
               PROVE  FALSE
    BY DEF Disjoint
  <2>1. layers[x].kind = "mla"
    BY <1>1, <1>3, <1>18
  <2>2. layers[x].kind = "swamla"
    <3>1. j \in 1..Len(rest) /\ In(rest[j].names, l, x)
      BY <1>16, NamesAt
    <3> QED BY <1>17, <3>1
  <2> QED BY <2>1, <2>2
<1>21. Apart(NamesOf(one \o rest))
  BY <1>13, <1>14, <1>15, <1>19, <1>20, NamesOfConcat
<1> DEFINE gs == one \o rest
<1>22. /\ Len(gs) = Len(one) + Len(rest)
       /\ \A i \in 1..Len(one) + Len(rest) : gs[i] = IF i <= Len(one) THEN one[i] ELSE rest[i - Len(one)]
  BY <1>14, <1>15, ConcatProperties
<1> HIDE DEF gs
<1>23. \A i \in 1..Len(gs) : gs[i].uniform = TRUE
  <2> SUFFICES ASSUME NEW i \in 1..Len(gs) PROVE gs[i].uniform = TRUE
    OBVIOUS
  <2>1. CASE i <= 1
    BY <1>2, <1>15, <1>16, <1>22, <2>1
  <2>2. CASE ~(i <= 1)
    <3>1. gs[i] = rest[i - 1] /\ i - 1 \in 1..Len(rest)
      BY <1>15, <1>16, <1>22, <2>2
    <3> QED BY <1>17, <3>1
  <2> QED BY <2>1, <2>2
<1>24. PagesAgree(gs)
  BY <1>23 DEF PagesAgree
<1> QED BY <1>6, <1>21, <1>24 DEF gs

(* No layer is in two groups, or twice in one. *)
SingleGroup(groups) == Apart(NamesOf(groups)) /\ PagesAgree(groups)

LEMMA OneGroup ==
    ASSUME NEW D, IsFiniteSet(D), D \subseteq Nat \ {0}, NEW layers, NEW b \in BOOLEAN
    PROVE  SingleGroup(<<GroupOf(InOrder(D), layers, b)>>)
<1> DEFINE names == InOrder(D)
           g == GroupOf(names, layers, b)
           one == <<g>>
<1>1. g.names = names /\ g.uniform = b
  BY DEF GroupOf
<1>2. \A k, l, x : In(names, k, x) /\ In(names, l, x) => k = l
  <2>1. D \in SUBSET D
    OBVIOUS
  <2> HIDE DEF names
  <2> QED BY <2>1, InOrderIn DEF names
<1> HIDE DEF g, names
<1>3. Len(one) = 1 /\ one[1] = g
  OBVIOUS
<1> HIDE DEF one
<1>4. \A i, k, x : At(NamesOf(one), i, k, x) => i = 1 /\ In(names, k, x)
  <2> SUFFICES ASSUME NEW i, NEW k, NEW x, At(NamesOf(one), i, k, x) PROVE i = 1 /\ In(names, k, x)
    OBVIOUS
  <2>1. i \in 1..Len(one) /\ In(one[i].names, k, x)
    BY <1>3, NamesAt
  <2> QED BY <1>1, <1>3, <2>1
<1>5. Apart(NamesOf(one))
  BY <1>2, <1>4 DEF Apart
<1>6. PagesAgree(one)
  BY <1>1, <1>3 DEF PagesAgree
<1>7. SingleGroup(one)
  BY <1>5, <1>6 DEF SingleGroup
<1> QED BY <1>7 DEF one, g, names

LEMMA GroupsOfApart ==
    ASSUME NEW D, IsFiniteSet(D), D \subseteq Nat \ {0}, NEW layers \in [D -> TokenSpec]
    PROVE  GroupsOf(layers) = None \/ GroupsOf(layers) = <<>> \/ SingleGroup(GroupsOf(layers))
<1>1. layers \in [D -> LayerSpec]
  BY DEF TokenSpec
<1>2. DOMAIN layers = D
  OBVIOUS
<1>3. TRUE \in BOOLEAN /\ FALSE \in BOOLEAN
  OBVIOUS
<1>4. CASE D = {}
  BY <1>2, <1>4 DEF GroupsOf
<1>5. CASE D # {} /\ Merge(Range(layers))
  <2>1. GroupsOf(layers) = <<GroupOf(InOrder(D), layers, FALSE)>>
    BY <1>2, <1>5 DEF GroupsOf, Group
  <2> QED BY <1>3, <2>1, OneGroup
<1>6. CASE D # {} /\ ~Merge(Range(layers)) /\ IsUniformType(Range(layers))
  <2>1. GroupsOf(layers) = <<GroupOf(InOrder(D), layers, TRUE)>>
    BY <1>2, <1>6 DEF GroupsOf, UniformGroup
  <2> QED BY <1>3, <2>1, OneGroup
<1>7. CASE /\ D # {} /\ ~Merge(Range(layers)) /\ ~IsUniformType(Range(layers))
           /\ HasKind(layers, "swamla") /\ Cardinality(PageSizes(layers)) > 1
  <2>1. GroupsOf(layers) = IF CanTuple(layers) THEN TupleGroups(layers) ELSE None
    BY <1>2, <1>7 DEF GroupsOf
  <2> QED BY <1>1, <2>1, TupleGroupsApart DEF SingleGroup
<1>8. CASE /\ D # {} /\ ~Merge(Range(layers)) /\ ~IsUniformType(Range(layers))
           /\ ~(HasKind(layers, "swamla") /\ Cardinality(PageSizes(layers)) > 1)
  <2>1. GroupsOf(layers) = IF DOMAIN RestOf(layers) = {} \/ None \in Range(RestOf(layers)) THEN None ELSE MixedGroups(layers)
    BY <1>2, <1>8 DEF GroupsOf
  <2> QED BY <2>1, MixedGroupsApart DEF SingleGroup
<1> QED BY <1>4, <1>5, <1>6, <1>7, <1>8

LEMMA GotGroupsApart ==
    ASSUME NEW D, IsFiniteSet(D), D \subseteq Nat \ {0}, NEW layers \in [D -> TokenSpec], NEW c
    PROVE  \/ get_kv_cache_groups(c, layers) = None \/ get_kv_cache_groups(c, layers) = <<>>
           \/ SingleGroup(get_kv_cache_groups(c, layers))
<1>1. PICK l : l = IF c.disable_hybrid THEN unify_hybrid_kv_cache_specs(layers) ELSE layers
  OBVIOUS
<1>2. l \in [D -> TokenSpec]
  BY <1>1, HybridSpecsAre
<1>3. get_kv_cache_groups(c, layers) = None \/ get_kv_cache_groups(c, layers) = GroupsOf(l)
  BY <1>1 DEF get_kv_cache_groups
<1>4. GroupsOf(l) = None \/ GroupsOf(l) = <<>> \/ SingleGroup(GroupsOf(l))
  BY <1>2, GroupsOfApart
<1> QED BY <1>3, <1>4

(* Projected to a worker, only layers of the worker are in them. *)
LEMMA ProjectedApart ==
    ASSUME NEW groups, FineGroups(groups), SingleGroup(groups), NEW worker
    PROVE  /\ SingleGroup(Projected(groups, worker))
           /\ \A i, k, x : At(NamesOf(Projected(groups, worker)), i, k, x) => x \in DOMAIN worker
<1> DEFINE n == Len(groups)
           p == Projected(groups, worker)
           W == DOMAIN worker
<1>1. n \in Nat \ {0} /\ DOMAIN groups = 1..n /\ \A i \in 1..n : FineGroup(groups[i])
  BY DEF FineGroups
<1>2. p = [i \in 1..n |-> ProjectedGroup(groups[i], worker)]
  BY <1>1 DEF Projected
<1> HIDE DEF p
<1>3. Len(p) = n /\ \A i \in 1..n : p[i] = ProjectedGroup(groups[i], worker)
  BY <1>1, <1>2
<1>4. Apart(NamesOf(groups)) /\ PagesAgree(groups)
  BY DEF SingleGroup
<1>5. \A i, k, x : i \in 1..n /\ In(groups[i].names, k, x) <=> At(NamesOf(groups), i, k, x)
  BY <1>1, NamesAt
<1> HIDE DEF n
<1>6. ASSUME NEW i \in 1..n
      PROVE  /\ p[i].uniform = groups[i].uniform /\ p[i].spec = groups[i].spec
             /\ \A k, x : In(p[i].names, k, x) => x \in W /\ \E l : In(groups[i].names, l, x)
             /\ \A k, l, x : In(p[i].names, k, x) /\ In(p[i].names, l, x) => k = l
  <2> DEFINE g == groups[i]
             s == g.names
             D == DOMAIN g.layers
             t == Only(s, W)
  <2>1. p[i] = ProjectedGroup(g, worker) /\ FineGroup(g)
    BY <1>1, <1>3
  <2>2. \A k, l, x : In(s, k, x) /\ In(s, l, x) => k = l
    BY <1>4, <1>5 DEF Apart
  <2> HIDE DEF g
  <2>3. s \in Seq(D)
    BY <2>1 DEF FineGroup
  <2>4. p[i].uniform = g.uniform /\ p[i].spec = g.spec /\ p[i].names = t
    BY <2>1 DEF ProjectedGroup
  <2> HIDE DEF s, D, W
  <2>5. Selects(t, s, W, D)
    BY <2>3, OnlySelects
  <2>6. Distinct(s)
    BY <2>2 DEF Distinct, In
  <2> HIDE DEF t
  <2>7. Distinct(t) /\ \A x : (\E k \in 1..Len(t) : t[k] = x) => x \in W /\ \E k \in 1..Len(s) : s[k] = x
    BY <2>5, <2>6 DEF Selects
  <2>8. \A k, x : In(t, k, x) => x \in W /\ \E l : In(s, l, x)
    BY <2>7 DEF In
  <2>9. \A k, l, x : In(t, k, x) /\ In(t, l, x) => k = l
    BY <2>7 DEF In, Distinct
  <2> QED BY <2>4, <2>8, <2>9 DEF g, s
<1>7. ASSUME NEW i, NEW k, NEW x, At(NamesOf(p), i, k, x)
      PROVE  i \in 1..n /\ In(p[i].names, k, x) /\ x \in W /\ \E l : At(NamesOf(groups), i, l, x)
  <2>1. i \in 1..n /\ In(p[i].names, k, x)
    BY <1>1, <1>3, <1>7, NamesAt
  <2>2. x \in W /\ \E l : In(groups[i].names, l, x)
    BY <1>6, <2>1
  <2> QED BY <1>5, <2>1, <2>2
<1>8. Apart(NamesOf(p))
  <2> SUFFICES ASSUME NEW i, NEW j, NEW k, NEW l, NEW x, At(NamesOf(p), i, k, x), At(NamesOf(p), j, l, x)
               PROVE  i = j /\ k = l
    BY DEF Apart
  <2>1. i \in 1..n /\ In(p[i].names, k, x) /\ \E a : At(NamesOf(groups), i, a, x)
    BY <1>7
  <2>2. j \in 1..n /\ In(p[j].names, l, x) /\ \E a : At(NamesOf(groups), j, a, x)
    BY <1>7
  <2>3. i = j
    BY <1>4, <2>1, <2>2 DEF Apart
  <2>4. k = l
    BY <1>6, <2>1, <2>2, <2>3
  <2> QED BY <2>3, <2>4
<1>9. PagesAgree(p)
  <2>1. \A i \in 1..n : p[i].uniform = groups[i].uniform /\ p[i].spec = groups[i].spec
    BY <1>6
  <2>2. p[1].spec = groups[1].spec
    BY <1>1, <2>1
  <2> QED BY <1>3, <1>4, <2>1, <2>2 DEF PagesAgree, n
<1> QED BY <1>7, <1>8, <1>9 DEF SingleGroup, p

----------------------------------------------------------------------------
(* All layers of a worker are in its groups *)

LEMMA LenOfFlattened ==
    ASSUME NEW T, NEW seqs \in Seq(Seq(T)),
           NEW lens \in Seq(Nat), Len(lens) = Len(seqs), \A i \in 1..Len(seqs) : lens[i] = Len(seqs[i])
    PROVE  Len(FlattenSeq(seqs)) = SumSeq(lens)
<1> DEFINE n == Len(seqs)
<1>1. n \in Nat /\ \A i \in 1..n : seqs[i] \in Seq(T)
  OBVIOUS
<1>2. PICK h : SumOf(h, lens) /\ SumSeq(lens) = h[n]
  BY Sums
<1>3. h[0] = 0 /\ \A i \in 1..n : h[i] = h[i-1] + lens[i]
  BY <1>2 DEF SumOf
<1>4. CASE n = 0
  <2>1. FlattenSeq(seqs) = seqs
    BY <1>4 DEF FlattenSeq
  <2> QED BY <1>2, <1>3, <1>4, <2>1
<1>5. CASE n # 0
  <2>1. PICK g : /\ FlattenSeq(seqs) = g[n] /\ g[1] = seqs[1]
                 /\ \A i \in 2..n : g[i] = g[i-1] \o seqs[i]
    BY <1>5, Flattens
  <2>2. \A i \in 1..n : lens[i] = Len(seqs[i]) /\ lens[i] \in Nat
    OBVIOUS
  <2> DEFINE Good == {i \in 0..n : i # 0 => g[i] \in Seq(T) /\ Len(g[i]) = h[i]}
  <2> HIDE DEF n
  <2>3. 0 \in Good
    BY <1>1
  <2>4. ASSUME NEW i \in 1..n, i - 1 \in Good PROVE i \in Good
    <3>1. CASE i = 1
      <4>1. h[1] = h[0] + lens[1] /\ lens[1] \in Nat /\ 1 \in 1..n /\ i \in 0..n
        BY <1>1, <1>3, <2>2, <3>1
      <4> QED BY <1>1, <1>3, <2>1, <2>2, <3>1, <4>1
    <3>2. CASE i # 1
      <4> DEFINE s == g[i-1]
                 t == seqs[i]
      <4>1. i \in 2..n /\ i \in 0..n /\ i - 1 # 0 /\ i \in Nat
        BY <1>1, <3>2
      <4>2. s \in Seq(T) /\ t \in Seq(T) /\ g[i] = s \o t /\ Len(s) = h[i-1] /\ Len(t) = lens[i]
        BY <1>1, <2>1, <2>2, <2>4, <4>1
      <4> HIDE DEF s, t, Good
      <4>3. g[i] \in Seq(T) /\ Len(g[i]) = Len(s) + Len(t)
        <5>1. s \in Seq(T) /\ t \in Seq(T)
          BY <4>2
        <5>2. s \o t \in Seq(T) /\ Len(s \o t) = Len(s) + Len(t)
          BY ONLY <5>1, ConcatProperties
        <5> QED BY <4>2, <5>2
      <4>4. Len(g[i]) = h[i]
        BY <1>3, <4>2, <4>3
      <4> QED BY <4>1, <4>3, <4>4 DEF Good
    <3> QED BY <3>1, <3>2
  <2>5. 0..n \subseteq Good
    <3> HIDE DEF Good
    <3> QED BY <1>1, <2>3, <2>4, BoundedInduction
  <2>6. n \in Good
    BY <1>1, <2>5
  <2> QED BY <1>2, <1>5, <2>1, <2>6 DEF n
<1> QED BY <1>4, <1>5

(* As many names as the worker has layers, and each once: every layer. *)
LEMMA Covered ==
    ASSUME NEW groups, FineGroups(groups), Apart(NamesOf(groups)), NEW worker, IsFiniteSet(DOMAIN worker),
           \A i, k, x : At(NamesOf(groups), i, k, x) => x \in DOMAIN worker, Assigned(groups, worker),
           NEW x \in DOMAIN worker
    PROVE  \E i \in 1..Len(groups) : \E k : In(groups[i].names, k, x)
<1> DEFINE n == Len(groups)
           W == DOMAIN worker
           names == NamesOf(groups)
           lens == [i \in 1..n |-> Len(groups[i].names)]
           s == FlattenSeq(names)
<1>1. n \in Nat \ {0} /\ DOMAIN groups = 1..n /\ \A i \in 1..n : FineGroup(groups[i])
  BY DEF FineGroups
<1>2. \A i \in 1..n : Len(groups[i].names) \in Nat /\ groups[i].names \in Seq(DOMAIN groups[i].layers)
  BY <1>1 DEF FineGroup
<1>3. SumSeq(lens) = Cardinality(W)
  BY <1>1 DEF Assigned
<1>4. Len(names) = n /\ \A i \in 1..n : names[i] = groups[i].names
  BY <1>1, NamesAt
<1>5. lens \in [1..n -> Nat]
  BY <1>2
<1>6. lens \in Seq(Nat) /\ Len(lens) = n
  <2> HIDE DEF lens
  <2> QED BY <1>1, <1>5, FunctionIsSeq
<1>7. names \in [1..n -> Seq(W)]
  <2>1. ASSUME NEW i \in 1..n PROVE groups[i].names \in Seq(W)
    <3> DEFINE t == groups[i].names
    <3>1. Len(t) \in Nat /\ t \in Seq(DOMAIN groups[i].layers)
      BY <1>2
    <3>2. \A k \in 1..Len(t) : At(names, i, k, t[k])
      BY <1>4 DEF At, In
    <3>3. \A k \in 1..Len(t) : t[k] \in W
      BY <3>2
    <3> HIDE DEF t, W, names
    <3>4. t = [k \in 1..Len(t) |-> t[k]]
      BY <3>1
    <3>5. t \in [1..Len(t) -> W]
      BY <3>3, <3>4
    <3>6. t \in Seq(W)
      BY <3>1, <3>5
    <3> QED BY <3>6 DEF t
  <2>2. names = [i \in 1..n |-> groups[i].names]
    BY DEF NamesOf
  <2> HIDE DEF names, W
  <2> QED BY <2>1, <2>2
<1> DEFINE U == Seq(W)
<1> HIDE DEF names, W, U
<1>8. names \in Seq(U)
  BY <1>1, <1>7, FunctionIsSeq DEF U
<1>9. names \in Seq(Seq(W))
  BY <1>8 DEF U
<1>10. s \in Seq(W) /\ \E p, q : Joins(s, names, Len(names), p, q)
  BY <1>9, FlattenedType, Joined
<1>11. Len(s) = Cardinality(W)
  <2>1. \A i \in 1..Len(names) : lens[i] = Len(names[i])
    BY <1>4
  <2>2. Len(lens) = Len(names)
    BY <1>4, <1>6
  <2> HIDE DEF lens
  <2>3. Len(s) = SumSeq(lens)
    BY <1>6, <1>9, <2>1, <2>2, LenOfFlattened
  <2> QED BY <1>3, <2>3 DEF lens
<1> HIDE DEF s
<1>12. Distinct(s)
  BY <1>10, ApartFlat DEF names
<1> DEFINE R == {s[k] : k \in 1..Len(s)}
<1>13. Lists(s, R)
  <2>1. s \in Seq(R)
    <3>1. s = [k \in 1..Len(s) |-> s[k]] /\ Len(s) \in Nat
      BY <1>10
    <3>2. \A k \in 1..Len(s) : s[k] \in R
      OBVIOUS
    <3> HIDE DEF R
    <3>3. s \in [1..Len(s) -> R]
      BY <3>1, <3>2
    <3> QED BY <3>1, <3>3
  <2> QED BY <1>12, <2>1 DEF Lists
<1>14. Cardinality(R) = Len(s)
  <2> HIDE DEF R
  <2> QED BY <1>13, ListedType
<1>15. R \in SUBSET W
  BY <1>10
<1>16. R = W
  <2> HIDE DEF R
  <2> QED BY <1>11, <1>14, <1>15, FS_Subset DEF W
<1>17. PICK f \in 1..Len(s) : s[f] = x
  BY <1>16 DEF W
<1>18. PICK p, q : Joins(s, names, Len(names), p, q)
  BY <1>10
<1>19. At(names, p[f], q[f], x)
  BY <1>17, <1>18 DEF Joins, At, In
<1> QED BY <1>4, <1>19 DEF At

----------------------------------------------------------------------------
(* Where the layers lie *)

(* The k-th of each of the lists that is as long. *)
Column(lists, k) ==
    FlattenSeq([j \in 1..Len(lists) |-> IF k <= Len(lists[j]) THEN <<lists[j][k]>> ELSE <<>>])

LEMMA ColumnHas ==
    ASSUME NEW lists, Len(lists) \in Nat, \A j \in 1..Len(lists) : Len(lists[j]) \in Nat, NEW k \in Nat \ {0}
    PROVE  /\ DOMAIN Column(lists, k) = 1..Len(Column(lists, k))
           /\ \A x : (\E a : In(Column(lists, k), a, x)) <=> (\E j : At(lists, j, k, x))
<1> DEFINE n == Len(lists)
           T == {lists[j][k] : j \in 1..n}
           part(j) == IF k <= Len(lists[j]) THEN <<lists[j][k]>> ELSE <<>>
           seqs == [j \in 1..n |-> part(j)]
           s == FlattenSeq(seqs)
<1>1. \A j \in 1..n : /\ part(j) \in Seq(T)
                      /\ \A a, x : In(part(j), a, x) <=> a = 1 /\ At(lists, j, k, x)
  <2> SUFFICES ASSUME NEW j \in 1..n
               PROVE  part(j) \in Seq(T) /\ \A a, x : In(part(j), a, x) <=> a = 1 /\ At(lists, j, k, x)
    OBVIOUS
  <2> DEFINE y == lists[j][k]
  <2>1. y \in T
    OBVIOUS
  <2> HIDE DEF T
  <2>2. k \in 1..Len(lists[j]) <=> k <= Len(lists[j])
    OBVIOUS
  <2>3. \A x : At(lists, j, k, x) <=> k <= Len(lists[j]) /\ x = y
    BY <2>2 DEF At, In
  <2>4. CASE k <= Len(lists[j])
    <3>1. part(j) = <<y>>
      BY <2>4
    <3> HIDE DEF y, part
    <3>2. <<y>> \in Seq(T) /\ \A a, x : In(<<y>>, a, x) <=> a = 1 /\ x = y
      BY <2>1 DEF In
    <3> QED BY <2>3, <2>4, <3>1, <3>2
  <2>5. CASE ~(k <= Len(lists[j]))
    <3>1. part(j) = <<>>
      BY <2>5
    <3> HIDE DEF y, part
    <3>2. <<>> \in Seq(T) /\ \A a, x : ~In(<<>>, a, x)
      BY DEF In
    <3> QED BY <2>3, <2>5, <3>1, <3>2
  <2> QED BY <2>4, <2>5
<1>2. Column(lists, k) = s
  BY DEF Column
<1>3. Len(seqs) = n /\ \A j \in 1..n : seqs[j] = part(j)
  OBVIOUS
<1> HIDE DEF part, T
<1>4. seqs \in Seq(Seq(T))
  <2> DEFINE U == Seq(T)
  <2>1. seqs \in [1..n -> U]
    BY <1>1
  <2> HIDE DEF seqs, n, U
  <2>2. n \in Nat
    BY DEF n
  <2>3. seqs \in Seq(U)
    BY <2>1, <2>2, FunctionIsSeq
  <2> QED BY <2>3 DEF U
<1> HIDE DEF seqs
<1>5. PICK p, q : Joins(s, seqs, Len(seqs), p, q)
  BY <1>4, Joined
<1>8. s \in Seq(T)
  BY <1>4, FlattenedType
<1> HIDE DEF s, n
<1>9. DOMAIN s = 1..Len(s)
  BY <1>8
<1>6. ASSUME NEW a, NEW x, In(s, a, x) PROVE \E j : At(lists, j, k, x)
  <2>1. p[a] \in 1..n /\ In(seqs[p[a]], q[a], x)
    BY <1>3, <1>5, <1>6 DEF Joins, In
  <2> QED BY <1>1, <1>3, <2>1
<1>7. ASSUME NEW j, NEW x, At(lists, j, k, x) PROVE \E a : In(s, a, x)
  <2>1. j \in 1..n
    BY <1>7 DEF At, n
  <2>2. In(seqs[j], 1, x)
    BY <1>1, <1>3, <1>7, <2>1
  <2>3. 1 \in 1..Len(seqs[j]) /\ seqs[j][1] = x
    BY <2>2 DEF In
  <2>4. PICK a \in 1..Len(s) : p[a] = j /\ q[a] = 1
    BY <1>3, <1>5, <2>1, <2>3 DEF Joins
  <2>5. s[a] = seqs[p[a]][q[a]]
    BY <1>5 DEF Joins
  <2> QED BY <2>3, <2>4, <2>5 DEF In
<1> QED BY <1>2, <1>6, <1>7, <1>9

(* Layer n is in tensor i, and in group g. *)
Listed(tensors, i, n) == i \in 1..Len(tensors) /\ \E k : In(tensors[i].shared_by, k, n)
Owns(groups, g, n) == \E k : At(NamesOf(groups), g, k, n)
PageIn(groups, g, n) == SpecIn(groups[g], n).page

(* In a tensor for num blocks, a page is in each, and none is lost. *)
Room(t, page, num) ==
    IF t.stride > 0 THEN t.offset + page <= t.stride /\ t.size = t.stride * num ELSE t.size = page * num
Clear(t, page, u, other) == t.offset + page <= u.offset \/ u.offset + other <= t.offset

(* The layers of the groups lie apart in the tensors. *)
LaidOut(tensors, groups, num) ==
    /\ Len(tensors) \in Nat
    /\ \A i, j, n : Listed(tensors, i, n) /\ Listed(tensors, j, n) => i = j
    /\ \A g, n : Owns(groups, g, n) => \E i : Listed(tensors, i, n)
    /\ \A g, i, n : Owns(groups, g, n) /\ Listed(tensors, i, n) => Room(tensors[i], PageIn(groups, g, n), num)
    /\ \A g, i, j, m, n :
          Owns(groups, g, m) /\ Owns(groups, g, n) /\ m # n /\ Listed(tensors, i, m) /\ Listed(tensors, j, n) =>
              /\ i # j
              /\ tensors[i].stride > 0 => Clear(tensors[i], PageIn(groups, g, m), tensors[j], PageIn(groups, g, n))

LEMMA OwnerIs ==
    ASSUME NEW groups, FineGroups(groups), NEW g, NEW n, Owns(groups, g, n)
    PROVE  /\ g \in 1..Len(groups) /\ FineGroup(groups[g]) /\ \E k : In(groups[g].names, k, n)
           /\ n \in ToSet(groups[g].names) /\ n \in DOMAIN groups[g].layers
<1>1. Len(groups) \in Nat /\ DOMAIN groups = 1..Len(groups) /\ \A i \in 1..Len(groups) : FineGroup(groups[i])
  BY DEF FineGroups
<1>2. PICK k : At(NamesOf(groups), g, k, n)
  BY DEF Owns
<1>3. g \in 1..Len(groups) /\ In(groups[g].names, k, n) /\ FineGroup(groups[g])
  BY <1>1, <1>2, NamesAt
<1> DEFINE h == groups[g]
<1>4. FineGroup(h) /\ k \in 1..Len(h.names) /\ h.names[k] = n
  BY <1>3 DEF In
<1> HIDE DEF h
<1>5. DOMAIN h.names = 1..Len(h.names) /\ \A i \in 1..Len(h.names) : h.names[i] \in DOMAIN h.layers
  <2>1. h.names \in Seq(DOMAIN h.layers)
    BY <1>4 DEF FineGroup
  <2> DEFINE E == DOMAIN h.layers
             s == h.names
  <2>2. s \in Seq(E)
    BY <2>1
  <2> HIDE DEF E, s
  <2>3. DOMAIN s = 1..Len(s) /\ \A i \in 1..Len(s) : s[i] \in E
    BY ONLY <2>2
  <2> QED BY <2>3 DEF E, s
<1>6. n \in ToSet(h.names) /\ n \in DOMAIN h.layers
  BY <1>4, <1>5 DEF ToSet
<1> QED BY <1>3, <1>6 DEF h

LEMMA TensorParts ==
    ASSUME NEW x, NEW l, NEW o, NEW st, NEW t, t = Tensor(x, l, o, st)
    PROVE  t.size = x /\ t.shared_by = l /\ t.offset = o /\ t.stride = st
<1>1. t = [size |-> x, shared_by |-> l, offset |-> o, stride |-> st]
  BY DEF Tensor
<1> QED BY <1>1

(* A tensor for each layer. *)
LEMMA LayersLaidOut ==
    ASSUME NEW groups, FineGroups(groups), Apart(NamesOf(groups)), OneUniform(groups), NEW num \in Nat \ {0}
    PROVE  LaidOut(LayerTensors(groups[1], num), groups, num)
<1> DEFINE h == groups[1]
           s == h.names
           n == Len(s)
           tensors == LayerTensors(h, num)
<1>1. Len(groups) = 1 /\ h.uniform /\ FineGroup(h)
  BY GroupsAreFinite DEF OneUniform, FineGroups
<1>2. n \in Nat /\ DOMAIN s = 1..n
  <2> HIDE DEF h
  <2> QED BY <1>1, FineParts
<1>3. tensors = [i \in 1..n |-> Tensor(h.layers[s[i]].page * num, <<s[i]>>, 0, 0)]
  BY <1>2 DEF LayerTensors
<1> HIDE DEF tensors
<1>16. Len(tensors) = n
  <2> HIDE DEF n
  <2> QED BY <1>2, <1>3
<1>17. ASSUME NEW i \in 1..n
       PROVE  tensors[i].shared_by = <<s[i]>> /\ tensors[i].stride = 0 /\ tensors[i].size = h.layers[s[i]].page * num
  <2> DEFINE x == h.layers[s[i]].page * num
             l == <<s[i]>>
             t == tensors[i]
  <2>1. t = Tensor(x, l, 0, 0)
    BY <1>3
  <2> HIDE DEF x, l, t
  <2>2. t.size = x /\ t.shared_by = l /\ t.stride = 0
    BY <2>1, TensorParts
  <2> QED BY <2>2 DEF x, l, t
<1>4. Len(tensors) = n /\ \A i \in 1..n : /\ tensors[i].shared_by = <<s[i]>> /\ tensors[i].stride = 0
                                          /\ tensors[i].size = h.layers[s[i]].page * num
  BY <1>16, <1>17
<1> HIDE DEF h, s, n
<1>5. \A i, x : Listed(tensors, i, x) <=> In(s, i, x)
  <2> SUFFICES ASSUME NEW i, NEW x PROVE Listed(tensors, i, x) <=> In(s, i, x)
    OBVIOUS
  <2> DEFINE y == s[i]
  <2>1. \A k : In(<<y>>, k, x) <=> k = 1 /\ x = y
    <3> HIDE DEF y
    <3> QED BY DEF In
  <2>2. i \in 1..n => ((\E k : In(tensors[i].shared_by, k, x)) <=> x = y)
    BY <1>4, <2>1
  <2>3. In(s, i, x) <=> i \in 1..n /\ x = y
    BY DEF In, n
  <2> HIDE DEF y
  <2> QED BY <1>4, <2>2, <2>3 DEF Listed
<1>6. \A g, x : Owns(groups, g, x) => g = 1 /\ \E i : In(s, i, x)
  <2> SUFFICES ASSUME NEW g, NEW x, Owns(groups, g, x) PROVE g = 1 /\ \E i : In(s, i, x)
    OBVIOUS
  <2>1. g \in 1..Len(groups) /\ \E k : In(groups[g].names, k, x)
    BY OwnerIs
  <2>2. g = 1
    BY <1>1, <2>1
  <2> QED BY <2>1, <2>2 DEF s, h
<1>7. \A i, j, x : In(s, i, x) /\ In(s, j, x) => i = j
  <2>1. \A i, x : In(s, i, x) => At(NamesOf(groups), 1, i, x)
    <3>1. Len(groups) \in Nat /\ 1 \in 1..Len(groups)
      BY <1>1
    <3>2. \A i, x : In(groups[1].names, i, x) => At(NamesOf(groups), 1, i, x)
      BY <3>1, NamesAt
    <3> QED BY <3>2 DEF s, h
  <2> QED BY <2>1 DEF Apart
<1>8. \A x : PageIn(groups, 1, x) = h.layers[x].page
  BY <1>1 DEF PageIn, SpecIn, h
<1>9. \A i, x : In(s, i, x) => Room(tensors[i], h.layers[x].page, num)
  BY <1>4 DEF Room, In, n
<1>10. Len(tensors) \in Nat
  BY <1>2, <1>4
<1>11. \A i, j, x : Listed(tensors, i, x) /\ Listed(tensors, j, x) => i = j
  BY <1>5, <1>7
<1>12. \A g, x : Owns(groups, g, x) => \E i : Listed(tensors, i, x)
  BY <1>5, <1>6
<1>13. \A g, i, x : Owns(groups, g, x) /\ Listed(tensors, i, x) => Room(tensors[i], PageIn(groups, g, x), num)
  BY <1>5, <1>6, <1>8, <1>9
<1>14. \A i, j, x, y : x # y /\ Listed(tensors, i, x) /\ Listed(tensors, j, y) => i # j /\ ~(tensors[i].stride > 0)
  BY <1>4, <1>5 DEF In, n
<1>15. LaidOut(tensors, groups, num)
  BY <1>10, <1>11, <1>12, <1>13, <1>14 DEF LaidOut
<1> QED BY <1>15 DEF tensors, h

(* A tensor for the layers at the same place of each group. *)
LEMMA PoolLaidOut ==
    ASSUME NEW groups, FineGroups(groups), SingleGroup(groups), ~AllUniform(groups), NEW num \in Nat \ {0}
    PROVE  LaidOut(PooledTensors(groups, num), groups, num)
<1> DEFINE n == Len(groups)
           m == LargestGroup(groups)
           page == groups[1].spec.page
           names == NamesOf(groups)
           tensors == PooledTensors(groups, num)
           layers(i) == FlattenSeq([j \in DOMAIN groups |-> IF i <= Len(groups[j].names) THEN <<groups[j].names[i]>> ELSE <<>>])
<1>1. n \in Nat \ {0} /\ DOMAIN groups = 1..n /\ \A i \in 1..n : FineGroup(groups[i])
  BY DEF FineGroups
<1>2. Apart(names)
  BY DEF SingleGroup
<1>3. \A i \in 1..n : groups[i].uniform = FALSE /\ groups[i].spec.page = page
  BY <1>1 DEF SingleGroup, PagesAgree, AllUniform
<1>4. \A i \in 1..n : Len(groups[i].names) \in Nat /\ Len(groups[i].names) <= m
  <2> DEFINE f == [i \in 1..n |-> Len(groups[i].names)]
             R == {f[i] : i \in 1..n}
  <2>1. \A i \in 1..n : f[i] \in Nat
    BY <1>1, FineParts
  <2>2. m = Max(R)
    BY <1>1 DEF LargestGroup
  <2>3. f \in [1..n -> Nat]
    <3>1. f = [i \in 1..n |-> f[i]]
      OBVIOUS
    <3> HIDE DEF f
    <3> QED BY <2>1, <3>1
  <2>4. IsFiniteSet(1..n) /\ 1..n # {}
    BY <1>1, GroupsAreFinite
  <2> DEFINE D == 1..n
  <2> HIDE DEF f, D
  <2>5. Greatest(Max({f[i] : i \in D}), f, D)
    BY <2>3, <2>4, MaxOfValues DEF D
  <2>6. \A i \in 1..n : f[i] <= m
    BY <2>2, <2>5 DEF Greatest, D
  <2> QED BY <2>1, <2>6 DEF f
<1>5. Len(names) = n /\ \A i \in 1..n : names[i] = groups[i].names
  BY <1>1, NamesAt
<1>6. m \in Nat
  BY LargestGroupIs
<1>7. \A i : layers(i) = Column(names, i)
  BY <1>1, <1>5 DEF Column
<1>8. tensors = [i \in 1..m |-> Tensor(page * num, layers(i), 0, 0)]
  BY DEF PooledTensors
<1> HIDE DEF tensors, names, page, layers, m, n
<1>9. Len(tensors) = m /\ \A i \in 1..m : tensors[i].shared_by = Column(names, i) /\ tensors[i].stride = 0 /\ tensors[i].size = page * num
  <2>1. Len(tensors) = m
    BY <1>6, <1>8
  <2>2. ASSUME NEW i \in 1..m
        PROVE  tensors[i].shared_by = Column(names, i) /\ tensors[i].stride = 0 /\ tensors[i].size = page * num
    <3> DEFINE x == page * num
               t == tensors[i]
               l == Column(names, i)
    <3>1. t = Tensor(x, l, 0, 0)
      BY <1>7, <1>8
    <3> HIDE DEF x, t, l
    <3>2. t.size = x /\ t.shared_by = l /\ t.stride = 0
      BY <3>1, TensorParts
    <3> QED BY <3>2 DEF x, t, l
  <2> QED BY <2>1, <2>2
<1>10. \A i, x : Listed(tensors, i, x) <=> \E g : At(names, g, i, x)
  <2>1. ASSUME NEW i \in 1..m PROVE \A x : (\E a : In(Column(names, i), a, x)) <=> (\E g : At(names, g, i, x))
    <3>1. i \in Nat \ {0} /\ Len(names) \in Nat /\ \A j \in 1..Len(names) : Len(names[j]) \in Nat
      BY <1>1, <1>4, <1>5, <1>6
    <3> QED BY <3>1, ColumnHas
  <2>2. \A g, i, x : At(names, g, i, x) => i \in 1..m
    <3> SUFFICES ASSUME NEW g, NEW i, NEW x, At(names, g, i, x) PROVE i \in 1..m
      OBVIOUS
    <3>1. g \in 1..n /\ i \in 1..Len(groups[g].names)
      BY <1>5 DEF At, In
    <3> QED BY <1>4, <1>6, <3>1
  <2> QED BY <1>9, <2>1, <2>2 DEF Listed
<1>11. \A g, x : Owns(groups, g, x) => \E k : At(names, g, k, x)
  BY DEF Owns, names
<1>12. \A g, x : Owns(groups, g, x) => PageIn(groups, g, x) = page
  <2> SUFFICES ASSUME NEW g, NEW x, Owns(groups, g, x) PROVE PageIn(groups, g, x) = page
    OBVIOUS
  <2>1. g \in 1..n
    BY OwnerIs DEF n
  <2> QED BY <1>3, <2>1 DEF PageIn, SpecIn
<1>13. Len(tensors) \in Nat
  BY <1>6, <1>9
<1>14. \A i, j, x : Listed(tensors, i, x) /\ Listed(tensors, j, x) => i = j
  BY <1>2, <1>10 DEF Apart
<1>15. \A g, x : Owns(groups, g, x) => \E i : Listed(tensors, i, x)
  BY <1>10, <1>11
<1>16. \A g, i, x : Owns(groups, g, x) /\ Listed(tensors, i, x) => Room(tensors[i], PageIn(groups, g, x), num)
  BY <1>9, <1>12 DEF Room, Listed
<1>17. \A g, i, j, x, y :
          Owns(groups, g, x) /\ Owns(groups, g, y) /\ x # y /\ Listed(tensors, i, x) /\ Listed(tensors, j, y) =>
              i # j /\ ~(tensors[i].stride > 0)
  <2> SUFFICES ASSUME NEW g, NEW i, NEW j, NEW x, NEW y, Owns(groups, g, x), Owns(groups, g, y), x # y,
                      Listed(tensors, i, x), Listed(tensors, j, y)
               PROVE  i # j /\ ~(tensors[i].stride > 0)
    OBVIOUS
  <2>1. At(names, g, i, x) /\ At(names, g, j, y)
    BY <1>2, <1>10, <1>11 DEF Apart
  <2>2. i # j
    BY <2>1 DEF At, In
  <2>3. tensors[i].stride = 0
    BY <1>9 DEF Listed
  <2> QED BY <2>2, <2>3
<1>18. LaidOut(tensors, groups, num)
  BY <1>13, <1>14, <1>15, <1>16, <1>17 DEF LaidOut
<1> QED BY <1>18 DEF tensors

----------------------------------------------------------------------------
(* The slots of one allocation *)

(* The layers of one page, in each of the groups. *)
OfPages(groups, ps) == [i \in 1..Len(groups) |-> OfPage(groups[i], ps)]

LEMMA OfPagesHave ==
    ASSUME NEW groups, FineGroups(groups), Apart(NamesOf(groups)), NEW ps
    PROVE  /\ Len(OfPages(groups, ps)) = Len(groups)
           /\ \A g \in 1..Len(groups) : Len(OfPages(groups, ps)[g]) \in Nat
           /\ \A g, x : (\E k : At(OfPages(groups, ps), g, k, x)) <=> Owns(groups, g, x) /\ PageIn(groups, g, x) = ps
           /\ Apart(OfPages(groups, ps))
<1> DEFINE n == Len(groups)
           lists == OfPages(groups, ps)
<1>1. n \in Nat \ {0} /\ DOMAIN groups = 1..n /\ \A i \in 1..n : FineGroup(groups[i])
  BY DEF FineGroups
<1>2. Len(lists) = n /\ \A g \in 1..n : lists[g] = OfPage(groups[g], ps)
  BY <1>1 DEF OfPages
<1> HIDE DEF lists
<1>3. ASSUME NEW g \in 1..n
      PROVE  /\ Len(lists[g]) \in Nat
             /\ \A x : (\E k : In(lists[g], k, x)) <=> (\E k : In(groups[g].names, k, x)) /\ PageIn(groups, g, x) = ps
             /\ \A k, l, x : In(lists[g], k, x) /\ In(lists[g], l, x) => k = l
  <2> DEFINE h == groups[g]
             s == h.names
             D == DOMAIN h.layers
             S == {x \in ToSet(s) : SpecIn(h, x).page = ps}
             t == Only(s, S)
  <2>1. FineGroup(h) /\ lists[g] = t
    BY <1>1, <1>2 DEF OfPage
  <2>2. \A k, l, x : In(s, k, x) /\ In(s, l, x) => k = l
    <3>1. \A k, x : In(s, k, x) => At(NamesOf(groups), g, k, x)
      BY <1>1, NamesAt
    <3> HIDE DEF s
    <3> QED BY <3>1 DEF Apart
  <2>3. \A x : x \in S <=> x \in ToSet(s) /\ PageIn(groups, g, x) = ps
    BY DEF PageIn
  <2> HIDE DEF h
  <2>4. s \in Seq(D)
    BY <2>1 DEF FineGroup
  <2> HIDE DEF s, D, S
  <2>5. Selects(t, s, S, D)
    BY <2>4, OnlySelects
  <2>6. Distinct(s)
    BY <2>2 DEF Distinct, In
  <2> HIDE DEF t
  <2>7. Distinct(t) /\ t \in Seq(D) /\ \A x : (\E k \in 1..Len(t) : t[k] = x) <=> x \in S /\ \E k \in 1..Len(s) : s[k] = x
    BY <2>5, <2>6 DEF Selects
  <2>8. \A k, x : In(s, k, x) => x \in ToSet(s)
    BY <2>4 DEF In, ToSet
  <2>9. \A x : (\E k : In(t, k, x)) <=> x \in S /\ \E k : In(s, k, x)
    BY <2>7 DEF In
  <2>10. \A x : (\E k : In(t, k, x)) <=> (\E k : In(s, k, x)) /\ PageIn(groups, g, x) = ps
    BY <2>3, <2>8, <2>9
  <2>11. \A k, l, x : In(t, k, x) /\ In(t, l, x) => k = l
    BY <2>7 DEF In, Distinct
  <2>12. Len(t) \in Nat
    BY <2>7
  <2> QED BY <2>1, <2>10, <2>11, <2>12 DEF s, h
<1>4. \A g, x : Owns(groups, g, x) <=> g \in 1..n /\ \E k : In(groups[g].names, k, x)
  BY <1>1, NamesAt DEF Owns
<1>5. \A g, x : (\E k : At(lists, g, k, x)) <=> Owns(groups, g, x) /\ PageIn(groups, g, x) = ps
  BY <1>2, <1>3, <1>4 DEF At
<1>6. \A g, h, x : Owns(groups, g, x) /\ Owns(groups, h, x) => g = h
  BY DEF Owns, Apart
<1>7. Apart(lists)
  <2> SUFFICES ASSUME NEW g, NEW h, NEW k, NEW l, NEW x, At(lists, g, k, x), At(lists, h, l, x)
               PROVE  g = h /\ k = l
    BY DEF Apart
  <2>1. g = h
    BY <1>5, <1>6
  <2>2. g \in 1..n /\ In(lists[g], k, x) /\ In(lists[g], l, x)
    BY <1>2, <2>1 DEF At
  <2> QED BY <1>3, <2>1, <2>2
<1>8. Len(lists) = n /\ \A g \in 1..n : Len(lists[g]) \in Nat
  BY <1>2, <1>3
<1> QED BY <1>5, <1>7, <1>8 DEF lists

(* The slots of one page. *)
SlotOf(groups, ps, k) == [ps |-> ps, layers |-> SlotLayers(groups, ps, k)]
SlotsOfPage(groups, ps) == [k \in 1..NumSlots(groups, ps) |-> SlotOf(groups, ps, k)]
SlotParts(groups) == [i \in 1..Len(PagesInOrder(groups)) |-> SlotsOfPage(groups, PagesInOrder(groups)[i])]

LEMMA SlotOfParts ==
    ASSUME NEW groups, NEW ps, NEW k
    PROVE  SlotOf(groups, ps, k).ps = ps /\ SlotOf(groups, ps, k).layers = SlotLayers(groups, ps, k)
<1> DEFINE l == SlotLayers(groups, ps, k)
<1>1. SlotOf(groups, ps, k) = [ps |-> ps, layers |-> l]
  BY DEF SlotOf
<1> HIDE DEF l
<1>2. [ps |-> ps, layers |-> l].ps = ps /\ [ps |-> ps, layers |-> l].layers = l
  OBVIOUS
<1> QED BY <1>1, <1>2 DEF l

LEMMA PagesListed ==
    ASSUME NEW groups, FineGroups(groups)
    PROVE  /\ Lists(PagesInOrder(groups), SlotPages(groups))
           /\ PagesInOrder(groups) \in Seq(Nat) /\ DOMAIN PagesInOrder(groups) = 1..Len(PagesInOrder(groups))
<1> DEFINE S == SlotPages(groups)
           s == PagesInOrder(groups)
<1>1. IsFiniteSet(S) /\ S \subseteq Nat \ {0} /\ s = InOrder(S)
  BY SlotPagesAre DEF PagesInOrder
<1> HIDE DEF S, s
<1>2. Lists(s, S)
  BY <1>1, InOrderLists
<1>3. s \in Seq(S) /\ S \subseteq Nat
  BY <1>1, <1>2 DEF Lists
<1>4. s \in Seq(Nat)
  BY <1>3, SeqMonotonic
<1>5. DOMAIN s = 1..Len(s)
  BY <1>4
<1> QED BY <1>2, <1>4, <1>5 DEF s, S

LEMMA SlotsEnough ==
    ASSUME NEW groups, FineGroups(groups), NEW ps, NEW g \in 1..Len(groups)
    PROVE  Len(OfPage(groups[g], ps)) <= NumSlots(groups, ps)
<1> DEFINE D == DOMAIN groups
           f == [i \in D |-> Len(OfPage(groups[i], ps))]
           R == {Len(OfPage(h, ps)) : h \in ToSet(groups)}
<1>1. f \in [D -> Nat]
  <2>1. ASSUME NEW i \in D PROVE Len(OfPage(groups[i], ps)) \in Nat
    BY OfPageType DEF FineGroups
  <2> HIDE DEF D
  <2> QED BY <2>1
<1>2. R = {f[x] : x \in D}
  BY DEF ToSet
<1>3. IsFiniteSet(D) /\ D # {} /\ g \in D
  BY GroupsAreFinite DEF FineGroups
<1>4. NumSlots(groups, ps) = Max(R) /\ f[g] = Len(OfPage(groups[g], ps))
  BY <1>3 DEF NumSlots
<1> HIDE DEF D, f, R
<1>5. Greatest(Max(R), f, D)
  BY <1>1, <1>2, <1>3, MaxOfValues
<1> QED BY <1>3, <1>4, <1>5 DEF Greatest

LEMMA SlotsJoined ==
    ASSUME NEW groups, FineGroups(groups)
    PROVE  /\ Slots(groups) = FlattenSeq(SlotParts(groups))
           /\ Len(SlotParts(groups)) = Len(PagesInOrder(groups))
           /\ \A i \in 1..Len(PagesInOrder(groups)) : SlotParts(groups)[i] = SlotsOfPage(groups, PagesInOrder(groups)[i])
           /\ \E T : (\A x \in T : x.ps \in Nat) /\ SlotParts(groups) \in Seq(Seq(T))
<1> DEFINE pages == PagesInOrder(groups)
           n == Len(pages)
           parts == SlotParts(groups)
           T == UNION {Range(SlotsOfPage(groups, pages[i])) : i \in 1..n}
<1>1. pages \in Seq(Nat) /\ DOMAIN pages = 1..n
  BY PagesListed
<1>2. Slots(groups) = FlattenSeq(parts)
  BY <1>1 DEF Slots, SlotParts, SlotsOfPage, SlotOf
<1>3. parts = [i \in 1..n |-> SlotsOfPage(groups, pages[i])]
  BY DEF SlotParts
<1> HIDE DEF pages, parts
<1>4. n \in Nat
  BY <1>1
<1>5. Len(parts) = n /\ \A i \in 1..n : parts[i] = SlotsOfPage(groups, pages[i])
  BY <1>3, <1>4
<1>6. ASSUME NEW i \in 1..n PROVE SlotsOfPage(groups, pages[i]) \in Seq(T)
  <2> DEFINE u == SlotsOfPage(groups, pages[i])
             m == NumSlots(groups, pages[i])
  <2>1. m \in Nat
    BY NumSlotsType
  <2>2. DOMAIN u = 1..m
    BY DEF SlotsOfPage
  <2>3. Range(u) \subseteq T
    OBVIOUS
  <2>4. \A k \in DOMAIN u : u[k] \in Range(u)
    BY DEF Range
  <2>5. u = [k \in 1..m |-> u[k]]
    BY <2>2 DEF SlotsOfPage
  <2> HIDE DEF u, m, T
  <2>6. u \in [1..m -> T]
    BY <2>2, <2>3, <2>4, <2>5
  <2>7. u \in Seq(T)
    BY <2>1, <2>6, FunctionIsSeq
  <2> QED BY <2>7 DEF u
<1>7. \A x \in T : x.ps \in Nat
  <2> SUFFICES ASSUME NEW i \in 1..n, NEW x \in Range(SlotsOfPage(groups, pages[i])) PROVE x.ps \in Nat
    OBVIOUS
  <2>1. x.ps = pages[i]
    BY DEF Range, SlotsOfPage, SlotOf
  <2> QED BY <1>1, <2>1
<1>8. parts \in Seq(Seq(T))
  <2> DEFINE U == Seq(T)
  <2> HIDE DEF T, n
  <2>1. parts \in [1..n -> U]
    BY <1>3, <1>6
  <2> HIDE DEF U
  <2>2. parts \in Seq(U)
    BY <1>4, <2>1, FunctionIsSeq
  <2> QED BY <2>2 DEF U
<1> HIDE DEF T
<1> QED BY <1>2, <1>5, <1>7, <1>8 DEF parts, pages

(* Together the slots take the bytes of a block. *)
LEMMA SlotsSum ==
    ASSUME NEW groups, FineGroups(groups), NEW c, ~OneUniform(groups), Packed(c, groups)
    PROVE  SumSeq(PagesOf(Slots(groups))) = _pool_bytes_per_block(c, groups)
<1> DEFINE pages == PagesInOrder(groups)
           n == Len(pages)
           parts == SlotParts(groups)
           sums == [i \in 1..n |-> pages[i] * NumSlots(groups, pages[i])]
<1>1. pages \in Seq(Nat) /\ DOMAIN pages = 1..n
  BY PagesListed
<1>2. /\ Slots(groups) = FlattenSeq(parts) /\ Len(parts) = n
      /\ \A i \in 1..n : parts[i] = SlotsOfPage(groups, pages[i])
  BY SlotsJoined
<1>3. PICK T : (\A x \in T : x.ps \in Nat) /\ parts \in Seq(Seq(T))
  BY SlotsJoined
<1>4. _pool_bytes_per_block(c, groups) = SumSeq(sums)
  BY <1>1 DEF _pool_bytes_per_block
<1> HIDE DEF pages, parts
<1>5. n \in Nat /\ \A i \in 1..n : pages[i] \in Nat
  BY <1>1
<1>6. ASSUME NEW i \in 1..n
      PROVE  sums[i] \in Nat /\ sums[i] = SumSeq(PagesOf(parts[i]))
  <2> DEFINE ps == pages[i]
             m == NumSlots(groups, ps)
             u == SlotsOfPage(groups, ps)
             v == PagesOf(u)
  <2>1. m \in Nat /\ ps \in Nat
    BY <1>5, NumSlotsType
  <2>2. u = [k \in 1..m |-> SlotOf(groups, ps, k)]
    BY DEF SlotsOfPage
  <2>3. sums[i] = ps * m /\ parts[i] = u
    BY <1>2
  <2> HIDE DEF ps, m, u
  <2>4. Len(u) = m /\ \A k \in 1..m : u[k].ps = ps
    BY <2>1, <2>2 DEF SlotOf
  <2>5. v = [k \in 1..m |-> ps]
    BY <2>4 DEF PagesOf
  <2> HIDE DEF v
  <2>6. v \in [1..m -> Nat] /\ \A k \in 1..m : v[k] = ps
    BY <2>1, <2>5
  <2>7. v \in Seq(Nat) /\ Len(v) = m
    BY <2>1, <2>6, FunctionIsSeq
  <2>8. SumSeq(v) = m * ps
    <3>1. \A k \in 1..Len(v) : v[k] = ps
      BY <2>6, <2>7
    <3>2. SumSeq(v) = Len(v) * ps
      BY <2>1, <2>7, <3>1, SumOfEqual
    <3> QED BY <2>7, <3>2
  <2>9. ps * m = m * ps /\ ps * m \in Nat
    BY <2>1
  <2> QED BY <2>3, <2>8, <2>9 DEF v
<1>7. sums \in Seq(Nat) /\ Len(sums) = n
  <2>1. sums = [i \in 1..n |-> sums[i]]
    OBVIOUS
  <2> HIDE DEF sums, n
  <2>2. sums \in [1..n -> Nat]
    BY <1>6, <2>1
  <2> QED BY <1>5, <2>2, FunctionIsSeq
<1>8. \A i \in 1..Len(parts) : sums[i] = SumSeq(PagesOf(parts[i]))
  BY <1>2, <1>6
<1> HIDE DEF sums, n
<1>9. Len(sums) = Len(parts)
  BY <1>2, <1>7
<1>10. SumSeq(PagesOf(FlattenSeq(parts))) = SumSeq(sums)
  BY <1>3, <1>7, <1>8, <1>9, PagesOfFlattened
<1> QED BY <1>2, <1>4, <1>10

(* Slot f holds the q[f]-th layer of its page of each group. *)
HeldBy(groups, slots, q) ==
    /\ \A f \in 1..Len(slots) : DOMAIN slots[f].layers = 1..Len(slots[f].layers)
    /\ \A f \in 1..Len(slots) : \A x : (\E a : In(slots[f].layers, a, x)) <=>
                                       (\E g : At(OfPages(groups, slots[f].ps), g, q[f], x))
    /\ \A f, h \in 1..Len(slots) : slots[f].ps = slots[h].ps /\ q[f] = q[h] => f = h
    /\ \A g, k, x : \A ps : At(OfPages(groups, ps), g, k, x) =>
                           \E f \in 1..Len(slots) : slots[f].ps = ps /\ q[f] = k

LEMMA SlotsHold ==
    ASSUME NEW groups, FineGroups(groups), Apart(NamesOf(groups))
    PROVE  \E q : HeldBy(groups, Slots(groups), q)
<1> DEFINE pages == PagesInOrder(groups)
           n == Len(pages)
           parts == SlotParts(groups)
           slots == Slots(groups)
<1>1. pages \in Seq(Nat) /\ DOMAIN pages = 1..n /\ Distinct(pages) /\ \A ps \in SlotPages(groups) : \E i \in 1..n : pages[i] = ps
  BY PagesListed DEF Lists
<1>2. /\ slots = FlattenSeq(parts) /\ Len(parts) = n
      /\ \A i \in 1..n : parts[i] = SlotsOfPage(groups, pages[i])
  BY SlotsJoined
<1>3. PICK T : parts \in Seq(Seq(T))
  BY SlotsJoined
<1>4. PICK p, q : Joins(slots, parts, Len(parts), p, q)
  BY <1>2, <1>3, Joined
<1> HIDE DEF pages, parts, slots
<1>5. \A i \in 1..n : /\ Len(parts[i]) = NumSlots(groups, pages[i])
                      /\ \A k \in 1..Len(parts[i]) : parts[i][k].ps = pages[i] /\ parts[i][k].layers = SlotLayers(groups, pages[i], k)
  <2> SUFFICES ASSUME NEW i \in 1..n
               PROVE  /\ Len(parts[i]) = NumSlots(groups, pages[i])
                      /\ \A k \in 1..Len(parts[i]) : parts[i][k].ps = pages[i] /\ parts[i][k].layers = SlotLayers(groups, pages[i], k)
    OBVIOUS
  <2> DEFINE ps == pages[i]
             m == NumSlots(groups, ps)
             u == parts[i]
  <2>1. m \in Nat
    BY NumSlotsType
  <2>2. u = [k \in 1..m |-> SlotOf(groups, ps, k)]
    BY <1>2 DEF SlotsOfPage
  <2> HIDE DEF ps, m, u
  <2>3. Len(u) = m /\ \A k \in 1..m : u[k] = SlotOf(groups, ps, k)
    BY <2>1, <2>2
  <2>6. ASSUME NEW k \in 1..m PROVE u[k].ps = ps /\ u[k].layers = SlotLayers(groups, ps, k)
    BY <2>3, SlotOfParts
  <2>4. Len(u) = m /\ \A k \in 1..Len(u) : u[k].ps = ps /\ u[k].layers = SlotLayers(groups, ps, k)
    BY <2>3, <2>6
  <2>5. m = NumSlots(groups, pages[i]) /\ u = parts[i] /\ ps = pages[i]
    BY DEF u, ps, m
  <2> QED BY ONLY <2>4, <2>5
<1>6. \A f \in 1..Len(slots) : p[f] \in 1..n /\ q[f] \in 1..Len(parts[p[f]]) /\ slots[f] = parts[p[f]][q[f]]
  <2> HIDE DEF n
  <2>1. Len(parts) = n
    BY <1>2
  <2>2. \A f \in 1..Len(slots) : p[f] \in 1..Len(parts) /\ q[f] \in 1..Len(parts[p[f]]) /\ slots[f] = parts[p[f]][q[f]]
    BY <1>4 DEF Joins
  <2> QED BY ONLY <2>1, <2>2
<1>7. \A f \in 1..Len(slots) : /\ p[f] \in 1..n /\ q[f] \in 1..NumSlots(groups, pages[p[f]])
                               /\ slots[f].ps = pages[p[f]] /\ slots[f].layers = SlotLayers(groups, slots[f].ps, q[f])
  <2> HIDE DEF n
  <2> SUFFICES ASSUME NEW f \in 1..Len(slots)
               PROVE  /\ p[f] \in 1..n /\ q[f] \in 1..NumSlots(groups, pages[p[f]])
                      /\ slots[f].ps = pages[p[f]] /\ slots[f].layers = SlotLayers(groups, slots[f].ps, q[f])
    OBVIOUS
  <2>1. p[f] \in 1..n /\ q[f] \in 1..Len(parts[p[f]]) /\ slots[f] = parts[p[f]][q[f]]
    BY <1>6
  <2>2. Len(parts[p[f]]) = NumSlots(groups, pages[p[f]])
    BY <1>5, <2>1
  <2>3. parts[p[f]][q[f]].ps = pages[p[f]] /\ parts[p[f]][q[f]].layers = SlotLayers(groups, pages[p[f]], q[f])
    BY <1>5, <2>1
  <2> QED BY ONLY <2>1, <2>2, <2>3
<1>8. ASSUME NEW ps, NEW k \in Nat \ {0}
      PROVE  /\ DOMAIN SlotLayers(groups, ps, k) = 1..Len(SlotLayers(groups, ps, k))
             /\ \A x : (\E a : In(SlotLayers(groups, ps, k), a, x)) <=> (\E g : At(OfPages(groups, ps), g, k, x))
  <2> DEFINE lists == OfPages(groups, ps)
  <2>1. Len(lists) = Len(groups) /\ \A g \in 1..Len(groups) : Len(lists[g]) \in Nat
    BY OfPagesHave
  <2>2. \A g \in 1..Len(groups) : lists[g] = OfPage(groups[g], ps)
    BY DEF OfPages
  <2> HIDE DEF lists
  <2>3. Len(groups) \in Nat /\ DOMAIN groups = 1..Len(groups)
    BY DEF FineGroups
  <2>4. SlotLayers(groups, ps, k) = Column(lists, k)
    BY <2>1, <2>2, <2>3 DEF SlotLayers, Column
  <2>5. /\ DOMAIN Column(lists, k) = 1..Len(Column(lists, k))
        /\ \A x : (\E a : In(Column(lists, k), a, x)) <=> (\E g : At(lists, g, k, x))
    BY <2>1, <2>3, ColumnHas
  <2> QED BY <2>4, <2>5 DEF lists
<1>9. \A f \in 1..Len(slots) :
         /\ DOMAIN slots[f].layers = 1..Len(slots[f].layers)
         /\ \A x : (\E a : In(slots[f].layers, a, x)) <=> (\E g : At(OfPages(groups, slots[f].ps), g, q[f], x))
  <2> SUFFICES ASSUME NEW f \in 1..Len(slots)
               PROVE  /\ DOMAIN slots[f].layers = 1..Len(slots[f].layers)
                      /\ \A x : (\E a : In(slots[f].layers, a, x)) <=> (\E g : At(OfPages(groups, slots[f].ps), g, q[f], x))
    OBVIOUS
  <2> DEFINE ps == slots[f].ps
             k == q[f]
  <2>1. NumSlots(groups, pages[p[f]]) \in Nat
    BY NumSlotsType
  <2>2. k \in Nat \ {0} /\ slots[f].layers = SlotLayers(groups, ps, k)
    BY <1>7, <2>1
  <2> HIDE DEF ps, k
  <2> QED BY <1>8, <2>2 DEF ps, k
<1>10. ASSUME NEW f \in 1..Len(slots), NEW h \in 1..Len(slots), slots[f].ps = slots[h].ps, q[f] = q[h] PROVE f = h
  <2>1. p[f] \in 1..n /\ p[h] \in 1..n /\ pages[p[f]] = pages[p[h]]
    BY <1>7, <1>10
  <2>2. p[f] = p[h]
    BY <1>1, <2>1 DEF Distinct
  <2> QED BY <1>4, <1>10, <2>2 DEF Joins
<1>11. ASSUME NEW g, NEW k, NEW x, NEW ps, At(OfPages(groups, ps), g, k, x)
       PROVE  \E f \in 1..Len(slots) : slots[f].ps = ps /\ q[f] = k
  <2>1. Owns(groups, g, x) /\ PageIn(groups, g, x) = ps
    BY <1>11, OfPagesHave
  <2>2. g \in 1..Len(groups) /\ k \in 1..Len(OfPage(groups[g], ps))
    BY <1>11, OfPagesHave DEF At, In, OfPages
  <2>3. ps \in SlotPages(groups)
    <3>1. g \in 1..Len(groups) /\ x \in ToSet(groups[g].names) /\ DOMAIN groups = 1..Len(groups)
      BY <2>1, OwnerIs DEF FineGroups
    <3>2. groups[g] \in ToSet(groups)
      BY <3>1 DEF ToSet
    <3> QED BY <2>1, <3>1, <3>2 DEF SlotPages, PageIn
  <2>4. PICK i \in 1..n : pages[i] = ps
    BY <1>1, <2>3
  <2>5. k \in 1..NumSlots(groups, ps)
    <3>1. Len(OfPage(groups[g], ps)) <= NumSlots(groups, ps) /\ NumSlots(groups, ps) \in Nat
      BY <2>2, SlotsEnough, NumSlotsType
    <3>2. Len(OfPage(groups[g], ps)) \in Nat
      BY <2>2, OfPageType DEF FineGroups
    <3> QED BY <2>2, <3>1, <3>2
  <2>6. k \in 1..Len(parts[i])
    BY <1>5, <2>4, <2>5
  <2>7. PICK f \in 1..Len(slots) : p[f] = i /\ q[f] = k
    BY <1>2, <1>4, <2>6 DEF Joins
  <2>8. slots[f].ps = ps
    BY <1>7, <2>4, <2>7
  <2> QED BY <2>7, <2>8
<1>12. HeldBy(groups, slots, q)
  BY <1>9, <1>10, <1>11 DEF HeldBy
<1> QED BY <1>12 DEF slots

SlotTensor(slots, per_block, num, i) ==
    Tensor(per_block * num, slots[i].layers, Before(PagesOf(slots), i), per_block)

LEMMA PackedTensorsAre ==
    ASSUME NEW groups, FineGroups(groups), NEW per_block, NEW num
    PROVE  /\ PagesOf(Slots(groups)) \in Seq(Nat) /\ Len(PagesOf(Slots(groups))) = Len(Slots(groups))
           /\ \A i \in 1..Len(Slots(groups)) : PagesOf(Slots(groups))[i] = Slots(groups)[i].ps
           /\ Len(Slots(groups)) \in Nat /\ Len(PackedTensors(groups, per_block, num)) = Len(Slots(groups))
           /\ \A i \in 1..Len(Slots(groups)) :
                 PackedTensors(groups, per_block, num)[i] = SlotTensor(Slots(groups), per_block, num, i)
<1> DEFINE slots == Slots(groups)
           n == Len(slots)
           pages == PagesOf(slots)
           tensors == PackedTensors(groups, per_block, num)
<1>1. PICK T : (\A x \in T : x.ps \in Nat) /\ SlotParts(groups) \in Seq(Seq(T))
  BY SlotsJoined
<1>2. slots = FlattenSeq(SlotParts(groups))
  BY SlotsJoined
<1>3. slots \in Seq(T)
  <2> HIDE DEF slots
  <2> QED BY <1>1, <1>2, FlattenedType
<1>4. tensors = [i \in DOMAIN slots |-> Tensor(per_block * num, slots[i].layers, SumSeq([j \in 1..i-1 |-> slots[j].ps]), per_block)]
  BY DEF PackedTensors
<1> HIDE DEF slots, tensors
<1>5. n \in Nat /\ DOMAIN slots = 1..n
  BY <1>3
<1>6. pages \in Seq(Nat) /\ Len(pages) = n /\ \A i \in 1..n : pages[i] = slots[i].ps
  BY <1>1, <1>3, PagesOfType
<1> HIDE DEF pages
<1>7. Len(tensors) = n
  BY <1>4, <1>5
<1>8. ASSUME NEW i \in 1..n PROVE tensors[i] = SlotTensor(slots, per_block, num, i)
  <2> DEFINE u == [j \in 1..i-1 |-> slots[j].ps]
             v == [j \in 1..i-1 |-> pages[j]]
  <2>1. \A j \in 1..i-1 : slots[j].ps = pages[j]
    BY <1>5, <1>6
  <2>2. u = v
    BY <2>1
  <2>3. Before(pages, i) = SumSeq(u)
    BY <2>2 DEF Before
  <2>4. tensors[i] = Tensor(per_block * num, slots[i].layers, SumSeq(u), per_block)
    BY <1>4, <1>5
  <2> HIDE DEF u
  <2> QED BY <2>3, <2>4 DEF SlotTensor, pages
<1> QED BY <1>5, <1>6, <1>7, <1>8 DEF slots, pages, tensors

(* The slots of a block follow one another. *)
LEMMA PackLaidOut ==
    ASSUME NEW groups, FineGroups(groups), Apart(NamesOf(groups)), NEW c, ~OneUniform(groups), Packed(c, groups),
           _pool_bytes_per_block(c, groups) > 0, NEW num \in Nat \ {0}
    PROVE  LaidOut(PackedTensors(groups, _pool_bytes_per_block(c, groups), num), groups, num)
<1> DEFINE slots == Slots(groups)
           n == Len(slots)
           pages == PagesOf(slots)
           pool == _pool_bytes_per_block(c, groups)
           tensors == PackedTensors(groups, pool, num)
<1>1. pages \in Seq(Nat) /\ Len(pages) = n /\ (\A i \in 1..n : pages[i] = slots[i].ps) /\ n \in Nat /\ Len(tensors) = n
  BY PackedTensorsAre
<1>2. \A i \in 1..n : tensors[i] = SlotTensor(slots, pool, num, i)
  BY PackedTensorsAre
<1>3. PICK q : HeldBy(groups, slots, q)
  BY SlotsHold
<1>4. SumSeq(pages) = pool /\ pool > 0
  BY SlotsSum
<1> HIDE DEF slots, tensors, pool
<1>5. \A i \in 1..n : /\ tensors[i].shared_by = slots[i].layers /\ tensors[i].stride = pool
                      /\ tensors[i].size = pool * num /\ tensors[i].offset = Before(pages, i)
  <2> SUFFICES ASSUME NEW i \in 1..n
               PROVE  /\ tensors[i].shared_by = slots[i].layers /\ tensors[i].stride = pool
                      /\ tensors[i].size = pool * num /\ tensors[i].offset = Before(pages, i)
    OBVIOUS
  <2> DEFINE x == pool * num
             y == slots[i].layers
             z == Before(pages, i)
             t == tensors[i]
  <2>1. t = Tensor(x, y, z, pool)
    BY <1>2 DEF SlotTensor
  <2> HIDE DEF x, y, z, t
  <2>2. t.size = x /\ t.shared_by = y /\ t.offset = z /\ t.stride = pool
    BY <2>1 DEF Tensor
  <2> QED BY <2>2 DEF x, y, z, t
<1> HIDE DEF n, pages
<1>6. \A i, x : Listed(tensors, i, x) <=> i \in 1..n /\ \E g : At(OfPages(groups, slots[i].ps), g, q[i], x)
  BY <1>1, <1>3, <1>5 DEF Listed, HeldBy, n
<1>7. \A ps, g, k, x : At(OfPages(groups, ps), g, k, x) => Owns(groups, g, x) /\ PageIn(groups, g, x) = ps
  BY OfPagesHave
<1>8. \A g, h, x : Owns(groups, g, x) /\ Owns(groups, h, x) => g = h
  BY DEF Owns, Apart
<1>9. ASSUME NEW i, NEW x, Listed(tensors, i, x), NEW g, Owns(groups, g, x)
      PROVE  i \in 1..n /\ PageIn(groups, g, x) = slots[i].ps /\ At(OfPages(groups, slots[i].ps), g, q[i], x)
  <2>1. PICK h : At(OfPages(groups, slots[i].ps), h, q[i], x)
    BY <1>6, <1>9
  <2>2. h = g
    BY <1>7, <1>8, <1>9, <2>1
  <2> QED BY <1>6, <1>7, <1>9, <2>1, <2>2
<1>10. ASSUME NEW i, NEW j, NEW x, Listed(tensors, i, x), Listed(tensors, j, x) PROVE i = j
  <2>1. PICK g : At(OfPages(groups, slots[i].ps), g, q[i], x)
    BY <1>6, <1>10
  <2>2. Owns(groups, g, x)
    BY <1>7, <2>1
  <2>3. /\ i \in 1..n /\ j \in 1..n /\ slots[i].ps = slots[j].ps
        /\ At(OfPages(groups, slots[i].ps), g, q[i], x) /\ At(OfPages(groups, slots[i].ps), g, q[j], x)
    BY <1>9, <1>10, <2>2
  <2>4. Apart(OfPages(groups, slots[i].ps))
    BY OfPagesHave
  <2>5. q[i] = q[j]
    BY <2>3, <2>4 DEF Apart
  <2> QED BY <1>3, <2>3, <2>5 DEF HeldBy, n
<1>11. ASSUME NEW g, NEW x, Owns(groups, g, x) PROVE \E i : Listed(tensors, i, x)
  <2> DEFINE ps == PageIn(groups, g, x)
  <2>1. PICK k : At(OfPages(groups, ps), g, k, x)
    BY <1>11, OfPagesHave
  <2>2. PICK f \in 1..n : slots[f].ps = ps /\ q[f] = k
    BY <1>3, <2>1 DEF HeldBy, n
  <2> QED BY <1>6, <2>1, <2>2
<1>12. \A i \in 1..n : Before(pages, i) \in Nat /\ Before(pages, i) + slots[i].ps <= pool
                       /\ \A j \in 1..n : i < j => Before(pages, i) + slots[i].ps <= Before(pages, j)
  <2>1. \A i \in 1..n : Before(pages, i) \in Nat /\ Before(pages, i) + pages[i] <= SumSeq(pages)
                       /\ \A j \in 1..n : i < j => Before(pages, i) + pages[i] <= Before(pages, j)
    BY <1>1, BeforeGrows
  <2> QED BY <1>1, <1>4, <2>1
<1>13. \A g, i, x : Owns(groups, g, x) /\ Listed(tensors, i, x) => Room(tensors[i], PageIn(groups, g, x), num)
  <2> SUFFICES ASSUME NEW g, NEW i, NEW x, Owns(groups, g, x), Listed(tensors, i, x)
               PROVE  Room(tensors[i], PageIn(groups, g, x), num)
    OBVIOUS
  <2>1. i \in 1..n /\ PageIn(groups, g, x) = slots[i].ps
    BY <1>9
  <2> QED BY <1>4, <1>5, <1>12, <2>1 DEF Room
<1>14. \A g, i, j, x, y :
          Owns(groups, g, x) /\ Owns(groups, g, y) /\ x # y /\ Listed(tensors, i, x) /\ Listed(tensors, j, y) =>
              i # j /\ Clear(tensors[i], PageIn(groups, g, x), tensors[j], PageIn(groups, g, y))
  <2> SUFFICES ASSUME NEW g, NEW i, NEW j, NEW x, NEW y, Owns(groups, g, x), Owns(groups, g, y), x # y,
                      Listed(tensors, i, x), Listed(tensors, j, y)
               PROVE  i # j /\ Clear(tensors[i], PageIn(groups, g, x), tensors[j], PageIn(groups, g, y))
    OBVIOUS
  <2>1. /\ i \in 1..n /\ PageIn(groups, g, x) = slots[i].ps /\ At(OfPages(groups, slots[i].ps), g, q[i], x)
        /\ j \in 1..n /\ PageIn(groups, g, y) = slots[j].ps /\ At(OfPages(groups, slots[j].ps), g, q[j], y)
    BY <1>9
  <2>2. i # j
    BY <2>1 DEF At, In
  <2>3. i < j \/ j < i
    BY <1>1, <2>1, <2>2
  <2>4. tensors[i].offset + slots[i].ps <= tensors[j].offset \/ tensors[j].offset + slots[j].ps <= tensors[i].offset
    BY <1>5, <1>12, <2>1, <2>3
  <2> QED BY <2>1, <2>2, <2>4 DEF Clear
<1>15. LaidOut(tensors, groups, num)
  BY <1>1, <1>10, <1>11, <1>13, <1>14 DEF LaidOut
<1> QED BY <1>15 DEF tensors, pool

----------------------------------------------------------------------------
(* The tensors, and the tensors cut down to fewer blocks *)

LEMMA TensorsLaidOut ==
    ASSUME NEW groups, FineGroups(groups), SingleGroup(groups), NEW c, _pool_bytes_per_block(c, groups) > 0,
           NEW num \in Nat \ {0}
    PROVE  LaidOut(TensorsOf(c, groups, num), groups, num)
<1>1. Apart(NamesOf(groups))
  BY DEF SingleGroup
<1>2. CASE OneUniform(groups)
  BY <1>1, <1>2, LayersLaidOut DEF TensorsOf
<1>3. CASE ~OneUniform(groups) /\ Packed(c, groups)
  BY <1>1, <1>3, PackLaidOut DEF TensorsOf
<1>4. CASE ~OneUniform(groups) /\ ~Packed(c, groups)
  <2>1. ~AllUniform(groups)
    BY <1>4 DEF Packed
  <2>2. LaidOut(PooledTensors(groups, num), groups, num)
    BY <2>1, PoolLaidOut
  <2> QED BY <1>4, <2>2 DEF TensorsOf
<1> QED BY <1>2, <1>3, <1>4

IsTensor(t) ==
    \E x, l : \E o, st \in Nat : t = Tensor(x, l, o, st) /\ DOMAIN l = 1..Len(l)
IsTensors(tensors) ==
    Len(tensors) \in Nat /\ DOMAIN tensors = 1..Len(tensors) /\ \A i \in 1..Len(tensors) : IsTensor(tensors[i])

LEMMA TensorsAre ==
    ASSUME NEW groups, FineGroups(groups), SingleGroup(groups), NEW c, NEW num
    PROVE  IsTensors(TensorsOf(c, groups, num))
<1> DEFINE m == Len(groups)
           names == NamesOf(groups)
<1>1. m \in Nat \ {0} /\ DOMAIN groups = 1..m /\ \A i \in 1..m : FineGroup(groups[i])
  BY DEF FineGroups
<1>2. Apart(names)
  BY DEF SingleGroup
<1>3. CASE OneUniform(groups)
  <2> DEFINE h == groups[1]
             s == h.names
             n == Len(s)
             tensors == LayerTensors(h, num)
  <2>1. n \in Nat /\ DOMAIN s = 1..n
    <3>1. FineGroup(h)
      BY <1>1
    <3> HIDE DEF h
    <3> QED BY <3>1, FineParts
  <2>2. tensors = [i \in 1..n |-> Tensor(h.layers[s[i]].page * num, <<s[i]>>, 0, 0)]
    BY <2>1 DEF LayerTensors
  <2> HIDE DEF tensors, n
  <2>3. Len(tensors) = n /\ DOMAIN tensors = 1..n
    BY <2>1, <2>2
  <2>4. ASSUME NEW i \in 1..n PROVE IsTensor(tensors[i])
    <3> DEFINE x == h.layers[s[i]].page * num
               l == <<s[i]>>
    <3>1. tensors[i] = Tensor(x, l, 0, 0)
      BY <2>2
    <3>2. DOMAIN l = 1..Len(l)
      OBVIOUS
    <3> HIDE DEF x, l
    <3> QED BY <3>1, <3>2 DEF IsTensor
  <2>5. IsTensors(tensors)
    BY <2>1, <2>3, <2>4 DEF IsTensors
  <2> QED BY <1>3, <2>5 DEF TensorsOf, tensors
<1>4. CASE ~OneUniform(groups) /\ Packed(c, groups)
  <2> DEFINE slots == Slots(groups)
             n == Len(slots)
             pool == _pool_bytes_per_block(c, groups)
             tensors == PackedTensors(groups, pool, num)
  <2>1. n \in Nat /\ Len(tensors) = n /\ \A i \in 1..n : tensors[i] = SlotTensor(slots, pool, num, i)
    BY PackedTensorsAre
  <2>2. PICK q : HeldBy(groups, slots, q)
    BY <1>2, SlotsHold
  <2>3. pool \in Nat
    BY PoolBytesType
  <2>4. DOMAIN tensors = 1..n
    <3>1. DOMAIN tensors = DOMAIN slots
      BY DEF PackedTensors
    <3>2. PICK T : (\A x \in T : x.ps \in Nat) /\ SlotParts(groups) \in Seq(Seq(T))
      BY SlotsJoined
    <3>3. slots = FlattenSeq(SlotParts(groups))
      BY SlotsJoined
    <3> HIDE DEF slots
    <3>4. slots \in Seq(T)
      BY <3>2, <3>3, FlattenedType
    <3> HIDE DEF tensors
    <3> QED BY <3>1, <3>4
  <2> HIDE DEF slots, pool, tensors
  <2>5. ASSUME NEW i \in 1..n PROVE IsTensor(tensors[i])
    <3> DEFINE x == pool * num
               l == slots[i].layers
               o == Before(PagesOf(slots), i)
    <3>1. tensors[i] = Tensor(x, l, o, pool)
      BY <2>1 DEF SlotTensor
    <3>2. DOMAIN l = 1..Len(l)
      BY <2>2 DEF HeldBy
    <3>3. o \in Nat
      <4>1. PagesOf(slots) \in Seq(Nat) /\ Len(PagesOf(slots)) = n
        BY PackedTensorsAre DEF slots
      <4> QED BY <4>1, BeforeGrows
    <3> HIDE DEF x, l, o
    <3> QED BY <2>3, <3>1, <3>2, <3>3 DEF IsTensor
  <2>6. IsTensors(tensors)
    BY <2>1, <2>4, <2>5 DEF IsTensors
  <2> QED BY <1>4, <2>6 DEF TensorsOf, tensors, pool
<1>5. CASE ~OneUniform(groups) /\ ~Packed(c, groups)
  <2> DEFINE k == LargestGroup(groups)
             page == groups[1].spec.page
             tensors == PooledTensors(groups, num)
             layers(i) == FlattenSeq([j \in DOMAIN groups |-> IF i <= Len(groups[j].names) THEN <<groups[j].names[i]>> ELSE <<>>])
  <2>1. k \in Nat
    BY LargestGroupIs
  <2>2. Len(names) = m /\ \A i \in 1..m : names[i] = groups[i].names /\ Len(names[i]) \in Nat
    <3>1. Len(names) = m /\ \A i \in 1..m : names[i] = groups[i].names
      BY <1>1, NamesAt
    <3>2. \A i \in 1..m : Len(groups[i].names) \in Nat
      BY <1>1, FineParts
    <3> QED BY <3>1, <3>2
  <2>3. \A i : layers(i) = Column(names, i)
    BY <1>1, <2>2 DEF Column
  <2>4. tensors = [i \in 1..k |-> Tensor(page * num, layers(i), 0, 0)]
    BY DEF PooledTensors
  <2> HIDE DEF tensors, k, page, layers, names, m
  <2>5. Len(tensors) = k /\ DOMAIN tensors = 1..k
    BY <2>1, <2>4
  <2>6. ASSUME NEW i \in 1..k PROVE IsTensor(tensors[i])
    <3> DEFINE x == page * num
               l == Column(names, i)
    <3>1. tensors[i] = Tensor(x, l, 0, 0)
      BY <2>3, <2>4
    <3>2. DOMAIN l = 1..Len(l)
      <4>1. Len(names) \in Nat /\ (\A j \in 1..Len(names) : Len(names[j]) \in Nat) /\ i \in Nat \ {0}
        BY <1>1, <2>1, <2>2
      <4> QED BY <4>1, ColumnHas
    <3> HIDE DEF x, l
    <3> QED BY <3>1, <3>2 DEF IsTensor
  <2>7. IsTensors(tensors)
    BY <2>1, <2>5, <2>6 DEF IsTensors
  <2> QED BY <1>5, <2>7 DEF TensorsOf, tensors
<1> QED BY <1>3, <1>4, <1>5

(* Cut down, a tensor is another size and nothing else. *)
LEMMA CutParts ==
    ASSUME NEW tensors, IsTensors(tensors), NEW num, NEW few
    PROVE  /\ Len(Cut(tensors, num, few)) = Len(tensors) /\ DOMAIN Cut(tensors, num, few) = 1..Len(tensors)
           /\ \A i \in 1..Len(tensors) :
                 LET t == tensors[i]
                     u == Cut(tensors, num, few)[i]
                 IN  /\ u.shared_by = t.shared_by /\ u.offset = t.offset /\ u.stride = t.stride
                     /\ u.size = (t.size \div num) * few /\ DOMAIN t.shared_by = 1..Len(t.shared_by)
                     /\ t.stride \in Nat /\ t.offset \in Nat
<1> DEFINE n == Len(tensors)
           cut == Cut(tensors, num, few)
<1>1. n \in Nat /\ DOMAIN tensors = 1..n /\ \A i \in 1..n : IsTensor(tensors[i])
  BY DEF IsTensors
<1>2. cut = [i \in 1..n |-> [tensors[i] EXCEPT !.size = (@ \div num) * few]]
  BY <1>1 DEF Cut
<1> HIDE DEF cut, n
<1>3. Len(cut) = n /\ DOMAIN cut = 1..n
  BY <1>1, <1>2
<1>4. ASSUME NEW i \in 1..n
      PROVE  /\ cut[i].shared_by = tensors[i].shared_by /\ cut[i].offset = tensors[i].offset
             /\ cut[i].stride = tensors[i].stride /\ cut[i].size = (tensors[i].size \div num) * few
             /\ DOMAIN tensors[i].shared_by = 1..Len(tensors[i].shared_by)
             /\ tensors[i].stride \in Nat /\ tensors[i].offset \in Nat
  <2> DEFINE t == tensors[i]
             u == cut[i]
  <2>1. u = [t EXCEPT !.size = (@ \div num) * few]
    BY <1>2
  <2>2. IsTensor(t)
    BY <1>1
  <2> HIDE DEF t, u
  <2>3. PICK x, l, o, st : o \in Nat /\ st \in Nat /\ t = Tensor(x, l, o, st) /\ DOMAIN l = 1..Len(l)
    BY <2>2 DEF IsTensor
  <2>4. t = [size |-> x, shared_by |-> l, offset |-> o, stride |-> st]
    BY <2>3 DEF Tensor
  <2>5. t.size = x /\ t.shared_by = l /\ t.offset = o /\ t.stride = st
    BY <2>4
  <2> DEFINE y == (x \div num) * few
  <2>6. u = [t EXCEPT !.size = y]
    BY <2>1, <2>5
  <2>7. y = (t.size \div num) * few
    BY <2>5
  <2> HIDE DEF y
  <2>8. u.size = y /\ u.shared_by = l /\ u.offset = o /\ u.stride = st
    BY <2>4, <2>6
  <2> QED BY <2>3, <2>5, <2>7, <2>8 DEF t, u
<1> QED BY <1>3, <1>4 DEF cut, n

LEMMA CutLaidOut ==
    ASSUME NEW groups, FineGroups(groups), NEW num \in Nat \ {0}, NEW few \in Nat \ {0},
           NEW tensors, IsTensors(tensors), LaidOut(tensors, groups, num)
    PROVE  LaidOut(Cut(tensors, num, few), groups, few)
<1> DEFINE n == Len(tensors)
           cut == Cut(tensors, num, few)
<1>1. Len(cut) = n
  BY CutParts
<1>2. \A i \in 1..n : /\ cut[i].shared_by = tensors[i].shared_by /\ cut[i].offset = tensors[i].offset
                      /\ cut[i].stride = tensors[i].stride /\ cut[i].size = (tensors[i].size \div num) * few
                      /\ tensors[i].stride \in Nat
  BY CutParts
<1> HIDE DEF cut
<1>3. \A i, x : Listed(cut, i, x) <=> Listed(tensors, i, x)
  BY <1>1, <1>2 DEF Listed
<1>4. \A i, x : Listed(tensors, i, x) => i \in 1..n
  BY DEF Listed
<1> HIDE DEF n
<1>5. ASSUME NEW g, NEW i, NEW x, Owns(groups, g, x), Listed(tensors, i, x)
      PROVE  Room(cut[i], PageIn(groups, g, x), few)
  <2> DEFINE page == PageIn(groups, g, x)
             t == tensors[i]
             u == cut[i]
  <2>1. Room(t, page, num)
    BY <1>5 DEF LaidOut
  <2>2. page \in Nat
    <3> DEFINE h == groups[g]
    <3>1. FineGroup(h) /\ x \in DOMAIN h.layers
      BY <1>5, OwnerIs
    <3>2. page = SpecIn(h, x).page
      BY DEF PageIn
    <3> HIDE DEF h, page
    <3>3. SpecIn(h, x).page \in Nat \ {0}
      BY <3>1, FineParts DEF SpecIn
    <3> QED BY <3>2, <3>3
  <2>3. u.offset = t.offset /\ u.stride = t.stride /\ u.size = (t.size \div num) * few /\ t.stride \in Nat
    BY <1>2, <1>4, <1>5
  <2> HIDE DEF page, t, u
  <2>4. ASSUME t.stride > 0 PROVE Room(u, page, few)
    <3>1. t.offset + page <= t.stride /\ t.size = t.stride * num
      BY <2>1, <2>4 DEF Room
    <3>2. (t.stride * num) \div num = t.stride
      BY <2>3, Unscaled
    <3>3. u.size = t.stride * few
      BY ONLY <2>3, <3>1, <3>2
    <3>4. u.stride > 0 /\ u.offset + page <= u.stride /\ u.size = u.stride * few
      BY ONLY <2>3, <2>4, <3>1, <3>3
    <3> QED BY <3>4 DEF Room
  <2>5. ASSUME ~(t.stride > 0) PROVE Room(u, page, few)
    <3>1. t.size = page * num
      BY <2>1, <2>5 DEF Room
    <3>2. (page * num) \div num = page
      BY <2>2, Unscaled
    <3>3. ~(u.stride > 0) /\ u.size = page * few
      BY ONLY <2>3, <2>5, <3>1, <3>2
    <3> QED BY <3>3 DEF Room
  <2>6. Room(u, page, few)
    BY <2>4, <2>5
  <2> QED BY <2>6 DEF u, page
<1>6. Len(cut) \in Nat
  BY <1>1 DEF IsTensors, n
<1>7. \A i, j, x : Listed(cut, i, x) /\ Listed(cut, j, x) => i = j
  BY <1>3 DEF LaidOut
<1>8. \A g, x : Owns(groups, g, x) => \E i : Listed(cut, i, x)
  BY <1>3 DEF LaidOut
<1>9. \A g, i, j, x, y :
          Owns(groups, g, x) /\ Owns(groups, g, y) /\ x # y /\ Listed(cut, i, x) /\ Listed(cut, j, y) =>
              /\ i # j
              /\ cut[i].stride > 0 => Clear(cut[i], PageIn(groups, g, x), cut[j], PageIn(groups, g, y))
  <2> SUFFICES ASSUME NEW g, NEW i, NEW j, NEW x, NEW y, Owns(groups, g, x), Owns(groups, g, y), x # y,
                      Listed(cut, i, x), Listed(cut, j, y)
               PROVE  /\ i # j
                      /\ cut[i].stride > 0 => Clear(cut[i], PageIn(groups, g, x), cut[j], PageIn(groups, g, y))
    OBVIOUS
  <2>1. Listed(tensors, i, x) /\ Listed(tensors, j, y) /\ i \in 1..n /\ j \in 1..n
    BY <1>3, <1>4
  <2>2. i # j /\ (tensors[i].stride > 0 => Clear(tensors[i], PageIn(groups, g, x), tensors[j], PageIn(groups, g, y)))
    BY <2>1 DEF LaidOut
  <2> QED BY <1>2, <2>1, <2>2 DEF Clear
<1>10. \A g, i, x : Owns(groups, g, x) /\ Listed(cut, i, x) => Room(cut[i], PageIn(groups, g, x), few)
  BY <1>3, <1>5
<1>11. LaidOut(cut, groups, few)
  BY <1>6, <1>7, <1>8, <1>9, <1>10 DEF LaidOut
<1> QED BY <1>11 DEF cut

----------------------------------------------------------------------------
(* The layers of one worker *)

TensorFor(tensors, n) == CHOOSE t \in Range(tensors) : n \in ToSet(t.shared_by)
SpecFor(groups, n) == LET g == CHOOSE h \in Range(groups) : n \in ToSet(h.names) IN SpecIn(g, n)

(* Where TensorFor finds what is listed. *)
Legible(tensors) ==
    /\ Len(tensors) \in Nat /\ DOMAIN tensors = 1..Len(tensors)
    /\ \A i \in 1..Len(tensors) : /\ DOMAIN tensors[i].shared_by = 1..Len(tensors[i].shared_by)
                                  /\ tensors[i].stride \in Nat /\ tensors[i].offset \in Nat

LEMMA ListedIn ==
    ASSUME NEW tensors, Legible(tensors)
    PROVE  \A i, n : Listed(tensors, i, n) <=> i \in DOMAIN tensors /\ n \in ToSet(tensors[i].shared_by)
<1> SUFFICES ASSUME NEW i, NEW n
             PROVE  Listed(tensors, i, n) <=> i \in DOMAIN tensors /\ n \in ToSet(tensors[i].shared_by)
  OBVIOUS
<1> DEFINE l == tensors[i].shared_by
<1>1. DOMAIN tensors = 1..Len(tensors)
  BY DEF Legible
<1>2. i \in 1..Len(tensors) => DOMAIN l = 1..Len(l)
  BY DEF Legible
<1> HIDE DEF l
<1>3. i \in 1..Len(tensors) => ((\E k : In(l, k, n)) <=> n \in ToSet(l))
  BY <1>2 DEF In, ToSet
<1> QED BY <1>1, <1>3 DEF Listed, l

LEMMA TensorKnown ==
    ASSUME NEW tensors, Legible(tensors), NEW n, NEW i, Listed(tensors, i, n), \A j : Listed(tensors, j, n) => j = i
    PROVE  /\ TensorFor(tensors, n) = tensors[i]
           /\ Cardinality({j \in DOMAIN tensors : n \in ToSet(tensors[j].shared_by)}) = 1
<1>1. \A j : Listed(tensors, j, n) <=> j \in DOMAIN tensors /\ n \in ToSet(tensors[j].shared_by)
  BY ListedIn
<1> DEFINE P(t) == t \in Range(tensors) /\ n \in ToSet(t.shared_by)
<1>2. P(tensors[i])
  BY <1>1 DEF Range
<1>3. \A t : P(t) => t = tensors[i]
  BY <1>1 DEF Range
<1>4. TensorFor(tensors, n) = CHOOSE t : P(t)
  BY DEF TensorFor
<1> HIDE DEF P
<1>5. TensorFor(tensors, n) = tensors[i]
  BY <1>2, <1>3, <1>4
<1>6. {j \in DOMAIN tensors : n \in ToSet(tensors[j].shared_by)} = {i}
  BY <1>1
<1>7. Cardinality({i}) = 1
  BY FS_Singleton
<1> QED BY <1>5, <1>6, <1>7

LEMMA SpecKnown ==
    ASSUME NEW groups, FineGroups(groups), Apart(NamesOf(groups)), NEW g, NEW n, Owns(groups, g, n)
    PROVE  SpecFor(groups, n).page = PageIn(groups, g, n)
<1> DEFINE P(h) == h \in Range(groups) /\ n \in ToSet(h.names)
           m == Len(groups)
<1>1. m \in Nat \ {0} /\ DOMAIN groups = 1..m /\ \A i \in 1..m : FineGroup(groups[i])
  BY DEF FineGroups
<1>2. g \in 1..m /\ n \in ToSet(groups[g].names)
  BY OwnerIs
<1>3. ASSUME NEW i \in 1..m, n \in ToSet(groups[i].names) PROVE i = g
  <2> DEFINE s == groups[i].names
  <2>1. DOMAIN s = 1..Len(s)
    BY <1>1, FineParts
  <2>2. n \in ToSet(s)
    BY <1>3
  <2> HIDE DEF s
  <2>3. \E k : In(s, k, n)
    BY <2>1, <2>2 DEF ToSet, In
  <2>4. \E k : At(NamesOf(groups), i, k, n)
    BY <1>1, <2>3, NamesAt DEF s
  <2> QED BY <2>4 DEF Owns, Apart
<1>4. P(groups[g])
  BY <1>1, <1>2 DEF Range
<1>5. \A h : P(h) => h = groups[g]
  BY <1>1, <1>3 DEF Range
<1>6. SpecFor(groups, n) = SpecIn(CHOOSE h : P(h), n)
  BY DEF SpecFor
<1> HIDE DEF P
<1>7. (CHOOSE h : P(h)) = groups[g]
  BY <1>4, <1>5
<1> QED BY <1>6, <1>7 DEF PageIn

(* What LayersKeepApart asks of the tensors of one worker. *)
Overlap(tensors, groups, n, m) ==
    LET t == TensorFor(tensors, n)
        u == TensorFor(tensors, m)
    IN  \/ t = u
        \/ t.stride > 0 /\ t.offset < u.offset + SpecFor(groups, m).page /\ u.offset < t.offset + SpecFor(groups, n).page

LEMMA WorkerApart ==
    ASSUME NEW groups, FineGroups(groups), Apart(NamesOf(groups)), NEW worker, IsFiniteSet(DOMAIN worker),
           \A i, k, x : At(NamesOf(groups), i, k, x) => x \in DOMAIN worker, Assigned(groups, worker),
           NEW num \in Nat, NEW tensors, Legible(tensors), LaidOut(tensors, groups, num)
    PROVE  /\ \A n \in DOMAIN worker :
                 /\ Cardinality({i \in DOMAIN tensors : n \in ToSet(tensors[i].shared_by)}) = 1
                 /\ HasRoom(TensorFor(tensors, n), SpecFor(groups, n).page, num)
           /\ \A g \in Range(groups) : \A n, m \in ToSet(g.names) : n # m => ~Overlap(tensors, groups, n, m)
<1> DEFINE l == Len(groups)
<1>1. l \in Nat \ {0} /\ DOMAIN groups = 1..l /\ \A i \in 1..l : FineGroup(groups[i])
  BY DEF FineGroups
<1>2. \A g, n : Owns(groups, g, n) <=> g \in 1..l /\ \E k : In(groups[g].names, k, n)
  BY <1>1, NamesAt DEF Owns
<1>3. ASSUME NEW g, NEW n, Owns(groups, g, n)
      PROVE  \E i : /\ Listed(tensors, i, n) /\ TensorFor(tensors, n) = tensors[i]
                    /\ Cardinality({j \in DOMAIN tensors : n \in ToSet(tensors[j].shared_by)}) = 1
                    /\ SpecFor(groups, n).page = PageIn(groups, g, n) /\ PageIn(groups, g, n) \in Nat
                    /\ Room(tensors[i], PageIn(groups, g, n), num)
  <2>1. PICK i : Listed(tensors, i, n)
    BY <1>3 DEF LaidOut
  <2>2. \A j : Listed(tensors, j, n) => j = i
    BY <2>1 DEF LaidOut
  <2>3. /\ TensorFor(tensors, n) = tensors[i]
        /\ Cardinality({j \in DOMAIN tensors : n \in ToSet(tensors[j].shared_by)}) = 1
    BY <2>1, <2>2, TensorKnown
  <2>4. SpecFor(groups, n).page = PageIn(groups, g, n)
    BY <1>3, SpecKnown
  <2>5. PageIn(groups, g, n) \in Nat
    <3> DEFINE h == groups[g]
    <3>1. FineGroup(h) /\ n \in DOMAIN h.layers
      BY <1>3, OwnerIs
    <3> HIDE DEF h
    <3>2. SpecIn(h, n).page \in Nat \ {0}
      BY <3>1, FineParts DEF SpecIn
    <3> QED BY <3>2 DEF PageIn, h
  <2>6. Room(tensors[i], PageIn(groups, g, n), num)
    BY <1>3, <2>1 DEF LaidOut
  <2> QED BY <2>1, <2>3, <2>4, <2>5, <2>6
<1>4. ASSUME NEW n \in DOMAIN worker
      PROVE  /\ Cardinality({i \in DOMAIN tensors : n \in ToSet(tensors[i].shared_by)}) = 1
             /\ HasRoom(TensorFor(tensors, n), SpecFor(groups, n).page, num)
  <2>1. PICK g : Owns(groups, g, n)
    <3>1. \E i \in 1..Len(groups) : \E k : In(groups[i].names, k, n)
      BY Covered
    <3> QED BY <1>2, <3>1
  <2>2. PICK i : /\ Listed(tensors, i, n) /\ TensorFor(tensors, n) = tensors[i]
                 /\ Cardinality({j \in DOMAIN tensors : n \in ToSet(tensors[j].shared_by)}) = 1
                 /\ SpecFor(groups, n).page = PageIn(groups, g, n) /\ PageIn(groups, g, n) \in Nat
                 /\ Room(tensors[i], PageIn(groups, g, n), num)
    BY <1>3, <2>1
  <2> DEFINE t == tensors[i]
             page == PageIn(groups, g, n)
  <2>3. Room(t, page, num)
    BY <2>2
  <2> HIDE DEF t, page
  <2>4. HasRoom(t, page, num)
    <3>1. page \in Nat
      BY <2>2 DEF page
    <3> DEFINE y == page * num
    <3>2. y \in Nat
      BY <3>1
    <3> HIDE DEF y
    <3>3. y <= y
      BY <3>2
    <3> QED BY <2>3, <3>3 DEF Room, HasRoom, y
  <2> QED BY <2>2, <2>4 DEF t, page
<1>5. ASSUME NEW g \in Range(groups), NEW n \in ToSet(g.names), NEW m \in ToSet(g.names), n # m
      PROVE  ~Overlap(tensors, groups, n, m)
  <2>1. PICK a \in 1..l : groups[a] = g
    BY <1>1 DEF Range
  <2>2. Owns(groups, a, n) /\ Owns(groups, a, m)
    <3> DEFINE s == groups[a].names
    <3>1. DOMAIN s = 1..Len(s)
      BY <1>1, FineParts
    <3>2. n \in ToSet(s) /\ m \in ToSet(s)
      BY <2>1
    <3> HIDE DEF s
    <3>3. (\E k : In(s, k, n)) /\ (\E k : In(s, k, m))
      BY <3>1, <3>2 DEF ToSet, In
    <3> QED BY <1>2, <3>3 DEF s
  <2>3. PICK i : /\ Listed(tensors, i, n) /\ TensorFor(tensors, n) = tensors[i]
                 /\ SpecFor(groups, n).page = PageIn(groups, a, n) /\ PageIn(groups, a, n) \in Nat
    BY <1>3, <2>2
  <2>4. PICK j : /\ Listed(tensors, j, m) /\ TensorFor(tensors, m) = tensors[j]
                 /\ SpecFor(groups, m).page = PageIn(groups, a, m) /\ PageIn(groups, a, m) \in Nat
    BY <1>3, <2>2
  <2> DEFINE t == tensors[i]
             u == tensors[j]
             p == PageIn(groups, a, n)
             r == PageIn(groups, a, m)
  <2>5. i # j /\ (t.stride > 0 => Clear(t, p, u, r))
    BY <1>5, <2>2, <2>3, <2>4 DEF LaidOut
  <2>6. t # u
    <3> SUFFICES ASSUME t = u PROVE FALSE
      OBVIOUS
    <3>1. Listed(tensors, j, n)
      BY <2>3, <2>4 DEF Listed
    <3> QED BY <2>3, <2>5, <3>1 DEF LaidOut
  <2>7. t.offset \in Nat /\ u.offset \in Nat /\ p \in Nat /\ r \in Nat
    BY <2>3, <2>4 DEF Legible, Listed
  <2>8. Overlap(tensors, groups, n, m) <=>
            \/ t = u
            \/ t.stride > 0 /\ t.offset < u.offset + r /\ u.offset < t.offset + p
    BY <2>3, <2>4 DEF Overlap
  <2> HIDE DEF t, u, p, r
  <2>9. t.stride > 0 => ~(t.offset < u.offset + r /\ u.offset < t.offset + p)
    BY <2>5, <2>7 DEF Clear
  <2> QED BY <2>6, <2>8, <2>9
<1> QED BY <1>4, <1>5

(* A plan's groups hold each layer of a worker once. *)
LEMMA PlannedApart ==
    ASSUME NEW c \in Cases, NEW p, p = get_kv_cache_configs(c), p.ok, p.groups # <<>>, NEW w \in DOMAIN c.workers
    PROVE  /\ SingleGroup(p.mine[w]) /\ Assigned(p.mine[w], c.workers[w]) /\ IsFiniteSet(DOMAIN c.workers[w])
           /\ \A i, k, x : At(NamesOf(p.mine[w]), i, k, x) => x \in DOMAIN c.workers[w]
<1> DEFINE W == DOMAIN c.workers
           groups == get_kv_cache_groups(c, MergedSpecs(c))
           mine == [v \in W |-> Projected(groups, c.workers[v])]
           memory == [v \in W |-> EffectiveMemory(c, mine[v], v)]
           len == IF c.auto_fit /\ groups # <<>> THEN FittedLen(c, mine, memory) ELSE c.max_len
           enough == \A v \in W : memory[v] > 0 /\ Fits(mine[v], memory[v], len)
           divides == \A v \in W : _pool_bytes_per_block(c, mine[v]) > 0
           configs == [v \in W |-> ConfigFromGroups(c, mine[v], memory[v])]
           fewest == Min({configs[v].num_blocks : v \in W})
           shrunk == [v \in W |-> Shrunk(configs[v], fewest)]
           assigned == \A v \in W : Assigned(mine[v], c.workers[v])
           made == [ok |-> TRUE, max_len |-> len, groups |-> groups, mine |-> mine, configs |-> shrunk]
<1>1. p = IF ~Agreeing(c) \/ groups = None THEN Failed
          ELSE IF groups # <<>> /\ ~(divides /\ len > 0 /\ enough) THEN Failed
          ELSE IF ~(fewest > 0 /\ assigned) THEN Failed
          ELSE made
  BY DEF get_kv_cache_configs
<1>2. Failed.ok = FALSE
  BY DEF Failed
<1>3. made.groups = groups /\ made.mine = mine
  OBVIOUS
<1>4. mine = [v \in W |-> Projected(groups, c.workers[v])]
      /\ (assigned <=> \A v \in W : Assigned(mine[v], c.workers[v]))
  OBVIOUS
<1> HIDE DEF groups, mine, memory, len, enough, divides, configs, fewest, shrunk, assigned, made
<1>5. p = made /\ groups # None /\ assigned
  BY <1>1, <1>2
<1>6. p.mine = mine /\ groups # <<>>
  BY <1>3, <1>5
<1>7. PICK D : IsFiniteSet(D) /\ D \subseteq Nat \ {0} /\ MergedSpecs(c) \in [D -> TokenSpec]
  BY MergedSpecsAre
<1>8. FineGroups(groups)
  <2>1. groups \in Seq(Groups(D)) /\ Len(groups) # 0
    BY <1>5, <1>6, <1>7, GotGroupsAreFine DEF groups
  <2> QED BY <2>1, GroupsAreFine
<1>9. SingleGroup(groups)
  <2> HIDE DEF W
  <2>1. get_kv_cache_groups(c, MergedSpecs(c)) = None \/ get_kv_cache_groups(c, MergedSpecs(c)) = <<>>
        \/ SingleGroup(get_kv_cache_groups(c, MergedSpecs(c)))
    BY <1>7, GotGroupsApart
  <2> QED BY <1>5, <1>6, <2>1 DEF groups
<1>10. p.mine[w] = Projected(groups, c.workers[w])
  BY <1>4, <1>6
<1>11. SingleGroup(Projected(groups, c.workers[w]))
       /\ \A i, k, x : At(NamesOf(Projected(groups, c.workers[w])), i, k, x) => x \in DOMAIN c.workers[w]
  BY <1>8, <1>9, ProjectedApart
<1>12. Assigned(p.mine[w], c.workers[w])
  BY <1>4, <1>5, <1>6
<1>13. IsFiniteSet(DOMAIN c.workers[w])
  <2> DEFINE all == UNION {DOMAIN c.workers[v] : v \in W}
             some == DOMAIN c.workers[w]
  <2>1. IsFiniteSet(all)
    BY CaseParts
  <2>2. some \subseteq all
    OBVIOUS
  <2> HIDE DEF all, some
  <2>3. IsFiniteSet(some)
    BY <2>1, <2>2, FS_Subset
  <2> QED BY <2>3 DEF some
<1> QED BY <1>10, <1>11, <1>12, <1>13

(* The tensors of a worker, before and after they were cut to the fewest. *)
LEMMA PlannedTensors ==
    ASSUME NEW c \in Cases, NEW p, IsPlanFor(c, p), NEW w \in DOMAIN c.workers
    PROVE  \E num \in Nat \ {0} :
              p.configs[w].tensors = Cut(TensorsOf(c, p.mine[w], num), num, Fewest(c, p))
<1> DEFINE W == DOMAIN c.workers
           g == p.mine[w]
           b == _pool_bytes_per_block(c, g)
           m == Memory(c, p)[w]
           num == IF c.override # None THEN c.override ELSE m \div b
           cfg == Configs(c, p)[w]
           few == Fewest(c, p)
           R == {Configs(c, p)[v].num_blocks : v \in W}
<1>1. FineGroups(g) /\ b > 0 /\ m > 0 /\ p.configs[w] = Shrunk(cfg, few)
  BY DEF IsPlanFor
<1>2. b \in Nat /\ m \in Int
  BY <1>1, PoolBytesType, MemoryType
<1>3. m \div b \in Nat
  <2>1. m \in Nat /\ b \in Nat \ {0}
    BY <1>1, <1>2
  <2> HIDE DEF m, b
  <2> QED BY <2>1, Quotient
<1>4. num \in Nat
  <2>1. c.override \in Nat \cup {None}
    BY CaseParts
  <2> HIDE DEF m, b
  <2> QED BY <1>3, <2>1
<1>5. cfg = [num_blocks |-> num, tensors |-> TensorsOf(c, g, num)]
  <2>1. g # <<>>
    BY <1>1 DEF FineGroups
  <2>2. cfg = ConfigFromGroups(c, g, m)
    BY DEF Configs
  <2>3. NumBlocks(c, g, m) = num
    BY DEF NumBlocks
  <2> HIDE DEF cfg, g, num, m
  <2> QED BY <2>1, <2>2, <2>3 DEF ConfigFromGroups
<1> HIDE DEF num
<1>6. cfg.num_blocks = num /\ cfg.tensors = TensorsOf(c, g, num)
  <2> HIDE DEF cfg
  <2> QED BY <1>5
<1>7. few \in Nat \ {0}
  BY FewestType
<1>8. few <= num
  <2>1. few = Min(R)
    BY DEF Fewest
  <2>2. \A v \in W : Configs(c, p)[v].num_blocks \in Nat
    BY BlocksType
  <2>3. R \in SUBSET Nat /\ num \in R
    <3>1. cfg.num_blocks \in R
      OBVIOUS
    <3> HIDE DEF W, cfg
    <3> QED BY <1>6, <2>2, <3>1
  <2> HIDE DEF R
  <2> QED BY <2>1, <2>3, MinIs
<1>9. num \in Nat \ {0}
  BY <1>4, <1>7, <1>8
<1>10. p.configs[w].tensors = Cut(TensorsOf(c, g, num), num, few)
  <2> HIDE DEF cfg, few, g
  <2> QED BY <1>1, <1>6 DEF Shrunk, Cut
<1> QED BY <1>9, <1>10

LieApart(tensors, groups, worker, num) ==
    /\ \A n \in DOMAIN worker :
          /\ Cardinality({i \in DOMAIN tensors : n \in ToSet(tensors[i].shared_by)}) = 1
          /\ HasRoom(TensorFor(tensors, n), SpecFor(groups, n).page, num)
    /\ \A g \in Range(groups) : \A n, m \in ToSet(g.names) : n # m => ~Overlap(tensors, groups, n, m)

LEMMA PlannedLieApart ==
    ASSUME NEW c \in Cases, NEW p, p = get_kv_cache_configs(c), p.ok, p.groups # <<>>, NEW w \in DOMAIN c.workers
    PROVE  LieApart(p.configs[w].tensors, p.mine[w], c.workers[w], p.configs[w].num_blocks)
<1> DEFINE groups == p.mine[w]
           worker == c.workers[w]
           few == Fewest(c, p)
           tensors == p.configs[w].tensors
<1>1. IsPlanFor(c, p)
  BY PlansArePlans
<1>2. FineGroups(groups) /\ _pool_bytes_per_block(c, groups) > 0
  BY <1>1 DEF IsPlanFor
<1>3. /\ SingleGroup(groups) /\ Assigned(groups, worker) /\ IsFiniteSet(DOMAIN worker)
      /\ \A i, k, x : At(NamesOf(groups), i, k, x) => x \in DOMAIN worker
  BY PlannedApart
<1>4. few \in Nat \ {0} /\ p.configs[w].num_blocks = few
  BY <1>1, FewestType
<1>5. PICK num \in Nat \ {0} : tensors = Cut(TensorsOf(c, groups, num), num, few)
  BY <1>1, PlannedTensors
<1> HIDE DEF groups, worker, few, tensors
<1> DEFINE whole == TensorsOf(c, groups, num)
<1>6. IsTensors(whole) /\ LaidOut(whole, groups, num)
  BY <1>2, <1>3, TensorsAre, TensorsLaidOut
<1> HIDE DEF whole
<1>7. tensors = Cut(whole, num, few)
  BY <1>5 DEF whole
<1>8. LaidOut(tensors, groups, few)
  BY <1>2, <1>4, <1>6, <1>7, CutLaidOut
<1>9. Legible(tensors)
  <2> DEFINE n == Len(whole)
             cut == Cut(whole, num, few)
  <2>1. n \in Nat
    BY <1>6 DEF IsTensors
  <2>2. Len(cut) = n /\ DOMAIN cut = 1..n
    BY <1>6, CutParts
  <2>3. \A i \in 1..n : /\ cut[i].shared_by = whole[i].shared_by /\ cut[i].stride = whole[i].stride
                        /\ cut[i].offset = whole[i].offset
                        /\ DOMAIN whole[i].shared_by = 1..Len(whole[i].shared_by)
                        /\ whole[i].stride \in Nat /\ whole[i].offset \in Nat
    BY <1>6, CutParts
  <2> HIDE DEF cut, n
  <2>4. Legible(cut)
    BY <2>1, <2>2, <2>3 DEF Legible
  <2> QED BY <1>7, <2>4 DEF cut
<1>10. Apart(NamesOf(groups)) /\ few \in Nat
  BY <1>3, <1>4 DEF SingleGroup
<1>11. LieApart(tensors, groups, worker, few)
  BY <1>2, <1>3, <1>8, <1>9, <1>10, WorkerApart DEF LieApart
<1> QED BY <1>4, <1>11 DEF tensors, groups, worker

----------------------------------------------------------------------------
(* The theorems: a plan is nothing but what was computed for its case *)

PlanInv == case \in Cases /\ (plan = None \/ plan = get_kv_cache_configs(case))

LEMMA PlanInvAlways == PlanSpec => []PlanInv
<1>1. PlanInit => PlanInv
  BY DEF PlanInit, PlanInv
<1>2. PlanInv /\ [Plan]_planVars => PlanInv'
  BY DEF PlanInv, Plan, planVars
<1> QED BY <1>1, <1>2, PTL DEF PlanSpec

(* A plan that get_kv_cache_configs returns keeps a length of at least one   *)
(* token and at most the configured one, and a block at least on every      *)
(* worker, whatever the layers, the memory and the settings.                *)
THEOREM PlansAreTyped == PlanSpec => []PlanTypeOK
<1>1. PlanInv => PlanTypeOK
  <2> SUFFICES ASSUME PlanInv, plan # None, plan.ok
               PROVE  plan.max_len \in 1..case.max_len
                      /\ \A w \in Workers : plan.configs[w].num_blocks \in Nat \ {0}
    BY DEF PlanTypeOK
  <2>1. case \in Cases /\ plan = get_kv_cache_configs(case)
    BY DEF PlanInv
  <2>2. CASE plan.groups # <<>>
    <3>1. IsPlanFor(case, plan)
      BY <2>1, <2>2, PlansArePlans
    <3> QED BY <2>1, <3>1, FewestType, LengthType DEF Workers
  <2>3. CASE plan.groups = <<>>
    <3>1. plan.max_len = case.max_len /\ \A w \in Workers : plan.configs[w].num_blocks = 1
      BY <2>1, <2>3, NoGroups DEF Workers
    <3>2. case.max_len \in Nat \ {0}
      BY <2>1, CaseParts
    <3> QED BY <3>1, <3>2
  <2> QED BY <2>2, <2>3
<1> QED BY <1>1, PlanInvAlways, PTL

(* Without an override, the tensors of a worker, or the one allocation they  *)
(* alias, take no more than the memory the worker was profiled to have:     *)
(* for the three layouts of get_kv_cache_config_from_groups, and after all   *)
(* workers were cut down to the fewest blocks.                              *)
THEOREM PlansFitMemory == PlanSpec => []PlanFitsMemory
<1>1. PlanInv => PlanFitsMemory
  <2> SUFFICES ASSUME PlanInv, Planned, case.override = None, NEW w \in Workers
               PROVE  Allocated(plan.configs[w].tensors) <= case.memory[w]
    BY DEF PlanFitsMemory
  <2>1. case \in Cases /\ plan = get_kv_cache_configs(case) /\ plan.ok /\ plan.groups # <<>>
    BY DEF PlanInv, Planned
  <2>2. IsPlanFor(case, plan)
    BY <2>1, PlansArePlans
  <2> QED BY <2>1, <2>2, PlannedFits DEF Workers
<1> QED BY <1>1, PlanInvAlways, PTL

(* The binary search of _estimate_max_model_len_from_groups, taken over all  *)
(* workers, loses no length: every length that fits each of them is at most  *)
(* the planned one.                                                         *)
THEOREM AutoFitsLongest == PlanSpec => []AutoFitIsLongest
<1>1. PlanInv => AutoFitIsLongest
  <2> DEFINE M(w) == IF case.override = None THEN case.memory[w]
                     ELSE case.override * _pool_bytes_per_block(case, plan.mine[w])
  <2> SUFFICES ASSUME PlanInv, Planned, case.auto_fit, NEW len \in 1..case.max_len,
                      \A w \in Workers : Fits(plan.mine[w], M(w), len)
               PROVE  len <= plan.max_len
    BY DEF AutoFitIsLongest
  <2>1. case \in Cases /\ plan = get_kv_cache_configs(case) /\ plan.ok /\ plan.groups # <<>>
    BY DEF PlanInv, Planned
  <2>2. IsPlanFor(case, plan)
    BY <2>1, PlansArePlans
  <2>3. \A w \in Workers : Memory(case, plan)[w] = M(w)
    BY <2>1, <2>2, MemoryType DEF Workers
  <2>4. \A w \in DOMAIN case.workers : Fits(plan.mine[w], Memory(case, plan)[w], len)
    <3> HIDE DEF M
    <3> QED BY <2>3 DEF Workers
  <2> QED BY <2>1, <2>2, <2>4, FittedIsLongest
<1> QED BY <1>1, PlanInvAlways, PTL

(* Every layer of a worker lies in exactly one of its tensors, with room for *)
(* a page in each block, and no two layers of a group share bytes: for the   *)
(* three layouts, whatever the layers, and after the cut to the fewest       *)
(* blocks.                                                                   *)
THEOREM LayersLieApart == PlanSpec => []LayersKeepApart
<1>1. PlanInv => LayersKeepApart
  <2> SUFFICES ASSUME PlanInv, Planned, NEW w \in Workers
               PROVE  /\ \A n \in DOMAIN case.workers[w] :
                            /\ Cardinality({i \in DOMAIN plan.configs[w].tensors :
                                               n \in ToSet(plan.configs[w].tensors[i].shared_by)}) = 1
                            /\ HasRoom(TensorOf(w, n), SpecOn(w, n).page, plan.configs[w].num_blocks)
                      /\ \A g \in Range(plan.mine[w]) : \A n, m \in ToSet(g.names) : n # m => ~SameBytes(w, n, m)
    BY DEF LayersKeepApart
  <2>1. case \in Cases /\ plan = get_kv_cache_configs(case) /\ plan.ok /\ plan.groups # <<>> /\ w \in DOMAIN case.workers
    BY DEF PlanInv, Planned, Workers
  <2> DEFINE tensors == plan.configs[w].tensors
             groups == plan.mine[w]
  <2>2. LieApart(tensors, groups, case.workers[w], plan.configs[w].num_blocks)
    <3> HIDE DEF tensors, groups
    <3>1. LieApart(plan.configs[w].tensors, plan.mine[w], case.workers[w], plan.configs[w].num_blocks)
      BY <2>1, PlannedLieApart
    <3> QED BY <3>1 DEF tensors, groups
  <2>3. \A n : TensorOf(w, n) = TensorFor(tensors, n) /\ SpecOn(w, n) = SpecFor(groups, n)
    BY DEF TensorOf, TensorFor, SpecOn, SpecFor
  <2>4. \A n, m : SameBytes(w, n, m) <=> Overlap(tensors, groups, n, m)
    BY <2>3 DEF SameBytes, Overlap
  <2> QED BY <2>2, <2>3, <2>4 DEF LieApart
<1> QED BY <1>1, PlanInvAlways, PTL
=============================================================================
