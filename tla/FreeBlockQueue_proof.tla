------------------------ MODULE FreeBlockQueue_proof ------------------------
(***************************************************************************)
(* The linked list implements the queue without links, for any number of   *)
(* blocks.  All of it rests on one fact: there is a sequence of the blocks *)
(* nobody holds that the two chains of links run through, one in each      *)
(* direction, and every method replaces one piece of that sequence.        *)
(***************************************************************************)
EXTENDS FreeBlockQueue, TLAPS, WellFoundedInduction, FiniteSetTheorems, SequenceTheorems

(* the nodes of the list with the blocks q, from 0 to Len(q) + 1            *)
Node(q, i) == IF i = 0 THEN fake_head ELSE IF i = Len(q) + 1 THEN fake_tail ELSE q[i]

Linked(q, nx, pv) ==
    /\ \A i \in 0..Len(q) : nx[Node(q, i)] = Node(q, i + 1) /\ pv[Node(q, i + 1)] = Node(q, i)
    /\ nx[fake_tail] = None /\ pv[fake_head] = None
    /\ \A b \in Blocks : b \notin ToSet(q) => nx[b] = None /\ pv[b] = None

Queues == {q \in Seq(Blocks) : IsInjective(q)}
Links == [Nodes -> Nodes \cup {None}]

(* The inductive invariant, with the queue it speaks of.                    *)
Holds(q) == /\ q \in Queues /\ next \in Links /\ prev \in Links
            /\ Linked(q, next, prev)
            /\ num_free_blocks = Len(q) /\ out = Blocks \ ToSet(q)
            /\ cursor \in Blocks \cup {None}
Inv == \E q : Holds(q)

----------------------------------------------------------------------------
(* The nodes of a list                                                      *)

LEMMA NodeFacts ==
    ASSUME NEW q \in Queues
    PROVE  /\ Len(q) \in Nat
           /\ \A i \in 1..Len(q) : Node(q, i) = q[i] /\ q[i] \in Blocks /\ q[i] \in ToSet(q)
           /\ Node(q, 0) = fake_head /\ Node(q, Len(q) + 1) = fake_tail
           /\ \A i \in 0..Len(q)+1 : Node(q, i) \in Nodes /\ Node(q, i) # None
           /\ \A b \in ToSet(q) : \E i \in 1..Len(q) : q[i] = b
<1>1. q \in Seq(Blocks) /\ Len(q) \in Nat /\ DOMAIN q = 1..Len(q)
  BY DEF Queues
<1>2. \A i \in 1..Len(q) : q[i] \in Blocks /\ q[i] \in ToSet(q)
  BY <1>1 DEF ToSet
<1>3. \A b \in ToSet(q) : \E i \in 1..Len(q) : q[i] = b
  BY <1>1 DEF ToSet
<1>4. \A i \in 1..Len(q) : i # 0 /\ i # Len(q) + 1
  BY <1>1
<1>5. Len(q) + 1 # 0
  BY <1>1
<1>6. \A i \in 1..Len(q) : Node(q, i) = q[i]
  BY <1>4 DEF Node
<1>7. Node(q, 0) = fake_head /\ Node(q, Len(q) + 1) = fake_tail
  BY <1>5 DEF Node
<1>8. ASSUME NEW i \in 0..Len(q)+1
      PROVE  Node(q, i) \in Nodes /\ Node(q, i) # None
  <2>1. i = 0 \/ i = Len(q) + 1 \/ i \in 1..Len(q)
    BY <1>1
  <2> QED BY <1>2, <1>6, <1>7, <2>1, FreeBlockQueueAssumption DEF Nodes
<1> QED BY <1>1, <1>2, <1>3, <1>6, <1>7, <1>8

LEMMA NodesDiffer ==
    ASSUME NEW q \in Queues, NEW i \in 0..Len(q)+1, NEW j \in 0..Len(q)+1, Node(q, i) = Node(q, j)
    PROVE  i = j
<1>1. /\ Len(q) \in Nat /\ \A k \in 1..Len(q) : Node(q, k) = q[k] /\ q[k] \in Blocks
      /\ Node(q, 0) = fake_head /\ Node(q, Len(q) + 1) = fake_tail
  BY NodeFacts
<1>2. fake_head \notin Blocks /\ fake_tail \notin Blocks /\ fake_head # fake_tail
  BY FreeBlockQueueAssumption
<1>3. /\ i = 0 \/ i = Len(q) + 1 \/ i \in 1..Len(q)
      /\ j = 0 \/ j = Len(q) + 1 \/ j \in 1..Len(q)
  BY <1>1
<1>4. CASE i \in 1..Len(q) /\ j \in 1..Len(q)
  <2>1. DOMAIN q = 1..Len(q) /\ \A x, y \in DOMAIN q : q[x] = q[y] => x = y
    BY DEF Queues, IsInjective
  <2> QED BY <1>1, <1>4, <2>1
<1> QED BY <1>1, <1>2, <1>3, <1>4

----------------------------------------------------------------------------
(* One piece of the queue replaced by another: the m blocks behind the      *)
(* first a of q make place for the blocks of c.                             *)
Spliced(q, a, m, c) == SubSeq(q, 1, a) \o c \o SubSeq(q, a + m + 1, Len(q))
MaySplice(q, a, m, c) ==
    /\ q \in Queues /\ c \in Queues /\ a \in Nat /\ m \in Nat /\ a + m <= Len(q)
    /\ \A i \in 1..Len(q), j \in 1..Len(c) : q[i] # c[j]
Chain(q, a, m, c) == <<Node(q, a)>> \o c \o <<Node(q, a + m + 1)>>
Gone(q, a, m) == {q[i] : i \in a+1..a+m}

LEMMA ConcatFacts ==
    ASSUME NEW T, NEW s \in Seq(T), NEW t \in Seq(T)
    PROVE  /\ s \o t \in Seq(T) /\ Len(s \o t) = Len(s) + Len(t)
           /\ \A i \in 1..Len(s) : (s \o t)[i] = s[i]
           /\ \A i \in 1..Len(t) : (s \o t)[Len(s) + i] = t[i]
<1>1. s \o t \in Seq(T) /\ Len(s \o t) = Len(s) + Len(t) /\ Len(s) \in Nat /\ Len(t) \in Nat
  OBVIOUS
<1>2. \A i \in 1..Len(s)+Len(t) : (s \o t)[i] = IF i <= Len(s) THEN s[i] ELSE t[i - Len(s)]
  OBVIOUS
<1>3. ASSUME NEW i \in 1..Len(s) PROVE (s \o t)[i] = s[i]
  <2>1. i \in 1..Len(s)+Len(t) /\ i <= Len(s)
    BY <1>1
  <2> QED BY <1>2, <2>1
<1>4. ASSUME NEW i \in 1..Len(t) PROVE (s \o t)[Len(s) + i] = t[i]
  <2>1. Len(s) + i \in 1..Len(s)+Len(t) /\ ~(Len(s) + i <= Len(s)) /\ (Len(s) + i) - Len(s) = i
    BY <1>1
  <2> QED BY <1>2, <2>1
<1> QED BY <1>1, <1>3, <1>4

LEMMA SplicedFacts ==
    ASSUME NEW q, NEW a, NEW m, NEW c, MaySplice(q, a, m, c)
    PROVE  LET s == Spliced(q, a, m, c)
               n == Len(c)
           IN  /\ s \in Seq(Blocks) /\ Len(s) = Len(q) - m + n /\ n \in Nat /\ Len(q) \in Nat
               /\ \A i \in 1..a : s[i] = q[i]
               /\ \A i \in 1..n : s[a + i] = c[i]
               /\ \A i \in a+m+1..Len(q) : s[i - m + n] = q[i]
<1> DEFINE x == SubSeq(q, 1, a)
           z == SubSeq(q, a + m + 1, Len(q))
           n == Len(c)
           l == Len(q)
<1>1. /\ q \in Seq(Blocks) /\ c \in Seq(Blocks) /\ a \in Nat /\ m \in Nat /\ l \in Nat /\ n \in Nat /\ a + m <= l
  BY DEF MaySplice, Queues
<1>2. x \in Seq(Blocks) /\ Len(x) = a /\ \A i \in 1..a : x[i] = q[i]
  BY <1>1
<1>3. z \in Seq(Blocks) /\ Len(z) = l - a - m /\ \A i \in 1..l-a-m : z[i] = q[i + a + m]
  BY <1>1
<1> HIDE DEF x, z, n, l
<1> DEFINE y == x \o c
           s == y \o z
<1>4. y \in Seq(Blocks) /\ Len(y) = a + n /\ (\A i \in 1..a : y[i] = x[i]) /\ \A i \in 1..n : y[a + i] = c[i]
  <2>1. /\ y \in Seq(Blocks) /\ Len(y) = Len(x) + Len(c)
        /\ \A i \in 1..Len(x) : y[i] = x[i]
        /\ \A i \in 1..Len(c) : y[Len(x) + i] = c[i]
    <3>1. x \in Seq(Blocks) /\ c \in Seq(Blocks)
      BY <1>1, <1>2
    <3>2. y \in Seq(Blocks) /\ Len(y) = Len(x) + Len(c)
      BY <3>1, ConcatFacts
    <3>3. \A i \in 1..Len(x) : y[i] = x[i]
      BY <3>1, ConcatFacts
    <3>4. \A i \in 1..Len(c) : y[Len(x) + i] = c[i]
      BY <3>1, ConcatFacts
    <3> QED BY <3>2, <3>3, <3>4
  <2> HIDE DEF y
  <2> QED BY <1>2, <2>1 DEF n
<1> HIDE DEF y
<1>5. /\ s \in Seq(Blocks) /\ Len(s) = (a + n) + (l - a - m) /\ \A i \in 1..a+n : s[i] = y[i]
      /\ \A i \in 1..l-a-m : s[a + n + i] = z[i]
  <2>1. /\ s \in Seq(Blocks) /\ Len(s) = Len(y) + Len(z)
        /\ \A i \in 1..Len(y) : s[i] = y[i]
        /\ \A i \in 1..Len(z) : s[Len(y) + i] = z[i]
    <3>1. y \in Seq(Blocks) /\ z \in Seq(Blocks)
      BY <1>3, <1>4
    <3>2. s \in Seq(Blocks) /\ Len(s) = Len(y) + Len(z)
      BY <3>1, ConcatFacts
    <3>3. \A i \in 1..Len(y) : s[i] = y[i]
      BY <3>1, ConcatFacts
    <3>4. \A i \in 1..Len(z) : s[Len(y) + i] = z[i]
      BY <3>1, ConcatFacts
    <3> QED BY <3>2, <3>3, <3>4
  <2> HIDE DEF s
  <2> QED BY <1>3, <1>4, <2>1
<1> HIDE DEF s
<1>6. ASSUME NEW i \in 1..a PROVE s[i] = q[i]
  <2>1. i \in 1..a+n
    BY <1>1
  <2> QED BY <1>2, <1>4, <1>5, <2>1
<1>7. ASSUME NEW i \in 1..n PROVE s[a + i] = c[i]
  <2>1. a + i \in 1..a+n
    BY <1>1
  <2> QED BY <1>4, <1>5, <2>1
<1>8. ASSUME NEW i \in a+m+1..l PROVE s[i - m + n] = q[i]
  <2>1. i - a - m \in 1..l-a-m /\ a + n + (i - a - m) = i - m + n /\ (i - a - m) + a + m = i
    BY <1>1
  <2> QED BY <1>3, <1>5, <2>1
<1>9. Len(s) = l - m + n
  BY <1>1, <1>5
<1> QED BY <1>1, <1>5, <1>6, <1>7, <1>8, <1>9 DEF Spliced, s, x, y, z, n, l

(* Where each node of the spliced list comes from.                          *)
LEMMA SplicedNodes ==
    ASSUME NEW q, NEW a, NEW m, NEW c, MaySplice(q, a, m, c)
    PROVE  LET s == Spliced(q, a, m, c)
               n == Len(c)
           IN  /\ \A i \in 0..a : Node(s, i) = Node(q, i)
               /\ \A i \in 1..n : Node(s, a + i) = c[i]
               /\ \A i \in a+m+1..Len(q)+1 : Node(s, i - m + n) = Node(q, i)
<1> DEFINE s == Spliced(q, a, m, c)
           n == Len(c)
           l == Len(q)
<1>1. a \in Nat /\ m \in Nat /\ a + m <= l
  BY DEF MaySplice
<1>2. /\ Len(s) = l - m + n /\ n \in Nat /\ l \in Nat
      /\ \A i \in 1..a : s[i] = q[i]
      /\ \A i \in 1..n : s[a + i] = c[i]
      /\ \A i \in a+m+1..l : s[i - m + n] = q[i]
  BY SplicedFacts
<1> HIDE DEF s, n, l
<1>3. ASSUME NEW i \in 0..a PROVE Node(s, i) = Node(q, i)
  <2>1. i # Len(s) + 1 /\ i # l + 1 /\ (i # 0 => i \in 1..a)
    BY <1>1, <1>2
  <2> QED BY <1>2, <2>1 DEF Node, l
<1>4. ASSUME NEW i \in 1..n PROVE Node(s, a + i) = c[i]
  <2>1. a + i # Len(s) + 1 /\ a + i # 0
    BY <1>1, <1>2
  <2> QED BY <1>2, <2>1 DEF Node
<1>5. ASSUME NEW i \in a+m+1..l+1 PROVE Node(s, i - m + n) = Node(q, i)
  <2>1. i - m + n # 0 /\ i # 0 /\ (i - m + n = Len(s) + 1 <=> i = l + 1) /\ (i # l + 1 => i \in a+m+1..l)
    BY <1>1, <1>2
  <2> QED BY <1>2, <2>1 DEF Node, l
<1> QED BY <1>3, <1>4, <1>5 DEF s, n, l

LEMMA SplicedQueue ==
    ASSUME NEW q, NEW a, NEW m, NEW c, MaySplice(q, a, m, c)
    PROVE  LET s == Spliced(q, a, m, c)
           IN  /\ s \in Queues /\ Len(s) = Len(q) - m + Len(c)
               /\ Gone(q, a, m) \subseteq ToSet(q)
               /\ ToSet(s) = (ToSet(q) \ Gone(q, a, m)) \cup ToSet(c)
<1> DEFINE s == Spliced(q, a, m, c)
           n == Len(c)
           l == Len(q)
<1>1. /\ a \in Nat /\ m \in Nat /\ a + m <= l
      /\ \A i \in 1..l, j \in 1..n : q[i] # c[j]
      /\ q \in Queues /\ c \in Queues
  BY DEF MaySplice
<1>2. /\ s \in Seq(Blocks) /\ Len(s) = l - m + n /\ n \in Nat /\ l \in Nat
      /\ \A i \in 1..a : s[i] = q[i]
      /\ \A i \in 1..n : s[a + i] = c[i]
      /\ \A i \in a+m+1..l : s[i - m + n] = q[i]
  BY SplicedFacts
<1>3. /\ DOMAIN q = 1..l /\ DOMAIN c = 1..n /\ DOMAIN s = 1..l-m+n
      /\ \A i, j \in 1..l : q[i] = q[j] => i = j
      /\ \A i, j \in 1..n : c[i] = c[j] => i = j
  <2> HIDE DEF s
  <2>1. DOMAIN q = 1..l /\ DOMAIN c = 1..n /\ DOMAIN s = 1..l-m+n
    BY <1>1, <1>2 DEF Queues
  <2>2. (\A i, j \in DOMAIN q : q[i] = q[j] => i = j) /\ (\A i, j \in DOMAIN c : c[i] = c[j] => i = j)
    BY <1>1 DEF Queues, IsInjective
  <2> QED BY <2>1, <2>2
<1> HIDE DEF s, n, l
<1>4. ASSUME NEW i \in 1..l-m+n
      PROVE  \/ i \in 1..a /\ s[i] = q[i]
             \/ i - a \in 1..n /\ s[i] = c[i - a]
             \/ i + m - n \in a+m+1..l /\ s[i] = q[i + m - n]
  <2>1. CASE i <= a
    BY <1>1, <1>2, <2>1
  <2>2. CASE i > a /\ i <= a + n
    <3>1. i - a \in 1..n /\ a + (i - a) = i
      BY <1>1, <1>2, <2>2
    <3>2. s[a + (i - a)] = c[i - a]
      BY <1>2, <3>1
    <3> QED BY <3>1, <3>2
  <2>3. CASE i > a + n
    <3>1. i + m - n \in a+m+1..l /\ (i + m - n) - m + n = i
      BY <1>1, <1>2, <2>3
    <3>2. s[(i + m - n) - m + n] = q[i + m - n]
      BY <1>2, <3>1
    <3> QED BY <3>1, <3>2
  <2> QED BY <1>1, <1>2, <2>1, <2>2, <2>3
<1>5. ASSUME NEW i \in 1..l-m+n, NEW j \in 1..l-m+n, s[i] = s[j]
      PROVE  i = j
  <2>1. \A x \in 1..a, y \in a+m+1..l : x \in 1..l /\ y \in 1..l /\ x # y
    BY <1>1, <1>2
  <2>2. \A x \in 1..a : x \in 1..l
    BY <1>1, <1>2
  <2>3. \A y \in a+m+1..l : y \in 1..l
    BY <1>1, <1>2
  <2>4. CASE i \in 1..a /\ s[i] = q[i]
    <3>1. i \in 1..l
      BY <2>2, <2>4
    <3>2. CASE j \in 1..a /\ s[j] = q[j]
      BY <1>3, <1>5, <2>2, <2>4, <3>1, <3>2
    <3>3. CASE j - a \in 1..n /\ s[j] = c[j - a]
      BY <1>1, <1>5, <2>4, <3>1, <3>3
    <3>4. CASE j + m - n \in a+m+1..l /\ s[j] = q[j + m - n]
      <4>1. j + m - n \in 1..l /\ q[i] = q[j + m - n] /\ i # j + m - n
        BY <1>5, <2>1, <2>3, <2>4, <3>4
      <4> QED BY <1>3, <3>1, <4>1
    <3> QED BY <1>4, <3>2, <3>3, <3>4
  <2>5. CASE i - a \in 1..n /\ s[i] = c[i - a]
    <3>1. j - a \in 1..n /\ s[j] = c[j - a]
      BY <1>1, <1>4, <1>5, <2>2, <2>3, <2>5
    <3>2. i - a = j - a
      BY <1>3, <1>5, <2>5, <3>1
    <3> QED BY <1>1, <1>2, <3>2
  <2>6. CASE i + m - n \in a+m+1..l /\ s[i] = q[i + m - n]
    <3>1. j + m - n \in a+m+1..l /\ s[j] = q[j + m - n]
      <4>1. i + m - n \in 1..l
        BY <2>3, <2>6
      <4>2. CASE j \in 1..a /\ s[j] = q[j]
        <5>1. j \in 1..l /\ q[j] = q[i + m - n] /\ j # i + m - n
          BY <1>5, <2>1, <2>2, <2>6, <4>2
        <5> QED BY <1>3, <4>1, <5>1
      <4>3. CASE j - a \in 1..n /\ s[j] = c[j - a]
        BY <1>1, <1>5, <2>6, <4>1, <4>3
      <4> QED BY <1>4, <4>2, <4>3
    <3>2. i + m - n = j + m - n
      BY <1>3, <1>5, <2>3, <2>6, <3>1
    <3> QED BY <1>1, <1>2, <3>2
  <2> QED BY <1>4, <2>4, <2>5, <2>6
<1>6. s \in Queues
  BY <1>2, <1>3, <1>5 DEF Queues, IsInjective
<1>7. Gone(q, a, m) \subseteq ToSet(q)
  <2>1. \A i \in a+1..a+m : i \in 1..l
    BY <1>1, <1>2
  <2> QED BY <1>3, <2>1 DEF Gone, ToSet
<1>8. ASSUME NEW b \in ToSet(s)
      PROVE  b \in (ToSet(q) \ Gone(q, a, m)) \cup ToSet(c)
  <2>1. PICK i \in 1..l-m+n : s[i] = b
    BY <1>3 DEF ToSet
  <2>2. CASE i - a \in 1..n /\ s[i] = c[i - a]
    BY <1>3, <2>1, <2>2 DEF ToSet
  <2>3. ASSUME NEW x \in 1..l, x \notin a+1..a+m, b = q[x]
        PROVE  b \in ToSet(q) \ Gone(q, a, m)
    <3>1. \A y \in a+1..a+m : y \in 1..l
      BY <1>1, <1>2
    <3>2. \A y \in a+1..a+m : q[y] # b
      BY <1>3, <2>3, <3>1
    <3> QED BY <1>3, <2>3, <3>2 DEF Gone, ToSet
  <2>4. CASE i \in 1..a /\ s[i] = q[i]
    <3>1. i \in 1..l /\ i \notin a+1..a+m
      BY <1>1, <1>2, <2>4
    <3> QED BY <2>1, <2>3, <2>4, <3>1
  <2>5. CASE i + m - n \in a+m+1..l /\ s[i] = q[i + m - n]
    <3>1. i + m - n \in 1..l /\ i + m - n \notin a+1..a+m
      BY <1>1, <1>2, <2>5
    <3> QED BY <2>1, <2>3, <2>5, <3>1
  <2> QED BY <1>4, <2>2, <2>4, <2>5
<1>9. ASSUME NEW b \in ToSet(c) PROVE b \in ToSet(s)
  <2>1. PICK i \in 1..n : c[i] = b
    BY <1>3 DEF ToSet
  <2>2. a + i \in DOMAIN s /\ s[a + i] = b
    BY <1>1, <1>2, <1>3, <2>1
  <2> QED BY <2>2 DEF ToSet
<1>10. ASSUME NEW b \in ToSet(q), b \notin Gone(q, a, m) PROVE b \in ToSet(s)
  <2>1. PICK i \in 1..l : q[i] = b
    BY <1>3 DEF ToSet
  <2>2. i \notin a+1..a+m
    BY <1>10, <2>1 DEF Gone
  <2>3. CASE i <= a
    <3>1. i \in DOMAIN s /\ s[i] = b
      BY <1>1, <1>2, <1>3, <2>1, <2>3
    <3> QED BY <3>1 DEF ToSet
  <2>4. CASE i > a
    <3>1. i \in a+m+1..l /\ i - m + n \in DOMAIN s
      BY <1>1, <1>2, <1>3, <2>2, <2>4
    <3>2. s[i - m + n] = b
      BY <1>2, <2>1, <3>1
    <3> QED BY <3>1, <3>2 DEF ToSet
  <2> QED BY <1>1, <1>2, <2>3, <2>4
<1>11. ToSet(s) = (ToSet(q) \ Gone(q, a, m)) \cup ToSet(c)
  BY <1>8, <1>9, <1>10
<1> QED BY <1>2, <1>6, <1>7, <1>11 DEF s, n, l

----------------------------------------------------------------------------
(* What the methods relink: the chain that joins the two ends of the gap.   *)

LEMMA ChainFacts ==
    ASSUME NEW chain \in Seq(Nodes), Len(chain) >= 2,
           \A i, j \in 1..Len(chain) : chain[i] = chain[j] => i = j
    PROVE  LET n == Len(chain)
           IN  /\ \A i \in 1..n-1 : chain[i] \in ToSet(Front(chain)) /\ After(chain[i], chain) = chain[i+1]
               /\ \A i \in 1..n-1 : chain[i+1] \in ToSet(Tail(chain)) /\ Before(chain[i+1], chain) = chain[i]
               /\ \A x \in ToSet(Front(chain)) : \E i \in 1..n-1 : x = chain[i]
               /\ \A x \in ToSet(Tail(chain)) : \E i \in 1..n-1 : x = chain[i+1]
<1> DEFINE n == Len(chain)
           f == Front(chain)
           t == Tail(chain)
<1>1. n \in Nat /\ n >= 2 /\ DOMAIN chain = 1..n /\ \A i \in 1..n : chain[i] \in Nodes
  OBVIOUS
<1>2. DOMAIN f = 1..n-1 /\ \A i \in 1..n-1 : f[i] = chain[i]
  BY <1>1 DEF Front
<1>3. DOMAIN t = 1..n-1 /\ \A i \in 1..n-1 : t[i] = chain[i+1]
  BY <1>1
<1> HIDE DEF n, f, t
<1>4. ASSUME NEW i \in 1..n-1
      PROVE  /\ i \in 1..n /\ i + 1 \in 1..n /\ chain[i] \in ToSet(f) /\ chain[i+1] \in ToSet(t)
             /\ After(chain[i], chain) = chain[i+1] /\ Before(chain[i+1], chain) = chain[i]
  <2>1. i \in 1..n /\ i + 1 \in 1..n
    BY <1>1
  <2>2. chain[i] \in ToSet(f) /\ chain[i+1] \in ToSet(t)
    BY <1>2, <1>3 DEF ToSet
  <2>3. ASSUME NEW j \in 1..n-1
        PROVE  j \in 1..n /\ j + 1 \in 1..n
    BY <1>1
  <2>4. ASSUME NEW y \in Nodes, \E j \in 1..n-1 : chain[j] = chain[i] /\ chain[j+1] = y
        PROVE  y = chain[i+1]
    <3>1. PICK j \in 1..n-1 : chain[j] = chain[i] /\ chain[j+1] = y
      BY <2>4
    <3>2. j = i
      BY <2>1, <2>3, <3>1 DEF n
    <3> QED BY <3>1, <3>2
  <2>5. ASSUME NEW x \in Nodes, \E j \in 1..n-1 : chain[j] = x /\ chain[j+1] = chain[i+1]
        PROVE  x = chain[i]
    <3>1. PICK j \in 1..n-1 : chain[j] = x /\ chain[j+1] = chain[i+1]
      BY <2>5
    <3>2. j + 1 = i + 1
      BY <2>1, <2>3, <3>1 DEF n
    <3>3. j = i
      BY <1>1, <3>2
    <3> QED BY <3>1, <3>3
  <2>6. After(chain[i], chain) = chain[i+1]
    <3>1. chain[i+1] \in Nodes /\ \E j \in 1..n-1 : chain[j] = chain[i] /\ chain[j+1] = chain[i+1]
      BY <1>1, <2>1
    <3> QED BY <2>4, <3>1 DEF After, n
  <2>7. Before(chain[i+1], chain) = chain[i]
    <3>1. chain[i] \in Nodes /\ \E j \in 1..n-1 : chain[j] = chain[i] /\ chain[j+1] = chain[i+1]
      BY <1>1, <2>1
    <3> QED BY <2>5, <3>1 DEF Before, n
  <2> QED BY <2>1, <2>2, <2>6, <2>7
<1>5. \A x \in ToSet(f) : \E i \in 1..n-1 : x = chain[i]
  BY <1>2 DEF ToSet
<1>6. \A x \in ToSet(t) : \E i \in 1..n-1 : x = chain[i+1]
  BY <1>3 DEF ToSet
<1> QED BY <1>4, <1>5, <1>6 DEF n, f, t

(* The chain holds the neighbours of the gap and the new blocks, in the     *)
(* order in which they stand in the spliced list, and nothing twice.        *)
LEMMA ChainOfSplice ==
    ASSUME NEW q, NEW a, NEW m, NEW c, MaySplice(q, a, m, c)
    PROVE  LET chain == Chain(q, a, m, c)
               s == Spliced(q, a, m, c)
           IN  /\ chain \in Seq(Nodes) /\ Len(chain) = Len(c) + 2
               /\ \A i \in 1..Len(c)+2 : chain[i] = Node(s, a + i - 1)
               /\ \A i, j \in 1..Len(c)+2 : chain[i] = chain[j] => i = j
<1> DEFINE s == Spliced(q, a, m, c)
           n == Len(c)
           l == Len(q)
           x == Node(q, a)
           y == Node(q, a + m + 1)
           ch == <<x>> \o c \o <<y>>
<1>1. a \in Nat /\ m \in Nat /\ a + m <= l /\ q \in Queues /\ c \in Queues
  BY DEF MaySplice
<1>2. n \in Nat /\ l \in Nat /\ s \in Queues /\ Len(s) = l - m + n
  <2>1. q \in Seq(Blocks) /\ c \in Seq(Blocks)
    BY <1>1 DEF Queues
  <2> QED BY <2>1, SplicedQueue
<1>3. /\ \A i \in 0..a : Node(s, i) = Node(q, i)
      /\ \A i \in 1..n : Node(s, a + i) = c[i]
      /\ \A i \in a+m+1..l+1 : Node(s, i - m + n) = Node(q, i)
  BY SplicedNodes
<1>4. x \in Nodes /\ y \in Nodes
  <2>1. a \in 0..l+1 /\ a + m + 1 \in 0..l+1
    BY <1>1, <1>2
  <2> HIDE DEF l
  <2> QED BY <1>1, <2>1, NodeFacts DEF l
<1>5. c \in Seq(Nodes)
  BY <1>1 DEF Queues, Nodes
<1>6. x = Node(s, a) /\ y = Node(s, a + n + 1)
  <2>1. a \in 0..a /\ a + m + 1 \in a+m+1..l+1 /\ (a + m + 1) - m + n = a + n + 1
    BY <1>1, <1>2
  <2> HIDE DEF s, n, l
  <2>2. Node(s, (a + m + 1) - m + n) = Node(q, a + m + 1)
    BY <1>3, <2>1
  <2> QED BY <1>3, <2>1, <2>2
<1> HIDE DEF s, x, y, l
<1>7. /\ ch \in Seq(Nodes) /\ Len(ch) = n + 2 /\ ch[1] = x /\ ch[n + 2] = y
      /\ \A i \in 1..n : ch[i + 1] = c[i]
  <2> DEFINE h == <<x>>
             g == h \o c
             e == <<y>>
  <2>1. h \in Seq(Nodes) /\ Len(h) = 1 /\ h[1] = x /\ e \in Seq(Nodes) /\ Len(e) = 1 /\ e[1] = y
    BY <1>4
  <2> HIDE DEF h, e
  <2>2. /\ g \in Seq(Nodes) /\ Len(g) = Len(h) + n
        /\ \A i \in 1..Len(h) : g[i] = h[i]
        /\ \A i \in 1..n : g[Len(h) + i] = c[i]
    <3>1. g \in Seq(Nodes) /\ Len(g) = Len(h) + n
      BY <1>5, <2>1, ConcatFacts
    <3>2. \A i \in 1..Len(h) : g[i] = h[i]
      BY <1>5, <2>1, ConcatFacts
    <3>3. \A i \in 1..n : g[Len(h) + i] = c[i]
      BY <1>5, <2>1, ConcatFacts
    <3> QED BY <3>1, <3>2, <3>3
  <2> HIDE DEF g
  <2> DEFINE z == g \o e
  <2>3. /\ z \in Seq(Nodes) /\ Len(z) = Len(g) + Len(e)
        /\ \A i \in 1..Len(g) : z[i] = g[i]
        /\ \A i \in 1..Len(e) : z[Len(g) + i] = e[i]
    <3>1. z \in Seq(Nodes) /\ Len(z) = Len(g) + Len(e)
      BY <2>1, <2>2, ConcatFacts
    <3>2. \A i \in 1..Len(g) : z[i] = g[i]
      BY <2>1, <2>2, ConcatFacts
    <3>3. \A i \in 1..Len(e) : z[Len(g) + i] = e[i]
      BY <2>1, <2>2, ConcatFacts
    <3> QED BY <3>1, <3>2, <3>3
  <2> HIDE DEF z, n
  <2>4. Len(g) = n + 1 /\ Len(z) = n + 2
    BY <1>2, <2>1, <2>2, <2>3
  <2>5. z[1] = x
    <3>1. 1 \in 1..n+1
      BY <1>2
    <3> QED BY <2>1, <2>2, <2>3, <2>4, <3>1
  <2>6. z[n + 2] = y
    <3>1. (n + 1) + 1 = n + 2
      BY <1>2
    <3>2. z[(n + 1) + 1] = e[1]
      BY <2>1, <2>3, <2>4
    <3> QED BY <2>1, <3>1, <3>2
  <2>7. ASSUME NEW i \in 1..n PROVE z[i + 1] = c[i]
    <3>1. i + 1 \in 1..n+1 /\ 1 + i = i + 1
      BY <1>2
    <3>2. g[1 + i] = c[i]
      BY <2>1, <2>2
    <3> QED BY <2>3, <2>4, <3>1, <3>2
  <2>8. z = ch
    BY DEF z, g, h, e
  <2> QED BY <2>3, <2>4, <2>5, <2>6, <2>7, <2>8
<1> HIDE DEF ch, n
<1>8. ASSUME NEW i \in 1..n+2
      PROVE  ch[i] = Node(s, a + i - 1)
  <2>1. CASE i = 1
    <3>1. a + 1 - 1 = a
      BY <1>1
    <3> QED BY <1>6, <1>7, <2>1, <3>1
  <2>2. CASE i = n + 2
    <3>1. a + (n + 2) - 1 = a + n + 1
      BY <1>1, <1>2
    <3> QED BY <1>6, <1>7, <2>2, <3>1
  <2>3. CASE i - 1 \in 1..n
    <3>1. (i - 1) + 1 = i /\ a + (i - 1) = a + i - 1
      BY <1>1, <1>2
    <3>2. ch[(i - 1) + 1] = c[i - 1] /\ Node(s, a + (i - 1)) = c[i - 1]
      BY <1>3, <1>7, <2>3
    <3> QED BY <3>1, <3>2
  <2> QED BY <1>2, <2>1, <2>2, <2>3
<1>9. ASSUME NEW i \in 1..n+2, NEW j \in 1..n+2, ch[i] = ch[j]
      PROVE  i = j
  <2>1. a + i - 1 \in 0..Len(s)+1 /\ a + j - 1 \in 0..Len(s)+1
    BY <1>1, <1>2
  <2>2. a + i - 1 = a + j - 1
    BY <1>2, <1>8, <1>9, <2>1, NodesDiffer
  <2> QED BY <1>1, <1>2, <2>2
<1> QED BY <1>7, <1>8, <1>9 DEF Chain, ch, x, y, s, n

(* The links as Relink leaves them.                                         *)
NextLinks(nx, chain, gone) ==
    [x \in Nodes |-> IF x \in gone THEN None ELSE IF x \in ToSet(Front(chain)) THEN After(x, chain) ELSE nx[x]]
PrevLinks(pv, chain, gone) ==
    [x \in Nodes |-> IF x \in gone THEN None ELSE IF x \in ToSet(Tail(chain)) THEN Before(x, chain) ELSE pv[x]]

(* Joining the two ends of the gap makes the links those of the spliced     *)
(* list, in both directions, and the blocks that left have none.            *)
LEMMA SpliceLinks ==
    ASSUME NEW q, NEW a, NEW m, NEW c, MaySplice(q, a, m, c),
           NEW nx \in Links, NEW pv \in Links, Linked(q, nx, pv)
    PROVE  LET s == Spliced(q, a, m, c)
               nx2 == NextLinks(nx, Chain(q, a, m, c), Gone(q, a, m))
               pv2 == PrevLinks(pv, Chain(q, a, m, c), Gone(q, a, m))
           IN  nx2 \in Links /\ pv2 \in Links /\ Linked(s, nx2, pv2)
<1> DEFINE s == Spliced(q, a, m, c)
           ch == Chain(q, a, m, c)
           gone == Gone(q, a, m)
           nx2 == NextLinks(nx, ch, gone)
           pv2 == PrevLinks(pv, ch, gone)
           n == Len(c)
           l == Len(q)
<1>1. /\ a \in Nat /\ m \in Nat /\ a + m <= l /\ q \in Queues /\ c \in Queues
      /\ \A i \in 1..l, j \in 1..n : q[i] # c[j]
  BY DEF MaySplice
<1>2. n \in Nat /\ l \in Nat /\ s \in Queues /\ Len(s) = l - m + n
  <2>1. q \in Seq(Blocks) /\ c \in Seq(Blocks)
    BY <1>1 DEF Queues
  <2> QED BY <2>1, SplicedQueue
<1>3. /\ \A i \in 0..a : Node(s, i) = Node(q, i)
      /\ \A i \in a+m+1..l+1 : Node(s, i - m + n) = Node(q, i)
  BY SplicedNodes
<1>4. /\ ch \in Seq(Nodes) /\ Len(ch) = n + 2
      /\ \A i \in 1..n+2 : ch[i] = Node(s, a + i - 1)
      /\ \A i, j \in 1..n+2 : ch[i] = ch[j] => i = j
  BY ChainOfSplice
<1>5. gone \subseteq ToSet(q) /\ ToSet(s) = (ToSet(q) \ gone) \cup ToSet(c)
  BY SplicedQueue
<1> HIDE DEF s, ch, gone, n, l
<1>6. /\ \A i \in 1..n+1 : ch[i] \in ToSet(Front(ch)) /\ After(ch[i], ch) = ch[i+1]
      /\ \A i \in 1..n+1 : ch[i+1] \in ToSet(Tail(ch)) /\ Before(ch[i+1], ch) = ch[i]
      /\ \A x \in ToSet(Front(ch)) : \E i \in 1..n+1 : x = ch[i]
      /\ \A x \in ToSet(Tail(ch)) : \E i \in 1..n+1 : x = ch[i+1]
  <2>1. Len(ch) >= 2 /\ Len(ch) - 1 = n + 1
    BY <1>2, <1>4
  <2>2. \A i, j \in 1..Len(ch) : ch[i] = ch[j] => i = j
    BY <1>4
  <2>3. LET k == Len(ch)
        IN  /\ \A i \in 1..k-1 : ch[i] \in ToSet(Front(ch)) /\ After(ch[i], ch) = ch[i+1]
            /\ \A i \in 1..k-1 : ch[i+1] \in ToSet(Tail(ch)) /\ Before(ch[i+1], ch) = ch[i]
            /\ \A x \in ToSet(Front(ch)) : \E i \in 1..k-1 : x = ch[i]
            /\ \A x \in ToSet(Tail(ch)) : \E i \in 1..k-1 : x = ch[i+1]
    BY <1>4, <2>1, <2>2, ChainFacts
  <2> QED BY <2>1, <2>3
(* which places of the spliced list keep their links *)
<1>7. \A x \in ToSet(Front(ch)) : \E i \in a..a+n : x = Node(s, i)
  <2>1. SUFFICES ASSUME NEW x \in ToSet(Front(ch)) PROVE \E i \in a..a+n : x = Node(s, i)
    OBVIOUS
  <2>2. PICK i \in 1..n+1 : x = ch[i]
    BY <1>6
  <2>3. i \in 1..n+2 /\ a + i - 1 \in a..a+n
    BY <1>1, <1>2
  <2> QED BY <1>4, <2>2, <2>3
<1>8. \A x \in ToSet(Tail(ch)) : \E i \in a+1..a+n+1 : x = Node(s, i)
  <2>1. SUFFICES ASSUME NEW x \in ToSet(Tail(ch)) PROVE \E i \in a+1..a+n+1 : x = Node(s, i)
    OBVIOUS
  <2>2. PICK i \in 1..n+1 : x = ch[i+1]
    BY <1>6
  <2>3. i + 1 \in 1..n+2 /\ a + (i + 1) - 1 \in a+1..a+n+1
    BY <1>1, <1>2
  <2> QED BY <1>4, <2>2, <2>3
<1>9. ASSUME NEW i \in 0..Len(s)+1
      PROVE  /\ Node(s, i) \in Nodes /\ Node(s, i) \notin gone
             /\ Node(s, i) \in ToSet(Front(ch)) => i \in a..a+n
             /\ Node(s, i) \in ToSet(Tail(ch)) => i \in a+1..a+n+1
  <2>1. Node(s, i) \in Nodes
    BY <1>2, NodeFacts
  <2>2. Node(s, i) \notin gone
    <3>1. i = 0 \/ i = Len(s) + 1 \/ i \in 1..Len(s)
      BY <1>2
    <3>2. /\ \A j \in 1..Len(s) : Node(s, j) \in ToSet(s)
          /\ Node(s, 0) = fake_head /\ Node(s, Len(s) + 1) = fake_tail
      BY <1>2, NodeFacts
    <3>3. \A b \in gone : b \in Blocks /\ b \notin ToSet(s)
      <4>1. \A b \in ToSet(q) : b \in Blocks /\ \E j \in 1..l : q[j] = b
        BY <1>1, NodeFacts DEF l
      <4>2. \A b \in ToSet(c) : \E j \in 1..n : c[j] = b
        BY <1>1, NodeFacts DEF n
      <4> QED BY <1>1, <1>5, <4>1, <4>2
    <3> QED BY <3>1, <3>2, <3>3, FreeBlockQueueAssumption
  <2>3. ASSUME Node(s, i) \in ToSet(Front(ch)) PROVE i \in a..a+n
    <3>1. PICK j \in a..a+n : Node(s, i) = Node(s, j)
      BY <1>7, <2>3
    <3>2. j \in 0..Len(s)+1
      BY <1>1, <1>2
    <3> QED BY <1>2, <3>1, <3>2, NodesDiffer
  <2>4. ASSUME Node(s, i) \in ToSet(Tail(ch)) PROVE i \in a+1..a+n+1
    <3>1. PICK j \in a+1..a+n+1 : Node(s, i) = Node(s, j)
      BY <1>8, <2>4
    <3>2. j \in 0..Len(s)+1
      BY <1>1, <1>2
    <3> QED BY <1>2, <3>1, <3>2, NodesDiffer
  <2> QED BY <2>1, <2>2, <2>3, <2>4
<1>10. ASSUME NEW i \in 0..Len(s)
       PROVE  nx2[Node(s, i)] = Node(s, i + 1) /\ pv2[Node(s, i + 1)] = Node(s, i)
  <2>1. i \in 0..Len(s)+1 /\ i + 1 \in 0..Len(s)+1
    BY <1>2
  <2>2. /\ Node(s, i) \in Nodes /\ Node(s, i) \notin gone
        /\ Node(s, i + 1) \in Nodes /\ Node(s, i + 1) \notin gone
    BY <1>9, <2>1
  <2>3. CASE i \in a..a+n
    <3>1. i - a + 1 \in 1..n+1 /\ i - a + 1 \in 1..n+2 /\ (i - a + 1) + 1 \in 1..n+2
          /\ a + (i - a + 1) - 1 = i /\ a + ((i - a + 1) + 1) - 1 = i + 1
      BY <1>1, <1>2, <2>3
    <3>2. ch[i - a + 1] = Node(s, i) /\ ch[(i - a + 1) + 1] = Node(s, i + 1)
      BY <1>4, <3>1
    <3>3. /\ Node(s, i) \in ToSet(Front(ch)) /\ After(Node(s, i), ch) = Node(s, i + 1)
          /\ Node(s, i + 1) \in ToSet(Tail(ch)) /\ Before(Node(s, i + 1), ch) = Node(s, i)
      BY <1>6, <3>1, <3>2
    <3> QED BY <2>2, <3>3 DEF NextLinks, PrevLinks
  <2>4. CASE i \notin a..a+n
    <3>1. i + 1 \notin a+1..a+n+1
      BY <1>1, <1>2, <2>4
    <3>2. nx2[Node(s, i)] = nx[Node(s, i)] /\ pv2[Node(s, i + 1)] = pv[Node(s, i + 1)]
      BY <1>9, <2>1, <2>2, <2>4, <3>1 DEF NextLinks, PrevLinks
    <3>3. \E j \in 0..l : Node(s, i) = Node(q, j) /\ Node(s, i + 1) = Node(q, j + 1)
      <4>1. CASE i < a
        <5>1. i \in 0..a /\ i + 1 \in 0..a /\ i \in 0..l
          BY <1>1, <1>2, <4>1
        <5> QED BY <1>3, <5>1
      <4>2. CASE i > a + n
        <5> DEFINE j == i + m - n
        <5>1. /\ j \in a+m+1..l+1 /\ j + 1 \in a+m+1..l+1 /\ j \in 0..l
              /\ j - m + n = i /\ (j + 1) - m + n = i + 1
          BY <1>1, <1>2, <4>2
        <5> HIDE DEF j
        <5>2. Node(s, j - m + n) = Node(q, j) /\ Node(s, (j + 1) - m + n) = Node(q, j + 1)
          BY <1>3, <5>1
        <5> QED BY <5>1, <5>2
      <4> QED BY <1>1, <1>2, <2>4, <4>1, <4>2
    <3>4. \A j \in 0..l : nx[Node(q, j)] = Node(q, j + 1) /\ pv[Node(q, j + 1)] = Node(q, j)
      BY DEF Linked, l
    <3> QED BY <3>2, <3>3, <3>4
  <2> QED BY <2>3, <2>4
<1>11. nx2[fake_tail] = None /\ pv2[fake_head] = None
  <2>1. 0 \in 0..Len(s)+1 /\ Len(s)+1 \in 0..Len(s)+1 /\ Len(s) + 1 \notin a..a+n /\ 0 \notin a+1..a+n+1
    BY <1>1, <1>2
  <2>2. Node(s, 0) = fake_head /\ Node(s, Len(s) + 1) = fake_tail
    BY <1>2, NodeFacts
  <2>3. /\ fake_tail \in Nodes /\ fake_tail \notin gone /\ fake_tail \notin ToSet(Front(ch))
        /\ fake_head \in Nodes /\ fake_head \notin gone /\ fake_head \notin ToSet(Tail(ch))
    BY <1>9, <2>1, <2>2
  <2> QED BY <2>3 DEF NextLinks, PrevLinks, Linked
<1>12. ASSUME NEW b \in Blocks, b \notin ToSet(s)
       PROVE  nx2[b] = None /\ pv2[b] = None
  <2>1. b \in Nodes
    BY DEF Nodes
  <2>2. CASE b \in gone
    BY <2>1, <2>2 DEF NextLinks, PrevLinks
  <2>3. CASE b \notin gone
    <3>1. nx[b] = None /\ pv[b] = None
      BY <1>5, <1>12, <2>3 DEF Linked
    <3>2. /\ \A i \in 1..Len(s) : Node(s, i) \in ToSet(s)
          /\ Node(s, 0) = fake_head /\ Node(s, Len(s) + 1) = fake_tail
      BY <1>2, NodeFacts
    <3>3. ASSUME NEW i \in 0..Len(s)+1 PROVE Node(s, i) # b
      <4>1. i = 0 \/ i = Len(s) + 1 \/ i \in 1..Len(s)
        BY <1>2
      <4> QED BY <1>12, <3>2, <4>1, FreeBlockQueueAssumption
    <3>4. b \notin ToSet(Front(ch)) /\ b \notin ToSet(Tail(ch))
      <4>1. \A i : (i \in a..a+n \/ i \in a+1..a+n+1) => i \in 0..Len(s)+1
        BY <1>1, <1>2
      <4> QED BY <1>7, <1>8, <3>3, <4>1
    <3> QED BY <2>1, <2>3, <3>1, <3>4 DEF NextLinks, PrevLinks
  <2> QED BY <2>2, <2>3
<1>13. nx2 \in Links /\ pv2 \in Links
  <2>1. ASSUME NEW x \in ToSet(Front(ch)) PROVE After(x, ch) \in Nodes
    <3>1. PICK i \in 1..n+1 : x = ch[i]
      BY <1>6
    <3>2. After(x, ch) = ch[i+1] /\ i + 1 \in 1..n+2
      BY <1>2, <1>6, <3>1
    <3> QED BY <1>4, <3>2
  <2>2. ASSUME NEW x \in ToSet(Tail(ch)) PROVE Before(x, ch) \in Nodes
    <3>1. PICK i \in 1..n+1 : x = ch[i+1]
      BY <1>6
    <3>2. Before(x, ch) = ch[i] /\ i \in 1..n+2
      BY <1>2, <1>6, <3>1
    <3> QED BY <1>4, <3>2
  <2> QED BY <2>1, <2>2 DEF NextLinks, PrevLinks, Links
<1>14. Linked(s, nx2, pv2)
  <2> HIDE DEF nx2, pv2
  <2> QED BY <1>10, <1>11, <1>12 DEF Linked
<1> QED BY <1>13, <1>14 DEF s, ch, gone

----------------------------------------------------------------------------
(* Walking the links from the fake head meets the queue.                    *)

LEMMA BoundedInduction ==
    ASSUME NEW n \in Nat, NEW S, 0 \in S, \A i \in 1..n : i - 1 \in S => i \in S
    PROVE  0..n \subseteq S
<1> DEFINE Bad == (0..n) \ S
<1>1. SUFFICES ASSUME Bad # {} PROVE FALSE
  OBVIOUS
<1>2. Bad \subseteq Nat
  OBVIOUS
<1>3. PICK i \in Bad : \A j \in Bad : ~ (<<j, i>> \in OpToRel(<, Nat))
  BY <1>1, <1>2, WFMin, NatLessThanWellFounded
<1>4. \A j \in Bad : ~ (j < i)
  BY <1>2, <1>3 DEF OpToRel
<1>5. i # 0 /\ i - 1 \in 0..n /\ i - 1 \in S
  BY <1>4
<1> QED BY <1>5

LEMMA QueueFits ==
    ASSUME NEW q \in Queues
    PROVE  Len(q) \in 0..num_blocks
<1> DEFINE n == Len(q)
<1>1. n \in Nat /\ DOMAIN q = 1..n /\ \A i \in 1..n : q[i] \in Blocks
  BY NodeFacts DEF Queues
<1> HIDE DEF n
<1>2. q \in [1..n -> ToSet(q)]
  BY <1>1 DEF ToSet, Queues
<1>3. q \in Injection(1..n, ToSet(q))
  BY <1>1, <1>2 DEF Injection, Queues, IsInjective
<1>4. q \in Surjection(1..n, ToSet(q))
  BY <1>1, <1>2 DEF Surjection, ToSet
<1>5. ExistsBijection(1..n, ToSet(q))
  BY <1>3, <1>4 DEF ExistsBijection, Bijection
<1>6. IsFiniteSet(1..n) /\ Cardinality(1..n) = n
  BY <1>1, FS_Interval
<1>7. IsFiniteSet(Blocks) /\ Cardinality(Blocks) = num_blocks
  <2>1. num_blocks \in Nat /\ 0 \in Int /\ num_blocks - 1 \in Int
    BY FreeBlockQueueAssumption
  <2>2. IsFiniteSet(0..num_blocks-1)
        /\ Cardinality(0..num_blocks-1) = IF 0 > num_blocks - 1 THEN 0 ELSE (num_blocks - 1) - 0 + 1
    BY <2>1, FS_Interval
  <2> QED BY <2>1, <2>2 DEF Blocks
<1>8. ToSet(q) \in SUBSET Blocks
  BY <1>1 DEF ToSet
<1>9. Cardinality(ToSet(q)) = n
  BY <1>5, <1>6, FS_Bijection
<1>10. n <= num_blocks
  BY <1>7, <1>8, <1>9, FS_Subset
<1> QED BY <1>1, <1>10, FreeBlockQueueAssumption DEF n

(* the node after i steps; behind the fake tail there is None *)
Met(q, i) == IF i <= Len(q) THEN Node(q, i + 1) ELSE None

LEMMA NthIsMet ==
    ASSUME NEW q, Holds(q)
    PROVE  /\ \A i \in 0..num_blocks : Nth[i] = Met(q, i)
           /\ \A i \in 0..num_blocks : NextOf(Nth[i]) # None <=> i < Len(q)
<1> DEFINE N == num_blocks
           l == Len(q)
           Is(f) == f = [n \in 0..num_blocks |-> IF n = 0 THEN next[fake_head] ELSE NextOf(f[n-1])]
           w == [i \in 0..N |-> Met(q, i)]
<1>1. N \in Nat /\ l \in Nat /\ l <= N /\ q \in Queues
  BY QueueFits, FreeBlockQueueAssumption DEF Holds
<1>2. /\ Node(q, 0) = fake_head /\ Node(q, l + 1) = fake_tail
      /\ \A i \in 0..l+1 : Node(q, i) # None
      /\ \A i \in 0..l : next[Node(q, i)] = Node(q, i + 1)
      /\ next[fake_tail] = None
  BY <1>1, NodeFacts DEF Holds, Linked
<1> HIDE DEF N, l
<1>3. ASSUME NEW i \in 0..N
      PROVE  NextOf(Met(q, i)) = Met(q, i + 1)
  <2>1. CASE i < l
    <3>1. i <= l /\ i + 1 <= l /\ i + 1 \in 0..l /\ i + 1 \in 0..l+1
      BY <1>1, <2>1
    <3> QED BY <1>2, <3>1 DEF Met, NextOf, l
  <2>2. CASE i = l
    <3>1. i <= l /\ ~(i + 1 <= l) /\ l + 1 \in 0..l+1
      BY <1>1, <2>2
    <3> QED BY <1>2, <2>2, <3>1 DEF Met, NextOf, l
  <2>3. CASE i > l
    <3>1. ~(i <= l) /\ ~(i + 1 <= l)
      BY <1>1, <2>3
    <3> QED BY <3>1 DEF Met, NextOf, l
  <2> QED BY <1>1, <2>1, <2>2, <2>3
<1>4. Met(q, 0) = next[fake_head]
  <2>1. 0 <= l /\ 0 \in 0..l
    BY <1>1
  <2> QED BY <1>2, <2>1 DEF Met, l
<1>5. Is(w)
  <2>1. ASSUME NEW i \in 0..N
        PROVE  w[i] = IF i = 0 THEN next[fake_head] ELSE NextOf(w[i-1])
    <3>1. CASE i = 0
      BY <1>4, <3>1
    <3>2. CASE i # 0
      <4>1. i - 1 \in 0..N /\ (i - 1) + 1 = i
        BY <1>1, <3>2
      <4>2. NextOf(Met(q, i - 1)) = Met(q, i)
        BY <1>3, <4>1
      <4> QED BY <3>2, <4>1, <4>2
    <3> QED BY <3>1, <3>2
  <2>2. w = [i \in 0..N |-> w[i]]
    OBVIOUS
  <2> HIDE DEF w
  <2>3. w = [i \in 0..N |-> IF i = 0 THEN next[fake_head] ELSE NextOf(w[i-1])]
    BY <2>1, <2>2
  <2> QED BY <2>3 DEF N
<1>6. Nth = CHOOSE f : Is(f)
  BY DEF Nth
<1>7. Is(Nth)
  <2> HIDE DEF Is, w
  <2> QED BY <1>5, <1>6
<1>8. \A i \in 0..N : Nth[i] = IF i = 0 THEN next[fake_head] ELSE NextOf(Nth[i-1])
  BY <1>7 DEF N
<1> HIDE DEF Is, w
<1>9. \A i \in 0..N : Nth[i] = Met(q, i)
  <2> DEFINE Good == {i \in 0..N : Nth[i] = Met(q, i)}
  <2>1. 0 \in Good
    <3>1. 0 \in 0..N
      BY <1>1
    <3> QED BY <1>4, <1>8, <3>1
  <2>2. ASSUME NEW i \in 1..N, i - 1 \in Good
        PROVE  i \in Good
    <3>1. i \in 0..N /\ i # 0 /\ i - 1 \in 0..N /\ (i - 1) + 1 = i
      BY <1>1
    <3>2. Nth[i-1] = Met(q, i - 1)
      BY <2>2
    <3>3. NextOf(Met(q, i - 1)) = Met(q, i)
      BY <1>3, <3>1
    <3> QED BY <1>8, <3>1, <3>2, <3>3
  <2>3. 0..N \subseteq Good
    <3> HIDE DEF Good
    <3> QED BY <1>1, <2>1, <2>2, BoundedInduction
  <2> QED BY <2>3
<1>10. ASSUME NEW i \in 0..N
       PROVE  NextOf(Nth[i]) # None <=> i < l
  <2>1. NextOf(Nth[i]) = Met(q, i + 1)
    BY <1>3, <1>9
  <2>2. i < l => i + 1 <= l /\ (i + 1) + 1 \in 0..l+1
    BY <1>1
  <2>3. ~(i < l) => ~(i + 1 <= l)
    BY <1>1
  <2> QED BY <1>2, <2>1, <2>2, <2>3 DEF Met, l
<1> QED BY <1>9, <1>10 DEF N, l

LEMMA WalkIsQueue ==
    ASSUME NEW q, Holds(q)
    PROVE  get_all_free_blocks = q
<1> DEFINE l == Len(q)
<1>1. l \in Nat /\ l <= num_blocks /\ num_blocks \in Nat /\ q \in Queues
  BY QueueFits, FreeBlockQueueAssumption DEF Holds
<1>2. /\ \A i \in 0..num_blocks : Nth[i] = Met(q, i)
      /\ \A i \in 0..num_blocks : NextOf(Nth[i]) # None <=> i < l
  BY NthIsMet
<1>3. \A i \in 1..l : Node(q, i) = q[i]
  BY <1>1, NodeFacts
<1>4. q = [i \in 1..l |-> q[i]]
  BY <1>1 DEF Queues
<1> HIDE DEF l
<1>5. Walked = 0..l-1
  <2>1. \A i \in 0..l-1 : i \in 0..num_blocks /\ i < l
    BY <1>1
  <2>2. \A i \in 0..num_blocks : i < l => i \in 0..l-1
    BY <1>1
  <2> QED BY <1>2, <2>1, <2>2 DEF Walked
<1>6. Cardinality(Walked) = l
  <2>1. 0 \in Int /\ l - 1 \in Int
    BY <1>1
  <2>2. Cardinality(0..l-1) = IF 0 > l - 1 THEN 0 ELSE (l - 1) - 0 + 1
    BY <2>1, FS_Interval
  <2> QED BY <1>1, <1>5, <2>2
<1>7. ASSUME NEW i \in 1..l PROVE Nth[i-1] = q[i]
  <2>1. i - 1 \in 0..num_blocks /\ i - 1 <= l /\ (i - 1) + 1 = i
    BY <1>1
  <2> QED BY <1>2, <1>3, <2>1 DEF Met, l
<1>8. [i \in 1..l |-> Nth[i-1]] = q
  BY <1>4, <1>7
<1> QED BY <1>6, <1>8 DEF get_all_free_blocks

----------------------------------------------------------------------------
(* What one relinking does to the invariant                                 *)

LEMMA SpliceStep ==
    ASSUME NEW q, NEW a, NEW m, NEW c, Holds(q), MaySplice(q, a, m, c),
           Relink(Chain(q, a, m, c), Gone(q, a, m)),
           num_free_blocks' = Len(q) - m + Len(c),
           out' = (out \cup Gone(q, a, m)) \ ToSet(c),
           cursor' \in Blocks \cup {None}
    PROVE  Holds(Spliced(q, a, m, c))'
<1> DEFINE s == Spliced(q, a, m, c)
           ch == Chain(q, a, m, c)
           gone == Gone(q, a, m)
<1>1. next \in Links /\ prev \in Links /\ Linked(q, next, prev) /\ out = Blocks \ ToSet(q)
  BY DEF Holds
<1>2. next' = NextLinks(next, ch, gone) /\ prev' = PrevLinks(prev, ch, gone)
  BY DEF Relink, NextLinks, PrevLinks
<1>3. /\ NextLinks(next, ch, gone) \in Links /\ PrevLinks(prev, ch, gone) \in Links
      /\ Linked(s, NextLinks(next, ch, gone), PrevLinks(prev, ch, gone))
  BY <1>1, SpliceLinks
<1>4. next' \in Links /\ prev' \in Links /\ Linked(s, next', prev')
  BY <1>2, <1>3
<1>5. s \in Queues /\ Len(s) = Len(q) - m + Len(c)
  BY SplicedQueue
<1>6. gone \subseteq ToSet(q) /\ ToSet(s) = (ToSet(q) \ gone) \cup ToSet(c)
  BY SplicedQueue
<1>7. ToSet(q) \subseteq Blocks
  BY DEF MaySplice, Queues, ToSet
<1> HIDE DEF s, ch, gone
<1>8. out' = Blocks \ ToSet(s)
  BY <1>1, <1>6, <1>7 DEF gone
<1>9. Holds(s)'
  BY <1>4, <1>5, <1>8 DEF Holds, Links
<1> QED BY <1>9 DEF s

LEMMA PairFacts ==
    ASSUME NEW T, NEW x \in T, NEW y \in T
    PROVE  <<x>> \in Seq(T) /\ <<x>> \o <<y>> = <<x, y>>
<1> DEFINE h == <<x>>
           e == <<y>>
<1>1. h \in Seq(T) /\ Len(h) = 1 /\ h[1] = x /\ e \in Seq(T) /\ Len(e) = 1 /\ e[1] = y
  OBVIOUS
<1> HIDE DEF h, e
<1> DEFINE s == h \o e
<1>2. s \in Seq(T) /\ Len(s) = Len(h) + Len(e)
  BY <1>1, ConcatFacts
<1>3. \A i \in 1..Len(h) : s[i] = h[i]
  BY <1>1, ConcatFacts
<1>4. \A i \in 1..Len(e) : s[Len(h) + i] = e[i]
  BY <1>1, ConcatFacts
<1> HIDE DEF s
<1>5. Len(s) = 2 /\ s[1] = x /\ s[1 + 1] = y
  BY <1>1, <1>2, <1>3, <1>4
<1>6. s = <<x, y>>
  <2>1. s[2] = y
    BY <1>5
  <2> DEFINE p == <<x, y>>
  <2>2. p \in Seq(T) /\ Len(p) = 2 /\ p[1] = x /\ p[2] = y
    OBVIOUS
  <2> HIDE DEF p
  <2>3. \A i \in 1..2 : i = 1 \/ i = 2
    OBVIOUS
  <2>4. \A i \in 1..Len(s) : s[i] = p[i]
    BY <1>5, <2>1, <2>2, <2>3
  <2>5. s = p
    BY <1>2, <1>5, <2>2, <2>4, SeqEqual
  <2> QED BY <2>5 DEF p
<1> QED BY <1>1, <1>6 DEF s, h, e

LEMMA TripleFact ==
    ASSUME NEW T, NEW x \in T, NEW y \in T, NEW z \in T
    PROVE  <<x>> \o <<y>> \o <<z>> = <<x, y, z>>
<1> DEFINE h == <<x, y>>
           e == <<z>>
           p == <<x, y, z>>
           s == h \o e
<1>1. <<x>> \o <<y>> = h
  BY PairFacts
<1>2. h \in Seq(T) /\ Len(h) = 2 /\ h[1] = x /\ h[2] = y
  OBVIOUS
<1>3. e \in Seq(T) /\ Len(e) = 1 /\ e[1] = z
  OBVIOUS
<1>4. p \in Seq(T) /\ Len(p) = 3 /\ p[1] = x /\ p[2] = y /\ p[3] = z
  OBVIOUS
<1> HIDE DEF h, e, p
<1>5. h \in Seq(T) /\ e \in Seq(T)
  BY <1>2, <1>3
<1>6. s \in Seq(T) /\ Len(s) = Len(h) + Len(e)
  BY <1>5, ConcatFacts
<1>7. /\ \A i \in 1..Len(h) : s[i] = h[i]
      /\ \A i \in 1..Len(e) : s[Len(h) + i] = e[i]
  <2>1. \A i \in 1..Len(h) : s[i] = h[i]
    BY <1>5, ConcatFacts
  <2>2. \A i \in 1..Len(e) : s[Len(h) + i] = e[i]
    BY <1>5, ConcatFacts
  <2> QED BY <2>1, <2>2
<1> HIDE DEF s
<1>8. Len(s) = 3 /\ s[1] = x /\ s[2] = y /\ s[2 + 1] = z
  BY <1>2, <1>3, <1>6, <1>7
<1>9. s[3] = z
  BY <1>8
<1>10. \A i \in 1..3 : i = 1 \/ i = 2 \/ i = 3
  OBVIOUS
<1>11. \A i \in 1..Len(s) : s[i] = p[i]
  BY <1>4, <1>8, <1>9, <1>10
<1>12. s = p
  BY <1>4, <1>6, <1>8, <1>11, SeqEqual
<1> QED BY <1>1, <1>12 DEF s, p, e

(* taking the m blocks behind the first a *)
LEMMA TakeStep ==
    ASSUME NEW q, NEW a \in Nat, NEW m \in Nat, Holds(q), a + m <= Len(q),
           Relink(<<Node(q, a), Node(q, a + m + 1)>>, Gone(q, a, m)),
           num_free_blocks' = num_free_blocks - m,
           out' = out \cup Gone(q, a, m),
           cursor' \in Blocks \cup {None}
    PROVE  Holds(Spliced(q, a, m, <<>>))'
<1> DEFINE c == <<>>
<1>1. c \in Queues /\ Len(c) = 0 /\ ToSet(c) = {}
  BY DEF Queues, IsInjective, ToSet
<1>2. q \in Queues /\ Len(q) \in Nat /\ num_free_blocks = Len(q)
  BY NodeFacts DEF Holds
<1>3. Chain(q, a, m, c) = <<Node(q, a), Node(q, a + m + 1)>>
  <2>1. \A z \in Seq(Nodes) : z \o <<>> = z
    OBVIOUS
  <2>2. \A x, y \in Nodes : <<x>> \in Seq(Nodes) /\ <<x>> \o <<y>> = <<x, y>>
    BY PairFacts
  <2>3. Node(q, a) \in Nodes /\ Node(q, a + m + 1) \in Nodes
    <3>1. a \in 0..Len(q)+1 /\ a + m + 1 \in 0..Len(q)+1
      BY <1>2
    <3> QED BY <1>2, <3>1, NodeFacts
  <2>4. (<<Node(q, a)>> \o <<>>) \o <<Node(q, a + m + 1)>> = <<Node(q, a), Node(q, a + m + 1)>>
    BY <2>1, <2>2, <2>3
  <2> QED BY <2>4 DEF Chain
<1> HIDE DEF c
<1>4. MaySplice(q, a, m, c)
  BY <1>1, <1>2 DEF MaySplice
<1>5. Relink(Chain(q, a, m, c), Gone(q, a, m))
  BY <1>3
<1>6. num_free_blocks' = Len(q) - m + Len(c) /\ out' = (out \cup Gone(q, a, m)) \ ToSet(c)
  BY <1>1, <1>2
<1>7. Holds(Spliced(q, a, m, c))'
  BY <1>4, <1>5, <1>6, SpliceStep
<1> QED BY <1>7 DEF c

(* putting the blocks c behind the first a *)
LEMMA GiveStep ==
    ASSUME NEW q, NEW a \in Nat, NEW c \in Queues, Holds(q), a <= Len(q), ToSet(c) \subseteq out,
           Relink(<<Node(q, a)>> \o c \o <<Node(q, a + 1)>>, {}),
           num_free_blocks' = num_free_blocks + Len(c),
           out' = out \ ToSet(c),
           cursor' \in Blocks \cup {None}
    PROVE  Holds(Spliced(q, a, 0, c))'
<1> DEFINE n == Len(c)
           l == Len(q)
<1>1. q \in Queues /\ l \in Nat /\ num_free_blocks = l /\ out = Blocks \ ToSet(q)
  BY NodeFacts DEF Holds
<1>2. n \in Nat /\ \A j \in 1..n : c[j] \in ToSet(c)
  BY NodeFacts
<1>3. \A i \in 1..l : q[i] \in ToSet(q)
  BY <1>1, NodeFacts
<1> HIDE DEF n, l
<1>4. \A i \in 1..l, j \in 1..n : q[i] # c[j]
  BY <1>1, <1>2, <1>3
<1>5. a + 0 <= l /\ a + 0 + 1 = a + 1 /\ l - 0 + n = l + n /\ a + 1..a + 0 = {}
  BY <1>1, <1>2 DEF l
<1>6. MaySplice(q, a, 0, c)
  BY <1>1, <1>4, <1>5 DEF MaySplice, l, n
<1>7. Gone(q, a, 0) = {}
  BY <1>5 DEF Gone
<1>8. Relink(Chain(q, a, 0, c), Gone(q, a, 0))
  BY <1>5, <1>7 DEF Chain
<1>9. num_free_blocks' = Len(q) - 0 + Len(c)
  BY <1>1, <1>5 DEF l, n
<1>10. out' = (out \cup Gone(q, a, 0)) \ ToSet(c)
  BY <1>7
<1> QED BY <1>6, <1>8, <1>9, <1>10, SpliceStep

(* The three shapes a spliced list takes in the queue without links.        *)
LEMMA SplicedShapes ==
    ASSUME NEW q \in Queues
    PROVE  /\ \A n \in 0..Len(q) : Spliced(q, 0, n, <<>>) = SubSeq(q, n + 1, Len(q))
           /\ \A i \in 1..Len(q) : Spliced(q, i - 1, 1, <<>>) = RemoveAt(q, i)
           /\ \A c \in Queues : Spliced(q, Len(q), 0, c) = q \o c /\ Spliced(q, 0, 0, c) = c \o q
<1>1. q \in Seq(Blocks) /\ Len(q) \in Nat
  BY DEF Queues
<1>2. ASSUME NEW n \in 0..Len(q)
      PROVE  Spliced(q, 0, n, <<>>) = SubSeq(q, n + 1, Len(q))
  <2>1. 0 + n + 1 = n + 1 /\ SubSeq(q, 1, 0) = <<>> /\ SubSeq(q, n + 1, Len(q)) \in Seq(Blocks)
    BY <1>1
  <2>2. \A z \in Seq(Blocks) : <<>> \o <<>> \o z = z
    OBVIOUS
  <2> QED BY <2>1, <2>2 DEF Spliced
<1>3. ASSUME NEW i \in 1..Len(q)
      PROVE  Spliced(q, i - 1, 1, <<>>) = RemoveAt(q, i)
  <2>1. (i - 1) + 1 + 1 = i + 1 /\ SubSeq(q, 1, i - 1) \in Seq(Blocks)
    BY <1>1
  <2>2. \A z \in Seq(Blocks) : z \o <<>> = z
    OBVIOUS
  <2> QED BY <2>1, <2>2 DEF Spliced, RemoveAt
<1>4. ASSUME NEW c \in Queues
      PROVE  Spliced(q, Len(q), 0, c) = q \o c /\ Spliced(q, 0, 0, c) = c \o q
  <2>1. /\ SubSeq(q, 1, Len(q)) = q /\ SubSeq(q, 1, 0) = <<>>
        /\ SubSeq(q, Len(q) + 0 + 1, Len(q)) = <<>> /\ SubSeq(q, 0 + 0 + 1, Len(q)) = q
    BY <1>1
  <2>2. c \in Seq(Blocks)
    BY DEF Queues
  <2>3. q \o c \in Seq(Blocks) /\ \A z \in Seq(Blocks) : z \o <<>> = z /\ <<>> \o z = z
    BY <1>1, <2>2
  <2>4. Spliced(q, Len(q), 0, c) = (q \o c) \o <<>>
    BY <2>1 DEF Spliced
  <2>5. Spliced(q, 0, 0, c) = (<<>> \o c) \o q
    BY <2>1 DEF Spliced
  <2> QED BY <2>2, <2>3, <2>4, <2>5
<1> QED BY <1>2, <1>3, <1>4

----------------------------------------------------------------------------
(* What every step does to the queue, as FreeQueue says it                  *)

Taking(q, s) == \E n \in 1..Len(q) :
    s = SubSeq(q, n + 1, Len(q)) /\ moved' = SubSeq(q, 1, n) /\ out' = out \cup ToSet(moved')
TakingOut(q, s) == \E i \in 1..Len(q) :
    s = RemoveAt(q, i) /\ moved' = <<q[i]>> /\ out' = out \cup {q[i]}
Giving(q, s) == \E c \in Lists :
    (s = q \o c \/ s = c \o q) /\ moved' = c /\ out' = out \ ToSet(c)
Standing(q, s) == s = q /\ moved' = moved /\ out' = out
Moves(q, s) == Taking(q, s) \/ TakingOut(q, s) \/ Giving(q, s) \/ Standing(q, s)

(* Where the links lead.                                                    *)
LEMMA LinkFacts ==
    ASSUME NEW q, Holds(q)
    PROVE  /\ q \in Queues /\ Len(q) \in Nat /\ num_free_blocks = Len(q) /\ out = Blocks \ ToSet(q)
           /\ \A i \in 1..Len(q) : /\ Node(q, i) = q[i] /\ q[i] \in Blocks /\ q[i] \in ToSet(q)
                                   /\ prev[q[i]] = Node(q, i - 1) /\ next[q[i]] = Node(q, i + 1)
           /\ \A b \in Blocks : (\A i \in 1..Len(q) : q[i] # b) => next[b] = None /\ prev[b] = None
           /\ next[fake_head] = Node(q, 1) /\ prev[fake_tail] = Node(q, Len(q))
           /\ Node(q, 0) = fake_head /\ Node(q, Len(q) + 1) = fake_tail
           /\ \A x \in Blocks \cup {fake_head} : next[x] \in ToSet(q) \cup {None, fake_tail}
           /\ ToSet(q) \subseteq Blocks
<1> DEFINE l == Len(q)
<1>1. q \in Queues /\ num_free_blocks = l /\ out = Blocks \ ToSet(q) /\ Linked(q, next, prev)
  BY DEF Holds
<1>2. /\ l \in Nat
      /\ \A i \in 1..l : Node(q, i) = q[i] /\ q[i] \in Blocks /\ q[i] \in ToSet(q)
      /\ Node(q, 0) = fake_head /\ Node(q, l + 1) = fake_tail
      /\ \A b \in ToSet(q) : \E i \in 1..l : q[i] = b
  BY <1>1, NodeFacts
<1>3. /\ \A i \in 0..l : next[Node(q, i)] = Node(q, i + 1) /\ prev[Node(q, i + 1)] = Node(q, i)
      /\ next[fake_tail] = None /\ prev[fake_head] = None
      /\ \A b \in Blocks : b \notin ToSet(q) => next[b] = None /\ prev[b] = None
  BY <1>1 DEF Linked
<1> HIDE DEF l
<1>4. ASSUME NEW i \in 1..l
      PROVE  prev[q[i]] = Node(q, i - 1) /\ next[q[i]] = Node(q, i + 1)
  <2>1. i \in 0..l /\ i - 1 \in 0..l /\ (i - 1) + 1 = i
    BY <1>2
  <2>2. prev[Node(q, (i - 1) + 1)] = Node(q, i - 1) /\ next[Node(q, i)] = Node(q, i + 1)
    BY <1>3, <2>1
  <2> QED BY <1>2, <2>1, <2>2
<1>5. next[fake_head] = Node(q, 1) /\ prev[fake_tail] = Node(q, l)
  <2>1. 0 \in 0..l /\ l \in 0..l /\ 0 + 1 = 1
    BY <1>2
  <2> QED BY <1>2, <1>3, <2>1
<1>6. ASSUME NEW x \in Blocks \cup {fake_head}
      PROVE  next[x] \in ToSet(q) \cup {None, fake_tail}
  <2>1. ASSUME NEW i \in 0..l PROVE Node(q, i + 1) \in ToSet(q) \cup {fake_tail}
    <3>1. i + 1 \in 1..l \/ i + 1 = l + 1
      BY <1>2
    <3> QED BY <1>2, <3>1
  <2>2. CASE x = fake_head
    <3>1. 0 \in 0..l /\ 0 + 1 = 1
      BY <1>2
    <3> QED BY <1>5, <2>1, <2>2, <3>1
  <2>3. CASE x \in ToSet(q)
    <3>1. PICK i \in 1..l : q[i] = x
      BY <1>2, <2>3
    <3>2. i \in 0..l
      BY <1>2
    <3> QED BY <1>4, <2>1, <3>1, <3>2
  <2> QED BY <1>3, <2>2, <2>3
<1>7. \A b \in Blocks : (\A i \in 1..l : q[i] # b) => next[b] = None /\ prev[b] = None
  BY <1>2, <1>3
<1>8. ToSet(q) \subseteq Blocks
  BY <1>2
<1> QED BY <1>1, <1>2, <1>4, <1>5, <1>6, <1>7, <1>8 DEF l

(* The lists callers hand over are queues of blocks they hold.              *)
LEMMA ListFacts ==
    ASSUME NEW q, Holds(q)
    PROVE  /\ \A c \in Lists : c \in Queues /\ ToSet(c) \subseteq out
           /\ \A b \in out : <<b>> \in Lists /\ ToSet(<<b>>) = {b} /\ Len(<<b>>) = 1
<1>1. out \subseteq Blocks
  BY DEF Holds
<1>2. ASSUME NEW c \in Lists
      PROVE  c \in Queues /\ ToSet(c) \subseteq out
  <2>1. PICK n \in 1..Cardinality(out) : c \in [1..n -> out] /\ IsInjective(c)
    BY DEF Lists
  <2>2. n \in Nat /\ ToSet(c) \subseteq out
    BY <2>1 DEF ToSet
  <2>3. c \in Seq(Blocks)
    BY <1>1, <2>1, <2>2
  <2> QED BY <2>1, <2>2, <2>3 DEF Queues
<1>3. ASSUME NEW b \in out
      PROVE  <<b>> \in Lists /\ ToSet(<<b>>) = {b} /\ Len(<<b>>) = 1
  <2>1. IsFiniteSet(out) /\ Cardinality(out) \in Nat /\ Cardinality(out) >= 1
    <3>1. num_blocks \in Nat /\ 0 \in Int /\ num_blocks - 1 \in Int
      BY FreeBlockQueueAssumption
    <3>2. IsFiniteSet(Blocks)
      BY <3>1, FS_Interval DEF Blocks
    <3>3. IsFiniteSet(out)
      BY <1>1, <3>2, FS_Subset
    <3>4. Cardinality(out) \in Nat
      BY <3>3, FS_CardinalityType
    <3>5. Cardinality(out) # 0
      BY <3>3, FS_EmptySet
    <3> QED BY <3>3, <3>4, <3>5
  <2>2. <<b>> \in [1..1 -> out] /\ IsInjective(<<b>>)
    BY DEF IsInjective
  <2>3. ToSet(<<b>>) = {b} /\ Len(<<b>>) = 1
    BY DEF ToSet
  <2>4. 1 \in 1..Cardinality(out)
    BY <2>1
  <2> QED BY <2>2, <2>3, <2>4 DEF Lists
<1> QED BY <1>2, <1>3

LEMMA PopLeftMoves ==
    ASSUME NEW q, Holds(q), popleft
    PROVE  \E s : Holds(s)' /\ Taking(q, s)
<1> DEFINE l == Len(q)
           first == next[fake_head]
           gone == Gone(q, 0, 1)
<1>1. /\ q \in Queues /\ l \in Nat /\ cursor \in Blocks \cup {None}
      /\ \A i \in 1..l : Node(q, i) = q[i] /\ next[q[i]] = Node(q, i + 1)
      /\ first = Node(q, 1) /\ Node(q, 0) = fake_head /\ Node(q, l + 1) = fake_tail
  BY LinkFacts DEF Holds
<1>2. /\ first # fake_tail
      /\ Relink(<<fake_head, next[first]>>, {first})
      /\ num_free_blocks' = num_free_blocks - 1
      /\ moved' = <<first>> /\ out' = out \cup ToSet(<<first>>) /\ cursor' = cursor
  BY DEF popleft, Hands
<1> HIDE DEF l, first
<1>3. 1 \in 1..l /\ 0 + 1 <= l
  <2>1. l # 0
    BY <1>1, <1>2
  <2> QED BY <1>1, <2>1
<1>4. first = q[1] /\ next[first] = Node(q, 0 + 1 + 1)
  BY <1>1, <1>3
<1>5. gone = {first} /\ ToSet(<<first>>) = {first}
  <2>1. 0 + 1..0 + 1 = {1}
    OBVIOUS
  <2>2. ToSet(<<first>>) = {first}
    BY DEF ToSet
  <2> QED BY <1>4, <2>1, <2>2 DEF Gone
<1> HIDE DEF gone
<1>6. Relink(<<Node(q, 0), Node(q, 0 + 1 + 1)>>, gone) /\ out' = out \cup gone
  BY <1>1, <1>2, <1>4, <1>5
<1>7. Holds(Spliced(q, 0, 1, <<>>))'
  BY <1>1, <1>2, <1>3, <1>6, TakeStep DEF gone, l
<1>8. Spliced(q, 0, 1, <<>>) = SubSeq(q, 1 + 1, l)
  <2>1. 1 \in 0..l
    BY <1>1, <1>3
  <2> QED BY <1>1, <2>1, SplicedShapes DEF l
<1>9. moved' = SubSeq(q, 1, 1)
  <2> DEFINE s == SubSeq(q, 1, 1)
             e == <<q[1]>>
  <2>1. q \in Seq(Blocks) /\ q[1] \in Blocks
    BY <1>1, <1>3 DEF Queues, l
  <2>2. s \in Seq(Blocks) /\ Len(s) = 1 /\ s[1] = q[1]
    BY <1>1, <1>3, <2>1 DEF l
  <2>3. e \in Seq(Blocks) /\ Len(e) = 1 /\ e[1] = q[1]
    BY <2>1
  <2> HIDE DEF s, e
  <2>4. \A i \in 1..Len(s) : s[i] = e[i]
    BY <2>2, <2>3
  <2>5. s = e
    BY <2>2, <2>3, <2>4, SeqEqual
  <2>6. SubSeq(q, 1, 1) = <<q[1]>>
    BY <2>5 DEF s, e
  <2> QED BY <1>2, <1>4, <2>6
<1>10. Taking(q, Spliced(q, 0, 1, <<>>))
  BY <1>2, <1>3, <1>8, <1>9 DEF Taking, l
<1> QED BY <1>7, <1>10

LEMMA PopLeftNMoves ==
    ASSUME NEW q, Holds(q), NEW n \in 1..num_blocks, popleft_n(n)
    PROVE  \E s : Holds(s)' /\ Taking(q, s)
<1> DEFINE l == Len(q)
           gone == Gone(q, 0, n)
           got == SubSeq(q, 1, n)
<1>1. /\ q \in Queues /\ l \in Nat /\ cursor \in Blocks \cup {None} /\ num_free_blocks = l
      /\ \A i \in 1..l : Node(q, i) = q[i]
      /\ Node(q, 0) = fake_head
  BY LinkFacts DEF Holds
<1>2. /\ num_free_blocks >= n
      /\ num_free_blocks' = num_free_blocks - n
      /\ moved' = [i \in 1..n |-> Nth[i - 1]] /\ out' = out \cup ToSet(moved')
      /\ Relink(<<fake_head, Nth[n]>>, FirstBlocks(n))
      /\ cursor' = cursor
  BY DEF popleft_n, Hands
<1>3. \A i \in 0..num_blocks : Nth[i] = Met(q, i)
  BY NthIsMet
<1> HIDE DEF l
<1>4. n \in Nat /\ n \in 1..l /\ 0 + n <= l /\ n \in 0..l
  BY <1>1, <1>2, FreeBlockQueueAssumption
<1>5. ASSUME NEW i \in 0..n PROVE Nth[i] = Node(q, i + 1)
  <2>1. i \in 0..num_blocks /\ i <= l
    BY <1>1, <1>4, FreeBlockQueueAssumption
  <2> QED BY <1>3, <2>1 DEF Met, l
<1>6. ASSUME NEW i \in 1..n PROVE Nth[i - 1] = q[i]
  <2>1. i - 1 \in 0..n /\ (i - 1) + 1 = i /\ i \in 1..l
    BY <1>1, <1>4
  <2>2. Nth[i - 1] = Node(q, (i - 1) + 1)
    BY <1>5, <2>1
  <2> QED BY <1>1, <2>1, <2>2
<1>7. moved' = got
  <2>1. got = [i \in 1..n |-> q[i]]
    BY <1>1, <1>4 DEF Queues, l
  <2> QED BY <1>2, <1>6, <2>1
<1>8. FirstBlocks(n) = gone
  <2>1. ASSUME NEW i \in 0..n-1 PROVE i + 1 \in 0 + 1..0 + n /\ Nth[i] = q[i + 1]
    <3>1. i + 1 \in 1..n /\ (i + 1) - 1 = i
      BY <1>4
    <3>2. Nth[(i + 1) - 1] = q[i + 1]
      BY <1>6, <3>1
    <3> QED BY <1>4, <3>1, <3>2
  <2>2. ASSUME NEW i \in 0 + 1..0 + n PROVE i - 1 \in 0..n-1 /\ Nth[i - 1] = q[i]
    <3>1. i \in 1..n /\ i - 1 \in 0..n-1
      BY <1>4
    <3> QED BY <1>6, <3>1
  <2> QED BY <2>1, <2>2 DEF FirstBlocks, Gone
<1>9. ToSet(got) = gone
  <2>1. DOMAIN got = 1..n /\ \A i \in 1..n : got[i] = q[i]
    BY <1>1, <1>4 DEF Queues, l
  <2>2. 0 + 1..0 + n = 1..n
    BY <1>4
  <2> HIDE DEF got
  <2> QED BY <2>1, <2>2 DEF ToSet, Gone
<1> HIDE DEF gone, got
<1>10. Nth[n] = Node(q, 0 + n + 1)
  <2>1. n \in 0..n /\ 0 + n + 1 = n + 1
    BY <1>4
  <2> QED BY <1>5, <2>1
<1>11. Relink(<<Node(q, 0), Node(q, 0 + n + 1)>>, gone) /\ out' = out \cup gone
  BY <1>1, <1>2, <1>7, <1>8, <1>9, <1>10
<1>12. Holds(Spliced(q, 0, n, <<>>))'
  BY <1>1, <1>2, <1>4, <1>11, TakeStep DEF gone, l
<1>13. Spliced(q, 0, n, <<>>) = SubSeq(q, n + 1, l)
  BY <1>1, <1>4, SplicedShapes DEF l
<1>14. Taking(q, Spliced(q, 0, n, <<>>))
  BY <1>2, <1>4, <1>7, <1>13 DEF Taking, got, l
<1> QED BY <1>12, <1>14

LEMMA RemoveMoves ==
    ASSUME NEW q, Holds(q), NEW b \in Blocks, remove(b)
    PROVE  \E s : Holds(s)' /\ TakingOut(q, s)
<1> DEFINE l == Len(q)
<1>1. /\ q \in Queues /\ l \in Nat /\ cursor \in Blocks \cup {None}
      /\ \A i \in 1..l : prev[q[i]] = Node(q, i - 1) /\ next[q[i]] = Node(q, i + 1)
  BY LinkFacts DEF Holds
<1>2. /\ prev[b] # None
      /\ Relink(<<prev[b], next[b]>>, {b})
      /\ num_free_blocks' = num_free_blocks - 1
      /\ moved' = <<b>> /\ out' = out \cup ToSet(<<b>>) /\ cursor' = cursor
  BY DEF remove, Hands
<1>3. PICK i \in 1..l : q[i] = b
  BY <1>2, LinkFacts
<1> DEFINE gone == Gone(q, i - 1, 1)
<1> HIDE DEF l
<1>4. i - 1 \in Nat /\ (i - 1) + 1 <= l /\ (i - 1) + 1 + 1 = i + 1 /\ (i - 1) + 1 = i
  BY <1>1
<1>5. gone = {b} /\ ToSet(<<b>>) = {b}
  <2>1. i..i = {i}
    BY <1>1
  <2>2. ToSet(<<b>>) = {b}
    BY DEF ToSet
  <2> QED BY <1>3, <1>4, <2>1, <2>2 DEF Gone
<1>6. Relink(<<Node(q, i - 1), Node(q, (i - 1) + 1 + 1)>>, gone) /\ out' = out \cup gone
  BY <1>1, <1>2, <1>3, <1>4, <1>5
<1> HIDE DEF gone
<1>7. Holds(Spliced(q, i - 1, 1, <<>>))'
  BY <1>1, <1>2, <1>4, <1>6, TakeStep DEF gone, l
<1>8. Spliced(q, i - 1, 1, <<>>) = RemoveAt(q, i)
  BY <1>1, SplicedShapes DEF l
<1>9. TakingOut(q, Spliced(q, i - 1, 1, <<>>))
  BY <1>2, <1>3, <1>5, <1>8 DEF TakingOut, l
<1> QED BY <1>7, <1>9

(* append and append_n *)
LEMMA AppendedMoves ==
    ASSUME NEW q, Holds(q), NEW c \in Lists,
           Relink(<<prev[fake_tail]>> \o c \o <<fake_tail>>, {}),
           num_free_blocks' = num_free_blocks + Len(c),
           Takes(c), cursor' = cursor
    PROVE  \E s : Holds(s)' /\ Giving(q, s)
<1> DEFINE l == Len(q)
<1>1. /\ q \in Queues /\ l \in Nat /\ cursor \in Blocks \cup {None} /\ l <= l
      /\ prev[fake_tail] = Node(q, l) /\ Node(q, l + 1) = fake_tail
  BY LinkFacts DEF Holds
<1>2. c \in Queues /\ ToSet(c) \subseteq out
  BY ListFacts
<1>3. Relink(<<Node(q, l)>> \o c \o <<Node(q, l + 1)>>, {})
  BY <1>1
<1>4. moved' = c /\ out' = out \ ToSet(c)
  BY DEF Takes
<1> HIDE DEF l
<1>5. Holds(Spliced(q, l, 0, c))'
  BY <1>1, <1>2, <1>3, <1>4, GiveStep DEF l
<1>6. Spliced(q, l, 0, c) = q \o c
  BY <1>1, <1>2, SplicedShapes DEF l
<1>7. Giving(q, Spliced(q, l, 0, c))
  BY <1>4, <1>6 DEF Giving
<1> QED BY <1>5, <1>7

LEMMA PrependMoves ==
    ASSUME NEW q, Holds(q), NEW c \in Lists, prepend_n(c)
    PROVE  \E s : Holds(s)' /\ Giving(q, s)
<1>1. /\ q \in Queues /\ 0 <= Len(q) /\ cursor \in Blocks \cup {None}
      /\ next[fake_head] = Node(q, 0 + 1) /\ Node(q, 0) = fake_head
  <2>1. 0 + 1 = 1
    OBVIOUS
  <2> QED BY <2>1, LinkFacts DEF Holds
<1>2. c \in Queues /\ ToSet(c) \subseteq out
  BY ListFacts
<1>3. /\ Relink(<<fake_head>> \o c \o <<next[fake_head]>>, {})
      /\ num_free_blocks' = num_free_blocks + Len(c)
      /\ moved' = c /\ out' = out \ ToSet(c) /\ cursor' = cursor
  BY DEF prepend_n, Takes
<1>4. Relink(<<Node(q, 0)>> \o c \o <<Node(q, 0 + 1)>>, {})
  BY <1>1, <1>3
<1>5. Holds(Spliced(q, 0, 0, c))'
  BY <1>1, <1>2, <1>3, <1>4, GiveStep
<1>6. Spliced(q, 0, 0, c) = c \o q
  BY <1>1, <1>2, SplicedShapes
<1>7. Giving(q, Spliced(q, 0, 0, c))
  BY <1>3, <1>6 DEF Giving
<1> QED BY <1>5, <1>7

(* iter_blocks_after only moves its cursor, and only to a block of the list *)
LEMMA ResumeMoves ==
    ASSUME NEW q, Holds(q), NEW x \in Blocks \cup {fake_head}, Resume(next[x])
    PROVE  Holds(q)' /\ Standing(q, q) /\ cursor' \in ToSet(q) \cup {None}
<1>1. next[x] \in ToSet(q) \cup {None, fake_tail} /\ ToSet(q) \subseteq Blocks
  BY LinkFacts
<1>2. cursor' \in ToSet(q) \cup {None}
  BY <1>1 DEF Resume
<1>3. Holds(q)'
  BY <1>1, <1>2 DEF Holds, Resume
<1>4. Standing(q, q)
  BY DEF Standing, Resume
<1> QED BY <1>2, <1>3, <1>4

(* Every step takes the queue to the next one by a move of FreeQueue, and a *)
(* generator it resumes stands on a block of the list.                      *)
LEMMA NextMoves ==
    ASSUME NEW q, Holds(q), [Next]_vars
    PROVE  /\ \E s : Holds(s)' /\ Moves(q, s)
           /\ cursor' # cursor /\ cursor' # None => cursor' \notin out
<1>1. CASE popleft
  BY <1>1, PopLeftMoves DEF Moves, popleft
<1>2. ASSUME NEW n \in 1..num_blocks, popleft_n(n)
      PROVE  (\E s : Holds(s)' /\ Moves(q, s)) /\ cursor' = cursor
  BY <1>2, PopLeftNMoves DEF Moves, popleft_n
<1>3. ASSUME NEW b \in Blocks, remove(b)
      PROVE  (\E s : Holds(s)' /\ Moves(q, s)) /\ cursor' = cursor
  BY <1>3, RemoveMoves DEF Moves, remove
<1>4. ASSUME NEW b \in out, append(b)
      PROVE  (\E s : Holds(s)' /\ Moves(q, s)) /\ cursor' = cursor
  <2> DEFINE c == <<b>>
             x == prev[fake_tail]
  <2>1. c \in Lists /\ Len(c) = 1
    BY ListFacts
  <2>2. b \in Nodes /\ fake_tail \in Nodes /\ x \in Nodes
    <3>1. out \subseteq Blocks /\ x = Node(q, Len(q)) /\ q \in Queues /\ Len(q) \in Nat
      BY LinkFacts DEF Holds
    <3>2. Len(q) \in 0..Len(q)+1
      BY <3>1
    <3> QED BY <3>1, <3>2, NodeFacts DEF Nodes
  <2>3. <<x>> \o c \o <<fake_tail>> = <<x, b, fake_tail>>
    BY <2>2, TripleFact
  <2>4. /\ Relink(<<x, b, fake_tail>>, {}) /\ num_free_blocks' = num_free_blocks + 1
        /\ Takes(c) /\ cursor' = cursor
    BY <1>4 DEF append
  <2> HIDE DEF c
  <2>5. Relink(<<x>> \o c \o <<fake_tail>>, {}) /\ num_free_blocks' = num_free_blocks + Len(c)
    BY <2>1, <2>3, <2>4
  <2>6. \E s : Holds(s)' /\ Giving(q, s)
    BY <2>1, <2>4, <2>5, AppendedMoves
  <2> QED BY <2>4, <2>6 DEF Moves
<1>5. ASSUME NEW c \in Lists, append_n(c) \/ prepend_n(c)
      PROVE  (\E s : Holds(s)' /\ Moves(q, s)) /\ cursor' = cursor
  <2>1. CASE append_n(c)
    <3>1. \E s : Holds(s)' /\ Giving(q, s)
      BY <2>1, AppendedMoves DEF append_n
    <3> QED BY <2>1, <3>1 DEF Moves, append_n
  <2>2. CASE prepend_n(c)
    <3>1. \E s : Holds(s)' /\ Giving(q, s)
      BY <2>2, PrependMoves
    <3> QED BY <2>2, <3>1 DEF Moves, prepend_n
  <2> QED BY <1>5, <2>1, <2>2
<1>6. ASSUME NEW x \in Blocks \cup {fake_head}, Resume(next[x])
      PROVE  /\ \E s : Holds(s)' /\ Moves(q, s)
             /\ cursor' # None => cursor' \notin out
  <2>1. Holds(q)' /\ Standing(q, q) /\ cursor' \in ToSet(q) \cup {None}
    BY <1>6, ResumeMoves
  <2>2. out = Blocks \ ToSet(q)
    BY DEF Holds
  <2> QED BY <2>1, <2>2 DEF Moves
<1>7. ASSUME NEW c \in Blocks \cup {None}, iter_blocks_after(c)
      PROVE  \E x \in Blocks \cup {fake_head} : Resume(next[x])
  <2>1. CASE c = None
    BY <1>7, <2>1 DEF iter_blocks_after
  <2>2. CASE c # None
    BY <1>7, <2>2 DEF iter_blocks_after
  <2> QED BY <2>1, <2>2
<1>8. ASSUME ResumeIter
      PROVE  \E x \in Blocks \cup {fake_head} : Resume(next[x])
  <2>1. cursor \in Blocks
    BY <1>8 DEF ResumeIter, Holds
  <2> QED BY <1>8, <2>1 DEF ResumeIter
<1>9. CASE UNCHANGED vars
  <2>1. Holds(q)' /\ Standing(q, q) /\ cursor' = cursor
    BY <1>9 DEF vars, Holds, Standing
  <2> QED BY <2>1 DEF Moves
<1>10. ASSUME popleft PROVE cursor' = cursor
  BY <1>10 DEF popleft
<1> HIDE DEF Moves
<1> QED BY <1>1, <1>2, <1>3, <1>4, <1>5, <1>6, <1>7, <1>8, <1>9, <1>10 DEF Next

LEMMA InitHolds == Init => Holds(Ids) /\ moved = <<>> /\ out = {}
<1> SUFFICES ASSUME Init PROVE Holds(Ids) /\ moved = <<>> /\ out = {}
  OBVIOUS
<1> DEFINE n == num_blocks
           e == <<>>
           chain == <<fake_head>> \o Ids \o <<fake_tail>>
<1>1. n \in Nat /\ Blocks = 0..n-1
  BY FreeBlockQueueAssumption DEF Blocks
<1>2. /\ next = [x \in Nodes |-> IF x = fake_tail THEN None ELSE After(x, chain)]
      /\ prev = [x \in Nodes |-> IF x = fake_head THEN None ELSE Before(x, chain)]
      /\ num_free_blocks = n /\ moved = <<>> /\ cursor = None /\ out = {}
  BY DEF Init
<1> HIDE DEF n
<1>3. Ids \in Seq(Blocks) /\ Len(Ids) = n /\ DOMAIN Ids = 1..n /\ \A i \in 1..n : Ids[i] = i - 1
  BY <1>1 DEF Ids, n
<1>4. Ids \in Queues
  BY <1>1, <1>3 DEF Queues, IsInjective
<1>5. ToSet(Ids) = Blocks
  <2>1. \A b \in Blocks : b + 1 \in 1..n /\ Ids[b + 1] = b
    BY <1>1, <1>3
  <2>2. \A i \in 1..n : Ids[i] \in Blocks
    BY <1>1, <1>3
  <2> HIDE DEF Ids
  <2> QED BY <1>3, <2>1, <2>2 DEF ToSet
<1>6. e \in Queues /\ Len(e) = 0 /\ Node(e, 0) = fake_head /\ Node(e, 0 + 0 + 1) = fake_tail
  BY DEF Queues, IsInjective, Node
<1>7. MaySplice(e, 0, 0, Ids) /\ Chain(e, 0, 0, Ids) = chain
  <2>1. 0 + 0 <= Len(e) /\ \A i \in 1..Len(e), j \in 1..Len(Ids) : e[i] # Ids[j]
    BY <1>6
  <2> HIDE DEF e
  <2> QED BY <1>4, <1>6, <2>1 DEF MaySplice, Chain
<1>8. Spliced(e, 0, 0, Ids) = Ids
  <2>1. Spliced(e, 0, 0, Ids) = Ids \o e
    <3> HIDE DEF e
    <3> QED BY <1>4, <1>6, SplicedShapes
  <2> QED BY <1>3, <2>1
<1> HIDE DEF e, chain
<1>9. /\ chain \in Seq(Nodes) /\ Len(chain) = n + 2
      /\ \A i \in 1..n+2 : chain[i] = Node(Ids, 0 + i - 1)
      /\ \A i, j \in 1..n+2 : chain[i] = chain[j] => i = j
  BY <1>3, <1>7, <1>8, ChainOfSplice
<1>10. \A i \in 1..n+1 : After(chain[i], chain) = chain[i+1] /\ Before(chain[i+1], chain) = chain[i]
  <2>1. Len(chain) >= 2 /\ Len(chain) - 1 = n + 1
    BY <1>1, <1>9
  <2>2. \A i, j \in 1..Len(chain) : chain[i] = chain[j] => i = j
    BY <1>9
  <2>3. LET k == Len(chain)
        IN  /\ \A i \in 1..k-1 : After(chain[i], chain) = chain[i+1]
            /\ \A i \in 1..k-1 : Before(chain[i+1], chain) = chain[i]
    BY <1>9, <2>1, <2>2, ChainFacts
  <2> QED BY <2>1, <2>3
<1>11. /\ \A i \in 1..n : Node(Ids, i) = Ids[i] /\ Ids[i] \in Blocks
       /\ Node(Ids, 0) = fake_head /\ Node(Ids, n + 1) = fake_tail
       /\ \A i \in 0..n+1 : Node(Ids, i) \in Nodes
       /\ \A b \in Blocks : \E i \in 1..n : Ids[i] = b
  BY <1>3, <1>4, <1>5, NodeFacts
<1> HIDE DEF Ids
<1>12. ASSUME NEW i \in 0..n
       PROVE  /\ After(Node(Ids, i), chain) = Node(Ids, i + 1)
              /\ Before(Node(Ids, i + 1), chain) = Node(Ids, i)
              /\ Node(Ids, i) # fake_tail /\ Node(Ids, i + 1) # fake_head
  <2>1. /\ i + 1 \in 1..n+1 /\ i + 1 \in 1..n+2 /\ (i + 1) + 1 \in 1..n+2
        /\ 0 + (i + 1) - 1 = i /\ 0 + ((i + 1) + 1) - 1 = i + 1
    BY <1>1
  <2>2. chain[i + 1] = Node(Ids, i) /\ chain[(i + 1) + 1] = Node(Ids, i + 1)
    BY <1>9, <2>1
  <2>3. i \in 1..n \/ i = 0
    BY <1>1
  <2>4. i + 1 \in 1..n \/ i + 1 = n + 1
    BY <1>1
  <2> QED BY <1>10, <1>11, <2>1, <2>2, <2>3, <2>4, FreeBlockQueueAssumption
<1>13. ASSUME NEW i \in 0..n
       PROVE  next[Node(Ids, i)] = Node(Ids, i + 1) /\ prev[Node(Ids, i + 1)] = Node(Ids, i)
  <2>1. i \in 0..n+1 /\ i + 1 \in 0..n+1
    BY <1>1
  <2> QED BY <1>2, <1>11, <1>12, <2>1
<1>14. fake_head \in Nodes /\ fake_tail \in Nodes
  BY DEF Nodes
<1>15. next[fake_tail] = None /\ prev[fake_head] = None
  BY <1>2, <1>14
<1>16. next \in Links /\ prev \in Links
  <2>1. \A x \in Nodes : \E i \in 0..n+1 : x = Node(Ids, i)
    <3>1. 0 \in 0..n+1 /\ n + 1 \in 0..n+1 /\ \A i \in 1..n : i \in 0..n+1
      BY <1>1
    <3> QED BY <1>11, <3>1 DEF Nodes
  <2>2. ASSUME NEW x \in Nodes PROVE next[x] \in Nodes \cup {None}
    <3>1. PICK i \in 0..n+1 : x = Node(Ids, i)
      BY <2>1
    <3>2. (i \in 0..n /\ i + 1 \in 0..n+1) \/ i = n + 1
      BY <1>1
    <3> QED BY <1>11, <1>13, <1>15, <3>1, <3>2
  <2>3. ASSUME NEW x \in Nodes PROVE prev[x] \in Nodes \cup {None}
    <3>1. PICK i \in 0..n+1 : x = Node(Ids, i)
      BY <2>1
    <3>2. (i - 1 \in 0..n /\ i - 1 \in 0..n+1 /\ (i - 1) + 1 = i) \/ i = 0
      BY <1>1
    <3>3. CASE i # 0
      <4>1. prev[Node(Ids, (i - 1) + 1)] = Node(Ids, i - 1)
        BY <1>13, <3>2, <3>3
      <4> QED BY <1>11, <3>1, <3>2, <3>3, <4>1
    <3> QED BY <1>11, <1>15, <3>1, <3>3
  <2>4. DOMAIN next = Nodes /\ DOMAIN prev = Nodes /\ next = [x \in Nodes |-> next[x]] /\ prev = [x \in Nodes |-> prev[x]]
    BY <1>2
  <2> QED BY <2>2, <2>3, <2>4 DEF Links
<1>17. Linked(Ids, next, prev)
  BY <1>3, <1>5, <1>13, <1>15 DEF Linked
<1> QED BY <1>2, <1>3, <1>4, <1>5, <1>16, <1>17 DEF Holds, n

----------------------------------------------------------------------------
(* The inductive invariant, and what follows from it                        *)

LEMMA InvNext == Inv /\ [Next]_vars => Inv'
<1> SUFFICES ASSUME Inv, [Next]_vars PROVE Inv'
  OBVIOUS
<1>1. PICK q : Holds(q)
  BY DEF Inv
<1>2. PICK s : Holds(s)'
  BY <1>1, NextMoves
<1> QED BY <1>2 DEF Inv

LEMMA InvAlways == Spec => []Inv
<1>1. Init => Inv
  BY InitHolds DEF Inv
<1> QED BY <1>1, InvNext, PTL DEF Spec

(* what the walk over the links returns, in every state *)
WalkExact == \A q : Holds(q) => get_all_free_blocks = q

LEMMA WalkIsExact == WalkExact
BY WalkIsQueue DEF WalkExact

(* The variables keep their types; in particular the counter stays between  *)
(* 0 and the number of blocks, and what a call hands out are blocks.        *)
THEOREM TypeCorrect == Spec => []TypeOK
<1>1. ASSUME NEW q, Holds(q), moved \in Seq(Blocks)
      PROVE  TypeOK
  <2>1. num_free_blocks \in 0..num_blocks
    BY <1>1, QueueFits DEF Holds
  <2> QED BY <1>1, <2>1 DEF Holds, Links, TypeOK
<1>2. ASSUME NEW q, NEW s, Holds(q), Moves(q, s), moved \in Seq(Blocks)
      PROVE  moved' \in Seq(Blocks)
  <2>1. q \in Seq(Blocks) /\ Len(q) \in Nat
    BY <1>2 DEF Holds, Queues
  <2>2. CASE Taking(q, s)
    BY <2>1, <2>2 DEF Taking
  <2>3. CASE TakingOut(q, s)
    <3>1. PICK i \in 1..Len(q) : moved' = <<q[i]>>
      BY <2>3 DEF TakingOut
    <3>2. q[i] \in Blocks
      BY <2>1
    <3> QED BY <3>1, <3>2
  <2>4. CASE Giving(q, s)
    <3>1. PICK c \in Lists : moved' = c
      BY <2>4 DEF Giving
    <3>2. c \in Queues
      BY <1>2, ListFacts
    <3> QED BY <3>1, <3>2 DEF Queues
  <2>5. CASE Standing(q, s)
    BY <1>2, <2>5 DEF Standing
  <2> QED BY <1>2, <2>2, <2>3, <2>4, <2>5 DEF Moves
<1> DEFINE Moved == moved \in Seq(Blocks)
<1>3. Init => Moved
  BY DEF Init
<1>4. Inv /\ Moved /\ [Next]_vars => Moved'
  <2> SUFFICES ASSUME Inv, Moved, [Next]_vars PROVE Moved'
    OBVIOUS
  <2>1. PICK q : Holds(q)
    BY DEF Inv
  <2>2. PICK s : Moves(q, s)
    BY <2>1, NextMoves
  <2> QED BY <1>2, <2>1, <2>2
<1>5. Inv /\ Moved => TypeOK
  BY <1>1 DEF Inv
<1> QED BY <1>3, <1>4, <1>5, InvAlways, PTL DEF Spec

(* The two directions of the list agree, a block a caller holds has no      *)
(* links left, and the counter is the length of the walk, for any number of *)
(* blocks and after any calls.                                              *)
THEOREM LinksAgreeAlways == Spec => []LinksAgree
<1>1. ASSUME NEW q, Holds(q)
      PROVE  LinksAgree
  <2> DEFINE l == Len(q)
  <2>1. /\ q \in Queues /\ l \in Nat /\ num_free_blocks = l /\ out = Blocks \ ToSet(q)
        /\ Linked(q, next, prev)
    BY <1>1, LinkFacts DEF Holds
  <2>2. /\ Node(q, 0) = fake_head /\ Node(q, l + 1) = fake_tail
        /\ \A i \in 1..l : Node(q, i) = q[i]
        /\ \A b \in ToSet(q) : \E i \in 1..l : q[i] = b
    BY <2>1, NodeFacts
  <2>3. /\ \A i \in 0..l : next[Node(q, i)] = Node(q, i + 1) /\ prev[Node(q, i + 1)] = Node(q, i)
        /\ next[fake_tail] = None /\ prev[fake_head] = None
        /\ \A b \in Blocks : b \notin ToSet(q) => next[b] = None /\ prev[b] = None
    BY <2>1 DEF Linked
  <2> HIDE DEF l
  <2>4. ASSUME NEW x \in Nodes
        PROVE  \/ next[x] = None /\ prev[x] = None
               \/ \E i \in 0..l+1 : x = Node(q, i)
    <3>1. 0 \in 0..l+1 /\ l + 1 \in 0..l+1 /\ \A i \in 1..l : i \in 0..l+1
      BY <2>1
    <3> QED BY <2>2, <2>3, <3>1 DEF Nodes
  <2>5. ASSUME NEW x \in Nodes, next[x] # None PROVE prev[next[x]] = x
    <3>1. PICK i \in 0..l+1 : x = Node(q, i)
      BY <2>4, <2>5
    <3>2. i # l + 1
      BY <2>2, <2>3, <2>5, <3>1
    <3>3. i \in 0..l
      BY <2>1, <3>2
    <3> QED BY <2>3, <3>1, <3>3
  <2>6. ASSUME NEW x \in Nodes, prev[x] # None PROVE next[prev[x]] = x
    <3>1. PICK i \in 0..l+1 : x = Node(q, i)
      BY <2>4, <2>6
    <3>2. i # 0
      BY <2>2, <2>3, <2>6, <3>1
    <3>3. i - 1 \in 0..l /\ (i - 1) + 1 = i
      BY <2>1, <3>2
    <3>4. prev[Node(q, (i - 1) + 1)] = Node(q, i - 1) /\ next[Node(q, i - 1)] = Node(q, (i - 1) + 1)
      BY <2>3, <3>3
    <3> QED BY <3>1, <3>3, <3>4
  <2>7. \A b \in out : next[b] = None /\ prev[b] = None
    BY <2>1, <2>3
  <2>8. num_free_blocks = Len(get_all_free_blocks)
    BY <1>1, <2>1, WalkIsQueue DEF l
  <2> QED BY <2>5, <2>6, <2>7, <2>8 DEF LinksAgree
<1>2. Inv => LinksAgree
  BY <1>1 DEF Inv
<1> QED BY <1>2, InvAlways, PTL

(* A generator of iter_blocks_after that is resumed after any calls yields  *)
(* a block that is free at that moment, or ends.                            *)
THEOREM IteratorYieldsFree == Spec => IterYieldsFree
<1>1. Inv /\ [Next]_vars => [cursor' # cursor /\ cursor' # None => cursor' \notin out]_vars
  <2> SUFFICES ASSUME Inv, [Next]_vars
               PROVE  cursor' # cursor /\ cursor' # None => cursor' \notin out
    OBVIOUS
  <2>1. PICK q : Holds(q)
    BY DEF Inv
  <2> QED BY <2>1, NextMoves
<1> QED BY <1>1, InvAlways, PTL DEF Spec, IterYieldsFree

(* The linked list implements the queue without links: read through the     *)
(* walk over next_free_block, it starts as the blocks in the order of their *)
(* numbers, and every call is a move of FreeQueue or leaves the queue alone.*)
THEOREM QueueIsImplemented == Spec => ImplementsQueue
<1>1. WalkExact /\ Init => Abstract!Init
  <2> SUFFICES ASSUME WalkExact, Init PROVE Abstract!Init
    OBVIOUS
  <2>1. get_all_free_blocks = Ids /\ moved = <<>> /\ out = {}
    BY InitHolds DEF WalkExact
  <2> QED BY <2>1 DEF Abstract!Init, Ids
<1>2. WalkExact /\ WalkExact' /\ Inv /\ [Next]_vars
          => [Abstract!Next]_<<get_all_free_blocks, out, moved>>
  <2> SUFFICES ASSUME WalkExact, WalkExact', Inv, [Next]_vars
               PROVE  [Abstract!Next]_<<get_all_free_blocks, out, moved>>
    OBVIOUS
  <2>1. PICK q : Holds(q)
    BY DEF Inv
  <2>2. PICK s : Holds(s)' /\ Moves(q, s)
    BY <2>1, NextMoves
  <2>3. get_all_free_blocks = q /\ get_all_free_blocks' = s
    BY <2>1, <2>2 DEF WalkExact
  <2> HIDE DEF get_all_free_blocks
  <2>4. CASE Taking(q, s)
    <3>1. PICK n \in 1..Len(q) :
              s = SubSeq(q, n + 1, Len(q)) /\ moved' = SubSeq(q, 1, n) /\ out' = out \cup ToSet(moved')
      BY <2>4 DEF Taking
    <3>2. Abstract!Take(n)
      BY <2>3, <3>1 DEF Abstract!Take, Abstract!ToSet, ToSet
    <3> QED BY <2>3, <3>1, <3>2 DEF Abstract!Next
  <2>5. CASE TakingOut(q, s)
    <3>1. PICK i \in 1..Len(q) : s = RemoveAt(q, i) /\ moved' = <<q[i]>> /\ out' = out \cup {q[i]}
      BY <2>5 DEF TakingOut
    <3>2. i \in DOMAIN q /\ q[i] \in Blocks
      BY <2>1, <3>1 DEF Holds, Queues
    <3>3. Abstract!TakeOut(q[i])
      BY <2>3, <3>1, <3>2 DEF Abstract!TakeOut, Abstract!RemoveAt, RemoveAt
    <3> QED BY <3>2, <3>3 DEF Abstract!Next, Abstract!Blocks, Blocks
  <2>6. CASE Giving(q, s)
    <3>1. PICK c \in Lists : (s = q \o c \/ s = c \o q) /\ moved' = c /\ out' = out \ ToSet(c)
      BY <2>6 DEF Giving
    <3>2. Abstract!PutBack(c) \/ Abstract!PutInFront(c)
      BY <2>3, <3>1 DEF Abstract!PutBack, Abstract!PutInFront, Abstract!GiveBack,
                          Abstract!ToSet, ToSet
    <3>3. c \in Abstract!Lists(out)
      BY <3>1 DEF Lists, Abstract!Lists, Abstract!IsInjective, IsInjective,
                   Abstract!Cardinality, Cardinality
    <3> QED BY <3>2, <3>3 DEF Abstract!Next
  <2>7. CASE Standing(q, s)
    BY <2>3, <2>7 DEF Standing
  <2> QED BY <2>2, <2>4, <2>5, <2>6, <2>7 DEF Moves
<1> QED BY <1>1, <1>2, WalkIsExact, InvAlways, PTL DEF Spec, ImplementsQueue, Abstract!Spec
=============================================================================
