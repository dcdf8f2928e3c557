-------------------------- MODULE ModelRunner_proof --------------------------
(***************************************************************************)
(* Proofs about the model runner, for any requests, modes and drafts.      *)
(***************************************************************************)
EXTENDS ModelRunner, TLAPS, SequenceTheorems

(* What is left of a list of two parts after the first one.                 *)
IsRest(t, k, a, b) == k + Len(a) \in 0..Len(t) /\ b = SubSeq(t, k + Len(a) + 1, Len(t))
LEMMA RestOfList ==
    ASSUME NEW T, NEW t \in Seq(T), NEW k \in 0..Len(t), NEW a \in Seq(T), NEW b \in Seq(T),
           a \o b = SubSeq(t, k + 1, Len(t))
    PROVE  IsRest(t, k, a, b)
<1> DEFINE u == SubSeq(t, k + 1, Len(t))
           v == SubSeq(t, k + Len(a) + 1, Len(t))
<1>1. Len(t) \in Nat /\ Len(a) \in Nat /\ Len(b) \in Nat
  OBVIOUS
<1>2. Len(u) = Len(t) - k /\ u \in Seq(T) /\ \A i \in 1..Len(t)-k : u[i] = t[k + i]
  BY <1>1
<1>3. Len(u) = Len(a) + Len(b)
  OBVIOUS
<1>4. Len(v) = Len(b) /\ v \in Seq(T) /\ \A i \in 1..Len(b) : v[i] = t[k + Len(a) + i]
  BY <1>1, <1>2, <1>3
<1>5. ASSUME NEW i \in 1..Len(b) PROVE b[i] = v[i]
  <2>1. b[i] = (a \o b)[Len(a) + i]
    <3> DEFINE x == Len(a) + i
    <3>1. x \in 1..Len(a)+Len(b) /\ ~(x <= Len(a)) /\ x - Len(a) = i
      BY <1>1
    <3> HIDE DEF x
    <3>2. (a \o b)[x] = b[x - Len(a)]
      BY <3>1, ConcatProperties
    <3> QED BY <3>1, <3>2 DEF x
  <2>2. Len(a) + i \in 1..Len(t)-k
    BY <1>1, <1>2, <1>3
  <2>3. u[Len(a) + i] = t[k + (Len(a) + i)]
    BY <1>2, <2>2
  <2>4. t[k + (Len(a) + i)] = v[i]
    <3>1. k + (Len(a) + i) = k + Len(a) + i
      BY <1>1
    <3> HIDE DEF v
    <3> QED BY <1>4, <3>1
  <2> QED BY <2>1, <2>3, <2>4
<1>6. b = v
  <2> HIDE DEF u, v
  <2> QED BY <1>1, <1>4, <1>5, SeqEqual
<1> QED BY <1>1, <1>2, <1>3, <1>6 DEF IsRest

(* A list that grows at its end, seen from a position inside it.            *)
LEMMA GrowsAtEnd ==
    ASSUME NEW T, NEW t \in Seq(T), NEW k \in 0..Len(t), NEW c \in Seq(T)
    PROVE  SubSeq(t \o c, k + 1, Len(t \o c)) = SubSeq(t, k + 1, Len(t)) \o c
<1> DEFINE u == SubSeq(t, k + 1, Len(t))
           w == t \o c
           v == SubSeq(w, k + 1, Len(w))
<1>1. Len(t) \in Nat /\ Len(c) \in Nat
  OBVIOUS
<1>2. Len(u) = Len(t) - k /\ u \in Seq(T) /\ \A i \in 1..Len(t)-k : u[i] = t[k + i]
  BY <1>1
<1>3. w \in Seq(T) /\ Len(w) = Len(t) + Len(c)
  OBVIOUS
<1>4. \A i \in 1..Len(t) : w[i] = t[i]
  BY <1>1
<1>5. \A i \in 1..Len(c) : w[Len(t) + i] = c[i]
  BY <1>1
<1>6. Len(v) = Len(t) + Len(c) - k /\ v \in Seq(T) /\ \A i \in 1..Len(t)+Len(c)-k : v[i] = w[k + i]
  <2> HIDE DEF w
  <2> QED BY <1>1, <1>3
<1>7. u \o c \in Seq(T) /\ Len(u \o c) = Len(u) + Len(c)
  <2>1. u \in Seq(T)
    BY <1>2
  <2> HIDE DEF u
  <2> QED BY <2>1, ConcatProperties
<1>8. ASSUME NEW i \in 1..Len(t)+Len(c)-k PROVE v[i] = (u \o c)[i]
  <2> HIDE DEF u, w, v
  <2>1. CASE i <= Len(t) - k
    <3>1. (u \o c)[i] = u[i] /\ u[i] = t[k + i] /\ k + i \in 1..Len(t)
      BY <1>1, <1>2, <2>1
    <3> QED BY <1>4, <1>6, <3>1
  <2>2. CASE i > Len(t) - k
    <3> DEFINE j == i - (Len(t) - k)
    <3>1. j \in 1..Len(c) /\ k + i = Len(t) + j /\ i = Len(u) + j
      BY <1>1, <1>2, <2>2
    <3>2. (u \o c)[i] = c[j]
      BY <1>2, <3>1
    <3>3. v[i] = w[k + i]
      BY <1>6
    <3> QED BY <1>5, <3>1, <3>2, <3>3
  <2>3. i <= Len(t) - k \/ i > Len(t) - k
    BY <1>1
  <2> QED BY <2>1, <2>2, <2>3, Zenon
<1> QED
  <2> HIDE DEF u, w
  <2>1. Len(v) = Len(u \o c)
    BY <1>1, <1>2, <1>6, <1>7
  <2> HIDE DEF v
  <2>2. v = u \o c
    BY <1>1, <1>2, <1>6, <1>7, <1>8, <2>1, SeqEqual
  <2> QED BY <2>2 DEF u, v, w

----------------------------------------------------------------------------
(* FlattenSeq of the few outputs that can be under way.                     *)
LEMMA FlattenNone == ASSUME NEW s, Len(s) = 0 PROVE FlattenSeq(s) = s
BY DEF FlattenSeq

LEMMA FlattenOne ==
    ASSUME NEW a PROVE FlattenSeq(<<a>>) = a
<1> DEFINE s == <<a>>
           Walks(h) == h = [i \in 1..Len(s) |-> IF i = 1 THEN s[i] ELSE h[i-1] \o s[i]]
<1>1. Len(s) = 1 /\ s[1] = a
  OBVIOUS
<1>2. \E h : Walks(h)
  <2>1. Walks([i \in 1..1 |-> a])
    BY <1>1
  <2> HIDE DEF Walks
  <2> QED BY <2>1
<1>3. PICK h : h = CHOOSE g : Walks(g)
  OBVIOUS
<1>4. Walks(h)
  <2> HIDE DEF Walks
  <2> QED BY <1>2, <1>3
<1>5. FlattenSeq(s) = h[1]
  BY <1>1, <1>3 DEF FlattenSeq
<1>6. h[1] = a
  <2> HIDE DEF s
  <2> QED BY <1>1, <1>4
<1> QED BY <1>5, <1>6

LEMMA FlattenTwo ==
    ASSUME NEW a, NEW b PROVE FlattenSeq(<<a, b>>) = a \o b
<1> DEFINE s == <<a, b>>
           Walks(h) == h = [i \in 1..Len(s) |-> IF i = 1 THEN s[i] ELSE h[i-1] \o s[i]]
           ab == a \o b
<1>1. Len(s) = 2 /\ s[1] = a /\ s[2] = b
  OBVIOUS
<1>2. \E h : Walks(h)
  <2> DEFINE g == [i \in 1..2 |-> IF i = 1 THEN a ELSE ab]
  <2>1. g[1] = a /\ g[2] = ab
    OBVIOUS
  <2>2. \A i \in 1..2 : g[i] = IF i = 1 THEN s[i] ELSE g[i-1] \o s[i]
    <3>1. g[2] = g[2-1] \o s[2]
      BY <1>1, <2>1
    <3>2. g[1] = s[1]
      BY <1>1, <2>1
    <3> SUFFICES ASSUME NEW i \in 1..2 PROVE g[i] = IF i = 1 THEN s[i] ELSE g[i-1] \o s[i]
      OBVIOUS
    <3>3. i = 1 \/ i = 2
      OBVIOUS
    <3> HIDE DEF g, s
    <3>4. CASE i = 1
      BY <3>2, <3>4, Zenon
    <3>5. CASE i = 2
      <4>1. i # 1 /\ i - 1 = 2 - 1
        BY <3>5
      <4> QED BY <3>1, <3>5, <4>1, Zenon
    <3> QED BY <3>3, <3>4, <3>5
  <2>3. g = [i \in 1..2 |-> g[i]]
    OBVIOUS
  <2> HIDE DEF g, s
  <2>4. Walks(g)
    BY <1>1, <2>2, <2>3
  <2> HIDE DEF Walks
  <2> QED BY <2>4
<1>3. PICK h : h = CHOOSE g : Walks(g)
  OBVIOUS
<1>4. Walks(h)
  <2> HIDE DEF Walks
  <2> QED BY <1>2, <1>3
<1>5. FlattenSeq(s) = h[2]
  BY <1>1, <1>3 DEF FlattenSeq
<1>6. h[1] = a /\ h[2] = h[1] \o b
  <2>1. 1 \in 1..Len(s) /\ 2 \in 1..Len(s) /\ 2 # 1 /\ 2 - 1 = 1
    BY <1>1
  <2> HIDE DEF s
  <2>2. h[1] = IF 1 = 1 THEN s[1] ELSE h[1-1] \o s[1]
    BY <1>4, <2>1, Zenon
  <2>3. h[2] = IF 2 = 1 THEN s[2] ELSE h[2-1] \o s[2]
    BY <1>4, <2>1, Zenon
  <2> QED BY ONLY <1>1, <2>1, <2>2, <2>3, Zenon
<1> QED BY <1>5, <1>6

----------------------------------------------------------------------------
(* What the scheduler holds of a request (s) and what the model said of it  *)
(* (t), as far as the outputs are concerned, and what the outputs under way *)
(* (f) bring to it.                                                         *)
Stages == {"waiting", "running", "preempted", "streaming", "done"}
Fields == {"st", "ver", "plen", "outputs", "placeholders", "computed", "spec", "fin", "blocks", "epoch"}
Said == Nat \X Nat \X Nat
IsRecord(s) ==
    /\ DOMAIN s = Fields /\ s.st \in Stages
    /\ s.ver \in Nat /\ s.plen \in Nat /\ s.outputs \in Nat
Held(r, s, t) ==
    /\ IsRecord(s) /\ t \in Seq(Said) /\ s.plen + s.outputs <= Len(t)
    /\ s.st = "done" => s.plen = Prompt[r] /\ s.outputs = 0 /\ Len(t) = s.plen
Tokens(o, r) == get_output(o)[RowOfRequest(o.reqs, r)]
IsOutput(o) == DOMAIN o = {"reqs", "toks", "invalid", "spec", "owed"}
Fits(o, r) == IsOutput(o) /\ (r \in o.owed => Tokens(o, r) \in Seq(Said))
BroughtTo(o, r) == IF r \in o.owed THEN Tokens(o, r) ELSE <<>>
Few(f) == f = <<>> \/ f = <<f[1]>> \/ f = <<f[1], f[2]>>
AllBrought(f, r) ==
    IF f = <<>> THEN <<>>
    ELSE IF f = <<f[1]>> THEN BroughtTo(f[1], r)
    ELSE BroughtTo(f[1], r) \o BroughtTo(f[2], r)
Unknown(s, t) == SubSeq(t, s.plen + s.outputs + 1, Len(t))
Served(f, r, s, t) ==
    /\ Held(r, s, t)
    /\ \A k \in DOMAIN f : Fits(f[k], r)
    /\ AllBrought(f, r) = Unknown(s, t)
RunnerInv ==
    /\ mode \in Modes /\ DOMAIN sched = Requests /\ DOMAIN truth = Requests
    /\ Few(flight) /\ (~Idle => flight = <<>> \/ flight = <<flight[1]>>)
    /\ mode.last => stale = {}
    /\ ~Idle => \A r \in Requests \cap execute_model_state.expects : sched[r].st # "done"
    /\ \A r \in Requests : Served(flight, r, sched[r], truth[r])

LEMMA FewParts ==
    ASSUME NEW f, Few(f)
    PROVE  /\ f = <<>> => DOMAIN f = {} /\ Len(f) = 0
           /\ f = <<f[1]>> => DOMAIN f = {1} /\ Len(f) = 1 /\ f # <<>> /\ Tail(f) = <<>>
           /\ f = <<f[1], f[2]>> => DOMAIN f = {1, 2} /\ Len(f) = 2 /\ f # <<>> /\ f # <<f[1]>> /\ Tail(f) = <<f[2]>>
<1>1. f = <<>> => DOMAIN f = {} /\ Len(f) = 0
  OBVIOUS
<1>2. ASSUME NEW a PROVE DOMAIN <<a>> = {1} /\ Len(<<a>>) = 1 /\ <<a>> # <<>> /\ Tail(<<a>>) = <<>>
  <2>1. DOMAIN <<a>> = {1} /\ Len(<<a>>) = 1 /\ <<a>> # <<>>
    OBVIOUS
  <2>2. Tail(<<a>>) = <<>>
    BY DEF Tail
  <2> QED BY <2>1, <2>2
<1>3. ASSUME NEW a, NEW b
      PROVE  /\ DOMAIN <<a, b>> = {1, 2} /\ Len(<<a, b>>) = 2 /\ <<a, b>> # <<>> /\ Tail(<<a, b>>) = <<b>>
             /\ \A c : <<a, b>> # <<c>>
  <2>1. DOMAIN <<a, b>> = {1, 2} /\ Len(<<a, b>>) = 2 /\ <<a, b>> # <<>>
    OBVIOUS
  <2>2. Tail(<<a, b>>) = <<b>>
    BY DEF Tail
  <2>3. ASSUME NEW c PROVE <<a, b>> # <<c>>
    <3>1. Len(<<c>>) = 1 /\ Len(<<a, b>>) = 2
      OBVIOUS
    <3> QED BY <3>1
  <2> QED BY <2>1, <2>2, <2>3
<1>4. ASSUME f = <<f[1]>>
      PROVE  DOMAIN f = {1} /\ Len(f) = 1 /\ f # <<>> /\ Tail(f) = <<>>
  <2> DEFINE a == f[1]
  <2>1. f = <<a>>
    BY <1>4
  <2> HIDE DEF a
  <2> QED BY <1>2, <2>1
<1>5. ASSUME f = <<f[1], f[2]>>
      PROVE  DOMAIN f = {1, 2} /\ Len(f) = 2 /\ f # <<>> /\ f # <<f[1]>> /\ Tail(f) = <<f[2]>>
  <2> DEFINE a == f[1]
             b == f[2]
  <2>1. f = <<a, b>>
    BY <1>5
  <2> HIDE DEF a, b
  <2>2. /\ DOMAIN f = {1, 2} /\ Len(f) = 2 /\ f # <<>> /\ Tail(f) = <<b>>
        /\ f # <<a>>
    BY <1>3, <2>1
  <2> QED BY <2>2 DEF a, b
<1> QED BY <1>1, <1>4, <1>5

LEMMA FewAppend ==
    ASSUME NEW f, NEW o, f = <<>> \/ f = <<f[1]>>
    PROVE  /\ Few(Append(f, o))
           /\ f = <<>> => Append(f, o) = <<o>>
           /\ f = <<f[1]>> => Append(f, o) = <<f[1], o>>
<1>1. Append(<<>>, o) = <<o>>
  OBVIOUS
<1>2. ASSUME NEW a PROVE Append(<<a>>, o) = <<a, o>>
  <2> DEFINE S == {a, o}
             u == <<a>>
             v == <<a, o>>
  <2>1. u \in Seq(S) /\ o \in S /\ Len(u) = 1 /\ u[1] = a
    OBVIOUS
  <2>2. v \in Seq(S) /\ Len(v) = 2 /\ v[1] = a /\ v[2] = o
    OBVIOUS
  <2> HIDE DEF S, u, v
  <2>3. /\ Append(u, o) \in Seq(S) /\ Len(Append(u, o)) = 2
        /\ Append(u, o)[1] = a /\ Append(u, o)[2] = o
    <3>1. 1 \in 1..Len(u) /\ Len(u) + 1 = 2
      BY <2>1
    <3>2. u \in Seq(S) /\ o \in S
      BY <2>1
    <3>4. Append(u, o) \in Seq(S) /\ Len(Append(u, o)) = Len(u) + 1
      BY ONLY <3>2, AppendProperties
    <3>5. Append(u, o)[Len(u) + 1] = o
      BY ONLY <3>2, AppendProperties
    <3>3. Append(u, o)[1] = u[1]
      BY <2>1, <3>1, AppendProperties
    <3> QED BY ONLY <2>1, <3>1, <3>3, <3>4, <3>5
  <2> DEFINE w == Append(u, o)
  <2> HIDE DEF w
  <2>4. w = v
    BY <2>2, <2>3, SeqEqual DEF w
  <2> QED BY <2>4 DEF w, u, v
<1>3. ASSUME f = <<f[1]>> PROVE Append(f, o) = <<f[1], o>>
  <2> DEFINE a == f[1]
  <2>1. f = <<a>>
    BY <1>3
  <2> HIDE DEF a
  <2>2. Append(f, o) = <<a, o>>
    BY <1>2, <2>1
  <2> QED BY <2>2 DEF a
<1>4. ASSUME NEW a PROVE <<a, o>>[1] = a /\ <<a, o>>[2] = o /\ <<o>>[1] = o
  OBVIOUS
<1>5. Few(<<o>>)
  BY <1>4 DEF Few
<1>6. Few(<<f[1], o>>)
  <2> DEFINE a == f[1]
  <2> HIDE DEF a
  <2>1. <<a, o>> = << <<a, o>>[1], <<a, o>>[2] >>
    BY <1>4
  <2>2. Few(<<a, o>>)
    BY <2>1 DEF Few
  <2> QED BY <2>2 DEF a
<1> QED BY <1>1, <1>3, <1>5, <1>6

LEMMA BroughtIsList ==
    ASSUME NEW o, NEW r, Fits(o, r)
    PROVE  BroughtTo(o, r) \in Seq(Said)
BY DEF BroughtTo, Fits

LEMMA AllIsList ==
    ASSUME NEW f, Few(f), NEW r, \A k \in DOMAIN f : Fits(f[k], r)
    PROVE  AllBrought(f, r) \in Seq(Said)
<1>1. CASE f = <<>>
  BY <1>1 DEF AllBrought
<1>2. CASE f = <<f[1]>>
  <2>1. Fits(f[1], r) /\ f # <<>>
    BY <1>2, FewParts
  <2> QED BY <1>2, <2>1, BroughtIsList DEF AllBrought
<1>3. CASE f = <<f[1], f[2]>>
  <2>1. Fits(f[1], r) /\ Fits(f[2], r) /\ f # <<>> /\ f # <<f[1]>>
    BY <1>3, FewParts
  <2> DEFINE a == BroughtTo(f[1], r)
             b == BroughtTo(f[2], r)
  <2>2. a \in Seq(Said) /\ b \in Seq(Said)
    BY <2>1, BroughtIsList
  <2>3. AllBrought(f, r) = a \o b
    BY <2>1 DEF AllBrought
  <2> HIDE DEF a, b
  <2> QED BY <2>2, <2>3, ConcatProperties
<1> QED BY <1>1, <1>2, <1>3 DEF Few

(* One more output brings what it holds, at the end.                        *)
LEMMA AppendFits ==
    ASSUME NEW f, f = <<>> \/ f = <<f[1]>>, NEW o, NEW r, Fits(o, r),
           \A k \in DOMAIN f : Fits(f[k], r)
    PROVE  \A k \in DOMAIN Append(f, o) : Fits(Append(f, o)[k], r)
<1>1. CASE f = <<>>
  <2>1. Append(f, o) = <<o>>
    BY <1>1, FewAppend
  <2>2. DOMAIN <<o>> = {1} /\ <<o>>[1] = o
    OBVIOUS
  <2> QED BY ONLY <2>1, <2>2, Fits(o, r)
<1>2. CASE f = <<f[1]>>
  <2> DEFINE a == f[1]
  <2>1. Append(f, o) = <<a, o>>
    BY <1>2, FewAppend
  <2>2. Fits(a, r)
    BY <1>2, FewParts DEF Few
  <2> HIDE DEF a
  <2>3. DOMAIN <<a, o>> = {1, 2} /\ <<a, o>>[1] = a /\ <<a, o>>[2] = o
    OBVIOUS
  <2> QED BY ONLY <2>1, <2>2, <2>3, Fits(o, r)
<1> QED BY <1>1, <1>2

LEMMA AppendBrings ==
    ASSUME NEW f, f = <<>> \/ f = <<f[1]>>, NEW o, NEW r, Fits(o, r)
    PROVE  AllBrought(Append(f, o), r) = AllBrought(f, r) \o BroughtTo(o, r)
<1> DEFINE b == BroughtTo(o, r)
<1>1. CASE f = <<>>
  <2>1. Append(f, o) = <<o>>
    BY <1>1, FewAppend
  <2>2. AllBrought(<<o>>, r) = b
    BY DEF AllBrought
  <2>3. AllBrought(f, r) = <<>>
    BY <1>1 DEF AllBrought
  <2>4. b \in Seq(Said)
    BY BroughtIsList
  <2>5. <<>> \o b = b
    <3> HIDE DEF b
    <3> QED BY <2>4, ConcatEmptySeq
  <2> QED BY <2>1, <2>2, <2>3, <2>5
<1>2. CASE f = <<f[1]>>
  <2> DEFINE c == f[1]
             u == <<c, o>>
  <2>1. Append(f, o) = u
    BY <1>2, FewAppend
  <2>2. u # <<>> /\ u # <<u[1]>> /\ u[1] = c /\ u[2] = o
    <3> HIDE DEF c
    <3>1. u[1] = c /\ u[2] = o /\ Len(u) = 2
      OBVIOUS
    <3>2. Len(<<u[1]>>) = 1
      OBVIOUS
    <3> QED BY <3>1, <3>2
  <2>3. f # <<>> /\ f = <<f[1]>>
    BY <1>2, FewParts DEF Few
  <2>4. AllBrought(f, r) = BroughtTo(c, r)
    BY <2>3 DEF AllBrought
  <2> HIDE DEF u, c
  <2>5. AllBrought(u, r) = BroughtTo(c, r) \o b
    BY <2>2 DEF AllBrought
  <2> QED BY <2>1, <2>4, <2>5
<1> QED BY <1>1, <1>2

----------------------------------------------------------------------------
(* What each kind of step does to one request.                              *)

(* the scheduler changed nothing that outputs depend on                     *)
Alike(s, z) ==
    IsRecord(z) /\ z.plen = s.plen /\ z.outputs = s.outputs /\ (z.st = "done" <=> s.st = "done")
LEMMA AlikeServed ==
    ASSUME NEW f, NEW r, NEW s, NEW t, Served(f, r, s, t), NEW z, Alike(s, z)
    PROVE  Served(f, r, z, t)
<1>1. Unknown(z, t) = Unknown(s, t) /\ (z.st = "done" <=> s.st = "done")
  BY DEF Alike, Unknown
<1>2. Held(r, z, t)
  BY DEF Alike, Served, Held
<1> QED BY <1>1, <1>2 DEF Served

(* a step sampled what one more output brings                               *)
LEMMA SampleServed ==
    ASSUME NEW f, f = <<>> \/ f = <<f[1]>>, NEW r, NEW s, NEW t, Served(f, r, s, t),
           NEW o, Fits(o, r), s.st = "done" => BroughtTo(o, r) = <<>>
    PROVE  Served(Append(f, o), r, s, t \o BroughtTo(o, r))
<1> DEFINE b == BroughtTo(o, r)
           k == s.plen + s.outputs
           u == t \o b
<1>1. b \in Seq(Said) /\ t \in Seq(Said) /\ k \in 0..Len(t) /\ k \in Nat
  BY BroughtIsList DEF Served, Held, IsRecord
<1>2. u \in Seq(Said) /\ Len(u) = Len(t) + Len(b) /\ Len(b) \in Nat /\ Len(t) \in Nat
  <2> HIDE DEF b, k
  <2> QED BY <1>1, ConcatProperties
<1>3. Held(r, s, u)
  <2>1. k <= Len(u)
    <3> HIDE DEF u, b, k
    <3> QED BY <1>1, <1>2
  <2>2. s.st = "done" => Len(b) = 0
    OBVIOUS
  <2>3. s.st = "done" => Len(u) = Len(t)
    <3> HIDE DEF u, b
    <3> QED BY <1>2, <2>2
  <2> HIDE DEF u, b
  <2> QED BY <1>2, <2>1, <2>3 DEF Served, Held
<1>4. \A i \in DOMAIN Append(f, o) : Fits(Append(f, o)[i], r)
  BY AppendFits DEF Served
<1>5. AllBrought(Append(f, o), r) = Unknown(s, u)
  <2>1. AllBrought(Append(f, o), r) = SubSeq(t, k + 1, Len(t)) \o b
    <3>1. AllBrought(Append(f, o), r) = AllBrought(f, r) \o b
      BY AppendBrings
    <3>2. AllBrought(f, r) = SubSeq(t, k + 1, Len(t))
      BY DEF Served, Unknown
    <3> QED BY ONLY <3>1, <3>2
  <2>2. SubSeq(u, k + 1, Len(u)) = SubSeq(t, k + 1, Len(t)) \o b
    <3> HIDE DEF b, k
    <3> QED BY <1>1, GrowsAtEnd
  <2> HIDE DEF u, b
  <2> QED BY <2>1, <2>2 DEF Unknown
<1> QED BY <1>3, <1>4, <1>5 DEF Served

(* an output that brings nothing to the request                             *)
LEMMA EmptyServed ==
    ASSUME NEW f, f = <<>> \/ f = <<f[1]>>, NEW r, NEW s, NEW t, Served(f, r, s, t),
           NEW o, Fits(o, r), BroughtTo(o, r) = <<>>
    PROVE  Served(Append(f, o), r, s, t)
<1>1. t \in Seq(Said)
  BY DEF Served, Held
<1>2. t \o <<>> = t
  BY <1>1, ConcatEmptySeq
<1> QED BY <1>2, SampleServed

(* what is under way behind the first output                                *)
LEMMA TailBrings ==
    ASSUME NEW f, Few(f), f # <<>>, NEW r, \A k \in DOMAIN f : Fits(f[k], r)
    PROVE  /\ AllBrought(f, r) = BroughtTo(f[1], r) \o AllBrought(Tail(f), r)
           /\ \A k \in DOMAIN Tail(f) : Fits(Tail(f)[k], r)
           /\ Tail(f) = <<>> \/ Tail(f) = <<Tail(f)[1]>>
<1> DEFINE a == f[1]
           b == f[2]
<1>1. CASE f = <<f[1]>>
  <2>1. Tail(f) = <<>> /\ Fits(a, r) /\ AllBrought(f, r) = BroughtTo(a, r)
    BY <1>1, FewParts DEF AllBrought
  <2>2. AllBrought(<<>>, r) = <<>> /\ DOMAIN <<>> = {}
    BY DEF AllBrought
  <2> DEFINE c == BroughtTo(a, r)
  <2>3. c \in Seq(Said)
    BY <2>1, BroughtIsList
  <2>4. c \o <<>> = c
    <3> HIDE DEF c
    <3> QED BY <2>3, ConcatEmptySeq
  <2> QED BY <2>1, <2>2, <2>4
<1>2. CASE f = <<f[1], f[2]>>
  <2>1. Tail(f) = <<b>> /\ Fits(b, r) /\ AllBrought(f, r) = BroughtTo(a, r) \o BroughtTo(b, r)
    BY <1>2, FewParts DEF AllBrought
  <2> HIDE DEF b
  <2>2. DOMAIN <<b>> = {1} /\ <<b>>[1] = b
    OBVIOUS
  <2>3. AllBrought(<<b>>, r) = BroughtTo(b, r)
    BY DEF AllBrought
  <2> QED BY <2>1, <2>2, <2>3
<1> QED BY <1>1, <1>2 DEF Few

(* the first output reaches the scheduler                                   *)
LEMMA DeliverServed ==
    ASSUME NEW f, Few(f), f # <<>>, NEW r, NEW s, NEW t, Served(f, r, s, t),
           NEW z, IsRecord(z), z.plen = s.plen, z.st = s.st, z.outputs = s.outputs + Len(BroughtTo(f[1], r))
    PROVE  Served(Tail(f), r, z, t)
<1> DEFINE a == BroughtTo(f[1], r)
           b == AllBrought(Tail(f), r)
           k == s.plen + s.outputs
<1>1. /\ AllBrought(f, r) = a \o b
      /\ \A i \in DOMAIN Tail(f) : Fits(Tail(f)[i], r)
      /\ Few(Tail(f))
  BY TailBrings DEF Served, Few
<1>2. Fits(f[1], r)
  BY FewParts DEF Served, Few
<1>3. a \in Seq(Said) /\ b \in Seq(Said) /\ t \in Seq(Said) /\ k \in 0..Len(t) /\ s.plen \in Nat /\ s.outputs \in Nat
  <2>1. a \in Seq(Said)
    BY <1>2, BroughtIsList
  <2>2. b \in Seq(Said)
    BY <1>1, AllIsList
  <2>3. t \in Seq(Said) /\ k <= Len(t) /\ s.plen \in Nat /\ s.outputs \in Nat
    BY DEF Served, Held, IsRecord
  <2>4. k \in 0..Len(t)
    BY <2>3
  <2> QED BY <2>1, <2>2, <2>3, <2>4
<1>4. a \o b = SubSeq(t, k + 1, Len(t))
  BY <1>1 DEF Served, Unknown
<1> HIDE DEF b
<1>5. z.outputs = s.outputs + Len(a)
  OBVIOUS
<1> HIDE DEF a
<1>6. k + Len(a) \in 0..Len(t) /\ b = SubSeq(t, k + Len(a) + 1, Len(t))
  <2>1. k \in 0..Len(t) /\ t \in Seq(Said) /\ a \in Seq(Said) /\ b \in Seq(Said)
    BY <1>3
  <2> HIDE DEF k
  <2>2. IsRest(t, k, a, b)
    BY ONLY <1>4, <2>1, RestOfList
  <2> QED BY <2>2 DEF IsRest
<1>7. Len(a) \in Nat /\ Len(t) \in Nat
  BY <1>3
<1>8. z.plen + z.outputs = k + Len(a)
  BY <1>3, <1>5, <1>7
<1>9. Held(r, z, t)
  <2>1. k + Len(a) <= Len(t) /\ t \in Seq(Said)
    BY <1>3, <1>6
  <2>2. s.st = "done" => s.plen = Prompt[r] /\ s.outputs = 0 /\ Len(t) = s.plen
    BY DEF Served, Held
  <2>3. s.st = "done" => z.outputs = 0
    BY <1>3, <1>5, <1>7, <2>1, <2>2
  <2> QED BY <1>8, <2>1, <2>2, <2>3 DEF Held
<1>10. b = Unknown(z, t)
  BY <1>6, <1>8 DEF Unknown
<1> QED BY <1>1, <1>9, <1>10 DEF Served, b

(* The outputs under way once the scheduler does not want them for q.       *)
Without(f, q) == [k \in DOMAIN f |-> [f[k] EXCEPT !.owed = @ \ {q}]]
LEMMA WithoutParts ==
    ASSUME NEW f, Few(f), NEW q
    PROVE  /\ DOMAIN Without(f, q) = DOMAIN f
           /\ f = <<>> => Without(f, q) = <<>>
           /\ f = <<f[1]>> => Without(f, q) = <<Without(f, q)[1]>>
           /\ f = <<f[1], f[2]>> => Without(f, q) = <<Without(f, q)[1], Without(f, q)[2]>>
<1> DEFINE g == Without(f, q)
<1>1. DOMAIN g = DOMAIN f /\ g = [k \in DOMAIN g |-> g[k]]
  BY DEF Without
<1> HIDE DEF g
<1>2. CASE f = <<>>
  <2>1. DOMAIN g = {}
    BY <1>1, <1>2, FewParts
  <2>2. g = <<>>
    BY <1>1, <2>1
  <2> QED BY <1>1, <1>2, <2>2, FewParts DEF g
<1>3. CASE f = <<f[1]>>
  <2>1. DOMAIN g = {1} /\ f # <<>> /\ f # <<f[1], f[2]>>
    BY <1>1, <1>3, FewParts
  <2>2. g = <<g[1]>>
    BY <1>1, <2>1
  <2> QED BY <1>1, <1>3, <2>1, <2>2 DEF g
<1>4. CASE f = <<f[1], f[2]>>
  <2>1. DOMAIN g = {1, 2} /\ f # <<>> /\ f # <<f[1]>>
    BY <1>1, <1>4, FewParts
  <2>2. g = <<g[1], g[2]>>
    BY <1>1, <2>1
  <2> QED BY <1>1, <1>4, <2>1, <2>2 DEF g
<1> QED BY <1>2, <1>3, <1>4 DEF Few

LEMMA WithoutFits ==
    ASSUME NEW f, NEW q, NEW r, NEW k \in DOMAIN f, Fits(f[k], r)
    PROVE  /\ Fits(Without(f, q)[k], r)
           /\ r # q => BroughtTo(Without(f, q)[k], r) = BroughtTo(f[k], r)
           /\ BroughtTo(Without(f, q)[k], q) = <<>>
<1> DEFINE o == f[k]
           p == [o EXCEPT !.owed = @ \ {q}]
<1>1. Without(f, q)[k] = p
  BY DEF Without
<1>2. IsOutput(o) /\ (r \in o.owed => Tokens(o, r) \in Seq(Said))
  BY DEF Fits
<1> HIDE DEF o
<1>3. IsOutput(p) /\ p.reqs = o.reqs /\ p.toks = o.toks /\ p.invalid = o.invalid /\ p.owed = o.owed \ {q}
  BY <1>2 DEF IsOutput
<1> HIDE DEF p
<1>4. get_output(p) = get_output(o) /\ Tokens(p, r) = Tokens(o, r)
  BY <1>3 DEF get_output, Tokens
<1>5. Fits(p, r) /\ (r # q => BroughtTo(p, r) = BroughtTo(o, r)) /\ BroughtTo(p, q) = <<>>
  BY <1>2, <1>3, <1>4 DEF Fits, BroughtTo
<1> QED BY <1>1, <1>5 DEF o

LEMMA WithoutBrings ==
    ASSUME NEW f, Few(f), NEW q, NEW r, \A k \in DOMAIN f : Fits(f[k], r)
    PROVE  /\ \A k \in DOMAIN Without(f, q) : Fits(Without(f, q)[k], r)
           /\ r # q => AllBrought(Without(f, q), r) = AllBrought(f, r)
           /\ r = q => AllBrought(Without(f, q), r) = <<>>
<1> DEFINE g == Without(f, q)
<1>1. \A k \in DOMAIN f : /\ Fits(g[k], r)
                          /\ r # q => BroughtTo(g[k], r) = BroughtTo(f[k], r)
                          /\ r = q => BroughtTo(g[k], r) = <<>>
  BY WithoutFits
<1>2. /\ DOMAIN g = DOMAIN f /\ (f = <<>> => g = <<>>)
      /\ f = <<f[1]>> => g = <<g[1]>>
      /\ f = <<f[1], f[2]>> => g = <<g[1], g[2]>>
  BY WithoutParts
<1> HIDE DEF g
<1> DEFINE Brings == /\ r # q => AllBrought(g, r) = AllBrought(f, r)
                     /\ r = q => AllBrought(g, r) = <<>>
<1>3. ASSUME f = <<>> PROVE Brings
  BY <1>2, <1>3 DEF AllBrought
<1>4. ASSUME f = <<f[1]>> PROVE Brings
  <2>1. 1 \in DOMAIN f /\ f # <<>>
    BY <1>4, FewParts
  <2>2. AllBrought(f, r) = BroughtTo(f[1], r)
    BY <1>4, <2>1 DEF AllBrought
  <2>3. g = <<g[1]>> /\ Few(g)
    BY <1>2, <1>4 DEF Few
  <2>4. g # <<>>
    BY <2>3, FewParts
  <2>5. AllBrought(g, r) = BroughtTo(g[1], r)
    BY <2>3, <2>4 DEF AllBrought
  <2> QED BY <1>1, <2>1, <2>2, <2>5
<1>5. ASSUME f = <<f[1], f[2]>> PROVE Brings
  <2>1. 1 \in DOMAIN f /\ 2 \in DOMAIN f /\ f # <<>> /\ f # <<f[1]>>
    BY <1>5, FewParts
  <2>2. AllBrought(f, r) = BroughtTo(f[1], r) \o BroughtTo(f[2], r)
    BY <2>1 DEF AllBrought
  <2>3. g = <<g[1], g[2]>> /\ Few(g)
    BY <1>2, <1>5 DEF Few
  <2>4. g # <<>> /\ g # <<g[1]>>
    BY <2>3, FewParts
  <2>5. AllBrought(g, r) = BroughtTo(g[1], r) \o BroughtTo(g[2], r)
    BY <2>4 DEF AllBrought
  <2>6. <<>> \o <<>> = <<>>
    OBVIOUS
  <2> QED BY <1>1, <2>1, <2>2, <2>5, <2>6
<1>6. \A k \in DOMAIN g : Fits(g[k], r)
  BY <1>1, <1>2
<1>7. Brings
  BY <1>3, <1>4, <1>5 DEF Few
<1> QED BY <1>6, <1>7 DEF g

(* What the scheduler drops a request from is as before for the others, and *)
(* brings nothing to a request that starts again from what is known.        *)
LEMMA OthersServed ==
    ASSUME NEW f, Few(f), NEW q, NEW r, r # q, NEW s, NEW t, Served(f, r, s, t)
    PROVE  Served(Without(f, q), r, s, t)
BY WithoutBrings DEF Served

LEMMA DroppedServed ==
    ASSUME NEW f, Few(f), NEW r, NEW s, NEW t, Served(f, r, s, t),
           NEW z, NEW u, Held(r, z, u), Len(u) = z.plen + z.outputs
    PROVE  Served(Without(f, r), r, z, u)
<1>1. Unknown(z, u) = <<>>
  BY DEF Unknown, Held, IsRecord
<1> QED BY <1>1, WithoutBrings DEF Served

----------------------------------------------------------------------------
(* The actions.                                                             *)
LEMMA OneOfTheRequests ==
    ASSUME RunnerInv, NEW r \in Requests
    PROVE  /\ Served(flight, r, sched[r], truth[r]) /\ Held(r, sched[r], truth[r])
           /\ IsRecord(sched[r]) /\ truth[r] \in Seq(Said)
BY DEF RunnerInv, Served, Held

LEMMA PromptLength ==
    ASSUME mode \in Modes, NEW r \in Requests, NEW ver \in Nat
    PROVE  Prompt[r] \in Nat /\ Fresh(r, ver) \in Seq(Said) /\ Len(Fresh(r, ver)) = Prompt[r]
<1>1. mode.max_model_len \in Nat /\ Prompt \in [Requests -> 1..mode.max_model_len-1] /\ r \in Nat
  BY RunnerAssumption DEF RunnerAssumption
<1>2. Prompt[r] \in Nat
  BY <1>1
<1> DEFINE p == Prompt[r]
<1> HIDE DEF p
<1>3. p \in Nat /\ Fresh(r, ver) = [pos \in 1..p |-> <<r, pos, ver>>]
  BY <1>2 DEF p, Fresh
<1>4. \A pos \in 1..p : <<r, pos, ver>> \in Said
  BY <1>1, <1>3 DEF Said
<1>5. [pos \in 1..p |-> <<r, pos, ver>>] \in Seq(Said)
  <2> HIDE DEF Said
  <2> QED BY <1>3, <1>4
<1> QED BY <1>3, <1>5 DEF p

LEMMA InitServes == Init => RunnerInv
<1> SUFFICES ASSUME Init PROVE RunnerInv
  OBVIOUS
<1>1. mode \in Modes /\ DOMAIN sched = Requests /\ DOMAIN truth = Requests /\ Few(flight) /\ Idle /\ stale = {}
  BY DEF Init, Few, Idle
<1>2. ASSUME NEW r \in Requests PROVE Served(flight, r, sched[r], truth[r])
  <2>1. /\ DOMAIN sched[r] = Fields /\ sched[r].st = "waiting" /\ sched[r].ver = 0
        /\ sched[r].plen = Prompt[r] /\ sched[r].outputs = 0 /\ truth[r] = Fresh(r, 0) /\ flight = <<>>
    BY DEF Init, Fields
  <2>2. Prompt[r] \in Nat /\ truth[r] \in Seq(Said) /\ Len(truth[r]) = Prompt[r]
    BY <1>1, <2>1, PromptLength
  <2>3. Held(r, sched[r], truth[r])
    BY <2>1, <2>2 DEF Held, IsRecord, Stages
  <2>4. Unknown(sched[r], truth[r]) = <<>>
    BY <2>1, <2>2 DEF Unknown
  <2> QED BY <2>1, <2>3, <2>4 DEF Served, AllBrought
<1> QED BY <1>1, <1>2 DEF RunnerInv

(* The scheduler plans nothing for a request that is done, and a plan       *)
(* changes neither version nor tokens of any other.                         *)
LEMMA ScheduledIsAlike ==
    ASSUME NEW n, NEW preempt, NEW r \in Requests, IsRecord(sched[r]), MaySchedule(r, n[r]), n[r] \in Nat,
           r \in preempt => sched[r].st = "running"
    PROVE  Alike(sched[r], Scheduled(n, preempt)[r])
<1> DEFINE s == [sched[r] EXCEPT !.fin = FALSE]
           z == Scheduled(n, preempt)[r]
<1>1. sched[r].st = "done" => n[r] = 0
  <2>1. sched[r].st = "done" => Want(r) = 0
    BY DEF Want
  <2> QED BY <2>1 DEF MaySchedule
<1>2. Alike(sched[r], s)
  BY DEF Alike, IsRecord, Fields
<1> HIDE DEF s
<1>3. CASE r \in preempt
  <2>1. z = [s EXCEPT !.st = "preempted", !.epoch = @ + 1, !.computed = 0, !.spec = <<>>, !.blocks = 0]
    BY <1>3 DEF Scheduled, s
  <2> HIDE DEF z
  <2>2. Alike(s, z)
    BY <1>2, <1>3, <2>1 DEF Alike, IsRecord, Fields, Stages
  <2> QED BY <1>2, <2>2 DEF Alike, z
<1>4. CASE r \notin preempt /\ n[r] = 0
  <2>1. z = IF mode.async THEN [s EXCEPT !.spec = <<>>] ELSE s
    BY <1>4 DEF Scheduled, s
  <2> HIDE DEF z
  <2>2. Alike(s, z)
    BY <1>2, <2>1 DEF Alike, IsRecord, Fields
  <2> QED BY <1>2, <2>2 DEF Alike, z
<1>5. CASE r \notin preempt /\ n[r] # 0
  <2>1. PICK a, b, c, d : z = [s EXCEPT !.st = "running", !.computed = a, !.blocks = b, !.placeholders = c, !.spec = d]
    BY <1>5 DEF Scheduled, s
  <2> HIDE DEF z
  <2>2. Alike(s, z)
    BY <1>1, <1>2, <1>5, <2>1 DEF Alike, IsRecord, Fields, Stages
  <2> QED BY <1>2, <2>2 DEF Alike, z
<1> QED BY <1>3, <1>4, <1>5

LEMMA NoOutputBringsNothing ==
    ASSUME NEW r PROVE Fits(NoOutput, r) /\ BroughtTo(NoOutput, r) = <<>>
<1>1. NoOutput.owed = {} /\ IsOutput(NoOutput)
  BY DEF NoOutput, IsOutput
<1> QED BY <1>1 DEF Fits, BroughtTo

(* The requests a step expects tokens of are those it has scheduled up to   *)
(* their end.                                                               *)
LEMMA ExpectsIs ==
    ASSUME NEW st, NEW b, NEW n
    PROVE  _prepare_inputs(st, b, n).expects = {r \in Requests : Samples(r, n[r])}
BY DEF _prepare_inputs

LEMMA StepServes == RunnerInv /\ Step => RunnerInv'
<1> SUFFICES ASSUME RunnerInv, Step PROVE RunnerInv'
  OBVIOUS
<1>1. PICK n \in [Requests -> 0..MaxLen], preempt \in SUBSET {r \in Requests : sched[r].st = "running"} :
         /\ \A r \in Requests : MaySchedule(r, n[r])
         /\ \A r \in preempt : n[r] = 0
         /\ execute_model(n, preempt)
  BY DEF Step
<1>2. sched' = Scheduled(n, preempt) /\ UNCHANGED <<mode, truth, stale>> /\ Idle
  BY <1>1 DEF execute_model, Idle
<1>3. (flight' = Append(flight, NoOutput) /\ execute_model_state' = None) \/ flight' = flight
  BY <1>1, <1>2 DEF execute_model, Idle
<1>4. flight = <<>> \/ flight = <<flight[1]>>
  <2>1. Len(flight) <= 1
    BY DEF Step
  <2> QED BY <2>1, FewParts DEF RunnerInv, Few
<1>5. ASSUME NEW r \in Requests PROVE Served(flight', r, sched'[r], truth'[r])
  <2>1. Served(flight, r, sched[r], truth[r]) /\ IsRecord(sched[r])
    BY OneOfTheRequests
  <2>2. n[r] \in Nat /\ MaySchedule(r, n[r]) /\ (r \in preempt => sched[r].st = "running")
    <3>1. MaxLen \in Nat
      BY RunnerAssumption DEF RunnerAssumption, RunnerInv, MaxLen
    <3> QED BY <1>1, <3>1
  <2>3. Alike(sched[r], sched'[r])
    BY <1>2, <2>1, <2>2, ScheduledIsAlike
  <2>4. Served(flight, r, sched'[r], truth[r])
    BY <2>1, <2>3, AlikeServed
  <2>5. Served(Append(flight, NoOutput), r, sched'[r], truth[r])
    BY <1>4, <2>4, NoOutputBringsNothing, EmptyServed
  <2> QED BY <1>2, <1>3, <2>4, <2>5
<1>6. Few(flight') /\ (~Idle' => flight' = <<>> \/ flight' = <<flight'[1]>>)
  <2>1. CASE flight' = flight
    BY <1>4, <2>1 DEF Few
  <2>2. CASE flight' = Append(flight, NoOutput) /\ execute_model_state' = None
    BY <1>4, <2>2, FewAppend DEF Idle
  <2> QED BY <1>3, <2>1, <2>2
<1>7. mode' \in Modes /\ DOMAIN sched' = Requests /\ DOMAIN truth' = Requests /\ (mode'.last => stale' = {})
  BY <1>2 DEF RunnerInv, Scheduled
<1>8. execute_model_state' = None \/ execute_model_state'.expects = {r \in Requests : Samples(r, n[r])}
  BY <1>1, ExpectsIs DEF execute_model
<1>9. ASSUME NEW r \in Requests, Samples(r, n[r]) PROVE sched'[r].st # "done"
  <2>1. n[r] > 0
    BY <1>9 DEF Samples
  <2>2. sched[r].st # "done"
    BY <1>1, <2>1 DEF MaySchedule, Want
  <2>3. IsRecord(sched[r]) /\ n[r] \in Nat /\ MaySchedule(r, n[r]) /\ (r \in preempt => sched[r].st = "running")
    <3>1. MaxLen \in Nat
      BY RunnerAssumption DEF RunnerAssumption, RunnerInv, MaxLen
    <3> QED BY <1>1, <3>1, OneOfTheRequests
  <2> QED BY <1>2, <2>2, <2>3, ScheduledIsAlike DEF Alike
<1> QED BY <1>5, <1>6, <1>7, <1>8, <1>9 DEF RunnerInv, Idle

(* A row of the last step, and what it says, is a list of tokens.           *)
LEMMA RowIsThere ==
    ASSUME NEW reqs, NEW r, r \in ToSet(reqs)
    PROVE  RowOfRequest(reqs, r) \in DOMAIN reqs /\ reqs[RowOfRequest(reqs, r)] = r
BY DEF RowOfRequest, ToSet

LEMMA SampledTokens ==
    ASSUME RunnerInv, NEW e, NEW acc \in [DOMAIN e.reqs -> 0..num_spec_tokens], NEW i \in DOMAIN e.reqs,
           e.reqs[i] \in e.expects, e.reqs[i] \in Requests
    PROVE  _sample(e, acc)[i] \in Seq(Said)
<1> DEFINE r == e.reqs[i]
           m == acc[i] + 1
           l == Len(truth[r])
<1>1. m \in Nat /\ l \in Nat /\ r \in Nat /\ sched[r].ver \in Nat
  <2>1. acc[i] \in 0..num_spec_tokens /\ num_spec_tokens \in Nat /\ r \in Nat
    BY RunnerAssumption DEF RunnerAssumption
  <2>2. truth[r] \in Seq(Said) /\ sched[r].ver \in Nat
    BY OneOfTheRequests DEF IsRecord
  <2> QED BY <2>1, <2>2
<1>2. _sample(e, acc)[i] = [k \in 1..m |-> Token(r, l + k)]
  BY DEF _sample
<1> HIDE DEF m, l, r
<1>3. \A k \in 1..m : Token(r, l + k) \in Said
  BY <1>1 DEF Token, Said
<1>4. [k \in 1..m |-> Token(r, l + k)] \in Seq(Said)
  <2> HIDE DEF Said
  <2> QED BY <1>1, <1>3
<1> QED BY <1>2, <1>4

(* The rows that are dropped are those the scheduler expects nothing from:  *)
(* where the runner samples because the discards agree.                     *)
RowsDropped(e) == \A i \in DOMAIN e.reqs : i \in InvalidRows(e) <=> e.reqs[i] \notin e.expects
LEMMA RowsAreDropped ==
    ASSUME RunnerInv, DiscardsAgree, ~Idle
    PROVE  RowsDropped(execute_model_state)
<1>1. CASE mode.last
  <2>1. stale = {}
    BY <1>1 DEF RunnerInv
  <2> QED BY <1>1, <2>1 DEF DiscardsAgree, RowsAgree, RowsDropped, InvalidRows
<1>2. CASE ~mode.last
  BY <1>2 DEF RowsDropped, InvalidRows
<1> QED BY <1>1, <1>2

(* What a step samples is what its output brings.                           *)
LEMMA OutputBrings ==
    ASSUME RunnerInv, NEW e, NEW acc \in [DOMAIN e.reqs -> 0..num_spec_tokens], NEW r \in Requests, RowsDropped(e)
    PROVE  /\ Fits(Output(e, _sample(e, acc)), r)
           /\ BroughtTo(Output(e, _sample(e, acc)), r) =
                  IF r \in ToSet(e.reqs) \cap e.expects THEN _sample(e, acc)[RowOfRequest(e.reqs, r)] ELSE <<>>
<1> DEFINE toks == _sample(e, acc)
           o == Output(e, toks)
           i == RowOfRequest(e.reqs, r)
<1>1. o.reqs = e.reqs /\ o.toks = toks /\ o.invalid = InvalidRows(e) /\ o.owed = ToSet(e.reqs) /\ IsOutput(o)
  BY DEF Output, IsOutput
<1> HIDE DEF o, toks
<1>2. get_output(o) = [j \in DOMAIN e.reqs |-> IF j \in InvalidRows(e) THEN <<>> ELSE toks[j]]
  BY <1>1 DEF get_output
<1>3. ASSUME r \in ToSet(e.reqs)
      PROVE  Tokens(o, r) = (IF r \in e.expects THEN toks[i] ELSE <<>>) /\ Tokens(o, r) \in Seq(Said)
  <2>1. i \in DOMAIN e.reqs /\ e.reqs[i] = r
    BY <1>3, RowIsThere
  <2>2. Tokens(o, r) = get_output(o)[i]
    BY <1>1 DEF Tokens
  <2>3. i \in InvalidRows(e) <=> r \notin e.expects
    BY <2>1 DEF RowsDropped
  <2>4. r \in e.expects => toks[i] \in Seq(Said)
    BY <2>1, SampledTokens DEF toks
  <2> HIDE DEF i
  <2>5. Tokens(o, r) = IF r \in e.expects THEN toks[i] ELSE <<>>
    BY <1>2, <2>1, <2>2, <2>3
  <2>6. <<>> \in Seq(Said)
    OBVIOUS
  <2> QED BY <2>4, <2>5, <2>6
<1> HIDE DEF i
<1>4. Fits(o, r)
  BY <1>1, <1>3 DEF Fits
<1>5. BroughtTo(o, r) = IF r \in ToSet(e.reqs) \cap e.expects THEN toks[i] ELSE <<>>
  BY <1>1, <1>3 DEF BroughtTo
<1> QED BY <1>4, <1>5 DEF o, toks, i

LEMMA SampleServes == RunnerInv /\ DiscardsAgree /\ Sample => RunnerInv'
<1> SUFFICES ASSUME RunnerInv, DiscardsAgree, Sample PROVE RunnerInv'
  OBVIOUS
<1> DEFINE e == execute_model_state
<1>1. PICK acc \in [DOMAIN e.reqs -> 0..num_spec_tokens] : sample_tokens(acc)
  BY DEF Sample
<1> DEFINE toks == _sample(e, acc)
           o == Output(e, toks)
<1>2. /\ flight' = Append(flight, o) /\ execute_model_state' = None
      /\ truth' = [r \in Requests |-> IF r \in ToSet(e.reqs) \cap e.expects
                                      THEN truth[r] \o toks[RowOfRequest(e.reqs, r)] ELSE truth[r]]
      /\ UNCHANGED <<mode, sched, stale>>
  BY <1>1 DEF sample_tokens
<1>3. ~Idle /\ RowsDropped(e) /\ (flight = <<>> \/ flight = <<flight[1]>>)
  BY RowsAreDropped DEF Sample, RunnerInv
<1>4. ASSUME NEW r \in Requests PROVE Served(flight', r, sched'[r], truth'[r])
  <2> DEFINE b == BroughtTo(o, r)
             i == RowOfRequest(e.reqs, r)
  <2>1. Served(flight, r, sched[r], truth[r]) /\ truth[r] \in Seq(Said)
    BY OneOfTheRequests
  <2>2. Fits(o, r) /\ b = IF r \in ToSet(e.reqs) \cap e.expects THEN toks[i] ELSE <<>>
    BY <1>3, OutputBrings
  <2>3. sched[r].st = "done" => r \notin e.expects
    BY <1>3 DEF RunnerInv
  <2>4. truth[r] \o <<>> = truth[r]
    BY <2>1, ConcatEmptySeq
  <2>5. truth'[r] = IF r \in ToSet(e.reqs) \cap e.expects THEN truth[r] \o toks[i] ELSE truth[r]
    BY <1>2
  <2> HIDE DEF b, i, toks, e
  <2>6. truth'[r] = truth[r] \o b
    BY <2>2, <2>4, <2>5
  <2>7. Served(Append(flight, o), r, sched[r], truth[r] \o b)
    <3>1. sched[r].st = "done" => b = <<>>
      BY <2>2, <2>3
    <3> HIDE DEF o
    <3> QED BY <1>3, <2>1, <2>2, <3>1, SampleServed DEF b
  <2> HIDE DEF o
  <2> QED BY <1>2, <2>6, <2>7
<1>5. Few(flight') /\ Idle'
  <2> HIDE DEF o, e
  <2> QED BY <1>2, <1>3, FewAppend DEF Idle
<1>6. mode' \in Modes /\ DOMAIN sched' = Requests /\ DOMAIN truth' = Requests /\ (mode'.last => stale' = {})
  <2> HIDE DEF e, o, toks
  <2> QED BY <1>2 DEF RunnerInv
<1> QED BY <1>4, <1>5, <1>6 DEF RunnerInv

LEMMA DeliverServes == RunnerInv /\ Deliver => RunnerInv'
<1> SUFFICES ASSUME RunnerInv, Deliver PROVE RunnerInv'
  OBVIOUS
<1> DEFINE o == flight[1]
<1>1. flight # <<>> /\ Idle /\ flight' = Tail(flight) /\ UNCHANGED <<mode, truth, stale, execute_model_state>> /\ Few(flight)
  BY DEF Deliver, RunnerInv
<1>2. Few(flight') /\ Idle'
  <2>1. Tail(flight) = <<>> \/ Tail(flight) = <<flight[2]>>
    BY <1>1, FewParts DEF Few
  <2>2. Few(<<flight[2]>>) /\ Few(<<>>)
    BY DEF Few
  <2> QED BY <1>1, <2>1, <2>2 DEF Idle
<1>3. ASSUME NEW r \in Requests
      PROVE  /\ IsRecord(sched'[r]) /\ sched'[r].plen = sched[r].plen /\ sched'[r].st = sched[r].st
             /\ sched'[r].outputs = sched[r].outputs + Len(BroughtTo(o, r))
  <2> DEFINE z == sched'[r]
             b == BroughtTo(o, r)
             tokens == Tokens(o, r)
  <2>1. IsRecord(sched[r]) /\ Fits(o, r)
    <3>1. 1 \in DOMAIN flight
      BY <1>1, FewParts DEF Few
    <3> QED BY <3>1, OneOfTheRequests DEF Served
  <2>2. CASE r \in o.owed
    <3>1. PICK a, c, d : z = [sched[r] EXCEPT !.outputs = @ + Len(tokens), !.placeholders = a, !.computed = c, !.spec = d]
      BY <2>2 DEF Deliver, Tokens
    <3>2. b = tokens /\ tokens \in Seq(Said)
      BY <2>1, <2>2 DEF BroughtTo, Fits
    <3>3. Len(tokens) \in Nat
      <4> HIDE DEF tokens
      <4> QED BY <3>2
    <3> HIDE DEF z, tokens, b, o
    <3>4. /\ z.plen = sched[r].plen /\ z.st = sched[r].st
          /\ z.outputs = sched[r].outputs + Len(tokens) /\ IsRecord(z)
      BY <2>1, <3>1, <3>3 DEF IsRecord, Fields
    <3> QED BY <3>2, <3>4 DEF z, b
  <2>3. CASE r \notin o.owed
    <3>1. z = sched[r]
      BY <2>3 DEF Deliver
    <3>2. b = <<>>
      BY <2>3 DEF BroughtTo
    <3>3. sched[r].outputs + Len(<<>>) = sched[r].outputs
      BY <2>1 DEF IsRecord
    <3> HIDE DEF z, b, o
    <3> QED BY <2>1, <3>1, <3>2, <3>3 DEF z, b
  <2> QED BY <2>2, <2>3
<1>4. ASSUME NEW r \in Requests PROVE Served(flight', r, sched'[r], truth'[r])
  <2>1. Served(flight, r, sched[r], truth[r])
    BY OneOfTheRequests
  <2>2. Served(Tail(flight), r, sched'[r], truth[r])
    BY <1>1, <1>3, <2>1, DeliverServed
  <2> QED BY <1>1, <2>2
<1>5. mode' \in Modes /\ DOMAIN sched' = Requests /\ DOMAIN truth' = Requests /\ (mode'.last => stale' = {})
  BY <1>1 DEF RunnerInv, Deliver
<1> QED BY <1>2, <1>4, <1>5 DEF RunnerInv

(* What the scheduler does to one request leaves the others alone.          *)
LEMMA OthersStay ==
    ASSUME RunnerInv, NEW r \in Requests, NEW z, NEW u, Idle,
           sched' = [sched EXCEPT ![r] = z], truth' = [truth EXCEPT ![r] = u],
           UNCHANGED <<mode, execute_model_state>>, mode.last => stale' = {},
           flight' = flight \/ flight' = Without(flight, r), Served(flight', r, z, u)
    PROVE  RunnerInv'
<1>1. ASSUME NEW x \in Requests PROVE Served(flight', x, sched'[x], truth'[x])
  <2>1. CASE x = r
    BY <2>1 DEF RunnerInv
  <2>2. CASE x # r
    BY <2>2, OthersServed DEF RunnerInv
  <2> QED BY <2>1, <2>2
<1>2. Few(flight')
  <2>1. Few(flight)
    BY DEF RunnerInv
  <2>2. Few(Without(flight, r))
    BY <2>1, WithoutParts DEF Few
  <2> QED BY <2>1, <2>2
<1> QED BY <1>1, <1>2 DEF RunnerInv, Idle

LEMMA DisownedIs == ASSUME NEW r PROVE Disowned(r) = Without(flight, r)
BY DEF Disowned, Without

LEMMA ForcePreemptServes == ASSUME RunnerInv, NEW r \in Requests, ForcePreempt(r) PROVE RunnerInv'
<1> DEFINE s == sched[r]
           z == [s EXCEPT !.st = "preempted", !.ver = @ + 1, !.epoch = @ + 1, !.placeholders = 0,
                          !.computed = 0, !.spec = <<>>, !.blocks = 0]
           u == SubSeq(truth[r], 1, Known(r))
<1>1. /\ sched' = [sched EXCEPT ![r] = z] /\ truth' = [truth EXCEPT ![r] = u] /\ flight' = Without(flight, r)
      /\ UNCHANGED <<mode, execute_model_state>> /\ Idle
  BY DisownedIs DEF ForcePreempt
<1>2. Served(flight, r, s, truth[r]) /\ Held(r, s, truth[r]) /\ IsRecord(s) /\ Few(flight)
  BY OneOfTheRequests DEF RunnerInv
<1>3. IsRecord(z) /\ z.st # "done" /\ z.plen = s.plen /\ z.outputs = s.outputs
  <2> HIDE DEF s
  <2> QED BY <1>2 DEF IsRecord, Fields, Stages
<1>4. u \in Seq(Said) /\ Len(u) = z.plen + z.outputs
  <2> DEFINE k == Known(r)
  <2>1. k \in Nat /\ k <= Len(truth[r]) /\ truth[r] \in Seq(Said) /\ k = s.plen + s.outputs
    BY <1>2 DEF Known, Held, IsRecord
  <2> HIDE DEF k
  <2>2. SubSeq(truth[r], 1, k) \in Seq(Said) /\ Len(SubSeq(truth[r], 1, k)) = k
    BY <2>1
  <2> HIDE DEF z, s
  <2> QED BY <1>3, <2>1, <2>2 DEF k
<1>5. mode.last => stale' = {}
  BY DEF ForcePreempt, LeftStale, RunnerInv
<1> HIDE DEF z, u, s
<1>6. Held(r, z, u)
  BY <1>3, <1>4 DEF Held, IsRecord
<1>7. Served(flight', r, z, u)
  BY <1>1, <1>2, <1>4, <1>6, DroppedServed
<1> QED BY <1>1, <1>5, <1>7, OthersStay

LEMMA ResubmitServes == ASSUME RunnerInv, NEW r \in Requests, Resubmit(r) PROVE RunnerInv'
<1> DEFINE s == sched[r]
           z == [s EXCEPT !.st = "waiting", !.ver = @ + 1, !.epoch = @ + 1]
           u == Fresh(r, s.ver + 1)
<1>1. /\ sched' = [sched EXCEPT ![r] = z] /\ truth' = [truth EXCEPT ![r] = u] /\ s.st = "done"
      /\ UNCHANGED <<mode, flight, stale, execute_model_state>> /\ Idle
  BY DEF Resubmit
<1>2. Served(flight, r, s, truth[r]) /\ Held(r, s, truth[r]) /\ IsRecord(s) /\ mode \in Modes
  BY OneOfTheRequests DEF RunnerInv
<1>3. IsRecord(z) /\ z.st # "done" /\ z.plen = s.plen /\ z.outputs = s.outputs
  <2> HIDE DEF s
  <2> QED BY <1>2 DEF IsRecord, Fields, Stages
<1>4. s.plen = Prompt[r] /\ s.outputs = 0 /\ Len(truth[r]) = s.plen /\ s.plen \in Nat
  BY <1>1, <1>2 DEF Held, IsRecord
<1>5. u \in Seq(Said) /\ Len(u) = s.plen
  <2>1. s.ver + 1 \in Nat
    BY <1>2 DEF IsRecord
  <2> HIDE DEF s
  <2> QED BY <1>2, <1>4, <2>1, PromptLength
<1> HIDE DEF z, u, s
<1>6. Held(r, z, u)
  BY <1>3, <1>4, <1>5 DEF Held
<1>7. Unknown(z, u) = <<>> /\ Unknown(s, truth[r]) = <<>>
  BY <1>3, <1>4, <1>5 DEF Unknown
<1>8. Served(flight, r, z, u)
  BY <1>2, <1>6, <1>7 DEF Served
<1>9. mode.last => stale' = {}
  BY <1>1 DEF RunnerInv
<1> QED BY <1>1, <1>8, <1>9, OthersStay

LEMMA FinishServes == ASSUME RunnerInv, NEW r \in Requests, Finish(r) PROVE RunnerInv'
<1> DEFINE s == sched[r]
           z == [s EXCEPT !.st = "done", !.fin = TRUE, !.plen = Prompt[r], !.outputs = 0, !.placeholders = 0,
                          !.computed = 0, !.spec = <<>>, !.blocks = 0]
           u == Fresh(r, s.ver)
<1>1. /\ sched' = [sched EXCEPT ![r] = z] /\ truth' = [truth EXCEPT ![r] = u] /\ flight' = Without(flight, r)
      /\ UNCHANGED <<mode, stale, execute_model_state>> /\ Idle
  BY DisownedIs DEF Finish
<1>2. Served(flight, r, s, truth[r]) /\ IsRecord(s) /\ mode \in Modes /\ s.ver \in Nat /\ Few(flight)
  BY OneOfTheRequests DEF RunnerInv, IsRecord
<1>3. u \in Seq(Said) /\ Len(u) = Prompt[r] /\ Prompt[r] \in Nat
  BY <1>2, PromptLength
<1>4. IsRecord(z) /\ z.st = "done" /\ z.plen = Prompt[r] /\ z.outputs = 0
  <2> HIDE DEF s, u
  <2> QED BY <1>2, <1>3 DEF IsRecord, Fields, Stages
<1> HIDE DEF z, u, s
<1>5. Held(r, z, u) /\ Len(u) = z.plen + z.outputs
  BY <1>3, <1>4 DEF Held
<1>6. Served(flight', r, z, u)
  BY <1>1, <1>2, <1>5, DroppedServed
<1>7. mode.last => stale' = {}
  BY <1>1 DEF RunnerInv
<1> QED BY <1>1, <1>6, <1>7, OthersStay

LEMMA StreamServes == ASSUME RunnerInv, NEW r \in Requests, Stream(r) PROVE RunnerInv'
<1> DEFINE s == sched[r]
           t == truth[r]
           z == [s EXCEPT !.st = "streaming", !.plen = Known(r) + 1, !.outputs = 0, !.spec = <<>>]
           u == Append(t, Token(r, Known(r) + 1))
<1>1. /\ sched' = [sched EXCEPT ![r] = z] /\ truth' = [truth EXCEPT ![r] = u] /\ flight = <<>> /\ s.st = "running"
      /\ UNCHANGED <<mode, flight, stale, execute_model_state>> /\ Idle
  BY DEF Stream
<1>2. Served(flight, r, s, t) /\ Held(r, s, t) /\ IsRecord(s)
  BY OneOfTheRequests
<1>3. s.plen \in Nat /\ s.outputs \in Nat /\ s.ver \in Nat /\ t \in Seq(Said) /\ Known(r) = s.plen + s.outputs /\ Known(r) \in Nat
  BY <1>2 DEF Held, IsRecord, Known
<1>4. Len(t) = Known(r)
  <2>1. SubSeq(t, Known(r) + 1, Len(t)) = <<>> /\ Known(r) <= Len(t)
    BY <1>1, <1>2, <1>3 DEF Served, AllBrought, Unknown, Held
  <2> DEFINE k == Known(r)
  <2>2. Len(SubSeq(t, k + 1, Len(t))) = 0 /\ k \in Nat /\ k <= Len(t)
    BY <1>3, <2>1
  <2> HIDE DEF t, k
  <2>3. Len(t) \in Nat
    BY <1>3
  <2>4. k < Len(t) => Len(SubSeq(t, k + 1, Len(t))) = Len(t) - k
    BY <1>3, <2>2, <2>3
  <2> QED BY <2>2, <2>3, <2>4 DEF k
<1>5. Token(r, Known(r) + 1) \in Said
  BY <1>3, RunnerAssumption DEF Token, Said, RunnerAssumption
<1>6. u \in Seq(Said) /\ Len(u) = Known(r) + 1
  <2> DEFINE x == Token(r, Known(r) + 1)
  <2> HIDE DEF t, x
  <2> QED BY <1>3, <1>4, <1>5, AppendProperties DEF x
<1>7. IsRecord(z) /\ z.st = "streaming" /\ z.plen = Known(r) + 1 /\ z.outputs = 0
  <2> HIDE DEF s, u
  <2> QED BY <1>2, <1>3 DEF IsRecord, Fields, Stages
<1> HIDE DEF z, u, s, t
<1>8. Unknown(z, u) = <<>>
  BY <1>3, <1>6, <1>7 DEF Unknown
<1>9. Served(flight, r, z, u)
  BY <1>1, <1>3, <1>6, <1>7, <1>8 DEF Served, Held, AllBrought
<1>10. mode.last => stale' = {}
  BY <1>1 DEF RunnerInv
<1> QED BY <1>1, <1>9, <1>10, OthersStay

LEMMA RunnerInductive == RunnerInv /\ DiscardsAgree /\ [Next]_vars => RunnerInv'
<1> SUFFICES ASSUME RunnerInv, DiscardsAgree, [Next]_vars PROVE RunnerInv'
  OBVIOUS
<1>1. CASE UNCHANGED vars
  <2>1. UNCHANGED <<mode, sched, truth, flight, stale, execute_model_state>>
    BY <1>1 DEF vars
  <2> QED BY <2>1 DEF RunnerInv, Idle
<1>2. CASE Next
  BY <1>2, StepServes, SampleServes, DeliverServes, ForcePreemptServes, FinishServes, ResubmitServes, StreamServes DEF Next
<1> QED BY <1>1, <1>2

(* The invariant counts by cases what the property flattens.                *)
LEMMA FlattenIsAll ==
    ASSUME RunnerInv, NEW r \in Requests
    PROVE  FlattenSeq([k \in DOMAIN flight |-> Brought(flight[k], r)]) = AllBrought(flight, r)
<1> DEFINE s == [k \in DOMAIN flight |-> Brought(flight[k], r)]
           b(o) == BroughtTo(o, r)
<1>1. Few(flight)
  BY DEF RunnerInv
<1>2. ASSUME NEW k \in DOMAIN flight PROVE s[k] = b(flight[k])
  BY DEF Brought, BroughtTo, Tokens
<1>3. CASE flight = <<>>
  <2>1. DOMAIN flight = {}
    BY <1>1, <1>3, FewParts
  <2>2. s = <<>>
    BY <2>1
  <2> HIDE DEF s
  <2>3. Len(s) = 0
    BY <2>2
  <2> QED BY <1>3, <2>2, <2>3, FlattenNone DEF AllBrought, s
<1>4. CASE flight = <<flight[1]>>
  <2>1. DOMAIN flight = {1} /\ flight # <<>>
    BY <1>1, <1>4, FewParts
  <2> DEFINE x == b(flight[1])
  <2>2. s[1] = x /\ DOMAIN s = {1}
    BY <1>2, <2>1
  <2>3. s = [k \in DOMAIN s |-> s[k]]
    OBVIOUS
  <2>4. AllBrought(flight, r) = x
    BY <1>4, <2>1 DEF AllBrought
  <2> HIDE DEF s, x
  <2>5. s = <<x>>
    BY <2>2, <2>3
  <2> QED BY <2>4, <2>5, FlattenOne DEF s
<1>5. CASE flight = <<flight[1], flight[2]>>
  <2>1. DOMAIN flight = {1, 2} /\ flight # <<>> /\ flight # <<flight[1]>>
    BY <1>1, <1>5, FewParts
  <2> DEFINE x == b(flight[1])
             y == b(flight[2])
  <2>2. s[1] = x /\ s[2] = y /\ DOMAIN s = {1, 2}
    BY <1>2, <2>1
  <2>3. s = [k \in DOMAIN s |-> s[k]]
    OBVIOUS
  <2>4. AllBrought(flight, r) = x \o y
    BY <2>1 DEF AllBrought
  <2> HIDE DEF s, x, y
  <2>5. s = <<x, y>>
    BY <2>2, <2>3
  <2> QED BY <2>4, <2>5, FlattenTwo DEF s
<1> QED BY <1>1, <1>3, <1>4, <1>5 DEF Few

(* For any requests, modes, schedules and accepted drafts: if in every step *)
(* the rows a rank drops are those the scheduler expects nothing from, then *)
(* the outputs under way bring each request exactly the tokens the          *)
(* scheduler does not know yet, through preemptions, aborts, reused         *)
(* identifiers and streaming (get_output, lines 252-343; execute_model).    *)
THEOREM OutputsReach == Spec /\ []DiscardsAgree => []OutputsReachTheirRequest
<1>1. RunnerInv => OutputsReachTheirRequest
  <2> SUFFICES ASSUME RunnerInv, NEW r \in Requests
               PROVE  FlattenSeq([k \in DOMAIN flight |-> Brought(flight[k], r)]) = SubSeq(truth[r], Known(r) + 1, Len(truth[r]))
    BY DEF OutputsReachTheirRequest
  <2>1. AllBrought(flight, r) = SubSeq(truth[r], Known(r) + 1, Len(truth[r]))
    BY OneOfTheRequests DEF Served, Unknown, Known
  <2> QED BY <2>1, FlattenIsAll
<1> QED BY <1>1, InitServes, RunnerInductive, PTL DEF Spec
=============================================================================
