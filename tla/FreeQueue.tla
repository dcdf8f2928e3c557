----------------------------- MODULE FreeQueue -----------------------------
(***************************************************************************)
(* What FreeKVCacheBlockQueue promises, without its links: the free blocks *)
(* stand in one sequence, are taken from the front or from the middle, and *)
(* come back at either end.  Nothing is lost and nothing is there twice.   *)
(***************************************************************************)
EXTENDS Naturals, FiniteSets, Sequences, SequencesExt

CONSTANT num_blocks

Blocks == 0..num_blocks-1

VARIABLES queue,    \* the free blocks in eviction order
          out,      \* the blocks the callers hold
          moved     \* the blocks the last call handed out or was given, in this order

(* the lists of distinct blocks callers can hand over *)
Lists(S) == UNION {{s \in [1..n -> S] : IsInjective(s)} : n \in 1..Cardinality(S)}

Init == queue = [i \in 1..num_blocks |-> i-1] /\ out = {} /\ moved = <<>>

Take(n) ==
    /\ n \in 1..Len(queue)
    /\ queue' = SubSeq(queue, n + 1, Len(queue))
    /\ moved' = SubSeq(queue, 1, n)
    /\ out' = out \cup ToSet(moved')

TakeOut(b) ==
    /\ moved' = <<b>>
    /\ out' = out \cup {b}
    /\ \E i \in DOMAIN queue : queue[i] = b /\ queue' = RemoveAt(queue, i)

GiveBack(s, q) == moved' = s /\ out' = out \ ToSet(s) /\ queue' = q
PutBack(s) == GiveBack(s, queue \o s)
PutInFront(s) == GiveBack(s, s \o queue)

Next ==
    \/ \E n \in 1..Len(queue) : Take(n)
    \/ \E b \in Blocks : TakeOut(b)
    \/ \E s \in Lists(out) : PutBack(s) \/ PutInFront(s)

Spec == Init /\ [][Next]_<<queue, out, moved>>
=============================================================================
