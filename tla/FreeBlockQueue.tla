--------------------------- MODULE FreeBlockQueue ---------------------------
(***************************************************************************)
(* FreeKVCacheBlockQueue of vllm_v1_core_kv_cache_utils.py: the free       *)
(* blocks as a doubly linked list between two fake blocks.  Every method   *)
(* is the relinking of one chain of blocks, so each is stated by the chain *)
(* it builds.  A generator of iter_blocks_after may stay suspended while   *)
(* the list changes.                                                       *)
(***************************************************************************)
EXTENDS Naturals, FiniteSets, Sequences, SequencesExt

CONSTANTS num_blocks, \* the pool hands the blocks 0 .. num_blocks-1 to the queue
          fake_head,  \* fake_free_list_head
          fake_tail,  \* fake_free_list_tail
          None

Blocks == 0..num_blocks-1

ASSUME FreeBlockQueueAssumption ==
    /\ num_blocks \in Nat
    /\ fake_head \notin Blocks /\ fake_tail \notin Blocks /\ None \notin Blocks
    /\ fake_head # fake_tail /\ fake_head # None /\ fake_tail # None

VARIABLES next,      \* next_free_block of every block and of the fake ones
          prev,      \* prev_free_block
          num_free_blocks,
          moved,     \* what the last call handed out or was given
          cursor,    \* the block a suspended iter_blocks_after yielded last
          out        \* the blocks the callers hold

vars == <<next, prev, num_free_blocks, moved, cursor, out>>

Nodes == Blocks \cup {fake_head, fake_tail}

(* the links after the blocks of chain were connected in that order and the *)
(* blocks of gone had their links reset                                     *)
After(x, chain) == CHOOSE y \in Nodes : \E i \in 1..Len(chain)-1 : chain[i] = x /\ chain[i+1] = y
Before(y, chain) == CHOOSE x \in Nodes : \E i \in 1..Len(chain)-1 : chain[i] = x /\ chain[i+1] = y
(* mutants: the links of a block that leaves stay; only forward links are made *)
RelinkKeepingLinks(chain, gone) ==
    /\ next' = [x \in Nodes |-> IF x \in ToSet(Front(chain)) THEN After(x, chain) ELSE next[x]]
    /\ prev' = [x \in Nodes |-> IF x \in ToSet(Tail(chain)) THEN Before(x, chain) ELSE prev[x]]
RelinkForward(chain, gone) ==
    /\ next' = [x \in Nodes |-> IF x \in gone THEN None
                                ELSE IF x \in ToSet(Front(chain)) THEN After(x, chain) ELSE next[x]]
    /\ prev' = [x \in Nodes |-> IF x \in gone THEN None ELSE prev[x]]

Relink(chain, gone) ==
    /\ next' = [x \in Nodes |-> IF x \in gone THEN None
                                ELSE IF x \in ToSet(Front(chain)) THEN After(x, chain) ELSE next[x]]
    /\ prev' = [x \in Nodes |-> IF x \in gone THEN None
                                ELSE IF x \in ToSet(Tail(chain)) THEN Before(x, chain) ELSE prev[x]]

(* the node reached from the first one after n steps                        *)
NextOf(x) == IF x = None THEN None ELSE next[x]
Nth[n \in 0..num_blocks] == IF n = 0 THEN next[fake_head] ELSE NextOf(Nth[n-1])

(* get_all_free_blocks: from the first block until next_free_block is None  *)
Walked == {n \in 0..num_blocks : NextOf(Nth[n]) # None}
get_all_free_blocks == [i \in 1..Cardinality(Walked) |-> Nth[i-1]]

(* the first n blocks of the list *)
FirstBlocks(n) == {Nth[i] : i \in 0..n-1}

----------------------------------------------------------------------------
Ids == [i \in 1..num_blocks |-> i-1]

Init ==
    LET chain == <<fake_head>> \o Ids \o <<fake_tail>>
    IN  /\ next = [x \in Nodes |-> IF x = fake_tail THEN None ELSE After(x, chain)]
        /\ prev = [x \in Nodes |-> IF x = fake_head THEN None ELSE Before(x, chain)]
        /\ num_free_blocks = num_blocks
        /\ moved = <<>> /\ cursor = None /\ out = {}

Hands(s) == moved' = s /\ out' = out \cup ToSet(s)
Takes(s) == moved' = s /\ out' = out \ ToSet(s)

(* popleft raises ValueError on an empty list *)
popleft ==
    LET first == next[fake_head]
    IN  /\ first # fake_tail /\ first # None /\ next[first] # None
        /\ Relink(<<fake_head, next[first]>>, {first})
        /\ num_free_blocks' = num_free_blocks - 1
        /\ Hands(<<first>>)
        /\ UNCHANGED cursor

popleft_n(n) ==
    /\ n > 0 /\ num_free_blocks >= n
    /\ num_free_blocks' = num_free_blocks - n
    /\ Hands([i \in 1..n |-> Nth[i - 1]])
    /\ Relink(<<fake_head, Nth[n]>>, FirstBlocks(n))
    /\ UNCHANGED cursor

remove(b) ==
    /\ prev[b] # None /\ next[b] # None
    /\ Relink(<<prev[b], next[b]>>, {b})
    /\ num_free_blocks' = num_free_blocks - 1
    /\ Hands(<<b>>)
    /\ UNCHANGED cursor

append(b) ==
    /\ Relink(<<prev[fake_tail], b, fake_tail>>, {})
    /\ num_free_blocks' = num_free_blocks + 1
    /\ Takes(<<b>>)
    /\ UNCHANGED cursor

append_n(s) ==
    /\ s # <<>>
    /\ Relink(<<prev[fake_tail]>> \o s \o <<fake_tail>>, {})
    /\ num_free_blocks' = num_free_blocks + Len(s)
    /\ Takes(s)
    /\ UNCHANGED cursor

(* mutant: the blocks are put in front one after the other *)
prepend_each(s) ==
    /\ s # <<>>
    /\ Relink(<<fake_head>> \o Reverse(s) \o <<next[fake_head]>>, {})
    /\ num_free_blocks' = num_free_blocks + Len(s)
    /\ Takes(s)
    /\ UNCHANGED cursor

prepend_n(s) ==
    /\ s # <<>>
    /\ Relink(<<fake_head>> \o s \o <<next[fake_head]>>, {})
    /\ num_free_blocks' = num_free_blocks + Len(s)
    /\ Takes(s)
    /\ UNCHANGED cursor

(* iter_blocks_after(c): a generator is opened, then resumed; it ends at    *)
(* the fake tail or at a block whose links were reset meanwhile.            *)
Resume(at) ==
    /\ cursor' = IF at \in {None, fake_tail} THEN None ELSE at
    /\ UNCHANGED <<next, prev, num_free_blocks, moved, out>>
iter_blocks_after(c) == cursor = None /\ Resume(IF c = None THEN next[fake_head] ELSE next[c])
ResumeIter == cursor # None /\ Resume(next[cursor])

(* the blocks callers may hand back are the ones they hold *)
Lists == UNION {{s \in [1..n -> out] : IsInjective(s)} : n \in 1..Cardinality(out)}

Next ==
    \/ popleft
    \/ \E n \in 1..num_blocks : popleft_n(n)
    \/ \E b \in Blocks : remove(b)
    \/ \E b \in out : append(b)
    \/ \E s \in Lists : append_n(s) \/ prepend_n(s)
    \/ \E c \in Blocks \cup {None} : iter_blocks_after(c)
    \/ ResumeIter

Spec == Init /\ [][Next]_vars

----------------------------------------------------------------------------
TypeOK ==
    /\ next \in [Nodes -> Nodes \cup {None}] /\ prev \in [Nodes -> Nodes \cup {None}]
    /\ num_free_blocks \in 0..num_blocks
    /\ moved \in Seq(Blocks) /\ cursor \in Blocks \cup {None} /\ out \subseteq Blocks

(* The two directions of the list agree, a block a caller holds has no      *)
(* links left, and the counter is the length of the walk: a relinking that  *)
(* forgets one end of one of its chains shows here, whatever call follows.  *)
LinksAgree ==
    /\ \A x \in Nodes : next[x] # None => prev[next[x]] = x
    /\ \A x \in Nodes : prev[x] # None => next[prev[x]] = x
    /\ \A b \in out : next[b] = None /\ prev[b] = None
    /\ num_free_blocks = Len(get_all_free_blocks)

(* Every call takes, and returns in eviction order, the blocks that the     *)
(* queue without links says (docstring of FreeKVCacheBlockQueue): the       *)
(* linked list implements it.                                               *)
Abstract == INSTANCE FreeQueue WITH queue <- get_all_free_blocks
ImplementsQueue == Abstract!Spec

(* A generator suspended over any number of calls never yields a block that *)
(* is not free when it is resumed.                                          *)
IterYieldsFree == [][cursor' # cursor /\ cursor' # None => cursor' \notin out]_vars
=============================================================================
