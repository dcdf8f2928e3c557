--------------------------- MODULE KVCacheManager ---------------------------
(***************************************************************************)
(* vllm_v1_core_kv_cache_manager.py over the block pool: prefix-cache hits *)
(* of an arriving request, allocation of slots for every step, freeing,    *)
(* preemption, and KV loads from a remote side.  The scheduler that calls  *)
(* the manager and the coordinator below it are not in src/: the first is  *)
(* every order of calls the manager's docstrings allow, the second is one  *)
(* attention group, as allocate_slots uses it.                             *)
(***************************************************************************)
EXTENDS BlockPool, FiniteSetsExt

CONSTANTS Requests,
          Text,              \* the tokens a request ends up with
          Prompt,            \* how many of them it starts with
          max_model_len,
          watermark_blocks,
          Window,            \* sliding window in tokens; at least max_model_len means none
          MaxStep,           \* bound: tokens of one step
          MaxDrafts,         \* bound: draft tokens of one step
          MaxFlight          \* bound: steps of a request not yet processed

ASSUME KVCacheManagerAssumption ==
    /\ max_model_len \in Nat /\ watermark_blocks \in Nat /\ Window \in Nat \ {0}
    /\ MaxStep \in Nat /\ MaxDrafts \in Nat /\ MaxFlight \in Nat
    /\ IsFiniteSet(Requests) /\ Groups = {0}
    /\ \A r \in Requests : Text[r] \in Tokens /\ Prompt[r] \in 1..Len(Text[r])
                           /\ Len(Text[r]) <= max_model_len

VARIABLES pool,
          req,       \* what scheduler and coordinator keep of a request
          scheduled, \* running requests that the step being put together has scheduled
          popped,    \* blocks given to the caller of pop_blocks_for_free
          content    \* history: the prefix whose tokens fill each block

vars == <<pool, req, scheduled, popped, content>>

Group == 0
cdiv(n, d) == (n + d - 1) \div d
Least(a, b) == IF a < b THEN a ELSE b
AtLeast0(n) == IF n < 0 THEN 0 ELSE n

NewRequest(r) == [status |-> "waiting", computed |-> 0, num_tokens |-> Prompt[r],
                  flight |-> <<>>, blocks |-> <<>>, cached |-> 0]

in_flight(q) == LET upto[i \in 0..Len(q.flight)] == IF i = 0 THEN 0 ELSE upto[i-1] + q.flight[i].n
                IN  upto[Len(q.flight)]
HasBlocks(r) == req[r].blocks # <<>>
Running == {r \in Requests : req[r].status = "running"}

----------------------------------------------------------------------------
(* The coordinator, for one group.                                          *)

(* find_longest_cache_hit: whole blocks from the start, max_length at most  *)
Hits(p, t, n) == \A i \in 1..n : get_one_block(p, FullKey(t, i, Group)) # None
find_longest_cache_hit(p, t, max_length) ==
    LET n == Max({m \in 0..(max_length \div block_size) : m * block_size <= Len(t) /\ Hits(p, t, m)})
    IN  [i \in 1..n |-> get_one_block(p, FullKey(t, i, Group))]

(* a hit on a free block takes it from the free list, so it counts as well  *)
get_num_blocks_to_allocate(p, q, num_tokens, hit) ==
    AtLeast0(cdiv(num_tokens, block_size) - Len(q.blocks) - Len(hit))
    + Cardinality({i \in DOMAIN hit : p.ref[hit[i]] = 0})

(* remove_skipped_blocks: what lies before the window of the next token     *)
NumSkipped(processed) == AtLeast0(processed - Window + 1) \div block_size
Skipped(q, processed) ==
    Filter(Reverse(SubSeq(q.blocks, 1, Least(NumSkipped(processed), Len(q.blocks)))), Blocks \ {null_block})
WithoutSkipped(q, processed) ==
    [q EXCEPT !.blocks = [i \in DOMAIN @ |-> IF i <= NumSkipped(processed) THEN null_block ELSE @[i]]]

(* new blocks until the table holds num_tokens *)
Missing(q, num_tokens) == AtLeast0(cdiv(num_tokens, block_size) - Len(q.blocks))
Grow(p, q, num_tokens) ==
    [p |-> get_new_blocks(p, Missing(q, num_tokens)),
     q |-> [q EXCEPT !.blocks = @ \o new_blocks(p, Missing(q, num_tokens))]]

(* cache_blocks: the full blocks that were not entered before               *)
cache_blocks(p, q, t, num_tokens) ==
    LET full == num_tokens \div block_size
    IN  [p |-> cache_full_blocks(p, t, q.blocks, q.cached, full, Group, q.cached+1..full),
         q |-> [q EXCEPT !.cached = IF @ < full THEN full ELSE @]]

----------------------------------------------------------------------------
(* get_computed_blocks: the last token is always computed again             *)
get_computed_blocks(p, r) == find_longest_cache_hit(p, Text[r], req[r].num_tokens - 1)

(* allocate_slots.  a holds its arguments: new tokens, cache hits, external *)
(* tokens, lookahead, reserved blocks, whether the whole sequence must fit  *)
(* and whether caching is delayed.                                          *)
LocalComputed(r, a) == req[r].computed + Len(a.hit) * block_size
TotalComputed(r, a) == Least(LocalComputed(r, a) + a.ext, max_model_len)
(* the argument has_scheduled_reqs is whether the step has scheduled one    *)
(* mutants of Watermark: it is not kept, or kept from a lone request too    *)
NoWatermark(r) == 0
AlwaysWatermark(r) == watermark_blocks
Watermark(r) ==
    IF scheduled # {} /\ req[r].status \in {"waiting", "preempted"} THEN watermark_blocks ELSE 0

FullSequenceFits(r, a) ==
    get_num_blocks_to_allocate(pool, req[r], Least(req[r].num_tokens, max_model_len), a.hit) + Watermark(r)
        <= get_num_free_blocks(pool)

(* on the processed-token basis: steps in flight still read their windows   *)
(* mutant: what was computed counts as processed                            *)
ComputedAsProcessed(r, a) == TotalComputed(r, a)
Processed(r, a) == AtLeast0(TotalComputed(r, a) - in_flight(req[r]))

(* what is left after the early steps, which happen even if it then fails   *)
Trimmed(r, a) == [p |-> free_blocks(pool, Skipped(req[r], Processed(r, a))),
                  q |-> WithoutSkipped(req[r], Processed(r, a))]

NeedSlot(r, a) == Least(TotalComputed(r, a) + a.new + a.lookahead, max_model_len)

SlotsFit(r, a) ==
    LET s == Trimmed(r, a)
    IN  get_num_blocks_to_allocate(s.p, s.q, NeedSlot(r, a), a.hit) + Watermark(r)
            <= get_num_free_blocks(s.p) - a.reserved

Admits(r, a) == (a.must_fit => FullSequenceFits(r, a)) /\ SlotsFit(r, a)

(* allocate_new_computed_blocks: the hits are touched, external tokens get  *)
(* blocks of their own                                                      *)
(* mutant: the hits are not referenced                                      *)
WithUntouched(r, a, s) ==
    LET q == [s.q EXCEPT !.blocks = @ \o a.hit, !.cached = IF a.hit = <<>> THEN @ ELSE Len(a.hit)]
    IN  Grow(s.p, q, IF a.ext = 0 THEN 0 ELSE LocalComputed(r, a) + a.ext)

WithComputed(r, a, s) ==
    LET q == [s.q EXCEPT !.blocks = @ \o a.hit, !.cached = IF a.hit = <<>> THEN @ ELSE Len(a.hit)]
    IN  Grow(touch(s.p, a.hit), q, IF a.ext = 0 THEN 0 ELSE LocalComputed(r, a) + a.ext)

ToCache(r, a) == Least(TotalComputed(r, a) + a.new, req[r].num_tokens)

(* mutant: what a remote side is to fill is cached at once                  *)
CachedAtOnce(r, a) ==
    LET computed == WithComputed(r, a, Trimmed(r, a))
        grown == Grow(computed.p, computed.q, NeedSlot(r, a))
    IN  cache_blocks(grown.p, grown.q, Text[r], ToCache(r, a))

Allocated(r, a) ==
    LET computed == WithComputed(r, a, Trimmed(r, a))
        grown == Grow(computed.p, computed.q, NeedSlot(r, a))
    IN  IF a.delay THEN grown ELSE cache_blocks(grown.p, grown.q, Text[r], ToCache(r, a))

----------------------------------------------------------------------------
(* the tokens of r up to n now stand in its blocks; what a block without    *)
(* holder and hash contains is forgotten                                    *)
Filled(c, r, blocks, n) ==
    [b \in Blocks |->
        LET at == {i \in DOMAIN blocks : blocks[i] = b}
        IN  IF b = null_block \/ at = {} THEN c[b]
            ELSE IF (Max(at) - 1) * block_size >= n THEN <<>>
            ELSE Hash(Text[r], Least(Max(at) * block_size, n))]
Kept(c, p) == [b \in Blocks |-> IF p.ref[b] = 0 /\ p.hash[b] = None THEN <<>> ELSE c[b]]

Init ==
    /\ pool = NewPool /\ req = [r \in Requests |-> NewRequest(r)] /\ scheduled = {}
    /\ popped = [r \in Requests |-> <<>>] /\ content = [b \in Blocks |-> <<>>]

Arguments(new, hit, ext, lookahead, reserved, must_fit, delay) ==
    [new |-> new, hit |-> hit, ext |-> ext, lookahead |-> lookahead, reserved |-> reserved,
     must_fit |-> must_fit, delay |-> delay]

(* allocate_slots succeeded and the step is put in flight; its d drafts are *)
(* not verified, and it samples when it reaches the last token.             *)
Launch(r, a, d) ==
    LET s == Allocated(r, a)
        computed == TotalComputed(r, a) + a.new
        samples == computed - d >= req[r].num_tokens
    IN  /\ Admits(r, a)
        /\ pool' = s.p
        /\ req' = [req EXCEPT ![r] = [s.q EXCEPT !.status = "running", !.computed = computed,
                                                 !.flight = Append(@, [n |-> a.new, drafts |-> d, samples |-> samples])]]
        /\ scheduled' = scheduled \cup {r}
        /\ content' = Kept(Filled(content, r, s.q.blocks, Least(computed, req[r].num_tokens)), s.p)
        /\ UNCHANGED popped

HitOf(r) == IF req[r].computed = 0 THEN get_computed_blocks(pool, r) ELSE <<>>

ScheduleWaiting(r, n, must_fit) ==
    /\ req[r].status \in {"waiting", "preempted"}
    /\ LET a == Arguments(n, HitOf(r), 0, 0, 0, must_fit, FALSE)
       IN  LocalComputed(r, a) + n <= req[r].num_tokens /\ Launch(r, a, 0)

(* a prefill chunk, or the next token and d drafts; a step schedules a      *)
(* request once                                                             *)
RunArguments(n, d) == Arguments(n + d, <<>>, 0, d, 0, FALSE, FALSE)
MayRun(r, n, d) ==
    /\ req[r].status = "running" /\ r \notin scheduled /\ Len(req[r].flight) < MaxFlight
    /\ req[r].computed + n + d <= Len(Text[r])
    /\ IF req[r].computed < req[r].num_tokens
       THEN req[r].computed + n <= req[r].num_tokens
            /\ (d > 0 => req[r].computed + n = req[r].num_tokens)
       ELSE n = 1
ScheduleRunning(r, n, d) == MayRun(r, n, d) /\ Launch(r, RunArguments(n, d), d)

(* allocate_slots returned None: what it trimmed stays trimmed, and the     *)
(* scheduler preempts a running request, freeing its blocks tail first.     *)
Free(p, blocks) == free_blocks(p, Reverse(blocks))
Preempt(r, n, d, victim) ==
    LET a == RunArguments(n, d)
        s == Trimmed(r, a)
        trimmed == [req EXCEPT ![r] = s.q]
    IN  /\ MayRun(r, n, d) /\ ~Admits(r, a) /\ victim \in Running
        /\ pool' = Free(s.p, trimmed[victim].blocks)
        /\ req' = [trimmed EXCEPT ![victim] = [NewRequest(victim) EXCEPT !.status = "preempted",
                                                                         !.num_tokens = trimmed[victim].num_tokens]]
        /\ scheduled' = scheduled \ {victim}
        /\ content' = Kept(content, pool')
        /\ UNCHANGED popped

(* the same for a waiting request, which just stays waiting; the gate for   *)
(* the full sequence returns before anything is trimmed                     *)
StayWaiting(r, n, must_fit) ==
    LET a == Arguments(n, <<>>, 0, 0, 0, must_fit, FALSE)
        s == Trimmed(r, a)
    IN  /\ req[r].status = "waiting" /\ HasBlocks(r) /\ req[r].computed + n <= req[r].num_tokens
        /\ must_fit => FullSequenceFits(r, a)
        /\ ~SlotsFit(r, a)
        /\ pool' = s.p /\ req' = [req EXCEPT ![r] = s.q]
        /\ content' = Kept(content, pool')
        /\ UNCHANGED <<scheduled, popped>>

(* the step is put together, and the next one begins                        *)
EndStep == scheduled # {} /\ scheduled' = {} /\ UNCHANGED <<pool, req, popped, content>>

(* the oldest step of r is processed; rejected drafts roll it back          *)
StepDone(r, rejected) ==
    LET s == Head(req[r].flight)
        known == IF s.samples THEN Least(req[r].num_tokens + s.drafts - rejected + 1, Len(Text[r]))
                 ELSE req[r].num_tokens
    IN  /\ req[r].flight # <<>> /\ rejected <= s.drafts
        /\ req' = [req EXCEPT ![r].flight = Tail(@), ![r].computed = @ - rejected, ![r].num_tokens = known]
        /\ UNCHANGED <<pool, scheduled, popped, content>>

(* a remote side will fill the blocks of ext more tokens: they are not      *)
(* entered in the cache until they have arrived.                            *)
StartLoad(r, ext, reserved) ==
    LET hit == get_computed_blocks(pool, r)
        a == Arguments(0, hit, ext, 0, reserved, FALSE, TRUE)
        s == Allocated(r, a)
    IN  /\ req[r].status = "waiting" /\ req[r].computed = 0
        /\ LocalComputed(r, a) + ext < req[r].num_tokens
        /\ Admits(r, a)
        /\ pool' = s.p
        /\ req' = [req EXCEPT ![r] = [s.q EXCEPT !.status = "loading", !.computed = TotalComputed(r, a)]]
        /\ content' = Kept(Filled(content, r, s.q.blocks, LocalComputed(r, a)), s.p)
        /\ UNCHANGED <<scheduled, popped>>

(* valid tokens have arrived, all of them or what a failed load left        *)
LoadDone(r, valid) ==
    LET s == cache_blocks(pool, req[r], Text[r], valid)
    IN  /\ req[r].status = "loading"
        /\ valid \in req[r].cached * block_size..req[r].computed /\ valid > 0
        /\ pool' = s.p
        /\ req' = [req EXCEPT ![r] = [s.q EXCEPT !.status = "waiting", !.computed = valid]]
        /\ content' = Kept(Filled(content, r, req[r].blocks, valid), s.p)
        /\ UNCHANGED <<scheduled, popped>>

FreeRequest(r) ==
    /\ req[r].status = "running"
    /\ pool' = Free(pool, req[r].blocks)
    /\ req' = [req EXCEPT ![r] = [@ EXCEPT !.status = "done", !.flight = <<>>, !.blocks = <<>>, !.cached = 0]]
    /\ scheduled' = scheduled \ {r}
    /\ content' = Kept(content, pool')
    /\ UNCHANGED popped

(* the blocks leave the table but stay referenced until the caller frees    *)
pop_blocks_for_free(r) ==
    /\ req[r].status = "running"
    /\ popped' = [popped EXCEPT ![r] = req[r].blocks]
    /\ req' = [req EXCEPT ![r] = [@ EXCEPT !.status = "done", !.flight = <<>>, !.blocks = <<>>, !.cached = 0]]
    /\ scheduled' = scheduled \ {r}
    /\ UNCHANGED <<pool, content>>

FreePopped(r) ==
    /\ popped[r] # <<>>
    /\ pool' = Free(pool, popped[r])
    /\ popped' = [popped EXCEPT ![r] = <<>>]
    /\ content' = Kept(content, pool')
    /\ UNCHANGED <<req, scheduled>>

Uncache(p) == pool' = p /\ content' = Kept(content, p) /\ UNCHANGED <<req, scheduled, popped>>
EvictBlock(b) == Uncache(evict_blocks(pool, {b}))
ResetPrefixCache == Uncache(reset_prefix_cache(pool))

Next ==
    \/ \E r \in Requests, n \in 1..MaxStep, must_fit \in BOOLEAN :
           ScheduleWaiting(r, n, must_fit) \/ StayWaiting(r, n, must_fit)
    \/ \E r \in Requests, n \in 1..MaxStep, d \in 0..MaxDrafts : ScheduleRunning(r, n, d)
    \/ \E r, v \in Requests, n \in 1..MaxStep, d \in 0..MaxDrafts : Preempt(r, n, d, v)
    \/ \E r \in Requests, d \in 0..MaxDrafts : StepDone(r, d)
    \/ \E r \in Requests, ext \in 1..MaxStep, reserved \in 0..1 : StartLoad(r, ext, reserved)
    \/ \E r \in Requests, valid \in 1..MaxStep : LoadDone(r, valid)
    \/ \E r \in Requests : FreeRequest(r) \/ pop_blocks_for_free(r) \/ FreePopped(r)
    \/ \E b \in Blocks : EvictBlock(b)
    \/ ResetPrefixCache
    \/ EndStep

Spec == Init /\ [][Next]_vars

----------------------------------------------------------------------------
Statuses == {"waiting", "running", "preempted", "loading", "done"}

TypeOK ==
    /\ pool.free \in Seq(Blocks) /\ pool.hash \in [Blocks -> Keys \cup {None}]
    /\ DOMAIN req = Requests /\ scheduled \subseteq Running
    /\ \A r \in Requests :
        /\ req[r].status \in Statuses /\ req[r].blocks \in Seq(Blocks) /\ popped[r] \in Seq(Blocks)
        /\ req[r].computed \in 0..max_model_len /\ req[r].num_tokens \in Prompt[r]..Len(Text[r])
        /\ req[r].cached \in 0..Len(req[r].blocks) /\ Len(req[r].flight) <= MaxFlight

(* Through admission, preemption, failed allocations, loads and deferred    *)
(* frees, a block is referenced once by every table or deferred list that   *)
(* holds it, and it is free exactly when none does.                         *)
Holders(b) == {r \in Requests : b \in ToSet(req[r].blocks)}
Deferred(b) == {r \in Requests : b \in ToSet(popped[r])}
RefsAreHolders ==
    /\ IsFreeListExact(pool)
    /\ \A b \in Blocks \ {null_block} : pool.ref[b] = Cardinality(Holders(b)) + Cardinality(Deferred(b))

(* A request whose prefix hits reads blocks filled with that very prefix,   *)
(* although blocks are entered when their step is only scheduled: none of   *)
(* its tokens is a draft that may be rejected or one that a remote side has *)
(* not delivered (NOTE at the end of allocate_slots, delay_cache_blocks),   *)
(* and no other request has written into a block that is still entered.     *)
HitsServeTheirPrefix == ServesItsPrefix(pool, content)

(* No block a step in flight or the next step of r attends to was trimmed:  *)
(* the rejection of drafts can move the window back (comment before the     *)
(* call of remove_skipped_blocks).                                          *)
WindowIsBacked ==
    \A r \in Running :
        LET q == req[r]
        IN  \A i \in NumSkipped(q.computed - in_flight(q)) + 1 .. cdiv(q.computed, block_size) :
                i \in DOMAIN q.blocks /\ q.blocks[i] # null_block

(* Neither the watermark nor the gate for the full sequence can keep out a  *)
(* request that is alone and whose tokens fit in the pool.                  *)
IsAlone(r) ==
    /\ req[r].status \in {"waiting", "preempted"}
    /\ \A s \in Requests : (s # r => ~HasBlocks(s)) /\ popped[s] = <<>>
    /\ cdiv(Len(Text[r]), block_size) < num_gpu_blocks
LoneRequestIsAdmitted ==
    \A r \in Requests : IsAlone(r) =>
        LET left == req[r].num_tokens - LocalComputed(r, Arguments(0, HitOf(r), 0, 0, 0, TRUE, FALSE))
        IN  Admits(r, Arguments(left, HitOf(r), 0, 0, 0, TRUE, FALSE))

(* Admitting a request, or starting its load, in a step that has scheduled  *)
(* others leaves watermark_blocks free, whatever hits it took from the free *)
(* list on the way.                                                         *)
AdmissionKeepsWatermark ==
    [][\A r \in Requests :
         /\ req[r].status \in {"waiting", "preempted"} /\ req'[r].status \in {"running", "loading"}
         /\ scheduled # {}
         => get_num_free_blocks(pool') >= watermark_blocks]_vars

(* get_num_common_prefix_blocks: the leading blocks of r whose ref_cnt is   *)
(* the number of requests with blocks.  Its docstring says that all         *)
(* requests with allocated KV cache share them.                             *)
CommonPrefix(r) ==
    LET all == Cardinality({s \in Requests : HasBlocks(s)})
    IN  Max({n \in 0..Len(req[r].blocks) : \A i \in 1..n : pool.ref[req[r].blocks[i]] = all})
CommonPrefixIsShared ==
    \A r \in Running, s \in Requests : HasBlocks(s) =>
        \A i \in 1..CommonPrefix(r) : i <= Len(req[s].blocks) /\ req[s].blocks[i] = req[r].blocks[i]
=============================================================================
