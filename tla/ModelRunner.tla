----------------------------- MODULE ModelRunner -----------------------------
(***************************************************************************)
(* GPUModelRunner of gpu_model_runner.py: the persistent batch, the inputs *)
(* of a step, sampling, and the bookkeeping that lets the next step start  *)
(* before the tokens of this one have reached the CPU.  The scheduler and  *)
(* InputBatch are not in src/; they are modelled as the runner uses them.  *)
(* A token is <<request, position, version>>; a draft has a fourth field.  *)
(***************************************************************************)
EXTENDS Integers, FiniteSets, Sequences, SequencesExt, FiniteSetsExt, Functions

CONSTANTS Requests,        \* 1..n, in the order the scheduler lists them
          Prompt,          \* the length of each prompt
          num_spec_tokens,
          Modes,           \* [async, spec, last, max_model_len]: scheduling, drafting, whether the rank samples
          BlockTokens,
          MaxRestarts,     \* preemptions and reused ids in a behaviour
          Unk,             \* -1, or what a buffer held before
          Zero,            \* the draft of a batch that does not fit the drafter
          None

ASSUME RunnerAssumption ==
    /\ Requests \subseteq Nat
    /\ num_spec_tokens \in Nat /\ \A m \in Modes : m.max_model_len \in Nat
    /\ \A m \in Modes : Prompt \in [Requests -> 1..m.max_model_len-1] /\ (m.spec /\ m.async => m.last)

VARIABLES mode,
          sched, truth, computed, flight,              \* the scheduler, what the model really said and computed, outputs under way
          stale,                                       \* history: requests left with placeholders nobody will fill
          requests, batch, prev_req_id_to_index,       \* the runner: cached states, persistent batch, rows of the last step
          prev_sampled_token_ids, draft_token_ids, valid_sampled_token_count,
          num_computed_tokens,                                      \* on the GPU, by the rows of the last step
          sent,                                                     \* tensors the last rank sent and this one has not received
          execute_model_state
runner == <<requests, batch, prev_req_id_to_index, prev_sampled_token_ids, draft_token_ids, valid_sampled_token_count, num_computed_tokens, sent>>
NoOutput == [reqs |-> <<>>, toks |-> <<>>, invalid |-> {}, spec |-> <<>>, owed |-> {}]
vars == <<mode, sched, truth, computed, flight, stale, runner, execute_model_state>>

MaxLen == mode.max_model_len
LOCAL Largest(a, b) == IF a > b THEN a ELSE b
CuSum(s) == [i \in 1..Len(s) |-> FoldLeft(LAMBDA x, y : x + y, 0, SubSeq(s, 1, i))]
LastN(s, n) == SubSeq(s, Len(s) - n + 1, Len(s))
Token(r, pos) == <<r, pos, sched[r].ver>>
Draft(r, pos) == <<r, pos, sched[r].ver, "draft">>
Fresh(r, ver) == [pos \in 1..Prompt[r] |-> <<r, pos, ver>>]

----------------------------------------------------------------------------
(* The scheduler, as far as its output shows it: what it knows of each      *)
(* request, and in async mode the placeholders for tokens still under way.  *)
Known(r) == sched[r].plen + sched[r].outputs
Expected(r) == Known(r) + sched[r].placeholders
Want(r) ==
    CASE sched[r].st = "running" -> Expected(r) + Len(sched[r].spec) - sched[r].computed
      [] sched[r].st \in {"waiting", "preempted", "streaming"} -> Known(r) - sched[r].computed
      [] OTHER -> 0
MaySchedule(r, n) ==
    n > 0 => /\ n <= Want(r) /\ sched[r].computed + n < MaxLen /\ Expected(r) < MaxLen
             /\ sched[r].st # "running" => sched[r].placeholders = 0
SpecLen(r, n) == Largest(0, IF sched[r].st = "running" THEN sched[r].computed + n - Expected(r) ELSE 0)
SpecTokens(r, n) == SubSeq(sched[r].spec, 1, SpecLen(r, n))
Samples(r, n) == n > 0 /\ sched[r].computed + n >= Expected(r)
NumBlocks(r, n) == Largest(sched[r].blocks, (sched[r].computed + n + BlockTokens - 1) \div BlockTokens)
Blocks(r, n) == [i \in 1..NumBlocks(r, n) |-> <<r, sched[r].epoch, i>>]
NewBlocks(r, n) == IF sched[r].st = "running" THEN SubSeq(Blocks(r, n), sched[r].blocks + 1, NumBlocks(r, n)) ELSE Blocks(r, n)

Scheduled(n, preempt) ==
    [r \in Requests |->
        LET s == [sched[r] EXCEPT !.fin = FALSE]
        IN  IF r \in preempt THEN [s EXCEPT !.st = "preempted", !.epoch = @ + 1, !.computed = 0, !.spec = <<>>, !.blocks = 0]
            ELSE IF n[r] = 0 THEN (IF mode.async THEN [s EXCEPT !.spec = <<>>] ELSE s)
            ELSE [s EXCEPT !.st = "running", !.computed = @ + n[r], !.blocks = Len(Blocks(r, n[r])),
                           !.placeholders = IF mode.async /\ Samples(r, n[r]) THEN @ + 1 + SpecLen(r, n[r]) ELSE @,
                           !.spec = IF mode.async /\ mode.spec /\ Samples(r, n[r])
                                    THEN [i \in 1..num_spec_tokens |-> Unk] ELSE <<>>]]

----------------------------------------------------------------------------
(* InputBatch: rows with gaps until condense closes them.                   *)
Rows(b) == {i \in DOMAIN b : b[i] # None}
RowOf(b, r) == IF \E i \in Rows(b) : b[i].req = r THEN CHOOSE i \in Rows(b) : b[i].req = r ELSE 0
WriteAt(toks, start, s) == [p \in 1..MaxLen |-> IF p - start \in DOMAIN s THEN s[p - start] ELSE toks[p]]
add_request(b, row) ==
    IF Rows(b) = DOMAIN b THEN Append(b, row) ELSE [b EXCEPT ![Min(DOMAIN b \ Rows(b))] = row]
condense(b) ==
    LET live == Cardinality(Rows(b))
        hole(i) == Cardinality({j \in 1..i : b[j] = None})
        tail(k) == CHOOSE j \in Rows(b) : Cardinality({i \in Rows(b) : i >= j}) = k
    IN  [i \in 1..live |-> IF b[i] # None THEN b[i] ELSE b[tail(hole(i))]]
update_req_spec_token_ids(row, spec) == [row EXCEPT !.toks = WriteAt(@, row.no_spec, spec)]
RowFor(r, req) ==
    LET ids == req.prompt \o req.outs
    IN  [req |-> r, toks |-> WriteAt([p \in 1..MaxLen |-> Unk], 0, ids), no_spec |-> Len(ids),
         computed |-> req.computed, blocks |-> req.blocks]

----------------------------------------------------------------------------
(* _update_states.                                                          *)
Finished == {r \in Requests : sched[r].fin}
Is(r, n, st) == n[r] > 0 /\ sched[r].st = st
(* mutant: a resumed request is taken for one that goes on                  *)
RemovedUnlessScheduled(n) ==
    {r \in Requests : RowOf(batch, r) # 0 /\ (r \in Finished \/ n[r] = 0 \/ Is(r, n, "streaming"))}
Removed(n) ==     \* finished, unscheduled or resumed, or a streaming session going on
    {r \in Requests : RowOf(batch, r) # 0 /\ (r \in Finished \/ n[r] = 0 \/ Is(r, n, "preempted") \/ Is(r, n, "streaming"))}

NewRequest(r, n) ==
    [prompt |-> SubSeq(truth[r], 1, sched[r].plen), outs |-> <<>>, computed |-> sched[r].computed,
     blocks |-> Blocks(r, n[r]), prev_num_draft_len |-> 0]

_update_streaming_request(r, n) == [NewRequest(r, n) EXCEPT !.prev_num_draft_len = requests[r].prev_num_draft_len]

(* the cached requests; row is 0 when it must be added again *)
Optimistic(r, row) == mode.async /\ requests[r].prev_num_draft_len > 0 /\ row # 0
NewTokens(r, n) ==   \* sent to the ranks that do not sample
    IF mode.async THEN <<>> ELSE SubSeq(truth[r], sched[r].computed + 1, sched[r].computed + n[r])
NumOutput(r) == sched[r].outputs + sched[r].placeholders
InflatedOuts(r, row) ==
    requests[r].outs \o (IF Optimistic(r, row) THEN [i \in 1..requests[r].prev_num_draft_len |-> Unk] ELSE <<>>)
(* mutant: the optimistic outputs stay                                      *)
TrimmedNever(r, row) == FALSE
Trimmed(r, row) == mode.last /\ NumOutput(r) < Len(InflatedOuts(r, row))
UpdatedOuts(r, n, row) ==
    LET outs == InflatedOuts(r, row)
        new == NewTokens(r, n)
        fresh == sched[r].computed + Len(new) - (Len(requests[r].prompt) + Len(outs))
    IN  IF row = 0 /\ mode.async /\ NumOutput(r) > 0 THEN LastN(SubSeq(truth[r], 1, Known(r)), NumOutput(r))
        ELSE IF Trimmed(r, row) THEN SubSeq(outs, 1, NumOutput(r))
        ELSE IF ~mode.last /\ new # <<>> /\ fresh > 0 THEN outs \o LastN(new, fresh)
        ELSE outs
UpdatedRequest(r, n, row) ==
    [requests[r] EXCEPT !.computed = sched[r].computed, !.outs = UpdatedOuts(r, n, row),
                        !.blocks = IF Is(r, n, "preempted") THEN NewBlocks(r, n[r]) ELSE @ \o NewBlocks(r, n[r])]
UpdatedRow(r, n, i) ==
    LET row == batch[i]
        new == NewTokens(r, n)
        end == IF mode.last THEN IF Trimmed(r, i) THEN Len(requests[r].prompt) + NumOutput(r) ELSE row.no_spec
               ELSE Largest(row.no_spec, sched[r].computed + Len(new))
    IN  [row EXCEPT !.computed = sched[r].computed, !.blocks = @ \o NewBlocks(r, n[r]), !.no_spec = end,
                    !.toks = IF ~mode.last /\ new # <<>> THEN WriteAt(@, row.no_spec, LastN(new, end - row.no_spec)) ELSE @]

States(n) ==
    LET kept(r) == IF r \in Removed(n) THEN 0 ELSE RowOf(batch, r)
        state(r) == CASE n[r] = 0 -> IF r \in Finished THEN None ELSE requests[r]
                      [] Is(r, n, "waiting") -> NewRequest(r, n)
                      [] Is(r, n, "streaming") -> _update_streaming_request(r, n)
                      [] OTHER -> UpdatedRequest(r, n, kept(r))
        updated == [r \in Requests |-> IF n[r] = 0 THEN state(r)
                                       ELSE [state(r) EXCEPT !.prev_num_draft_len = SpecLen(r, n[r])]]
        left == [i \in DOMAIN batch |->
                    IF batch[i].req \in Removed(n) THEN None
                    ELSE update_req_spec_token_ids(UpdatedRow(batch[i].req, n, i), SpecTokens(batch[i].req, n[batch[i].req]))]
        first == SelectSeq(SetToSeq(Requests), LAMBDA r : Is(r, n, "waiting") \/ Is(r, n, "streaming"))
        again == SelectSeq(SetToSeq(Requests), LAMBDA r : n[r] > 0 /\ kept(r) = 0 /\ r \notin ToSet(first))
        add(b, r) == add_request(b, update_req_spec_token_ids(RowFor(r, updated[r]), SpecTokens(r, n[r])))
    IN  [requests |-> updated,
         batch |-> condense(FoldLeft(add, left, first \o again)),
         prev |-> [r \in Requests |-> IF r \in Removed(n) THEN 0 ELSE prev_req_id_to_index[r]],
         corrections |-> {r \in Requests : Is(r, n, "running") /\ Optimistic(r, kept(r))}]

----------------------------------------------------------------------------
(* _prepare_inputs, for the batch b with the rows of the step before in     *)
(* prev and the number of drafts each row of that step had.  The requests   *)
(* the scheduler expects a token of are kept with the inputs.               *)
PrevDrafts(st) ==    \* prev_num_draft_tokens, by the row of the previous step
    [i \in DOMAIN valid_sampled_token_count |->
        LET rs == {r \in st.corrections : st.prev[r] = i} IN IF rs = {} THEN 0 ELSE requests[CHOOSE r \in rs : TRUE].prev_num_draft_len]

(* the row each row had in the previous step, 0 for none                    *)
_compute_prev_positions(st, b) == [i \in DOMAIN b |-> st.prev[b[i].req]]

NumComputedTokens(st, b) ==
    [i \in DOMAIN b |->
        LET p == _compute_prev_positions(st, b)[i]
        IN  IF p # 0 /\ p \in DOMAIN PrevDrafts(st) /\ PrevDrafts(st)[p] > 0
            THEN num_computed_tokens[p] + valid_sampled_token_count[p] ELSE b[i].computed]

_prepare_input_ids(st, b, n) ==
    LET num(i) == n[b[i].req]
        cu == CuSum([i \in DOMAIN b |-> num(i)])
        before(i) == cu[i] - num(i)
        spec(i) == SpecLen(b[i].req, num(i))
        prev == _compute_prev_positions(st, b)
        common == {i \in DOMAIN b : prev[i] # 0}
        total_spec == FoldSet(LAMBDA i, x : spec(i) + x, 0, common)
        row(f) == CHOOSE i \in DOMAIN b : before(i) < f /\ f <= cu[i]
        cpu(f) == LET i == row(f) IN b[i].toks[b[i].computed + f - before(i)]
        base(f) == IF Cardinality(common) < Last(cu) - total_spec THEN cpu(f) ELSE Unk
        unchanged == /\ \A i \in common : prev[i] = cu[i]
                     /\ Max({cu[i] : i \in common}) = Cardinality(common)
        scatter(f) ==
            LET i == row(f)
                j == f - (cu[i] - spec(i))
            IN  IF i \notin common \/ j < 0 THEN base(f)
                ELSE IF j = 0 THEN prev_sampled_token_ids[prev[i]]
                ELSE IF draft_token_ids = None THEN base(f) ELSE draft_token_ids[prev[i]][j]
    IN  [f \in 1..Last(cu) |->
            IF prev_sampled_token_ids = None THEN cpu(f)
            ELSE IF common = {} THEN base(f)
            ELSE IF unchanged THEN IF f <= Cardinality(common) THEN prev_sampled_token_ids[f] ELSE base(f)
            ELSE scatter(f)]

(* the drafts that are verified, by the indices of their logits *)
_calc_spec_decode_metadata(ids, cu, num_draft) ==
    LET sampled == [i \in DOMAIN cu |-> num_draft[i] + 1]
        cu_sampled == CuSum(sampled)
        logits_indices == FlattenSeq([i \in DOMAIN cu |-> [j \in 1..sampled[i] |-> cu[i] - sampled[i] + j]])
    IN  [i \in DOMAIN cu |-> [j \in 1..num_draft[i] |-> ids[logits_indices[cu_sampled[i] - sampled[i] + j + 1]]]]

num_draft_tokens(b, n) == [i \in DOMAIN b |-> SpecLen(b[i].req, n[b[i].req])]

_prepare_inputs(st, b, n) ==
    LET num == [i \in DOMAIN b |-> n[b[i].req]]
        cu == CuSum(num)
        spec == num_draft_tokens(b, n)
        ids == _prepare_input_ids(st, b, n)
        length(r) == Len(st.requests[r].prompt) + Len(st.requests[r].outs)
    IN  [reqs |-> [i \in DOMAIN b |-> b[i].req], num |-> num, spec |-> spec,
         start |-> NumComputedTokens(st, b),
         ids |-> [i \in DOMAIN b |-> SubSeq(ids, cu[i] - num[i] + 1, cu[i])],
         verified |-> _calc_spec_decode_metadata(ids, cu, spec),
         seq_lens |-> [i \in DOMAIN b |-> b[i].computed + num[i]],
         discard |-> {i \in DOMAIN b : b[i].computed + num[i] < length(b[i].req)},
         expects |-> {r \in Requests : Samples(r, n[r])}]

(* correct_spec_decode_token_counts, once the counts are on the CPU *)
(* mutant: the token after the accepted drafts is counted as one of them    *)
CorrectionOffByOne(st, r) ==
    IF r \in st.corrections /\ prev_sampled_token_ids # None /\ st.prev[r] # 0
    THEN requests[r].prev_num_draft_len - valid_sampled_token_count[st.prev[r]] ELSE 0
Correction(st, r) ==
    IF r \in st.corrections /\ prev_sampled_token_ids # None /\ st.prev[r] # 0
    THEN requests[r].prev_num_draft_len - (valid_sampled_token_count[st.prev[r]] - 1) ELSE 0
CorrectedRequests(st) ==
    [r \in Requests |-> IF r \in st.corrections THEN [st.requests[r] EXCEPT !.computed = @ - Correction(st, r)] ELSE st.requests[r]]
CorrectedBatch(st, b) == [i \in DOMAIN b |-> [b[i] EXCEPT !.computed = @ - Correction(st, b[i].req)]]

(* the order is kept, or the backend wants the decodes first                *)
_may_reorder_batch(b, n) ==
    LET decode(i) == n[b[i].req] = 1
        decodes(is) == SelectSeq([i \in is |-> i], decode)
    IN  {[i \in DOMAIN b |-> i], decodes(DOMAIN b) \o SelectSeq([i \in DOMAIN b |-> i], LAMBDA i : ~decode(i))}

(* execute_model for a schedule n.                                          *)
execute_model(n, preempt) ==
    /\ execute_model_state = None
    /\ \E st \in {States(n)} :
       \E order \in _may_reorder_batch(st.batch, n) :
       \E b \in {[i \in DOMAIN st.batch |-> st.batch[order[i]]]} :
          /\ requests' = CorrectedRequests(st)
          /\ batch' = CorrectedBatch(st, b)
          /\ prev_req_id_to_index' = st.prev
          /\ IF b = <<>>
             THEN /\ flight' = Append(flight, NoOutput)
                  /\ UNCHANGED <<num_computed_tokens, execute_model_state>>
             ELSE /\ num_computed_tokens' = NumComputedTokens(st, b)
                  /\ execute_model_state' = _prepare_inputs(st, b, n)
                  /\ UNCHANGED flight
    /\ sched' = Scheduled(n, preempt)
    /\ computed' = [r \in Requests |-> IF r \in preempt THEN 0 ELSE computed[r]]
    /\ UNCHANGED <<mode, truth, stale, prev_sampled_token_ids, draft_token_ids, valid_sampled_token_count, sent>>

----------------------------------------------------------------------------
(* sample_tokens, for the step e and the number of drafts accepted per row. *)
(* The rejection sampler accepts a prefix of the drafts the model proposed. *)
Accepts(e, acc) ==
    \A i \in DOMAIN e.reqs :
        /\ acc[i] <= Len(e.verified[i])
        /\ \A j \in 1..acc[i] : e.verified[i][j] = Draft(e.reqs[i], Len(truth[e.reqs[i]]) + j)

(* A row whose inputs end with the sequence samples what comes next, and the *)
(* row of a chunked prefill a dummy.                                        *)
_sample(e, acc) ==
    [i \in DOMAIN e.reqs |->
        IF e.reqs[i] \in e.expects THEN [k \in 1..acc[i]+1 |-> Token(e.reqs[i], Len(truth[e.reqs[i]]) + k)] ELSE <<Unk>>]

(* what the runner caches of row i: in async mode a placeholder per token   *)
(* and on a rank that does not sample for a token it receives               *)
Received == IF mode.async THEN <<Unk>> ELSE <<>>
Cached(e, toks, i) ==
    IF i \in e.discard THEN <<>> ELSE IF ~mode.last THEN Received ELSE IF mode.async THEN <<Unk>> ELSE toks[i]
_bookkeeping_sync(e, toks) ==
    /\ batch' = [i \in DOMAIN batch |->
                    LET new == Cached(e, toks, i)
                    IN  [batch[i] EXCEPT !.no_spec = @ + Len(new),
                                         !.toks = IF mode.last THEN WriteAt(@, batch[i].no_spec, new) ELSE @]]
    /\ requests' = [r \in Requests |->
                        IF RowOf(batch, r) = 0 THEN requests[r]
                        ELSE [requests[r] EXCEPT !.outs = @ \o Cached(e, toks, RowOf(batch, r))]]
    /\ prev_req_id_to_index' =
            [r \in Requests |-> IF mode.async /\ RowOf(batch, r) \notin e.discard THEN RowOf(batch, r) ELSE 0]

(* The last rank broadcasts its samples unless all its rows are chunked     *)
(* prefills, and so does every other rank decide whether it receives.       *)
Broadcast(e, toks) ==
    IF \E i \in DOMAIN e.reqs : e.reqs[i] \in e.expects THEN Append(sent, [i \in DOMAIN e.reqs |-> Last(toks[i])]) ELSE sent
_is_all_reqs_chunked_prefill(e) == e.discard = DOMAIN e.reqs
_pp_receive_prev_sampled_token_ids_to_input_batch(e, toks) ==
    IF _is_all_reqs_chunked_prefill(e)
    THEN /\ prev_sampled_token_ids' = [i \in DOMAIN batch |-> Unk]
         /\ sent' = Broadcast(e, toks)
    ELSE /\ Broadcast(e, toks) # <<>>
         /\ LET recv == Broadcast(e, toks)[1]
            IN  prev_sampled_token_ids' = [i \in DOMAIN batch |-> IF i \in DOMAIN recv THEN recv[i] ELSE Unk]
         /\ sent' = Tail(Broadcast(e, toks))
SampledTokenIds(e, toks) ==
    IF mode.async /\ ~mode.last THEN _pp_receive_prev_sampled_token_ids_to_input_batch(e, toks)
    ELSE /\ prev_sampled_token_ids' = IF mode.async THEN [i \in DOMAIN batch |-> Last(toks[i])] ELSE None
         /\ UNCHANGED sent

_input_fits_in_drafter(e) == Max(ToSet(e.seq_lens)) + num_spec_tokens <= MaxLen
propose_draft_token_ids(e, acc) ==
    [i \in DOMAIN e.reqs |->
        [k \in 1..num_spec_tokens |->
            IF ~_input_fits_in_drafter(e) THEN Zero
            ELSE IF i \in e.discard THEN Unk
            ELSE Draft(e.reqs[i], Len(truth[e.reqs[i]]) + acc[i] + 1 + k)]]

_copy_valid_sampled_token_count(e, toks) ==
    IF mode.spec /\ mode.async THEN [i \in DOMAIN e.reqs |-> IF i \in e.discard THEN 0 ELSE Len(toks[i])] ELSE <<>>

(* the drafts go to the scheduler only when it does not run ahead           *)
take_draft_token_ids(row) == IF mode.spec /\ ~mode.async THEN draft_token_ids[row] ELSE <<>>

(* The output names the requests, row by row, and the rows that this rank   *)
(* discarded; the scheduler wants it for all of them (owed).  On a rank     *)
(* that does not sample it stands for the output of the last rank.          *)
RowOfRequest(reqs, r) == CHOOSE i \in DOMAIN reqs : reqs[i] = r
InvalidRows(e) == IF mode.last THEN e.discard ELSE {i \in DOMAIN e.reqs : e.reqs[i] \notin e.expects}
Output(e, toks) ==
    [reqs |-> e.reqs, toks |-> toks, invalid |-> InvalidRows(e), spec |-> e.spec, owed |-> ToSet(e.reqs)]

sample_tokens(acc) ==
    LET e == execute_model_state
        toks == _sample(e, acc)
        row(r) == RowOfRequest(e.reqs, r)
    IN  /\ Accepts(e, acc)
        /\ execute_model_state' = None
        /\ _bookkeeping_sync(e, toks)
        /\ SampledTokenIds(e, toks)
        /\ draft_token_ids' = IF mode.spec THEN propose_draft_token_ids(e, acc) ELSE None
        /\ valid_sampled_token_count' = _copy_valid_sampled_token_count(e, toks)
        /\ flight' = Append(flight, Output(e, toks))
        /\ truth' = [r \in Requests |-> IF r \in ToSet(e.reqs) \cap e.expects THEN truth[r] \o toks[row(r)] ELSE truth[r]]
        /\ computed' = [r \in Requests |->
                            IF r \in ToSet(e.reqs) THEN e.start[row(r)] + e.num[row(r)] - (e.spec[row(r)] - acc[row(r)])
                            ELSE computed[r]]
        /\ UNCHANGED <<mode, sched, stale, num_computed_tokens>>

(* AsyncGPUModelRunnerOutput.get_output *)
(* mutant: the samples of a chunked prefill are delivered                   *)
get_output_all(o) == o.toks
get_output(o) == [i \in DOMAIN o.reqs |-> IF i \in o.invalid THEN <<>> ELSE o.toks[i]]

----------------------------------------------------------------------------
(* The engine around the runner.                                            *)
Idle == execute_model_state = None
Restarts == FoldSet(LAMBDA r, x : sched[r].epoch + x, 0, Requests)
Init ==
    /\ mode \in Modes
    /\ sched = [r \in Requests |-> [st |-> "waiting", ver |-> 0, plen |-> Prompt[r], outputs |-> 0, placeholders |-> 0,
                                    computed |-> 0, spec |-> <<>>, fin |-> FALSE, blocks |-> 0, epoch |-> 0]]
    /\ truth = [r \in Requests |-> Fresh(r, 0)] /\ computed = [r \in Requests |-> 0] /\ flight = <<>> /\ stale = {}
    /\ requests = [r \in Requests |-> None] /\ batch = <<>> /\ prev_req_id_to_index = [r \in Requests |-> 0]
    /\ prev_sampled_token_ids = None /\ draft_token_ids = None /\ valid_sampled_token_count = <<>> /\ num_computed_tokens = <<>>
    /\ sent = <<>> /\ execute_model_state = None

Step ==
    /\ Len(flight) <= (IF mode.async THEN 1 ELSE 0)
    /\ \E n \in [Requests -> 0..MaxLen], preempt \in SUBSET {r \in Requests : sched[r].st = "running"} :
          /\ \A r \in Requests : MaySchedule(r, n[r])
          /\ Cardinality({r \in Requests : n[r] \in 1..Want(r)-1}) <= 1        \* the token budget cuts one request short
          /\ \A r \in preempt : n[r] = 0
          /\ Restarts + Cardinality(preempt) <= MaxRestarts
          /\ preempt # {} => \A r \in Requests : sched[r].st # "running" => n[r] = 0
          /\ execute_model(n, preempt)

Sample == ~Idle /\ \E acc \in [DOMAIN execute_model_state.reqs -> 0..num_spec_tokens] : sample_tokens(acc)

(* What the scheduler drops it no longer wants from the outputs under way:  *)
(* they name requests only, so it has to go by the step it scheduled.       *)
Disowned(r) == [k \in DOMAIN flight |-> [flight[k] EXCEPT !.owed = @ \ {r}]]

Deliver ==   \* async: once the queue is full or nothing more was scheduled
    /\ Idle /\ flight # <<>>
    /\ mode.async => Len(flight) = 2 \/ Last(flight) = NoOutput
    /\ LET o == flight[1]
           row(r) == RowOfRequest(o.reqs, r)
           new(r) == Len(get_output(o)[row(r)])
           rejected(r) == IF o.spec[row(r)] > 0 /\ new(r) > 0 THEN o.spec[row(r)] + 1 - new(r) ELSE 0
       IN  sched' = [r \in Requests |->
                        IF r \notin o.owed THEN sched[r]
                        ELSE [sched[r] EXCEPT !.outputs = @ + new(r),
                                !.placeholders = IF mode.async THEN @ - new(r) - rejected(r) ELSE @,
                                !.computed = IF @ > 0 THEN @ - rejected(r) ELSE @,
                                !.spec = IF mode.async THEN @
                                         ELSE IF new(r) > 0 THEN take_draft_token_ids(row(r)) ELSE <<>>]]
    /\ flight' = Tail(flight)
    /\ UNCHANGED <<mode, truth, computed, stale, runner, execute_model_state>>

(* reset_prefix_cache preempts what runs and drops the tokens under way.    *)
(* A rank that does not sample keeps the placeholders it has for them; they *)
(* are replaced when the request resumes, unless it resumes without outputs.*)
LeftStale(r) == mode.async /\ ~mode.last /\ sched[r].outputs = 0 /\ requests[r].outs # <<>>
ForcePreempt(r) ==
    /\ Idle /\ sched[r].st = "running" /\ Restarts < MaxRestarts
    /\ sched' = [sched EXCEPT ![r] = [sched[r] EXCEPT !.st = "preempted", !.ver = @ + 1, !.epoch = @ + 1, !.placeholders = 0,
                                                        !.computed = 0, !.spec = <<>>, !.blocks = 0]]
    /\ truth' = [truth EXCEPT ![r] = SubSeq(@, 1, Known(r))]
    /\ computed' = [computed EXCEPT ![r] = 0] /\ flight' = Disowned(r)
    /\ stale' = IF LeftStale(r) THEN stale \cup {r} ELSE stale
    /\ UNCHANGED <<mode, runner, execute_model_state>>

Finish(r) ==
    /\ Idle /\ sched[r].st \in {"running", "preempted"} /\ sched[r].outputs > 0 /\ Restarts < MaxRestarts
    /\ sched' = [sched EXCEPT ![r] = [sched[r] EXCEPT !.st = "done", !.fin = TRUE, !.plen = Prompt[r], !.outputs = 0, !.placeholders = 0,
                                                        !.computed = 0, !.spec = <<>>, !.blocks = 0]]
    /\ truth' = [truth EXCEPT ![r] = Fresh(r, sched[r].ver)]
    /\ computed' = [computed EXCEPT ![r] = 0] /\ flight' = Disowned(r)
    /\ UNCHANGED <<mode, stale, runner, execute_model_state>>

(* a new request under the id of one that has finished                      *)
Resubmit(r) ==
    /\ Idle /\ sched[r].st = "done" /\ Restarts < MaxRestarts
    /\ sched' = [sched EXCEPT ![r] = [sched[r] EXCEPT !.st = "waiting", !.ver = @ + 1, !.epoch = @ + 1]]
    /\ truth' = [truth EXCEPT ![r] = Fresh(r, sched[r].ver + 1)]
    /\ UNCHANGED <<mode, computed, flight, stale, runner, execute_model_state>>

(* the next input of a streaming session: one token after what was said     *)
Stream(r) ==
    /\ Idle /\ sched[r].st = "running" /\ flight = <<>> /\ sched[r].outputs > 0 /\ Known(r) < MaxLen - 1 /\ Restarts < MaxRestarts
    /\ sched' = [sched EXCEPT ![r] = [sched[r] EXCEPT !.st = "streaming", !.plen = Known(r) + 1, !.outputs = 0, !.spec = <<>>]]
    /\ truth' = [truth EXCEPT ![r] = Append(@, Token(r, Known(r) + 1))]
    /\ UNCHANGED <<mode, computed, flight, stale, runner, execute_model_state>>

Next ==
    \/ Step \/ Sample \/ Deliver
    \/ \E r \in Requests : ForcePreempt(r) \/ Finish(r) \/ Resubmit(r) \/ Stream(r)
Spec == Init /\ [][Next]_vars

----------------------------------------------------------------------------
(* The types, among them the assertion of _bookkeeping_sync: no row grows   *)
(* past max_model_len, and no counter of the scheduler falls below zero.    *)
TypeOK ==
    /\ \A r \in Requests : /\ sched[r].computed \in 0..MaxLen /\ sched[r].placeholders \in 0..2*(num_spec_tokens+1)
                           /\ Len(truth[r]) \in 1..MaxLen /\ prev_req_id_to_index[r] \in 0..Cardinality(Requests)
    /\ \A i \in DOMAIN batch : /\ batch[i].req \in Requests /\ batch[i].no_spec \in 1..MaxLen /\ DOMAIN batch[i].toks = 1..MaxLen
                               /\ \A j \in DOMAIN batch : batch[j].req = batch[i].req => i = j

(* What the model reads in a step is the sequence of the request: every     *)
(* position the request has holds its token, whether it comes from the CPU  *)
(* or from what the last step left on the GPU, and every position after it  *)
(* a draft for that very position, which is also what is verified.  Not so  *)
(* once a request was left with stale placeholders (README section 6).      *)
InputsAreTheSequence ==
    ~Idle /\ stale = {} => \A i \in DOMAIN execute_model_state.reqs :
        LET e == execute_model_state
            r == e.reqs[i]
            pos(j) == e.start[i] + j
        IN  /\ e.start[i] = computed[r]
            /\ \A j \in 1..e.num[i] : IF pos(j) <= Len(truth[r]) THEN e.ids[i][j] = truth[r][pos(j)]
                                      ELSE e.ids[i][j] \in {Draft(r, pos(j)), Zero}
            /\ e.verified[i] = LastN(e.ids[i], e.spec[i])

(* A step drops the sample of a row exactly when the scheduler expects none *)
(* from it, although the two count different lengths.  Not so once a        *)
(* request was left with stale placeholders.                                *)
RowsAgree ==
    \A i \in DOMAIN execute_model_state.reqs :
        i \in execute_model_state.discard <=> execute_model_state.reqs[i] \notin execute_model_state.expects
DiscardsAgree == ~Idle /\ (mode.last \/ mode.async) /\ stale = {} => RowsAgree

(* "skip for chunked prefill": a rank that does not sample receives a       *)
(* broadcast exactly when the last rank sends one.                          *)
BroadcastsMatch == sent = <<>>

(* what an output under way brings to a request                             *)
Brought(o, r) == IF r \in o.owed THEN get_output(o)[RowOfRequest(o.reqs, r)] ELSE <<>>

(* The outputs under way hold, request by request and in order, exactly the *)
(* tokens that were sampled and that the scheduler does not know yet.       *)
OutputsReachTheirRequest ==
    Idle => \A r \in Requests :
        FlattenSeq([k \in DOMAIN flight |-> Brought(flight[k], r)]) = SubSeq(truth[r], Known(r) + 1, Len(truth[r]))

(* Once a step has started, the counts the CPU corrected are those the GPU  *)
(* used, and each row has the block table the scheduler gave the request.   *)
BookkeepingIsTrue ==
    ~Idle => \A i \in DOMAIN batch :
        LET r == batch[i].req
        IN  /\ batch[i].computed = computed[r] /\ requests[r].computed = computed[r]
            /\ batch[i].blocks = [k \in 1..sched[r].blocks |-> <<r, sched[r].epoch, k>>] /\ requests[r].blocks = batch[i].blocks
=============================================================================
