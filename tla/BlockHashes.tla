----------------------------- MODULE BlockHashes -----------------------------
(***************************************************************************)
(* The prefix-cache hashes of vllm_v1_core_kv_cache_utils.py: a request's  *)
(* hasher runs when the request is made and again whenever tokens were     *)
(* appended, and continues from the hashes it has.  A hash is modelled as  *)
(* the list of what was fed to it, so two are equal when their inputs are. *)
(***************************************************************************)
EXTENDS Integers, FiniteSets, Sequences, SequencesExt

CONSTANTS hash_block_size,
          target_block_size,  \* block size of a coarser group
          Tokens,
          Placeholders,       \* the tokens that stand for a part of an image
          Identifiers,        \* of images: the hash of what is in one
          Loras, Salts,       \* names of adapters, cache salts
          Requests,
          Inputs,             \* the requests to try: prompt, mm_features, lora, salt
          Sampled             \* what one step of the model may append

MMFeature == [identifier : Identifiers, offset : Nat, length : Nat \ {0}]
Optional(S) == {<<>>} \cup {<<x>> : x \in S}
Input == [prompt : Seq(Tokens), mm_features : Seq(MMFeature), lora : Optional(Loras), salt : Optional(Salts)]
End(f) == f.offset + f.length

(* The images are in the order of their places and do not overlap, as the   *)
(* code notes, and a prompt has placeholders exactly where they are.  An    *)
(* adapter's name and a salt are strings and may be equal; the key of an    *)
(* image is a pair and equals neither.                                      *)
ASSUME BlockHashesAssumption ==
    /\ hash_block_size \in Nat \ {0} /\ target_block_size \in Nat \ {0}
    /\ target_block_size % hash_block_size = 0
    /\ Inputs \subseteq Input /\ Sampled \subseteq Seq(Tokens)
    /\ \A i \in Inputs : \A j \in 1..Len(i.mm_features)-1 :
          End(i.mm_features[j]) <= i.mm_features[j + 1].offset
    /\ \A i \in Inputs : \A f \in ToSet(i.mm_features) : End(f) <= Len(i.prompt)
    /\ \A i \in Inputs : \A p \in 1..Len(i.prompt) :
          (i.prompt[p] \in Placeholders <=> \E f \in ToSet(i.mm_features) : f.offset < p /\ p <= End(f))
    /\ \A x \in Loras \cup Salts : x \notin Identifiers \X Int

VARIABLES input,         \* what each request was made of
          all_tokens,    \* its tokens so far
          block_hashes   \* Request.block_hashes

vars == <<input, all_tokens, block_hashes>>

NONE_HASH == <<>>

----------------------------------------------------------------------------
(* _gen_mm_extra_hash_keys: from feature i on, the ones inside the block,   *)
(* each with its offset in it, and the feature the next block starts from.  *)
Position(fs, i) == IF i < 0 THEN Len(fs) + i + 1 ELSE i

MMKeys(fs, start, end, from) ==
    LET Scan[i \in 1..Len(fs)+1] ==
            IF i > Len(fs) \/ end <= fs[i].offset THEN [keys |-> <<>>, idx |-> i]
            ELSE IF start >= End(fs[i]) THEN Scan[i + 1]
            ELSE LET key == << <<fs[i].identifier, fs[i].offset - start>> >>
                 IN  IF end >= End(fs[i])
                     THEN [keys |-> key \o Scan[i + 1].keys, idx |-> Scan[i + 1].idx]
                     ELSE [keys |-> key, idx |-> i]
    IN  IF fs = <<>> THEN [keys |-> <<>>, idx |-> from]
        ELSE IF End(fs[Len(fs)]) <= start THEN [keys |-> <<>>, idx |-> from]
        ELSE Scan[Position(fs, from)]

(* generate_block_hash_extra_keys: the LoRA's name in every block, the salt *)
(* in the first                                                             *)
(* mutant of ExtraKeys: the next block starts after the image it went on to *)
ExtraKeysSkipping(q, start, end, from) ==
    LET mm == MMKeys(q.mm_features, start, end, from)
    IN  [keys |-> q.lora \o mm.keys \o (IF start = 0 THEN q.salt ELSE <<>>),
         idx |-> IF mm.keys = <<>> THEN mm.idx ELSE mm.idx + 1]
ExtraKeys(q, start, end, from) ==
    LET mm == MMKeys(q.mm_features, start, end, from)
    IN  [keys |-> q.lora \o mm.keys \o (IF start = 0 THEN q.salt ELSE <<>>), idx |-> mm.idx]

hash_block_tokens(parent, tokens, keys) == Append(parent, [tokens |-> tokens, keys |-> keys])

(* the blocks from number k on, given the hash before them *)
Chain(q, tokens, k, parent, from) ==
    LET B == hash_block_size
        Run[n \in 0..Len(tokens) \div B - k] ==    \* hash, next feature and hashes made after n blocks
            IF n = 0 THEN [parent |-> parent, idx |-> from, made |-> <<>>]
            ELSE LET before == Run[n - 1]
                     start == (k + n - 1) * B
                     extra == ExtraKeys(q, start, start + B, before.idx)
                     hash == hash_block_tokens(before.parent, SubSeq(tokens, start + 1, start + B), extra.keys)
                 IN  [parent |-> hash, idx |-> extra.idx, made |-> Append(before.made, hash)]
    IN  Run[Len(tokens) \div B - k].made

(* request_block_hasher: after the first call it starts at the last feature *)
(* mutant: every call starts a chain of its own                             *)
request_block_hasher_rootless(q, tokens, hashes) ==
    IF Len(hashes) * hash_block_size + hash_block_size > Len(tokens) THEN <<>>
    ELSE Chain(q, tokens, Len(hashes), NONE_HASH, IF hashes = <<>> THEN 1 ELSE -1)
request_block_hasher(q, tokens, hashes) ==
    IF Len(hashes) * hash_block_size + hash_block_size > Len(tokens) THEN <<>>
    ELSE Chain(q, tokens, Len(hashes), IF hashes = <<>> THEN NONE_HASH ELSE Last(hashes),
               IF hashes = <<>> THEN 1 ELSE -1)

(* resolve_block_hashes: the view of BlockHashListWithBlockSize *)
(* mutant: the first of the finer hashes instead of the last                *)
ResolvedFirst(hashes, size) ==
    LET scale_factor == size \div hash_block_size
    IN  [i \in 1..(Len(hashes) \div scale_factor) |-> hashes[(i - 1) * scale_factor + 1]]
Resolved(hashes, size) ==
    LET scale_factor == size \div hash_block_size
    IN  [i \in 1..(Len(hashes) \div scale_factor) |-> hashes[i * scale_factor]]

----------------------------------------------------------------------------
Init ==
    /\ input \in [Requests -> Inputs]
    /\ all_tokens = [r \in Requests |-> input[r].prompt]
    /\ block_hashes = [r \in Requests |-> request_block_hasher(input[r], input[r].prompt, <<>>)]

(* sampled tokens are appended, then the hasher runs *)
AppendTokens(r, new) ==
    /\ Len(all_tokens[r]) + Len(new) <= Len(input[r].prompt) + target_block_size
    /\ all_tokens' = [all_tokens EXCEPT ![r] = @ \o new]
    /\ block_hashes' = [block_hashes EXCEPT ![r] = @ \o request_block_hasher(input[r], all_tokens'[r], @)]
    /\ UNCHANGED input

Next == \E r \in Requests, new \in Sampled : AppendTokens(r, new)

Spec == Init /\ [][Next]_vars

----------------------------------------------------------------------------
TypeOK ==
    /\ input \in [Requests -> Inputs]
    /\ \A r \in Requests : Len(block_hashes[r]) = Len(all_tokens[r]) \div hash_block_size

(* What a prefix of n blocks means: its tokens, the images in it with their *)
(* places, and whose it is.  The adapter's name and the salt stand in one   *)
(* list without a tag (generate_block_hash_extra_keys), so the first block  *)
(* alone has the two names in a row, and a salt passes for an adapter of    *)
(* that name; the next blocks, where only the adapter is, tell them apart.  *)
Upto(q, n) == {<<f.identifier, f.offset>> : f \in {g \in ToSet(q.mm_features) : g.offset < n}}
Owner(q, n) == IF n = 1 THEN q.lora \o q.salt ELSE <<q.lora, q.salt>>
Meaning(r, n) ==
    LET upto == n * hash_block_size
    IN  <<SubSeq(all_tokens[r], 1, upto), Upto(input[r], upto), Owner(input[r], n)>>

SameHashSamePrefix(r, s, n) ==
    (n <= Len(block_hashes[r]) /\ n <= Len(block_hashes[s]) /\ block_hashes[r][n] = block_hashes[s][n])
    => Meaning(r, n) = Meaning(s, n)

(* Two requests have the same hash for a block of their prompts only when   *)
(* everything before its end is the same: an image that spans blocks, two   *)
(* images in one, equal placeholders for different images are told apart,   *)
(* and from the second block on an adapter from a salt of the same name.    *)
PromptBlocksSeparated ==
    \A r, s \in Requests : \A n \in 1..(Len(input[r].prompt) \div hash_block_size) :
        SameHashSamePrefix(r, s, n)

(* A group with larger blocks reads hashes that stand for the whole of its  *)
(* own blocks' prefixes, and one for each of them.                          *)
CoarseHashesCoverTheirBlocks ==
    \A r \in Requests :
        LET coarse == Resolved(block_hashes[r], target_block_size)
        IN  /\ Len(coarse) = Len(all_tokens[r]) \div target_block_size
            /\ \A i \in DOMAIN coarse :
                 FlattenSeq([j \in DOMAIN coarse[i] |-> coarse[i][j].tokens])
                     = SubSeq(all_tokens[r], 1, i * target_block_size)

(* The hash of a block is that of all requests with this prefix, however    *)
(* many tokens were there when the hasher ran: without that a cached prefix *)
(* is never found again.  Stated for requests with one image at most.       *)
HashIndependentOfGrowth ==
    \A r \in Requests : Len(input[r].mm_features) <= 1 =>
        block_hashes[r] = Chain(input[r], all_tokens[r], 0, NONE_HASH, 1)

(* get_request_block_hasher says that for a block completed by generated    *)
(* tokens only the last image needs to be considered.                       *)
GrownBlocksSeparated ==
    \A r, s \in Requests : \A n \in 1..Len(block_hashes[r]) : SameHashSamePrefix(r, s, n)
=============================================================================
