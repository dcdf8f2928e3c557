# Verification of backyes.github.io

The repository is a personal site that is built, fed and kept by scripts. Nearly all of its
2,111 files are pages, scraped sources and data. Two bodies of program stand out:

* the site's own scripts, about 2,100 lines of Python and shell. What is hard about them is not an
  algorithm but *files*: every script rewrites files in place, reads files that another script or a
  person writes, may be killed between two steps, and is run again on what the last run left;
* the heart of vLLM's KV cache, about 13,000 lines, kept under `vllm-decode-memory/` beside the report
  that studies it: block pool, cache manager, planning of the cache, and the model runner. What
  is hard about it is *bookkeeping*: blocks that are shared, hashed, freed and reused in every
  order, and a runner whose CPU plans a step before the GPU has told the result of the last one.

Both are modelled. `V/` below stands for
`src/pd-separation-kvcache-research/long-context-pd-challenges-report/vllm-decode-memory/`.

Line numbers refer to the files under `src/`.

## 1. The system

### Components

| component | source | state it keeps | operations |
|---|---|---|---|
| site builder | `build_site.py` | `index.html`, `posts.html`, `tags.html`, `posts/<slug>.html` | parse `posts/*.md`, generate sections, rewrite the three pages, write a page per post, call the restyler |
| company fetcher | `space_ecom/fetch_companies.py` | `startups/<idx>.json`, `raw/`, `logs/`, `summaries.json` | per company: two searches with retries, two pages, one record; at the end a summary; `--resume`, `--only` |
| company report | `space_ecom/build_digests.py`, `build_scaffold.py`, `assemble.py` | `summaries.json`, `digests.json`, `report.html` | merge records; make tables with two markers; replace the markers by fragments |
| paper download | `pd-separation-kvcache-research/.../download_papers.sh` | `papers/<id>.pdf`, `metadata.tsv` | skip, request, retry, log one row |
| report restyler | `scripts/restyle_reports.py`, `verify_restyle.py` | the report pages | `main` returns at once (line 266); the transformation below it is dead code |
| markdown and contents | `build_site.py` 200-286, 534-550 | none | text to HTML, list of headings |
| search in the browser | inline scripts of the pages | the text typed | filter `SEARCH_DB` / `POSTS_DB` |
| report syncing | `sync_reports.sh` (named in `build_site.py:8`, not in the repository) | the report directories | copy the reports, then call the build |
| company helpers | `print_digest.py`, `test_engines.py` | none | print a record, try out engines |
| GIN search scripts | `deepgemm_research/08_gin_research/scripts/gin_search*.py` | saved pages | search, save, one after the other |
| page fetch helpers | `pd-separation-kvcache-research/*.py, *.js` | none | open a page, print its text |
| free block queue | `V/vllm_v1_core_kv_cache_utils.py` 136-460 | a doubly linked list of free blocks, a counter | take from the front, take out of the middle, put at either end, iterate |
| block pool | `V/vllm_v1_core_block_pool.py` | reference counts, hashes of blocks, the map from hash to blocks, events | allocate, touch, free, cache full and partial blocks, move hashes, evict, reset, take events |
| KV cache manager | `V/vllm_v1_core_kv_cache_manager.py` | the pool, block tables through a coordinator | prefix hits, `allocate_slots`, free, deferred free, evict, reset, delayed caching |
| prefix hashes | `V/vllm_v1_core_kv_cache_utils.py` 460-749, 2188-2294 | `block_hashes` of a request | hash new full blocks, view them at a coarser block size |
| KV cache planning | `V/vllm_v1_core_kv_cache_utils.py` 752-2185 | none: one function | group layers, unify pages, check memory, fit the length, lay out tensors, cut all workers to the smallest |
| model runner | `V/gpu_model_runner.py` | cached requests, persistent batch, rows and tensors of the last step | `_update_states`, `_prepare_inputs`, `execute_model`, `sample_tokens`, drafts, outputs |
| GPU worker | `V/gpu_worker.py` | device, memory sizes | set up, profile, sleep, wake, pass calls on |
| layerwise profiler, memory helpers | `V/vllm_profiler_*.py`, `V/vllm_utils_mem_*.py`, `V/cache_config.py` | trees of times, snapshots of memory | print, measure |
| published reports | everything else | - | pages and data |

### How they interact

* The **author** saves and deletes `posts/*.md` whenever he likes, also while a build runs.
  `sync_reports.sh` changes the reports on disk and *then* calls the build.
* The **build** is one sequential process. It parses all posts once (675), generates every
  section in memory (678-694), then for each page reads it, substitutes, truncates and writes it
  (697-723), then reads each post a second time for its page (726-729, 553). The pages are their
  own templates: the markers a build needs are in the file that the last build wrote.
* Several **fetch processes** run side by side on one directory, each with its own `--only` list
  (`run1.log` to `run4.log`), and all write `summaries.json` when they end.
* The **report scripts** are started by hand, possibly while fetch processes run. They read the
  records and `summaries.json` that those write, and `report.html`, which two of them write.
* The **download script** is started again until it has everything; it meets the files of the
  runs before it.

* The **scheduler** (not in the repository) calls the cache manager for each request of each step:
  hits, slots, frees. The manager calls the block pool, and the pool the free queue.
* A request's **hasher** runs when it is made and whenever tokens are appended; the pool's map is
  keyed by these hashes.
* The **planner** turns the layers and the memory of all workers into the number of blocks the pool
  is made with and the tensors the runner allocates.
* The **engine** calls the runner twice per step, `execute_model` and `sample_tokens`; in asynchronous
  mode it schedules the next step before the output of this one is there.

In the scripts there are no locks, no temporary files and no renames anywhere. `open(..., "w")`, `write_text`,
`json.dump` and `curl -o` truncate first and write afterwards.

### What is hard

Interleaving of the author with the build and of processes with one another; a kill between
truncation and write; files that are torn when they are read; text of posts used as
regular-expression replacement; state that is read twice (posts), or checked in one place and
trusted in another (reports on disk, `--resume`); retries that use what an earlier attempt left;
counters and logs that must agree with the disk after several runs. In the cache: a list relinked by
hand; a block that is referenced, hashed and free in ways that three structures must agree on;
entries made for tokens that are drafts or still on the network; gates that refuse requests and
may refuse the last one; hashes that go by fewer inputs than the cache content depends on. In the
runner: counts sent to the GPU as guesses and corrected later, rows that move between two steps,
requests that leave and return under the same name, outputs that arrive after their request has
changed. `PROJECT.json` lists each of
these hazards at its line.

### What makes each component correct

* *Builder*: a page shows one parse of the posts, and all pages the same one; a listed post has
  its page, and that is not older than what is listed; markers are never lost by a build that is
  left alone or that fails; a build on unchanging sources leaves the posts that they call for,
  whatever happened before.
* *Fetcher*: a record's answers are those of the result pages beside it; a written record stays under
  `--resume`; no company disappears without a record or an error file; every process ends.
* *Report*: a merge that is left alone is complete and current; a report that is not cut never has one
  half filled in and the other missing; every script ends.
* *Download*: the log never contradicts the disk; it lists what the run requested, once each; the
  counters add up; whole papers are never touched; every run ends.
* *Free queue*: it is a queue: no order of calls loses, doubles or reorders a block.
* *Block pool*: a block is free exactly when nobody references it; the map and the hashes of the
  blocks agree; a hit holds the very prefix that was asked for; a consumer of the events never
  believes too much.
* *Cache manager*: references are holders; a hit holds the prefix it was asked for, also while tokens
  are drafts or still on their way; what a step reads is there; a lone request gets in; admission
  beside others leaves the watermark.
* *Prefix hashes*: equal hashes mean equal prefixes, and a prefix has one hash, whenever it is computed.
* *Planning*: the plan fits the memory, keeps layers apart, serves one request, and wastes no length.
* *Model runner*: the model reads exactly the sequence it wrote, whatever was guessed, and every
  token reaches its request once.

## 2. Modules

```
SiteBuild        <- SiteBuild_proof
                 <- MC_SiteBuild
CompanyFetch     <- MC_CompanyFetch
  CompanyReport  <- ReportScripts_proof      (CompanyReport EXTENDS CompanyFetch: the scripts
                 <- MC_CompanyReport          run beside the fetch processes, on their files)
PaperDownload    <- ReportScripts_proof      (the proof module of all three)
                 <- MC_PaperDownload

FreeQueue                                   (abstract: a queue without links)
  FreeBlockQueue <- FreeBlockQueue_proof    (the linked list, shown to implement it)
                 <- MC_FreeBlockQueue
BlockPool        <- BlockPool_proof         (the methods of the pool, as operators on its state;
                                             the proof module has the lemmas on each of them)
  PoolCalls      <- PoolCalls_proof         (the pool under every order of calls)
                 <- MC_PoolCalls
  KVCacheManager <- KVCacheManager_proof    (the manager composed with the pool)
                 <- MC_KVCacheManager
BlockHashes      <- KVCacheUtils_proof      (both model kv_cache_utils.py; one proof module
                 <- MC_BlockHashes           holds the theorems of both)
KVCacheConfig    <- KVCacheUtils_proof
                 <- MC_KVCacheConfig
ModelRunner      <- ModelRunner_proof
                 <- MC_ModelRunner
```

Names follow the source. Text is abstract everywhere: a version of a post, the results of a
search, the body of a PDF are members of small sets. The pool takes the free list as a sequence,
which is what `FreeBlockQueue` is shown to implement.

### SiteBuild

| action | code | remark |
|---|---|---|
| `StartBuild` | 190-192, 674 | `glob` fixes the list of files |
| `ParsePost` | 157-188 | one file, the newest name first; a deleted file aborts (158), a file without front matter is no post (160-162) |
| `Generate` | 678-694 | all sections from the one parse; only the cards look at the disk (443) |
| `ReadPage` | 697-706, 713-714, 720-721 | substitution per section; text that `re.sub` rejects aborts, and so does a page that ends inside a character (`split`) |
| `TruncatePage`, `FlushPage`, `WritePage` | 708, 715, 722 | `open("w")`; any prefix of the sections, with a whole or half a character at its end, may be in the file before the write is complete |
| `RenderPost`, `TruncatePostPage`, `WritePostPage` | 726-729, 552-668 | second read of the post |
| `RestyleReports` | 732-743 | the restyler changes nothing and the build ends |
| `Crash` | - | at every step |
| `SavePost`, `DeletePost` | - | the author, at every step |
| `SyncReports` | - | only while no build runs, as the docstring (8) says |

A page is a function from its sections to a cell: the posts shown (with the version of each),
the reports shown, and whether the end of an older array follows (`rest`). `NoMarker` stands for
a section whose markers are not in the file. Sections whose generator takes neither posts nor
reports (`SIGNAL_GRID`, `PATHS_GRID`, `LATEST_POSTS`, `FOOTER`) are constant text and left out, as
are the sections of the templates that the build does not touch. The numbers of posts and
reports in the hero follow from what the full listings show and are left out.

The *kinds* of text a post may hold are those that the code treats differently: `plain` (no front
matter), `post`, `untagged` (a post whose tags are empty, 177: no list of tags has it), `escape` (a backslash `re.sub` rejects), `closer` (`];`, where the pattern of
706 and 714 ends) and `multiline` (a line break that `json.dumps` escapes and `re.sub` restores).

### CompanyFetch

One process per element of `Procs`, each with `--only` = `Assignment[p]`. `Load` is one attempt of
`goto_with_retry` (71-83): a good page ends it, a short one (a captcha) or an exception is
retried, and after `TRIES` loads the *last content read* is used, if there was any.
`TruncateSerp`/`SerpParsed` write the result page over the one of an earlier run and then parse it (96-104;
`raw` holds one page per query, `redone` remembers the companies whose record is older than their pages); `OpenPages` opens the best candidates
(105-131, which ones is abstracted to how many answer); `TruncateRecord`/`WriteRecord` are line
164; `ResearchRaises` is any exception in the `try` (162-171); `TakeCached` is `--resume` (158-161)
with `json.loads` outside the `try`; `TruncateSummaries`/`WriteSummaries` are line 179. `Crash`
kills a process anywhere; `Start` starts it again. A failed write of a record leaves a torn file
and an error file.

### CompanyReport

Three scripts on the same disk, one at a time, beside the fetch processes. `BeginDigests` takes
the list of record files, `Merge` reads one of them (a torn one ends the script), then
`summaries.json` and `digests.json` are written. `MakeTables` reads both and makes a text with two
markers. `InjectProfiles` and `InjectNonStartup` read the two groups of fragments one after the
other and replace the marker *if it is there*. `TruncateReport`/`WriteReport` write in place; a script killed in
the write leaves a prefix of the text (`PartWritten`, `Cut`), or one that ends inside a character and that nobody
can read. A cut report lacks its closing tags (`end`); `assemble.py` takes it for a report and never completes it.
`WriteFragments` rewrites one group at any time. Of a digest only what can tell records apart is
kept; the scoring of snippets (build_digests.py 22-52) is abstracted.

### PaperDownload

`SkipExisting` (55-58), `Request`, `CurlReceives` (a part of the body is in the final file),
`CurlEnds` (62; `200` alone means a whole, possibly empty, body), `Accept` (63-68), `Retry` (69-73),
`GiveUp` (74-78), each followed by the counting of the main loop (85-99, `Settle`); `Kill` anywhere,
`StartDownload` again. An entry is a sequence of tokens, because the script splits it at a tab (87) that
the entries do not contain.

### FreeBlockQueue, FreeQueue

Each method of `FreeKVCacheBlockQueue` reconnects one chain of blocks (`Relink`): `popleft`,
`popleft_n`, `remove`, `append`, `append_n`, `prepend_n`. `iter_blocks_after` is a generator: it may be
suspended (`cursor`) while other methods run, and `ResumeIter` takes its next step. A caller hands
back only blocks it holds (`out`), as `BlockPool` does. `FreeQueue` says the same without links;
the refinement maps its queue to the walk from the fake head. `Nth` is the block reached after so
many steps along `next_free_block`; `get_all_free_blocks` and `popleft_n` read the list through it.
The errors raised on broken links
are the guards of `remove` and `popleft`; `LinksAgree` says they never bite.

### BlockPool, PoolCalls

A pool is a record: free list, `ref_cnt`, the primary hash and the further hashes of each block, the map
from keys to blocks, and the events not yet taken. A hash is the sequence of tokens it stands
for, since it chains over its whole prefix (the hash function itself is `BlockHashes`).

| operator | code |
|---|---|
| `get_one_block`, `contain`, `insert`, `pop` | `BlockHashToBlockMap`, 45-127 |
| `get_cached_block` | 198-223 |
| `MayCacheFull`, `cache_full_blocks` | 225-371, with the assertion on shorter partial entries |
| `emit_cached_block_events` | 373-443 |
| `MayCachePartial`, `cache_partial_block` | 445-544 |
| `_insert_block_hash`, `_remove_cached_block_hashes`, `move_block_hashes` | 546-645 |
| `get_new_blocks`, `_maybe_evict_cached_block` | 647-699 |
| `touch`, `free_blocks`, `evict_blocks`, `reset_prefix_cache`, `take_events` | 701-828 |

`PoolCalls` has one action per method, with arguments that a caller can have: it caches and frees
blocks it holds, and enters a hash for a block only when it has written that prefix into it
(`content`, a history variable). `view` is what a consumer believes after replaying the events:
a key that was stored and not dropped since (`Replay`). `EmitReused` is the one call of
`emit_cached_block_events` (`V/vllm_v1_core_kv_cache_manager.py` 243-262): it announces as many blocks as a hit has. In
a group of `Sparse` (sliding windows and Mamba) a hit has null blocks in front, whose hashes need not be cached. What the code does in a loop over a list
(`free_blocks`, the caching of full blocks) is a recursive function over the length of the list, or is
said of the whole list at once (`Filter`, `Evicted`, `Gains`).
Metrics are left out, as is the `ref_cnt` of the null block, which the code calls not maintained.

### KVCacheManager

| action | code |
|---|---|
| `ScheduleWaiting`, `ScheduleRunning` | `get_computed_blocks` (224-241) and a successful `allocate_slots` (283-504): `FullSequenceFits` 411-427, `Trimmed` 434-447, `SlotsFit` 449-466, `WithComputed` 468-479, the new blocks, `ToCache` 493-501 |
| `Preempt`, `StayWaiting` | `allocate_slots` that returns `None` after what it has already trimmed, and what the scheduler then does |
| `EndStep` | the scheduler begins its next step: nothing is scheduled in it yet (`scheduled`, the argument `has_scheduled_reqs` of 295, 326-327) |
| `StepDone` | the output of a step; rejected drafts take the computed count back |
| `StartLoad`, `LoadDone` | remote tokens: delayed caching, then `cache_blocks` (660-669) with all that arrived, or less |
| `FreeRequest` | 506-514 |
| `pop_blocks_for_free`, `FreePopped` | 535-546, the second half whenever the caller likes |
| `EvictBlock`, `ResetPrefixCache` | 548-570 |

The coordinator below the manager and the scheduler above it are not in the repository. The first
is one attention group with a sliding window, as `allocate_slots` uses it; the second makes every
sequence of calls the docstrings allow. `flight` holds the steps that are scheduled and not
processed, `scheduled` the requests scheduled so far in the step being made: it is these, not the
requests that run, that the watermark goes by (403-409). The events for a hit (243-262) are in `PoolCalls`.
Statistics and `new_step_starts` are left out.

### BlockHashes

A hash is the list of everything that was fed to it: per block, the tokens and the extra keys. So
two hashes are equal exactly when their inputs are, and the properties speak of what is fed in, never
of collisions. `AppendTokens` is one call of `append_output_token_ids`, which runs the hasher from
the hashes that are there (692-749). Images, adapters and salts are an input of the request; the
scan for the images of a block (467-514) and its return value, the image the next block starts from, are
modelled as they are, with the index -1 of a later call. The keys of prompt embeddings and the choice of block sizes
(532-555, 626-689) are left out.

### KVCacheConfig

`get_kv_cache_configs` is one function of the layers, the memory and the settings, so a state is an
input and its plan. The definitions follow the functions of the source one by one: grouping
(`get_kv_cache_groups` with its four ways), `unify_kv_cache_spec_page_size`, the memory of a request,
the binary search of `_estimate_max_model_len_from_groups`, tensors of one group, of several groups
and packed, projection to a worker and the cut to the fewest blocks (2153-2166). A plan that raises
is `Failed`. Layers are numbered in the order of the dictionaries; loops over lists (`sum`, a filter,
the candidates of `_approximate_gcd`, the search) are recursive functions. `IsCase` says what an input is: at least
one worker, finitely many layers with positive block and page sizes, hidden-state layers whose page is a multiple of
their block (a token has a whole number of bytes), any memory and settings.
`kv_cache_interface.py` is not in the repository; `MaxBytes`, `Merge` and `IsUniformType`
are what the planner relies on. The annotation of EAGLE groups and log lines are left out.

### ModelRunner

A token is its request, its position and a version, so that a wrong token is visible wherever it
comes from; `truth` is what the model has said and `computed` what the GPU has computed.

| action | code |
|---|---|
| `Step` | the scheduler's output, then `execute_model` (4097-4466): `_update_states` (`States`, 1163-1537), `_may_reorder_batch` 1100-1123, `_prepare_inputs` 1943-2239 with `_prepare_input_ids` 1755-1884 and `_calc_spec_decode_metadata` 2815-2888 |
| `Sample` | `sample_tokens` (4483-4771): `_sample`, `_bookkeeping_sync` 3655-3794, drafts, counts of valid tokens; in asynchronous mode the broadcast of the last rank (4773-4788) and, on the others, its reception (4790-4818) |
| `Deliver` | `AsyncGPUModelRunnerOutput.get_output` (252-343) and what the scheduler takes from it |
| `ForcePreempt`, `Finish`, `Resubmit`, `Stream` | `reset_prefix_cache`, abort or end, a new request with the same id, the next input of a streaming session |

The scheduler and `InputBatch` are not in the repository. What the model takes from how the runner
uses them:

* `remove_request` also forgets the row of the last step (`prev_req_id_to_index`).
* Asynchronous scheduling runs one step ahead, as the comment at 1337-1347 assumes: an output is
  delivered when two are under way or nothing more was scheduled.
* A preempted request is scheduled again only when its outputs have arrived; placeholders of a
  request that a step skips are dropped; the token budget cuts at most one request short.
* The kernel behind 2123-2152 adds the number of valid tokens to the count the GPU had.
* An output names its requests and nothing else (4697-4711), so a late one cannot be told from one of a new
  request with the same id, or of the same request after a forced preemption. The scheduler is taken to
  pair an output with the step it scheduled, and to leave out the requests that it has finished or
  preempted by force since (`owed`, `Disowned`).
* The last rank discards the rows the scheduler expects no token from; on a rank that does not sample, an
  output under way is the one of the last rank (`InvalidRows`).

`stale` is a history variable: the requests that a forced preemption left with placeholders for dropped
tokens on an asynchronous rank that does not sample, while the scheduler knows no output of them. Nothing replaces these
(1400 is for other ranks, 1430 for requests with outputs); section 6 says what follows.

Attention metadata, slot mappings, multimodal and encoder inputs, Mamba states, LoRA, pooling, n-gram
drafting, graph capture, profiling and cache allocation are left out.

## 3. What TLC checks

Twelve runs. Eleven finish with every property holding; `hashes_grown` exhibits a comment that the
code does not keep (section 6).

| run | instance | shows |
|---|---|---|
| `site` | 2 posts, tagged or not, 1 report, 3 edits, 2 builds, 1 crash; 1,278,784 states | `OneParsePerPage`, `PagesAgree`, `ListedPostsHavePages`, `MarkersOnlyLostByCrash` |
| `site_slugs` | two posts with one slug, 3 edits, 2 builds, 1 crash; 464,402 states | `CleanBuildIsCurrent`: whatever happened before, a build that is left alone makes every listing whose markers survived current, and the older post keeps the page; `UndisturbedBuildSucceeds`: it gets there, unless a kill left half a character in a page |
| `fetch` | 2 processes with 1 company each, 1 query with 2 loads, 3 starts with or without `--resume`, 1 crash; 383,015 states | `RecordsAreTraceable`, `NoCompanyDropped`, `ResumeKeepsRecords`, `ProcessesEnd` |
| `report` | 1 fetch process with 2 companies, 3 script starts, 1 kill, each group of fragments written once; 941,201 states | `MergeIsComplete`, `HalvesFillTogether`, `JobsEnd` |
| `papers` | 2 papers, 2 attempts, 3 runs killed anywhere; 655 states | `RowsMatchFiles`, `WholePapersStay`, `RunEnds` |
| `queue` | 4 blocks; 2,625 states | `LinksAgree`, `IterYieldsFree`, and the refinement `ImplementsQueue` |
| `pool` | 3 blocks with the null block, 2 groups, one of them with a window, blocks of 2 tokens hashed at each token, 2 references; 1,078,558 states | `FreeListExact`, `HashesAgree`, `HitsServeTheirPrefix`, `EventsNeverOverstate` |
| `manager` | 2 requests that share a block, 3 usable blocks of 2 tokens, window 2, 1 draft, 2 steps in flight, watermark 1; 267,509 states | `RefsAreHolders`, `HitsServeTheirPrefix`, `WindowIsBacked`, `LoneRequestIsAdmitted`, `AdmissionKeepsWatermark` |
| `hashes` | 2 requests with up to two images, an adapter, salts of which one has the name of the adapter, blocks of 3 and 6 tokens; 78,400 states | `PromptBlocksSeparated`, `CoarseHashesCoverTheirBlocks`, `HashIndependentOfGrowth` |
| `hashes_grown` | the same | `GrownBlocksSeparated` is violated |
| `config` | 20 models on one or two workers, 5 memories each, 2 lengths, 3 overrides, every setting; 23,040 states | `PlanFitsMemory`, `LayersKeepApart`, `GroupsAreServable`, `AutoFitIsLongest`, `EnoughBlocks` |
| `runner` | 2 requests, 6 modes, 1 draft, sequences of 4 or 5 tokens, 1 preemption or reused id; 464,443 states | `InputsAreTheSequence`, `DiscardsAgree`, `OutputsReachTheirRequest`, `BookkeepingIsTrue`, and no deadlock |

Some properties are stated in the modules, hold on these instances and are not part of the runs,
because one in them says nearly the same or more: the `TypeOK` of each module, `RowsAreTheRequested` and
`CountersAddUp` of `PaperDownload`. To check one, name it in a `.cfg`.

Some properties of the runs leave out exactly the case in which the code is at fault; section 6 has each of these
cases: `UndisturbedBuildSucceeds` (a page that ends inside a character), `RecordsAreTraceable` (pages written
again before a failure), `EventsNeverOverstate` (groups with null blocks in a hit), `PromptBlocksSeparated`
(a salt in the place of an adapter), `GroupsAreServable` (a token larger than the common page), `EnoughBlocks`
(page sizes that the memory check does not charge), `InputsAreTheSequence` and `DiscardsAgree` (stale placeholders).
The inputs of the runs have these cases, except where the text here says otherwise, and each of the properties is violated when its
exception is taken away.

### Why the bounds are enough

* **Builder.** Every property relates a page to the posts, one post to another, or a post to its
  page: two posts give an order, a selection that is not everything (`RECENT` = 1) and a post that
  stays while the other changes. Three edits allow save, save again and delete within one build;
  two builds allow every state a build can leave to be the template of the next, and one crash
  makes any of these states torn. A third build meets nothing the second does not: what the properties
  of the runs can see of a page is which markers it has and whether it can be read, and all
  combinations occur after one. `closer` and `multiline` change only `rest` and line ends, which
  the properties of section 6 speak of, and are not in the runs. `MarkersOnlyLostByCrash`, `OneParsePerPage` and `PagesAgree` are proved without bounds.
* **Fetcher.** With lists that do not overlap, processes meet at `summaries.json` only; two of
  them suffice for it. Three starts let one process be killed, resumed, and the other write its
  summary before, between and after, and one be run again without `--resume` over what it left. Two loads are the first and the last. The loop over
  companies (a list of two) is exercised by `report`.
* **Report.** Three starts are the whole chain digests, scaffold, assemble, and also two merges
  around a fetch process that ends between them. Two companies allow a summary that holds one and
  lacks the other. One kill cuts any of the texts at any of its parts. Longer chains, with `assemble.py` run twice, are covered by the proof.
* **Download.** Two papers give a first and a last entry; two attempts a first and a last; a third
  run meets what was left by a run that met what another left.
* **Free queue.** A relinking touches at most the first, a middle and the last block and their
  neighbours; four blocks give a middle block with two real neighbours, and lists of two to give back.
  All three properties are proved for any number of blocks.
* **Pool.** Two usable blocks are enough for one to be reused while the other is a duplicate under the same
  key; hashing at each token of a block of two makes entries that are partial, promoted and moved.
  One event is queued at a time (`MaxEvents`): whether a key is believed depends only on the last event
  that stores or drops it. The group with a window announces hits whose first block is null. All four properties are proved for any blocks, groups, tokens and bounds.
* **Manager.** Two requests of five and four tokens over three usable blocks: they share one, do not fit
  together at full length, and so meet the watermark, the gate, failed allocations and preemption.
  A window of 2 with drafts and two steps in flight is the smallest in which a rejection moves
  the window back over a block border. Tokens that are loaded remotely are on
  their way while the other request looks for hits. All but `HitsServeTheirPrefix` are proved for any requests and sizes.
* **Hashes.** Prompts end inside a block, at offsets where images fill a block, cross its border, or share
  it; growth by one or two tokens completes a block in one call or two. Four images would add no new case,
  since `Scan` looks at neighbours only. All three properties are proved for any images, prompts, block
  sizes and growth.
* **Planning.** The inputs cover each way of `get_kv_cache_groups`, hidden-state layers whose token is smaller
  and larger than the common page, packed groups with all and with some of their page sizes on a stage, each layout of tensors, equal and
  unequal stages, memories from none to ample with remainders, and overrides above and below them.
* **Runner.** Two requests give rows that move when one leaves. Sequences of 4 tokens allow a prompt in
  chunks and two samples; with drafts in asynchronous mode a rejection after a draft needs a fifth.
  One restart allows every request to leave and return once; two drafts per row differ from one only
  in loops over a row, at the price of the state space.

### Fairness

Weak fairness on the steps of a running program, and on nothing else: `WF(BuildStep)`,
`WF(Step(p))` for each fetch process, `WF(JobStep)`, and the shell script's steps. The programs are
sequential and every call they make returns: `page.goto` has a timeout (74, 119, 152), `curl` has
`--max-time` (62), the rest is local. Nobody has to start anything: `StartBuild`, `Start`, `Begin*`,
edits, kills, exceptions, and the partial arrival of data (`FlushPage`, `CurlReceives`) are
not fair. `CHECK_DEADLOCK FALSE` is set because the system rests when nobody starts anything.

The vLLM modules are checked for safety only: progress there depends on the scheduler, which is not in
the repository. What the code itself owes to progress is stated as a safety property,
`LoneRequestIsAdmitted`. `runner` checks deadlock: its engine always has something to do, if only to finish
a request. The other configurations say `CHECK_DEADLOCK FALSE`: requests are done, a plan is made once, and the bounds end behaviours.

### Mutants

Each property of each passing run comes with a mutant of a definition of the code, written beside
it ("mutant"), under which TLC finds the property violated: for example pages made from
the files as they are now instead of from the one parse (`RegeneratedNow`), a `--resume` that trusts its
memory (`CachedInMemory`), a retry that accepts any body (`AcceptedBody`), a list that is relinked in one
direction (`RelinkForward`), hits that are not referenced (`WithUntouched`), a watermark that is kept from
a lone request (`AlwaysWatermark`), a binary search that stops one early (`EstimatedLenEarly`), a
correction off by one (`CorrectionOffByOne`), a resumed request taken for one that goes on
(`RemovedUnlessScheduled`).

## 4. What is proved

All theorems hold for every value of the constants that satisfies the named assumptions
(`SiteBuildAssumption`, `MarkerAssumption`, `PageAssumption`, `CompanyFetchAssumption`, `CompanyReportAssumption`,
`PaperDownloadAssumption`, `FreeBlockQueueAssumption`, `BlockPoolAssumption`, `NoneAssumption`,
`PoolCallsAssumption`, `KVCacheManagerAssumption`, `BlockHashesAssumption`, `KVCacheConfigAssumption`, `RunnerAssumption`), in particular for any number of
posts, builds, runs and kills, and of blocks, requests, tokens, images and steps in flight. The
assumptions are types, that two files have different ranks and two papers different identifiers,
that the values for a missing marker, a missing page and a torn page are not the content of one, that
no link, fake block or missing hash is a block or a key, that a block is a whole number of hash blocks
(an assertion of the code), that the pool has its null block, and that the manager has finitely many
requests and, as it is modelled, one group. `BlockHashesAssumption` says of a request what the code
notes or relies on: images are in the order of their places and do not overlap ("we assume mm_features are
sorted", 473), they end inside the prompt, whose placeholder tokens are where they are, and nowhere else. Names of
adapters and salts may be equal; the key of an image, a pair, equals neither. `KVCacheConfigAssumption` says that every case is one in the sense of
`IsCase` (section 2), and that a step batches at least one token.

| theorem | property | argument |
|---|---|---|
| `SiteBuild_proof!Typing` | `TypeOK` | inductive together with `Rendered`: a post page is written only when a post has been rendered |
| `SiteBuild_proof!OneParseHolds` | `OneParsePerPage` | `OneParseInv` states it for the buffer too; a file that is being written holds a prefix of the buffer, and a prefix of one parse is one parse; a selection of the posts is again a selection of what a listing shows |
| `SiteBuild_proof!MarkersHold` | `MarkersOnlyLostByCrash` | `MarkersInv` adds that without a crash the buffer has all markers, because it was read from a page that had them |
| `SiteBuild_proof!PagesAgreeHolds` | `PagesAgree` | `AgreeInv` says which pages already show the present parse, by the builder's place in the order index, posts, tags; what a section shows of a parse follows from what a listing, or for the lists of tags another of them, shows of it |
| `SiteBuild_proof!PostPagesHold` | `ListedPostsHavePages` | `VersionInv`: a source that is still there is no older than its parse; `RenderInv`: a post that is no longer to be rendered has its page, except while the one of the same slug is being written |
| `SiteBuild_proof!CleanBuildHolds` | `CleanBuildIsCurrent` | `CurrentInv`: while the sources do not change, what is parsed, written and rendered so far is what they call for; the posts still to render are older than all rendered ones, so the oldest of a slug has the last word |
| `ReportScripts_proof!CursorHolds` | - | `TypeOK` with `OnList`: a process at work is at the first company of what is left of its list, and one that writes the summaries has nothing left |
| `ReportScripts_proof!TraceHolds` | `RecordsAreTraceable` | `WorkTraced` says the same of the record still being made and the pages written for it so far, and that there is none between companies; a company whose pages change is in `redone` until its record is written. Under `Apart`, see below |
| `ReportScripts_proof!DropHolds` | `NoCompanyDropped` | `DropInv`: what has left the list of a live process is accounted for, from its first step on |
| `ReportScripts_proof!ResumeHolds` | `ResumeKeepsRecords` | under `Apart` (no two lists share a company), which the run instantiates; `KeepInv`: a process works on a company of its own list that has no whole record |
| `ReportScripts_proof!HalvesHold` | `HalvesFillTogether` | `HalvesInv` says what `assemble.py` holds between its two replacements, when the halves do differ in memory; a cut text has no end, and no replacement gives it one |
| `ReportScripts_proof!MergeHolds` | `MergeIsComplete` | `Merged`: while nothing it reads has changed, the files no longer in the list of `build_digests.py` are merged, and after the list all; `Places` separates its steps from those of the other scripts. The types of the fetchers are carried over from `CursorHolds` |
| `ReportScripts_proof!DownloadTyping` | `DownloadTypeOK` | inductive |
| `ReportScripts_proof!RowsTruthful` | `RowsMatchFiles` | `RowsInv` adds that rows are of entries already passed, so that the one file that changes has no row yet, and that code 200 means a whole or an empty body |
| `ReportScripts_proof!PapersStay` | `WholePapersStay` | `AskedWhenMissing`: a request is made only while the file is not whole, and curl leaves a whole file only with code 200, after which nothing deletes it |
| `FreeBlockQueue_proof!TypeCorrect` | `TypeOK` | the counter is the length of a sequence of distinct blocks, so it is at most their number |
| `FreeBlockQueue_proof!LinksAgreeAlways` | `LinksAgree` | `Inv`: some sequence of the blocks nobody holds has both chains of links running through it |
| `FreeBlockQueue_proof!QueueIsImplemented` | `ImplementsQueue` | the walk returns that sequence (`WalkIsQueue`); every method replaces one piece of it by another, which is a move of `FreeQueue` |
| `FreeBlockQueue_proof!IteratorYieldsFree` | `IterYieldsFree` | a link of any block leads to a block of the sequence, to the fake tail or nowhere |
| `PoolCalls_proof!TypeCorrect` | `TypeOK` | part of the next ones |
| `PoolCalls_proof!FreeListIsExact` | `FreeListExact` | each method keeps it alone |
| `PoolCalls_proof!HashesAgreeAlways` | `HashesAgree` | `Agree`: a block is under a key of the map exactly when it carries the key, each key once |
| `PoolCalls_proof!HitsServe` | `HitsServeTheirPrefix` | `Served`: whatever block is under a key, not only the one a lookup returns, holds the prefix of the key; rests on `Agree`, since a block that is written again must be under no key |
| `PoolCalls_proof!EventsAreTrue` | `EventsNeverOverstate` | `Truthful`: what the consumer will believe after the queued events is cached, in groups without null blocks; each block that loses a hash announces it, though another may still carry it, so that a consumer may believe too little, never too much |
| `KVCacheManager_proof!ReferencesAreHolders` | `RefsAreHolders` | `Backed`: the reference count of a block is the number of tables and deferred lists with the block in it, and none has a block twice |
| `KVCacheManager_proof!WindowIsAlwaysBacked` | `WindowIsBacked` | `NullsSkipped`: the table has null entries only below the window of the last token that is certainly processed, and reaches as far as what is computed |
| `KVCacheManager_proof!AdmissionLeavesWatermark` | `AdmissionKeepsWatermark` | the free hits that are touched and the new blocks that are taken are no more than what the gate counted, which includes the watermark once the step has scheduled another request; also when slots are taken twice (`TwiceMissing`) |
| `KVCacheManager_proof!LoneRequestIsAlwaysAdmitted` | `LoneRequestIsAdmitted` | when nobody else holds a block, all usable blocks are free or its own, by `Backed` |
| `KVCacheUtils_proof!SeparatedHolds` | `PromptBlocksSeparated` | equal hashes have equal tokens and keys block by block, so equal images in each block of the prompt; the block may be a grown one of the other request, whose keys leave out its earlier images, but their placeholders would be in both prompts (`ImagesOfTheOther`). Adapter and salt stand in one list, so the first block tells only the list of the two (`Owner`); from the second on the adapter stands alone |
| `KVCacheUtils_proof!IndependentHolds` | `HashIndependentOfGrowth` | with one image at most, the first and the last are the same (`OneImage`), so the keys of a block depend on its place only |
| `KVCacheUtils_proof!CoarseHolds` | `CoarseHashesCoverTheirBlocks` | a hash flattens to the tokens before the end of its block (`HashCoversItsPrefix`), and the last finer block of a coarser one ends with it (`CoarseBlocks`) |
| `KVCacheUtils_proof!PlansFitMemory` | `PlanFitsMemory` | `PlannedFits`: in each of the three layouts the tensors are whole multiples of the bytes of one block (`LayerTensorsFit`, `PooledTensorsFit`, `PackedTensorsFit`), so that the cut to fewer blocks divides without a rest, and the quotient of the memory by these bytes is the number of blocks |
| `KVCacheUtils_proof!LayersLieApart` | `LayersKeepApart` | `GotGroupsApart`: however the groups are made, no layer is in two or twice in one; with the asserted count (`Covered`) each layer of a worker is in one; `TensorsLaidOut`: each is then in one tensor, and two layers of a group in different ones, or in one allocation behind each other |
| `KVCacheUtils_proof!AutoFitsLongest` | `AutoFitIsLongest` | `MemoryGrows`: a longer request takes no less, in each of the layouts; so all lengths above one that does not fit do not fit (`ShorterFits`), and the search never throws away one that does (`SearchIsLongest`) |
| `ModelRunner_proof!OutputsReach` | `OutputsReachTheirRequest` | for behaviours in which `DiscardsAgree` holds, which `runner` checks and no theorem shows; `RunnerInv`: also between `execute_model` and `sample_tokens`, what is under way for a request is what the scheduler does not know of it. `DiscardsAgree` is what makes the rows that the runner drops those of which nothing was expected (`RowsAreDropped`) |
| `KVCacheUtils_proof!PlansAreTyped` | `PlanTypeOK` | the fewest blocks are those of a worker, and the planned length is one that a search returned or the configured one |

The proofs of `CompanyFetch` first show that a step leaves alone what belongs to the other processes
(`OthersStay`), so that each invariant is shown for the process that acts; the files they share need
`RawSteps`, `LogGrows` and `FileSteps`. `TraceHolds` and `ResumeHolds` assume `Apart`: no two lists share a company, as in
`run1.log` to `run4.log`. Without it both are false: a second process at the same company truncates its pages and its record.

The proofs of `SiteBuild` classify the steps once (`PageSteps`: a step leaves the pages alone,
truncates, flushes or writes one), and each invariant is then shown for those cases.

The proof of `FreeBlockQueue` has one lemma for all methods: `SpliceLinks` says that joining the two
ends of a gap through a chain, as `Relink` does, makes the links those of the spliced sequence, in
both directions, with no link left at the blocks that are gone. A method is then one splice: which
piece, and which chain (`PopLeftMoves` to `PrependMoves`).

The proofs about the pool show for each method once, in `BlockPool_proof`, what it does to the typed pool,
the free list, the map, the events and the content; `PoolCalls_proof` and `KVCacheManager_proof` put
these together, the first for any caller, the second for the one caller that there is. The inductive
invariant of `PoolCalls` is `PoolInv`: types, exact free list, bounded references, `Agree`, `Truthful` and
`Served`. That of the manager is `Sound`: `Backed` (types, exact free list, `Agree`, one key per block,
lists without repetition, references counted) and for each request `RequestOK`. The
latter ties the status, the steps in flight and the computed tokens to the table; without it, for instance, nothing
would stop a waiting request without computed tokens from having a table whose blocks are then lost.
An allocation is followed stage by stage (`TrimStage`, `TouchStage`, `GrowStage`, `CacheStage`), each
of which keeps `Backed` on the way.

The inductive invariant of `BlockHashes` is `IInv`: each request has a hash for each of its full blocks, and hash
`n` stands for the tokens of the blocks up to `n` and for their keys (`HashOf`). The keys of a block are those of
a scan from the first image, if the block ends inside the prompt; behind it they may be those of a scan from
the last one, which is what the calls of the hasher after the first begin with. The step `NextInv`
is `HashesGrow`: appended tokens leave the old blocks alone, and the chain goes on from the last hash.
What the chain hands from block to block is a place in the list of images, not the first one;
`Starts` says which places are right for a block, namely those with only images that end before the
block begins behind them, `ScanSkips` that a scan from such a place finds what one from the first finds, and
`MMKeysFollow` that the place it returns is right for the next block. `KeysContent` says what the keys are: the
images that overlap the block, with their offsets in it, the adapter, and in the first block the salt.

A plan is computed in one step, so the inductive invariant of `KVCacheConfig` (`PlanInv`) says only that it is the plan of its
case; the work is in the lemmas about the functions that compute it. `FineGroup` is what the rest of the planner
needs of a group: it has layers with specs, all of which, or none, are on a worker. `GroupsOfAreFine` shows
it for whatever `get_kv_cache_groups` returns: one group, layers of one page size split evenly, hidden layers put back,
or tuples of MLA layers, whose assertions (`CanTuple`) are used there. `ProjectedAreFine` carries it over to the groups
of a worker. The groups that `FineGroup` allows may still hold a layer twice;
`SingleGroup` says that they do not, and that a plain spec stands for one page size. It holds for each way
to make groups: lists in order, every n-th of a list, parts of a list, tuples (`UniformPageGroupsApart`, `MixedGroupsApart`,
`TupleGroupsApart`). The code asserts only that a worker has as many names in its groups as layers (2144); since no
name repeats, these are all its layers. `LaidOut` is what follows for the tensors: one for each layer
of a group of its own (`LayersLaidOut`), one for the layers at the same place of all groups (`PoolLaidOut`), or a slot in a block
for the k-th layers of one page size (`PackLaidOut`), whose offsets are the sums of the slots before it. It is stated with the exact sizes, so that it
survives the cut to fewer blocks (`CutLaidOut`). The search is a recursive function on the bounds `left`, `right` and `result`; that it is
well defined and ends (`SearchExists`) is an induction on the size of what is left, which both halves shrink (`Halves`).

Where the code goes through a list (the walk of the queue, blocks freed or evicted one by one, tokens
in flight) the model has a recursive function on the numbers up to the length of the list, and the proof
first shows that the function satisfies its equation, then uses `BoundedInduction`, which follows
from the fact that < is well-founded.

The inductive invariant of the runner (`RunnerInv`) holds between any two steps, also while a step is executed and
its tokens are not sampled yet. For each request (`Served`) what the outputs under way bring to it (`AllBrought`, the
at most two outputs counted by cases) is what the scheduler does not know, and an output that is still owed to it has its
row (`Fits`). A request that is finished or preempted by force is taken out of what is owed (`Without`, `WithoutBrings`), and the
tokens that were under way are forgotten on both sides. What was sampled and what is delivered are cut by different
conditions: the truth grows where the scheduler expected a token (`expects`), the output drops the rows that the runner
discards by comparing lengths. That the two are the same rows is `DiscardsAgree`, the premise of the theorem; `InvalidRows` takes
it for granted only on ranks that do not sample and stand for the last rank. There is one lemma for each way a
request can change (`SampleServed`, `DeliverServed`, `OthersServed`, `DroppedServed`, `AlikeServed`).

The theorems about `TypeOK`, `DownloadTypeOK` and `PlanTypeOK` state what the runs no longer name, since the invariants of the proofs
contain it.

**Only model-checked**: everything under fairness (`UndisturbedBuildSucceeds`, `ProcessesEnd`,
`JobsEnd`, `RunEnds`), for the prover has no fairness or `ENABLED`; two properties of `KVCacheConfig`;
three of `ModelRunner`; and `HitsServeTheirPrefix` of `KVCacheManager`, which needs that what the manager enters into the map
has been computed, through rejections and late loads. Of the planner these are `EnoughBlocks` and `GroupsAreServable`, each
with the exception that section 6 describes. The three of
`ModelRunner` (`InputsAreTheSequence`, `DiscardsAgree`, `BookkeepingIsTrue`) speak of the rows of the batch and of their inputs, which
`States` and `_prepare_input_ids` compute with sums over sets and lists (`CuSum`) and an order chosen by `SetToSeq`. `TypeOK` of
`KVCacheManager` and of `BlockHashes` has no theorem of its own.

## 5. What is not modelled

* `restyle()` and `verify_restyle.py`: `main` returns before it (line 266), so nothing of it ever runs
  on the pages; the verifier only reads.
* `md_to_html`, `extract_toc`: text functions without state.
* The wording and layout of sections, the ranking of tags and of candidate pages, the scoring of
  digests.
* Scripts in the browser, helpers that print, one-shot fetch and search scripts: no state that another
  component reads.
* Two builds at once: the build is started by hand or by `sync_reports.sh`; nothing documents or
  prevents parallel builds, and no run has them.
* The GPU worker: calls into the device and the runner, whose effects are sizes of memory that no file
  here computes. The layerwise profiler and the memory helpers measure and print.
* Of the model runner, what section 2 lists as left out: most of it is tensor work that prepares kernels and keeps no
  state between steps, and the encoder cache and Mamba states depend on modules that are not here.
* Of the prefix hashes, prompt embeddings and the choice of block sizes; of the planner, the EAGLE annotation.
* The hash function: equal inputs give equal hashes and unequal ones unequal hashes.

## 6. Where the code differs from what the repository says

Shown by a run:

* `hashes_grown` - a block that generated tokens complete is hashed with the last image only, because
  "we only need to consider the last mm input" (`V/vllm_v1_core_kv_cache_utils.py` 717-720). When the
  prompt ends inside a block with two images, two requests that differ in the first image get the
  same hash, and one is served the KV values of the other.

Stated as a property of a module and violated when a `.cfg` names it, or when a property of a run is stated without
its exception, without a run of its own:

* `BuildMakesWholeSite` (`SiteBuild`, one post and one crash) - a build killed while it writes a page takes the
  markers along; later builds succeed and do not bring the sections back (`build_site.py:6`,
  "complete site").
* `SearchDataIsArray` (`SiteBuild`, a post with `closer` text) - `];` in an excerpt ends the data early
  for the next build: the end of the old array stays behind the new one (706; `experience.md:85`).
* `SearchResultsExist` (`SiteBuild`, one report) - the search data lists reports that are not on disk (458-460
  beside 443; `experience.md:88`).
* `UndisturbedBuildSucceeds` without its last exception (`SiteBuild`, one crash) - a build killed in a write may leave
  half a character at the end of a page; `open(..., encoding="utf-8").read()` (697, 712, 719) then raises in every later
  build, until somebody repairs the page.
* `RecordsAreTraceable` without `redone` (`CompanyFetch`, two starts) - the page of a search is written over (96) before
  the record is: a run without `--resume` that fails or is killed in between leaves a record beside pages
  it was not made from.
* `ResumedRunsLive` (`CompanyFetch`, one process, one crash) - a record left half written ends every
  resumed run (159; line 8).
* `SummariesAreCombined` (`CompanyFetch`, two processes) - the last process to end overwrites the summary of
  the others (179; line 6).
* `FilesAreNamedByArxivId` (`PaperDownload`) - the entries hold a backslash and a `t` where the script
  splits at a tab, so that the whole entry becomes the file name and part of the URL (87; line 5).
* `SkipsAreCounted` (`PaperDownload`, two runs) - a skipped paper is counted as OK (90-91; line 103).
* `UnhashedEvictedFirst` (`PoolCalls`) - a comment of `free_blocks` says that blocks without a hash are
  evicted first (`V/vllm_v1_core_block_pool.py:738`); a free block that `evict_blocks` takes the hash from
  stays behind cached ones.
* `EventsNeverOverstate` for groups of `Sparse` (`PoolCalls`) - the docstring of `emit_cached_block_events` says that "the
  blocks are already cached" (`V/vllm_v1_core_block_pool.py` 382-384), but its caller counts the null blocks of a hit too
  (`V/vllm_v1_core_kv_cache_manager.py` 247-262): `BlockStored` goes out for hashes that the map never had.
* `PromptBlocksSeparated` with `<<lora, salt>>` in place of `Owner` (`BlockHashes`, run `hashes`) - "each hash uniquely fingerprints
  the prefix" (`V/vllm_v1_core_kv_cache_utils.py` 700-701), but adapter name and cache salt enter one list without tags
  (578-588): the first block of a request with salt `x` and no adapter has the hash of one with adapter `x` and no salt.
* `GroupsAreServable` without `TokenTooLarge` (`KVCacheConfig`, run `config`) - a hidden-state layer gets a block of
  `max(common_page // per_token, 1)` tokens (`V/vllm_v1_core_kv_cache_utils.py:1791`): when one token is larger than the common page,
  it still gets one, and a page that does not hold it.
* `EnoughBlocks` without `SlotsCharged` (`KVCacheConfig`, run `config`) - `_max_memory_usage_bytes_from_groups` charges, of several
  groups with a spec per layer, the page sizes of the first one only (`V/vllm_v1_core_kv_cache_utils.py` 1865-1880). On a
  pipeline stage the other groups may have more, the packed layout then makes fewer blocks than the check assumed, and a
  plan is accepted that does not hold one request.
* `BroadcastsMatch` (`ModelRunner`, and `DiscardsAgree` and `InputsAreTheSequence` without `stale`) - "skip for chunked prefill"
  (`V/gpu_model_runner.py` 4783, 4797) relies on all ranks finding the same rows discarded. A request that is preempted by
  force while its first output is under way keeps a placeholder -1 in `output_token_ids` on an asynchronous rank that does not
  sample: 1400 trims on other ranks only, and 1430 replaces the list only when the scheduler knows outputs. When the
  request resumes, its length there is one too large, so the end of its prompt is taken for a chunk and its row discarded: the rank
  receives nothing of what the last rank broadcasts, and the next step reads the placeholder as an input.
* `CommonPrefixIsShared` (`KVCacheManager`) - `get_num_common_prefix_blocks` (572-578) compares reference
  counts with the number of requests; blocks that wait for a deferred free count too, so a block may be
  called common that one request does not have.
* `AcceptedHoldsOneRequest` (`KVCacheConfig`) - the memory check promises room for one request of the full length
  (`V/vllm_v1_core_kv_cache_utils.py:752-789`, 855) and forgets that one block becomes the null block.

Met while modelling, and part of the models:

* Two posts that differ in the date only share `posts/<slug>.html`; the older, written last, stays
  (184, 726-729). `Current` states this as what the code does.
* Excerpts are replacement templates: a backslash before a letter that is no escape makes `re.sub`
  raise, and the build aborts, possibly with `index.html` written (698-721).
* An excerpt with a line break puts a line break into a JavaScript string, since `re.sub` undoes
  the escape of `json.dumps` (706). `SearchDataIsArray` covers it.
* `assemble.py` on a report without markers succeeds and changes nothing (11, 16).
* The appendix of the report is made from a `summaries.json` that a fetch process may have
  overwritten after the merge (`build_scaffold.py:82`, 143).
* A second run of `download_papers.sh` truncates `metadata.tsv` and writes no row for papers it
  finds (13, 57); a partial file left by a kill counts as a paper (55, 62).
* `build_site.py:732` says reports are restyled after every build; `restyle_reports.py:266` returns.

## 7. Plan

Done: the file scripts (`SiteBuild`, `CompanyFetch`, `CompanyReport`, `PaperDownload`) and the KV cache up to
its manager (`FreeBlockQueue` refining `FreeQueue`, `BlockPool`, `PoolCalls`, `KVCacheManager`) with its prefix hashes
(`BlockHashes`), with their runs, and with proofs of every safety property of passing runs but `HitsServeTheirPrefix` of the manager; the planner
(`KVCacheConfig`) with proofs that plans fit, that the search finds the longest length and that the tensors keep layers
apart; the runner (`ModelRunner`) with its run and the proof that outputs reach their requests when the discarded rows agree. Next, in this order:

1. The runner: `DiscardsAgree`, with an invariant that ties the lengths the runner caches to what the scheduler counts,
   which takes the premise off `OutputsReach`; the manager: `HitsServeTheirPrefix`.
2. Abstract specifications for the scripts: a site that changes at once from one parse to the next,
   page by page, refined by `SiteBuild`; a store of records refined by `CompanyFetch`.
3. More of the runner: encoder cache, Mamba states, cache allocation.
