# TLA+ models of the EXL3 gfx1201 port

This directory holds the specifications of the repository's stateful parts, the TLC
configurations that check them on small instances, and TLAPS proofs of every safety property that
is checked, for every size of ring, tile, block, batch, module and set of processes (section 4).
`PROJECT.json` maps every definition to the lines it models and lists runs, mutants,
hazards and theorems. Paths below are relative to the repository root; `kv_int4.py`,
`plugin.py`, `ops.py` and `kv_dequant.py` are in `vllm_plugin/exl3rocm/`, `gdn_attn.py` is
`vllm_plugin/patches/vllm-0.28.0-rdna4/gdn_attn.py`, the Python tools are in `tools/`.

    tlasany KvInt4.tla                                    parse
    tlc -workers 2 -config KvReuse.cfg MCKvInt4.tla       one run
    tlapm KvInt4Proofs.tla                                proofs, likewise the other modules
                                                          ...Proofs (up to four minutes each)

## 1. The system

The repository runs Qwen3.8-27B in EXL3 on one RX 9070 XT. It has two halves that share no
state: a vLLM plugin (what happens on every engine step) and an optimization harness (what
happens to every candidate kernel).

### Components of the serving side

**int4 KV cache with exact rows** (`kv_int4.py`, hooks in `plugin.py:684-790`).
*State:* per layer a paged 4-bit cache; an fp16 copy of the first `SINKS` slots of every
block; for every request-state slot a ring of the newest `TAIL` positions in fp16, each entry
tagged with its position; one buffer batch row -> ring row that the captured kernels read.
*Operations:* `request_added` clears a ring's tags, `set_batch_slots` fills the buffer,
`reshape_and_cache` writes all three copies in one launch, `attention` and `prefill` read
them, each with code of its own. *Hard:* nothing is ever invalidated: blocks, ring rows and
tags survive their request and are told apart only by a tag that is a plain position; draft
positions are written and rolled back; a chunk may be longer than the ring; programs of a
launch are unordered. *Correct when:* each attention row is the request's own row of that
position, and no two programs of a launch write one place.

**GDN metadata sharing** (`gdn_attn.py`). *State:* per KV-cache group a builder with eight
persistent buffers that captured graphs read. *Operations:* `build`, `update_block_table`
(take over another group's metadata), `build_for_cudagraph_capture`. *Hard:* the buffers are
partly overwritten in each step and the graph reads a padded size; three kinds of rows are
permuted and rebased. *Correct when:* each token advances the state of its own request, and
a shared build leaves what a build of one's own would leave.

**EXL3 weights** (`plugin.py:180-560`). *State:* per fused vLLM module its groups (one per
checkpoint member: trellis, scales, bitrate), the map from output partitions to groups, the
draft head's groups and columns, the device pointers of the grouped GEMV, and a
reconstruction buffer shared by all modules. *Operations:* `create_weights`, the loaders,
`process_weights_after_loading`. *Hard:* a member may span several partitions, tensors come in
any order, the split of the head replaces buffers that pointers may name. *Correct when:* every
output column is loaded from its own member, and the buffer is at its final size before capture.

**EXL3 linear dispatch** (`ops.py`). *State:* the imported extension, the reconstruction buffer.
*Operations:* `linear`, `linear_groups` (five routes, chosen by rows and bitrates), the draft
head's logits and top tokens. *Hard:* runs of equal groups share a launch that writes a column
slice; verifying drafts must give bitwise what decoding gives. *Correct when:* every column is
computed once, by its own tensors, and the drafter scores a drafted token as the full head does.

**Prefill dequantisation buffers** (`kv_dequant.py`, `kv_int4.py:101-118, 560-621`, hooks in
`plugin.py`). *State:* two fp16 copies that all layers share and that are replaced to grow, each
layer's exact buffers, the current layer, `VLLM_RDNA_*` in `os.environ`. *Operations:* route a
query, gather, overlay the exact rows, call vLLM's kernel under the tiling knobs. *Hard:* reuse by
the next layer, growth while graphs are captured, an allocation that fails between K and V, an
exception under the knobs, sequences that share blocks. *Correct when:* the kernel reads its own
layer's rows, and the environment is restored.

**Fork kernels** (`vllm_plugin/patches/exl3-fork`, `patches/experimental-full.patch`).
*State:* completion counters of a device, shared by every fused launch and captured graph.
*Operations:* launch, capture, replay; per program: add to the counter, complete a group and
reset. *Hard:* programs run in any order under release and acquire, the buffer grows with
launches in flight. *Correct when:* one program of a launch completes a group, after all others
stored, and the counters are zero again afterwards.

**vLLM hooks**: RoPE clamp, KV headroom check, diagnostics. Configuration at start-up.

### Components of the harness

**Experiment controller and ledger** (`tools/run_candidate.py`). *State:* `results.jsonl`
(append only), one metrics file per stage, the GPU flock, a stage process. *Operations:* load
and verify, acquire the lock within a budget, run five stages, record each, record the state.
*Hard:* several runners of one experiment, crashes, timeouts that leave descendants,
a metrics file written late, a binary replaced between stages. *Correct when:* a later stage
never runs after a failed one and a score rests on one complete run.

**Comparison verdict** (`tools/compare.py`): reads ledger and gates, ends in one of six
verdicts. *Correct when:* missing data never passes and REGRESSION is certain.

**Frozen artifacts** (`freeze_policy.py`, `capture_baseline.py`, `calibrate_policy.py`).
*State:* the frozen policy, its `.tmp` and hash sidecar, the frozen binary, `records.json`.
*Operations:* check, write aside, publish; hash, copy, record. *Hard:* steps of a capture
interleave with other captures, rebuilds of the extension and kills. *Correct when:* what was
frozen once never changes, and every hash on record is that of what was frozen.

**Candidate build and checkout** (`build_kernel.py`, `prepare_backend.py`, `run_backend.py`,
`serve.py:verified_binary`). *State:* the published checkout, its source and pinned objects, a
candidate directory with source copy, object, extension and manifest. *Operations:* clone,
patch, verify, rename; copy, compile, link, drift checks, manifest; hash and import. *Hard:*
edits and full builds while a build runs, kills between any two steps, two preparers, a runner
that hashes one path and imports from another.
*Correct when:* a manifest that says "built" tells the truth about the binary that is run.

**Server launcher, measurement tools, reference oracle**: sequential programs; the subject of
the last two is numbers.

### How the components interact

vLLM's scheduler and `RequestState` call the plugin's hooks in one thread: `add_request`,
`prepare_inputs`, then per layer `do_kv_cache_update` and `forward`, then the sampler. Hooks
and kernels share only the persistent buffers, which captured graphs address directly. GDN
builders share nothing but the metadata object handed from one to the next. The controller
talks to a stage through its exit code and metrics file, to other runners through the lock and
the ledger, and to `compare.py` through the ledger.

## 2. Modules

| module | models | uses |
|---|---|---|
| `KvInt4` | one layer of the int4 cache and the engine step around it | |
| `KvInt4Proofs` | theorems about it | `KvInt4`, TLAPS |
| `AttnSplit` | tiles, passes and segments of the attention kernel | |
| `AttnSplitProofs` | theorems about it | `AttnSplit`, TLAPS |
| `PrefillCopy` | the layers of a step, the shared fp16 copies, the exact buffers, the tiling knobs | |
| `PrefillCopyProofs` | theorems about it | `PrefillCopy`, TLAPS |
| `GdnMetadata` | GDN builders sharing a build | |
| `GdnMetadataProofs` | theorems about it | `GdnMetadata`, TLAPS |
| `GroupWeights` | creating and loading a fused module, the draft head's split | |
| `LinearDispatch` | the routes of `linear_groups` and the draft head over such a module | `GroupWeights` |
| `LinearDispatchProofs` | theorems about both | `LinearDispatch`, TLAPS |
| `HadCounters` | launches of the fused GEMV on shared completion counters | |
| `HadCountersProofs` | theorems about it | `HadCounters`, TLAPS |
| `ExperimentController` | runners, stage processes, ledger, what `compare.py` reads of it | |
| `ExperimentControllerProofs` | theorems about it and about the verdict it scores by | `ExperimentController`, `Comparison`, TLAPS |
| `Comparison` | the performance gates | |
| `WriteOnce` | abstract: named artifacts written once | |
| `FrozenArtifacts` | policy freezer and baseline captures, which implement it | `WriteOnce`, `Files` |
| `CandidateBuild` | checkout, candidate directory, verified runs | `Files` |
| `Files` | what a file of these tools holds when it has no content | |
| `ArtifactProofs` | theorems about the captures and the build, the refinement among them | `FrozenArtifacts`, `CandidateBuild`, TLAPS |
| `MC*` | symmetry sets and instances for TLC | the module named |

**KvInt4.** An engine step is `ScheduleRequest` (for each request of the batch),
`PrepareInputs` (`top`, `buf`), `CacheUpdate` (all stores of `_quant_pack`), attention (the operators
`DecodeRead` and `PrefillRead`, judged in phase "attend") and `Sample` (drafts may be
rejected). `AddRequest` takes any cached chain of blocks as a prefix; `RemoveRequest`, also a
preemption, frees the blocks and leaves the ring. Variables: `cache`, `sink`,
`tag`, `ringK`, `ringV`, `buf` are the program's; `active`, `mode`, `len`, `query`, `table`,
`batch`, `hash` stand for vLLM's scheduler, whose code is not here: they are modelled by what
the plugin sees of them and are marked external. `text`, `hit`, `top` are history. A row's data
is one of `Values`, so quantisation is not visible; which copy a row comes from is. Two
programs storing to one place would leave either row: `CacheUpdate` takes one of them,
and `WritesDoNotRace` shows there never are two.

**AttnSplit.** What `KvInt4` calls `DecodeRead` is carried out by many programs: `Launch` is
`attention` up to the kernel launch, `Program` one program of the grid, from its query block
to its store, `Reduce` and `Finish` the end with and without a split. A result is the set of
the key reads it was made of; a read says in which segment and pass it was made and which exact copies
it may take. Programs run in every order. The partials are shared by all launches and never
cleared: whatever is older than the launch is marked `Stale`. vLLM's `find_seq_idx`,
`compute_tile_loop_bounds` and `reduce_segments` are external. One kv head; the others run
alike. `ExactWhereDue` supposes `SINKS <= TILE_SIZE`: only tile 0 has a pass for
sinks, and `EXL3_KV_INT4_SINKS` is not compared with the tile sizes.

**PrefillCopy.** A step runs layer after layer: `Begin` a batch, eagerly or in a capture; per layer
`Update`, which makes the exact buffers on first use (never in a capture), then `EnterCopy` or
`EnterOther` (the decode kernel or vLLM's own), then `Return` or `Raise`. A capture may come before
the first eager step. The exact buffers of a layer (`UpdateRaises`) or one of the copies
(`EnterCopyRaises`) may fail to be allocated, which ends the step; the copy that was too small is
gone by then. A row of a copy is where it came from: layer, K or V, cache or sink or ring, and
place; a row of an earlier copy counts as stale. Which newest positions have a matching ring tag is
an input of the batch: that is what `KvInt4` models.

**GdnMetadata.** `BuildFirst(rows)` is `build` in the first group for any batch the runner may
present, padded for a graph replay where the graph was captured; `UpdateBlockTable` is the next
group; `Forward` ends the step; `Capture(n)` builds in every group for n dummy requests.
Tensors are sequences, views of a persistent buffer are re-read from it (`Read`), so a later
overwrite would be seen. A request's state blocks carry its name and group: mixing up two
rows or two groups is visible. `num_spec` and `full` are configuration, chosen at the start.

**GroupWeights, LinearDispatch.** Widths count 128-column blocks. A tensor is a column range of a
checkpoint member and lives in a heap at an address `<<kind, group, generation>>`, so that a pointer
to a buffer that was replaced dangles. `CreateWeights` tiles the partitions, `Load(t)` takes any
tensor still in the stream (a tensor without a target ends in phase "failed", as in vLLM's loader),
`ProcessWeights` splits the head, reserves the buffer and takes the pointers. An assertion of the
code that fails is phase "failed". A call's result is, per column, what it was computed from:
trellis column, scales, bitrate and split-K waves. `Apply` and `Draft` are calls, eager or in a
capture, which keeps the generation of every reconstruction buffer it used.

**HadCounters.** The host puts launches into one queue (`Launch`, `Replay`) or into a graph
(`Capture`, which allocates nothing) and may grow the counters meanwhile; the device runs one
launch at a time (`Begin` ... `End`), its programs in any order: dot product and release,
add to the counter, and for the one that completes the group acquire, transform, reset. What a
program may see of another's stores is explicit (`seen`): transforming a tile that was not acquired
gives "mixed". Assumed: one compute stream, and new counters are zeroed before the
launch that asked for them.

**ExperimentController.** One action per step of `main` that another process can come between:
`Load`, `Acquire` / `LastAttemptFails` / `GiveUp`, `StartStage` (up to `subprocess.run`), `Timeout`,
`Collect` (the rest of `run_stage`), `SetState`. `RunChild` is the stage command; it may write any
metrics or none and exit either way. A timeout or a crash, and the exit of a stage in `Forking`, may
leave an orphan (`LeaveOrphan`, `RunOrphan`) that writes later. `Rebuild` and the operator who holds
the lock are the outside world. Ledger records keep the runner, stage, ok flag, who wrote the
metrics and which binary was loaded; the last three of these the real record holds in other form or
not at all, they are what the properties judge by. `Scored` is the part of `compare.py` that reads
the ledger.

**Comparison.** Every paired series is one of four classes: missing, interval below the regression
limit, around it, above it. `Verdict` is the cascade at the end of `main`. The actions change one
measurement at a time, since a campaign measures again and runs `compare.py` again; they exist to
reach every combination and to compare verdicts before and after.

**FrozenArtifacts.** A file's content stands for its hash. One action per step of the freezer
(check, open `.tmp`, write, replace, sidecar) and of each capture (check, hash and copy in `Chunks`
reads each, record aside, publish, ...), a kill of either at any step, and `Rebuild` of the
installed extension. `Frozen == INSTANCE WriteOnce WITH artifact <- Artifact` maps the policy and
the finished binary. The records are left out of the mapping: two captures that overlap both find no
record and the later one replaces the earlier; they share one `.tmp`, and may write to it at once or
to what the other has published by then, which can leave text that is not all there or mixed
(`Contested`, `Partial`). `raced` and `killed` are history, which the two properties need that a
rebuild or a kill at the wrong moment does defeat. Freezers do not overlap (section 5).

**CandidateBuild.** Preparers (`Prep*`), one build at a time (`Build*`), runners (`Run*`), and the
outside: `Edit` of the source, `FullBuild` of the objects, `CopyFile` of a candidate to another
path, kills of preparers and builds. A runner is `run_backend` or `serve`, given the directory of
the build ("home") or the copy ("elsewhere"); it hashes the path in the manifest, which is that of
the build, and imports from what it was given. An object is made from the source and from `Headers`,
which the build neither hashes nor records. `PristineSource` is the checkout's own version of the
source. The specification is called `CandidateSpec`, so that one module can hold the proofs about it
and about `FrozenArtifacts`, whose sentinels it shares (`Files`). `disturbed` is history: an edit
was reverted between two drift checks, or inputs changed after the last one. The code cannot see
either. The candidate directory is not removed.

## 3. Runs

| run | instance | shows |
|---|---|---|
| `kv_reuse` | 1 slot, 3 blocks of 2, ring 3, 5 positions, chunks up to 4 | slot reuse, prefix hits, chunks longer than the ring, ring wrap, rollback: own rows only, and exact where promised |
| `kv_shared` | 2 slots, 3 blocks of 1, ring 2, 3 positions, batch of 2 | shared prefix blocks, two requests per launch in either order, buffer rows left from larger batches |
| `attn_split` | up to 2 requests, 5 query tokens, 9 keys; tiles of 2, 3 segments, 5 rows for 2 heads | every key counts once, exact where due, in any order of the programs |
| `prefill_copy` | 2 layers, batches of up to 4 sequences of 1, 4 and 6 keys, blocks of 2, 1 sink, tail 2, pool of 11, budget of 9 blocks | copies hold their own layer's rows, growth, failing allocations, captures early and late, graphs write exact rows, knobs restored after errors |
| `gdn` | 2 groups, 3 requests, up to 1 draft, chunks up to 2; buffers of 4 requests / 2 rows and of 1 / 3 | all mixes of row kinds in all orders, stale rows, padded replays, captures, batches beyond the buffers |
| `linear` | the model's modules in miniature (see below), either codebook, checkpoints that the code refuses, 8 extensions, up to 3 rows | loading, every route, graphs, the draft head |
| `had_counters` | 3 tiles to a group, matrices of 1 and 2 groups, 1 launch waiting | every order of the programs, eager and replayed, with growth |
| `controller_ledger` | 2 runners of 1 experiment, 5 stages, one of which may leave a process behind when it exits, 1 rebuild | what the ledger may come to say |
| `controller_ends` | 2 runners of 2 experiments, operator on the lock, a build that may leave a process behind | every run returns |
| `compare_gates` | a primary and a holdout | which measurements pass or regress |
| `frozen` | 3 captures, 3 fills of which 2 are complete, 2 versions, 2 reads per hash and copy | write-once under overlap, rebuild and kill |
| `candidate_build` | 2 preparers, 2 profiles, 1 runner, 2 sources, 2 headers, 2 object sets, a copy elsewhere | what a manifest says of a binary, at any point of failure, and which binary a runner checks and loads |

*Why the bounds are enough.* The ring's hazards need a chunk longer than the ring (4 > 3), a second
lap (5 positions over 3 entries), a block boundary inside a window (blocks of 2) and a slot used
twice; two values tell any two rows apart. A collision between requests needs two of them and a
third block to be taken from either. In `attn_split`, 9 keys are five tiles, unevenly over three
segments; a tail of 3 always begins inside or at the edge of a tile; 5 rows for 2 heads make
neighbouring blocks overlap; 4 and 5 tokens are beyond the partials' 3 rows. In `prefill_copy` the
batches share blocks, end inside a block and at its edge, exceed the budget (9 blocks, of K and V)
and make the buffers grow twice and meet the cap; two layers are enough for one layer to find the
other's copy. In GDN, padding and staleness need a batch smaller than the buffer after a larger one;
every order of the three kinds of rows needs three rows, which exceed one of the two buffer sizes.
`linear`'s modules are the shapes the model has: gate/up (equal groups, pointer tables), q/k/v of
mixed bitrates, in_proj where one member spans three partitions, a single group, a dense module, the
head with 0 to 7 draft blocks, and the vision q/k/v; one row, two and three lie on either side of
both row limits, a slice of 3 blocks splits groups unevenly, and the buffer comes in empty, too
small and too large. `had_counters` needs a completing program with two others around it, a matrix
that does not fit the first counters, and a second launch while one runs; a waiting launch more
would only repeat `CountersRest`. A ledger hazard needs the runner that is judged and one that
interferes; a run has all five stages. After a timeout or a crash any stage may leave an orphan;
after its exit only those in `Forking`, one in a run: with all five `controller_ledger` has many
times the states, and orphans of different stages write different files. The proofs are for every
`Forking`. A series has four classes, and `Verdict` looks at primary and holdouts only through "all"
and "some". In `frozen` a third capture can publish between two steps of each of two others. In
`candidate_build` two preparers race for the rename; a drift needs two contents; a runner changes
nothing that another one reads, so that one is enough. Symmetry is used where no operator chooses
among the permuted values: slots, blocks and values; requests; runners; preparers; tiles; knobs;
captures, complete fills, versions, headers, object sets. The liveness run uses none.

Deadlock is checked in all runs but three: a controller's behaviour ends when all runners have
returned, and in `linear` a refused checkpoint, or one left to vLLM, is the end.

*Fairness* is assumed in `controller_ends` only. `WF(Runner(r))`: a started runner is an
ordinary process, and `acquire_gpu_lock` polls with a deadline (`run_candidate.py:255-264`).
`WF(Timeout(r) \/ RunChild(r))`: `subprocess.run` is given the stage's timeout. Nothing
is assumed of the operator, of orphans or of whether a runner is started at all. The action
that gives up is enabled whenever the lock is taken: how often it polls before is left out.

Each property of a run has a mutant in `PROJECT.json`, a plausible bug in the code that
TLC finds under the same configuration. The mutated forms stand next to the
definitions they change.

## 4. Proofs

Each proof rests on the named assumption about its module's constants, and on nothing else.
Sets of slots, tiles, processes and contents are arbitrary.

**The KV cache** (`KvInt4Proofs`), from `KvAssumption`: sizes are positive naturals (`SINKS` may be
0), and the named sentinels are not ordinary values. Slots, blocks and values are arbitrary sets.

| theorem | says |
|---|---|
| `TypeCorrect` | `Spec => []TypeOK` |
| `RingWritesSafe` | `Spec => []RingWritesDoNotRace` |
| `TailSafe` | `Spec => []TailReadsOwnText` |
| `SinksSafe` | `Spec => []SinksMirrorCache` |
| `WritesSafe` | `Spec => []WritesDoNotRace` |
| `AttentionSafe` | `Spec => []AttentionReadsOwnText` |
| `TailIsKept` | `Spec => []OwnTailExact` |

*The argument.* None of the read properties is inductive: whether a tag that matches can be trusted
depends on what was written when, whether the tag is one of a position that still counts.
`IInv` (`KvInt4Proofs`) adds `BatchInv` (the batch lists distinct
active slots, each with tokens), `BufInv` (after `PrepareInputs` the buffer is the
batch) and `RingInv`: an entry's tag is congruent to the entry, and if it lies below the valid
length of its request, both ring rows are the request's text there. A rolled-back tag lies at or above
that length and is overwritten before it can count again, because the newest `TAIL`
positions of a step are all stored (`WindowCovers`) and no two of them in one entry
(`WindowInjective`): that is the core of the argument, for every `TAIL`.

`PagedInv` does the same for the paged copies: `TableInv` (every position in use has a block),
`SharingInv` (a block has one table index; requests that share it have it full, agree on its rows,
and all but one have computed it), `DataInv` (a computed row is in its block) and `HashInv` (a
cached block holds the rows of its prefix, or its owner is about to write them, and every owner's
text agrees with it). Every lemma `...IInv` and `...Paged` is one action of `Next`.

`TailIsKept` is the converse of trust: that nothing a request still owns is lost from the ring.
`TailInv` says how far a slot's request has ever been written (a current length never exceeds it),
and that a position the request computed itself within `TAIL` of that top still has its tag. A
rollback lowers the length and not the top, which is why the property is about the top.

**The attention split** (`AttnSplitProofs`), from `SplitAssumption` (sizes are positive, `SINKS`
and `TAIL` may be 0) and `StaleAssumption` (what the workspace held before is no partial result).

| theorem | says |
|---|---|
| `SplitTyped` | `Spec => []TypeOK` |
| `KeysCountOnce` | `Spec => []EachKeyOnce` |
| `ExactCopiesWhereDue` | `Spec => []ExactWhereDue` |
| `RestoresAgree` | `Spec => StoresAgree` (an action property) |

`PartInv` is the invariant: a partial is either stale or the result of its own row and segment, and
the latter once that segment's program ran. The arithmetic is in the lemmas: a key lies in one tile, the
tile in one segment and the key in one of the passes, whichever of the row's programs looks at it
(`Collects`), for every tile size, segment count and length of context.

**The prefill copies** (`PrefillCopyProofs`), from `CopyAssumption` and `BatchAssumption` (the batches
the run offers are well formed).

| theorem | says |
|---|---|
| `CopyIsExact` | `Spec => []CopiesOwnRows` |
| `CapturesHaveExact` | `Spec => []GraphsWriteExact` |
| `KnobsAreRestored` | `Spec => []KnobsOnlyInCopy` |
| `BuffersGrowInSteps` | `Spec => GrowsInSteps` (an action property) |

`ShapeInv` and `BufInv` say what a step and the two shared buffers look like, `KnobInv` that the
knobs are set only while the fp16 kernel runs, `ExactInv` that an eager step leaves exact buffers
behind for every layer it has passed and a whole one for all. `BuffersGrowInSteps` says of a failed
allocation that the copy that was too small is lost (`LostTyped`, `BufferReplaced`), outside
captures. A position has one row of the copy and a row at most one position (`PlaceOf`,
`OnePosition`), so gather and overlay together are what is due (`CopyIsDue`). The proof found that
`GraphsWriteExact` is true only where `SINKS + TAIL > 0`: with both at 0, `exact_buffers` returns
nothing and there is nothing exact to write. The property now says so.

**The GDN metadata** (`GdnMetadataProofs`), from `GdnAssumption`: numbers of groups, rows and buffer
entries are positive, and a padding row's request is no request.

| theorem | says |
|---|---|
| `ShapesFit` | `Spec => []TypeOK` |
| `TokensOnTheirStates` | `Spec => []EachTokenOnItsState` |
| `SharingIsSound` | `Spec => SharingIsRebuilding` (an action property) |

`MdInv` says that the metadata and the buffers of a group that is ready are what some build of the
batch gives, from whatever the buffers held. A build keeps it by definition; for
`update_block_table` it is `UpdatedIsBuilt`, shown for each kind of batch field by field: copying a
view of the first group's buffer into another buffer is copying there what was copied first
(`CopyOfCopy`, `CopyOfFill`). What the layers read then depends on one build (`ReadWork`): of drafts
only or decodes only, through the buffers or not, with padding or without, or of rows that are
mixed. The last case rests on arithmetic of masks: the k-th selected row's tokens, in the order of
`TokenOrder`, lie between the sums of the selected rows' lengths (`MaskedSums`, `MaskedTokens`,
`OrderIs`), and a padded batch has no prefills (`MixedUnpadded`). Induction over rows is an argument
by least counterexample (`NatMin`).

**The experiment controller** (`ExperimentControllerProofs`), from `ControllerAssumption`.

| theorem | says |
|---|---|
| `ControllerTyped` | `Spec => []TypeInv` |
| `OneSupervisedStage` | `Spec => []SupervisedSerially` |
| `CorrectnessGatesPerformance` | `Spec => []StagesGated` |
| `ScoreRestsOnOneRun` | `Spec => []OneRunQualifies` |
| `StagesReadOwnMetrics` | `Spec => []OwnMetrics` |

`LockInv`: a runner holds the lock exactly between taking and releasing it, and only then has a
child it waits for. `LedgerInv`: the holder's run is the latest in its ledger, and the last record
of each stage behind it is a pass of its own (`RunInv`); so it is for all five stages of a completed
experiment (`CompleteInv`); with `StagesGated` itself. `MetricsInv` says who may have written the
metrics file of a running stage, as long as no process of the experiment was left behind, by a
timeout, a crash or a stage that exits.

**The comparison** (also in `ExperimentControllerProofs`) needs no assumption.

| theorem | says |
|---|---|
| `PassesOnlyComplete` | `Campaign => []PassIsComplete` |
| `RegressesOnlyForCertain` | `Campaign => []RegressionIsCertain` |
| `WorseDoesNotPass` | `Campaign => WorseNeverPasses` (an action property) |

The classification is a pure function of what was measured; the proofs unfold it case by case
(`PassMeans`) for every set of holdouts.

**The linear layers** (`LinearDispatchProofs`), from three assumptions. `WeightsAssumption` and
`DispatchAssumption`: sizes are naturals, a slice and a row limit at least 1. `SetupsAssumption` is
about the checkpoints that are offered: a module has at most four members (`FUSED` lists up to
three, `plugin.py:37-43`), each with columns and a codebook scalar that is not 0; shard ids name
partitions; only the vision tower has a second, fused copy; and shard ids that name every group
name them in output order (`InOutputOrder`): vLLM numbers the shards of a module that way.
Partitions that do not tile the members, members of other heights, shard ids that span groups or
miss one, and mixed codebooks are all admitted: the code refuses them.

| theorem | says |
|---|---|
| `LoadsWhereItReads` | `Spec => []LoadedWhereRead` |
| `EveryColumnIsItsMembers` | `Spec => []EachColumnOnce` |
| `VerifyingIsDecoding` | `Spec => []VerifyRowsMatchDecode` |
| `GraphsKeepTheirBuffer` | `Spec => []GraphBufferLives` |
| `DraftHeadIsTheTargets` | `Spec => []DraftIsFullHead` |

*Loading.* `StreamInv`: what is in the stream has a target, except where the vision tower's codebook
scalars keep their members' names (`Unrenamed`); there a tensor without one ends the loading. That a
loaded module is right is not inductive: halfway, a group may hold a tensor of a member whose turn
would come to another. `WLoadInv` says only that what lies in a group came under a shard id that
names it. When `process_weights_after_loading` finds nothing missing, every group has been named and
so, by output order, each by its own member (`OwnTensors`). `ReadyInv` describes the two forms that
a module then has, a group per member or the head in three (`SplitsWhere` finds the bounds: the
drafted prefix, the middle, `TailBlocks` special blocks), with pointers and buffer to match. No
group has a slice larger than what was reserved (`BufferStays`), hence `UseInv`: no call makes a new
buffer.

*Calls.* `CallInv` says of the last result that it is `Columns` of the groups: each group's columns,
from the group's own tensors, in a number of split-K waves for each group. `LinearGroupsWrite` shows
it of every route. For the loops, `Written(y, gs, wv, i)` (the groups before the i-th are in place)
goes through every iteration: `PutWrites` adds a run of groups where the previous one ended, and
disturbs none because groups have no column in common (`ColumnsApart`). A reconstruction is
right in slices of any width (`ReconIs`), the launch through the pointer tables because pointers are
taken only of groups that are alike (`MgemmColumns`). Results with the same columns and waves are
equal (`RowsEqual`), and the multi-row GEMV's waves are those of the one-row path; with pointers this
needs all groups in one run, so at most four of them. The drafter's columns are
the drafted blocks, each once (`DraftCols`): scattering its logits gives the head's.

**The completion counters** (`HadCountersProofs`), from `HadAssumption`: tiles are a non-empty
finite set, widths are positive naturals.

| theorem | says |
|---|---|
| `EveryOutputTransformed` | `Spec => []OutputTransformed` |
| `CountersAtRest` | `Spec => []CountersRest` |

`IInv` has five parts: `TypeInv`; `BufferInv` (every launch that waits, runs or is recorded in
a graph fits the counter buffer it names; buffers are only added); `CountersRest`; `CountInv`; and
`DataInv`. `CountInv` is the core: a group's counter is the number of its tiles whose programs
have added to it until one of them has reset it, and then zero. From this
follows that the program that reads "all but one" is the last and the only one, so that every
other tile is stored and released when it acquires. It needs cardinality facts about finite sets
(`FiniteSetTheorems`), stated as lemmas of their own. `DataInv` says what memory holds of
a tile at each place its program may be.

**Frozen artifacts** (`ArtifactProofs`), from `FrozenAssumption`: complete fills are
fills, a copy takes at least one read, and "no file" and "partly written" are not contents; and from
`FilesAssumption`: these are two things.

| theorem | says |
|---|---|
| `FrozenImplemented` | `Spec => FrozenOnce`, that is `Frozen!Spec` |
| `HashesStand` | `Spec => []PolicyHashesStand` |
| `RecordsMatch` | `Spec => []RecordsMatchBinary` |
| `PartialMeansKilled` | `Spec => []PartialOnlyIfKilled` |

The invariant says what each process knows at each step: the freezer that is past its check finds no
policy until its replace (`FreezerInv`; here one freezer at a time is needed), a capture that is
copying is the one that created the binary (`CopierInv`), since `"xb"` creates it exclusively, and
what a capture is about to record it has read (`PolicyInv`, `MatchInv`). `HashInv` says that a hash
in progress is unfinished and that one past it has read something, so that any rebuild since its
first chunk counts as `raced`. For the refinement, each action is shown to be `Frozen!Freeze` of one
name or to leave `Artifact` alone: only the replace and the last read of a copy change it.

**The candidate build** (also in `ArtifactProofs`), from `BuildAssumption`: there is a source, and
"no file" and "partly written" are not contents; and from `FilesAssumption`.

| theorem | says |
|---|---|
| `PreparedForGood` | `CandidateSpec => []PreparedStands` |
| `RecordedInputs` | `CandidateSpec => []BuiltIsRecorded` |
| `RunsTheRecord` | `CandidateSpec => []RunsRecorded` |

`StepInv` says what the directory holds at each step of a build, `RecordInv` that a manifest that
records a binary matches the extension and that no build is running then, `InputInv` that what a
build has used so far is what it hashed at its start, or else the source has moved on and the drift
check will see it (unless `disturbed`), `RunInv` that a runner holds the recorded hash. A manifest
records a binary only when it is written again after the link, which comes after the drift checks: a
kill before leaves a manifest that no runner accepts. `RecordStands`: once there is such a manifest,
directory and manifest stay as they are; so a copy of it elsewhere is the same (`CopyInv`), and what
a runner verified is still there when it imports from the directory of the build.

*Only model-checked:* `RunsEnd`, a liveness property (`ENABLED` and fairness are out of the
prover's reach): the run `controller_ends` asks the one question that no theorem answers.

## 5. Where code and documents differ, and what the code does not exclude

Seen while modelling; the properties above state what the code does promise.

- README.md:84 promises the newest 128 tokens exact. Positions taken from the prefix cache are
  not in the ring: right after a hit they are read in 4 bits. `OwnTailExact` is what holds.
- A stage's descendants survive timeout and crash and may share the GPU with the next holder of
  the lock (`run_candidate.py:308` speaks of one owner). `SupervisedSerially` is about the
  stages a living runner waits for.
- A binary replaced between two stages is scored: each stage compares it with its own hash of a
  moment ago, not with the recorded one (docs/ITERATIVE_OPTIMIZATION_LOOP.md:57).
- A holdout whose decode interval is below the limit is INCONCLUSIVE (`compare.py:12`).
- `compare.py:134` judges by the last record of an experiment, which may be that of a runner that
  found the lock taken after another one completed.
- Two freezers that overlap share one `.tmp` file, and two builds into one empty directory share its
  files; the models have one of each at a time. Overlapping captures may replace each other's
  record, or publish one that is mixed of both. A rebuild between the first read of a capture's hash
  and the end of its copy freezes a binary under another one's hash (`raced`).
- A stage that exits normally may leave processes as well; `OwnMetrics` is about experiments where
  none did.
- A batch that needs a larger copy loses the one there is when the allocation fails
  (`kv_dequant.py:69-78`).
- A graph captured before the first eager step lacks the exact buffers of the layers
  (`kv_int4.py:102`); that vLLM warms up first is not in this repository.
- `create_weights` accepts the codebooks mul1 and mcg (`plugin.py:294`), the vision stream renames
  only mul1 (`plugin.py:531`): an mcg vision tower's scalars come without a target and the
  checkpoint is refused.
- An edit that is reverted between two drift checks, or objects changed after the last one, stay
  unseen (`disturbed`). Headers on the include path (`build_kernel.py:108-111`) are in no manifest:
  `BuiltIsRecorded` is about sources and pinned objects.
- `run_backend.py` hashes the path that the manifest names (`:28,36`) and imports from the directory
  it was given (`:40`), or from another place if there is no extension in it; `serve.py:74` compares
  the two. A candidate that was copied or moved is so run from a file that was never hashed,
  although the selected extension "must match its recorded hash" (docstring of `run_backend.py`).
  `RunsRecorded` promises the loaded binary for `serve` and for the directory of the build only.
- `VerifyRowsMatchDecode` needs an extension with the grouped multi-row kernel wherever one-row
  calls are grouped: the single-matrix one takes no wave count.
- `ExactWhereDue` supposes `SINKS <= TILE_SIZE`, which nothing checks.

## 6. Not modelled

- Arithmetic: quantisation, rotations and biases (`kv_int4.py:121-270`), the dot products and
  split-K geometry of the fork kernels, the reference oracle. Floating point without control.
- `calibrate_policy.py` and the measurement tools: sequential, their subject is measured numbers.
- The numeric correctness gates of `compare.py`: one boolean.
- The chunk and causal-conv1d metadata of GDN: functions of the prefill query starts.
- The fp8 embedding's gather, the drafter's placeholder modules, the registration of custom operators.
- The vLLM hooks (RoPE clamp, KV headroom check, diagnostics): start-up configuration. The stall
  the headroom check warns of happens in vLLM's scheduler.
- What `do_kv_cache_update` does when the forward context has no such layer (`plugin.py:684`):
  the context is vLLM's.
- The launcher but for `verified_binary`, which is `Run` of `CandidateBuild`: argument checks.
- Losing the machine in the middle of an append; a killed process leaves whole lines.
- vLLM itself, but for what the plugin sees of it (marked external in the map).

## 7. Plan

Done: `KvInt4`, `AttnSplit`, `PrefillCopy`, `GdnMetadata`, `GroupWeights` with
`LinearDispatch`, `HadCounters`, `ExperimentController`, `Comparison`, `FrozenArtifacts` over
`WriteOnce`, `CandidateBuild`; theorems for every safety property of their runs.

Left, in this order:

1. Composition: `AttnSplit` as what carries out `DecodeRead` of `KvInt4`, and `PrefillCopy`'s
   rows as its `PrefillRead`.
2. The placeholder modules and the fp8 embedding in `GroupWeights`.
