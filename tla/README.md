# A TLA+ verification of river5

river5 is a 128-bit content hash for deduplication: a C library whose public API
dispatches to one of several AES-NI backends or to an XXH3 stub, a Rust crate on top
of it, and a benchmark that hashes a file tree with several threads. This directory
holds TLA+ models of it, TLC configurations that check them on small instances, and
theorems about them that TLAPS checks for every value of the constants.

Paths below are relative to the repository; line numbers are those of the commit the
models were written from. `PROJECT.json` maps every definition to the lines it models.

## 1. The system

| Component | State it keeps | Operations | Talks to |
|---|---|---|---|
| v15 backend, `csrc/river5_aesni_v15.c` | `struct river5_ctx`: 16 lanes, `total_bytes`, `buf_len`, `buf[256]` | `one_shot`, `new_state`, `init_in`, `update`, `finalize`, `free_state` | called through a vtable |
| variants v1, v2, v3, v6, `csrc/river5_aesni*.c` | the same, v1 with 8 lanes and derived keys | the same | called by the bench only |
| stub backend, `csrc/river5_stub.c` | a context that owns an XXH3 state: two heap blocks | the same; `init_in` always refuses | XXH3 |
| dispatch, `csrc/river5.c` | one `static` pointer, resolved lazily and without synchronisation | the nine API functions | CPUID, the vtables of v15 and the stub |
| Rust crate, `src/lib.rs` | `Hasher`: a heap pointer; `StackHasher`: 1024 bytes and a tag | `new`, `new_seeded`, `update`, `finalize`, `Drop`; moves, sends | the C API |
| file bench, `bench/file.c` | path list; two atomic counters; per-worker contexts and accumulators | walk, spawn, claim, hash, join, report | the hash registry, pthreads, stdio |
| micro bench, `bench/micro.c` | the pool, iteration count, the region reached | allocate, calibrate, scale, measure | the hash registry, the clock |
| hash registry, `bench/hashes.c` | none | ten plugins, each forwarding five functions | every backend |
| quality test, `test/quality.c` | none | statistics over digests | the API |
| build, `Makefile`, `CMakeLists.txt`, `build.rs` | `RIVER5_HAS_AESNI` | which sources are compiled, with which macro | dispatch |
| third party | none of ours | XXH3, BLAKE3, MetroHash, Meow | stub, registry |

What is hard in it, and what correct means:

* **The streaming core.** `v15_update` has a fast path, a top-up of a partial block,
  two block loops with different thresholds, and a tail that goes back to the buffer;
  `v15_one_shot` does the same work without a buffer. A mistake in one of them shows
  only for particular lengths in a particular order of calls. Correct means that the
  digest is a function of the seed and the concatenated bytes, never of how they were
  cut into calls; that nothing is read past the input, lost or fed twice; and that the
  stale or uninitialised bytes of `buf[]` never reach a lane.
* **The unrolled lanes.** Sixteen hand-written lines per step. A wrong index gives a
  hash that passes every consistency test and ignores part of its input.
* **The racy cache.** `vtable()` reads and writes a plain static pointer from any thread.
  Each backend has its own private layout of `struct river5_ctx`, so a context must
  never reach another backend than its maker.
* **Memory.** `stub_new` allocates twice and may fail in between; `river5_init_in` must
  not overrun the caller's storage.
* **Moves in Rust.** The context of a `StackHasher` moves with the value; its pointer
  must be derived afresh on every call (an earlier revision did not and crashed).
* **The walk.** Everything in it may fail and nothing of that is reported. Correct means
  that a failure costs only the files it concerns, and that no file is listed twice.
* **The workers.** Files are claimed through an atomic counter, results accumulate per
  worker and are read by the main thread after the joins. Correct means that the
  printed fingerprints are, for each hash, the XOR of the digests of exactly the files
  hashed, whatever the interleaving and the failures tolerated on the way.
* **The plugins.** Ten near-identical records of functions, each with a private context.
  Correct means that a context stays with its maker and that streaming through a plugin
  gives the digest its one-shot function gives.
* **The measurement.** A calibration against a clock that may be too coarse decides how
  many calls are made, and a rotation decides which part of a pool they read.

`PROJECT.json` lists each hazard at its line with the properties that cover it.

## 2. The modules

| Module | Models | Composes |
|---|---|---|
| `StreamingHash` | the promise of `include/river5.h`: a context collects a message, finalize and one-shot return its digest | abstract specification |
| `AesniStream` | v15 at the grain of its loop iterations; v1, v2, v3 and v6 by two constants | implements `StreamingHash` |
| `LaneMixing` | `init_lanes`, `process_block` and `finalize_state` of the five AES-NI backends, at real size | |
| `Dispatch` | the API and the vtable race; allocation and storage in v15 and the stub | |
| `RustHashers` | `Hasher`, `StackHasher` and their moves | extends `Dispatch` |
| `Backends` | what the bench calls: v1, v2, v3, v6, v15 and the third-party hashes, a call at a time | |
| `Registry` | the plugins of `bench/hashes.c` | extends `Backends` |
| `FileWalk` | `walk_collect` and `pv_push` | |
| `CorpusFingerprint` | what the file bench reports: each file counted once under each hash | abstract specification |
| `FileBench` | `run_file` and `worker_main` | extends `Registry`, instance of `FileWalk`, implements `CorpusFingerprint` |
| `MicroBench` | `run_micro` and the two loops it measures with | |
| `AesniStreamProofs`, `LaneMixingProofs`, `DispatchProofs`, `RustHashersProofs`, `MicroBenchProofs`, `FileWalkProofs`, `FileBenchProofs`, `FileBenchRefinement` | theorems | each extends what it is about; `RustHashersProofs` stands on `DispatchProofs`, the last three on one another |
| `MC*` | the small instances | |

### AesniStream

`ctx`, `lane`, `total_bytes`, `buf_len`, `buf` are the context; `data`, `p`, `len`,
`local` are the arguments and locals of the call in progress, `pc` where it is; `seed`
and `msg` are history. `v15_update` is `UpdateFast` (lines 344-352) or `UpdateSlow`,
`Fill` (357-368), any number of `UpdateLookAhead` (370-377) and `UpdateBlock` (378-382)
and `UpdateTail` (384-390). `v15_one_shot` is `OneShot`, `HashLookAhead`, `HashBlock`,
`HashTail`. `New` is `v15_new` when it succeeds and `v15_init_in`; neither writes `buf[]`,
so the cells start as `Junk`, and so does any byte loaded from past the end of the input.

The lanes are a free term: the seed, the bytes absorbed in order, and whether the
butterfly of `finalize_state` has been applied. Two terms are equal only if the same
bytes were absorbed in the same order, so an equality of digests in the model is one
that holds whatever AES does. `total_bytes` does not wrap: 2^64 bytes are out of reach.

`FastPath` is FALSE for v1, v2, v3 and v6, `LookAhead` is FALSE for v1.

### LaneMixing

A 128-bit value is the set of its bytes that may differ when one byte does, of a block, of
the seed or of the length (`where`). AESENC is ShiftRows and MixColumns on such sets and
union with the key; PSHUFB permutes them. Absence from the set is certain independence;
presence is dependence unless contributions cancel. Each step of the state machine is one
unrolled stage of the code; the seed enters through `init_lanes` (in v1 also through
`round_key` and `cross_key`), the length through `LengthFold`.

### Dispatch

`cached` is the static pointer. A call goes through `read` (the unsynchronised load),
`resolve`, `publish` (the store) and `run`. The load of a thread that has neither seen nor
stored the pointer may return either NULL or the current value: these are the outcomes a
plain aligned pointer has on the targets of the code, where a value once seen stays seen
(`knows`). A context is its maker, the XXH3 state it points to and whether it has been
finalized. The stub's two allocations and two frees are separate steps that may
interleave with other threads. Callers keep the contract of the header: one call at a
time per context, nothing but free after finalize, one free.

The contract is a guard here, which is why `RustHashers` exists: it makes the crate's
calls without these guards and shows that each one satisfies them (`KeepsContract`).

### RustHashers

`value[p]` is the hasher living at place `p`; the places are the storages of `Dispatch`. A method begins with a C call
(`Enter`), runs the C code of `Dispatch` (`Step`) and goes on when it has
returned. `Move` copies the bytes of a value to another place, the in-place context with
them. `with_seed_opt` is `StackHasherNew`, then `InPlace` or `Fallback` and
`FallbackReturns`, which panics when there is no memory. `finalize` consumes the value,
so `HasherFinalizeReturns` goes on to the free of a heap context. Assumed of the language:
`&mut` is exclusive, a value is not moved while borrowed, and it is dropped once.

### Backends and Registry

Here a backend is four functions on a context: the lanes are the bytes absorbed in whole
blocks, the buffer is the rest. That the loops of `update` amount to `Absorb` is what
`AesniStream` checks and its proofs show, for every shape of the loops. A context read by
another backend than its maker, or used after `finalize`, gives `Junk`. The stub, the XXH3
plugin and the wrappers of BLAKE3, MetroHash and Meow only forward: the hashes behind them
are assumed to stream as they hash in one shot, and a digest is taken to spend the context,
which is MetroHash's rule and stricter than the others'. A plugin is the record of which
backend each of its functions goes to.

### FileWalk

The recursion is the stack `dirs` of open directories, each with the names `readdir` has
still to return, in any order. `lstat`, `opendir`, `readdir`, `strdup` and `realloc` may
fail at any time: the first four lose files silently (`failed` records which), the last
ends the process. A path is what it resolves to: `Named` cuts the last component off where
`snprintf` does. The tree is finite, does not change, and has no directory inside itself; no
file has two names, and no name begins with a dot (`TreeAssumption`).

### FileBench

`main` goes through the selection of the hashes (`Select`), the walk (`TakeWalk`, a step of
`FileWalk`, and `EndWalk`), `Spawn`, `Join`, `Aggregate` and `Report`. `worker_main` is
`Setup`, then `Claim` (the `atomic_fetch_add` on `next`), `Open` or `OpenFails`,
`ReadChunk` until `TakeDigests`, and `Count`. The inner loops over the hashes are one step
each: they touch only the worker's own contexts and accumulators. All ten plugins are
active, each with its own context and accumulator. XOR of digests is symmetric difference
of sets, so equal files cancel as they do in the code. A read error looks like the end of
the file. `Crash` is the end of the process where the code uses what it has not checked:
a context that could not be allocated, the worker array, the vector of paths, the handle of
a thread that was not created. Which of a worker's allocations failed makes no difference:
the first use ends the process. (MetroHash's `new` throws where the others return NULL,
which ends the process a little earlier.)

The result of `pthread_create` is not looked at, and what it leaves as the handle of a
thread it has failed to create is undefined. `JoinNoThread` therefore crashes (the handle
is still the 0 of `calloc`) or goes on (it is that of a thread given up, or of one created
later in the same memory), and in the latter case the later worker is joined twice:
`JoinTwice`, which crashes, or `Join`. The bench may thus report with a worker that never
existed.

### MicroBench

Time is in nanoseconds; the clock shows multiples of `RES`, a loop begins anywhere between
two of its ticks (`phase`), and the cost of a call differs from loop to loop but not within
one. `Calibrate`, `Call`, `SizeUp`, `Measure` and `Report` are the two loops of
`bench_one_size` and of `bench_one_size_cold`, which differ in `n_buffers` only.

## 3. The runs

| Run | Instance | Shows |
|---|---|---|
| `aesni_v15` | blocks of 2 bytes, all messages up to 6 bytes, inputs up to 5 | the seven properties of the streaming core, refinement and liveness included |
| `aesni_v1` | blocks of 3 bytes, two seeds, no fast path, no look-ahead | the same promise in the loop of v1; v2, v3 and v6 lie between and are left to the proofs |
| `lanes` | real sizes, up to two further blocks, the empty message for the seed and the length | every byte of a block and of the seed can change every byte of the digest; the length always shows; lanes stay apart until they should mix |
| `dispatch` | both kinds of CPU; 2 threads, 3 blocks, storage that fits, is a byte short, is misaligned | the race is benign, contexts reach their maker, storage is not overrun, no leak or use after free whichever allocation fails, calls return |
| `rust` | both kinds of CPU; 2 threads, 2 places, 4 blocks | the crate keeps the contract of the C API, across moves and panics, and leaks nothing |
| `file_bench` | 2 workers; 3 files in 2 directories, a link to a file and one to the directory it is in, two files equal, one longer than a read and a block; `--hash` absent or unknown | the walk loses only what failed; every fingerprint, the count of files and that of bytes are right in every interleaving, and the bench ends |
| `micro_bench` | 2 hashes, 3 sizes, no pool and pools smaller and larger than the inputs; a clock coarser than a call; three durations | reads stay inside what was filled, the rotation is even, the time spent is bounded both ways, and the calibration ends |
| `makefile_build`, `no_aesni_cpu`, `lanes_v2`, `path_cut`, `min_seconds` | | disagreements, section 6 |

Why the bounds are enough. In `aesni_v15` a call of five bytes after a partial block runs
the top-up, the look-ahead loop and the block loop and leaves a tail; six bytes allow the
same in two calls, with an exact fill and an empty call in between. Two byte values, both
in the secret, let an input look like padding. Block size, byte values and lengths are
unbounded in the proofs. `LaneMixing` has no bound but the number of later blocks, which is
any number in the proofs: the 128 or 256 positions of a block, 32 of the seed and 8 of the
length are all looked at. Two threads suffice for the race on one pointer, whose
every step concerns a thread and the pointer; the proofs cover any number. Four blocks hold
two complete stub contexts or one and two half-made ones. Three files for two workers leave
one to be fought over, and equal files end up with the same worker or with different ones;
the file of three bytes is read in one, two or three pieces, which straddle the blocks of
two and three bytes. A capacity of one makes the vector grow twice. In `micro_bench` the
calibration ends at once, after growing, and by giving up after three loops.

`KeepsPromise` of the file bench allows files to be left out at any time; that only what a
call failed for is left out is `LosesOnlyFailures`, which catches a walk that stops early.
What `ReportsAll` allows to be missing is every path together, when no worker ever claimed
one: none could be created, or none had the memory for its read buffer.

Fairness. A call that has been made keeps executing and a thread that can run is run by
the operating system: weak fairness of the steps of calls in progress (`Return`, `Step`),
of the main thread and of each worker, of the only thread of the micro bench. Nothing
obliges a caller to make a call, so no caller action is fair. An operation that may fail may fail for ever; no fairness rules
that out. Deadlock checking is off in `FileBench`,
`MicroBench` and `LaneMixing`, which end.

## 4. What is proved

`AesniStreamProofs`, for every block size, secret, set of inputs and both variant switches:

* `StreamCorrect`: `StreamInv` is inductive and hence invariant. None of its parts is
  inductive alone. That the digest is right needs `NothingLost` (absorbed, buffered and
  unread bytes make up the message, in order); that the bytes of `Fill` and `UpdateTail` go
  where they should needs `EagerBlocks` (a partial block survives the top-up only if the
  input is exhausted); that the loads are right needs `ReadsWithinInput`; that the padding
  is the right piece of the secret needs the lanes to have absorbed a whole number of blocks.
* `TypeCorrect`, `ReadsStayInside`, `NothingIsLost`, `BlocksAreEager`: its parts.
  `TypeCorrect` includes that no indeterminate byte is ever absorbed by a lane.
* `Implements`: `Spec => KeepsPromise`. Under the invariant each step is a step of
  `StreamingHash` with `ReferenceHash`, or a stutter; a digest that appears is the reference
  digest of the message.
* `DigestDeterminesMessage`: the reference digest is injective in seed and message, as a
  term: padding and length keep apart what the padding alone would confuse.

`LaneMixingProofs`, for any number of blocks after the changed one:

* Two facts about an AES round carry everything: a byte spreads over a column
  (`RoundWidens`), and a value with a whole column in it over all sixteen bytes
  (`RoundFills`); and one about the table of shuffles: every row is a permutation
  (`RowsPermute`). `LaneInv` says lane by lane what has changed, and from which stage on
  some lane (for the seed, each lane) has a whole column, so that the length fold, always
  a round, fills the digest. None of the four properties is inductive: `FullDiffusion`
  speaks of the end only, and `OwnLanesOnly` does not say how much of a lane has changed.
* `EveryByteSpreads`, `LanesStayApart`, `LengthShows` and `LaneTypes` follow from it.

`DispatchProofs`, for any number of threads, blocks and storages and any build:

* `DispatchCorrect`: `DispatchInv` is inductive: every vtable pointer anywhere is the one
  `resolve_vtable` returns (`OneVtable`), and a call holds its context alone (`Exclusive`).
  `MakersHandle`, `OneBackendServes`, `SelectionIsSticky` follow from it.
* `HeapInv` adds the memory. `Ledger` says block by block what `HeapAccounted` says of the
  sets, so that a step that moves one block changes one line of it; it is not inductive
  without `CallsHold`, which ties a block that is not yet a context to the call in `create`
  and has `stub_free` give the XXH3 state back first. `InPlaceIsV15` holds because only
  v15 ever returns storage. `HeapIsAccounted`, `StorageContains` and `DispatchTypes` follow.

`RustHashersProofs`, for any number of threads, places and blocks:

* `RustInv` is `DispatchInv` and `HeapInv`, which the crate's calls keep as they keep the
  contract, with `Methodical` (which method each thread is in, with which call on which
  value, and one thread at a time on a value) and `Ownership` (a context is owned by one
  value, at its place, or is on its way from `river5_new` to the value being made, and is
  finalized only when its value is leaving). `NoLeak` and `OwnsContext` only speak of the
  moments between methods and are not inductive without what is in between.
* `ValuesOwnContexts`, `NothingLeaks`, `BackendIsShared`, `RustTypes`, and `ContractKept`,
  an action property: every C call the crate makes, unguarded, satisfies the guard that
  `Dispatch` puts on callers.

`MicroBenchProofs`, for every list of sizes, pool, duration, cost of a call and clock:

* `MicroCorrect`: `MicroInv` is inductive. `GoesRound` is not inductive alone: that no
  region is two calls ahead of another needs `Rotation`, which says how many calls each
  region has had from the one reached. `RegionsInPool` needs the bound on the region
  reached (`Rotation`) and that the pool holds the largest size (`PoolFilled`).
* `MicroTypes`, `CallsStayInPool`, `CallsGoRound` follow from it.
* `LoopsTakeTheirTime` needs `Timed`. For the bound below it carries from the calibration to
  the measured loop how many calls were made for the time `t` shown. The loop falls short
  by three errors: its calls may cost `CMin` where those of the calibration cost `CMax`, the
  count is rounded down to whole calls, and `t` may be `RES - 1` too much. With costs of 1
  and 2 and a tick of 3, one call of cost 1 may show 3, and the loop then takes 10 of 30: the
  clock's error is two thirds of what it showed, and the bound says that much. A `t` of 0
  allows no bound; it is only scaled when no time was asked for or the calibration gave up.
  For the bound above `Timed` carries from loop to loop that the one before showed less than
  a tenth of the time asked for, or was a single call. It has three sources: twice the time asked for, four ticks of the clock beyond it, and one call,
  when a call alone takes longer than the time asked for; leaving out any of them makes
  the property false.

`FileWalkProofs` and `FileBenchProofs`, for every tree, content, number of workers, size of
a read and selection of hashes:

* The files under a node are a recursive function; that it exists is shown by its least
  fixed point (`UnderExists`), and what holds of all nodes by the depth of a least
  counterexample (`UnderIsDeeper`, `UnderIsApart`: two nodes at one depth share no file).
* `WalkInv` keeps the types, the capacity of the vector, and that what is still to be
  returned by `readdir` is in its directory. `Account`: a file under the root is collected,
  or under exactly one entry still to be returned, or passed by in a call that failed,
  and only one of the three. With `ListedOnce` and the lengths of the paths it is inductive
  (`TreeInv`), under `NoPathIsCut`: every path of the tree fits `path[]`. That hypothesis is
  needed, as the run `path_cut` shows, and the instance of `file_bench` satisfies it.
* `BenchInv` is inductive: `Shapes`; `Phases` (what the main thread's place says of the
  workers: none has begun before `spawn`, those joined have exited or
  were never created); `Claims` (the counter
  passes the number of paths at most once per worker that is gone, and reaches it unless a
  worker is still to look at it); `ClaimedOnce`; `Reading` (each context streams what was
  read of the file at hand, through one backend of its plugin); `Counts` (`files_done` and
  the workers about to add to it, and the partial sums of `files_hashed` the main thread
  goes through); `Parity` (an odd number of accumulators holds a digest exactly if an odd
  number of the files hashed has it, which is what XOR keeps).
* `BenchTypes`, `ClaimsOnce`, `FreshContexts`, `AccumulatorsAddUp`, `ReportIsComplete`,
  `VectorHasRoom`, `WalkListsOnce`, `WalkLosesOnlyFailures` follow; the last two and the
  next under `NoPathIsCut`.

`FileBenchRefinement`: `BenchKeepsPromise`, that the bench implements `CorpusFingerprint`.
`TakeDigests` is `Hash` of the file whose path was claimed, which `Account`, `ListedOnce` and
`ClaimedOnce` show not to have been dealt with; a step of the walk is `Skip` of what it
loses, for files once lost stay lost (`LostGrows`); `OpenFails` is `Skip` of one file or of
none, when `strdup` had left no path; `Report` is `Report`: `Aggregated` ties the main thread's
sums to the first workers, and no file is left out because walk and claims are complete.
Every other step is invisible.

Assumed: the named assumptions on the constants, which TLC evaluates in the runs, and
`NoPathIsCut` where it is stated.

Only model-checked: liveness (`CallsReturn`, `MethodsEnd`, `Ends`), which is beyond the
prover. No module uses a RECURSIVE operator; the two recursive functions, `Under` and
`BytesBy`, are reasoned about by their equations and least counterexamples.

## 5. What is not modelled

The values of AES rounds, of the secret and of XXH3: the properties tell messages apart,
not bits. The quality test and the vendored hashes, for the same reason. Option parsing,
formatting, CPU time and the shell scripts: I/O. The wrap of `total_bytes`, 2^64 bytes away.
`init_in` of v1, v2, v3 and v6 and `hash_find`, which nothing calls. A file system that
changes during the walk, hard links, and names that begin with a dot, which a cut could turn
into `.` or `..`. A negative `--seconds`, which is undefined. `mem::forget` and leaks by
`process::exit`, which Rust considers safe.

## 6. Disagreements between the code and its documentation

Each is a run in which TLC finds the quoted claim violated.

* `makefile_build`: only `build.rs` defines `RIVER5_HAS_AESNI`. A bench built by the Makefile
  serves the public API from the stub on every CPU, though `bench/hashes.c:54` and
  `csrc/river5.c:57` say v15. Numbers the bench prints for "river5" are those of XXH3.
  (`CMakeLists.txt` compiles only `river5.c` and `xxhash.c`, without the stub that `river5.c`
  refers to.)
* `no_aesni_cpu`: `include/river5.h:44` gives size and alignment as the reasons for
  `river5_init_in` to return NULL, and its usage pattern does not check; with the stub it
  always does. The Rust crate knows and falls back.
* `lanes_v2`: `river5_aesni_v2.c:177` says every output bit depends on every input bit; a byte
  in the last lane of the last block reaches four bytes of the digest. One more block
  repairs it, as does the butterfly of the later variants (`FullDiffusion`).
* `path_cut`: `bench/file.c:2` says each regular file is read once. `snprintf` cuts a path at
  4095 bytes and nobody looks: what is left may name another file of the directory, which is
  then hashed twice, and so vanishes from the fingerprint, or the directory itself, which is
  then walked again until no more directories can be opened.
* `min_seconds`: `bench/micro.c:4-5` says the buffer is hashed until at least `min_seconds`
  have passed. The number of calls is fixed before and rounded down. `TakesItsTime` says how
  far off it may be.

Stale or loose comments without a run of their own: `README.md:24` says that the dispatcher
picks v2 (it picks v15); `river5_aesni_v15.c:119` says that no shuffle pattern is a simple
rotation (that of lane 8 rotates by eight bytes); `river5_impl_name` is documented to return
the stub's name "today"; `river5_aesni_v3.c:192` says that one more butterfly makes every
output bit depend on every input bit before the tree (it joins a lane with its partner only:
two of the sixteen are reached by a byte of the only block); `river5_aesni_v2.c:245` says that padding from
the secret's offset keeps tails of different length apart before the length fold (not when
the longer one ends in the bytes of the secret the shorter one is padded with).

## 7. Plan

Order: what the digest depends on first, then who may hold a context, then the clients.

1. Done: `StreamingHash`, `AesniStream`, `LaneMixing`, `Dispatch`, `RustHashers`, `Backends`,
   `Registry`, `FileWalk`, `CorpusFingerprint`, `FileBench`, `MicroBench`; every safety
   property and both refinements that the runs check are proved.
2. To come: a composition of `AesniStream` with `RustHashers`, so that the bytes of a
   context survive a move.
