# SwiftBeaver: specifications of the scanning pipeline

SwiftBeaver is a file carver: it reads a piece of evidence (a disk image, a
device, an E01 file) in overlapping chunks, looks for file signatures and for
strings, carves the files it recognises and records what it found. This
directory holds TLA+ specifications of it, TLC configurations that check them
on small instances, and TLAPS proofs of theorems about them for every instance.

All source paths are relative to the repository root; the crate is under `src/`.

## The system

| Component | Source | State | Operations | Interacts with |
|---|---|---|---|---|
| Reader | `src/pipeline/mod.rs` | chunk list, `bytes_scanned`, `chunks_seen`, `next_offset`, the `hit_*` and `cancelled` flags | loop over chunks, test limits, read, send a job, flush, close, join, summary, checkpoint | all threads, by channels and joins |
| Scan workers | `src/pipeline/workers.rs` | the job at hand | receive a job, send its hits, its strings, its entropy regions | reader, carvers, stringers, metadata |
| Carve workers | `src/pipeline/workers.rs` | the hit at hand, the shared `files_carved` | receive a hit, test the limit, call the handler, count, record, parse SQLite files | scanners, metadata, evidence |
| String workers | `src/pipeline/workers.rs` | the job at hand | receive spans, send artefacts | scanners, metadata |
| Metadata thread | `src/pipeline/workers.rs` | the sink and its buffers | record, flush, final flush | all other threads |
| Chunking | `src/chunk.rs` | none | `build_chunks` | reader |
| Checkpoints | `src/checkpoint.rs`, `src/main.rs` | the checkpoint file, the metadata files of a run | load, validate, save | reader, across runs |
| Signature scanner | `src/scanner/` | patterns | `scan_chunk` | scan workers |
| GPU scanners | `src/scanner/opencl.rs`, `cuda.rs`, `src/strings/opencl.rs`, `cuda.rs` | one shared kernel or device behind a mutex, the buffers of a scan | `scan_chunk` | scan workers, the driver, the CPU scanners |
| String scanner, artefacts | `src/strings/` | run-length state machines | `scan_chunk`, `extract_artefacts` | scan and string workers |
| Carving framework | `src/carve/mod.rs`, `footer.rs` | stream offset, bytes written | `read_exact`, `write_bytes`, `write_range`, footer search | carve workers, evidence |
| File type handlers | `src/carve/*.rs` | one walker per format | `process_hit` | carving framework |
| Metadata sinks | `src/metadata/` | buffered writers, Parquet row buffers | `record_*`, `flush` | metadata thread |
| Parsers | `src/parsers/` | none | history, cookies, downloads, page walk | carve workers |
| Evidence | `src/evidence.rs` | file or image handle | `read_at`, `len` | reader, handlers |
| Utilities | `util.rs`, `config.rs`, `cli.rs`, `logging.rs`, `error.rs` | configuration | parsing, limits, registry | start-up only |

What is hard about it:

* *Concurrency.* Four kinds of threads and the reader share four bounded
  channels and a counter. A send blocks when its channel is full and fails when
  every receiver is gone; the file limit is a load and a later `fetch_add`.
* *Shutting down.* The reader closes channels and joins pools in an order that
  has to agree with who sends to whom, also when carvers leave early for the
  file limit and when a thread panicked.
* *Stopping and resuming.* Four limits and Ctrl+C may stop a run; the
  checkpoint must then describe what was done, not what was started.
* *Boundaries.* Chunks overlap; a hit in the overlap is seen twice and must be
  kept once. Offsets are `u64` and the arithmetic saturates.
* *Failure.* Reads may be short or fail, the sink may fail, a checkpoint write
  may be torn, a driver call may fail, a process may be killed.
* *Hostile structure.* Handlers follow sizes, tables and chains that stand in the
  evidence, which may be cut, lie, or lead back into themselves.

What makes each component correct is stated as properties in its module, see
below; the list of hazards, each at its line and with the properties that watch
it, is in `PROJECT.json`.

## The modules

| Module | What it is |
|---|---|
| `Chunking` | the geometry: closed forms of the chunks, who owns a byte, who sees a signature, what a resumed run skips |
| `ChunkLoop` | the loop of `build_chunks`, to check the closed forms against |
| `Pipeline` | one run: the reader and its threads, channels, counters, limits |
| `HitLedger` | the abstract specification of a run: what happens to a hit |
| `MCPipeline` | small instances of `Pipeline`, symmetry of the pools |
| `Sessions` | a chain of runs on one piece of evidence, with checkpoints and metadata files |
| `MCSessions` | the command lines of small instances of `Sessions` |
| `FooterCarve` | one call of the footer handler: the search across buffers, limits, failures |
| `MCFooter` | small evidence for `FooterCarve` |
| `Carving` | what the file type handlers share: the output file, `CarveStream`, `write_range`, limits, flags |
| `StreamCarvers` | the handlers that copy while they parse: png, gif, webp, wav, avi, sqlite, ogg, tar, mp3 |
| `DocumentCarvers` | rtf and ole |
| `MarkerCarvers` | the handlers that look for a mark across buffers: jpeg, pdf, fb2, bzip2, gzip, xz, eml, zip |
| `SizedCarvers` | the handlers that compute the end first: bmp, 7z, elf, ico, lrf, mobi, wmv, webm, mp4, mov, rar, tiff |
| `Carvers` | all handlers composed: one call of `process_hit` of any of them |
| `MCCarvers` | small files of every format, whole, cut and limited |
| `Sinks` | the metadata sinks: line buffers, row groups, failing writes, the end of the process |
| `StringRuns` | the passes of the string scanner and the entropy detector over overlapping chunks |
| `GpuScan` | the GPU scanners: workers that share a kernel or a device, work items, bounded buffers |
| `MCGpuScan` | small chunks for `GpuScan` |
| `PipelineProofs` | theorems about a run: its types, its file limit, and what becomes of a hit (the ledger, the summary, the checkpoint) |
| `ChunkingProofs` | lemmas about the geometry that the proofs about runs use |
| `ScanProofs` | theorems about the geometry, and about the strings and regions a worker finds in the chunks |
| `SessionProofs` | theorems about chains of runs |
| `FooterProofs` | theorems about the footer search |
| `CarverProofs` | theorems about every handler |
| `GpuProofs` | theorems about the GPU scanners |
| `SinkProofs` | theorems about the metadata sinks |

`Pipeline` and `Sessions` both extend `Chunking`. `Sessions` is one level up: a
run's threads are left out of it, because `Pipeline` shows that a run that ends
has handed every hit of the chunks it claims to a handler (`CheckpointCovers`)
and recorded what was carved (`RunRecorded`). `Pipeline` in turn takes a handler,
a sink, a string scan and a signature scan for one step each; `Carving` and the
modules on top of it, `FooterCarve`, `Sinks`, `StringRuns` and `GpuScan` each
open one of these steps. `StringRuns` extends `Chunking`, too.

Definitions whose comment begins with *Mutant* are not part of the model: each
is a plausible slip in the definition that follows it, and shows that the
property named in `PROJECT.json` tells the two apart.

### Pipeline

A thread is a program counter and the data it holds; a channel is a sequence.

* Reader: `rpc` with `loop` (top of the `for`), `ready` (past the file limit),
  `send`, `flush`, `next` (the test after the send), `close`, `joinScan`,
  `joinCarve`, `joinString`, `summary`, `joinMeta`, `done`; `failed` and
  `exited` are the early return through `?` and the end of the process. `stop`
  is the set of flags `hit_max_bytes`, `hit_max_chunks`, `hit_max_files`,
  `cancelled`. `saved` is the checkpoint written at the end.
* `CheckFiles` is a step of its own because it reads the counter the carvers
  write; so is everything that touches a channel. The other tests of the loop
  read only the reader's locals and the cancel flag, and are one step
  (`CheckStop`, `ReadChunk`).
* Scanner: counting a hit (`hits_found`) and sending it are two steps. A failed
  send to the carvers ends the hit loop of the job, a failed send to the string
  workers ends the worker, as the two `break`s of the code do.
* Carver: `check` (the load of `files_carved`), `carve` (the handler), `record`,
  the three parsers of a carved database, `limit` (the test of `new_total`). When
  the last carver leaves, the receiver goes with it and queued hits are lost.
* Metadata thread: `log` is what the sink accepted, `flushed` how much of it a
  flush has pushed out.
* `fate` is a history variable: what became of each signature.

Data is abstract: evidence is a set of offsets that carry a signature of length
`PatLen`, a set of offsets where a string with an artefact starts; a handler is
its outcome; a parser yields no record or one, the entropy detector no region
or one per chunk.

Properties: channel bounds and types (`TypeOK`); `BoundedOvershoot` about the file limit;
`DroppedOnlyAtLimit`, that before the limit hits are given up only to panics, one each,
as long as a carver is left; `RunRecorded` about the metadata of a
finished run; `CheckpointCovers` about what a checkpoint claims; `Termination`;
and `ImplementsLedger`, that the run refines `HitLedger`: a signature is found
at most once, a found hit settled or dropped exactly once, a file recorded at
most once, and no hit is open when the run is over. The refinement mapping
reads the abstract `records`, a count for each signature, off the `file` records of `log`
and `closed` off `rpc`; `fate` is the same on both sides.

### Sessions

One action per way to start a run (`StartFresh`, `StartResumed`,
`ResumeRefused`), per chunk, and per way to end (`StopCancelled`, `StopLimit`,
`RunComplete`, `TornCheckpoint`, `Crash`). `times` counts how often each
signature was handled along the chain of runs the checkpoint goes back to, and
a checkpoint carries the counts of the moment it was saved. `ResumeExact`: a
checkpoint stands for exactly the evidence before its offset. `CompleteExact`: a
run that reaches the end leaves every signature handled once. `CheckpointUsable`:
what was saved would not be refused. `RecordsSurvive` is what does not hold.

### FooterCarve

A job is what the search can tell of the evidence: its length from the hit on,
where footer patterns occur, which header patterns match at the hit, and the
limits of the file type. `written` is both the bytes copied and the offset of
the next read, `carry` the length of the tail kept from the buffer before.
There is one action per way through the loop of `process_hit`: `Truncate`,
`HeaderMismatch`, `FooterFound`, `NoFooter`, `IoFails`; then `Finish` flushes and
applies `min_size`. A read returns all that was asked for and is in the
evidence, or any part of it of at least `MinRead` bytes.

`NoFooterMissed`: what was copied holds no footer that starts before the one
the carve ends with, and a carve that ends without a footer reached its limit
and passed none. Which of two overlapping footers of different lengths is taken
depends on where the buffers end: a longer one that starts first loses when its
end is not read yet. The property says so, and says no more.

`NoFooterMissed` needs reads that are at least as long as the carry
(`ReadAssumption`). The carry is cut from the new buffer only, so a footer spread
over three very short reads would be missed; `pread` on files and devices and
libewf do not return such reads before the end of the evidence.

### Carving and the handlers

One call of `process_hit`. The evidence is a function from offsets to *tokens*, what a
parser finds there: a kind and up to two numbers (a declared length, an offset).
Everywhere else it finds bytes that fit no format. Tokens keep their real width, so
that a cut, a limit or a buffer may end inside one. `phase` is the order all handlers
share: those that copy while they parse create their file first (`create`, `walk`,
`flush`), the others `parse` first and then create and `copy` a range. `written` is the
offset of `CarveStream`, `pos` that of a parser that reads in place, `mem` the locals of
the loop.

* `ReadExact` is `CarveStream::read_exact`: *Truncated* before a byte is read, *Eof*
  after what there is was copied, and nothing more is read behind either. A walker
  step is one round of the handler's loop, its reads a sequence of lengths (`Reads`);
  `Cut`, `Reject`, `Stop` and `Continue` are its four ways on. `WriteRange` is `write_range` with the test for the end of evidence.
* `Discard` and `Deliver` are the end of every handler: `min_size`, the allowed kinds,
  the record with its flags.
* `Fails` is an error through `?` at a create, read, write or flush. It leaves the
  file, as the code does. A read error a handler turns into `None` (`.ok()?`) behaves as
  the end of the evidence.
* The searches for a mark (`MarkerCarvers`) read buffer by buffer and keep a carry of
  their own; `WholeFileCarved` fails when one of them is a byte too short.
* A rename (`ole`, `zip`) that gives a file its kind is part of `Deliver`.

Properties: `SizeWithinLimit`, no file exceeds `max_size`; `ValidMeansWhole`, a record
that is `validated` and not `truncated` ends where its format ends; `WholeFileCarved`,
a whole file within the limits is carved whole and unmarked; `FileIffCarved`, a file is on
disk exactly when its record is returned, unless the handler failed; `Termination`, also
on directories and chains that lead back to themselves. The exceptions written into
the first three (`pdf`, `DataOverLimit`, `Silent`, `HoldsEarlierEnd`) are what the code does
not keep, see below; each has files among those of `MCCarvers` that need it. The other
properties hold of these files too.

### Sinks

One record after another reaches the file its kind belongs to. A line format holds a
record as `Parts` units, of which the last ends the line, and gathers units in a buffer of
`Cap`; a Parquet file has the rows of its category, the open row group and the closed
ones. `FlushOne` and `CloseOne` visit one writer at a time, because the first that fails
ends the flush, and for Parquet the finish. `Killed` is the process ending without a
drop: a kill, or the early return of the reader, whose detached metadata thread dies with
the process. How `BufWriter`, the CSV writer and `ArrowWriter` behave when a write fails is
marked external in `PROJECT.json`.

`PrefixRecovered`: what can be read of a file is a prefix of what it accepted, in a line
format if no write to it failed, for Parquet whatever failed. `FlushedSurvives`: what a
good flush covered is found whatever comes after (the line formats only). `LossCounted`: a
run that ended properly without a counted error lost nothing, but for the rows of a Parquet
writer whose failure in the drop was the only one of the run, and of the writers closed
after it. `SpoilsOne`: a failed write of the JSON-lines sink costs one record beside its own
at most. `CleanEndComplete`: after the drop every file that no failed write reached
(`Spoilt`) is complete and in order, whatever happened to the others.

### StringRuns

The scan worker's other work on a chunk: a pass for ASCII, one for UTF-8, one per parity
for the two UTF-16 encodings, and the entropy windows. `Skip` and `Run` are the two
branches of a pass's loop; `Kept` is the worker's test of the span's start against
the chunk's own part; `WindowHigh`, `WindowLow` and `NextChunk` are the loop of
`detect_entropy_regions` and what follows it. Chunks are scanned one after another, as no
scan looks at another's.

`NothingMissed` has two parts: a string long enough is reported at its true start when
the overlap holds its least length, and no stretch of text of the least length goes
unreported. `TwiceOnlyAtSeam`: two spans cover the same bytes only when a run that began
in one chunk's part goes on into the next. `SpansAreText`; `RegionsExact`.

### GpuScan

The workers of a pool share one OpenCL kernel, or one CUDA device, behind a mutex; `lock`
is its holder. `args` is whose buffers the kernel's arguments name: they belong to the
kernel, not to a launch, which is what the mutex is for. A launch starts a work item per
byte; `Count` is its `atomic_inc` and `Store` the write to the slot it got, in any order and
also after the host went on because a call failed. The CPU scanner is one step that
returns what is there (`Cpu`), because it keeps no state.

`ScanAgrees`: a scan returns what the CPU finds, each item once, except for hits beyond the
buffer. `TypeOK` says that no slot outside a buffer is written. `Termination`: every scan
returns.

## The runs

| Run | Question | Bounds |
|---|---|---|
| `chunks` | do the closed forms agree with the loop, is each byte owned once, and each signature found once or, behind a short overlap, never? | all totals and sizes 0..9 with `MaxU64 = 9`, so the last chunks saturate; overlaps 0..3 and 9 |
| `limits` | how far can `max_files` be overshot, what is lost, does the run refine the ledger? | 2 threads per pool, limit 1, 3 signatures in 2 chunks; overlap 2, so one signature is in the data of both chunks; flushes at every report of progress; 2 panics, so that a carver, a scanner, or the whole pool of carvers may be lost |
| `resume` | does a checkpoint claim only what was done, is the metadata of a finished run complete? | resumed at 2 of 7 bytes, 2 threads per pool, `max_chunks` 3, Ctrl+C at any time, one signature across the start and one, a database, across a later boundary, one string, one entropy region; overlap 2 |
| `liveness` | does every run end, with the channels within their bounds? | 1 thread per pool (`workers = 0`), 4 signatures for a hit channel of 2, limit 1, Ctrl+C, short and failing reads, sink errors, 1 panic |
| `sessions` | do chains of runs handle every signature once? | up to 4 runs, two geometries, `max_chunks` 2, 3 (one geometry's last chunk) or none, two run ids |
| `footer` | does the footer search miss nothing, and what is left on disk? | up to 2 footers of 2 or 3 bytes anywhere in 3 or 10 bytes, buffers of 4, reads of 2 and more, both size limits |
| `carvers` | what do the handlers carve, keep and call valid, and do they end? | one to four small files and some that are none for each of the 33 formats and variants; the evidence and `max_size` end at every token, 1 and 9 bytes into it, and around the end; `min_size` 0 and just below the size; `max_size` 3 for every format, which is less than any header; limits such as the page and frame limits scaled to a few rounds; buffers of 16 bytes, reads of 15 and 16 |
| `sinks` | what survives failing writes and the end of the process? | 3 kinds of record, among them one the Parquet sink has no file for; up to 5 records, 2 failing writes that write any part of the buffer, 1 kill; records of 2 units in a buffer of 3, row groups of 2 |
| `strings` | is every string and every region found, and once? | every evidence of 7 bytes of 4 kinds, chunks of 4 with an overlap of 3, strings of 2 to 3 characters, windows of 2 |
| `gpu` | does a shared GPU scan as the CPU does? | 2 workers, 5 chunk contents (0, 5, 8, 9 and 10 bytes, the last too long for `MaxU32 = 9`, the one of 9 so long that CUDA's number of blocks wraps), buffers of 2, signatures of 4 and 5 bytes, strings of 2 to 3 bytes, blocks of 2, 1 failing call |
| `bytes` | the claim of `resume`, with a byte limit inside a chunk: violated | 6 bytes in chunks of 2, limit 4 |
| `same_run` | do records on disk survive the next run: violated under one run id | as `sessions`, one run id |

Why these are enough: two threads per pool are the smallest number with a race
for the counter and a pool that is partly gone; with three signatures a limit
of one can be met, overshot and still leave hits behind. Channels only matter
empty, in between and full, which capacities of one and two already show. Two
chunks before the end show the first, a middle and a last, shorter chunk. Four
runs are fresh, interrupted, resumed and interrupted again. A handler's loop
meets every token first, in the middle and last, and every cut lies before, in and
behind each of them; a mark meets every position against a buffer of 16 that is only
little longer than the longest carry. A record of two units in a buffer of three is
once whole in the buffer and once torn by it. Seven bytes in chunks of four hold a
string in one chunk, at the boundary and over it, for characters of one and two bytes,
and a control character differs from NUL only in the UTF-16 passes, where it ends a
run as any other byte does. Chunks of five and eight bytes hold three signatures or strings for
two slots, and two workers are enough to take each other's arguments.

`resume`, `limits` and `bytes` use the symmetry of the pools: threads of a pool
are interchangeable, and no liveness is checked there. `CHECK_DEADLOCK` is off in two
runs: `sinks` stops when the process has ended and `strings` when the last chunk is
scanned. Everywhere else a state without a successor is an error, and the one in which
the program is over has an action of its own that stutters (`Terminated`, `Ended`).

Fairness. `Pipeline` (`FairSpec`): weak fairness of each thread. A thread that can take a
step (its channel is neither full nor empty, or is disconnected) stays able to
until it does, but for a competitor of its own pool, and the operating system
schedules every runnable thread. Nothing is assumed about Ctrl+C and panics.
`MCCarvers`: weak fairness of the handler's steps, a thread that calls nothing but the
evidence and the file system; `Fails` is left out, so that a handler does not end
because it must fail at last. `GpuScan`: weak fairness of each worker and of what each
launched, for the device runs its work items; `DriverFails` is left out likewise. The mutex
needs no more than that, because a worker that waits for it can only be passed by
workers that scan one chunk each.

## What is proved

For every evidence, geometry, number of workers, limit and handler call that meets
the named assumptions of the modules. TLC evaluates each assumption on the instance of every
run.

*The pipeline* (`PipelineProofs`).

* `TypeCorrect`: `Spec => []TypeOK`. The invariant is inductive as it stands
  because it has two parts that are not types: the reader at `ready` has a
  chunk (so that its length is a natural number), and a carver that holds a hit
  holds a signature. One lemma per thread, one step per action; `Frame` takes
  care of what an action leaves alone.
* `OvershootBounded`: `Spec => []BoundedOvershoot`. The bound itself is not
  inductive: a carver past the check may still count a file. `OvershootInv` adds
  these carvers to the files: for a limit above zero, `files_carved` plus the
  carvers at `carve` is at most limit - 1 + pool size. Passing the check needs
  `files_carved` < limit and the pool has only so many threads; counting a file
  moves one from the second summand to the first.
* `DropsExplained`: `Spec => []DroppedOnlyAtLimit`. A hit is dropped by the panic of the
  carver that holds it, or by a scanner that finds every carver gone. Before the limit the
  second needs that all of them panicked (`GoneByPanic`), and the first adds one to both
  sides (`DroppedCountNext`). `DropInv` adds why a carver is gone (`CarverGone`): the limit was reached, a thread panicked, or the reader
  has closed, every scanner is gone and the hit channel is empty, and that
  nothing takes such a reason back.
* `HitsInOnePlace`: `Spec => []HitInv`. A hit that was counted and has no fate yet is in
  exactly one place: what a scanner still has to send, the hit channel, or the hands of one
  carver. Its parts are about one place each (`JobInv`, `ScannerHits`, `QueueHits`,
  `CarverHits`), the last says that none is lost (`NoneLost`). Ownership makes it true: a
  chunk number is in one job, and a signature starts in the own part of one chunk.
* `RunIsRecorded`: `Spec => []RunRecorded`. `RecordInv` follows a carved file from the
  carver that counted it (`SendsOne`) through the metadata channel (`QueuesOne`) into the log
  (`LogsOne`, `RecordKept`, `FilesCounted`); `EndInv` follows the joins, so that the summary is
  behind every record (`Joined`, `MetaEnded`, `SummaryLast`).
* `LedgerImplemented`: `Spec => Ledger!Spec`. One lemma per way a fate moves (found,
  settled, dropped, recorded) and one for the steps that stutter; the steps need that a carver's
  hit is open, which is what `HitInv` says.
* `ClaimCovered`: `Spec => [](WholeScan => CheckpointCovers)` from `Geometry`. `WholeScan`
  leaves out the two ways in which the code breaks the claim, an empty read and a byte
  limit inside a chunk, and nothing else. `CoverInv` says where the reader stands
  between two chunks (`ReaderAt`), that jobs of a whole scan are not cut short (`FullJobs`),
  what a scanner or string worker that left has proved (`ScannerGone`, `StringerGone`),
  and that what was sent is seen (`SentIsSeen`). `Geometry` is what the code gives: chunks of
  `build_chunks`, a resume offset at the start of a chunk, an overlap of at least the longest
  pattern less one.

*Chunks* (`ScanProofs`, with lemmas for the others in `ChunkingProofs`).

* `EveryByteOwnedOnce`: `Loop => []OwnedOnce` of `ChunkLoop`: the owner of byte
  p is chunk p div size, and nobody else takes a signature there, so that it is found by one
  chunk or, where it ends behind what its owner reads, by none (`SeenByOwner`).
* `BuildChunksCorrect`: `Loop => []LoopBuildsChunks`, with the loop invariant that
  after n rounds `start` is n * size, saturated.

*Strings and entropy* (`ScanProofs`), from `StringRunsAssumption`, for every evidence, chunk
size, overlap, length limit and window.

* `RunIs` says what the recursive `RunFrom` returns: characters one after the other, as many
  as `string_max_len` or up to where none is. `Advances` says what one step of a pass leaves
  behind it: only positions at which nothing is, or that lie in the run just read.
* `StringInv` is inductive. `Behind` is how far the passes have come; `BehindGrows` says that
  it grows only by what a step reads and, where a pass or a chunk ends, by positions where
  the chunk's data holds no character. `SpanInv`: a span is the run that starts at its
  first byte, in its chunk's own part, and its pass is past it. `ApartInv`: the spans of one pass
  over one chunk do not meet. `FoundInv`: every true start the passes are past is the start
  of a span. `CoveredInv`: every stretch of text they are past is in one.
* `SpansAreWithin`: `[]SpansAreText`, from `SpanInv`. `NoStringMissed`: `[]NothingMissed`.
  `StringFits` uses the overlap: the first characters of a string that starts in a chunk's
  own part are in its data. `TwiceAtSeam`: `[]TwiceOnlyAtSeam`: in one chunk, spans of one
  pass are apart, and those of the two parities of UTF-16 cannot meet, because every
  byte of a pair is a letter for one and a zero for the other (`SiblingsApart`).
* `RegionsAreExact`: `[]RegionsExact`. `RegionInv` says that regions reported and the one still
  open never meet, touch only where a chunk starts, and cover just those windows looked at
  (`Looked`) that are high. What an open region adds is that it ends right before `pos`.
* `StringTypes`: `[]TypeOK`.

*Chains of runs* (`SessionProofs`), from `WholeReads`: every option set reads chunks that hold a
signature whole.

* `SessionTypes`; `ResumedExactly`: `[]ResumeExact`; `ChainComplete`: `[]CompleteExact`;
  `SavedUsable`: `[]CheckpointUsable`. `ChainInv` says of the run at work
  (`ScanExact`) and of the saved checkpoint (`SavedExact`) that each signature which
  starts before the offset was handled once and no other was.
* `LostOnlyByReopening`, without `WholeReads`: records on disk disappear only when a run opens
  the files of the same run id again. `same_run` shows that this does happen, so a run id of
  its own for each run is what `RecordsSurvive` needs, and all it needs.

*The footer search* (`FooterProofs`), from `FooterAssumption` and `ReadAssumption`.

* `FooterTypes`; `FooterSearchCorrect`: `[]NoFooterMissed`; `WriteLenPositive`:
  `[]FooterEndsInBuffer`. `SearchInv` adds how far the carry reaches (`CarryReaches`): all
  that was copied, or a footer less one byte, unless the search is at its limit
  and reads no more. A footer that starts before the carry and ends in the new
  buffer would then be longer than the longest footer (`NothingBefore`).
* `FileKeptIffReturned`: `[]FileIffCarved`.

*The handlers* (`CarverProofs`), from `CarvingAssumption` and the assumptions of the three
families of handlers, for every file and every limit.

* `CarverTypes`: `[]TypeOK`. A handler's types depend on its own place in
  the evidence: `CarveInv` adds the types of its locals (`Locals`), what is fixed until the
  end (`Steady`), the file on disk (`DiskInv`) and its size (`Sized`). The many handlers have few
  shapes, and there is one lemma per shape (`CopyEnds`, `CutKeeps`, `GiveUpKeeps`,
  `AdvanceKeeps`, `SettleKeeps`), then one per family (`StreamKeeps`, `DocumentKeeps`,
  `MarkerKeeps`, `SizedKeeps`).
* `SizesWithinLimit`: `[]SizeWithinLimit`, by what one read and one range copy may add. For
  a RAR archive `Steady` says how far past the limit the parser may stand (`RarOver`).
* `FileKept`: `[]FileIffCarved`.

*The GPU scanners* (`GpuProofs`).

* `GpuTypes`; `SharedScanAgrees`: `[]ScanAgrees`. `GpuInv` says whose buffers the kernel works
  on (`LockInv`) and that the items counted, stored and waiting make up the matches of the
  chunk (`ItemInv`), so that a buffer that was not exceeded holds them all.

*The metadata sinks* (`SinkProofs`), from `SinksAssumption`, for every buffer size, row
group, number of records and set of record kinds.

* `SinkInvariant`: `Spec => []SinkInv`, the inductive invariant. It is about what a line file
  was *sent*, on disk and still in the buffer (`Stream`): only records add to it, a flush
  moves the border. Without a failed write the lines of the stream are what was
  accepted (`Lined`), and with one the lines lost plus the one left open are no more than
  the writes that failed (`SpoilBudget`). A flush that came past a file left its buffer empty
  (`Visited`), and a drop without counted errors begins with empty buffers (`Counted`). For
  Parquet, closed row groups, the open one and the buffer make up what was accepted (`Rowed`),
  and a clean drop finishes the writers it comes past (`Finished`).
* `SinkTypes`: `[]TypeOK`. `WhatIsFoundIsAPrefix`: `[]PrefixRecovered`, with
  `LinesGrow`: what was read of the beginning of a file stays when the file grows.
  `WhatIsFlushedIsFound`: `[]FlushedSurvives`. `NoLossWithoutError`: `[]LossCounted`.
  `OneRecordAFailure`: `[]SpoilsOne`. `NothingIsLeftBehind`: `[]CleanEndComplete`.
* The lemmas below say what one call to a writer returns (`SpillEnds`, `PutLineEnds`,
  `AppendRowEnds`, `FlushRowsEnds`, `FinishRowsEnds`) and what one more line, or a piece
  of one, adds to what is read (`LineRead`, `PieceRead`).

Only model-checked: `ValidMeansWhole` and `WholeFileCarved`, which compare a handler with the end a format has, and this end is part of
the data of a small file (`ends`), not a definition one could reason about; and the
`Termination`s. The prover has no way to prove liveness under fairness, or anything about
ENABLED. The library's induction theorems cannot be used, as they take an operator as a
parameter; `CarverProofs`, `SinkProofs` and `ScanProofs` prove induction for a set of numbers
instead (`Induction`, from the least element of its complement) and with it what the recursive
functions `Reads`, `FlattenSeq`, `PutLine`, `Lines` and `RunFrom` return.

## What the code does not keep

See `findings` in `PROJECT.json` for each with its lines and what it contradicts.
Two are shown by runs: a byte limit inside a chunk makes the checkpoint claim bytes that were
not read (`bytes`), and a run empties the metadata of an earlier one with its run id
(`same_run`). The others narrow a property, which then says what does hold:

* `CheckpointCovers` is checked without `max_bytes` and, for the hits a file limit
  drops, without `max_files`; `sessions` uses no byte limit.
* `ValidMeansWhole` leaves out the handlers of `Silent`, which record as whole what
  `max_size` or the end of the evidence cut short.
* `ValidMeansWhole` and `WholeFileCarved` leave out the files of `HoldsEarlierEnd`, which the
  handlers cut short, call valid and do not mark: a JPEG file with the end marker of a
  thumbnail in it, a PDF file with an earlier `%%EOF`, and an MP4 or MOV file with a box of
  size 0, which reaches to the end of the file but is left out of it.
* `SizeWithinLimit` allows a pdf its line end, a RAR archive of version 4 the packed data of
  one block, the last whose header was within the limit (`DataOverLimit`), and a RAR archive
  its signature: with a `max_size` below 8 it is written whole. The proof found the last
  of these; the run had no limit that small then.
* The files of `MCCarvers` follow the handlers where these disagree with a format: `ole`
  files are of version 3, `rtf` binary lengths have one digit, a `bzip2` file ends at
  its end mark, a `gzip` file at the next magic.
* `FlushedSurvives` is about the line formats: a Parquet file cannot be read before it is
  closed. `LossCounted` allows the Parquet sink the one error of its drop, which is discarded.
* `NothingMissed` is about a `string_min_len` up to `string_max_len`. Nothing rejects one that
  is larger, and then no string is reported at all.
* `TwiceOnlyAtSeam` compares spans of one encoding: UTF-16LE text is UTF-16BE text
  from its second byte on.

## What is not modelled

* Progress figures, log output, the wall clock, hashes, path names, the columns of a record.
  Two hits of one type at one offset would share a path and two carvers might write it
  at once; no two default patterns of a type match at one offset, and the pool and the disk
  are in different modules.
* Memory ordering: all shared counters are relaxed atomics whose values are read by others
  only after a join, except `files_carved`, whose single location is coherent.
* Two details of read errors in the handlers: a directory of an `ole` file that cannot be
  read also makes the handler forget the kinds found so far, and a box header of an MP4 or
  MOV file that cannot be read before the end of the evidence marks the file as truncated. In
  the model what cannot be read is the end of the evidence. No property depends on either.
* The contents of formats beyond what decides where a file ends and whether it is kept;
  additions of 64-bit sizes read from the evidence (wmv, 7z, webm), which wrap in a release
  build, are not taken to their limit.
* The expressions that pick artefacts out of strings: a span has one or not.
* The SQLite parsers and the page walk (`parsers/`): queries, schemas and record
  decoding are data without a protocol; only their order and how they end early is in
  `Pipeline`.
* The evidence back ends: each translates one call into one of the system or of
  libewf. `Pipeline` has short and failing reads.
* `cli.rs`, `config.rs`, `logging.rs`, the limits of the process and the table of
  handlers: parsing and wiring at start-up.
* Of the GPU scanners: span flags, the choice of a device, kernel text compiled at
  start-up, a poisoned mutex, and the errors of single `set_arg` calls that are discarded
  (`SetArgs` succeeds or fails as a whole).
* The columns the Parquet sink writes, and the dry-run sink, which keeps nothing.

## Plan

Done, in this order: `Chunking`, `ChunkLoop`, `Pipeline`, `HitLedger`, `Sessions`,
`FooterCarve` with the first theorems; then `Carving` and the handlers, `Sinks`,
`StringRuns`, `GpuScan`; then the theorems about `HitLedger`, `RunRecorded`,
`CheckpointCovers`, chains of runs, handlers, GPU scans, metadata sinks, and strings and entropy.

What is left is a definition of each format's end apart from the handler that looks for it;
`ValidMeansWhole` and `WholeFileCarved` could then be proved and not only be checked on files.
