# TLA+ models of crypto-features-bench

This directory models the five-stage pipeline of the repository (ingestion,
features, storage, query, serving) in TLA+. TLC checks the modules on small
instances, TLAPS proves theorems about them for every value of the constants.
`PROJECT.json` maps each definition to the lines it models and lists the runs,
the hazards and the theorems.

Run inside this directory: `tlc -config batched.cfg MCBatched.tla`,
`tlapm BatchedProofs.tla`, and so on for the others.

## 1. Inventory

Paths are relative to `src/`. Most stages exist twice, in Python
(`python/src/cfb`) and in Rust (`rust/crates`), and promise the same thing.

| Component | State it keeps | Operations | Modelled in |
|---|---|---|---|
| Python batching, `cfb/ingest.py: batched` | the buffer and its deadline (producer task), the bounded `asyncio.Queue`, a pending cancellation, the suspended generator | read a trade, flush on size or time, put the sentinel, iterate, close, cancel | `Batched` |
| Rust batching, `cfb-ingest/src/batch.rs: Batcher::spawn` | the buffer and the timer (spawned task), the bounded mpsc channel, the receiver | select of source and timer, send, receive, drop | `Batcher` |
| Trade sources, `ingest.py`, `source.rs` | a file or a socket | yield a trade, fail, end | as the environment of the two above |
| Arrow conversion, `to_arrow`, `build_batch_from` | none | copy columns | not modelled |
| Streaming features, Rust, `cfb-features/src/streaming.rs` | per symbol: deque, watermark, late-drop count | push a trade | `ComputeStream` |
| Streaming features, Python, `cfb/features.py: compute_stream` | one deque and one watermark | one turn of the loop | `PyComputeStream` |
| Batch features: `compute_arrow` (Rust), `compute_numba`, `compute_pandas`, `compute_polars` | deques with running sums; pointers with running sums; none | one turn over the input; a rolling expression | `SlidingWindows` |
| Storage, writers, `cfb/storage.py`, `cfb-storage/src/writer.rs` | the Parquet files | write_partitioned | `Storage` |
| Storage, readers, `cfb/storage.py`, `cfb-storage/src/reader.rs` | the listing, the open files and the rows of one call | read_partitioned, scan_partitioned | `FileReads`, `Readers` |
| Feature server, Python, `cfb/serve.py` | `_cache`, `_cache_loaded_at`; one request in progress | load, health, get_features, the DuckDB scan | `Serve` |
| Feature server, Rust, `cfb-serve` | `cache`, `loaded_at` | health, get_features, load_cache | not modelled: a stub |
| Query engines, Python, `cfb/query.py` | DuckDB's view; the lazy frame of Polars | five canonical queries, each on two engines | `Readers` (the scan), `Queries` (Q1, Q2, Q5) |
| Query engines, Rust, `cfb-query` | none | Q1, on DataFusion and Polars | `Queries` |
| Benchmarks, replay, fixtures | none of the running system | | not modelled |

How they interact. A *source* is pulled by a batching *producer*, which shares
a bounded queue with its *client*; either end may stop first. Feature rows are
computed from trades in the order of arrival, whatever their times. A *writer*
leaves feature rows in files. The *server*, a *reader* and a *query engine* are
other processes, which read these files at any moment; nothing locks them.

What is hard, and what makes each part correct:

* **Batching.** A client may close the generator or drop the receiver while the
  producer is blocked in a put, awaits the source, or was already woken. The
  trades received must be a prefix of the source without a hole, an end must
  mean completeness, an error costs less than a batch, reading ahead is
  bounded, the end or the deadline must arrive, and nothing is read in vain.
* **Streaming features.** Trades come late; the deque is pruned by a watermark
  that late trades look behind of; only its front is tested. Windows must be
  complete all the same, and the two languages must agree.
* **Batch features.** Incremental sums and deques must stay equal to what a
  window selects, whatever the input, and to the streaming definition on an
  ordered input.
* **Storage.** Files are emptied before they are filled, one after the other,
  and an error or a crash comes in between. What a write that returned has
  written must survive everything but a later write of the same file.
* **Reading and querying.** A reader lists the files long before it opens the
  last of them, and takes the footer of a file before its pages. Writers empty
  and refill files in place, so a write may come between any two of these, and
  may fail and be repeated. A read must return all that was there throughout,
  nothing it did not ask for, and nothing twice; what else it may return should
  be known; it must recover from a file it could not read. Two engines are given
  the same five questions and should give the same answers.
* **Serving.** The store changes while it is read. A row that is there and left
  alone must be found, an answer must be current, and the table must follow.

The hazards, each at its line and with the properties that would catch it going
wrong, are listed in `PROJECT.json`.

## 2. Modules

```
BatchStream            what a batching stage promises its client (abstract)
FileRegisters          what reading files that others write yields (abstract)
BatchChain             the trades between source and client, cut into batches
  Batched              cfb.ingest.batched           implements BatchStream
  Batcher              Batcher::spawn               implements BatchStream
StreamOps              lateness, windows, pruning: shared by the features
  ComputeStream        the Rust compute_stream
  PyComputeStream      the Python compute_stream
  StreamConformance    both, composed, on one input
  SlidingWindows       compute_arrow, compute_numba, _pandas, _polars, with
                       the Python compute_stream on the same input
Storage                the writers and the files
  FileReads            a read of files beside the writers, footer and pages
    Serve              the feature server; its table     implements FileRegisters
    Readers            the four readers; what a call
                       returns                           implements FileRegisters
      Queries          queries of DuckDB and Polars on what was read
MC*                    instances for TLC
*Proofs                theorems and lemmas for TLAPS
```

Deliberate faults (comments that begin "Fault:") stand before the definition
they alter. No action uses them; putting one in the place of its definition
must violate the property `PROJECT.json` names, which shows that the property
notices such a bug.

### Batched and Batcher

Trades are numbered in the order of the source, so what was received is right
when it is 1, 2, 3, ... An action of `Batched` runs from one await to the next,
which is what asyncio does: `Receive` is one turn of the producer's loop with
its flush, `Flush` and `Finish` block when the queue is full and `ResumePut`
goes on, `Cancelled` delivers the CancelledError at the producer's next step,
and `Get`, `AskNext`, `Leave`, `CancelAgain`, `Join` are the generator. An
action of `Batcher` is one arm of the biased select up to the next await of
`send`. The clock is what the code asks of it: a deadline is unset, ahead or
passed (`"armed"`, `"expired"`), and `Expire` may come at any time.

`BatchStream` is the promise in three variables: how many trades were taken,
which were delivered, and whether the stream is open, complete, failed or
abandoned. Both modules define `status` from their program counters and check
`ImplementsBatchStream == Stream!Spec`.

### ComputeStream, PyComputeStream, StreamConformance

`StreamConformance` extends `ComputeStream` and runs `PyComputeStream` beside it.
One action is one turn of the loop over the events. The input is any sequence
of trades, in any order of time. VWAP, RV, OFI and the counts are functions of
a window in a fixed order, so a row holds the *sets* of trades of its three
windows, and rows are equal when the features are. In Rust `state` has a deque,
a watermark and a drop count for each symbol; Python has one deque and one
watermark. `StreamConformance` steps both on the same trade. `late` is a history
variable: the events that were dropped, so that `LateDropsExact` can say that
these are just those more than the threshold behind an earlier trade of their
symbol, and that the count counts them.

### SlidingWindows

`deque` are the WindowStates of `compute_arrow`, `slice` the pointers of
`compute_numba`, each with running sums. A sum is kept formally, as how often
each trade was counted in it, so that "added twice" or "never subtracted" show;
rounding does not. `compute_pandas` and `compute_polars` have no state of their
own: `PandasWindow` and `PolarsWindow` are the rows a window selects.

### Storage

A call of `write_partitioned` has a file for each symbol, date and hour of its
rows. `BeginWrite` fixes them, `OpenFile` empties one, `CloseFile` gives it its
footer, `Fail` stops anywhere (an error or the death of the process) and undoes
nothing, `Return` needs all files closed. Rust has one file open at a time, in
the order of a hash map; pyarrow may have several. `disk` says for each file
which write opened it last and whether it was closed; a file that was opened
and not closed is *torn*, and has no footer. Neither language writes to another
name and renames: a file is emptied and refilled under the eyes of its readers.

### FileReads

One read of files, in the steps that the code takes and between any two of which
a writer may go on: `List` takes the names, `Schema` looks at the first file,
`ReadFooter` opens a file and takes its footer, `ReadPages` is the last page of
it read. A torn file has no footer to take. If the file was opened by a writer
after its footer was read (`Stale`), the pages are no longer where the footer
says: the read raises (`MayRaise`), or comes to its end with rows of which
nothing is said, and the file counts among the `blends`. Up to `MaxOpen` files
are read at a time, in any order. `since` is a history variable: the versions
that each file had since the call or request began, a version being the rows one
write puts in the file, and none while the file is torn.

`JobInv` says where each file of a read stands: still listed, footer taken,
left out, blended, or done with and then whole, in a version of `since`.

### FileRegisters

The promise of all who read the store without a lock. A file that nobody writes
during the call is returned whole, as it is. Of one that is written meanwhile
the call has a whole version that could be read at some moment since it began,
as from a *regular register*, or a blend of which nothing is promised; of two
files these may be different moments. A file that was torn all the while lets no
call return. Only a caller that is not strict, which is Rust, may miss files.
Nothing stronger is true: there is no moment at which the store was what a read
of two files returns.

`Serve` and `Readers` map `held` to what the files hold now (`Held`) and
`answer` to the cached table, or to what the latest call returned, by file
(`ByFile`). `Settled` rows, those that could be read when the call began and in
whose file no write has gone since, have properties of their own.

### Serve

`Ask` is the start of a request, with the test of the cache's age and, if there
is a load, its listing; `StartLoad` has the schema, `ServerOpens` and
`ServerReads` are the files, `FinishLoad` the two assignments, `NoTable` and
`LoadRaises` the exception that is swallowed. `Lookup` is the filter of the table
and the listing of the DuckDB query; `Bind` takes its columns; the scan reads
files with the same two actions, and `Found`, `FoundInBlend`, `ScanRaises` and
`NotFound` end it. A row may be overwritten after it was read and before the
reply. The handlers never await, so one request is in progress at a time; the
writer's steps come in between.

Three facts of the code that the model keeps: a cached row ends in a TypeError,
since `source` is passed twice (serve.py:92-93); DuckDB takes its columns from
the first file, and pyarrow's files have no `symbol` column, so that with them
the zip by position (serve.py:107-108) yields a response that does not validate;
and `LIMIT 1` takes any of several rows, and may stop before it has read all
files.

### Readers and Queries

A reader makes the same call over and over. `Begin` is the listing, `TakeSchema`
the columns of the first file, `OpenNext` and `ReadNext` are the footer and the
pages of a file, `Finish` returns. What differs is in the guards: pyarrow makes
an empty table of an empty directory; Polars may refuse files of two column
layouts; `DuckDBEngine` takes the columns of its view once, in `CreateView`,
lists the files again in each query, and fails (`OtherColumns`) when they no
longer are those of the view; Rust asks for no schema and reads one file at a
time, its walk may come to a file that was created after it began, and it drops
what the walk fails on (`Skip`, the `e.ok()` of reader.rs:22). A torn file ends a
call with an exception and the caller may call again. Filters work on the
partition columns, which are derived from the rows; `Wanted` says the same of a
row's own symbol and time.

`Queries` evaluates each query on the rows read, as DuckDB and as Polars define
it. An answer is a function from what it is grouped by, so that the order of its
rows (which follows from them) is left out; a `LIMIT` that cuts through equal
totals is a set of possible answers; a quotient is the pair of its terms. NULL
prices are kept. Q3 and Q4 are left out, as both engines evaluate the same
expression there: a comparison would hold by the shape of the model. Dividing
integers, SQL's `/` yields a float in DuckDB: its "minute" of a row is the time
of that row, where `//` of Polars floors.

## 3. Runs

| Run | What it asks | States |
|---|---|---|
| `batched` | delivery, sentinel, who waits for whom, backpressure, no reads after the client left, ends arrive, refinement | 1,915 |
| `batched_sentinel` | *violated*: "always sent even on exception" | |
| `batched_latency` | *violated*: a batch when "max_latency_ms elapses" | |
| `batcher` | the same for Rust, with the latency bound and the end of an orphaned task | 1,114 |
| `stream_lookahead` | *violated*: windows "open on the right" | |
| `conformance` | complete windows in both languages, which events are dropped, nothing stale; agreement on one symbol, what explains every difference on two | 289,598 |
| `conformance_exact` | *violated*: "matches the Python compute_stream exactly" | |
| `sliding` | deques against pointers, the cost of disorder, agreement with the stream on ordered input | 19,608 |
| `sliding_rv` | *violated*: no return in a window of one trade | |
| `serving` | what writes leave, what requests can count on, what the table is made of, and that it catches up | 364,744 |
| `serving_cache` | *violated*: a cached row is served | |
| `queries` | what a read returns amid writes, and of which versions, that a reader recovers, in what the answers of the two engines differ | 386,529 |

Each violated property is a sentence of the repository that its code does not
keep; `findings` in `PROJECT.json` quotes it and says what the run shows.

In `batched_latency` the trace is of a source that goes quiet: the producer is
still there, waiting for the source, and a buffered trade is past its deadline.

Two more statements of the repository are not kept, and are the subject of
properties that hold, which state what is true instead.

* spec/contract.md says that the windows are `[ts - window_ns, ts)`, "closed on
  the left" (line 38), and that both languages "must satisfy this contract
  exactly" (line 3). `RollingMatchesStream` says that Polars leaves out a trade
  that is exactly one window old, which the streaming reference and pandas take
  in; and that it differs in nothing else but ties.
* The head of `query.py` (line 4) says of the engines that "Results must be
  identical within float tolerance 1e-9", and spec/queries.sql:2 and
  python/tests/test_query.py:1 say the same. `EnginesDifferInBuckets` says that
  Q2 agrees, up to the choice between symbols of equal totals, while Q1 and Q5
  of DuckDB have a bucket for each time and those of Polars for each minute, and
  the buckets of a minute add up. The tests do not see it: they write one row
  per minute, and `test_q1_results_match` compares columns that only one of the
  answers has.

**Bounds, and why they are enough.**

* Batching: `MaxSize` 2 is the least with a partial batch; the queue holds 2
  (Python) or 1 (Rust). 7 and 6 trades are more than queue, blocked batch and
  buffer hold together, so that every combination of full queue, blocked put,
  partial buffer, end, error and departure occurs, also after batches were
  delivered.
* Streams: 5 trades at times 0 to 6 with a threshold of 1 and windows of 2, 3
  and 4. The windows differ from each other and from the threshold, so that a
  confusion of any two shows; the largest time exceeds window and threshold, so
  trades do leave the deque while a late one still looks back. Two symbols are
  the least for which the languages differ; they are interchangeable, hence the
  symmetry. The proofs need no relation between windows but those the source's
  constants satisfy (the `ASSUME` of `StreamOps`).
* Serving: two writes, out of three calls: both languages, two parts, two hours
  of one symbol and one of another, a row in two parts and rows that only one
  file has. That is what an overwrite, a repair, a torn file beside a whole one,
  two parts with the same row and both column layouts take. `MaxOpen` is 2, so
  that a reader may have footers of two files when one of them is written. A day
  of 48 and an hour of 2 stand for the nanoseconds.
* Queries: two writes out of four calls, against each of seven readers: every
  program, with and without a filter by symbol, by date and by both. A minute of
  2, an hour of 4 and a day of 8 make two rows share a minute, two minutes an
  hour, and two hours a day. One row has no price, another part has a row of the
  same time, and a file may hold two rows. `TopN` is 1, the cutoffs are 0 and 5:
  a tie of two symbols at the limit, and a cutoff inside a minute, occur.

**Fairness.**

* `Batched`: the event loop runs every callback that is ready, and a client that
  did not leave keeps asking. Nothing is assumed of the source, the clock, or
  the client's decision to leave.
* `Batcher`: tokio polls a task that can go on, a timer fires, and a receiver
  that was not dropped keeps receiving. Nothing is assumed of the source.
* `Serve`: the server goes on with its request, time passes, and requests keep
  coming. Nothing is assumed of the writers: `CacheCatchesUp` speaks of a store
  that was left whole and quiet.
* `Readers`: the program goes on reading. Nothing is assumed of the writers:
  `ReadersCatchUp` speaks of a store that was left whole and quiet, and, for
  DuckDB and Polars, of one whose columns fit.
* The stream modules state no liveness: they are loops over a finite input, and
  `Terminated` marks their end.

Deadlock is checked in every run.

## 4. Proofs

All theorems hold for every value of the constants (within the named
assumptions of the modules: at least one trade per batch; windows and threshold
positive and ordered as the source's are; a call names its language, its part and a
nonempty finite set of rows, a reader's call its filter; the columns of a row are
numbers, a price possibly NULL), in particular for inputs, queues and stores of
any size. `MaxTrades`, `MaxEvents`, `MaxTs` and `MaxWrites` are constants too,
so that the bounds of the runs are no bounds of the theorems.

* **BatchChainProofs** has the lemmas on putting to, taking from and extending a
  chain. The chain itself is the strengthening: `Delivery` says nothing of what
  is still in the queue, so it is not inductive. `Chain` says that what was
  received, each queued batch and the buffer are consecutive runs of trades, by
  a function `f` that gives the number of trades before each batch.
* **BatchedProofs**: `Invariance` (the chain, the sizes, the place of the
  sentinel, what each program counter says), and from it `DeliveryCorrect`,
  `SentinelCorrect`, `InFlightCorrect`, `NoReadAfterLeaveCorrect` and
  `Refinement` (every step is a step of `BatchStream` or a stutter).
  `WaitsAreMetCorrect` is the safety that liveness rests on: whoever waits, waits
  for one who is still there, and the two sides wait for each other in one
  situation only, the client that closed its iteration on a full queue. Beside
  `Inv` it needs that a producer that has ended left its sentinel at the end of
  the queue (`LeavesItsSentinel`). `StuckStaysCorrect` says of that one
  situation that nothing but another cancellation of the client ends it; the run
  `batched_sentinel` shows it for a queue of 2, the theorem for every size.
* **BatcherProofs**: the same for Rust, with `LateReadsCorrect`, and with a
  `WaitsAreMetCorrect` that knows no exception.
* **StreamConformanceProofs**: first of `ComputeStream` alone, `Invariance`,
  from which `WindowsCorrect`, `LookaheadCorrect`, `LateDropsCorrect`,
  `NothingStaleCorrect`. The strengthening `DequeInv` says what the deque holds:
  accepted trades only, no two more than the threshold out of order, the first
  within 15 minutes of the watermark, and every accepted trade within 15 minutes
  of the watermark. With the threshold no larger than 15 minutes less 5 this
  makes the shorter windows complete. Then of both streams `Conformance`,
  agreement on inputs of one symbol, by an invariant of its own (`Agreement`).
  For any input of any symbols, `PyWindowsCorrect` and `DifferencesCorrect`:
  `PyInv` is `DequeInv` of the one Python deque, `BothInv` joins it with `Inv`
  of Rust and adds that no symbol's watermark is ahead of the shared one. A
  trade late for the shared clock and not for its own then has a witness of
  another symbol: the row that set the clock.
* **SlidingWindowsProofs**: `Invariance`: a deque is the end of the input from
  some position on, its sums count that end once, the pointer is that position,
  and what slid out was too old when it did. `ArrowIsNumbaCorrect` and
  `DisorderBoundedCorrect` follow. `StreamInvariance` is of `compute_stream` beside
  them, on an input in order: it drops nothing, its deque is the end of the
  input, and it has the row of every position. Together these give
  `InOrderMatchesStreamCorrect` (the positions in reach are a run, so the
  neighbours in the window are those of the input) and
  `RollingMatchesStreamCorrect`.
* **ServeProofs**: `Invariance`: which write filled each file and how far the
  running one is (`DiskOfLog`, `Progress`), and `JobInv`. A theorem that speaks
  of finished reads is not inductive: of a footer that was taken, the invariant
  has to say that its version could be read since the call began (`HadSince`),
  and that the file was opened anew since, or is still as the footer has it; of
  a blended file, that it was. Then either the pages are of that version, or the
  read knows that they may not be. The steps of a read are proved once, for any
  job and any history (`Good`): `ListGood`, `FootersGood`, `ReadPagesGood`,
  `SkipGood`, and `WriteGood` for a step of a writer, which opens a file under a
  new number or closes the one it has open (`WriteTouches`) and so never makes a
  footer fit again that did not. The key lemma on rows is that a row determines
  its file, so that what the writer leaves alone keeps its rows.
  `ReadableCorrect`, `TearsOneCorrect`, `LoadIsCompleteCorrect`,
  `SettledIsFoundCorrect` and `AnswerIsCurrentCorrect` follow; for the readers
  `ReadersInvariance` and `ReadIsCompleteCorrect`.
  Then the refinements of `FileRegisters`, `TableRefines` and `ReadersRefine`. A
  step of a writer touches one file (`OneFileTouched`), so it is a `Replace` or
  a stutter; the start of a request or call is a `Call`, its end a `Return`
  (`ReadReturns`). That a blend is only of a file written since is
  `BlendsWritten`: the version of its footer could be read since the call began,
  and the file does not hold it now (`VersionsDiffer`).
* **QueriesProofs**: `EnginesDifferInBucketsCorrect`, on what any reader returned.
  The sums of the queries are the library's folds over sets, and the prover
  cannot use an induction theorem that takes a predicate. So a fold is taken
  apart here: `SubsetInduction` is induction over the subsets of a finite set,
  with the predicate given as the set of subsets that have it, from well-founded
  induction on the subset relation. `FoldingExists` and `FoldingIsUnique` follow,
  that the recursion a fold chooses a solution of has exactly one, and so
  `SumUnfold`: a sum over a set is one element's value and the sum over the
  others. From there on it is arithmetic on sets: a sum is that of its parts
  (`SumOfParts`) and of its groups (`SumOfGroups`), so the times of a minute add
  up to the minute. That the rows are finite is from `ReadersInv`. Any two
  ways to cut the list of Q2 at its limit take as many symbols of each total
  (`TopsAgree`).
  `EnginesAgreeCorrect` says why the tests see no difference: with one time per
  minute and symbol, as their rows have, the buckets of all engines are equal
  but for their name and for the NULL of a bucket without a price.

**Only model-checked:** the liveness properties (`SourceEndReachesClient`,
`LeavingEnds`, `BatchEmittedOnTime`, `OrphanEnds`, `SentinelReachesClient`,
`CacheCatchesUp`, `ReadersCatchUp`), which are beyond the prover. Every other
property of a passing run is a theorem. The refinement theorems are of the whole
abstract specifications, `BatchStream!Spec` and `FileRegisters!Spec`, which state
no fairness.

## 5. What is not modelled

* Sources: parsing, files and sockets. A source yields trades, fails once, ends.
* Arrow conversion and schemas, but for the column layout that `Serve` needs.
* Floating point: the sums of `SlidingWindows` are exact. Guards on zero prices
  and quantities are left out with the arithmetic they protect.
* The order that pandas and Polars give to trades of the same time.
* Two writers of the same part at once: neither language guards against it, and
  the repository never does it.
* How a reader fetches the pages of a file, and what a blend consists of. A file
  is listed, its footer is taken, and its last page is read: between these, and
  before the reply, a writer may do anything, but the single reads of pages are
  not steps of their own, as nothing is said of a blend in any case. The listing
  of a directory is one step (in Rust, files may be added to it as it goes). A
  file whose footer was read before it was emptied, and is read to its end from
  pages that were cached before that, counts as a blend too.
* What makes the walk of Rust fail on an entry: it may, at any.
* Compression; the order in which a reader returns its rows; two rows of equal
  content in one call of a writer.
* `datetime`s of partitions: a date is the number of the day, as in
  `_derive_partitions`; the docstrings speak of YYYYMMDD.
* In `Queries`, Q3 and Q4, whose two versions are one expression; and floating
  point: a quotient is its two terms. DuckDB's division merges times closer than
  the 53 bits of a double tell apart, about a quarter of a microsecond at
  today's dates; the model's times are further apart.
* `cfb-serve`: its `load_cache` loads nothing and there is no cold path.
* `cfb-query`: how DataFusion registers the directory and reads the columns of
  its files; its query is evaluated on the rows that the readers yield.
* `bench/analyze.py`, `scripts/replay_stream.py`, `spec/generate_fixtures.py`:
  measurement, plots and test data. They keep no state of the running system and
  promise nothing about it, so there is nothing for a model to be right about.

## 6. Plan

Done, in this order: batching (both languages, refinement, proofs), streaming
features (both, composed), batch features, storage with serving, the readers
with the query engines; proofs of every property that is not liveness; and the
registers that reading and serving implement.

What is left:

1. The two layouts of columns as an operator on schemas, to say which of the
   engines accept which mixtures of files; `Misfit` leaves it open for Polars.
2. Of the liveness of serving and reading, the safety it rests on, as
   `WaitsAreMet` is for batching: that on a store left quiet each step of a load
   brings it nearer to its end.
