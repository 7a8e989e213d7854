# Verification of the embedded flight recorder

TLA+ models of the recorder's buffer, threads, log writer, recovery, migration, log scan,
sample source and crash tests, model-checked with TLC, and proofs checked with TLAPS. Paths below are relative to
the repository; `README.md` there is quoted as "the repository's README".

## The system

| Component | State it keeps | Operations | Talks to |
|---|---|---|---|
| `CircularBuffer` (`include/flight_recorder/circular_buffer.hpp`) | two cursors, slots, `closed_`, wait mutex, two condition variables, drop count, high watermark | `try_push`, `push_blocking`, `push_wait_for`, `try_pop`, `pop_blocking`, `pop_wait_for`, `try_pop_batch`, `close`, `reset`, `stats` | the sensor thread pushes, the writer thread pops, the main thread closes and samples |
| `FlightRecorder` (`src/flight_recorder.cpp`) | stop, error and overflow flags, sequence, four totals, two threads | `start`, `stop`, `sensor_loop`, `writer_loop`, `stats` | owns the buffer and the writer; started and stopped by `main` |
| `BinaryLogWriter` (`src/binary_log_writer.cpp`) | open files, end of log, record count, last sequence, pending batches, checkpoint generation and slot, sticky failure | `open`, `append_batch`, `flush`, `close` | the log and its journal through `WriterIo` |
| `RecoveryManager` (`src/recovery_manager.cpp`) | nothing between calls; reads and cuts the log, reads and replaces the journal | `recover_startup_state`, `recover`, `validate`, `read_log`, `read_all` | runs before the writer in every process; hands the last sequence to the recorder |
| formats (`log_format.hpp`, `crc32.hpp`, `flight_record.hpp`) | file header, 84-byte records, two 52-byte checkpoint slots, legacy 112-byte journal entry | CRC and metadata checks | writer and recovery |
| `main.cpp` | signal, deadlines | recover, start, poll for errors, stop, validate | everything above |
| `SensorSimulator` (`src/sensor_simulator.cpp`) | sample index, last phase, anomaly starts, measured values | `next_sample` | called by the sensor thread |
| fault injection (`src/fault_injection.cpp`) | nothing; damages a file, parses the writer's armed fault | `truncate_file_tail`, `corrupt_byte`, fault modes | the log file, the writer's `maybe_crash` |
| tools (`tools/`) | reports | crash matrix, fault injector, recovery, replay, benchmarks | start writers and recoveries as child processes, scan files |
| platform information | nothing; reads `/proc` | | not modelled, see the end |

What is hard in it:

* **Interleaving.** Three threads, lock-free cursors read before they are used, a mutex
  that only pairs cursor publication with notification.
* **Crashes.** A process killed, or a machine cut from power, between any two of the
  writes and synchronizations of `open`, a batch, a commit and recovery, with the kernel
  writing dirty data back in any order.
* **Partial failure and retries.** Short or failed writes and synchronizations, the sticky
  `failed_` flag, a batch written again over the rest of a failed one.
* **Two readers of one journal.** Recovery and `open` select a checkpoint slot by
  different rules.
* **Two formats.** The first start on files of the older format replaces their journal,
  and can be interrupted between any two of its steps.
* **State that outlives its files.** A writer object can be opened again after `close` or
  after an `open` that failed, and keeps some of its members.
* **Time.** The commit deadline of the oldest pending batch against a stream of newer
  ones; push timeouts that drop samples.
* **Limits.** Full buffer, wrapping sequence numbers, the last checkpoint generation.

What makes each part correct: the ring is a bounded FIFO that loses, repeats and reorders
nothing, whose plain slot accesses never race and whose waiters are never forgotten; the
recorder commits on time, reports every drop, stops when the log fails and drains and
commits when it stops; the writer and recovery keep every acknowledged record, unchanged,
through every crash and power loss, and a recorder can always be started again on files
that hold acknowledged records; a scan finds exactly the valid prefix; a migration loses no
old record. `PROJECT.json` lists the hazards at their lines.

## Modules

| Module | Models | State and actions |
|---|---|---|
| `BoundedFifo` | what the buffer promises: a bounded queue of numbered records that can be closed and reset | abstract |
| `CircularBuffer` | the ring, one action per shared access | `ppc`, `cpc`, `kpc`, `spc` are where producer, consumer, closer and sampler stand in `try_push`/`push_*`, `pop_*`/`try_pop_batch`, `close` and `stats`; `phead`, `ctake`, `shead` are their local copies of cursors |
| `CircularBufferProofs`, `RecorderStoreProofs`, `LegacyStoreProofs`, `LogScanProofs`, `CrashMatrixProofs`, `FlightRecorderProofs`, `RecorderStatusProofs`, `SensorSimulatorProofs` | theorems about the ring, the store, the migration, the scan, the crash matrix, the recorder, its status and the simulator | see "Proofs" |
| `FlightRecorder` | sensor, writer and main thread over `BoundedFifo` and the results and counters of the writer | `sensor`, `writer`, `main` are places in `sensor_loop`, `writer_loop`, `main`; each store of a shared total or flag is an action; `remaining` and `batchAge` are the deadline in ticks, `patience` what is left of the wait for a record |
| `RecorderStatus` | `FlightRecorder::stats` as `main` calls it in its loop and after `stop` | `snapshot` is filled field by field, `loading` are the fields still to load, while the threads of `FlightRecorder` move |
| `LogFormat` | records, checkpoint slots, the valid prefix | a record is its sequence number and the session that wrote it |
| `Disk` | external: page cache, stable storage, directory entries, write-back, power loss | `log`/`slots` are what the process sees, `dlog`/`dslots` what a power loss leaves |
| `BinaryLogWriter` | `open`, `append_batch`, `flush`, `close` and the commit, one action per write, synchronization or decision | `count`, `lastSeq`, `unsynced`, `gen`, `active`, `failed` are the members of those names; `acked` is history: records covered by a successful commit |
| `RecoveryManager` | `recover_startup_state` | `scanned` is the report's `valid_records` |
| `RecorderStore` | composition: program runs over one pair of files | each run is recovery, `open`, appends, `close`; `Crash` and `PowerLoss` at any step, `Kernel` writes back at any time |
| `WriterReuse` | `RecorderStore` with a writer object that stays: `open` again after `close` or a failed `open` | `pc = "idle"` is a process whose writer has no file open; `failed` and `unsynced` survive `Reopen` |
| `LegacyStore` | `RecorderStore` from files of the older format: `inspect_journal`, `append_recovered_record`, `write_checkpoint_journal` | `legacy` and `entry` are the records and the journal entry found; `faults` the failures a behaviour has |
| `LogScan` | `scan_file` record by record with its report, as `validate`, `recover` and the replay tool run it, and the fault injector's damage in between | `tool` is who runs, `report` the `RecoveryReport`, `entries` what replay returns |
| `CrashMatrix` | `tools/crash_matrix.cpp` over `RecorderStore`: a parent, a child with an armed fault, a process that recovers twice | `stage`, `ackFile`, `first`, `second` are the steps and the results of a case |
| `SensorSimulator` | phases, anomalies and status bits of the samples | temperature and engine speed are ranges, so that a status bit is certain (`status.has`), possible (`status.may`) or excluded for every seed |
| `DurableLog` | what the recorder promises: acknowledged records stay, a failure takes only from the end of the others | abstract |

`RecorderStore` extends the writer and recovery modules, which share the files of `Disk`
and `pc`; `WriterReuse`, `LegacyStore` and `CrashMatrix` extend `RecorderStore`, and
`RecorderStatus` extends `FlightRecorder`. `FlightRecorder` uses `BoundedFifo` by `INSTANCE`; `CircularBuffer` implements
it, so the coarse queue of one model is what the fine one was shown to be. One thing of the
ring is kept fine in `FlightRecorder`: `try_pop_status` looks at the cursor (`FindsEmpty`)
and then at the flag (`ReadsClosed`).

Each module has a section of "mistakes the code does not make": variants of single
definitions, named in `PROJECT.json`, under which TLC finds the property that watches for
them violated. They are not part of any specification.

### Abstractions

* Record contents are the sequence number and the session; CRC32 is taken to detect every
  damaged record or slot (`Torn`). The file identity (`recorder_start_time_us`) is the
  same in all files: they are only ever made by one `open`.
* Preallocation keeps the file size, so it is only a way for a batch to fail.
* The journal (104 bytes, in one sector) is written back whole; records are written back
  one by one in any order, whole or torn, with holes below.
* The ring's cursors are 64-bit record counters and do not wrap in a model.
* Loads and stores of the ring are atomics with acquire and release order and a single
  writer each, so the model interleaves them; plain slot accesses are the ones
  `NoSlotRace` keeps apart.
* In `LogScan` a record is the bytes that are there, its number and whether its metadata and
  its CRC are right; the sizes are small numbers in the same order as the code's.
  `RecorderStore` takes such a scan as one step that finds the longest valid prefix, which is
  what `ReportsLongestPrefix` says of it.
* The numbers of `SensorSimulator` are integers in hundredths. A step of the profile maps the
  ends of a range and rounds them outwards, so the ranges hold all values of the doubles.
* In `FlightRecorder` a batch's append and its commit are one step; `RecorderStore` takes
  them apart. What only one thread reads moves with the next step of that thread.
* In `LegacyStore` a write or synchronization of the migration that fails ends the start and
  leaves what a process killed at that step leaves, so a kill stands for both.
* The bounds are constants: `MaxRecords`, `MaxGeneration`, `MaxSessions` (store),
  `MaxSends`, `MaxDrops` (ring, per use of the buffer), `MaxSamples` (recorder), `MaxLegacy`
  (migration), `MaxBatch` (crash matrix), `MaxFile`, `MaxSeq` (scan), the drawn starts
  (simulator).

## Runs

| Run | Config | Shows |
|---|---|---|
| store | `WriterReuse`, `RecorderStore.cfg` | 2,399,848 states. Every checkpoint slot, cached or durable, counts only records that are already durable (`CheckpointsCovered`); acknowledged records are on stable storage (`AcknowledgedDurable`) and no later run changes them (`AcknowledgedForever`); the newest slot covers them (`NewestCoversAcked`); what recovery leaves, `open` accepts and continues (`RecoveredLogOpens`, `SequenceContinues`); recovery gives up only where nothing was acknowledged (`RefusalStrandsNothing`); a writer object that failed once acknowledges nothing more however often it is opened (`FailedAcknowledgesNothing`); the composition implements `DurableLog` |
| ring | `CircularBuffer.cfg` | 371,450 states. Blocking and timed calls, spurious wake-ups, several uses of one buffer: window, races, order, wake-ups, watermark, and `BoundedFifo` |
| ring_liveness | `CircularBufferLiveness.cfg` | 317,782 states. Waiters proceed, and `close` lets every call return, without deadlines or spurious wake-ups to help; `stats()` from another thread never reports a wrapped-around size |
| recorder | `RecorderStatus`, `FlightRecorder.cfg` | 490,903 states. Deadline, a sleep no longer than to the deadline, totals, drop reports, commit without new samples, failure stops the program, stop completes; what `stats` shows as committed is durable, and what it shows after `stop` is exact |
| legacy | `LegacyStore.cfg` | 3,526,550 states. A migration, interrupted and started again: the old records stay (`LegacyRecordsKept`), the journal's record is always in one of the two files (`EntrySurvives`), once and before anything new (`EntryInItsPlace`), and a start refuses for stated reasons only (`RefusalExplained`) |
| log_scan | `LogScan.cfg` | 82,214 states. After any damage a scan reports the longest valid prefix and its exact end, recovery heals the file or says that it could not cut it, and no valid record is touched |
| simulator | `SensorSimulator.cfg` | 240,342 states. Where a status bit can and must appear, lap after lap, with every start of the spike |
| crash_matrix | `CrashMatrix.cfg` | 4,356 states. Every case of the crash matrix ends (`CasesEnd`) and passes (`CasePasses`) |
| recorder_drain | `FlightRecorderDrain.cfg` | violation, finding 1 |
| store_directory_entry | `RecorderStoreNoEntry.cfg` | violation, finding 2 |
| store_sequence_wrap | `RecorderStoreWrap.cfg` | violation, finding 3 |
| legacy_both_faults | `LegacyStoreBoth.cfg` | violation, finding 4 |

**Bounds.** The store has four records, so that there can be an acknowledged one, a pending
one and a batch of two; three sessions to crash in one, recover and crash in the second and
look from the third (a writer opened again counts as a session); four generations so that both slots are overwritten at least once and
the limit is met; eight sequence numbers, more than the records need. The proofs lift these
bounds, as long as there are more sequence numbers than records. The
ring of two slots is full, empty and between, wraps its slots three times in six records and
takes batches of one and two; the proofs cover every size. The recorder's interval of two
ticks lets a deadline be before, at and after a batch, with a group of three batches; the wait
without a deadline is three ticks, so that one kept too long would outlast the interval; and
four samples fill a buffer of two, with one in the writer's hand and one in the sensor's. A migration starts from none to
two old records with the entry missing, damaged, at its place, already in the log or behind a
gap, with room for two new records, and is interrupted up to three times by kills, by power
losses or by both. Files of up to three records with numbers 0 to 3 let a scan meet every
kind of bad record in first, middle and last place, a gap, a repetition and the last number.
The heat spike starts at each of the 41
samples the seed draws from, the other anomalies at the ends and in the middle of their ranges. The
crash matrix takes every batch and earlier count of one to three records, every cut of a
partial write and all eleven faults, where the tool tries six.

**Deadlock.** The ring runs check it: with timed calls, or until every thread ended and the
buffer was reset, a thread can always go on. So do the scan and the simulator, which can
always run again. The store, the migration and the recorder may stop, as their sessions or
samples are used up, and the crash matrix stops after its case.

**Fairness.** Safety runs use none. In the ring, each thread inside a call continues it;
calling, deadlines and spurious wake-ups are not promised. In the recorder, the sensor
and writer threads and `stop` continue, time passes, and `main` polls for an error, as its
loop does every 20 ms; a `stats` call goes on; neither a sample nor a stop is promised. A
case of the crash matrix goes on while a step is possible, as nothing else runs. The simulator
is asked for a next sample, as it is while the recorder runs.

### Findings

1. *A pop can report Closed on a buffer that is not empty.* `try_pop_status` loads the
   tail (`circular_buffer.hpp:83`), finds nothing and then loads `closed_` (`:85`). If the
   last push, the join of the sensor thread and `close()` fall between the two loads, the
   writer thread leaves its loop (`flight_recorder.cpp:142`) with that record unread. The
   repository's README, line 162, promises that a stop drains queued records, and
   `tests/flight_recorder_tests.cpp:419` expects it. The window is a few instructions.
2. *The directory may never be synchronized.* `open` does it only when it found a file
   missing (`binary_log_writer.cpp:226`). Killed before that, the process leaves files that
   the next one finds present, so the entries are never synchronized. Where `fdatasync` of
   a new file does not make its entry durable (`SyncCarriesEntry = FALSE`), acknowledged
   records are lost with the files on a power loss. The main run and the
   theorems about the store assume `SyncCarriesEntry`; the repository's README (line 71) relies
   on "the synchronization guarantees provided by the operating system and filesystem".
3. *The sequence wraps differently.* `append_batch` accepts 0 after 2^64 - 1
   (`binary_log_writer.cpp:252`), the scan does not (`recovery_manager.cpp:375`), so
   recovery cuts acknowledged records. The run uses numbers modulo 2.
4. *A migration interrupted twice can refuse sound files.* `append_recovered_record` writes
   the journal's record (`recovery_manager.cpp:138-140`) and then synchronizes the log
   (`:141`). Killed in between, the next start finds the record in the page cache, takes it
   for recorded (`:513`) and writes and synchronizes a checkpoint that counts it, without
   synchronizing the log. If the power fails then, the record is gone and the checkpoint
   is not, and every later start refuses files whose older records are sound. The repository's
   README, line 13, promises recovery to a durably acknowledged checkpoint after
   interruption, and `docs/DEMO.md:25-26` a commit acknowledged only after the log's
   synchronization. With kills only, or power losses only, the migration recovers
   (`RefusalExplained`).

### What the properties do not say

* `TimedCommit` says that a commit comes, not when. The time is in `DeadlineFollowsOldest` (the
  deadline is an interval after the oldest uncommitted batch was taken up) and `WakesForDeadline`
  (no wait for a record outlasts it); what a commit takes once it is due, and how late the
  scheduler is, no property bounds.
* `RefusalExplained` allows a refusal for a journal that is cut short: `write_checkpoint_journal`
  truncates the old journal and writes the new one in its place, and a start that finds a part
  of it refuses (`recovery_manager.cpp:469`), as does every later one. The files have to be
  repaired by hand then, and nothing is lost by it: the log holds the old records and the entry
  (`LegacyRecordsKept`, and `EntrySurvives` under one kind of failure).

### Smaller observations

* After recovery cut a file, `checksum_failures` is 0 and the boundary is the end of the file:
  the report of the second scan replaces that of the first (`LogScan`).
* `first_bad_record_sequence` is the number of the record before the boundary when the bad
  record's header is cut short.
* `StatusLowOilPressure` (`sensor_simulator.cpp:216`) never appears: the startup targets heat
  the engine before they speed it up (`WarningsWhereHot`). The last samples of the climb give
  `EngineWarning` without an anomaly.
* A second `open` of one writer object whose first `open` could not synchronize the directory
  does not try again, since the files exist by then. Only the sticky `failed_` keeps it from
  acknowledging records (`FailedAcknowledgesNothing`).
* Such a writer may find more records in the log than its last checkpoint counts; this is why
  `RecoveredLogOpens` speaks of writers that have not failed.

## Proofs

`CircularBufferProofs` proves, for every `Capacity`, `MaxBatch`, `MaxSends`, `MaxDrops` and
set of calls (only `RingAssumption` is assumed):

| Theorem | Statement |
|---|---|
| `Typing` | `Spec => []TypeOK` |
| `WindowStaysIntact` | `Spec => []WindowIntact` |
| `NoRace` | `Spec => []NoSlotRace` |
| `OrderKept` | `Spec => []ReadsInOrder` |
| `WakeupsKept` | `Spec => []NoLostWakeup` |
| `StatisticsSound` | `Spec => []WatermarkSound` |
| `SampleStaysWhole` | `Spec => []SampleNotWrapped` |
| `RingImplementsFifo` | `Spec => ImplementsFifo` |

The properties are not inductive. `WindowIntact` says nothing of a producer that has tested
for room with an old head and not yet written; `NoLostWakeup` nothing of a thread that has
tested its condition and not yet slept. The inductive invariant `IInv` adds:

* `Locking`: the mutex is held exactly in the critical sections, and `closed` follows from
  the closer's place;
* `Cursors`: what each local copy of a cursor still guarantees when it is used. A head or
  tail that is old is only ever too small, so room and data can only be underestimated;
* `Slots`: every published record, and the one written but not yet published, is in its slot;
* `Wakeups`: a thread that decided to sleep holds the mutex under which its condition could
  change.

Each part has a lemma with one step per action. The only arithmetic beyond inequalities is
`SlotsDiffer`: two record numbers less than a capacity apart have different remainders.
The refinement shows that under `IInv` the window is the queue of the numbers `head` to
`tail - 1`; publishing a cursor, setting the flag and `reset` are then the queue's steps and
every other action stutters.

`RecorderStoreProofs` proves, for every number of records, sessions, generations, sequence
numbers, batch capacity and group size:

| Theorem | Statement |
|---|---|
| `Invariance` | `ReuseSpec => []IInv` |
| `Typing` | `ReuseSpec => []TypeOK` |
| `WriteAhead` | `ReuseSpec => []CheckpointsCovered` |
| `Durability` | `ReuseSpec => []AcknowledgedDurable` |
| `Permanence` | `ReuseSpec => AcknowledgedForever` |
| `RecoveryAgrees` | `ReuseSpec => []RecoveredLogOpens` |
| `FailureIsFinal` | `ReuseSpec => FailedAcknowledgesNothing` |
| `NumbersContinue` | `ReuseSpec => []SequenceContinues` |
| `NewestCovers` | `ReuseSpec => []NewestCoversAcked` |
| `RefusalHarmless` | `ReuseSpec => []RefusalStrandsNothing` |
| `StoreImplementsDurableLog` | `ReuseSpec => ImplementsDurableLog` |

Each assumes `Hypotheses`: synchronizing a file makes its directory entry durable,
and there are more sequence numbers than records. Findings 2 and 3 show what happens without
them, so neither can be dropped. They are about `ReuseSpec`, where a writer object may be
closed, fail and be opened again. The program, which makes a new writer object in every process,
is the case where it never is: `ReuseNext` has every step of `Next` (lemma `EndingIsReuse`).

`AcknowledgedDurable` is far from inductive: it says nothing of slots that promise more than
was acknowledged, of what is in the other image of a file, or of where a process stands. The
inductive invariant `IInv` adds, besides the types:

* `Numbered`: record `i` carries number `i` in both images, and the writer's `lastSeq`, the
  recorder's `sequence` and the current batch continue it. This is what makes a scan reach
  every durable record (`ScanReaches`) and any checkpoint consistent with what was scanned
  (`SlotsConsistent`);
* `Covered`: each slot of each image counts records that are valid and durable, unchanged;
* `Files`: the files come into being in an order. Until the journal is complete on stable
  storage, nothing is acknowledged; and a slot that counts records, in either image, has a log
  behind it whose header and directory entry are durable (`Grounded`). A writer that failed may
  leave a log without them, but then no slot counts a record;
* `Covering`: while the journal is whole, one slot of each image is the newest, has the
  greatest count and covers the acknowledged records; the durable image promises no more than
  the cached one's newest slot. A commit that wrote its slot and failed keeps this: the
  slot is newer than the members of the writer say, and is covered all the same;
* `Recovering`: what each step of recovery leaves to the next;
* `Reopening`: what `open` finds, from recovery or from the writer's earlier use: a writer that
  did not fail knows the length of the log (`sequence`), has nothing unsynchronized beyond it
  and finds it in the newest slot. A writer that failed is promised none of this, and needs
  none of it, because it commits nothing but an empty first checkpoint;
* `Running`: how `count`, `gen` and `active` relate to the slots, and that the slot being
  overwritten is never the one `Covering` needs;
* `Bounds`: the order of the counters, and that a process that has not loaded a checkpoint is
  as constructed.

Two facts carry the argument. What is promised, by a slot or by `acked`, stays durable and
unchanged by every step (`PromisesKept`, with the kernel's and power loss's part in
`KernelCells` and `PowerLossKeeps`). And the slot that recovery chooses or `open` loads is
the newest (`ChosenIsTop`, `LoadedIsTop`), although the two select by different rules.

The refinement maps the durable log's committed records to the first `acked` cells of the
file and its pending ones to those up to `Held`: what the running writer counts, or, with no
writer, what the newest slot counts. `HeldKept` shows that a step keeps the records that are
held before and after it; `StretchStep` that the pending records then have either grown at the
end or been cut there.

`FailureIsFinal` rests on `Running`: a commit of a writer that failed is the one of `open` on an
empty journal, where `count = 0`, so that what it acknowledges is what was acknowledged before.

`LegacyStoreProofs` proves, for legacy logs of every length, every entry of the old journal,
every set of failures a behaviour has and any number of interruptions, from `Hypotheses`:

| Theorem | Statement |
|---|---|
| `LegacyInvariance` | `LegacySpec => []LInv` |
| `LegacyRecordsNeverLost` | `LegacySpec => []LegacyRecordsKept` |
| `EntryNeverLost` | `LegacySpec => []EntrySurvives` |
| `EntryPlaced` | `LegacySpec => []EntryInItsPlace` |
| `RefusalHasReason` | `LegacySpec => []RefusalExplained` |

The store's `IInv` does not hold here: the migration starts from a log and a journal that no
`open` of this recorder made, and with kills and power losses together Finding 4 breaks what
the store promises. `LInv` replaces it:

* `LegacyFiles`: there is a log with its header on stable storage (`WithLog`) or no record at
  all (`Headless`), and the old journal is on stable storage for as long as the program sees it.
  So a power loss can bring the old journal back, never take it away first;
* `LegacyScanned`: the length recovery acts on is the log's, also after the entry was appended;
* `LegacyKept`: no cut and no write goes below the legacy log, and none below the entry either
  once the journal that promised it is replaced (`Base`, `Settled`). The slots, the scanned
  length and the writer's `count` are all at least that base;
* `Synchronized`: where no process is killed, the entry is the only record that can be missing
  on stable storage while the old journal is there. This is the fact that the kill of Finding 4
  breaks, and why `EntrySurvives` and `RefusalExplained` speak of one kind of failure;
* `Backed`: if processes are only killed, some slot of a whole journal counts records that are
  all there, so recovery has a checkpoint to choose;
* `LegacyNumbered`, `LegacyRunning`, `Inheritance`: numbers, the writer's members, what was found.

`RefusalHasReason` needs one thing more for power losses. As long as the new journal has not
reached stable storage (`Awaiting`), a power loss brings the old one back and the migration
starts again. When it does (`HandedOver`), the files satisfy the store's own `IInv` (`Handover`),
and from there every step is one of the store's (`StoreGoesOn`), so `StoreStep` of
`RecorderStoreProofs` keeps it and `RefusalStrandsNothing` follows. The part `PowerAlone`
says that one of the two is the case.

`LogScanProofs` proves, for every number of records, record and header size, largest number and
length of file (only `ScanAssumption` is assumed):

| Theorem | Statement |
|---|---|
| `Invariance` | `Spec => []IInv` |
| `ReportIsExact` | `Spec => []ReportsLongestPrefix` |
| `RecoveryHeals` | `Spec => []RecoverHeals` |
| `ValidRecordsStay` | `Spec => ValidRecordsKept` |

The properties speak of finished scans. `IInv` adds `Types`, `Shape` (only the last record of a
file is short, which is what makes offsets and indices agree: `SizeOfFile`), `Scanning` (the
records accepted so far are valid and in sequence, the returned entries are theirs, and
`report.last` is the number of the last one), `Found` (the report is exact already when recovery
is about to cut) and `Healing` (the second scan of a recovery starts from a file that the first
one cut, so it accepts every record and ends healthy; where the cut failed, the report of the
first scan stands). The lemmas under it say where records
lie (`SizeOfFile`, `CutAfter`), that a file has one longest valid prefix (`OneLongest`), and that
the report is exact at whatever record the scan stops (`VerdictRight`).

`CrashMatrixProofs` proves, for batches of every size and files of every length (only
`MatrixAssumption`, that the batches fit the file and the sequence numbers, and the assumptions on
the other constants):

| Theorem | Statement |
|---|---|
| `MatrixInvariance` | `MatrixSpec => []MInv` |
| `MatrixPasses` | `MatrixSpec => []CasePasses` |

`CasePasses` speaks of a case that has ended. `MInv` says for each of eight places on the way
(`Making` the files, `Waiting` for the batch, `Appending`, `Committing`, `Committed`, `Dropped`,
`Reopening`, `Recovering`) what the writer's members, the log and both slots are there.
`Committing` and `Committed` exclude the faults that would have ended the child before, which is
how a fault decides the slot that recovery finds; `ExitStep` draws that conclusion and
`ChosenConsistent` that recovery can choose no other slot. Both recoveries then report `Outcome`.
The store's `IInv` does not serve here, as the tool opens the writer without a recovery before it.

`FlightRecorderProofs` proves, for every buffer, batch and group size, interval and number of
samples (only `RecorderAssumption` is assumed):

| Theorem | Statement |
|---|---|
| `Invariance` | `Spec => []IInv` |
| `Typing` | `Spec => []TypeOK` |
| `TotalsHold` | `Spec => []TotalsSound` |
| `Drops` | `Spec => []DropsReported` |
| `DeadlineOfOldest` | `Spec => []DeadlineFollowsOldest` |
| `WakesInTime` | `Spec => []WakesForDeadline` |

Besides the types (`Numbers`, `Places`, `Booleans`, taken apart because one prover does the
arithmetic and the other the Booleans), its `IInv` adds:

* `Held`, `Failing`: what the writer thread has in its hands at each place, and that after a
  failure it only gives up, and sets `writer_error` before it touches the log again. Without
  them an append could follow a failure;
* `Ledger`: the totals against the writer's own counts, each step by step as the thread counts
  after it wrote: `safe` is ahead of `written` only until the batch is counted, and every number
  sent is in the log, in the batch or in the queue. `TotalsSound` alone forgets the batch
  between its pop and its append;
* `Ending`: what a flush leaves, which is what `FinalIsExact` rests on;
* `Reporting`: the overflow status is in the recorder's flag or in the sample under way, never
  in both and never in neither while a drop is unreported;
* `Deadline`: `DeadlineFollowsOldest` at every place of the loop, not only where the deadline
  is looked at. Between an append and the timer the deadline still has to be set, or to be
  taken back, and the age of the batch is what it will be set from;
* `Patience`: a wait ends by the deadline; both are counted down by the same ticks.

`RecorderStatusProofs` builds on it: `ShownDurable` (`StatusSpec => []ShownIsDurable`) and
`FinalExact` (`StatusSpec => []FinalIsExact`). The calls of `stats` leave the recorder alone, so
the theorems above hold with them too (lemma `StatusKeepsSpec`). The invariant `SInv` adds
`Loaded`: what the call after `stop` has loaded is what the totals still are. `ShownIsDurable`
needs that the writer's counts never fall (`CountsGrow`), and `FinalIsExact` that nothing moves
once `stop` returned (`StoppedStays`, `SensorJoined`).

`SensorSimulatorProofs` proves `SimulatorWarnsWhereHot` (`Spec => []WarningsWhereHot`) for
all starts of the anomalies within the ranges the constructor draws from. A status follows
from the range of the temperature and of the speed that the samples before it left, so
the invariant bounds both along the profile:

* `NotTooHot`, from above: a constant to the end of the cruise, which holds even if the
  spike heated every sample of it, and then a line that falls by 4 degrees a sample
  through the descent, slower than the temperature does. It is at 700 degrees when the
  landing begins, whose first sample takes it below the threshold;
* `FollowsTheTarget`, from below: in the climb the temperature closes in on the target faster
  than the target rises, by a quadratic in the samples left (`Lag`), so that it ends within
  15 degrees of 690, above the threshold, however cold the climb began;
* `WarmedUp` and `SlowAtFirst`: the engine is over 80 degrees from the fourteenth sample on
  and below 850 rpm up to the thirteenth, so no sample of the startup is both cold and fast.

The progress of a phase is a cubic rounded twice; `PartsOfWhole`, `Thousandths` and
`CubicBounds` bound it for a phase of any length, `StartupProgress` and `ClimbProgress` follow
it for the two phases whose bounds from below need its course.

Only model-checked is what the prover cannot do: liveness (`WaitersProceed`,
`CallsReturnOnceClosed`, `TimedCommit`, `FailureStops`, `StopCompletes`, `AnomaliesRecur`,
`CasesEnd`) and `ENABLED`. Every invariant a run checks is proved, and TLC evaluates every
property above on the small instances as well, except the ring's `TypeOK`, which is only
proved.

## Plan

Done: ring, store, recorder with its status, migration, writer reuse, scan, crash matrix and
simulator modelled and checked; ring, store with reused writers, migration, scan, crash
matrix, recorder, status and simulator proved.

Left:
1. Finding 1 over the fine ring: the recorder's threads composed with `CircularBuffer`.

## Not modelled

* `platform_info.cpp`, the benchmarks, `scripts/`, command lines and all output, the replay
  tool's filters, summaries and formats: they measure, parse or print, and keep no state that a
  property could be about.
* Altitude, airspeed, vertical speed and heading of the simulator: nothing reads them, and no
  status bit depends on them.
* A `FlightRecorder` object started again after `stop`: the program never does it.
* The bits of CRC32, field layout, byte order, preallocation sizes.
* The latency histogram and the other statistics of the writer: they only measure.
* `read_log` and `read_all` as operations of their own: they return the entries of the scan in
  `LogScan` or nothing.
