# YARR: TLA+ models, model checking and proofs

YARR is the data acquisition software for the ATLAS pixel and strip front-end
chips. `scanConsole` configures the chips, runs a *scan* (a nest of loops that set
parameters and send triggers), decodes and histograms what the chips send back, and
analyses the histograms. This directory holds TLA+ models of the parts of YARR that
carry its control and its concurrency, the TLC configurations that check them, and
TLAPS proofs of the safety properties of all of them.

All paths below are relative to the repository. `libYarr` stands for
`src/libYarr`.

## 1. Inventory

### 1.1 The parts and how they interact

```
 main thread (LoopEngine: nested loop actions)
   |  trigger loop -> TxCore (hardware)            Bookkeeper: which channel
   |  data loop    <- RxCore (hardware)            belongs to which front end
   |      | clipRawData            ^ clipProcFeedback
   v      v                        |
 per front end:  raw data processor --clipData--> histogrammer
                    --clipHisto--> analysis tier 1 --clipResult--> tier 2 ...
 afterwards: ThreadPool tasks write results and plots
```

| Part | State | Operations | Interaction |
|---|---|---|---|
| `ClipBoard<T>` (`libYarr/include/ClipBoard.h`) | `dataQueue`, `doneFlag`, two counters, `queueMutex`, `cvNotEmpty` | `pushData`, `popData`, `clearData`, `finish`, `reset`, two waits | the only channel between the threads |
| Scan pipeline (`ScanConsoleImpl.cpp`, `HistogramAlgorithm.cpp`, `AnalysisAlgorithm.cpp`, the `*DataProcessor.cpp`) | one thread per stage and active front end, the data under way | `process`, `process_core`, `publish`, `end`, `join` | reads one clipboard, writes the next; `run()` finishes and joins from upstream to downstream |
| Data loop (`StdDataLoop.cpp`) | chunks not pushed yet, active channels, feedback counters, the clock | `init`, `execPart1`, `execPart2` | reads the receiver, pushes raw data, pops feedback, pushes the end-of-iteration marker |
| Loop engine (`LoopEngine.cpp`, `LoopActionBase.cpp`, `StdParameterLoop.cpp`, `StdRepeater.cpp`, the `*MaskLoop.cpp` and core column loops) | counter and done flag of each loop, the loop status `g_stat`, the pixel registers a mask loop saves | `init`, `execPart1`, `execPart2`, `end`, `closeOut` | writes chip registers, runs the data loop innermost |
| Feedback and tuning loops (`FeedbackBase.cpp`, `*GlobalFeedback.cpp`, `*PixelFeedback.cpp`) | per front end: value, step, old sign, done; feedback clipboards | `init`, `execPart1`, `execPart2`, `end`, `waitForFeedback` | ask the analysis of each front end after an iteration, and move the setting by its answer |
| Tuning analyses (`StdAnalysis.cpp`) | histograms added up per loop position, `innerCnt` | `init`, `processHistogram` | answer the feedback loops; `OccupancyAnalysis` masks pixels in the configuration |
| Data gatherer (`StdDataGatherer.cpp`) | chunks read, counters of consecutive reads | `execPart2` | reads until the trigger is done, pushes data and marker |
| Analysis hierarchy (`ScanHelper.cpp`, `buildAnalysisHierarchy`) | deque of indices, `tierMap`, `indexTiers`, `loopcnt` | one loop | decides which tier each analysis runs in |
| Thread pool (`libYarr/include/ThreadPool.h`) | task queue, stop flag, condition variable, futures | `enqueue`, worker loop, destructor | used by the cleanup of the scan console |
| Bookkeeper (`Bookkeeper.cpp`) | `bookEntries`, `idMap`, `rxToIdMap` | `addFe`, `delFe`, look-ups | routes data in the data loops |
| FELIX controller (`libFelixClient`) | per receiver thread: queue, in and out counters, flush flag; enabled channels; trigger thread | callback, `readData`, `flushBuffer`, `getCurCount`, `runMonitor`, `setTrigEnable`, `doTriggerCnt`, `doTriggerTime` | receiver threads write what the main thread reads |
| Emulator (`libEmu`, `libRd53a/Rd53aEmu.cpp`) | two ring buffers, trigger thread | `executeLoop`, `doTrigger`, `readData` | the same, through ring buffers |
| Other controllers (SPEC, BDAQ, ITSDAQ) | buffers, registers | `readData`, `setTrigEnable`, ... | external to the models |
| Front-end configuration, tools, database, plotting | files, registers | conversion, I/O | not modelled |

### 1.2 What is hard here

* **Threads.** With `n` active front ends a scan runs `n * (2 + tiers)` threads
  connected by clipboards whose done flag is changed without the mutex.
* **Shutdown.** A reader may only be told to stop when its writer is gone, yet must
  still take what was pushed before. Every stage is at its own point when that happens.
* **Iterations overlap.** The data loop starts the next burst while processors are
  still decoding the last one. A timeout races with the last feedback.
* **Registers of two owners.** The main thread's loops and the analysis threads both
  change the pixel registers of a front end's configuration.
* **Question and answer.** A tuning loop asks an analysis whose input is histograms that
  are still on their way through the pipeline; which of them belong to the question is
  decided by counting.
* **Counters beside a queue.** The FELIX receiver counts what it queues in variables of
  their own; a reader that sees a count of zero stops looking.
* **Triggers.** A thread of their own sends them while the main thread reads. A user may
  interrupt, and the queue monitor may stop a receiver, at any moment.
* **Lost and corrupted data.** The loop must neither end early nor wait forever.
* **Limits.** Counters that are unsigned and compared as signed; a bound on the rounds
  of a worklist; processors that look at their input a fixed number of times at the end.

`PROJECT.json` lists each hazard at its line with the properties that cover it.

### 1.3 What makes each part correct

* *Clipboard:* a closable FIFO channel; no lost wake-up; nothing left behind at the end;
  no null pointer handed to a user that does not test for it.
* *Pipeline:* the results are those of a sequential run, whatever the interleaving; a
  clipboard is finished only after its writer; the shutdown ends.
* *Data loop:* an iteration ends with all its events or by its timeout; data are
  labelled with the iteration that took them; no chunk is dropped or pushed twice.
* *Loop engine:* data are taken in the order of nested loops, with the registers their
  label says.
* *Tuning:* a step is decided by all data of its own setting and by no other; the setting
  stays in its range; the search ends, and the chip is left with the value found; masks
  set by an analysis stay set.
* *Readout:* a packet reaches every front end of its channel once and in order; a reader
  does not stop while data wait; what was sent before the end of a trigger is read, and
  the marker comes last; no trigger of one burst falls into the flush of the next; reading ends.
* *Analysis hierarchy:* dependencies come first; a configuration is accepted exactly when
  it can be satisfied.
* *Thread pool:* each task runs once; nobody waits for ever.
* *Bookkeeper:* ids, entries and channels agree.

## 2. Modules

| Module | Models | MC module, configurations |
|---|---|---|
| `FifoChannel` | abstract specification: a closable FIFO channel | (checked through `ClipBoard`) |
| `ClipBoard` | `ClipBoard.h` and its users at the level of mutex and condition variable | `ClipBoard.cfg`, `ClipBoardFinish.cfg` |
| `ScanPipeline` | all stages of all front ends and `ScanConsoleImpl::run` | `Pipeline.cfg`, `PipelineInactive.cfg`, `PipelineBacklog.cfg` |
| `DataLoop` | `StdDataLoop`, trigger burst, receiver, processors, clock | `MCDataLoop`: `DataLoop.cfg`, `DataLoopStale.cfg` |
| `ThreadPool` | `ThreadPool.h` and `ScanConsoleImpl::cleanup` | `ThreadPool.cfg` |
| `AnalysisHierarchy` | `buildAnalysisHierarchy` | `MCAnalysisHierarchy`: `Hierarchy.cfg` |
| `LoopEngine` | `LoopActionBase::run` and the standard loops | (extended by `Tuning`) |
| `Tuning` | `LoopEngine` with the feedback and mask loops, and an analysis thread per front end | `MCTuning`: `Tuning.cfg`, `TuningMask.cfg` |
| `Bookkeeper` | the front-end tables | (extended by `Readout`) |
| `SequenceOps` | operators on sequences that several modules use | (extended by `ScanPipeline` and `Bookkeeper`) |
| `Readout` | `Bookkeeper` with FELIX receivers or an emulator, triggers, `StdDataGatherer` and the read cycle of `StdDataLoop` | `MCReadout`: `Readout.cfg` |

Eight modules hold the TLAPS proofs. Seven are about the module they are named after:
`ClipBoardProofs`, `ScanPipelineProofs`, `DataLoopProofs`, `ThreadPoolProofs`,
`AnalysisHierarchyProofs`, `TuningProofs` (with `LoopEngine`) and `ReadoutProofs` (with
`Bookkeeper`). `SequenceFacts` holds the lemmas on sequences that several of them need.
Section 4 describes them.

Definitions named as a mutation in their comment are deliberately wrong variants of the
definition that follows them. They are used to confirm that the properties can fail: with
the variant in place of the original, TLC reports the property violated.

### 2.1 ClipBoard

The variables are the members of the class, the owner of the mutex, the set of threads
blocked on the condition variable and a program counter per thread. A critical section is
one step, with two exceptions that matter: `notify_all` in `pushData` is a step after the
unlock, and a wait evaluates its predicate in one step and falls asleep in another, since
`finish()` may change `doneFlag` in between without the mutex. Spurious wake-ups are
possible at any time. `usage`, chosen in the initial state, says who uses the clipboard:

* `"pipeline"`: producers push, main joins them and calls `finish()`, the consumer runs
  `process()` (wait, `process_core`, test of the flag, two more `process_core`);
* `"feedback"`: the consumer is `StdDataLoop`, which pops after a timed wait that returned
  true and calls `reset()` (whose two critical sections are two steps).

`sent` and `received` are history variables; `sent` forgets what `clearData` discards.
`FifoChannel` is the promise: data are received in the order they were sent, none is sent
after the channel is closed, and what waits may be discarded while it is open.

### 2.2 ScanPipeline

Thread `<<f, s>>` reads clipboard `<<f, s>>` and writes `<<f, s+1>>`; stage 1 is the raw
data processor, stage 2 the histogrammer, the others are the analysis tiers. A clipboard
operation is atomic here. `style` distinguishes the two kinds of processor in the
repository: `"drain"` (Rd53a, Fei4, Star) empties its clipboard in `process_core`,
`"segment"` (Rd53b, Itkpixv2) returns from it at every end-of-iteration marker and keeps
an output container open between inputs. Main pushes containers and markers, then goes
through the sequence of `finish()` and `join()` of `ScanConsoleImpl::run`, front end by
front end and tier by tier. A container is a record of its kind, the loop status it
carries and an identity; a histogram is the sequence of containers it was filled from,
with the tiers that worked on it. The model does not look at what algorithms compute.

### 2.3 DataLoop

Hardware (triggers, a link that loses or corrupts packets, the receiver's buffer),
processors (pop a container, decode packet by packet, report feedback), a clock that may
raise `timedOut` at any moment, and `execPart2` of `StdDataLoop` step by step: reading
with its batching, pushing, polling the feedback of each channel, deciding, marking the
end. The code of Rd53a's trigger loop is the burst. A packet is one event. The number of
events to wait for is computed in unsigned arithmetic of `WordSize`. Which front ends
there are, which of them has a bad link, triggers per burst, tolerance and whether the
receiver is flushed are the `setup`, chosen in the initial state.

### 2.4 ThreadPool, AnalysisHierarchy, LoopEngine, Bookkeeper

`ThreadPool` has one action per critical section of workers and main; main enqueues two
batches, waits for the futures of each, and may destroy the pool at any point between two
calls (as when an exception leaves the function, or in `AnalysisConsole`).
`AnalysisHierarchy` starts from any configuration of a set and handles one index per step,
including the order in which a `dependOn` list is scanned: an unknown name behind an
unplaced one is not noticed yet. `LoopEngine` keeps the call stack as the current level,
since an outer loop is always in the middle of its `execStep`; parameters are unsigned
and compared as `int`. `Bookkeeper` has `addFe` and both forms of `delFe`.

### 2.5 Tuning

The actions of `LoopEngine`, each with what the loop at hand does to the front ends, and
one action per histogram an analysis processes. `tune` is the state of the global
search, `dac` what the chip was sent, `pix` the pixel registers of the configuration and
`m_pixRegs` the copy a mask loop took. `waitForFeedback` blocks until the clipboard of a
front end has an answer, and applies it (`Feedback`, `FeedbackBinary`, `FeedbackStep`,
`ApplyPixel`), chip by chip where the chips differ. The analysis adds a histogram to those of
the same identifier (`Ident`, computed from the loop status as in `StdAnalysis.cpp`) and
acts when their number reaches `NCount`.

Abstractions: every data taking gives each active front end one histogram in order
(`ScanPipeline` is about how); one pixel stands for all and belongs to the first mask
stage; what an analysis finds in a histogram is arbitrary, so that it may give any answer
its code can give. The settings are computed in `double` and converted to `unsigned`;
where that is undefined the model takes each of the possible outcomes. An inactive front
end has no analysis thread and is not waited for. With `applyEnMask` the mask loop of Rd53b
leaves out the pixel when it was disabled before (one set-up of the run). That a histogram
has the wrong size (`Rd53bPixelFeedback.cpp:57`) cannot happen with the analyses modelled, and
is left out.

### 2.6 Readout

Two bursts of a scan, with the trigger loop of Rd53a around the reading. The main thread
starts receivers, flushes, starts the trigger, reads (three ways: `StdDataGatherer`
passing data on, the same discarding them, and `StdDataLoop`'s cycle of reading until
`getCurCount` is zero), and stops and joins the trigger. A FELIX callback counts a packet
in one step and queues it in another; a pop and the count of it are the reader's. A packet
is discarded while its channel is disabled or its receiver flushed, and any packet may be
one that is too long or empty. The monitor, where `enableMonitor` starts it, loads two
counters one after the other, in either order, compares, and then makes a receiver whose
queue seems too long discard what comes (the flush flag); the variable `monitor` holds what
it has loaded. It looks at the threads in any order. For an emulated
channel the link is the command ring buffer, the receiver the emulator's thread and the
queue the data ring buffer. A packet is a channel and a number. When an iteration of
`StdDataLoop` ends is the business of `DataLoop`.

## 3. Runs

Every run finishes in about three minutes or less with two workers.

| Run | Shows | States |
|---|---|---|
| `clipboard` | both uses of a clipboard: no lost wake-up, nothing left behind, no null feedback, refinement of `FifoChannel`, delivery | 72 thousand |
| `clipboard_finish` (violation) | a consumer that has evaluated its predicate misses `finish()` | |
| `pipeline` | two tiers, both styles, active or inactive front end: sequential results, orderly shutdown | 321 thousand |
| `pipeline_inactive` (violation) | `run()` joins a thread that was never started | |
| `pipeline_backlog` (violation) | three waiting iterations are not all processed | |
| `data_loop` | five set-ups, one fault: an early end only by the timeout, right labels, chunks conserved, the loop ends | 896 thousand |
| `data_loop_stale` (violation) | late feedback is counted for the next iteration | |
| `thread_pool` | exactly once, no lost notification, drained, destructor returns | 17 thousand |
| `hierarchy` | 57 122 configurations of four algorithms | 468 thousand |
| `tuning` | 158 nestings of loops and 24 tunings of three chips: data in the order and with the registers of nested loops, answers of the own iteration, range, end, final value | 49 thousand |
| `tuning_mask` (violation) | a mask set by an analysis is overwritten at the end of the mask loop | |
| `readout` | all sequences of additions and up to two deletions of front ends, then ten ways of reading two bursts: each packet the receiver takes once and in order, counters cover the queue, markers last, reading ends | 605 thousand |

`CHECK_DEADLOCK FALSE` is set everywhere because each of these programs comes to an end
(a scan is over, a pool destroyed, a function returned). That they do not get stuck before
is the subject of the liveness properties.

### 3.1 Bounds

* `ClipBoard`: two producers and four pushes of two data or null. Two producers are
  needed for a push between another's unlock and notification, two items for order. The
  theorems hold for any number.
* `Pipeline`: one front end (front ends share nothing but main, whose order over them is
  fixed), two tiers (only from the second on are inputs forwarded), two containers in two
  iterations: both in one iteration, one in each, or an iteration without data. The
  inactive run has a second front end, the backlog run three iterations, one more than
  the two calls of `process_core` that follow the test of the done flag.
* `DataLoop`: two iterations, since what can go wrong is the effect of one on the next; a
  batch of two reads (`MaxReads = 1`); one fault. Two front ends with one trigger; two of
  which one is inactive, so that its events never come and every iteration times out; one
  front end with two; one with two and a tolerance of one; and one with a tolerance of two
  where one event is expected, so that the number to wait for wraps (`WordSize = 16`) and
  only the timeout ends the iteration. `OnTime` is stated for scans that wait for all
  events (`WaitsForAll`): with a tolerance it does not hold (section 3.3).
* `ThreadPool`: three workers and four tasks: more tasks than workers, and batches smaller
  than the pool.
* `AnalysisHierarchy`: four algorithms: a chain in reverse order then needs ten rounds, exactly
  the bound of the code; lists of at most two names.
* `LoopEngine`, `Tuning`: up to two loops around the data loop, bounds -1 to 2, steps 1 and
  2; two mask stages and two front ends, both, one or none active, in a tuning.
  `WordSize = 32` is enough for a negative setting to wrap out of range. `LowLimit`, below
  which Fei4 gives up, is 1 (50 in the code, of a range of 255). `PixelSteps` has two
  entries. `MaxAway = 2` bounds the answers that lead a search away from its end
  (section 3.3).
* `Readout`: two bursts (`MaxBurst`), since a burst can only disturb the next one; one or
  two triggers each; reads of one packet (`MaxSize`) and batches of two (`MaxReads = 1`);
  `QueueLimit = 1`, so that the monitor acts on two packets. It runs in three options with one
  front end (its places to look multiply the states by ten and more). Three front ends on two channels
  and `MaxDel = 2` for the tables: one behind a deleted one, and one sharing its channel. The
  options combine controllers, one or two receiver threads, shared and separate channels,
  counted and timed triggers.

### 3.2 Fairness

Weak fairness is assumed of every thread: operating system threads are scheduled, and the
mutexes are held for a bounded time. A clipboard's producers need not return. The data
loop needs time to pass (`Tick`) and bursts to end, which the trigger logic of the
hardware ensures; packets need not arrive uncorrupted. Nothing is assumed of spurious
wake-ups, of faults, or of when a pool is destroyed. The hierarchy is sequential code that
runs until it returns. In `Tuning` the engine and each analysis thread are fair; `ScanEnds`
also rests on `MaxAway`: an analysis that answered against the direction of the search for
ever would keep it going. In `Readout` the main thread, the trigger thread and each receiver
are fair; the end of a trigger's time, an interrupt and the monitor may come or not.

### 3.3 Findings

* **`clipboard_finish`.** `finish()` (`ClipBoard.h:108`) stores the flag and notifies
  without `queueMutex`. A consumer that has evaluated `doneFlag || !dataQueue.empty()` to
  false and has not blocked yet misses both. `join()` then waits forever. Taking the mutex
  around the store removes the behaviour. The window is small and nobody re-notifies.
* **`pipeline_inactive`.** `buildRawDataProcs` makes a processor for every entry, but only
  those of active front ends are started; `run()` joins all of them.
* **`pipeline_backlog`.** Once it has seen the done flag, `process()` calls `process_core`
  twice more. A processor that returns at every marker then takes two of the waiting
  iterations and leaves the others unread.
* **`data_loop_stale`.** Feedback does not carry its iteration, and what arrives after the
  reset is counted for the next one.

* **`tuning_mask`.** `end()` of a mask loop puts back the pixel registers `init()` saved
  (`Rd53aMaskLoop.cpp:252`, and the same in `Rd53bMaskLoop.cpp`), while the analysis may
  already have cleared enable bits in them. Whether a mask survives depends on which thread is
  first. A comment in the second file names the danger.

Limits of the code seen while modelling, without a run of their own:

* Some searches end only if the analysis lets them: a value at its maximum and an answer
  of +1, a binary search begun with step 1, Fei4's noise tuning. `MaxAway` excludes an
  endless repetition.
* `Rd53bGlobalFeedback.cpp:82`: a front end that is done keeps being moved by further
  answers while others are not; `ValueInRange` leaves that case out.
  For Fei4 its lower limit is zero: the code stops there and not at the configured minimum.
* `Rd53aPixelFeedback.cpp:100` marks every front end as done at the start, so that a pixel
  tuning ends after its first step. `TuningCompleted` is about the other chips.
* An analysis counts the positions of a loop as `(max - min) / step`, rounded down
  (`StdAnalysis.cpp`), where the loop rounds up; and the identifier of a position does not
  count the maximum a parameter loop includes (`StdAnalysis.cpp:151`), so that with two such
  loops identifiers collide. `AnswerOfIteration` is about tunings whose inner loops all add to
  a result and whose ranges their steps divide (`EvenTuning`, as in all tunings of the run),
  `ResultPerPosition` about at most one parameter loop around loops of this kind (`EvenScan`,
  as in all scans with an occupancy analysis of the run that have a loop).
* A counter that leaves the range of `int` on its way is compared wrongly. `NestedOrder` is
  about loops that do not (`Regular`, as in all scans of the run; scans of `configs/scans` stay
  far below).
* FELIX: what arrives after the gatherer has seen the end of the trigger is read in the next
  burst unless it is flushed; `flushBuffer` marks packets to be dropped as they come and does
  not empty the queue; the end of the next flush undoes what the monitor did. The monitor's two
  loads (`FelixRxThread.cpp:252`) are not one: with a packet received and read between them the
  difference is negative and wraps to almost 2^32 bytes, so that a receiver may be stopped
  whose queue is empty. The count of the main thread is never negative (`CountCoversQueue`):
  nobody else changes what was read. `GathererComplete`
  (the emulator loses nothing) and `BurstsApart` (no trigger while buffers are flushed) say
  what holds.
* A tolerance above zero is subtracted from the number of events waited for
  (`StdDataLoop.cpp:55`), so an iteration may end before its last events though none is
  lost; above the number of expected events the difference wraps.
* `tierMap` is keyed by name (`ScanHelper.cpp:714`): with two algorithms of one name a
  dependent is placed after *an* algorithm of that name, not after all. `TierAfterUpstream`
  says what holds.
* `StdRepeater` does not set its position in the loop status, and ends only when its
  counter equals `max` exactly (`StdRepeater.cpp:38`, `43`).
* `delFe` does not renumber `rxToIdMap` (`Bookkeeper.cpp:79`). `IdMapConsistent` is about
  `idMap`, `EachOnce` about scans without deletions; routing after a deletion is not covered.

## 4. Proofs

TLAPS checks every theorem for all values of the constants that satisfy the assumptions of
section 4.9. Where "run" is given, that run also checks the property on its instance. None of
the properties is inductive; each module strengthens them to an inductive invariant and proves
it action by action. TLC checked the invariants on the instance of the run first, except
those that quantify over all sequences (`TierInv`), which it cannot evaluate. What follows
is the idea of each.

Recursive functions (what a sequence of tiers puts out, the positions of nested loops, the
product `NCount`) and `FlattenSeq` are reasoned about by induction over the natural numbers: the set
of the numbers for which a statement holds contains 0 and with `n` also `n + 1`, hence all of
them (`NatAll` in `SequenceFacts`, from the least element of a set of naturals). That such a
function exists is shown the same way. `SequenceFacts` gives `FlattenSeq`, `Mapped` and
`Selected` their equations for appending, concatenating and taking the tail.

| Module | Theorem | States | Run |
|---|---|---|---|
| `ClipBoardProofs` | `TypeCorrect` | `[]TypeOK` | `clipboard` |
| | `IInvHolds` | `[]IInv` | |
| | `NoLostPush` | `[]PushWakesConsumer` | `clipboard` |
| | `NoDataLeft` | `[]NothingLeftBehind` | `clipboard` |
| | `FeedbackSafe` | `[]FeedbackPopNotNull` | `clipboard` |
| | `Refinement` | `ChannelSpec` (implements `FifoChannel`) | `clipboard` |
| `ScanPipelineProofs` | `TypeCorrect` | `[]TypeOK` | `pipeline` |
| | `PushBeforeFinish` | `NoPushAfterFinish` | `pipeline` |
| | `InputsDrained` | `[]ProcessedUnlessSegmented` | |
| | `ResultsAreComplete` | `[]ResultsComplete` | `pipeline` |
| `DataLoopProofs` | `TypeCorrect` | `[]TypeOK` | `data_loop` |
| | `IterationsKeptApart` | `[]OnTime` | `data_loop` |
| | `ReadIsConserved` | `[]ChunksConserved` | `data_loop` |
| `ThreadPoolProofs` | `TypeCorrect` | `[]TypeOK` | `thread_pool` |
| | `TasksRunOnce` | `[]ExactlyOnce` | `thread_pool` |
| | `NoLostWakeUp` | `[]SomeoneAwake` | `thread_pool` |
| | `DestructorDrains` | `[]DoneAfterAll` | |
| `AnalysisHierarchyProofs` | `TypeCorrect` | `[]TypeOK` | `hierarchy` |
| | `UpstreamFirst` | `[]TierAfterUpstream` | `hierarchy` |
| | `BuiltExactly` | `[]BuiltIffWellFounded` | `hierarchy` |
| | `LoopLimited` | `[]RoundsBounded` | |
| `TuningProofs` | `TypeCorrect` | `[]TuningTypeOK` | `tuning` |
| | `DataLabelled` | `[]LabelledWithParameters` | `tuning` |
| | `SearchInRange` | `[]ValueInRange` | `tuning` |
| | `TuningsComplete` | `[]TuningCompleted` | `tuning` |
| | `MasksKeepTuning` | `TuningNotUndone` | `tuning` |
| | `DataInOrder` | `[]NestedOrder` | `tuning` |
| | `AnswersAreOfIteration` | `[]AnswerOfIteration` | `tuning` |
| | `ResultsPerPosition` | `[]ResultPerPosition` | `tuning` |
| `ReadoutProofs` | `IdsConsistent` | `[]IdMapConsistent`, for `Bookkeeper` alone | |
| | `ReadoutTypes` | `[]ReadoutTypeOK` | `readout` |
| | `ReadoutIdsConsistent` | `[]IdMapConsistent` | `readout` |
| | `CountsCoverQueues` | `[]CountCoversQueue` | `readout` |
| | `CyclesDrain` | `[]CycleDrains` | `readout` |
| | `BurstsKeptApart` | `[]BurstsApart` | `readout` |
| | `GathererEndsComplete` | `[]GathererComplete` | `readout` |
| | `HandedOnce` | `[]EachOnce` | `readout` |

The four properties without a run are defined in the proof modules: `ProcessedUnlessSegmented`
(nothing is left in the input of a stage that drains it; compare the finding
`pipeline_backlog`), `DoneAfterAll` (a destroyed pool has run everything), `RoundsBounded`,
and `IInv`.

### 4.1 ClipBoard

`IInv` adds to the types:

* `WaitInv`: the consumer holds the mutex across steps exactly while it evaluates its
  predicate, and if it is about to block, the queue is empty. This is what makes a push
  that precedes the block impossible, so that a sleeping consumer with data was overtaken
  by a push whose notification is still to come (`PushWakesConsumer`).
* `DoneInv`: the done flag is set only after all producers have returned, and the two
  last calls of `process_core` come after it was seen. Hence the queue the third call
  finds empty stays empty.
* `FifoInv`: `sent = received \o dataQueue`. With an empty queue it gives
  `NothingLeftBehind`; with `PopSeq`, a lemma on sequences, it gives that each pop is a
  `Receive` of the abstract channel.
* `UsageInv`: `finish()` and `reset()` never meet on one clipboard, so that `Reset`
  does not reopen a closed channel.

### 4.2 ScanPipeline

`OrderInv`: a clipboard is finished only after the scan (raw data) or after its writer has
returned (`FinishedInv`), which follows from what main has joined in each of its phases
(`JoinInv`); only a thread in `process_core` or after `end()` has something to push
(`OutInv`); a thread leaves the loop of `process()` only when its input is finished
(`DoneInv`), so that what the last `process_core` empties stays empty (`DrainInv`). A push to a
finished clipboard would be one of a thread that has returned.

`ResultsComplete` needs to know where each container is. `FlowInv`: the containers in front of
the histogrammer, and those in front of the processor, can be numbered by iteration, a marker
ending one and beginning the next; and for each iteration, what was pushed of it is what has been
filled or published, followed by what is in the one queue and in the other. `Backlog` counts
the markers that the last two calls of `process_core` can still find: at most two iterations, or
a processor that drains its input, leave none behind. `TierInv`: there is a history of what
every tier has read, such that what a stage has made is what the next has read, followed by
what is in the clipboard between them and what is still to be pushed. When all have returned,
only the first of these is left, and the last clipboard holds `TierOutput`.

### 4.3 DataLoop

The argument counts. For each front end, the packets of this burst that were decoded and the
packets under way anywhere (link, receiver, accumulated chunks, containers, decoder) are
together at most the triggers sent; what the loop has counted and the reports still waiting
are at most what was decoded (`Counted`). When the loop has counted as many events as there
were triggers, nothing is under way (`NothingLeft`), so the next burst starts from empty
queues, and everything under way is of the current burst and labelled with it (`Fresh`). The
counts need that pushing and popping a container moves as many packets as it holds: packets in
containers are counted as a set of positions, and `AppendChunks` and `TailChunks` give bijections.

`ChunksConserved` is inductive with the types: each step moves packets from one part of the
concatenation to the next (`Conserved`).

### 4.4 ThreadPool

Tasks are numbered in the order they are enqueued, and the queue always holds the last of
those submitted (`QueueInv`). A worker has a task exactly while it runs it, and no two have the
same (`HeldInv`). So each task is not submitted, queued, with one worker, or finished, and
`PlaceInv` says what that means for its future and its runs. `StopInv`: a worker returns only
after `stop` and from an empty queue, and nobody blocks after `notify_all`.

### 4.5 AnalysisHierarchy

`QueueInv`: an index is in the queue exactly while it has no tier. `TierInv`: a name has a tier
exactly when an algorithm of that name has. `CountInv` is the reason why the limit on the
rounds never stops a hierarchy that could be built: if the dependencies are well founded and
`r` algorithms are queued, one of them is ready, and with it at position `d` at most
`(n(n+1) - r(r+1))/2 + r - d` rounds are over. A ready one exists because `WellFounded`
speaks of every set of algorithms, the queued ones too. Conversely, in a hierarchy that was
built every set has an algorithm of least tier (`NatMin`), which waits for none of the others.

### 4.6 Tuning and LoopEngine

Every action of `Tuning` is first shown to be one of a few moves of the engine (`StepIsMove`).
On these rest the call stack and the registers: the loops around the current level are in the
middle of their step (`ExecutingInv`) and have their parameter in the register
(`ParameterInv`). `GlobalInv` and `PixelInv` say where each search stands, `EndInv` what is
true once a loop has ended, and `MaskInv` that the copy of the pixel registers a mask loop
will put back holds the TDACs of now, the reason it does not undo a tuning.

`NestedOrder`. `NestAt(b, t, i, todo)` describes the loops from level `b` on: loop `l` has run
`i[l]` times, `todo[l]` are the positions it has left, those of the run at hand in front of those of
the runs to come (`InRun`, `BetweenRuns`); and the positions taken, followed by
`todo[b]`, are all positions of nested for loops. `RunFacts` relates the counter of a
loop to its number of runs; there the conversions to `unsigned` and back are shown harmless. `OrderInv`
is this for `b = 1`, a scan without feedback loop.

`AnswerOfIteration`. With `b = 2` the same lemmas describe the loops inside a feedback loop
(`TuneInv`): the data taken are split by their label into those of earlier iterations and, behind them,
those of the present one (`Split`, `SplitUnique`), and these are at most as many as the analysis
expects, exactly as many at the end (`IterationData`), because `NCount` is the number of
positions (`CountOfIteration`) and the identifier of a histogram is the number of its iteration
(`IdentOfIteration`). So for each front end the analysis is `Adding` the data of this iteration, has
`Answered` from all of them, or the answer was `Fetched` (`AnswerInv`), and the loop goes on
only in the third case. `SettingInv`: until the answer is fetched, chip and search agree,
and did so whenever data of this iteration were taken.

`ResultPerPosition`. The data taken are a beginning of the positions of the whole scan (`Plan`, by
`NestedOrder`). First, without steps: for each position of the parameter loop, `Plan` has
`NCount` of its data, wherever in the nest that loop stands. `CountAlike` goes from the
innermost level outwards: a loop that adds multiplies the number by its runs (`CountLoop`,
`SumFacts`), the parameter loop has each value in one run (`ValuesDistinct`); and with at most one
such loop, two positions share an identifier only if they agree in it (`IdentAlike`).
`ResultInv` then follows the steps: after `s` histograms the analysis has of each
identifier `v` those of its data among the first `s` (`Upto(v, s)`), has put them out exactly if
they are `NCount`, and has put out nothing else and nothing twice. As `NCount` is all there are,
a result is complete, and the results at the end correspond one to one to the positions.

### 4.7 Bookkeeper

`BookInv`: no front end is entered twice (`NoTwoEntries`), and the id of each entry is its
position in the vector (`Consistent`). `RemoveAtProperties` says what erasing leaves; the ids
behind the erased entry are lowered by one, those before it stay.

### 4.8 Readout

`CountInv`: the difference of in and out counter is the length of the queue and what is
between counting and queueing. `CycleInv`: what had been counted when the pass began is
queued or was counted out, and while the sum over the threads is still zero, those visited
were empty. `BurstInv`: where the trigger thread can be for each point of the main thread.
`EmuInv` and `GatherInv`: the emulator's word of padding is the last of its burst, the trigger
is done only when it was read, and the last pass of the gatherer begins after that.
`MarkerInv`: what a gatherer has handed over is closed by a marker at any time.

`EachOnce`. For a channel, what was handed over, what the reader holds, the queue, what the
receiver holds and the link, in this order and each restricted to the channel, are the packets
sent and not dropped, each once and in order (`StreamInv`). A step moves the first packet of one part to
the end of the part before it, or drops it. This needs that a packet is only where its channel is
served (`PlaceInv`), that the routing table lists each front end of a channel once
(`RouteInv`), and that between bursts the reader holds nothing (`ReaderInv`). `ReadoutTypes` rests
on `LimitInv`, which bounds the triggers sent by the bursts begun, and on `MonitorTyped`.

### 4.9 Assumptions

The assumptions on constants are named in the modules, and TLC evaluates them in every run:
numbers are natural, set-ups have the fields they need, threads and null values are distinct.
Those that say more come from the code or from its scan configurations:

* `LoopEngineAssumption`: the step of a loop is positive, and no parameter loop is inside the
  data loop (a scan's data loop is the innermost, in all of `configs/scans`).
* `TuningAssumption`: at most one feedback loop, the outermost; a global search has a range
  `0 <= min <= max` that fits its word; the feedback loop and the analysis that answers it
  belong together. All scans in `configs/scans` are so; the code tests none of it.
* `ReadoutAssumption`: the emulator has one channel, one thread and counted triggers.

### 4.10 Only model-checked

Liveness (`Delivered`, `ScanTerminates`, `LoopEnds`, `StopEndsPool`, `FuturesReady`,
`Terminates`, `ScanEnds`, `ReadingEnds`): it rests on fairness and `ENABLED`.

## 5. Not modelled

* The decoding of events from bits (Rd53b streams among them, `Rd53bDataProcessor.cpp:286`),
  the arithmetic of histograms and fits: numerical code over large data.
* Of the loops: which pixels belong to a mask stage, crosstalk masks, core column registers,
  the loops of Star chips, trigger feedback.
* Of FELIX: the firmware trigger, the command fifos, the lpGBT registers (a reply that never
  comes is waited for without limit, `FelixController.cpp:1020`) with `clearRawData`, which
  empties a queue without counting, and the client library.
* Of the emulators: what the chip computes, and the emulators of other chips.
* Drivers for SPEC, BDAQ and ITSDAQ: register access and sockets. The data loop sees a
  receiver and a trigger unit that may lose data.
* Register maps, JSON, files, command lines, database, plots: input and output.
* By lines these parts are most of the repository: bundled headers, look-up and register
  tables, numerical code. The models are about what runs concurrently or over many steps.
* The memory model: `doneFlag` is atomic in the code; unlocked reads that only feed log
  messages (`size()`, the clipboard monitor) are left out.
* In `ScanPipeline` a wait is atomic; that `finish()` may be missed is `clipboard_finish`'s
  subject, and `ScanTerminates` is to be read with it.

## 6. Plan

Done: clipboard with abstract channel and proofs, pipeline, data loop, thread pool,
hierarchy, loop engine, bookkeeper; feedback and tuning with the mask loops and the analyses'
counting, composed with the loop engine; the data gatherer, the FELIX receivers and the
emulator's ring buffers, composed with the bookkeeper.

Proved: the invariants and action properties of section 4, in all eight models; of the safety
properties that passing runs check there is none without a theorem.

Next, in this order:

1. The read-out as an abstract channel per receiver, refined by `Readout`; `StreamInv` is most of
   what such a refinement needs.
2. The streams of Rd53b at the level of blocks: what `process_core` leaves unread after a
   block without a new stream flag.
