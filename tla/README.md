# franken_whisper: a TLA+ verification project

TLA+ models of the parts of franken_whisper where threads, deadlines, cancellation, retries, lost
messages and crashes meet: supervised pipeline stages and the run around them, the ways results
reach the database, the live session, export and import, capture, the TTY audio protocol,
subprocesses, and speculative streaming. TLC checks them on small instances; TLAPS proves most of
the safety properties, and the refinements, for every value of the constants. Paths are relative to
the repository root, so the main crate is `src/`, e.g. `src/orchestrator.rs`.

## 1. Inventory

| Part | State | Operations | Talks to | Hard behaviour | Module |
| --- | --- | --- | --- | --- | --- |
| Stage supervision, `orchestrator.rs` 390-700, 1035, 1460-1721 | `PipelineCx`, `CancellationToken`, `RunCancel`, an mpsc channel, a worker thread | make token, spawn, publish, receive, time out, join, drain | every stage executor; Ctrl+C flag | two threads, two deadlines, unbounded join, late messages | `StageSupervisor` |
| Pipeline run, `orchestrator.rs` 59-350, 1735-2508, `execute_*` | `PipelineConfig`, `PipelineIntermediate`, `EventLog` | validate, skip, enter, run, fail, assemble, persist | supervision, backend router, storage | any accepted order; early returns; state replaced under earlier facts | `Pipeline`, `SpeculativeRun` |
| Run persistence, `storage.rs` | SQLite connection, savepoint stack | open, persist, retry, roll back, commit | persist stage, sync | busy retries, failed RELEASE, crash, cancellation between inserts | `Savepoints`, `ReportPersist`, `PersistStage` |
| Live session, `listen.rs` | buffer, voice detector, open utterance, buffered rows | read, onset, endpoint, time-out, cap, step decode, flush, close | capture, decoder, storage | edges, time-outs, trims and interrupts in one round; failed flush; crash | `ListenPersist`, `LiveSession` |
| Capture, `capture.rs` | ring, flags, counters | feed, read, stop | audio callback, pipes | ring overrun, a stop racing the reader, readers that cannot be woken | `CaptureRing` |
| Sync engine, `sync_engine.rs`, `sync.rs`, `sync_input.rs` | lock and guard files, cursor, channels, manifest | acquire, export, compress, pin, import, release | database, file system | stale locks, crash between any two renames, concurrent reader, conflicts | `SyncLock`, `SyncExport`, `ImportPolicy`, `SyncImport` |
| TTY audio, `tty_audio.rs` | sequence numbers, missing ranges | encode, parse, decode, plan, retransmit, close | terminal | loss, damage, duplication, reordering | `TtyAudio` |
| Subprocesses, `process.rs` | process tree, pipes, readers | poll, time out, kill, reap, scan, capture, judge | ffmpeg, bridges | pid reuse, descendants that leave the group, pipes held open, capture limits | `ProcessTree`, `BoundedCommand` |
| Speculation, `speculation.rs`, `streaming.rs` | windows, controller, partials, events | cut, run lanes, resolve, adapt, merge, repair | two engines | window size changing under the walk, lanes returning in any order, seams | `WindowSchedule`, `Seams`, `Speculation` |
| Backend router, model distribution, YouTube pipeline, batch driver | scores, caches, per-video state | route, download, resume, loop | pipeline, network | fallback, interrupted download | - |
| Native engine, diarization, separation, denoising, acceleration | tensors | inference | stages | floating point | - |
| CLI, TUI, robot output, export formats, logging, front ends | none of their own | format, parse, bind | users | - | - |
| Evaluation corpora, conformance and differential oracles | - | measure | - | - | - |

`PROJECT.json` lists every component with its status, and the hazards of the code, each at its
line with the properties that watch it.

What makes each part correct:

* **Supervision**: no worker outlives its stage; no event is lost, doubled or reordered; a value
  that arrives after the token tripped is refused; the error names what really ended the stage;
  the stage returns although the join has no bound.
* **Pipeline**: an accepted stage list never fails for want of an earlier stage; what is known
  about the waveform belongs to the waveform in use; silence means an empty transcript; every
  started stage is closed in the event stream; success and the database row agree.
* **Persistence**: a report is durable as a whole or not at all; what the caller is told of it is
  true; a stop before the last checkpoint keeps it out.
* **Live session**: utterances are bracketed and never nest; nothing said is missing; nothing is
  committed twice; each utterance is durable as a whole or not at all.
* **Sync**: one process at a time runs under the lock; an import replays one export, changes the
  target in one step or not at all, and can be repeated; no mutation is skipped.
* **Capture**: every frame is delivered in order or counted; reads and stops come back.
* **TTY audio**: the plan names what is missing; an acknowledgement is true; a fair link heals.
* **Subprocesses**: a certified cleanup left nothing running but what its last pass could not see,
  and the scan signalled no stranger; success means all the output.
* **Speculation**: each moment is owned by one window and each word appears once; the stream can be
  replayed by a consumer; no lane outlives the run.

## 2. Modules

`StageSupervisor`. `sup` is the control point in `run_stage_with_timeout_streaming` and its
callers, `worker` that of the spawned closure, `chan` the mpsc channel. `MakeToken`,
`ComputeTimeout`, `Spawn`, `Arm` are separate steps because each reads the clock again. `Recv*` are
the arms of `recv_timeout`; a ready message is handed over even after the deadline. After a time-out
the error is evaluated, then the worker is joined, then the channel is drained. The operation is
arbitrary: it publishes events, fails, panics, or has a value, and notices a tripped token at a
checkpoint. Mode "budget" is `run_stage_with_budget`, mode "token" is
`run_stage_with_token_budget[_streaming]` with its fence between value and `Ok`. Wall clock and
monotonic clock are one clock.

`Savepoints`, `ReportPersist`. A connection has durable rows, visible rows and a stack of
savepoints. A failed `RELEASE` may leave no transaction ("aborts") or the open one ("keeps_open");
`storage.rs` does not say which, so both are explored. A rollback of an existing savepoint succeeds.
`ReportPersist` has one action per statement group with the checkpoint that precedes it; passing
the last checkpoint and committing are two steps.

`PersistStage` composes the two: the worker's operation is either the opaque one or, for the
persist stage, the statements of `ReportPersist`, whose flag `tripped` *is* "the stage token is
tripped" (an `INSTANCE ... WITH` refinement mapping). Only here does the commit race the budget.

`Pipeline`. One action per stage executor for success, and actions
for the paths all executors share: skip, refused entry, start, failure. The intermediate state is
abstracted to *which waveform* and *which result* each field was computed from. `held` is the
result while a stage has taken it out, so an error drops it as in the code. The log is the sequence
of (stage, code, stage whose start set the timer). A stage's inner work is one step that ends in
any way `StageSupervisor` allows.

`SpeculativeRun` composes it with `Speculation`, as `execute_backend_speculative` does: a backend stage
whose request is speculative makes a streaming pipeline for the waveform, the steps of that pipeline
are the worker's, the checkpoint before a window fails once a stop was raised, and the stage ends when
the worker has been joined, which drops the pipeline. `MCPipeline` instantiates it. `HasAudio` is a
bound: only in the runs it names does the waveform hold audio, in every other speculative run it is
empty and the pipeline ends without a window.

`ListenPersist` is `ListenPersistSink` over three store operations: rows are buffered as they are
recorded and written when an utterance closes; a failed flush keeps its buffer. An insert may fail after
any of the rows before it were written; a failed `RELEASE` is returned without a rollback, and as in
`Savepoints` both things it may leave are explored, so the next operation may nest in the transaction
of an earlier one. `LiveSession`
extends it with `run_listen_session`: one action per phase of a round (`Read`, `Onset`, `Endpoint`,
`Timeout`, `Reopen`, `Cap`, `Step`, `Terminate`, `Close`), `SessionBuffer` and the frame automaton
of `StreamingVad` as functions; `Frame` is one round of the loop in `StreamingVad::push`, which takes
the frames of a read before any of their edges is handled. Time is counted in detector frames; the decoder is an oracle that
hears one word per voiced frame of its window, so a text is a set of frames and "lost" and "twice"
are set facts. Wall-clock conditions and interrupts may hold at any time. Left out: the confirm lane,
previews, statistics, the text logic by which a policy picks its commit point (any point it may
pick is explored).

`SyncLock`. `pc` is each process's place in `acquire`, its operation, or `release_inner`; `guard`
the holder of the advisory lock; `file` the lock file. Every file operation is a step of its own; a
process may die anywhere, its pid may be given out again, and every I/O call may fail. `Age` lets
the file grow old unless its living creator is still about to write the payload: **assumed** is that
a living creator writes its payload within `LOCK_STALE_SECONDS`.

`SyncExport`. The source's mutation triggers, the cursor file, the channels as `.jsonl` and
`.jsonl.gz`, and the manifest; `BeginExport`, `WriteChannel`, `RemoveStale`, `PublishManifest`,
`SaveCursor`, `Compress`, in the code's order for each mode, and a stop between any two of them. An
importer of another state root pins the channels one at a time meanwhile. An aggregate is the
sequence number of its last change; a checksum is the bytes.

`ImportPolicy` is the abstract specification of an import: which archives a policy accepts over a
database and what the database holds then, in one step. `SyncImport` is the code's row-by-row
replay in a transaction, the overwritten runs and their strict cleanup, tombstones, the conflict
report, and the publication of a fresh database by a link that fails if somebody was first; it is
shown to implement `ImportPolicy`.

`CaptureRing`. The producer (a stream callback or a pipe reader), the driver's `read` and `stop`,
with each load and store of the shared flag, error slot, counter and ring as a step.

`TtyAudio`. The encoder's lines, a link that loses, damages and repeats, the record of the far side,
and `Parse`, `SortBySeq`, `Decode` and `Plan` as recursive functions over the lines, as the code's
readers go over them (`ParseRun`, `SortRun`, `DecodeRun`: what there is after each).

`ProcessTree` is `terminate_descendant_process_tree` on Linux: group kill, reap, wait for the group,
passes over `/proc` with pidfds, two deadlines, while processes fork, leave the group, exit and pids
go to strangers. Any call of it may fail: the signals, the wait for the root, the probe of the group,
the listing of `/proc`, either read of an `environ`, `pidfd_open`, and the reads of a process's threads
(`killed_process_state`). The last four make the code pass over a process that may be running;
`missed` remembers which ones the latest pass passed over. `BoundedCommand` is the caller around it:
poll, cleanup, the two pipe readers with their drain grace, the join and the judgement; the error ends
of its readers and of its poll are one error each; its `Cleanup` is the answer `ProcessTree` may give.

`WindowSchedule` walks overlapping windows while the adaptive controller changes their size;
`Seams` puts a transcript together from what the windows kept; `Speculation` adds the two lanes, the
correction tracker and the event stream. Scores are kept as the comparisons made with them.

`*Proofs` modules hold the theorems (section 4). Some of them extend two components; this is why
`SyncLock`, `ProcessTree`, `CaptureRing` and `TtyAudio` name their specifications `LockSpec`,
`TreeSpec`, `RingSpec` and `TtySpec`.

## 3. Runs

| Run | Module | Properties | Bounds |
| --- | --- | --- | --- |
| `stages` | `PersistStage` | `Quiescent`, `EventsForwarded`, `DeadlineFailureNamesTheDeadline`, `LateValueNotAdmitted`, `StopOutranksTimeout`, `ReturnsEventually`, `TruthfulReport`, `PersistOperation` | both modes, budgets 0 and 2, pipeline deadline none/1/2/3 (before, at and after the stage's), 2 events, clock 0-4, 1 retry, both kinds of failed RELEASE |
| `pipeline` | `MCPipeline` | `StagesBracketed`, `FailureIsLastEvent`, `OkMeansPersisted`, `RequirementsAlwaysMet`, `WaveformFactsCurrent`, `SilenceHasNoTranscript`, `OwnedOnce`, `WordsOnce`, `StreamWellFormed`, `NoLaneOutlives` | the default list, every list of up to three stages, every one-edit variant of the default, every order of the speech stages; a stop at every point. Speculation: durations 0, 5, 8; overlaps 1, 2; sizes 2-5; thresholds scaled to 1, 2, 2; audio for the list ingest, normalize, backend |
| `live_session` | `LiveSession` | `UtteranceLifecycle`, `CommittedOnce`, `VoicedIsHeard`, `UtterancesAtomic` | 5 frames read in chunks of up to 3, 2 utterances, a buffer of 4, with and without a detector, 1 retry, both kinds of failed RELEASE |
| `sync_lock` | `SyncLock` | `MutualExclusion`, `LiveLockInPlace` | 3 processes, 4 lock files |
| `sync_export` | `SyncExport` | `NoTornArchive`, `InSync`, `ArchiveReadable` | 2 runs, 3 mutations, 3 exports |
| `sync_import` | `SyncImport` | `Repeatable`, `ImplementsPolicy` | every archive over every database of 2 runs, 1 child key, 2 values, under all four policies |
| `capture_ring` | `CaptureRing` | `AllAccountedFor`, `CallsReturn`, `EndIsReported` | all three sources, ring of 3, reads of 2, chunks of up to 2, 6 frames |
| `tty_audio` | `TtyAudio` | `PlanCompletesAudio`, `AckIsTrue`, `LossHeals` | 3 frames and the control frames, 2 lost, 1 damaged, 1 repeated, 3 rounds |
| `process_tree` | `ProcessTree` | `OnlyUnseenSurvive`, `ScanSparesStrangers`, `CleanupReturns` | pids 1-3, 2 forks, 1 stranger |
| `bounded_command` | `BoundedCommand` | `OkMeansAllOutput`, `Returns` | both callers, limit 1, 2 bytes per pipe |
| `live_session_append_only` | `LiveSession` | `AppendOnly` (violated) | as `live_session` |
| `live_session_flush` | `LiveSession` | `FlushedSurvives` (violated) | as `live_session` |

The bounds are the smallest at which each property's mutant is caught and at which the orders
"before / tie / after" of every pair of deadlines, a full ring, an exhausted retry budget, a forced
trim and a reused pid occur. Where a system may really stop (a process waiting for audio, a finished
command), deadlock is not an error; elsewhere it is checked, with explicit stuttering once the
system has returned. `WordsOnce` holds for an even overlap and seams that are further apart than an
utterance: an utterance over three windows is outside it (section 6).

`live_session_append_only` is a finding. The step decode adds the policy's `commit_through_sec`,
which counts from the start of the decoded window, to `slice_from` (`src/listen.rs:3616`). After
`enforce_cap` trimmed the buffer past `slice_from` the window starts later than that, the commit
origin falls short of what was committed, and the next decode transcribes the same audio again. The
comment at `src/listen.rs:3610` says "later decodes never re-transcribe it, so append-only holds by
construction". `CommittedOnce` in the passing run states what does hold.

`live_session_flush` is a finding. `listen_flush_utterance` returns a failed `RELEASE` without rolling
back (`src/storage.rs:2655`). If it was busy and left its transaction open, `retry_busy` runs the
operation again inside that transaction: the new `SAVEPOINT` nests, its `RELEASE` only merges it into
the one still open, and the flush reports success and clears its buffer while nothing is durable. A
crash then loses an utterance that was reported written. `src/listen.rs:2664` calls a flush the
"Durability point", and `docs/realtime-streaming.md:167` the session "crash-durable at utterance
granularity". Whether a busy `RELEASE` can leave the transaction open is the engine's choice, which
nothing in the code excludes. `UtterancesAtomic` states what holds with either choice, the sense in which
"Utterances are the atomic durability unit" (`src/storage.rs:2591`) is true: what is durable, early or
late, is whole utterances.

The hypothesis of the theorem about `CommittedOnce` (section 4) is a second disagreement with that
comment. Nothing relates `pre_pad_ms` to `keep_back_sec` (`src/listen.rs:797`-`830`). A time-out closes
an utterance at the end of the audio, which sets the commit watermark there; if the next read brings
the late endpoint and a new onset together, handling the endpoint trims up to `keep_back_sec` before
that watermark, while the onset waiting behind it was padded back from its first voiced frame by
`pre_pad_ms`, to no earlier than the endpoint. `min_tail_sec` does not help, because the buffer has
grown meanwhile. The new utterance then starts before the buffer does, and the same window-relative
commit as above repeats audio without any forced trim. `LiveSession` with `MaxTicks = 6`,
`max_buffer = 10`, `keep_back = 0`, `min_tail = pre_pad = endpoint = 2` and `VadModes = {TRUE}` shows
it: TLC finds `CommittedOnce` violated in seconds. The default configuration (0.2 s, 200 ms) is safe,
and `AudioIsCommittedOnce` proves that `pre_pad <= keep_back` is all it takes.

**Fairness.** `StageSupervisor`/`PersistStage`: both threads are scheduled, the clock moves,
statements return, a running operation keeps reaching its checkpoints (the contract of every stage
operation); nothing makes an operation succeed. `CaptureRing`: threads run; strong fairness of
`LoadFlag` is the deadline of a read, which ends the polling loop however often it goes round.
`TtyAudio`: the encoder and the link go on (losses are bounded), plans are carried out, and
`[]<>(report.of = log)`, which is weak fairness of `RetransmitLoop`: it is enabled until the record
has been read. `ProcessTree`, `BoundedCommand`: the caller and the readers run and deadlines pass;
the tree's processes need not do anything. The operating system's scheduler justifies all of them.

## 4. Proofs

The theorems hold for every value of the constants. They assume the named `ASSUME`s of the modules,
which only type the constants and tell the special marks from ordinary values; two theorems have a
hypothesis of their own, named below.

* `PersistStageProofs`, first part: `StageSupervisor`. `IInv` strengthens the types by *Control*
  (which thread is where, and what exists by then), *Queue* (the channel continues what was forwarded
  and is closed by at most one result), *Deadlines* (the token's deadline is never later than the
  supervisor's) and *Names* (without a stop request a deadline named anywhere is the token's).
  `NoLateValue` and `StopWins` speak of all later states: a predicate closed under every step says
  that the result is neither returned nor on its way.
* `PersistStageProofs`, second part: both refinements. `ImplementsSupervision` (every step is one of
  the supervised stage) and `ImplementsPersist` (every step is one of the operation, at most a trip of
  its token, which trips for good) carry both invariants over; `ReportIsTruthful` adds what may be on
  its way to the caller (*Told*): only the supervisor's own errors until the store is closed, and
  then only what agrees with the operation's answer.
* `ReportPersistProofs`. `IInv` says what the connection is at each statement: a retry after a
  `RELEASE` that left the transaction open finds the whole report visible, so the insert of the run
  row collides and nothing nested is ever released. Without it atomicity is not inductive.
* `PipelineProofs`. For *every* set of stage lists: what has been passed has left its trace,
  validation makes the prerequisite a passed stage, and the facts follow the waveform. A second
  invariant, `LogInv`, carries the event log: at most the stage at work is open, everything before
  it is closed (*Brackets*), and no stage has said that it ended before its place in the list is
  passed (*EndedBefore*) - validation forbids a stage twice, so a terminal event closes one bracket
  and never a second one. A third one, `TimesInv`, says that whoever is at work has set the timer for
  itself, so `StagesAreBracketed` is also about the times. `OkIsPersisted` and `FailuresAreLast` follow with what the row is in each
  phase (*RowKept*).
* `SyncFilesProofs`, `SyncLock`. For every set of processes: whoever is between check and create has
  the guard; what a contender can read of a holder's file at each point (*HoldersFile*); the pid
  judged is the owner of the file at the path (*JudgedIsOwner*); a contender about to rename or
  create has ruled all holders out (*HoldersRuledOut*).
* `SyncFilesProofs`, `SyncExport`. Every manifest anybody holds - the exporter's, the published one,
  the importer's - is *Sound*: its channels are of one snapshot and still agree with the source in
  every run that has not changed since. What an importer has pinned is what its manifest declares, so
  `ReplayIsOfOneExport` follows although the files change under it. `ReplicaFollows` needs the chain of
  snapshot, manifest, cursor and replica position (*Ordered*) and that an increment starts no later
  than the replica stands (*Followed*), which is where saving the cursor only after the manifest
  matters. `ArchiveCanBeRead` needs which file of each channel is there at each step (*LaidOut*).
* `SyncImportProofs`. `ImportIsRepeatable` for the policies, from the lemma that what a policy accepts,
  merged once, is accepted again and merges to itself. `ImportImplementsPolicy` is the refinement,
  for any runs, child keys and values: the transaction at every row is the target with the applied rows
  in it (*RunsInTxn*, *RowsInTxn*), the sets the import keeps say which runs were fresh and which
  overwritten, and what they held before (*Tracked*), conflicts are reported exactly when an applied
  row differs (*Reported*), and so what is committed is what the policy merges, run by run (*Settled*).
  `RowByRowIsRepeatable` carries repeatability over to the code's import.
* `ProcessProofs`, `BoundedCommand`. `SuccessIsComplete`: what was written is in the pipe or captured
  until a capture overflows (*Conserved*), a reader that ended without giving up saw the end of its
  pipe (*EndSeen*), and the caller judges only after both joins.
* `ProcessProofs`, `ProcessTree`. `CertificateCoversTheSeen`, with and without pidfds and whichever
  calls fail: in a pass over `/proc` whatever runs and was neither forked behind the listing nor passed
  over after a failed call is still to be looked at, unless the pass has found a reason for another pass
  (*Covered*). `StrangersAreSpared` has the hypothesis `Pidfd`: what was
  pinned before its token was read is of the tree (*PinnedIsOurs*). Without pidfds it is false.
* `ProcessProofs`, `TtyAudio`. Each of the reader's passes is a recursive function over the record, so
  every theorem rests on three inductions over the lines: that the parser yields frames and a
  consistent close (`ParseAccepts`), that the sort keeps every frame (`SortElements`), and that after
  any number of frames the numbers below the expected one are those in the audio, in order, and those
  in the plan, and no others (*Accounts*), the audio is of intact frames (*Covers*), the expected
  number follows the highest one seen (*Follows*), and the prefix is whole exactly when the plan is
  empty. A gap, a damaged frame, an intact one and a duplicate each keep it (`DecodeStepKept`).
  `PlanAccountsForEveryFrame` and `AcknowledgementsAreTrue` follow for every record that lines of the
  encoder can make, since a link only drops, damages and repeats them (*TtyInv*).
* `LiveProofs`, `CaptureRing`. `NothingLostSilently`: the frames delivered, popped and in the ring are
  increasing and no newer than what the ring was offered (*Ordered*), until a read fails they and the
  overruns, counted or still to be counted, are all that arrived (*Balanced*), and an ended flag has
  one of the reasons listed in *WhyEnded*. The room the producer saw is still there when it pushes
  because only the driver takes frames out (*ChunkKept*).
* `LiveProofs`, `LiveSession`. `UtterancesAreMatched`, for any amount of audio, any buffer and whatever
  edges the detector reports: the trail keeps the lifecycle with the number of the last utterance and
  whether its end is still missing (*Life*); that it is, is `in_speech` except at three points of the
  loop, where the code has emitted the end and not yet cleared or replaced the utterance.
  `UtterancesAreAtomic`, without any hypothesis: everything the connection holds - its durable rows, its
  visible ones, and those each open savepoint would go back to (`HeldBy`) - is *Stored*: utterances
  whole, the run row with any other row, the end marker only with the last event of a closed session
  (`Whole`). A store operation adds all the events recorded since a moment between two utterances
  (*Pending*), and a release, a rollback or an aborted transaction makes nothing visible or durable
  that the connection did not hold before (`HeldAfter`). So it does not matter how deep the savepoints
  of failed operations nest. Only the insert of the run row can collide with itself, while the session
  opens (*Opening*).
* `LiveProofs`, `LiveSession` again: `VoicedAudioIsHeard`, without any hypothesis. *HeardInv* relates the
  detector, the edges still to be handled, the buffer and what the trail has said. While an utterance
  is open, what it has passed is in its deltas or was reported lost (*OpenKept*). Wherever the next one
  may start - at an onset waiting among the edges (*Queued*), or anywhere from the detector's floor on
  while nobody speaks (*Quiet*) - everything voiced from there on is past every end reported so far, and
  still in the buffer or reported lost (*Begins*). A trim takes nothing from it because the commit
  watermark never passes an end that was reported (*Watermark*), and the edges alternate with the
  session's own state (*InStep*), so an onset never meets an open utterance.
* `AudioIsCommittedOnce`, for `pre_pad <= keep_back`. *OnceInv*: the next delta of the open utterance
  starts after its last one, and at a step decode the decoded window starts at the commit origin
  (*OpenAhead*), unless a forced trim has overtaken it. For that the buffer must reach back to every
  onset to come (*Trims*: the front is before the detector's floor, further back than the cap allows,
  or at least `pre_pad` before every frame that can still be the first of an onset) and to every onset
  found (*Onsets*). Deltas of different utterances are told apart by the end between them
  (*EndedBetween*, from the lifecycle).
* `SpeculationProofs`. `EachMomentOwnedOnce`: windows are *Apart* (one stops owning no later than
  the next begins), every moment before the last window is *Covered*, and the walk stands exactly an
  overlap before the end of the last window (*Walked*) - which is where the step of the window just
  processed matters, not that of the size just set. `TypeCorrect` includes that the size always
  exceeds the overlap. `ImplementsSchedule` shows that the lanes follow a window walk. `StreamCanBeReplayed`: the events tell of windows in order and decide
  all but the open one (*Told*), and the tracker agrees with the stream about every window that has its
  verdict (*TrackerKept*). `LanesEndFirst`: a lane runs only while the walk is at its window (*LanesKept*).
  `EachMomentOwnedOnce`, `StreamCanBeReplayed` and `LanesEndFirst` are theorems of `RunSpec`: in every run of the pipeline there
  is no streaming pipeline or it is where its own steps have brought it (*RunInv*), so whatever its
  invariant gives holds while the run around it is stopped, fails or goes on.

**Only model-checked.** Everything live (`ReturnsEventually`, `CallsReturn`, `EndIsReported`,
`LossHeals`, `CleanupReturns`, `Returns`), which the prover cannot express with fairness, and
`WordsOnce` of `Seams`: a transcript is put together by the selection, sort and folds of the library,
whose definitions recurse over the data and which no lemma of the library describes to the provers.

The library's induction theorems take an operator, which the installed provers cannot instantiate. Where
a proof needs induction it takes the set of the numbers with the property and a smallest number outside
it, which `WFMin` gives (`Induct`, `Earliest`).

The proofs found two flaws in the models. `Cap` and `Step` of `LiveSession` had no guard that the sink
is ready, so a session could take a step after its process had died. `ParseStep` and `DecodeStep` of
`TtyAudio` were a `CASE` with overlapping guards, which does not say which of them applies. The
properties held all the same; both are corrected.

## 5. Plan

1. Done: the modules, runs and theorems above.
2. Proof still open: `WordsOnce`, with the spacing of the seams as its hypothesis.
3. `ProcessTree` as the cleanup of `BoundedCommand` in one composition; a second clock in
   `StageSupervisor`; the confirm lane of the live session.

## 6. What the models show beside the properties

Behaviour that the models reproduce and the properties allow, because the code has it; each is worth
a decision by a maintainer.

* `src/orchestrator.rs:533`: in budget mode an exhausted stage budget is reported as
  `{stage}.cancelled` when the operation's own checkpoint notices it first; `README.md:3065` has
  `{stage}.timeout`.
* `src/orchestrator.rs:1699`: a commit of the persist stage that ends after the receive deadline
  leaves a row behind a reported time-out. The caller must take a time-out of this stage as "unknown";
  `TruthfulReport` promises nothing for it.
* `src/orchestrator.rs:3036`: a speculative run whose backends cannot be resolved returns before it
  has emitted an event.
* `src/orchestrator.rs:2265`: a skip event is pushed without a timer of its own and may carry the
  elapsed time of an earlier stage; `StagesBracketed` exempts it, since `stage_latency_profile` counts no
  stage that did not start.
* `src/sync_engine.rs:363`: a creator suspended for more than `LOCK_STALE_SECONDS` between
  `create_new` and `write_all` loses its lock to a contender while it lives.
* `src/sync_engine.rs:1802`: an incremental import deletes runs by tombstone, while
  `README.md:2705` says "the current snapshot format has no deleted-run tombstone, so removing a
  parent run is not propagated to another database".
* `src/capture.rs:1036`: a reader that stop left behind (stdin, a child that could not be killed) may
  still push and count; `AllAccountedFor` excludes it.
* `src/tty_audio.rs:374`, `:656`: the intact copy of a frame that arrived damaged first is dropped as
  a duplicate under one policy; a frame after a session close fails the whole read, and with it the
  plan for everything before it.
* `src/tty_audio.rs:563`: with nothing missing the retransmit loop acknowledges the highest contiguous
  sequence number; `docs/tty-replay-guarantees.md:79` says it "emits one `ack` with `up_to_seq: 0`".
  `AckIsTrue` is about what the code does.
* `src/process.rs:1203`: the comment says the scan "Rescans until a pass finds none, so an escapee
  forking during cleanup is caught too". The scan certifies a tree that is still running in two ways,
  the exemptions of `OnlyUnseenSurvive`. One is a process forked behind the last listing, whose parent
  exits before the pass reaches it (`newborn`). The other is a call that fails (`missed`): a `/proc`
  that cannot be listed is an empty pass (`:1261`), a live carrier whose `environ` cannot be read is
  passed over (`:1277`), as is one that `pidfd_open` refuses for any reason but a missing system call,
  a lack of file descriptors for example (`:1315`), and one whose threads cannot be listed counts as
  gone (`killed_process_state`).
* `src/process.rs:1311`: without pidfds a kill may reach a reused pid. `process_tree` has pidfds.
* `src/speculation.rs:1263`: a high correction rate makes windows grow.
* `src/streaming.rs:204`: words of an utterance over three windows may repeat at the second seam.
* `src/listen.rs`: an endpoint decode runs to the end of the buffer, so voiced audio after the
  endpoint in the same read is in both utterances' deltas; an utterance longer than the buffer cap
  hands a truncated slice to the confirm lane; a time-out in trailing silence gives an end before the
  start; a confirm job that finishes between the last receive and the load of the depth is neither
  collected nor counted as abandoned.

## 7. Not modelled

The main crate has about 341,000 lines; the models stand for some 8,600 of them. What carries state,
threads or files is there; the rest is of kinds a model checker has nothing to say about: tensor
arithmetic, diarization, separation and acceleration (floating point; about a third of the crate),
evaluation corpora and oracles, unit tests inside the source files, parsing and formatting of command
lines, robot events, exports and logs, terminal rendering, front-end bindings. The backend router
chooses by floating-point scores; its answer is one nondeterministic outcome of a stage. Model
distribution, the YouTube driver, the batch driver and the finalizers are sequential callers whose
shared state with the rest (`RunCancel`) is a stop request here. Schema migrations, Windows job
objects, the parent-liveness lease, `validate_sync` and adaptive bit rates are left out of modelled
components. In `ProcessTree` an interrupted probe and in `BoundedCommand` the I/O errors of a reader are
not told apart from the other errors that end the call: each only returns an error, so no property sees
a difference. A step of the wall clock against the monotonic clock, a failing rollback and pid reuse
against a leftover lock beyond `SyncLock`'s are hazards the models leave out.
