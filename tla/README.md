# A TLA+ model of arr-reconciler

arr-reconciler looks after Sonarr and Radarr instances. On a schedule it
removes dead downloads from their queues and moves files that no database
references to a trash, with language models deciding per item and hard limits
in code above them. This directory models that program: the state machines of
its parts, the TLC configurations that check them on small instances, and
proofs, checked by TLAPS, that the most important properties hold for every
instance. Line numbers refer to the repository's files.

- [The system](#the-system)
- [Plan](#plan)
- [The modules](#the-modules)
- [The runs](#the-runs)
- [Fairness](#fairness)
- [The proofs](#the-proofs)
- [Where the code and its documents differ](#where-the-code-and-its-documents-differ)
- [What is not modelled](#what-is-not-modelled)

## The system

One process, one goroutine of its own, no locks. What makes it hard is that it
acts on the world outside (live download queues, databases, libraries, a trash
directory) through a long chain of calls that may each fail or be cut off, on
information that may be an hour old, with state that survives in files between
runs, and possibly beside another process that does the same.

| Component | Source | State | Operations |
|---|---|---|---|
| Process and run lifecycle | `cmd/reconciler/main.go`, `Engine.Run` in `internal/reconcile/engine.go` | context, ticker, report | start, jitter, run, tick, shut down; visit instances, purge, commit, flush, persist, notify |
| Queue triage | `reconcileQueue`, `funnelQueue`, `runBatched` in `engine.go` | candidates, removal counter | fetch a queue, bump streaks, drop what the local model keeps, cap, ask, apply decisions |
| Grace store | `internal/reconcile/grace.go` | streaks loaded, streaks of this run, `queue-grace.json` | load, begin, seen, commit |
| Orphan triage | `reconcileFiles`, `walkOrphans`, `passesRails`, `funnelOrphans`, `runBatched` in `engine.go` | snapshot of the database, what was walked, counters for the caps | fetch, rescan, walk, filter by the rails, trash rule junk, ask, apply decisions |
| Tier-0 rules | `internal/reconcile/rules.go` | none | classify a path |
| Trash bin | `internal/trash` | the trash directory | move (rename, or copy and remove), purge |
| Claude client | `internal/claude` | none; message batches live at the API | ask once per chunk; or submit, poll, stream results; parse decisions |
| Local prefilter | `internal/local` | verdicts of one call | preload, classify in batches of 20 |
| Arr client | `internal/arr` | none | page through a queue, delete an item, tracked files, roots, rescan |
| Configuration | `internal/config` | settings | load, defaults, validate, allowlist, protected extensions |
| Notifier | `internal/notify` | none | post the summary |
| LLM observability | `internal/llmobs` | spans and evaluations of a run | start, finish, evaluate, flush |
| Deployment | `deploy`, `entrypoint.sh`, `Dockerfile` | none | |

How they interact: `main` calls `Engine.Run`; a run loads the grace store,
then for each instance in order triages the queue and reconciles the files,
then purges the trash, commits the streaks, flushes the trace, writes the
report and posts the summary. Both triages call `runBatched`, which asks the
Claude client and calls back into an `apply` closure for every decision that
comes back; the closure shares the counters of the caps across chunks, and the
rules of tier 0 go through the same closure. All calls but those on files
run under the run's context, which ends after 30 minutes or with a signal.

What makes each part correct, and hard to test:

- *Grace store*: a download is removable only after `grace_runs` consecutive
  sightings, across restarts, failed fetches and failed writes.
- *Queue triage*: caps hold over chunks, repeated decisions and records that
  share a download; dry runs act on nothing; nothing stuck is left behind.
- *Orphan triage*: whatever the models say, only files within the rails go,
  and none that the database references, though libraries and databases
  change between snapshot, walk, answer and move.
- *Trash bin*: no content is ever lost but by expiry: not by a failed copy, a
  crash, a name collision, or a second process.
- *Clients*: a queue that stands still is listed whole and once; each chunk gets
  its own answer or a recorded failure, whatever order results come in; nothing
  waits for ever.
- *Configuration and rails*: no spelling of a path passes the allowlist that does
  not lead there; what loads needs no further check.
- *Observability*: what the agent receives of a run is one tree, and evaluations
  do not come without their spans.
- *Lifecycle*: every run gets to its report and every signal ends the process.

The full list of hazards, each at its line, is in `PROJECT.json`.

## Plan

1. *Done.* The core: `QueueTriage` with the grace store, `OrphanTriage`,
   `TrashBin` with its abstract promise `Relocation`, `RunLifecycle`.
2. *Done.* The clients: `QueuePages`, `Prefilter` and `ModelCalls` with its abstract
   specification `Answers`, composed in `QueueVisit`; the database read series by
   series in `OrphanTriage`; `Trace`, composed with the process in `TracedRun`; the
   pure functions in `Rails`, `Settings` and `Texts`.
3. *Done.* Proofs about `QueueTriage`, `OrphanTriage`, `TrashBin` (movers between
   any devices included), `ModelCalls` and `TracedRun`; about `QueueVisit`, its
   pages, tier and requests included; about the pure functions, for arguments of
   any length; and bounds for the words of the documents that hold only with a
   condition. Every safety property that a passing run checks is a theorem.
4. Left: a trash inside a library root (`OrphanTriage` with paths that moves make).

## The modules

| Module | Models | Role |
|---|---|---|
| Batching | `runBatched`'s cuts (engine.go:411-442) | helper |
| QueueTriage | queue triage over several runs, grace.go | state machine |
| QueuePages | `Client.Queue` of the arr client | part of QueueVisit |
| Prefilter | `Classifier.Classify` | part of QueueVisit |
| ModelCalls | `Decide`, `DecideBatch` and their use in `runBatched` | part of QueueVisit |
| Answers | what the triages rely on of those calls | abstract specification |
| QueueVisit | one visit, call by call | composition |
| OrphanTriage | the file half of a run over several runs | state machine |
| TrashBin | internal/trash, call by call | state machine |
| Relocation | what the trash promises | abstract specification |
| RunLifecycle | `main` and `Engine.Run` | state machine |
| Trace | internal/llmobs and its use in the engine | part of TracedRun |
| TracedRun | process, run and trace | composition |
| Rails, Settings, Texts | pure functions of six files | operators |
| MC*, *.cfg | small instances | model checking |
| *Proofs | theorems about all of them, lemmas on `Batching` | proofs |

### Batching

How `runBatched` cuts a list to the cap and into chunks (engine.go:411-442). A
list is the set of its references, which are numbers in list order; `Nth` is the
member at a place of that order.

### QueueTriage (engine.go:186-291, 405-496, 701-735; grace.go)

Several runs of one process over the queues of several instances. `pc` is the
step a run is at; `store` is `queue-grace.json`, `counts` and `next` the two maps
of `graceStore`; `refIndex`, `left` and `removed` are the locals of
`reconcileQueue` and `runBatched`. One action per call: `StartRun` (load,
begin), `FetchQueue` (fetch, `isStuck`, `seen`), `Funnel` (local model, cap),
`SubmitBatch` and `ChunkAnswered` or their failures, `RemoveDone`,
`RemoveGone` (the 404), `RemoveReplyLost` and `RemoveDryRun` for a decision,
`EndOfAnswer`, `Commit`. Between any two steps a record may come, go or change
health (`QueueChanges`), the context may end, or the process be killed. The
model's decisions are arbitrary: any known record, any number of times. Each
run is dry or not, as `DryRuns` allows: the process may be restarted with
another configuration over the same streak file.

Two records with one `downloadId` share a key, and go together when one of them
is removed. Ghost variables remember what the properties speak of:
`consec` (observations in a row that found a key stuck), `sightings` (runs that
saw it since a committed run did not), `wavered` (keys that were not stuck at a
moment of this run), `shown`, `performed`, `runPerformed`.

Assumed: a fetch is one step (its pages are `QueuePages`); the queue is listed in
the order of record ids; instance names differ. Streaks saturate at
`StreakBound`, which loses nothing, as only `streak < GraceRuns` reads them and
`GraceRuns <= StreakBound`.

### QueueVisit: QueuePages, Prefilter, ModelCalls

One visit of a queue in the detail that `QueueTriage` leaves out, up to the
answers. `QueueVisit` extends the three, and its actions hand the result of one to
the next: `FindCandidates` gives the removable records of `all` to the local tier,
`AskModel` the escalated ones, cut to the cap and into `chunks`, to the model.
`Among` selects from a list in its order, and `Requests` is that cut of `Escalated`.

`QueuePages` (client.go:119-146, with `do`): `live` is the queue on the server, and
a page a range of positions in it, read while records arrive and leave.
`all` is what was collected; the fetch ends with the page that completes the total
it came with, or the first one without records. An empty body is such a page.

`Prefilter` (local.go:107-170, engine.go:701-735): the items go out in batches;
an answer labels any items, those of other batches too; a call or a parse that
fails leaves its batch unlabelled. Only `keep` is remembered, as junk and uncertain
both escalate.

`ModelCalls` (engine.go:445-496, client.go `Decide`, batch.go): without
`batch_mode` one call per chunk, each of which may fail; with it one batch that is
submitted, polled, streamed and dispatched. `limit` is what is left of
`batch_timeout` and of the run; the ticker's channel has a capacity of one, and a
select with both tick and context ready takes either. Results come in any order,
some errored or missing, and are filed by custom id. Time passes only while the
client waits, as a call is short beside the poll interval.

`Answers` is what both triages rely on: the chunks are resolved in order, each with
its own answer or none, and only a batch may fail as a whole, before any of its
answers is used. `ModelCalls` implements it under the mapping that takes
`batchMode` for `together` and the ended call for `over`. The theorems are about
`CallsSpec`, in which `Ask` comes with any number of chunks: every step of
`QueueVisit` is a step of it, or leaves `call_vars` unchanged.

### OrphanTriage (engine.go:405-496, 534-693, 744-833; rules.go; client.go:171-233)

The file half of a run, over several runs and instances. `snapshot` is the
tracked set, `orphans` the list that the walk appends to (a reference `o-i` is a
position in it), `refIndex`, `junk`, `left`, `count` and `bytes` the locals that
the closure shares. One action per step: `FetchTracked` for each series,
`FetchRoots`, `StatTracked`, the rescan (`RequestRescan`, in a dry run `SkipRescan`),
`WalkRoot` for each root, `Filter`, `TrashJunk` for each
rule-junk file, `RulesDone`, `SubmitBatch`, `ChunkAnswered`, `Decision`,
`EndOfAnswer`, and the failures. Files are written, age, vanish, get tracked and
forgotten between any two steps, the reads of two series included, and a rescan
makes the instance forget what it does not find. `FetchEmptyBody` is a fetch that
answers 2xx without a body, `RootsEmptyBody` the same for the root folders, and
`RescanFails` only leaves the instance uncorrected. Runs are dry or not, as in
`QueueTriage`.

`WalkRoot` walks one root at a moment, while the code's walk takes its time. That
loses nothing the properties speak of: they judge a file when it is taken, and
between the walk and the take anything may be written, vanish or be tracked. A file
that a slow walk would see and the model's does not is one that appeared meanwhile;
it is seen by a walk of a later moment.

A path is a number in walk order; the constants say under which roots it lies,
in which series the database lists it, whether it is allowed, protected, a sidecar
or a sample. A file has a size and an age on either side of `min_orphan_age`; a
rename or a hard link may put an old file in place. What the walk recorded of a
file ages with it. Moving a file is one step here and many in `TrashBin`; a move
that copied but could not remove is `TrashLeavesSource`.

### TrashBin and Relocation (internal/trash)

`TrashBin` has processes (`Movers`) that relocate files call by call: stat and
date, mkdir, probing for a unique path, rename; or, for a file on another device
than the bin, open the source, create exclusively, copy, sync and close, remove.
Each call may fail, a process may be killed between two, others write and recover
files, and `Purge` removes days that expired, file by file or several at a time, as
`RemoveAll` does and leaves off when it fails. The clock has `TicksPerDay` ticks a day and
never goes back. A slot of the bin holds a content, nothing, or the unfinished
copy of a mover.

`Relocation` is the promise: a content goes from the library to the trash, and
from there only by expiry or back by recovery; others may write and overwrite.
`TrashBin` implements it under the mapping `place`, which says of each content
that was written whether a library path, else a complete file of the bin, holds
it. An unfinished copy does not count, so every failure of a copy must leave the
source in place.

### RunLifecycle, Trace and TracedRun (main.go, engine.go:100-151, 837-853; notify.go:35-71; llmobs.go)

`RunLifecycle` is `main` as a state machine (start, jitter, select, exit) around
the steps of `Engine.Run`. A signal cancels the context of the process and of the
run; the deadline only the latter. `tick` is the ticker's channel of capacity one.
With both a tick and a cancelled context ready, `select` takes either.

`Trace` is the run's tree of spans. A span exists once it is opened and is in the
trace only once it is finished; `Dispatch` opens and finishes the llm span of a
chunk, `ModelDecides` and `RuleDecides` the task span of a decision with its two
evaluations, and `DecidesUnknown` a span that is never finished (engine.go:456).
`Flush` closes the root and posts spans, then evaluations; either post may fail,
or succeed with its reply lost.

`TracedRun` joins the two: a trace starts with the run, grows while instances are
visited, and is flushed under the run's context, which may have ended.

### Rails, Settings and Texts

Pure functions, as operators beside reference definitions. `Rails`: `Clean`, `Rel`
and the allowlist over paths as sequences of names, against `Place`, which walks the
path name by name; `IsProtectedExt`. `Settings`: `applyDefaults`, `validate`, `Load`.
`Texts`: `truncate` on bytes with rune boundaries, against the `Ends` of the runes;
`ageBucket`; `dedupe`; `parseDecisions` with `stripFences` and its trimming on
tokens. The loops of the code are recursive functions of the number of rounds, so
that proofs can reason about them. `MCFunctions` calls each on all small inputs.

## The runs

Nine runs pass, three show a disagreement with the documents. Each property of a
passing run has a mutant of the code's model, listed in `PROJECT.json`, that
breaks it under the run's own configuration.

| Run | Checks | What it shows |
|---|---|---|
| QueueFaults | TypeOK, EligibleBacked, DryRunInert, RunsEnd, StuckIsTriaged | all seven failures, live and dry, batch mode: grace never weakens to fewer sightings, dry runs are inert, runs end, stuck records come up again and again |
| QueueSteady | ConsecutiveStreak, RemovalCap, StreakKept | while runs fetch and commit: sightings are consecutive, streaks fall only with reason, caps hold over chunks |
| QueueVisit | TypeOK, SteadyComplete, StuckIsAnswered, AskedOnce, AnswersInOrder, ReadInTime, VisitEnds | one visit call by call: what is stuck gets its own chunk's answer or a recorded reason why not, none twice, and the visit ends |
| OrphanRails | TypeOK, SnapshotComplete, TakenWithinRails, TrackedSpared | call failures and concurrent changes: the snapshot is complete, what is taken was within the rails and not referenced throughout |
| OrphanCaps | DeleteCap, ByteCap, Inert, MissingCorrected, OrphanConsidered | caps with files listed twice, rules and model together; dry runs are inert; missing files are corrected, orphans come up again and again |
| BinRename | TypeOK, NeverUnlinked, NoClobber, PurgedOnTime, MovesEnd | rename on one device with writers, recoveries and expiry |
| BinCopy | NeverUnlinked, NoClobber | two processes copying into one bin, every call failing |
| Lifecycle | TracedTypeOK, TraceConnected, EvalsJoin, ShutsDown, RunIsReported, KeepsRunning | signals, deadlines, kills, failed saves, webhooks and agents |
| PureFunctions | RailsExact, LoadedUsable, TextsKept | each function against its reference on all small inputs |
| OrphanReferenced | ReferencedSpared | *violated*: two instances on one root |
| OrphanCapTwice | DeleteCapPerRun | *violated*: the caps are per instance |
| LifecycleDryRun | DryRunKeepsTrash | *violated*: a dry run purges |

Bounds, and why they are enough:

- Queues: `QueueFaults` has one download in each of two queues, `QueueSteady`
  three records over two queues, two of them one season pack; so that siblings,
  order of visits and a last instance all occur. `GraceRuns` 2 is the default, and
  the least at which runs must be consecutive. `BatchSize` 1 gives two chunks and
  more, 0 the single chunk. `PerformedBound` bounds only removals whose replies are
  lost; `StreakBound` see above.
- Visit: three records and pages of two, so that there is a full page, a last one
  that is not full, and records that move across the boundary; local batches of two
  likewise, chunks of two likewise. A poll interval of 2 with limits of 2 and 3 puts
  the limit on a poll and between two.
- Orphans: three paths over two roots, nested (each path listed twice) or one
  around the allowlist, in one series or two; sizes on both sides of the sample
  limit and of zero; caps that two files reach and three exceed. `MovesBound` bounds
  only what failed removals leave.
- Bin: two files of one name, so that they collide in the bin. `BinRename` has
  three days of two ticks with a TTL of one, so that a move in the middle of a
  day, a purge at the boundary and a purge after it occur, and as many numbers as
  two contents can need. `BinCopy` stands still at one instant, without a purge:
  its question is what two processes and failing calls do to one folder; it has
  one number more, for the unfinished copy that a kill leaves. In both, nobody
  need move anything any more, and the clock stops at `MaxNow`: the deadlock
  check is off.
- Lifecycle: two instances; `SpanBound` of four spans, the root, a chunk and two
  decisions, or two chunks and a decision. The process may exit, so deadlock is
  not checked; nor in `QueueVisit`, which ends, and `PureFunctions`, which makes one
  call.
- Functions: paths of up to four of the names `a`, `b`, `.`, `..` against roots of
  up to two; settings at -1, 0, 1; texts of up to four runes of one to four bytes;
  ages to past four weeks.

With `MaxCandidates` at 0, or not below the number of candidates, the liveness of
triage does not depend on the order of lists; below it the property fails, see
below.

## Fairness

`FairSpec` of the two triages assumes weak fairness of `Progress`, the run's own
next step: the process is scheduled, calls return or time out, an answer is a
finite list, and runs start again, as the timer or the ticker makes them. No
decision is assumed, nor that any call succeeds: `StuckIsTriaged`,
`OrphanConsidered` and `MissingCorrected` say "unless calls keep failing"
(`[]<><<Failure>>_vars`), the latter also "or runs keep being dry". A rescan that
an instance accepted is executed.
`QueueVisit` assumes weak fairness of `Visit`: calls return and, while the client
waits for its ticker, time passes. It does not assume that a batch ends, or
that the queue stands still.
`TrashBin`: a mover that has begun continues. `TracedSpec` has the fairness of
`RunLifecycle`: steps of the run and of `main` are taken, the ticker fires;
`ShutDown` has strong fairness, because Go's `select` picks uniformly among ready
cases and so does not pass over the cancelled context for ever.

## The proofs

Eight modules hold theorems, each proved for every value of the constants that the
named assumptions of its module admit: in essence that caps, limits and sizes are
natural numbers, those positive that `Load` never leaves at zero and the code relies
on (a negative setting loads, see `NumbersChecked` below, and is not covered), and
that the records of a visit and the files of a library are finitely many. The
theorems of `FunctionsProofs` without a box are about arguments of any
length, not only those that `MCFunctions` enumerates. `BatchingProofs` has only
lemmas, about lists and their order.

| Module | Theorem | States | Further assumption | Rests on |
|---|---|---|---|---|
| QueueTriageProofs | TypeCorrect | `[]TypeOK` | | |
| | GraceRespected | `[]EligibleBacked` | | BackedInv |
| | RemovalsCapped | `[]RemovalCap` | no reply is lost | CapInv |
| | GraceConsecutive | `[]ConsecutiveStreak` | no run is killed, no commit fails | ConsecutiveInv |
| | StreaksKept | `StreakKept` | no fetch or load fails, no deadline | KeptInv |
| | DryRunsInert | `[]DryRunInert` | | InertInv |
| | RunRemovalsCapped | `[]RunRemovalCap` | no reply is lost | RunCapInv |
| OrphanTriageProofs | TypeCorrect | `[]TypeOK` | | |
| | DeletesCapped | `[]DeleteCap` | | CountInv |
| | BytesCapped | `[]ByteCap` | no file is written | RecordedInv, BytesInv |
| | RailsHold | `TakenWithinRails` | | RecordedInv |
| | SnapshotsComplete | `[]SnapshotComplete` | no body is empty | SnapshotInv |
| | TrackedNotTaken | `TrackedSpared` | no body is empty | SnapshotInv |
| | DryRunsInert | `Inert` | | |
| | RunDeletesCapped | `[]RunDeleteCap` | | RunCountInv |
| | FreshNotTaken | `FreshSpared` | no file is written | RecordedInv, BytesInv |
| | ReferencedNotTaken | `ReferencedSpared` | one instance, no path becomes tracked, no body is empty | SnapshotInv |
| TrashBinProofs | TypeCorrect | `[]TypeOK` | | |
| | PurgeOnTime | `PurgedOnTime` | | DatedInv |
| | NothingClobbered | `NoClobber` | `Separated` | DstInv |
| | BinImplementsRelocation | `NeverUnlinked` | `Promised` | DstInv, LosslessInv |
| | SourceRemovedWithCopy | `RemovesWhatItCopied` | `Promised` | DstInv, LosslessInv |
| ModelCallsProofs | CallsImplementAnswers | `AnswersInOrder` | | OrderInv |
| | EndedIsRead | `ReadInTime` | | ClockInv |
| QueueVisitProofs | VisitTypeOK | `[]TypeOK` | | VisitInv |
| | SteadyQueueComplete | `[]SteadyComplete` | | VisitInv |
| | StuckAlwaysAnswered | `[]StuckIsAnswered` | | VisitInv |
| | NoneAskedTwice | `[]AskedOnce` | | VisitInv |
| | VisitAnswersInOrder | `AnswersInOrder` | | VisitInv |
| | VisitReadsInTime | `ReadInTime` | | VisitInv |
| TracedRunProofs | TypeCorrect | `[]TracedTypeOK` | | VisitInv |
| | TreeArrivesWhole | `[]TraceConnected` | | TreeInv, AgentInv |
| | EvaluationsJoin | `[]EvalsJoin` | | TreeInv, AgentInv |
| FunctionsProofs | AllowlistExact | `AllowlistExactFor` | the path is absolute | CleanIsPlace, UnderIsBelow |
| | ListedIsProtected | `ListedIsProtectedFor` | extensions of one part | |
| | RailsAlwaysExact | `[]RailsExact` | | the two above |
| | LoadSettles | `LoadedUsableFor` | | DefaultsSettle |
| | AlwaysLoadsUsable | `[]LoadedUsable` | | LoadSettles |
| | CutsFit | `TruncateFits` | | EndsAdd |
| | AgesAlwaysSettle | `AgesSettle` | | |
| | FirstsAreKept | `FirstOnly` | | FirstsStep |
| | FencesAlwaysTolerated | `FencesTolerated` | prose has no brackets and no fences | ArrayFound, WrappedFound |
| | TextsAlwaysKept | `[]TextsKept` | | the four above |

Where a further assumption is made the property fails without it, as the table of
the next section shows, with two exceptions: several copying movers are taken
without purges (`TTL = 0` in `Separated` and `ManyCopy`) and without others at the
files, which is more than is known to be needed; and relative paths are left out, as
the walk yields none from the absolute roots that an instance reports.

The arguments:

- *Queue.* Every streak, on disk, loaded or of this run, is at most the sightings
  since a committed run missed its key, whatever becomes of the run
  (`BackedInv`): a crash only falls back to an older and smaller count.
  `RemovalCap` needs `performed <= removed` (`CapInv`), which a lost reply breaks.
  `ConsecutiveStreak` needs the order of visits (`ConsecutiveInv`): for instances
  not fetched yet in this run the loaded streak is justified and the new one is
  zero; for the others the new one is. A crash or a failed write keeps an old file
  whose streaks later observations may have interrupted. The caps are per visit, so a
  run has as many as instances: `RunCapInv` adds them up, visit by visit, as
  `RunCountInv` does for files. `StreakKept` needs that every key fetched so far kept its
  streak or wavered (`KeptInv`).
- *Orphans.* The counters never lag behind what was moved, and a move raises them
  within the caps (`CountInv`, `BytesInv`); the byte counter charges the recorded
  size, hence `RecordedInv`: what was recorded of a file is true until it is
  rewritten. Every taken path passed the rails on that record. For the snapshot,
  what is referenced throughout has been read or its series is still to be read
  (`SnapshotInv`), and the walk lists nothing of the snapshot. That
  every entry of the walk is a path it found (lemma `EveryPlaceTaken` of
  `BatchingProofs`) follows from the rank in walk order being an injection of a
  finite set into as many places. `FreshNotTaken` and `ReferencedNotTaken` state how
  much of the documents' promise is left: what the rails judged is what is taken, and
  what is referenced is in the snapshot, as long as nobody writes or imports in between.
- *Bin.* What a slot holds was dated before the end of its day (`DatedInv`).
  A destination that was probed stays free until it is used, and a destination
  being copied is the mover's own (`DstInv`); the first holds for one mover, the
  second also for several that only copy and never purge: this is `Separated`. For
  the refinement, what a mover copies is still at its path, and before it removes
  that, the content is complete in the bin, or was recovered from there to another
  path (`LosslessInv`). This holds for three arrangements, together `Promised`: one
  process on one device, whatever others do to the files; one process between any
  mix of devices, while others write new files and recover old ones but overwrite
  none; and any number of processes that copy, with nobody else at the files and no
  purge. The second is the program's own use of the bin when libraries lie on other
  file systems; that overwriting breaks it is the hazard at trash.go:146. The
  refinement then goes by cases: the step of the mover that empties the last library
  path of a content is `Relocate`, the purge is `Expire`, and all others stutter or
  belong to others.
- *Calls.* The chunks dispatched are a prefix, and what is filed under an id is
  that id's answer (`OrderInv`). The client polls after each tick, so an ended
  batch that it still waits for ended after the last poll (`ClockInv`).
- *Visit.* Of the pages (`PagesInv`): as long as no record leaves the queue,
  positions only rise, so that what stayed all the time was listed or is still ahead;
  as long as none arrives, they only fall, so that nothing ahead was listed; with
  neither, what was listed is the queue's prefix. Each change breaks its own half,
  hence the two ghosts `shrunk` and `grown`. The tier's items are those
  removable among what was listed, and stay so (`TierInv`); the requests are made of
  what it lets through when it is done, and neither changes afterwards (`VisitInv`).
  That each escalated record has one place in one request is the arithmetic of
  quotient and remainder (`ChunksProperties`). A step of the visit is a step of one
  of its parts and leaves the others alone (`VisitSteps`), which carries the theorems
  on the calls over.
- *Functions.* A recursive function is what its definition says only if such a
  function exists. The library's theorems for that take an operator, so it is proved
  here for folds of any step (`FoldExists`, `FoldUnique`): the least number of
  rounds for which none existed would have a predecessor that does. The same
  argument, least counterexample on the naturals, stands for induction: cleaning and
  walking an absolute path agree after every name (`CleanIsPlace`), `dedupe` has
  after `n` texts the firsts among them (`FirstsStep`), and the ends of runes grow
  (`EndsAdd`). Two cleaned paths relate just when one leads below the other
  (`UnderIsBelow`). `Load` settles because no default that `applyDefaults` sets is
  unset or zero, the order of its assignments included. For parsing, where the first
  and last bracket stand is followed through every wrapping.
- *Trace.* Until it is flushed a trace is a tree but for its root, and unknown to
  the agent (`TreeInv`, `AgentInv`); the flush adds the root and posts it whole.

Only model-checked: all liveness (RunsEnd, StuckIsTriaged, MissingCorrected,
OrphanConsidered, MovesEnd, VisitEnds, ShutsDown, RunIsReported, KeepsRunning), which
is out of the prover's reach. That the properties of the three runs with a
counterexample, and of the table below, are violated is shown by TLC and by nothing
else.

## Where the code and its documents differ

Three disagreements are runs (see `findings` in `PROJECT.json`). The model has
more: properties the modules define that are violated with the constants of a
passing run changed as said ("as in" names the run when it is not obvious). Not all
are mistakes of the code; each is something a reader of its documents may not expect.

| Property | Module | With | What happens |
|---|---|---|---|
| RemovalCapPerRun | QueueTriage | as in QueueSteady, Records {1, 2}, EachInstances, PairDownloads, GraceRuns 1 | `removed` is per instance (engine.go:241), config.go:65 says "in a single run"; `RunRemovalsCapped` proves what holds of a run |
| RemovalCap | QueueTriage | as in QueueSteady, Faults {"lostReply"} | a removal whose reply is lost is not counted (engine.go:265) |
| ConsecutiveStreak | QueueTriage | as in QueueSteady, Faults {"crash"} or {"commit"} | the next run builds on an older file (grace.go:43); grace.go:22 says "CONSECUTIVE runs" |
| StreakKept | QueueTriage | as in QueueSteady, Faults {"fetch"} | a failed fetch resets streaks (engine.go:119); README.md:167 says "when an item recovers or disappears" |
| RecoveredSpared | QueueTriage | as in QueueSteady | a download that recovers while the model answers is removed (engine.go:265); README.md:167 says it "is never touched" |
| RemovedWasShown | QueueTriage | as in QueueSteady, GraceRuns 1 | a decision may name what the local model kept (engine.go:243); engine.go:698 says "it is dropped" |
| StuckIsTriaged | QueueTriage | as in QueueFaults, NumInstances 1, PairInstances, MaxCandidates 1, Faults {}, BatchMode FALSE | the head of the queue starves the rest (engine.go:417); config.go:72 says "overflow defers to the next run" |
| StayedListed | QueuePages | as in QueueVisit | a record that leaves between two pages shifts the rest, and one that stayed is missed (client.go:122) |
| FailedEscalate | Prefilter | as in QueueVisit | a batch that failed may have items kept by the answer to another (local.go:159); local.go:104 says "a batch that errors leaves its items Uncertain" |
| OrphanConsidered | OrphanTriage | as in OrphanCaps, Files {1, 2}, OneRoot, AllUnderOne, MaxCandidates 1, no faults | the same starvation for orphans (engine.go:770, config.go:45) |
| SnapshotComplete, TrackedSpared | OrphanTriage | as in OrphanRails, Faults {"emptyBody"} | a 2xx without a body counts as an empty database, and its files as orphans (client.go:80) |
| ReferencedSpared | OrphanTriage | as in OrphanRails, Changes {"write", "track"} | a file imported with an old mtime after the snapshot is taken (engine.go:535); config.go:41 says "avoiding races with in-flight imports"; `ReferencedNotTaken` proves it without |
| FreshSpared | OrphanTriage | as in OrphanRails, Changes {"write"} | the recheck judges the recorded mtime (engine.go:634); `FreshNotTaken` proves it without writes |
| ByteCap | OrphanTriage | as in OrphanRails, Changes {"write"}, Sizes {1, 2} | a file that grew is charged its old size (engine.go:650) |
| CopiesCapped | OrphanTriage | as in OrphanRails, Faults {"stuckSource"}, MovesBound 3 | copies whose source stays are charged to no cap (engine.go:669), which is what the shipped unit's read-only media lead to |
| EmptySidecarsTrashed | OrphanTriage | as in OrphanCaps, Sizes {0, 1}, Faults {}, DryRuns {FALSE} | the rails drop empty files (engine.go:796), so the zero-byte rule (rules.go:42) is dead |
| NoClobber | TrashBin | as in BinCopy, CrossDevice {} | rename replaces what another process put there after the probe (trash.go:56-58) |
| RemovesWhatItCopied, NeverUnlinked | TrashBin | as in BinCopy, Changes {"overwrite"}, three contents | what is written during the copy is removed with the source (trash.go:146); `SourceRemovedWithCopy` proves it without |
| MovesEnd | TrashBin | as in BinRename, LongNames {name} | probing never ends when numbered names are too long (trash.go:115) |
| SummarySent | RunLifecycle | as in Lifecycle, Daemon FALSE, Faults {"deadline"} | a run whose context ended posts no summary (engine.go:147); README.md:98 says each run does |
| ListedIsProtectedFor | Rails | extensions of two parts | `filepath.Ext` is the last part only, so a listed ".en.srt" protects nothing (config.go:344); config.go:37 says "never relocated" |
| NumbersChecked | Settings | as in PureFunctions | negative caps, counts and intervals load (config.go:218) |
| NamesDistinct | Settings | as in PureFunctions | two instances of one name load, and share their streaks (grace.go:15) |
| ModelIsFallback | Settings | as in PureFunctions | an unset queue_model is the Haiku default even if model is set (config.go:229); config.go:87 says model is "used when a per-task model is unset", though config.go:91 gives this default |

## What is not modelled

- What makes a record look stuck (`isStuck`), prompts, payloads and wording: the
  models' decisions are arbitrary anyway. `StuckIn` takes the outcome of `isStuck`
  as a health of the record that others change. The buckets of ages are (`Texts`); what
  they are for, prompts that stay the same between runs, is not.
- A trash directory inside an allowed library root (engine.go:803), whose files are
  walked and trashed again under a new date. The paths of `OrphanTriage` are fixed,
  while those of a bin are made by moves; putting both into one state space takes a
  path type that grows, beyond what TLC covers at a size where anything happens.
- HTTP: headers, timeouts of single calls, retries within the Claude SDK, how
  errors are worded. A call succeeds, fails, answers without a body, or loses its
  reply. Radarr's one-request database is the case of a single series.
- Durations and JSON of the configuration, lower-casing and trimming of lists;
  `sanitizeLabel` and the contents of spans.
- A chunk that cannot be marshalled (engine.go:437), which plain strings and numbers
  never are: its records would fare as those of a chunk whose call failed.
- The report's contents and logging; that reports are written whole.
- Directories in the bin and its permissions.
- The deployment files, which keep no state. Their read-only media mounts are the
  fault "stuckSource" of `OrphanTriage`.
