---------------------------- MODULE OrphanTriage ----------------------------
(***************************************************************************)
(* Reconciliation of the instances' databases with the files on disk, over *)
(* a sequence of runs: Engine.reconcileFiles, funnelOrphans, passesRails,  *)
(* walkOrphans and runBatched (internal/reconcile/engine.go), and the rules*)
(* of internal/reconcile/rules.go.                                         *)
(*                                                                         *)
(* The visit of an instance takes a snapshot of its database, asks for a   *)
(* rescan when a tracked file is missing, walks the library roots for files*)
(* outside the snapshot, keeps those that pass the safety rails, trashes   *)
(* what a rule calls junk and asks the model about the rest.  Libraries and*)
(* databases change between any two of these steps.                        *)
(*                                                                         *)
(* Abstracted: a path is a number in walk order, with what its name decides*)
(* (its roots, extension class and rule) given by constants.  The age of a *)
(* file is whether min_orphan_age has passed since its mtime, which a      *)
(* rename or a hard link carries along.  Trash.Move is one step here; its  *)
(* own steps are module TrashBin.                                          *)
(***************************************************************************)
EXTENDS Batching, Sequences

CONSTANTS
    NumInstances,   \* configured instances, visited as 1..NumInstances
    Files,          \* paths, numbered in walk order
    Roots,          \* library roots, numbered in the order they are listed
    RootsOf,        \* the roots of each instance
    FilesUnder,     \* the paths under each root
    SeriesOf,       \* the series a database lists a path under (Radarr: just one)
    AllowedRoots,   \* roots within safety.allowed_roots
    AllowedFiles,   \* paths within safety.allowed_roots
    Protected,      \* paths with a protected extension
    Sidecars,       \* paths with one of the junk extensions
    Samples,        \* paths of videos named as samples
    SampleLimit,    \* size from which a sample is no obvious junk (300 MB)
    Sizes,          \* sizes a file may have
    MaxDeletes,     \* safety.max_deletes_per_run
    MaxBytes,       \* safety.max_bytes_per_run
    MaxCandidates,  \* safety.max_candidates_per_run, 0 for no cap
    BatchSize,      \* safety.batch_size, 0 for one single chunk
    BatchMode,      \* claude.batch_mode
    RulesDisabled,
    DeleteEnabled,
    DryRuns,        \* settings of dry_run that processes are started with
    Faults,         \* the failures that may happen, of AllFaults
    Changes,        \* how files and databases may change, of AllChanges
    MovesBound      \* bound on what a run leaves behind by failed removals

AllFaults == {"deadline", "tracked", "roots", "rescan", "model", "move", "stuckSource",
              "unreadable", "emptyBody"}
AllChanges == {"write", "age", "vanish", "track", "untrack"}

ASSUME LayoutAssumption ==
    /\ NumInstances \in Nat \ {0}
    /\ Files \subseteq Nat /\ IsFiniteSet(Files) /\ Roots \subseteq Nat
    /\ RootsOf \in [1..NumInstances -> SUBSET Roots]
    /\ FilesUnder \in [Roots -> SUBSET Files]
    /\ DOMAIN SeriesOf = Files
    /\ AllowedRoots \subseteq Roots
    /\ \A root \in AllowedRoots : FilesUnder[root] \subseteq AllowedFiles
ASSUME OrphanConfigAssumption ==
    /\ Sizes \subseteq Nat /\ SampleLimit \in Nat
    /\ MaxDeletes \in Nat /\ MaxBytes \in Nat
    /\ MaxCandidates \in Nat /\ BatchSize \in Nat /\ MovesBound \in Nat
    /\ BatchMode \in BOOLEAN /\ RulesDisabled \in BOOLEAN
    /\ DeleteEnabled \in BOOLEAN /\ DryRuns \subseteq BOOLEAN
    /\ Faults \subseteq AllFaults /\ Changes \subseteq AllChanges

VARIABLES
    disk,           \* each path: NoFile, or its file's size and age
    tracked,        \* the paths each instance's database references
    rescans,        \* instances with a rescan command under way
    pc, inst,       \* the step the run is at, and the instance it visits
    ctxDone,        \* the run's context is cancelled or past its deadline
    dryRun,         \* the run's process is in a dry run
    seriesLeft,     \* series whose files are still to be fetched
    snapshot,       \* trackedSet: the database as it was fetched
    rootsLeft,      \* library roots still to be walked
    orphans,        \* what the walk found; a reference is a position in it
    refIndex,       \* references that passed the rails
    junk,           \* references a rule calls junk, not trashed yet
    left,           \* references not yet sent to the model
    count, bytes,   \* the visit's counters for the two caps
    asked,          \* ghost: paths a rule or the model was consulted about
    rewritten,      \* ghost: paths written since the visit found them
    untracked,      \* ghost: paths each database missed at a time of the visit
    moved,          \* ghost: files this visit took from the library
    movedBytes,     \* ghost: and their real size
    runMoved,       \* ghost: files this run took from the libraries
    copies          \* ghost: trash copies of files that stayed in place

world_vars == <<disk, tracked, rescans>>
run_vars == <<inst, ctxDone, dryRun>>
walk_vars == <<seriesLeft, snapshot, rootsLeft, orphans>>
triage_vars == <<refIndex, junk, left, count, bytes>>
ghost_vars == <<asked, rewritten, untracked, moved, movedBytes, runMoved, copies>>
vars == <<world_vars, pc, run_vars, walk_vars, triage_vars, ghost_vars>>

NoFile == [size |-> 0, old |-> FALSE, present |-> FALSE]
File(size, old) == [size |-> size, old |-> old, present |-> TRUE]
FilesOnDisk == {NoFile} \cup {File(size, old) : size \in Sizes, old \in BOOLEAN}
Series == {SeriesOf[f] : f \in Files}
Found == [path : Files, size : Sizes, old : BOOLEAN]

Steps == {"idle", "tracked", "roots", "stat", "rescan", "walk", "rules", "submit",
          "ask", "apply"}

TypeOK ==
    /\ disk \in [Files -> FilesOnDisk]
    /\ tracked \in [1..NumInstances -> SUBSET Files]
    /\ rescans \subseteq 1..NumInstances
    /\ pc \in Steps /\ inst \in 1..NumInstances
    /\ ctxDone \in BOOLEAN /\ dryRun \in BOOLEAN /\ seriesLeft \subseteq Series
    /\ snapshot \subseteq Files /\ rootsLeft \subseteq Roots
    /\ orphans \in Seq(Found)
    /\ refIndex \subseteq 1..Len(orphans)
    /\ junk \subseteq refIndex /\ left \subseteq refIndex
    /\ count \in Nat /\ bytes \in Nat
    /\ asked \subseteq Files /\ rewritten \subseteq Files
    /\ untracked \subseteq Files
    /\ moved \in Nat /\ movedBytes \in Nat /\ runMoved \in Nat /\ copies \in Nat

(* Before the first run any library may be out of step with its database.  *)
Init ==
    /\ disk \in [Files -> FilesOnDisk]
    /\ tracked \in [1..NumInstances -> SUBSET Files]
    /\ rescans = {}
    /\ pc = "idle" /\ inst = 1 /\ ctxDone = FALSE /\ dryRun = FALSE
    /\ seriesLeft = {} /\ snapshot = {} /\ rootsLeft = {} /\ orphans = <<>>
    /\ refIndex = {} /\ junk = {} /\ left = {} /\ count = 0 /\ bytes = 0
    /\ asked = {} /\ rewritten = {} /\ untracked = {}
    /\ moved = 0 /\ movedBytes = 0 /\ runMoved = 0 /\ copies = 0

-----------------------------------------------------------------------------
(* A run visits the instances in order.                                    *)

VisitStarts(i) ==
    /\ pc' = "tracked"
    /\ seriesLeft' = Series
    /\ untracked' = Files \ tracked[i]

StartRun ==
    /\ pc = "idle"
    /\ dryRun' \in DryRuns
    /\ VisitStarts(1)
    /\ UNCHANGED <<world_vars, inst, ctxDone, snapshot, rootsLeft, orphans, triage_vars,
                   asked, rewritten, moved, movedBytes, runMoved, copies>>

LeaveReferences ==    \* mutant: the references outlive the list they refer to
    /\ IF inst < NumInstances
       THEN /\ inst' = inst + 1
            /\ VisitStarts(inst + 1)
            /\ UNCHANGED <<ctxDone, dryRun, asked, runMoved, copies>>
       ELSE /\ pc' = "idle" /\ inst' = 1 /\ ctxDone' = FALSE /\ dryRun' = FALSE
            /\ seriesLeft' = {}
            /\ untracked' = {} /\ asked' = {} /\ runMoved' = 0 /\ copies' = 0
    /\ snapshot' = {} /\ rootsLeft' = {} /\ orphans' = <<>>
    /\ UNCHANGED refIndex /\ junk' = {} /\ left' = {} /\ count' = 0 /\ bytes' = 0
    /\ rewritten' = {} /\ moved' = 0 /\ movedBytes' = 0

Leave ==
    /\ IF inst < NumInstances
       THEN /\ inst' = inst + 1
            /\ VisitStarts(inst + 1)
            /\ UNCHANGED <<ctxDone, dryRun, asked, runMoved, copies>>
       ELSE /\ pc' = "idle" /\ inst' = 1 /\ ctxDone' = FALSE /\ dryRun' = FALSE
            /\ seriesLeft' = {}
            /\ untracked' = {} /\ asked' = {} /\ runMoved' = 0 /\ copies' = 0
    /\ snapshot' = {} /\ rootsLeft' = {} /\ orphans' = <<>>
    /\ refIndex' = {} /\ junk' = {} /\ left' = {} /\ count' = 0 /\ bytes' = 0
    /\ rewritten' = {} /\ moved' = 0 /\ movedBytes' = 0

-----------------------------------------------------------------------------
(* Missing files: database against disk.                                   *)

(* The instance lists its series, then the files of each one.  A body that *)
(* is empty is no error: that answer then has no series, or no files.      *)
Read(series, files) ==
    /\ pc = "tracked"
    /\ ~ctxDone
    /\ seriesLeft' = series
    /\ snapshot' = files
    /\ pc' = IF series = {} THEN "roots" ELSE pc
    /\ UNCHANGED <<world_vars, run_vars, rootsLeft, orphans, triage_vars, ghost_vars>>

FilesOfSeries(n) == {f \in tracked[inst] : SeriesOf[f] = n}

FetchSeriesLast ==    \* mutant: the files of a series replace those before
    \E n \in seriesLeft : Read(seriesLeft \ {n}, FilesOfSeries(n))

FetchSeries ==
    \E n \in seriesLeft : Read(seriesLeft \ {n}, snapshot \cup FilesOfSeries(n))

FetchEmptyBody ==
    /\ "emptyBody" \in Faults
    /\ \/ seriesLeft = Series /\ Read({}, snapshot)
       \/ \E n \in seriesLeft : Read(seriesLeft \ {n}, snapshot)

FetchTracked == FetchSeries \/ FetchEmptyBody

FetchFailsEmpty ==    \* mutant: after a failed fetch the visit goes on
    /\ pc = "tracked" /\ ("tracked" \in Faults \/ ctxDone)
    /\ seriesLeft' = {}
    /\ pc' = "roots"
    /\ UNCHANGED <<world_vars, run_vars, snapshot, rootsLeft, orphans, triage_vars, ghost_vars>>

FetchFails ==
    /\ \/ pc = "tracked" /\ ("tracked" \in Faults \/ ctxDone)
       \/ pc = "roots" /\ ("roots" \in Faults \/ ctxDone)
    /\ Leave
    /\ UNCHANGED world_vars

MissingSecond ==      \* mutant: one missing file is not enough
    IF Cardinality({f \in snapshot : ~disk[f].present}) > 1
    THEN {f \in snapshot : ~disk[f].present} ELSE {}
Missing == {f \in snapshot : ~disk[f].present}

ListsRoots(found) ==
    /\ pc = "roots"
    /\ ~ctxDone
    /\ rootsLeft' = found
    /\ pc' = "stat"
    /\ UNCHANGED <<world_vars, run_vars, seriesLeft, snapshot, orphans, triage_vars, ghost_vars>>

FetchRoots == ListsRoots(RootsOf[inst])

RootsEmptyBody ==
    /\ "emptyBody" \in Faults
    /\ ListsRoots({})

(* The visit goes on to the orphans, or ends when they are not handled.    *)
GoOn ==
    IF DeleteEnabled
    THEN /\ pc' = "walk"
         /\ UNCHANGED <<run_vars, walk_vars, triage_vars, ghost_vars>>
    ELSE Leave

StatTracked ==
    /\ pc = "stat"
    /\ IF Missing # {}
       THEN /\ pc' = "rescan"
            /\ UNCHANGED <<run_vars, walk_vars, triage_vars, ghost_vars>>
       ELSE GoOn
    /\ UNCHANGED world_vars

SkipRescan ==
    /\ pc = "rescan" /\ dryRun
    /\ GoOn
    /\ UNCHANGED world_vars

RequestRescan ==
    /\ pc = "rescan" /\ ~dryRun
    /\ ~ctxDone
    /\ rescans' = rescans \cup {inst}
    /\ GoOn
    /\ UNCHANGED <<disk, tracked>>

(* A rescan that could not be requested is reported, and the visit goes on.*)
RescanFails ==
    /\ pc = "rescan" /\ ~dryRun
    /\ "rescan" \in Faults \/ ctxDone
    /\ GoOn
    /\ UNCHANGED world_vars

-----------------------------------------------------------------------------
(* Orphans: disk against database.                                         *)

InWalkOrder(S) ==
    [n \in 1..Cardinality(S) |->
        LET f == Nth(S, n) IN [path |-> f, size |-> disk[f].size, old |-> disk[f].old]]

OrphansUnder(root) == {f \in FilesUnder[root] : disk[f].present /\ f \notin snapshot}

(* Entries that cannot be read are skipped without an error.  A root is one*)
(* step: the code reads its entries one by one while others change files,  *)
(* and finds what this step finds in a library where the changes that each *)
(* path's reading saw had come before the walk, and the rest after it.     *)
WalkRoot ==
    /\ pc = "walk"
    /\ \E root \in FirstOf(rootsLeft, 1), skipped \in SUBSET Files :
        /\ skipped # {} => "unreadable" \in Faults
        /\ rootsLeft' = rootsLeft \ {root}
        /\ orphans' = IF root \in AllowedRoots
                      THEN orphans \o InWalkOrder(OrphansUnder(root) \ skipped)
                      ELSE orphans
    /\ UNCHANGED <<world_vars, pc, run_vars, seriesLeft, snapshot, triage_vars, ghost_vars>>

PassesRailsYoung(o) ==    \* mutant: without the minimum age
    /\ o.path \in AllowedFiles
    /\ o.path \notin Protected
    /\ o.size > 0

PassesRails(o) ==
    /\ o.path \in AllowedFiles
    /\ o.path \notin Protected
    /\ o.old
    /\ o.size > 0

IsJunk(o) ==
    \/ o.path \in Sidecars
    \/ o.path \in Samples /\ o.size < SampleLimit

Filter ==
    /\ pc = "walk"
    /\ rootsLeft = {}
    /\ LET passing == {n \in 1..Len(orphans) : PassesRails(orphans[n])}
           obvious == {n \in passing : ~RulesDisabled /\ IsJunk(orphans[n])}
       IN IF passing = {}
          THEN Leave
          ELSE /\ refIndex' = passing
               /\ junk' = obvious
               /\ left' = Cut(passing \ obvious, MaxCandidates)
               /\ pc' = "rules"
               /\ asked' = asked \cup {orphans[n].path : n \in obvious}
               /\ UNCHANGED <<run_vars, walk_vars, count, bytes, rewritten,
                              untracked, moved, movedBytes, runMoved, copies>>
    /\ UNCHANGED world_vars

-----------------------------------------------------------------------------
TrashBeyond(n) ==     \* mutant: the byte cap is tested before adding the file
    /\ n \in refIndex
    /\ PassesRails(orphans[n])
    /\ count < MaxDeletes
    /\ bytes <= MaxBytes

(* Trashing the file of a reference, when the rails and caps allow it.  The*)
(* recheck of the rails judges what the walk recorded, not the file.       *)
Trash(n) ==
    /\ n \in refIndex
    /\ PassesRails(orphans[n])
    /\ count < MaxDeletes
    /\ bytes + orphans[n].size <= MaxBytes

CountedBytes(n) == count' = count /\ bytes' = bytes + orphans[n].size  \* mutant
Counted(n) == count' = count + 1 /\ bytes' = bytes + orphans[n].size

TrashDryRun(n) ==
    /\ Trash(n) /\ dryRun
    /\ Counted(n)
    /\ UNCHANGED <<world_vars, ghost_vars>>

TrashDoneAnyway(n) ==     \* mutant: trashes in a dry run
    /\ Trash(n)
    /\ LET f == orphans[n].path IN
        /\ disk[f].present
        /\ disk' = [disk EXCEPT ![f] = NoFile]
        /\ movedBytes' = movedBytes + disk[f].size
    /\ moved' = moved + 1 /\ runMoved' = runMoved + 1
    /\ Counted(n)
    /\ UNCHANGED <<tracked, rescans, asked, rewritten, untracked, copies>>

TrashDone(n) ==
    /\ Trash(n) /\ ~dryRun
    /\ LET f == orphans[n].path IN
        /\ disk[f].present
        /\ disk' = [disk EXCEPT ![f] = NoFile]
        /\ movedBytes' = movedBytes + disk[f].size
    /\ moved' = moved + 1 /\ runMoved' = runMoved + 1
    /\ Counted(n)
    /\ UNCHANGED <<tracked, rescans, asked, rewritten, untracked, copies>>

(* The bin copied the file and could not remove the source: an error, which*)
(* the counters do not see.                                                *)
TrashLeavesSource(n) ==
    /\ "stuckSource" \in Faults
    /\ Trash(n) /\ ~dryRun
    /\ disk[orphans[n].path].present
    /\ copies < MovesBound
    /\ copies' = copies + 1
    /\ UNCHANGED <<world_vars, count, bytes, asked, rewritten, untracked, moved,
                   movedBytes, runMoved>>

(* Blocked by the rails or a cap, or failed: only reported.                *)
TrashRefused(n) ==
    /\ \/ ~Trash(n)
       \/ ~dryRun /\ ("move" \in Faults \/ ~disk[orphans[n].path].present)
    /\ UNCHANGED <<world_vars, count, bytes, ghost_vars>>

TrashOne(n) ==
    TrashDryRun(n) \/ TrashDone(n) \/ TrashLeavesSource(n) \/ TrashRefused(n)

(* Tier 0: the rules' junk, in order, then on to the model with the rest.  *)
TrashJunk ==
    /\ pc = "rules"
    /\ \E n \in FirstOf(junk, 1) : TrashOne(n) /\ junk' = junk \ {n}
    /\ UNCHANGED <<pc, run_vars, walk_vars, refIndex, left>>

NextChunk(rest, step) ==
    IF rest # {}
    THEN /\ left' = rest /\ pc' = step
         /\ UNCHANGED <<run_vars, walk_vars, refIndex, junk, count, bytes, ghost_vars>>
    ELSE Leave

RulesDone ==
    /\ pc = "rules" /\ junk = {}
    /\ NextChunk(left, IF BatchMode THEN "submit" ELSE "ask")
    /\ UNCHANGED world_vars

(* In batch mode all chunks are one call, whose results come together.     *)
SubmitBatch ==
    /\ pc = "submit"
    /\ ~ctxDone
    /\ asked' = asked \cup {orphans[n].path : n \in left}
    /\ pc' = "ask"
    /\ UNCHANGED <<world_vars, run_vars, walk_vars, triage_vars, rewritten,
                   untracked, moved, movedBytes, runMoved, copies>>

SubmitFails ==
    /\ pc = "submit"
    /\ "model" \in Faults \/ ctxDone
    /\ Leave
    /\ UNCHANGED world_vars

Chunk == Cut(left, BatchSize)

ChunkAnsweredLast ==      \* mutant: only the first chunk is sent
    /\ pc = "ask"
    /\ BatchMode \/ ~ctxDone
    /\ asked' = asked \cup {orphans[n].path : n \in Chunk}
    /\ left' = {}
    /\ pc' = "apply"
    /\ UNCHANGED <<world_vars, run_vars, walk_vars, refIndex, junk, count, bytes,
                   rewritten, untracked, moved, movedBytes, runMoved, copies>>

ChunkAnswered ==
    /\ pc = "ask"
    /\ BatchMode \/ ~ctxDone
    /\ asked' = asked \cup {orphans[n].path : n \in Chunk}
    /\ left' = left \ Chunk
    /\ pc' = "apply"
    /\ UNCHANGED <<world_vars, run_vars, walk_vars, refIndex, junk, count, bytes,
                   rewritten, untracked, moved, movedBytes, runMoved, copies>>

ChunkFails ==
    /\ pc = "ask"
    /\ "model" \in Faults \/ (ctxDone /\ ~BatchMode)
    /\ NextChunk(left \ Chunk, "ask")
    /\ UNCHANGED world_vars

(* A decision to trash may name any known reference, any number of times.  *)
(* One that is refused, that keeps, or that names no known reference is    *)
(* reported and changes nothing here.                                      *)
Decision ==
    /\ pc = "apply"
    /\ \E n \in refIndex : TrashDryRun(n) \/ TrashDone(n) \/ TrashLeavesSource(n)
    /\ UNCHANGED <<pc, run_vars, walk_vars, refIndex, junk, left>>

EndOfAnswer ==
    /\ pc = "apply"
    /\ NextChunk(left, "ask")
    /\ UNCHANGED world_vars

ContextEnds ==
    /\ "deadline" \in Faults
    /\ pc # "idle" /\ ~ctxDone
    /\ ctxDone' = TRUE
    /\ UNCHANGED <<world_vars, pc, inst, dryRun, walk_vars, triage_vars, ghost_vars>>

-----------------------------------------------------------------------------
(* External: imports, upgrades, users and the instances themselves.        *)

LeaveStepAlone ==
    UNCHANGED <<pc, run_vars, seriesLeft, snapshot, rootsLeft, triage_vars, asked, moved,
                movedBytes, runMoved, copies>>
LeaveRunAlone == LeaveStepAlone /\ UNCHANGED orphans

SeenByVisit == {orphans[n].path : n \in 1..Len(orphans)}

(* A file is written, or linked or renamed into place with its old mtime.  *)
FileWritten(f) ==
    /\ "write" \in Changes
    /\ \E size \in Sizes, old \in BOOLEAN : disk' = [disk EXCEPT ![f] = File(size, old)]
    /\ rewritten' = rewritten \cup ({f} \cap SeenByVisit)
    /\ UNCHANGED <<tracked, rescans, untracked>>
    /\ LeaveRunAlone

(* The minimum age passes, for the file and what the walk recorded of it   *)
(* alike, or for one of them if the file was rewritten since.              *)
Aged(f) == [n \in 1..Len(orphans) |->
    IF orphans[n].path = f THEN [orphans[n] EXCEPT !.old = TRUE] ELSE orphans[n]]

FileAges(f) ==
    /\ "age" \in Changes
    /\ \/ /\ disk[f].present /\ ~disk[f].old
          /\ disk' = [disk EXCEPT ![f].old = TRUE]
          /\ orphans' = Aged(f) \/ (f \in rewritten /\ orphans' = orphans)
       \/ /\ f \in rewritten
          /\ orphans' = Aged(f) /\ orphans' # orphans
          /\ disk' = disk
    /\ UNCHANGED <<tracked, rescans, rewritten, untracked>>
    /\ LeaveStepAlone

FileVanishes(f) ==
    /\ "vanish" \in Changes
    /\ disk[f].present
    /\ disk' = [disk EXCEPT ![f] = NoFile]
    /\ UNCHANGED <<tracked, rescans, rewritten, untracked>>
    /\ LeaveRunAlone

FileTracked(i, f) ==
    /\ "track" \in Changes
    /\ disk[f].present /\ f \notin tracked[i]
    /\ tracked' = [tracked EXCEPT ![i] = @ \cup {f}]
    /\ UNCHANGED <<disk, rescans, rewritten, untracked>>
    /\ LeaveRunAlone

Forget(i, F) ==
    /\ tracked' = [tracked EXCEPT ![i] = @ \ F]
    /\ untracked' = IF i = inst /\ pc # "idle" THEN untracked \cup F ELSE untracked

FileUntracked(i, f) ==
    /\ "untrack" \in Changes
    /\ f \in tracked[i]
    /\ Forget(i, {f})
    /\ UNCHANGED <<disk, rescans, rewritten>>
    /\ LeaveRunAlone

(* The rescan makes the instance forget what it does not find on disk.     *)
RescanRuns(i) ==
    /\ i \in rescans
    /\ rescans' = rescans \ {i}
    /\ Forget(i, {f \in Files : ~disk[f].present})
    /\ UNCHANGED <<disk, rewritten>>
    /\ LeaveRunAlone

Progress == StartRun \/ FetchTracked \/ FetchFails \/ FetchRoots \/ RootsEmptyBody
            \/ StatTracked \/ SkipRescan \/ RequestRescan \/ RescanFails
            \/ WalkRoot \/ Filter \/ TrashJunk \/ RulesDone \/ SubmitBatch \/ SubmitFails
            \/ ChunkAnswered \/ ChunkFails
            \/ EndOfAnswer

Rescanned == \E i \in 1..NumInstances : RescanRuns(i)

World ==
    \E f \in Files :
        \/ FileWritten(f) \/ FileAges(f) \/ FileVanishes(f)
        \/ \E i \in 1..NumInstances : FileTracked(i, f) \/ FileUntracked(i, f)

Next == Progress \/ Decision \/ ContextEnds \/ Rescanned \/ World

Spec == Init /\ [][Next]_vars

(* The process is scheduled and its calls return or time out; an instance  *)
(* that accepted a rescan command executes it.                             *)
FairSpec == Spec /\ WF_vars(Progress)
                 /\ \A i \in 1..NumInstances : WF_vars(RescanRuns(i))

-----------------------------------------------------------------------------
(* One visit takes at most MaxDeletes files from the library, rule junk and*)
(* model decisions together, whatever is decided how often.                *)
DeleteCap == moved <= MaxDeletes

(* Nor more than MaxBytes of them, as long as no file grows meanwhile.     *)
ByteCap == movedBytes <= MaxBytes

(* safety.max_deletes_per_run "caps how many orphan files a single run may *)
(* relocate".                                                              *)
DeleteCapPerRun == runMoved <= MaxDeletes

(* A dry run relocates and copies nothing, and requests no rescan.         *)
Inert ==
    [][dryRun => /\ runMoved' <= runMoved /\ copies' <= copies
                 /\ rescans' \subseteq rescans]_vars

(* TrackedFiles "returns every file path the instance has recorded": after *)
(* the fetch no file is outside the snapshot that the database referenced  *)
(* throughout, though it was read series by series while it changed.       *)
SnapshotComplete ==
    pc \notin {"idle", "tracked"} => Files \ untracked \subseteq snapshot

(* Every step that trashes a file, by rule or decision, as the file is.    *)
Takes(f) == runMoved' = runMoved + 1 /\ disk[f].present /\ ~disk'[f].present

(* A file that is taken is allowed and unprotected; and it is old and not  *)
(* empty, unless it was rewritten after the walk had found it.             *)
TakenWithinRails ==
    [][\A f \in Files : Takes(f) =>
        /\ f \in AllowedFiles \ Protected
        /\ f \in rewritten \/ (disk[f].old /\ disk[f].size > 0)]_vars

(* A file that the visited instance's database referenced at every moment  *)
(* of the visit is never taken.                                            *)
TrackedSpared == [][\A f \in Files : Takes(f) => f \in untracked]_vars

(* No file is taken that is younger than min_orphan_age at that moment.    *)
FreshSpared == [][\A f \in Files : Takes(f) => disk[f].old]_vars

(* No file is taken that some instance's database references.              *)
ReferencedSpared ==
    [][\A f \in Files : Takes(f) => \A i \in 1..NumInstances : f \notin tracked[i]]_vars

(* What failed removals leave in the trash stays within the delete cap.    *)
CopiesCapped == copies + runMoved <= MaxDeletes

Failure == FetchFails \/ FetchEmptyBody \/ RootsEmptyBody \/ RescanFails
           \/ SubmitFails \/ ChunkFails \/ ContextEnds

(* A database reference to a file that stays missing does not stay, unless *)
(* calls keep failing, or runs keep being dry.                             *)
MissingCorrected ==
    \A i \in 1..NumInstances, f \in Files :
        \/ []<>(disk[f].present \/ f \notin tracked[i])
        \/ []<>dryRun \/ []<><<Failure>>_vars

Orphan(f) ==
    /\ disk[f].present /\ disk[f].old /\ disk[f].size > 0
    /\ \A i \in 1..NumInstances : f \notin tracked[i]
    /\ f \notin Protected
    /\ \E root \in AllowedRoots : f \in FilesUnder[root]
                                  /\ \E i \in 1..NumInstances : root \in RootsOf[i]

(* A file that stays an orphan within the rails is considered again and    *)
(* again, by a rule or by the model, unless calls keep failing.            *)
OrphanConsidered ==
    \A f \in Files : <>[]Orphan(f) => []<>(f \in asked) \/ []<><<Failure>>_vars

(* A zero-byte sidecar no database references is trashed by the rules.     *)
EmptySidecar(f) ==
    /\ disk[f].present /\ disk[f].old /\ disk[f].size = 0 /\ f \in Sidecars
    /\ \A i \in 1..NumInstances : f \notin tracked[i]
EmptySidecarsTrashed == \A f \in Files : []<>~EmptySidecar(f)
-----------------------------------------------------------------------------
(* What makes the safety properties inductive (module OrphanTriageProofs). *)

CountInv == moved <= count /\ count <= MaxDeletes

(* What was recorded of a file holds until it is rewritten.                *)
RecordedInv ==
    \A n \in 1..Len(orphans) :
        LET o == orphans[n] f == disk[o.path]
        IN o.path \in rewritten \/ ~f.present \/ (f.size = o.size /\ f.old = o.old)

BytesInv == rewritten = {} /\ movedBytes <= bytes /\ bytes <= MaxBytes

(* What the database references throughout is in the snapshot as soon as   *)
(* its series was fetched, and what the walk found is not.                 *)
SnapshotInv ==
    /\ pc = "idle" => inst = 1
    /\ pc # "idle" => Files \ untracked \subseteq tracked[inst]
    /\ pc = "tracked" => \A f \in Files \ untracked : SeriesOf[f] \in seriesLeft \/ f \in snapshot
    /\ SnapshotComplete
    /\ \A n \in 1..Len(orphans) : orphans[n].path \notin snapshot
    /\ pc \in {"idle", "tracked"} => orphans = <<>>
=============================================================================
