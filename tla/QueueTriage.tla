----------------------------- MODULE QueueTriage -----------------------------
(***************************************************************************)
(* Triage of the download queue, over a sequence of runs of one process:   *)
(* Engine.reconcileQueue and runBatched (internal/reconcile/engine.go) and *)
(* the streak store of internal/reconcile/grace.go.                        *)
(*                                                                         *)
(* A run loads the streak store, visits the instances in order and commits *)
(* the streaks it observed.  A visit fetches the queue, bumps the streak of*)
(* every stuck download, drops what the local model keeps, cuts the rest to*)
(* the candidate cap, sends it to the model chunk by chunk and applies the *)
(* decisions that come back.  Between any two of these steps the queue may *)
(* change, the run's context may end, and the process may be killed.       *)
(*                                                                         *)
(* Abstracted: what makes a record look stuck (isStuck), the text sent to  *)
(* the models, and the report.  The file half of a run changes none of this*)
(* state, and is module OrphanTriage.                                      *)
(***************************************************************************)
EXTENDS Batching

CONSTANTS
    NumInstances,   \* configured *arr instances, visited as 1..NumInstances
    Records,        \* queue record ids; the queue lists them in id order
    InstanceOf,     \* the instance whose queue holds a record
    DownloadOf,     \* its downloadId, or NoDownload
    NoDownload,
    GraceRuns,      \* queue.grace_runs
    MaxRemovals,    \* queue.max_removals_per_run
    MaxCandidates,  \* queue.max_candidates_per_run, 0 for no cap
    BatchSize,      \* queue.batch_size, 0 for one single chunk
    DryRuns,        \* settings of dry_run that processes are started with
    LocalEnabled,   \* the tier-1 prefilter is configured
    BatchMode,      \* claude.batch_mode
    Faults,         \* the failures that may happen, of AllFaults
    StreakBound,    \* where streaks saturate: only "< GraceRuns" reads them
    PerformedBound  \* bound on the removals of a run whose reply is lost

AllFaults == {"crash", "deadline", "fetch", "load", "model", "lostReply", "commit"}

ASSUME InstancesAssumption == NumInstances \in Nat \ {0}
ASSUME RecordsAssumption ==
    /\ Records \subseteq Nat
    /\ InstanceOf \in [Records -> 1..NumInstances]
    /\ DOMAIN DownloadOf = Records
ASSUME ConfigAssumption ==
    /\ GraceRuns \in Nat \ {0}
    /\ MaxRemovals \in Nat
    /\ MaxCandidates \in Nat
    /\ BatchSize \in Nat
    /\ DryRuns \subseteq BOOLEAN
    /\ LocalEnabled \in BOOLEAN
    /\ BatchMode \in BOOLEAN
ASSUME BoundAssumption ==
    /\ StreakBound \in Nat
    /\ PerformedBound \in Nat
    /\ GraceRuns <= StreakBound
    /\ Faults \subseteq AllFaults

VARIABLES
    health,         \* the live queues: what each record looks like right now
    store,          \* queue-grace.json: the streaks on disk
    counts, next,   \* graceStore: streaks loaded for this run, and its own
    pc, inst,       \* the step the run is at, and the instance it visits
    ctxDone,        \* the run's context is cancelled or past its deadline
    dryRun,         \* the run's process is in a dry run
    refIndex,       \* the records a decision of this visit may name
    left,           \* candidates not yet sent to the model
    removed,        \* the visit's removal counter
    shown,          \* ghost: records the model was asked about in this run
    wavered,        \* ghost: keys that were not stuck at some point of this run
    consec,         \* ghost: observations in a row that found the key stuck
    sightings,      \* ghost: runs that saw it since a committed run did not
    performed,      \* ghost: downloads this visit took off the queue
    runPerformed    \* ghost: downloads this run took off the queues

store_vars == <<store, counts, next>>
visit_vars == <<refIndex, left, removed>>
ghost_vars == <<shown, wavered, consec, sightings, performed, runPerformed>>
vars == <<health, store_vars, pc, inst, ctxDone, dryRun, visit_vars, ghost_vars>>

(***************************************************************************)
(* Records of one download share a key, so that their streak survives the  *)
(* churn of record ids.                                                    *)
(***************************************************************************)
Key(r) == IF DownloadOf[r] # NoDownload
          THEN <<InstanceOf[r], DownloadOf[r]>>
          ELSE <<InstanceOf[r], r>>

Keys == {Key(r) : r \in Records}
KeysOf(i) == {Key(r) : r \in {s \in Records : InstanceOf[s] = i}}
Siblings(r) == {s \in Records : Key(s) = Key(r)}

StuckIn(i) == {r \in Records : InstanceOf[r] = i /\ health[r] = "stuck"}
CalmKeys(h) == {k \in Keys : \A r \in Records : Key(r) = k => h[r] # "stuck"}

Bump(n) == IF n < StreakBound THEN n + 1 ELSE StreakBound
Zeros == [k \in Keys |-> 0]

(* Candidates are kept in the order of the queue, which is that of the ids.*)
Capped(S) == Cut(S, MaxCandidates)
Chunk(S) == Cut(S, BatchSize)

Healths == {"absent", "ok", "stuck"}
Steps == {"idle", "fetch", "funnel", "submit", "ask", "apply", "commit"}

TypeOK ==
    /\ health \in [Records -> Healths]
    /\ store \in [Keys -> 0..StreakBound]
    /\ counts \in [Keys -> 0..StreakBound]
    /\ next \in [Keys -> 0..StreakBound]
    /\ consec \in [Keys -> 0..StreakBound]
    /\ sightings \in [Keys -> 0..StreakBound]
    /\ pc \in Steps
    /\ inst \in 1..NumInstances
    /\ ctxDone \in BOOLEAN /\ dryRun \in BOOLEAN
    /\ refIndex \subseteq Records
    /\ left \subseteq Records
    /\ shown \subseteq Records
    /\ wavered \subseteq Keys
    /\ removed \in Nat
    /\ performed \in Nat
    /\ runPerformed \in Nat

Init ==
    /\ health \in [Records -> Healths]
    /\ store = Zeros /\ counts = Zeros /\ next = Zeros
    /\ pc = "idle" /\ inst = 1 /\ ctxDone = FALSE /\ dryRun = FALSE
    /\ refIndex = {} /\ left = {} /\ removed = 0
    /\ shown = {} /\ wavered = {} /\ consec = Zeros /\ sightings = Zeros
    /\ performed = 0 /\ runPerformed = 0

-----------------------------------------------------------------------------
(* The run: load the store, visit every instance, commit.                  *)

StartRun ==
    /\ pc = "idle"
    /\ \/ counts' = store
       \/ "load" \in Faults /\ counts' = Zeros   \* unreadable file: start fresh
    /\ next' = Zeros
    /\ dryRun' \in DryRuns       \* of the process this run belongs to
    /\ pc' = "fetch"
    /\ wavered' = CalmKeys(health)
    /\ UNCHANGED <<health, store, inst, ctxDone, visit_vars, shown, consec,
                   sightings, performed, runPerformed>>

LeaveTooLate ==       \* mutant: visits one instance too many
    /\ IF inst <= NumInstances
       THEN inst' = inst + 1 /\ pc' = "fetch"
       ELSE inst' = inst /\ pc' = "commit"
    /\ refIndex' = {} /\ left' = {} /\ removed' = 0 /\ performed' = 0

(* The visit of an instance is over: on to the next one, or to the commit. *)
Leave ==
    /\ IF inst < NumInstances
       THEN inst' = inst + 1 /\ pc' = "fetch"
       ELSE inst' = inst /\ pc' = "commit"
    /\ refIndex' = {} /\ left' = {} /\ removed' = 0 /\ performed' = 0

FetchFails ==
    /\ pc = "fetch"
    /\ "fetch" \in Faults \/ ctxDone
    /\ Leave
    /\ UNCHANGED <<health, store_vars, ctxDone, dryRun, shown, wavered, consec,
                   sightings, runPerformed>>

(* Every stuck record bumps the streak of its key, once for all siblings.  *)
SeenUnanimous(i) ==         \* mutant: a healthy sibling resets the streak
    {Key(r) : r \in StuckIn(i)} \ {Key(r) : r \in {s \in Records : health[s] = "ok"}}
Seen(i) == {Key(r) : r \in StuckIn(i)}
StreaksKeptUnseen(i) ==     \* mutant: streaks of unseen keys survive
    [k \in Keys |-> IF k \in Seen(i) THEN Bump(counts[k]) ELSE counts[k]]
StreaksForgetful(i) ==     \* mutant: bumps this run's count, not the loaded one
    [k \in Keys |-> IF k \in Seen(i) THEN Bump(next[k]) ELSE next[k]]
Streaks(i) == [k \in Keys |-> IF k \in Seen(i) THEN Bump(counts[k]) ELSE next[k]]
EligibleEarly(i) ==         \* mutant: one run too early
    {r \in StuckIn(i) : ~(Streaks(i)[Key(r)] + 1 < GraceRuns)}
Eligible(i) == {r \in StuckIn(i) : ~(Streaks(i)[Key(r)] < GraceRuns)}

FetchQueue ==
    /\ pc = "fetch"
    /\ ~ctxDone
    /\ next' = Streaks(inst)
    /\ consec' = [k \in Keys |-> IF k \in Seen(inst) THEN Bump(consec[k])
                                 ELSE IF k \in KeysOf(inst) THEN 0 ELSE consec[k]]
    /\ sightings' = [k \in Keys |-> IF k \in Seen(inst) THEN Bump(sightings[k])
                                    ELSE sightings[k]]
    /\ IF Eligible(inst) = {}
       THEN Leave
       ELSE /\ refIndex' = Eligible(inst)
            /\ left' = Eligible(inst)
            /\ pc' = "funnel"
            /\ UNCHANGED <<inst, removed, performed>>
    /\ UNCHANGED <<health, store, counts, ctxDone, dryRun, shown, wavered, runPerformed>>

(* The local model may drop any candidates; without an answer all escalate.*)
Funnel ==
    /\ pc = "funnel"
    /\ \E kept \in SUBSET left :
        /\ kept # {} => LocalEnabled /\ ~ctxDone
        /\ IF kept = left
           THEN Leave
           ELSE /\ left' = Capped(left \ kept)
                /\ pc' = IF BatchMode THEN "submit" ELSE "ask"
                /\ UNCHANGED <<inst, refIndex, removed, performed>>
    /\ UNCHANGED <<health, store_vars, ctxDone, dryRun, shown, wavered, consec,
                   sightings, runPerformed>>

-----------------------------------------------------------------------------
(* Asking the model: one call per chunk, or one message batch for them all.*)

SubmitBatch ==
    /\ pc = "submit"
    /\ ~ctxDone
    /\ shown' = shown \cup left
    /\ pc' = "ask"
    /\ UNCHANGED <<health, store_vars, inst, ctxDone, dryRun, visit_vars, wavered, consec,
                   sightings, performed, runPerformed>>

SubmitRetried ==      \* mutant: a failed submission is repeated
    /\ pc = "submit"
    /\ "model" \in Faults \/ ctxDone
    /\ UNCHANGED vars

SubmitFails ==
    /\ pc = "submit"
    /\ "model" \in Faults \/ ctxDone
    /\ Leave
    /\ UNCHANGED <<health, store_vars, ctxDone, dryRun, shown, wavered, consec,
                   sightings, runPerformed>>

ChunkAnswered ==
    /\ pc = "ask"
    /\ BatchMode \/ ~ctxDone      \* a message batch has its results already
    /\ shown' = shown \cup Chunk(left)
    /\ left' = left \ Chunk(left)
    /\ pc' = "apply"
    /\ UNCHANGED <<health, store_vars, inst, ctxDone, dryRun, refIndex, removed, wavered,
                   consec, sightings, performed, runPerformed>>

NextChunkUncounted(rest) ==   \* mutant: every chunk counts its removals anew
    IF rest # {} THEN /\ left' = rest /\ pc' = "ask" /\ removed' = 0
                      /\ UNCHANGED <<inst, refIndex, performed>>
                 ELSE Leave

NextChunk(rest) ==
    IF rest # {} THEN /\ left' = rest /\ pc' = "ask"
                      /\ UNCHANGED <<inst, refIndex, removed, performed>>
                 ELSE Leave

ChunkFails ==
    /\ pc = "ask"
    /\ "model" \in Faults \/ (ctxDone /\ ~BatchMode)
    /\ NextChunk(left \ Chunk(left))
    /\ UNCHANGED <<health, store_vars, ctxDone, dryRun, shown, wavered, consec,
                   sightings, runPerformed>>

-----------------------------------------------------------------------------
(* Applying one decision that names record r; the model may name any known *)
(* record, any number of times.  Decisions to keep or skip, those that name*)
(* no known record, those past the cap and deletes that fail before they   *)
(* reach the application are reported and change nothing here.             *)

Remove(r) ==
    /\ pc = "apply"
    /\ r \in refIndex
    /\ removed < MaxRemovals

RemoveDryRun(r) ==
    /\ Remove(r)
    /\ dryRun
    /\ removed' = removed + 1
    /\ UNCHANGED <<health, store_vars, pc, inst, ctxDone, dryRun, refIndex, left, ghost_vars>>

(* External: the *arr application drops the download from its client, so   *)
(* every record of the download leaves the queue.                          *)
DropDownload(r) ==
    /\ health[r] # "absent"
    /\ health' = [s \in Records |-> IF s \in Siblings(r) THEN "absent" ELSE health[s]]
    /\ wavered' = wavered \cup {Key(r)}
    /\ performed' = performed + 1
    /\ runPerformed' = runPerformed + 1

RemoveDoneAnyway(r) ==        \* mutant: removes in a dry run
    /\ Remove(r)
    /\ ~ctxDone
    /\ DropDownload(r)
    /\ removed' = removed + 1
    /\ UNCHANGED <<store_vars, pc, inst, ctxDone, dryRun, refIndex, left, shown, consec, sightings>>

RemoveDone(r) ==
    /\ Remove(r)
    /\ ~dryRun /\ ~ctxDone
    /\ DropDownload(r)
    /\ removed' = removed + 1
    /\ UNCHANGED <<store_vars, pc, inst, ctxDone, dryRun, refIndex, left, shown, consec, sightings>>

(* A 404: the record is gone already, which DeleteQueueItem calls success. *)
RemoveGone(r) ==
    /\ Remove(r)
    /\ ~dryRun /\ ~ctxDone
    /\ health[r] = "absent"
    /\ removed' = removed + 1
    /\ UNCHANGED <<health, store_vars, pc, inst, ctxDone, dryRun, refIndex, left, ghost_vars>>

(* The call took effect but its reply was lost: reported as an error.      *)
RemoveReplyLost(r) ==
    /\ "lostReply" \in Faults
    /\ Remove(r)
    /\ ~dryRun /\ ~ctxDone
    /\ DropDownload(r)
    /\ runPerformed < PerformedBound
    /\ UNCHANGED <<store_vars, pc, inst, ctxDone, dryRun, visit_vars, shown, consec, sightings>>

EndOfAnswer ==
    /\ pc = "apply"
    /\ NextChunk(left)
    /\ UNCHANGED <<health, store_vars, ctxDone, dryRun, shown, wavered, consec,
                   sightings, runPerformed>>

-----------------------------------------------------------------------------
(* The end of a run, and what may happen to it at any time.                *)

RunIsOver ==
    /\ inst' = 1 /\ ctxDone' = FALSE /\ dryRun' = FALSE
    /\ shown' = {} /\ wavered' = {} /\ runPerformed' = 0

(* commit makes the run's streaks the loaded ones even if the write fails, *)
(* but the next run loads what is on disk.                                 *)
Commit ==
    /\ pc = "commit"
    /\ counts' = next
    /\ \/ /\ store' = next
          /\ sightings' = [k \in Keys |-> IF next[k] = 0 THEN 0 ELSE sightings[k]]
       \/ "commit" \in Faults /\ UNCHANGED <<store, sightings>>
    /\ pc' = "idle"
    /\ RunIsOver
    /\ UNCHANGED <<health, next, visit_vars, consec, performed>>

ContextEnds ==
    /\ "deadline" \in Faults
    /\ pc # "idle" /\ ~ctxDone
    /\ ctxDone' = TRUE
    /\ UNCHANGED <<health, store_vars, pc, inst, dryRun, visit_vars, ghost_vars>>

Crash ==
    /\ "crash" \in Faults
    /\ pc # "idle"
    /\ counts' = Zeros /\ next' = Zeros
    /\ pc' = "idle"
    /\ refIndex' = {} /\ left' = {} /\ removed' = 0 /\ performed' = 0
    /\ RunIsOver
    /\ UNCHANGED <<health, store, consec, sightings>>

(* External: the download client and the *arr application move on.         *)
QueueChanges(r) ==
    /\ \E h \in Healths \ {health[r]} : health' = [health EXCEPT ![r] = h]
    /\ wavered' = IF pc = "idle" THEN wavered ELSE wavered \cup CalmKeys(health')
    /\ UNCHANGED <<store_vars, pc, inst, ctxDone, dryRun, visit_vars, shown, consec,
                   sightings, performed, runPerformed>>

Apply(r) == RemoveDryRun(r) \/ RemoveDone(r) \/ RemoveGone(r) \/ RemoveReplyLost(r)

Progress == StartRun \/ FetchFails \/ FetchQueue \/ Funnel \/ SubmitBatch \/ SubmitFails
            \/ ChunkAnswered \/ ChunkFails \/ EndOfAnswer \/ Commit

Next ==
    \/ Progress
    \/ \E r \in Records : Apply(r) \/ QueueChanges(r)
    \/ ContextEnds
    \/ Crash

Spec == Init /\ [][Next]_vars

(* The process is scheduled: runs start again and again, every call returns*)
(* or times out, an answer is a finite list.  Applying a decision needs no *)
(* fairness: which decisions the model returns is the model's choice.      *)
FairSpec == Spec /\ WF_vars(Progress)

-----------------------------------------------------------------------------
(* Only what was seen stuck by at least GraceRuns runs, with no committed  *)
(* run between them that missed it, can be removed: crashes, failed writes *)
(* and lost replies do not weaken the grace period to fewer sightings.     *)
EligibleBacked ==
    /\ \A r \in refIndex : sightings[Key(r)] >= GraceRuns
    /\ left \subseteq refIndex

(* The streak of a key never exceeds the number of latest observations in  *)
(* a row that found it stuck, and so what may be removed was stuck in each *)
(* of the last GraceRuns observations (graceStore.seen and commit).        *)
ConsecutiveStreak ==
    /\ \A k \in Keys : next[k] <= consec[k]
    /\ \A r \in refIndex : consec[Key(r)] >= GraceRuns

(* One visit takes at most MaxRemovals downloads off a queue, however many *)
(* chunks are answered and however often a decision is repeated.           *)
RemovalCap == performed <= MaxRemovals /\ removed <= MaxRemovals

(* queue.max_removals_per_run "caps queue removals in a single run".       *)
RemovalCapPerRun == runPerformed <= MaxRemovals

-----------------------------------------------------------------------------
(* Strengthenings that make the three invariants above inductive.          *)

Visiting == {"funnel", "submit", "ask", "apply"}

BackedInv ==
    /\ EligibleBacked
    /\ \A k \in Keys : /\ store[k] <= sightings[k]
                       /\ counts[k] <= sightings[k]
                       /\ next[k] <= sightings[k]
    /\ pc \notin Visiting => refIndex = {}

CapInv == performed <= removed /\ removed <= MaxRemovals

(* Instances are visited in order: those not fetched in this run yet have  *)
(* no streak in next, and what was loaded for them is still justified.     *)
Fetched(k) == pc = "idle" \/ pc = "commit" \/ k[1] < inst \/ (k[1] = inst /\ pc # "fetch")

ConsecutiveInv ==
    /\ ConsecutiveStreak
    /\ pc = "idle" => \A k \in Keys : store[k] <= consec[k]
    /\ pc # "idle" => \A k \in Keys :
                        ~Fetched(k) => counts[k] <= consec[k] /\ next[k] = 0
    /\ pc \notin Visiting => refIndex = {}

(* While every fetch succeeds: a key fetched in this run has at least the  *)
(* streak on disk, or was not stuck at some moment of the run.             *)
KeptInv ==
    /\ ~ctxDone
    /\ pc = "idle" => inst = 1
    /\ pc # "idle" =>
        /\ counts = store
        /\ CalmKeys(health) \subseteq wavered
        /\ \A k \in Keys : Fetched(k) => store[k] <= next[k] \/ k \in wavered

InertInv == pc = "idle" \/ dryRun => runPerformed = 0

-----------------------------------------------------------------------------
(* With dry_run no download ever leaves a queue by this program's doing.   *)
DryRunInert == dryRun => runPerformed = 0

(* Streaks on disk only fall for keys that were not stuck at some moment of*)
(* the run that wrote them ("reset when an item recovers or disappears").  *)
StreakKept ==
    [][\A k \in Keys : store'[k] < store[k] => k \in wavered]_vars

(* A download that is healthy at the time of the call is not removed: the  *)
(* promise that one that recovers on its own is never touched.             *)
RecoveredSpared ==
    [][\A r \in Records : RemoveDone(r) => health[r] = "stuck"]_vars

(* A removal was decided by the model on being asked about that record, not*)
(* about another: what the local model kept or the cap cut is not removed. *)
RemovedWasShown == [][\A r \in Records : RemoveDone(r) => r \in shown]_vars

(* Every run ends, whatever fails in it.                                   *)
RunsEnd == []<>(pc = "idle")

Failure ==
    \/ FetchFails \/ SubmitFails \/ ChunkFails \/ ContextEnds \/ Crash
    \/ StartRun /\ counts' # store
    \/ Commit /\ store' # next

(* A record that stays stuck is put to the model again and again, unless   *)
(* calls keep failing: grace delays the triage but never prevents it, and  *)
(* a failed run is made up for.                                            *)
StuckIsTriaged ==
    \A r \in Records :
        <>[](health[r] = "stuck") => []<>(r \in shown) \/ []<><<Failure>>_vars
=============================================================================
