---------------------------- MODULE RunLifecycle ----------------------------
(***************************************************************************)
(* The process around the runs, and the order of the steps of a run: main  *)
(* (cmd/reconciler/main.go) and Engine.Run (internal/reconcile/engine.go). *)
(*                                                                         *)
(* With an interval the process is a daemon: after a jitter it runs at once*)
(* and then whenever its ticker fires.  Without one it runs once and exits.*)
(* SIGINT or SIGTERM cancels the process's context and with it the run's,  *)
(* which also ends on its own after 30 minutes; a run whose context ended  *)
(* goes on to its last step, with every call on that context failing.      *)
(*                                                                         *)
(* Abstracted: the visits of the instances are modules QueueTriage and     *)
(* OrphanTriage, and the purge is Purge of module TrashBin: here the trash *)
(* only holds expired entries or not.                                      *)
(***************************************************************************)
EXTENDS Naturals

CONSTANTS
    NumInstances,
    Daemon,         \* -interval is positive
    Jitter,         \* -jitter is positive
    DeleteEnabled,  \* safety.delete_enabled, without which there is no bin
    DryRun,
    Faults          \* the failures that may happen, of AllFaults

AllFaults == {"deadline", "signal", "kill", "persist", "webhook"}

ASSUME LifecycleAssumption ==
    /\ NumInstances \in Nat \ {0}
    /\ Daemon \in BOOLEAN /\ Jitter \in BOOLEAN
    /\ DeleteEnabled \in BOOLEAN /\ DryRun \in BOOLEAN
    /\ Faults \subseteq AllFaults

VARIABLES
    pc,             \* what the process is doing
    visited,        \* instances the run has visited
    cancelled,      \* the process got a signal
    ctxDone,        \* the run's context has ended
    tick,           \* the ticker's channel holds a tick
    ticking,        \* the ticker exists
    expired,        \* the trash holds entries older than its TTL
    saved,          \* what became of this run's report in the state file
    sent            \* the webhook got this run's summary

vars == <<pc, visited, cancelled, ctxDone, tick, ticking, expired, saved, sent>>
run_vars == <<visited, ctxDone, saved, sent>>

RunSteps == {"visit", "purge", "commit", "flush", "persist", "notify", "print"}
Over == {"exited", "killed"}
Steps == {"start", "jitter", "select", "exited", "killed"} \cup RunSteps

TypeOK ==
    /\ pc \in Steps
    /\ visited \in 0..NumInstances
    /\ saved \in {"no", "yes", "failed"}
    /\ {cancelled, ctxDone, tick, ticking, expired, sent} \subseteq BOOLEAN

Init ==
    /\ pc = "start" /\ visited = 0
    /\ cancelled = FALSE /\ ctxDone = FALSE
    /\ tick = FALSE /\ ticking = FALSE
    /\ expired \in BOOLEAN
    /\ saved = "no" /\ sent = FALSE

-----------------------------------------------------------------------------
(* main                                                                    *)

(* runOnce and Run: a context under the process's, a report, a trace, the  *)
(* grace store and the preload of the local model.                         *)
EnterRun ==
    /\ pc' = "visit" /\ visited' = 0
    /\ ctxDone' = cancelled
    /\ saved' = "no" /\ sent' = FALSE

Start ==
    /\ pc = "start"
    /\ IF Daemon /\ Jitter
       THEN pc' = "jitter" /\ UNCHANGED run_vars
       ELSE EnterRun
    /\ UNCHANGED <<cancelled, tick, ticking, expired>>

JitterOver ==
    /\ pc = "jitter"
    /\ EnterRun
    /\ UNCHANGED <<cancelled, tick, ticking, expired>>

(* With a tick and a cancelled context both ready, select takes either.    *)
TickTaken ==
    /\ pc = "select" /\ tick
    /\ tick' = FALSE
    /\ EnterRun
    /\ UNCHANGED <<cancelled, ticking, expired>>

ShutDownWhenIdle ==   \* mutant: a pending tick goes first
    /\ pc \in {"jitter", "select"}
    /\ cancelled /\ ~tick
    /\ pc' = "exited"
    /\ UNCHANGED <<run_vars, cancelled, tick, ticking, expired>>

ShutDown ==
    /\ pc \in {"jitter", "select"}
    /\ cancelled
    /\ pc' = "exited"
    /\ UNCHANGED <<run_vars, cancelled, tick, ticking, expired>>

-----------------------------------------------------------------------------
(* Engine.Run                                                              *)

VisitTooMany ==       \* mutant: visits one instance too many
    /\ pc = "visit"
    /\ visited' = visited + 1
    /\ pc' = IF visited < NumInstances THEN "visit" ELSE "purge"
    /\ UNCHANGED <<cancelled, ctxDone, tick, ticking, expired, saved, sent>>

VisitInstance ==
    /\ pc = "visit"
    /\ visited' = visited + 1
    /\ pc' = IF visited + 1 < NumInstances THEN "visit" ELSE "purge"
    /\ UNCHANGED <<cancelled, ctxDone, tick, ticking, expired, saved, sent>>

(* A purge that fails is logged and the run goes on.                       *)
PurgeTrash ==
    /\ pc = "purge"
    /\ expired' \in IF DeleteEnabled THEN {FALSE, expired} ELSE {expired}
    /\ pc' = "commit"
    /\ UNCHANGED <<run_vars, cancelled, tick, ticking>>

(* Neither a failed commit of the streaks nor a failed flush of the trace  *)
(* keeps the run from its next step.                                       *)
CommitAndFlush ==
    /\ pc \in {"commit", "flush"}
    /\ pc' = IF pc = "commit" THEN "flush" ELSE "persist"
    /\ UNCHANGED <<run_vars, cancelled, tick, ticking, expired>>

PersistInTime ==      \* mutant: a run whose context ended is not saved
    /\ pc = "persist"
    /\ saved' = IF ctxDone THEN saved ELSE "yes"
    /\ pc' = "notify"
    /\ UNCHANGED <<visited, ctxDone, sent, cancelled, tick, ticking, expired>>

Persist ==
    /\ pc = "persist"
    /\ \/ saved' = "yes"
       \/ "persist" \in Faults /\ saved' = "failed"
    /\ pc' = "notify"
    /\ UNCHANGED <<visited, ctxDone, sent, cancelled, tick, ticking, expired>>

NotifyUntilSent ==    \* mutant: the webhook is tried until it answers
    /\ pc = "notify"
    /\ IF ctxDone THEN UNCHANGED <<pc, sent>> ELSE sent' = TRUE /\ pc' = "print"
    /\ UNCHANGED <<visited, ctxDone, saved, cancelled, tick, ticking, expired>>

Notify ==
    /\ pc = "notify"
    /\ \/ ~ctxDone /\ sent' = TRUE
       \/ (ctxDone \/ "webhook" \in Faults) /\ sent' = sent
    /\ pc' = "print"
    /\ UNCHANGED <<visited, ctxDone, saved, cancelled, tick, ticking, expired>>

(* The summary is printed; the first run of a daemon starts the ticker.    *)
RunReturns ==
    /\ pc = "print"
    /\ pc' = IF Daemon THEN "select" ELSE "exited"
    /\ ticking' = Daemon
    /\ UNCHANGED <<run_vars, cancelled, tick, expired>>

-----------------------------------------------------------------------------
(* External                                                                *)

(* The channel holds one tick; those that find it full are dropped.        *)
TickerFires ==
    /\ ticking /\ pc \notin Over
    /\ tick' = TRUE
    /\ UNCHANGED <<pc, run_vars, cancelled, ticking, expired>>

Signal ==
    /\ "signal" \in Faults
    /\ ~cancelled /\ pc \notin Over
    /\ cancelled' = TRUE
    /\ ctxDone' = (ctxDone \/ pc \in RunSteps)
    /\ UNCHANGED <<pc, visited, saved, sent, tick, ticking, expired>>

Deadline ==
    /\ "deadline" \in Faults
    /\ pc \in RunSteps /\ ~ctxDone
    /\ ctxDone' = TRUE
    /\ UNCHANGED <<pc, visited, saved, sent, cancelled, tick, ticking, expired>>

Kill ==
    /\ "kill" \in Faults
    /\ pc \notin Over
    /\ pc' = "killed"
    /\ UNCHANGED <<run_vars, cancelled, tick, ticking, expired>>

EntriesExpire ==
    /\ ~expired
    /\ expired' = TRUE
    /\ UNCHANGED <<pc, run_vars, cancelled, tick, ticking>>

Run == VisitInstance \/ PurgeTrash \/ CommitAndFlush \/ Persist \/ Notify \/ RunReturns
Main == Start \/ JitterOver \/ TickTaken

Next ==
    \/ Run \/ Main \/ ShutDown
    \/ TickerFires \/ Signal \/ Deadline \/ Kill \/ EntriesExpire

Spec == Init /\ [][Next]_vars

(* The process is scheduled and its calls return; the jitter ends and the  *)
(* ticker fires; select chooses at random among what is ready, and so does *)
(* not prefer the ticker over the shutdown for ever.                       *)
FairSpec ==
    /\ Spec
    /\ WF_vars(Run) /\ WF_vars(Main) /\ WF_vars(TickerFires)
    /\ SF_vars(ShutDown)

-----------------------------------------------------------------------------
(* After a signal the process exits, even in the middle of a run and with  *)
(* the ticker firing on.                                                   *)
ShutsDown == cancelled ~> pc \in Over

(* A run that is not killed gets to its report, even when its context ends *)
(* on the way: the state file is written, or that failure is logged.       *)
RunIsReported == (pc = "visit") ~> (saved # "no" \/ pc = "killed")

(* A daemon keeps running passes, deadlines or not, until it is stopped.   *)
KeepsRunning == Daemon => []<>(pc = "visit" \/ cancelled \/ pc = "killed")

(* In a dry run nothing is purged: it performs no action.                  *)
DryRunKeepsTrash == [][DryRun /\ expired => expired']_vars

(* Every run that ends has sent its summary to the webhook.                *)
SummarySent == [][pc = "print" /\ pc' # pc => sent]_vars
=============================================================================
