----------------------------- MODULE ModelCalls -----------------------------
(***************************************************************************)
(* Asking the model about the chunks of a list: the second half of         *)
(* runBatched (internal/reconcile/engine.go), Client.Decide of             *)
(* internal/claude/client.go, and Client.DecideBatch, waitForBatch and     *)
(* streamBatchResults of internal/claude/batch.go.                         *)
(*                                                                         *)
(* In batch mode one message batch is submitted, polled until it has ended *)
(* or the context is done, and its results are matched to the requests by  *)
(* their custom ids.  The clock stands still while a call is made, and     *)
(* runs while the client waits for its ticker.                             *)
(***************************************************************************)
EXTENDS Naturals, Sequences, FiniteSets

CONSTANTS
    BatchModes,     \* settings of claude.batch_mode
    PollInterval,   \* claude.batch_poll_interval
    Timeouts,       \* what may be left of batch_timeout and of the run
    CallFaults      \* the failures that may happen, of AllCallFaults

AllCallFaults == {"call", "submit", "poll", "stream", "result"}

ASSUME CallsAssumption ==
    /\ BatchModes \subseteq BOOLEAN
    /\ PollInterval \in Nat \ {0} /\ Timeouts \subseteq Nat
    /\ CallFaults \subseteq AllCallFaults

VARIABLES
    batchMode,
    call,           \* the step of the call
    asked,          \* the number of chunks
    outcomes,       \* dispatched so far: the request that was answered, or 0
    limit, now,     \* the time the context is done, and the time
    due,            \* the ticker's channel, of capacity one
    tickAt,         \* when the ticker fires next
    ended, endedAt, \* the batch has ended, and when it did
    streamed,       \* requests whose result line was read
    byID            \* the answer filed under each custom id, or 0

call_vars == <<batchMode, call, asked, outcomes, limit, now, due, tickAt, ended, endedAt, streamed, byID>>
clock_vars == <<batchMode, limit, now, due, tickAt, ended, endedAt>>

CallInit ==
    /\ batchMode \in BatchModes
    /\ call = "idle" /\ asked = 0 /\ outcomes = <<>>
    /\ limit = 0 /\ now = 0 /\ due = FALSE /\ tickAt = 0 /\ ended = FALSE /\ endedAt = 0
    /\ streamed = {} /\ byID = <<>>

Over == call \in {"over", "failed"}

Ask(n) ==
    /\ call = "idle"
    /\ asked' = n
    /\ call' = IF n = 0 THEN "over" ELSE IF batchMode THEN "submit" ELSE "decide"
    /\ byID' = [i \in 1..n |-> 0]
    /\ UNCHANGED <<outcomes, clock_vars, streamed>>

Dispatch(outcome) ==
    /\ outcomes' = Append(outcomes, outcome)
    /\ call' = IF Len(outcomes') = asked THEN "over" ELSE call
    /\ UNCHANGED <<asked, clock_vars, streamed, byID>>

(* One call per chunk; one that fails, or whose answer cannot be parsed,   *)
(* costs its own chunk only.                                               *)
Decide ==
    /\ call = "decide"
    /\ \/ Dispatch(Len(outcomes) + 1)
       \/ "call" \in CallFaults /\ Dispatch(0)

Fail == call' = "failed" /\ UNCHANGED <<asked, outcomes, clock_vars, streamed, byID>>

Submit ==
    /\ call = "submit"
    /\ limit' \in Timeouts /\ tickAt' = PollInterval
    /\ call' = "poll"
    /\ UNCHANGED <<batchMode, asked, outcomes, now, due, ended, endedAt, streamed, byID>>

PollOnce ==           \* mutant: the status is only looked at first
    /\ call = "poll" /\ now < limit
    /\ call' = IF ended /\ now = 0 THEN "stream" ELSE "wait"
    /\ UNCHANGED <<asked, outcomes, clock_vars, streamed, byID>>

Poll ==
    /\ call = "poll" /\ now < limit
    /\ call' = IF ended THEN "stream" ELSE "wait"
    /\ UNCHANGED <<asked, outcomes, clock_vars, streamed, byID>>

WaitOver ==
    /\ call = "wait" /\ due
    /\ due' = FALSE /\ call' = "poll"
    /\ UNCHANGED <<batchMode, asked, outcomes, limit, now, tickAt, ended, endedAt, streamed, byID>>

PatientFails ==       \* mutant: the wait does not end with the context
    /\ \/ call = "submit" /\ "submit" \in CallFaults
       \/ call = "poll" /\ "poll" \in CallFaults
       \/ call = "stream" /\ "stream" \in CallFaults
    /\ Fail

(* A call that fails, or the end of the context, fails the batch.          *)
BatchFails ==
    /\ \/ call = "submit" /\ "submit" \in CallFaults
       \/ call = "poll" /\ ("poll" \in CallFaults \/ now >= limit)
       \/ call = "wait" /\ now >= limit
       \/ call = "stream" /\ "stream" \in CallFaults
    /\ Fail

FileByLine(i, answer) ==    \* mutant: results are matched by their order
    byID' = [byID EXCEPT ![Cardinality(streamed) + 1] = answer]
FileByID(i, answer) == byID' = [byID EXCEPT ![i] = answer]

(* The results come in any order, some errored, expired or unparsable.     *)
ResultLine(i) ==
    /\ call = "stream" /\ i \notin streamed
    /\ streamed' = streamed \cup {i}
    /\ \/ FileByID(i, i)
       \/ "result" \in CallFaults /\ FileByID(i, 0)
    /\ UNCHANGED <<call, asked, outcomes, clock_vars>>

(* After the last line, before which lines may be missing.                 *)
StreamEnds ==
    /\ call = "stream"
    /\ streamed = 1..asked \/ "result" \in CallFaults
    /\ call' = "dispatch"
    /\ UNCHANGED <<asked, outcomes, clock_vars, streamed, byID>>

DispatchResult ==
    /\ call = "dispatch"
    /\ Dispatch(byID[Len(outcomes) + 1])

(* External: time passes while the client waits, and the batch ends.       *)
ClockTicks ==
    /\ call = "wait" /\ ~due /\ now < limit
    /\ now' = now + 1
    /\ due' = (now' = tickAt)
    /\ tickAt' = IF now' = tickAt THEN tickAt + PollInterval ELSE tickAt
    /\ UNCHANGED <<batchMode, call, asked, outcomes, limit, ended, endedAt, streamed, byID>>

BatchEnds ==
    /\ call \in {"poll", "wait"} /\ ~ended
    /\ ended' = TRUE /\ endedAt' = now
    /\ UNCHANGED <<batchMode, call, asked, outcomes, limit, now, due, tickAt, streamed, byID>>

Calling ==
    \/ Decide \/ Submit \/ Poll \/ WaitOver \/ BatchFails
    \/ \E i \in 1..asked : ResultLine(i)
    \/ StreamEnds \/ DispatchResult \/ ClockTicks

CallsSpec == CallInit /\ [][Calling \/ BatchEnds \/ \E n \in Nat : Ask(n)]_call_vars

-----------------------------------------------------------------------------
(* The chunks are resolved as the triages rely on.                         *)
A == INSTANCE Answers WITH together <- batchMode, over <- Over
AnswersInOrder == A!Spec

(* A batch that has ended more than a poll interval before the context is  *)
(* done is not given up for lack of time (waitForBatch).                   *)
ReadInTime ==
    [][call = "wait" /\ call' = "failed" /\ ended => endedAt + PollInterval >= limit]_call_vars
=============================================================================
