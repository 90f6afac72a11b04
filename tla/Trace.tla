-------------------------------- MODULE Trace --------------------------------
(***************************************************************************)
(* The trace of a run: Trace and Span of internal/llmobs/llmobs.go, with   *)
(* what dispatch and recordDecision of internal/reconcile/engine.go put    *)
(* into it.  A span is opened with Start and becomes part of the trace only*)
(* with Finish; everything is posted at the end of the run, the spans      *)
(* before the evaluations that refer to them.                              *)
(***************************************************************************)
EXTENDS Naturals, FiniteSets

CONSTANTS
    SpanBound,      \* bound on the spans that a run opens
    AgentFails      \* the Datadog agent may fail, or its reply be lost

ASSUME TraceAssumption == SpanBound \in Nat \ {0} /\ AgentFails \in BOOLEAN

VARIABLES
    opened,         \* spans opened so far, numbered from 1, the root
    spans,          \* finished spans, each with its parent, 0 for none
    evals,          \* evaluations, each with its span
    current,        \* the llm span whose decisions are applied, or 0
    agentSpans,     \* what the agent has received of this run
    agentEvals

trace_vars == <<opened, spans, evals, current, agentSpans, agentEvals>>

Root == 1
Labels == {"model_confidence", "rail_outcome"}

NoTrace ==
    /\ opened = 0 /\ spans = {} /\ evals = {} /\ current = 0
    /\ agentSpans = {} /\ agentEvals = {}

StartRun ==
    /\ opened' = Root /\ spans' = {} /\ evals' = {} /\ current' = 0
    /\ agentSpans' = {} /\ agentEvals' = {}

Finish(id, parent) == spans' = spans \cup {[id |-> id, parent |-> parent]}

(* A chunk is dispatched, with an answer or with an error.                 *)
Dispatch ==
    /\ opened < SpanBound
    /\ opened' = opened + 1
    /\ Finish(opened', Root)
    /\ current' \in {opened', 0}
    /\ UNCHANGED <<evals, agentSpans, agentEvals>>

(* A decision, of the answer or of a rule of tier 0, which has no answer   *)
(* around it.                                                              *)
Decide(parent) ==
    /\ opened < SpanBound
    /\ opened' = opened + 1
    /\ Finish(opened', parent)
    /\ evals' = evals \cup {[span |-> opened', label |-> l] : l \in Labels}
    /\ UNCHANGED <<agentSpans, agentEvals>>

ModelDecides == current # 0 /\ Decide(current) /\ UNCHANGED current
RuleDecides == Decide(Root) /\ current' = 0

(* A decision that names no known reference: its span is never finished.   *)
DecidesUnknown ==
    /\ current # 0 /\ opened < SpanBound
    /\ opened' = opened + 1
    /\ UNCHANGED <<spans, evals, current, agentSpans, agentEvals>>

RootRecordedAlready == opened # 0    \* mutant: the root is taken for finished
RootRecorded == \E s \in spans : s.id = Root

EvalsPostedAnyway(taken, ok) ==      \* mutant: goes on after the spans failed
    agentEvals' \in {{}, evals}
(* The evaluations follow only spans whose post was acknowledged.          *)
EvalsPosted(taken, ok) ==
    IF ok THEN agentEvals' \in IF AgentFails THEN {{}, evals} ELSE {evals}
          ELSE agentEvals' = {}

Flush(ctxDone) ==
    /\ IF RootRecorded THEN spans' = spans ELSE Finish(Root, 0)
    /\ IF ctxDone
       THEN agentSpans' = {} /\ agentEvals' = {}
       ELSE \E taken, ok \in BOOLEAN :
             /\ ok => taken
             /\ ~ok => AgentFails
             /\ agentSpans' = IF taken THEN spans' ELSE {}
             /\ EvalsPosted(taken, ok)
    /\ UNCHANGED <<opened, evals, current>>

Tracing == Dispatch \/ ModelDecides \/ RuleDecides \/ DecidesUnknown

TraceTypeOK ==
    /\ opened \in 0..SpanBound /\ current \in 0..opened
    /\ {spans, agentSpans} \subseteq SUBSET [id : 1..opened, parent : 0..opened]
    /\ {evals, agentEvals} \subseteq SUBSET [span : 1..opened, label : Labels]

-----------------------------------------------------------------------------
IdsOf(set) == {s.id : s \in set}

(* What the agent gets is one whole tree: one root, every other span under *)
(* a span that came with it (the README draws it so), however many calls   *)
(* failed and decisions named nothing on the way.                          *)
TraceConnected ==
    agentSpans # {} =>
        /\ \E s \in agentSpans : s.parent = 0
        /\ \A s \in agentSpans : s.parent # 0 => s.parent \in IdsOf(agentSpans) \ {s.id}
        /\ \A s, t \in agentSpans : s.id = t.id \/ s.parent + t.parent = 0 => s = t

(* "Spans go first so the evaluations have a span to join against": no     *)
(* evaluation arrives without its span, whatever becomes of the two posts. *)
EvalsJoin == \A v \in agentEvals : v.span \in IdsOf(agentSpans)
=============================================================================
