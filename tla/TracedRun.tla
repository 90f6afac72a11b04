------------------------------ MODULE TracedRun ------------------------------
(***************************************************************************)
(* The life of the process composed with the trace of each run: the trace  *)
(* is started with the run, grows while instances are visited, and is      *)
(* flushed under the run's context, which may have ended by then           *)
(* (Engine.Run, internal/reconcile/engine.go).                             *)
(***************************************************************************)
EXTENDS RunLifecycle, Trace

all_vars == <<vars, trace_vars>>

TracedInit == Init /\ NoTrace

Enters == (Start \/ JitterOver \/ TickTaken) /\ IF pc' = "visit" THEN StartRun ELSE UNCHANGED trace_vars
VisitGoesOn == pc = "visit" /\ Tracing /\ UNCHANGED vars
VisitIsOver == VisitInstance /\ current' = 0
               /\ UNCHANGED <<opened, spans, evals, agentSpans, agentEvals>>
Flushes == pc = "flush" /\ CommitAndFlush /\ Flush(ctxDone)
Commits == pc = "commit" /\ CommitAndFlush /\ UNCHANGED trace_vars
Others == (PurgeTrash \/ Persist \/ Notify \/ RunReturns \/ ShutDown
           \/ TickerFires \/ Signal \/ Deadline \/ Kill \/ EntriesExpire)
          /\ UNCHANGED trace_vars

TracedNext == Enters \/ VisitGoesOn \/ VisitIsOver \/ Flushes \/ Commits \/ Others

(* The fairness of RunLifecycle; how much a visit traces is bounded.       *)
TracedSpec ==
    /\ TracedInit /\ [][TracedNext]_all_vars
    /\ WF_vars(Run) /\ WF_vars(Main) /\ WF_vars(TickerFires)
    /\ SF_vars(ShutDown)

TracedTypeOK == TypeOK /\ TraceTypeOK

(* What makes these properties inductive (module TracedRunProofs): until it*)
(* is flushed, a run's trace is a tree but for the root, and unknown to the*)
(* agent; what the agent has is the trace as it was flushed.               *)
VisitInv == pc = "visit" => visited < NumInstances

TreeInv ==
    /\ \A s \in spans : /\ s.id \in Root..opened
                         /\ IF s.id = Root THEN s.parent = 0
                            ELSE /\ s.parent # 0 /\ s.parent # s.id
                                 /\ s.parent \in IdsOf(spans) \cup {Root}
    /\ \A s, t \in spans : s.id = t.id => s = t
    /\ \A v \in evals : v.span \in IdsOf(spans)
    /\ current # 0 => current \in IdsOf(spans)

AgentInv ==
    /\ pc \in {"visit", "purge", "commit", "flush"} =>
            opened > 0 /\ agentSpans = {} /\ agentEvals = {}
    /\ agentSpans # {} => agentSpans = spans /\ RootRecorded
    /\ agentEvals # {} => agentEvals = evals /\ agentSpans = spans
=============================================================================
