-------------------------- MODULE TracedRunProofs --------------------------
(***************************************************************************)
(* Theorems about the process, its runs and their traces, for every number *)
(* of instances and every bound on the spans of a run.                     *)
(***************************************************************************)
EXTENDS TracedRun, TLAPS

SpanType == [id : 1..opened, parent : 0..opened]
EvalType == [span : 1..opened, label : Labels]

(* The type invariants, spelled out.                                       *)
LEMMA FlagsType ==
    TypeOK <=> /\ pc \in Steps /\ visited \in 0..NumInstances
               /\ saved \in {"no", "yes", "failed"}
               /\ cancelled \in BOOLEAN /\ ctxDone \in BOOLEAN /\ tick \in BOOLEAN
               /\ ticking \in BOOLEAN /\ expired \in BOOLEAN /\ sent \in BOOLEAN
  BY DEF TypeOK

LEMMA TraceType ==
    TraceTypeOK <=> /\ opened \in 0..SpanBound /\ current \in 0..opened
                    /\ spans \subseteq SpanType /\ agentSpans \subseteq SpanType
                    /\ evals \subseteq EvalType /\ agentEvals \subseteq EvalType
  BY DEF TraceTypeOK, SpanType, EvalType

LEMMA StartsFirst == 0 \in 0..NumInstances /\ 0 < NumInstances /\ {0, 1} \subseteq 0..SpanBound
  BY LifecycleAssumption, TraceAssumption

-----------------------------------------------------------------------------
(* Types.                                                                  *)
LEMMA InitTraced == TracedInit => TracedTypeOK /\ VisitInv /\ TreeInv /\ AgentInv
<1> SUFFICES ASSUME TracedInit
             PROVE  TracedTypeOK /\ VisitInv /\ TreeInv /\ AgentInv
  OBVIOUS
<1>1. TypeOK
  BY StartsFirst, FlagsType DEF TracedInit, Init, Steps
<1>2. TraceTypeOK
  <2>1. opened = 0 /\ current = 0 /\ spans = {} /\ evals = {} /\ agentSpans = {} /\ agentEvals = {}
    BY DEF TracedInit, NoTrace
  <2> QED
    BY <2>1, StartsFirst, TraceType
<1>3. VisitInv
  BY DEF TracedInit, Init, VisitInv
<1>4. TreeInv /\ AgentInv
  BY DEF TracedInit, NoTrace, Init, TreeInv, AgentInv
<1> QED
  BY <1>1, <1>2, <1>3, <1>4 DEF TracedTypeOK

(* Every step of the composition is one of the process or leaves it alone. *)
LEMMA StepIsStep == [TracedNext]_all_vars => [Next]_vars
  BY DEF TracedNext, Enters, VisitGoesOn, VisitIsOver, Flushes, Commits, Others, all_vars,
     Next, Run, Main

LEMMA StepFlags == TypeOK /\ VisitInv /\ [Next]_vars => TypeOK' /\ VisitInv'
<1> SUFFICES ASSUME TypeOK, VisitInv, [Next]_vars
             PROVE  TypeOK' /\ VisitInv'
  OBVIOUS
<1> DEFINE T == /\ pc \in Steps /\ visited \in 0..NumInstances
                /\ saved \in {"no", "yes", "failed"}
                /\ cancelled \in BOOLEAN /\ ctxDone \in BOOLEAN /\ tick \in BOOLEAN
                /\ ticking \in BOOLEAN /\ expired \in BOOLEAN /\ sent \in BOOLEAN
<1>1. T /\ (TypeOK <=> T) /\ (TypeOK' <=> T')
  <2>1. TypeOK <=> T
    BY FlagsType
  <2>2. TypeOK' <=> T'
    BY DEF TypeOK
  <2> QED
    BY <2>1, <2>2
<1> SUFFICES T' /\ VisitInv'
  BY <1>1
<1> USE DEF VisitInv, run_vars, Steps, RunSteps, Over
<1>2. CASE Start \/ JitterOver \/ TickTaken
  BY <1>1, <1>2, StartsFirst DEF Start, JitterOver, TickTaken, EnterRun
<1>3. CASE ShutDown \/ TickerFires \/ Kill \/ EntriesExpire
  BY <1>1, <1>3 DEF ShutDown, TickerFires, Kill, EntriesExpire
<1>4. CASE Signal \/ Deadline
  BY <1>1, <1>4 DEF Signal, Deadline
<1>5. CASE VisitInstance
  BY <1>1, <1>5, LifecycleAssumption DEF VisitInstance
<1>6. CASE PurgeTrash \/ CommitAndFlush
  BY <1>1, <1>6 DEF PurgeTrash, CommitAndFlush
<1>7. CASE Persist \/ Notify
  BY <1>1, <1>7 DEF Persist, Notify
<1>8. CASE RunReturns
  BY <1>1, <1>8, LifecycleAssumption DEF RunReturns
<1>9. CASE UNCHANGED vars
  BY <1>1, <1>9 DEF vars
<1> QED
  BY <1>2, <1>3, <1>4, <1>5, <1>6, <1>7, <1>8, <1>9 DEF Next, Run, Main

-----------------------------------------------------------------------------
(* What a step does to the trace.                                          *)
Resets == StartRun /\ pc' = "visit"
Grows == pc = "visit" /\ Tracing /\ UNCHANGED vars
Closes == /\ current' = 0
          /\ UNCHANGED <<opened, spans, evals, agentSpans, agentEvals>>
          /\ pc = "visit" /\ pc' \in {"visit", "purge"}
Posts == pc = "flush" /\ pc' = "persist" /\ Flush(ctxDone)
Rests == UNCHANGED trace_vars /\ (pc' = pc \/ pc' \notin {"visit", "purge", "commit", "flush"}
                                  \/ pc \in {"purge", "commit"})

LEMMA IdsGrow ==
    ASSUME NEW set, NEW i, NEW p
    PROVE  IdsOf(set \cup {[id |-> i, parent |-> p]}) = IdsOf(set) \cup {i}
<1> DEFINE new == [id |-> i, parent |-> p]
<1>1. new.id = i
  OBVIOUS
<1> HIDE DEF new
<1>2. \A x : x \in IdsOf(set \cup {new}) <=> x \in IdsOf(set) \cup {i}
  BY <1>1 DEF IdsOf
<1> QED
  BY <1>2 DEF new

LEMMA FlushSteps ==
    ASSUME TreeInv, Posts
    PROVE  /\ UNCHANGED <<opened, evals, current>>
           /\ spans' = IF RootRecorded THEN spans ELSE spans \cup {[id |-> Root, parent |-> 0]}
           /\ agentSpans' \in {{}, spans'}
           /\ agentEvals' \in {{}, evals} /\ (agentEvals' # {} => agentSpans' = spans')
  BY DEF Posts, Flush, Finish, EvalsPosted

(* A span that is finished while visiting: a fresh id, under the root or   *)
(* under the span of the answer.                                           *)
LEMMA GrowSteps ==
    ASSUME TraceTypeOK, TreeInv, AgentInv, Grows
    PROVE  /\ UNCHANGED <<pc, agentSpans, agentEvals>> /\ agentSpans = {} /\ agentEvals = {}
           /\ opened \in Nat \ {0} /\ opened' = opened + 1 /\ opened' <= SpanBound
           /\ \/ UNCHANGED <<spans, evals, current>>
              \/ \E parent \in {Root, current} :
                    /\ parent # 0
                    /\ spans' = spans \cup {[id |-> opened', parent |-> parent]}
                    /\ evals' \in {evals, evals \cup {[span |-> opened', label |-> l] : l \in Labels}}
                    /\ current' \in {current, opened', 0}
<1>1. /\ pc = "visit" /\ pc' = pc /\ agentSpans = {} /\ agentEvals = {} /\ opened > 0
      /\ opened \in Nat
  BY TraceType, TraceAssumption DEF Grows, AgentInv, vars
<1>2. opened < SpanBound /\ opened' = opened + 1
  BY DEF Grows, Tracing, Dispatch, ModelDecides, RuleDecides, Decide, DecidesUnknown
<1>3. opened' <= SpanBound
  BY <1>1, <1>2, TraceAssumption
<1>4. CASE Dispatch
  BY <1>1, <1>2, <1>3, <1>4 DEF Dispatch, Finish, Root
<1>5. CASE ModelDecides
  BY <1>1, <1>2, <1>3, <1>5 DEF ModelDecides, Decide, Finish
<1>6. CASE RuleDecides
  BY <1>1, <1>2, <1>3, <1>6 DEF RuleDecides, Decide, Finish, Root
<1>7. CASE DecidesUnknown
  BY <1>1, <1>2, <1>3, <1>7 DEF DecidesUnknown
<1> QED
  BY <1>4, <1>5, <1>6, <1>7 DEF Grows, Tracing

LEMMA TraceSteps ==
    [TracedNext]_all_vars => Resets \/ Grows \/ Closes \/ Posts \/ Rests
<1> SUFFICES ASSUME [TracedNext]_all_vars
             PROVE  Resets \/ Grows \/ Closes \/ Posts \/ Rests
  OBVIOUS
<1>1. CASE Enters
  BY <1>1 DEF Enters, Start, JitterOver, TickTaken, EnterRun, Resets, Rests
<1>2. CASE VisitGoesOn \/ VisitIsOver
  BY <1>2 DEF VisitGoesOn, VisitIsOver, VisitInstance, Grows, Closes
<1>3. CASE Flushes \/ Commits
  BY <1>3 DEF Flushes, Commits, CommitAndFlush, Posts, Rests
<1>4. CASE Others
  BY <1>4 DEF Others, PurgeTrash, Persist, Notify, RunReturns, ShutDown, TickerFires,
     Signal, Deadline, Kill, EntriesExpire, Rests
<1>5. CASE UNCHANGED all_vars
  BY <1>5 DEF all_vars, vars, Rests
<1> QED
  BY <1>1, <1>2, <1>3, <1>4, <1>5 DEF TracedNext
-----------------------------------------------------------------------------
LEMMA StepTraceType ==
    ASSUME TraceTypeOK, TreeInv, AgentInv, [TracedNext]_all_vars
    PROVE  TraceTypeOK'
<1> DEFINE T == /\ opened \in 0..SpanBound /\ current \in 0..opened
                /\ spans \subseteq SpanType /\ agentSpans \subseteq SpanType
                /\ evals \subseteq EvalType /\ agentEvals \subseteq EvalType
<1>1. T /\ (TraceTypeOK' <=> T')
  <2>1. T
    BY TraceType
  <2>2. TraceTypeOK' <=> T'
    BY DEF TraceTypeOK, SpanType, EvalType
  <2> QED
    BY <2>1, <2>2
<1> SUFFICES T'
  BY <1>1
<1>2. CASE Resets
  BY <1>2, StartsFirst DEF Resets, StartRun, Root
<1>3. CASE Grows
  <2>1. opened \in Nat \ {0} /\ opened' = opened + 1 /\ opened' <= SpanBound
    BY <1>3, GrowSteps
  <2>2. SpanType \subseteq SpanType' /\ EvalType \subseteq EvalType'
    BY <2>1 DEF SpanType, EvalType
  <2>3. opened' \in 0..SpanBound /\ UNCHANGED <<agentSpans, agentEvals>>
    BY <1>3, <2>1, GrowSteps, TraceAssumption
  <2>4. CASE UNCHANGED <<spans, evals, current>>
    BY <1>1, <2>1, <2>2, <2>3, <2>4
  <2>5. ASSUME NEW parent \in {Root, current}, parent # 0,
               spans' = spans \cup {[id |-> opened', parent |-> parent]},
               evals' \in {evals, evals \cup {[span |-> opened', label |-> l] : l \in Labels}},
               current' \in {current, opened', 0}
        PROVE  T'
    <3>1. parent \in 0..opened'
      BY <1>1, <2>1 DEF Root
    <3>2. [id |-> opened', parent |-> parent] \in SpanType'
      BY <2>1, <3>1 DEF SpanType
    <3>3. \A l \in Labels : [span |-> opened', label |-> l] \in EvalType'
      BY <2>1 DEF EvalType
    <3>4. current' \in 0..opened'
      BY <1>1, <2>1, <2>5
    <3> QED
      BY <1>1, <2>2, <2>3, <2>5, <3>2, <3>3, <3>4
  <2> QED
    BY <1>3, <2>4, <2>5, GrowSteps
<1>4. CASE Closes
  <2>1. 0 \in 0..opened
    BY <1>1
  <2> QED
    BY <1>1, <1>4, <2>1 DEF Closes, SpanType, EvalType
<1>5. CASE Posts
  <2>1. UNCHANGED <<opened, evals, current>> /\ SpanType' = SpanType /\ EvalType' = EvalType
    BY <1>5, FlushSteps DEF SpanType, EvalType
  <2>2. [id |-> Root, parent |-> 0] \in SpanType
    <3>1. opened > 0 /\ opened \in Nat
      BY <1>1, <1>5, TraceAssumption DEF Posts, AgentInv
    <3> QED
      BY <3>1 DEF SpanType, Root
  <2> QED
    BY <1>1, <1>5, <2>1, <2>2, FlushSteps
<1>6. CASE Rests
  BY <1>1, <1>6 DEF Rests, trace_vars, SpanType, EvalType
<1> QED
  BY <1>2, <1>3, <1>4, <1>5, <1>6, TraceSteps

-----------------------------------------------------------------------------
(* The finished spans are a tree but for the root, which is finished last. *)
LEMMA StepTree ==
    ASSUME TraceTypeOK, TreeInv, AgentInv, [TracedNext]_all_vars
    PROVE  TreeInv'
<1>1. opened \in Nat /\ current \in 0..opened
  BY TraceType, TraceAssumption
<1>2. CASE Resets
  BY <1>2 DEF Resets, StartRun, TreeInv, IdsOf
<1>3. CASE Grows
  <2>1. opened > 0 /\ opened' = opened + 1
    BY <1>3, GrowSteps
  <2>2. CASE UNCHANGED <<spans, evals, current>>
    BY <1>1, <2>1, <2>2 DEF TreeInv, IdsOf, Root
  <2>3. ASSUME NEW parent \in {Root, current}, parent # 0,
               spans' = spans \cup {[id |-> opened', parent |-> parent]},
               evals' \in {evals, evals \cup {[span |-> opened', label |-> l] : l \in Labels}},
               current' \in {current, opened', 0}
        PROVE  TreeInv'
    <3> DEFINE new == [id |-> opened', parent |-> parent]
    <3>1. IdsOf(spans)' = IdsOf(spans) \cup {opened'}
      BY <2>3, IdsGrow DEF IdsOf
    <3>2. opened' \notin IdsOf(spans) /\ opened' # Root /\ parent # opened'
          /\ parent \in IdsOf(spans) \cup {Root}
      BY <1>1, <2>1, <2>3 DEF TreeInv, IdsOf, Root
    <3>3. \A s \in spans' : /\ s.id \in Root..opened'
                            /\ IF s.id = Root THEN s.parent = 0
                               ELSE /\ s.parent # 0 /\ s.parent # s.id
                                    /\ s.parent \in IdsOf(spans)' \cup {Root}
      <4>1. \A s \in spans : s \in spans' => s.id \in Root..opened'
        BY <1>1, <2>1 DEF TreeInv
      <4>2. opened' \in Root..opened'
        BY <1>1, <2>1 DEF Root
      <4> QED
        BY <2>3, <3>1, <3>2, <4>1, <4>2 DEF TreeInv
    <3>4. \A s, t \in spans' : s.id = t.id => s = t
      BY <2>3, <3>2 DEF TreeInv, IdsOf
    <3>5. \A v \in evals' : v.span \in IdsOf(spans)'
      <4>1. \A v \in evals : v.span \in IdsOf(spans)
        BY DEF TreeInv
      <4>2. \A l \in Labels : [span |-> opened', label |-> l].span = opened'
        OBVIOUS
      <4>3. \A v \in evals' : v \in evals \/ \E l \in Labels : v = [span |-> opened', label |-> l]
        BY <2>3
      <4> QED
        BY <3>1, <4>1, <4>2, <4>3
    <3>6. current' # 0 => current' \in IdsOf(spans)'
      BY <2>3, <3>1 DEF TreeInv
    <3> QED
      BY <3>3, <3>4, <3>5, <3>6 DEF TreeInv
  <2> QED
    BY <1>3, <2>2, <2>3, GrowSteps
<1>4. CASE Closes \/ Rests
  BY <1>4 DEF Closes, Rests, trace_vars, TreeInv, IdsOf
<1>5. CASE Posts
  <2>1. UNCHANGED <<opened, evals, current>> /\ opened > 0
    BY <1>5, FlushSteps DEF Posts, AgentInv
  <2>2. CASE RootRecorded
    BY <1>5, <2>1, <2>2, FlushSteps DEF TreeInv, IdsOf
  <2>3. CASE ~RootRecorded
    <3>1. spans' = spans \cup {[id |-> Root, parent |-> 0]} /\ Root \notin IdsOf(spans)
      BY <1>5, <2>3, FlushSteps DEF RootRecorded, IdsOf
    <3>2. IdsOf(spans)' = IdsOf(spans) \cup {Root}
      <4>1. IdsOf(spans)' = IdsOf(spans \cup {[id |-> Root, parent |-> 0]})
        BY <3>1 DEF IdsOf
      <4> QED
        BY <4>1, IdsGrow
    <3>3. Root \in Root..opened
      BY <1>1, <2>1 DEF Root
    <3>4. \A s \in spans' : /\ s.id \in Root..opened'
                            /\ IF s.id = Root THEN s.parent = 0
                               ELSE /\ s.parent # 0 /\ s.parent # s.id
                                    /\ s.parent \in IdsOf(spans)' \cup {Root}
      <4>1. \A s \in spans : s \in spans' => s.id \in Root..opened'
        BY <2>1 DEF TreeInv
      <4>2. [id |-> Root, parent |-> 0].id = Root /\ [id |-> Root, parent |-> 0].parent = 0
        OBVIOUS
      <4> QED
        BY <2>1, <3>1, <3>2, <3>3, <4>1, <4>2 DEF TreeInv
    <3>5. \A s, t \in spans' : s.id = t.id => s = t
      BY <3>1 DEF TreeInv, IdsOf
    <3> QED
      BY <2>1, <3>2, <3>4, <3>5 DEF TreeInv
  <2> QED
    BY <2>2, <2>3
<1> QED
  BY <1>2, <1>3, <1>4, <1>5, TraceSteps

LEMMA StepAgent ==
    ASSUME TraceTypeOK, TreeInv, AgentInv, [TracedNext]_all_vars
    PROVE  AgentInv'
<1>1. CASE Resets
  BY <1>1 DEF Resets, StartRun, AgentInv, Root
<1>2. CASE Grows
  BY <1>2, GrowSteps DEF AgentInv
<1>3. CASE Closes \/ Rests
  BY <1>3 DEF Closes, Rests, trace_vars, AgentInv, RootRecorded
<1>4. CASE Posts
  <2>1. pc' = "persist"
    BY <1>4 DEF Posts
  <2>2. RootRecorded'
    <3>1. CASE RootRecorded
      BY <1>4, <3>1, FlushSteps DEF RootRecorded
    <3>2. CASE ~RootRecorded
      <4>1. [id |-> Root, parent |-> 0] \in spans'
        BY <1>4, <3>2, FlushSteps
      <4>2. [id |-> Root, parent |-> 0].id = Root
        OBVIOUS
      <4> QED
        BY <4>1, <4>2 DEF RootRecorded
    <3> QED
      BY <3>1, <3>2
  <2> QED
    BY <1>4, <2>1, <2>2, FlushSteps DEF AgentInv
<1> QED
  BY <1>1, <1>2, <1>3, <1>4, TraceSteps

-----------------------------------------------------------------------------
LEMMA Invariants ==
    TracedSpec => [](TracedTypeOK /\ VisitInv /\ TreeInv /\ AgentInv)
<1> DEFINE I == TracedTypeOK /\ VisitInv /\ TreeInv /\ AgentInv
<1>1. TracedInit => I
  BY InitTraced
<1>2. I /\ [TracedNext]_all_vars => I'
  BY StepIsStep, StepFlags, StepTraceType, StepTree, StepAgent DEF TracedTypeOK
<1> HIDE DEF I
<1>3. TracedSpec => []I
  BY <1>1, <1>2, PTL DEF TracedSpec
<1> QED
  BY <1>3 DEF I

(* The process, its runs and their traces stay well typed.                 *)
THEOREM TypeCorrect == TracedSpec => []TracedTypeOK
  BY Invariants, PTL

(* What the agent gets of a run is one whole tree of spans, in every order *)
(* of dispatches, decisions and failures.                                  *)
THEOREM TreeArrivesWhole == TracedSpec => []TraceConnected
<1>1. TracedTypeOK /\ TreeInv /\ AgentInv => TraceConnected
  <2> SUFFICES ASSUME TracedTypeOK, TreeInv, AgentInv, agentSpans # {}
               PROVE  /\ \E s \in agentSpans : s.parent = 0
                      /\ \A s \in agentSpans :
                           s.parent # 0 => s.parent \in IdsOf(agentSpans) \ {s.id}
                      /\ \A s, t \in agentSpans : s.id = t.id \/ s.parent + t.parent = 0 => s = t
    BY DEF TraceConnected
  <2>1. agentSpans = spans /\ RootRecorded
    BY DEF AgentInv
  <2>2. PICK r \in spans : r.id = Root /\ r.parent = 0
    BY <2>1 DEF RootRecorded, TreeInv
  <2>3. Root \in IdsOf(spans)
    BY <2>2 DEF IdsOf
  <2>4. \A s \in spans : s.parent \in Nat
    BY TraceType DEF TracedTypeOK, SpanType
  <2>5. \A s, t \in spans : s.parent + t.parent = 0 => s.id = Root /\ t.id = Root
    BY <2>4 DEF TreeInv
  <2>6. \A s \in spans : s.parent # 0 => s.parent \in IdsOf(spans) \ {s.id}
    BY <2>3 DEF TreeInv
  <2>7. \A s, t \in spans : s.id = t.id \/ s.parent + t.parent = 0 => s = t
    BY <2>5 DEF TreeInv
  <2> QED
    BY <2>1, <2>2, <2>6, <2>7
<1> QED
  BY <1>1, Invariants, PTL

(* No evaluation arrives without its span.                                 *)
THEOREM EvaluationsJoin == TracedSpec => []EvalsJoin
<1>1. TreeInv /\ AgentInv => EvalsJoin
  BY DEF TreeInv, AgentInv, EvalsJoin
<1> QED
  BY <1>1, Invariants, PTL
=============================================================================
