--------------------------- MODULE ModelCallsProofs ---------------------------
(***************************************************************************)
(* Proofs about ModelCalls: asking the model about any number of chunks    *)
(* implements Answers, and a batch that ends in time is read.              *)
(***************************************************************************)
EXTENDS ModelCalls, TLAPS

Working == {"decide", "submit", "poll", "wait", "stream", "dispatch"}
Batched == {"submit", "poll", "wait", "stream"}
CallSteps == Working \cup {"idle", "over", "failed"}

(* While chunks are open not all are resolved, a batch has resolved none   *)
(* before its results are dispatched, and what is filed under an id answers*)
(* the request of that id.                                                 *)
OrderInv ==
    /\ batchMode \in BOOLEAN
    /\ call \in CallSteps
    /\ asked \in Nat /\ outcomes \in Seq(Nat)
    /\ call = "idle" => asked = 0 /\ outcomes = <<>>
    /\ call \in Working => Len(outcomes) < asked
    /\ call \in Batched => batchMode /\ outcomes = <<>>
    /\ call # "idle" => /\ byID \in [1..asked -> Nat]
                        /\ \A i \in 1..asked : byID[i] \in {0, i}

CallStep == Calling \/ BatchEnds \/ \E n \in Nat : Ask(n)

LEMMA OrderInit == CallInit => OrderInv
  BY CallsAssumption DEF CallInit, OrderInv, CallSteps, Working, Batched

(* One more outcome leaves a sequence of outcomes, one longer.             *)
LEMMA Resolved ==
  ASSUME OrderInv, call \in {"decide", "dispatch"},
         NEW outcome \in {0, Len(outcomes) + 1}, Dispatch(outcome)
  PROVE  /\ OrderInv'
         /\ A!Resolve
         /\ batchMode' = batchMode
<1>1. outcome \in Nat /\ outcomes' \in Seq(Nat) /\ Len(outcomes') = Len(outcomes) + 1
  BY DEF Dispatch, OrderInv
<1>2. Len(outcomes) < asked /\ asked' = asked /\ byID' = byID /\ batchMode' = batchMode
  BY DEF Dispatch, OrderInv, Working, clock_vars
<1>3. call' = IF Len(outcomes') = asked THEN "over" ELSE call
  BY DEF Dispatch
<1>4. OrderInv'
  BY <1>1, <1>2, <1>3 DEF OrderInv, CallSteps, Working, Batched
<1>5. A!Resolve
  BY <1>1, <1>2, <1>3 DEF A!Resolve, Dispatch, Over
<1> QED BY <1>2, <1>4, <1>5

(* Every step keeps the invariant and is a step of Answers, or none.       *)
LEMMA OrderStep ==
  ASSUME OrderInv, [CallStep]_call_vars
  PROVE  OrderInv' /\ [A!Next]_<<batchMode, asked, outcomes, Over>>
<1> DEFINE Goal == OrderInv' /\ [A!Next]_<<batchMode, asked, outcomes, Over>>
<1>a. ASSUME NEW n \in Nat, Ask(n) PROVE Goal
  <2>1. OrderInv'
    BY <1>a DEF Ask, OrderInv, CallSteps, Working, Batched, clock_vars
  <2>2. CASE n = 0
    BY <1>a, <2>1, <2>2 DEF Ask, OrderInv, A!Next, A!Skip, Over, clock_vars
  <2>3. CASE n # 0
    BY <1>a, <2>1, <2>3 DEF Ask, OrderInv, A!Next, A!Ask, Over, clock_vars
  <2> QED BY <2>1, <2>2, <2>3
<1>b. CASE Decide
  <2>1. PICK outcome \in {0, Len(outcomes) + 1} : Dispatch(outcome)
    BY <1>b DEF Decide
  <2> QED BY <1>b, <2>1, Resolved DEF Decide, A!Next
<1>c. CASE DispatchResult
  <2>1. byID[Len(outcomes) + 1] \in {0, Len(outcomes) + 1}
    BY <1>c DEF DispatchResult, OrderInv, Working
  <2> QED BY <1>c, <2>1, Resolved DEF DispatchResult, A!Next
<1>d. CASE BatchFails
  BY <1>d DEF BatchFails, Fail, OrderInv, CallSteps, Working, Batched, clock_vars,
              A!Next, A!GiveUp, Over
<1>e. CASE Submit \/ Poll \/ WaitOver \/ StreamEnds \/ ClockTicks \/ BatchEnds
  BY <1>e DEF Submit, Poll, WaitOver, StreamEnds, ClockTicks, BatchEnds,
              OrderInv, CallSteps, Working, Batched, clock_vars, Over
<1>f. ASSUME NEW i \in 1..asked, ResultLine(i) PROVE Goal
  <2>1. byID' \in [1..asked -> Nat] /\ \A j \in 1..asked : byID'[j] \in {0, j}
    <3>1. /\ call = "stream" /\ i \in Nat
          /\ byID \in [1..asked -> Nat] /\ \A j \in 1..asked : byID[j] \in {0, j}
      BY <1>f DEF ResultLine, OrderInv
    <3>2. PICK answer \in {0, i} : byID' = [byID EXCEPT ![i] = answer]
      BY <1>f DEF ResultLine, FileByID
    <3> QED BY <3>1, <3>2
  <2>2. UNCHANGED <<batchMode, call, asked, outcomes>>
    BY <1>f DEF ResultLine, clock_vars
  <2>3. OrderInv'
    BY <2>1, <2>2 DEF OrderInv
  <2> QED BY <2>2, <2>3 DEF Over
<1>g. CASE UNCHANGED call_vars
  BY <1>g DEF call_vars, OrderInv, Over
<1> QED BY <1>a, <1>b, <1>c, <1>d, <1>e, <1>f, <1>g DEF CallStep, Calling

(* The chunks of a list are resolved in order, each once, with the answer  *)
(* to that chunk or with none (runBatched, DecideBatch): ModelCalls        *)
(* implements Answers.                                                     *)
THEOREM CallsImplementAnswers == CallsSpec => AnswersInOrder
<1>1. CallInit => A!Init
  BY CallsAssumption DEF CallInit, A!Init, Over
<1> QED BY <1>1, OrderInit, OrderStep, PTL DEF CallsSpec, CallStep, AnswersInOrder, A!Spec

-----------------------------------------------------------------------------
(* The client looks at the batch right after each tick, so one that it     *)
(* still waits for ended after the last tick, or the tick is pending.      *)
ClockInv ==
    /\ limit \in Nat /\ now \in Nat /\ tickAt \in Nat /\ endedAt \in Nat
    /\ due \in BOOLEAN /\ ended \in BOOLEAN
    /\ call \in {"idle", "submit"} => now = 0 /\ ~due
    /\ call \in {"poll", "wait"} => now < tickAt /\ tickAt <= now + PollInterval
    /\ call = "poll" => ~due
    /\ call = "wait" => /\ now <= limit
                        /\ due => tickAt = now + PollInterval
                        /\ ended /\ ~due => tickAt <= endedAt + PollInterval
                        /\ ended /\ due => now <= endedAt + PollInterval

LEMMA ClockInit == CallInit => ClockInv
<1> SUFFICES ASSUME CallInit PROVE ClockInv
  OBVIOUS
<1>1. call = "idle" /\ limit = 0 /\ now = 0 /\ tickAt = 0 /\ endedAt = 0 /\ due = FALSE /\ ended = FALSE
  BY DEF CallInit
<1> QED BY <1>1 DEF ClockInv

LEMMA ClockStep ==
  ASSUME ClockInv, [CallStep]_call_vars
  PROVE  ClockInv'
<1> USE CallsAssumption DEF ClockInv, clock_vars
<1>a. ASSUME NEW n \in Nat, Ask(n) PROVE ClockInv'
  BY <1>a DEF Ask
<1>b. CASE Decide \/ DispatchResult
  BY <1>b DEF Decide, DispatchResult, Dispatch
<1>c. CASE Submit
  BY <1>c DEF Submit
<1>d. CASE Poll
  BY <1>d DEF Poll
<1>e. CASE WaitOver
  BY <1>e DEF WaitOver
<1>f. CASE BatchFails
  BY <1>f DEF BatchFails, Fail
<1>g. CASE StreamEnds
  BY <1>g DEF StreamEnds
<1>h. CASE ClockTicks
  <2>1. CASE now + 1 = tickAt
    BY <1>h, <2>1 DEF ClockTicks
  <2>2. CASE now + 1 # tickAt
    BY <1>h, <2>2 DEF ClockTicks
  <2> QED BY <2>1, <2>2
<1>i. CASE BatchEnds
  BY <1>i DEF BatchEnds
<1>j. ASSUME NEW i \in 1..asked, ResultLine(i) PROVE ClockInv'
  BY <1>j DEF ResultLine
<1>k. CASE UNCHANGED call_vars
  BY <1>k DEF call_vars
<1> QED BY <1>a, <1>b, <1>c, <1>d, <1>e, <1>f, <1>g, <1>h, <1>i, <1>j, <1>k
        DEF CallStep, Calling

(* A batch is given up while it is waited for only at the limit, which is  *)
(* then at most a poll interval after its end.                             *)
LEMMA GivenUpAtLimit ==
    ASSUME ClockInv, [CallStep]_call_vars
    PROVE  [call = "wait" /\ call' = "failed" /\ ended
              => endedAt + PollInterval >= limit]_call_vars
<1> SUFFICES ASSUME CallStep, call = "wait", call' = "failed", ended
             PROVE  endedAt + PollInterval >= limit
  OBVIOUS
<1>1. now >= limit
  BY DEF CallStep, Calling, Ask, Decide, DispatchResult, Dispatch, Submit, Poll, WaitOver,
         BatchFails, StreamEnds, ClockTicks, BatchEnds, ResultLine
<1> QED
  BY <1>1, CallsAssumption DEF ClockInv

(* A batch that ended a poll interval or more before the context was done  *)
(* is read, whatever the interval and the timeout (waitForBatch).          *)
THEOREM EndedIsRead == CallsSpec => ReadInTime
  BY GivenUpAtLimit, ClockInit, ClockStep, PTL DEF CallsSpec, CallStep, ReadInTime
=============================================================================
