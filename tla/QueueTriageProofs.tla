-------------------------- MODULE QueueTriageProofs --------------------------
(***************************************************************************)
(* Theorems about QueueTriage, for every set of records and instances and  *)
(* every configuration.                                                    *)
(***************************************************************************)
EXTENDS QueueTriage, TLAPS

(* A record's key is one of the keys, and of its instance's keys.          *)
LEMMA KeyInKeys == \A r \in Records : Key(r) \in Keys
  BY DEF Keys

(* Bumping a streak stays within the bound, and keeps one below another.   *)
LEMMA BumpType == \A n \in 0..StreakBound : Bump(n) \in 0..StreakBound
  BY BoundAssumption DEF Bump

LEMMA BumpMonotone ==
    \A m, n \in 0..StreakBound : m <= n => Bump(m) <= Bump(n) /\ m <= Bump(n)
  BY BoundAssumption DEF Bump

(* Capping and chunking only ever take candidates away.                    *)
LEMMA CutsAreSubsets == \A S : Capped(S) \subseteq S /\ Chunk(S) \subseteq S
  BY DEF Capped, Chunk, Cut, FirstOf

LEMMA FirstInstance == 1 \in 1..NumInstances
  BY InstancesAssumption

LEMMA ZerosType == Zeros \in [Keys -> 0..StreakBound]
  BY BoundAssumption DEF Zeros

LEMMA StreaksType ==
    ASSUME TypeOK, NEW i \in 1..NumInstances
    PROVE  Streaks(i) \in [Keys -> 0..StreakBound]
  BY BumpType DEF TypeOK, Streaks

-----------------------------------------------------------------------------
(* The state is well typed: counters are numbers, streaks stay within their*)
(* bound, and a visit only ever handles records of the queue.              *)
LEMMA InitTypeOK == Init => TypeOK
<1> SUFFICES ASSUME Init PROVE TypeOK
  OBVIOUS
<1>1. /\ store \in [Keys -> 0..StreakBound]
      /\ counts \in [Keys -> 0..StreakBound]
      /\ next \in [Keys -> 0..StreakBound]
      /\ consec \in [Keys -> 0..StreakBound]
      /\ sightings \in [Keys -> 0..StreakBound]
  BY ZerosType DEF Init
<1>2. pc \in Steps /\ inst \in 1..NumInstances /\ ctxDone \in BOOLEAN
  BY FirstInstance DEF Init, Steps
<1> QED
  BY <1>1, <1>2 DEF Init, TypeOK

LEMMA LeaveType ==
    ASSUME TypeOK, Leave
    PROVE  /\ inst' \in 1..NumInstances
           /\ pc' \in {"fetch", "commit"}
           /\ refIndex' = {} /\ left' = {} /\ removed' = 0 /\ performed' = 0
  BY InstancesAssumption DEF TypeOK, Leave

THEOREM StepTypeOK == TypeOK /\ [Next]_vars => TypeOK'
<1> SUFFICES ASSUME TypeOK, [Next]_vars
             PROVE  TypeOK'
  OBVIOUS
<1> USE DEF TypeOK, Steps
<1>1. CASE StartRun
  BY <1>1, ZerosType, ConfigAssumption DEF StartRun, visit_vars, CalmKeys
<1>2. CASE FetchFails
  BY <1>2, LeaveType DEF FetchFails, store_vars
<1>3. CASE FetchQueue
  <2>1. next' \in [Keys -> 0..StreakBound]
    BY <1>3, StreaksType DEF FetchQueue
  <2>2. consec' \in [Keys -> 0..StreakBound]
    BY <1>3, BumpType, BoundAssumption DEF FetchQueue
  <2>3. sightings' \in [Keys -> 0..StreakBound]
    BY <1>3, BumpType DEF FetchQueue
  <2>4. Eligible(inst) \subseteq Records
    BY DEF Eligible, StuckIn
  <2>5. /\ pc' \in Steps /\ inst' \in 1..NumInstances
        /\ refIndex' \subseteq Records /\ left' \subseteq Records
        /\ removed' \in Nat /\ performed' \in Nat
    BY <1>3, <2>4, LeaveType DEF FetchQueue
  <2> QED
    BY <1>3, <2>1, <2>2, <2>3, <2>5 DEF FetchQueue
<1>4. CASE Funnel
  <2>1. PICK kept \in SUBSET left :
          IF kept = left THEN Leave
          ELSE /\ left' = Capped(left \ kept)
               /\ pc' = IF BatchMode THEN "submit" ELSE "ask"
               /\ UNCHANGED <<inst, refIndex, removed, performed>>
    BY <1>4 DEF Funnel
  <2>2. /\ pc' \in Steps /\ inst' \in 1..NumInstances
        /\ refIndex' \subseteq Records /\ left' \subseteq Records
        /\ removed' \in Nat /\ performed' \in Nat
    BY <2>1, LeaveType, CutsAreSubsets
  <2> QED
    BY <1>4, <2>2 DEF Funnel, store_vars
<1>5. CASE SubmitBatch
  BY <1>5 DEF SubmitBatch, store_vars, visit_vars
<1>6. CASE SubmitFails
  BY <1>6, LeaveType DEF SubmitFails, store_vars
<1>7. CASE ChunkAnswered
  BY <1>7, CutsAreSubsets DEF ChunkAnswered, store_vars
<1>8. CASE ChunkFails
  BY <1>8, LeaveType DEF ChunkFails, NextChunk, store_vars
<1>9. CASE EndOfAnswer
  BY <1>9, LeaveType DEF EndOfAnswer, NextChunk, store_vars
<1>10. CASE Commit
  <2>1. sightings' \in [Keys -> 0..StreakBound]
    BY <1>10, BoundAssumption DEF Commit
  <2> QED
    BY <1>10, <2>1, FirstInstance DEF Commit, RunIsOver, visit_vars
<1>11. ASSUME NEW r \in Records, Apply(r)
       PROVE  TypeOK'
  BY <1>11, KeyInKeys DEF Apply, Remove, RemoveDryRun, RemoveDone, RemoveGone,
     RemoveReplyLost, DropDownload, store_vars, visit_vars, ghost_vars, Healths
<1>12. ASSUME NEW r \in Records, QueueChanges(r)
       PROVE  TypeOK'
  <2>1. health' \in [Records -> Healths]
    BY <1>12 DEF QueueChanges
  <2>2. wavered' \subseteq Keys
    BY <1>12 DEF QueueChanges, CalmKeys
  <2> QED
    BY <1>12, <2>1, <2>2 DEF QueueChanges, store_vars, visit_vars
<1>13. CASE ContextEnds
  BY <1>13 DEF ContextEnds, store_vars, visit_vars, ghost_vars
<1>14. CASE Crash
  BY <1>14, ZerosType, FirstInstance DEF Crash, RunIsOver
<1>15. CASE UNCHANGED vars
  BY <1>15 DEF vars, store_vars, visit_vars, ghost_vars
<1> QED
  BY <1>1, <1>2, <1>3, <1>4, <1>5, <1>6, <1>7, <1>8, <1>9, <1>10, <1>11, <1>12,
     <1>13, <1>14, <1>15 DEF Next, Progress

THEOREM TypeCorrect == Spec => []TypeOK
<1>1. Init => TypeOK
  BY InitTypeOK
<1>2. TypeOK /\ [Next]_vars => TypeOK'
  BY StepTypeOK
<1> QED
  BY <1>1, <1>2, PTL DEF Spec

-----------------------------------------------------------------------------
(* The grace period: a record that may be removed was seen stuck by at     *)
(* least GraceRuns runs, no committed run between them having missed it.   *)

LEMMA InitBacked == Init => BackedInv
<1> SUFFICES ASSUME Init PROVE BackedInv
  OBVIOUS
<1>1. \A k \in Keys : store[k] = 0 /\ counts[k] = 0 /\ next[k] = 0 /\ sightings[k] = 0
  BY DEF Init, Zeros
<1> QED
  BY <1>1 DEF Init, BackedInv, EligibleBacked

LEMMA LeaveBacked ==
    ASSUME BackedInv, Leave,
           UNCHANGED <<store, counts, next, sightings>>
    PROVE  BackedInv'
  BY DEF BackedInv, EligibleBacked, Leave

LEMMA NextChunkBacked ==
    ASSUME BackedInv, NEW rest, rest \subseteq left, NextChunk(rest), pc \in Visiting,
           UNCHANGED <<store, counts, next, sightings>>
    PROVE  BackedInv'
<1>1. CASE rest # {}
  BY <1>1 DEF BackedInv, EligibleBacked, NextChunk, Visiting
<1>2. CASE rest = {}
  BY <1>2, LeaveBacked DEF NextChunk
<1> QED
  BY <1>1, <1>2

LEMMA StepBacked == TypeOK /\ BackedInv /\ [Next]_vars => BackedInv'
<1> SUFFICES ASSUME TypeOK, BackedInv, [Next]_vars
             PROVE  BackedInv'
  OBVIOUS
<1>1. CASE StartRun
  <2>1. \A k \in Keys : counts'[k] <= sightings[k] /\ next'[k] <= sightings[k]
    BY <1>1 DEF StartRun, Zeros, TypeOK, BackedInv
  <2> QED
    BY <1>1, <2>1 DEF StartRun, visit_vars, BackedInv, EligibleBacked, Visiting
<1>2. CASE FetchFails
  BY <1>2, LeaveBacked DEF FetchFails, store_vars
<1>3. CASE FetchQueue
  <2>1. \A k \in Keys : sightings[k] <= sightings'[k]
    BY <1>3, BumpMonotone DEF FetchQueue, TypeOK
  <2>2. \A k \in Keys : next'[k] <= sightings'[k]
    BY <1>3, BumpMonotone DEF FetchQueue, TypeOK, BackedInv, Streaks
  <2>3. \A k \in Keys : store'[k] <= sightings'[k] /\ counts'[k] <= sightings'[k]
    <3> SUFFICES ASSUME NEW k \in Keys
                 PROVE  store'[k] <= sightings'[k] /\ counts'[k] <= sightings'[k]
      OBVIOUS
    <3>1. sightings'[k] \in 0..StreakBound
      BY <1>3, BumpType DEF FetchQueue, TypeOK
    <3> QED
      BY <1>3, <2>1, <3>1 DEF FetchQueue, TypeOK, BackedInv
  <2>4. CASE Eligible(inst) = {}
    BY <1>3, <2>2, <2>3, <2>4 DEF FetchQueue, Leave, BackedInv, EligibleBacked
  <2>5. CASE Eligible(inst) # {}
    <3>1. refIndex' = Eligible(inst) /\ left' = Eligible(inst) /\ pc' = "funnel"
      BY <1>3, <2>5 DEF FetchQueue
    <3>2. \A r \in Eligible(inst) : sightings'[Key(r)] >= GraceRuns
      <4> SUFFICES ASSUME NEW r \in Eligible(inst)
                   PROVE  sightings'[Key(r)] >= GraceRuns
        OBVIOUS
      <4>1. Key(r) \in Keys
        BY KeyInKeys DEF Eligible, StuckIn
      <4>2. ~(next'[Key(r)] < GraceRuns)
        BY <1>3 DEF Eligible, FetchQueue
      <4>3. next'[Key(r)] \in 0..StreakBound /\ sightings'[Key(r)] \in 0..StreakBound
        BY <1>3, <4>1, StreaksType, BumpType DEF FetchQueue, TypeOK
      <4> QED
        BY <2>2, <4>1, <4>2, <4>3, ConfigAssumption, BoundAssumption
    <3> QED
      BY <2>2, <2>3, <3>1, <3>2 DEF BackedInv, EligibleBacked, Visiting
  <2> QED
    BY <2>4, <2>5
<1>4. CASE Funnel
  <2>1. PICK kept \in SUBSET left :
          IF kept = left THEN Leave
          ELSE /\ left' = Capped(left \ kept)
               /\ pc' = IF BatchMode THEN "submit" ELSE "ask"
               /\ UNCHANGED <<inst, refIndex, removed, performed>>
    BY <1>4 DEF Funnel
  <2>2. UNCHANGED <<store, counts, next, sightings>>
    BY <1>4 DEF Funnel, store_vars
  <2>3. CASE kept = left
    BY <2>1, <2>2, <2>3, LeaveBacked
  <2>4. CASE kept # left
    <3>1. left' \subseteq left
      BY <2>1, <2>4, CutsAreSubsets
    <3> QED
      BY <2>1, <2>2, <2>4, <3>1 DEF BackedInv, EligibleBacked, Visiting
  <2> QED
    BY <2>3, <2>4
<1>5. CASE SubmitBatch
  BY <1>5 DEF SubmitBatch, store_vars, visit_vars, BackedInv, EligibleBacked, Visiting
<1>6. CASE SubmitFails
  BY <1>6, LeaveBacked DEF SubmitFails, store_vars
<1>7. CASE ChunkAnswered
  BY <1>7 DEF ChunkAnswered, store_vars, BackedInv, EligibleBacked, Visiting
<1>8. CASE ChunkFails
  BY <1>8, NextChunkBacked DEF ChunkFails, store_vars, Visiting
<1>9. CASE EndOfAnswer
  BY <1>9, NextChunkBacked DEF EndOfAnswer, store_vars, Visiting
<1>10. CASE Commit
  <2>1. refIndex = {} /\ left = {}
    BY <1>10 DEF Commit, BackedInv, EligibleBacked, Visiting
  <2>2. \A k \in Keys : store'[k] <= sightings'[k] /\ next[k] <= sightings'[k]
    BY <1>10, BoundAssumption DEF Commit, BackedInv, TypeOK
  <2> QED
    BY <1>10, <2>1, <2>2 DEF Commit, visit_vars, BackedInv, EligibleBacked
<1>11. ASSUME NEW r \in Records, Apply(r)
       PROVE  BackedInv'
  BY <1>11 DEF Apply, RemoveDryRun, RemoveDone, RemoveGone, RemoveReplyLost,
     DropDownload, store_vars, visit_vars, ghost_vars, BackedInv, EligibleBacked
<1>12. ASSUME NEW r \in Records, QueueChanges(r)
       PROVE  BackedInv'
  BY <1>12 DEF QueueChanges, store_vars, visit_vars, BackedInv, EligibleBacked
<1>13. CASE ContextEnds
  BY <1>13 DEF ContextEnds, store_vars, visit_vars, ghost_vars, BackedInv, EligibleBacked
<1>14. CASE Crash
  <2>1. \A k \in Keys : counts'[k] <= sightings'[k] /\ next'[k] <= sightings'[k]
    BY <1>14 DEF Crash, Zeros, TypeOK
  <2> QED
    BY <1>14, <2>1 DEF Crash, BackedInv, EligibleBacked
<1>15. CASE UNCHANGED vars
  BY <1>15 DEF vars, store_vars, visit_vars, ghost_vars, BackedInv, EligibleBacked
<1> QED
  BY <1>1, <1>2, <1>3, <1>4, <1>5, <1>6, <1>7, <1>8, <1>9, <1>10, <1>11, <1>12,
     <1>13, <1>14, <1>15 DEF Next, Progress

THEOREM GraceRespected == Spec => []EligibleBacked
<1>1. Init => TypeOK /\ BackedInv
  BY InitTypeOK, InitBacked
<1>2. TypeOK /\ BackedInv /\ [Next]_vars => (TypeOK /\ BackedInv)'
  BY StepTypeOK, StepBacked
<1>3. BackedInv => EligibleBacked
  BY DEF BackedInv
<1> QED
  BY <1>1, <1>2, <1>3, PTL DEF Spec

-----------------------------------------------------------------------------
(* The removal cap: as long as no reply to a removal is lost, one visit    *)
(* takes at most MaxRemovals downloads off its queue.                      *)

LEMMA StepCap ==
    ASSUME "lostReply" \notin Faults
    PROVE  TypeOK /\ CapInv /\ [Next]_vars => CapInv'
<1> SUFFICES ASSUME TypeOK, CapInv, [Next]_vars
             PROVE  CapInv'
  OBVIOUS
<1> USE ConfigAssumption DEF CapInv, TypeOK
<1>1. CASE Leave
  BY <1>1 DEF Leave
<1>2. ASSUME NEW rest, NextChunk(rest)
      PROVE  CapInv'
  BY <1>1, <1>2 DEF NextChunk
<1>3. CASE StartRun \/ FetchFails \/ FetchQueue
  BY <1>1, <1>3 DEF StartRun, FetchFails, FetchQueue, visit_vars
<1>4. CASE Funnel
  BY <1>1, <1>4 DEF Funnel
<1>5. CASE SubmitBatch \/ SubmitFails \/ ChunkAnswered
  BY <1>1, <1>5 DEF SubmitBatch, SubmitFails, ChunkAnswered, visit_vars
<1>6. CASE ChunkFails \/ EndOfAnswer
  BY <1>2, <1>6 DEF ChunkFails, EndOfAnswer
<1>7. CASE Commit \/ Crash
  BY <1>7 DEF Commit, Crash, visit_vars
<1>8. ASSUME NEW r \in Records, Apply(r)
      PROVE  CapInv'
  <2>1. CASE RemoveDone(r)
    BY <2>1 DEF RemoveDone, Remove, DropDownload
  <2>2. CASE RemoveDryRun(r) \/ RemoveGone(r)
    BY <2>2 DEF RemoveDryRun, RemoveGone, Remove, ghost_vars
  <2>3. ~RemoveReplyLost(r)
    BY DEF RemoveReplyLost
  <2> QED
    BY <1>8, <2>1, <2>2, <2>3 DEF Apply
<1>9. ASSUME NEW r \in Records, QueueChanges(r)
      PROVE  CapInv'
  BY <1>9 DEF QueueChanges, visit_vars
<1>10. CASE ContextEnds \/ UNCHANGED vars
  BY <1>10 DEF ContextEnds, vars, visit_vars, ghost_vars
<1> QED
  BY <1>3, <1>4, <1>5, <1>6, <1>7, <1>8, <1>9, <1>10 DEF Next, Progress

THEOREM RemovalsCapped ==
    ASSUME "lostReply" \notin Faults
    PROVE  Spec => []RemovalCap
<1>1. Init => TypeOK /\ CapInv
  BY InitTypeOK, ConfigAssumption DEF Init, CapInv
<1>2. TypeOK /\ CapInv /\ [Next]_vars => (TypeOK /\ CapInv)'
  BY StepTypeOK, StepCap
<1>3. TypeOK /\ CapInv => RemovalCap
  BY ConfigAssumption DEF TypeOK, CapInv, RemovalCap
<1> QED
  BY <1>1, <1>2, <1>3, PTL DEF Spec

-----------------------------------------------------------------------------
(* The cap over a run: every instance is visited once, with a cap of its   *)
(* own, so max_removals_per_run bounds a run NumInstances times over.      *)

RunRemovalCap == runPerformed <= NumInstances * MaxRemovals

(* Each visit that is over took at most MaxRemovals.                       *)
RunCapInv ==
    /\ CapInv
    /\ pc = "idle" => inst = 1 /\ runPerformed = 0
    /\ pc = "commit" => runPerformed <= NumInstances * MaxRemovals
    /\ pc \notin {"idle", "commit"} => runPerformed <= (inst - 1) * MaxRemovals + performed
    /\ pc \in {"idle", "fetch", "commit"} => performed = 0 /\ removed = 0

LEMMA CapsAddUp ==
    ASSUME NEW i \in 1..NumInstances
    PROVE  /\ (i - 1) * MaxRemovals \in Nat /\ i * MaxRemovals \in Nat
           /\ (i - 1) * MaxRemovals + MaxRemovals = i * MaxRemovals
           /\ i * MaxRemovals <= NumInstances * MaxRemovals
           /\ NumInstances * MaxRemovals \in Nat
<1>1. MaxRemovals \in Nat /\ NumInstances \in Nat /\ i \in Nat /\ i - 1 \in Nat
      /\ NumInstances - i \in Nat
  BY ConfigAssumption, InstancesAssumption
<1>2. \A a, b \in Nat : a * b \in Nat
  OBVIOUS
<1>3. \A a, b, c \in Nat : (a + b) * c = a * c + b * c
  OBVIOUS
<1>4. NumInstances = i + (NumInstances - i) /\ i = (i - 1) + 1 /\ 1 * MaxRemovals = MaxRemovals
  BY <1>1
<1>5. i * MaxRemovals = (i - 1) * MaxRemovals + 1 * MaxRemovals
  BY <1>1, <1>3, <1>4
<1>6. NumInstances * MaxRemovals = i * MaxRemovals + (NumInstances - i) * MaxRemovals
  BY <1>1, <1>3, <1>4
<1> QED
  BY <1>1, <1>2, <1>4, <1>5, <1>6

LEMMA LeaveRunCap ==
    ASSUME TypeOK, RunCapInv, Leave, pc \notin {"idle", "commit"}, runPerformed' = runPerformed
    PROVE  RunCapInv'
<1>1. runPerformed <= inst * MaxRemovals
  BY CapsAddUp, ConfigAssumption DEF TypeOK, RunCapInv, CapInv
<1>2. CapInv' /\ performed' = 0 /\ removed' = 0
  BY ConfigAssumption DEF Leave, CapInv
<1>3. CASE inst < NumInstances
  <2>1. inst' = inst + 1 /\ pc' = "fetch"
    BY <1>3 DEF Leave
  <2>2. inst' - 1 = inst /\ inst * MaxRemovals \in Nat
    BY <2>1, CapsAddUp DEF TypeOK
  <2> QED
    BY <1>1, <1>2, <2>1, <2>2 DEF RunCapInv
<1>4. CASE ~(inst < NumInstances)
  <2>1. pc' = "commit" /\ inst = NumInstances
    BY <1>4, InstancesAssumption DEF Leave, TypeOK
  <2> QED
    BY <1>1, <1>2, <2>1 DEF RunCapInv
<1> QED
  BY <1>3, <1>4

(* Steps that neither end a visit nor take anything off a queue.           *)
LEMMA VisitRunCap ==
    ASSUME RunCapInv, CapInv', pc \notin {"idle", "commit"}, pc' \in Visiting,
           UNCHANGED <<inst, performed, runPerformed>>
    PROVE  RunCapInv'
  BY DEF RunCapInv, Visiting

LEMMA StepRunCap ==
    ASSUME "lostReply" \notin Faults
    PROVE  TypeOK /\ RunCapInv /\ [Next]_vars => RunCapInv'
<1> SUFFICES ASSUME TypeOK, RunCapInv, [Next]_vars
             PROVE  RunCapInv'
  OBVIOUS
<1>a. CapInv'
  BY StepCap DEF RunCapInv
<1>1. ASSUME NEW rest, NextChunk(rest), pc \in Visiting, runPerformed' = runPerformed
      PROVE  RunCapInv'
  BY <1>1, <1>a, LeaveRunCap, VisitRunCap DEF NextChunk, Visiting
<1>2. CASE StartRun
  <2>1. (inst - 1) * MaxRemovals = 0
    BY <1>2, ConfigAssumption DEF StartRun, RunCapInv
  <2> QED
    BY <1>2, <1>a, <2>1 DEF StartRun, RunCapInv, visit_vars
<1>3. CASE FetchFails \/ SubmitFails
  BY <1>3, LeaveRunCap DEF FetchFails, SubmitFails
<1>4. CASE FetchQueue
  BY <1>4, <1>a, LeaveRunCap, VisitRunCap DEF FetchQueue, Visiting
<1>5. CASE Funnel
  BY <1>5, <1>a, LeaveRunCap, VisitRunCap DEF Funnel, Visiting
<1>6. CASE SubmitBatch \/ ChunkAnswered
  BY <1>6, <1>a, VisitRunCap DEF SubmitBatch, ChunkAnswered, Visiting, visit_vars
<1>7. CASE ChunkFails \/ EndOfAnswer
  BY <1>1, <1>7 DEF ChunkFails, EndOfAnswer, Visiting
<1>8. CASE Commit \/ Crash
  BY <1>8, <1>a DEF Commit, Crash, RunIsOver, RunCapInv, visit_vars
<1>9. ASSUME NEW r \in Records, Apply(r)
      PROVE  RunCapInv'
  <2>1. CASE RemoveDone(r)
    <3>1. /\ pc = "apply" /\ pc' = pc /\ inst' = inst
          /\ performed' = performed + 1 /\ runPerformed' = runPerformed + 1
      BY <2>1 DEF RemoveDone, Remove, DropDownload
    <3>2. (inst - 1) * MaxRemovals \in Nat /\ performed \in Nat /\ runPerformed \in Nat
      BY CapsAddUp DEF TypeOK
    <3> QED
      BY <1>a, <3>1, <3>2 DEF RunCapInv
  <2>2. CASE RemoveDryRun(r) \/ RemoveGone(r)
    BY <1>a, <2>2, VisitRunCap DEF RemoveDryRun, RemoveGone, Remove, Visiting, ghost_vars
  <2>3. ~RemoveReplyLost(r)
    BY DEF RemoveReplyLost
  <2> QED
    BY <1>9, <2>1, <2>2, <2>3 DEF Apply
<1>10. CASE UNCHANGED <<pc, inst, removed, performed, runPerformed>>
  BY <1>10 DEF RunCapInv, CapInv
<1> QED
  BY <1>2, <1>3, <1>4, <1>5, <1>6, <1>7, <1>8, <1>9, <1>10
     DEF Next, Progress, QueueChanges, ContextEnds, vars, visit_vars, ghost_vars

(* A run takes at most max_removals_per_run downloads off each queue.      *)
THEOREM RunRemovalsCapped ==
    ASSUME "lostReply" \notin Faults
    PROVE  Spec => []RunRemovalCap
<1>1. Init => TypeOK /\ RunCapInv
  BY InitTypeOK, ConfigAssumption DEF Init, RunCapInv, CapInv
<1>2. TypeOK /\ RunCapInv /\ [Next]_vars => (TypeOK /\ RunCapInv)'
  BY StepTypeOK, StepRunCap
<1>3. TypeOK /\ RunCapInv => RunRemovalCap
  <2> SUFFICES ASSUME TypeOK, RunCapInv PROVE RunRemovalCap
    OBVIOUS
  <2>1. /\ (inst - 1) * MaxRemovals + MaxRemovals = inst * MaxRemovals
        /\ inst * MaxRemovals <= NumInstances * MaxRemovals
        /\ NumInstances * MaxRemovals \in Nat /\ (inst - 1) * MaxRemovals \in Nat
        /\ inst * MaxRemovals \in Nat
    BY CapsAddUp DEF TypeOK
  <2>2. performed <= MaxRemovals
    BY ConfigAssumption DEF RunCapInv, CapInv, TypeOK
  <2> QED
    BY <2>1, <2>2, ConfigAssumption DEF RunCapInv, RunRemovalCap, TypeOK
<1> QED
  BY <1>1, <1>2, <1>3, PTL DEF Spec

-----------------------------------------------------------------------------
(* Consecutive sightings: as long as no run is killed and every streak file*)
(* is written, a record that may be removed was found stuck by each of the *)
(* last GraceRuns observations of its queue.                               *)

LEMMA KeyInstance == \A k \in Keys : k[1] \in 1..NumInstances
  BY RecordsAssumption DEF Keys, Key

LEMMA KeysOfInstance == \A i, k : k \in KeysOf(i) <=> k \in Keys /\ k[1] = i
  BY DEF KeysOf, Keys, Key

LEMMA SeenKeys == \A i : Seen(i) \subseteq KeysOf(i)
  BY DEF Seen, StuckIn, KeysOf

(* Going on to the next instance fetches nothing.                          *)
LEMMA LeaveFetched ==
    ASSUME TypeOK, Leave, pc \notin {"idle", "commit"}, NEW k \in Keys, ~Fetched(k)'
    PROVE  k[1] > inst /\ ~Fetched(k)
<1>1. k[1] \in Nat /\ inst \in Nat /\ k[1] <= NumInstances /\ NumInstances \in Nat
  BY KeyInstance, InstancesAssumption DEF TypeOK
<1>2. inst < NumInstances /\ inst' = inst + 1 /\ pc' = "fetch"
  BY DEF Leave, Fetched
<1>3. ~(k[1] < inst + 1)
  BY <1>2 DEF Fetched
<1> QED
  BY <1>1, <1>3 DEF Fetched

LEMMA LeaveConsecutive ==
    ASSUME TypeOK, ConsecutiveInv, Leave, pc \notin {"idle", "commit"},
           UNCHANGED <<store, counts, next, consec>>
    PROVE  ConsecutiveInv'
<1>1. \A k \in Keys : ~Fetched(k)' => counts'[k] <= consec'[k] /\ next'[k] = 0
  BY LeaveFetched DEF ConsecutiveInv
<1>2. pc' # "idle" /\ refIndex' = {}
  BY DEF Leave
<1> QED
  BY <1>1, <1>2 DEF ConsecutiveInv, ConsecutiveStreak

(* Within a visit nothing but the queue of another instance is unfetched.  *)
LEMMA VisitConsecutive ==
    ASSUME ConsecutiveInv, pc \in Visiting, pc' \in Visiting,
           UNCHANGED <<inst, refIndex, store, counts, next, consec>>
    PROVE  ConsecutiveInv'
<1>1. \A k \in Keys : Fetched(k)' <=> Fetched(k)
  BY DEF Fetched, Visiting
<1> QED
  BY <1>1 DEF ConsecutiveInv, ConsecutiveStreak, Visiting

LEMMA NextChunkConsecutive ==
    ASSUME TypeOK, ConsecutiveInv, NEW rest, NextChunk(rest), pc \in Visiting,
           UNCHANGED <<store, counts, next, consec>>
    PROVE  ConsecutiveInv'
<1>1. CASE rest # {}
  BY <1>1, VisitConsecutive DEF NextChunk, Visiting
<1>2. CASE rest = {}
  BY <1>2, LeaveConsecutive DEF NextChunk, Visiting
<1> QED
  BY <1>1, <1>2

LEMMA FetchConsecutive ==
    ASSUME TypeOK, ConsecutiveInv, FetchQueue
    PROVE  ConsecutiveInv'
<1>1. next' \in [Keys -> 0..StreakBound] /\ consec' \in [Keys -> 0..StreakBound]
  BY StreaksType, BumpType, BoundAssumption DEF FetchQueue, TypeOK
<1>2. \A k \in Keys : next'[k] <= consec'[k]
  <2> SUFFICES ASSUME NEW k \in Keys
               PROVE  next'[k] <= consec'[k]
    OBVIOUS
  <2>1. CASE k \in Seen(inst)
    <3>1. ~Fetched(k)
      BY <2>1, SeenKeys, KeysOfInstance DEF Fetched, FetchQueue, TypeOK
    <3>2. counts[k] <= consec[k]
      BY <3>1 DEF ConsecutiveInv, FetchQueue
    <3> QED
      BY <2>1, <3>2, BumpMonotone DEF FetchQueue, Streaks, TypeOK
  <2>2. CASE k \notin Seen(inst) /\ k \in KeysOf(inst)
    <3>1. ~Fetched(k)
      BY <2>2, KeysOfInstance DEF Fetched, FetchQueue, TypeOK
    <3> QED
      BY <2>2, <3>1 DEF FetchQueue, Streaks, ConsecutiveInv
  <2>3. CASE k \notin Seen(inst) /\ k \notin KeysOf(inst)
    BY <2>3 DEF FetchQueue, Streaks, ConsecutiveInv, ConsecutiveStreak
  <2> QED
    BY <2>1, <2>2, <2>3
<1>3. ASSUME NEW k \in Keys, ~Fetched(k), k[1] # inst
      PROVE  counts'[k] <= consec'[k] /\ next'[k] = 0
  <2>1. k \notin KeysOf(inst) /\ k \notin Seen(inst)
    BY <1>3, KeysOfInstance, SeenKeys
  <2> QED
    BY <1>3, <2>1 DEF FetchQueue, Streaks, ConsecutiveInv
<1>4. CASE Eligible(inst) = {}
  <2>1. Leave /\ pc = "fetch"
    BY <1>4 DEF FetchQueue
  <2>2. \A k \in Keys : ~Fetched(k)' => counts'[k] <= consec'[k] /\ next'[k] = 0
    BY <1>3, <2>1, LeaveFetched DEF TypeOK
  <2> QED
    BY <1>2, <2>1, <2>2 DEF Leave, ConsecutiveInv, ConsecutiveStreak
<1>5. CASE Eligible(inst) # {}
  <2>1. pc' = "funnel" /\ inst' = inst /\ refIndex' = Eligible(inst)
    BY <1>5 DEF FetchQueue
  <2>2. \A k \in Keys : ~Fetched(k)' => ~Fetched(k) /\ k[1] # inst
    BY <2>1 DEF Fetched, FetchQueue
  <2>3. ASSUME NEW r \in Eligible(inst)
        PROVE  consec'[Key(r)] >= GraceRuns
    <3>1. Key(r) \in Keys
      BY KeyInKeys DEF Eligible, StuckIn
    <3>2. ~(next'[Key(r)] < GraceRuns)
      BY DEF Eligible, FetchQueue
    <3> QED
      BY <1>1, <1>2, <3>1, <3>2, ConfigAssumption, BoundAssumption
  <2> QED
    BY <1>2, <1>3, <2>1, <2>2, <2>3 DEF ConsecutiveInv, ConsecutiveStreak, Visiting
<1> QED
  BY <1>4, <1>5

LEMMA StepConsecutive ==
    ASSUME Faults \cap {"crash", "commit"} = {}
    PROVE  TypeOK /\ ConsecutiveInv /\ [Next]_vars => ConsecutiveInv'
<1> SUFFICES ASSUME TypeOK, ConsecutiveInv, [Next]_vars
             PROVE  ConsecutiveInv'
  OBVIOUS
<1>1. CASE StartRun
  <2>1. \A k \in Keys : counts'[k] <= consec'[k] /\ next'[k] = 0 /\ next'[k] <= consec'[k]
    BY <1>1 DEF StartRun, Zeros, TypeOK, ConsecutiveInv
  <2> QED
    BY <1>1, <2>1 DEF StartRun, visit_vars, ConsecutiveInv, ConsecutiveStreak, Visiting
<1>2. CASE FetchFails
  BY <1>2, LeaveConsecutive DEF FetchFails, store_vars
<1>3. CASE FetchQueue
  BY <1>3, FetchConsecutive
<1>4. CASE Funnel
  <2>1. PICK kept \in SUBSET left :
          IF kept = left THEN Leave
          ELSE /\ left' = Capped(left \ kept)
               /\ pc' = IF BatchMode THEN "submit" ELSE "ask"
               /\ UNCHANGED <<inst, refIndex, removed, performed>>
    BY <1>4 DEF Funnel
  <2>2. pc = "funnel" /\ UNCHANGED <<store, counts, next, consec>>
    BY <1>4 DEF Funnel, store_vars
  <2>3. CASE kept = left
    BY <2>1, <2>2, <2>3, LeaveConsecutive
  <2>4. CASE kept # left
    BY <2>1, <2>2, <2>4, VisitConsecutive DEF Visiting
  <2> QED
    BY <2>3, <2>4
<1>5. CASE SubmitBatch
  BY <1>5, VisitConsecutive DEF SubmitBatch, store_vars, visit_vars, Visiting
<1>6. CASE SubmitFails
  BY <1>6, LeaveConsecutive DEF SubmitFails, store_vars
<1>7. CASE ChunkAnswered
  BY <1>7, VisitConsecutive DEF ChunkAnswered, store_vars, Visiting
<1>8. CASE ChunkFails
  BY <1>8, NextChunkConsecutive DEF ChunkFails, store_vars, Visiting
<1>9. CASE EndOfAnswer
  BY <1>9, NextChunkConsecutive DEF EndOfAnswer, store_vars, Visiting
<1>10. CASE Commit
  <2>1. refIndex' = {} /\ pc' = "idle" /\ store' = next /\ next' = next /\ consec' = consec
    BY <1>10 DEF Commit, visit_vars, ConsecutiveInv, Visiting
  <2> QED
    BY <2>1 DEF ConsecutiveInv, ConsecutiveStreak
<1>11. ASSUME NEW r \in Records, Apply(r)
       PROVE  ConsecutiveInv'
  <2>1. pc = "apply" /\ pc' = pc /\ UNCHANGED <<inst, refIndex, store, counts, next, consec>>
    BY <1>11 DEF Apply, RemoveDryRun, RemoveDone, RemoveGone, RemoveReplyLost,
       Remove, store_vars, visit_vars, ghost_vars
  <2> QED
    BY <2>1, VisitConsecutive DEF Visiting
<1>12. CASE UNCHANGED <<pc, inst, refIndex, store, counts, next, consec>>
  BY <1>12 DEF ConsecutiveInv, ConsecutiveStreak, Fetched
<1>13. CASE ContextEnds \/ UNCHANGED vars
  BY <1>12, <1>13 DEF ContextEnds, vars, store_vars, visit_vars, ghost_vars
<1>14. ASSUME NEW r \in Records, QueueChanges(r)
       PROVE  ConsecutiveInv'
  BY <1>12, <1>14 DEF QueueChanges, store_vars, visit_vars
<1>15. ~Crash
  BY DEF Crash
<1> QED
  BY <1>1, <1>2, <1>3, <1>4, <1>5, <1>6, <1>7, <1>8, <1>9, <1>10, <1>11, <1>13,
     <1>14, <1>15 DEF Next, Progress

LEMMA InitConsecutive == Init => ConsecutiveInv
<1> SUFFICES ASSUME Init PROVE ConsecutiveInv
  OBVIOUS
<1>1. \A k \in Keys : store[k] = 0 /\ next[k] = 0 /\ consec[k] = 0
  BY DEF Init, Zeros
<1> QED
  BY <1>1 DEF Init, ConsecutiveInv, ConsecutiveStreak

THEOREM GraceConsecutive ==
    ASSUME Faults \cap {"crash", "commit"} = {}
    PROVE  Spec => []ConsecutiveStreak
<1>1. Init => TypeOK /\ ConsecutiveInv
  BY InitTypeOK, InitConsecutive
<1>2. TypeOK /\ ConsecutiveInv /\ [Next]_vars => (TypeOK /\ ConsecutiveInv)'
  BY StepTypeOK, StepConsecutive
<1>3. ConsecutiveInv => ConsecutiveStreak
  BY DEF ConsecutiveInv
<1> QED
  BY <1>1, <1>2, <1>3, PTL DEF Spec

-----------------------------------------------------------------------------
(* Dry runs: a run that is one takes no download off any queue.            *)

LEMMA StepInert == TypeOK /\ InertInv /\ [Next]_vars => InertInv'
<1> SUFFICES ASSUME TypeOK, InertInv, [Next]_vars
             PROVE  InertInv'
  OBVIOUS
<1> USE DEF InertInv
<1>1. CASE pc' # "idle" /\ UNCHANGED <<dryRun, runPerformed>>
  BY <1>1
<1>2. CASE StartRun
  BY <1>2 DEF StartRun
<1>3. CASE FetchFails \/ SubmitFails
  BY <1>1, <1>3 DEF FetchFails, SubmitFails, Leave
<1>4. CASE FetchQueue
  BY <1>1, <1>4 DEF FetchQueue, Leave
<1>5. CASE Funnel
  BY <1>1, <1>5 DEF Funnel, Leave
<1>6. CASE SubmitBatch \/ ChunkAnswered
  BY <1>1, <1>6 DEF SubmitBatch, ChunkAnswered
<1>7. CASE ChunkFails \/ EndOfAnswer
  BY <1>1, <1>7 DEF ChunkFails, EndOfAnswer, NextChunk, Leave
<1>8. CASE Commit \/ Crash
  BY <1>8 DEF Commit, Crash, RunIsOver
<1>9. ASSUME NEW r \in Records, Apply(r)
       PROVE  InertInv'
  <2>1. CASE RemoveDryRun(r) \/ RemoveGone(r)
    BY <2>1 DEF RemoveDryRun, RemoveGone, Remove, ghost_vars
  <2>2. CASE RemoveDone(r) \/ RemoveReplyLost(r)
    BY <2>2 DEF RemoveDone, RemoveReplyLost, Remove
  <2> QED
    BY <1>9, <2>1, <2>2 DEF Apply
<1>10. ASSUME NEW r \in Records, QueueChanges(r)
       PROVE  InertInv'
  BY <1>10 DEF QueueChanges
<1>11. CASE ContextEnds \/ UNCHANGED vars
  BY <1>11 DEF ContextEnds, vars, ghost_vars
<1> QED
  BY <1>2, <1>3, <1>4, <1>5, <1>6, <1>7, <1>8, <1>9, <1>10, <1>11 DEF Next, Progress

THEOREM DryRunsInert == Spec => []DryRunInert
<1>1. Init => TypeOK /\ InertInv
  BY InitTypeOK DEF Init, InertInv
<1>2. TypeOK /\ InertInv /\ [Next]_vars => (TypeOK /\ InertInv)'
  BY StepTypeOK, StepInert
<1>3. InertInv => DryRunInert
  BY DEF InertInv, DryRunInert
<1> QED
  BY <1>1, <1>2, <1>3, PTL DEF Spec

-----------------------------------------------------------------------------
(* Streaks: as long as every fetch of a queue succeeds and the file can be *)
(* read, a streak on disk falls only for what was not stuck all the time,  *)
(* even if runs are killed or fail to commit.                              *)

NoFetchFails == Faults \cap {"fetch", "deadline", "load"} = {}

LEMMA LeaveFetchedOnly ==
    ASSUME TypeOK, Leave, pc \notin {"idle", "commit"}, NEW k \in Keys, Fetched(k)'
    PROVE  Fetched(k) \/ k[1] = inst
<1>1. k[1] \in Nat /\ inst \in Nat /\ k[1] <= NumInstances /\ NumInstances \in Nat
      /\ inst <= NumInstances
  BY KeyInstance, InstancesAssumption DEF TypeOK
<1>2. CASE inst < NumInstances
  <2>1. inst' = inst + 1 /\ pc' = "fetch"
    BY <1>2 DEF Leave
  <2>2. k[1] < inst + 1
    BY <2>1 DEF Fetched
  <2> QED
    BY <1>1, <2>2 DEF Fetched
<1>3. CASE ~(inst < NumInstances)
  BY <1>1, <1>3 DEF Fetched
<1> QED
  BY <1>2, <1>3

(* Leaving a queue that was fetched, with nothing else touched.            *)
LEMMA LeaveKept ==
    ASSUME TypeOK, KeptInv, Leave, pc \in Visiting,
           UNCHANGED <<health, store, counts, next, wavered, ctxDone>>
    PROVE  KeptInv'
<1>1. \A k \in Keys : Fetched(k)' => Fetched(k)
  BY LeaveFetchedOnly, KeyInstance DEF Visiting, Fetched
<1>2. pc # "idle" /\ pc' # "idle" /\ CalmKeys(health)' = CalmKeys(health)
  BY DEF Visiting, CalmKeys, Leave
<1> QED
  BY <1>1, <1>2 DEF KeptInv

(* Steps within a visit.                                                   *)
LEMMA VisitKept ==
    ASSUME KeptInv, pc \in Visiting, pc' \in Visiting,
           UNCHANGED <<health, inst, store, counts, next, wavered, ctxDone>>
    PROVE  KeptInv'
<1>1. \A k \in Keys : Fetched(k)' => Fetched(k)
  BY DEF Visiting, Fetched
<1>2. pc # "idle" /\ pc' # "idle" /\ CalmKeys(health)' = CalmKeys(health)
  BY DEF Visiting, CalmKeys
<1> QED
  BY <1>1, <1>2 DEF KeptInv

LEMMA NextChunkKept ==
    ASSUME TypeOK, KeptInv, NEW rest, NextChunk(rest), pc \in Visiting,
           UNCHANGED <<health, store, counts, next, wavered, ctxDone>>
    PROVE  KeptInv'
<1>1. CASE rest # {}
  BY <1>1, VisitKept DEF NextChunk, Visiting
<1>2. CASE rest = {}
  BY <1>2, LeaveKept DEF NextChunk
<1> QED
  BY <1>1, <1>2

(* A fetch bumps what it sees stuck; what it does not see stuck is calm.   *)
LEMMA FetchKept ==
    ASSUME TypeOK, KeptInv, FetchQueue
    PROVE  KeptInv'
<1>1. /\ pc = "fetch" /\ pc' # "idle" /\ ~ctxDone' /\ counts' = store' /\ store' = store
      /\ wavered' = wavered /\ CalmKeys(health)' = CalmKeys(health)
      /\ CalmKeys(health) \subseteq wavered
  BY DEF FetchQueue, Leave, KeptInv, CalmKeys
<1>2. ASSUME NEW k \in KeysOf(inst)
      PROVE  store'[k] <= next'[k] \/ k \in wavered
  <2>1. k \in Keys
    BY KeysOfInstance
  <2>2. CASE k \in Seen(inst)
    <3>1. next'[k] = Bump(store[k]) /\ store[k] \in 0..StreakBound
      BY <1>1, <2>1, <2>2 DEF FetchQueue, Streaks, KeptInv, TypeOK
    <3> QED
      BY <1>1, <3>1, BumpMonotone
  <2>3. CASE k \notin Seen(inst)
    <3>1. \A r \in Records : Key(r) = k => InstanceOf[r] = inst
      BY KeysOfInstance DEF Key
    <3>2. \A r \in Records : Key(r) = k => health[r] # "stuck"
      BY <2>3, <3>1 DEF Seen, StuckIn
    <3> QED
      BY <1>1, <2>1, <3>2 DEF CalmKeys
  <2> QED
    BY <2>2, <2>3
<1>3. ASSUME NEW k \in Keys, Fetched(k), k[1] # inst
      PROVE  store'[k] <= next'[k] \/ k \in wavered
  <2>1. next'[k] = next[k]
    BY <1>3, KeysOfInstance, SeenKeys DEF FetchQueue, Streaks
  <2> QED
    BY <1>1, <1>3, <2>1 DEF KeptInv
<1>4. ASSUME NEW k \in Keys, Fetched(k)'
      PROVE  Fetched(k) \/ k[1] = inst
  <2>1. CASE Eligible(inst) = {}
    <3>1. Leave
      BY <2>1 DEF FetchQueue
    <3> QED
      BY <1>1, <1>4, <3>1, LeaveFetchedOnly
  <2>2. CASE Eligible(inst) # {}
    BY <1>1, <1>4, <2>2 DEF FetchQueue, Fetched
  <2> QED
    BY <2>1, <2>2
<1>5. \A k \in Keys : Fetched(k)' => store'[k] <= next'[k] \/ k \in wavered'
  BY <1>1, <1>2, <1>3, <1>4, KeysOfInstance
<1> QED
  BY <1>1, <1>5 DEF KeptInv

LEMMA StepKept ==
    ASSUME NoFetchFails
    PROVE  TypeOK /\ KeptInv /\ [Next]_vars => KeptInv'
<1> SUFFICES ASSUME TypeOK, KeptInv, [Next]_vars
             PROVE  KeptInv'
  OBVIOUS
<1>1. CASE StartRun
  <2>1. counts' = store /\ store' = store /\ wavered' = CalmKeys(health)' /\ ~ctxDone'
        /\ pc' = "fetch"
    BY <1>1 DEF StartRun, NoFetchFails, CalmKeys, KeptInv
  <2>2. inst = 1 /\ inst' = 1
    BY <1>1 DEF StartRun, KeptInv
  <2>3. \A k \in Keys : ~Fetched(k)'
    BY <2>1, <2>2, KeyInstance, InstancesAssumption DEF Fetched
  <2> QED
    BY <2>1, <2>3 DEF KeptInv
<1>2. CASE FetchFails \/ ContextEnds
  BY <1>2 DEF FetchFails, ContextEnds, NoFetchFails, KeptInv
<1>3. CASE FetchQueue
  BY <1>3, FetchKept
<1>4. CASE Funnel
  <2>1. CASE Leave
    BY <1>4, <2>1, LeaveKept DEF Funnel, Visiting, store_vars
  <2>2. CASE ~Leave
    BY <1>4, <2>2, VisitKept DEF Funnel, Visiting, store_vars
  <2> QED
    BY <2>1, <2>2
<1>5. CASE SubmitFails
  BY <1>5, LeaveKept DEF SubmitFails, Visiting, store_vars
<1>6. CASE SubmitBatch \/ ChunkAnswered
  BY <1>6, VisitKept DEF SubmitBatch, ChunkAnswered, Visiting, store_vars, visit_vars
<1>7. CASE ChunkFails \/ EndOfAnswer
  BY <1>7, NextChunkKept DEF ChunkFails, EndOfAnswer, Visiting, store_vars
<1>8. CASE Commit \/ Crash
  BY <1>8 DEF Commit, Crash, RunIsOver, KeptInv
<1>9. ASSUME NEW r \in Records, Apply(r)
      PROVE  KeptInv'
  <2>1. CASE RemoveDryRun(r) \/ RemoveGone(r)
    BY <2>1, VisitKept
       DEF RemoveDryRun, RemoveGone, Remove, Visiting, store_vars, ghost_vars
  <2>2. CASE RemoveDone(r) \/ RemoveReplyLost(r)
    <3>1. /\ pc = "apply" /\ DropDownload(r)
          /\ UNCHANGED <<inst, pc, store, counts, next, ctxDone>>
      BY <2>2 DEF RemoveDone, RemoveReplyLost, Remove, store_vars
    <3>2. \A s \in Records : Key(s) # Key(r) => health'[s] = health[s]
      BY <3>1 DEF DropDownload, Siblings, TypeOK
    <3>3. CalmKeys(health)' \subseteq wavered' /\ wavered \subseteq wavered'
      BY <3>1, <3>2 DEF DropDownload, CalmKeys, KeptInv, TypeOK
    <3>4. \A k \in Keys : Fetched(k)' => Fetched(k)
      BY <3>1 DEF Fetched
    <3> QED
      BY <3>1, <3>3, <3>4 DEF KeptInv
  <2> QED
    BY <1>9, <2>1, <2>2 DEF Apply
<1>10. ASSUME NEW r \in Records, QueueChanges(r)
       PROVE  KeptInv'
  <2>1. UNCHANGED <<inst, pc, store, counts, next, ctxDone>>
    BY <1>10 DEF QueueChanges, store_vars
  <2>2. pc # "idle" => CalmKeys(health)' \subseteq wavered' /\ wavered \subseteq wavered'
    BY <1>10 DEF QueueChanges, CalmKeys
  <2>3. \A k \in Keys : Fetched(k)' => Fetched(k)
    BY <2>1 DEF Fetched
  <2> QED
    BY <2>1, <2>2, <2>3 DEF KeptInv
<1>11. CASE UNCHANGED vars
  <2>1. UNCHANGED <<health, inst, pc, store, counts, next, wavered, ctxDone>>
    BY <1>11 DEF vars, store_vars, ghost_vars
  <2>2. CalmKeys(health)' = CalmKeys(health) /\ \A k \in Keys : Fetched(k)' => Fetched(k)
    BY <2>1 DEF CalmKeys, Fetched
  <2> QED
    BY <2>1, <2>2 DEF KeptInv
<1> QED
  BY <1>1, <1>2, <1>3, <1>4, <1>5, <1>6, <1>7, <1>8, <1>9, <1>10, <1>11 DEF Next, Progress

(* Only the commit writes the file, and by then every key was fetched.     *)
THEOREM StreaksKept ==
    ASSUME NoFetchFails
    PROVE  Spec => StreakKept
<1>1. Init => TypeOK /\ KeptInv
  BY InitTypeOK DEF Init, KeptInv
<1>2. TypeOK /\ KeptInv /\ [Next]_vars => (TypeOK /\ KeptInv)'
  BY StepTypeOK, StepKept
<1>3. TypeOK /\ KeptInv /\ [Next]_vars
      => [\A k \in Keys : store'[k] < store[k] => k \in wavered]_vars
  <2> SUFFICES ASSUME TypeOK, KeptInv, Next, NEW k \in Keys, store'[k] < store[k]
               PROVE  k \in wavered
    OBVIOUS
  <2>1. store[k] \in Nat
    BY BoundAssumption DEF TypeOK
  <2>2. Commit
    BY <2>1 DEF Next, Progress, StartRun, FetchFails, FetchQueue, Funnel, SubmitBatch,
       SubmitFails, ChunkAnswered, ChunkFails, EndOfAnswer, Apply, RemoveDryRun, RemoveDone,
       RemoveGone, RemoveReplyLost, ContextEnds, Crash, QueueChanges, store_vars
  <2>3. pc = "commit" /\ (store' = next \/ store' = store)
    BY <2>2 DEF Commit
  <2>4. store[k] <= next[k] \/ k \in wavered
    BY <2>3 DEF KeptInv, Fetched
  <2>5. next[k] \in Nat
    BY BoundAssumption DEF TypeOK
  <2> QED
    BY <2>1, <2>3, <2>4, <2>5
<1> QED
  BY <1>1, <1>2, <1>3, PTL DEF Spec, StreakKept
=============================================================================
