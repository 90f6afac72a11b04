------------------------- MODULE OrphanTriageProofs -------------------------
(***************************************************************************)
(* Theorems about OrphanTriage, for every layout of libraries and databases*)
(* and every configuration.                                                *)
(***************************************************************************)
EXTENDS OrphanTriage, BatchingProofs, SequenceTheorems

LEMMA FirstInstance == 1 \in 1..NumInstances
  BY LayoutAssumption

LEMMA FileType ==
    \A x \in FilesOnDisk : x.present => x.size \in Sizes /\ x.old \in BOOLEAN
  BY DEF FilesOnDisk, File, NoFile

LEMMA OldFileType ==
    \A x \in FilesOnDisk : x.present => [x EXCEPT !.old = TRUE] \in FilesOnDisk
<1> SUFFICES ASSUME NEW x \in FilesOnDisk, x.present
             PROVE  [x EXCEPT !.old = TRUE] \in FilesOnDisk
  OBVIOUS
<1> DEFINE y == [x EXCEPT !.old = TRUE]
<1>1. x \in [size : Sizes, old : BOOLEAN, present : BOOLEAN]
  <2>1. x # NoFile
    BY DEF NoFile
  <2>2. PICK size \in Sizes, old \in BOOLEAN : x = File(size, old)
    BY <2>1 DEF FilesOnDisk
  <2> QED
    BY <2>2 DEF File
<1>2. /\ y \in [size : Sizes, old : BOOLEAN, present : BOOLEAN]
      /\ y.present
  BY <1>1
<1> HIDE DEF y
<1>3. /\ y = File(y.size, y.old)
      /\ y.size \in Sizes /\ y.old \in BOOLEAN
  BY <1>2 DEF File
<1>4. y \in {File(size, old) : size \in Sizes, old \in BOOLEAN}
  BY <1>3
<1> QED
  BY <1>4 DEF FilesOnDisk, y

LEMMA FileFields ==
    \A x \in FilesOnDisk : x.present =>
        [x EXCEPT !.old = TRUE].size = x.size /\ [x EXCEPT !.old = TRUE].old = TRUE
<1> SUFFICES ASSUME NEW x \in FilesOnDisk, x.present
             PROVE  [x EXCEPT !.old = TRUE].size = x.size /\ [x EXCEPT !.old = TRUE].old = TRUE
  OBVIOUS
<1>1. x # NoFile
  BY DEF NoFile
<1>2. PICK size \in Sizes, old \in BOOLEAN : x = File(size, old)
  BY <1>1 DEF FilesOnDisk
<1>3. x \in [size : Sizes, old : BOOLEAN, present : BOOLEAN]
  BY <1>2 DEF File
<1> QED
  BY <1>3

LEMMA FoundType == \A o \in Found : o.path \in Files /\ o.size \in Nat /\ o.old \in BOOLEAN
  BY OrphanConfigAssumption DEF Found

(* A reference leads to an entry of the walk.                              *)
LEMMA ReferenceType ==
    ASSUME TypeOK, NEW n \in refIndex
    PROVE  /\ n \in 1..Len(orphans)
           /\ orphans[n] \in Found
           /\ orphans[n].path \in Files /\ orphans[n].size \in Nat
<1>1. n \in 1..Len(orphans) /\ orphans \in Seq(Found)
  BY DEF TypeOK
<1>2. orphans[n] \in Found
  BY <1>1, ElementOfSeq
<1> QED
  BY <1>1, <1>2, FoundType

-----------------------------------------------------------------------------
(* The walk lists the paths of a set, each entry what the disk says of it. *)
LEMMA WalkOrder ==
    ASSUME TypeOK, NEW S \in SUBSET Files, \A f \in S : disk[f].present
    PROVE  /\ InWalkOrder(S) \in Seq(Found)
           /\ \A n \in 1..Len(InWalkOrder(S)) :
                LET o == InWalkOrder(S)[n]
                IN o.path \in S /\ o.size = disk[o.path].size /\ o.old = disk[o.path].old
<1> DEFINE w == InWalkOrder(S)
           Place(n) == Nth(S, n)
<1>1. S \in SUBSET Nat /\ IsFiniteSet(S) /\ Cardinality(S) \in Nat
  BY LayoutAssumption, FS_Subset, FS_CardinalityType
<1>2. \A n \in 1..Cardinality(S) : Place(n) \in S
  BY <1>1, NthEnumerates
<1>3. w = [n \in 1..Cardinality(S) |->
            [path |-> Place(n), size |-> disk[Place(n)].size, old |-> disk[Place(n)].old]]
  BY DEF InWalkOrder
<1>4. \A f \in S : [path |-> f, size |-> disk[f].size, old |-> disk[f].old] \in Found
  BY FileType DEF TypeOK, Found
<1> HIDE DEF Place, w
<1>5. w \in [1..Cardinality(S) -> Found]
  BY <1>2, <1>3, <1>4
<1>6. w \in Seq(Found) /\ Len(w) = Cardinality(S)
  <2>1. w \in Seq(Found)
    BY <1>1, <1>5, IsASeq
  <2>2. Len(w) \in Nat /\ DOMAIN w = 1..Len(w)
    BY <2>1, LenProperties
  <2> QED
    BY <1>1, <1>5, <2>1, <2>2
<1>7. \A n \in 1..Len(w) : /\ w[n].path \in S
                           /\ w[n].size = disk[w[n].path].size
                           /\ w[n].old = disk[w[n].path].old
  BY <1>2, <1>3, <1>6
<1> QED
  BY <1>6, <1>7 DEF w
-----------------------------------------------------------------------------
(* The state is well typed: what a reference leads to was found by the     *)
(* walk, and the rules and the model only ever get references.             *)
LEMMA InitTypeOK == Init => TypeOK
<1> SUFFICES ASSUME Init PROVE TypeOK
  OBVIOUS
<1>1. orphans \in Seq(Found) /\ Len(orphans) = 0
  BY EmptySeq DEF Init
<1> QED
  BY <1>1, FirstInstance DEF Init, TypeOK, Steps

LEMMA LeaveType ==
    ASSUME TypeOK, Leave
    PROVE  /\ pc' \in Steps /\ inst' \in 1..NumInstances
           /\ ctxDone' \in BOOLEAN /\ dryRun' \in BOOLEAN /\ seriesLeft' \subseteq Series
           /\ snapshot' = {} /\ rootsLeft' = {} /\ orphans' \in Seq(Found)
           /\ refIndex' = {} /\ junk' = {} /\ left' = {} /\ count' \in Nat /\ bytes' \in Nat
           /\ asked' \subseteq Files /\ rewritten' \subseteq Files /\ untracked' \subseteq Files
           /\ moved' \in Nat /\ movedBytes' \in Nat /\ runMoved' \in Nat /\ copies' \in Nat
<1>1. orphans' \in Seq(Found)
  BY EmptySeq DEF Leave
<1>2. inst' \in 1..NumInstances
  BY LayoutAssumption DEF TypeOK, Leave
<1>3. /\ pc' \in Steps /\ seriesLeft' \subseteq Series /\ untracked' \subseteq Files
      /\ ctxDone' \in BOOLEAN /\ dryRun' \in BOOLEAN /\ asked' \subseteq Files
      /\ runMoved' \in Nat /\ copies' \in Nat
  <2>1. CASE inst < NumInstances
    BY <2>1 DEF TypeOK, Leave, VisitStarts, Steps
  <2>2. CASE ~(inst < NumInstances)
    <3>1. /\ pc' = "idle" /\ seriesLeft' = {} /\ untracked' = {} /\ asked' = {}
          /\ ctxDone' = FALSE /\ dryRun' = FALSE /\ runMoved' = 0 /\ copies' = 0
      BY <2>2 DEF Leave
    <3> QED
      BY <3>1 DEF Steps
  <2> QED
    BY <2>1, <2>2
<1>4. /\ snapshot' = {} /\ rootsLeft' = {}
      /\ refIndex' = {} /\ junk' = {} /\ left' = {} /\ count' \in Nat /\ bytes' \in Nat
      /\ rewritten' \subseteq Files /\ moved' \in Nat /\ movedBytes' \in Nat
  BY DEF Leave
<1> QED
  BY <1>1, <1>2, <1>3, <1>4

LEMMA LeaveTypeOK ==
    ASSUME TypeOK, Leave,
           disk' \in [Files -> FilesOnDisk], tracked' \in [1..NumInstances -> SUBSET Files],
           rescans' \subseteq 1..NumInstances
    PROVE  TypeOK'
<1> HIDE DEF Leave
<1> QED
  BY LeaveType DEF TypeOK

LEMMA NextChunkTypeOK ==
    ASSUME TypeOK, NEW rest, rest \subseteq refIndex, NEW step \in Steps,
           NextChunk(rest, step), UNCHANGED world_vars
    PROVE  TypeOK'
<1>1. CASE rest # {}
  BY <1>1 DEF TypeOK, NextChunk, world_vars, run_vars, walk_vars, ghost_vars
<1>2. CASE rest = {}
  BY <1>2, LeaveTypeOK DEF NextChunk, world_vars, TypeOK
<1> QED
  BY <1>1, <1>2

(* A decision or a rule moves a file, copies it, counts it or nothing.     *)
LEMMA TrashOneType ==
    ASSUME TypeOK, NEW n \in refIndex, TrashOne(n)
    PROVE  /\ disk' \in [Files -> FilesOnDisk] /\ UNCHANGED <<tracked, rescans>>
           /\ count' \in Nat /\ bytes' \in Nat
           /\ moved' \in Nat /\ movedBytes' \in Nat /\ runMoved' \in Nat /\ copies' \in Nat
           /\ UNCHANGED <<asked, rewritten, untracked>>
<1> DEFINE f == orphans[n].path
<1>1. f \in Files /\ orphans[n].size \in Nat
  BY ReferenceType
<1>2. NoFile \in FilesOnDisk
  BY DEF FilesOnDisk
<1>3. CASE TrashDryRun(n)
  BY <1>1, <1>3 DEF TypeOK, TrashDryRun, Counted, world_vars, ghost_vars
<1>4. CASE TrashDone(n)
  <2>1. /\ disk[f].present /\ disk' = [disk EXCEPT ![f] = NoFile]
        /\ movedBytes' = movedBytes + disk[f].size
    BY <1>4 DEF TrashDone
  <2>2. disk[f].size \in Nat
    BY <1>1, <2>1, FileType, OrphanConfigAssumption DEF TypeOK
  <2>3. /\ UNCHANGED <<tracked, rescans, asked, rewritten, untracked, copies>>
        /\ count' = count + 1 /\ bytes' = bytes + orphans[n].size
        /\ moved' = moved + 1 /\ runMoved' = runMoved + 1
    BY <1>4 DEF TrashDone, Counted
  <2>4. disk' \in [Files -> FilesOnDisk]
    BY <1>1, <1>2, <2>1 DEF TypeOK
  <2>5. /\ count \in Nat /\ bytes \in Nat
        /\ moved \in Nat /\ movedBytes \in Nat /\ runMoved \in Nat /\ copies \in Nat
    BY DEF TypeOK
  <2> QED
    BY <1>1, <2>1, <2>2, <2>3, <2>4, <2>5
<1>5. CASE TrashLeavesSource(n)
  BY <1>5 DEF TypeOK, TrashLeavesSource, world_vars
<1>6. CASE TrashRefused(n)
  BY <1>6 DEF TypeOK, TrashRefused, world_vars, ghost_vars
<1> QED
  BY <1>3, <1>4, <1>5, <1>6 DEF TrashOne

(* What the walk adds to its list are entries for files.                   *)
LEMMA WalkType ==
    ASSUME TypeOK, WalkRoot
    PROVE  /\ rootsLeft' \subseteq rootsLeft
           /\ \/ orphans' = orphans
              \/ \E S \in SUBSET Files :
                    /\ \A f \in S : disk[f].present /\ f \notin snapshot
                    /\ InWalkOrder(S) \in Seq(Found)
                    /\ orphans' = orphans \o InWalkOrder(S)
<1>1. PICK root \in FirstOf(rootsLeft, 1), skipped \in SUBSET Files :
        /\ rootsLeft' = rootsLeft \ {root}
        /\ orphans' = IF root \in AllowedRoots
                      THEN orphans \o InWalkOrder(OrphansUnder(root) \ skipped)
                      ELSE orphans
  BY DEF WalkRoot
<1>2. root \in Roots
  BY CutsAreSubsets DEF TypeOK
<1> DEFINE S == OrphansUnder(root) \ skipped
<1>3. S \in SUBSET Files /\ \A f \in S : disk[f].present /\ f \notin snapshot
  BY <1>2, LayoutAssumption DEF OrphansUnder
<1>4. InWalkOrder(S) \in Seq(Found)
  BY <1>3, WalkOrder
<1> QED
  BY <1>1, <1>3, <1>4

(* What the walk recorded ages in place.                                   *)
LEMMA AgedType ==
    ASSUME TypeOK, NEW f \in Files
    PROVE  /\ Aged(f) \in Seq(Found) /\ Len(Aged(f)) = Len(orphans)
           /\ \A n \in 1..Len(orphans) :
                /\ Aged(f)[n].path = orphans[n].path /\ Aged(f)[n].size = orphans[n].size
                /\ orphans[n].path # f => Aged(f)[n] = orphans[n]
                /\ orphans[n].path = f => Aged(f)[n].old = TRUE
<1>1. orphans \in Seq(Found) /\ Len(orphans) \in Nat
  BY LenProperties DEF TypeOK
<1>2. \A n \in 1..Len(orphans) : orphans[n] \in Found
  BY <1>1, ElementOfSeq
<1>3. \A o \in Found : /\ [o EXCEPT !.old = TRUE] \in Found
                       /\ [o EXCEPT !.old = TRUE].path = o.path
                       /\ [o EXCEPT !.old = TRUE].size = o.size
                       /\ [o EXCEPT !.old = TRUE].old = TRUE
  BY DEF Found
<1>4. Aged(f) \in [1..Len(orphans) -> Found]
  BY <1>2, <1>3 DEF Aged
<1>5. Aged(f) \in Seq(Found) /\ Len(Aged(f)) = Len(orphans)
  <2>1. Aged(f) \in Seq(Found)
    BY <1>1, <1>4, IsASeq
  <2>2. Len(Aged(f)) \in Nat /\ DOMAIN Aged(f) = 1..Len(Aged(f))
    BY <2>1, LenProperties
  <2> QED
    BY <1>1, <1>4, <2>1, <2>2
<1> QED
  BY <1>2, <1>3, <1>5 DEF Aged

LEMMA StepTypeOK == TypeOK /\ [Next]_vars => TypeOK'
<1> SUFFICES ASSUME TypeOK, [Next]_vars
             PROVE  TypeOK'
  OBVIOUS
<1> USE DEF world_vars, run_vars, walk_vars, triage_vars, ghost_vars
<1>1. CASE StartRun
  BY <1>1, OrphanConfigAssumption DEF StartRun, VisitStarts, TypeOK, Steps
<1>2. ASSUME NEW series, NEW files, Read(series, files), series \subseteq Series,
             files \subseteq Files
      PROVE  TypeOK'
  BY <1>2 DEF Read, TypeOK, Steps
<1>3. CASE FetchTracked
  <2>1. FilesOfSeries(1) \subseteq Files /\ \A n : FilesOfSeries(n) \subseteq Files
    BY DEF FilesOfSeries, TypeOK
  <2>2. seriesLeft \subseteq Series /\ snapshot \subseteq Files
    BY DEF TypeOK
  <2>3. CASE FetchSeries
    BY <1>2, <2>1, <2>2, <2>3 DEF FetchSeries
  <2>4. CASE FetchEmptyBody
    <3>1. CASE Read({}, snapshot)
      BY <1>2, <2>2, <3>1
    <3>2. ASSUME NEW n \in seriesLeft, Read(seriesLeft \ {n}, snapshot)
          PROVE  TypeOK'
      BY <1>2, <2>2, <3>2
    <3> QED
      BY <2>4, <3>1, <3>2 DEF FetchEmptyBody
  <2> QED
    BY <1>3, <2>3, <2>4 DEF FetchTracked
<1>4. CASE FetchFails
  <2>1. Leave /\ UNCHANGED world_vars
    BY <1>4 DEF FetchFails
  <2> QED
    BY <2>1, LeaveTypeOK DEF TypeOK
<1>5. CASE FetchRoots \/ RootsEmptyBody
  <2>1. PICK found \in SUBSET Roots : ListsRoots(found)
    BY <1>5, LayoutAssumption DEF FetchRoots, RootsEmptyBody, TypeOK
  <2> QED
    BY <2>1 DEF ListsRoots, TypeOK, Steps
<1>20. CASE StatTracked \/ SkipRescan \/ RequestRescan \/ RescanFails
  <2>1. rescans' \subseteq 1..NumInstances /\ UNCHANGED <<disk, tracked>>
    BY <1>20 DEF StatTracked, SkipRescan, RequestRescan, RescanFails, TypeOK
  <2>2. CASE Leave
    BY <2>1, <2>2, LeaveTypeOK DEF TypeOK
  <2>3. CASE ~Leave
    <3>1. /\ pc' \in {"rescan", "walk"}
          /\ UNCHANGED <<run_vars, walk_vars, triage_vars, ghost_vars>>
      BY <1>20, <2>3 DEF StatTracked, SkipRescan, RequestRescan, RescanFails, GoOn
    <3> QED
      BY <2>1, <3>1 DEF TypeOK, Steps
  <2> QED
    BY <2>2, <2>3
<1>6. CASE WalkRoot
  <2>1. rootsLeft' \subseteq Roots
    BY <1>6, WalkType DEF TypeOK
  <2>2. orphans' \in Seq(Found) /\ Len(orphans) <= Len(orphans')
    <3>1. CASE orphans' = orphans
      BY <3>1 DEF TypeOK
    <3>2. CASE orphans' # orphans
      <4>1. PICK S \in SUBSET Files : /\ InWalkOrder(S) \in Seq(Found)
                                      /\ orphans' = orphans \o InWalkOrder(S)
        BY <1>6, <3>2, WalkType
      <4>2. orphans \in Seq(Found)
        BY DEF TypeOK
      <4>3. Len(InWalkOrder(S)) \in Nat /\ Len(orphans) \in Nat
        BY <4>1, <4>2, LenProperties
      <4> HIDE DEF InWalkOrder
      <4> QED
        BY <4>1, <4>2, <4>3, ConcatProperties
    <3> QED
      BY <3>1, <3>2
  <2>3. Len(orphans) \in Nat /\ Len(orphans') \in Nat
    BY <2>2, LenProperties DEF TypeOK
  <2>4. 1..Len(orphans) \subseteq 1..Len(orphans')
    BY <2>2, <2>3
  <2>5. UNCHANGED <<world_vars, pc, run_vars, seriesLeft, snapshot, triage_vars, ghost_vars>>
    BY <1>6 DEF WalkRoot
  <2> QED
    BY <2>1, <2>2, <2>4, <2>5 DEF TypeOK
<1>7. CASE Filter
  <2> DEFINE passing == {n \in 1..Len(orphans) : PassesRails(orphans[n])}
             obvious == {n \in passing : ~RulesDisabled /\ IsJunk(orphans[n])}
  <2>1. CASE passing = {}
    <3>1. Leave /\ UNCHANGED world_vars
      BY <1>7, <2>1 DEF Filter
    <3> QED
      BY <3>1, LeaveTypeOK DEF TypeOK
  <2>2. CASE passing # {}
    <3>1. /\ refIndex' = passing /\ junk' = obvious
          /\ left' = Cut(passing \ obvious, MaxCandidates)
          /\ pc' = "rules"
          /\ asked' = asked \cup {orphans[n].path : n \in obvious}
          /\ UNCHANGED <<world_vars, run_vars, walk_vars, count, bytes, rewritten,
                         untracked, moved, movedBytes, runMoved, copies>>
      BY <1>7, <2>2 DEF Filter
    <3>2. refIndex' \subseteq 1..Len(orphans) /\ junk' \subseteq refIndex'
      BY <3>1
    <3>3. left' \subseteq refIndex'
      BY <3>1, CutsAreSubsets
    <3>4. \A n \in 1..Len(orphans) : orphans[n].path \in Files
      BY ElementOfSeq, FoundType DEF TypeOK
    <3>5. asked' \subseteq Files
      BY <3>1, <3>4 DEF TypeOK
    <3> HIDE DEF passing, obvious
    <3> QED
      BY <3>1, <3>2, <3>3, <3>5 DEF TypeOK, Steps
  <2> QED
    BY <2>1, <2>2
<1>8. CASE TrashJunk
  <2>1. PICK n \in FirstOf(junk, 1) : TrashOne(n) /\ junk' = junk \ {n}
    BY <1>8 DEF TrashJunk
  <2>2. n \in refIndex
    BY CutsAreSubsets DEF TypeOK
  <2>3. UNCHANGED <<pc, run_vars, walk_vars, refIndex, left>>
    BY <1>8 DEF TrashJunk
  <2>4. junk' \subseteq refIndex
    BY <2>1 DEF TypeOK
  <2> QED
    BY <2>1, <2>2, <2>3, <2>4, TrashOneType DEF TypeOK
<1>9. CASE RulesDone
  BY <1>9, NextChunkTypeOK DEF RulesDone, TypeOK, Steps
<1>10. CASE SubmitBatch
  <2>1. \A n \in left : orphans[n].path \in Files
    BY ReferenceType DEF TypeOK
  <2>2. asked' \subseteq Files
    BY <1>10, <2>1 DEF SubmitBatch, TypeOK
  <2> QED
    BY <1>10, <2>2 DEF SubmitBatch, TypeOK, Steps
<1>11. CASE SubmitFails
  <2>1. Leave /\ UNCHANGED world_vars
    BY <1>11 DEF SubmitFails
  <2> QED
    BY <2>1, LeaveTypeOK DEF TypeOK
<1>12. CASE ChunkAnswered
  <2>1. \A n \in Chunk : orphans[n].path \in Files
    BY ReferenceType, CutsAreSubsets DEF TypeOK, Chunk
  <2>2. asked' \subseteq Files
    BY <1>12, <2>1 DEF ChunkAnswered, TypeOK
  <2> QED
    BY <1>12, <2>2 DEF ChunkAnswered, TypeOK, Steps
<1>13. CASE ChunkFails
  BY <1>13, NextChunkTypeOK DEF ChunkFails, TypeOK, Steps
<1>14. CASE EndOfAnswer
  BY <1>14, NextChunkTypeOK DEF EndOfAnswer, TypeOK, Steps
<1>15. CASE Decision
  <2>1. PICK n \in refIndex : TrashOne(n)
    BY <1>15 DEF Decision, TrashOne
  <2>2. UNCHANGED <<pc, run_vars, walk_vars, refIndex, junk, left>>
    BY <1>15 DEF Decision
  <2> QED
    BY <2>1, <2>2, TrashOneType DEF TypeOK
<1>16. CASE ContextEnds
  BY <1>16 DEF ContextEnds, TypeOK
<1>17. CASE Rescanned
  <2>1. PICK i \in 1..NumInstances : RescanRuns(i)
    BY <1>17 DEF Rescanned
  <2> QED
    BY <2>1 DEF RescanRuns, Forget, LeaveRunAlone, LeaveStepAlone, TypeOK
<1>18. CASE World
  <2>1. PICK f \in Files :
          \/ FileWritten(f) \/ FileAges(f) \/ FileVanishes(f)
          \/ \E i \in 1..NumInstances : FileTracked(i, f) \/ FileUntracked(i, f)
    BY <1>18 DEF World
  <2>2. CASE FileWritten(f)
    <3>1. disk' \in [Files -> FilesOnDisk]
      BY <2>2 DEF FileWritten, FilesOnDisk, TypeOK
    <3> QED
      BY <2>2, <3>1 DEF FileWritten, LeaveRunAlone, LeaveStepAlone, TypeOK
  <2>3. CASE FileAges(f)
    <3>1. disk' \in [Files -> FilesOnDisk]
      <4>1. disk[f].present => [disk[f] EXCEPT !.old = TRUE] \in FilesOnDisk
        BY OldFileType DEF TypeOK
      <4> QED
        BY <2>3, <4>1 DEF FileAges, TypeOK
    <3>2. Aged(f) \in Seq(Found) /\ Len(Aged(f)) = Len(orphans)
      BY AgedType
    <3>3. orphans' \in Seq(Found) /\ Len(orphans') = Len(orphans)
      BY <2>3, <3>2 DEF FileAges, TypeOK
    <3> QED
      BY <2>3, <3>1, <3>3 DEF FileAges, LeaveStepAlone, TypeOK
  <2>4. CASE FileVanishes(f)
    BY <2>4 DEF FileVanishes, FilesOnDisk, LeaveRunAlone, LeaveStepAlone, TypeOK
  <2>5. ASSUME NEW i \in 1..NumInstances, FileTracked(i, f) \/ FileUntracked(i, f)
        PROVE  TypeOK'
    <3>1. /\ tracked' \in [1..NumInstances -> SUBSET Files] /\ untracked' \subseteq Files
          /\ UNCHANGED <<disk, rescans, rewritten>> /\ LeaveRunAlone
      BY <2>5 DEF FileTracked, FileUntracked, Forget, TypeOK
    <3> QED
      BY <3>1 DEF LeaveRunAlone, LeaveStepAlone, TypeOK
  <2> QED
    BY <2>1, <2>2, <2>3, <2>4, <2>5
<1>19. CASE UNCHANGED vars
  BY <1>19 DEF vars, TypeOK
<1> QED
  BY <1>1, <1>3, <1>4, <1>5, <1>6, <1>7, <1>8, <1>9, <1>10, <1>11, <1>12, <1>13,
     <1>14, <1>15, <1>16, <1>17, <1>18, <1>19, <1>20 DEF Next, Progress

(* For every layout and configuration the state stays well typed.          *)
THEOREM TypeCorrect == Spec => []TypeOK
<1>1. Init => TypeOK
  BY InitTypeOK
<1>2. TypeOK /\ [Next]_vars => TypeOK'
  BY StepTypeOK
<1> QED
  BY <1>1, <1>2, PTL DEF Spec
-----------------------------------------------------------------------------
(* The steps by what they do: a visit ends, a file is decided about, or the*)
(* run does something of which neither files nor counters know; and the    *)
(* four that remain, the world's included.                                 *)
counters == <<count, bytes, moved, movedBytes, runMoved, copies>>
RequestsNone == dryRun => rescans' \subseteq rescans

Leaves == Leave /\ UNCHANGED <<disk, tracked>> /\ RequestsNone
Decides(n) ==
    /\ pc \in {"rules", "apply"} /\ TrashOne(n)
    /\ UNCHANGED <<pc, run_vars, walk_vars, refIndex>>
Thinks ==
    /\ UNCHANGED <<disk, tracked, inst, seriesLeft, snapshot, orphans, rewritten, untracked,
                   counters>>
    /\ RequestsNone
    /\ pc' = pc \/ (pc \notin {"idle", "tracked"} /\ pc' \notin {"idle", "tracked"})
Apart == UNCHANGED counters /\ RequestsNone

LEMMA NextChunkKinds ==
    ASSUME NEW rest, NEW step \in {"submit", "ask"}, NextChunk(rest, step),
           UNCHANGED world_vars, pc \notin {"idle", "tracked"}
    PROVE  Leaves \/ Thinks
<1>1. CASE rest # {}
  BY <1>1 DEF NextChunk, Thinks, RequestsNone, counters, world_vars, run_vars, walk_vars,
     ghost_vars
<1>2. CASE rest = {}
  BY <1>2 DEF NextChunk, Leaves, RequestsNone, world_vars
<1> QED
  BY <1>1, <1>2

LEMMA StepKinds ==
    ASSUME TypeOK, [Next]_vars
    PROVE  \/ Leaves \/ Thinks
           \/ \E n \in refIndex : Decides(n)
           \/ Apart /\ (StartRun \/ FetchTracked \/ WalkRoot \/ Rescanned \/ World)
<1> USE DEF world_vars, run_vars, walk_vars, triage_vars, ghost_vars, counters,
        RequestsNone, Apart
<1>1. CASE StartRun \/ WalkRoot
  BY <1>1 DEF StartRun, WalkRoot
<1>2. CASE FetchTracked
  BY <1>2 DEF FetchTracked, FetchSeries, FetchEmptyBody, Read
<1>3. CASE FetchFails \/ SubmitFails
  BY <1>3 DEF FetchFails, SubmitFails, Leaves
<1>4. CASE FetchRoots \/ RootsEmptyBody
  BY <1>4 DEF FetchRoots, RootsEmptyBody, ListsRoots, Thinks
<1>14. CASE StatTracked \/ SkipRescan \/ RequestRescan \/ RescanFails
  <2>1. /\ pc \in {"stat", "rescan"} /\ UNCHANGED <<disk, tracked>>
        /\ RequestsNone
        /\ GoOn \/ (pc' = "rescan" /\ UNCHANGED <<run_vars, walk_vars, triage_vars, ghost_vars>>)
    <3>1. CASE StatTracked \/ SkipRescan
      BY <3>1 DEF StatTracked, SkipRescan
    <3>2. CASE RequestRescan
      BY <3>2 DEF RequestRescan
    <3>3. CASE RescanFails
      BY <3>3 DEF RescanFails
    <3> QED
      BY <1>14, <3>1, <3>2, <3>3
  <2>2. CASE Leave
    BY <2>1, <2>2 DEF Leaves
  <2>3. CASE ~Leave
    BY <2>1, <2>3 DEF GoOn, Thinks
  <2> QED
    BY <2>2, <2>3
<1>5. CASE Filter
  <2>1. CASE Leave
    BY <1>5, <2>1 DEF Filter, Leaves
  <2>2. CASE ~Leave
    BY <1>5, <2>2 DEF Filter, Thinks
  <2> QED
    BY <2>1, <2>2
<1>6. CASE TrashJunk
  <2>1. PICK n \in FirstOf(junk, 1) : TrashOne(n)
    BY <1>6 DEF TrashJunk
  <2>2. n \in refIndex
    BY CutsAreSubsets DEF TypeOK
  <2> QED
    BY <1>6, <2>1, <2>2 DEF TrashJunk, Decides
<1>7. CASE RulesDone
  BY <1>7, NextChunkKinds DEF RulesDone
<1>8. CASE ChunkFails \/ EndOfAnswer
  BY <1>8, NextChunkKinds DEF ChunkFails, EndOfAnswer
<1>9. CASE SubmitBatch \/ ChunkAnswered \/ ContextEnds
  BY <1>9 DEF SubmitBatch, ChunkAnswered, ContextEnds, Thinks
<1>10. CASE Decision
  <2>1. PICK n \in refIndex : TrashOne(n)
    BY <1>10 DEF Decision, TrashOne
  <2> QED
    BY <1>10, <2>1 DEF Decision, Decides
<1>11. CASE Rescanned
  BY <1>11 DEF Rescanned, RescanRuns, LeaveRunAlone, LeaveStepAlone
<1>12. CASE World
  BY <1>12 DEF World, FileWritten, FileAges, FileVanishes, FileTracked, FileUntracked,
     LeaveRunAlone, LeaveStepAlone
<1>13. CASE UNCHANGED vars
  BY <1>13 DEF vars, Thinks
<1> QED
  BY <1>1, <1>2, <1>3, <1>4, <1>5, <1>6, <1>7, <1>8, <1>9, <1>10, <1>11, <1>12, <1>13,
     <1>14 DEF Next, Progress

-----------------------------------------------------------------------------
(* The delete cap: rules and decisions share one counter, which never      *)
(* passes the cap and counts every file that is taken.                     *)
LEMMA StepCount == TypeOK /\ CountInv /\ [Next]_vars => CountInv'
<1> SUFFICES ASSUME TypeOK, CountInv, [Next]_vars
             PROVE  CountInv'
  OBVIOUS
<1> USE OrphanConfigAssumption DEF CountInv
<1>1. CASE Leaves
  BY <1>1 DEF Leaves, Leave
<1>2. CASE Thinks \/ Apart
  BY <1>2 DEF Thinks, Apart, counters
<1>3. ASSUME NEW n \in refIndex, Decides(n)
      PROVE  CountInv'
  <2>1. CASE TrashDryRun(n) \/ TrashDone(n)
    BY <2>1 DEF TypeOK, TrashDryRun, TrashDone, Trash, Counted, ghost_vars
  <2>2. CASE TrashLeavesSource(n) \/ TrashRefused(n)
    BY <2>2 DEF TrashLeavesSource, TrashRefused, ghost_vars
  <2> QED
    BY <1>3, <2>1, <2>2 DEF Decides, TrashOne
<1> QED
  BY <1>1, <1>2, <1>3, StepKinds

(* A visit takes at most MaxDeletes files, whatever fails and changes.     *)
THEOREM DeletesCapped == Spec => []DeleteCap
<1>1. Init => TypeOK /\ CountInv
  BY InitTypeOK, OrphanConfigAssumption DEF Init, CountInv
<1>2. TypeOK /\ CountInv /\ [Next]_vars => (TypeOK /\ CountInv)'
  BY StepTypeOK, StepCount
<1>3. TypeOK /\ CountInv => DeleteCap
  BY OrphanConfigAssumption DEF TypeOK, CountInv, DeleteCap
<1> QED
  BY <1>1, <1>2, <1>3, PTL DEF Spec

(* The cap over a run: every visit counts anew, so max_deletes_per_run     *)
(* bounds a run NumInstances times over.                                   *)
RunDeleteCap == runMoved <= NumInstances * MaxDeletes

RunCountInv ==
    /\ CountInv
    /\ pc = "idle" => inst = 1 /\ moved = 0
    /\ runMoved <= (inst - 1) * MaxDeletes + moved

LEMMA CapsAddUp ==
    ASSUME NEW i \in 1..NumInstances
    PROVE  /\ (i - 1) * MaxDeletes \in Nat /\ i * MaxDeletes \in Nat
           /\ (i - 1) * MaxDeletes + MaxDeletes = i * MaxDeletes
           /\ i * MaxDeletes <= NumInstances * MaxDeletes
           /\ NumInstances * MaxDeletes \in Nat
<1>1. MaxDeletes \in Nat /\ NumInstances \in Nat /\ i \in Nat /\ i - 1 \in Nat
      /\ NumInstances - i \in Nat
  BY OrphanConfigAssumption, LayoutAssumption
<1>2. \A a, b \in Nat : a * b \in Nat
  OBVIOUS
<1>3. \A a, b, c \in Nat : (a + b) * c = a * c + b * c
  OBVIOUS
<1>4. NumInstances = i + (NumInstances - i) /\ i = (i - 1) + 1 /\ 1 * MaxDeletes = MaxDeletes
  BY <1>1
<1>5. i * MaxDeletes = (i - 1) * MaxDeletes + 1 * MaxDeletes
  BY <1>1, <1>3, <1>4
<1>6. NumInstances * MaxDeletes = i * MaxDeletes + (NumInstances - i) * MaxDeletes
  BY <1>1, <1>3, <1>4
<1> QED
  BY <1>1, <1>2, <1>4, <1>5, <1>6

LEMMA StepRunCount == TypeOK /\ RunCountInv /\ [Next]_vars => RunCountInv'
<1> SUFFICES ASSUME TypeOK, RunCountInv, [Next]_vars
             PROVE  RunCountInv'
  OBVIOUS
<1>a. CountInv'
  BY StepCount DEF RunCountInv
<1>1. CASE Leaves
  <2>1. moved <= MaxDeletes /\ moved' = 0
    BY <1>1, OrphanConfigAssumption DEF Leaves, Leave, RunCountInv, CountInv, TypeOK
  <2>2. runMoved <= inst * MaxDeletes
    BY <2>1, CapsAddUp, OrphanConfigAssumption DEF RunCountInv, TypeOK
  <2>3. CASE inst < NumInstances
    <3>1. inst' = inst + 1 /\ runMoved' = runMoved /\ pc' = "tracked"
      BY <1>1, <2>3 DEF Leaves, Leave, VisitStarts
    <3>2. inst' - 1 = inst /\ inst * MaxDeletes \in Nat
      BY <3>1, CapsAddUp DEF TypeOK
    <3> QED
      BY <1>a, <2>1, <2>2, <3>1, <3>2 DEF RunCountInv
  <2>4. CASE ~(inst < NumInstances)
    <3>1. inst' = 1 /\ runMoved' = 0
      BY <1>1, <2>4 DEF Leaves, Leave
    <3>2. (inst' - 1) * MaxDeletes = 0
      BY <3>1, OrphanConfigAssumption
    <3> QED
      BY <1>a, <2>1, <3>1, <3>2 DEF RunCountInv
  <2> QED
    BY <2>3, <2>4
<1>2. CASE Thinks
  <2>1. UNCHANGED <<inst, moved, runMoved>> /\ (pc' = "idle" => pc = "idle")
    BY <1>2 DEF Thinks, counters
  <2> QED
    BY <1>a, <2>1 DEF RunCountInv
<1>3. ASSUME NEW n \in refIndex, Decides(n)
      PROVE  RunCountInv'
  <2>1. /\ pc # "idle" /\ pc' = pc /\ inst' = inst
        /\ \/ UNCHANGED <<moved, runMoved>>
           \/ moved' = moved + 1 /\ runMoved' = runMoved + 1
    BY <1>3 DEF Decides, TrashOne, TrashDryRun, TrashDone, TrashLeavesSource, TrashRefused,
       run_vars, ghost_vars
  <2>2. (inst - 1) * MaxDeletes \in Nat /\ moved \in Nat /\ runMoved \in Nat
    BY CapsAddUp DEF TypeOK
  <2> QED
    BY <1>a, <2>1, <2>2 DEF RunCountInv
<1>4. CASE Apart /\ (StartRun \/ FetchTracked \/ WalkRoot \/ Rescanned \/ World)
  <2>1. UNCHANGED <<inst, moved, runMoved>>
    BY <1>4 DEF Apart, counters, StartRun, FetchTracked, FetchSeries, FetchEmptyBody, Read,
       WalkRoot, Rescanned, RescanRuns, World, FileWritten, FileAges, FileVanishes,
       FileTracked, FileUntracked, LeaveRunAlone, LeaveStepAlone, run_vars
  <2>2. pc' = "idle" => pc = "idle"
    BY <1>4 DEF StartRun, VisitStarts, FetchTracked, FetchSeries, FetchEmptyBody, Read,
       WalkRoot, Rescanned, RescanRuns, World, FileWritten, FileAges, FileVanishes,
       FileTracked, FileUntracked, LeaveRunAlone, LeaveStepAlone
  <2> QED
    BY <1>a, <2>1, <2>2 DEF RunCountInv
<1> QED
  BY <1>1, <1>2, <1>3, <1>4, StepKinds

(* A run takes at most max_deletes_per_run files for each instance.        *)
THEOREM RunDeletesCapped == Spec => []RunDeleteCap
<1>1. Init => TypeOK /\ RunCountInv
  <2> SUFFICES ASSUME Init PROVE RunCountInv
    BY InitTypeOK
  <2>1. (inst - 1) * MaxDeletes = 0
    BY OrphanConfigAssumption DEF Init
  <2> QED
    BY <2>1, OrphanConfigAssumption DEF Init, RunCountInv, CountInv
<1>2. TypeOK /\ RunCountInv /\ [Next]_vars => (TypeOK /\ RunCountInv)'
  BY StepTypeOK, StepRunCount
<1>3. TypeOK /\ RunCountInv => RunDeleteCap
  <2> SUFFICES ASSUME TypeOK, RunCountInv PROVE RunDeleteCap
    OBVIOUS
  <2>1. /\ (inst - 1) * MaxDeletes + MaxDeletes = inst * MaxDeletes
        /\ inst * MaxDeletes <= NumInstances * MaxDeletes
        /\ NumInstances * MaxDeletes \in Nat /\ (inst - 1) * MaxDeletes \in Nat
        /\ inst * MaxDeletes \in Nat
    BY CapsAddUp DEF TypeOK
  <2>2. moved <= MaxDeletes
    BY OrphanConfigAssumption DEF RunCountInv, CountInv, TypeOK
  <2> QED
    BY <2>1, <2>2, OrphanConfigAssumption DEF RunCountInv, RunDeleteCap, TypeOK
<1> QED
  BY <1>1, <1>2, <1>3, PTL DEF Spec

(* A dry run relocates nothing, copies nothing and requests no rescan.     *)
THEOREM DryRunsInert == Spec => Inert
<1>1. TypeOK /\ [Next]_vars =>
        [dryRun => /\ runMoved' <= runMoved /\ copies' <= copies
                   /\ rescans' \subseteq rescans]_vars
  <2> SUFFICES ASSUME TypeOK, [Next]_vars, dryRun
               PROVE  /\ runMoved' <= runMoved /\ copies' <= copies
                      /\ rescans' \subseteq rescans
    OBVIOUS
  <2>1. runMoved \in Nat /\ copies \in Nat
    BY DEF TypeOK
  <2>2. CASE Leaves
    <3>1. CASE inst < NumInstances
      BY <2>1, <2>2, <3>1 DEF Leaves, Leave, RequestsNone
    <3>2. CASE ~(inst < NumInstances)
      <4>1. runMoved' = 0 /\ copies' = 0
        BY <2>2, <3>2 DEF Leaves, Leave
      <4> QED
        BY <2>1, <2>2, <4>1 DEF Leaves, RequestsNone
    <3> QED
      BY <3>1, <3>2
  <2>3. CASE Thinks \/ Apart
    BY <2>1, <2>3 DEF Thinks, Apart, RequestsNone, counters
  <2>4. ASSUME NEW n \in refIndex, Decides(n)
        PROVE  UNCHANGED <<runMoved, copies, rescans>>
    BY <2>4 DEF Decides, TrashOne, TrashDryRun, TrashDone, TrashLeavesSource, TrashRefused,
       world_vars, ghost_vars
  <2> QED
    BY <2>1, <2>2, <2>3, <2>4, StepKinds
<1> QED
  BY <1>1, TypeCorrect, PTL DEF Spec, Inert
-----------------------------------------------------------------------------
(* What the walk recorded of a file holds until the file is rewritten.     *)

(* The entries before and after a walk: old ones, and those of a set.      *)
LEMMA WalkEntries ==
    ASSUME TypeOK, WalkRoot, NEW n \in 1..Len(orphans')
    PROVE  LET o == orphans'[n]
           IN \/ n \in 1..Len(orphans) /\ o = orphans[n]
              \/ /\ o.path \in Files /\ o.path \notin snapshot
                 /\ o.size = disk[o.path].size /\ o.old = disk[o.path].old
<1>1. orphans \in Seq(Found) /\ Len(orphans) \in Nat
  BY LenProperties DEF TypeOK
<1>2. CASE orphans' = orphans
  BY <1>2
<1>3. CASE orphans' # orphans
  <2>1. PICK S \in SUBSET Files : /\ \A f \in S : disk[f].present /\ f \notin snapshot
                                  /\ InWalkOrder(S) \in Seq(Found)
                                  /\ orphans' = orphans \o InWalkOrder(S)
    BY <1>3, WalkType
  <2> DEFINE w == InWalkOrder(S)
  <2>2. \A m \in 1..Len(w) : /\ w[m].path \in S /\ w[m].size = disk[w[m].path].size
                             /\ w[m].old = disk[w[m].path].old
    BY <2>1, WalkOrder
  <2>3. Len(w) \in Nat
    BY <2>1, LenProperties
  <2> HIDE DEF w
  <2>4. /\ Len(orphans') = Len(orphans) + Len(w)
        /\ n <= Len(orphans) => orphans'[n] = orphans[n]
        /\ n > Len(orphans) => orphans'[n] = w[n - Len(orphans)]
    BY <1>1, <2>1, <2>3, ConcatProperties DEF w
  <2>5. CASE n <= Len(orphans)
    BY <1>1, <2>4, <2>5
  <2>6. CASE n > Len(orphans)
    <3>1. n - Len(orphans) \in 1..Len(w)
      BY <1>1, <2>3, <2>4, <2>6
    <3> QED
      BY <2>1, <2>2, <2>4, <2>6, <3>1
  <2> QED
    BY <1>1, <2>5, <2>6
<1> QED
  BY <1>2, <1>3

LEMMA StepRecorded == TypeOK /\ RecordedInv /\ [Next]_vars => RecordedInv'
<1> SUFFICES ASSUME TypeOK, RecordedInv, [Next]_vars
             PROVE  RecordedInv'
  OBVIOUS
<1> USE DEF RecordedInv
<1>1. CASE Leaves
  BY <1>1, EmptySeq DEF Leaves, Leave
<1>2. CASE Thinks
  BY <1>2 DEF Thinks
<1>3. ASSUME NEW n \in refIndex, Decides(n)
      PROVE  RecordedInv'
  <2>1. UNCHANGED <<orphans, rewritten>>
    BY <1>3, TrashOneType DEF Decides, walk_vars
  <2>2. disk' = disk \/ disk' = [disk EXCEPT ![orphans[n].path] = NoFile]
    BY <1>3 DEF Decides, TrashOne, TrashDryRun, TrashDone, TrashLeavesSource, TrashRefused,
       world_vars
  <2>3. \A f \in Files : disk'[f] = disk[f] \/ ~disk'[f].present
    BY <2>2, ReferenceType DEF TypeOK, NoFile
  <2>4. \A m \in 1..Len(orphans) : orphans[m].path \in Files
    BY ElementOfSeq, FoundType DEF TypeOK
  <2> QED
    BY <2>1, <2>3, <2>4
<1>4. CASE StartRun \/ FetchTracked \/ Rescanned
  BY <1>4 DEF StartRun, FetchTracked, FetchSeries, FetchEmptyBody, Read, Rescanned,
     RescanRuns, LeaveRunAlone, LeaveStepAlone, world_vars, ghost_vars
<1>5. CASE WalkRoot
  <2>1. UNCHANGED <<disk, rewritten>>
    BY <1>5 DEF WalkRoot, world_vars, ghost_vars
  <2> QED
    BY <1>5, <2>1, WalkEntries
<1>6. ASSUME NEW f \in Files, FileWritten(f)
      PROVE  RecordedInv'
  <2>1. \A g : g # f => disk'[g] = disk[g]
    BY <1>6 DEF FileWritten, TypeOK
  <2>2. \A n \in 1..Len(orphans) : orphans[n].path = f => f \in rewritten'
    BY <1>6 DEF FileWritten, SeenByVisit
  <2>3. orphans' = orphans /\ rewritten \subseteq rewritten'
    BY <1>6 DEF FileWritten, LeaveRunAlone
  <2> QED
    BY <2>1, <2>2, <2>3
<1>7. ASSUME NEW f \in Files, FileAges(f)
      PROVE  RecordedInv'
  <2>1. rewritten' = rewritten /\ Len(orphans') = Len(orphans)
    <3>1. rewritten' = rewritten /\ (orphans' = orphans \/ orphans' = Aged(f))
      BY <1>7 DEF FileAges, LeaveStepAlone
    <3>2. Len(Aged(f)) = Len(orphans)
      BY AgedType
    <3> QED
      BY <3>1, <3>2
  <2>5. \A m \in 1..Len(orphans) : orphans[m].path \in Files
    BY ElementOfSeq, FoundType DEF TypeOK
  <2> SUFFICES ASSUME NEW n \in 1..Len(orphans), orphans'[n].path \notin rewritten,
                      disk'[orphans'[n].path].present
               PROVE  /\ disk'[orphans'[n].path].size = orphans'[n].size
                      /\ disk'[orphans'[n].path].old = orphans'[n].old
    BY <2>1
  <2>2. orphans'[n].path = orphans[n].path /\ orphans'[n].size = orphans[n].size
    BY <1>7, AgedType DEF FileAges
  <2>3. CASE orphans[n].path # f
    <3>1. disk'[orphans[n].path] = disk[orphans[n].path]
      BY <1>7, <2>3, <2>5 DEF FileAges, TypeOK
    <3>2. orphans'[n] = orphans[n]
      <4>1. Aged(f)[n] = orphans[n]
        BY <2>3, AgedType
      <4> QED
        BY <1>7, <4>1 DEF FileAges
    <3> QED
      BY <2>1, <2>2, <3>1, <3>2
  <2>4. CASE orphans[n].path = f
    <3>1. /\ disk[f].present /\ disk' = [disk EXCEPT ![f].old = TRUE]
          /\ orphans' = Aged(f)
      BY <1>7, <2>2, <2>4 DEF FileAges
    <3>2. disk'[f] = [disk[f] EXCEPT !.old = TRUE] /\ orphans'[n].old = TRUE
      BY <2>4, <3>1, AgedType DEF TypeOK
    <3>3. disk'[f].size = disk[f].size /\ disk'[f].old = TRUE
      BY <3>1, <3>2, FileFields DEF TypeOK
    <3> QED
      BY <2>2, <2>4, <3>1, <3>2, <3>3
  <2> QED
    BY <2>3, <2>4
<1>8. ASSUME NEW f \in Files, FileVanishes(f)
      PROVE  RecordedInv'
  <2>1. /\ UNCHANGED <<orphans, rewritten>>
        /\ \A g \in Files : disk'[g] = disk[g] \/ ~disk'[g].present
    BY <1>8 DEF FileVanishes, LeaveRunAlone, TypeOK, NoFile
  <2>2. \A m \in 1..Len(orphans) : orphans[m].path \in Files
    BY ElementOfSeq, FoundType DEF TypeOK
  <2> QED
    BY <2>1, <2>2
<1>9. ASSUME NEW f \in Files, NEW i \in 1..NumInstances,
             FileTracked(i, f) \/ FileUntracked(i, f)
      PROVE  RecordedInv'
  BY <1>9 DEF FileTracked, FileUntracked, LeaveRunAlone
<1>10. CASE World
  BY <1>6, <1>7, <1>8, <1>9, <1>10 DEF World
<1> QED
  BY <1>1, <1>2, <1>3, <1>4, <1>5, <1>10, StepKinds
-----------------------------------------------------------------------------
(* The byte cap: without writes what is charged is what is moved.          *)
LEMMA StepBytes ==
    ASSUME "write" \notin Changes
    PROVE  TypeOK /\ RecordedInv /\ BytesInv /\ [Next]_vars => BytesInv'
<1> SUFFICES ASSUME TypeOK, RecordedInv, BytesInv, [Next]_vars
             PROVE  BytesInv'
  OBVIOUS
<1> USE OrphanConfigAssumption DEF BytesInv
<1>1. CASE Leaves
  BY <1>1 DEF Leaves, Leave
<1>2. CASE Thinks
  BY <1>2 DEF Thinks, counters
<1>3. CASE Apart /\ (StartRun \/ FetchTracked \/ WalkRoot)
  BY <1>3 DEF Apart, counters, StartRun, FetchTracked, FetchSeries, FetchEmptyBody, Read,
     WalkRoot, ghost_vars
<1>4. CASE Apart /\ (Rescanned \/ World)
  BY <1>4 DEF Apart, counters, Rescanned, RescanRuns, World, FileWritten, FileAges,
     FileVanishes, FileTracked, FileUntracked
<1>5. ASSUME NEW n \in refIndex, Decides(n)
      PROVE  BytesInv'
  <2>1. rewritten' = {}
    BY <1>5, TrashOneType DEF Decides
  <2>2. orphans[n].size \in Nat /\ bytes \in Nat /\ movedBytes \in Nat
    BY ReferenceType DEF TypeOK
  <2>3. CASE TrashDryRun(n)
    BY <2>1, <2>2, <2>3 DEF TrashDryRun, Trash, Counted, ghost_vars
  <2>4. CASE TrashDone(n)
    <3>1. disk[orphans[n].path].size = orphans[n].size
      BY <2>4, ReferenceType DEF RecordedInv, TrashDone
    <3> QED
      BY <2>1, <2>2, <2>4, <3>1 DEF TrashDone, Trash, Counted
  <2>5. CASE TrashLeavesSource(n) \/ TrashRefused(n)
    BY <2>5 DEF TrashLeavesSource, TrashRefused, ghost_vars
  <2> QED
    BY <1>5, <2>3, <2>4, <2>5 DEF Decides, TrashOne
<1> QED
  BY <1>1, <1>2, <1>3, <1>4, <1>5, StepKinds

LEMMA InitRecorded == Init => RecordedInv /\ SnapshotInv
  BY EmptySeq DEF Init, RecordedInv, SnapshotInv, SnapshotComplete

(* A visit moves at most MaxBytes, unless files are written meanwhile.     *)
THEOREM BytesCapped ==
    ASSUME "write" \notin Changes
    PROVE  Spec => []ByteCap
<1>1. Init => TypeOK /\ RecordedInv /\ BytesInv
  BY InitTypeOK, InitRecorded, OrphanConfigAssumption DEF Init, BytesInv
<1>2. TypeOK /\ RecordedInv /\ BytesInv /\ [Next]_vars
        => (TypeOK /\ RecordedInv /\ BytesInv)'
  BY StepTypeOK, StepRecorded, StepBytes
<1>3. TypeOK /\ BytesInv => ByteCap
  BY OrphanConfigAssumption DEF TypeOK, BytesInv, ByteCap
<1> QED
  BY <1>1, <1>2, <1>3, PTL DEF Spec

-----------------------------------------------------------------------------
(* A file is only ever taken by a decision, by rule or model, about a      *)
(* reference to it.                                                        *)
LEMMA TakesIsDecided ==
    ASSUME TypeOK, [Next]_vars, NEW f \in Files, Takes(f)
    PROVE  \E n \in refIndex : /\ Decides(n) /\ PassesRails(orphans[n])
                               /\ orphans[n].path = f
<1>1. runMoved \in Nat /\ runMoved' = runMoved + 1
  BY DEF TypeOK, Takes
<1>2. CASE Leaves
  BY <1>2 DEF Leaves, Takes
<1>3. CASE Thinks \/ Apart
  BY <1>1, <1>3 DEF Thinks, Apart, counters
<1>4. ASSUME NEW n \in refIndex, Decides(n)
      PROVE  PassesRails(orphans[n]) /\ orphans[n].path = f
  <2>1. TrashDone(n)
    BY <1>1, <1>4 DEF Decides, TrashOne, TrashDryRun, TrashLeavesSource, TrashRefused,
       ghost_vars
  <2>2. disk' = [disk EXCEPT ![orphans[n].path] = NoFile] /\ PassesRails(orphans[n])
    BY <2>1 DEF TrashDone, Trash
  <2>3. disk[f].present /\ ~disk'[f].present
    BY DEF Takes
  <2> QED
    BY <2>2, <2>3 DEF TypeOK
<1> QED
  BY <1>2, <1>3, <1>4, StepKinds

(* Whatever the model says, a file that is taken is allowed, unprotected,  *)
(* old and not empty, unless it was rewritten since the walk.              *)
THEOREM RailsHold == Spec => TakenWithinRails
<1> DEFINE Safe(f) == /\ f \in AllowedFiles \ Protected
                      /\ f \in rewritten \/ (disk[f].old /\ disk[f].size > 0)
<1>1. TypeOK /\ RecordedInv /\ [Next]_vars => [\A f \in Files : Takes(f) => Safe(f)]_vars
  <2> SUFFICES ASSUME TypeOK, RecordedInv, [Next]_vars, NEW f \in Files, Takes(f)
               PROVE  Safe(f)
    OBVIOUS
  <2>1. PICK n \in refIndex : PassesRails(orphans[n]) /\ orphans[n].path = f
    BY TakesIsDecided
  <2>2. n \in 1..Len(orphans) /\ disk[f].present
    BY ReferenceType DEF Takes
  <2>3. f \in rewritten \/ (disk[f].size = orphans[n].size /\ disk[f].old = orphans[n].old)
    BY <2>1, <2>2 DEF RecordedInv
  <2> QED
    BY <2>1, <2>3 DEF PassesRails
<1>2. Init => TypeOK /\ RecordedInv
  BY InitTypeOK, InitRecorded
<1>3. TypeOK /\ RecordedInv /\ [Next]_vars => (TypeOK /\ RecordedInv)'
  BY StepTypeOK, StepRecorded
<1> QED
  BY <1>1, <1>2, <1>3, PTL DEF Spec, TakenWithinRails

-----------------------------------------------------------------------------
(* The snapshot has what the database references throughout the visit, so  *)
(* no such file is taken for an orphan, as long as no body comes empty.    *)
LEMMA VisitStartsSnapshot ==
    ASSUME TypeOK, Leave, UNCHANGED tracked
    PROVE  SnapshotInv'
<1>1. orphans' = <<>> /\ Len(orphans') = 0
  BY EmptySeq DEF Leave
<1>2. CASE inst < NumInstances
  <2>1. /\ pc' = "tracked" /\ inst' = inst + 1 /\ seriesLeft' = Series
        /\ untracked' = Files \ tracked[inst + 1]
    BY <1>2 DEF Leave, VisitStarts
  <2>2. \A f \in Files : SeriesOf[f] \in seriesLeft'
    BY <2>1 DEF Series
  <2> QED
    BY <1>1, <2>1, <2>2 DEF SnapshotInv, SnapshotComplete
<1>3. CASE ~(inst < NumInstances)
  <2>1. pc' = "idle" /\ inst' = 1
    BY <1>3 DEF Leave
  <2> QED
    BY <1>1, <2>1 DEF SnapshotInv, SnapshotComplete
<1> QED
  BY <1>2, <1>3

LEMMA WorldTracks ==
    ASSUME TypeOK, Rescanned \/ World
    PROVE  /\ untracked \subseteq untracked'
           /\ pc # "idle" /\ Files \ untracked \subseteq tracked[inst]
                => Files \ untracked' \subseteq tracked'[inst]
<1>1. ASSUME NEW i \in 1..NumInstances, NEW F, Forget(i, F)
      PROVE  /\ untracked \subseteq untracked'
             /\ pc # "idle" /\ Files \ untracked \subseteq tracked[inst]
                  => Files \ untracked' \subseteq tracked'[inst]
  BY <1>1 DEF Forget, TypeOK
<1>2. ASSUME NEW i \in 1..NumInstances, NEW f \in Files, FileTracked(i, f)
      PROVE  /\ untracked' = untracked
             /\ tracked[inst] \subseteq tracked'[inst]
  BY <1>2 DEF FileTracked, TypeOK
<1>3. CASE Rescanned
  BY <1>1, <1>3 DEF Rescanned, RescanRuns
<1>4. CASE World
  <2>1. PICK f \in Files :
          \/ FileWritten(f) \/ FileAges(f) \/ FileVanishes(f)
          \/ \E i \in 1..NumInstances : FileTracked(i, f) \/ FileUntracked(i, f)
    BY <1>4 DEF World
  <2>2. CASE FileWritten(f) \/ FileAges(f) \/ FileVanishes(f)
    BY <2>2 DEF FileWritten, FileAges, FileVanishes
  <2>3. ASSUME NEW i \in 1..NumInstances, FileTracked(i, f) \/ FileUntracked(i, f)
        PROVE  /\ untracked \subseteq untracked'
               /\ pc # "idle" /\ Files \ untracked \subseteq tracked[inst]
                    => Files \ untracked' \subseteq tracked'[inst]
    BY <1>1, <1>2, <2>3 DEF FileUntracked
  <2> QED
    BY <2>1, <2>2, <2>3
<1> QED
  BY <1>3, <1>4

LEMMA WorldFinds ==
    ASSUME TypeOK, Rescanned \/ World
    PROVE  /\ Len(orphans') = Len(orphans)
           /\ \A n \in 1..Len(orphans) : orphans'[n].path = orphans[n].path
           /\ orphans = <<>> => orphans' = <<>>
<1>1. orphans' = orphans \/ \E f \in Files : orphans' = Aged(f)
  BY DEF Rescanned, RescanRuns, World, FileWritten, FileAges, FileVanishes, FileTracked,
     FileUntracked, LeaveRunAlone
<1>2. CASE orphans' = orphans
  BY <1>2
<1>3. ASSUME NEW f \in Files, orphans' = Aged(f)
      PROVE  /\ Len(orphans') = Len(orphans)
             /\ \A n \in 1..Len(orphans) : orphans'[n].path = orphans[n].path
             /\ orphans = <<>> => orphans' = <<>>
  <2>1. orphans \in Seq(Found)
    BY DEF TypeOK
  <2>2. /\ Aged(f) \in Seq(Found) /\ Len(Aged(f)) = Len(orphans)
        /\ \A n \in 1..Len(orphans) : Aged(f)[n].path = orphans[n].path
    BY AgedType
  <2> QED
    BY <1>3, <2>1, <2>2, EmptySeq
<1> QED
  BY <1>1, <1>2, <1>3

LEMMA StepSnapshot ==
    ASSUME "emptyBody" \notin Faults
    PROVE  TypeOK /\ SnapshotInv /\ [Next]_vars => SnapshotInv'
<1> SUFFICES ASSUME TypeOK, SnapshotInv, [Next]_vars
             PROVE  SnapshotInv'
  OBVIOUS
<1>1. CASE Leaves
  BY <1>1, VisitStartsSnapshot DEF Leaves
<1>2. CASE Thinks
  <2>1. CASE pc' = pc
    <3>1. UNCHANGED <<tracked, inst, seriesLeft, snapshot, orphans, untracked>>
      BY <1>2 DEF Thinks
    <3> QED
      BY <1>2, <2>1, <3>1 DEF SnapshotInv, SnapshotComplete
  <2>2. CASE pc' # pc
    BY <1>2, <2>2 DEF Thinks, SnapshotInv, SnapshotComplete
  <2> QED
    BY <2>1, <2>2
<1>3. ASSUME NEW n \in refIndex, Decides(n)
      PROVE  SnapshotInv'
  <2>1. UNCHANGED <<pc, inst, tracked, snapshot, seriesLeft, orphans, untracked>>
    BY <1>3, TrashOneType DEF Decides, run_vars, walk_vars
  <2> QED
    BY <2>1 DEF SnapshotInv, SnapshotComplete
<1>4. CASE StartRun
  <2>1. pc = "idle" /\ inst' = inst /\ UNCHANGED <<tracked, snapshot, orphans>>
    BY <1>4 DEF StartRun, world_vars
  <2>2. pc' = "tracked" /\ seriesLeft' = Series /\ untracked' = Files \ tracked[1]
    BY <1>4 DEF StartRun, VisitStarts
  <2>3. \A f \in Files : SeriesOf[f] \in seriesLeft'
    BY <2>2 DEF Series
  <2>4. pc' # "idle" /\ Files \ untracked' \subseteq tracked'[inst']
    BY <2>1, <2>2 DEF SnapshotInv
  <2>5. orphans' = <<>> /\ Len(orphans') = 0
    BY <2>1, EmptySeq DEF SnapshotInv
  <2> QED
    BY <2>2, <2>3, <2>4, <2>5 DEF SnapshotInv, SnapshotComplete
<1>5. CASE FetchTracked
  <2>1. PICK m \in seriesLeft : Read(seriesLeft \ {m}, snapshot \cup FilesOfSeries(m))
    BY <1>5 DEF FetchTracked, FetchSeries, FetchEmptyBody
  <2>2. /\ pc = "tracked" /\ UNCHANGED <<inst, tracked, orphans, untracked>>
        /\ seriesLeft' = seriesLeft \ {m}
        /\ snapshot' = snapshot \cup FilesOfSeries(m)
        /\ pc' = IF seriesLeft' = {} THEN "roots" ELSE pc
    BY <2>1 DEF Read, world_vars, run_vars, ghost_vars
  <2>3. \A f \in Files \ untracked : SeriesOf[f] \in seriesLeft' \/ f \in snapshot'
    BY <2>2 DEF SnapshotInv, FilesOfSeries
  <2>4. orphans' = <<>> /\ Len(orphans') = 0
    BY <2>2, EmptySeq DEF SnapshotInv
  <2>5. Files \ untracked' \subseteq tracked'[inst']
    BY <2>2 DEF SnapshotInv
  <2> QED
    BY <2>2, <2>3, <2>4, <2>5 DEF SnapshotInv, SnapshotComplete
<1>6. CASE WalkRoot
  <2>1. pc = "walk" /\ UNCHANGED <<pc, inst, tracked, snapshot, seriesLeft, untracked>>
    BY <1>6 DEF WalkRoot, world_vars, run_vars, ghost_vars
  <2>2. \A n \in 1..Len(orphans') : orphans'[n].path \notin snapshot
    BY <1>6, WalkEntries DEF SnapshotInv
  <2> QED
    BY <2>1, <2>2 DEF SnapshotInv, SnapshotComplete
<1>7. CASE Rescanned \/ World
  <2>1. UNCHANGED <<pc, inst, snapshot, seriesLeft>>
    BY <1>7 DEF Rescanned, RescanRuns, World, FileWritten, FileAges, FileVanishes,
       FileTracked, FileUntracked, LeaveRunAlone, LeaveStepAlone, run_vars
  <2>2. /\ untracked \subseteq untracked'
        /\ pc # "idle" => Files \ untracked' \subseteq tracked'[inst]
    BY <1>7, WorldTracks DEF SnapshotInv
  <2>3. /\ \A n \in 1..Len(orphans') : orphans'[n].path \notin snapshot
        /\ orphans = <<>> => orphans' = <<>>
    BY <1>7, WorldFinds DEF SnapshotInv
  <2> QED
    BY <2>1, <2>2, <2>3 DEF SnapshotInv, SnapshotComplete
<1> QED
  BY <1>1, <1>2, <1>3, <1>4, <1>5, <1>6, <1>7, StepKinds

LEMMA SnapshotIsComplete ==
    ASSUME "emptyBody" \notin Faults
    PROVE  Spec => [](TypeOK /\ SnapshotInv)
<1>1. Init => TypeOK /\ SnapshotInv
  BY InitTypeOK, InitRecorded
<1>2. TypeOK /\ SnapshotInv /\ [Next]_vars => (TypeOK /\ SnapshotInv)'
  BY StepTypeOK, StepSnapshot
<1> QED
  BY <1>1, <1>2, PTL DEF Spec

(* After the fetch the snapshot lacks nothing the database referenced      *)
(* throughout, in however many calls it was read.                          *)
THEOREM SnapshotsComplete ==
    ASSUME "emptyBody" \notin Faults
    PROVE  Spec => []SnapshotComplete
<1>1. TypeOK /\ SnapshotInv => SnapshotComplete
  BY DEF SnapshotInv
<1> QED
  BY <1>1, SnapshotIsComplete, PTL

(* No file is taken that its database referenced throughout the visit.     *)
THEOREM TrackedNotTaken ==
    ASSUME "emptyBody" \notin Faults
    PROVE  Spec => TrackedSpared
<1>1. TypeOK /\ SnapshotInv /\ [Next]_vars => [\A f \in Files : Takes(f) => f \in untracked]_vars
  <2> SUFFICES ASSUME TypeOK, SnapshotInv, [Next]_vars, NEW f \in Files, Takes(f)
               PROVE  f \in untracked
    OBVIOUS
  <2>1. PICK n \in refIndex : Decides(n) /\ orphans[n].path = f
    BY TakesIsDecided
  <2>2. f \notin snapshot
    BY <2>1, ReferenceType DEF SnapshotInv
  <2>3. Files \ untracked \subseteq snapshot
    BY <2>1 DEF Decides, SnapshotInv, SnapshotComplete
  <2> QED
    BY <2>2, <2>3
<1> QED
  BY <1>1, SnapshotIsComplete, PTL DEF Spec, TrackedSpared

-----------------------------------------------------------------------------
(* What the code promises in words and keeps only while nobody interferes. *)

(* As long as no path is written, no file is taken that is younger than    *)
(* min_orphan_age when it is taken.                                        *)
THEOREM FreshNotTaken ==
    ASSUME "write" \notin Changes
    PROVE  Spec => FreshSpared
<1> DEFINE Inv == TypeOK /\ RecordedInv /\ BytesInv
<1>1. Init => Inv
  BY InitTypeOK, InitRecorded, OrphanConfigAssumption DEF Init, BytesInv
<1>2. Inv /\ [Next]_vars => Inv'
  BY StepTypeOK, StepRecorded, StepBytes
<1>3. Inv /\ [Next]_vars => [\A f \in Files : Takes(f) => disk[f].old]_vars
  <2> SUFFICES ASSUME TypeOK, RecordedInv, BytesInv, [Next]_vars, NEW f \in Files, Takes(f)
               PROVE  disk[f].old
    OBVIOUS
  <2>1. PICK n \in refIndex : PassesRails(orphans[n]) /\ orphans[n].path = f
    BY TakesIsDecided
  <2>2. n \in 1..Len(orphans) /\ disk[f].present
    BY ReferenceType DEF Takes
  <2>3. disk[f].old = orphans[n].old
    BY <2>1, <2>2 DEF RecordedInv, BytesInv
  <2> QED
    BY <2>1, <2>3 DEF PassesRails
<1> QED
  BY <1>1, <1>2, <1>3, PTL DEF Spec, FreshSpared

(* A path is only noted as unreferenced while the database lacks it, as    *)
(* long as no path is added to a database.                                 *)
LEMMA UntrackedStays ==
    ASSUME TypeOK, Rescanned \/ World, "track" \notin Changes, pc # "idle",
           untracked \cap tracked[inst] = {}
    PROVE  untracked' \cap tracked'[inst] = {}
<1>1. ASSUME NEW i \in 1..NumInstances, NEW F, Forget(i, F)
      PROVE  untracked' \cap tracked'[inst] = {}
  BY <1>1 DEF Forget, TypeOK
<1>2. CASE Rescanned
  BY <1>1, <1>2 DEF Rescanned, RescanRuns
<1>3. CASE World
  BY <1>1, <1>3 DEF World, FileWritten, FileAges, FileVanishes, FileTracked, FileUntracked
<1> QED
  BY <1>2, <1>3

(* A single instance whose database gains no path loses no file that it    *)
(* references at the time.                                                 *)
THEOREM ReferencedNotTaken ==
    ASSUME "emptyBody" \notin Faults, "track" \notin Changes, NumInstances = 1
    PROVE  Spec => ReferencedSpared
<1> DEFINE Sound == pc # "idle" => untracked \cap tracked[inst] = {}
           Inv == TypeOK /\ SnapshotInv /\ Sound
<1>1. Init => Inv
  BY InitTypeOK, InitRecorded DEF Init
<1>2. TypeOK /\ SnapshotInv /\ Sound /\ [Next]_vars => Sound'
  <2> SUFFICES ASSUME TypeOK, SnapshotInv, Sound, [Next]_vars
               PROVE  Sound'
    OBVIOUS
  <2>1. CASE Leaves
    BY <2>1 DEF Leaves, Leave, TypeOK
  <2>2. CASE Thinks
    BY <2>2 DEF Thinks
  <2>3. ASSUME NEW n \in refIndex, Decides(n)
        PROVE  Sound'
    BY <2>3, TrashOneType DEF Decides, run_vars
  <2>4. CASE StartRun
    BY <2>4 DEF StartRun, VisitStarts, SnapshotInv, world_vars
  <2>5. CASE FetchTracked \/ WalkRoot
    BY <2>5 DEF FetchTracked, FetchSeries, FetchEmptyBody, Read, WalkRoot, world_vars,
       run_vars, ghost_vars
  <2>6. CASE Rescanned \/ World
    <3>1. pc' = pc /\ inst' = inst
      BY <2>6 DEF Rescanned, RescanRuns, World, FileWritten, FileAges, FileVanishes,
         FileTracked, FileUntracked, LeaveRunAlone, LeaveStepAlone, run_vars
    <3> QED
      BY <2>6, <3>1, UntrackedStays
  <2> QED
    BY <2>1, <2>2, <2>3, <2>4, <2>5, <2>6, StepKinds
<1>3. Inv /\ [Next]_vars => Inv'
  BY <1>2, StepTypeOK, StepSnapshot
<1>4. Inv /\ [Next]_vars =>
        [\A f \in Files : Takes(f) => \A i \in 1..NumInstances : f \notin tracked[i]]_vars
  <2> SUFFICES ASSUME TypeOK, SnapshotInv, Sound, [Next]_vars, NEW f \in Files, Takes(f),
                      NEW i \in 1..NumInstances
               PROVE  f \notin tracked[i]
    OBVIOUS
  <2>1. PICK n \in refIndex : Decides(n) /\ orphans[n].path = f
    BY TakesIsDecided
  <2>2. f \notin snapshot
    BY <2>1, ReferenceType DEF SnapshotInv
  <2>3. f \in untracked /\ pc # "idle"
    BY <2>1, <2>2 DEF Decides, SnapshotInv, SnapshotComplete
  <2>4. i = inst
    BY DEF TypeOK
  <2> QED
    BY <2>3, <2>4
<1> QED
  BY <1>1, <1>3, <1>4, PTL DEF Spec, ReferencedSpared
=============================================================================
