--------------------------- MODULE TrashBinProofs ---------------------------
(***************************************************************************)
(* Proofs about the trash bin, for every set of movers, files, names and   *)
(* contents, and every length of a day, TTL and clock.                     *)
(***************************************************************************)
EXTENDS TrashBin, TLAPS

LEMMA DstInSlots ==
    ASSUME TypeOK, NEW m \in Movers
    PROVE  Dst(m) \in Slots
  BY BinAssumption DEF TypeOK, Dst, Slots

LEMMA Stamps ==
    ASSUME TypeOK
    PROVE  now \div TicksPerDay \in Days
  BY DEF TypeOK, Days

(* TypeOK holds initially and is kept by every step.                       *)
LEMMA InitTypeOK == Init => TypeOK
<1> SUFFICES ASSUME Init PROVE TypeOK
  OBVIOUS
<1>1. (CHOOSE f \in Files : TRUE) \in Files
  BY BinAssumption
<1>2. 0 \in Days /\ 0 \in 0..MaxNow /\ 0 \in 0..MaxNumber
  BY BinAssumption DEF Days
<1> QED
  BY <1>1, <1>2 DEF Init, TypeOK, Steps

LEMMA StepTypeOK == TypeOK /\ [Next]_vars => TypeOK'
<1> SUFFICES ASSUME TypeOK, [Next]_vars
             PROVE  TypeOK'
  OBVIOUS
<1> USE DEF TypeOK, Steps
<1>1. ASSUME NEW m \in Movers, Begin(m)
      PROVE  TypeOK'
  BY <1>1, Stamps, BinAssumption DEF Begin, Goto, world_vars
<1>2. ASSUME NEW m \in Movers, MkdirFails(m) \/ ProbeFree(m) \/ ProbeNext(m)
      PROVE  TypeOK'
  BY <1>2, BinAssumption DEF MkdirFails, ProbeFree, ProbeNext, Goto, world_vars, ghost_vars
<1>3. ASSUME NEW m \in Movers, Rename(m)
      PROVE  TypeOK'
  BY <1>3, DstInSlots DEF Rename, Goto
<1>4. ASSUME NEW m \in Movers, RenameFails(m) \/ RenameCrossesDevice(m) \/ OpenFails(m)
                               \/ CreateFails(m) \/ UnlinkFails(m) \/ Crash(m)
      PROVE  TypeOK'
  BY <1>4 DEF RenameFails, RenameCrossesDevice, OpenFails, CreateFails, UnlinkFails, Crash,
              Goto, world_vars, ghost_vars
<1>5. ASSUME NEW m \in Movers, OpenSrc(m) \/ CreateDst(m) \/ CopyBytes(m)
      PROVE  TypeOK'
  BY <1>5, DstInSlots DEF OpenSrc, CreateDst, CopyBytes, Goto, world_vars, ghost_vars
<1>6. ASSUME NEW m \in Movers, SyncAndClose(m)
      PROVE  TypeOK'
  BY <1>6, DstInSlots DEF SyncAndClose, Goto
<1>7. ASSUME NEW m \in Movers, CopyFails(m) \/ Unlink(m)
      PROVE  TypeOK'
  BY <1>7, DstInSlots DEF CopyFails, Unlink, Goto, ghost_vars
<1>8. ASSUME NEW m \in Movers, Purge(m)
      PROVE  TypeOK'
  BY <1>8 DEF Purge, mover_vars, ghost_vars
<1>9. CASE Tick
  BY <1>9, BinAssumption DEF Tick, mover_vars, ghost_vars
<1>10. ASSUME NEW f \in Files, NEW c \in Contents, FileWritten(f, c)
       PROVE  TypeOK'
  BY <1>10 DEF FileWritten, mover_vars
<1>11. ASSUME NEW f \in Files, NEW s \in Slots, FileRecovered(f, s)
       PROVE  TypeOK'
  BY <1>11 DEF FileRecovered, mover_vars, ghost_vars
<1>12. CASE UNCHANGED vars
  BY <1>12 DEF vars, world_vars, mover_vars, ghost_vars
<1> QED
  BY <1>1, <1>2, <1>3, <1>4, <1>5, <1>6, <1>7, <1>8, <1>9, <1>10, <1>11, <1>12
     DEF Next, Continue

(* The bin's state, its clock and its paths stay well-formed.              *)
THEOREM TypeCorrect == Spec => []TypeOK
  BY InitTypeOK, StepTypeOK, PTL DEF Spec

-----------------------------------------------------------------------------
(* The purge: a slot never holds what is dated after the end of its day.   *)

DatedInv ==
    /\ \A s \in Slots : since[s] < (s[1] + 1) * TicksPerDay
    /\ \A m \in Movers : stampedAt[m] < (stamp[m] + 1) * TicksPerDay

LEMMA DayOfTime ==
    ASSUME NEW t \in Nat
    PROVE  /\ t \div TicksPerDay \in Nat
           /\ t < ((t \div TicksPerDay) + 1) * TicksPerDay
  BY BinAssumption

LEMMA DaysAreNumbers == Days \subseteq Nat
  BY BinAssumption, DayOfTime DEF Days

LEMMA InitDated == Init => DatedInv
<1> SUFFICES ASSUME Init PROVE DatedInv
  OBVIOUS
<1>1. \A d \in Nat : 0 < (d + 1) * TicksPerDay
  BY BinAssumption
<1>2. \A s \in Slots : s[1] \in Nat
  BY DaysAreNumbers DEF Slots
<1> QED
  BY <1>1, <1>2 DEF Init, DatedInv

LEMMA StepDated == TypeOK /\ DatedInv /\ [Next]_vars => DatedInv'
<1> SUFFICES ASSUME TypeOK, DatedInv, [Next]_vars
             PROVE  DatedInv'
  OBVIOUS
<1>1. ASSUME UNCHANGED <<stamp, stampedAt, since>>
      PROVE  DatedInv'
  BY <1>1 DEF DatedInv
<1>2. ASSUME NEW m \in Movers, Begin(m)
      PROVE  DatedInv'
  <2>1. now \in Nat /\ now < ((now \div TicksPerDay) + 1) * TicksPerDay
    BY DayOfTime, BinAssumption DEF TypeOK
  <2>2. \A n \in Movers : stampedAt'[n] < (stamp'[n] + 1) * TicksPerDay
    BY <1>2, <2>1 DEF Begin, DatedInv, TypeOK
  <2> QED
    BY <1>2, <2>2 DEF Begin, DatedInv
<1>3. ASSUME NEW m \in Movers, Rename(m) \/ SyncAndClose(m)
      PROVE  DatedInv'
  <2>1. /\ since' = since \/ since' = [since EXCEPT ![Dst(m)] = stampedAt[m]]
        /\ UNCHANGED <<stamp, stampedAt>>
    BY <1>3 DEF Rename, SyncAndClose
  <2>2. \A s \in Slots : since'[s] < (s[1] + 1) * TicksPerDay
    BY <2>1, DstInSlots DEF DatedInv, TypeOK, Dst
  <2> QED
    BY <2>1, <2>2 DEF DatedInv
<1>4. CASE UNCHANGED vars
  BY <1>1, <1>4 DEF vars, mover_vars, ghost_vars
<1> QED
  BY <1>1, <1>2, <1>3, <1>4
     DEF Next, Continue, MkdirFails, ProbeFree, ProbeNext, RenameFails, RenameCrossesDevice,
         OpenSrc, OpenFails, CreateDst, CreateFails, CopyBytes, CopyFails, Unlink, UnlinkFails,
         Crash, Purge, Tick, FileWritten, FileRecovered, mover_vars, ghost_vars

(* What the purge removes was dated at least trash_ttl ago, whatever the   *)
(* time of day at which it was moved or is purged.                         *)
THEOREM PurgeOnTime == Spec => PurgedOnTime
<1>1. Init => TypeOK /\ DatedInv
  BY InitTypeOK, InitDated
<1>2. TypeOK /\ DatedInv /\ [Next]_vars => (TypeOK /\ DatedInv)'
  BY StepTypeOK, StepDated
<1>3. TypeOK /\ DatedInv /\ [Next]_vars
      => [\A m \in Movers, s \in Slots :
            Purge(m) /\ trash[s] # Nothing /\ trash'[s] = Nothing =>
                now - since[s] > TTL]_vars
  <2> SUFFICES ASSUME TypeOK, DatedInv, NEW m \in Movers, NEW s \in Slots,
                      Purge(m), trash[s] # Nothing, trash'[s] = Nothing
               PROVE  now - since[s] > TTL
    OBVIOUS
  <2>1. Expired(s[1])
    BY DEF Purge
  <2>2. s[1] \in Nat
    BY DaysAreNumbers DEF Slots
  <2>3. now \in Nat /\ since[s] \in Nat /\ TTL \in Nat /\ TicksPerDay \in Nat
    BY BinAssumption DEF TypeOK
  <2>4. since[s] < (s[1] + 1) * TicksPerDay /\ (s[1] + 1) * TicksPerDay \in Nat
    BY <2>2, <2>3 DEF DatedInv
  <2> QED
    BY <2>1, <2>3, <2>4 DEF Expired
<1> QED
  BY <1>1, <1>2, <1>3, PTL DEF Spec, PurgedOnTime

-----------------------------------------------------------------------------
(* Destinations: what a mover has probed or created stays its own, if no   *)
(* other process uses the bin, or if all movers create their files         *)
(* exclusively and nothing is purged.                                      *)

Alone == \A m, n \in Movers : m = n
Separated == Alone \/ (CrossDevice = Files /\ TTL = 0)

DstInv ==
    \A m \in Movers :
        /\ pc[m] = "rename" /\ file[m] \notin CrossDevice => trash[Dst(m)] = Nothing
        /\ pc[m] \in {"open", "create", "copy", "finish", "unlink"} => file[m] \in CrossDevice
        /\ pc[m] \in {"copy", "finish"} => trash[Dst(m)] = m

LEMMA InitDst == Init => DstInv
  BY DEF Init, DstInv

(* A mover's step, with the file and number of the others left alone.      *)
LEMMA StepDst ==
    ASSUME Separated
    PROVE  TypeOK /\ DstInv /\ [Next]_vars => DstInv'
<1> SUFFICES ASSUME TypeOK, DstInv, [Next]_vars
             PROVE  DstInv'
  OBVIOUS
<1>a. \A m \in Movers : m \notin Contents /\ m # Nothing
  BY BinAssumption
<1>b. Nothing \notin Contents
  BY BinAssumption
<1>1. ASSUME NEW m \in Movers, Begin(m) \/ MkdirFails(m) \/ ProbeFree(m) \/ ProbeNext(m)
                \/ RenameFails(m) \/ RenameCrossesDevice(m) \/ OpenSrc(m) \/ OpenFails(m)
                \/ CreateFails(m) \/ CopyBytes(m) \/ Unlink(m) \/ UnlinkFails(m) \/ Crash(m)
      PROVE  DstInv'
  <2>1. /\ trash' = trash
        /\ \A n \in Movers \ {m} : pc'[n] = pc[n] /\ file'[n] = file[n] /\ Dst(n)' = Dst(n)
    BY <1>1 DEF Begin, MkdirFails, ProbeFree, ProbeNext, RenameFails, RenameCrossesDevice,
       OpenSrc, OpenFails, CreateFails, CopyBytes, Unlink, UnlinkFails, Crash, Goto, Dst, TypeOK,
       world_vars, ghost_vars
  <2>2. /\ pc'[m] = "rename" => Free(Dst(m))
        /\ pc'[m] \in {"rename", "open", "create", "copy", "finish", "unlink"} =>
               file'[m] = file[m] /\ Dst(m)' = Dst(m)
        /\ pc'[m] \in {"open", "create"} => file[m] \in CrossDevice
        /\ pc'[m] = "finish" => pc[m] = "copy"
        /\ pc'[m] \notin {"copy", "unlink"}
    <3>1. CASE Begin(m) \/ MkdirFails(m) \/ ProbeFree(m) \/ ProbeNext(m)
      BY <3>1 DEF Begin, MkdirFails, ProbeFree, ProbeNext, Goto, Dst, TypeOK
    <3>2. CASE RenameFails(m) \/ RenameCrossesDevice(m) \/ OpenFails(m) \/ CreateFails(m)
      BY <3>2 DEF RenameFails, RenameCrossesDevice, OpenFails, CreateFails, Goto, Dst, TypeOK
    <3>3. CASE OpenSrc(m)
      BY <3>3 DEF OpenSrc, Goto, Dst, DstInv, TypeOK
    <3>4. CASE CopyBytes(m) \/ Unlink(m) \/ UnlinkFails(m) \/ Crash(m)
      BY <3>4 DEF CopyBytes, Unlink, UnlinkFails, Crash, Goto, Dst, TypeOK
    <3> QED
      BY <1>1, <3>1, <3>2, <3>3, <3>4
  <2> QED
    BY <2>1, <2>2 DEF DstInv, Free
<1>2. ASSUME NEW m \in Movers, Rename(m)
      PROVE  DstInv'
  <2>1. Alone
    BY <1>2 DEF Rename, Separated, TypeOK
  <2>2. pc'[m] = "idle" /\ \A n \in Movers : n = m
    BY <1>2, <2>1 DEF Rename, Goto, TypeOK, Alone
  <2> QED
    BY <2>2 DEF DstInv
<1>3. ASSUME NEW m \in Movers, CreateDst(m) \/ SyncAndClose(m) \/ CopyFails(m)
      PROVE  DstInv'
  <2>1. \A n \in Movers : Dst(n)' = Dst(n) /\ file'[n] = file[n]
    BY <1>3 DEF CreateDst, SyncAndClose, CopyFails, Dst
  <2>2. \A n \in Movers \ {m} : pc'[n] = pc[n]
    BY <1>3 DEF CreateDst, SyncAndClose, CopyFails, Goto, TypeOK
  <2>3. \A s \in Slots : trash'[s] # trash[s] =>
            s = Dst(m) /\ (trash[s] = Nothing \/ trash[s] = m)
    BY <1>3, DstInSlots DEF CreateDst, SyncAndClose, CopyFails, DstInv, TypeOK
  <2>4. ASSUME NEW n \in Movers \ {m}
        PROVE  /\ pc'[n] = "rename" /\ file'[n] \notin CrossDevice => trash'[Dst(n)'] = Nothing
               /\ pc'[n] \in {"open", "create", "copy", "finish", "unlink"} => file'[n] \in CrossDevice
               /\ pc'[n] \in {"copy", "finish"} => trash'[Dst(n)'] = n
    <3>1. ~Alone /\ CrossDevice = Files
      BY <2>4 DEF Alone, Separated
    <3>2. pc[n] \in {"copy", "finish"} => trash[Dst(n)] = n
      BY <3>1 DEF DstInv
    <3> QED
      BY <2>1, <2>2, <2>3, <3>1, <3>2, <1>a, DstInSlots DEF DstInv, TypeOK
  <2>5. /\ pc'[m] # "rename" /\ pc[m] \in {"create", "copy", "finish"}
        /\ pc'[m] \in {"copy", "finish"} => trash'[Dst(m)] = m
    BY <1>3, DstInSlots DEF CreateDst, SyncAndClose, CopyFails, Goto, TypeOK
  <2> QED
    BY <2>1, <2>4, <2>5 DEF DstInv
<1>4. ASSUME NEW m \in Movers, Purge(m)
      PROVE  DstInv'
  <2>1. TTL > 0
    BY <1>4 DEF Purge, Expired
  <2>2. Alone
    BY <2>1, BinAssumption DEF Separated
  <2>3. pc[m] = "idle" /\ pc' = pc /\ \A n \in Movers : n = m
    BY <1>4, <2>2 DEF Purge, Alone, mover_vars
  <2> QED
    BY <2>3 DEF DstInv
<1>5. ASSUME NEW f \in Files, NEW s \in Slots, FileRecovered(f, s)
      PROVE  DstInv'
  <2>1. /\ \A n \in Movers : pc'[n] = pc[n] /\ file'[n] = file[n] /\ Dst(n)' = Dst(n)
        /\ trash[s] \in Contents /\ trash' = [trash EXCEPT ![s] = Nothing]
    BY <1>5 DEF FileRecovered, mover_vars, Dst
  <2>2. \A n \in Movers : trash[Dst(n)] = Nothing \/ trash[Dst(n)] = n =>
                          trash'[Dst(n)] = trash[Dst(n)]
    BY <2>1, <1>a, <1>b, DstInSlots DEF TypeOK
  <2> QED
    BY <2>1, <2>2 DEF DstInv
<1>6. ASSUME UNCHANGED <<trash, mover_vars>>
      PROVE  DstInv'
  BY <1>6 DEF DstInv, mover_vars, Dst
<1>7. CASE UNCHANGED vars
  BY <1>6, <1>7 DEF vars, world_vars
<1>8. CASE Tick
  BY <1>6, <1>8 DEF Tick
<1>9. ASSUME NEW f \in Files, NEW c \in Contents, FileWritten(f, c)
      PROVE  DstInv'
  BY <1>6, <1>9 DEF FileWritten
<1> QED
  BY <1>1, <1>2, <1>3, <1>4, <1>5, <1>7, <1>8, <1>9 DEF Next, Continue

(* Within a process, and between processes that copy from other devices,   *)
(* nothing in the bin is replaced.                                         *)
THEOREM NothingClobbered ==
    ASSUME Separated
    PROVE  Spec => NoClobber
<1>1. Init => TypeOK /\ DstInv
  BY InitTypeOK, InitDst
<1>2. TypeOK /\ DstInv /\ [Next]_vars => (TypeOK /\ DstInv)'
  BY StepTypeOK, StepDst
<1>3. TypeOK /\ DstInv /\ [Next]_vars
      => [\A s \in Slots : trash[s] \in Contents /\ trash'[s] # trash[s] =>
            /\ trash'[s] = Nothing
            /\ Expired(s[1]) \/ \E f \in Files : src'[f] = trash[s]]_vars
  <2> SUFFICES ASSUME TypeOK, DstInv, Next, NEW s \in Slots,
                      trash[s] \in Contents, trash'[s] # trash[s]
               PROVE  /\ trash'[s] = Nothing
                      /\ Expired(s[1]) \/ \E f \in Files : src'[f] = trash[s]
    OBVIOUS
  <2>1. \A m \in Movers : ~(Rename(m) \/ CreateDst(m) \/ SyncAndClose(m) \/ CopyFails(m))
    BY BinAssumption, DstInSlots
       DEF Rename, CreateDst, SyncAndClose, CopyFails, DstInv, TypeOK
  <2>2. ASSUME NEW m \in Movers, Purge(m)
        PROVE  trash'[s] = Nothing /\ Expired(s[1])
    BY <2>2 DEF Purge
  <2>3. ASSUME NEW f \in Files, NEW t \in Slots, FileRecovered(f, t)
        PROVE  trash'[s] = Nothing /\ src'[f] = trash[s]
    BY <2>3 DEF FileRecovered, TypeOK
  <2>4. (\E m \in Movers : Purge(m)) \/ (\E f \in Files, t \in Slots : FileRecovered(f, t))
    BY <2>1 DEF Next, Continue, Begin, MkdirFails, ProbeFree, ProbeNext, RenameFails,
       RenameCrossesDevice, OpenSrc, OpenFails, CreateFails, CopyBytes, Unlink, UnlinkFails, Crash,
       Tick, FileWritten, world_vars
  <2> QED
    BY <2>2, <2>3, <2>4
<1> QED
  BY <1>1, <1>2, <1>3, PTL DEF Spec, NoClobber

-----------------------------------------------------------------------------
(* The refinement.  Three arrangements keep the promise: one process on    *)
(* one device, whatever others do to the files; one process between any    *)
(* devices, with any TTL, while others write new files and recover old     *)
(* ones but overwrite none; and any number of processes that copy from     *)
(* other devices, as long as nobody else touches the files and nothing is  *)
(* purged while they copy.                                                 *)

OneProcess == Alone /\ (CrossDevice = {} \/ "overwrite" \notin Changes)
ManyCopy == CrossDevice = Files /\ TTL = 0 /\ Changes = {}
Promised == OneProcess \/ ManyCopy

Elsewhere(m) == \E f \in Files \ {file[m]} : src[f] = copied[m]

(* What a mover copies is still at its path, when nobody else could have   *)
(* moved it; and before the source is removed, its copy is in the bin or,  *)
(* recovered from there, at another path.                                  *)
LosslessInv ==
    /\ \A f \in Files : src[f] # Nothing => src[f] \in written
    /\ \A s \in Slots : trash[s] \in Contents => trash[s] \in written
    /\ ManyCopy => \A c \in written : InLibrary(c) \/ InTrash(c)
    /\ \A m \in Movers : pc[m] \in {"create", "copy", "finish", "unlink"} =>
           /\ copied[m] \in written
           /\ src[file[m]] = copied[m] \/ (ManyCopy /\ src[file[m]] = Nothing)
           /\ pc[m] = "unlink" => InTrash(copied[m]) \/ (~ManyCopy /\ Elsewhere(m))

(* What the place of a content depends on.                                 *)
Unmoved(c) ==
    /\ (c \in written)' <=> c \in written
    /\ InLibrary(c)' <=> InLibrary(c)
    /\ ~InLibrary(c) => (InTrash(c)' <=> InTrash(c))

LEMMA UnmovedStays ==
    ASSUME NEW c \in Contents, Unmoved(c)
    PROVE  place'[c] = place[c]
  BY DEF Unmoved, place

LEMMA AllUnmoved ==
    ASSUME \A c \in Contents : Unmoved(c)
    PROVE  place' = place
  BY DEF Unmoved, place

LEMMA OneMoved ==
    ASSUME NEW c \in Contents, \A d \in Contents \ {c} : Unmoved(d), NEW to, place'[c] = to
    PROVE  place' = [place EXCEPT ![c] = to]
<1>1. \A d \in Contents \ {c} : place'[d] = place[d]
  BY UnmovedStays
<1> QED
  BY <1>1 DEF place

LEMMA Refines ==
    ASSUME Promised, TypeOK, TypeOK', DstInv, LosslessInv, [Next]_vars
    PROVE  LosslessInv' /\ (R!Next \/ UNCHANGED place)
<1>a. /\ Nothing \notin Contents
      /\ \A m \in Movers : m \notin Contents /\ m # Nothing
      /\ ManyCopy => CrossDevice = Files /\ Changes = {} /\ TTL = 0
      /\ ~ManyCopy => OneProcess
  BY BinAssumption DEF Promised, ManyCopy
<1>1. ASSUME UNCHANGED <<src, trash, written>>,
             \A m \in Movers : pc'[m] \in {"create", "copy", "finish", "unlink"} =>
                 /\ pc'[m] = "unlink" => pc[m] = "unlink"
                 /\ file'[m] = file[m]
                 /\ \/ /\ pc[m] \in {"create", "copy", "finish", "unlink"}
                       /\ copied'[m] = copied[m]
                    \/ src[file[m]] # Nothing /\ copied'[m] = src[file[m]]
      PROVE  LosslessInv' /\ UNCHANGED place
  <2>1. \A c : (InLibrary(c)' <=> InLibrary(c)) /\ (InTrash(c)' <=> InTrash(c))
    BY <1>1 DEF InLibrary, InTrash
  <2>2. UNCHANGED place
    BY <1>1, <2>1, AllUnmoved DEF Unmoved
  <2>3. ASSUME NEW m \in Movers, pc'[m] \in {"create", "copy", "finish", "unlink"}
        PROVE  /\ copied'[m] \in written'
               /\ src'[file'[m]] = copied'[m] \/ (ManyCopy /\ src'[file'[m]] = Nothing)
               /\ pc'[m] = "unlink" => copied'[m] = copied[m] /\ (Elsewhere(m)' <=> Elsewhere(m))
    <3>1. file[m] \in Files
      BY DEF TypeOK
    <3>2. pc'[m] = "unlink" => copied'[m] = copied[m]
      BY <1>1, <2>3 DEF LosslessInv
    <3>3. pc'[m] = "unlink" => (Elsewhere(m)' <=> Elsewhere(m))
      BY <1>1, <2>3, <3>2 DEF Elsewhere
    <3> QED
      BY <1>1, <2>3, <3>1, <3>2, <3>3 DEF LosslessInv
  <2> QED
    BY <1>1, <2>1, <2>2, <2>3 DEF LosslessInv
<1>2. ASSUME NEW m \in Movers, Begin(m) \/ MkdirFails(m) \/ ProbeFree(m) \/ ProbeNext(m)
                \/ RenameFails(m) \/ RenameCrossesDevice(m) \/ OpenFails(m) \/ CreateFails(m)
                \/ UnlinkFails(m) \/ Crash(m)
      PROVE  LosslessInv' /\ UNCHANGED place
  <2>1. /\ UNCHANGED <<src, trash, written, copied>>
        /\ pc'[m] \notin {"create", "copy", "finish", "unlink"}
    BY <1>2 DEF Begin, MkdirFails, ProbeFree, ProbeNext, RenameFails, RenameCrossesDevice,
       OpenFails, CreateFails, UnlinkFails, Crash, Goto, TypeOK, world_vars, ghost_vars
  <2>2. \A n \in Movers \ {m} : pc'[n] = pc[n] /\ file'[n] = file[n]
    BY <1>2 DEF Begin, MkdirFails, ProbeFree, ProbeNext, RenameFails, RenameCrossesDevice,
       OpenFails, CreateFails, UnlinkFails, Crash, Goto, TypeOK, world_vars, ghost_vars
  <2> QED
    BY <1>1, <2>1, <2>2
<1>3. ASSUME NEW m \in Movers, OpenSrc(m) \/ CopyBytes(m)
      PROVE  LosslessInv' /\ UNCHANGED place
  <2>1. /\ UNCHANGED <<src, trash, written, file>>
        /\ pc'[m] # "unlink"
        /\ \/ pc[m] = "copy" /\ copied'[m] = copied[m]
           \/ src[file[m]] # Nothing /\ copied'[m] = src[file[m]]
        /\ \A n \in Movers \ {m} : pc'[n] = pc[n] /\ copied'[n] = copied[n]
    BY <1>3 DEF OpenSrc, CopyBytes, Goto, TypeOK, world_vars, ghost_vars
  <2> QED
    BY <1>1, <2>1
<1>4. ASSUME NEW m \in Movers, Rename(m)
      PROVE  LosslessInv' /\ (R!Next \/ UNCHANGED place)
  <2>1. PICK c \in Contents : c = src[file[m]]
    BY <1>4 DEF Rename, TypeOK
  <2>2. /\ c \in written /\ trash[Dst(m)] = Nothing
        /\ ~ManyCopy /\ \A n \in Movers : n = m
        /\ pc'[m] = "idle" /\ written' = written /\ file[m] \in Files
        /\ src' = [src EXCEPT ![file[m]] = Nothing]
        /\ trash' = [trash EXCEPT ![Dst(m)] = c]
    BY <1>4, <1>a, <2>1 DEF Rename, Goto, LosslessInv, DstInv, TypeOK, Alone, OneProcess
  <2>3. LosslessInv'
    BY <1>a, <2>2 DEF LosslessInv, TypeOK
  <2>4. \A d \in Contents \ {c} : Unmoved(d)
    BY <1>a, <2>1, <2>2, DstInSlots DEF Unmoved, InLibrary, InTrash, TypeOK
  <2>5. InLibrary(c) /\ InTrash(c)'
    BY <2>1, <2>2, DstInSlots DEF InLibrary, InTrash, TypeOK
  <2>6. CASE InLibrary(c)'
    <3>1. Unmoved(c)
      BY <2>2, <2>5, <2>6 DEF Unmoved
    <3> QED
      BY <2>3, <2>4, <3>1, AllUnmoved
  <2>7. CASE ~InLibrary(c)'
    <3>1. place[c] = "library" /\ place'[c] = "trash"
      BY <2>2, <2>5, <2>7 DEF place
    <3>2. R!Relocate(c)
      BY <2>4, <3>1, OneMoved DEF R!Relocate, R!Goes
    <3> QED
      BY <2>3, <3>2 DEF R!Next
  <2> QED
    BY <2>6, <2>7
<1>5. ASSUME NEW m \in Movers, CreateDst(m) \/ CopyFails(m)
      PROVE  LosslessInv' /\ UNCHANGED place
  <2>1. /\ UNCHANGED <<src, written, file>>
        /\ pc'[m] \in {"idle", "copy"}
        /\ pc'[m] = "copy" => pc[m] = "create"
        /\ copied' = copied
    BY <1>5 DEF CreateDst, CopyFails, Goto, TypeOK, ghost_vars
  <2>2. \A n \in Movers \ {m} : pc'[n] = pc[n] /\ copied'[n] = copied[n]
    BY <1>5 DEF CreateDst, CopyFails, Goto, TypeOK
  <2>3. \A s \in Slots : trash'[s] # trash[s] => trash[s] \notin Contents /\ trash'[s] \notin Contents
    BY <1>5, <1>a, DstInSlots DEF CreateDst, CopyFails, DstInv, TypeOK
  <2>4. \A c \in Contents : (InLibrary(c)' <=> InLibrary(c)) /\ (InTrash(c)' <=> InTrash(c))
    BY <2>1, <2>3 DEF InLibrary, InTrash
  <2>5. UNCHANGED place
    BY <2>1, <2>4, AllUnmoved DEF Unmoved
  <2>6. \A s \in Slots : trash'[s] \in Contents => trash'[s] \in written
    BY <2>3 DEF LosslessInv
  <2>7. file[m] \in Files /\ written \subseteq Contents
    BY DEF TypeOK
  <2>8. \A n \in Movers : pc'[n] \in {"create", "copy", "finish", "unlink"} =>
            /\ copied'[n] \in written'
            /\ src'[file'[n]] = copied'[n] \/ (ManyCopy /\ src'[file'[n]] = Nothing)
            /\ pc'[n] = "unlink" => InTrash(copied[n])' \/ (~ManyCopy /\ Elsewhere(n)')
    <3>1. ASSUME NEW n \in Movers \ {m}, Elsewhere(n)
          PROVE  Elsewhere(n)'
      BY <2>1, <2>2, <3>1 DEF Elsewhere
    <3>2. pc'[m] = "copy" => copied'[m] \in written
      BY <2>1, <2>7 DEF LosslessInv
    <3> QED
      BY <2>1, <2>2, <2>4, <2>7, <3>1, <3>2 DEF LosslessInv
  <2>10. \A n \in Movers : pc'[n] = "unlink" => copied'[n] = copied[n]
    BY <2>1, <2>2
  <2>9. ManyCopy => \A c \in written' : InLibrary(c)' \/ InTrash(c)'
    BY <2>1, <2>4, <2>7 DEF LosslessInv
  <2> QED
    BY <2>1, <2>5, <2>6, <2>8, <2>9, <2>10 DEF LosslessInv
<1>6. ASSUME NEW m \in Movers, SyncAndClose(m)
      PROVE  LosslessInv' /\ UNCHANGED place
  <2>1. PICK c \in Contents : c = copied[m] /\ c \in written
    BY <1>6 DEF SyncAndClose, LosslessInv, TypeOK
  <2>2. /\ trash[Dst(m)] = m
        /\ trash' = [trash EXCEPT ![Dst(m)] = c]
    BY <1>6, <1>a, <2>1 DEF SyncAndClose, DstInv, TypeOK
  <2>3. /\ UNCHANGED <<src, written, file, copied>>
        /\ \A n \in Movers : pc'[n] = IF n = m THEN "unlink" ELSE pc[n]
        /\ pc[m] = "finish"
    BY <1>6 DEF SyncAndClose, Goto, TypeOK
  <2>4. InLibrary(c) \/ InTrash(c)
    BY <2>1, <2>3 DEF LosslessInv, InLibrary, TypeOK
  <2>5. \A d \in Contents : (InLibrary(d)' <=> InLibrary(d)) /\ (InTrash(d) => InTrash(d)')
    BY <1>a, <2>2, <2>3, DstInSlots DEF InLibrary, InTrash, TypeOK
  <2>6. InTrash(c)' /\ \A d \in Contents \ {c} : InTrash(d)' => InTrash(d)
    BY <1>a, <2>2, DstInSlots DEF InTrash, TypeOK
  <2>7. \A d \in Contents : Unmoved(d)
    BY <2>3, <2>4, <2>5, <2>6 DEF Unmoved
  <2>8. \A n \in Movers : pc'[n] \in {"create", "copy", "finish", "unlink"} =>
            /\ copied'[n] \in written'
            /\ src'[file'[n]] = copied'[n] \/ (ManyCopy /\ src'[file'[n]] = Nothing)
            /\ pc'[n] = "unlink" => InTrash(copied[n])' \/ (~ManyCopy /\ Elsewhere(n)')
    <3>1. \A n \in Movers : pc[n] \in {"create", "copy", "finish", "unlink"} => copied[n] \in Contents
      BY DEF LosslessInv, TypeOK
    <3>2. \A n \in Movers : Elsewhere(n) => Elsewhere(n)'
      BY <2>3 DEF Elsewhere
    <3> QED
      BY <2>1, <2>3, <2>5, <2>6, <3>1, <3>2 DEF LosslessInv
  <2>9. /\ \A s \in Slots : trash'[s] \in Contents => trash'[s] \in written'
        /\ ManyCopy => \A d \in written' : InLibrary(d)' \/ InTrash(d)'
    BY <2>1, <2>2, <2>3, <2>5 DEF LosslessInv, TypeOK
  <2> QED
    BY <2>3, <2>7, <2>8, <2>9, AllUnmoved DEF LosslessInv
<1>7. ASSUME NEW m \in Movers, Unlink(m)
      PROVE  LosslessInv' /\ (R!Next \/ UNCHANGED place)
  <2>1. PICK c \in Contents : c = src[file[m]] /\ c \in written /\ copied[m] = c
    BY <1>7 DEF Unlink, LosslessInv, TypeOK
  <2>2. /\ UNCHANGED <<trash, written, file, copied>>
        /\ file[m] \in Files /\ src' = [src EXCEPT ![file[m]] = Nothing]
        /\ \A n \in Movers : pc'[n] = IF n = m THEN "idle" ELSE pc[n]
    BY <1>7 DEF Unlink, Goto, TypeOK, ghost_vars
  <2>3. \A d : InTrash(d)' <=> InTrash(d)
    BY <2>2 DEF InTrash
  <2>4. \A d \in Contents \ {c} : (InLibrary(d)' <=> InLibrary(d)) /\ Unmoved(d)
    BY <1>a, <2>1, <2>2, <2>3 DEF InLibrary, Unmoved, TypeOK
  <2>9. InTrash(c) \/ (~ManyCopy /\ InLibrary(c)')
    BY <1>7, <2>1, <2>2 DEF Unlink, LosslessInv, Elsewhere, InLibrary, TypeOK
  <2>5. LosslessInv'
    <3>1. ManyCopy => \A d \in written' : InLibrary(d)' \/ InTrash(d)'
      BY <2>1, <2>2, <2>3, <2>4, <2>9 DEF LosslessInv, TypeOK
    <3>2. ManyCopy \/ \A n \in Movers : n = m
      BY <1>a DEF OneProcess, Alone
    <3>3. ASSUME NEW n \in Movers, pc'[n] \in {"create", "copy", "finish", "unlink"}
          PROVE  /\ ManyCopy /\ copied'[n] \in written'
                 /\ src'[file'[n]] = copied'[n] \/ src'[file'[n]] = Nothing
                 /\ pc'[n] = "unlink" => InTrash(copied[n])'
      <4>1. ManyCopy /\ n # m /\ pc'[n] = pc[n] /\ file[n] \in Files
        BY <2>2, <3>2, <3>3 DEF TypeOK
      <4>2. /\ copied[n] \in written
            /\ src[file[n]] = copied[n] \/ src[file[n]] = Nothing
            /\ pc[n] = "unlink" => InTrash(copied[n])
        BY <3>3, <4>1 DEF LosslessInv
      <4>3. src'[file[n]] = src[file[n]] \/ src'[file[n]] = Nothing
        BY <2>2, <4>1 DEF TypeOK
      <4>4. InTrash(copied[n])' <=> InTrash(copied[n])
        BY <2>2 DEF InTrash
      <4> QED
        BY <2>2, <4>1, <4>2, <4>3, <4>4
    <3>4. /\ \A f \in Files : src'[f] # Nothing => src'[f] \in written'
          /\ \A s \in Slots : trash'[s] \in Contents => trash'[s] \in written'
      BY <2>2 DEF LosslessInv, TypeOK
    <3> QED
      BY <3>1, <3>3, <3>4 DEF LosslessInv
  <2>6. CASE InLibrary(c)'
    <3>1. Unmoved(c)
      BY <2>1, <2>2, <2>3, <2>6 DEF Unmoved, InLibrary
    <3> QED
      BY <2>4, <2>5, <3>1, AllUnmoved
  <2>7. CASE ~InLibrary(c)'
    <3>1. place[c] = "library" /\ place'[c] = "trash"
      BY <2>1, <2>2, <2>3, <2>7, <2>9 DEF place, InLibrary
    <3>2. R!Relocate(c)
      BY <2>4, <3>1, OneMoved DEF R!Relocate, R!Goes
    <3> QED
      BY <2>5, <3>2 DEF R!Next
  <2> QED
    BY <2>6, <2>7
<1>8. ASSUME NEW m \in Movers, Purge(m)
      PROVE  LosslessInv' /\ (R!Next \/ UNCHANGED place)
  <2>1. ~ManyCopy /\ \A n \in Movers : n = m
    BY <1>8, <1>a, BinAssumption DEF Purge, Expired, OneProcess, Alone
  <2>2. /\ UNCHANGED <<src, written, mover_vars>> /\ pc[m] = "idle"
        /\ \A s \in Slots : trash'[s] = trash[s] \/ trash'[s] = Nothing
    BY <1>8 DEF Purge, mover_vars, ghost_vars
  <2>3. LosslessInv'
    BY <1>a, <2>1, <2>2 DEF LosslessInv, mover_vars
  <2>4. \A c \in Contents : /\ InLibrary(c)' <=> InLibrary(c)
                            /\ InTrash(c)' => InTrash(c)
    BY <1>a, <2>2 DEF InLibrary, InTrash
  <2> DEFINE C == {c \in Contents : place[c] = "trash" /\ ~InTrash(c)'}
  <2>5. \A c \in Contents : place'[c] = IF c \in C THEN "gone" ELSE place[c]
    BY <2>2, <2>4 DEF place
  <2>6. place' = [c \in Contents |-> IF c \in C THEN "gone" ELSE place[c]]
    BY <2>5 DEF place
  <2>7. R!Expire(C)
    BY <2>6 DEF R!Expire
  <2> QED
    BY <2>3, <2>7 DEF R!Next
<1>9. ASSUME NEW f \in Files, NEW c \in Contents, FileWritten(f, c)
      PROVE  LosslessInv' /\ (R!Next \/ UNCHANGED place)
  <2>1. ~ManyCopy /\ (CrossDevice = {} \/ src[f] = Nothing)
    BY <1>9, <1>a DEF FileWritten, OneProcess
  <2>2. /\ c \notin written /\ written' = written \cup {c}
        /\ src' = [src EXCEPT ![f] = c] /\ trash' = trash /\ UNCHANGED mover_vars
    BY <1>9 DEF FileWritten
  <2>3. \A m \in Movers : pc[m] \in {"create", "copy", "finish", "unlink"} =>
            /\ src[f] = Nothing /\ file[m] # f
            /\ Elsewhere(m) => Elsewhere(m)'
    <3> SUFFICES ASSUME NEW m \in Movers, pc[m] \in {"create", "copy", "finish", "unlink"}
                 PROVE  /\ src[f] = Nothing /\ file[m] # f
                        /\ Elsewhere(m) => Elsewhere(m)'
      OBVIOUS
    <3>1. src[f] = Nothing
      BY <2>1 DEF DstInv
    <3>2. src[file[m]] = copied[m] /\ copied[m] \in Contents
      BY <2>1 DEF LosslessInv, TypeOK
    <3> QED
      BY <1>a, <2>2, <3>1, <3>2 DEF Elsewhere, mover_vars, TypeOK
  <2>4. LosslessInv'
    <3>1. \A m \in Movers : InTrash(copied[m])' <=> InTrash(copied[m])
      BY <2>2 DEF InTrash, mover_vars
    <3> QED
      BY <2>1, <2>2, <2>3, <3>1 DEF LosslessInv, TypeOK, mover_vars
  <2>5. place[c] = "unwritten" /\ place'[c] = "library"
    BY <2>2 DEF place, InLibrary, TypeOK
  <2>6. \A d \in Contents \ {c, src[f]} : Unmoved(d)
    BY <2>2 DEF Unmoved, InLibrary, InTrash, TypeOK
  <2>7. CASE \A d \in Contents \ {c} : d = src[f] => InLibrary(d)'
    <3>1. \A d \in Contents \ {c} : d = src[f] => InLibrary(d) /\ InLibrary(d)'
      BY <1>a, <2>2, <2>7 DEF InLibrary, TypeOK
    <3>2. \A d \in Contents \ {c} : Unmoved(d)
      BY <2>2, <2>6, <3>1 DEF Unmoved
    <3>3. R!Written(c)
      BY <2>5, <3>2, OneMoved DEF R!Written, R!Goes
    <3> QED
      BY <2>4, <3>3 DEF R!Next
  <2>8. CASE \E d \in Contents \ {c} : d = src[f] /\ ~InLibrary(d)'
    <3>1. PICK old \in Contents \ {c} : old = src[f] /\ ~InLibrary(old)'
      BY <2>8
    <3>2. InLibrary(old) /\ old \in written
      BY <1>a, <3>1 DEF InLibrary, LosslessInv
    <3>3. place[old] = "library" /\ place'[old] \in {"trash", "gone"}
      BY <2>2, <3>1, <3>2 DEF place
    <3>4. \A d \in Contents \ {c, old} : place'[d] = place[d]
      BY <2>6, <3>1, UnmovedStays
    <3>5. place' = [place EXCEPT ![old] = place'[old], ![c] = "library"]
      BY <2>5, <3>1, <3>4 DEF place
    <3>6. R!Overwritten(old, c)
      BY <2>5, <3>3, <3>5 DEF R!Overwritten
    <3> QED
      BY <2>4, <3>6 DEF R!Next
  <2> QED
    BY <2>7, <2>8
<1>10. ASSUME NEW f \in Files, NEW s \in Slots, FileRecovered(f, s)
       PROVE  LosslessInv' /\ (R!Next \/ UNCHANGED place)
  <2>1. PICK c \in Contents : c = trash[s] /\ c \in written
    BY <1>10 DEF FileRecovered, LosslessInv
  <2>2. /\ ~ManyCopy
        /\ src[f] = Nothing /\ src' = [src EXCEPT ![f] = c]
        /\ trash' = [trash EXCEPT ![s] = Nothing] /\ UNCHANGED <<written, mover_vars>>
    BY <1>10, <1>a, <2>1 DEF FileRecovered, ghost_vars
  <2>3. \A m \in Movers : pc[m] \in {"create", "copy", "finish", "unlink"} =>
            /\ src[file[m]] = copied[m] /\ file[m] # f
            /\ InTrash(copied[m]) \/ Elsewhere(m) => InTrash(copied[m])' \/ Elsewhere(m)'
    <3> SUFFICES ASSUME NEW m \in Movers, pc[m] \in {"create", "copy", "finish", "unlink"}
                 PROVE  /\ src[file[m]] = copied[m] /\ file[m] # f
                        /\ InTrash(copied[m]) \/ Elsewhere(m)
                              => InTrash(copied[m])' \/ Elsewhere(m)'
      OBVIOUS
    <3>1. src[file[m]] = copied[m] /\ copied[m] \in Contents /\ file[m] # f
      BY <1>a, <2>2 DEF LosslessInv, TypeOK
    <3>2. Elsewhere(m) => Elsewhere(m)'
      BY <1>a, <2>2, <3>1 DEF Elsewhere, mover_vars, TypeOK
    <3>3. CASE copied[m] = c
      <4>1. Elsewhere(m)'
        BY <2>2, <3>1, <3>3 DEF Elsewhere, mover_vars, TypeOK
      <4> QED
        BY <3>1, <4>1
    <3>4. CASE copied[m] # c
      <4>1. InTrash(copied[m]) => InTrash(copied[m])'
        BY <2>1, <2>2, <3>4 DEF InTrash, mover_vars, TypeOK
      <4> QED
        BY <3>1, <3>2, <4>1
    <3> QED
      BY <3>3, <3>4
  <2>4. LosslessInv'
    <3>1. /\ \A g \in Files : src'[g] # Nothing => src'[g] \in written'
          /\ \A t \in Slots : trash'[t] \in Contents => trash'[t] \in written'
      BY <1>a, <2>1, <2>2 DEF LosslessInv, TypeOK
    <3>2. \A m \in Movers : pc[m] \in {"create", "copy", "finish", "unlink"} => src'[file[m]] = src[file[m]]
      BY <2>2, <2>3 DEF TypeOK
    <3> QED
      BY <2>2, <2>3, <3>1, <3>2 DEF LosslessInv, mover_vars
  <2>5. \A d \in Contents \ {c} : Unmoved(d)
    BY <1>a, <2>1, <2>2 DEF Unmoved, InLibrary, InTrash, TypeOK
  <2>6. place[c] \in {"library", "trash"} /\ place'[c] = "library"
    BY <2>1, <2>2 DEF place, InLibrary, InTrash, TypeOK
  <2>7. CASE place[c] = "library"
    <3>1. place' = [place EXCEPT ![c] = "library"]
      BY <2>5, <2>6, OneMoved
    <3> QED
      BY <2>4, <2>7, <3>1 DEF place
  <2>8. CASE place[c] = "trash"
    <3>1. R!Recovered(c)
      BY <2>5, <2>6, <2>8, OneMoved DEF R!Recovered, R!Goes
    <3> QED
      BY <2>4, <3>1 DEF R!Next
  <2> QED
    BY <2>6, <2>7, <2>8
<1>11. CASE Tick
  BY <1>1, <1>11 DEF Tick, mover_vars, ghost_vars
<1>12. CASE UNCHANGED vars
  BY <1>1, <1>12 DEF vars, world_vars, mover_vars, ghost_vars
<1> QED
  BY <1>2, <1>3, <1>4, <1>5, <1>6, <1>7, <1>8, <1>9, <1>10, <1>11, <1>12 DEF Next, Continue

LEMMA InitRefines == Init => LosslessInv /\ R!Init
<1> SUFFICES ASSUME Init PROVE LosslessInv /\ R!Init
  OBVIOUS
<1>1. LosslessInv
  BY BinAssumption DEF Init, LosslessInv, InLibrary
<1>2. \A c \in Contents : place[c] \in {"unwritten", "library"}
  BY DEF Init, place, InLibrary
<1> QED
  BY <1>1, <1>2 DEF R!Init, place

BinInv == TypeOK /\ DstInv /\ LosslessInv

LEMMA BinSteps ==
    ASSUME Promised
    PROVE  /\ Init => BinInv /\ R!Init
           /\ BinInv /\ [Next]_vars => BinInv' /\ [R!Next]_place
<1>1. Separated
  BY DEF Promised, OneProcess, ManyCopy, Separated
<1> QED
  BY <1>1, InitTypeOK, InitDst, InitRefines, StepTypeOK, StepDst, Refines DEF BinInv

(* The bin implements its promise: whatever call fails and whoever is      *)
(* killed, a content leaves the library only for the trash.                *)
THEOREM BinImplementsRelocation ==
    ASSUME Promised
    PROVE  Spec => NeverUnlinked
  BY BinSteps, PTL DEF Spec, NeverUnlinked, R!Spec

(* In the same arrangements, copyThenRemove only removes a source whose    *)
(* content is in the bin, complete, or was recovered from there.           *)
THEOREM SourceRemovedWithCopy ==
    ASSUME Promised
    PROVE  Spec => RemovesWhatItCopied
<1>1. BinInv /\ [Next]_vars
      => [\A m \in Movers : Unlink(m) =>
            LET c == src[file[m]]
            IN InTrash(c) \/ \E f \in Files \ {file[m]} : src[f] = c]_vars
  <2> SUFFICES ASSUME BinInv, NEW m \in Movers, Unlink(m)
               PROVE  \/ InTrash(src[file[m]])
                      \/ \E f \in Files \ {file[m]} : src[f] = src[file[m]]
    OBVIOUS
  <2>1. src[file[m]] = copied[m] /\ (InTrash(copied[m]) \/ Elsewhere(m))
    BY DEF BinInv, LosslessInv, Unlink
  <2> QED
    BY <2>1 DEF Elsewhere
<1> QED
  BY <1>1, BinSteps, PTL DEF Spec, RemovesWhatItCopied
=============================================================================
