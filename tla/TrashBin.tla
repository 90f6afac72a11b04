------------------------------ MODULE TrashBin ------------------------------
(***************************************************************************)
(* The trash bin, call by call: Bin.Move, uniquePath, copyThenRemove and   *)
(* Bin.Purge of internal/trash/trash.go.                                   *)
(*                                                                         *)
(* Each mover is a process that relocates one file at a time.  Between its *)
(* system calls the clock runs, others write and recover files, another    *)
(* process may use the same bin, and the mover may be killed.              *)
(*                                                                         *)
(* Abstracted: a path in the bin is its day, its name relative to the      *)
(* library root, and the number uniquePath puts into it.  A file's bytes   *)
(* are one content; the copy of a file is whole once dst is closed.        *)
(***************************************************************************)
EXTENDS Naturals, FiniteSets

CONSTANTS
    Movers,         \* processes that use the bin
    Files,          \* library paths
    NameOf,         \* each path relative to the root it was found under
    LongNames,      \* names too long to take a number: probing those fails
    Contents,       \* contents that files may have
    Nothing,        \* no file at a path
    CrossDevice,    \* library paths on another device than the bin
    TicksPerDay,
    TTL,            \* trash_ttl, in ticks; 0 disables the purge
    Faults,         \* the failures that may happen, of AllFaults
    Changes,        \* what others may do, of AllChanges
    MaxNow,         \* bound on the clock
    MaxNumber       \* bound on the numbers uniquePath tries

AllFaults == {"mkdir", "rename", "copy", "cleanup", "unlink", "crash"}
AllChanges == {"write", "overwrite", "recover"}

Names == {NameOf[f] : f \in Files}
Days == {t \div TicksPerDay : t \in 0..MaxNow}
Slots == Days \X Names \X (0..MaxNumber)

ASSUME BinAssumption ==
    /\ Files # {} /\ NameOf \in [Files -> Names] /\ LongNames \subseteq Names
    /\ Nothing \notin Contents \cup Movers /\ Contents \cap Movers = {}
    /\ CrossDevice \subseteq Files
    /\ TicksPerDay \in Nat \ {0} /\ TTL \in Nat
    /\ MaxNow \in Nat /\ MaxNumber \in Nat
    /\ Faults \subseteq AllFaults /\ Changes \subseteq AllChanges

VARIABLES
    src,            \* the library: each path's content, or Nothing
    trash,          \* the bin: each path's content, Nothing, or the mover whose
                    \* copy to it is not complete
    now,            \* the clock
    pc, file,       \* each mover's next call, and the file it relocates
    stamp, number,  \* the day and the number of its destination
    copied,         \* what its copy loop read
    written,        \* ghost: contents that were ever written
    stampedAt,      \* ghost: when a mover took the date for its destination
    since           \* ghost: and the same for the content now in a slot

world_vars == <<src, trash, now>>
mover_vars == <<pc, file, stamp, number, copied>>
ghost_vars == <<written, stampedAt, since>>
vars == <<world_vars, mover_vars, ghost_vars>>

Steps == {"idle", "probe", "rename", "open", "create", "copy", "finish", "unlink"}

TypeOK ==
    /\ src \in [Files -> Contents \cup {Nothing}]
    /\ trash \in [Slots -> Contents \cup Movers \cup {Nothing}]
    /\ now \in 0..MaxNow
    /\ pc \in [Movers -> Steps]
    /\ file \in [Movers -> Files]
    /\ stamp \in [Movers -> Days]
    /\ number \in [Movers -> 0..MaxNumber]
    /\ copied \in [Movers -> Contents \cup {Nothing}]
    /\ written \subseteq Contents
    /\ stampedAt \in [Movers -> 0..MaxNow]
    /\ since \in [Slots -> 0..MaxNow]

Init ==
    /\ src \in [Files -> Contents \cup {Nothing}]
    /\ \A f, g \in Files : src[f] = src[g] => f = g \/ src[f] = Nothing
    /\ trash = [s \in Slots |-> Nothing]
    /\ now = 0
    /\ pc = [m \in Movers |-> "idle"]
    /\ file = [m \in Movers |-> CHOOSE f \in Files : TRUE]
    /\ stamp = [m \in Movers |-> 0]
    /\ number = [m \in Movers |-> 0]
    /\ copied = [m \in Movers |-> Nothing]
    /\ written = {src[f] : f \in Files} \ {Nothing}
    /\ stampedAt = [m \in Movers |-> 0]
    /\ since = [s \in Slots |-> 0]

Goto(m, step) == pc' = [pc EXCEPT ![m] = step]
Dst(m) == <<stamp[m], NameOf[file[m]], number[m]>>

-----------------------------------------------------------------------------
(* Bin.Move                                                                *)

BeginTimed(m) ==      \* mutant: the folder is named after the time, not the day
    /\ pc[m] = "idle"
    /\ \E f \in Files :
        /\ src[f] # Nothing
        /\ file' = [file EXCEPT ![m] = f]
    /\ stamp' = [stamp EXCEPT ![m] = now]
    /\ stampedAt' = [stampedAt EXCEPT ![m] = now]
    /\ number' = [number EXCEPT ![m] = 0]
    /\ Goto(m, "probe")
    /\ UNCHANGED <<world_vars, copied, written, since>>

(* The source is there; the destination is dated, its directory is made.   *)
Begin(m) ==
    /\ pc[m] = "idle"
    /\ \E f \in Files :
        /\ src[f] # Nothing
        /\ file' = [file EXCEPT ![m] = f]
    /\ stamp' = [stamp EXCEPT ![m] = now \div TicksPerDay]
    /\ stampedAt' = [stampedAt EXCEPT ![m] = now]
    /\ number' = [number EXCEPT ![m] = 0]
    /\ Goto(m, "probe")
    /\ UNCHANGED <<world_vars, copied, written, since>>

MkdirFails(m) ==
    /\ "mkdir" \in Faults
    /\ pc[m] = "probe" /\ number[m] = 0
    /\ Goto(m, "idle")
    /\ UNCHANGED <<world_vars, file, stamp, number, copied, ghost_vars>>

FreeAlways(s) == TRUE     \* mutant: no unique path is looked for

(* uniquePath looks for a path that does not exist; any other answer, an   *)
(* error included, makes it try the next number.                           *)
Free(s) == trash[s] = Nothing /\ (s[3] > 0 => s[2] \notin LongNames)

ProbeFree(m) ==
    /\ pc[m] = "probe"
    /\ Free(Dst(m))
    /\ Goto(m, "rename")
    /\ UNCHANGED <<world_vars, file, stamp, number, copied, ghost_vars>>

ProbeAgain(m) ==      \* mutant: the number is not advanced
    /\ pc[m] = "probe"
    /\ ~Free(Dst(m))
    /\ UNCHANGED vars

ProbeNext(m) ==
    /\ pc[m] = "probe"
    /\ ~Free(Dst(m))
    /\ number[m] < MaxNumber
    /\ number' = [number EXCEPT ![m] = @ + 1]
    /\ UNCHANGED <<world_vars, pc, file, stamp, copied, ghost_vars>>

(* rename(2) replaces whatever the destination has become meanwhile.       *)
Rename(m) ==
    /\ pc[m] = "rename"
    /\ file[m] \notin CrossDevice
    /\ src[file[m]] # Nothing
    /\ trash' = [trash EXCEPT ![Dst(m)] = src[file[m]]]
    /\ src' = [src EXCEPT ![file[m]] = Nothing]
    /\ since' = [since EXCEPT ![Dst(m)] = stampedAt[m]]
    /\ Goto(m, "idle")
    /\ UNCHANGED <<now, file, stamp, number, copied, written, stampedAt>>

RenameFailsRemoved(m) ==  \* mutant: the source is removed after a failed rename
    /\ pc[m] = "rename"
    /\ "rename" \in Faults
    /\ src' = [src EXCEPT ![file[m]] = Nothing]
    /\ Goto(m, "idle")
    /\ UNCHANGED <<trash, now, file, stamp, number, copied, ghost_vars>>

RenameFails(m) ==
    /\ pc[m] = "rename"
    /\ "rename" \in Faults \/ src[file[m]] = Nothing
    /\ Goto(m, "idle")
    /\ UNCHANGED <<world_vars, file, stamp, number, copied, ghost_vars>>

RenameCrossesDevice(m) ==
    /\ pc[m] = "rename"
    /\ file[m] \in CrossDevice
    /\ src[file[m]] # Nothing
    /\ Goto(m, "open")
    /\ UNCHANGED <<world_vars, file, stamp, number, copied, ghost_vars>>

-----------------------------------------------------------------------------
(* copyThenRemove                                                          *)

OpenSrc(m) ==
    /\ pc[m] = "open"
    /\ src[file[m]] # Nothing
    /\ copied' = [copied EXCEPT ![m] = src[file[m]]]
    /\ Goto(m, "create")
    /\ UNCHANGED <<world_vars, file, stamp, number, ghost_vars>>

OpenFails(m) ==
    /\ pc[m] = "open"
    /\ "copy" \in Faults \/ src[file[m]] = Nothing
    /\ Goto(m, "idle")
    /\ UNCHANGED <<world_vars, file, stamp, number, copied, ghost_vars>>

CreateTruncates(m) ==     \* mutant: created without O_EXCL
    /\ pc[m] = "create"
    /\ trash' = [trash EXCEPT ![Dst(m)] = m]
    /\ Goto(m, "copy")
    /\ UNCHANGED <<src, now, file, stamp, number, copied, ghost_vars>>

CreateDst(m) ==
    /\ pc[m] = "create"
    /\ trash[Dst(m)] = Nothing
    /\ trash' = [trash EXCEPT ![Dst(m)] = m]
    /\ Goto(m, "copy")
    /\ UNCHANGED <<src, now, file, stamp, number, copied, ghost_vars>>

CreateFails(m) ==
    /\ pc[m] = "create"
    /\ "copy" \in Faults \/ trash[Dst(m)] # Nothing
    /\ Goto(m, "idle")
    /\ UNCHANGED <<world_vars, file, stamp, number, copied, ghost_vars>>

(* The source stays open: what is read is what the path held when opened,  *)
(* or, after an overwrite in place, what it holds now.                     *)
CopyBytes(m) ==
    /\ pc[m] = "copy"
    /\ \/ copied' = copied
       \/ /\ src[file[m]] # Nothing
          /\ copied' = [copied EXCEPT ![m] = src[file[m]]]
    /\ Goto(m, "finish")
    /\ UNCHANGED <<world_vars, file, stamp, number, ghost_vars>>

(* The copy is whole, unless its path was removed while it was written.    *)
SyncAndClose(m) ==
    /\ pc[m] = "finish"
    /\ IF trash[Dst(m)] = m
       THEN /\ trash' = [trash EXCEPT ![Dst(m)] = copied[m]]
            /\ since' = [since EXCEPT ![Dst(m)] = stampedAt[m]]
       ELSE UNCHANGED <<trash, since>>
    /\ Goto(m, "unlink")
    /\ UNCHANGED <<src, now, file, stamp, number, copied, written, stampedAt>>

CopyFailsIgnored(m) ==    \* mutant: the error of the copy is dropped
    /\ "copy" \in Faults
    /\ pc[m] \in {"copy", "finish"}
    /\ trash' = [trash EXCEPT ![Dst(m)] = Nothing]
    /\ Goto(m, "unlink")
    /\ UNCHANGED <<src, now, file, stamp, number, copied, ghost_vars>>

(* A copy, sync or close that fails removes the destination again, and the *)
(* error of that removal is ignored.                                       *)
CopyFails(m) ==
    /\ "copy" \in Faults
    /\ pc[m] \in {"copy", "finish"}
    /\ \/ trash' = [trash EXCEPT ![Dst(m)] = Nothing]
       \/ "cleanup" \in Faults /\ trash' = trash
    /\ Goto(m, "idle")
    /\ UNCHANGED <<src, now, file, stamp, number, copied, ghost_vars>>

Unlink(m) ==
    /\ pc[m] = "unlink"
    /\ src[file[m]] # Nothing
    /\ src' = [src EXCEPT ![file[m]] = Nothing]
    /\ Goto(m, "idle")
    /\ UNCHANGED <<trash, now, file, stamp, number, copied, ghost_vars>>

UnlinkFails(m) ==
    /\ pc[m] = "unlink"
    /\ "unlink" \in Faults \/ src[file[m]] = Nothing
    /\ Goto(m, "idle")
    /\ UNCHANGED <<world_vars, file, stamp, number, copied, ghost_vars>>

Crash(m) ==
    /\ "crash" \in Faults
    /\ pc[m] # "idle"
    /\ Goto(m, "idle")
    /\ UNCHANGED <<world_vars, file, stamp, number, copied, ghost_vars>>

-----------------------------------------------------------------------------
ExpiredAtStart(day) == TTL > 0 /\ day * TicksPerDay + TTL < now   \* mutant

(* Bin.Purge: a day's folder goes once trash_ttl has passed since the end  *)
(* of that day, entry by entry: RemoveAll may stop at an error, or be      *)
(* killed, and leave the rest to a later purge.                            *)
Expired(day) == TTL > 0 /\ (day + 1) * TicksPerDay + TTL < now

Purge(m) ==
    /\ pc[m] = "idle"
    /\ \E day \in Days :
        /\ Expired(day)
        /\ \E removed \in SUBSET {s \in Slots : s[1] = day /\ trash[s] # Nothing} :
            /\ removed # {}
            /\ trash' = [s \in Slots |-> IF s \in removed THEN Nothing ELSE trash[s]]
    /\ UNCHANGED <<src, now, mover_vars, ghost_vars>>

-----------------------------------------------------------------------------
(* External: the clock, and others who write and recover library files.    *)

Tick ==
    /\ now < MaxNow
    /\ now' = now + 1
    /\ UNCHANGED <<src, trash, mover_vars, ghost_vars>>

FileWritten(f, c) ==
    /\ c \notin written
    /\ \/ "write" \in Changes /\ src[f] = Nothing
       \/ "overwrite" \in Changes /\ src[f] # Nothing
    /\ src' = [src EXCEPT ![f] = c]
    /\ written' = written \cup {c}
    /\ UNCHANGED <<trash, now, mover_vars, stampedAt, since>>

FileRecovered(f, s) ==
    /\ "recover" \in Changes
    /\ src[f] = Nothing
    /\ trash[s] \in Contents
    /\ src' = [src EXCEPT ![f] = trash[s]]
    /\ trash' = [trash EXCEPT ![s] = Nothing]
    /\ UNCHANGED <<now, mover_vars, ghost_vars>>

Continue(m) ==
    \/ MkdirFails(m) \/ ProbeFree(m) \/ ProbeNext(m)
    \/ Rename(m) \/ RenameFails(m) \/ RenameCrossesDevice(m)
    \/ OpenSrc(m) \/ OpenFails(m) \/ CreateDst(m) \/ CreateFails(m)
    \/ CopyBytes(m) \/ SyncAndClose(m) \/ CopyFails(m) \/ Unlink(m) \/ UnlinkFails(m)

Next ==
    \/ \E m \in Movers : Begin(m) \/ Continue(m) \/ Crash(m) \/ Purge(m)
    \/ Tick
    \/ \E f \in Files, c \in Contents : FileWritten(f, c)
    \/ \E f \in Files, s \in Slots : FileRecovered(f, s)

Spec == Init /\ [][Next]_vars

(* A mover that has begun is scheduled, and its system calls return.       *)
FairSpec == Spec /\ \A m \in Movers : WF_vars(Continue(m))

-----------------------------------------------------------------------------
(* A content is in the library as long as a path there holds it, and in the*)
(* trash once only a complete file of the bin does.                        *)
InLibrary(c) == \E f \in Files : src[f] = c
InTrash(c) == \E s \in Slots : trash[s] = c

place == [c \in Contents |->
    IF c \notin written THEN "unwritten"
    ELSE IF InLibrary(c) THEN "library"
    ELSE IF InTrash(c) THEN "trash"
    ELSE "gone"]

R == INSTANCE Relocation WITH Contents <- Contents, where <- place

(* Whatever fails or is killed in between, a content only leaves the       *)
(* library for the trash, and the trash when it expires.                   *)
NeverUnlinked == R!Spec

(* A complete file in the bin is not replaced, and removed only by others  *)
(* who recover it or by the purge of an expired day ("avoid clobbering an  *)
(* existing trashed file").                                                *)
NoClobber ==
    [][\A s \in Slots : trash[s] \in Contents /\ trash'[s] # trash[s] =>
            /\ trash'[s] = Nothing
            /\ Expired(s[1]) \/ \E f \in Files : src'[f] = trash[s]]_vars

(* What the purge removes was dated at least trash_ttl ago.                *)
PurgedOnTime ==
    [][\A m \in Movers, s \in Slots :
            Purge(m) /\ trash[s] # Nothing /\ trash'[s] = Nothing =>
                now - since[s] > TTL]_vars

(* What the fallback for another device removes from the library is in the *)
(* bin, complete, or was recovered from there: what was written since it   *)
(* was copied is not lost.                                                 *)
RemovesWhatItCopied ==
    [][\A m \in Movers : Unlink(m) =>
            LET c == src[file[m]]
            IN InTrash(c) \/ \E f \in Files \ {file[m]} : src[f] = c]_vars

(* Every relocation that was begun ends.                                   *)
MovesEnd == \A m \in Movers : []<>(pc[m] = "idle")
=============================================================================
