----------------------------- MODULE Relocation -----------------------------
(***************************************************************************)
(* What the trash promises about the contents of library files ("no        *)
(* unlink" in README.md, and the comment of trash.Bin): the program only   *)
(* ever takes a content from the library into the trash, and drops it from *)
(* there once its time is over.  Everything else is done by others.        *)
(***************************************************************************)
CONSTANT Contents

VARIABLE where      \* where each content is, if it was ever written

Places == {"unwritten", "library", "trash", "gone"}

Init == where \in [Contents -> {"unwritten", "library"}]

Goes(c, from, to) == where[c] = from /\ where' = [where EXCEPT ![c] = to]

Relocate(c) == Goes(c, "library", "trash")
Expire(C) ==
    /\ \A c \in C : where[c] = "trash"
    /\ where' = [c \in Contents |-> IF c \in C THEN "gone" ELSE where[c]]

(* By others: a file is written, over another one or not, or recovered.    *)
Written(c) == Goes(c, "unwritten", "library")
Overwritten(old, c) ==
    /\ where[old] = "library" /\ where[c] = "unwritten"
    /\ \/ where' = [where EXCEPT ![old] = "gone", ![c] = "library"]
       \/ where' = [where EXCEPT ![old] = "trash", ![c] = "library"]
Recovered(c) == Goes(c, "trash", "library")

Next ==
    \/ \E c \in Contents : Relocate(c) \/ Written(c) \/ Recovered(c)
    \/ \E old, c \in Contents : Overwritten(old, c)
    \/ \E C \in SUBSET Contents : Expire(C)

Spec == Init /\ [][Next]_where
=============================================================================
