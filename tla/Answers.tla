------------------------------- MODULE Answers -------------------------------
(***************************************************************************)
(* What the triages rely on when they ask the model about a list of chunks *)
(* (the comment of runBatched, internal/reconcile/engine.go:400-404): the  *)
(* chunks are resolved in order, each once, with the answer to that chunk  *)
(* or with none; only a message batch may fail as a whole, and then before *)
(* anything of it was used.                                                *)
(***************************************************************************)
EXTENDS Naturals, Sequences

VARIABLES
    together,           \* all chunks are one message batch
    asked,              \* the number of chunks, 0 before the call
    outcomes,           \* for each resolved chunk the request that was
                        \* answered, 0 if there is no answer
    over

Init == together \in BOOLEAN /\ asked = 0 /\ outcomes = <<>> /\ over = FALSE

Ask == asked = 0 /\ ~over /\ asked' \in Nat \ {0} /\ UNCHANGED <<outcomes, over>>

Resolve ==
    /\ ~over /\ Len(outcomes) < asked
    /\ outcomes' \in {Append(outcomes, 0), Append(outcomes, Len(outcomes) + 1)}
    /\ over' = (Len(outcomes') = asked)
    /\ UNCHANGED asked

GiveUp ==
    /\ together /\ ~over /\ outcomes = <<>>
    /\ over' = TRUE
    /\ UNCHANGED <<asked, outcomes>>

(* Nothing is left to ask about.                                           *)
Skip == asked = 0 /\ ~over /\ over' = TRUE /\ UNCHANGED <<asked, outcomes>>

Next == (Ask \/ Resolve \/ GiveUp \/ Skip) /\ UNCHANGED together

Spec == Init /\ [][Next]_<<together, asked, outcomes, over>>
=============================================================================
