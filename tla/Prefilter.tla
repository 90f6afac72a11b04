------------------------------ MODULE Prefilter ------------------------------
(***************************************************************************)
(* The tier-1 prefilter of the queue: Classify and classifyBatch of        *)
(* internal/local/local.go, as funnelQueue (internal/reconcile/engine.go)  *)
(* uses them.  Of the labels only keep matters there: junk and uncertain   *)
(* both escalate.                                                          *)
(***************************************************************************)
EXTENDS Batching, SequencesExt

CONSTANTS
    LocalEnabled,   \* a local model is configured
    LocalBatch,     \* batchSize of local.go
    LocalFails      \* its calls, or their answers, may be unusable

ASSUME PrefilterAssumption ==
    LocalEnabled \in BOOLEAN /\ LocalBatch \in Nat \ {0} /\ LocalFails \in BOOLEAN

VARIABLES
    tier,           \* "off", then "classify", then "done"
    items,          \* what is classified, by reference, in order
    sent,           \* how many of them were sent in the batches so far
    kept,           \* the references whose verdict is keep
    answered        \* ghost: references that were in a batch with an answer

(* The entries of a list that are in a set, in the list's order.           *)
Among(list, S) ==
    LET places == {i \in DOMAIN list : list[i] \in S}
    IN [n \in 1..Cardinality(places) |-> list[Nth(places, n)]]

tier_vars == <<tier, items, sent, kept, answered>>

TierInit == tier = "off" /\ items = <<>> /\ sent = 0 /\ kept = {} /\ answered = {}

Classify(list) ==
    /\ tier = "off"
    /\ items' = list
    /\ tier' = IF LocalEnabled /\ list # <<>> THEN "classify" ELSE "done"
    /\ UNCHANGED <<sent, kept, answered>>

BatchEnd == Min({sent + LocalBatch, Len(items)})
Batch == Range(SubSeq(items, sent + 1, BatchEnd))

BatchDoneWhole ==     \* mutant: the last batch counts as a full one
    /\ sent' = sent + LocalBatch
    /\ tier' = IF sent' = Len(items) THEN "done" ELSE tier
    /\ UNCHANGED items

BatchDone ==
    /\ sent' = BatchEnd
    /\ tier' = IF sent' = Len(items) THEN "done" ELSE tier
    /\ UNCHANGED items

(* The answer labels references it likes, any number of times.  Those that *)
(* are not items are ignored, but those of other batches are accepted.     *)
Label ==
    /\ tier = "classify"
    /\ \E labelled \in SUBSET Range(items) : \E keeps \in SUBSET labelled :
          kept' = (kept \ labelled) \cup keeps
    /\ answered' = answered \cup Batch
    /\ BatchDone

LabelFails ==
    /\ tier = "classify" /\ LocalFails
    /\ BatchDone
    /\ UNCHANGED <<kept, answered>>

Filtering == Label \/ LabelFails

Escalated == Among(items, Range(items) \ kept)

-----------------------------------------------------------------------------
(* Classify: "a batch that errors leaves its items Uncertain".             *)
FailedEscalate == tier = "done" => kept \subseteq answered
=============================================================================
