----------------------------- MODULE QueueVisit -----------------------------
(***************************************************************************)
(* One visit of a queue, call by call, up to the answers: reconcileQueue   *)
(* and runBatched (internal/reconcile/engine.go) composed of the fetch in  *)
(* QueuePages, the local tier in Prefilter and the model in ModelCalls.    *)
(* What becomes of the answers, over several runs, is module QueueTriage,  *)
(* in which each of the three is one step.                                 *)
(***************************************************************************)
EXTENDS QueuePages, Prefilter, ModelCalls

CONSTANTS
    Removable,      \* records that are stuck, with their grace period over
    MaxCandidates,  \* queue.max_candidates_per_run, 0 for no cap
    BatchSize       \* queue.batch_size, 0 for one single chunk

ASSUME VisitAssumption ==
    Removable \subseteq Records /\ MaxCandidates \in Nat /\ BatchSize \in Nat

VARIABLE chunks     \* the candidates, request by request

vars == <<page_vars, tier_vars, call_vars, chunks>>

Init == PagesInit /\ TierInit /\ CallInit /\ chunks = <<>>

Fetch == Paging /\ UNCHANGED <<tier_vars, call_vars, chunks>>
ServerChanges == (RecordArrives \/ RecordLeaves) /\ UNCHANGED <<tier_vars, call_vars, chunks>>

(* A record that was listed twice is a candidate twice.                    *)
FindCandidates ==
    /\ fetch = "done"
    /\ Classify(Among(all, Removable))
    /\ UNCHANGED <<page_vars, call_vars, chunks>>

FilterBatch == Filtering /\ UNCHANGED <<page_vars, call_vars, chunks>>

Capped(list, n) == IF n > 0 THEN SubSeq(list, 1, Min({n, Len(list)})) ELSE list

ChunksDropTail(list, size) ==     \* mutant: only full chunks are sent
    [i \in 1..(Len(list) \div size) |-> SubSeq(list, (i - 1) * size + 1, i * size)]
Chunks(list, size) ==
    [i \in 1..((Len(list) + size - 1) \div size) |->
        SubSeq(list, (i - 1) * size + 1, Min({i * size, Len(list)}))]

Requests ==
    LET list == Capped(Escalated, MaxCandidates)
    IN  IF list = <<>> THEN <<>>
        ELSE Chunks(list, IF BatchSize > 0 THEN BatchSize ELSE Len(list))

AskModel ==
    /\ tier = "done"
    /\ Ask(Len(Requests))
    /\ chunks' = Requests
    /\ UNCHANGED <<page_vars, tier_vars>>

CallModel == Calling /\ UNCHANGED <<page_vars, tier_vars, chunks>>
BatchProgress == BatchEnds /\ UNCHANGED <<page_vars, tier_vars, chunks>>

Visit == Fetch \/ FindCandidates \/ FilterBatch \/ AskModel \/ CallModel

Next == Visit \/ ServerChanges \/ BatchProgress

Spec == Init /\ [][Next]_vars

(* Calls return, and time passes while the client waits for its ticker.    *)
FairSpec == Spec /\ WF_vars(Visit)

-----------------------------------------------------------------------------
TypeOK ==
    /\ fetch \in {"paging", "done", "failed"} /\ page \in Nat \ {0}
    /\ {live, all, items} \subseteq Seq(Records)
    /\ {stayed, kept, answered} \subseteq SUBSET Records
    /\ {shrunk, grown, cut, batchMode, due, ended} \subseteq BOOLEAN
    /\ tier \in {"off", "classify", "done"} /\ sent \in 0..Len(items)
    /\ call \in {"idle", "decide", "submit", "poll", "wait", "stream", "dispatch",
                 "over", "failed"}
    /\ asked = Len(chunks) /\ chunks \in Seq(Seq(Records) \ {<<>>})
    /\ outcomes \in Seq(0..asked) /\ Len(outcomes) <= asked
    /\ streamed \subseteq 1..asked /\ byID \in Seq(0..asked)
    /\ {limit, now, tickAt, endedAt} \subseteq Nat /\ now <= limit /\ endedAt <= now

(* What is removable and was in the queue all the time is kept by the local*)
(* model, left to a later run by the cap, or asked about in a request that *)
(* got its own answer, or none; unless a record left the queue, or a page  *)
(* came without a body, while the queue was fetched.                       *)
StuckIsAnswered ==
    call = "over" /\ ~shrunk /\ ~cut =>
        \A r \in stayed \cap Removable :
            \/ r \in kept
            \/ MaxCandidates > 0 /\ r \in Range(SubSeq(Escalated, MaxCandidates + 1, Len(Escalated)))
            \/ \E i \in 1..asked : r \in Range(chunks[i]) /\ outcomes[i] \in {0, i}

(* No candidate is put to the model twice in one visit, unless a record    *)
(* came to the queue while it was fetched.                                 *)
AskedOnce ==
    ~grown => \A i, j \in DOMAIN chunks : \A k \in DOMAIN chunks[i], l \in DOMAIN chunks[j] :
                chunks[i][k] = chunks[j][l] => i = j /\ k = l

(* Every visit ends: with a failed fetch, or with the last answer, or with *)
(* a message batch given up.                                               *)
VisitEnds == <>(fetch = "failed" \/ Over)
=============================================================================
