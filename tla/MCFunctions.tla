----------------------------- MODULE MCFunctions -----------------------------
(***************************************************************************)
(* The pure functions of Rails, Settings and Texts over small inputs: each *)
(* step calls one of them, and the invariants compare what it returns with *)
(* a reference.                                                            *)
(***************************************************************************)
EXTENDS Rails, Settings, Texts

CONSTANTS Names, Depth      \* names in paths, and how many a path has

ASSUME DepthAssumption == Depth \in Nat

VARIABLE call

SettingNames == {"grace_runs", "max_removals_per_run", "batch_size"}
SettingDefaults == [f \in SettingNames |-> 2]

Paths == {Path(abs, names) : abs \in BOOLEAN, names \in SeqOf(Names, Depth)}
Roots == {Path(abs, names) : abs \in BOOLEAN, names \in SeqOf(Names, 2)}

Instances ==
    SeqOf([name : {Unset, "tv", "films"}, kind : {"sonarr", "other"}, complete : BOOLEAN], 1)
    \cup {<<[name |-> "tv", kind |-> "sonarr", complete |-> TRUE],
            [name |-> n, kind |-> "radarr", complete |-> TRUE]>> : n \in {"tv", "films"}}

Configurations ==
    [numbers : [Numbers -> -1..1], model : {Unset, "opus"}, queueModel : {Unset, "opus"},
     orphanModel : {Unset, "opus"}, instances : Instances, apiKey : {TRUE},
     deleteEnabled : BOOLEAN, trashDataset : BOOLEAN, allowedRoots : {{}, {"tv"}}]

Prose == SeqOf({"prose", "newline"}, 2)

Init == call = [of |-> "nothing"]

AskPath == \E p \in {q \in Paths : q.abs}, r \in Roots :
              call' = [of |-> "path", path |-> p, roots |-> {r}]
AskFile == \E f \in SeqOf({"film", "en", "srt"}, 3), e \in SeqOf({"en", "srt"}, 1) :
              call' = [of |-> "file", file |-> f, extensions |-> {e}]
LoadConfig == \E raw \in Configurations : call' = [of |-> "config", raw |-> raw]
CutText == \E w \in SeqOf(1..4, 4), max \in 3..9 : call' = [of |-> "cut", widths |-> w, max |-> max]
BucketAge == \E h \in -2..700 : call' = [of |-> "age", hours |-> h]
DedupeTexts == \E s \in SeqOf({"", "a", "b"}, 4) : call' = [of |-> "dedupe", texts |-> s]
ParseAnswer == \E n \in 0..2, before, after \in Prose :
                  call' = [of |-> "parse", decisions |-> [i \in 1..n |-> "decision"],
                           before |-> before, after |-> after]

Next == call.of = "nothing"
        /\ (AskPath \/ AskFile \/ LoadConfig \/ CutText \/ BucketAge \/ DedupeTexts
            \/ ParseAnswer)

Spec == Init /\ [][Next]_call
-----------------------------------------------------------------------------
(* WithinAllowedRoot lets through just the paths that lead to an allowed   *)
(* root or below it, and IsProtectedExt finds listed extensions that have  *)
(* no dot inside.                                                          *)
RailsExact ==
    /\ call.of = "path" => AllowlistExactFor(call.path, call.roots)
    /\ call.of = "file" => ListedIsProtectedFor(call.file, call.extensions)

(* What Load accepts is settled and usable.                                *)
LoadedUsable == call.of = "config" => LoadedUsableFor(call.raw)

(* truncate, ageBucket, dedupe and parseDecisions agree with what their    *)
(* comments promise.                                                       *)
TextsKept ==
    /\ call.of = "cut" => TruncateFits(call.widths, call.max)
    /\ call.of = "age" => AgesSettle(call.hours)
    /\ call.of = "dedupe" => FirstOnly(call.texts)
    /\ call.of = "parse" => FencesTolerated(call.decisions, call.before, call.after)
=============================================================================
