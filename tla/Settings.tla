------------------------------- MODULE Settings -------------------------------
(***************************************************************************)
(* The configuration as the program uses it: Load, applyDefaults and       *)
(* validate of internal/config/config.go.                                  *)
(*                                                                         *)
(* A configuration has the numbers of its caps, counts and intervals, the  *)
(* three model names, and what validate looks at.  The API key and the     *)
(* fields of an instance are set or not.                                   *)
(***************************************************************************)
EXTENDS Integers, FiniteSets

CONSTANTS
    Numbers,        \* the names of the numeric settings
    Default         \* their defaults

ASSUME DefaultsAssumption == Default \in [Numbers -> Nat \ {0}]

Unset == "unset"

OrphanDefaultsFirst(raw) ==   \* mutant: the orphan model's default comes first
    IF raw.orphanModel # Unset THEN raw.orphanModel ELSE raw.model
OrphanModel(raw) ==
    IF raw.orphanModel # Unset THEN raw.orphanModel
    ELSE IF raw.model # Unset THEN raw.model ELSE "sonnet"

(* Zero is not a setting of its own: it asks for the default.              *)
ApplyDefaults(raw) ==
    [raw EXCEPT
        !.numbers = [f \in Numbers |-> IF raw.numbers[f] = 0 THEN Default[f] ELSE raw.numbers[f]],
        !.model = IF raw.model # Unset THEN raw.model ELSE "sonnet",
        !.orphanModel = OrphanModel(raw),
        !.queueModel = IF raw.queueModel # Unset THEN raw.queueModel ELSE "haiku"]

Validate(cfg) ==
    /\ cfg.instances # <<>>
    /\ \A i \in DOMAIN cfg.instances : /\ cfg.instances[i].name # Unset
                                       /\ cfg.instances[i].kind \in {"sonarr", "radarr"}
                                       /\ cfg.instances[i].complete
    /\ cfg.apiKey
    /\ cfg.deleteEnabled => cfg.trashDataset /\ cfg.allowedRoots # {}

Rejected == [rejected |-> TRUE]
Load(raw) == IF Validate(ApplyDefaults(raw)) THEN ApplyDefaults(raw) ELSE Rejected
-----------------------------------------------------------------------------
(* What loads needs no further default and would load to itself, names a   *)
(* model for each triage, has no zero among its numbers, and with deletion *)
(* enabled a bin and an allowlist: what the modules of the triages and of  *)
(* the bin assume, unless a number is negative.                            *)
LoadedUsableFor(raw) ==
    LET cfg == Load(raw)
    IN  cfg # Rejected =>
            /\ Load(cfg) = cfg
            /\ Unset \notin {cfg.model, cfg.orphanModel, cfg.queueModel}
            /\ \A f \in Numbers : raw.numbers[f] >= 0 => cfg.numbers[f] > 0
            /\ cfg.deleteEnabled => cfg.trashDataset /\ cfg.allowedRoots # {}

(* The numbers that load are not negative.                                 *)
NumbersChecked(raw) == Load(raw) # Rejected => \A f \in Numbers : Load(raw).numbers[f] >= 0

(* Instances that load have names of their own.                            *)
NamesDistinct(raw) ==
    Load(raw) # Rejected =>
        Cardinality({raw.instances[i].name : i \in DOMAIN raw.instances})
            = Cardinality(DOMAIN raw.instances)

(* model is "the default/fallback model used when a per-task model is      *)
(* unset".                                                                 *)
ModelIsFallback(raw) ==
    Load(raw) # Rejected /\ raw.model # Unset /\ raw.queueModel = Unset
        => Load(raw).queueModel = raw.model
=============================================================================
