-------------------------------- MODULE Texts --------------------------------
(***************************************************************************)
(* Small functions on texts and ages: truncate of internal/notify,         *)
(* parseDecisions and stripFences of internal/claude/client.go, ageBucket  *)
(* and dedupe of internal/reconcile/engine.go.                             *)
(*                                                                         *)
(* For truncate a text is the sequence of the widths of its runes, for     *)
(* parseDecisions a sequence of tokens.                                    *)
(***************************************************************************)
EXTENDS Integers, SequencesExt, Batching

(* Where each rune ends; and of each byte, whether a rune begins there.    *)
Ends(widths) ==
    LET end[n \in 0..Len(widths)] == IF n = 0 THEN 0 ELSE end[n - 1] + widths[n]
    IN  end
Bytes(widths) ==
    LET end == Ends(widths)
    IN  [i \in 1..end[Len(widths)] |-> \E n \in 1..Len(widths) : end[n - 1] = i - 1]

Ellipsis == 3

BoundaryAnywhere(bytes, cut) == cut     \* mutant: cuts between any two bytes
Boundary(bytes, cut) == Max({c \in 0..cut : c = 0 \/ bytes[c + 1]})

(* How many bytes truncate keeps before the ellipsis, or of all.           *)
Truncate(bytes, max) ==
    IF Len(bytes) <= max THEN Len(bytes)
    ELSE Boundary(bytes, IF max < Ellipsis THEN 0 ELSE max - Ellipsis)

AgeBucket(hours) ==
    CASE hours < 0       -> 0
      [] hours \in 0..24 -> hours
      [] hours \in 25..168 -> (hours \div 24) * 24
      [] OTHER           -> (hours \div 168) * 168

Kept(out, t) == IF t = "" \/ t \in Range(out) THEN out ELSE Append(out, t)
Dedupe(texts) ==
    LET out[n \in 0..Len(texts)] == IF n = 0 THEN <<>> ELSE Kept(out[n - 1], texts[n])
    IN  out[Len(texts)]

From(s, n) == SubSeq(s, n, Len(s))

(* TrimSpace: without the newlines on both sides.                          *)
Trimmed(text) ==
    LET solid == {n \in 1..Len(text) : text[n] # "newline"}
    IN  IF solid = {} THEN <<>> ELSE SubSeq(text, Min(solid), Max(solid))

(* The first line goes with the fence it begins with, and a fence at the   *)
(* end.                                                                    *)
FirstLineDropped(text) ==
    LET lines == {n \in 1..Len(text) : text[n] = "newline"}
    IN  IF lines = {} THEN text ELSE From(text, Min(lines) + 1)
StripFences(text) ==
    LET s == Trimmed(text)
        body == Trimmed(FirstLineDropped(s))
    IN  IF s = <<>> \/ s[1] # "fence" THEN s
        ELSE IF body # <<>> /\ body[Len(body)] = "fence" THEN Front(body)
        ELSE body

(* The decisions between the first bracket that opens and the last that    *)
(* closes, or none if that is not one array.                               *)
NoArray == <<"error">>
ParseDecisions(text) ==
    LET body == StripFences(text)
        opens == {n \in 1..Len(body) : body[n] = "["}
        closes == {n \in 1..Len(body) : body[n] = "]"}
    IN  IF opens = {} \/ closes = {} THEN NoArray
        ELSE LET inner == SubSeq(body, Min(opens) + 1, Max(closes) - 1)
             IN  IF Max(closes) > Min(opens) /\ Range(inner) \subseteq {"decision"}
                 THEN inner ELSE NoArray
-----------------------------------------------------------------------------
(* A summary is cut to whole runes, no more of them than needed, and fits  *)
(* the limit together with its ellipsis.                                   *)
TruncateFits(widths, max) ==
    LET end == Ends(widths)
        all == end[Len(widths)]
    IN  Truncate(Bytes(widths), max) =
            IF all <= max THEN all
            ELSE Max({end[n] : n \in {m \in 0..Len(widths) : m = 0 \/ end[m] <= max - Ellipsis}})

(* The bucket of an age never runs ahead of it, lags by less than a unit   *)
(* of its coarseness, and never falls as time goes by.                     *)
AgesSettle(hours) ==
    /\ AgeBucket(hours) <= AgeBucket(hours + 1)
    /\ AgeBucket(AgeBucket(hours)) = AgeBucket(hours)
    /\ hours >= 0 => /\ AgeBucket(hours) <= hours
                     /\ hours - AgeBucket(hours) <
                            IF hours <= 24 THEN 1 ELSE IF hours <= 168 THEN 24 ELSE 168

(* Of the texts that are not empty, the first of each, in their order.     *)
FirstOnly(texts) ==
    LET once == {n \in 1..Len(texts) : texts[n] # "" /\ \A m \in 1..n - 1 : texts[m] # texts[n]}
    IN  Dedupe(texts) = [n \in 1..Cardinality(once) |-> texts[Nth(once, n)]]

(* "Tolerant of accidental markdown fences or leading prose": fences, and  *)
(* prose without brackets before or after it, do not change an array.      *)
Fenced(text) == <<"fence", "json", "newline">> \o text \o <<"newline", "fence">>
FencesTolerated(decisions, before, after) ==
    LET array == <<"[">> \o decisions \o <<"]">>
    IN  \A text \in {before \o array \o after, Fenced(array), before \o Fenced(array) \o after} :
            ParseDecisions(text) = decisions
=============================================================================
