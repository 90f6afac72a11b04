---------------------------- MODULE MCOrphanTriage ----------------------------
(***************************************************************************)
(* Small libraries for OrphanTriage.                                       *)
(***************************************************************************)
EXTENDS OrphanTriage, TLC

(* One instance, one root.                                                 *)
OneRoot == <<{1}>>
AllUnderOne == (1 :> {1, 2})

(* The first and the last path belong to one series.                       *)
TwoSeries == [f \in Files |-> IF f = 2 THEN 2 ELSE 1]
OneSeries == [f \in Files |-> 1]

(* One instance whose second root lies inside the first: paths 2 and 3 are *)
(* walked twice.                                                           *)
NestedRoots == <<{1, 2}>>
NestedUnder == (1 :> {1, 2, 3}) @@ (2 :> {2, 3})

(* One instance with a root inside the allowlist, and one around both it   *)
(* and a path outside.                                                     *)
WideRoots == <<{1, 2}>>
WideUnder == (1 :> {2, 3}) @@ (2 :> {1, 2, 3})

(* Two instances with a root of their own each.                            *)
OwnRoots == <<{1}, {2}>>
OwnUnder == (1 :> {1}) @@ (2 :> {2})

(* Two instances that share their only root.                               *)
SharedRoot == <<{1}, {1}>>
SharedUnder == (1 :> {1})
=============================================================================
