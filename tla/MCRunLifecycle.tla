---------------------------- MODULE MCRunLifecycle ----------------------------
(***************************************************************************)
(* TracedRun is small enough to be checked with the constants that the     *)
(* configurations give it.                                                 *)
(***************************************************************************)
EXTENDS TracedRun
=============================================================================
