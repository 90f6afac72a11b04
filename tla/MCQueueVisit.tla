---------------------------- MODULE MCQueueVisit ----------------------------
(***************************************************************************)
(* QueueVisit with the small queues that the configuration gives it.       *)
(***************************************************************************)
EXTENDS QueueVisit
=============================================================================
