---------------------------- MODULE MCQueueTriage ----------------------------
(***************************************************************************)
(* Small queues for QueueTriage.                                           *)
(***************************************************************************)
EXTENDS QueueTriage, TLC

CONSTANT pack      \* the downloadId of a season pack

(* Two downloads in one queue.                                             *)
PairInstances == <<1, 1>>
PairDownloads == <<NoDownload, NoDownload>>

(* A season pack in the first queue, a single download in the second.      *)
TwoQueueInstances == <<1, 1, 2>>
TwoQueueDownloads == <<pack, pack, NoDownload>>

(* One download in each of two queues.                                     *)
EachInstances == <<1, 2>>
=============================================================================
