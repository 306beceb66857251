--------------------------- MODULE MCQueueEngine ---------------------------
(* Model values for QueueEngine.                                           *)
EXTENDS QueueEngine

CONSTANTS c1, c2

AllCmds == {c1, c2}
AllStatuses == {"SUCCESS", "MEDIA_ERROR"}
(* No work, a partial drain, more than there can be (budget = None).       *)
AllBudgets == {0, 1, Depth}
=============================================================================
