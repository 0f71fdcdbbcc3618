--------------------------- MODULE MCQueueService ---------------------------
(***************************************************************************)
(* Values for the constants of QueueService in TLC's runs.                 *)
(***************************************************************************)
EXTENDS QueueService

MCMalformed == {2}

=============================================================================
