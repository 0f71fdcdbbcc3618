------------------------ MODULE MCProcessingService -------------------------
(***************************************************************************)
(* Values for the constants of ProcessingService in TLC's runs.            *)
(***************************************************************************)
EXTENDS ProcessingService

\* Event 1 matches two rules with one that does not match between them, event 2
\* throws between two matches, event 3 is not JSON.
MCVerdict ==
  [m \in Msgs |->
     CASE m = 1 -> <<"match", "nomatch", "match">>
       [] m = 2 -> <<"match", "throw", "match">>
       [] OTHER -> <<"nomatch", "nomatch", "nomatch">>]

MCMalformed == {3} \cap Msgs
=============================================================================
