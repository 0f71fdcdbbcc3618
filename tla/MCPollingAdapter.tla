-------------------------- MODULE MCPollingAdapter ---------------------------
(***************************************************************************)
(* The module TLC's run of PollingAdapter starts from.                     *)
(***************************************************************************)
EXTENDS PollingAdapter
=============================================================================
