---------------------------- MODULE MCHttpAdapter ----------------------------
(***************************************************************************)
(* The module TLC's run of HttpAdapter starts from.                        *)
(***************************************************************************)
EXTENDS HttpAdapter
=============================================================================
