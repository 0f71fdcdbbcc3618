----------------------------- MODULE MCPipeline -----------------------------
(***************************************************************************)
(* One process of each service, and an event of each kind: one whose alarm *)
(* is notified, one whose alarm the dispatcher cannot decode, and one that *)
(* is malformed.                                                           *)
(***************************************************************************)
EXTENDS Pipeline

CONSTANTS q1, p1, d1, e1, e2, e3

MCProcesses == {q1, p1, d1}
MCServes ==
  [p \in MCProcesses |->
     CASE p = q1 -> "raw" [] p = p1 -> "normalized" [] p = d1 -> "alarms"]
MCMatching == [e \in {e1, e2, e3} |-> IF e = e1 THEN {1} ELSE IF e = e2 THEN {2} ELSE {}]
MCUndecodable == {<<e2, 2>>}
=============================================================================
