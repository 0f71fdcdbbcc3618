---------------------------- MODULE MCMqttAdapter ----------------------------
(***************************************************************************)
(* The module TLC's run of MqttAdapter starts from.                        *)
(***************************************************************************)
EXTENDS MqttAdapter
=============================================================================
