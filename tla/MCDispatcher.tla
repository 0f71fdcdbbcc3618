---------------------------- MODULE MCDispatcher -----------------------------
(***************************************************************************)
(* Values for the constants of Dispatcher in TLC's runs.                   *)
(***************************************************************************)
EXTENDS Dispatcher

MCUndecodable == {2} \cap Msgs

\* Some channel is configured; addresses matter when e-mail is.
MCConfigs ==
  {c \in Config :
     /\ c.channels # {}
     /\ "email" \in c.channels \/ c.addressesParse}

MCBadAddress == {[channels |-> {"email"}, addressesParse |-> FALSE]}
=============================================================================
