-------------------------- MODULE MCBrokerRestart --------------------------
(***************************************************************************)
(* TLC instance of BrokerRestart; the cfg files give the constants.        *)
(***************************************************************************)
EXTENDS BrokerRestart, TLC
=============================================================================
