-------------------------- MODULE MCDiscoveryHistory --------------------------
(***************************************************************************)
(* Small instances of DiscoveryHistory for TLC.                            *)
(***************************************************************************)
EXTENDS DiscoveryHistory

NoFaults == {}
=============================================================================
