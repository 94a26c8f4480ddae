--------------------------- MODULE MCAssetDiscovery ---------------------------
(***************************************************************************)
(* Small instances of AssetDiscovery for TLC.                              *)
(***************************************************************************)
EXTENDS AssetDiscovery

NoFaults == {}
AllFaults == FaultKinds
DbErrors == {"dbError"}
=============================================================================
