-------------------------------- MODULE MCMtu -------------------------------
(* Mtu_discovery has interfaces whose translated fragments are at most    *)
(* four bytes too long; Mtu_veth one where they are eight too long.        *)
EXTENDS PathMtu

MCHosts4 == {"pod4", "err4", "server"}
=============================================================================
