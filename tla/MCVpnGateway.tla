---------------------------- MODULE MCVpnGateway ----------------------------
(* Instances of VpnGateway for TLC. *)
EXTENDS VpnGateway
=============================================================================
