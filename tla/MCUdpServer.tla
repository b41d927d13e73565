----------------------------- MODULE MCUdpServer -----------------------------
(* UdpServer on a small instance. *)
EXTENDS UdpServer, TLC

AnyPeer == Permutations(Peers)
==============================================================================
