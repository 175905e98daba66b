---------------------------- MODULE MCUdpService ----------------------------
(* TLC instances of UdpService.                                            *)
EXTENDS UdpService

CONSTANTS c1, c2
=============================================================================
