------------------------------- MODULE MCUdp --------------------------------
(***************************************************************************)
(* TLC instances of UdpAssociation: two destinations, one socket and two   *)
(* tasks at a time, so that both limits are met, and three packets: enough *)
(* to wait for a creation that fails, to see it replaced, and to be the    *)
(* last to learn of its failure.  UdpProofs covers every other instance of *)
(* the safety properties.                                                  *)
(***************************************************************************)
EXTENDS UdpAssociation
=============================================================================
