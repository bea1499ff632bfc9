---------------------------- MODULE MCCapture ----------------------------
(* Frames of three and of four bytes, so that one is padded in pcapng and  *)
(* one is not, and one of another station.  A pcap file takes three bytes  *)
(* of a packet, so that it cuts the longer one.                            *)
EXTENDS Capture

MCOurs    == { <<1, 2, 3>>, <<5, 6, 7, 8>> }
MCForeign == { <<9>> }
MCLinks   == {105}
===========================================================================
