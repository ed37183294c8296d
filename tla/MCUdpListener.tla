---------------------------- MODULE MCUdpListener ----------------------------
(***************************************************************************)
(* UdpListener on a buffer of three packets of two bytes: the index goes   *)
(* back to the start after two to four datagrams, so overflows, swaps and  *)
(* empty swaps all interleave.                                             *)
(***************************************************************************)
EXTENDS UdpListener
=============================================================================
