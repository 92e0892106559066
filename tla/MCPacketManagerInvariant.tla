---------------------- MODULE MCPacketManagerInvariant ----------------------
(***************************************************************************)
(* The inductive invariant of PacketManager on a small instance: TLC finds *)
(* it true of every reachable state, PacketManagerProofs proves it.  The   *)
(* bit field of AckBits is checked beside it.                              *)
(***************************************************************************)
EXTENDS PacketManagerInvariant, AckBits

=============================================================================
