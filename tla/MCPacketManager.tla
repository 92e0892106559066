-------------------------- MODULE MCPacketManager --------------------------
(***************************************************************************)
(* Instances of PacketManager for TLC.  The two ends are interchangeable   *)
(* but numbered, so no symmetry set is declared.                           *)
(***************************************************************************)
EXTENDS PacketManager

=============================================================================
