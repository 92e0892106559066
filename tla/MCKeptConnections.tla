------------------------- MODULE MCKeptConnections -------------------------
(***************************************************************************)
(* The instance of MCTimedConnections where connections are kept: no       *)
(* server's application talks.                                             *)
(***************************************************************************)
EXTENDS MCTimedConnections, KeptConnections
=============================================================================
