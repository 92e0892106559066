-------------------------- MODULE MCEstablishedLink --------------------------
(***************************************************************************)
(* Instances of EstablishedLink for TLC.  Two reliable messages of end 0   *)
(* do not fit one packet, nor does one with an unreliable message; end 1   *)
(* answers.  The bounds count from the start of the connection.            *)
(***************************************************************************)
EXTENDS EstablishedLink, TLC

BothPackets == 0 :> 5 @@ 1 :> 2
BothReliable == 0 :> 5 @@ 1 :> 4
BothUnreliable == 0 :> 2 @@ 1 :> 0
BothSizes == 0 :> {700} @@ 1 :> {40}

\* Neither end's messages fill a packet to within a message header: the
\* theorem about the size of datagrams applies.
ASSUME FillingsExist ==
    /\ Fillings(0, {9, 714})
    /\ Fillings(1, {9 + 45 * k : k \in 0 .. 29})

ASSUME SizesFit == EachFitsAlone

=============================================================================
