--------------------------- MODULE MCReliableLink ---------------------------
(***************************************************************************)
(* Instances of ReliableLink for TLC: values of the bounds for end 0 and   *)
(* end 1, and of the sizes, which are the code's except that size_t has    *)
(* fewer values.                                                           *)
(***************************************************************************)
EXTENDS ReliableLinkInvariant, TLC

\* A stream of reliable messages one way; one packet back brings the acks.
\* Two messages fill a packet.
StreamPackets == 0 :> 3 @@ 1 :> 1
StreamReliable == 0 :> 3 @@ 1 :> 1
StreamUnreliable == 0 :> 0 @@ 1 :> 0
StreamSizes == 0 :> {658} @@ 1 :> {32}

\* A message that send accepts and no packet holds, and one that follows it.
LargePackets == 0 :> 2 @@ 1 :> 0
LargeReliable == 0 :> 2 @@ 1 :> 0
LargeUnreliable == 0 :> 1 @@ 1 :> 0
LargeSizes == 0 :> {32, 1330} @@ 1 :> {}

\* Messages that leave a packet nearly full.
NearlySizes == 0 :> {659} @@ 1 :> {}

=============================================================================
