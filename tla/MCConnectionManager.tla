------------------------ MODULE MCConnectionManager ------------------------
(***************************************************************************)
(* Instances of ConnectionManager for TLC.  Servers and clients are model  *)
(* values; two clients of one server are interchangeable in the runs that  *)
(* check safety only.                                                      *)
(***************************************************************************)
EXTENDS ConnectionManagerInvariant, TLC

\* Bounds on the connections created: everyone twice, or only the servers.
Twice == [n \in Node |-> 2]
ServersTwice == [n \in Node |-> IF n \in Servers THEN 2 ELSE 1]

ClientSymmetry == Permutations(Clients)

=============================================================================
