----------------------------- MODULE MCSession -----------------------------
(***************************************************************************)
(* Instances of Session for TLC: one server and one client, one session or *)
(* a session and its successor on the client's side.                       *)
(***************************************************************************)
EXTENDS SessionInvariant

Once == [n \in Node |-> 1]
ClientsTwice == [n \in Node |-> IF n \in Clients THEN 2 ELSE 1]

=============================================================================
