----------------------------- MODULE MCShutdown ------------------------------
(* A small instance of the service with its shutdown for TLC. *)
EXTENDS Shutdown, TLC

CONSTANTS n1, e1, e2, v1, v2, w1, w2, h1

(* e1 is routed to two vendors, e2 has no rules. *)
TwoVendorsOrNone == e1 :> <<v1, v2>> @@ e2 :> <<>>
(* v2 has no delivery spec. *)
FirstOnly == {v1} \X Event
TwoAttempts == [p \in Vendor \X Event |-> 2]
=============================================================================
