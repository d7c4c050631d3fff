---------------------------- MODULE MCStatusQuery ----------------------------
(* A small instance of the service with status queries, for TLC. *)
EXTENDS StatusQuery, TLC

CONSTANTS n1, e1, v1, v2, w1, w2, h1

TwoVendors == e1 :> <<v1, v2>>
AllPairs == Vendor \X Event
OneAttempt == [p \in Vendor \X Event |-> 1]

=============================================================================
