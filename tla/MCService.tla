------------------------------ MODULE MCService ------------------------------
(* Small instances of the notification service for TLC. *)
EXTENDS ServiceRefinement, TLC

CONSTANTS n1, n2, e1, e2, e3, v1, v2, w1, w2, h1, h2

(* One event routed to two vendors. *)
TwoVendors == e1 :> <<v1, v2>>
(* e1 is routed to two vendors, e2 has no rules. *)
TwoVendorsOrNone == e1 :> <<v1, v2>> @@ e2 :> <<>>
(* One event routed to one vendor. *)
OneVendor == e1 :> <<v1>>
(* e1 is routed to two vendors, e2 has no rules, e3 names v1 twice. *)
AllRouteShapes == e1 :> <<v1, v2>> @@ e2 :> <<>> @@ e3 :> <<v1, v1>>

AllPairs == Vendor \X Event
(* v2 has no delivery spec. *)
FirstOnly == {v1} \X Event

(* Two attempts for v1, a policy without attempts for the others. *)
TwoOrNone == [p \in Vendor \X Event |-> IF p[1] = v1 THEN 2 ELSE 0]
TwoAttempts == [p \in Vendor \X Event |-> 2]

WorkerSymmetry == Permutations(Worker)
=============================================================================
