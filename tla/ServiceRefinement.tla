-------------------------- MODULE ServiceRefinement --------------------------
(***************************************************************************)
(* The running service implements the lifecycle: every statement, publish  *)
(* and vendor call, and every failure between them, is a step of           *)
(* NotificationLifecycle or leaves what it describes alone.                *)
(***************************************************************************)
EXTENDS ServiceInvariant

VendorsIn(n, S) == {v \in Vendor : <<n, v>> \in S}

Lifecycle == INSTANCE NotificationLifecycle WITH
  TargetSets <- {{Routes[e][i] : i \in DOMAIN Routes[e]} : e \in Event},
  targets    <- [n \in Notif |-> Routed(n)],
  confirmed  <- [n \in Notif |-> VendorsIn(n, confirmed)],
  finished   <- [n \in Notif |-> VendorsWith(n, TaskTerminal)],
  redelivery <- ~NoRedelivery

(***************************************************************************)
(* The service implements the lifecycle: clients never see a status that   *)
(* skips delivery, a verdict before every routed vendor is dealt with, or  *)
(* a SUCCEEDED that some vendor has not confirmed, whatever interleaving   *)
(* of Submit, Dispatch and ProcessMessage and whatever failure led there.  *)
(* A verdict they have seen changes only after a process or a connection   *)
(* has ended; in the documents' state machine it never does.               *)
(***************************************************************************)
LifecycleRefined == Lifecycle!Spec
=============================================================================
