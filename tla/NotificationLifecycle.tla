------------------------ MODULE NotificationLifecycle ------------------------
(***************************************************************************)
(* What the service promises about one notification, without tables,       *)
(* queues, workers or failures: the status a client can read, the vendors  *)
(* the notification is meant for, the vendors that have confirmed it, and  *)
(* the vendors that the service has finished with.                         *)
(*                                                                         *)
(* ServiceRefinement maps the running service to this specification.  It   *)
(* is not quite the state machine of the detailed design (2.1.1), in which *)
(* a verdict is final: once the broker has handed out a message a second   *)
(* time, the service may replace a verdict by another (Revise).            *)
(***************************************************************************)
EXTENDS FiniteSets

CONSTANTS
  Notif,        \* notification ids
  TargetSets    \* the sets of vendors that an event may be routed to

VARIABLES
  status,       \* what a client reads
  targets,      \* the vendors the notification is meant for
  confirmed,    \* the vendors that have answered 2xx
  finished,     \* the vendors whose delivery is over, one way or the other
  redelivery    \* some connection has ended: messages may be handed out again

lifecycleVars == <<status, targets, confirmed, finished, redelivery>>

Verdict == {"SUCCEEDED", "PARTIALLY_FAILED", "FAILED"}
Started(n) == status[n] = "DELIVERING" \/ status[n] \in Verdict

Init ==
  /\ status = [n \in Notif |-> "NONE"]
  /\ targets = [n \in Notif |-> {}]
  /\ confirmed = [n \in Notif |-> {}]
  /\ finished = [n \in Notif |-> {}]
  /\ redelivery = FALSE

(* The notification becomes known, and with its event its targets. *)
Accept(n) ==
  /\ status[n] = "NONE"
  /\ status' = [status EXCEPT ![n] = "PENDING"]
  /\ \E T \in TargetSets : targets' = [targets EXCEPT ![n] = T]
  /\ UNCHANGED <<confirmed, finished, redelivery>>

Start(n) ==
  /\ status[n] = "PENDING"
  /\ targets[n] # {}
  /\ status' = [status EXCEPT ![n] = "DELIVERING"]
  /\ UNCHANGED <<targets, confirmed, finished, redelivery>>

(* Nobody to deliver to. *)
GiveUp(n) ==
  /\ status[n] = "PENDING"
  /\ targets[n] = {}
  /\ status' = [status EXCEPT ![n] = "FAILED"]
  /\ UNCHANGED <<targets, confirmed, finished, redelivery>>

Confirm(n, v) ==
  /\ Started(n)
  /\ v \in targets[n]
  /\ confirmed' = [confirmed EXCEPT ![n] = @ \cup {v}]
  /\ UNCHANGED <<status, targets, finished, redelivery>>

Finish(n, v) ==
  /\ Started(n)
  /\ v \in targets[n]
  /\ finished' = [finished EXCEPT ![n] = @ \cup {v}]
  /\ UNCHANGED <<status, targets, confirmed, redelivery>>

(***************************************************************************)
(* A verdict may be given only when every target is finished, and          *)
(* SUCCEEDED only when every target has confirmed.                         *)
(***************************************************************************)
Decide(n, s) ==
  /\ targets[n] \subseteq finished[n]
  /\ s = "SUCCEEDED" => targets[n] \subseteq confirmed[n]
  /\ status' = [status EXCEPT ![n] = s]
  /\ UNCHANGED <<targets, confirmed, finished, redelivery>>

Close(n, s) == status[n] = "DELIVERING" /\ Decide(n, s)

(* A verdict is replaced, which only a redelivered message can bring about. *)
Revise(n, s) == redelivery /\ status[n] \in Verdict /\ Decide(n, s)

(* A process or a connection ends, and with it what its workers held. *)
Disturb ==
  /\ redelivery' = TRUE
  /\ UNCHANGED <<status, targets, confirmed, finished>>

Next ==
  \/ \E n \in Notif :
       \/ Accept(n) \/ Start(n) \/ GiveUp(n)
       \/ \E v \in targets[n] : Confirm(n, v) \/ Finish(n, v)
       \/ \E s \in Verdict : Close(n, s) \/ Revise(n, s)
  \/ Disturb

Spec == Init /\ [][Next]_lifecycleVars
=============================================================================
