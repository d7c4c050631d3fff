------------------------- MODULE NotificationService -------------------------
(***************************************************************************)
(* cmd/notification-server: the HTTP handlers, the dispatcher goroutine    *)
(* and the worker pool of one server process over one database and one     *)
(* broker, with the failures that fall between their steps:                *)
(*                                                                         *)
(*   - a database statement reports an error, applied or not (Answers);    *)
(*   - the process dies and is started again (Restart);                    *)
(*   - the broker drops the connection, or restarts itself                 *)
(*     (ConnectionLost).  The client does not reconnect: the consumers     *)
(*     stop and every publish fails or vanishes until a Restart.           *)
(***************************************************************************)
EXTENDS Ingestion, Dispatcher, WorkerPool

CONSTANTS
  MaxRestarts,  \* bound: process restarts
  MaxConnLosses \* bound: lost broker connections

ASSUME ServiceAssumption == MaxRestarts \in Nat /\ MaxConnLosses \in Nat

VARIABLES
  restarts,     \* process restarts so far
  connLosses    \* broker connections lost so far

faultVars == <<restarts, connLosses>>

vars == <<storeVars, brokerVars, ingestionVars, dispatcherVars, workerVars, faultVars>>

Init ==
  /\ StoreInit
  /\ BrokerInit
  /\ IngestionInit
  /\ DispatcherInit
  /\ WorkerInit
  /\ restarts = 0
  /\ connLosses = 0

-----------------------------------------------------------------------------
(* Steps of the program. *)

ClientSubmits ==
  /\ \E h \in Handler, n \in Notif, e \in Event : Submit(h, n, e)
  /\ UNCHANGED <<dispatcherVars, workerVars, faultVars>>

HandlerRuns(h) ==
  /\ HandlerStep(h)
  /\ UNCHANGED <<dispatcherVars, workerVars, faultVars>>

DispatcherRuns ==
  /\ DispatcherStep
  /\ UNCHANGED <<ingestionVars, workerVars, faultVars>>

WorkerRuns(w) ==
  /\ WorkerStep(w)
  /\ UNCHANGED <<ingestionVars, dispatcherVars, faultVars>>

-----------------------------------------------------------------------------
(* Steps of the environment. *)

RetryExpires ==
  /\ Expire
  /\ UNCHANGED <<storeVars, ingestionVars, dispatcherVars, workerVars, faultVars>>

ClockAdvances ==
  /\ ClockTick
  /\ UNCHANGED <<brokerVars, ingestionVars, dispatcherVars, workerVars, faultVars>>

(* What the broker counts as unacknowledged delivery messages. *)
Unacked == [t \in Task |-> IF conn THEN Held(t) ELSE 0]

ConnectionLost(brokerUp) ==
  /\ conn
  /\ connLosses < MaxConnLosses
  /\ connLosses' = connLosses + 1
  /\ conn' = FALSE
  /\ Requeue(Unacked, brokerUp)
  /\ UNCHANGED <<storeVars, ingestionVars, dispatcherVars, workerVars, restarts>>

Restart ==
  /\ restarts < MaxRestarts
  /\ restarts' = restarts + 1
  /\ conn' = TRUE
  /\ Requeue(Unacked, TRUE)
  /\ IngestionCrash
  /\ DispatcherCrash
  /\ WorkerCrash
  /\ UNCHANGED <<storeVars, connLosses>>

Next ==
  \/ ClientSubmits
  \/ \E h \in Handler : HandlerRuns(h)
  \/ DispatcherRuns
  \/ \E w \in Worker : WorkerRuns(w)
  \/ RetryExpires
  \/ ClockAdvances
  \/ \E brokerUp \in BOOLEAN : ConnectionLost(brokerUp)
  \/ Restart

(***************************************************************************)
(* Every goroutine that can make a call makes it, and the broker expires   *)
(* the message at the head of the retry queue.  Clients need not submit,   *)
(* the clock step is irrelevant to progress, and failures never have to    *)
(* happen (so a Restart after a lost connection is not guaranteed either). *)
(***************************************************************************)
Fairness ==
  /\ \A h \in Handler : WF_vars(HandlerRuns(h))
  /\ WF_vars(DispatcherRuns)
  /\ \A w \in Worker : WF_vars(WorkerRuns(w))
  /\ WF_vars(RetryExpires)

Spec == Init /\ [][Next]_vars /\ Fairness

-----------------------------------------------------------------------------
TypeOK ==
  /\ StoreTypeOK
  /\ BrokerTypeOK
  /\ IngestionTypeOK
  /\ DispatcherTypeOK
  /\ WorkerTypeOK
  /\ restarts \in Nat
  /\ connLosses \in Nat
=============================================================================
