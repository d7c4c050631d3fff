----------------------------- MODULE Dispatcher ------------------------------
(***************************************************************************)
(* The routing dispatcher: one goroutine (main.go) that takes a trigger,   *)
(* runs Dispatcher.Dispatch to its end and takes the next.  It neither     *)
(* acknowledges nor rejects a trigger, whatever Dispatch returns.          *)
(*                                                                         *)
(* Dispatch writes in this order: one row per routed vendor, the status    *)
(* DELIVERING, one delivery message per row.  Nothing undoes the writes    *)
(* before an error.                                                        *)
(***************************************************************************)
EXTENDS Broker

CONSTANT
  Routes        \* vendor ids of the routing rules of each event, in order;
                \* empty: no rules, or the rules failed to load

ASSUME RoutesAssumption == Routes \in [Event -> Seq(Vendor)]

VARIABLES
  dpc,          \* next call of Dispatch
  dn,           \* the notification being dispatched
  di,           \* position in the loop over the vendors or the tasks
  published     \* history: tasks whose message reached the broker

dispatcherVars == <<dpc, dn, di, published>>

DispatcherTypeOK ==
  /\ dpc \in {"idle", "load", "fail", "insert", "status", "publish"}
  /\ dn \in Notif \cup {None}
  /\ di \in Nat
  /\ published \subseteq Task

DispatcherInit ==
  /\ dpc = "idle"
  /\ dn = None
  /\ di = 0
  /\ published = {}

-----------------------------------------------------------------------------
(* The rules of n's event, and the vendors they name. *)
RoutesOf(n) == IF event[n] = None THEN <<>> ELSE Routes[event[n]]

Routed(n) == {RoutesOf(n)[i] : i \in DOMAIN RoutesOf(n)}

(* Dispatch goes on to the call pc at loop position i, or returns. *)
DispatcherGoes(pc, i) ==
  /\ dpc' = pc
  /\ di' = i
  /\ dn' = IF pc = "idle" THEN None ELSE dn

TakeTrigger(n) ==
  /\ dpc = "idle"
  /\ ReceiveTrigger(n)
  /\ dpc' = "load"
  /\ dn' = n
  /\ UNCHANGED <<storeVars, di, published>>

(***************************************************************************)
(* GetNotification and the two decisions taken on the copy it returns:     *)
(* the status must be PENDING, and there must be rules.                    *)
(***************************************************************************)
DispatchLoad ==
  /\ dpc = "load"
  /\ \E r \in ReadAnswer :
       /\ GetNotification(r)
       /\ IF r # "ok" \/ status[dn] # "PENDING" THEN DispatcherGoes("idle", 0)
          ELSE IF RoutesOf(dn) = <<>> THEN DispatcherGoes("fail", 0)
          ELSE DispatcherGoes("insert", 1)
  /\ UNCHANGED <<brokerVars, published>>

(* No rules: the notification is FAILED.  An error is only logged. *)
DispatchFail ==
  /\ dpc = "fail"
  /\ \E r \in DbAnswer : UpdateNotificationStatus(dn, "FAILED", r)
  /\ DispatcherGoes("idle", 0)
  /\ UNCHANGED <<brokerVars, published>>

(* Faulty variant of DispatchInsert: the status DELIVERING is never stored. *)
DispatchInsertNoStatus ==
  LET t == <<dn, RoutesOf(dn)[di]>> IN
  /\ dpc = "insert"
  /\ \E r \in DbAnswer :
       /\ InsertDeliveryTask(t, r)
       /\ IF r # "ok" \/ Conflicts(t) THEN DispatcherGoes("idle", 0)
          ELSE IF di < Len(RoutesOf(dn)) THEN DispatcherGoes("insert", di + 1)
          ELSE DispatcherGoes("publish", 1)
  /\ UNCHANGED <<brokerVars, published>>

(***************************************************************************)
(* The di-th INSERT of CreateDeliveryTasks, which returns at the first     *)
(* error and leaves the earlier rows in place.  An error of its initial    *)
(* SELECT has the effect of the first INSERT answering "fail".             *)
(***************************************************************************)
DispatchInsert ==
  LET t == <<dn, RoutesOf(dn)[di]>> IN
  /\ dpc = "insert"
  /\ \E r \in DbAnswer :
       /\ InsertDeliveryTask(t, r)
       /\ IF r # "ok" \/ Conflicts(t) THEN DispatcherGoes("idle", 0)
          ELSE IF di < Len(RoutesOf(dn)) THEN DispatcherGoes("insert", di + 1)
          ELSE DispatcherGoes("status", 0)
  /\ UNCHANGED <<brokerVars, published>>

DispatchStatus ==
  /\ dpc = "status"
  /\ \E r \in DbAnswer :
       /\ UpdateNotificationStatus(dn, "DELIVERING", r)
       /\ IF r = "ok" THEN DispatcherGoes("publish", 1)
                      ELSE DispatcherGoes("idle", 0)
  /\ UNCHANGED <<brokerVars, published>>

(* Publish the message of the di-th task; return at the first error. *)
DispatchPublish ==
  LET t == <<dn, RoutesOf(dn)[di]>> IN
  /\ dpc = "publish"
  /\ \E ok \in BOOLEAN :
       /\ PublishDelivery(t, ok)
       /\ IF ok /\ di < Len(RoutesOf(dn)) THEN DispatcherGoes("publish", di + 1)
                                          ELSE DispatcherGoes("idle", 0)
  /\ published' = IF conn THEN published \cup {t} ELSE published
  /\ UNCHANGED storeVars

DispatcherCrash ==
  /\ dpc' = "idle"
  /\ dn' = None
  /\ di' = 0
  /\ UNCHANGED published

DispatcherStep ==
  \/ \E n \in Notif : TakeTrigger(n)
  \/ DispatchLoad
  \/ DispatchFail
  \/ DispatchInsert
  \/ DispatchStatus
  \/ DispatchPublish
=============================================================================
