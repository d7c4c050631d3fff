-------------------------- MODULE NotificationStore --------------------------
(***************************************************************************)
(* The PostgreSQL tables behind internal/db/postgres: `notifications` and  *)
(* `delivery_tasks`.  Every method of the client is one SQL statement in   *)
(* autocommit mode, so each is an atomic step; none of them shares a       *)
(* transaction with another.                                               *)
(*                                                                         *)
(* A notification id stands for its (caller_id, idempotent_key) pair: the  *)
(* pair is unique, the row is never deleted, and caller_id is always       *)
(* "system".  A delivery task is the pair <<notification, vendor>>, which  *)
(* migration 003 makes unique.                                             *)
(***************************************************************************)
EXTENDS Naturals, Sequences, FiniteSets

CONSTANTS
  Notif,        \* notification ids (one per idempotent key)
  Event,        \* registered event types
  Vendor,       \* vendor ids
  None,         \* absent value
  MaxDbFaults   \* bound: statements that report an error

ASSUME StoreAssumption ==
  /\ IsFiniteSet(Vendor)
  /\ None \notin Event \cup Notif \cup (Notif \X Vendor)
  /\ MaxDbFaults \in Nat

VARIABLES
  status,       \* notifications.status, "NONE" when there is no row
  event,        \* notifications.event_type
  sameTick,     \* rows whose created_at still equals the clock's NOW()
  taskStatus,   \* delivery_tasks.status, "NONE" when there is no row
  retryCount,   \* delivery_tasks.retry_count
  dbFaults      \* statements that have reported an error so far

storeVars == <<status, event, sameTick, taskStatus, retryCount, dbFaults>>

Task == Notif \X Vendor

Terminal     == {"SUCCEEDED", "PARTIALLY_FAILED", "FAILED"}
NotifStatus  == {"NONE", "PENDING", "DELIVERING"} \cup Terminal
TaskTerminal == {"SUCCEEDED", "DEAD_LETTER"}
TaskStatus   == {"NONE", "PENDING"} \cup TaskTerminal

StoreTypeOK ==
  /\ status \in [Notif -> NotifStatus]
  /\ event \in [Notif -> Event \cup {None}]
  /\ sameTick \subseteq Notif
  /\ taskStatus \in [Task -> TaskStatus]
  /\ retryCount \in [Task -> Nat]
  /\ dbFaults \in Nat

StoreInit ==
  /\ status = [n \in Notif |-> "NONE"]
  /\ event = [n \in Notif |-> None]
  /\ sameTick = {}
  /\ taskStatus = [t \in Task |-> "NONE"]
  /\ retryCount = [t \in Task |-> 0]
  /\ dbFaults = 0

-----------------------------------------------------------------------------
(***************************************************************************)
(* What a statement answers.  "ok": applied, no error.  "fail": an error   *)
(* and nothing applied.  "unsure": an error although the statement was     *)
(* applied (the connection broke before the answer).                       *)
(***************************************************************************)
DbAnswer == {"ok", "fail", "unsure"}
ReadAnswer == {"ok", "fail"}

Applied(r) == r # "fail"

(* The statement answers r; an error uses up one of the allowed faults. *)
Answers(r) ==
  /\ r = "ok" \/ dbFaults < MaxDbFaults
  /\ dbFaults' = IF r = "ok" THEN dbFaults ELSE dbFaults + 1

-----------------------------------------------------------------------------
(***************************************************************************)
(* UpsertNotification: insert, or on conflict only touch updated_at.       *)
(* `is_new` is computed as created_at = updated_at, so a conflicting       *)
(* upsert in the clock tick of the insert also reports TRUE.               *)
(***************************************************************************)
Exists(n) == status[n] # "NONE"

IsNew(n) == ~Exists(n) \/ n \in sameTick

UpsertNotification(n, e, r) ==
  /\ Answers(r)
  /\ IF Applied(r) /\ ~Exists(n)
     THEN /\ status' = [status EXCEPT ![n] = "PENDING"]
          /\ event' = [event EXCEPT ![n] = e]
          /\ sameTick' = sameTick \cup {n}
     ELSE UNCHANGED <<status, event, sameTick>>
  /\ UNCHANGED <<taskStatus, retryCount>>

(* The database clock leaves the microsecond in which rows were created. *)
ClockTick ==
  /\ sameTick # {}
  /\ sameTick' = {}
  /\ UNCHANGED <<status, event, taskStatus, retryCount, dbFaults>>

UpdateNotificationStatus(n, s, r) ==
  /\ Answers(r)
  /\ status' = IF Applied(r) THEN [status EXCEPT ![n] = s] ELSE status
  /\ UNCHANGED <<event, sameTick, taskStatus, retryCount>>

(***************************************************************************)
(* One INSERT of CreateDeliveryTasks.  It must fail when the row exists:   *)
(* uq_delivery_tasks_notification_vendor.                                  *)
(***************************************************************************)
(* Faulty variant of Conflicts: the constraint of migration 003 is missing. *)
ConflictsNever(t) == FALSE

Conflicts(t) == taskStatus[t] # "NONE"

InsertDeliveryTask(t, r) ==
  /\ Answers(r)
  /\ IF Applied(r) /\ ~Conflicts(t)
     THEN /\ taskStatus' = [taskStatus EXCEPT ![t] = "PENDING"]
          /\ retryCount' = [retryCount EXCEPT ![t] = 0]
     ELSE UNCHANGED <<taskStatus, retryCount>>
  /\ UNCHANGED <<status, event, sameTick>>

UpdateDeliveryTaskStatus(t, s, r) ==
  /\ Answers(r)
  /\ taskStatus' = IF Applied(r) THEN [taskStatus EXCEPT ![t] = s]
                                 ELSE taskStatus
  /\ UNCHANGED <<status, event, sameTick, retryCount>>

(* InsertDeadLetter writes no table of its own: it repeats the status. *)
InsertDeadLetter(t, r) == UpdateDeliveryTaskStatus(t, "DEAD_LETTER", r)

UpdateDeliveryTaskRetry(t, count, r) ==
  /\ Answers(r)
  /\ retryCount' = IF Applied(r) THEN [retryCount EXCEPT ![t] = count]
                                 ELSE retryCount
  /\ UNCHANGED <<status, event, sameTick, taskStatus>>

(* A SELECT changes nothing; the caller looks at the row, or at the counts. *)
Query(r) ==
  /\ Answers(r)
  /\ UNCHANGED <<status, event, sameTick, taskStatus, retryCount>>

GetNotification(r) == Query(r)
GetDeliveryTask(r) == Query(r)
GetDeliveryTaskCounts(r) == Query(r)

-----------------------------------------------------------------------------
(* The three columns of GetDeliveryTaskCounts. *)
VendorsWith(n, S) == {v \in Vendor : taskStatus[<<n, v>>] \in S}

Total(n)      == Cardinality(VendorsWith(n, TaskStatus \ {"NONE"}))
Succeeded(n)  == Cardinality(VendorsWith(n, {"SUCCEEDED"}))
DeadLetter(n) == Cardinality(VendorsWith(n, {"DEAD_LETTER"}))
=============================================================================
