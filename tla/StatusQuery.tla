----------------------------- MODULE StatusQuery -----------------------------
(***************************************************************************)
(* GET /api/v1/notifications/{id} while the service runs: Handler.GetStatus*)
(* reads the notification and, in a second statement, its delivery tasks.  *)
(* The dispatcher and the workers move between the two reads.              *)
(***************************************************************************)
EXTENDS ServiceProperties

CONSTANT
  MaxQueries    \* bound: status queries

ASSUME QueriesAssumption == MaxQueries \in Nat

VARIABLES
  qpc,          \* next read of the request: "idle" or "tasks"
  qn,           \* the notification asked for
  qstatus,      \* notifications.status as the first read returned it
  answer,       \* the last 200 answer, None before the first
  queries       \* requests so far

queryVars == <<qpc, qn, qstatus, answer, queries>>

(* status and delivery_results; whole: no read failed or was cut short. *)
StatusAnswer ==
  [n : Notif, status : NotifStatus, results : SUBSET (Vendor \X TaskStatus),
   whole : BOOLEAN]

QueryTypeOK ==
  /\ qpc \in {"idle", "tasks"}
  /\ qn \in Notif \cup {None}
  /\ qstatus \in NotifStatus
  /\ answer = None \/ answer \in StatusAnswer
  /\ queries \in Nat

QueryInit ==
  /\ Init
  /\ qpc = "idle"
  /\ qn = None
  /\ qstatus = "NONE"
  /\ answer = None
  /\ queries = 0

-----------------------------------------------------------------------------
(* Faulty variant of TaskRows: only successful deliveries are listed. *)
TaskRowsSucceeded(n) ==
  {<<v, taskStatus[<<n, v>>]>> : v \in VendorsWith(n, {"SUCCEEDED"})}

(* The rows of GetDeliveryTasksByNotificationID. *)
TaskRows(n) ==
  {<<v, taskStatus[<<n, v>>]>> : v \in VendorsWith(n, TaskStatus \ {"NONE"})}

(* Faulty variant of GetStatus: the error of GetByID is not looked at. *)
GetStatusErrorIgnored(n) ==
  /\ qpc = "idle"
  /\ queries < MaxQueries
  /\ queries' = queries + 1
  /\ Exists(n)
  /\ \E r \in ReadAnswer :
       /\ GetNotification(r)
       /\ qpc' = "tasks" /\ qn' = n
       /\ qstatus' = IF r = "ok" THEN status[n] ELSE None
  /\ UNCHANGED <<answer, brokerVars, ingestionVars, dispatcherVars, workerVars, faultVars>>

(* GetByID.  Every error answers 404, as an unknown id does. *)
GetStatus(n) ==
  /\ qpc = "idle"
  /\ queries < MaxQueries
  /\ queries' = queries + 1
  /\ Exists(n)
  /\ \E r \in ReadAnswer :
       /\ GetNotification(r)
       /\ IF r = "ok"
          THEN qpc' = "tasks" /\ qn' = n /\ qstatus' = status[n]
          ELSE UNCHANGED <<qpc, qn, qstatus>>
  /\ UNCHANGED <<answer, brokerVars, ingestionVars, dispatcherVars, workerVars, faultVars>>

(***************************************************************************)
(* GetDeliveryTasks.  An error is only logged, and rows.Err() is never     *)
(* looked at: the answer then carries the rows that had arrived.           *)
(***************************************************************************)
GetStatusTasks ==
  /\ qpc = "tasks"
  /\ \E r \in ReadAnswer, rows \in SUBSET TaskRows(qn) :
       /\ Query(r)
       /\ r = "ok" => rows = TaskRows(qn)
       /\ answer' = [n |-> qn, status |-> qstatus, results |-> rows,
                     whole |-> r = "ok"]
  /\ qpc' = "idle"
  /\ qn' = None
  /\ qstatus' = "NONE"
  /\ UNCHANGED <<queries, brokerVars, ingestionVars, dispatcherVars, workerVars, faultVars>>

QueryNext ==
  \/ Next /\ UNCHANGED queryVars
  \/ \E n \in Notif : GetStatus(n)
  \/ GetStatusTasks

QuerySpec == QueryInit /\ [][QueryNext]_<<vars, queryVars>>

-----------------------------------------------------------------------------
(***************************************************************************)
(* An answer with a terminal status shows no unfinished delivery, and      *)
(* unless a read failed it shows every routed vendor, although the rows    *)
(* are read after the status: GetStatus reads in the order that is safe    *)
(* against workers that finish in between.                                 *)
(***************************************************************************)
TerminalAnswerIsComplete ==
  answer # None /\ answer.status \in Terminal =>
    /\ \A row \in answer.results : row[2] \in TaskTerminal
    /\ answer.whole => Routed(answer.n) \subseteq {row[1] : row \in answer.results}

(***************************************************************************)
(* A client that asks again never sees a notification move backwards, nor  *)
(* a vendor disappear or return to an unfinished delivery between two      *)
(* whole answers: no writer undoes what an answer has shown.               *)
(***************************************************************************)
Rank(s) == CASE s = "NONE" -> 0 [] s = "PENDING" -> 1 [] s = "DELIVERING" -> 2
             [] s \in Terminal -> 3

AnswersMoveForward ==
  [][answer # None /\ answer'.n = answer.n =>
       /\ Rank(answer'.status) >= Rank(answer.status)
       /\ answer'.whole => \A row \in answer.results :
            \E later \in answer'.results :
              /\ later[1] = row[1]
              /\ row[2] \in TaskTerminal => later[2] \in TaskTerminal]_answer
=============================================================================
