--------------------------- MODULE ClientViewProofs --------------------------
(***************************************************************************)
(* What clients see of the service.                                        *)
(*                                                                         *)
(* The service implements NotificationLifecycle: the initial states map to *)
(* initial states, and every step of the service maps to a step of the     *)
(* lifecycle or changes nothing it speaks of.  ServiceInv provides the     *)
(* guards of the abstract steps, RoutedInv that the vendor of every        *)
(* message is one of the notification's targets, OnceInv that a verdict is *)
(* not replaced before a message has been redelivered.                     *)
(*                                                                         *)
(* Answers of GET /api/v1/notifications/{id}: the two reads of GetStatus   *)
(* may be apart as far as one likes, because what the first one returned   *)
(* is never undone (StoreGrows).                                           *)
(***************************************************************************)
EXTENDS ServiceRefinement, StatusQuery, OnceProofs

LifecycleStep == [Lifecycle!Next]_(Lifecycle!lifecycleVars)

(* The empty tables of a fresh start are the lifecycle's initial state. *)
LEMMA InitRefines == Init => Lifecycle!Init
BY DEF Init, StoreInit, DispatcherInit, WorkerInit, Lifecycle!Init, Routed, RoutesOf,
   VendorsIn, VendorsWith, Task, TaskTerminal, NoRedelivery

(* Steps that write no status, event, task status or confirmation. *)
LEMMA QuietRefines ==
  ASSUME UNCHANGED <<status, event, taskStatus, confirmed>>, UNCHANGED NoRedelivery
  PROVE  LifecycleStep
BY DEF LifecycleStep, Lifecycle!lifecycleVars, Routed, RoutesOf, VendorsIn, VendorsWith

(* The first upsert of a notification accepts it, with the vendors of its event. *)
LEMMA SubmitRefines ==
  ASSUME ServiceInv, NEW n \in Notif, NEW e \in Event, NEW r,
         UpsertNotification(n, e, r), UNCHANGED confirmed, UNCHANGED NoRedelivery
  PROVE  LifecycleStep
<1> USE DEF ServiceInv, TypeOK, StoreTypeOK
<1>1. CASE UNCHANGED <<status, event>>
  BY <1>1, QuietRefines DEF UpsertNotification
<1>2. CASE /\ status[n] = "NONE"
           /\ status' = [status EXCEPT ![n] = "PENDING"]
           /\ event' = [event EXCEPT ![n] = e]
  <2>1. UNCHANGED taskStatus
    BY DEF UpsertNotification
  <2>2. \A m \in Notif : m # n => Routed(m)' = Routed(m)
    BY <1>2 DEF Routed, RoutesOf
  <2>3. PICK T \in {{Routes[x][i] : i \in DOMAIN Routes[x]} : x \in Event} : Routed(n)' = T
    <3>1. event'[n] = e /\ e # None
      BY <1>2, StoreAssumption
    <3>2. Routed(n)' = {Routes[e][i] : i \in DOMAIN Routes[e]}
      BY <3>1 DEF Routed, RoutesOf
    <3> QED
      BY <3>2
  <2>4. [m \in Notif |-> Routed(m)]' = [[m \in Notif |-> Routed(m)] EXCEPT ![n] = T]
    BY <2>2, <2>3
  <2>5. /\ [m \in Notif |-> VendorsIn(m, confirmed)]' = [m \in Notif |-> VendorsIn(m, confirmed)]
        /\ [m \in Notif |-> VendorsWith(m, TaskTerminal)]'
             = [m \in Notif |-> VendorsWith(m, TaskTerminal)]
    BY <2>1 DEF VendorsIn, VendorsWith
  <2>6. Lifecycle!Accept(n)
    BY <1>2, <2>3, <2>4, <2>5, Zenon DEF Lifecycle!Accept
  <2> QED
    BY <2>6 DEF LifecycleStep, Lifecycle!Next
<1> QED
  BY <1>1, <1>2 DEF UpsertNotification, Exists

(* A status that is written becomes visible, and nothing else changes. *)
LEMMA StatusWritten ==
  ASSUME ServiceInv, NEW n \in Notif, NEW s \in {"DELIVERING"} \cup Terminal, NEW r,
         UpdateNotificationStatus(n, s, r), UNCHANGED confirmed
  PROVE  /\ \/ UNCHANGED <<status, event, taskStatus, confirmed>>
            \/ status' = [status EXCEPT ![n] = s]
         /\ [m \in Notif |-> Routed(m)]' = [m \in Notif |-> Routed(m)]
         /\ [m \in Notif |-> VendorsIn(m, confirmed)]' = [m \in Notif |-> VendorsIn(m, confirmed)]
         /\ [m \in Notif |-> VendorsWith(m, TaskTerminal)]'
              = [m \in Notif |-> VendorsWith(m, TaskTerminal)]
BY DEF UpdateNotificationStatus, Routed, RoutesOf, VendorsIn, VendorsWith

(* FAILED without rules: the notification has no targets. *)
LEMMA DispatchFailRefines ==
  ASSUME ServiceInv, DispatchFail, UNCHANGED confirmed, UNCHANGED NoRedelivery
  PROVE  LifecycleStep
<1>1. dn \in Notif /\ status[dn] = "PENDING" /\ Routed(dn) = {}
  BY DEF DispatchFail, ServiceInv, LocalsInv, DispatchInv
<1>2. PICK r \in DbAnswer : UpdateNotificationStatus(dn, "FAILED", r)
  BY DEF DispatchFail
<1>3. status' = [status EXCEPT ![dn] = "FAILED"] => Lifecycle!GiveUp(dn)
  BY <1>1, <1>2, StatusWritten DEF Lifecycle!GiveUp, Terminal
<1> QED
  BY <1>1, <1>2, <1>3, StatusWritten, QuietRefines DEF LifecycleStep, Lifecycle!Next, Terminal

(* DELIVERING starts a notification that has targets. *)
LEMMA DispatchStatusRefines ==
  ASSUME ServiceInv, DispatchStatus, UNCHANGED confirmed, UNCHANGED NoRedelivery
  PROVE  LifecycleStep
<1>1. dn \in Notif /\ status[dn] = "PENDING" /\ RoutesOf(dn) # <<>>
  BY DEF DispatchStatus, ServiceInv, LocalsInv, DispatchInv
<1>2. Routed(dn) # {}
  <2>1. RoutesOf(dn) \in Seq(Vendor)
    BY <1>1, RoutedVendors DEF ServiceInv
  <2>2. 1 \in DOMAIN RoutesOf(dn)
    BY <1>1, <2>1
  <2> QED
    BY <2>2 DEF Routed
<1>3. PICK r \in DbAnswer : UpdateNotificationStatus(dn, "DELIVERING", r)
  BY DEF DispatchStatus
<1>4. status' = [status EXCEPT ![dn] = "DELIVERING"] => Lifecycle!Start(dn)
  BY <1>1, <1>2, <1>3, StatusWritten DEF Lifecycle!Start
<1> QED
  BY <1>1, <1>3, <1>4, StatusWritten, QuietRefines DEF LifecycleStep, Lifecycle!Next

(* An inserted row is not finished. *)
LEMMA DispatchInsertRefines ==
  ASSUME ServiceInv, DispatchInsert, UNCHANGED confirmed, UNCHANGED NoRedelivery
  PROVE  LifecycleStep
<1> USE DEF ServiceInv, TypeOK, StoreTypeOK
<1>1. UNCHANGED <<status, event>>
  BY DEF DispatchInsert, InsertDeliveryTask
<1>2. \A t \in Task : taskStatus'[t] = taskStatus[t] \/
                      {taskStatus[t], taskStatus'[t]} \cap TaskTerminal = {}
  BY DEF DispatchInsert, InsertDeliveryTask, Conflicts, TaskTerminal
<1>3. \A n \in Notif : VendorsWith(n, TaskTerminal)' = VendorsWith(n, TaskTerminal)
  BY <1>2 DEF VendorsWith, Task
<1> QED
  BY <1>1, <1>3 DEF LifecycleStep, Lifecycle!lifecycleVars, Routed, RoutesOf, VendorsIn

(* The task of a busy worker belongs to a started notification's target. *)
LEMMA BusyTarget ==
  ASSUME ServiceInv, RoutedInv, NEW w \in Worker, wpc[w] # "idle"
  PROVE  \E n \in Notif, v \in Vendor :
           wtask[w] = <<n, v>> /\ v \in Routed(n) /\ Lifecycle!Started(n)
<1>1. PICK n \in Notif, v \in Vendor : wtask[w] = <<n, v>>
  BY BusyWorker DEF Task
<1>2. v \in Routed(n) /\ Dispatched(n)
  BY <1>1, BusyWorker DEF RoutedInv
<1>3. Lifecycle!Started(n)
  BY <1>2 DEF Lifecycle!Started, Lifecycle!Verdict, Dispatched, ServiceInv, TypeOK,
     StoreTypeOK, NotifStatus, Terminal
<1> QED
  BY <1>1, <1>2, <1>3

(* A 2xx answer confirms a target. *)
LEMMA CallRefines ==
  ASSUME ServiceInv, RoutedInv, NEW w \in Worker, Call(w), UNCHANGED NoRedelivery
  PROVE  LifecycleStep
<1>1. UNCHANGED <<status, event, taskStatus>>
  BY DEF Call, storeVars
<1>2. wpc[w] # "idle"
  BY DEF Call
<1>3. PICK n \in Notif, v \in Vendor :
        wtask[w] = <<n, v>> /\ v \in Routed(n) /\ Lifecycle!Started(n)
  BY <1>2, BusyTarget
<1>4. CASE confirmed' = confirmed \cup {<<n, v>>}
  <2>1. \A m \in Notif : VendorsIn(m, confirmed)' =
          IF m = n THEN VendorsIn(m, confirmed) \cup {v} ELSE VendorsIn(m, confirmed)
    BY <1>3, <1>4 DEF VendorsIn
  <2>2. [m \in Notif |-> VendorsIn(m, confirmed)]' =
          [[m \in Notif |-> VendorsIn(m, confirmed)] EXCEPT ![n] = @ \cup {v}]
    BY <2>1
  <2>3. /\ [m \in Notif |-> Routed(m)]' = [m \in Notif |-> Routed(m)]
        /\ [m \in Notif |-> VendorsWith(m, TaskTerminal)]'
             = [m \in Notif |-> VendorsWith(m, TaskTerminal)]
    BY <1>1 DEF Routed, RoutesOf, VendorsWith
  <2>4. Lifecycle!Confirm(n, v)
    BY <1>1, <1>3, <2>2, <2>3 DEF Lifecycle!Confirm
  <2> QED
    BY <1>3, <2>4 DEF LifecycleStep, Lifecycle!Next
<1> QED
  BY <1>1, <1>3, <1>4, QuietRefines DEF Call

(* Storing SUCCEEDED or DEAD_LETTER finishes a target, possibly again. *)
LEMMA FinishRefines ==
  ASSUME ServiceInv, RoutedInv, NEW w \in Worker, wpc[w] # "idle",
         NEW s \in TaskTerminal, NEW r,
         UpdateDeliveryTaskStatus(wtask[w], s, r), UNCHANGED confirmed, UNCHANGED NoRedelivery
  PROVE  LifecycleStep
<1> USE DEF ServiceInv, TypeOK, StoreTypeOK
<1>1. UNCHANGED <<status, event>>
  BY DEF UpdateDeliveryTaskStatus
<1>2. PICK n \in Notif, v \in Vendor :
        wtask[w] = <<n, v>> /\ v \in Routed(n) /\ Lifecycle!Started(n)
  BY BusyTarget
<1>3. CASE taskStatus' = [taskStatus EXCEPT ![<<n, v>>] = s]
  <2>1. \A m \in Notif : VendorsWith(m, TaskTerminal)' =
          IF m = n THEN VendorsWith(m, TaskTerminal) \cup {v} ELSE VendorsWith(m, TaskTerminal)
    BY <1>2, <1>3 DEF VendorsWith, Task
  <2>2. [m \in Notif |-> VendorsWith(m, TaskTerminal)]' =
          [[m \in Notif |-> VendorsWith(m, TaskTerminal)] EXCEPT ![n] = @ \cup {v}]
    BY <2>1
  <2>3. /\ [m \in Notif |-> Routed(m)]' = [m \in Notif |-> Routed(m)]
        /\ [m \in Notif |-> VendorsIn(m, confirmed)]' = [m \in Notif |-> VendorsIn(m, confirmed)]
    BY <1>1 DEF Routed, RoutesOf, VendorsIn
  <2>4. Lifecycle!Finish(n, v)
    BY <1>1, <1>2, <2>2, <2>3 DEF Lifecycle!Finish
  <2> QED
    BY <1>2, <2>4 DEF LifecycleStep, Lifecycle!Next
<1> QED
  BY <1>1, <1>2, <1>3, QuietRefines DEF UpdateDeliveryTaskStatus

(***************************************************************************)
(* The roll-up closes the notification: the verdict that was chosen from   *)
(* earlier counts is still one the lifecycle allows when it is written.    *)
(* Where it finds another verdict, some message has been redelivered.      *)
(***************************************************************************)
LEMMA MarkRefines ==
  ASSUME ServiceInv, RoutedInv, OnceInv, NEW w \in Worker, Mark(w), UNCHANGED NoRedelivery
  PROVE  LifecycleStep
<1>1. wpc[w] # "idle" /\ UNCHANGED confirmed
  BY DEF Mark, WorkerDbFrame
<1>2. PICK n \in Notif, v \in Vendor :
        wtask[w] = <<n, v>> /\ v \in Routed(n) /\ Lifecycle!Started(n)
  BY <1>1, BusyTarget
<1>3. /\ wmark[w] \in Terminal /\ AllDone(n)
      /\ wmark[w] = "SUCCEEDED" => TasksOf(n) \subseteq confirmed
  BY <1>2 DEF Mark, ServiceInv, WorkersInv, WorkerKnows
<1>4. PICK r \in DbAnswer : UpdateNotificationStatus(n, wmark[w], r)
  BY <1>2 DEF Mark
<1>5. Routed(n) \subseteq Vendor
  BY RoutedVendors DEF ServiceInv
<1>6. Routed(n) \subseteq VendorsWith(n, TaskTerminal)
  BY <1>3, <1>5 DEF AllDone, VendorsWith
<1>7. wmark[w] = "SUCCEEDED" => Routed(n) \subseteq VendorsIn(n, confirmed)
  BY <1>3, <1>5 DEF TasksOf, VendorsIn
<1>8. CASE status' = [status EXCEPT ![n] = wmark[w]]
  <2>1. Lifecycle!Decide(n, wmark[w]) /\ wmark[w] \in Lifecycle!Verdict
    BY <1>1, <1>2, <1>3, <1>4, <1>6, <1>7, <1>8, StatusWritten
       DEF Lifecycle!Decide, Lifecycle!Verdict, Terminal
  <2>2. CASE status[n] = "DELIVERING"
    BY <2>1, <2>2 DEF Lifecycle!Close, LifecycleStep, Lifecycle!Next
  <2>3. CASE status[n] \in Terminal /\ ~NoRedelivery
    <3>1. Lifecycle!Revise(n, wmark[w])
      BY <2>1, <2>3 DEF Lifecycle!Revise, Lifecycle!Verdict, Terminal
    <3> QED
      BY <2>1, <3>1 DEF LifecycleStep, Lifecycle!Next
  <2>4. CASE status[n] \in Terminal /\ NoRedelivery
    <3>1. status'[n] = status[n]
      BY <2>4, RollUpRepeats DEF OnceInv, Undisturbed
    <3>2. UNCHANGED status
      BY <1>8, <3>1 DEF ServiceInv, TypeOK, StoreTypeOK
    <3> QED
      BY <1>1, <1>4, <3>2, QuietRefines DEF UpdateNotificationStatus
  <2> QED
    BY <1>2, <2>2, <2>3, <2>4 DEF Lifecycle!Started, Lifecycle!Verdict, Terminal
<1> QED
  BY <1>1, <1>3, <1>4, <1>8, StatusWritten, QuietRefines

(* The end of a process or of a connection changes nothing else that clients see. *)
LEMMA DisturbRefines ==
  ASSUME UNCHANGED <<status, event, taskStatus, confirmed>>, ~NoRedelivery'
  PROVE  LifecycleStep
<1>1. Lifecycle!Disturb
  BY DEF Lifecycle!Disturb, Routed, RoutesOf, VendorsIn, VendorsWith
<1> QED
  BY <1>1 DEF LifecycleStep, Lifecycle!Next

-----------------------------------------------------------------------------
(* Every step of the service is a step of the lifecycle, or stutters. *)
LEMMA NextRefines ==
  ASSUME ServiceInv, RoutedInv, OnceInv, [Next]_vars
  PROVE  LifecycleStep
<1> USE DEF storeVars, workerVars, GetNotification, GetDeliveryTask, GetDeliveryTaskCounts,
            Query
<1>0. UNCHANGED faultVars => UNCHANGED NoRedelivery
  BY DEF faultVars, NoRedelivery
<1>1. CASE ClientSubmits
  BY <1>0, <1>1, SubmitRefines DEF ClientSubmits, Submit
<1>2. CASE \E h \in Handler : HandlerRuns(h)
  BY <1>0, <1>2, QuietRefines DEF HandlerRuns, HandlerStep, SubmitPublish, SubmitReply
<1>3. CASE DispatcherRuns
  BY <1>0, <1>3, QuietRefines, DispatchFailRefines, DispatchInsertRefines, DispatchStatusRefines
     DEF DispatcherRuns, DispatcherStep, TakeTrigger, DispatchLoad, DispatchPublish
<1>4. ASSUME NEW w \in Worker, WorkerRuns(w)
      PROVE  LifecycleStep
  <2>0. UNCHANGED NoRedelivery
    BY <1>0, <1>4 DEF WorkerRuns
  <2>1. CASE Succeed(w) \/ Dead(w) \/ Letter(w)
    BY <2>0, <2>1, FinishRefines
       DEF Succeed, Dead, Letter, InsertDeadLetter, WorkerDbFrame, TaskTerminal
  <2>2. CASE Call(w) \/ Mark(w)
    BY <2>0, <2>2, CallRefines, MarkRefines
  <2> QED
    BY <1>4, <2>0, <2>1, <2>2, QuietRefines
       DEF WorkerRuns, WorkerStep, Receive, Fetch, Retry, Delay, Count, WorkerAck, WorkerNack,
           WorkerForgets, WorkerDbFrame, UpdateDeliveryTaskRetry
<1>5. CASE RetryExpires \/ ClockAdvances
  BY <1>0, <1>5, QuietRefines DEF RetryExpires, ClockAdvances, ClockTick
<1>6. CASE Restart \/ \E brokerUp \in BOOLEAN : ConnectionLost(brokerUp)
  <2>1. ~NoRedelivery'
    BY <1>6, RedeliveryStays DEF ServiceInv
  <2> QED
    BY <1>6, <2>1, DisturbRefines DEF Restart, WorkerCrash, ConnectionLost
<1>7. CASE UNCHANGED vars
  BY <1>0, <1>7, QuietRefines DEF vars
<1> QED
  BY <1>1, <1>2, <1>3, <1>4, <1>5, <1>6, <1>7 DEF Next

(***************************************************************************)
(* The service implements the lifecycle for any number of notifications,   *)
(* vendors, rules, workers, requests and failures: a client never reads a  *)
(* status that skips delivery, a verdict before every target is dealt      *)
(* with, or a SUCCEEDED that some target has not confirmed, and a verdict  *)
(* that was read changes only after a process or a connection has ended.   *)
(***************************************************************************)
THEOREM Refinement == Spec => LifecycleRefined
<1>1. Init => Lifecycle!Init
  BY InitRefines
<1>2. ServiceInv /\ RoutedInv /\ OnceInv /\ [Next]_vars
        => [Lifecycle!Next]_(Lifecycle!lifecycleVars)
  BY NextRefines DEF LifecycleStep
<1> QED
  BY <1>1, <1>2, OnceInvariance, PTL DEF Spec, LifecycleRefined, Lifecycle!Spec

-----------------------------------------------------------------------------
(* The two reads of a status query. *)

(* What the first read returned still holds of the tables. *)
ReadInv ==
  qpc = "tasks" =>
    /\ qn \in Notif /\ status[qn] # "NONE"
    /\ Rank(qstatus) <= Rank(status[qn])
    /\ qstatus \in Terminal => AllDone(qn)

(* So does what an answer has shown, also when the next request has read. *)
AnswerInv ==
  answer # None =>
    /\ status[answer.n] # "NONE"
    /\ Rank(answer.status) <= Rank(status[answer.n])
    /\ qpc = "tasks" /\ qn = answer.n => Rank(answer.status) <= Rank(qstatus)
    /\ \A row \in answer.results :
         /\ taskStatus[<<answer.n, row[1]>>] # "NONE"
         /\ row[2] \in TaskTerminal => taskStatus[<<answer.n, row[1]>>] \in TaskTerminal

QueryInv ==
  /\ ServiceInv
  /\ RoutedInv
  /\ QueryTypeOK
  /\ ReadInv
  /\ AnswerInv
  /\ TerminalAnswerIsComplete

-----------------------------------------------------------------------------
LEMMA RankType ==
  ASSUME NEW s \in NotifStatus
  PROVE  Rank(s) \in Nat
BY DEF Rank, NotifStatus, Terminal

(* No step of the service moves a notification backwards. *)
LEMMA RankGrows ==
  ASSUME ServiceInv, [Next]_vars, NEW n \in Notif
  PROVE  Rank(status[n]) <= Rank(status'[n])
<1>1. status[n] \in NotifStatus
  BY DEF ServiceInv, TypeOK, StoreTypeOK
<1>2. CASE status'[n] = status[n]
  <2>1. Rank(status[n]) <= Rank(status[n])
    BY <1>1, RankType
  <2> QED
    BY <1>2, <2>1
<1>3. CASE status'[n] # status[n]
  <2>1. <<status[n], status'[n]>> \in StatusMoves
    BY <1>3, StatusStep
  <2> QED
    BY <2>1 DEF StatusMoves, StatusEdges, Rank, Terminal
<1> QED
  BY <1>2, <1>3

(* A read changes nothing that the invariants of the service speak of. *)
LEMMA ReadsAreHarmless ==
  ASSUME ServiceInv, RoutedInv, NEW r, Query(r),
         UNCHANGED <<brokerVars, ingestionVars, dispatcherVars, workerVars, faultVars>>
  PROVE  ServiceInv' /\ RoutedInv' /\ StoreGrows
<1> USE DEF ServiceInv
<1>1. StoreTypeOK' /\ StoreGrows /\ UNCHANGED <<status, event, taskStatus>>
  BY QueryEffect DEF TypeOK
<1>2. UNCHANGED <<hpc, hn, submits, accepted, dpc, dn, di, published, workerVars, confirmed,
                  restarts, connLosses, conn, trigReady, trigUnacked, deliveryQ, retryQ>>
  BY DEF ingestionVars, dispatcherVars, faultVars, workerVars, brokerVars
<1>3. TypeOK'
  BY <1>1, <1>2 DEF TypeOK, BrokerTypeOK, IngestionTypeOK, DispatcherTypeOK, WorkerTypeOK,
     workerVars
<1>4. LocalsInv' /\ DispatchInv' /\ \A u \in published' : Dispatched(u[1])'
  BY <1>1, <1>2, DispatchStays DEF LocalsInv
<1>5. MessageInv'
  BY <1>2, <1>4 DEF MessageInv
<1>6. ConfirmInv' /\ WorkersInv' /\ NoFalseSuccess' /\ NoPrematureTerminal'
  BY <1>1, <1>2, WorkersStay, VerdictsStay
<1>7. NoSilentLoss'
  BY <1>1, <1>2 DEF NoSilentLoss, Live, InRetryQ, Holds, workerVars
<1>8. RoutedInv'
  BY <1>1, <1>2, RoutesStay
<1> QED
  BY <1>1, <1>3, <1>4, <1>5, <1>6, <1>7, <1>8

(* What was read or answered survives a step that undoes nothing. *)
LEMMA ServedStays ==
  ASSUME QueryInv, StoreGrows, UNCHANGED queryVars,
         \A n \in Notif : Rank(status[n]) <= Rank(status'[n]) /\ status'[n] \in NotifStatus
  PROVE  QueryTypeOK' /\ ReadInv' /\ AnswerInv' /\ TerminalAnswerIsComplete'
<1> USE DEF QueryInv
<1>0. qpc' = qpc /\ qn' = qn /\ qstatus' = qstatus /\ answer' = answer /\ queries' = queries
  BY DEF queryVars
<1>1. \A n \in Notif : Rank(status[n]) \in Nat /\ Rank(status'[n]) \in Nat
  BY RankType DEF ServiceInv, TypeOK, StoreTypeOK
<1>2. QueryTypeOK'
  BY <1>0 DEF QueryTypeOK
<1>3. ReadInv'
  <2> SUFFICES ASSUME qpc = "tasks"
               PROVE  /\ status'[qn] # "NONE" /\ Rank(qstatus) <= Rank(status'[qn])
                      /\ qstatus \in Terminal => AllDone(qn)'
    BY <1>0 DEF ReadInv
  <2>1. PICK n \in Notif : n = qn /\ status[n] # "NONE" /\ Rank(qstatus) <= Rank(status[n])
                           /\ (qstatus \in Terminal => AllDone(n))
    BY DEF ReadInv
  <2>2. Rank(qstatus) \in Nat
    BY RankType DEF QueryTypeOK
  <2>3. status'[n] # "NONE" /\ (AllDone(n) => AllDone(n)')
    BY <2>1, GrowthKeeps DEF ServiceInv, StoreGrows
  <2>4. Rank(qstatus) <= Rank(status'[n])
    BY <1>1, <2>1, <2>2
  <2> QED
    BY <1>0, <2>1, <2>3, <2>4 DEF AllDone
<1>4. ASSUME answer # None
      PROVE  /\ AnswerInv' /\ TerminalAnswerIsComplete'
  <2>1. PICK n \in Notif : n = answer.n /\ answer \in StatusAnswer /\ status[n] # "NONE"
    BY <1>4 DEF QueryTypeOK, StatusAnswer, AnswerInv
  <2>2. Rank(answer.status) \in Nat
    BY <2>1, RankType DEF StatusAnswer
  <2>3. Rank(answer.status) <= Rank(status'[n])
    BY <1>1, <1>4, <2>1, <2>2 DEF AnswerInv
  <2>4. \A row \in answer.results : <<n, row[1]>> \in Task
    BY <2>1 DEF StatusAnswer, Task
  <2>5. \A row \in answer.results :
          /\ taskStatus'[<<n, row[1]>>] # "NONE"
          /\ row[2] \in TaskTerminal => taskStatus'[<<n, row[1]>>] \in TaskTerminal
    BY <1>4, <2>1, <2>4 DEF AnswerInv, StoreGrows
  <2>6. status'[n] # "NONE" /\ Routed(n)' = Routed(n)
    BY <2>1, GrowthKeeps DEF ServiceInv, StoreGrows
  <2>7. AnswerInv'
    BY <1>0, <1>4, <2>1, <2>3, <2>5, <2>6 DEF AnswerInv
  <2>8. TerminalAnswerIsComplete'
    BY <1>0, <1>4, <2>1, <2>6 DEF TerminalAnswerIsComplete, Routed, RoutesOf
  <2> QED
    BY <2>7, <2>8
<1>5. answer = None => AnswerInv' /\ TerminalAnswerIsComplete'
  BY <1>0 DEF AnswerInv, TerminalAnswerIsComplete
<1> QED
  BY <1>2, <1>3, <1>4, <1>5

-----------------------------------------------------------------------------
(* The first read: from here on the answer's status is fixed. *)
LEMMA GetStatusKeeps ==
  ASSUME QueryInv, NEW n \in Notif, GetStatus(n)
  PROVE  QueryInv'
<1> USE DEF QueryInv
<1>1. PICK r \in ReadAnswer :
        /\ Query(r)
        /\ IF r = "ok" THEN qpc' = "tasks" /\ qn' = n /\ qstatus' = status[n]
                       ELSE UNCHANGED <<qpc, qn, qstatus>>
  BY DEF GetStatus, GetNotification
<1>2. ServiceInv' /\ RoutedInv' /\ StoreGrows
  BY <1>1, ReadsAreHarmless DEF GetStatus
<1>3. /\ UNCHANGED <<status, event, taskStatus, answer>>
      /\ status[n] # "NONE" /\ queries \in Nat /\ queries' = queries + 1
  BY <1>1 DEF GetStatus, Query, Exists, QueryTypeOK
<1>4. status[n] \in NotifStatus /\ Rank(status[n]) \in Nat
  BY RankType DEF ServiceInv, TypeOK, StoreTypeOK
<1>5. QueryTypeOK'
  BY <1>1, <1>3, <1>4 DEF QueryTypeOK
<1>6. ReadInv'
  <2>1. Rank(status[n]) <= Rank(status[n])
    BY <1>4
  <2>2. \A m \in Notif : status[m] \in Terminal => AllDone(m)
    BY DEF ServiceInv, NoPrematureTerminal, AllDone, TasksOf
  <2>3. \A m \in Notif : AllDone(m)' <=> AllDone(m)
    BY <1>3 DEF AllDone, Routed, RoutesOf
  <2>4. CASE r = "ok"
    <3>1. qpc' = "tasks" /\ qn' = n /\ qstatus' = status[n]
      BY <1>1, <2>4
    <3>2. status[n] \in Terminal => AllDone(n)'
      BY <2>2, <2>3
    <3> QED
      BY <1>3, <2>1, <3>1, <3>2 DEF ReadInv, AllDone
  <2>5. CASE r # "ok"
    <3>1. qpc' = qpc /\ qn' = qn /\ qstatus' = qstatus
      BY <1>1, <2>5
    <3> QED
      BY <1>3, <2>3, <3>1 DEF ReadInv, AllDone, Routed, RoutesOf
  <2> QED
    BY <2>4, <2>5
<1>7. AnswerInv'
  BY <1>1, <1>3 DEF AnswerInv
<1>8. TerminalAnswerIsComplete'
  BY <1>3 DEF TerminalAnswerIsComplete, Routed, RoutesOf
<1> QED
  BY <1>2, <1>5, <1>6, <1>7, <1>8

(* The rows that a request reads are those of routed vendors. *)
LEMMA TaskRowsAre ==
  ASSUME ServiceInv, RoutedInv, NEW n \in Notif
  PROVE  /\ TaskRows(n) \subseteq Vendor \X TaskStatus
         /\ \A row \in TaskRows(n) :
              /\ row[1] \in Routed(n) /\ row[2] = taskStatus[<<n, row[1]>>]
              /\ taskStatus[<<n, row[1]>>] # "NONE"
         /\ \A v \in Vendor : taskStatus[<<n, v>>] # "NONE" =>
              <<v, taskStatus[<<n, v>>]>> \in TaskRows(n)
<1>1. \A v \in Vendor : <<n, v>> \in Task /\ taskStatus[<<n, v>>] \in TaskStatus
  BY DEF Task, ServiceInv, TypeOK, StoreTypeOK
<1>2. \A v \in Vendor : taskStatus[<<n, v>>] # "NONE" => v \in Routed(n)
  BY <1>1 DEF RoutedInv
<1>3. ASSUME NEW row \in TaskRows(n)
      PROVE  /\ row \in Vendor \X TaskStatus
             /\ row[1] \in Routed(n) /\ row[2] = taskStatus[<<n, row[1]>>]
             /\ taskStatus[<<n, row[1]>>] # "NONE"
  <2>1. PICK v \in Vendor : row = <<v, taskStatus[<<n, v>>]>> /\ taskStatus[<<n, v>>] # "NONE"
    BY <1>3 DEF TaskRows, VendorsWith
  <2>2. row[1] = v /\ row[2] = taskStatus[<<n, v>>]
    BY <2>1
  <2> QED
    BY <1>1, <1>2, <2>1, <2>2
<1>4. \A v \in Vendor : taskStatus[<<n, v>>] # "NONE" =>
        <<v, taskStatus[<<n, v>>]>> \in TaskRows(n)
  BY <1>1 DEF TaskRows, VendorsWith
<1> QED
  BY <1>3, <1>4

(* What GetStatusTasks answers, and what it is made of. *)
LEMMA AnswerMade ==
  ASSUME QueryInv, GetStatusTasks
  PROVE  /\ qpc = "tasks" /\ qn \in Notif /\ qstatus \in NotifStatus
         /\ \E rows \in SUBSET TaskRows(qn), whole \in BOOLEAN :
              /\ answer' = [n |-> qn, status |-> qstatus, results |-> rows, whole |-> whole]
              /\ whole => rows = TaskRows(qn)
         /\ \E r \in ReadAnswer : Query(r)
<1>1. PICK r \in ReadAnswer, rows \in SUBSET TaskRows(qn) :
        /\ Query(r) /\ (r = "ok" => rows = TaskRows(qn))
        /\ answer' = [n |-> qn, status |-> qstatus, results |-> rows, whole |-> r = "ok"]
  BY DEF GetStatusTasks
<1>2. PICK whole \in BOOLEAN : whole = (r = "ok")
  OBVIOUS
<1>3. /\ answer' = [n |-> qn, status |-> qstatus, results |-> rows, whole |-> whole]
      /\ whole => rows = TaskRows(qn)
  BY <1>1, <1>2
<1>4. qpc = "tasks" /\ qn \in Notif /\ qstatus \in NotifStatus
  BY DEF QueryInv, GetStatusTasks, ReadInv, QueryTypeOK
<1> QED
  BY <1>1, <1>3, <1>4

(* The second read. *)
LEMMA GetStatusTasksKeeps ==
  ASSUME QueryInv, GetStatusTasks
  PROVE  QueryInv'
<1> USE DEF QueryInv
<1>1. PICK n \in Notif : /\ n = qn /\ status[n] # "NONE" /\ Rank(qstatus) <= Rank(status[n])
                         /\ qstatus \in Terminal => AllDone(n)
  BY AnswerMade DEF ReadInv
<1>2. PICK rows \in SUBSET TaskRows(n), whole \in BOOLEAN :
        /\ answer' = [n |-> n, status |-> qstatus, results |-> rows, whole |-> whole]
        /\ whole => rows = TaskRows(n)
  BY <1>1, AnswerMade
<1>3. ServiceInv' /\ RoutedInv'
  BY AnswerMade, ReadsAreHarmless DEF GetStatusTasks
<1>4. UNCHANGED <<status, event, taskStatus, queries>>
      /\ qpc' = "idle" /\ qn' = None /\ qstatus' = "NONE"
  BY AnswerMade DEF GetStatusTasks, Query
<1>5. /\ rows \subseteq Vendor \X TaskStatus
      /\ \A row \in rows : /\ row[1] \in Routed(n) /\ row[2] = taskStatus[<<n, row[1]>>]
                           /\ taskStatus[<<n, row[1]>>] # "NONE"
  BY TaskRowsAre
<1>6. QueryTypeOK'
  <2>1. answer' \in StatusAnswer
    BY <1>2, <1>5, AnswerMade DEF StatusAnswer
  <2> QED
    BY <1>4, <2>1 DEF QueryTypeOK, NotifStatus
<1>7. ReadInv'
  BY <1>4 DEF ReadInv
<1>8. answer'.n = n /\ answer'.status = qstatus /\ answer'.results = rows /\ answer'.whole = whole
  BY <1>2
<1>9. AnswerInv'
  BY <1>1, <1>4, <1>5, <1>8 DEF AnswerInv
<1>10. TerminalAnswerIsComplete'
  <2>1. Routed(n)' = Routed(n)
    BY <1>4 DEF Routed, RoutesOf
  <2>2. ASSUME qstatus \in Terminal
        PROVE  /\ \A row \in rows : row[2] \in TaskTerminal
               /\ whole => Routed(n) \subseteq {row[1] : row \in rows}
    <3>1. \A v \in Routed(n) : taskStatus[<<n, v>>] \in TaskTerminal /\ v \in Vendor
      BY <1>1, <2>2, RoutedVendors DEF AllDone, ServiceInv
    <3>2. \A row \in rows : row[2] \in TaskTerminal
      BY <1>5, <3>1
    <3>3. ASSUME whole, NEW v \in Routed(n)
          PROVE  v \in {row[1] : row \in rows}
      <4>1. <<v, taskStatus[<<n, v>>]>> \in rows
        BY <1>2, <3>1, <3>3, TaskRowsAre DEF TaskTerminal
      <4>2. <<v, taskStatus[<<n, v>>]>>[1] = v
        OBVIOUS
      <4> QED
        BY <4>1, <4>2
    <3> QED
      BY <3>2, <3>3
  <2> QED
    BY <1>8, <2>1, <2>2 DEF TerminalAnswerIsComplete, Routed, RoutesOf
<1> QED
  BY <1>3, <1>6, <1>7, <1>9, <1>10

LEMMA QueryInitInv == QueryInit => QueryInv
<1> SUFFICES ASSUME QueryInit PROVE QueryInv
  OBVIOUS
<1>1. ServiceInv
  BY InitInv DEF QueryInit
<1>2. RoutedInv
  BY DEF QueryInit, Init, StoreInit, DispatcherInit, RoutedInv
<1>3. QueryTypeOK /\ ReadInv /\ AnswerInv /\ TerminalAnswerIsComplete
  BY DEF QueryInit, QueryTypeOK, NotifStatus, ReadInv, AnswerInv, TerminalAnswerIsComplete
<1> QED
  BY <1>1, <1>2, <1>3 DEF QueryInv

(* A step of the service, or none, while a request may be between its reads. *)
LEMMA ServiceStepKeeps ==
  ASSUME QueryInv, [Next]_vars, UNCHANGED queryVars
  PROVE  QueryInv'
<1>1. ServiceInv' /\ RoutedInv' /\ StoreGrows
  BY NextKeepsInv, NextKeepsRoutes, NextGrows DEF QueryInv
<1>2. \A n \in Notif : Rank(status[n]) <= Rank(status'[n]) /\ status'[n] \in NotifStatus
  BY <1>1, RankGrows DEF QueryInv, ServiceInv, TypeOK, StoreTypeOK
<1>3. QueryTypeOK' /\ ReadInv' /\ AnswerInv' /\ TerminalAnswerIsComplete'
  BY <1>1, <1>2, ServedStays
<1> QED
  BY <1>1, <1>3 DEF QueryInv

LEMMA QueryInvariance == QuerySpec => []QueryInv
<1>1. ASSUME QueryInv, [QueryNext]_<<vars, queryVars>>
      PROVE  QueryInv'
  <2>1. CASE [Next]_vars /\ UNCHANGED queryVars
    BY <1>1, <2>1, ServiceStepKeeps
  <2>2. CASE \E n \in Notif : GetStatus(n)
    BY <1>1, <2>2, GetStatusKeeps
  <2>3. CASE GetStatusTasks
    BY <1>1, <2>3, GetStatusTasksKeeps
  <2> QED
    BY <1>1, <2>1, <2>2, <2>3 DEF QueryNext
<1> QED
  BY <1>1, QueryInitInv, PTL DEF QuerySpec

-----------------------------------------------------------------------------
(* The request's locals and its answer have their types. *)
THEOREM QueryTypeCorrect == QuerySpec => []QueryTypeOK
<1>1. QueryInv => QueryTypeOK
  BY DEF QueryInv
<1> QED
  BY <1>1, QueryInvariance, PTL

(***************************************************************************)
(* A terminal answer shows no unfinished delivery and, unless a read       *)
(* failed, every routed vendor, however far apart the two reads of         *)
(* GetStatus are and whatever fails between them.                          *)
(***************************************************************************)
THEOREM AnswersAreComplete == QuerySpec => []TerminalAnswerIsComplete
<1>1. QueryInv => TerminalAnswerIsComplete
  BY DEF QueryInv
<1> QED
  BY <1>1, QueryInvariance, PTL

(***************************************************************************)
(* Answers of consecutive requests never move a notification backwards,    *)
(* and a whole answer drops no vendor and reopens no delivery that an      *)
(* earlier one has shown.                                                  *)
(***************************************************************************)
THEOREM AnswersProgress == QuerySpec => AnswersMoveForward
<1> DEFINE Forward ==
      answer # None /\ answer'.n = answer.n =>
        /\ Rank(answer'.status) >= Rank(answer.status)
        /\ answer'.whole => \A row \in answer.results :
             \E later \in answer'.results :
               /\ later[1] = row[1]
               /\ row[2] \in TaskTerminal => later[2] \in TaskTerminal
<1>1. ASSUME QueryInv, GetStatusTasks, answer # None, answer'.n = answer.n
      PROVE  Forward
  <2>1. PICK rows \in SUBSET TaskRows(qn), whole \in BOOLEAN :
          /\ answer'.n = qn /\ answer'.status = qstatus /\ answer'.results = rows
          /\ answer'.whole = whole /\ (whole => rows = TaskRows(qn))
    BY <1>1, AnswerMade
  <2>2. PICK n \in Notif : n = qn /\ n = answer.n /\ answer \in StatusAnswer
    BY <1>1, <2>1, AnswerMade DEF QueryInv, QueryTypeOK
  <2>3. Rank(qstatus) \in Nat /\ Rank(answer.status) \in Nat
    BY <1>1, <2>2, RankType DEF QueryInv, QueryTypeOK, StatusAnswer
  <2>4. Rank(answer'.status) >= Rank(answer.status)
    BY <1>1, <2>1, <2>2, <2>3, AnswerMade DEF QueryInv, AnswerInv
  <2>5. ASSUME whole, NEW row \in answer.results
        PROVE  \E later \in rows : /\ later[1] = row[1]
                                   /\ row[2] \in TaskTerminal => later[2] \in TaskTerminal
    <3>1. row[1] \in Vendor
      BY <2>2 DEF StatusAnswer
    <3>2. PICK s : s = taskStatus[<<n, row[1]>>]
      OBVIOUS
    <3>3. s # "NONE" /\ (row[2] \in TaskTerminal => s \in TaskTerminal)
      BY <1>1, <2>2, <3>2 DEF QueryInv, AnswerInv
    <3>4. <<row[1], s>> \in rows
      BY <1>1, <2>1, <2>2, <2>5, <3>1, <3>2, <3>3, TaskRowsAre DEF QueryInv
    <3> QED
      BY <3>3, <3>4
  <2> QED
    BY <2>1, <2>4, <2>5
<1>2. QueryInv /\ [QueryNext]_<<vars, queryVars>> => [Forward]_answer
  <2>1. QueryNext /\ ~GetStatusTasks => UNCHANGED answer
    BY DEF QueryNext, GetStatus, queryVars
  <2>2. UNCHANGED <<vars, queryVars>> => UNCHANGED answer
    BY DEF queryVars
  <2> QED
    BY <1>1, <2>1, <2>2
<1> QED
  BY <1>2, QueryInvariance, PTL DEF QuerySpec, AnswersMoveForward
=============================================================================
