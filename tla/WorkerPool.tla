----------------------------- MODULE WorkerPool ------------------------------
(***************************************************************************)
(* The delivery workers: goroutines that each take a message from          *)
(* notification.delivery.q, run ProcessMessage to its end, and acknowledge *)
(* the message when it returns nil or reject it when it returns an error.  *)
(* Every database statement, publish and vendor call is a step, so the     *)
(* steps of the workers interleave and a crash may fall between any two.   *)
(***************************************************************************)
EXTENDS Broker

CONSTANTS
  Worker,       \* worker goroutines
  Deliverable,  \* <<vendor, event>> with a vendor config and a delivery spec
  MaxAttempts   \* max_attempts of the retry policy of <<vendor, event>>:
                \* the contract's, or else the vendor's

ASSUME WorkerAssumption ==
  /\ IsFiniteSet(Worker)
  /\ Deliverable \subseteq Vendor \X Event
  /\ MaxAttempts \in [Vendor \X Event -> Nat]

VARIABLES
  wpc,          \* next call of the worker
  wtask,        \* the task its message names
  wretry,       \* retry_count as GetDeliveryTask returned it
  wmark,        \* the notification status resolveNotificationStatus chose
  attempts,     \* history: how often a vendor call was tried
  confirmed     \* history: tasks for which some worker saw a 2xx answer

workerVars == <<wpc, wtask, wretry, wmark, attempts, confirmed>>

WorkerPc == {"idle", "fetch", "call", "succeed", "retry", "delay",
             "dead", "letter", "count", "mark", "ack", "nack"}

WorkerTypeOK ==
  /\ wpc \in [Worker -> WorkerPc]
  /\ wtask \in [Worker -> Task \cup {None}]
  /\ wretry \in [Worker -> Nat]
  /\ wmark \in [Worker -> Terminal \cup {None}]
  /\ attempts \in [Task -> Nat]
  /\ confirmed \subseteq Task

WorkerInit ==
  /\ wpc = [w \in Worker |-> "idle"]
  /\ wtask = [w \in Worker |-> None]
  /\ wretry = [w \in Worker |-> 0]
  /\ wmark = [w \in Worker |-> None]
  /\ attempts = [t \in Task |-> 0]
  /\ confirmed = {}

-----------------------------------------------------------------------------
(* <<vendor, event>> of a task: the key of its delivery spec. *)
SpecOf(t) == <<t[2], event[t[1]]>>

WorkerGoes(w, pc) == wpc' = [wpc EXCEPT ![w] = pc]

(* A database statement of worker w that leaves its locals alone. *)
WorkerDbFrame == UNCHANGED <<brokerVars, wtask, wretry, wmark, attempts, confirmed>>

Receive(w, t) ==
  /\ wpc[w] = "idle"
  /\ ReceiveDelivery(t)
  /\ WorkerGoes(w, "fetch")
  /\ wtask' = [wtask EXCEPT ![w] = t]
  /\ UNCHANGED <<storeVars, wretry, wmark, attempts, confirmed>>

(***************************************************************************)
(* GetDeliveryTask, GetNotificationPayload and the config lookups.  The    *)
(* task's status is read and not looked at.  The payload never changes, so *)
(* an error of either query has the same effect.                           *)
(***************************************************************************)
Fetch(w) ==
  /\ wpc[w] = "fetch"
  /\ \E r \in ReadAnswer :
       /\ GetDeliveryTask(r)
       /\ WorkerGoes(w, IF r # "ok" THEN "nack"
                        ELSE IF SpecOf(wtask[w]) \in Deliverable THEN "call"
                        ELSE "dead")
       /\ wretry' = [wretry EXCEPT ![w] = IF r = "ok" THEN retryCount[wtask[w]]
                                                      ELSE @]
  /\ UNCHANGED <<brokerVars, wtask, wmark, attempts, confirmed>>

(***************************************************************************)
(* Build the request, send it and judge the answer.  "retryable" is a      *)
(* request that cannot be built, a transport error or timeout, 429 or 5xx; *)
(* "permanent" is every other status outside 2xx.                          *)
(***************************************************************************)
Outcome == {"success", "retryable", "permanent"}

(* Faulty variant of LastAttempt: one attempt too many. *)
LastAttemptOffByOne(w) == wretry[w] + 1 > MaxAttempts[SpecOf(wtask[w])]

(* retryOrDeadLetter: no attempt is left after this one. *)
LastAttempt(w) == wretry[w] + 1 >= MaxAttempts[SpecOf(wtask[w])]

Call(w) ==
  /\ wpc[w] = "call"
  /\ attempts' = [attempts EXCEPT ![wtask[w]] = @ + 1]
  /\ \E o \in Outcome :
       /\ WorkerGoes(w, CASE o = "success" -> "succeed"
                          [] o = "permanent" -> "dead"
                          [] o = "retryable" -> IF LastAttempt(w) THEN "dead"
                                                ELSE "retry")
       /\ confirmed' = IF o = "success" THEN confirmed \cup {wtask[w]}
                                        ELSE confirmed
  /\ UNCHANGED <<storeVars, brokerVars, wtask, wretry, wmark>>

(* Faulty variant of Succeed: an error of the update is treated as a retry. *)
SucceedOrRetry(w) ==
  /\ wpc[w] = "succeed"
  /\ \E r \in DbAnswer :
       /\ UpdateDeliveryTaskStatus(wtask[w], "SUCCEEDED", r)
       /\ WorkerGoes(w, IF r = "ok" THEN "count" ELSE "retry")
  /\ WorkerDbFrame

(* handleDeliverySuccess: an error of the update is only logged. *)
Succeed(w) ==
  /\ wpc[w] = "succeed"
  /\ \E r \in DbAnswer : UpdateDeliveryTaskStatus(wtask[w], "SUCCEEDED", r)
  /\ WorkerGoes(w, "count")
  /\ WorkerDbFrame

(* Faulty variant of Retry: an error of the update is only logged. *)
RetryErrorIgnored(w) ==
  /\ wpc[w] = "retry"
  /\ \E r \in DbAnswer :
       /\ UpdateDeliveryTaskRetry(wtask[w], wretry[w] + 1, r)
       /\ WorkerGoes(w, IF r = "ok" THEN "delay" ELSE "ack")
  /\ WorkerDbFrame

(* retryOrDeadLetter: record the retry, then publish the delayed message. *)
Retry(w) ==
  /\ wpc[w] = "retry"
  /\ \E r \in DbAnswer :
       /\ UpdateDeliveryTaskRetry(wtask[w], wretry[w] + 1, r)
       /\ WorkerGoes(w, IF r = "ok" THEN "delay" ELSE "nack")
  /\ WorkerDbFrame

(* Faulty variant of Delay: the original is rejected in any case. *)
DelayAndReject(w) ==
  /\ wpc[w] = "delay"
  /\ \E ok \in BOOLEAN : PublishDelayed(wtask[w], ok)
  /\ WorkerGoes(w, "nack")
  /\ UNCHANGED <<storeVars, wtask, wretry, wmark, attempts, confirmed>>

Delay(w) ==
  /\ wpc[w] = "delay"
  /\ \E ok \in BOOLEAN :
       /\ PublishDelayed(wtask[w], ok)
       /\ WorkerGoes(w, IF ok THEN "ack" ELSE "nack")
  /\ UNCHANGED <<storeVars, wtask, wretry, wmark, attempts, confirmed>>

(* handleDeadLetter: two updates of the row. *)
Dead(w) ==
  /\ wpc[w] = "dead"
  /\ \E r \in DbAnswer :
       /\ UpdateDeliveryTaskStatus(wtask[w], "DEAD_LETTER", r)
       /\ WorkerGoes(w, IF r = "ok" THEN "letter" ELSE "nack")
  /\ WorkerDbFrame

(* Faulty variant of Letter: the notification is not resolved. *)
LetterUnresolved(w) ==
  /\ wpc[w] = "letter"
  /\ \E r \in DbAnswer :
       /\ InsertDeadLetter(wtask[w], r)
       /\ WorkerGoes(w, IF r = "ok" THEN "ack" ELSE "nack")
  /\ WorkerDbFrame

Letter(w) ==
  /\ wpc[w] = "letter"
  /\ \E r \in DbAnswer :
       /\ InsertDeadLetter(wtask[w], r)
       /\ WorkerGoes(w, IF r = "ok" THEN "count" ELSE "nack")
  /\ WorkerDbFrame

(***************************************************************************)
(* resolveNotificationStatus: read the counts, then write the status they  *)
(* imply.  An error of either statement is only logged.                    *)
(***************************************************************************)
(* Faulty variants of AllTerminal: any terminal task, all but one. *)
AnyTerminal(n) == Succeeded(n) + DeadLetter(n) >= 1

AllButOneTerminal(n) == Succeeded(n) + DeadLetter(n) + 1 >= Total(n)

AllTerminal(n) == Succeeded(n) + DeadLetter(n) >= Total(n)

(* Faulty variants of RolledUp: one success is enough, a task's status. *)
RolledUpAnySuccess(n) == IF Succeeded(n) > 0 THEN "SUCCEEDED" ELSE "FAILED"

RolledUpTaskStatus(n) == IF DeadLetter(n) = 0 THEN "SUCCEEDED" ELSE "DEAD_LETTER"

RolledUp(n) == IF DeadLetter(n) = 0 THEN "SUCCEEDED"
               ELSE IF Succeeded(n) = 0 THEN "FAILED"
               ELSE "PARTIALLY_FAILED"

Count(w) ==
  LET n == wtask[w][1] IN
  /\ wpc[w] = "count"
  /\ \E r \in ReadAnswer :
       /\ GetDeliveryTaskCounts(r)
       /\ IF r = "ok" /\ AllTerminal(n)
          THEN /\ WorkerGoes(w, "mark")
               /\ wmark' = [wmark EXCEPT ![w] = RolledUp(n)]
          ELSE /\ WorkerGoes(w, "ack")
               /\ UNCHANGED wmark
  /\ UNCHANGED <<brokerVars, wtask, wretry, attempts, confirmed>>

Mark(w) ==
  /\ wpc[w] = "mark"
  /\ \E r \in DbAnswer : UpdateNotificationStatus(wtask[w][1], wmark[w], r)
  /\ WorkerGoes(w, "ack")
  /\ WorkerDbFrame

(* The message is settled and the worker's locals go out of scope. *)
WorkerForgets(w) ==
  /\ WorkerGoes(w, "idle")
  /\ wtask' = [wtask EXCEPT ![w] = None]
  /\ wretry' = [wretry EXCEPT ![w] = 0]
  /\ wmark' = [wmark EXCEPT ![w] = None]
  /\ UNCHANGED <<storeVars, attempts, confirmed>>

WorkerAck(w) ==
  /\ wpc[w] = "ack"
  /\ Ack
  /\ WorkerForgets(w)

WorkerNack(w) ==
  /\ wpc[w] = "nack"
  /\ Nack(wtask[w])
  /\ WorkerForgets(w)

WorkerCrash ==
  /\ wpc' = [w \in Worker |-> "idle"]
  /\ wtask' = [w \in Worker |-> None]
  /\ wretry' = [w \in Worker |-> 0]
  /\ wmark' = [w \in Worker |-> None]
  /\ UNCHANGED <<attempts, confirmed>>

(* Faulty variant of Held: the queue is consumed with automatic acks. *)
HeldAutoAck(t) == 0

(* Delivery messages for t that workers hold without having settled them. *)
Held(t) == Cardinality({w \in Worker : wpc[w] # "idle" /\ wtask[w] = t})

WorkerStep(w) ==
  \/ \E t \in Task : Receive(w, t)
  \/ Fetch(w) \/ Call(w) \/ Succeed(w) \/ Retry(w) \/ Delay(w)
  \/ Dead(w) \/ Letter(w) \/ Count(w) \/ Mark(w) \/ WorkerAck(w) \/ WorkerNack(w)
=============================================================================
