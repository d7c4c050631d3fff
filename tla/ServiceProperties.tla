-------------------------- MODULE ServiceProperties --------------------------
(***************************************************************************)
(* What the notification service promises, and what its documents promise  *)
(* beyond that.  The first part holds; the statements of the second part   *)
(* are refuted by the runs named in the README.                            *)
(***************************************************************************)
EXTENDS NotificationService

TasksOf(n) == {<<n, v>> : v \in Routed(n)}

(***************************************************************************)
(* No message has been handed out twice: only the end of a connection      *)
(* makes the broker redeliver.                                             *)
(***************************************************************************)
NoRedelivery == restarts = 0 /\ connLosses = 0

-----------------------------------------------------------------------------
(***************************************************************************)
(* A notification reads SUCCEEDED only if, for every vendor its event is   *)
(* routed to, some worker has seen a 2xx answer.  resolveNotificationStatus*)
(* decides from counts read in an earlier statement, from rows that other  *)
(* workers update and that the dispatcher inserts one at a time.           *)
(***************************************************************************)
NoFalseSuccess ==
  \A n \in Notif : status[n] = "SUCCEEDED" => TasksOf(n) \subseteq confirmed

(***************************************************************************)
(* A notification is terminal only when the task of every routed vendor    *)
(* exists and is terminal: neither a partial CreateDeliveryTasks nor a     *)
(* worker that finishes while others are running closes it too early.      *)
(***************************************************************************)
NoPrematureTerminal ==
  \A n \in Notif : status[n] \in Terminal =>
    \A t \in TasksOf(n) : taskStatus[t] \in TaskTerminal

(***************************************************************************)
(* A message for t exists: queued, waiting in the retry queue, or held by  *)
(* a worker whose connection would give it back to the queue.              *)
(***************************************************************************)
Holds(w, t) == wpc[w] \notin {"idle", "ack"} /\ wtask[w] = t

Live(t) ==
  \/ deliveryQ[t] > 0
  \/ InRetryQ(t)
  \/ conn /\ \E w \in Worker : Holds(w, t)

(***************************************************************************)
(* A delivery message that reached the broker is never lost before its     *)
(* work is done: the task is terminal, the vendor has confirmed it, or a   *)
(* message for it still exists.  retryOrDeadLetter publishes the delayed   *)
(* message before the original is acknowledged, and an error rejects the   *)
(* original; crashes, lost connections and failing statements fall between.*)
(***************************************************************************)
NoSilentLoss ==
  \A t \in published :
    taskStatus[t] \in TaskTerminal \/ t \in confirmed \/ Live(t)

(***************************************************************************)
(* Unsettled messages of t.  A worker at "ack" has only to acknowledge its *)
(* message: what it stands for is done or published anew.                  *)
(***************************************************************************)
Copies(t) ==
  deliveryQ[t] + Cardinality({i \in DOMAIN retryQ : retryQ[i].task = t})
               + Cardinality({w \in Worker : Holds(w, t)})

(***************************************************************************)
(* Redelivery does not make messages multiply: the end of a connection     *)
(* adds at most what its workers hold, and neither the retry nor the       *)
(* rejection of a duplicate, nor a redelivered trigger, adds to that       *)
(* (retryOrDeadLetter, Nack, and Dispatch of a trigger seen before).       *)
(***************************************************************************)
CopiesBounded ==
  \A t \in Task : Copies(t) <= 1 + Cardinality(Worker) * (restarts + connLosses)

(***************************************************************************)
(* The edges of the state machine that the detailed design (2.1.1) draws.  *)
(***************************************************************************)
StatusEdges ==
  {<<"NONE", "PENDING">>, <<"PENDING", "DELIVERING">>, <<"PENDING", "FAILED">>}
    \cup ({"DELIVERING"} \X Terminal)

(***************************************************************************)
(* The status never goes back: the dispatcher's DELIVERING never overwrites*)
(* a status that a worker wrote, because it is stored before the first     *)
(* delivery message is published, and a redelivered trigger starts nothing *)
(* again.  Until a message is redelivered every change is an edge of the   *)
(* design, where a verdict is final: concurrent roll-ups agree.  After a   *)
(* redelivery resolveNotificationStatus may replace a verdict by another,  *)
(* which the design excludes (2.1.1: FAILED and PARTIALLY_FAILED are final *)
(* and not recovered automatically).                                       *)
(***************************************************************************)
StatusNeverBack ==
  [][\A n \in Notif : status'[n] # status[n] =>
        \/ <<status[n], status'[n]>> \in StatusEdges
        \/ ~NoRedelivery /\ {status[n], status'[n]} \subseteq Terminal]_vars

-----------------------------------------------------------------------------
(* While no message is redelivered: *)

(***************************************************************************)
(* At most one unsettled message exists per task, although a retry         *)
(* publishes a second one before the first is acknowledged, and although a *)
(* client may submit the notification twice.                               *)
(***************************************************************************)
OneMessagePerTask == NoRedelivery => \A t \in Task : Copies(t) <= 1

(***************************************************************************)
(* A terminal notification agrees with its tasks for good: concurrent      *)
(* resolveNotificationStatus calls, each with its own counts, never leave  *)
(* an outdated result behind.                                              *)
(***************************************************************************)
RollUpAgrees ==
  NoRedelivery => \A n \in Notif :
    status[n] \in Terminal /\ Routed(n) # {} =>
      LET all(s) == \A t \in TasksOf(n) : taskStatus[t] = s IN
      /\ status[n] = "SUCCEEDED" <=> all("SUCCEEDED")
      /\ status[n] = "FAILED" <=> all("DEAD_LETTER")
      /\ \A t \in TasksOf(n) : taskStatus[t] \in TaskTerminal

(***************************************************************************)
(* A task is tried at most max_attempts times (once when max_attempts is   *)
(* 0), counting across workers and through the retry queue.                *)
(***************************************************************************)
AttemptsBounded ==
  NoRedelivery => \A t \in Task :
    attempts[t] > 0 =>
      attempts[t] <= (IF MaxAttempts[SpecOf(t)] = 0 THEN 1 ELSE MaxAttempts[SpecOf(t)])

(***************************************************************************)
(* Once a vendor has answered 2xx it is not called again for the same      *)
(* task, even when storing SUCCEEDED fails (handleDeliverySuccess).        *)
(***************************************************************************)
NotCalledAgain ==
  [][NoRedelivery => \A t \in confirmed : attempts'[t] = attempts[t]]_vars

-----------------------------------------------------------------------------
(***************************************************************************)
(* As long as no process ends, no statement fails and the broker stays     *)
(* connected, every accepted notification reaches a terminal status.       *)
(* (Assumes that no event is routed twice to the same vendor.)             *)
(***************************************************************************)
AcceptedTerminates ==
  \A n \in Notif :
    n \in accepted ~> \/ status[n] \in Terminal
                     \/ ~NoRedelivery
                     \/ dbFaults > 0

-----------------------------------------------------------------------------
(* Statements of the documents, comments and tests that the code refutes. *)

(***************************************************************************)
(* worker.go: "Returning an error signals the caller that the message      *)
(* should be requeued (NACK)": a rejected message is consumed again.       *)
(***************************************************************************)
RejectedIsRequeued ==
  \A t \in Task :
    (\E w \in Worker : wpc[w] = "nack" /\ wtask[w] = t)
      ~> (\E w \in Worker : wpc[w] = "fetch" /\ wtask[w] = t)

(***************************************************************************)
(* Detailed design 5.1.2/5.1.3: a 202 means that a trigger was published,  *)
(* by this request or, for an idempotent resubmission, again: an accepted  *)
(* notification that is still PENDING has a trigger at the broker.         *)
(***************************************************************************)
AcceptedHasTrigger ==
  \A n \in accepted : status[n] = "PENDING" => trigReady[n] + trigUnacked[n] > 0

(***************************************************************************)
(* Detailed design, shutdown: unacknowledged messages are requeued and     *)
(* "processing continues after the restart": a queued trigger leads to a   *)
(* terminal status in spite of one restart.                                *)
(***************************************************************************)
TriggeredTerminates ==
  \A n \in Notif : trigReady[n] > 0 ~> status[n] \in Terminal

(***************************************************************************)
(* High-level design: once a call to a vendor has succeeded, no later      *)
(* retry calls that vendor again.                                          *)
(***************************************************************************)
SucceededIsSkipped ==
  [][\A t \in confirmed : attempts'[t] = attempts[t]]_vars

(***************************************************************************)
(* Detailed design 2.1.1: a failed update of the notification status is    *)
(* retried through the queue, so terminal tasks lead to a terminal status. *)
(***************************************************************************)
RollUpIsRetried ==
  \A n \in Notif :
    (Routed(n) # {} /\ \A t \in TasksOf(n) : taskStatus[t] \in TaskTerminal)
      ~> status[n] \in Terminal
=============================================================================
