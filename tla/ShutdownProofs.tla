---------------------------- MODULE ShutdownProofs ---------------------------
(***************************************************************************)
(* A shutdown is one of the failures the service is specified with, so the *)
(* safety theorems of ServiceProofs hold through it.  One that ends within *)
(* its timeout disturbs nothing: single delivery (SingleDelivery) survives *)
(* it, although the process is replaced.                                   *)
(***************************************************************************)
EXTENDS Shutdown, OnceProofs

(* Workers that have returned hold nothing; Stop has waited for all of them. *)
StopInv ==
  /\ stopped \subseteq Worker
  /\ \A w \in stopped : wpc[w] = "idle"
  /\ mainPc = "closing" => stopped = Worker

(* As long as every process ended gracefully, nothing was redelivered. *)
GracefulInv == abrupt = {} => SingleDelivery

(* The actors of the service, as a shutdown restricts them. *)
ServiceGoesOn ==
  \/ Accepting
  \/ \E h \in Handler : HandlersRun(h)
  \/ TriggerLoop
  \/ \E w \in Worker : PoolRuns(w)
  \/ RetryTtl

(* The steps of main, of the timer and of the loops that return. *)
MainGoesOn ==
  \/ Signal \/ TimerFires \/ StopReturns \/ StopTimesOut
  \/ \E w \in Worker : WorkerExits(w)

(* Every step of a shutdown is a step of the service or invisible to it. *)
LEMMA ShutdownStep ==
  ASSUME [ShutdownNext]_allVars
  PROVE  /\ \/ ServiceGoesOn /\ UNCHANGED shutdownVars
            \/ MainGoesOn /\ UNCHANGED vars
            \/ Exit \/ Crash
            \/ UNCHANGED allVars
         /\ [Next]_vars
<1>1. \/ ServiceGoesOn \/ MainGoesOn \/ Exit \/ Crash \/ UNCHANGED allVars
  BY DEF ShutdownNext, ServiceGoesOn, MainGoesOn
<1>2. ServiceGoesOn => Next /\ UNCHANGED shutdownVars
  BY DEF ServiceGoesOn, Accepting, HandlersRun, TriggerLoop, PoolRuns, RetryTtl, Next
<1>3. MainGoesOn => UNCHANGED vars
  BY DEF MainGoesOn, Signal, TimerFires, StopReturns, StopTimesOut, WorkerExits
<1>4. Exit \/ Crash => Next
  BY DEF Exit, Crash, NewProcess, Next
<1>5. UNCHANGED allVars => UNCHANGED vars
  BY DEF allVars
<1> QED
  BY <1>1, <1>2, <1>3, <1>4, <1>5

(* So what holds of the service holds through a shutdown. *)
LEMMA ShutdownRefines == ShutdownSpec => Init /\ [][Next]_vars
<1>1. [ShutdownNext]_allVars => [Next]_vars
  BY ShutdownStep
<1>2. ShutdownInit => Init
  BY DEF ShutdownInit
<1> QED
  BY <1>1, <1>2, PTL DEF ShutdownSpec

(***************************************************************************)
(* Through signals, timeouts, cancelled statements and crashes: no false   *)
(* success, no premature verdict, no delivery message lost before its work *)
(* is done, and no more copies of one than the ended connections give back.*)
(***************************************************************************)
THEOREM ShutdownIsSafe ==
  ShutdownSpec =>
    []NoFalseSuccess /\ []NoPrematureTerminal /\ []NoSilentLoss /\ []CopiesBounded
<1>1. ServiceInv => NoFalseSuccess /\ NoPrematureTerminal /\ NoSilentLoss
  BY DEF ServiceInv
<1>2. CopiesInv => CopiesBounded
  BY DEF CopiesInv
<1> QED
  BY <1>1, <1>2, ShutdownRefines, SafetyInvariance, CopiesInvariance, PTL

-----------------------------------------------------------------------------
(* A step of worker w moves no other worker. *)
LEMMA OneWorkerMoves ==
  ASSUME TypeOK, NEW w \in Worker, WorkerRuns(w), NEW u \in Worker \ {w}
  PROVE  wpc'[u] = wpc[u]
<1>1. \E pc : WorkerGoes(w, pc)
  BY DEF WorkerRuns, WorkerStep, Receive, Fetch, Call, Succeed, Retry, Delay, Dead, Letter, Count,
     Mark, WorkerAck, WorkerNack, WorkerForgets
<1>2. wpc \in [Worker -> WorkerPc]
  BY DEF TypeOK, WorkerTypeOK
<1> QED
  BY <1>1, <1>2 DEF WorkerGoes

LEMMA StopStep ==
  ASSUME TypeOK, StopInv, [ShutdownNext]_allVars
  PROVE  StopInv'
<1>1. CASE \E w \in Worker : PoolRuns(w)
  <2>1. PICK w \in Worker : w \notin stopped /\ WorkerRuns(w) /\ UNCHANGED shutdownVars
    BY <1>1 DEF PoolRuns
  <2>2. \A u \in stopped : wpc'[u] = wpc[u]
    BY <2>1, OneWorkerMoves DEF StopInv
  <2> QED
    BY <2>1, <2>2 DEF StopInv, shutdownVars
<1>2. CASE UNCHANGED wpc /\ UNCHANGED shutdownVars
  BY <1>2 DEF StopInv, shutdownVars
<1>3. CASE MainGoesOn /\ UNCHANGED vars
  <2>1. UNCHANGED wpc
    BY <1>3 DEF vars, workerVars
  <2> QED
    BY <1>3, <2>1 DEF StopInv, MainGoesOn, Signal, TimerFires, StopReturns, StopTimesOut,
       WorkerExits
<1>4. CASE Exit \/ Crash
  BY <1>4 DEF Exit, Crash, NewProcess, StopInv
<1>5. CASE UNCHANGED allVars
  BY <1>2, <1>5 DEF allVars, vars, workerVars
<1>6. CASE ServiceGoesOn /\ UNCHANGED shutdownVars
  BY <1>1, <1>2, <1>6 DEF ServiceGoesOn, Accepting, ClientSubmits, HandlersRun, HandlerRuns,
     TriggerLoop, DispatcherRuns, RetryTtl, RetryExpires, workerVars
<1> QED
  BY <1>3, <1>4, <1>5, <1>6, ShutdownStep

LEMMA StopInvariance ==
  ShutdownInit /\ [][ShutdownNext]_allVars => []StopInv /\ [](ServiceInv /\ RoutedInv)
<1>1. ShutdownInit => Init /\ StopInv
  BY DEF ShutdownInit, StopInv
<1>2. [ShutdownNext]_allVars => [Next]_vars
  BY ShutdownStep
<1>3. ServiceInv /\ StopInv /\ [ShutdownNext]_allVars => StopInv'
  BY StopStep DEF ServiceInv
<1> QED
  BY <1>1, <1>2, <1>3, SafetyInvariance, PTL

(***************************************************************************)
(* When Stop has returned no worker holds a message: the pool's goroutines *)
(* have returned, and none of them runs again in this process.             *)
(***************************************************************************)
THEOREM StopWaits == ShutdownSpec => []ClosingIsQuiet
<1>1. StopInv => ClosingIsQuiet
  BY DEF StopInv, ClosingIsQuiet
<1> QED
  BY <1>1, StopInvariance, PTL DEF ShutdownSpec

-----------------------------------------------------------------------------
(***************************************************************************)
(* The exit of a quiet process leaves the messages where they are: no      *)
(* worker holds one, and the dispatcher's unacknowledged trigger cannot    *)
(* make it publish a task again.                                           *)
(***************************************************************************)
LEMMA ExitKeepsSingle ==
  ASSUME Undisturbed, StopInv, Exit
  PROVE  SingleDelivery'
<1> USE DEF Undisturbed, SingleDelivery
<1>1. /\ \A w \in Worker : wpc[w] = "idle" /\ wpc'[w] = "idle"
      /\ UNCHANGED <<storeVars, attempts, confirmed, retryQ, published>>
      /\ dpc' = "idle" /\ conn' = TRUE
  BY DEF Exit, NewProcess, Restart, StopInv, Requeue, WorkerCrash, DispatcherCrash
<1>2. UNCHANGED <<status, event, taskStatus, retryCount>>
  BY <1>1 DEF storeVars
<1>3. \A t \in Task : Unacked[t] = 0
  <2>1. \A t \in Task : {w \in Worker : wpc[w] # "idle" /\ wtask[w] = t} = {}
    BY <1>1
  <2> QED
    BY <2>1, FS_EmptySet DEF Unacked, Held
<1>4. \A t \in Task : deliveryQ'[t] = deliveryQ[t]
  BY <1>3 DEF Exit, NewProcess, Restart, Requeue, ServiceInv, TypeOK, BrokerTypeOK
<1>5. PublishInv' /\ FreshInv'
  BY <1>1, <1>2 DEF PublishInv, FreshInv
<1>6. \A t \in Task : Alone(t)'
  BY <1>1, <1>4 DEF Alone, InRetryQ, Holds
<1>7. QueuesInv' /\ AttemptsInv'
  BY <1>1, <1>2, <1>4 DEF QueuesInv, AttemptsInv, Triable, AllowedAttempts, SpecOf
<1>8. \A w \in Worker : WorkerStage(w)'
  BY <1>1 DEF WorkerStage
<1>9. VerdictsInv'
  <2>1. StoreGrows
    BY <1>2 DEF StoreGrows
  <2> QED
    BY <1>2, <2>1, VerdictsAgreeStill
<1> QED
  BY <1>1, <1>5, <1>6, <1>7, <1>8, <1>9

LEMMA GracefulStep ==
  ASSUME ServiceInv, RoutedInv, StopInv, GracefulInv, [ShutdownNext]_allVars
  PROVE  GracefulInv'
<1> SUFFICES ASSUME abrupt' = {} PROVE SingleDelivery'
  BY DEF GracefulInv
<1>1. ~Crash
  BY DEF Crash
<1>2. abrupt = {}
  BY <1>1, ShutdownStep DEF MainGoesOn, Signal, TimerFires, StopReturns, StopTimesOut, WorkerExits,
     Exit, allVars, shutdownVars
<1>3. Undisturbed /\ [Next]_vars
  BY <1>2, ShutdownStep DEF GracefulInv, Undisturbed
<1>4. CASE Exit
  BY <1>3, <1>4, ExitKeepsSingle
<1>5. CASE ~Exit
  <2>1. \/ UNCHANGED faultVars
        \/ UNCHANGED vars
    BY <1>1, <1>5, ShutdownStep DEF ServiceGoesOn, Accepting, ClientSubmits, HandlersRun,
       HandlerRuns, TriggerLoop, DispatcherRuns, PoolRuns, WorkerRuns, RetryTtl, RetryExpires,
       allVars
  <2>2. UNCHANGED faultVars
    BY <2>1 DEF vars
  <2>3. restarts \in Nat /\ connLosses \in Nat
    BY DEF ServiceInv, TypeOK
  <2>4. ~Restart /\ ~\E brokerUp \in BOOLEAN : ConnectionLost(brokerUp)
    <3>1. Restart => restarts' = restarts + 1
      BY DEF Restart
    <3>2. (\E brokerUp \in BOOLEAN : ConnectionLost(brokerUp)) => connLosses' = connLosses + 1
      BY DEF ConnectionLost
    <3> QED
      BY <2>2, <2>3, <3>1, <3>2 DEF faultVars
  <2> QED
    BY <1>3, <2>4, StepKeepsSingle
<1> QED
  BY <1>4, <1>5

LEMMA GracefulInvariance ==
  ShutdownInit /\ [][ShutdownNext]_allVars => [](ServiceInv /\ RoutedInv /\ StopInv /\ GracefulInv)
<1>1. ShutdownInit => GracefulInv
  BY InitOnce DEF ShutdownInit, OnceInv, NoRedelivery, Init, GracefulInv
<1>2. ServiceInv /\ RoutedInv /\ StopInv /\ GracefulInv /\ [ShutdownNext]_allVars => GracefulInv'
  BY GracefulStep
<1> QED
  BY <1>1, <1>2, StopInvariance, PTL

(***************************************************************************)
(* A delivery that a vendor has confirmed is not repeated by this process  *)
(* or a later one, as long as every process ended within the timeout of    *)
(* Stop (the graceful restart of TC5.1).                                   *)
(***************************************************************************)
THEOREM NoRepeatAfterExit == ShutdownSpec => NotRepeatedAfterExit
<1>1. ASSUME ServiceInv, RoutedInv, GracefulInv, [ShutdownNext]_allVars, abrupt = {}
      PROVE  \A t \in confirmed : attempts'[t] = attempts[t]
  <2>1. Undisturbed /\ [Next]_vars
    BY <1>1, ShutdownStep DEF GracefulInv, Undisturbed
  <2> QED
    BY <2>1, ConfirmedNotTried
<1>2. ServiceInv /\ RoutedInv /\ GracefulInv /\ [ShutdownNext]_allVars
        => [abrupt = {} => \A t \in confirmed : attempts'[t] = attempts[t]]_allVars
  BY <1>1
<1> QED
  BY <1>2, GracefulInvariance, PTL DEF ShutdownSpec, NotRepeatedAfterExit

-----------------------------------------------------------------------------
(* A confirmed delivery is stored, or its worker is about to store it. *)
RecordInv ==
  /\ mainPc = "cancelled" => abrupt # {}
  /\ abrupt = {} => \A t \in confirmed :
       \/ taskStatus[t] = "SUCCEEDED"
       \/ \E w \in Worker : wpc[w] = "succeed" /\ wtask[w] = t

(* A worker of a pool that was not cancelled keeps this up. *)
LEMMA PoolRecords ==
  ASSUME Undisturbed, RecordInv, abrupt = {}, NEW w \in Worker, PoolRuns(w),
         NEW t \in confirmed'
  PROVE  \/ taskStatus'[t] = "SUCCEEDED"
         \/ \E u \in Worker : wpc'[u] = "succeed" /\ wtask'[u] = t
<1> USE DEF Undisturbed, ServiceInv, TypeOK, StoreTypeOK, WorkerTypeOK
<1>1. WorkerRuns(w) /\ (UsesContext(w) => dbFaults' = dbFaults)
  BY DEF PoolRuns, RecordInv
<1>2. \A u \in Worker \ {w} : wpc'[u] = wpc[u] /\ wtask'[u] = wtask[u]
  <2>1. \A u \in Worker \ {w} : wpc'[u] = wpc[u]
    BY <1>1, OneWorkerMoves
  <2>2. wtask' = wtask \/ \E x : wtask' = [wtask EXCEPT ![w] = x]
    BY <1>1 DEF WorkerRuns, WorkerStep, WorkerDbFrame, Receive, Fetch, Call, Succeed, Retry, Delay,
       Dead, Letter, Count, Mark, WorkerAck, WorkerNack, WorkerForgets
  <2> QED
    BY <2>1, <2>2
<1>3. CASE Call(w)
  <2>1. /\ taskStatus' = taskStatus /\ wtask' = wtask /\ wpc[w] # "succeed"
        /\ t \in confirmed \/ (t = wtask[w] /\ wpc'[w] = "succeed")
    BY <1>3 DEF Call, WorkerGoes, storeVars, Outcome
  <2> QED
    BY <1>2, <2>1 DEF RecordInv
<1>4. CASE ~Call(w)
  <2>1. t \in confirmed
    BY <1>1, <1>4 DEF WorkerRuns, WorkerStep, WorkerDbFrame, Receive, Fetch, Succeed, Retry, Delay,
       Dead, Letter, Count, Mark, WorkerAck, WorkerNack, WorkerForgets
  <2>2. t \in Task
    BY <2>1
  <2>3. CASE Succeed(w)
    <3>1. wtask[w] \in Task
      BY <2>3, WorkerOnItsTask DEF Succeed
    <3>2. taskStatus' = [taskStatus EXCEPT ![wtask[w]] = "SUCCEEDED"]
      <4>1. PICK r \in DbAnswer : UpdateDeliveryTaskStatus(wtask[w], "SUCCEEDED", r)
        BY <2>3 DEF Succeed
      <4>2. r = "ok"
        BY <1>1, <2>3, <4>1 DEF Succeed, UsesContext, UpdateDeliveryTaskStatus, Answers
      <4> QED
        BY <4>1, <4>2 DEF UpdateDeliveryTaskStatus, Applied
    <3>3. CASE t = wtask[w]
      BY <2>2, <3>2, <3>3
    <3>4. CASE t # wtask[w]
      BY <1>2, <2>1, <2>2, <3>2, <3>4 DEF RecordInv
    <3> QED
      BY <3>3, <3>4
  <2>4. CASE Dead(w) \/ Letter(w)
    <3>1. wtask[w] \in Task /\ WorkerStage(w) /\ wpc[w] \in {"dead", "letter"}
      BY <2>4, WorkerOnItsTask DEF Dead, Letter
    <3>2. wtask[w] # t
      <4>1. CASE wpc[w] = "dead"
        BY <2>1, <3>1, <4>1 DEF WorkerStage
      <4>2. CASE wpc[w] = "letter"
        <5>1. taskStatus[wtask[w]] = "DEAD_LETTER"
          BY <3>1, <4>2 DEF WorkerStage
        <5>2. \A u \in Worker : wpc[u] = "succeed" => taskStatus[wtask[u]] = "PENDING"
          BY DEF SingleDelivery, WorkerStage
        <5> QED
          BY <2>1, <5>1, <5>2 DEF RecordInv
      <4> QED
        BY <3>1, <4>1, <4>2
    <3>3. taskStatus'[t] = taskStatus[t]
      BY <2>2, <2>4, <3>1, <3>2 DEF Dead, Letter, InsertDeadLetter, UpdateDeliveryTaskStatus
    <3> QED
      BY <1>2, <2>1, <3>1, <3>3 DEF RecordInv
  <2>5. CASE ~Succeed(w) /\ ~Dead(w) /\ ~Letter(w)
    <3>1. taskStatus' = taskStatus
      BY <1>1, <1>4, <2>5 DEF WorkerRuns, WorkerStep, Receive, Fetch, Retry, Delay, Count, Mark,
         WorkerAck, WorkerNack, WorkerForgets, storeVars, GetDeliveryTask, GetDeliveryTaskCounts,
         Query, UpdateDeliveryTaskRetry, UpdateNotificationStatus
    <3>2. wpc[w] # "succeed"
      BY <1>1, <1>4, <2>5 DEF WorkerRuns, WorkerStep, Receive, Fetch, Retry, Delay, Count, Mark,
         WorkerAck, WorkerNack
    <3> QED
      BY <1>2, <2>1, <3>1, <3>2 DEF RecordInv
  <2> QED
    BY <2>3, <2>4, <2>5
<1> QED
  BY <1>3, <1>4

LEMMA RecordStep ==
  ASSUME ServiceInv, RoutedInv, StopInv, GracefulInv, RecordInv, [ShutdownNext]_allVars
  PROVE  RecordInv'
<1>1. mainPc' = "cancelled" => abrupt' # {}
  BY ShutdownStep DEF RecordInv, MainGoesOn, Signal, TimerFires, StopReturns, StopTimesOut,
     WorkerExits, Exit, Crash, NewProcess, allVars, shutdownVars
<1> SUFFICES ASSUME abrupt' = {}, NEW t \in confirmed'
             PROVE  \/ taskStatus'[t] = "SUCCEEDED"
                    \/ \E w \in Worker : wpc'[w] = "succeed" /\ wtask'[w] = t
  BY <1>1 DEF RecordInv
<1>2. abrupt = {} /\ ~Crash
  BY ShutdownStep DEF MainGoesOn, Signal, TimerFires, StopReturns, StopTimesOut, WorkerExits,
     Exit, Crash, allVars, shutdownVars
<1>3. Undisturbed
  BY <1>2 DEF GracefulInv, Undisturbed
<1>4. CASE \E w \in Worker : PoolRuns(w)
  BY <1>2, <1>3, <1>4, PoolRecords
<1>5. CASE UNCHANGED <<taskStatus, wpc, wtask, confirmed>>
  BY <1>2, <1>5 DEF RecordInv
<1>6. CASE TriggerLoop
  <2>1. UNCHANGED <<wpc, wtask, confirmed>>
    BY <1>6 DEF TriggerLoop, DispatcherRuns, workerVars
  <2>2. t \in Task /\ t \in confirmed
    BY <2>1 DEF ServiceInv, TypeOK, WorkerTypeOK
  <2>3. taskStatus[t] # "NONE" => taskStatus'[t] = taskStatus[t]
    BY <1>6, <2>2 DEF TriggerLoop, DispatcherRuns, DispatcherStep, TakeTrigger, DispatchLoad,
       DispatchFail, DispatchInsert, DispatchStatus, DispatchPublish, storeVars, GetNotification,
       Query, UpdateNotificationStatus, InsertDeliveryTask, Conflicts, ServiceInv, TypeOK,
       StoreTypeOK
  <2> QED
    BY <1>2, <2>1, <2>2, <2>3 DEF RecordInv
<1>7. CASE Exit
  <2>1. \A w \in Worker : wpc[w] = "idle"
    BY <1>7 DEF Exit, StopInv
  <2>2. UNCHANGED <<taskStatus, confirmed>>
    BY <1>7 DEF Exit, NewProcess, Restart, WorkerCrash, storeVars
  <2> QED
    BY <1>2, <2>1, <2>2 DEF RecordInv
<1>8. MainGoesOn /\ UNCHANGED vars => UNCHANGED <<taskStatus, wpc, wtask, confirmed>>
  BY DEF vars, storeVars, workerVars
<1>9. UNCHANGED allVars => UNCHANGED <<taskStatus, wpc, wtask, confirmed>>
  BY DEF allVars, vars, storeVars, workerVars
<1>10. Accepting \/ (\E h \in Handler : HandlersRun(h)) \/ RetryTtl
         => UNCHANGED <<taskStatus, wpc, wtask, confirmed>>
  BY DEF Accepting, ClientSubmits, Submit, UpsertNotification, HandlersRun, HandlerRuns,
     HandlerStep, SubmitPublish, SubmitReply, RetryTtl, RetryExpires, storeVars, workerVars,
     GetNotification, Query
<1> QED
  BY <1>2, <1>4, <1>5, <1>6, <1>7, <1>8, <1>9, <1>10, ShutdownStep DEF ServiceGoesOn

(***************************************************************************)
(* When Stop returns within its timeout every delivery that a vendor has   *)
(* confirmed is recorded: a worker that was between the answer and the     *)
(* update when the signal came finishes with a valid context, and nothing  *)
(* that comes after it takes the record away.                              *)
(***************************************************************************)
THEOREM StopRecords == ShutdownSpec => []ConfirmedIsRecorded
<1>1. ShutdownInit => RecordInv
  BY DEF ShutdownInit, Init, WorkerInit, RecordInv
<1>2. ServiceInv /\ RoutedInv /\ StopInv /\ GracefulInv /\ RecordInv /\ [ShutdownNext]_allVars
        => RecordInv'
  BY RecordStep
<1>3. StopInv /\ RecordInv => ConfirmedIsRecorded
  BY DEF StopInv, RecordInv, ConfirmedIsRecorded
<1> QED
  BY <1>1, <1>2, <1>3, GracefulInvariance, PTL DEF ShutdownSpec
=============================================================================
