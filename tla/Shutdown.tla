------------------------------ MODULE Shutdown -------------------------------
(***************************************************************************)
(* SIGTERM: main stops the worker pool, then the trigger consumer, then    *)
(* the HTTP server, and returns; a new process is started.  A crash may    *)
(* still happen at any time.                                               *)
(*                                                                         *)
(* Workers are told to stop by a closed channel, which the select of their *)
(* loop offers next to a message that may be waiting: an idle worker may   *)
(* take one more message.  When the 10 seconds of stopCtx are over first,  *)
(* their context is cancelled and each database statement fails (the one   *)
(* that was under way may have been applied).  Nobody waits for the        *)
(* dispatcher: its goroutine returns between two triggers or ends with     *)
(* the process.                                                            *)
(*                                                                         *)
(* Left out here: the database clock, which matters only to a second       *)
(* submission of the same key, lost connections, and statements of the     *)
(* workers that fail for another reason than their context.                *)
(***************************************************************************)
EXTENDS ServiceProperties

VARIABLES
  mainPc,       \* where main is: "serving", in Stop ("stopping", and after
                \* the timeout "cancelled"), in httpSrv.Shutdown ("closing")
  stopped,      \* workers whose goroutine has returned
  expired,      \* stopCtx is done
  abrupt        \* history: how processes ended, other than gracefully

shutdownVars == <<mainPc, stopped, expired, abrupt>>
allVars == <<vars, shutdownVars>>

ShutdownInit ==
  /\ Init
  /\ mainPc = "serving"
  /\ stopped = {}
  /\ expired = FALSE
  /\ abrupt = {}

-----------------------------------------------------------------------------
(* Faulty variant of Signal: Stop cancels the workers' context at once. *)
SignalCancels ==
  /\ mainPc = "serving"
  /\ restarts < MaxRestarts
  /\ mainPc' = "cancelled"
  /\ UNCHANGED <<vars, stopped, expired, abrupt>>

(* The signal arrives: Stop closes closeCh and the timeout starts. *)
Signal ==
  /\ mainPc = "serving"
  /\ restarts < MaxRestarts
  /\ mainPc' = "stopping"
  /\ UNCHANGED <<vars, stopped, expired, abrupt>>

TimerFires ==
  /\ mainPc # "serving"
  /\ ~expired
  /\ expired' = TRUE
  /\ UNCHANGED <<vars, mainPc, stopped, abrupt>>

(* Faulty variant of WorkerExits: the signal is sent once, not closed. *)
WorkerExitsOne(w) ==
  /\ mainPc \in {"stopping", "cancelled"}
  /\ wpc[w] = "idle"
  /\ stopped = {}
  /\ stopped' = {w}
  /\ UNCHANGED <<vars, mainPc, expired, abrupt>>

(* The select of an idle worker picks closeCh or the cancelled context. *)
WorkerExits(w) ==
  /\ mainPc \in {"stopping", "cancelled"}
  /\ wpc[w] = "idle"
  /\ w \notin stopped
  /\ stopped' = stopped \cup {w}
  /\ UNCHANGED <<vars, mainPc, expired, abrupt>>

(* Faulty variant of StopReturns: only deliveries under way are awaited. *)
StopReturnsInFlight ==
  /\ mainPc \in {"stopping", "cancelled"}
  /\ \A w \in Worker : wpc[w] = "idle"
  /\ mainPc' = "closing"
  /\ UNCHANGED <<vars, stopped, expired, abrupt>>

(* Both wait groups are done: all goroutines of the pool have returned. *)
StopReturns ==
  /\ mainPc \in {"stopping", "cancelled"}
  /\ stopped = Worker
  /\ mainPc' = "closing"
  /\ UNCHANGED <<vars, stopped, expired, abrupt>>

(* Stop gives up waiting and cancels the workers' context. *)
StopTimesOut ==
  /\ mainPc = "stopping"
  /\ expired
  /\ mainPc' = "cancelled"
  /\ abrupt' = abrupt \cup {"cancel"}
  /\ UNCHANGED <<vars, stopped, expired>>

(* The process is gone and a new one serves. *)
NewProcess ==
  /\ Restart
  /\ mainPc' = "serving"
  /\ stopped' = {}
  /\ expired' = FALSE

(* httpSrv.Shutdown returns: no request is left, or stopCtx is done. *)
Exit ==
  /\ mainPc = "closing"
  /\ expired \/ \A h \in Handler : hpc[h] = "idle"
  /\ NewProcess
  /\ UNCHANGED abrupt

Crash ==
  /\ NewProcess
  /\ abrupt' = abrupt \cup {"crash"}

-----------------------------------------------------------------------------
(* The service while main is anywhere in this sequence. *)

(* The listener is closed when Stop has returned. *)
Accepting ==
  /\ mainPc # "closing"
  /\ ClientSubmits
  /\ UNCHANGED shutdownVars

(* The worker's next call is a statement under its context. *)
UsesContext(w) ==
  wpc[w] \in {"fetch", "succeed", "retry", "dead", "letter", "count", "mark"}

(* A worker runs; its statements fail if and only if it was cancelled. *)
PoolRuns(w) ==
  /\ w \notin stopped
  /\ WorkerRuns(w)
  /\ UsesContext(w) => (mainPc = "cancelled" <=> dbFaults' # dbFaults)
  /\ UNCHANGED shutdownVars

HandlersRun(h) == HandlerRuns(h) /\ dbFaults' = dbFaults /\ UNCHANGED shutdownVars
TriggerLoop == DispatcherRuns /\ dbFaults' = dbFaults /\ UNCHANGED shutdownVars
RetryTtl == RetryExpires /\ UNCHANGED shutdownVars

ShutdownNext ==
  \/ Signal \/ TimerFires \/ StopReturns \/ StopTimesOut \/ Exit \/ Crash
  \/ \E w \in Worker : WorkerExits(w) \/ PoolRuns(w)
  \/ Accepting
  \/ \E h \in Handler : HandlersRun(h)
  \/ TriggerLoop
  \/ RetryTtl

(***************************************************************************)
(* As for the service; and main, the timer and every worker's select go    *)
(* on.  Weak fairness is enough for the select: a task has a bounded       *)
(* number of attempts, so a worker cannot find messages for ever.  No      *)
(* signal and no crash has to happen.                                      *)
(***************************************************************************)
ShutdownFairness ==
  /\ WF_allVars(TimerFires)
  /\ WF_allVars(StopReturns)
  /\ WF_allVars(StopTimesOut)
  /\ WF_allVars(Exit)
  /\ \A w \in Worker : WF_allVars(WorkerExits(w)) /\ WF_allVars(PoolRuns(w))
  /\ \A h \in Handler : WF_allVars(HandlersRun(h))
  /\ WF_allVars(TriggerLoop)
  /\ WF_allVars(RetryTtl)

ShutdownSpec == ShutdownInit /\ [][ShutdownNext]_allVars /\ ShutdownFairness

-----------------------------------------------------------------------------
(***************************************************************************)
(* When Stop has returned no worker holds a message, although a worker may *)
(* take another one after closeCh is closed: Stop waits for the loops to   *)
(* end, not only for the deliveries that were under way.                   *)
(***************************************************************************)
ClosingIsQuiet ==
  mainPc = "closing" => \A w \in Worker : wpc[w] = "idle"

(***************************************************************************)
(* A signal ends the process: neither a worker that keeps finding messages *)
(* nor a slow request holds up Stop and httpSrv.Shutdown for ever.         *)
(***************************************************************************)
ShutdownCompletes == mainPc = "stopping" ~> mainPc = "serving"

(***************************************************************************)
(* docs/notification-test-cases.md, TC5.1: a delivery that was under way   *)
(* when the signal came is not repeated by the next process, as long as    *)
(* Stop did not run into its timeout.                                      *)
(***************************************************************************)
NotRepeatedAfterExit ==
  [][abrupt = {} => \A t \in confirmed : attempts'[t] = attempts[t]]_allVars

(***************************************************************************)
(* Neither a crash nor a shutdown within its timeout keeps a notification  *)
(* whose delivery messages are all published from a terminal status: what  *)
(* a worker had not finished is redelivered and done again.                *)
(***************************************************************************)
DispatchedTerminates ==
  \A n \in Notif :
    Routed(n) # {} /\ TasksOf(n) \subseteq published
      ~> status[n] \in Terminal \/ "cancel" \in abrupt

(***************************************************************************)
(* Stop: "the context stays valid" so that "in-flight deliveries can still *)
(* access the DB".  When it has returned within its timeout, what a vendor *)
(* has confirmed is stored, at whatever point of ProcessMessage the signal *)
(* met the workers, and stays stored for the next process.  (An error of   *)
(* the database itself, left out here, would be logged and forgotten.)     *)
(***************************************************************************)
ConfirmedIsRecorded ==
  mainPc = "closing" /\ abrupt = {} =>
    \A t \in confirmed : taskStatus[t] = "SUCCEEDED"
=============================================================================
