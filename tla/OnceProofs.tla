------------------------------ MODULE OnceProofs -----------------------------
(***************************************************************************)
(* Single delivery: as long as the broker redelivers nothing, a task has   *)
(* one message, is tried at most max_attempts times and not again after a  *)
(* 2xx answer, and a verdict agrees with its tasks for good.  OnceInv is   *)
(* shown to be inductive on top of ServiceInv and RoutedInv.  And when the *)
(* broker redelivers: a bound on the messages of a task (CopiesInv).       *)
(***************************************************************************)
EXTENDS ServiceProofs

(* Where the lemmas about single steps start. *)
Undisturbed == ServiceInv /\ RoutedInv /\ SingleDelivery

(* Only published tasks have messages. *)
LEMMA MessagesArePublished ==
  ASSUME ServiceInv
  PROVE  /\ published \subseteq Task
         /\ \A t \in Task \ published :
              deliveryQ[t] = 0 /\ ~InRetryQ(t) /\ \A w \in Worker : ~Holds(w, t)
         /\ \A i \in DOMAIN retryQ : retryQ[i].task \in published
         /\ \A w \in Worker : wpc[w] # "idle" => wtask[w] \in published
<1> USE DEF ServiceInv
<1>1. \A t \in Task : deliveryQ[t] \in Nat
  BY DEF TypeOK, BrokerTypeOK
<1>2. retryQ \in Seq(RetryMsg)
  BY DEF TypeOK, BrokerTypeOK
<1>3. \A t \in Task : InRetryQ(t) => t \in published
  BY <1>2 DEF InRetryQ, MessageInv
<1>4. \A w \in Worker : wpc[w] # "idle" => wtask[w] \in published
  BY DEF WorkersInv, WorkerKnows
<1> QED
  BY <1>1, <1>3, <1>4 DEF MessageInv, Holds, TypeOK, DispatcherTypeOK

(***************************************************************************)
(* A published task has a delivery spec key, at least one attempt, and     *)
(* keeps both: the event of its notification is stored for good.           *)
(***************************************************************************)
LEMMA PublishedHasPolicy ==
  ASSUME ServiceInv, RoutedInv, NEW t \in published
  PROVE  /\ t \in Task /\ t[1] \in Notif /\ status[t[1]] # "NONE" /\ taskStatus[t] # "NONE"
         /\ MaxAttempts[SpecOf(t)] \in Nat
         /\ AllowedAttempts(t) \in Nat /\ AllowedAttempts(t) >= 1
         /\ StoreGrows => SpecOf(t)' = SpecOf(t) /\ AllowedAttempts(t)' = AllowedAttempts(t)
<1>1. t \in Task /\ t[1] \in Notif /\ t[2] \in Vendor /\ t = <<t[1], t[2]>>
  BY DEF ServiceInv, TypeOK, DispatcherTypeOK, Task
<1>2. t[2] \in Routed(t[1]) /\ Dispatched(t[1])
  BY DEF RoutedInv, ServiceInv, MessageInv
<1>3. event[t[1]] \in Event
  BY <1>1, <1>2 DEF Routed, RoutesOf, ServiceInv, TypeOK, StoreTypeOK
<1>4. MaxAttempts[SpecOf(t)] \in Nat
  BY <1>1, <1>3, WorkerAssumption DEF SpecOf
<1>5. status[t[1]] # "NONE" /\ taskStatus[t] # "NONE"
  BY <1>1, <1>2 DEF Dispatched, RowsExist
<1>6. StoreGrows => SpecOf(t)' = SpecOf(t)
  BY <1>1, <1>5 DEF StoreGrows, SpecOf
<1> QED
  BY <1>1, <1>4, <1>5, <1>6 DEF AllowedAttempts

(* A notification's agreement with its tasks survives while terminal rows stay. *)
LEMMA AgreementStays ==
  ASSUME ServiceInv, StoreGrows, NEW n \in Notif, status[n] # "NONE", NEW s, Agrees(n, s),
         \A t \in Task : taskStatus[t] \in TaskTerminal => taskStatus'[t] = taskStatus[t]
  PROVE  Agrees(n, s)'
<1>1. TasksOf(n)' = TasksOf(n) /\ TasksOf(n) \subseteq Task
  BY GrowthKeeps, RoutedVendors DEF ServiceInv
<1> QED
  BY <1>1 DEF Agrees

(* The rows of a task that no step touches. *)
SameRow(t) ==
  /\ taskStatus'[t] = taskStatus[t] /\ retryCount'[t] = retryCount[t]
  /\ attempts'[t] = attempts[t] /\ (t \in confirmed' <=> t \in confirmed)

(* Such a task is still due for another attempt. *)
LEMMA TriableStays ==
  ASSUME ServiceInv, RoutedInv, StoreGrows, NEW t \in published, SameRow(t), Triable(t)
  PROVE  Triable(t)'
BY PublishedHasPolicy DEF SameRow, Triable

(* A worker that does not move keeps its stage when its row stays. *)
LEMMA StageStays ==
  ASSUME ServiceInv, RoutedInv, StoreGrows, NEW w \in Worker, WorkerStage(w),
         wpc'[w] = wpc[w], wtask'[w] = wtask[w], wretry'[w] = wretry[w], wmark'[w] = wmark[w],
         wpc[w] \notin {"idle", "ack"} => SameRow(wtask[w]),
         \A t \in Task : taskStatus[t] \in TaskTerminal => taskStatus'[t] = taskStatus[t]
  PROVE  WorkerStage(w)'
<1>1. CASE wpc[w] \in {"idle", "ack"}
  BY <1>1 DEF WorkerStage
<1>2. CASE wpc[w] \notin {"idle", "ack"}
  <2>1. PICK t \in published : t = wtask[w]
    BY <1>2, MessagesArePublished
  <2>2. /\ SameRow(t) /\ (Triable(t) => Triable(t)')
        /\ AllowedAttempts(t)' = AllowedAttempts(t) /\ t[1] \in Notif /\ status[t[1]] # "NONE"
    BY <1>2, <2>1, TriableStays, PublishedHasPolicy
  <2>3. PICK s : s = wmark[w]
    OBVIOUS
  <2>4. wpc[w] = "mark" => Agrees(t[1], s)'
    BY <2>1, <2>2, <2>3, AgreementStays DEF WorkerStage
  <2> QED
    BY <2>1, <2>2, <2>3, <2>4 DEF WorkerStage, SameRow
<1> QED
  BY <1>1, <1>2

(* Stored verdicts agree with their tasks while both stay. *)
LEMMA VerdictsAgreeStill ==
  ASSUME ServiceInv, RoutedInv, StoreGrows, VerdictsInv,
         \A t \in Task : taskStatus[t] \in TaskTerminal => taskStatus'[t] = taskStatus[t],
         \A n \in Notif : status'[n] \in Terminal /\ Routed(n)' # {} => status'[n] = status[n]
  PROVE  VerdictsInv'
<1> SUFFICES ASSUME NEW n \in Notif, status'[n] \in Terminal, Routed(n)' # {}
             PROVE  Agrees(n, status[n])' /\ status'[n] = status[n]
  BY DEF VerdictsInv
<1>1. status'[n] = status[n] /\ status[n] # "NONE"
  BY DEF Terminal
<1>2. Routed(n)' = Routed(n)
  BY <1>1, GrowthKeeps DEF ServiceInv
<1>3. PICK s : s = status[n]
  OBVIOUS
<1>4. Agrees(n, s)'
  BY <1>1, <1>2, <1>3, AgreementStays DEF VerdictsInv
<1> QED
  BY <1>1, <1>3, <1>4 DEF Agrees

(***************************************************************************)
(* What is left to show of a step of a request, of the clock or of the     *)
(* dispatcher that publishes no delivery message.                          *)
(***************************************************************************)
LEMMA QuietOnce ==
  ASSUME Undisturbed, StoreGrows, UNCHANGED <<conn, deliveryQ, retryQ, published, workerVars>>,
         \A t \in published : taskStatus'[t] = taskStatus[t] /\ retryCount'[t] = retryCount[t],
         \A t \in Task \ published :
           taskStatus'[t] \in {"NONE", "PENDING"} /\ retryCount'[t] = 0,
         \A n \in Notif : status'[n] \in Terminal /\ Routed(n)' # {} => status'[n] = status[n],
         PublishInv'
  PROVE  SingleDelivery'
<1> USE DEF Undisturbed, SingleDelivery, workerVars
<1>1. \A t \in published : SameRow(t) /\ t \in Task
  BY MessagesArePublished DEF SameRow
<1>2. \A t \in Task : taskStatus[t] \in TaskTerminal => taskStatus'[t] = taskStatus[t]
  BY DEF FreshInv, TaskTerminal
<1>3. FreshInv'
  BY DEF FreshInv
<1>4. \A t \in Task : Alone(t)'
  BY DEF Alone, Holds, InRetryQ
<1>5. QueuesInv'
  BY <1>1, MessagesArePublished, TriableStays DEF QueuesInv, ServiceInv, MessageInv
<1>6. \A w \in Worker : WorkerStage(w)'
  BY <1>1, <1>2, MessagesArePublished, StageStays
<1>7. AttemptsInv'
  <2>1. \A t \in published : AllowedAttempts(t)' = AllowedAttempts(t)
    BY PublishedHasPolicy
  <2>2. \A t \in Task \ published : attempts[t] = 0
    BY DEF FreshInv
  <2> QED
    BY <1>1, <2>1, <2>2 DEF AttemptsInv
<1>8. VerdictsInv'
  BY <1>2, VerdictsAgreeStill
<1> QED
  BY <1>3, <1>4, <1>5, <1>6, <1>7, <1>8

(* The dispatcher keeps what PublishInv says while it does not move. *)
LEMMA PublishStays ==
  ASSUME ServiceInv, PublishInv, StoreGrows, UNCHANGED <<dpc, dn, di, published>>
  PROVE  PublishInv'
<1>1. dpc \in {"insert", "status", "publish"} => dn \in Notif /\ status[dn] # "NONE"
  BY DEF ServiceInv, LocalsInv, DispatchInv, Dispatched
<1>2. dpc \in {"insert", "status", "publish"} => RoutesOf(dn)' = RoutesOf(dn)
  BY <1>1, GrowthKeeps DEF ServiceInv
<1> QED
  BY <1>2 DEF PublishInv

(* Nothing of a notification that is still PENDING has been published. *)
LEMMA DispatchKeepsPublish ==
  ASSUME ServiceInv, PublishInv,
         \/ \E n \in Notif : TakeTrigger(n)
         \/ DispatchLoad \/ DispatchFail \/ DispatchStatus
  PROVE  PublishInv'
<1> USE DEF ServiceInv, storeVars, GetNotification, Query, UpdateNotificationStatus
<1>1. UNCHANGED <<published, event>>
  BY DEF TakeTrigger, DispatchLoad, DispatchFail, DispatchStatus
<1>2. CASE dpc' \in {"idle", "load", "fail"}
  BY <1>2 DEF PublishInv
<1>3. CASE DispatchLoad /\ dpc' = "insert"
  <2>1. di' = 1 /\ dn' = dn /\ dn \in Notif
    BY <1>3 DEF DispatchLoad, DispatcherGoes, LocalsInv
  <2>2. RoutesOf(dn)' = RoutesOf(dn) /\ RoutesOf(dn) \in Seq(Vendor)
    BY <1>1, <2>1, RoutedVendors DEF RoutesOf
  <2> QED
    BY <1>3, <2>1, <2>2 DEF PublishInv
<1>4. CASE DispatchStatus /\ dpc' = "publish"
  <2>1. dn' = dn /\ dn \in Notif /\ dpc = "status" /\ status[dn] = "PENDING"
    BY <1>4 DEF DispatchStatus, DispatcherGoes, LocalsInv, DispatchInv
  <2>2. RoutesOf(dn)' = RoutesOf(dn)
    BY <1>1, <2>1 DEF RoutesOf
  <2>3. \A t \in published : t[1] # dn
    BY <2>1 DEF MessageInv, Dispatched
  <2> QED
    BY <1>1, <1>4, <2>1, <2>2, <2>3 DEF PublishInv
<1> QED
  BY <1>2, <1>3, <1>4 DEF TakeTrigger, DispatchLoad, DispatchFail, DispatchStatus,
     DispatcherGoes

(* The unique constraint lets a vendor of the rules through once. *)
LEMMA InsertKeepsPublish ==
  ASSUME ServiceInv, PublishInv, DispatchInsert
  PROVE  PublishInv'
<1> USE DEF ServiceInv
<1> DEFINE routes == RoutesOf(dn)
           t == <<dn, routes[di]>>
<1>1. UNCHANGED <<published, event, status>> /\ dpc = "insert"
  BY DEF DispatchInsert, InsertDeliveryTask
<1>2. dn \in Notif /\ di \in DOMAIN routes /\ routes \in Seq(Vendor)
  BY <1>1, RoutedVendors DEF LocalsInv
<1>3. CASE dpc' = "idle"
  BY <1>3 DEF PublishInv
<1>4. CASE /\ dn' = dn /\ ~Conflicts(t)
           /\ \/ dpc' = "insert" /\ di' = di + 1
              \/ dpc' = "status" /\ ~(di < Len(routes))
  <2>1. routes' = routes
    BY <1>1, <1>4 DEF RoutesOf
  <2>2. \A i \in DOMAIN routes : i < di => routes[i] # routes[di]
    BY <1>1, <1>4 DEF DispatchInv, Conflicts
  <2>3. \A i, j \in DOMAIN routes : i < j /\ j <= di => routes[i] # routes[j]
    <3>1. \A i \in DOMAIN routes : i \in Nat /\ i <= Len(routes)
      BY <1>2
    <3> QED
      BY <1>1, <1>2, <2>2, <3>1 DEF PublishInv
  <2>4. \A i, j \in DOMAIN routes : j < di + 1 => j <= di
    BY <1>2
  <2>5. ~(di < Len(routes)) => \A j \in DOMAIN routes : j <= di
    BY <1>2
  <2> QED
    BY <1>4, <2>1, <2>3, <2>4, <2>5 DEF PublishInv
<1> QED
  BY <1>1, <1>3, <1>4 DEF DispatchInsert, DispatcherGoes

(* The task that Dispatch is about to publish has not been published. *)
LEMMA UnpublishedYet ==
  ASSUME ServiceInv, PublishInv, dpc = "publish"
  PROVE  LET routes == RoutesOf(dn) IN
         /\ dn \in Notif /\ di \in DOMAIN routes /\ routes \in Seq(Vendor)
         /\ <<dn, routes[di]>> \in Task \ published
<1> DEFINE routes == RoutesOf(dn)
<1>1. dn \in Notif /\ di \in DOMAIN routes
  BY DEF ServiceInv, LocalsInv
<1>2. routes \in Seq(Vendor)
  BY <1>1, RoutedVendors DEF ServiceInv
<1>3. di <= di /\ <<dn, routes[di]>> \in Task
  BY <1>1, <1>2 DEF Task
<1>4. \A i \in DOMAIN routes : di <= i => <<dn, routes[i]>> \notin published
  BY DEF PublishInv
<1> QED
  BY <1>1, <1>2, <1>3, <1>4

(* The vendors after it are other vendors. *)
LEMMA PublishKeepsPublish ==
  ASSUME ServiceInv, PublishInv, DispatchPublish
  PROVE  PublishInv'
<1> DEFINE routes == RoutesOf(dn)
<1>1. dpc = "publish" /\ dn \in Notif /\ di \in DOMAIN routes /\ routes \in Seq(Vendor)
  BY UnpublishedYet DEF DispatchPublish
<1>2. UNCHANGED event /\ published' \subseteq published \cup {<<dn, routes[di]>>}
  BY DEF DispatchPublish, storeVars
<1>3. CASE dpc' = "idle"
  BY <1>3 DEF PublishInv
<1>4. CASE dpc' = "publish" /\ di' = di + 1 /\ dn' = dn
  <2>1. routes' = routes
    BY <1>2, <1>4 DEF RoutesOf
  <2>2. \A i \in DOMAIN routes : di + 1 <= i => di < i /\ di <= i
    BY <1>1
  <2>3. \A i \in DOMAIN routes : di + 1 <= i => <<dn, routes[i]>> \notin published'
    BY <1>1, <1>2, <2>2 DEF PublishInv
  <2> QED
    BY <1>1, <1>4, <2>1, <2>3 DEF PublishInv
<1> QED
  BY <1>3, <1>4 DEF DispatchPublish, DispatcherGoes

(***************************************************************************)
(* What is left to show of a step of worker w, which holds its message and *)
(* sends none.                                                             *)
(***************************************************************************)
LEMMA LocalOnce ==
  ASSUME Undisturbed, StoreGrows, NEW w \in Worker, NEW t \in Task, Holds(w, t),
         UNCHANGED <<dispatcherVars, brokerVars, event, wtask>>,
         wpc'[w] # "idle",
         \A u \in Worker \ {w} :
           wpc'[u] = wpc[u] /\ wretry'[u] = wretry[u] /\ wmark'[u] = wmark[u],
         \A u \in Task \ {t} : SameRow(u),
         taskStatus[t] \in TaskTerminal => taskStatus'[t] = taskStatus[t],
         attempts'[t] <= AllowedAttempts(t),
         WorkerStage(w)', VerdictsInv'
  PROVE  SingleDelivery'
<1> USE DEF Undisturbed, SingleDelivery, dispatcherVars, brokerVars
<1>1. t \in published /\ deliveryQ[t] = 0 /\ ~InRetryQ(t) /\ wtask[w] = t
      /\ \A u \in Worker \ {w} : ~Holds(u, t)
  BY MessagesArePublished DEF Alone, Holds
<1>2. \A u \in Task : taskStatus[u] \in TaskTerminal => taskStatus'[u] = taskStatus[u]
  BY DEF SameRow
<1>3. PublishInv'
  BY PublishStays
<1>4. FreshInv'
  BY <1>1 DEF FreshInv, SameRow
<1>5. \A u \in Task : Alone(u)'
  <2>1. \A x \in Worker, u \in Task : Holds(x, u)' => Holds(x, u)
    BY DEF Holds
  <2> QED
    BY <2>1 DEF Alone, InRetryQ
<1>6. QueuesInv'
  <2>1. \A i \in DOMAIN retryQ : retryQ[i].task \in published /\ retryQ[i].task # t
    BY <1>1, MessagesArePublished DEF InRetryQ, ServiceInv, TypeOK, BrokerTypeOK
  <2>2. \A u \in Task : deliveryQ[u] > 0 => u \in published /\ u # t
    BY <1>1 DEF ServiceInv, MessageInv
  <2> QED
    BY <2>1, <2>2, MessagesArePublished, TriableStays DEF QueuesInv
<1>7. \A u \in Worker : WorkerStage(u)'
  <2>1. ASSUME NEW u \in Worker \ {w}
        PROVE  WorkerStage(u)'
    <3>1. wpc[u] \notin {"idle", "ack"} => wtask[u] \in Task \ {t}
      BY <1>1, MessagesArePublished DEF Holds
    <3> QED
      BY <1>2, <3>1, StageStays
  <2> QED
    BY <2>1
<1>8. AttemptsInv'
  <2>1. \A u \in published : AllowedAttempts(u)' = AllowedAttempts(u)
    BY PublishedHasPolicy
  <2>2. \A u \in Task \ published : attempts[u] = 0
    BY DEF FreshInv
  <2> QED
    BY <1>1, <2>1, <2>2 DEF AttemptsInv, SameRow
<1> QED
  BY <1>3, <1>4, <1>5, <1>6, <1>7, <1>8

-----------------------------------------------------------------------------
(* Rows that stay as they are satisfy what QuietOnce asks of them. *)
LEMMA RowsQuiet ==
  ASSUME Undisturbed, UNCHANGED <<taskStatus, retryCount>>
  PROVE  /\ \A t \in published : taskStatus'[t] = taskStatus[t] /\ retryCount'[t] = retryCount[t]
         /\ \A t \in Task \ published :
              taskStatus'[t] \in {"NONE", "PENDING"} /\ retryCount'[t] = 0
BY DEF Undisturbed, SingleDelivery, FreshInv

(* The steps of a request, and the clock. *)
LEMMA RequestOnce ==
  ASSUME Undisturbed, StoreGrows,
         ClientSubmits \/ (\E h \in Handler : HandlerRuns(h)) \/ ClockAdvances
  PROVE  SingleDelivery'
<1> USE DEF storeVars, brokerVars, GetNotification, Query
<1>1. /\ UNCHANGED <<conn, deliveryQ, retryQ, published, workerVars, dpc, dn, di>>
      /\ UNCHANGED <<taskStatus, retryCount>>
  BY DEF ClientSubmits, Submit, UpsertNotification, HandlerRuns, HandlerStep, SubmitPublish,
     PublishTrigger, SubmitReply, ClockAdvances, ClockTick, dispatcherVars
<1>2. \A n \in Notif : status'[n] \in Terminal => status'[n] = status[n]
  <2>1. CASE ClientSubmits
    BY <2>1 DEF ClientSubmits, Submit, UpsertNotification, Undisturbed, ServiceInv, TypeOK,
       StoreTypeOK, Terminal
  <2>2. CASE UNCHANGED status
    BY <2>2
  <2> QED
    BY <2>1, <2>2 DEF HandlerRuns, HandlerStep, SubmitPublish, SubmitReply, ClockAdvances,
       ClockTick
<1>3. PublishInv'
  BY <1>1, PublishStays DEF Undisturbed, SingleDelivery
<1> QED
  BY <1>1, <1>2, <1>3, RowsQuiet, QuietOnce

(* The dispatcher's steps up to the status DELIVERING. *)
LEMMA DispatchOnce ==
  ASSUME Undisturbed, StoreGrows, UNCHANGED workerVars,
         \/ \E n \in Notif : TakeTrigger(n)
         \/ DispatchLoad \/ DispatchFail \/ DispatchStatus
  PROVE  SingleDelivery'
<1> USE DEF Undisturbed, SingleDelivery, ServiceInv, TypeOK, StoreTypeOK, storeVars, brokerVars,
            GetNotification, Query, UpdateNotificationStatus, ReceiveTrigger
<1>1. /\ UNCHANGED <<conn, deliveryQ, retryQ, published, event>>
      /\ UNCHANGED <<taskStatus, retryCount>>
  BY DEF TakeTrigger, DispatchLoad, DispatchFail, DispatchStatus
<1>2. \A n \in Notif : status'[n] \in Terminal /\ Routed(n)' # {} => status'[n] = status[n]
  <2>1. \A n \in Notif : Routed(n)' = Routed(n)
    BY <1>1 DEF Routed, RoutesOf
  <2>2. CASE DispatchFail
    <3>1. dn \in Notif /\ Routed(dn) = {}
      BY <2>2 DEF DispatchFail, LocalsInv, DispatchInv
    <3>2. \A n \in Notif : n # dn => status'[n] = status[n]
      BY <2>2 DEF DispatchFail
    <3> QED
      BY <2>1, <3>1, <3>2
  <2>3. CASE DispatchStatus
    BY <2>3 DEF DispatchStatus, LocalsInv, Terminal
  <2>4. CASE UNCHANGED status
    BY <2>4
  <2> QED
    BY <2>2, <2>3, <2>4 DEF TakeTrigger, DispatchLoad
<1>3. PublishInv'
  BY DispatchKeepsPublish
<1> QED
  BY <1>1, <1>2, <1>3, RowsQuiet, QuietOnce

(* A row is inserted only for a vendor that has none: the prefix stays injective. *)
LEMMA InsertOnce ==
  ASSUME Undisturbed, StoreGrows, UNCHANGED workerVars, DispatchInsert
  PROVE  SingleDelivery'
<1> USE DEF Undisturbed, SingleDelivery, ServiceInv, TypeOK, StoreTypeOK, brokerVars
<1> DEFINE routes == RoutesOf(dn)
           t == <<dn, routes[di]>>
<1>1. UNCHANGED <<conn, deliveryQ, retryQ, published, event, status>> /\ dpc = "insert"
  BY DEF DispatchInsert, InsertDeliveryTask
<1>2. /\ dn \in Notif /\ di \in DOMAIN routes /\ status[dn] = "PENDING"
      /\ routes \in Seq(Vendor)
  BY <1>1, RoutedVendors DEF LocalsInv, DispatchInv
<1>3. t \in Task /\ t \notin published
  BY <1>2 DEF Task, MessageInv, Dispatched
<1>4. \/ UNCHANGED <<taskStatus, retryCount>>
      \/ /\ taskStatus' = [taskStatus EXCEPT ![t] = "PENDING"]
         /\ retryCount' = [retryCount EXCEPT ![t] = 0]
  BY DEF DispatchInsert, InsertDeliveryTask
<1>5. \A u \in published : u \in Task
  BY MessagesArePublished
<1>6. /\ \A u \in published : taskStatus'[u] = taskStatus[u] /\ retryCount'[u] = retryCount[u]
      /\ \A u \in Task \ published :
           taskStatus'[u] \in {"NONE", "PENDING"} /\ retryCount'[u] = 0
  <2>1. CASE UNCHANGED <<taskStatus, retryCount>>
    BY <2>1, RowsQuiet
  <2>2. CASE /\ taskStatus' = [taskStatus EXCEPT ![t] = "PENDING"]
             /\ retryCount' = [retryCount EXCEPT ![t] = 0]
    BY <1>3, <1>5, <2>2 DEF FreshInv
  <2> QED
    BY <1>4, <2>1, <2>2
<1>7. PublishInv'
  BY InsertKeepsPublish
<1> QED
  BY <1>1, <1>6, <1>7, QuietOnce

(* The first message of a task: it has none yet, and was never tried. *)
LEMMA PublishOnce ==
  ASSUME Undisturbed, StoreGrows, UNCHANGED workerVars, DispatchPublish
  PROVE  SingleDelivery'
<1> USE DEF Undisturbed, SingleDelivery, ServiceInv, TypeOK, workerVars
<1> DEFINE routes == RoutesOf(dn)
<1>1. PICK ok \in BOOLEAN :
        /\ PublishDelivery(<<dn, routes[di]>>, ok)
        /\ IF ok /\ di < Len(routes) THEN DispatcherGoes("publish", di + 1)
                                     ELSE DispatcherGoes("idle", 0)
  BY DEF DispatchPublish
<1>2. /\ dn \in Notif /\ di \in DOMAIN routes /\ dpc = "publish" /\ routes \in Seq(Vendor)
      /\ <<dn, routes[di]>> \notin published /\ Dispatched(dn) /\ routes[di] \in Routed(dn)
  <2>1. dpc = "publish" /\ Dispatched(dn)
    BY DEF DispatchPublish, DispatchInv
  <2> QED
    BY <2>1, UnpublishedYet DEF Routed
<1>3. PICK t \in Task : t = <<dn, routes[di]>>
  BY <1>2 DEF Task
<1>4. /\ UNCHANGED <<status, event, taskStatus, retryCount, conn, retryQ>>
      /\ deliveryQ' = [deliveryQ EXCEPT ![t] = @ + 1] /\ published' = published \cup {t}
  BY <1>1, <1>3 DEF DispatchPublish, PublishDelivery, storeVars
<1>5. t \notin published /\ deliveryQ[t] = 0 /\ ~InRetryQ(t) /\ \A w \in Worker : ~Holds(w, t)
  BY <1>2, <1>3, MessagesArePublished
<1>6. \A u \in Task : deliveryQ'[u] = IF u = t THEN 1 ELSE deliveryQ[u]
  BY <1>4, <1>5 DEF BrokerTypeOK
<1>7. PublishInv'
  BY PublishKeepsPublish
<1>8. FreshInv'
  BY <1>4 DEF FreshInv
<1>9. \A u \in Task : Alone(u)'
  BY <1>4, <1>5, <1>6 DEF Alone, Holds, InRetryQ
<1>10. \A u \in published : SameRow(u)
  BY <1>4 DEF SameRow
<1>11. Triable(t)'
  <2>1. taskStatus[t] = "PENDING" /\ attempts[t] = 0 /\ retryCount[t] = 0 /\ t \notin confirmed
    BY <1>2, <1>3, <1>5 DEF FreshInv, Dispatched, RowsExist
  <2>2. event[dn] # None
    BY <1>2 DEF RoutesOf
  <2>3. MaxAttempts[SpecOf(t)] \in Nat /\ SpecOf(t)' = SpecOf(t)
    <3>1. event[dn] \in Event
      BY <1>2, <2>2 DEF StoreTypeOK
    <3> QED
      BY <1>2, <1>3, <1>4, <3>1, WorkerAssumption DEF SpecOf
  <2> QED
    BY <1>4, <2>1, <2>3 DEF Triable, AllowedAttempts
<1>12. QueuesInv'
  BY <1>4, <1>6, <1>10, <1>11, MessagesArePublished, TriableStays DEF QueuesInv, MessageInv
<1>13. \A w \in Worker : WorkerStage(w)'
  BY <1>4, <1>10, MessagesArePublished, StageStays
<1>14. AttemptsInv'
  BY <1>4 DEF AttemptsInv, AllowedAttempts, SpecOf
<1>15. VerdictsInv'
  BY <1>4, VerdictsAgreeStill
<1> QED
  BY <1>4, <1>7, <1>8, <1>9, <1>12, <1>13, <1>14, <1>15

-----------------------------------------------------------------------------
(***************************************************************************)
(* What is left to show of a step that moves the message of t between a    *)
(* queue and a worker and writes no row.                                   *)
(***************************************************************************)
LEMMA MovedOnce ==
  ASSUME Undisturbed, UNCHANGED <<storeVars, dispatcherVars, attempts, confirmed, conn>>,
         \A u \in Task : Alone(u)', QueuesInv', \A w \in Worker : WorkerStage(w)'
  PROVE  SingleDelivery'
<1> USE DEF Undisturbed, SingleDelivery, storeVars, dispatcherVars
<1>1. StoreGrows
  BY DEF StoreGrows
<1>2. PublishInv'
  BY <1>1, PublishStays
<1>3. FreshInv' /\ AttemptsInv'
  BY DEF FreshInv, AttemptsInv, AllowedAttempts, SpecOf
<1>4. VerdictsInv'
  BY <1>1, VerdictsAgreeStill
<1> QED
  BY <1>2, <1>3, <1>4

(* Nothing about the rows, hence the stages of the other workers, changes. *)
LEMMA OthersStay ==
  ASSUME Undisturbed, UNCHANGED <<storeVars, attempts, confirmed>>, NEW w \in Worker,
         \A u \in Worker \ {w} : /\ wpc'[u] = wpc[u] /\ wtask'[u] = wtask[u]
                                 /\ wretry'[u] = wretry[u] /\ wmark'[u] = wmark[u]
  PROVE  /\ \A u \in Worker \ {w} : WorkerStage(u)'
         /\ \A t \in published : Triable(t) => Triable(t)'
<1>1. StoreGrows /\ \A t \in Task : SameRow(t)
  BY DEF StoreGrows, SameRow, storeVars
<1>2. UNCHANGED taskStatus
  BY DEF storeVars
<1> USE DEF Undisturbed, SingleDelivery
<1>3. \A t \in published : Triable(t) => Triable(t)'
  BY <1>1, TriableStays, MessagesArePublished
<1>4. \A u \in Worker : wpc[u] \notin {"idle", "ack"} => wtask[u] \in Task
  BY MessagesArePublished
<1> QED
  BY <1>1, <1>2, <1>3, <1>4, StageStays

(* A worker takes the one message of a task out of the queue. *)
LEMMA ReceiveOnce ==
  ASSUME Undisturbed, NEW w \in Worker, NEW t \in Task, Receive(w, t), UNCHANGED dispatcherVars
  PROVE  SingleDelivery'
<1> USE DEF Undisturbed, SingleDelivery
<1>1. /\ UNCHANGED <<storeVars, attempts, confirmed, conn, retryQ>> /\ deliveryQ[t] > 0
      /\ deliveryQ' = [deliveryQ EXCEPT ![t] = @ - 1]
      /\ wpc[w] = "idle" /\ wpc'[w] = "fetch" /\ wtask'[w] = t
      /\ \A u \in Worker \ {w} : /\ wpc'[u] = wpc[u] /\ wtask'[u] = wtask[u]
                                 /\ wretry'[u] = wretry[u] /\ wmark'[u] = wmark[u]
  BY DEF Receive, ReceiveDelivery, WorkerGoes, ServiceInv, TypeOK, WorkerTypeOK
<1>2. deliveryQ[t] = 1 /\ ~InRetryQ(t) /\ \A u \in Worker : ~Holds(u, t)
  BY <1>1 DEF Alone, ServiceInv, TypeOK, BrokerTypeOK
<1>3. \A u \in Task : deliveryQ'[u] = IF u = t THEN 0 ELSE deliveryQ[u]
  BY <1>1, <1>2 DEF ServiceInv, TypeOK, BrokerTypeOK
<1>4. \A u \in Task, x \in Worker : Holds(x, u)' <=> (x = w /\ u = t) \/ (x # w /\ Holds(x, u))
  BY <1>1 DEF Holds
<1>5. \A u \in Task : Alone(u)'
  <2>1. \A u \in Task : InRetryQ(u)' <=> InRetryQ(u)
    BY <1>1 DEF InRetryQ
  <2>2. Alone(t)'
    BY <1>1, <1>2, <1>3, <1>4, <2>1 DEF Alone
  <2>3. \A u \in Task \ {t} : Alone(u)'
    BY <1>1, <1>3, <1>4, <2>1 DEF Alone
  <2> QED
    BY <2>2, <2>3
<1>6. t \in published /\ Triable(t)
  BY <1>1 DEF QueuesInv, ServiceInv, MessageInv
<1>7. Triable(t)' /\ \A u \in Worker \ {w} : WorkerStage(u)'
  BY <1>1, <1>6, OthersStay
<1>8. WorkerStage(w)'
  BY <1>1, <1>7 DEF WorkerStage
<1>9. QueuesInv'
  BY <1>1, <1>3, OthersStay, MessagesArePublished DEF QueuesInv, ServiceInv, MessageInv
<1> QED
  BY <1>1, <1>5, <1>7, <1>8, <1>9, MovedOnce

(* An acknowledged worker held nothing any more. *)
LEMMA AckOnce ==
  ASSUME Undisturbed, NEW w \in Worker, WorkerAck(w), UNCHANGED dispatcherVars
  PROVE  SingleDelivery'
<1> USE DEF Undisturbed, SingleDelivery
<1>1. /\ UNCHANGED <<storeVars, attempts, confirmed, conn, deliveryQ, retryQ>>
      /\ wpc[w] = "ack" /\ wpc'[w] = "idle"
      /\ \A u \in Worker \ {w} : /\ wpc'[u] = wpc[u] /\ wtask'[u] = wtask[u]
                                 /\ wretry'[u] = wretry[u] /\ wmark'[u] = wmark[u]
  BY DEF WorkerAck, Ack, WorkerForgets, WorkerGoes, brokerVars, ServiceInv, TypeOK, WorkerTypeOK
<1>2. \A u \in Task, x \in Worker : Holds(x, u)' <=> Holds(x, u)
  BY <1>1 DEF Holds
<1>3. \A u \in Task : Alone(u)'
  BY <1>1, <1>2 DEF Alone, InRetryQ
<1>4. QueuesInv' /\ \A u \in Worker \ {w} : WorkerStage(u)'
  BY <1>1, OthersStay, MessagesArePublished DEF QueuesInv, ServiceInv, MessageInv
<1>5. WorkerStage(w)'
  BY <1>1 DEF WorkerStage
<1> QED
  BY <1>1, <1>3, <1>4, <1>5, MovedOnce

(* The retry queue with one message more at its tail. *)
LEMMA RetryQAppended ==
  ASSUME ServiceInv, NEW m \in RetryMsg, retryQ' = Append(retryQ, m)
  PROVE  /\ \A i \in DOMAIN retryQ' : \/ i \in DOMAIN retryQ /\ retryQ'[i] = retryQ[i]
                                      \/ i = Len(retryQ) + 1 /\ retryQ'[i] = m
         /\ \A u \in Task : InRetryQ(u)' => InRetryQ(u) \/ u = m.task
         /\ \A i \in DOMAIN retryQ, u \in Task : retryQ[i].task = u => InRetryQ(u)
<1>1. retryQ \in Seq(RetryMsg)
  BY DEF ServiceInv, TypeOK, BrokerTypeOK
<1>2. \A i \in DOMAIN retryQ' : \/ i \in DOMAIN retryQ /\ retryQ'[i] = retryQ[i]
                                \/ i = Len(retryQ) + 1 /\ retryQ'[i] = m
  BY <1>1
<1>3. DOMAIN retryQ = 1..Len(retryQ) /\ DOMAIN retryQ' = 1..Len(retryQ')
  BY <1>1
<1> QED
  BY <1>2, <1>3 DEF InRetryQ

(* What is left to show when worker w gives its message to the retry queue. *)
LEMMA SentBackOnce ==
  ASSUME Undisturbed, NEW w \in Worker, NEW t \in Task, Holds(w, t), NEW m \in RetryMsg,
         m.task = t, m.ttl => Triable(t), retryQ' = Append(retryQ, m),
         UNCHANGED <<storeVars, dispatcherVars, attempts, confirmed, conn, deliveryQ>>,
         wpc'[w] \in {"idle", "ack"},
         \A u \in Worker \ {w} : /\ wpc'[u] = wpc[u] /\ wtask'[u] = wtask[u]
                                 /\ wretry'[u] = wretry[u] /\ wmark'[u] = wmark[u]
  PROVE  SingleDelivery'
<1> USE DEF Undisturbed, SingleDelivery
<1>1. t \in published /\ deliveryQ[t] = 0 /\ ~InRetryQ(t) /\ \A u \in Worker \ {w} : ~Holds(u, t)
  BY MessagesArePublished DEF Alone, Holds
<1>2. \A u \in Task, x \in Worker : Holds(x, u)' <=> x # w /\ Holds(x, u)
  BY DEF Holds
<1>3. /\ \A i \in DOMAIN retryQ' : \/ i \in DOMAIN retryQ /\ retryQ'[i] = retryQ[i]
                                   \/ i = Len(retryQ) + 1 /\ retryQ'[i] = m
      /\ \A u \in Task : InRetryQ(u)' => InRetryQ(u) \/ u = t
      /\ \A i \in DOMAIN retryQ, u \in Task : retryQ[i].task = u => InRetryQ(u)
  BY RetryQAppended
<1>4. \A u \in Task : Alone(u)'
  <2>1. Alone(t)'
    BY <1>1, <1>2, <1>3 DEF Alone
  <2>2. \A u \in Task \ {t} : Alone(u)'
    BY <1>1, <1>2, <1>3 DEF Alone
  <2> QED
    BY <2>1, <2>2
<1>5. /\ \A u \in Worker \ {w} : WorkerStage(u)'
      /\ \A u \in published : Triable(u) => Triable(u)'
  BY OthersStay
<1>6. WorkerStage(w)'
  BY DEF WorkerStage
<1>7. QueuesInv'
  <2>1. ASSUME NEW i \in DOMAIN retryQ', retryQ'[i].ttl
        PROVE  Triable(retryQ[i].task)'
    <3>1. PICK u \in published : u = retryQ'[i].task /\ Triable(u)
      BY <1>1, <1>3, <2>1, MessagesArePublished DEF QueuesInv
    <3>2. Triable(u)'
      BY <1>5, <3>1
    <3> QED
      BY <3>1, <3>2 DEF Triable, AllowedAttempts, SpecOf
  <2>2. \A u \in Task : deliveryQ'[u] > 0 => Triable(u)'
    BY <1>5 DEF QueuesInv, ServiceInv, MessageInv
  <2> QED
    BY <2>1, <2>2 DEF QueuesInv
<1> QED
  BY <1>4, <1>5, <1>6, <1>7, MovedOnce

(* The delayed copy replaces the message the worker is about to acknowledge. *)
LEMMA DelayOnce ==
  ASSUME Undisturbed, NEW w \in Worker, Delay(w), UNCHANGED dispatcherVars
  PROVE  SingleDelivery'
<1> USE DEF Undisturbed, SingleDelivery
<1>1. PICK t \in Task : t = wtask[w] /\ Holds(w, t) /\ Triable(t)
  <2>1. wtask[w] \in Task /\ wpc[w] = "delay"
    BY BusyWorker DEF Delay
  <2> QED
    BY <2>1 DEF Holds, WorkerStage
<1>2. PICK m \in RetryMsg : m = [task |-> t, ttl |-> TRUE]
  BY DEF RetryMsg
<1>3. /\ retryQ' = Append(retryQ, m)
      /\ UNCHANGED <<storeVars, attempts, confirmed, conn, deliveryQ>> /\ wpc'[w] = "ack"
      /\ \A u \in Worker \ {w} : /\ wpc'[u] = wpc[u] /\ wtask'[u] = wtask[u]
                                 /\ wretry'[u] = wretry[u] /\ wmark'[u] = wmark[u]
  BY <1>1, <1>2 DEF Delay, PublishDelayed, PublishAnswers, WorkerGoes, ServiceInv, TypeOK,
     WorkerTypeOK
<1> QED
  BY <1>1, <1>2, <1>3, SentBackOnce

(* A rejected message waits in the retry queue without an expiration. *)
LEMMA NackOnce ==
  ASSUME Undisturbed, NEW w \in Worker, WorkerNack(w), UNCHANGED dispatcherVars
  PROVE  SingleDelivery'
<1> USE DEF Undisturbed, SingleDelivery
<1>1. PICK t \in Task : t = wtask[w] /\ Holds(w, t)
  <2>1. wtask[w] \in Task /\ wpc[w] = "nack"
    BY BusyWorker DEF WorkerNack
  <2> QED
    BY <2>1 DEF Holds
<1>2. PICK m \in RetryMsg : m = [task |-> t, ttl |-> FALSE]
  BY DEF RetryMsg
<1>3. /\ retryQ' = Append(retryQ, m)
      /\ UNCHANGED <<storeVars, attempts, confirmed, conn, deliveryQ>> /\ wpc'[w] = "idle"
      /\ \A u \in Worker \ {w} : /\ wpc'[u] = wpc[u] /\ wtask'[u] = wtask[u]
                                 /\ wretry'[u] = wretry[u] /\ wmark'[u] = wmark[u]
  BY <1>1, <1>2 DEF WorkerNack, Nack, WorkerForgets, WorkerGoes, ServiceInv, TypeOK,
     WorkerTypeOK
<1> QED
  BY <1>1, <1>2, <1>3, SentBackOnce

(* The head of the retry queue moves to the delivery queue. *)
LEMMA ExpireOnce ==
  ASSUME Undisturbed, RetryExpires
  PROVE  SingleDelivery'
<1> USE DEF Undisturbed, SingleDelivery
<1>1. retryQ \in Seq(RetryMsg) /\ retryQ # <<>> /\ 1 \in DOMAIN retryQ /\ Head(retryQ) = retryQ[1]
  BY DEF RetryExpires, Expire, ServiceInv, TypeOK, BrokerTypeOK
<1>2. PICK t \in published : t = retryQ[1].task
  BY <1>1, MessagesArePublished
<1>3. /\ retryQ' = Tail(retryQ) /\ retryQ[1].ttl /\ t \in Task
      /\ deliveryQ' = [deliveryQ EXCEPT ![t] = @ + 1]
      /\ UNCHANGED <<storeVars, dispatcherVars, conn, workerVars>>
      /\ UNCHANGED <<wpc, wtask, wretry, wmark, attempts, confirmed>>
  BY <1>1, <1>2, MessagesArePublished DEF RetryExpires, Expire, workerVars
<1>4. Triable(t) /\ InRetryQ(t) /\ deliveryQ[t] = 0 /\ \A w \in Worker : ~Holds(w, t)
  <2>1. InRetryQ(t) /\ Triable(t)
    BY <1>1, <1>2, <1>3 DEF InRetryQ, QueuesInv
  <2> QED
    BY <1>3, <2>1 DEF Alone, ServiceInv, TypeOK, BrokerTypeOK
<1>5. \A i \in DOMAIN retryQ' : i + 1 \in DOMAIN retryQ /\ retryQ'[i] = retryQ[i + 1] /\ i \in Nat
                                /\ i + 1 # 1
  BY <1>1, <1>3
<1>6. \A u \in Task : deliveryQ'[u] = IF u = t THEN 1 ELSE deliveryQ[u]
  BY <1>3, <1>4 DEF ServiceInv, TypeOK, BrokerTypeOK
<1>7. /\ \A u \in Task : InRetryQ(u)' => InRetryQ(u)
      /\ \A i \in DOMAIN retryQ' : retryQ'[i].task # t
  <2>1. DOMAIN retryQ = 1..Len(retryQ) /\ DOMAIN retryQ' = 1..Len(retryQ')
    BY <1>1, <1>3
  <2>2. \A i \in DOMAIN retryQ' : retryQ'[i].task # t
    BY <1>1, <1>2, <1>3, <1>5 DEF Alone
  <2> QED
    BY <1>5, <2>1, <2>2 DEF InRetryQ
<1>8. ~InRetryQ(t)'
  <2>1. \A i \in 1..Len(retryQ') : i \in DOMAIN retryQ'
    BY <1>1, <1>3
  <2> QED
    BY <1>7, <2>1 DEF InRetryQ
<1>9. \A u \in Task : Alone(u)'
  <2>1. \A u \in Task, w \in Worker : Holds(w, u)' <=> Holds(w, u)
    BY <1>3 DEF Holds
  <2>2. Alone(t)'
    BY <1>3, <1>4, <1>6, <1>7, <1>8, <2>1 DEF Alone
  <2>3. ASSUME NEW u \in Task \ {t} PROVE Alone(u)'
    <3>1. \A i, j \in DOMAIN retryQ' : retryQ'[i].task = u /\ retryQ'[j].task = u => i = j
      BY <1>5 DEF Alone
    <3> QED
      BY <1>3, <1>6, <1>7, <2>1, <3>1 DEF Alone
  <2> QED
    BY <2>2, <2>3
<1>10. /\ \A w \in Worker : WorkerStage(w)'
       /\ \A u \in published : Triable(u) => Triable(u)'
  <2>1. StoreGrows /\ \A u \in Task : SameRow(u)
    BY <1>3 DEF StoreGrows, SameRow, storeVars
  <2>2. UNCHANGED taskStatus
    BY <1>3 DEF storeVars
  <2>3. \A w \in Worker : wpc[w] \notin {"idle", "ack"} => wtask[w] \in Task
    BY MessagesArePublished
  <2> QED
    BY <1>3, <2>1, <2>2, <2>3, MessagesArePublished, TriableStays, StageStays
<1>11. QueuesInv'
  <2>1. ASSUME NEW i \in DOMAIN retryQ', retryQ'[i].ttl
        PROVE  Triable(retryQ[i].task)'
    <3>1. PICK u \in published : u = retryQ'[i].task /\ Triable(u)
      BY <1>5, <2>1, MessagesArePublished DEF QueuesInv
    <3>2. Triable(u)'
      BY <1>10, <3>1
    <3> QED
      BY <3>1, <3>2 DEF Triable, AllowedAttempts, SpecOf
  <2>2. \A u \in Task : deliveryQ'[u] > 0 => Triable(u)'
    BY <1>4, <1>6, <1>10 DEF QueuesInv, ServiceInv, MessageInv
  <2> QED
    BY <2>1, <2>2 DEF QueuesInv
<1> QED
  BY <1>3, <1>9, <1>10, <1>11, MovedOnce

-----------------------------------------------------------------------------
(* What is left to show of a statement of worker w about its task t. *)
LEMMA StatementOnce ==
  ASSUME Undisturbed, StoreGrows, NEW w \in Worker, NEW t \in Task, Holds(w, t),
         UNCHANGED <<dispatcherVars, brokerVars, status, event, wtask, attempts, confirmed>>,
         NEW pc \in WorkerPc \ {"idle"}, WorkerGoes(w, pc),
         \A u \in Worker \ {w} : wretry'[u] = wretry[u] /\ wmark'[u] = wmark[u],
         \A u \in Task \ {t} : taskStatus'[u] = taskStatus[u] /\ retryCount'[u] = retryCount[u],
         taskStatus[t] \in TaskTerminal => taskStatus'[t] = taskStatus[t],
         WorkerStage(w)'
  PROVE  SingleDelivery'
<1> USE DEF Undisturbed, SingleDelivery
<1>1. wpc'[w] # "idle" /\ \A u \in Worker \ {w} : wpc'[u] = wpc[u]
  BY DEF WorkerGoes, ServiceInv, TypeOK, WorkerTypeOK
<1>2. \A u \in Task \ {t} : SameRow(u)
  BY DEF SameRow
<1>3. attempts'[t] <= AllowedAttempts(t)
  <2>1. t \in published /\ AllowedAttempts(t) \in Nat /\ attempts[t] \in Nat
    BY MessagesArePublished, PublishedHasPolicy DEF Holds, ServiceInv, TypeOK, WorkerTypeOK
  <2> QED
    BY <2>1 DEF AttemptsInv
<1>4. \A u \in Task : taskStatus[u] \in TaskTerminal => taskStatus'[u] = taskStatus[u]
  OBVIOUS
<1>5. VerdictsInv'
  BY <1>4, VerdictsAgreeStill
<1> QED
  BY <1>1, <1>2, <1>3, <1>5, LocalOnce

(* The worker between two calls, and what its stage says of its row. *)
LEMMA WorkerOnItsTask ==
  ASSUME Undisturbed, NEW w \in Worker, wpc[w] \notin {"idle", "ack"}
  PROVE  /\ wtask[w] \in Task /\ wtask[w] \in published /\ Holds(w, wtask[w])
         /\ WorkerStage(w)
         /\ taskStatus[wtask[w]] \in TaskStatus /\ retryCount[wtask[w]] \in Nat
         /\ attempts[wtask[w]] \in Nat /\ wretry[w] \in Nat
         /\ AllowedAttempts(wtask[w]) \in Nat /\ AllowedAttempts(wtask[w]) >= 1
         /\ MaxAttempts[SpecOf(wtask[w])] \in Nat
<1>1. wtask[w] \in Task /\ wtask[w] \in published
  BY BusyWorker DEF Undisturbed
<1>2. \A t \in published : /\ AllowedAttempts(t) \in Nat /\ AllowedAttempts(t) >= 1
                           /\ MaxAttempts[SpecOf(t)] \in Nat
  BY PublishedHasPolicy DEF Undisturbed
<1> QED
  BY <1>1, <1>2 DEF Undisturbed, SingleDelivery, Holds, ServiceInv, TypeOK, StoreTypeOK,
     WorkerTypeOK

(* What the worker reads about the row is what it counts on in its call. *)
LEMMA FetchOnce ==
  ASSUME Undisturbed, StoreGrows, NEW w \in Worker, Fetch(w), UNCHANGED dispatcherVars
  PROVE  SingleDelivery'
<1>1. PICK t \in published : t = wtask[w] /\ t \in Task /\ Holds(w, t) /\ Triable(t)
  BY WorkerOnItsTask DEF Fetch, WorkerStage
<1>2. PICK r \in ReadAnswer, pc \in {"nack", "call", "dead"} :
        /\ Query(r) /\ WorkerGoes(w, pc) /\ (pc # "nack" => r = "ok")
        /\ wretry' = [wretry EXCEPT ![w] = IF r = "ok" THEN retryCount[t] ELSE @]
  BY <1>1 DEF Fetch, GetDeliveryTask
<1>3. /\ UNCHANGED <<brokerVars, status, event, taskStatus, retryCount>>
      /\ UNCHANGED <<wtask, wmark, attempts, confirmed>>
  BY <1>2 DEF Fetch, Query
<1>4. wpc'[w] = pc /\ (pc = "call" => wretry'[w] = retryCount[t])
      /\ \A u \in Worker \ {w} : wretry'[u] = wretry[u]
  BY <1>1, <1>2 DEF WorkerGoes, Undisturbed, ServiceInv, TypeOK, WorkerTypeOK
<1>5. Triable(t)'
  BY <1>1, <1>3, TriableStays DEF SameRow, Undisturbed
<1>6. WorkerStage(w)'
  BY <1>1, <1>3, <1>4, <1>5 DEF WorkerStage, Triable
<1> QED
  BY <1>1, <1>2, <1>3, <1>4, <1>6, StatementOnce DEF WorkerPc

(* The attempt is counted; a last one is followed by no other. *)
LEMMA CallOnce ==
  ASSUME Undisturbed, StoreGrows, NEW w \in Worker, Call(w), UNCHANGED dispatcherVars
  PROVE  SingleDelivery'
<1>1. PICK t \in published :
        /\ t = wtask[w] /\ t \in Task /\ Holds(w, t) /\ Triable(t) /\ wretry[w] = retryCount[t]
        /\ attempts[t] \in Nat /\ AllowedAttempts(t) \in Nat /\ MaxAttempts[SpecOf(t)] \in Nat
  BY WorkerOnItsTask DEF Call, WorkerStage
<1>2. PICK pc \in {"succeed", "dead", "retry"} :
        /\ WorkerGoes(w, pc)
        /\ pc = "retry" => ~LastAttempt(w)
        /\ confirmed' = IF pc = "succeed" THEN confirmed \cup {t} ELSE confirmed
  BY <1>1 DEF Call, Outcome
<1>3. /\ UNCHANGED <<brokerVars, status, event, taskStatus, retryCount>>
      /\ UNCHANGED <<wtask, wretry, wmark>>
  BY DEF Call, storeVars
<1>4. /\ attempts'[t] = attempts[t] + 1
      /\ \A u \in Task \ {t} : attempts'[u] = attempts[u]
  BY <1>1 DEF Call, Undisturbed, ServiceInv, TypeOK, WorkerTypeOK
<1>5. wpc'[w] = pc /\ \A u \in Worker \ {w} : wpc'[u] = wpc[u]
  BY <1>2 DEF WorkerGoes, Undisturbed, ServiceInv, TypeOK, WorkerTypeOK
<1>6. attempts'[t] <= AllowedAttempts(t)
  BY <1>1, <1>4 DEF Triable
<1>7. AllowedAttempts(t)' = AllowedAttempts(t)
  BY PublishedHasPolicy DEF Undisturbed
<1>8. pc = "retry" => attempts'[t] = wretry'[w] + 1 /\ attempts'[t] < AllowedAttempts(t)
  BY <1>1, <1>2, <1>3, <1>4 DEF Triable, LastAttempt, AllowedAttempts
<1>9. taskStatus[t] = "PENDING" /\ t \notin confirmed
  BY <1>1 DEF Triable
<1>10. WorkerStage(w)'
  BY <1>1, <1>2, <1>3, <1>5, <1>7, <1>8, <1>9 DEF WorkerStage
<1>11. \A u \in Task \ {t} : SameRow(u)
  BY <1>2, <1>3, <1>4 DEF SameRow
<1>12. VerdictsInv'
  BY <1>3, VerdictsAgreeStill DEF Undisturbed, SingleDelivery
<1> QED
  BY <1>1, <1>3, <1>5, <1>6, <1>10, <1>11, <1>12, LocalOnce

(* A 2xx answer is written to the row, or the row stays PENDING for good. *)
LEMMA SucceedOnce ==
  ASSUME Undisturbed, StoreGrows, NEW w \in Worker, Succeed(w), UNCHANGED dispatcherVars
  PROVE  SingleDelivery'
<1>1. PICK t \in published : t = wtask[w] /\ t \in Task /\ Holds(w, t) /\ taskStatus[t] = "PENDING"
  BY WorkerOnItsTask DEF Succeed, WorkerStage
<1>2. PICK r \in DbAnswer : UpdateDeliveryTaskStatus(t, "SUCCEEDED", r)
  BY <1>1 DEF Succeed
<1>3. WorkerGoes(w, "count")
      /\ UNCHANGED <<brokerVars, status, event, wtask, wretry, wmark, attempts, confirmed>>
  BY <1>2 DEF Succeed, WorkerDbFrame, UpdateDeliveryTaskStatus
<1>4. \A u \in Task \ {t} : taskStatus'[u] = taskStatus[u] /\ retryCount'[u] = retryCount[u]
  BY <1>1, <1>2 DEF UpdateDeliveryTaskStatus, Undisturbed, ServiceInv, TypeOK, StoreTypeOK
<1>5. wpc'[w] = "count"
  BY <1>3 DEF WorkerGoes, Undisturbed, ServiceInv, TypeOK, WorkerTypeOK
<1>6. WorkerStage(w)'
  BY <1>5 DEF WorkerStage
<1> QED
  BY <1>1, <1>3, <1>4, <1>6, StatementOnce DEF WorkerPc, TaskTerminal

(* The retry is counted before its message is published. *)
LEMMA RetryOnce ==
  ASSUME Undisturbed, StoreGrows, NEW w \in Worker, Retry(w), UNCHANGED dispatcherVars
  PROVE  SingleDelivery'
<1>1. PICK t \in published :
        /\ t = wtask[w] /\ t \in Task /\ Holds(w, t) /\ taskStatus[t] = "PENDING"
        /\ t \notin confirmed /\ attempts[t] = wretry[w] + 1 /\ attempts[t] < AllowedAttempts(t)
  BY WorkerOnItsTask DEF Retry, WorkerStage
<1>2. PICK r \in DbAnswer, pc \in {"delay", "nack"} :
        /\ UpdateDeliveryTaskRetry(t, wretry[w] + 1, r) /\ WorkerGoes(w, pc)
        /\ pc = "delay" => r = "ok"
  BY <1>1 DEF Retry
<1>3. UNCHANGED <<brokerVars, status, event, taskStatus, wtask, wretry, wmark, attempts, confirmed>>
  BY <1>2 DEF Retry, WorkerDbFrame, UpdateDeliveryTaskRetry
<1>4. /\ \A u \in Task \ {t} : retryCount'[u] = retryCount[u]
      /\ pc = "delay" => retryCount'[t] = wretry[w] + 1
  BY <1>1, <1>2 DEF UpdateDeliveryTaskRetry, Applied, Undisturbed, ServiceInv, TypeOK, StoreTypeOK
<1>5. wpc'[w] = pc
  BY <1>2 DEF WorkerGoes, Undisturbed, ServiceInv, TypeOK, WorkerTypeOK
<1>6. AllowedAttempts(t)' = AllowedAttempts(t)
  BY PublishedHasPolicy DEF Undisturbed
<1>7. pc = "delay" => Triable(t)'
  BY <1>1, <1>3, <1>4, <1>6 DEF Triable
<1>8. WorkerStage(w)'
  BY <1>1, <1>3, <1>5, <1>7 DEF WorkerStage, Triable
<1> QED
  BY <1>1, <1>2, <1>3, <1>4, <1>8, StatementOnce DEF WorkerPc

(* The first update of handleDeadLetter. *)
LEMMA DeadOnce ==
  ASSUME Undisturbed, StoreGrows, NEW w \in Worker, Dead(w), UNCHANGED dispatcherVars
  PROVE  SingleDelivery'
<1>1. PICK t \in published : t = wtask[w] /\ t \in Task /\ Holds(w, t) /\ taskStatus[t] = "PENDING"
  BY WorkerOnItsTask DEF Dead, WorkerStage
<1>2. PICK r \in DbAnswer, pc \in {"letter", "nack"} :
        /\ UpdateDeliveryTaskStatus(t, "DEAD_LETTER", r) /\ WorkerGoes(w, pc)
        /\ pc = "letter" => r = "ok"
  BY <1>1 DEF Dead
<1>3. UNCHANGED <<brokerVars, status, event, wtask, wretry, wmark, attempts, confirmed>>
  BY <1>2 DEF Dead, WorkerDbFrame, UpdateDeliveryTaskStatus
<1>4. /\ \A u \in Task \ {t} : taskStatus'[u] = taskStatus[u] /\ retryCount'[u] = retryCount[u]
      /\ pc = "letter" => taskStatus'[t] = "DEAD_LETTER"
  BY <1>1, <1>2 DEF UpdateDeliveryTaskStatus, Applied, Undisturbed, ServiceInv, TypeOK, StoreTypeOK
<1>5. wpc'[w] = pc
  BY <1>2 DEF WorkerGoes, Undisturbed, ServiceInv, TypeOK, WorkerTypeOK
<1>6. WorkerStage(w)'
  BY <1>1, <1>3, <1>4, <1>5 DEF WorkerStage
<1> QED
  BY <1>1, <1>2, <1>3, <1>4, <1>6, StatementOnce DEF WorkerPc, TaskTerminal

(* The second one repeats the first. *)
LEMMA LetterOnce ==
  ASSUME Undisturbed, StoreGrows, NEW w \in Worker, Letter(w), UNCHANGED dispatcherVars
  PROVE  SingleDelivery'
<1>1. PICK t \in published :
        t = wtask[w] /\ t \in Task /\ Holds(w, t) /\ taskStatus[t] = "DEAD_LETTER"
  BY WorkerOnItsTask DEF Letter, WorkerStage
<1>2. PICK r \in DbAnswer, pc \in {"count", "nack"} :
        UpdateDeliveryTaskStatus(t, "DEAD_LETTER", r) /\ WorkerGoes(w, pc)
  BY <1>1 DEF Letter, InsertDeadLetter
<1>3. UNCHANGED <<brokerVars, status, event, wtask, wretry, wmark, attempts, confirmed>>
  BY <1>2 DEF Letter, WorkerDbFrame, UpdateDeliveryTaskStatus
<1>4. \A u \in Task : taskStatus'[u] = taskStatus[u] /\ retryCount'[u] = retryCount[u]
  BY <1>1, <1>2 DEF UpdateDeliveryTaskStatus, Undisturbed, ServiceInv, TypeOK, StoreTypeOK
<1>5. wpc'[w] = pc
  BY <1>2 DEF WorkerGoes, Undisturbed, ServiceInv, TypeOK, WorkerTypeOK
<1>6. WorkerStage(w)'
  BY <1>5 DEF WorkerStage
<1> QED
  BY <1>1, <1>2, <1>3, <1>4, <1>6, StatementOnce DEF WorkerPc

(***************************************************************************)
(* The status that the counts imply is the one the routed tasks add up to: *)
(* every routed vendor has its row and no other vendor has one.            *)
(***************************************************************************)
LEMMA CountsAgree ==
  ASSUME ServiceInv, RoutedInv, NEW n \in Notif, RowsExist(n), AllTerminal(n),
         TasksOf(n) # {}
  PROVE  Agrees(n, RolledUp(n))
<1> DEFINE S == VendorsWith(n, {"SUCCEEDED"})
           D == VendorsWith(n, {"DEAD_LETTER"})
<1>1. TypeOK /\ Routed(n) \subseteq Vendor
  BY RoutedVendors DEF ServiceInv
<1>2. IsFiniteSet(S) /\ IsFiniteSet(D)
  BY StoreAssumption, FS_Subset DEF VendorsWith
<1>3. (DeadLetter(n) = 0 <=> D = {}) /\ (Succeeded(n) = 0 <=> S = {})
  BY <1>2, FS_EmptySet DEF DeadLetter, Succeeded
<1>4. \A v \in Routed(n) : taskStatus[<<n, v>>] \in TaskTerminal
  BY <1>1, CountsDecide DEF RowsExist
<1>5. \A v \in Vendor : taskStatus[<<n, v>>] # "NONE" => v \in Routed(n)
  <2>1. \A v \in Vendor : <<n, v>> \in Task
    BY DEF Task
  <2> QED
    BY <2>1 DEF RoutedInv
<1>6. S \subseteq Routed(n) /\ D \subseteq Routed(n)
  BY <1>5 DEF VendorsWith
<1>7. /\ D = {} <=> \A v \in Routed(n) : taskStatus[<<n, v>>] # "DEAD_LETTER"
      /\ S = {} <=> \A v \in Routed(n) : taskStatus[<<n, v>>] # "SUCCEEDED"
  BY <1>1, <1>6 DEF VendorsWith
<1>8. \A t \in TasksOf(n) : taskStatus[t] \in TaskTerminal
  BY <1>4 DEF TasksOf
<1>9. /\ D = {} <=> \A t \in TasksOf(n) : taskStatus[t] # "DEAD_LETTER"
      /\ S = {} <=> \A t \in TasksOf(n) : taskStatus[t] # "SUCCEEDED"
  BY <1>7 DEF TasksOf
<1>10. /\ RolledUp(n) = "SUCCEEDED" <=> D = {}
       /\ RolledUp(n) = "FAILED" <=> D # {} /\ S = {}
  BY <1>3 DEF RolledUp
<1>11. PICK t \in TasksOf(n) : TRUE
  OBVIOUS
<1> QED
  BY <1>8, <1>9, <1>10, <1>11 DEF Agrees, TaskTerminal

(* The verdict a worker is about to store is the one its counts imply. *)
LEMMA CountOnce ==
  ASSUME Undisturbed, StoreGrows, NEW w \in Worker, Count(w), UNCHANGED dispatcherVars
  PROVE  SingleDelivery'
<1> USE DEF Undisturbed
<1>1. PICK t \in published : t = wtask[w] /\ t \in Task /\ Holds(w, t)
  BY WorkerOnItsTask DEF Count
<1>2. PICK n \in Notif : n = t[1] /\ Dispatched(n) /\ TasksOf(n) # {}
  <2>1. t[1] \in Notif /\ Dispatched(t[1]) /\ t[2] \in Routed(t[1])
    BY <1>1 DEF Task, RoutedInv, ServiceInv, MessageInv
  <2> QED
    BY <2>1 DEF TasksOf
<1>3. PICK r \in ReadAnswer, pc \in {"mark", "ack"} :
        /\ Query(r) /\ WorkerGoes(w, pc)
        /\ pc = "mark" => AllTerminal(n) /\ wmark' = [wmark EXCEPT ![w] = RolledUp(n)]
        /\ pc = "ack" => wmark' = wmark
  BY <1>1, <1>2 DEF Count, GetDeliveryTaskCounts
<1>4. /\ UNCHANGED <<brokerVars, status, event, taskStatus, retryCount>>
      /\ UNCHANGED <<wtask, wretry, attempts, confirmed>>
  BY <1>3 DEF Count, Query
<1>5. PICK s : s = RolledUp(n)
  OBVIOUS
<1>6. wpc'[w] = pc /\ (pc = "mark" => wmark'[w] = s)
      /\ \A u \in Worker \ {w} : wmark'[u] = wmark[u]
  BY <1>3, <1>5 DEF WorkerGoes, ServiceInv, TypeOK, WorkerTypeOK
<1>7. pc = "mark" => Agrees(n, s)
  BY <1>2, <1>3, <1>5, CountsAgree DEF Dispatched
<1>8. Agrees(n, s) => Agrees(n, s)'
  BY <1>2, <1>4, AgreementStays DEF Dispatched
<1>9. WorkerStage(w)'
  BY <1>1, <1>2, <1>4, <1>6, <1>7, <1>8 DEF WorkerStage, Agrees
<1> QED
  BY <1>1, <1>3, <1>4, <1>6, <1>9, StatementOnce DEF WorkerPc

(* It still is when it is stored, and every other verdict stays. *)
LEMMA MarkOnce ==
  ASSUME Undisturbed, StoreGrows, NEW w \in Worker, Mark(w), UNCHANGED dispatcherVars
  PROVE  SingleDelivery'
<1> USE DEF Undisturbed, SingleDelivery
<1>1. PICK t \in published : t = wtask[w] /\ t \in Task /\ Holds(w, t) /\ Agrees(t[1], wmark[w])
                             /\ attempts[t] \in Nat /\ AllowedAttempts(t) \in Nat
  BY WorkerOnItsTask DEF Mark, WorkerStage
<1>2. PICK s : s = wmark[w]
  OBVIOUS
<1>3. PICK n \in Notif : n = t[1] /\ status[n] # "NONE" /\ Agrees(n, s)
  BY <1>1, <1>2, PublishedHasPolicy
<1>4. PICK r \in DbAnswer : UpdateNotificationStatus(n, s, r)
  BY <1>1, <1>2, <1>3 DEF Mark
<1>5. /\ UNCHANGED <<brokerVars, event, taskStatus, retryCount, wtask, wretry, wmark>>
      /\ UNCHANGED <<attempts, confirmed>>
  BY <1>4 DEF Mark, UpdateNotificationStatus, WorkerDbFrame
<1>6. \A m \in Notif : status'[m] = status[m] \/ (m = n /\ status'[m] = s)
  BY <1>4 DEF UpdateNotificationStatus, ServiceInv, TypeOK, StoreTypeOK
<1>7. \A m \in Notif : Routed(m)' = Routed(m) /\ TasksOf(m)' = TasksOf(m)
  BY <1>5 DEF TasksOf, Routed, RoutesOf
<1>8. VerdictsInv'
  BY <1>3, <1>5, <1>6, <1>7 DEF VerdictsInv, Agrees
<1>9. wpc'[w] = "ack" /\ \A u \in Worker \ {w} : wpc'[u] = wpc[u]
  BY DEF Mark, WorkerGoes, ServiceInv, TypeOK, WorkerTypeOK
<1>10. WorkerStage(w)'
  BY <1>9 DEF WorkerStage
<1>11. attempts'[t] <= AllowedAttempts(t)
  BY <1>1, <1>5 DEF AttemptsInv
<1>12. \A u \in Task : SameRow(u)
  BY <1>5 DEF SameRow
<1> QED
  BY <1>1, <1>5, <1>8, <1>9, <1>10, <1>11, <1>12, LocalOnce

-----------------------------------------------------------------------------
(* Every step of a worker. *)
LEMMA WorkerOnce ==
  ASSUME Undisturbed, StoreGrows, NEW w \in Worker, WorkerRuns(w)
  PROVE  SingleDelivery'
<1>1. UNCHANGED dispatcherVars
  BY DEF WorkerRuns
<1>2. CASE \E t \in Task : Receive(w, t)
  BY <1>1, <1>2, ReceiveOnce
<1>3. CASE Fetch(w) \/ Call(w) \/ Succeed(w) \/ Retry(w)
  BY <1>1, <1>3, FetchOnce, CallOnce, SucceedOnce, RetryOnce
<1>4. CASE Dead(w) \/ Letter(w) \/ Count(w) \/ Mark(w)
  BY <1>1, <1>4, DeadOnce, LetterOnce, CountOnce, MarkOnce
<1>5. CASE Delay(w) \/ WorkerAck(w) \/ WorkerNack(w)
  BY <1>1, <1>5, DelayOnce, AckOnce, NackOnce
<1> QED
  BY <1>2, <1>3, <1>4, <1>5 DEF WorkerRuns, WorkerStep

(* The counters of the failures only grow. *)
LEMMA RedeliveryStays ==
  ASSUME TypeOK, [Next]_vars
  PROVE  /\ NoRedelivery' => NoRedelivery
         /\ Restart \/ (\E brokerUp \in BOOLEAN : ConnectionLost(brokerUp)) => ~NoRedelivery'
<1> USE DEF NoRedelivery
<1>1. Restart \/ (\E brokerUp \in BOOLEAN : ConnectionLost(brokerUp)) => ~NoRedelivery'
  <2>1. restarts \in Nat /\ connLosses \in Nat
    BY DEF TypeOK
  <2>2. Restart => restarts' = restarts + 1
    BY DEF Restart
  <2>3. (\E brokerUp \in BOOLEAN : ConnectionLost(brokerUp)) => connLosses' = connLosses + 1
    BY DEF ConnectionLost
  <2> QED
    BY <2>1, <2>2, <2>3
<1>2. UNCHANGED faultVars => (NoRedelivery' => NoRedelivery)
  BY DEF faultVars
<1>3. \/ UNCHANGED faultVars
      \/ Restart \/ \E brokerUp \in BOOLEAN : ConnectionLost(brokerUp)
  BY DEF Next, vars, ClientSubmits, HandlerRuns, DispatcherRuns, WorkerRuns, RetryExpires,
     ClockAdvances
<1> QED
  BY <1>1, <1>2, <1>3

(* Only the failures that end a connection can end single delivery. *)
LEMMA StepKeepsSingle ==
  ASSUME Undisturbed, [Next]_vars, ~Restart, ~\E brokerUp \in BOOLEAN : ConnectionLost(brokerUp)
  PROVE  SingleDelivery'
<1>1. StoreGrows
  BY NextGrows DEF Undisturbed
<1>2. CASE ClientSubmits \/ (\E h \in Handler : HandlerRuns(h)) \/ ClockAdvances
  BY <1>1, <1>2, RequestOnce
<1>3. CASE DispatcherRuns
  BY <1>1, <1>3, DispatchOnce, InsertOnce, PublishOnce DEF DispatcherRuns, DispatcherStep
<1>4. CASE \E w \in Worker : WorkerRuns(w)
  BY <1>1, <1>4, WorkerOnce
<1>5. CASE RetryExpires
  BY <1>5, ExpireOnce
<1>6. CASE UNCHANGED vars
  <2>1. /\ UNCHANGED <<storeVars, dispatcherVars, attempts, confirmed, conn>>
        /\ UNCHANGED <<status, event, taskStatus, retryCount>>
        /\ UNCHANGED <<deliveryQ, retryQ, wpc, wtask, wretry, wmark>>
    BY <1>6 DEF vars, storeVars, brokerVars, workerVars
  <2> USE DEF Undisturbed, SingleDelivery
  <2>2. QueuesInv'
    BY <2>1 DEF QueuesInv, Triable, AllowedAttempts, SpecOf
  <2>3. \A t \in Task : Alone(t)'
    BY <2>1 DEF Alone, InRetryQ, Holds
  <2>4. \A w \in Worker : WorkerStage(w)'
    <3>1. \A t : AllowedAttempts(t)' = AllowedAttempts(t)
      BY <2>1 DEF AllowedAttempts, SpecOf
    <3>2. \A t : Triable(t)' = Triable(t)
      BY <2>1, <3>1 DEF Triable
    <3>3. \A n, s : Agrees(n, s)' = Agrees(n, s)
      BY <2>1 DEF Agrees, TasksOf, Routed, RoutesOf
    <3> QED
      BY <2>1, <3>1, <3>2, <3>3 DEF WorkerStage
  <2> QED
    BY <2>1, <2>2, <2>3, <2>4, MovedOnce
<1> QED
  BY <1>2, <1>3, <1>4, <1>5, <1>6 DEF Next

(***************************************************************************)
(* Single delivery is kept by every step as long as nothing is redelivered:*)
(* the failures that end a connection make the premise false.              *)
(***************************************************************************)
LEMMA NextKeepsOnce ==
  ASSUME ServiceInv, RoutedInv, OnceInv, [Next]_vars
  PROVE  OnceInv'
<1> SUFFICES ASSUME NoRedelivery' PROVE SingleDelivery'
  BY DEF OnceInv
<1>1. NoRedelivery /\ ~Restart /\ ~\E brokerUp \in BOOLEAN : ConnectionLost(brokerUp)
  BY RedeliveryStays DEF ServiceInv
<1> QED
  BY <1>1, StepKeepsSingle DEF OnceInv, Undisturbed

(* A fresh start has no message and no worker at work. *)
LEMMA InitOnce == Init => OnceInv
<1> SUFFICES ASSUME Init PROVE SingleDelivery
  BY DEF OnceInv
<1> USE DEF Init, StoreInit, BrokerInit, IngestionInit, DispatcherInit, WorkerInit
<1>1. conn /\ PublishInv /\ FreshInv /\ AttemptsInv
  BY DEF PublishInv, FreshInv, AttemptsInv
<1>2. QueuesInv /\ \A t \in Task : Alone(t)
  BY DEF QueuesInv, Alone, InRetryQ, Holds
<1>3. (\A w \in Worker : WorkerStage(w)) /\ VerdictsInv
  BY DEF WorkerStage, VerdictsInv, Terminal
<1> QED
  BY <1>1, <1>2, <1>3 DEF SingleDelivery

LEMMA OnceInvariance == Init /\ [][Next]_vars => [](ServiceInv /\ RoutedInv /\ OnceInv)
<1>1. ServiceInv /\ RoutedInv /\ OnceInv /\ [Next]_vars => OnceInv'
  BY NextKeepsOnce
<1> QED
  BY <1>1, InitOnce, SafetyInvariance, PTL

(* A message in one place is one copy. *)
LEMMA AloneIsOneCopy ==
  ASSUME TypeOK, NEW t \in Task, Alone(t)
  PROVE  Copies(t) <= 1
<1> DEFINE Q == {i \in DOMAIN retryQ : retryQ[i].task = t}
           H == {w \in Worker : Holds(w, t)}
<1>1. deliveryQ[t] \in {0, 1}
  BY DEF Alone, TypeOK, BrokerTypeOK
<1>2. Q = {} \/ \E i : Q = {i}
  BY DEF Alone
<1>3. H = {} \/ \E w : H = {w}
  BY DEF Alone
<1>4. /\ Q = {} => Cardinality(Q) = 0
      /\ H = {} => Cardinality(H) = 0
      /\ Q # {} => Cardinality(Q) = 1
      /\ H # {} => Cardinality(H) = 1
  BY <1>2, <1>3, FS_EmptySet, FS_Singleton
<1>5. Q # {} => InRetryQ(t)
  <2>1. DOMAIN retryQ = 1..Len(retryQ)
    BY DEF TypeOK, BrokerTypeOK
  <2> QED
    BY <2>1 DEF InRetryQ
<1>6. /\ deliveryQ[t] = 1 => Q = {} /\ H = {}
      /\ Q # {} => H = {}
  BY <1>1, <1>5 DEF Alone
<1> QED
  BY <1>1, <1>4, <1>6 DEF Copies

-----------------------------------------------------------------------------
(* However often messages are redelivered: *)

(* Positions of the messages for t in the queue q. *)
Waiting(q, t) == {i \in DOMAIN q : q[i].task = t}

(* Appending a message adds its position. *)
LEMMA WaitingAppended ==
  ASSUME NEW q \in Seq(RetryMsg), NEW m \in RetryMsg, NEW t
  PROVE  /\ IsFiniteSet(Waiting(q, t)) /\ Cardinality(Waiting(q, t)) \in Nat
         /\ m.task = t =>
              Cardinality(Waiting(Append(q, m), t)) = Cardinality(Waiting(q, t)) + 1
         /\ m.task # t => Waiting(Append(q, m), t) = Waiting(q, t)
<1> DEFINE l == Len(q) + 1
<1>1. IsFiniteSet(Waiting(q, t)) /\ Cardinality(Waiting(q, t)) \in Nat
  <2>1. Waiting(q, t) \subseteq 1..Len(q) /\ Len(q) \in Nat
    BY DEF Waiting
  <2>2. IsFiniteSet(1..Len(q))
    BY <2>1, FS_Interval
  <2> QED
    BY <2>1, <2>2, FS_Subset, FS_CardinalityType
<1>2. l \notin Waiting(q, t)
  BY DEF Waiting
<1>3. /\ m.task = t => Waiting(Append(q, m), t) = Waiting(q, t) \cup {l}
      /\ m.task # t => Waiting(Append(q, m), t) = Waiting(q, t)
  BY DEF Waiting
<1> QED
  BY <1>1, <1>2, <1>3, FS_AddElement

(* Removing the head takes its position away and shifts the others. *)
LEMMA WaitingTail ==
  ASSUME NEW q \in Seq(RetryMsg), q # <<>>, NEW t
  PROVE  Cardinality(Waiting(Tail(q), t))
           = Cardinality(Waiting(q, t)) - (IF Head(q).task = t THEN 1 ELSE 0)
<1> DEFINE R == Waiting(q, t) \ {1}
           f == [i \in R |-> i - 1]
<1>1. Len(q) \in Nat /\ Len(q) >= 1 /\ DOMAIN q = 1..Len(q) /\ Head(q) = q[1]
  OBVIOUS
<1>2. /\ DOMAIN Tail(q) = 1..(Len(q) - 1)
      /\ \A i \in 1..(Len(q) - 1) : Tail(q)[i] = q[i + 1]
  BY <1>1
<1>3. \A i \in R : i \in Nat /\ i - 1 \in 1..(Len(q) - 1) /\ (i - 1) + 1 = i /\ q[i].task = t
  BY <1>1 DEF Waiting
<1>4. ExistsBijection(R, Waiting(Tail(q), t))
  <2>1. f \in [R -> Waiting(Tail(q), t)]
    BY <1>2, <1>3 DEF Waiting
  <2>2. \A a, b \in R : f[a] = f[b] => a = b
    BY <1>3
  <2>3. \A j \in Waiting(Tail(q), t) : j + 1 \in R /\ f[j + 1] = j
    <3>1. \A j \in Waiting(Tail(q), t) : j \in 1..(Len(q) - 1) /\ q[j + 1].task = t
      BY <1>2 DEF Waiting
    <3> QED
      BY <1>1, <3>1 DEF Waiting
  <2>4. f \in Bijection(R, Waiting(Tail(q), t))
    BY <2>1, <2>2, <2>3 DEF Bijection, Injection, Surjection, IsInjective
  <2> QED
    BY <2>4 DEF ExistsBijection
<1>5. IsFiniteSet(Waiting(q, t)) /\ Cardinality(Waiting(q, t)) \in Nat
  <2>1. q[1] \in RetryMsg
    BY <1>1
  <2> QED
    BY <2>1, WaitingAppended
<1>6. IsFiniteSet(R) /\ Cardinality(R) = Cardinality(Waiting(q, t)) - (IF Head(q).task = t THEN 1 ELSE 0)
  <2>1. 1 \in Waiting(q, t) <=> Head(q).task = t
    BY <1>1 DEF Waiting
  <2> QED
    BY <1>5, <2>1, FS_RemoveElement
<1> QED
  BY <1>4, <1>6, FS_Bijection

(* Workers that hold a message for t. *)
Holding(t) == {w \in Worker : Holds(w, t)}

(* The copies of a task, place by place. *)
LEMMA CopiesByPlace ==
  ASSUME TypeOK, NEW t \in Task
  PROVE  /\ Copies(t) = deliveryQ[t] + Cardinality(Waiting(retryQ, t)) + Cardinality(Holding(t))
         /\ Copies(t)' = deliveryQ'[t] + Cardinality(Waiting(retryQ', t)) + Cardinality(Holding(t)')
         /\ deliveryQ[t] \in Nat /\ Cardinality(Waiting(retryQ, t)) \in Nat
         /\ IsFiniteSet(Holding(t)) /\ Cardinality(Holding(t)) \in Nat
         /\ IsFiniteSet(Holding(t)') /\ Cardinality(Holding(t)') \in Nat
         /\ Copies(t) \in Nat /\ (TypeOK' => Copies(t)' \in Nat)
<1>1. Copies(t) = deliveryQ[t] + Cardinality(Waiting(retryQ, t)) + Cardinality(Holding(t))
  BY DEF Copies, Waiting, Holding
<1>2. Copies(t)' = deliveryQ'[t] + Cardinality(Waiting(retryQ', t)) + Cardinality(Holding(t)')
  BY DEF Copies, Waiting, Holding
<1>3. deliveryQ[t] \in Nat
  BY DEF TypeOK, BrokerTypeOK
<1>4. PICK m \in RetryMsg : m = [task |-> t, ttl |-> TRUE]
  BY DEF RetryMsg
<1>5. Cardinality(Waiting(retryQ, t)) \in Nat
  BY <1>4, WaitingAppended DEF TypeOK, BrokerTypeOK
<1>6. TypeOK' => deliveryQ'[t] \in Nat /\ Cardinality(Waiting(retryQ', t)) \in Nat
  BY <1>4, WaitingAppended DEF TypeOK, BrokerTypeOK
<1>7. Holding(t) \subseteq Worker /\ Holding(t)' \subseteq Worker /\ IsFiniteSet(Worker)
  BY WorkerAssumption DEF Holding
<1>8. /\ IsFiniteSet(Holding(t)) /\ Cardinality(Holding(t)) \in Nat
      /\ IsFiniteSet(Holding(t)') /\ Cardinality(Holding(t)') \in Nat
  BY <1>7, FS_Subset, FS_CardinalityType
<1> QED
  BY <1>1, <1>2, <1>3, <1>5, <1>6, <1>8

(* A step that leaves both queues alone and takes up no message. *)
LEMMA NoCopyTaken ==
  ASSUME TypeOK, NEW t \in Task, UNCHANGED <<deliveryQ, retryQ>>,
         \A w \in Worker : Holds(w, t)' => Holds(w, t)
  PROVE  Copies(t)' <= Copies(t)
<1>1. Holding(t)' \subseteq Holding(t)
  BY DEF Holding
<1>2. Cardinality(Holding(t)') <= Cardinality(Holding(t))
  BY <1>1, CopiesByPlace, FS_Subset
<1> QED
  BY <1>2, CopiesByPlace

(* A message taken from the delivery queue is held. *)
LEMMA ReceiveMovesCopy ==
  ASSUME TypeOK, NEW w \in Worker, NEW u \in Task, Receive(w, u), NEW t \in Task
  PROVE  Copies(t)' <= Copies(t)
<1>1. \A x \in Worker : Holds(x, t)' <=> Holds(x, t) \/ (x = w /\ t = u)
  BY DEF Receive, WorkerGoes, Holds, TypeOK, WorkerTypeOK
<1>2. /\ retryQ' = retryQ /\ deliveryQ[u] > 0
      /\ deliveryQ'[t] = IF t = u THEN deliveryQ[t] - 1 ELSE deliveryQ[t]
  BY DEF Receive, ReceiveDelivery, TypeOK, BrokerTypeOK
<1>3. IF t = u THEN Holding(t)' = Holding(t) \cup {w} ELSE Holding(t)' = Holding(t)
  BY <1>1 DEF Holding
<1>4. /\ t = u => Cardinality(Holding(t)') <= Cardinality(Holding(t)) + 1
      /\ t # u => Cardinality(Holding(t)') = Cardinality(Holding(t))
  <2>1. IsFiniteSet(Holding(t)) /\ Cardinality(Holding(t)) \in Nat
    BY CopiesByPlace
  <2>2. Cardinality(Holding(t) \cup {w}) <= Cardinality(Holding(t)) + 1
    BY <2>1, FS_AddElement
  <2> QED
    BY <1>3, <2>2
<1> QED
  BY <1>2, <1>4, CopiesByPlace

(* A worker that puts a message into the retry queue holds its own no longer. *)
LEMMA SentBackMovesCopy ==
  ASSUME TypeOK, NEW w \in Worker, NEW u \in Task, Holds(w, u), NEW m \in RetryMsg,
         m.task = u, retryQ' = Append(retryQ, m), deliveryQ' = deliveryQ,
         wpc'[w] \in {"idle", "ack"},
         \A x \in Worker \ {w} : wpc'[x] = wpc[x] /\ wtask'[x] = wtask[x],
         NEW t \in Task
  PROVE  Copies(t)' <= Copies(t)
<1>1. \A x \in Worker : Holds(x, t)' <=> Holds(x, t) /\ x # w
  BY DEF Holds
<1>2. /\ t = u => Cardinality(Waiting(retryQ', t)) = Cardinality(Waiting(retryQ, t)) + 1
      /\ t # u => Waiting(retryQ', t) = Waiting(retryQ, t)
  BY WaitingAppended DEF TypeOK, BrokerTypeOK
<1>3. Holding(t)' = Holding(t) \ {w} /\ (t = u => w \in Holding(t))
  BY <1>1 DEF Holding
<1>4. /\ t = u => Cardinality(Holding(t)') = Cardinality(Holding(t)) - 1
      /\ t # u => Cardinality(Holding(t)') <= Cardinality(Holding(t))
  <2>1. IsFiniteSet(Holding(t)) /\ Cardinality(Holding(t)) \in Nat
    BY CopiesByPlace
  <2>2. Cardinality(Holding(t) \ {w})
          = IF w \in Holding(t) THEN Cardinality(Holding(t)) - 1 ELSE Cardinality(Holding(t))
    BY <2>1, FS_RemoveElement
  <2> QED
    BY <1>3, <2>1, <2>2
<1>5. /\ Copies(t) = deliveryQ[t] + Cardinality(Waiting(retryQ, t)) + Cardinality(Holding(t))
      /\ Copies(t)' = deliveryQ[t] + Cardinality(Waiting(retryQ', t)) + Cardinality(Holding(t)')
      /\ deliveryQ[t] \in Nat /\ Cardinality(Waiting(retryQ, t)) \in Nat
      /\ Cardinality(Holding(t)) \in Nat /\ Cardinality(Holding(t)') \in Nat
  BY CopiesByPlace
<1>6. CASE t = u
  BY <1>2, <1>4, <1>5, <1>6
<1>7. CASE t # u
  BY <1>2, <1>4, <1>5, <1>7
<1> QED
  BY <1>6, <1>7

(***************************************************************************)
(* The delayed message replaces the one that the worker acknowledges next: *)
(* a publish that reached the broker returned no error.                    *)
(***************************************************************************)
LEMMA DelayMovesCopy ==
  ASSUME ServiceInv, NEW w \in Worker, Delay(w), NEW t \in Task
  PROVE  Copies(t)' <= Copies(t)
<1>1. PICK u \in Task : u = wtask[w] /\ Holds(w, u)
  BY BusyWorker DEF Delay, Holds
<1>2. PICK m \in RetryMsg : m = [task |-> u, ttl |-> TRUE]
  BY DEF RetryMsg
<1>3. /\ deliveryQ' = deliveryQ /\ wtask' = wtask
      /\ \A x \in Worker \ {w} : wpc'[x] = wpc[x]
  BY DEF Delay, PublishDelayed, WorkerGoes, ServiceInv, TypeOK, WorkerTypeOK
<1>4. CASE conn
  <2>1. retryQ' = Append(retryQ, m) /\ wpc'[w] = "ack"
    BY <1>1, <1>2, <1>4 DEF Delay, PublishDelayed, PublishAnswers, WorkerGoes, ServiceInv, TypeOK,
       WorkerTypeOK
  <2> QED
    BY <1>1, <1>2, <1>3, <2>1, SentBackMovesCopy DEF ServiceInv
<1>5. CASE ~conn
  <2>1. retryQ' = retryQ
    BY <1>5 DEF Delay, PublishDelayed
  <2>2. \A x \in Worker : Holds(x, t)' => Holds(x, t)
    BY <1>1, <1>3 DEF Holds
  <2> QED
    BY <1>3, <2>1, <2>2, NoCopyTaken DEF ServiceInv
<1> QED
  BY <1>4, <1>5

(* A rejected message waits in the retry queue, unless the connection is gone. *)
LEMMA NackMovesCopy ==
  ASSUME ServiceInv, NEW w \in Worker, WorkerNack(w), NEW t \in Task
  PROVE  Copies(t)' <= Copies(t)
<1>1. PICK u \in Task : u = wtask[w] /\ Holds(w, u)
  BY BusyWorker DEF WorkerNack, Holds
<1>2. PICK m \in RetryMsg : m = [task |-> u, ttl |-> FALSE]
  BY DEF RetryMsg
<1>3. /\ deliveryQ' = deliveryQ /\ wpc'[w] = "idle"
      /\ \A x \in Worker \ {w} : wpc'[x] = wpc[x] /\ wtask'[x] = wtask[x]
  BY DEF WorkerNack, WorkerForgets, Nack, WorkerGoes, ServiceInv, TypeOK, WorkerTypeOK
<1>4. CASE conn
  <2>1. retryQ' = Append(retryQ, m)
    BY <1>1, <1>2, <1>4 DEF WorkerNack, Nack
  <2> QED
    BY <1>1, <1>2, <1>3, <2>1, SentBackMovesCopy DEF ServiceInv
<1>5. CASE ~conn
  <2>1. retryQ' = retryQ
    BY <1>5 DEF WorkerNack, Nack
  <2>2. \A x \in Worker : Holds(x, t)' => Holds(x, t)
    BY <1>3 DEF Holds
  <2> QED
    BY <1>3, <2>1, <2>2, NoCopyTaken DEF ServiceInv
<1> QED
  BY <1>4, <1>5

(* An expired message moves from the retry queue to the delivery queue. *)
LEMMA ExpireMovesCopy ==
  ASSUME TypeOK, RetryExpires, NEW t \in Task
  PROVE  Copies(t)' <= Copies(t)
<1>1. /\ retryQ \in Seq(RetryMsg) /\ retryQ # <<>> /\ retryQ' = Tail(retryQ)
      /\ UNCHANGED <<wpc, wtask>>
  BY DEF RetryExpires, Expire, workerVars, TypeOK, BrokerTypeOK
<1>2. deliveryQ'[t] = deliveryQ[t] + (IF Head(retryQ).task = t THEN 1 ELSE 0)
  <2>1. deliveryQ \in [Task -> Nat]
    BY DEF TypeOK, BrokerTypeOK
  <2>2. deliveryQ' = [deliveryQ EXCEPT ![Head(retryQ).task] = @ + 1]
    BY DEF RetryExpires, Expire
  <2> QED
    BY <2>1, <2>2
<1>3. Cardinality(Waiting(retryQ', t))
        = Cardinality(Waiting(retryQ, t)) - (IF Head(retryQ).task = t THEN 1 ELSE 0)
  BY <1>1, WaitingTail
<1>4. Holding(t)' = Holding(t)
  BY <1>1 DEF Holding, Holds
<1> QED
  BY <1>2, <1>3, <1>4, CopiesByPlace

(* A first message: its task was never published and has no other. *)
LEMMA PublishIsFirstCopy ==
  ASSUME ServiceInv, PublishInv, DispatchPublish, UNCHANGED workerVars, NEW t \in Task
  PROVE  Copies(t)' <= Copies(t) \/ Copies(t)' <= 1
<1>1. PICK u \in Task \ published : u = <<dn, RoutesOf(dn)[di]>>
  BY UnpublishedYet DEF DispatchPublish
<1>2. /\ retryQ' = retryQ /\ UNCHANGED <<wpc, wtask>>
      /\ deliveryQ'[t] \in {deliveryQ[t], deliveryQ[t] + 1}
      /\ t # u => deliveryQ'[t] = deliveryQ[t]
  <2>1. retryQ' = retryQ /\ UNCHANGED <<wpc, wtask>>
    BY DEF DispatchPublish, PublishDelivery, workerVars
  <2>2. deliveryQ' = IF conn THEN [deliveryQ EXCEPT ![u] = @ + 1] ELSE deliveryQ
    BY <1>1 DEF DispatchPublish, PublishDelivery
  <2>3. deliveryQ \in [Task -> Nat]
    BY DEF ServiceInv, TypeOK, BrokerTypeOK
  <2> QED
    BY <2>1, <2>2, <2>3
<1>3. Holding(t)' = Holding(t)
  BY <1>2 DEF Holding, Holds
<1>4. CASE t = u
  <2>1. deliveryQ[t] = 0 /\ ~InRetryQ(t) /\ \A w \in Worker : ~Holds(w, t)
    BY <1>1, <1>4, MessagesArePublished
  <2>2. Waiting(retryQ, t) = {} /\ Holding(t) = {}
    BY <2>1 DEF Waiting, Holding, InRetryQ, ServiceInv, TypeOK, BrokerTypeOK
  <2>3. Cardinality(Waiting(retryQ, t)) = 0 /\ Cardinality(Holding(t)) = 0
    BY <2>2, FS_EmptySet
  <2> QED
    BY <1>2, <1>3, <2>1, <2>3, CopiesByPlace DEF ServiceInv
<1>5. CASE t # u
  BY <1>2, <1>3, <1>5, CopiesByPlace DEF ServiceInv
<1> QED
  BY <1>4, <1>5

(***************************************************************************)
(* The end of a connection queues again what its workers hold, at most one *)
(* message each.                                                           *)
(***************************************************************************)
LEMMA RequeueAddsHeld ==
  ASSUME TypeOK, Restart \/ \E brokerUp \in BOOLEAN : ConnectionLost(brokerUp), NEW t \in Task
  PROVE  /\ Cardinality(Worker) \in Nat
         /\ Copies(t)' <= Copies(t) + Cardinality(Worker)
         /\ restarts' + connLosses' = restarts + connLosses + 1
<1>1. restarts' + connLosses' = restarts + connLosses + 1
  <2>1. restarts \in Nat /\ connLosses \in Nat
    BY DEF TypeOK
  <2>2. Restart => restarts' = restarts + 1 /\ connLosses' = connLosses
    BY DEF Restart
  <2>3. (\E brokerUp \in BOOLEAN : ConnectionLost(brokerUp))
          => restarts' = restarts /\ connLosses' = connLosses + 1
    BY DEF ConnectionLost
  <2> QED
    BY <2>1, <2>2, <2>3
<1>2. retryQ' = retryQ /\ deliveryQ'[t] = deliveryQ[t] + Unacked[t]
  BY DEF Restart, ConnectionLost, Requeue
<1>3. \A w \in Worker : Holds(w, t)' => Holds(w, t)
  BY DEF Restart, ConnectionLost, WorkerCrash, workerVars, Holds
<1>4. Unacked[t] \in Nat /\ Unacked[t] <= Cardinality(Worker) /\ Cardinality(Worker) \in Nat
  <2> DEFINE H == {w \in Worker : wpc[w] # "idle" /\ wtask[w] = t}
  <2>1. H \subseteq Worker /\ IsFiniteSet(Worker)
    BY WorkerAssumption
  <2>2. /\ Cardinality(H) \in Nat /\ Cardinality(H) <= Cardinality(Worker)
        /\ Cardinality(Worker) \in Nat
    BY <2>1, FS_Subset, FS_CardinalityType
  <2> QED
    BY <2>2 DEF Unacked, Held
<1>5. Cardinality(Holding(t)') <= Cardinality(Holding(t))
  <2>1. Holding(t)' \subseteq Holding(t)
    BY <1>3 DEF Holding
  <2> QED
    BY <2>1, CopiesByPlace, FS_Subset
<1> QED
  BY <1>1, <1>2, <1>4, <1>5, CopiesByPlace

(* The other calls of a worker: it holds on to its message or lets it go. *)
LEMMA OwnCallTakesNoCopy ==
  ASSUME TypeOK, NEW w \in Worker,
         \/ Fetch(w) \/ Call(w) \/ Succeed(w) \/ Retry(w)
         \/ Dead(w) \/ Letter(w) \/ Count(w) \/ Mark(w) \/ WorkerAck(w),
         NEW t \in Task
  PROVE  Copies(t)' <= Copies(t)
<1>1. UNCHANGED <<deliveryQ, retryQ>> /\ (wtask' = wtask \/ WorkerAck(w))
  BY DEF Fetch, Call, Succeed, Retry, Dead, Letter, Count, Mark, WorkerAck, Ack, WorkerDbFrame,
     brokerVars
<1>2. wpc[w] # "idle" /\ (wpc[w] = "ack" => WorkerAck(w))
  BY DEF Fetch, Call, Succeed, Retry, Dead, Letter, Count, Mark, WorkerAck
<1>3. \E pc \in WorkerPc : WorkerGoes(w, pc) /\ (WorkerAck(w) => pc = "idle")
  <2>1. CASE Fetch(w)
    BY <2>1 DEF Fetch, WorkerAck, WorkerPc
  <2>2. CASE Call(w)
    BY <2>2 DEF Call, WorkerAck, WorkerPc, Outcome
  <2>3. CASE Succeed(w) \/ Retry(w) \/ Dead(w) \/ Letter(w)
    BY <2>3 DEF Succeed, Retry, Dead, Letter, WorkerAck, WorkerPc
  <2>4. CASE Count(w) \/ Mark(w)
    BY <2>4 DEF Count, Mark, WorkerAck, WorkerPc
  <2>5. CASE WorkerAck(w)
    BY <2>5 DEF WorkerAck, WorkerForgets, WorkerPc
  <2> QED
    BY <2>1, <2>2, <2>3, <2>4, <2>5
<1>4. \A x \in Worker : x # w => wpc'[x] = wpc[x]
  BY <1>3 DEF WorkerGoes, TypeOK, WorkerTypeOK
<1>5. WorkerAck(w) => wpc'[w] = "idle" /\ \A x \in Worker : x # w => wtask'[x] = wtask[x]
  BY DEF WorkerAck, WorkerForgets, WorkerGoes, TypeOK, WorkerTypeOK
<1>6. \A x \in Worker : Holds(x, t)' => Holds(x, t)
  BY <1>1, <1>2, <1>4, <1>5 DEF Holds
<1> QED
  BY <1>1, <1>6, NoCopyTaken

(* Only a first publish and the end of a connection add copies. *)
LEMMA StepAddsCopies ==
  ASSUME ServiceInv, PublishInv, [Next]_vars, NEW t \in Task
  PROVE  \/ Copies(t)' <= Copies(t)
         \/ Copies(t)' <= 1
         \/ Restart \/ \E brokerUp \in BOOLEAN : ConnectionLost(brokerUp)
<1>1. CASE \/ ClientSubmits \/ (\E h \in Handler : HandlerRuns(h)) \/ ClockAdvances
           \/ UNCHANGED vars
  <2>1. UNCHANGED <<deliveryQ, retryQ, wpc, wtask>>
    BY <1>1 DEF ClientSubmits, Submit, HandlerRuns, HandlerStep, SubmitPublish, PublishTrigger,
       SubmitReply, ClockAdvances, vars, brokerVars, workerVars
  <2> QED
    BY <2>1, NoCopyTaken DEF ServiceInv, Holds
<1>2. CASE DispatcherRuns /\ ~DispatchPublish
  <2>1. UNCHANGED <<deliveryQ, retryQ, wpc, wtask>>
    BY <1>2 DEF DispatcherRuns, DispatcherStep, TakeTrigger, ReceiveTrigger, DispatchLoad,
       DispatchFail, DispatchInsert, DispatchStatus, brokerVars, workerVars
  <2> QED
    BY <2>1, NoCopyTaken DEF ServiceInv, Holds
<1>3. CASE DispatcherRuns /\ DispatchPublish
  BY <1>3, PublishIsFirstCopy DEF DispatcherRuns
<1>4. ASSUME NEW w \in Worker, WorkerRuns(w)
      PROVE  Copies(t)' <= Copies(t)
  <2>1. CASE \E u \in Task : Receive(w, u)
    BY <2>1, ReceiveMovesCopy DEF ServiceInv
  <2>2. CASE Delay(w) \/ WorkerNack(w)
    BY <2>2, DelayMovesCopy, NackMovesCopy
  <2>3. CASE \/ Fetch(w) \/ Call(w) \/ Succeed(w) \/ Retry(w)
             \/ Dead(w) \/ Letter(w) \/ Count(w) \/ Mark(w) \/ WorkerAck(w)
    BY <2>3, OwnCallTakesNoCopy DEF ServiceInv
  <2> QED
    BY <1>4, <2>1, <2>2, <2>3 DEF WorkerRuns, WorkerStep
<1>5. CASE RetryExpires
  BY <1>5, ExpireMovesCopy DEF ServiceInv
<1> QED
  BY <1>1, <1>2, <1>3, <1>4, <1>5 DEF Next

(* Dispatch publishes each task once, whatever fails. *)
LEMMA NextKeepsPublish ==
  ASSUME ServiceInv, PublishInv, [Next]_vars
  PROVE  PublishInv'
<1>1. CASE DispatcherRuns
  BY <1>1, DispatchKeepsPublish, InsertKeepsPublish, PublishKeepsPublish
     DEF DispatcherRuns, DispatcherStep
<1>2. CASE Restart
  BY <1>2 DEF Restart, DispatcherCrash, PublishInv
<1>3. CASE UNCHANGED dispatcherVars
  BY <1>3, NextGrows, PublishStays DEF dispatcherVars, ServiceInv
<1> QED
  BY <1>1, <1>2, <1>3 DEF Next, vars, ClientSubmits, HandlerRuns, WorkerRuns, RetryExpires,
     ClockAdvances, ConnectionLost

(* The bound grows with the number of connections that have ended. *)
LEMMA NextKeepsCopies ==
  ASSUME ServiceInv, ServiceInv', CopiesInv, [Next]_vars
  PROVE  CopiesInv'
<1>1. PublishInv'
  BY NextKeepsPublish DEF CopiesInv
<1>2. PICK c \in Nat : c = Cardinality(Worker)
  BY WorkerAssumption, FS_CardinalityType
<1>3. PICK k \in Nat : k = restarts + connLosses
  BY DEF ServiceInv, TypeOK
<1>4. c * k \in Nat /\ c * (k + 1) = c * k + c
  BY <1>2, <1>3
<1>5. CASE Restart \/ \E brokerUp \in BOOLEAN : ConnectionLost(brokerUp)
  <2>1. ASSUME NEW t \in Task
        PROVE  /\ restarts' + connLosses' = k + 1
               /\ Copies(t)' <= 1 + c * (k + 1)
    <3>1. /\ Copies(t)' <= Copies(t) + c /\ restarts' + connLosses' = k + 1
          /\ Copies(t) \in Nat /\ Copies(t)' \in Nat
      BY <1>2, <1>3, <1>5, RequeueAddsHeld, CopiesByPlace DEF ServiceInv
    <3>2. Copies(t) <= 1 + c * k
      BY <1>2, <1>3 DEF CopiesInv, CopiesBounded
    <3> QED
      BY <1>4, <3>1, <3>2
  <2> QED
    BY <1>1, <1>2, <2>1 DEF CopiesInv, CopiesBounded
<1>6. CASE ~Restart /\ ~\E brokerUp \in BOOLEAN : ConnectionLost(brokerUp)
  <2>1. restarts' = restarts /\ connLosses' = connLosses
    BY <1>6 DEF Next, vars, ClientSubmits, HandlerRuns, DispatcherRuns, WorkerRuns, RetryExpires,
       ClockAdvances, faultVars
  <2>2. ASSUME NEW t \in Task
        PROVE  Copies(t)' <= 1 + c * k
    <3>1. /\ Copies(t)' <= Copies(t) \/ Copies(t)' <= 1
          /\ Copies(t) \in Nat /\ Copies(t)' \in Nat
      BY <1>6, StepAddsCopies, CopiesByPlace DEF ServiceInv, CopiesInv
    <3>2. Copies(t) <= 1 + c * k
      BY <1>2, <1>3 DEF CopiesInv, CopiesBounded
    <3> QED
      BY <1>4, <3>1, <3>2
  <2> QED
    BY <1>1, <1>2, <1>3, <2>1, <2>2 DEF CopiesInv, CopiesBounded
<1> QED
  BY <1>5, <1>6

(* A fresh start has no messages. *)
LEMMA InitCopies == Init => CopiesInv
<1> SUFFICES ASSUME Init PROVE CopiesInv
  OBVIOUS
<1> USE DEF Init, StoreInit, BrokerInit, DispatcherInit, WorkerInit
<1>1. PublishInv
  BY DEF PublishInv
<1>2. ASSUME NEW t \in Task
      PROVE  Copies(t) = 0
  <2>1. /\ deliveryQ[t] = 0 /\ {w \in Worker : Holds(w, t)} = {}
        /\ {i \in DOMAIN retryQ : retryQ[i].task = t} = {}
    BY DEF Holds
  <2>2. Cardinality({}) = 0
    BY FS_EmptySet
  <2>3. Copies(t) = 0 + 0 + 0
    BY <2>1, <2>2 DEF Copies
  <2> QED
    BY <2>3
<1>3. PICK c \in Nat : c = Cardinality(Worker)
  BY WorkerAssumption, FS_CardinalityType
<1>4. restarts + connLosses = 0 /\ c * 0 = 0
  BY <1>3
<1> QED
  BY <1>1, <1>2, <1>3, <1>4 DEF CopiesInv, CopiesBounded

LEMMA CopiesInvariance == Init /\ [][Next]_vars => []CopiesInv
<1>1. ServiceInv /\ ServiceInv' /\ CopiesInv /\ [Next]_vars => CopiesInv'
  BY NextKeepsCopies
<1> QED
  BY <1>1, InitCopies, SafetyInvariance, PTL

-----------------------------------------------------------------------------
(***************************************************************************)
(* At most one unsettled message exists per task as long as the broker     *)
(* redelivers nothing: submitting twice, failing statements, the retry     *)
(* that is published before its original is acknowledged, and the          *)
(* rejection of a message never make a second one.                         *)
(***************************************************************************)
THEOREM SingleMessage == Spec => []OneMessagePerTask
<1>1. ServiceInv /\ OnceInv => OneMessagePerTask
  BY AloneIsOneCopy DEF ServiceInv, OnceInv, SingleDelivery, OneMessagePerTask
<1> QED
  BY <1>1, OnceInvariance, PTL DEF Spec

(***************************************************************************)
(* Every lost connection and every restart adds at most one message per    *)
(* worker to a task; nothing else adds to the first.  The retry and the    *)
(* rejection of a redelivered message move it, and a redelivered trigger   *)
(* publishes no task again, whatever statement failed in between.          *)
(***************************************************************************)
THEOREM BoundedRedelivery == Spec => []CopiesBounded
<1>1. CopiesInv => CopiesBounded
  BY DEF CopiesInv
<1> QED
  BY <1>1, CopiesInvariance, PTL DEF Spec

(***************************************************************************)
(* A task is tried at most max_attempts times (once when max_attempts is   *)
(* 0): Call compares the retry_count that was read before the attempt, and *)
(* retryOrDeadLetter stores it before another message exists.              *)
(***************************************************************************)
THEOREM BoundedAttempts == Spec => []AttemptsBounded
<1>1. OnceInv => AttemptsBounded
  BY DEF OnceInv, SingleDelivery, AttemptsInv, AllowedAttempts, AttemptsBounded
<1> QED
  BY <1>1, OnceInvariance, PTL DEF Spec

(***************************************************************************)
(* A stored verdict is the one its tasks add up to, for good: what         *)
(* resolveNotificationStatus counts in one statement still holds when the  *)
(* next one stores it, and every later verdict is the same.                *)
(***************************************************************************)
THEOREM VerdictsAgree == Spec => []RollUpAgrees
<1>1. OnceInv => RollUpAgrees
  BY DEF OnceInv, SingleDelivery, VerdictsInv, Agrees, RollUpAgrees
<1> QED
  BY <1>1, OnceInvariance, PTL DEF Spec

(* Only a vendor call counts as an attempt. *)
LEMMA AttemptsAreCalls ==
  ASSUME [Next]_vars, \A w \in Worker : ~Call(w)
  PROVE  attempts' = attempts
<1> USE DEF workerVars
<1>1. CASE \E w \in Worker : WorkerRuns(w)
  BY <1>1 DEF WorkerRuns, WorkerStep, WorkerDbFrame, Receive, Fetch, Succeed, Retry, Delay, Dead,
     Letter, Count, Mark, WorkerAck, WorkerNack, WorkerForgets
<1>2. CASE UNCHANGED attempts
  BY <1>2
<1> QED
  BY <1>1, <1>2 DEF Next, vars, ClientSubmits, HandlerRuns, DispatcherRuns, RetryExpires,
     ClockAdvances, ConnectionLost, Restart, WorkerCrash

(* The task of a worker that is about to call the vendor is not confirmed. *)
LEMMA ConfirmedNotTried ==
  ASSUME Undisturbed, [Next]_vars
  PROVE  \A t \in confirmed : attempts'[t] = attempts[t]
<1>1. CASE \A w \in Worker : ~Call(w)
  BY <1>1, AttemptsAreCalls
<1>2. ASSUME NEW w \in Worker, Call(w)
      PROVE  \A t \in confirmed : attempts'[t] = attempts[t]
  <2>1. wtask[w] \notin confirmed
    BY <1>2, WorkerOnItsTask DEF Call, WorkerStage, Triable
  <2>2. attempts \in [Task -> Nat] /\ confirmed \subseteq Task
    BY DEF Undisturbed, ServiceInv, TypeOK, WorkerTypeOK
  <2> QED
    BY <1>2, <2>1, <2>2 DEF Call
<1> QED
  BY <1>1, <1>2

(***************************************************************************)
(* A vendor that has answered 2xx is not called again for the same task    *)
(* unless a message is redelivered, even when storing SUCCEEDED fails.     *)
(***************************************************************************)
THEOREM NoSecondCall == Spec => NotCalledAgain
<1>1. ServiceInv /\ RoutedInv /\ OnceInv /\ [Next]_vars
        => [NoRedelivery => \A t \in confirmed : attempts'[t] = attempts[t]]_vars
  BY ConfirmedNotTried DEF OnceInv, Undisturbed
<1> QED
  BY <1>1, OnceInvariance, PTL DEF Spec, NotCalledAgain

(* While nothing is redelivered, a roll-up that finds a verdict repeats it. *)
LEMMA RollUpRepeats ==
  ASSUME Undisturbed, NEW w \in Worker, Mark(w), NEW n \in Notif, status[n] \in Terminal
  PROVE  status'[n] = status[n]
<1> USE DEF Undisturbed, SingleDelivery
<1>1. PICK t \in published : t = wtask[w] /\ t \in Task /\ Agrees(t[1], wmark[w])
  BY WorkerOnItsTask DEF Mark, WorkerStage
<1>2. PICK r \in DbAnswer : UpdateNotificationStatus(t[1], wmark[w], r)
  BY <1>1 DEF Mark
<1>3. CASE t[1] # n
  BY <1>2, <1>3 DEF UpdateNotificationStatus, ServiceInv, TypeOK, StoreTypeOK
<1>4. CASE t[1] = n
  <2>1. Routed(n) # {}
    <3>1. t[2] \in Routed(t[1])
      BY <1>1 DEF RoutedInv, ServiceInv, MessageInv, TypeOK, DispatcherTypeOK, Task
    <3> QED
      BY <1>4, <3>1
  <2>2. Agrees(n, status[n])
    BY <2>1 DEF VerdictsInv
  <2>3. Agrees(n, wmark[w]) /\ wmark[w] \in Terminal
    BY <1>1, <1>4 DEF Mark, ServiceInv, WorkersInv, WorkerKnows
  <2>4. wmark[w] = status[n]
    BY <2>2, <2>3 DEF Agrees, Terminal
  <2> QED
    BY <1>2, <1>4, <2>4 DEF UpdateNotificationStatus, ServiceInv, TypeOK, StoreTypeOK
<1> QED
  BY <1>3, <1>4

(* So a step changes no verdict. *)
LEMMA VerdictsAreFinal ==
  ASSUME Undisturbed, [Next]_vars, NEW n \in Notif, status[n] \in Terminal
  PROVE  status'[n] = status[n]
<1> USE DEF Undisturbed, ServiceInv, TypeOK, StoreTypeOK
<1>1. CASE \E h \in Handler, m \in Notif, e \in Event : Submit(h, m, e)
  BY <1>1 DEF Submit, UpsertNotification, Exists, Terminal
<1>2. CASE DispatchFail \/ DispatchStatus
  <2>1. dn \in Notif /\ status[dn] = "PENDING"
    BY <1>2 DEF DispatchFail, DispatchStatus, DispatchInv, LocalsInv
  <2>2. dn # n
    BY <2>1 DEF Terminal
  <2> QED
    BY <1>2, <2>1, <2>2 DEF DispatchFail, DispatchStatus, UpdateNotificationStatus
<1>3. CASE \E w \in Worker : Mark(w)
  BY <1>3, RollUpRepeats
<1> QED
  BY <1>1, <1>2, <1>3, StatusWriters

(***************************************************************************)
(* The status of a notification never goes back, whatever the interleaving *)
(* of the dispatcher, the workers and their failures, and until a message  *)
(* is redelivered it follows the state machine of the design: a verdict is *)
(* final.                                                                  *)
(***************************************************************************)
THEOREM StatusStaysForward == Spec => StatusNeverBack
<1>1. ServiceInv /\ RoutedInv /\ OnceInv /\ [Next]_vars
        => [\A n \in Notif : status'[n] # status[n] =>
              \/ <<status[n], status'[n]>> \in StatusEdges
              \/ ~NoRedelivery /\ {status[n], status'[n]} \subseteq Terminal]_vars
  <2> SUFFICES ASSUME ServiceInv, RoutedInv, OnceInv, [Next]_vars,
                      NEW n \in Notif, status'[n] # status[n]
               PROVE  \/ <<status[n], status'[n]>> \in StatusEdges
                      \/ ~NoRedelivery /\ {status[n], status'[n]} \subseteq Terminal
    OBVIOUS
  <2>1. <<status[n], status'[n]>> \in StatusMoves
    BY StatusStep
  <2>2. CASE <<status[n], status'[n]>> \in StatusEdges
    BY <2>2
  <2>3. CASE <<status[n], status'[n]>> \in Terminal \X Terminal
    <3>1. status[n] \in Terminal /\ status'[n] \in Terminal
      BY <2>3
    <3>2. ~NoRedelivery
      BY <3>1, VerdictsAreFinal DEF OnceInv, Undisturbed
    <3> QED
      BY <3>1, <3>2
  <2> QED
    BY <2>1, <2>2, <2>3 DEF StatusMoves
<1> QED
  BY <1>1, OnceInvariance, PTL DEF Spec, StatusNeverBack
=============================================================================
