---------------------------- MODULE ServiceProofs ----------------------------
(***************************************************************************)
(* Proofs that ServiceInv is an inductive invariant of the service, one    *)
(* lemma per action, and the safety theorems that follow from it.          *)
(***************************************************************************)
EXTENDS ServiceInvariant, FiniteSetTheorems, TLAPS

(* The rules of an event name vendors. *)
LEMMA RoutedVendors ==
  ASSUME TypeOK, NEW n \in Notif
  PROVE  /\ RoutesOf(n) \in Seq(Vendor)
         /\ Routed(n) \subseteq Vendor
         /\ TasksOf(n) \subseteq Task
<1>1. RoutesOf(n) \in Seq(Vendor)
  BY RoutesAssumption DEF TypeOK, StoreTypeOK, RoutesOf
<1>2. Routed(n) \subseteq Vendor
  BY <1>1 DEF Routed
<1> QED
  BY <1>1, <1>2 DEF TasksOf, Task

(* Held counts a finite set of workers. *)
LEMMA HeldCounts ==
  ASSUME NEW t \in Task
  PROVE  /\ Held(t) \in Nat
         /\ Held(t) > 0 <=> \E w \in Worker : wpc[w] # "idle" /\ wtask[w] = t
<1> DEFINE S == {w \in Worker : wpc[w] # "idle" /\ wtask[w] = t}
<1>1. IsFiniteSet(S)
  BY WorkerAssumption, FS_Subset
<1>2. Cardinality(S) \in Nat /\ (Cardinality(S) = 0 <=> S = {})
  BY <1>1, FS_CardinalityType, FS_EmptySet
<1> QED
  BY <1>2 DEF Held

(***************************************************************************)
(* The counts that resolveNotificationStatus reads justify its decision:   *)
(* if as many rows are terminal as there are rows, then every row is, and  *)
(* no dead letter means that every row is SUCCEEDED.                       *)
(***************************************************************************)
LEMMA CountsDecide ==
  ASSUME TypeOK, NEW n \in Notif, AllTerminal(n),
         NEW v \in Vendor, taskStatus[<<n, v>>] # "NONE"
  PROVE  /\ taskStatus[<<n, v>>] \in TaskTerminal
         /\ DeadLetter(n) = 0 => taskStatus[<<n, v>>] = "SUCCEEDED"
<1> DEFINE R == VendorsWith(n, TaskStatus \ {"NONE"})
           S == VendorsWith(n, {"SUCCEEDED"})
           D == VendorsWith(n, {"DEAD_LETTER"})
<1>1. IsFiniteSet(R) /\ IsFiniteSet(S) /\ IsFiniteSet(D)
  BY StoreAssumption, FS_Subset DEF VendorsWith
<1>2. S \cup D \subseteq R /\ S \cap D = {}
  BY DEF VendorsWith, TaskStatus, TaskTerminal
<1>3. Cardinality(S \cup D) = Cardinality(S) + Cardinality(D)
  <2>1. Cardinality(S \cup D) = Cardinality(S) + Cardinality(D) - Cardinality(S \cap D)
    BY <1>1, FS_Union
  <2>2. Cardinality(S \cap D) = 0
    BY <1>2, FS_EmptySet
  <2>3. Cardinality(S) \in Nat /\ Cardinality(D) \in Nat
    BY <1>1, FS_CardinalityType
  <2> QED
    BY <2>1, <2>2, <2>3
<1>4. Cardinality(S \cup D) <= Cardinality(R)
  BY <1>1, <1>2, FS_Subset
<1>5. Cardinality(S) + Cardinality(D) >= Cardinality(R)
  BY DEF AllTerminal, Succeeded, DeadLetter, Total
<1>6. Cardinality(S \cup D) = Cardinality(R)
  BY <1>1, <1>3, <1>4, <1>5, FS_CardinalityType
<1>7. S \cup D = R
  BY <1>1, <1>2, <1>6, FS_Subset
<1>8. taskStatus[<<n, v>>] \in TaskStatus
  BY DEF TypeOK, StoreTypeOK, Task
<1>9. v \in R
  BY <1>8 DEF VendorsWith
<1>10. DeadLetter(n) = 0 => D = {}
  BY <1>1, FS_EmptySet DEF DeadLetter
<1> QED
  BY <1>7, <1>9, <1>10 DEF VendorsWith, TaskTerminal

-----------------------------------------------------------------------------
(* The empty tables and queues of a fresh start satisfy the invariant. *)
LEMMA InitInv == Init => ServiceInv
<1> SUFFICES ASSUME Init PROVE ServiceInv
  OBVIOUS
<1> USE DEF Init, StoreInit, BrokerInit, IngestionInit, DispatcherInit, WorkerInit
<1>1. TypeOK
  BY DEF TypeOK, StoreTypeOK, BrokerTypeOK, IngestionTypeOK, DispatcherTypeOK,
         WorkerTypeOK, NotifStatus, TaskStatus, WorkerPc
<1>2. LocalsInv /\ DispatchInv /\ ConfirmInv /\ WorkersInv
  BY DEF LocalsInv, DispatchInv, ConfirmInv, WorkersInv, WorkerKnows
<1>3. MessageInv
  BY DEF MessageInv
<1>4. NoFalseSuccess /\ NoPrematureTerminal /\ NoSilentLoss
  BY DEF NoFalseSuccess, NoPrematureTerminal, NoSilentLoss, Terminal
<1> QED
  BY <1>1, <1>2, <1>3, <1>4 DEF ServiceInv

-----------------------------------------------------------------------------
(***************************************************************************)
(* Nothing stored is undone: rows and terminal statuses stay, and a        *)
(* notification keeps its event and never returns to PENDING.              *)
(***************************************************************************)
StoreGrows ==
  /\ \A n \in Notif : status[n] # "NONE" =>
       status'[n] # "NONE" /\ event'[n] = event[n]
  /\ \A n \in Notif : status[n] \notin {"NONE", "PENDING"} =>
       status'[n] \notin {"NONE", "PENDING"}
  /\ \A t \in Task : taskStatus[t] # "NONE" => taskStatus'[t] # "NONE"
  /\ \A t \in Task : taskStatus[t] \in TaskTerminal => taskStatus'[t] \in TaskTerminal

(* Each SQL statement keeps the types and undoes nothing. *)
LEMMA UpsertEffect ==
  ASSUME StoreTypeOK, NEW n \in Notif, NEW e \in Event, NEW r,
         UpsertNotification(n, e, r)
  PROVE  /\ StoreTypeOK' /\ StoreGrows
         /\ \A m \in Notif : status[m] = "PENDING" => status'[m] = "PENDING"
         /\ \A m \in Notif : status'[m] \in Terminal => status'[m] = status[m]
         /\ taskStatus' = taskStatus
<1> USE DEF UpsertNotification, Answers, Exists, StoreTypeOK
<1>1. StoreTypeOK'
  BY DEF NotifStatus
<1> QED
  BY <1>1 DEF StoreGrows, Terminal

(* UpdateNotificationStatus touches one status and no task. *)
LEMMA UpdateNotificationStatusEffect ==
  ASSUME StoreTypeOK, NEW n \in Notif, NEW s \in {"DELIVERING"} \cup Terminal, NEW r,
         UpdateNotificationStatus(n, s, r)
  PROVE  StoreTypeOK' /\ StoreGrows /\ event' = event /\ taskStatus' = taskStatus
<1> USE DEF UpdateNotificationStatus, Answers, StoreTypeOK, Terminal
<1>1. StoreTypeOK'
  BY DEF NotifStatus
<1> QED
  BY <1>1 DEF StoreGrows

(* An INSERT adds a PENDING row and leaves existing rows alone. *)
LEMMA InsertDeliveryTaskEffect ==
  ASSUME StoreTypeOK, NEW t \in Task, NEW r, InsertDeliveryTask(t, r)
  PROVE  /\ StoreTypeOK' /\ StoreGrows /\ event' = event /\ status' = status
         /\ Applied(r) => taskStatus'[t] # "NONE"
         /\ \A u \in Task : taskStatus'[u] = "SUCCEEDED" => taskStatus[u] = "SUCCEEDED"
<1> USE DEF InsertDeliveryTask, Answers, Conflicts, StoreTypeOK
<1>1. StoreTypeOK'
  BY DEF TaskStatus
<1> QED
  BY <1>1 DEF StoreGrows, TaskTerminal

(* UpdateDeliveryTaskStatus writes one task, to a terminal status. *)
LEMMA UpdateDeliveryTaskStatusEffect ==
  ASSUME StoreTypeOK, NEW t \in Task, NEW s \in TaskTerminal, NEW r,
         UpdateDeliveryTaskStatus(t, s, r)
  PROVE  /\ StoreTypeOK' /\ StoreGrows /\ event' = event /\ status' = status
         /\ Applied(r) => taskStatus'[t] = s
         /\ \A u \in Task : taskStatus'[u] = taskStatus[u] \/ (u = t /\ taskStatus'[u] = s)
<1> USE DEF UpdateDeliveryTaskStatus, Answers, StoreTypeOK, TaskTerminal
<1>1. StoreTypeOK'
  BY DEF TaskStatus
<1> QED
  BY <1>1 DEF StoreGrows

(* UpdateDeliveryTaskRetry writes no status. *)
LEMMA UpdateDeliveryTaskRetryEffect ==
  ASSUME StoreTypeOK, NEW t \in Task, NEW c \in Nat, NEW r,
         UpdateDeliveryTaskRetry(t, c, r)
  PROVE  StoreTypeOK' /\ StoreGrows /\ UNCHANGED <<status, event, taskStatus>>
BY DEF UpdateDeliveryTaskRetry, Answers, StoreTypeOK, StoreGrows

(* A SELECT writes nothing. *)
LEMMA QueryEffect ==
  ASSUME StoreTypeOK, NEW r, Query(r)
  PROVE  StoreTypeOK' /\ StoreGrows /\ UNCHANGED <<status, event, taskStatus, retryCount>>
BY DEF Query, Answers, StoreTypeOK, StoreGrows

(* A step without a statement leaves the tables as they are. *)
LEMMA StoreUnchanged ==
  ASSUME StoreTypeOK, UNCHANGED storeVars
  PROVE  StoreTypeOK' /\ StoreGrows /\ UNCHANGED <<status, event, taskStatus>>
BY DEF storeVars, StoreTypeOK, StoreGrows

(* What a dispatched notification has, it keeps. *)
LEMMA GrowthKeeps ==
  ASSUME TypeOK, StoreGrows, NEW n \in Notif, status[n] # "NONE"
  PROVE  /\ RoutesOf(n)' = RoutesOf(n)
         /\ Routed(n)' = Routed(n)
         /\ TasksOf(n)' = TasksOf(n)
         /\ RowsExist(n) => RowsExist(n)'
         /\ AllDone(n) => AllDone(n)'
         /\ Dispatched(n) => Dispatched(n)'
<1>1. RoutesOf(n)' = RoutesOf(n)
  BY DEF StoreGrows, RoutesOf
<1>2. Routed(n)' = Routed(n)
  BY <1>1 DEF Routed
<1>3. TasksOf(n)' = TasksOf(n)
  BY <1>2 DEF TasksOf
<1>4. \A v \in Routed(n) : <<n, v>> \in Task
  BY RoutedVendors DEF Task
<1>5. (RowsExist(n) => RowsExist(n)') /\ (AllDone(n) => AllDone(n)')
  BY <1>2, <1>4 DEF RowsExist, AllDone, StoreGrows
<1>6. Dispatched(n) => Dispatched(n)'
  BY <1>5 DEF Dispatched, StoreGrows
<1> QED
  BY <1>1, <1>2, <1>3, <1>5, <1>6

-----------------------------------------------------------------------------
(* The parts about the dispatcher and the statuses, under other steps. *)
LEMMA DispatchStays ==
  ASSUME ServiceInv, StoreGrows, confirmed \subseteq confirmed',
         \A n \in Notif : status[n] = "PENDING" => status'[n] = "PENDING",
         UNCHANGED <<dpc, dn, di, published>>
  PROVE  /\ dpc' # "idle" => dn' \in Notif
         /\ dpc' \in {"insert", "publish"} => di' \in DOMAIN RoutesOf(dn)'
         /\ DispatchInv'
         /\ \A t \in published' : Dispatched(t[1])'
<1> USE DEF ServiceInv
<1>1. dpc \in {"fail", "insert", "status", "publish"} =>
        /\ dn \in Notif /\ status[dn] # "NONE"
        /\ RoutesOf(dn)' = RoutesOf(dn) /\ Routed(dn)' = Routed(dn)
        /\ RowsExist(dn) => RowsExist(dn)'
        /\ Dispatched(dn) => Dispatched(dn)'
  BY GrowthKeeps DEF LocalsInv, DispatchInv, Dispatched
<1>2. dpc \in {"insert", "publish"} => di \in DOMAIN RoutesOf(dn)'
  BY <1>1 DEF LocalsInv
<1>3. dpc = "insert" => \A i \in DOMAIN RoutesOf(dn) : <<dn, RoutesOf(dn)[i]>> \in Task
  BY <1>1, RoutedVendors DEF Task
<1>4. DispatchInv'
  BY <1>1, <1>3 DEF DispatchInv, StoreGrows
<1>5. \A t \in published' : Dispatched(t[1])'
  BY GrowthKeeps DEF MessageInv, Dispatched, TypeOK, DispatcherTypeOK, Task
<1> QED
  BY <1>2, <1>4, <1>5 DEF LocalsInv

(* Statuses and confirmations that stay keep the verdicts true. *)
LEMMA VerdictsStay ==
  ASSUME ServiceInv, StoreGrows, confirmed \subseteq confirmed',
         \A n \in Notif : status'[n] \in Terminal => status'[n] = status[n]
  PROVE  NoFalseSuccess' /\ NoPrematureTerminal'
<1>1. \A n \in Notif : status'[n] \in Terminal =>
        /\ status'[n] = status[n] /\ TasksOf(n)' = TasksOf(n) /\ TasksOf(n) \subseteq Task
  BY GrowthKeeps, RoutedVendors DEF ServiceInv, Terminal
<1> QED
  BY <1>1 DEF ServiceInv, NoFalseSuccess, NoPrematureTerminal, StoreGrows, Terminal

(* What an uninvolved worker knows survives a step of someone else. *)
LEMMA KnowledgeStays ==
  ASSUME ServiceInv, StoreGrows, confirmed \subseteq confirmed', published \subseteq published',
         NEW w \in Worker, wpc'[w] = wpc[w], wtask'[w] = wtask[w], wmark'[w] = wmark[w]
  PROVE  WorkerKnows(w)'
<1>1. wpc[w] # "idle" =>
         wtask[w] \in Task /\ wtask[w][1] \in Notif /\ Dispatched(wtask[w][1])
  BY DEF ServiceInv, MessageInv, WorkersInv, WorkerKnows, TypeOK, DispatcherTypeOK, Task
<1>2. wpc[w] # "idle" =>
        /\ AllDone(wtask[w][1]) => AllDone(wtask[w][1])'
        /\ TasksOf(wtask[w][1])' = TasksOf(wtask[w][1])
  BY <1>1, GrowthKeeps DEF ServiceInv, Dispatched
<1> QED
  BY <1>1, <1>2 DEF ServiceInv, WorkersInv, WorkerKnows, StoreGrows

(* The same for the whole pool when no worker moves. *)
LEMMA WorkersStay ==
  ASSUME ServiceInv, StoreGrows, UNCHANGED workerVars, published \subseteq published',
         \A t \in Task : taskStatus'[t] = "SUCCEEDED" => taskStatus[t] = "SUCCEEDED"
  PROVE  ConfirmInv' /\ WorkersInv'
<1>1. ConfirmInv'
  BY DEF ServiceInv, ConfirmInv, workerVars
<1>2. WorkersInv'
  BY KnowledgeStays DEF WorkersInv, workerVars
<1> QED
  BY <1>1, <1>2

-----------------------------------------------------------------------------
(* The steps of a request. *)
LEMMA SubmitKeepsInv ==
  ASSUME ServiceInv, NEW h \in Handler, NEW n \in Notif, NEW e \in Event,
         Submit(h, n, e), UNCHANGED <<dispatcherVars, workerVars, faultVars>>
  PROVE  ServiceInv'
<1> USE DEF ServiceInv, dispatcherVars, faultVars, brokerVars
<1>1. PICK r \in DbAnswer :
        /\ UpsertNotification(n, e, r)
        /\ \E pc \in {"idle", "publish", "reply"} : HandlerGoes(h, pc, n)
  BY DEF Submit
<1>2. /\ StoreTypeOK' /\ StoreGrows /\ taskStatus' = taskStatus
      /\ \A m \in Notif : status[m] = "PENDING" => status'[m] = "PENDING"
      /\ \A m \in Notif : status'[m] \in Terminal => status'[m] = status[m]
  BY <1>1, UpsertEffect DEF TypeOK
<1>3. IngestionTypeOK' /\ \A g \in Handler : hpc'[g] # "idle" => hn'[g] \in Notif
  BY <1>1 DEF TypeOK, IngestionTypeOK, LocalsInv, Submit, HandlerGoes
<1>4. TypeOK'
  BY <1>2, <1>3 DEF TypeOK, BrokerTypeOK, DispatcherTypeOK, WorkerTypeOK, Submit, workerVars
<1>5. confirmed' = confirmed
  BY DEF workerVars
<1>6. LocalsInv' /\ DispatchInv' /\ \A t \in published' : Dispatched(t[1])'
  BY <1>2, <1>3, <1>5, DispatchStays DEF LocalsInv
<1>7. MessageInv'
  BY <1>6 DEF MessageInv, Submit
<1>8. ConfirmInv' /\ WorkersInv' /\ NoFalseSuccess' /\ NoPrematureTerminal'
  BY <1>2, <1>5, WorkersStay, VerdictsStay
<1>9. NoSilentLoss'
  BY <1>2 DEF NoSilentLoss, Live, InRetryQ, Holds, Submit, workerVars
<1> QED
  BY <1>4, <1>6, <1>7, <1>8, <1>9

(* Publishing a trigger, lost or not, touches no delivery message. *)
LEMMA SubmitPublishKeepsInv ==
  ASSUME ServiceInv, NEW h \in Handler, SubmitPublish(h),
         UNCHANGED <<dispatcherVars, workerVars, faultVars>>
  PROVE  ServiceInv'
<1> USE DEF ServiceInv, dispatcherVars, faultVars
<1>1. PICK ok \in BOOLEAN : PublishTrigger(hn[h], ok)
  BY DEF SubmitPublish
<1>2. hn[h] \in Notif
  BY DEF LocalsInv, SubmitPublish
<1>3. StoreTypeOK' /\ StoreGrows /\ UNCHANGED <<status, event, taskStatus, confirmed>>
  BY StoreUnchanged DEF SubmitPublish, TypeOK, workerVars
<1>4. IngestionTypeOK' /\ \A g \in Handler : hpc'[g] # "idle" => hn'[g] \in Notif
  BY <1>2 DEF TypeOK, IngestionTypeOK, LocalsInv, SubmitPublish, HandlerGoes
<1>5. BrokerTypeOK' /\ UNCHANGED <<conn, deliveryQ, retryQ>>
  BY <1>1, <1>2 DEF TypeOK, BrokerTypeOK, PublishTrigger
<1>6. TypeOK'
  BY <1>3, <1>4, <1>5 DEF TypeOK, DispatcherTypeOK, WorkerTypeOK, workerVars
<1>7. LocalsInv' /\ DispatchInv' /\ \A t \in published' : Dispatched(t[1])'
  BY <1>3, <1>4, DispatchStays DEF LocalsInv
<1>8. MessageInv'
  BY <1>5, <1>7 DEF MessageInv
<1>9. ConfirmInv' /\ WorkersInv' /\ NoFalseSuccess' /\ NoPrematureTerminal'
  BY <1>3, WorkersStay, VerdictsStay
<1>10. NoSilentLoss'
  BY <1>3, <1>5 DEF NoSilentLoss, Live, InRetryQ, Holds, workerVars
<1> QED
  BY <1>6, <1>7, <1>8, <1>9, <1>10

(* Reading the row back for the answer changes no table. *)
LEMMA SubmitReplyKeepsInv ==
  ASSUME ServiceInv, NEW h \in Handler, SubmitReply(h),
         UNCHANGED <<dispatcherVars, workerVars, faultVars>>
  PROVE  ServiceInv'
<1> USE DEF ServiceInv, dispatcherVars, faultVars, brokerVars
<1>1. PICK r \in ReadAnswer :
        /\ Query(r)
        /\ accepted' = IF r = "ok" THEN accepted \cup {hn[h]} ELSE accepted
  BY DEF SubmitReply, GetNotification
<1>2. hn[h] \in Notif
  BY DEF LocalsInv, SubmitReply
<1>3. StoreTypeOK' /\ StoreGrows /\ UNCHANGED <<status, event, taskStatus, confirmed>>
  BY <1>1, QueryEffect DEF TypeOK, workerVars
<1>4. IngestionTypeOK' /\ \A g \in Handler : hpc'[g] # "idle" => hn'[g] \in Notif
  BY <1>1, <1>2 DEF TypeOK, IngestionTypeOK, LocalsInv, SubmitReply, HandlerGoes
<1>5. BrokerTypeOK' /\ UNCHANGED <<conn, deliveryQ, retryQ>>
  BY DEF TypeOK, BrokerTypeOK, SubmitReply
<1>6. TypeOK'
  BY <1>3, <1>4, <1>5 DEF TypeOK, DispatcherTypeOK, WorkerTypeOK, workerVars
<1>7. LocalsInv' /\ DispatchInv' /\ \A t \in published' : Dispatched(t[1])'
  BY <1>3, <1>4, DispatchStays DEF LocalsInv
<1>8. MessageInv'
  BY <1>5, <1>7 DEF MessageInv
<1>9. ConfirmInv' /\ WorkersInv' /\ NoFalseSuccess' /\ NoPrematureTerminal'
  BY <1>3, WorkersStay, VerdictsStay
<1>10. NoSilentLoss'
  BY <1>3, <1>5 DEF NoSilentLoss, Live, InRetryQ, Holds, workerVars
<1> QED
  BY <1>6, <1>7, <1>8, <1>9, <1>10

-----------------------------------------------------------------------------
(* The steps of the dispatcher. *)

(* What is left to show of a dispatcher step that publishes no message. *)
LEMMA QuietDispatch ==
  ASSUME ServiceInv, StoreGrows, StoreTypeOK', BrokerTypeOK', DispatcherTypeOK',
         UNCHANGED <<ingestionVars, workerVars, faultVars>>,
         UNCHANGED <<conn, deliveryQ, retryQ, published>>,
         \A t \in Task : taskStatus'[t] = "SUCCEEDED" => taskStatus[t] = "SUCCEEDED",
         dpc' # "idle" => dn' \in Notif,
         dpc' \in {"insert", "publish"} => di' \in DOMAIN RoutesOf(dn)',
         DispatchInv', NoFalseSuccess', NoPrematureTerminal'
  PROVE  ServiceInv'
<1> USE DEF ServiceInv, ingestionVars, faultVars
<1>1. TypeOK'
  BY DEF TypeOK, IngestionTypeOK, WorkerTypeOK, workerVars
<1>2. ConfirmInv' /\ WorkersInv'
  BY WorkersStay
<1>3. LocalsInv'
  BY DEF LocalsInv
<1>4. \A t \in published : Dispatched(t[1])'
  BY GrowthKeeps DEF MessageInv, Dispatched, TypeOK, DispatcherTypeOK, Task
<1>5. MessageInv'
  BY <1>4 DEF MessageInv
<1>6. NoSilentLoss'
  BY DEF NoSilentLoss, Live, InRetryQ, Holds, workerVars, StoreGrows, TypeOK, DispatcherTypeOK
<1> QED
  BY <1>1, <1>2, <1>3, <1>5, <1>6

(* Receiving a trigger starts Dispatch with nothing established. *)
LEMMA TakeTriggerKeepsInv ==
  ASSUME ServiceInv, NEW n \in Notif, TakeTrigger(n),
         UNCHANGED <<ingestionVars, workerVars, faultVars>>
  PROVE  ServiceInv'
<1> USE DEF ServiceInv
<1>1. StoreTypeOK' /\ StoreGrows /\ UNCHANGED <<status, event, taskStatus, confirmed>>
  BY StoreUnchanged DEF TakeTrigger, TypeOK, workerVars
<1>2. BrokerTypeOK' /\ UNCHANGED <<conn, deliveryQ, retryQ>>
  BY DEF TypeOK, BrokerTypeOK, TakeTrigger, ReceiveTrigger
<1>3. DispatcherTypeOK' /\ DispatchInv'
  BY DEF TakeTrigger, TypeOK, DispatcherTypeOK, DispatchInv
<1>4. NoFalseSuccess' /\ NoPrematureTerminal'
  BY <1>1, VerdictsStay
<1> QED
  BY <1>1, <1>2, <1>3, <1>4, QuietDispatch DEF TakeTrigger

(* GetNotification establishes PENDING for the branch it chooses. *)
LEMMA DispatchLoadKeepsInv ==
  ASSUME ServiceInv, DispatchLoad, UNCHANGED <<ingestionVars, workerVars, faultVars>>
  PROVE  ServiceInv'
<1> USE DEF ServiceInv, brokerVars
<1>1. PICK r \in ReadAnswer :
        /\ Query(r)
        /\ IF r # "ok" \/ status[dn] # "PENDING" THEN DispatcherGoes("idle", 0)
           ELSE IF RoutesOf(dn) = <<>> THEN DispatcherGoes("fail", 0)
           ELSE DispatcherGoes("insert", 1)
  BY DEF DispatchLoad, GetNotification
<1>2. StoreTypeOK' /\ StoreGrows /\ UNCHANGED <<status, event, taskStatus, confirmed>>
  BY <1>1, QueryEffect DEF TypeOK, workerVars
<1>3. BrokerTypeOK' /\ UNCHANGED <<conn, deliveryQ, retryQ, published>>
  BY DEF TypeOK, BrokerTypeOK, DispatchLoad
<1>4. dn \in Notif /\ RoutesOf(dn) \in Seq(Vendor)
  BY RoutedVendors DEF LocalsInv, DispatchLoad
<1>5. NoFalseSuccess' /\ NoPrematureTerminal'
  BY <1>2, VerdictsStay
<1>6. CASE DispatcherGoes("idle", 0)
  BY <1>2, <1>3, <1>5, <1>6, QuietDispatch
     DEF DispatcherGoes, TypeOK, DispatcherTypeOK, DispatchInv
<1>7. CASE DispatcherGoes("fail", 0) /\ status[dn] = "PENDING" /\ RoutesOf(dn) = <<>>
  <2>1. Routed(dn) = {}
    BY <1>7 DEF Routed
  <2>2. DispatchInv' /\ DispatcherTypeOK' /\ dn' \in Notif
    BY <1>2, <1>3, <1>4, <1>7, <2>1
       DEF DispatcherGoes, TypeOK, DispatcherTypeOK, DispatchInv, Routed, RoutesOf
  <2> QED
    BY <1>2, <1>3, <1>5, <1>7, <2>2, QuietDispatch DEF DispatcherGoes
<1>8. CASE DispatcherGoes("insert", 1) /\ status[dn] = "PENDING" /\ RoutesOf(dn) # <<>>
  <2>1. RoutesOf(dn)' = RoutesOf(dn) /\ dn' = dn
    BY <1>2, <1>8 DEF RoutesOf, DispatcherGoes
  <2>2. 1 \in DOMAIN RoutesOf(dn) /\ \A i \in DOMAIN RoutesOf(dn) : ~(i < 1)
    BY <1>4, <1>8
  <2>3. DispatchInv' /\ DispatcherTypeOK' /\ dn' \in Notif /\ di' = 1
    BY <1>2, <1>3, <1>4, <1>8, <2>1, <2>2
       DEF DispatcherGoes, TypeOK, DispatcherTypeOK, DispatchInv
  <2> QED
    BY <1>2, <1>3, <1>5, <1>8, <2>1, <2>2, <2>3, QuietDispatch
<1> QED
  BY <1>1, <1>6, <1>7, <1>8

(* FAILED without rules: there is no routed vendor to wait for. *)
LEMMA DispatchFailKeepsInv ==
  ASSUME ServiceInv, DispatchFail, UNCHANGED <<ingestionVars, workerVars, faultVars>>
  PROVE  ServiceInv'
<1> USE DEF ServiceInv, brokerVars
<1>1. PICK r \in DbAnswer : UpdateNotificationStatus(dn, "FAILED", r)
  BY DEF DispatchFail
<1>2. dn \in Notif /\ status[dn] = "PENDING" /\ Routed(dn) = {}
  BY DEF LocalsInv, DispatchInv, DispatchFail
<1>3. StoreTypeOK' /\ StoreGrows /\ UNCHANGED <<event, taskStatus, confirmed>>
  BY <1>1, <1>2, UpdateNotificationStatusEffect DEF TypeOK, workerVars, Terminal
<1>4. BrokerTypeOK' /\ UNCHANGED <<conn, deliveryQ, retryQ, published>>
  BY DEF TypeOK, BrokerTypeOK, DispatchFail
<1>5. DispatcherTypeOK' /\ DispatchInv' /\ dpc' = "idle"
  BY DEF DispatchFail, DispatcherGoes, TypeOK, DispatcherTypeOK, DispatchInv
<1>6. \A n \in Notif : TasksOf(n)' = TasksOf(n)
  BY <1>3 DEF TasksOf, Routed, RoutesOf
<1>7. TasksOf(dn) = {}
  BY <1>2 DEF TasksOf
<1>8. \A n \in Notif : n # dn => status'[n] = status[n]
  BY <1>1 DEF UpdateNotificationStatus, TypeOK, StoreTypeOK
<1>9. NoFalseSuccess' /\ NoPrematureTerminal'
  BY <1>3, <1>6, <1>7, <1>8 DEF NoFalseSuccess, NoPrematureTerminal
<1> QED
  BY <1>3, <1>4, <1>5, <1>9, QuietDispatch

(* One INSERT of CreateDeliveryTasks extends the rows created so far. *)
LEMMA DispatchInsertKeepsInv ==
  ASSUME ServiceInv, DispatchInsert, UNCHANGED <<ingestionVars, workerVars, faultVars>>
  PROVE  ServiceInv'
<1> USE DEF ServiceInv, brokerVars
<1> DEFINE t == <<dn, RoutesOf(dn)[di]>>
<1>1. PICK r \in DbAnswer :
        /\ InsertDeliveryTask(t, r)
        /\ IF r # "ok" \/ Conflicts(t) THEN DispatcherGoes("idle", 0)
           ELSE IF di < Len(RoutesOf(dn)) THEN DispatcherGoes("insert", di + 1)
           ELSE DispatcherGoes("status", 0)
  BY DEF DispatchInsert
<1>2. /\ dn \in Notif /\ di \in DOMAIN RoutesOf(dn) /\ status[dn] = "PENDING"
      /\ \A i \in DOMAIN RoutesOf(dn) : i < di =>
           taskStatus[<<dn, RoutesOf(dn)[i]>>] # "NONE"
  BY DEF LocalsInv, DispatchInv, DispatchInsert
<1>3. RoutesOf(dn) \in Seq(Vendor) /\ \A i \in DOMAIN RoutesOf(dn) : <<dn, RoutesOf(dn)[i]>> \in Task
  BY <1>2, RoutedVendors DEF Task
<1>4. t \in Task
  BY <1>2, <1>3
<1>5. /\ StoreTypeOK' /\ StoreGrows /\ UNCHANGED <<status, event, confirmed>>
      /\ Applied(r) => taskStatus'[t] # "NONE"
      /\ \A u \in Task : taskStatus'[u] = "SUCCEEDED" => taskStatus[u] = "SUCCEEDED"
  BY <1>1, <1>4, InsertDeliveryTaskEffect DEF TypeOK, workerVars
<1>6. BrokerTypeOK' /\ UNCHANGED <<conn, deliveryQ, retryQ, published>>
  BY DEF TypeOK, BrokerTypeOK, DispatchInsert
<1>7. NoFalseSuccess' /\ NoPrematureTerminal'
  BY <1>5, VerdictsStay
<1>8. dn' = dn => RoutesOf(dn)' = RoutesOf(dn)
  BY <1>5 DEF RoutesOf
<1>9. CASE DispatcherGoes("idle", 0)
  BY <1>5, <1>6, <1>7, <1>9, QuietDispatch
     DEF DispatcherGoes, TypeOK, DispatcherTypeOK, DispatchInv
<1>10. ASSUME r = "ok"
       PROVE  \A i \in DOMAIN RoutesOf(dn) : i <= di => taskStatus'[<<dn, RoutesOf(dn)[i]>>] # "NONE"
  <2>1. TAKE i \in DOMAIN RoutesOf(dn)
  <2>2. taskStatus'[t] # "NONE"
    BY <1>5, <1>10 DEF Applied
  <2>3. CASE i < di
    BY <1>2, <1>3, <1>5, <2>3 DEF StoreGrows
  <2>4. i \in Nat /\ di \in Nat
    BY <1>2, <1>3
  <2> QED
    BY <2>2, <2>3, <2>4
<1>11. CASE r = "ok" /\ di < Len(RoutesOf(dn)) /\ DispatcherGoes("insert", di + 1)
  <2>1. dn' = dn /\ di' = di + 1 /\ dpc' = "insert" /\ RoutesOf(dn)' = RoutesOf(dn)
    BY <1>8, <1>11 DEF DispatcherGoes
  <2>2. di' \in DOMAIN RoutesOf(dn) /\ \A i \in DOMAIN RoutesOf(dn) : i < di' => i <= di
    BY <1>2, <1>3, <1>11, <2>1
  <2>3. DispatchInv' /\ DispatcherTypeOK'
    BY <1>2, <1>3, <1>5, <1>6, <1>10, <1>11, <2>1, <2>2 DEF DispatchInv, TypeOK, DispatcherTypeOK
  <2> QED
    BY <1>2, <1>5, <1>6, <1>7, <2>1, <2>2, <2>3, QuietDispatch
<1>12. CASE r = "ok" /\ ~(di < Len(RoutesOf(dn))) /\ DispatcherGoes("status", 0)
  <2>1. dn' = dn /\ di' = 0 /\ dpc' = "status" /\ RoutesOf(dn)' = RoutesOf(dn)
    BY <1>8, <1>12 DEF DispatcherGoes
  <2>2. \A i \in DOMAIN RoutesOf(dn) : i <= di
    BY <1>2, <1>3, <1>12
  <2>3. RowsExist(dn)'
    BY <1>10, <1>12, <2>1, <2>2 DEF RowsExist, Routed
  <2>4. DispatchInv' /\ DispatcherTypeOK'
    BY <1>2, <1>3, <1>5, <1>6, <2>1, <2>3 DEF DispatchInv, TypeOK, DispatcherTypeOK
  <2> QED
    BY <1>2, <1>5, <1>6, <1>7, <2>1, <2>4, QuietDispatch
<1> QED
  BY <1>1, <1>9, <1>11, <1>12

(* DELIVERING is stored once every routed vendor has its row. *)
LEMMA DispatchStatusKeepsInv ==
  ASSUME ServiceInv, DispatchStatus, UNCHANGED <<ingestionVars, workerVars, faultVars>>
  PROVE  ServiceInv'
<1> USE DEF ServiceInv, brokerVars
<1>1. PICK r \in DbAnswer :
        /\ UpdateNotificationStatus(dn, "DELIVERING", r)
        /\ IF r = "ok" THEN DispatcherGoes("publish", 1) ELSE DispatcherGoes("idle", 0)
  BY DEF DispatchStatus
<1>2. dn \in Notif /\ status[dn] = "PENDING" /\ RowsExist(dn)
  BY DEF LocalsInv, DispatchInv, DispatchStatus
<1>3. StoreTypeOK' /\ StoreGrows /\ UNCHANGED <<event, taskStatus, confirmed>>
  BY <1>1, <1>2, UpdateNotificationStatusEffect DEF TypeOK, workerVars
<1>4. BrokerTypeOK' /\ UNCHANGED <<conn, deliveryQ, retryQ, published>>
  BY DEF TypeOK, BrokerTypeOK, DispatchStatus
<1>5. \A n \in Notif : status'[n] \in Terminal => status'[n] = status[n]
  BY <1>1 DEF UpdateNotificationStatus, TypeOK, StoreTypeOK, Terminal
<1>6. NoFalseSuccess' /\ NoPrematureTerminal'
  BY <1>3, <1>5, VerdictsStay
<1>7. CASE DispatcherGoes("idle", 0)
  BY <1>3, <1>4, <1>6, <1>7, QuietDispatch
     DEF DispatcherGoes, TypeOK, DispatcherTypeOK, DispatchInv
<1>8. CASE r = "ok" /\ DispatcherGoes("publish", 1)
  <2>1. dn' = dn /\ di' = 1 /\ dpc' = "publish"
    BY <1>8 DEF DispatcherGoes
  <2>2. status'[dn] = "DELIVERING"
    BY <1>1, <1>2, <1>8 DEF UpdateNotificationStatus, Applied, TypeOK, StoreTypeOK
  <2>3. RoutesOf(dn)' = RoutesOf(dn) /\ RowsExist(dn)'
    BY <1>2, <1>3, <2>1 DEF RoutesOf, RowsExist, Routed
  <2>4. 1 \in DOMAIN RoutesOf(dn)
    BY <1>2, RoutedVendors DEF DispatchInv, DispatchStatus
  <2>5. DispatchInv' /\ DispatcherTypeOK'
    BY <1>2, <1>4, <2>1, <2>2, <2>3 DEF DispatchInv, Dispatched, TypeOK, DispatcherTypeOK
  <2> QED
    BY <1>2, <1>3, <1>4, <1>6, <2>1, <2>3, <2>4, <2>5, QuietDispatch
<1> QED
  BY <1>1, <1>7, <1>8

(* A delivery message is published for a dispatched notification. *)
LEMMA DispatchPublishKeepsInv ==
  ASSUME ServiceInv, DispatchPublish, UNCHANGED <<ingestionVars, workerVars, faultVars>>
  PROVE  ServiceInv'
<1> USE DEF ServiceInv
<1> DEFINE t == <<dn, RoutesOf(dn)[di]>>
<1>1. PICK ok \in BOOLEAN :
        /\ PublishDelivery(t, ok)
        /\ IF ok /\ di < Len(RoutesOf(dn)) THEN DispatcherGoes("publish", di + 1)
                                           ELSE DispatcherGoes("idle", 0)
  BY DEF DispatchPublish
<1>2. dn \in Notif /\ di \in DOMAIN RoutesOf(dn) /\ Dispatched(dn)
  BY DEF LocalsInv, DispatchInv, DispatchPublish
<1>3. RoutesOf(dn) \in Seq(Vendor) /\ t \in Task
  BY <1>2, RoutedVendors DEF Task
<1>4. StoreTypeOK' /\ StoreGrows /\ UNCHANGED <<status, event, taskStatus, confirmed>>
  BY StoreUnchanged DEF DispatchPublish, TypeOK, workerVars
<1>5. BrokerTypeOK' /\ UNCHANGED <<conn, retryQ>>
  BY <1>1, <1>3 DEF TypeOK, BrokerTypeOK, PublishDelivery
<1>6. published' = IF conn THEN published \cup {t} ELSE published
  BY DEF DispatchPublish
<1>7. dn' = dn => RoutesOf(dn)' = RoutesOf(dn)
  BY <1>4 DEF RoutesOf
<1>8. DispatcherTypeOK' /\ (dpc' = "idle" \/ (dpc' = "publish" /\ dn' = dn /\ di' = di + 1))
      /\ (dpc' = "publish" => di' \in DOMAIN RoutesOf(dn))
  BY <1>1, <1>2, <1>3, <1>6 DEF DispatcherGoes, TypeOK, DispatcherTypeOK
<1>9. TypeOK'
  BY <1>4, <1>5, <1>8 DEF TypeOK, IngestionTypeOK, WorkerTypeOK, workerVars, ingestionVars,
     faultVars
<1>10. \A u \in published' : Dispatched(u[1])'
  <2>1. \A u \in published : u[1] \in Notif /\ Dispatched(u[1])
    BY DEF MessageInv, TypeOK, DispatcherTypeOK, Task
  <2>2. \A n \in Notif : Dispatched(n) => Dispatched(n)'
    BY <1>4, GrowthKeeps DEF Dispatched
  <2> QED
    BY <1>2, <1>6, <2>1, <2>2
<1>11. LocalsInv' /\ DispatchInv'
  <2>1. Dispatched(dn) /\ dn' = dn => Dispatched(dn)'
    BY <1>4 DEF Dispatched, RowsExist, Routed, RoutesOf
  <2> QED
    BY <1>2, <1>7, <1>8, <2>1 DEF LocalsInv, DispatchInv, ingestionVars
<1>12. MessageInv'
  BY <1>1, <1>3, <1>5, <1>6, <1>10 DEF MessageInv, PublishDelivery, TypeOK, BrokerTypeOK
<1>13. ConfirmInv' /\ WorkersInv' /\ NoFalseSuccess' /\ NoPrematureTerminal'
  BY <1>4, <1>6, WorkersStay, VerdictsStay
<1>14. NoSilentLoss'
  <2> HIDE DEF t
  <2>1. conn => deliveryQ'[t] > 0
    BY <1>1, <1>3 DEF PublishDelivery, TypeOK, BrokerTypeOK
  <2>2. \A u \in Task : deliveryQ[u] > 0 => deliveryQ'[u] > 0
    BY <1>1, <1>3 DEF PublishDelivery, TypeOK, BrokerTypeOK
  <2>3. \A u \in published : Live(u) => Live(u)'
    BY <1>5, <2>2 DEF TypeOK, DispatcherTypeOK, Live, InRetryQ, Holds, workerVars
  <2>4. PICK u \in Task : u = t
    BY <1>3
  <2>5. conn => Live(u)'
    BY <1>5, <2>1, <2>4 DEF Live
  <2> QED
    BY <1>4, <1>6, <2>3, <2>4, <2>5 DEF NoSilentLoss
<1> QED
  BY <1>9, <1>11, <1>12, <1>13, <1>14

-----------------------------------------------------------------------------
(* The steps of a worker. *)

(* What is left to show of a step of worker w. *)
LEMMA OneWorker ==
  ASSUME ServiceInv, NEW w \in Worker, StoreGrows,
         StoreTypeOK', BrokerTypeOK', WorkerTypeOK',
         UNCHANGED <<ingestionVars, dispatcherVars, faultVars>>,
         confirmed \subseteq confirmed',
         \A n \in Notif : status[n] = "PENDING" => status'[n] = "PENDING",
         \A u \in Worker \ {w} :
           wpc'[u] = wpc[u] /\ wtask'[u] = wtask[u] /\ wmark'[u] = wmark[u],
         \A t \in Task : deliveryQ'[t] > 0 => t \in published,
         \A i \in DOMAIN retryQ' : retryQ'[i].task \in published,
         ConfirmInv', WorkerKnows(w)',
         NoFalseSuccess', NoPrematureTerminal', NoSilentLoss'
  PROVE  ServiceInv'
<1> USE DEF ServiceInv, ingestionVars, dispatcherVars, faultVars
<1>1. TypeOK'
  BY DEF TypeOK, IngestionTypeOK, DispatcherTypeOK
<1>2. /\ dpc' # "idle" => dn' \in Notif
      /\ dpc' \in {"insert", "publish"} => di' \in DOMAIN RoutesOf(dn)'
      /\ DispatchInv' /\ \A t \in published' : Dispatched(t[1])'
  BY DispatchStays
<1>3. LocalsInv'
  BY <1>2 DEF LocalsInv
<1>4. MessageInv'
  BY <1>2 DEF MessageInv
<1>5. \A u \in Worker \ {w} : WorkerKnows(u)'
  BY KnowledgeStays
<1>6. WorkersInv'
  BY <1>5 DEF WorkersInv
<1> QED
  BY <1>1, <1>2, <1>3, <1>4, <1>6

(* A busy worker's task. *)
LEMMA BusyWorker ==
  ASSUME ServiceInv, NEW w \in Worker, wpc[w] # "idle"
  PROVE  /\ wtask[w] \in Task /\ wtask[w][1] \in Notif /\ wtask[w] \in published
         /\ Dispatched(wtask[w][1])
BY DEF ServiceInv, MessageInv, WorkersInv, WorkerKnows, TypeOK, DispatcherTypeOK, Task

(***************************************************************************)
(* A step that keeps the queues, the connection and the worker's message   *)
(* loses nothing: the worker still holds it, or its task is done.          *)
(***************************************************************************)
LEMMA NothingLost ==
  ASSUME ServiceInv, StoreGrows, NEW w \in Worker, confirmed \subseteq confirmed',
         UNCHANGED <<conn, deliveryQ, retryQ, published>>,
         \A u \in Worker \ {w} : wpc'[u] = wpc[u] /\ wtask'[u] = wtask[u],
         wpc[w] # "idle", wtask'[w] = wtask[w],
         \/ wpc'[w] \notin {"idle", "ack"}
         \/ wpc[w] = "ack"
         \/ taskStatus[wtask[w]] \in TaskTerminal
         \/ wtask[w] \in confirmed
  PROVE  NoSilentLoss'
<1> SUFFICES ASSUME NEW t \in published
             PROVE  taskStatus'[t] \in TaskTerminal \/ t \in confirmed' \/ Live(t)'
  BY DEF NoSilentLoss
<1>1. t \in Task
  BY DEF ServiceInv, TypeOK, DispatcherTypeOK
<1>2. CASE taskStatus[t] \in TaskTerminal \/ t \in confirmed
  BY <1>1, <1>2 DEF StoreGrows
<1>3. CASE Live(t)
  <2>1. CASE deliveryQ[t] > 0 \/ InRetryQ(t)
    BY <2>1 DEF Live, InRetryQ
  <2>2. ASSUME conn, NEW u \in Worker, Holds(u, t)
        PROVE  taskStatus'[t] \in TaskTerminal \/ t \in confirmed' \/ Live(t)'
    BY <1>1, <2>2 DEF Holds, Live, StoreGrows
  <2> QED
    BY <1>3, <2>1, <2>2 DEF Live
<1> QED
  BY <1>2, <1>3 DEF ServiceInv, NoSilentLoss

(* A worker takes over a message from the delivery queue. *)
LEMMA ReceiveKeepsInv ==
  ASSUME ServiceInv, NEW w \in Worker, NEW t \in Task, Receive(w, t),
         UNCHANGED <<ingestionVars, dispatcherVars, faultVars>>
  PROVE  ServiceInv'
<1> USE DEF ServiceInv
<1>1. /\ StoreTypeOK' /\ StoreGrows /\ UNCHANGED <<status, event, taskStatus, confirmed>>
      /\ published' = published
  BY StoreUnchanged DEF Receive, TypeOK, dispatcherVars
<1>2. BrokerTypeOK' /\ UNCHANGED <<conn, retryQ>> /\ conn /\ deliveryQ[t] > 0
  BY DEF Receive, ReceiveDelivery, TypeOK, BrokerTypeOK
<1>3. WorkerTypeOK' /\ wpc[w] = "idle" /\ wpc'[w] = "fetch" /\ wtask'[w] = t
  BY DEF Receive, WorkerGoes, TypeOK, WorkerTypeOK, WorkerPc
<1>4. \A u \in Worker \ {w} :
         wpc'[u] = wpc[u] /\ wtask'[u] = wtask[u] /\ wmark'[u] = wmark[u]
  BY DEF Receive, WorkerGoes, TypeOK, WorkerTypeOK
<1>5. t \in published
  BY <1>2 DEF MessageInv
<1>6. \A u \in Task : u # t => deliveryQ'[u] = deliveryQ[u]
  BY DEF Receive, ReceiveDelivery, TypeOK, BrokerTypeOK
<1>7. /\ \A u \in Task : deliveryQ'[u] > 0 => u \in published
      /\ \A i \in DOMAIN retryQ' : retryQ'[i].task \in published
  BY <1>2, <1>5, <1>6 DEF MessageInv
<1>8. WorkerKnows(w)'
  BY <1>1, <1>3, <1>5 DEF WorkerKnows
<1>9. ConfirmInv' /\ NoFalseSuccess' /\ NoPrematureTerminal'
  BY <1>1, VerdictsStay DEF ConfirmInv
<1>10. NoSilentLoss'
  <2>1. Live(t)'
    BY <1>2, <1>3 DEF Live, Holds
  <2>2. \A u \in Task : u # t /\ Live(u) => Live(u)'
    BY <1>2, <1>3, <1>4, <1>6 DEF Live, Holds, InRetryQ
  <2> QED
    BY <1>1, <2>1, <2>2 DEF NoSilentLoss, TypeOK, DispatcherTypeOK
<1> QED
  BY <1>1, <1>2, <1>3, <1>4, <1>7, <1>8, <1>9, <1>10, OneWorker

(* What is left to show of a step of worker w that sends no message. *)
LEMMA LocalWorker ==
  ASSUME ServiceInv, NEW w \in Worker, StoreGrows, StoreTypeOK', WorkerTypeOK',
         UNCHANGED <<ingestionVars, dispatcherVars, faultVars>>, UNCHANGED brokerVars,
         confirmed \subseteq confirmed', wtask' = wtask, wpc[w] # "idle",
         \A n \in Notif : status[n] = "PENDING" => status'[n] = "PENDING",
         \A u \in Worker \ {w} : wpc'[u] = wpc[u] /\ wmark'[u] = wmark[u],
         \/ wpc'[w] \notin {"idle", "ack"}
         \/ taskStatus[wtask[w]] \in TaskTerminal
         \/ wtask[w] \in confirmed,
         ConfirmInv', WorkerKnows(w)', NoFalseSuccess', NoPrematureTerminal'
  PROVE  ServiceInv'
<1> USE DEF ServiceInv, brokerVars
<1>1. BrokerTypeOK'
  BY DEF TypeOK, BrokerTypeOK
<1>2. /\ \A t \in Task : deliveryQ'[t] > 0 => t \in published
      /\ \A i \in DOMAIN retryQ' : retryQ'[i].task \in published
  BY DEF MessageInv
<1>3. NoSilentLoss'
  BY NothingLost DEF dispatcherVars
<1> QED
  BY <1>1, <1>2, <1>3, OneWorker

(* GetDeliveryTask and the config lookups decide the next call. *)
LEMMA FetchKeepsInv ==
  ASSUME ServiceInv, NEW w \in Worker, Fetch(w),
         UNCHANGED <<ingestionVars, dispatcherVars, faultVars>>
  PROVE  ServiceInv'
<1> USE DEF ServiceInv
<1>1. wpc[w] = "fetch" /\ wtask[w] \in Task /\ wtask[w] \in published
  BY BusyWorker DEF Fetch
<1>2. PICK r \in ReadAnswer :
        /\ Query(r)
        /\ \E pc \in {"nack", "call", "dead"} : WorkerGoes(w, pc)
        /\ wretry' = [wretry EXCEPT ![w] = IF r = "ok" THEN retryCount[wtask[w]] ELSE @]
  BY DEF Fetch, GetDeliveryTask
<1>3. StoreTypeOK' /\ StoreGrows /\ UNCHANGED <<status, event, taskStatus>>
  BY <1>2, QueryEffect DEF TypeOK
<1>4. /\ WorkerTypeOK' /\ wtask' = wtask /\ wpc'[w] \in {"nack", "call", "dead"}
      /\ \A u \in Worker \ {w} : wpc'[u] = wpc[u] /\ wmark'[u] = wmark[u]
  BY <1>1, <1>2 DEF Fetch, WorkerGoes, TypeOK, StoreTypeOK, WorkerTypeOK, WorkerPc
<1>5. UNCHANGED <<brokerVars, confirmed, published>>
  BY DEF Fetch, dispatcherVars
<1>6. ConfirmInv' /\ WorkerKnows(w)' /\ NoFalseSuccess' /\ NoPrematureTerminal'
  BY <1>1, <1>3, <1>4, <1>5, VerdictsStay DEF ConfirmInv, WorkerKnows
<1> QED
  BY <1>1, <1>3, <1>4, <1>5, <1>6, LocalWorker

(* The vendor call: a 2xx answer confirms the task. *)
LEMMA CallKeepsInv ==
  ASSUME ServiceInv, NEW w \in Worker, Call(w),
         UNCHANGED <<ingestionVars, dispatcherVars, faultVars>>
  PROVE  ServiceInv'
<1> USE DEF ServiceInv
<1>1. wpc[w] = "call" /\ wtask[w] \in Task /\ wtask[w] \in published
  BY BusyWorker DEF Call
<1>2. \/ WorkerGoes(w, "succeed") /\ confirmed' = confirmed \cup {wtask[w]}
      \/ confirmed' = confirmed /\ \E pc \in {"dead", "retry"} : WorkerGoes(w, pc)
  BY DEF Call, Outcome
<1>3. StoreTypeOK' /\ StoreGrows /\ UNCHANGED <<status, event, taskStatus>>
  BY StoreUnchanged DEF Call, TypeOK
<1>4. UNCHANGED <<brokerVars, published, wtask, wretry, wmark>>
  BY DEF Call, dispatcherVars
<1>5. /\ wpc' \in [Worker -> WorkerPc] /\ wpc'[w] \in {"succeed", "dead", "retry"}
      /\ wpc'[w] = "succeed" => wtask[w] \in confirmed'
      /\ \A u \in Worker \ {w} : wpc'[u] = wpc[u]
      /\ confirmed \subseteq confirmed' /\ confirmed' \subseteq Task
  BY <1>1, <1>2 DEF WorkerGoes, TypeOK, WorkerTypeOK, WorkerPc
<1>6. attempts' \in [Task -> Nat]
  BY <1>1 DEF Call, TypeOK, WorkerTypeOK
<1>7. WorkerTypeOK'
  BY <1>4, <1>5, <1>6 DEF TypeOK, WorkerTypeOK
<1>8. ConfirmInv' /\ WorkerKnows(w)' /\ NoFalseSuccess' /\ NoPrematureTerminal'
  BY <1>1, <1>3, <1>4, <1>5, VerdictsStay DEF ConfirmInv, WorkerKnows
<1> QED
  BY <1>1, <1>3, <1>4, <1>5, <1>7, <1>8, LocalWorker

(* A database statement moves worker w on to the call pc. *)
LEMMA DbStep ==
  ASSUME ServiceInv, NEW w \in Worker, NEW pc \in WorkerPc, WorkerGoes(w, pc), WorkerDbFrame
  PROVE  /\ WorkerTypeOK' /\ wtask' = wtask /\ wpc'[w] = pc
         /\ \A u \in Worker \ {w} : wpc'[u] = wpc[u] /\ wmark'[u] = wmark[u]
         /\ UNCHANGED <<brokerVars, confirmed, wmark>>
BY DEF ServiceInv, WorkerGoes, WorkerDbFrame, TypeOK, WorkerTypeOK

(* handleDeliverySuccess stores SUCCEEDED for a confirmed task. *)
LEMMA SucceedKeepsInv ==
  ASSUME ServiceInv, NEW w \in Worker, Succeed(w),
         UNCHANGED <<ingestionVars, dispatcherVars, faultVars>>
  PROVE  ServiceInv'
<1> USE DEF ServiceInv
<1>1. /\ wpc[w] = "succeed" /\ wtask[w] \in Task /\ wtask[w] \in published
      /\ wtask[w] \in confirmed
  BY BusyWorker DEF Succeed, WorkersInv, WorkerKnows
<1>2. PICK r \in DbAnswer : UpdateDeliveryTaskStatus(wtask[w], "SUCCEEDED", r)
  BY DEF Succeed
<1>3. /\ StoreTypeOK' /\ StoreGrows /\ UNCHANGED <<status, event>>
      /\ \A u \in Task : taskStatus'[u] = taskStatus[u] \/ u = wtask[w]
  BY <1>1, <1>2, UpdateDeliveryTaskStatusEffect DEF TypeOK, TaskTerminal
<1>4. /\ WorkerTypeOK' /\ wtask' = wtask /\ wpc'[w] = "count"
      /\ \A u \in Worker \ {w} : wpc'[u] = wpc[u] /\ wmark'[u] = wmark[u]
      /\ UNCHANGED <<brokerVars, confirmed>>
  BY DbStep DEF Succeed, WorkerPc
<1>5. ConfirmInv' /\ NoFalseSuccess' /\ NoPrematureTerminal'
  BY <1>1, <1>3, <1>4, VerdictsStay DEF ConfirmInv
<1>6. WorkerKnows(w)'
  BY <1>1, <1>4 DEF WorkerKnows, dispatcherVars
<1> QED
  BY <1>1, <1>3, <1>4, <1>5, <1>6, LocalWorker

(* retryOrDeadLetter records the retry while the message is still held. *)
LEMMA RetryKeepsInv ==
  ASSUME ServiceInv, NEW w \in Worker, Retry(w),
         UNCHANGED <<ingestionVars, dispatcherVars, faultVars>>
  PROVE  ServiceInv'
<1> USE DEF ServiceInv
<1>1. wpc[w] = "retry" /\ wtask[w] \in Task /\ wtask[w] \in published
  BY BusyWorker DEF Retry
<1>2. PICK r \in DbAnswer, pc \in {"delay", "nack"} :
        UpdateDeliveryTaskRetry(wtask[w], wretry[w] + 1, r) /\ WorkerGoes(w, pc)
  BY DEF Retry
<1>3. StoreTypeOK' /\ StoreGrows /\ UNCHANGED <<status, event, taskStatus>>
  BY <1>1, <1>2, UpdateDeliveryTaskRetryEffect DEF TypeOK, WorkerTypeOK
<1>4. /\ WorkerTypeOK' /\ wtask' = wtask /\ wpc'[w] = pc
      /\ \A u \in Worker \ {w} : wpc'[u] = wpc[u] /\ wmark'[u] = wmark[u]
      /\ UNCHANGED <<brokerVars, confirmed>>
  BY <1>2, DbStep DEF Retry, WorkerPc
<1>5. ConfirmInv' /\ WorkerKnows(w)' /\ NoFalseSuccess' /\ NoPrematureTerminal'
  BY <1>1, <1>3, <1>4, VerdictsStay DEF ConfirmInv, WorkerKnows, dispatcherVars
<1> QED
  BY <1>1, <1>3, <1>4, <1>5, LocalWorker

(* handleDeadLetter stores DEAD_LETTER, or keeps the message on an error. *)
LEMMA DeadKeepsInv ==
  ASSUME ServiceInv, NEW w \in Worker, Dead(w),
         UNCHANGED <<ingestionVars, dispatcherVars, faultVars>>
  PROVE  ServiceInv'
<1> USE DEF ServiceInv
<1>1. wpc[w] = "dead" /\ wtask[w] \in Task /\ wtask[w] \in published
  BY BusyWorker DEF Dead
<1>2. PICK r \in DbAnswer :
        /\ UpdateDeliveryTaskStatus(wtask[w], "DEAD_LETTER", r)
        /\ WorkerGoes(w, IF r = "ok" THEN "letter" ELSE "nack")
  BY DEF Dead
<1>3. /\ StoreTypeOK' /\ StoreGrows /\ UNCHANGED <<status, event>>
      /\ \A u \in Task : taskStatus'[u] = "SUCCEEDED" => taskStatus[u] = "SUCCEEDED"
      /\ r = "ok" => taskStatus'[wtask[w]] = "DEAD_LETTER"
  BY <1>1, <1>2, UpdateDeliveryTaskStatusEffect DEF TypeOK, TaskTerminal, Applied
<1>4. /\ WorkerTypeOK' /\ wtask' = wtask /\ wpc'[w] = (IF r = "ok" THEN "letter" ELSE "nack")
      /\ \A u \in Worker \ {w} : wpc'[u] = wpc[u] /\ wmark'[u] = wmark[u]
      /\ UNCHANGED <<brokerVars, confirmed>>
  BY <1>2, DbStep DEF Dead, WorkerPc
<1>5. ConfirmInv' /\ NoFalseSuccess' /\ NoPrematureTerminal'
  BY <1>1, <1>3, <1>4, VerdictsStay DEF ConfirmInv
<1>6. WorkerKnows(w)'
  BY <1>1, <1>3, <1>4 DEF WorkerKnows, dispatcherVars, TaskTerminal
<1> QED
  BY <1>1, <1>3, <1>4, <1>5, <1>6, LocalWorker

(* InsertDeadLetter repeats the status of the task. *)
LEMMA LetterKeepsInv ==
  ASSUME ServiceInv, NEW w \in Worker, Letter(w),
         UNCHANGED <<ingestionVars, dispatcherVars, faultVars>>
  PROVE  ServiceInv'
<1> USE DEF ServiceInv
<1>1. /\ wpc[w] = "letter" /\ wtask[w] \in Task /\ wtask[w] \in published
      /\ taskStatus[wtask[w]] \in TaskTerminal
  BY BusyWorker DEF Letter, WorkersInv, WorkerKnows
<1>2. PICK r \in DbAnswer :
        /\ UpdateDeliveryTaskStatus(wtask[w], "DEAD_LETTER", r)
        /\ WorkerGoes(w, IF r = "ok" THEN "count" ELSE "nack")
  BY DEF Letter, InsertDeadLetter
<1>3. /\ StoreTypeOK' /\ StoreGrows /\ UNCHANGED <<status, event>>
      /\ \A u \in Task : taskStatus'[u] = "SUCCEEDED" => taskStatus[u] = "SUCCEEDED"
  BY <1>1, <1>2, UpdateDeliveryTaskStatusEffect DEF TypeOK, TaskTerminal
<1>4. /\ WorkerTypeOK' /\ wtask' = wtask /\ wpc'[w] = (IF r = "ok" THEN "count" ELSE "nack")
      /\ \A u \in Worker \ {w} : wpc'[u] = wpc[u] /\ wmark'[u] = wmark[u]
      /\ UNCHANGED <<brokerVars, confirmed>>
  BY <1>2, DbStep DEF Letter, WorkerPc
<1>5. ConfirmInv' /\ NoFalseSuccess' /\ NoPrematureTerminal'
  BY <1>1, <1>3, <1>4, VerdictsStay DEF ConfirmInv
<1>6. WorkerKnows(w)'
  BY <1>1, <1>3, <1>4 DEF WorkerKnows, dispatcherVars, StoreGrows
<1> QED
  BY <1>1, <1>3, <1>4, <1>5, <1>6, LocalWorker

(* resolveNotificationStatus reads counts that justify its verdict. *)
LEMMA CountKeepsInv ==
  ASSUME ServiceInv, NEW w \in Worker, Count(w),
         UNCHANGED <<ingestionVars, dispatcherVars, faultVars>>
  PROVE  ServiceInv'
<1> USE DEF ServiceInv
<1>1. /\ wpc[w] = "count" /\ wtask[w] \in Task /\ wtask[w] \in published
      /\ wtask[w][1] \in Notif /\ Dispatched(wtask[w][1])
      /\ taskStatus[wtask[w]] \in TaskTerminal \/ wtask[w] \in confirmed
  BY BusyWorker DEF Count, WorkersInv, WorkerKnows
<1>2. PICK r \in ReadAnswer :
        /\ Query(r)
        /\ \/ /\ AllTerminal(wtask[w][1]) /\ WorkerGoes(w, "mark")
              /\ wmark' = [wmark EXCEPT ![w] = RolledUp(wtask[w][1])]
           \/ WorkerGoes(w, "ack") /\ wmark' = wmark
  BY DEF Count, GetDeliveryTaskCounts
<1>3. StoreTypeOK' /\ StoreGrows /\ UNCHANGED <<status, event, taskStatus>>
  BY <1>2, QueryEffect DEF TypeOK
<1>4. RolledUp(wtask[w][1]) \in Terminal
  BY DEF RolledUp, Terminal
<1>5. /\ WorkerTypeOK' /\ wtask' = wtask /\ wpc'[w] \in {"mark", "ack"}
      /\ \A u \in Worker \ {w} : wpc'[u] = wpc[u] /\ wmark'[u] = wmark[u]
      /\ wpc'[w] = "mark" => AllTerminal(wtask[w][1]) /\ wmark'[w] = RolledUp(wtask[w][1])
  BY <1>2, <1>4 DEF Count, WorkerGoes, TypeOK, WorkerTypeOK, WorkerPc
<1>6. UNCHANGED <<brokerVars, confirmed, published>>
  BY DEF Count, dispatcherVars
<1>7. ConfirmInv' /\ NoFalseSuccess' /\ NoPrematureTerminal'
  BY <1>3, <1>6, VerdictsStay DEF ConfirmInv
<1>8. PICK n \in Notif : n = wtask[w][1]
  BY <1>1
<1>9. ASSUME wpc'[w] = "mark"
      PROVE  AllDone(n)' /\ (wmark'[w] = "SUCCEEDED" => TasksOf(n)' \subseteq confirmed)
  <2>1. \A v \in Routed(n) : /\ v \in Vendor /\ <<n, v>> \in Task
                             /\ taskStatus[<<n, v>>] # "NONE"
    BY <1>1, <1>8, RoutedVendors DEF Dispatched, RowsExist, Task
  <2>2. \A v \in Routed(n) : /\ taskStatus[<<n, v>>] \in TaskTerminal
                             /\ DeadLetter(n) = 0 => taskStatus[<<n, v>>] = "SUCCEEDED"
    BY <1>5, <1>8, <1>9, <2>1, CountsDecide
  <2>3. AllDone(n) /\ (DeadLetter(n) = 0 => TasksOf(n) \subseteq confirmed)
    BY <2>1, <2>2 DEF AllDone, TasksOf, ConfirmInv
  <2>4. wmark'[w] = "SUCCEEDED" => DeadLetter(n) = 0
    BY <1>5, <1>8, <1>9 DEF RolledUp
  <2>5. status[n] # "NONE"
    BY <1>1, <1>8 DEF Dispatched
  <2> QED
    BY <1>3, <2>3, <2>4, <2>5, GrowthKeeps
<1>10. WorkerKnows(w)'
  BY <1>1, <1>3, <1>4, <1>5, <1>6, <1>8, <1>9 DEF WorkerKnows
<1> QED
  BY <1>1, <1>3, <1>5, <1>6, <1>7, <1>10, LocalWorker

(* The verdict read earlier is still justified when it is stored. *)
LEMMA MarkKeepsInv ==
  ASSUME ServiceInv, NEW w \in Worker, Mark(w),
         UNCHANGED <<ingestionVars, dispatcherVars, faultVars>>
  PROVE  ServiceInv'
<1> USE DEF ServiceInv
<1>1. /\ wpc[w] = "mark" /\ wtask[w] \in Task /\ wtask[w] \in published
      /\ wtask[w][1] \in Notif /\ Dispatched(wtask[w][1]) /\ wmark[w] \in Terminal
      /\ AllDone(wtask[w][1])
      /\ wmark[w] = "SUCCEEDED" => TasksOf(wtask[w][1]) \subseteq confirmed
      /\ taskStatus[wtask[w]] \in TaskTerminal \/ wtask[w] \in confirmed
  BY BusyWorker DEF Mark, WorkersInv, WorkerKnows
<1>2. PICK r \in DbAnswer : UpdateNotificationStatus(wtask[w][1], wmark[w], r)
  BY DEF Mark
<1>3. StoreTypeOK' /\ StoreGrows /\ UNCHANGED <<event, taskStatus>>
  BY <1>1, <1>2, UpdateNotificationStatusEffect DEF TypeOK
<1>4. /\ WorkerTypeOK' /\ wtask' = wtask /\ wpc'[w] = "ack"
      /\ \A u \in Worker \ {w} : wpc'[u] = wpc[u] /\ wmark'[u] = wmark[u]
      /\ UNCHANGED <<brokerVars, confirmed>>
  BY DbStep DEF Mark, WorkerPc
<1>5. \A n \in Notif : \/ status'[n] = status[n]
                       \/ (n = wtask[w][1] /\ status'[n] = wmark[w])
  BY <1>2 DEF UpdateNotificationStatus, TypeOK, StoreTypeOK
<1>6. \A n \in Notif : status[n] = "PENDING" => status'[n] = "PENDING"
  BY <1>1, <1>5 DEF Dispatched
<1>7. \A n \in Notif : TasksOf(n)' = TasksOf(n)
  BY <1>3 DEF TasksOf, Routed, RoutesOf
<1>8. NoFalseSuccess' /\ NoPrematureTerminal'
  <2>1. \A t \in TasksOf(wtask[w][1]) : taskStatus[t] \in TaskTerminal
    BY <1>1 DEF AllDone, TasksOf
  <2> QED
    BY <1>1, <1>3, <1>4, <1>5, <1>7, <2>1 DEF NoFalseSuccess, NoPrematureTerminal
<1>9. ConfirmInv' /\ WorkerKnows(w)'
  BY <1>1, <1>3, <1>4 DEF ConfirmInv, WorkerKnows, dispatcherVars
<1> QED
  BY <1>1, <1>3, <1>4, <1>6, <1>8, <1>9, LocalWorker

(* A message appended to the retry queue is in it, and the others stay. *)
LEMMA AppendToRetryQ ==
  ASSUME BrokerTypeOK, NEW m \in RetryMsg, retryQ' = Append(retryQ, m)
  PROVE  /\ retryQ' \in Seq(RetryMsg)
         /\ \A i \in DOMAIN retryQ' : retryQ'[i] = m \/ (i \in DOMAIN retryQ /\ retryQ'[i] = retryQ[i])
         /\ InRetryQ(m.task)'
         /\ \A t \in Task : InRetryQ(t) => InRetryQ(t)'
<1> USE DEF BrokerTypeOK
<1>1. retryQ' \in Seq(RetryMsg) /\ Len(retryQ') = Len(retryQ) + 1 /\ retryQ'[Len(retryQ')] = m
  OBVIOUS
<1>2. \A i \in DOMAIN retryQ' : retryQ'[i] = m \/ (i \in DOMAIN retryQ /\ retryQ'[i] = retryQ[i])
  OBVIOUS
<1>3. \A i \in 1..Len(retryQ) : i \in 1..Len(retryQ') /\ retryQ'[i] = retryQ[i]
  OBVIOUS
<1>4. InRetryQ(m.task)'
  <2>1. Len(retryQ') \in 1..Len(retryQ')
    BY <1>1
  <2> QED
    BY <1>1, <2>1 DEF InRetryQ
<1>5. \A t \in Task : InRetryQ(t) => InRetryQ(t)'
  BY <1>3 DEF InRetryQ
<1> QED
  BY <1>1, <1>2, <1>4, <1>5

(* The delayed copy is queued before the original is settled. *)
LEMMA DelayKeepsInv ==
  ASSUME ServiceInv, NEW w \in Worker, Delay(w),
         UNCHANGED <<ingestionVars, dispatcherVars, faultVars>>
  PROVE  ServiceInv'
<1> USE DEF ServiceInv
<1>1. wpc[w] = "delay" /\ wtask[w] \in Task /\ wtask[w] \in published
  BY BusyWorker DEF Delay
<1>2. PICK ok \in BOOLEAN : PublishDelayed(wtask[w], ok) /\ WorkerGoes(w, IF ok THEN "ack" ELSE "nack")
  BY DEF Delay
<1>3. PICK m \in RetryMsg : m = [task |-> wtask[w], ttl |-> TRUE]
  BY <1>1 DEF RetryMsg
<1>4. /\ retryQ' = (IF conn THEN Append(retryQ, m) ELSE retryQ)
      /\ UNCHANGED <<conn, trigReady, trigUnacked, deliveryQ>>
  BY <1>2, <1>3 DEF PublishDelayed
<1>5. StoreTypeOK' /\ StoreGrows /\ UNCHANGED <<status, event, taskStatus>>
  BY StoreUnchanged DEF Delay, TypeOK
<1>6. /\ WorkerTypeOK' /\ UNCHANGED <<wtask, wmark, confirmed>> /\ wpc'[w] \in {"ack", "nack"}
      /\ \A u \in Worker \ {w} : wpc'[u] = wpc[u]
  BY <1>2 DEF Delay, WorkerGoes, TypeOK, WorkerTypeOK, WorkerPc
<1>7. /\ BrokerTypeOK'
      /\ \A i \in DOMAIN retryQ' : retryQ'[i].task \in published
      /\ \A t \in Task : InRetryQ(t) => InRetryQ(t)'
      /\ conn => InRetryQ(m.task)'
  <2>1. CASE conn
    BY <1>1, <1>3, <1>4, <2>1, AppendToRetryQ DEF TypeOK, BrokerTypeOK, MessageInv
  <2>2. CASE ~conn
    BY <1>4, <2>2 DEF TypeOK, BrokerTypeOK, MessageInv, InRetryQ
  <2> QED
    BY <2>1, <2>2
<1>8. \A t \in Task : deliveryQ'[t] > 0 => t \in published
  BY <1>4 DEF MessageInv
<1>9. ConfirmInv' /\ WorkerKnows(w)' /\ NoFalseSuccess' /\ NoPrematureTerminal'
  BY <1>1, <1>5, <1>6, VerdictsStay DEF ConfirmInv, WorkerKnows, dispatcherVars
<1>10. NoSilentLoss'
  <2>1. \A t \in Task : Live(t) => Live(t)'
    BY <1>3, <1>4, <1>6, <1>7 DEF Live, Holds
  <2> QED
    BY <1>5, <1>6, <2>1 DEF NoSilentLoss, TypeOK, DispatcherTypeOK, dispatcherVars
<1> QED
  BY <1>5, <1>6, <1>7, <1>8, <1>9, <1>10, OneWorker

(* The worker's locals after its message is settled. *)
LEMMA ForgetStep ==
  ASSUME ServiceInv, NEW w \in Worker, WorkerForgets(w)
  PROVE  /\ WorkerTypeOK' /\ wpc'[w] = "idle" /\ confirmed' = confirmed
         /\ \A u \in Worker \ {w} :
              wpc'[u] = wpc[u] /\ wtask'[u] = wtask[u] /\ wmark'[u] = wmark[u]
         /\ StoreTypeOK' /\ StoreGrows /\ UNCHANGED <<status, event, taskStatus>>
<1>1. StoreTypeOK' /\ StoreGrows /\ UNCHANGED <<status, event, taskStatus>>
  BY StoreUnchanged DEF ServiceInv, TypeOK, WorkerForgets
<1> QED
  BY <1>1 DEF ServiceInv, WorkerForgets, WorkerGoes, TypeOK, WorkerTypeOK, WorkerPc

(* Acknowledging gives up a message that is no longer needed. *)
LEMMA WorkerAckKeepsInv ==
  ASSUME ServiceInv, NEW w \in Worker, WorkerAck(w),
         UNCHANGED <<ingestionVars, dispatcherVars, faultVars>>
  PROVE  ServiceInv'
<1> USE DEF ServiceInv
<1>1. /\ WorkerTypeOK' /\ wpc'[w] = "idle" /\ confirmed' = confirmed
      /\ \A u \in Worker \ {w} :
           wpc'[u] = wpc[u] /\ wtask'[u] = wtask[u] /\ wmark'[u] = wmark[u]
      /\ StoreTypeOK' /\ StoreGrows /\ UNCHANGED <<status, event, taskStatus>>
  BY ForgetStep DEF WorkerAck
<1>2. wpc[w] = "ack" /\ UNCHANGED <<conn, deliveryQ, retryQ>> /\ BrokerTypeOK'
  BY DEF WorkerAck, Ack, brokerVars, TypeOK, BrokerTypeOK
<1>3. /\ \A t \in Task : deliveryQ'[t] > 0 => t \in published
      /\ \A i \in DOMAIN retryQ' : retryQ'[i].task \in published
  BY <1>2 DEF MessageInv
<1>4. ConfirmInv' /\ WorkerKnows(w)' /\ NoFalseSuccess' /\ NoPrematureTerminal'
  BY <1>1, VerdictsStay DEF ConfirmInv, WorkerKnows
<1>5. NoSilentLoss'
  <2>1. \A t \in Task : Live(t) => Live(t)'
    BY <1>1, <1>2 DEF Live, Holds, InRetryQ
  <2> QED
    BY <1>1, <2>1 DEF NoSilentLoss, TypeOK, DispatcherTypeOK, dispatcherVars
<1> QED
  BY <1>1, <1>2, <1>3, <1>4, <1>5, OneWorker

(* A rejected message is dead-lettered into the retry queue. *)
LEMMA WorkerNackKeepsInv ==
  ASSUME ServiceInv, NEW w \in Worker, WorkerNack(w),
         UNCHANGED <<ingestionVars, dispatcherVars, faultVars>>
  PROVE  ServiceInv'
<1> USE DEF ServiceInv
<1>1. wpc[w] = "nack" /\ wtask[w] \in Task /\ wtask[w] \in published
  BY BusyWorker DEF WorkerNack
<1>2. /\ WorkerTypeOK' /\ wpc'[w] = "idle" /\ confirmed' = confirmed
      /\ \A u \in Worker \ {w} :
           wpc'[u] = wpc[u] /\ wtask'[u] = wtask[u] /\ wmark'[u] = wmark[u]
      /\ StoreTypeOK' /\ StoreGrows /\ UNCHANGED <<status, event, taskStatus>>
  BY ForgetStep DEF WorkerNack
<1>3. PICK m \in RetryMsg : m = [task |-> wtask[w], ttl |-> FALSE]
  BY <1>1 DEF RetryMsg
<1>4. /\ retryQ' = (IF conn THEN Append(retryQ, m) ELSE retryQ)
      /\ UNCHANGED <<conn, trigReady, trigUnacked, deliveryQ>>
  BY <1>3 DEF WorkerNack, Nack
<1>5. /\ BrokerTypeOK'
      /\ \A i \in DOMAIN retryQ' : retryQ'[i].task \in published
      /\ \A t \in Task : InRetryQ(t) => InRetryQ(t)'
      /\ conn => InRetryQ(m.task)'
  <2>1. CASE conn
    BY <1>1, <1>3, <1>4, <2>1, AppendToRetryQ DEF TypeOK, BrokerTypeOK, MessageInv
  <2>2. CASE ~conn
    BY <1>4, <2>2 DEF TypeOK, BrokerTypeOK, MessageInv, InRetryQ
  <2> QED
    BY <2>1, <2>2
<1>6. \A t \in Task : deliveryQ'[t] > 0 => t \in published
  BY <1>4 DEF MessageInv
<1>7. ConfirmInv' /\ WorkerKnows(w)' /\ NoFalseSuccess' /\ NoPrematureTerminal'
  BY <1>2, VerdictsStay DEF ConfirmInv, WorkerKnows
<1>8. NoSilentLoss'
  <2>1. \A t \in Task : Live(t) => Live(t)'
    BY <1>2, <1>3, <1>4, <1>5 DEF Live, Holds
  <2> QED
    BY <1>2, <2>1 DEF NoSilentLoss, TypeOK, DispatcherTypeOK, dispatcherVars
<1> QED
  BY <1>2, <1>5, <1>6, <1>7, <1>8, OneWorker

-----------------------------------------------------------------------------
(* The steps of the environment. *)

(* An expired message moves from the retry to the delivery queue. *)
LEMMA RetryExpiresKeepsInv ==
  ASSUME ServiceInv, RetryExpires
  PROVE  ServiceInv'
<1> USE DEF ServiceInv
<1>1. StoreTypeOK' /\ StoreGrows /\ UNCHANGED <<status, event, taskStatus>>
  BY StoreUnchanged DEF RetryExpires, TypeOK
<1>2. UNCHANGED <<hpc, hn, submits, accepted, dpc, dn, di, published, workerVars, confirmed,
                  restarts, connLosses>>
  BY DEF RetryExpires, ingestionVars, dispatcherVars, faultVars, workerVars
<1>3. PICK t \in Task :
        /\ Len(retryQ) > 0 /\ t = retryQ[1].task /\ t \in published
        /\ deliveryQ' = [deliveryQ EXCEPT ![t] = @ + 1]
        /\ retryQ' = Tail(retryQ) /\ UNCHANGED <<conn, trigReady, trigUnacked>>
  <2>1. /\ retryQ \in Seq(RetryMsg) /\ retryQ # <<>>
        /\ deliveryQ' = [deliveryQ EXCEPT ![Head(retryQ).task] = @ + 1]
        /\ retryQ' = Tail(retryQ) /\ UNCHANGED <<conn, trigReady, trigUnacked>>
    BY DEF RetryExpires, Expire, TypeOK, BrokerTypeOK
  <2>2. Len(retryQ) > 0 /\ 1 \in DOMAIN retryQ /\ Head(retryQ) = retryQ[1]
    BY <2>1
  <2>3. retryQ[1].task \in published /\ retryQ[1].task \in Task
    BY <2>2 DEF MessageInv, TypeOK, DispatcherTypeOK
  <2> QED
    BY <2>1, <2>2, <2>3
<1>4. retryQ' \in Seq(RetryMsg) /\ \A i \in DOMAIN retryQ' : i + 1 \in DOMAIN retryQ /\ retryQ'[i] = retryQ[i + 1]
  BY <1>3 DEF TypeOK, BrokerTypeOK
<1>5. \A i \in DOMAIN retryQ : i = 1 \/ (i - 1 \in 1..Len(retryQ') /\ retryQ'[i - 1] = retryQ[i])
  BY <1>3 DEF TypeOK, BrokerTypeOK
<1>6. BrokerTypeOK' /\ \A u \in Task : deliveryQ'[u] = IF u = t THEN deliveryQ[u] + 1 ELSE deliveryQ[u]
  BY <1>3, <1>4 DEF TypeOK, BrokerTypeOK
<1>7. TypeOK'
  BY <1>1, <1>2, <1>6 DEF TypeOK, IngestionTypeOK, DispatcherTypeOK, WorkerTypeOK, workerVars
<1>8. LocalsInv' /\ DispatchInv' /\ \A u \in published' : Dispatched(u[1])'
  BY <1>1, <1>2, DispatchStays DEF LocalsInv
<1>9. MessageInv'
  BY <1>2, <1>3, <1>4, <1>6, <1>8 DEF MessageInv
<1>10. ConfirmInv' /\ WorkersInv' /\ NoFalseSuccess' /\ NoPrematureTerminal'
  BY <1>1, <1>2, WorkersStay, VerdictsStay
<1>11. NoSilentLoss'
  <2>0. \A u \in Task : deliveryQ[u] \in Nat
    BY DEF TypeOK, BrokerTypeOK
  <2>1. \A u \in Task : deliveryQ[u] > 0 => deliveryQ'[u] > 0
    BY <1>6, <2>0
  <2>2. deliveryQ'[t] > 0
    BY <1>6, <2>0
  <2>3. ASSUME NEW u \in Task, InRetryQ(u), u # t
        PROVE  InRetryQ(u)'
    <3>1. PICK i \in 1..Len(retryQ) : retryQ[i].task = u
      BY <2>3 DEF InRetryQ
    <3>2. i \in DOMAIN retryQ /\ i # 1
      BY <1>3, <2>3, <3>1 DEF TypeOK, BrokerTypeOK
    <3> QED
      BY <1>5, <3>1, <3>2 DEF InRetryQ
  <2>4. \A u \in Task : Live(u) => Live(u)'
    BY <1>2, <1>3, <2>1, <2>2, <2>3 DEF Live, Holds, workerVars
  <2> QED
    BY <1>1, <1>2, <2>4 DEF NoSilentLoss, TypeOK, DispatcherTypeOK
<1> QED
  BY <1>7, <1>8, <1>9, <1>10, <1>11

(* The clock of the database matters to is_new only. *)
LEMMA ClockAdvancesKeepsInv ==
  ASSUME ServiceInv, ClockAdvances
  PROVE  ServiceInv'
<1> USE DEF ServiceInv
<1>1. StoreTypeOK' /\ StoreGrows /\ UNCHANGED <<status, event, taskStatus>>
  BY DEF ClockAdvances, ClockTick, TypeOK, StoreTypeOK, StoreGrows
<1>2. UNCHANGED <<hpc, hn, submits, accepted, dpc, dn, di, published, workerVars, confirmed,
                  restarts, connLosses, conn, trigReady, trigUnacked, deliveryQ, retryQ>>
  BY DEF ClockAdvances, ingestionVars, dispatcherVars, faultVars, workerVars, brokerVars
<1>3. TypeOK'
  BY <1>1, <1>2 DEF TypeOK, BrokerTypeOK, IngestionTypeOK, DispatcherTypeOK, WorkerTypeOK,
     workerVars
<1>4. LocalsInv' /\ DispatchInv' /\ \A u \in published' : Dispatched(u[1])'
  BY <1>1, <1>2, DispatchStays DEF LocalsInv
<1>5. MessageInv'
  BY <1>2, <1>4 DEF MessageInv
<1>6. ConfirmInv' /\ WorkersInv' /\ NoFalseSuccess' /\ NoPrematureTerminal'
  BY <1>1, <1>2, WorkersStay, VerdictsStay
<1>7. NoSilentLoss'
  BY <1>1, <1>2 DEF NoSilentLoss, Live, InRetryQ, Holds, workerVars
<1> QED
  BY <1>3, <1>4, <1>5, <1>6, <1>7

(* When the connection ends, held messages are queued again. *)
LEMMA RequeueEffect ==
  ASSUME ServiceInv, NEW brokerUp \in BOOLEAN, Requeue(Unacked, brokerUp), conn' \in BOOLEAN
  PROVE  /\ BrokerTypeOK' /\ retryQ' = retryQ
         /\ \A t \in Task : deliveryQ'[t] > 0 => t \in published
         /\ \A t \in Task : Live(t) => deliveryQ'[t] > 0 \/ InRetryQ(t)'
<1> USE DEF ServiceInv
<1>1. \A t \in Task : /\ Unacked[t] \in Nat
                      /\ Unacked[t] > 0 <=> (conn /\ \E w \in Worker : wpc[w] # "idle" /\ wtask[w] = t)
  BY HeldCounts DEF Unacked
<1>2. \A t \in Task : deliveryQ'[t] = deliveryQ[t] + Unacked[t]
  BY DEF Requeue
<1>3. \A t \in Task : deliveryQ[t] \in Nat
  BY DEF TypeOK, BrokerTypeOK
<1>4. BrokerTypeOK' /\ retryQ' = retryQ
  BY <1>1, <1>3 DEF Requeue, TypeOK, BrokerTypeOK
<1>5. \A t \in Task : deliveryQ'[t] > 0 => t \in published
  BY <1>1, <1>2, <1>3 DEF MessageInv, WorkersInv, WorkerKnows
<1>6. \A t \in Task : Live(t) => deliveryQ'[t] > 0 \/ InRetryQ(t)'
  BY <1>1, <1>2, <1>3, <1>4 DEF Live, Holds, InRetryQ
<1> QED
  BY <1>4, <1>5, <1>6

(* A lost connection gives the held messages back to the queue. *)
LEMMA ConnectionLostKeepsInv ==
  ASSUME ServiceInv, NEW brokerUp \in BOOLEAN, ConnectionLost(brokerUp)
  PROVE  ServiceInv'
<1> USE DEF ServiceInv
<1>1. StoreTypeOK' /\ StoreGrows /\ UNCHANGED <<status, event, taskStatus>>
  BY StoreUnchanged DEF ConnectionLost, TypeOK
<1>2. UNCHANGED <<hpc, hn, submits, accepted, dpc, dn, di, published, workerVars, confirmed>>
  BY DEF ConnectionLost, ingestionVars, dispatcherVars, workerVars
<1>3. /\ BrokerTypeOK' /\ retryQ' = retryQ
      /\ \A t \in Task : deliveryQ'[t] > 0 => t \in published
      /\ \A t \in Task : Live(t) => deliveryQ'[t] > 0 \/ InRetryQ(t)'
  BY RequeueEffect DEF ConnectionLost
<1>4. restarts' \in Nat /\ connLosses' \in Nat
  BY DEF ConnectionLost, TypeOK
<1>5. TypeOK'
  BY <1>1, <1>2, <1>3, <1>4 DEF TypeOK, IngestionTypeOK, DispatcherTypeOK, WorkerTypeOK,
     workerVars
<1>6. LocalsInv' /\ DispatchInv' /\ \A u \in published' : Dispatched(u[1])'
  BY <1>1, <1>2, DispatchStays DEF LocalsInv
<1>7. MessageInv'
  BY <1>2, <1>3, <1>6 DEF MessageInv
<1>8. ConfirmInv' /\ WorkersInv' /\ NoFalseSuccess' /\ NoPrematureTerminal'
  BY <1>1, <1>2, WorkersStay, VerdictsStay
<1>9. NoSilentLoss'
  BY <1>1, <1>2, <1>3 DEF NoSilentLoss, Live, TypeOK, DispatcherTypeOK
<1> QED
  BY <1>5, <1>6, <1>7, <1>8, <1>9

(* So does a restart, which also clears every goroutine. *)
LEMMA RestartKeepsInv ==
  ASSUME ServiceInv, Restart
  PROVE  ServiceInv'
<1> USE DEF ServiceInv
<1>1. StoreTypeOK' /\ StoreGrows /\ UNCHANGED <<status, event, taskStatus>>
  BY StoreUnchanged DEF Restart, TypeOK
<1>2. UNCHANGED <<submits, accepted, published, attempts, confirmed>>
  BY DEF Restart, IngestionCrash, DispatcherCrash, WorkerCrash
<1>3. /\ BrokerTypeOK' /\ retryQ' = retryQ
      /\ \A t \in Task : deliveryQ'[t] > 0 => t \in published
      /\ \A t \in Task : Live(t) => deliveryQ'[t] > 0 \/ InRetryQ(t)'
  BY RequeueEffect DEF Restart
<1>4. IngestionTypeOK' /\ LocalsInv'
  BY <1>2 DEF Restart, IngestionCrash, DispatcherCrash, TypeOK, IngestionTypeOK, LocalsInv
<1>5. DispatcherTypeOK' /\ DispatchInv'
  BY <1>2 DEF Restart, DispatcherCrash, TypeOK, DispatcherTypeOK, DispatchInv
<1>6. WorkerTypeOK' /\ WorkersInv'
  BY <1>2 DEF Restart, WorkerCrash, TypeOK, WorkerTypeOK, WorkerPc, WorkersInv, WorkerKnows
<1>7. TypeOK'
  BY <1>1, <1>3, <1>4, <1>5, <1>6 DEF TypeOK, Restart
<1>8. \A u \in published : Dispatched(u[1])'
  BY <1>1, GrowthKeeps DEF MessageInv, Dispatched, TypeOK, DispatcherTypeOK, Task
<1>9. MessageInv'
  BY <1>2, <1>3, <1>8 DEF MessageInv
<1>10. ConfirmInv' /\ NoFalseSuccess' /\ NoPrematureTerminal'
  BY <1>1, <1>2, VerdictsStay DEF ConfirmInv
<1>11. NoSilentLoss'
  BY <1>1, <1>2, <1>3 DEF NoSilentLoss, Live, TypeOK, DispatcherTypeOK
<1> QED
  BY <1>4, <1>5, <1>6, <1>7, <1>9, <1>10, <1>11

(* Nothing happens. *)
LEMMA StutterKeepsInv ==
  ASSUME ServiceInv, UNCHANGED vars
  PROVE  ServiceInv'
<1> USE DEF ServiceInv, vars, storeVars, brokerVars, ingestionVars, dispatcherVars, workerVars,
            faultVars
<1>1. TypeOK'
  BY DEF TypeOK, StoreTypeOK, BrokerTypeOK, IngestionTypeOK, DispatcherTypeOK, WorkerTypeOK
<1>2. StoreGrows
  BY StoreUnchanged DEF TypeOK
<1>3. LocalsInv' /\ DispatchInv' /\ \A t \in published' : Dispatched(t[1])'
  BY <1>2, DispatchStays DEF LocalsInv
<1>4. MessageInv'
  BY <1>3 DEF MessageInv
<1>5. ConfirmInv' /\ WorkersInv' /\ NoFalseSuccess' /\ NoPrematureTerminal'
  BY <1>2, WorkersStay, VerdictsStay
<1>6. NoSilentLoss'
  BY DEF NoSilentLoss, Live, InRetryQ, Holds
<1> QED
  BY <1>1, <1>3, <1>4, <1>5, <1>6

-----------------------------------------------------------------------------
(* Every step of the service keeps the invariant. *)
LEMMA NextKeepsInv ==
  ASSUME ServiceInv, [Next]_vars
  PROVE  ServiceInv'
<1>1. CASE ClientSubmits
  BY <1>1, SubmitKeepsInv DEF ClientSubmits
<1>2. CASE \E h \in Handler : HandlerRuns(h)
  BY <1>2, SubmitPublishKeepsInv, SubmitReplyKeepsInv DEF HandlerRuns, HandlerStep
<1>3. CASE DispatcherRuns
  BY <1>3, TakeTriggerKeepsInv, DispatchLoadKeepsInv, DispatchFailKeepsInv,
     DispatchInsertKeepsInv, DispatchStatusKeepsInv, DispatchPublishKeepsInv
     DEF DispatcherRuns, DispatcherStep
<1>4. CASE \E w \in Worker : WorkerRuns(w)
  BY <1>4, ReceiveKeepsInv, FetchKeepsInv, CallKeepsInv, SucceedKeepsInv, RetryKeepsInv,
     DelayKeepsInv, DeadKeepsInv, LetterKeepsInv, CountKeepsInv, MarkKeepsInv,
     WorkerAckKeepsInv, WorkerNackKeepsInv
     DEF WorkerRuns, WorkerStep
<1>5. CASE RetryExpires
  BY <1>5, RetryExpiresKeepsInv
<1>6. CASE ClockAdvances
  BY <1>6, ClockAdvancesKeepsInv
<1>7. CASE \E brokerUp \in BOOLEAN : ConnectionLost(brokerUp)
  BY <1>7, ConnectionLostKeepsInv
<1>8. CASE Restart
  BY <1>8, RestartKeepsInv
<1>9. CASE UNCHANGED vars
  BY <1>9, StutterKeepsInv
<1> QED
  BY <1>1, <1>2, <1>3, <1>4, <1>5, <1>6, <1>7, <1>8, <1>9 DEF Next

(***************************************************************************)
(* ServiceInv is an invariant of the service, for any number of            *)
(* notifications, vendors, workers, requests, restarts, lost connections   *)
(* and failing statements.                                                 *)
(***************************************************************************)
THEOREM Invariance == Spec => []ServiceInv
<1>1. Init => ServiceInv
  BY InitInv
<1>2. ServiceInv /\ [Next]_vars => ServiceInv'
  BY NextKeepsInv
<1> QED
  BY <1>1, <1>2, PTL DEF Spec

(* Every variable of the service keeps its type. *)
THEOREM TypeCorrect == Spec => []TypeOK
<1>1. ServiceInv => TypeOK
  BY DEF ServiceInv
<1> QED
  BY <1>1, Invariance, PTL

(* A notification reads SUCCEEDED only if every routed vendor answered 2xx. *)
THEOREM SuccessIsReal == Spec => []NoFalseSuccess
<1>1. ServiceInv => NoFalseSuccess
  BY DEF ServiceInv
<1> QED
  BY <1>1, Invariance, PTL

(* A notification is terminal only when all its routed tasks are. *)
THEOREM TerminalIsComplete == Spec => []NoPrematureTerminal
<1>1. ServiceInv => NoPrematureTerminal
  BY DEF ServiceInv
<1> QED
  BY <1>1, Invariance, PTL

(* A published delivery message is never lost before its work is done. *)
THEOREM MessagesAreKept == Spec => []NoSilentLoss
<1>1. ServiceInv => NoSilentLoss
  BY DEF ServiceInv
<1> QED
  BY <1>1, Invariance, PTL
-----------------------------------------------------------------------------
(***************************************************************************)
(* The statements that write no status: every step but the upsert and the  *)
(* three UpdateNotificationStatus calls leaves all statuses as they are.   *)
(***************************************************************************)
LEMMA StatusWriters ==
  ASSUME [Next]_vars
  PROVE  \/ UNCHANGED status
         \/ \E h \in Handler, n \in Notif, e \in Event : Submit(h, n, e)
         \/ DispatchFail
         \/ DispatchStatus
         \/ \E w \in Worker : Mark(w)
<1>1. CASE \E h \in Handler : HandlerRuns(h)
  BY <1>1 DEF HandlerRuns, HandlerStep, SubmitPublish, SubmitReply, storeVars,
     GetNotification, Query
<1>2. CASE DispatcherRuns
  BY <1>2 DEF DispatcherRuns, DispatcherStep, TakeTrigger, DispatchLoad, DispatchInsert,
     DispatchPublish, storeVars, GetNotification, Query, InsertDeliveryTask
<1>3. CASE \E w \in Worker : WorkerRuns(w)
  BY <1>3 DEF WorkerRuns, WorkerStep, Receive, Fetch, Call, Succeed, Retry, Delay, Dead,
     Letter, Count, WorkerAck, WorkerNack, WorkerForgets, storeVars, GetDeliveryTask,
     GetDeliveryTaskCounts, Query, UpdateDeliveryTaskStatus, UpdateDeliveryTaskRetry,
     InsertDeadLetter
<1>4. CASE RetryExpires \/ ClockAdvances \/ Restart
  BY <1>4 DEF RetryExpires, ClockAdvances, ClockTick, Restart, storeVars
<1>5. CASE \E brokerUp \in BOOLEAN : ConnectionLost(brokerUp)
  BY <1>5 DEF ConnectionLost, storeVars
<1>6. CASE UNCHANGED vars
  BY <1>6 DEF vars, storeVars
<1> QED
  BY <1>1, <1>2, <1>3, <1>4, <1>5, <1>6 DEF Next, ClientSubmits

(* The edges of the design, and a verdict that replaces another. *)
StatusMoves == StatusEdges \cup (Terminal \X Terminal)

(***************************************************************************)
(* A step changes the status of a notification only along one of them:     *)
(* Dispatch still sees PENDING when it stores DELIVERING or FAILED, and a  *)
(* worker's roll-up finds the notification dispatched.                     *)
(***************************************************************************)
LEMMA StatusStep ==
  ASSUME ServiceInv, [Next]_vars
  PROVE  \A n \in Notif : status'[n] # status[n] =>
           <<status[n], status'[n]>> \in StatusMoves
<1> SUFFICES ASSUME NEW n \in Notif, status'[n] # status[n]
             PROVE  <<status[n], status'[n]>> \in StatusMoves
  OBVIOUS
<1> USE DEF ServiceInv, TypeOK, StoreTypeOK, StatusMoves, StatusEdges
<1>1. CASE \E h \in Handler, m \in Notif, e \in Event : Submit(h, m, e)
  BY <1>1 DEF Submit, UpsertNotification, Exists
<1>2. CASE DispatchFail
  BY <1>2 DEF DispatchFail, UpdateNotificationStatus, DispatchInv, LocalsInv
<1>3. CASE DispatchStatus
  BY <1>3 DEF DispatchStatus, UpdateNotificationStatus, DispatchInv, LocalsInv
<1>4. ASSUME NEW w \in Worker, Mark(w)
      PROVE  <<status[n], status'[n]>> \in StatusMoves
  <2>1. /\ wpc[w] = "mark" /\ wtask[w] \in Task
        /\ Dispatched(wtask[w][1]) /\ wmark[w] \in Terminal
    BY <1>4, BusyWorker DEF Mark, WorkersInv, WorkerKnows
  <2>2. wtask[w][1] = n /\ status'[n] = wmark[w]
    BY <1>4, <2>1 DEF Mark, UpdateNotificationStatus, Task
  <2>3. status[n] \in {"DELIVERING"} \cup Terminal
    BY <2>1, <2>2 DEF Dispatched, NotifStatus
  <2> QED
    BY <2>1, <2>2, <2>3
<1> QED
  BY <1>1, <1>2, <1>3, <1>4, StatusWriters

-----------------------------------------------------------------------------
(***************************************************************************)
(* Only the upsert stores an event, only CreateDeliveryTasks adds a row,   *)
(* and only Dispatch publishes the first message of a task.                *)
(***************************************************************************)
LEMMA RouteWriters ==
  ASSUME ServiceInv, RoutedInv, [Next]_vars
  PROVE  /\ UNCHANGED event \/ ClientSubmits
         /\ \/ \A t \in Task : taskStatus'[t] # "NONE" => taskStatus[t] # "NONE"
            \/ DispatchInsert
         /\ UNCHANGED published \/ DispatchPublish
<1> USE DEF storeVars, dispatcherVars, workerVars, GetNotification, GetDeliveryTask,
            GetDeliveryTaskCounts, Query
<1>1. CASE ClientSubmits
  BY <1>1 DEF ClientSubmits, Submit, UpsertNotification
<1>2. CASE \E h \in Handler : HandlerRuns(h)
  BY <1>2 DEF HandlerRuns, HandlerStep, SubmitPublish, SubmitReply
<1>3. CASE DispatcherRuns
  BY <1>3 DEF DispatcherRuns, DispatcherStep, TakeTrigger, DispatchLoad, DispatchFail,
     DispatchInsert, DispatchStatus, DispatchPublish, UpdateNotificationStatus,
     InsertDeliveryTask
<1>4. ASSUME NEW w \in Worker, WorkerRuns(w)
      PROVE  /\ UNCHANGED <<event, published>>
             /\ \A t \in Task : taskStatus'[t] # "NONE" => taskStatus[t] # "NONE"
  <2>1. UNCHANGED <<event, published>>
    BY <1>4 DEF WorkerRuns, WorkerStep, Receive, Fetch, Call, Succeed, Retry, Delay, Dead,
       Letter, Count, Mark, WorkerAck, WorkerNack, WorkerForgets, UpdateDeliveryTaskStatus,
       UpdateDeliveryTaskRetry, UpdateNotificationStatus, InsertDeadLetter
  <2>2. CASE Succeed(w) \/ Dead(w) \/ Letter(w)
    <3>1. wtask[w] \in Task /\ taskStatus[wtask[w]] # "NONE"
      <4>1. wpc[w] # "idle"
        BY <2>2 DEF Succeed, Dead, Letter
      <4>2. wtask[w] \in published /\ wtask[w] = <<wtask[w][1], wtask[w][2]>>
        BY <4>1, BusyWorker DEF Task
      <4> QED
        BY <4>1, <4>2, BusyWorker DEF Dispatched, RowsExist, RoutedInv
    <3> QED
      BY <2>1, <2>2, <3>1 DEF Succeed, Dead, Letter, InsertDeadLetter, UpdateDeliveryTaskStatus,
         ServiceInv, TypeOK, StoreTypeOK
  <2>3. CASE UNCHANGED taskStatus
    BY <2>1, <2>3
  <2> QED
    BY <1>4, <2>1, <2>2, <2>3 DEF WorkerRuns, WorkerStep, Receive, Fetch, Call, Retry, Delay,
       Count, Mark, WorkerAck, WorkerNack, WorkerForgets, UpdateDeliveryTaskRetry,
       UpdateNotificationStatus
<1>5. CASE RetryExpires \/ ClockAdvances \/ Restart
  BY <1>5 DEF RetryExpires, ClockAdvances, ClockTick, Restart, DispatcherCrash
<1>6. CASE \E brokerUp \in BOOLEAN : ConnectionLost(brokerUp)
  BY <1>6 DEF ConnectionLost
<1>7. CASE UNCHANGED vars
  BY <1>7 DEF vars
<1> QED
  BY <1>1, <1>2, <1>3, <1>4, <1>5, <1>6, <1>7 DEF Next

(* The steps that add nothing to what RoutedInv is about keep it. *)
LEMMA RoutesStay ==
  ASSUME ServiceInv, RoutedInv, StoreGrows, UNCHANGED event,
         \A t \in Task : taskStatus'[t] # "NONE" => taskStatus[t] # "NONE",
         UNCHANGED published
  PROVE  RoutedInv'
<1>1. \A n \in Notif : Routed(n)' = Routed(n)
  BY DEF Routed, RoutesOf
<1>2. \A t \in Task : t[1] \in Notif
  BY DEF Task
<1>3. published \subseteq Task
  BY DEF ServiceInv, TypeOK, DispatcherTypeOK
<1> QED
  BY <1>1, <1>2, <1>3 DEF RoutedInv, StoreGrows

(* Every step undoes nothing that is stored. *)
LEMMA NextGrows ==
  ASSUME ServiceInv, [Next]_vars
  PROVE  StoreGrows
<1> USE DEF ServiceInv, TypeOK, GetNotification, GetDeliveryTask, GetDeliveryTaskCounts
<1>1. CASE UNCHANGED storeVars
  BY <1>1, StoreUnchanged
<1>2. CASE \E r : Query(r)
  BY <1>2, QueryEffect
<1>3. CASE ClientSubmits
  BY <1>3, UpsertEffect DEF ClientSubmits, Submit
<1>4. CASE \E h \in Handler : HandlerRuns(h)
  BY <1>1, <1>2, <1>4 DEF HandlerRuns, HandlerStep, SubmitPublish, SubmitReply
<1>5. CASE DispatchFail \/ DispatchStatus
  BY <1>5, UpdateNotificationStatusEffect
     DEF DispatchFail, DispatchStatus, LocalsInv, Terminal
<1>6. CASE DispatchInsert
  <2>1. dn \in Notif /\ di \in DOMAIN RoutesOf(dn)
    BY <1>6 DEF DispatchInsert, LocalsInv
  <2>2. <<dn, RoutesOf(dn)[di]>> \in Task
    BY <2>1, RoutedVendors DEF Task
  <2> QED
    BY <1>6, <2>2, InsertDeliveryTaskEffect DEF DispatchInsert
<1>7. CASE DispatcherRuns
  BY <1>1, <1>2, <1>5, <1>6, <1>7 DEF DispatcherRuns, DispatcherStep, TakeTrigger,
     DispatchLoad, DispatchPublish
<1>8. ASSUME NEW w \in Worker, WorkerRuns(w)
      PROVE  StoreGrows
  <2>1. CASE wpc[w] = "idle" \/ wpc[w] \in {"fetch", "call", "delay", "count", "ack", "nack"}
    BY <1>1, <1>2, <1>8, <2>1 DEF WorkerRuns, WorkerStep, Receive, Fetch, Call, Succeed,
       Retry, Delay, Dead, Letter, Count, Mark, WorkerAck, WorkerNack, WorkerForgets
  <2>2. CASE Succeed(w) \/ Dead(w) \/ Letter(w)
    <3>1. wtask[w] \in Task
      BY <2>2, BusyWorker DEF Succeed, Dead, Letter
    <3> QED
      BY <2>2, <3>1, UpdateDeliveryTaskStatusEffect
         DEF Succeed, Dead, Letter, InsertDeadLetter, TaskTerminal
  <2>3. CASE Retry(w)
    BY <2>3, BusyWorker, UpdateDeliveryTaskRetryEffect DEF Retry, WorkerTypeOK
  <2>4. CASE Mark(w)
    BY <2>4, BusyWorker, UpdateNotificationStatusEffect
       DEF Mark, WorkersInv, WorkerKnows
  <2> QED
    BY <1>8, <2>1, <2>2, <2>3, <2>4 DEF WorkerRuns, WorkerStep, Receive, Fetch, Call, Delay,
       Count, WorkerAck, WorkerNack
<1>9. CASE ClockAdvances
  BY <1>9 DEF ClockAdvances, ClockTick, StoreTypeOK, StoreGrows
<1>10. CASE RetryExpires \/ Restart
  BY <1>1, <1>10 DEF RetryExpires, Restart
<1>11. CASE \E brokerUp \in BOOLEAN : ConnectionLost(brokerUp)
  BY <1>1, <1>11 DEF ConnectionLost
<1>12. CASE UNCHANGED vars
  BY <1>1, <1>12 DEF vars
<1> QED
  BY <1>3, <1>4, <1>7, <1>8, <1>9, <1>10, <1>11, <1>12 DEF Next

(***************************************************************************)
(* Rows and messages stay within the routed vendors: a row is inserted for *)
(* a vendor of the rules of a stored event, which never changes again.     *)
(***************************************************************************)
LEMMA NextKeepsRoutes ==
  ASSUME ServiceInv, RoutedInv, [Next]_vars
  PROVE  RoutedInv'
<1>0. StoreGrows /\ published \subseteq Task
  BY NextGrows DEF ServiceInv, TypeOK, DispatcherTypeOK
<1>1. CASE UNCHANGED <<event, published>> /\ ~DispatchInsert
  BY <1>0, <1>1, RouteWriters, RoutesStay
<1>2. CASE ClientSubmits
  <2>1. UNCHANGED <<taskStatus, published>>
    BY <1>2 DEF ClientSubmits, Submit, UpsertNotification, dispatcherVars
  <2>2. \A m \in Notif : event'[m] = event[m] \/ (status[m] = "NONE" /\ status'[m] # "NONE")
    BY <1>2 DEF ClientSubmits, Submit, UpsertNotification, Exists, ServiceInv, TypeOK,
       StoreTypeOK
  <2>3. \A m \in Notif : event[m] = None => Routed(m) = {}
    BY DEF Routed, RoutesOf
  <2>4. \A m \in Notif : Routed(m) # {} => Routed(m)' = Routed(m)
    BY <2>2, <2>3 DEF RoutedInv, Routed, RoutesOf
  <2>5. \A m \in Notif : status'[m] = "NONE" => event'[m] = None
    BY <1>0, <2>2 DEF RoutedInv, StoreGrows
  <2>6. \A t \in Task : t[2] \in Routed(t[1]) => t[2] \in Routed(t[1])'
    BY <2>4 DEF Task
  <2> QED
    BY <1>0, <2>1, <2>5, <2>6 DEF RoutedInv
<1>3. ASSUME UNCHANGED event, UNCHANGED status, dpc \in {"insert", "publish"},
             LET t == <<dn, RoutesOf(dn)[di]>> IN
               /\ \A u \in Task : taskStatus'[u] # "NONE" => taskStatus[u] # "NONE" \/ u = t
               /\ published' \subseteq published \cup {t}
      PROVE  RoutedInv'
  <2>1. \A n \in Notif : Routed(n)' = Routed(n)
    BY <1>3 DEF Routed, RoutesOf
  <2>2. dn \in Notif /\ RoutesOf(dn)[di] \in Routed(dn)
    BY <1>3 DEF ServiceInv, LocalsInv, Routed
  <2>3. \A t \in Task : t[1] \in Notif
    BY DEF Task
  <2> QED
    BY <1>0, <1>3, <2>1, <2>2, <2>3 DEF RoutedInv
<1>4. CASE DispatchInsert
  <2>1. UNCHANGED <<event, status, published>> /\ dpc = "insert"
    BY <1>4 DEF DispatchInsert, InsertDeliveryTask
  <2>2. \A u \in Task : taskStatus'[u] # "NONE" =>
          taskStatus[u] # "NONE" \/ u = <<dn, RoutesOf(dn)[di]>>
    BY <1>4 DEF DispatchInsert, InsertDeliveryTask, ServiceInv, TypeOK, StoreTypeOK
  <2> QED
    BY <1>3, <2>1, <2>2
<1>5. CASE DispatchPublish
  <2>1. UNCHANGED <<event, status, taskStatus>> /\ dpc = "publish"
    BY <1>5 DEF DispatchPublish, storeVars
  <2>2. published' \subseteq published \cup {<<dn, RoutesOf(dn)[di]>>}
    BY <1>5 DEF DispatchPublish
  <2> QED
    BY <1>3, <2>1, <2>2
<1> QED
  BY <1>1, <1>2, <1>4, <1>5, RouteWriters

(***************************************************************************)
(* Both invariants hold of every behaviour of the service, fair or not.    *)
(***************************************************************************)
LEMMA SafetyInvariance == Init /\ [][Next]_vars => [](ServiceInv /\ RoutedInv)
<1>1. Init => ServiceInv /\ RoutedInv
  <2>1. Init => RoutedInv
    BY DEF Init, StoreInit, DispatcherInit, RoutedInv
  <2> QED
    BY <2>1, InitInv
<1>2. ServiceInv /\ RoutedInv /\ [Next]_vars => (ServiceInv /\ RoutedInv)'
  BY NextKeepsInv, NextKeepsRoutes
<1> QED
  BY <1>1, <1>2, PTL
=============================================================================
