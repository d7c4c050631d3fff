-------------------------- MODULE ServiceInvariant ---------------------------
(***************************************************************************)
(* The inductive invariant behind the safety theorems of ServiceProofs.    *)
(***************************************************************************)
EXTENDS ServiceProperties

(* Every routed vendor has its row. *)
RowsExist(n) == \A v \in Routed(n) : taskStatus[<<n, v>>] # "NONE"

(* Dispatch of n has stored DELIVERING. *)
Dispatched(n) == status[n] \notin {"NONE", "PENDING"} /\ RowsExist(n)

AllDone(n) == \A v \in Routed(n) : taskStatus[<<n, v>>] \in TaskTerminal

(* A goroutine that is running has its locals. *)
LocalsInv ==
  /\ \A h \in Handler : hpc[h] # "idle" => hn[h] \in Notif
  /\ dpc # "idle" => dn \in Notif
  /\ dpc \in {"insert", "publish"} => di \in DOMAIN RoutesOf(dn)

(* What Dispatch has established when it reaches each of its calls. *)
DispatchInv ==
  /\ dpc = "fail" => status[dn] = "PENDING" /\ Routed(dn) = {}
  /\ dpc = "insert" =>
       /\ status[dn] = "PENDING"
       /\ \A i \in DOMAIN RoutesOf(dn) : i < di =>
            taskStatus[<<dn, RoutesOf(dn)[i]>>] # "NONE"
  /\ dpc = "status" => /\ status[dn] = "PENDING" /\ RowsExist(dn)
                       /\ RoutesOf(dn) # <<>>
  /\ dpc = "publish" => Dispatched(dn)

(* Messages exist only for published tasks of dispatched notifications. *)
MessageInv ==
  /\ \A t \in published : Dispatched(t[1])
  /\ \A t \in Task : deliveryQ[t] > 0 => t \in published
  /\ \A i \in DOMAIN retryQ : retryQ[i].task \in published

(* A row is SUCCEEDED only after a 2xx answer. *)
ConfirmInv == \A t \in Task : taskStatus[t] = "SUCCEEDED" => t \in confirmed

(***************************************************************************)
(* What a worker knows about its task at each of its calls.  The status it *)
(* is about to write ("mark") is still justified when it is written.       *)
(***************************************************************************)
WorkerKnows(w) ==
  /\ wpc[w] # "idle" => wtask[w] \in published
  /\ wpc[w] = "succeed" => wtask[w] \in confirmed
  /\ wpc[w] = "letter" => taskStatus[wtask[w]] \in TaskTerminal
  /\ wpc[w] \in {"count", "mark"} =>
       taskStatus[wtask[w]] \in TaskTerminal \/ wtask[w] \in confirmed
  /\ wpc[w] = "mark" =>
       /\ wmark[w] \in Terminal
       /\ AllDone(wtask[w][1])
       /\ wmark[w] = "SUCCEEDED" => TasksOf(wtask[w][1]) \subseteq confirmed

WorkersInv == \A w \in Worker : WorkerKnows(w)

(***************************************************************************)
(* The whole invariant: each conjunct is preserved by every step of the    *)
(* service when all of them hold before it.                                *)
(***************************************************************************)
ServiceInv ==
  /\ TypeOK
  /\ LocalsInv
  /\ DispatchInv
  /\ MessageInv
  /\ ConfirmInv
  /\ WorkersInv
  /\ NoFalseSuccess
  /\ NoPrematureTerminal
  /\ NoSilentLoss

(***************************************************************************)
(* Rows and messages exist only for routed vendors, and an event that is   *)
(* not stored yet routes to nobody.                                        *)
(***************************************************************************)
RoutedInv ==
  /\ \A n \in Notif : status[n] = "NONE" => event[n] = None
  /\ \A t \in Task : taskStatus[t] # "NONE" => t[2] \in Routed(t[1])
  /\ \A t \in published : t[2] \in Routed(t[1])

-----------------------------------------------------------------------------
(***************************************************************************)
(* What the theorems about single delivery rest on, as long as no message  *)
(* is redelivered.                                                         *)
(***************************************************************************)

(***************************************************************************)
(* Dispatch publishes each task once: an event that is routed twice to a   *)
(* vendor never gets past the unique constraint, so the tasks it still has *)
(* to publish have no message.                                             *)
(***************************************************************************)
PublishInv ==
  LET routes == RoutesOf(dn) IN
  /\ dpc = "insert" =>
       \A i, j \in DOMAIN routes : i < j /\ j < di => routes[i] # routes[j]
  /\ dpc \in {"status", "publish"} =>
       \A i, j \in DOMAIN routes : i < j => routes[i] # routes[j]
  /\ dpc = "publish" =>
       \A i \in DOMAIN routes : di <= i => <<dn, routes[i]>> \notin published

(* A task without a message has not been tried. *)
FreshInv ==
  \A t \in Task \ published :
    /\ attempts[t] = 0 /\ retryCount[t] = 0 /\ t \notin confirmed
    /\ taskStatus[t] \in {"NONE", "PENDING"}

(* There is one message for t, in one place. *)
Alone(t) ==
  /\ deliveryQ[t] <= 1
  /\ \A i, j \in DOMAIN retryQ : retryQ[i].task = t /\ retryQ[j].task = t => i = j
  /\ \A w, x \in Worker : Holds(w, t) /\ Holds(x, t) => w = x
  /\ deliveryQ[t] > 0 => ~InRetryQ(t)
  /\ \A w \in Worker : Holds(w, t) => deliveryQ[t] = 0 /\ ~InRetryQ(t)

AllowedAttempts(t) ==
  IF MaxAttempts[SpecOf(t)] = 0 THEN 1 ELSE MaxAttempts[SpecOf(t)]

(* Another attempt is due: none has succeeded, each is counted, one is left. *)
Triable(t) ==
  /\ taskStatus[t] = "PENDING" /\ t \notin confirmed
  /\ attempts[t] = retryCount[t] /\ attempts[t] < AllowedAttempts(t)

(* The messages that will be consumed again are for such tasks. *)
QueuesInv ==
  /\ \A t \in Task : deliveryQ[t] > 0 => Triable(t)
  /\ \A i \in DOMAIN retryQ : retryQ[i].ttl => Triable(retryQ[i].task)

(* Status s is what the tasks of n add up to. *)
Agrees(n, s) ==
  /\ s = "SUCCEEDED" <=> \A t \in TasksOf(n) : taskStatus[t] = "SUCCEEDED"
  /\ s = "FAILED" <=> \A t \in TasksOf(n) : taskStatus[t] = "DEAD_LETTER"
  /\ \A t \in TasksOf(n) : taskStatus[t] \in TaskTerminal

(* How far a worker has come with its task. *)
WorkerStage(w) ==
  LET t == wtask[w] IN
  /\ wpc[w] \in {"fetch", "call", "delay"} => Triable(t)
  /\ wpc[w] = "call" => wretry[w] = retryCount[t]
  /\ wpc[w] = "retry" =>
       /\ attempts[t] = wretry[w] + 1 /\ attempts[t] < AllowedAttempts(t)
  /\ wpc[w] \in {"retry", "dead"} => t \notin confirmed
  /\ wpc[w] \in {"retry", "succeed", "dead"} => taskStatus[t] = "PENDING"
  /\ wpc[w] = "letter" => taskStatus[t] = "DEAD_LETTER"
  /\ wpc[w] = "mark" => Agrees(t[1], wmark[w])

AttemptsInv ==
  \A t \in Task : attempts[t] > 0 => attempts[t] <= AllowedAttempts(t)

(* A verdict, once stored, stays the one its tasks add up to. *)
VerdictsInv ==
  \A n \in Notif : status[n] \in Terminal /\ Routed(n) # {} => Agrees(n, status[n])

SingleDelivery ==
  /\ conn
  /\ PublishInv
  /\ FreshInv
  /\ \A t \in Task : Alone(t)
  /\ QueuesInv
  /\ \A w \in Worker : WorkerStage(w)
  /\ AttemptsInv
  /\ VerdictsInv

OnceInv == NoRedelivery => SingleDelivery

-----------------------------------------------------------------------------
(* What holds of the messages of a task however often they are redelivered. *)
CopiesInv == PublishInv /\ CopiesBounded
=============================================================================
