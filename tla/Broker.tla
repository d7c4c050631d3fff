------------------------------- MODULE Broker -------------------------------
(***************************************************************************)
(* The RabbitMQ topology that internal/mq/rabbitmq declares, as the server *)
(* uses it over its single connection and channel:                         *)
(*                                                                         *)
(*   notification.trigger.q    consumed by the dispatcher, never acked     *)
(*   notification.delivery.q   consumed by the workers; a rejected message *)
(*                             is dead-lettered to notification.dlx        *)
(*   notification.retry.q      bound to notification.dlx, not consumed; a  *)
(*                             message whose TTL ends while it is at the   *)
(*                             HEAD goes back to the delivery queue        *)
(*                                                                         *)
(* The first two queues are bags: several consumers take from them and no  *)
(* property depends on their order.  The retry queue is a sequence because *)
(* the broker expires messages at its head only.  Messages the broker has  *)
(* pushed to the client but no goroutine has received yet count as queued: *)
(* no prefetch limit is set and they return to the queue with the          *)
(* connection.                                                             *)
(***************************************************************************)
EXTENDS NotificationStore

VARIABLES
  conn,         \* the server's connection is alive at the broker
  trigReady,    \* trigger messages in the queue
  trigUnacked,  \* trigger messages received and not acknowledged
  deliveryQ,    \* delivery messages in the queue
  retryQ        \* messages waiting in the retry queue

brokerVars == <<conn, trigReady, trigUnacked, deliveryQ, retryQ>>

(* ttl: the message carries an expiration. *)
RetryMsg == [task : Task, ttl : BOOLEAN]

BrokerTypeOK ==
  /\ conn \in BOOLEAN
  /\ trigReady \in [Notif -> Nat]
  /\ trigUnacked \in [Notif -> Nat]
  /\ deliveryQ \in [Task -> Nat]
  /\ retryQ \in Seq(RetryMsg)

BrokerInit ==
  /\ conn = TRUE
  /\ trigReady = [n \in Notif |-> 0]
  /\ trigUnacked = [n \in Notif |-> 0]
  /\ deliveryQ = [t \in Task |-> 0]
  /\ retryQ = <<>>

InRetryQ(t) == \E i \in 1..Len(retryQ) : retryQ[i].task = t

-----------------------------------------------------------------------------
(***************************************************************************)
(* Publishing.  `ok` is what the client method returns.  There are no      *)
(* publisher confirms: on a connection the broker has already lost, the    *)
(* call may return an error or succeed into a dead socket.                 *)
(***************************************************************************)
PublishAnswers(ok) == ok \/ ~conn

PublishTrigger(n, ok) ==
  /\ PublishAnswers(ok)
  /\ trigReady' = IF conn THEN [trigReady EXCEPT ![n] = @ + 1] ELSE trigReady
  /\ UNCHANGED <<conn, trigUnacked, deliveryQ, retryQ>>

PublishDelivery(t, ok) ==
  /\ PublishAnswers(ok)
  /\ deliveryQ' = IF conn THEN [deliveryQ EXCEPT ![t] = @ + 1] ELSE deliveryQ
  /\ UNCHANGED <<conn, trigReady, trigUnacked, retryQ>>

PublishDelayed(t, ok) ==
  /\ PublishAnswers(ok)
  /\ retryQ' = IF conn THEN Append(retryQ, [task |-> t, ttl |-> TRUE])
                       ELSE retryQ
  /\ UNCHANGED <<conn, trigReady, trigUnacked, deliveryQ>>

-----------------------------------------------------------------------------
(* Receiving and settling. *)

ReceiveTrigger(n) ==
  /\ conn
  /\ trigReady[n] > 0
  /\ trigReady' = [trigReady EXCEPT ![n] = @ - 1]
  /\ trigUnacked' = [trigUnacked EXCEPT ![n] = @ + 1]
  /\ UNCHANGED <<conn, deliveryQ, retryQ>>

ReceiveDelivery(t) ==
  /\ conn
  /\ deliveryQ[t] > 0
  /\ deliveryQ' = [deliveryQ EXCEPT ![t] = @ - 1]
  /\ UNCHANGED <<conn, trigReady, trigUnacked, retryQ>>

(* Ack: the message the consumer holds is gone. *)
Ack == UNCHANGED brokerVars

(***************************************************************************)
(* Nack(false, false): dead-lettered to notification.dlx, hence to the     *)
(* tail of the retry queue, and without an expiration (a delivery message  *)
(* has none, and dead-lettering strips the one of a delayed message).      *)
(***************************************************************************)
Nack(t) ==
  /\ retryQ' = IF conn THEN Append(retryQ, [task |-> t, ttl |-> FALSE])
                       ELSE retryQ
  /\ UNCHANGED <<conn, trigReady, trigUnacked, deliveryQ>>

(* The head of the retry queue expires and is routed to the delivery queue. *)
Expire ==
  /\ retryQ # <<>>
  /\ Head(retryQ).ttl
  /\ retryQ' = Tail(retryQ)
  /\ deliveryQ' = [deliveryQ EXCEPT ![Head(retryQ).task] = @ + 1]
  /\ UNCHANGED <<conn, trigReady, trigUnacked>>

(***************************************************************************)
(* The connection ends while the consumers hold `held[t]` unacknowledged   *)
(* delivery messages: everything unacknowledged is queued again.  Trigger  *)
(* messages are published without a delivery mode, so they are transient   *)
(* and survive only while the broker itself stays up.                      *)
(***************************************************************************)
Requeue(held, brokerUp) ==
  /\ trigReady' = [n \in Notif |-> IF brokerUp
                                   THEN trigReady[n] + trigUnacked[n] ELSE 0]
  /\ trigUnacked' = [n \in Notif |-> 0]
  /\ deliveryQ' = [t \in Task |-> deliveryQ[t] + held[t]]
  /\ UNCHANGED retryQ
=============================================================================
