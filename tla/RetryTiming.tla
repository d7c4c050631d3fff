----------------------------- MODULE RetryTiming -----------------------------
(***************************************************************************)
(* When a failed delivery is tried again: calculateBackoff, the            *)
(* next_retry_at that retryOrDeadLetter stores, the expiration it gives    *)
(* the delayed message, and the one retry queue in which messages of all   *)
(* delays, and rejected ones that never expire, wait in line and of which  *)
(* the broker expires only the head.                                       *)
(*                                                                         *)
(* An attempt is one step here, from the message to the stored retry: what *)
(* happens in between does not touch the times.                            *)
(*                                                                         *)
(* Time is counted in milliseconds, which a small instance may take as     *)
(* coarse as it likes; a time.Duration is a machine integer of Width bits  *)
(* in which a millisecond is NsPerMs (64 and 1000000 in the program).      *)
(***************************************************************************)
EXTENDS Integers, Sequences, FiniteSets

CONSTANTS
  Task,         \* delivery tasks that are being retried
  Worker,       \* goroutines of the worker pool
  None,         \* no task
  Policies,     \* retry policies, as loaded
  Width,        \* bits of a time.Duration
  NsPerMs,      \* time.Millisecond
  MaxTime,      \* bound: the clock stops here
  MaxEnds       \* bound: channels that end, for whatever reason

(***************************************************************************)
(* RetryPolicy: max_attempts, base_delay and max_delay in milliseconds,    *)
(* multiplier in halves, jitter in tenths.                                 *)
(***************************************************************************)
RetryPolicy == [attempts : Nat, base : Int, max : Int, mult : Int, jitter : Int]

ASSUME TimingAssumption ==
  /\ Policies \subseteq RetryPolicy /\ IsFiniteSet(Policies)
  /\ Width \in Nat \ {0} /\ NsPerMs \in Nat \ {0}
  /\ MaxTime \in Nat /\ MaxEnds \in Nat
  /\ IsFiniteSet(Worker)

(* Facts of arithmetic about the powers below, which the provers lack. *)
ASSUME PowersAssumption ==
  /\ 2 ^ (Width - 1) \in Nat \ {0} /\ 2 ^ Width = 2 * (2 ^ (Width - 1))
  /\ \A p \in Policies : \A n \in 1..p.attempts :
       /\ 2 ^ n \in Nat \ {0} /\ p.mult ^ n \in Int
       /\ p.mult >= 0 => p.mult ^ n >= 0

VARIABLES
  now,          \* the clock
  policy,       \* the retry policy of each task's delivery spec
  deliveryQ,    \* notification.delivery.q: messages of each task
  retryQ,       \* notification.retry.q
  wpc,          \* the call a worker makes next
  wtask,        \* the task of the message it holds
  wdelay,       \* the delay that retryOrDeadLetter computed
  retryCount,   \* delivery_tasks.retry_count
  nextRetryAt,  \* delivery_tasks.next_retry_at
  channel,      \* "open", "refused" (closed by the broker) or "lost"
  ended         \* history: channels that have ended

rowVars == <<retryCount, nextRetryAt>>
workerVars == <<wpc, wtask, wdelay>>
timingVars == <<now, policy, deliveryQ, retryQ, workerVars, rowVars, channel, ended>>

-----------------------------------------------------------------------------
(* Integer division rounding towards zero, as Go's conversions do. *)
Quo(a, b) == IF a >= 0 THEN a \div b ELSE -((-a) \div b)

(* x as a machine integer; a float out of range converts to the least one. *)
Least == -(2 ^ (Width - 1))
Wrap(x) == ((x - Least) % (2 ^ Width)) + Least
FromFloat(x) == IF x >= Least /\ x < -Least THEN x ELSE Least

(***************************************************************************)
(* calculateBackoff: base x multiplier^attempt, at most max when max > 0,  *)
(* reduced by the jitter times r tenths, then truncated to milliseconds    *)
(* and multiplied by time.Millisecond.  Raw is in units of 2^-attempt.     *)
(***************************************************************************)
(* Faulty variant of Raw: the limit is not applied. *)
RawUncapped(attempt, p) == p.base * (p.mult ^ attempt)

Raw(attempt, p) ==
  LET raw == p.base * (p.mult ^ attempt)
      max == p.max * (2 ^ attempt)
  IN IF p.max > 0 /\ max < raw THEN max ELSE raw

(* Faulty variant of CalculateBackoff: the jitter spreads twice as far. *)
CalculateBackoffWide(attempt, p, r) ==
  LET reduced == 100 - 2 * p.jitter * r
  IN Wrap(FromFloat(Quo(Raw(attempt, p) * reduced, 100 * (2 ^ attempt))) * NsPerMs)

CalculateBackoff(attempt, p, r) ==
  LET reduced == IF p.jitter > 0 THEN 100 - p.jitter * r ELSE 100
  IN Wrap(FromFloat(Quo(Raw(attempt, p) * reduced, 100 * (2 ^ attempt))) * NsPerMs)

(* Duration.Milliseconds *)
Milliseconds(d) == Quo(d, NsPerMs)

-----------------------------------------------------------------------------
TimingInit ==
  /\ now = 0
  /\ policy \in [Task -> Policies]
  /\ deliveryQ = [t \in Task |-> 1]
  /\ retryQ = <<>>
  /\ wpc = [w \in Worker |-> "idle"]
  /\ wtask = [w \in Worker |-> None]
  /\ wdelay = [w \in Worker |-> 0]
  /\ retryCount = [t \in Task |-> 0]
  /\ nextRetryAt = [t \in Task |-> 0]
  /\ channel = "open"
  /\ ended = 0

WorkerGoes(w, pc, t, d) ==
  /\ wpc' = [wpc EXCEPT ![w] = pc]
  /\ wtask' = [wtask EXCEPT ![w] = t]
  /\ wdelay' = [wdelay EXCEPT ![w] = d]

(* Worker w takes a message of t; ProcessMessage never looks at next_retry_at. *)
Takes(w, t) ==
  /\ channel = "open"
  /\ wpc[w] = "idle"
  /\ deliveryQ[t] > 0
  /\ deliveryQ' = [deliveryQ EXCEPT ![t] = @ - 1]

(***************************************************************************)
(* The vendor's answer is retryable, an attempt is left, and               *)
(* retryOrDeadLetter stores the retry.  An error of the update ("fail":    *)
(* not applied, "unsure": applied all the same) rejects the message.       *)
(***************************************************************************)
AttemptFails(w, t) ==
  LET nextRetry == retryCount[t] + 1 IN
  /\ Takes(w, t)
  /\ nextRetry < policy[t].attempts
  /\ \E r \in 0..9, answer \in {"ok", "fail", "unsure"} :
       LET d == Milliseconds(CalculateBackoff(nextRetry, policy[t], r)) IN
       /\ IF answer = "fail"
          THEN UNCHANGED rowVars
          ELSE /\ retryCount' = [retryCount EXCEPT ![t] = nextRetry]
               /\ nextRetryAt' = [nextRetryAt EXCEPT ![t] = now + d]
       /\ IF answer = "ok" THEN WorkerGoes(w, "publish", t, d)
                           ELSE WorkerGoes(w, "nack", t, 0)
  /\ UNCHANGED <<now, policy, retryQ, channel, ended>>

(***************************************************************************)
(* The attempt ends otherwise: delivered or dead-lettered ("ack"), or an   *)
(* error of one of the statements ("nack").                                *)
(***************************************************************************)
AttemptEnds(w, t) ==
  /\ Takes(w, t)
  /\ \E pc \in {"ack", "nack"} : WorkerGoes(w, pc, t, 0)
  /\ UNCHANGED <<now, policy, retryQ, rowVars, channel, ended>>

-----------------------------------------------------------------------------
(* Unacknowledged messages are queued again when their channel ends. *)
Held(t) == Cardinality({w \in Worker : wpc[w] # "idle" /\ wtask[w] = t})
Requeue == deliveryQ' = [t \in Task |-> deliveryQ[t] + Held(t)]

(* Messages of the retry queue: one that expires, and a rejected one. *)
Delayed(t, d) == [task |-> t, sent |-> now, due |-> now + d, ttl |-> TRUE]
Parked(t) == [task |-> t, sent |-> 0, due |-> 0, ttl |-> FALSE]

(* Faulty variant of PublishDelayed: the delay is computed a second time. *)
PublishDelayedAgain(w) ==
  /\ wpc[w] = "publish"
  /\ channel = "open"
  /\ \E r \in 0..9 :
       LET t == wtask[w]
           d == Milliseconds(CalculateBackoff(retryCount[t], policy[t], r)) IN
       /\ d >= 0
       /\ retryQ' = Append(retryQ, Delayed(t, d))
  /\ WorkerGoes(w, "ack", wtask[w], 0)
  /\ UNCHANGED <<now, policy, deliveryQ, rowVars, channel, ended>>

(***************************************************************************)
(* PublishDelayed: the expiration is the delay.  The broker answers a      *)
(* negative expiration by closing the channel, and with it the consumers,  *)
(* after the call has returned.                                            *)
(***************************************************************************)
PublishAccepted(w) ==
  /\ wdelay[w] >= 0
  /\ retryQ' = Append(retryQ, Delayed(wtask[w], wdelay[w]))
  /\ UNCHANGED <<deliveryQ, channel, ended>>

PublishRefused(w) ==
  /\ wdelay[w] < 0
  /\ channel' = "refused"
  /\ ended' = ended + 1
  /\ Requeue
  /\ UNCHANGED retryQ

PublishDelayed(w) ==
  /\ wpc[w] = "publish"
  /\ \/ /\ channel = "open"
        /\ PublishAccepted(w) \/ PublishRefused(w)
        /\ WorkerGoes(w, "ack", wtask[w], 0)
     \/ \* An error, or a success that only the dead socket has seen.
        /\ \E pc \in {"ack", "nack"} :
             /\ pc = "ack" => channel # "open"
             /\ WorkerGoes(w, pc, wtask[w], 0)
        /\ UNCHANGED <<deliveryQ, retryQ, channel, ended>>
  /\ UNCHANGED <<now, policy, rowVars>>

(***************************************************************************)
(* Ack, or Nack(false, false), which dead-letters the message to the tail  *)
(* of the retry queue without an expiration.  Neither reaches the broker   *)
(* on a channel that has ended.                                            *)
(***************************************************************************)
Settle(w) ==
  /\ wpc[w] \in {"ack", "nack"}
  /\ retryQ' = IF wpc[w] = "nack" /\ channel = "open"
               THEN Append(retryQ, Parked(wtask[w]))
               ELSE retryQ
  /\ WorkerGoes(w, "idle", None, 0)
  /\ UNCHANGED <<now, policy, deliveryQ, rowVars, channel, ended>>

-----------------------------------------------------------------------------
HeadIsDue == retryQ # <<>> /\ Head(retryQ).ttl /\ Head(retryQ).due <= now

(* Only the head of the queue expires. *)
ExpireHead ==
  /\ HeadIsDue
  /\ retryQ' = Tail(retryQ)
  /\ deliveryQ' = [deliveryQ EXCEPT ![Head(retryQ).task] = @ + 1]
  /\ UNCHANGED <<now, policy, workerVars, rowVars, channel, ended>>

(* The connection breaks; the workers do not notice until they use it. *)
ConnectionLost ==
  /\ channel = "open"
  /\ ended < MaxEnds
  /\ channel' = "lost"
  /\ ended' = ended + 1
  /\ Requeue
  /\ UNCHANGED <<now, policy, retryQ, workerVars, rowVars>>

(* The process ends at any point, and a new one has a new channel. *)
Restart ==
  /\ ended < MaxEnds
  /\ channel' = "open"
  /\ ended' = ended + 1
  /\ IF channel = "open" THEN Requeue ELSE UNCHANGED deliveryQ
  /\ wpc' = [w \in Worker |-> "idle"]
  /\ wtask' = [w \in Worker |-> None]
  /\ wdelay' = [w \in Worker |-> 0]
  /\ UNCHANGED <<now, policy, retryQ, rowVars>>

(* The broker does not let a due message wait at the head. *)
Tick ==
  /\ now < MaxTime
  /\ ~HeadIsDue
  /\ now' = now + 1
  /\ UNCHANGED <<policy, deliveryQ, retryQ, workerVars, rowVars, channel, ended>>

TimingNext ==
  \/ \E w \in Worker, t \in Task : AttemptFails(w, t) \/ AttemptEnds(w, t)
  \/ \E w \in Worker : PublishDelayed(w) \/ Settle(w)
  \/ ExpireHead
  \/ ConnectionLost
  \/ Restart
  \/ Tick

TimingSpec == TimingInit /\ [][TimingNext]_timingVars

-----------------------------------------------------------------------------
(***************************************************************************)
(* A policy within the ranges that the backoff formula is made for: a      *)
(* limit is set and fits a time.Duration, and the jitter is at most 1.     *)
(* Nothing in the program checks a policy.                                 *)
(***************************************************************************)
Sane(p) ==
  /\ p.base >= 0 /\ p.mult >= 0
  /\ p.max > 0 /\ p.max * NsPerMs < -Least
  /\ p.jitter \in 0..10

AllSane == \A t \in Task : Sane(policy[t])

LongestDelay ==
  CHOOSE d \in {policy[t].max : t \in Task} : \A t \in Task : policy[t].max <= d

(***************************************************************************)
(* With sane policies no retry ever carries an expiration the broker       *)
(* rejects, at any attempt and for any random number: the broker does not  *)
(* close the channel that all consumers share.  A missing max_delay        *)
(* overflows and a jitter above 1 turns the delay negative.                *)
(***************************************************************************)
SaneKeepsChannel == AllSane => channel # "refused"

(***************************************************************************)
(* As long as no channel has ended, no attempt starts before the           *)
(* next_retry_at stored for its task: neither the time between the update  *)
(* and the publication, nor an error of either, nor another worker brings  *)
(* a message forward.  (The end of a channel does: it gives a message back *)
(* at once, and ProcessMessage does not look at next_retry_at.)            *)
(***************************************************************************)
NotBeforeNextRetryAt ==
  ended = 0 => \A t \in Task : deliveryQ[t] > 0 => now >= nextRetryAt[t]

(***************************************************************************)
(* Head-of-line blocking among delayed messages is bounded: with sane      *)
(* policies a message before which no rejected one waits is back in the    *)
(* delivery queue at the latest when the longest max_delay of any policy   *)
(* has passed since its publication.  (Behind a rejected message, which    *)
(* has no expiration, it waits for ever.)                                  *)
(***************************************************************************)
LatenessBounded ==
  AllSane => \A i \in DOMAIN retryQ :
    (\A j \in 1..i : retryQ[j].ttl) => now <= retryQ[i].sent + LongestDelay
=============================================================================
