----------------------------- MODULE TimingProofs ----------------------------
(***************************************************************************)
(* When retries happen: not before next_retry_at until a channel ends, and *)
(* with sane policies never with an expiration that makes the broker close *)
(* the channel, and no later than the longest delay unless a rejected      *)
(* message is in the way.                                                  *)
(***************************************************************************)
EXTENDS RetryTiming, FiniteSetTheorems, WellFoundedInduction, TLAPS

RetryMsg == [task : Task, sent : Nat, due : Int, ttl : BOOLEAN]
WorkerPc == {"idle", "publish", "ack", "nack"}

TimingTypeOK ==
  /\ now \in Nat
  /\ policy \in [Task -> Policies]
  /\ deliveryQ \in [Task -> Nat]
  /\ retryQ \in Seq(RetryMsg)
  /\ wpc \in [Worker -> WorkerPc]
  /\ wtask \in [Worker -> Task \cup {None}]
  /\ wdelay \in [Worker -> Int]
  /\ retryCount \in [Task -> Nat]
  /\ nextRetryAt \in [Task -> Int]
  /\ channel \in {"open", "refused", "lost"}
  /\ ended \in Nat
  /\ \A w \in Worker : wpc[w] # "idle" => wtask[w] \in Task

(* Delayed messages wait in the order of their publication. *)
OrderInv ==
  /\ \A i \in DOMAIN retryQ : retryQ[i].ttl => retryQ[i].sent <= now
  /\ \A i, j \in DOMAIN retryQ :
       i < j /\ retryQ[i].ttl /\ retryQ[j].ttl => retryQ[i].sent <= retryQ[j].sent

(* With sane policies no delay is negative or longer than its limit. *)
SaneMessages ==
  AllSane => \A i \in DOMAIN retryQ :
    retryQ[i].ttl => retryQ[i].due <= retryQ[i].sent + policy[retryQ[i].task].max

SaneWorkers ==
  AllSane => /\ channel # "refused"
             /\ \A w \in Worker : wpc[w] = "publish" => wdelay[w] \in 0..policy[wtask[w]].max

LateInv == OrderInv /\ SaneMessages /\ LatenessBounded

(***************************************************************************)
(* The next attempt of t is in one place at most: its message is queued,   *)
(* a worker is about to publish it, or it waits in the retry queue.  In    *)
(* each of them it is early enough for next_retry_at.                      *)
(***************************************************************************)
Publishes(w, t) == wpc[w] = "publish" /\ wtask[w] = t
Waits(i, t) == retryQ[i].ttl /\ retryQ[i].task = t

OnePlace(t) ==
  /\ deliveryQ[t] <= 1
  /\ \A w \in Worker : Publishes(w, t) =>
       /\ deliveryQ[t] = 0
       /\ \A u \in Worker : Publishes(u, t) => u = w
       /\ \A i \in DOMAIN retryQ : ~Waits(i, t)
  /\ \A i \in DOMAIN retryQ : Waits(i, t) =>
       /\ deliveryQ[t] = 0
       /\ \A j \in DOMAIN retryQ : Waits(j, t) => j = i

OnTime(t) ==
  /\ deliveryQ[t] > 0 => nextRetryAt[t] <= now
  /\ \A w \in Worker : Publishes(w, t) => nextRetryAt[t] <= now + wdelay[w]
  /\ \A i \in DOMAIN retryQ : Waits(i, t) => nextRetryAt[t] <= retryQ[i].due

EarlyInv == ended = 0 => channel = "open" /\ \A t \in Task : OnePlace(t) /\ OnTime(t)

TimingInv ==
  /\ TimingTypeOK
  /\ LateInv
  /\ SaneWorkers
  /\ EarlyInv

-----------------------------------------------------------------------------
(* A set of numbers has a least element. *)
LEMMA LeastNumber ==
  ASSUME NEW T \in SUBSET Nat, T # {}
  PROVE  \E x \in T : \A y \in T : x <= y
<1>1. \E x \in T : \A y \in T : ~(<<y, x>> \in OpToRel(<, Nat))
  BY NatLessThanWellFounded, WFMin
<1>2. \A x \in Nat, y \in Nat : y < x => <<y, x>> \in OpToRel(<, Nat)
  BY DEF OpToRel
<1>3. PICK x \in T : \A y \in T : ~(y < x)
  BY <1>1, <1>2
<1> QED
  BY <1>3

(* One of finitely many retry policies has the longest limit. *)
LEMMA LongestExists ==
  ASSUME NEW S \in SUBSET RetryPolicy, IsFiniteSet(S), S # {}
  PROVE  \E p \in S : \A q \in S : q.max <= p.max
<1>0. PICK n \in Nat : ExistsSurjection(1..n, S)
  BY FS_NatSurjection
<1>1. PICK f \in [1..n -> S] : \A p \in S : \E i \in 1..n : f[i] = p
  BY <1>0 DEF ExistsSurjection, Surjection
<1> DEFINE Best(k, m) == \A j \in 1..k : f[j].max <= f[m].max
           T == {k \in 1..n : \A m \in 1..k : ~Best(k, m)}
<1>2. \A i \in 1..n : f[i].max \in Int
  BY DEF RetryPolicy
<1>3. n \in 1..n
  BY <1>1
<1>4. \A a, b, c \in Int : a <= b /\ b < c => a <= c
  OBVIOUS
<1>5. T = {}
  <2> SUFFICES ASSUME T # {} PROVE FALSE
    OBVIOUS
  <2>1. PICK k \in T : \A j \in T : k <= j
    <3>1. T \in SUBSET Nat
      OBVIOUS
    <3> HIDE DEF T
    <3> QED
      BY <3>1, LeastNumber
  <2>2. k \in 1..n /\ \A m \in 1..k : ~Best(k, m)
    BY <2>1
  <2>3. CASE k = 1
    <3>1. Best(1, 1)
      BY <1>2, <1>3
    <3> QED
      BY <2>2, <2>3, <3>1
  <2>4. CASE k # 1
    <3>1. k - 1 \in 1..n /\ k - 1 \notin T /\ k \in 1..k
      <4>1. k - 1 \in 1..n /\ ~(k <= k - 1) /\ k \in 1..k
        BY <2>2, <2>4
      <4> HIDE DEF T
      <4> QED
        BY <2>1, <4>1
    <3>2. PICK m \in 1..(k - 1) : Best(k - 1, m)
      BY <3>1
    <3>3. \A j \in 1..k : j \in 1..(k - 1) \/ j = k
      BY <2>2
    <3>4. CASE f[k].max <= f[m].max
      <4>1. Best(k, m)
        BY <3>2, <3>3, <3>4
      <4> QED
        BY <2>2, <3>2, <4>1
    <3>5. CASE f[m].max < f[k].max
      <4>1. \A j \in 1..(k - 1) : f[j].max <= f[m].max /\ j \in 1..n
        BY <2>2, <3>2
      <4>2. ASSUME NEW j \in 1..(k - 1) PROVE f[j].max <= f[k].max
        <5>1. j \in 1..n /\ m \in 1..n /\ k \in 1..n
          BY <2>2, <4>1
        <5>2. f[j].max \in Int /\ f[m].max \in Int /\ f[k].max \in Int
          BY <1>2, <5>1, Zenon
        <5>3. f[j].max <= f[m].max
          BY <4>1, Zenon
        <5> QED
          BY <1>4, <3>5, <5>2, <5>3, Zenon
      <4>3. f[k].max <= f[k].max
        BY <1>2, <2>2
      <4>4. Best(k, k)
        BY <3>3, <4>2, <4>3
      <4> QED
        BY <2>2, <3>1, <4>4
    <3>6. f[k].max \in Int /\ f[m].max \in Int
      BY <1>2, <2>2, <3>2
    <3> QED
      BY <3>4, <3>5, <3>6
  <2> QED
    BY <2>3, <2>4
<1>6. PICK m \in 1..n : Best(n, m)
  BY <1>3, <1>5
<1> QED
  BY <1>1, <1>6

-----------------------------------------------------------------------------
(* calculateBackoff. *)

(* The duration of any policy is an integer. *)
LEMMA BackoffIsInteger ==
  ASSUME NEW p \in Policies, NEW n \in 1..p.attempts, NEW r \in 0..9
  PROVE  Milliseconds(CalculateBackoff(n, p, r)) \in Int
<1>1. p.base \in Int /\ p.max \in Int /\ p.mult \in Int /\ p.jitter \in Int
  BY TimingAssumption DEF RetryPolicy
<1>2. 2 ^ n \in Nat \ {0} /\ p.mult ^ n \in Int
  BY PowersAssumption
<1>3. Raw(n, p) \in Int
  BY <1>1, <1>2 DEF Raw
<1>4. \A a \in Int, b \in Nat \ {0} : Quo(a, b) \in Int
  BY DEF Quo
<1>5. Least \in Int /\ 2 ^ Width \in Nat \ {0}
  BY PowersAssumption DEF Least
<1>6. \A x \in Int : Wrap(x) \in Int /\ FromFloat(x) \in Int
  BY <1>5 DEF Wrap, FromFloat
<1>7. PICK reduced \in Int : reduced = IF p.jitter > 0 THEN 100 - p.jitter * r ELSE 100
  BY <1>1
<1>8. Raw(n, p) * reduced \in Int /\ 100 * (2 ^ n) \in Nat \ {0}
  BY <1>2, <1>3
<1>9. PICK q \in Int : q = Quo(Raw(n, p) * reduced, 100 * (2 ^ n))
  BY <1>4, <1>8
<1>10. CalculateBackoff(n, p, r) = Wrap(FromFloat(q) * NsPerMs)
  BY <1>7, <1>9 DEF CalculateBackoff
<1>11. CalculateBackoff(n, p, r) \in Int
  BY <1>6, <1>10, TimingAssumption
<1> QED
  BY <1>4, <1>11, TimingAssumption DEF Milliseconds

(* A delay that fits a time.Duration survives the conversions. *)
LEMMA ConversionsKeep ==
  ASSUME NEW q \in Nat, q * NsPerMs < -Least
  PROVE  Milliseconds(Wrap(FromFloat(q) * NsPerMs)) = q
<1>1. PICK h \in Nat \ {0} : h = 2 ^ (Width - 1) /\ 2 ^ Width = 2 * h /\ Least = -h
  BY PowersAssumption DEF Least
<1>2. PICK m \in Nat \ {0} : m = NsPerMs
  BY TimingAssumption
<1>3. q <= q * m
  BY <1>2
<1>4. q < h /\ q * m \in Nat /\ q * m < h
  BY <1>1, <1>2, <1>3
<1>5. FromFloat(q) = q
  BY <1>1, <1>4 DEF FromFloat
<1>6. Wrap(q * m) = q * m
  <2>1. PICK y \in Nat : y = q * m /\ y < h
    BY <1>4
  <2>2. (y + h) % (2 * h) = y + h
    BY <1>1, <2>1
  <2> QED
    BY <1>1, <2>1, <2>2 DEF Wrap
<1>7. (q * m) \div m = q
  BY <1>2
<1> QED
  BY <1>2, <1>4, <1>5, <1>6, <1>7 DEF Milliseconds, Quo

(***************************************************************************)
(* For a sane policy the delay is between 0 and max_delay, at any attempt  *)
(* and for any random number.                                              *)
(***************************************************************************)
LEMMA SaneBackoff ==
  ASSUME NEW p \in Policies, NEW n \in 1..p.attempts, NEW r \in 0..9, Sane(p)
  PROVE  Milliseconds(CalculateBackoff(n, p, r)) \in 0..p.max
<1>1. p.base \in Nat /\ p.max \in Nat \ {0} /\ p.mult \in Nat /\ p.jitter \in 0..10
  BY TimingAssumption DEF RetryPolicy, Sane
<1>2. PICK two \in Nat \ {0}, power \in Nat : two = 2 ^ n /\ power = p.mult ^ n
  BY <1>1, PowersAssumption
<1>3. PICK raw \in Nat : raw = Raw(n, p) /\ raw <= p.max * two
  <2>1. p.base * power \in Nat /\ p.max * two \in Nat
    BY <1>1, <1>2
  <2> QED
    BY <1>1, <1>2, <2>1 DEF Raw
<1>4. PICK reduced \in 0..100 : reduced = IF p.jitter > 0 THEN 100 - p.jitter * r ELSE 100
  BY <1>1
<1>5. raw * reduced \in Nat /\ raw * reduced <= (100 * two) * p.max
  <2>1. raw * reduced <= raw * 100
    BY <1>3, <1>4
  <2>2. raw * 100 <= (p.max * two) * 100
    BY <1>1, <1>2, <1>3
  <2> QED
    BY <1>1, <1>2, <1>3, <1>4, <2>1, <2>2
<1>6. PICK q \in 0..p.max : q = Quo(raw * reduced, 100 * two)
  <2>1. PICK a \in Nat, b \in Nat \ {0}, c \in Nat :
          a = raw * reduced /\ b = 100 * two /\ c = p.max /\ a <= b * c
    BY <1>1, <1>2, <1>5
  <2>2. a \div b \in Nat /\ a \div b <= c
    BY <2>1
  <2> QED
    BY <2>1, <2>2 DEF Quo
<1>7. CalculateBackoff(n, p, r) = Wrap(FromFloat(q) * NsPerMs)
  BY <1>2, <1>3, <1>4, <1>6 DEF CalculateBackoff
<1>8. q \in Nat /\ q * NsPerMs < -Least
  <2>1. q * NsPerMs <= p.max * NsPerMs
    BY <1>1, <1>6, TimingAssumption
  <2>2. p.max * NsPerMs < -Least
    BY DEF Sane
  <2>3. Least \in Int
    BY PowersAssumption DEF Least
  <2> QED
    BY <1>1, <1>6, <2>1, <2>2, <2>3, TimingAssumption
<1> QED
  BY <1>6, <1>7, <1>8, ConversionsKeep

-----------------------------------------------------------------------------
(* LongestDelay is the longest limit: there are finitely many policies. *)
LEMMA LongestDelayBounds ==
  ASSUME TimingTypeOK, NEW t \in Task
  PROVE  LongestDelay \in Int /\ policy[t].max <= LongestDelay
<1> DEFINE S == {policy[u] : u \in Task}
<1>1. S \subseteq Policies /\ S # {}
  BY DEF TimingTypeOK
<1>2. S \in SUBSET RetryPolicy /\ IsFiniteSet(S)
  BY <1>1, TimingAssumption, FS_Subset
<1>3. PICK p \in S : \A q \in S : q.max <= p.max
  <2> HIDE DEF S
  <2> QED
    BY <1>1, <1>2, LongestExists
<1>4. \E d \in {policy[u].max : u \in Task} : \A u \in Task : policy[u].max <= d
  BY <1>3
<1>5. LongestDelay \in {policy[u].max : u \in Task} /\ \A u \in Task : policy[u].max <= LongestDelay
  BY <1>4 DEF LongestDelay
<1>6. \A u \in Task : policy[u].max \in Int
  BY <1>2 DEF RetryPolicy
<1> QED
  BY <1>5, <1>6

(* The policies of the tasks, and what is computed from them, stay. *)
LEMMA PoliciesStay ==
  ASSUME UNCHANGED policy
  PROVE  /\ AllSane' = AllSane
         /\ LongestDelay' = LongestDelay
BY DEF AllSane, LongestDelay

LEMMA TimingInitInv == TimingInit => TimingInv
<1> SUFFICES ASSUME TimingInit PROVE TimingInv
  OBVIOUS
<1> USE DEF TimingInit
<1>1. TimingTypeOK
  BY DEF TimingTypeOK, WorkerPc
<1>2. LateInv /\ SaneWorkers
  BY DEF LateInv, OrderInv, SaneMessages, LatenessBounded, SaneWorkers
<1>3. EarlyInv
  BY DEF EarlyInv, OnePlace, OnTime, Publishes, Waits
<1> QED
  BY <1>1, <1>2, <1>3 DEF TimingInv

-----------------------------------------------------------------------------
(* The retry queue. *)

(* Where the messages are after one was appended. *)
LEMMA Appended ==
  ASSUME TimingTypeOK, NEW m \in RetryMsg, retryQ' = Append(retryQ, m)
  PROVE  /\ retryQ' \in Seq(RetryMsg)
         /\ \A i \in DOMAIN retryQ' :
              \/ i \in DOMAIN retryQ /\ retryQ'[i] = retryQ[i] /\ i < Len(retryQ) + 1
              \/ i = Len(retryQ) + 1 /\ retryQ'[i] = m
         /\ \A i \in DOMAIN retryQ : i \in DOMAIN retryQ' /\ retryQ'[i] = retryQ[i]
         /\ Len(retryQ) + 1 \in DOMAIN retryQ' /\ retryQ'[Len(retryQ) + 1] = m
         /\ \A i \in DOMAIN retryQ' : i \in Nat /\ \A j \in 1..i : j \in DOMAIN retryQ'
BY DEF TimingTypeOK

(* Where they are after the head has left. *)
LEMMA Behead ==
  ASSUME TimingTypeOK, retryQ # <<>>, retryQ' = Tail(retryQ)
  PROVE  /\ retryQ' \in Seq(RetryMsg)
         /\ 1 \in DOMAIN retryQ /\ Head(retryQ) = retryQ[1] /\ retryQ[1] \in RetryMsg
         /\ \A i \in DOMAIN retryQ' : /\ i \in Nat /\ i >= 1 /\ i + 1 \in DOMAIN retryQ
                                       /\ retryQ'[i] = retryQ[i + 1]
BY DEF TimingTypeOK

LEMMA MessageTypes ==
  ASSUME TimingTypeOK, NEW i \in DOMAIN retryQ
  PROVE  /\ retryQ[i].task \in Task /\ retryQ[i].sent \in Nat /\ retryQ[i].due \in Int
         /\ policy[retryQ[i].task].max \in Int
         /\ i \in Nat /\ i >= 1 /\ 1 \in DOMAIN retryQ /\ \A j \in 1..i : j \in DOMAIN retryQ
<1>1. retryQ[i] \in RetryMsg
  BY DEF TimingTypeOK
<1>2. i \in Nat /\ i >= 1 /\ 1 \in DOMAIN retryQ /\ \A j \in 1..i : j \in DOMAIN retryQ
  BY DEF TimingTypeOK
<1>3. policy[retryQ[i].task].max \in Int
  BY <1>1, TimingAssumption DEF RetryMsg, TimingTypeOK, RetryPolicy
<1> QED
  BY <1>1, <1>2, <1>3 DEF RetryMsg

(* Nothing is sent, nothing expires and no time passes. *)
LEMMA SameQueueLate ==
  ASSUME LateInv, UNCHANGED <<now, policy, retryQ>>
  PROVE  LateInv'
BY PoliciesStay DEF LateInv, OrderInv, SaneMessages, LatenessBounded

(* A message joins the tail: a rejected one, or a delayed one sent now. *)
LEMMA AppendLate ==
  ASSUME TimingTypeOK, LateInv, UNCHANGED <<now, policy>>,
         NEW m \in RetryMsg, retryQ' = Append(retryQ, m),
         m.ttl => m.sent = now,
         AllSane /\ m.ttl => m.due <= m.sent + policy[m.task].max
  PROVE  LateInv'
<1> USE DEF LateInv
<1>1. now \in Nat /\ m.task \in Task /\ now <= now
  BY DEF TimingTypeOK, RetryMsg
<1>2. OrderInv'
  <2>1. \A i \in DOMAIN retryQ' : retryQ'[i].ttl => retryQ'[i].sent <= now'
    BY <1>1, Appended DEF OrderInv
  <2>2. ASSUME NEW i \in DOMAIN retryQ', NEW j \in DOMAIN retryQ', i < j,
               retryQ'[i].ttl, retryQ'[j].ttl
        PROVE  retryQ'[i].sent <= retryQ'[j].sent
    <3>1. i \in DOMAIN retryQ /\ retryQ'[i] = retryQ[i]
      <4>1. i \in Nat /\ j \in Nat /\ Len(retryQ) \in Nat
        BY <2>2, Appended DEF TimingTypeOK
      <4>2. j <= Len(retryQ) + 1
        BY <2>2, <4>1, Appended
      <4>3. i # Len(retryQ) + 1
        BY <2>2, <4>1, <4>2
      <4> QED
        BY <4>3, Appended
    <3>2. CASE j \in DOMAIN retryQ /\ retryQ'[j] = retryQ[j]
      BY <2>2, <3>1, <3>2 DEF OrderInv
    <3>3. CASE retryQ'[j] = m
      BY <2>2, <3>1, <3>3 DEF OrderInv
    <3> QED
      BY <3>2, <3>3, Appended
  <2> QED
    BY <2>1, <2>2 DEF OrderInv
<1>3. SaneMessages'
  <2> SUFFICES ASSUME AllSane, NEW i \in DOMAIN retryQ', retryQ'[i].ttl
               PROVE  retryQ'[i].due <= retryQ'[i].sent + policy[retryQ'[i].task].max
    BY PoliciesStay DEF SaneMessages
  <2>1. CASE i \in DOMAIN retryQ /\ retryQ'[i] = retryQ[i]
    BY <2>1 DEF SaneMessages
  <2>2. CASE retryQ'[i] = m
    BY <2>2
  <2> QED
    BY <2>1, <2>2, Appended
<1>4. LatenessBounded'
  <2> SUFFICES ASSUME AllSane, NEW i \in DOMAIN retryQ', \A j \in 1..i : retryQ'[j].ttl
               PROVE  now <= retryQ'[i].sent + LongestDelay
    BY PoliciesStay DEF LatenessBounded
  <2>1. CASE i \in DOMAIN retryQ /\ retryQ'[i] = retryQ[i]
    <3>1. \A j \in 1..i : j \in DOMAIN retryQ /\ retryQ'[j] = retryQ[j]
      BY <2>1, Appended, MessageTypes
    <3> QED
      BY <2>1, <3>1 DEF LatenessBounded
  <2>2. CASE retryQ'[i] = m
    <3>1. m.ttl
      <4>1. i \in 1..i
        BY MessageTypes, Appended DEF TimingTypeOK
      <4> QED
        BY <2>2, <4>1
    <3>2. policy[m.task].max \in Int /\ policy[m.task].max > 0
      BY <1>1, TimingAssumption DEF AllSane, Sane, TimingTypeOK, RetryPolicy
    <3>3. LongestDelay \in Int /\ policy[m.task].max <= LongestDelay
      BY <1>1, LongestDelayBounds
    <3> QED
      BY <1>1, <2>2, <3>1, <3>2, <3>3
  <2> QED
    BY <2>1, <2>2, Appended
<1> QED
  BY <1>2, <1>3, <1>4

(* The head leaves; it was a delayed message, so the others are no worse off. *)
LEMMA BeheadLate ==
  ASSUME TimingTypeOK, LateInv, UNCHANGED <<now, policy>>,
         retryQ # <<>>, retryQ[1].ttl, retryQ' = Tail(retryQ)
  PROVE  LateInv'
<1> USE DEF LateInv
<1>1. OrderInv'
  <2>1. \A i \in DOMAIN retryQ' : retryQ'[i].ttl => retryQ'[i].sent <= now'
    BY Behead DEF OrderInv
  <2>2. \A i, j \in DOMAIN retryQ' : i < j =>
          /\ i + 1 \in DOMAIN retryQ /\ j + 1 \in DOMAIN retryQ /\ i + 1 < j + 1
          /\ retryQ'[i] = retryQ[i + 1] /\ retryQ'[j] = retryQ[j + 1]
    BY Behead
  <2> QED
    BY <2>1, <2>2 DEF OrderInv
<1>2. SaneMessages'
  BY Behead, PoliciesStay DEF SaneMessages
<1>3. LatenessBounded'
  <2> SUFFICES ASSUME AllSane, NEW i \in DOMAIN retryQ', \A j \in 1..i : retryQ'[j].ttl
               PROVE  now <= retryQ'[i].sent + LongestDelay
    BY PoliciesStay DEF LatenessBounded
  <2>1. i \in Nat /\ i >= 1 /\ i + 1 \in DOMAIN retryQ /\ retryQ'[i] = retryQ[i + 1]
    BY Behead
  <2>2. ASSUME NEW j \in 1..(i + 1) PROVE retryQ[j].ttl
    <3>1. CASE j = 1
      BY <3>1
    <3>2. CASE j # 1
      <4>1. j - 1 \in 1..i /\ (j - 1) + 1 = j
        BY <2>1, <3>2
      <4>2. j - 1 \in DOMAIN retryQ'
        BY <2>1, <4>1, Behead DEF TimingTypeOK
      <4> QED
        BY <4>1, <4>2, Behead
    <3> QED
      BY <3>1, <3>2
  <2> QED
    BY <2>1, <2>2 DEF LatenessBounded
<1> QED
  BY <1>1, <1>2, <1>3

(* Time passes only while the head is not due, and nobody was sent before it. *)
LEMMA TickLate ==
  ASSUME TimingTypeOK, LateInv, Tick
  PROVE  LateInv'
<1> USE DEF LateInv
<1>1. UNCHANGED <<policy, retryQ>> /\ now' = now + 1 /\ ~HeadIsDue /\ now \in Nat
  BY DEF Tick, TimingTypeOK
<1>2. OrderInv'
  <2>1. \A i \in DOMAIN retryQ : retryQ[i].ttl => retryQ[i].sent <= now + 1
    BY <1>1, MessageTypes DEF OrderInv
  <2> QED
    BY <1>1, <2>1 DEF OrderInv
<1>3. SaneMessages'
  BY <1>1, PoliciesStay DEF SaneMessages
<1>4. LatenessBounded'
  <2> SUFFICES ASSUME AllSane, NEW i \in DOMAIN retryQ, \A j \in 1..i : retryQ[j].ttl
               PROVE  now + 1 <= retryQ[i].sent + LongestDelay
    BY <1>1, PoliciesStay DEF LatenessBounded
  <2>1. /\ i \in Nat /\ i >= 1 /\ 1 \in DOMAIN retryQ /\ retryQ[i].sent \in Nat
        /\ retryQ[1].sent \in Nat /\ retryQ[1].due \in Int /\ retryQ[1].task \in Task
    BY MessageTypes
  <2>2. retryQ[1].ttl /\ retryQ[i].ttl
    <3>1. 1 \in 1..i /\ i \in 1..i
      BY <2>1
    <3> QED
      BY <3>1
  <2>3. ~(retryQ[1].due <= now)
    <3>1. retryQ # <<>> /\ Head(retryQ) = retryQ[1]
      BY <2>1 DEF TimingTypeOK
    <3> QED
      BY <1>1, <2>2, <3>1 DEF HeadIsDue
  <2>4. retryQ[1].sent <= retryQ[i].sent
    <3>1. CASE i = 1
      BY <2>1, <3>1
    <3>2. CASE i # 1
      <4>1. 1 < i
        BY <2>1, <3>2
      <4> QED
        BY <2>1, <2>2, <4>1 DEF OrderInv
    <3> QED
      BY <3>1, <3>2
  <2>5. PICK p \in Int : p = policy[retryQ[1].task].max
    BY <2>1, MessageTypes
  <2>6. retryQ[1].due <= retryQ[1].sent + p
    BY <2>1, <2>2, <2>5 DEF SaneMessages
  <2>7. LongestDelay \in Int /\ p <= LongestDelay
    BY <2>1, <2>5, LongestDelayBounds
  <2> QED
    BY <1>1, <2>1, <2>3, <2>4, <2>6, <2>7
<1> QED
  BY <1>2, <1>3, <1>4

-----------------------------------------------------------------------------
(* Workers and the delivery queue. *)

LEMMA WorkerMoved ==
  ASSUME TimingTypeOK, NEW w \in Worker, NEW pc \in WorkerPc, NEW t \in Task \cup {None},
         NEW d \in Int, WorkerGoes(w, pc, t, d), pc # "idle" => t \in Task
  PROVE  /\ wpc' \in [Worker -> WorkerPc] /\ wtask' \in [Worker -> Task \cup {None}]
         /\ wdelay' \in [Worker -> Int]
         /\ wpc'[w] = pc /\ wtask'[w] = t /\ wdelay'[w] = d
         /\ \A u \in Worker \ {w} : wpc'[u] = wpc[u] /\ wtask'[u] = wtask[u] /\ wdelay'[u] = wdelay[u]
         /\ \A u \in Worker : wpc'[u] # "idle" => wtask'[u] \in Task
<1>1. /\ wpc' \in [Worker -> WorkerPc] /\ wtask' \in [Worker -> Task \cup {None}]
      /\ wdelay' \in [Worker -> Int]
  BY DEF WorkerGoes, TimingTypeOK
<1>2. /\ wpc'[w] = pc /\ wtask'[w] = t /\ wdelay'[w] = d
      /\ \A u \in Worker \ {w} : wpc'[u] = wpc[u] /\ wtask'[u] = wtask[u] /\ wdelay'[u] = wdelay[u]
  BY DEF WorkerGoes, TimingTypeOK
<1> QED
  BY <1>1, <1>2 DEF TimingTypeOK

(* A worker that stops publishing, or keeps to its other calls. *)
LEMMA NoPublisherSane ==
  ASSUME TimingTypeOK, SaneWorkers, UNCHANGED policy, channel' # "refused",
         NEW w \in Worker, NEW pc \in WorkerPc \ {"publish"}, NEW t \in Task \cup {None},
         WorkerGoes(w, pc, t, 0), pc # "idle" => t \in Task
  PROVE  SaneWorkers'
<1>1. /\ wpc'[w] # "publish"
      /\ \A u \in Worker \ {w} : wpc'[u] = wpc[u] /\ wtask'[u] = wtask[u] /\ wdelay'[u] = wdelay[u]
  BY WorkerMoved
<1> QED
  BY <1>1, PoliciesStay DEF SaneWorkers

LEMMA RequeueType ==
  ASSUME TimingTypeOK, Requeue
  PROVE  deliveryQ' \in [Task -> Nat]
<1>1. \A t \in Task : Held(t) \in Nat
  <2> SUFFICES ASSUME NEW t \in Task PROVE Held(t) \in Nat
    OBVIOUS
  <2>1. {w \in Worker : wpc[w] # "idle" /\ wtask[w] = t} \subseteq Worker
    OBVIOUS
  <2>2. IsFiniteSet({w \in Worker : wpc[w] # "idle" /\ wtask[w] = t})
    BY <2>1, FS_Subset, TimingAssumption
  <2> QED
    BY <2>2, FS_CardinalityType DEF Held
<1>2. \A t \in Task : deliveryQ[t] \in Nat
  BY DEF TimingTypeOK
<1>3. \A t \in Task : deliveryQ[t] + Held(t) \in Nat
  BY <1>1, <1>2
<1> QED
  BY <1>3 DEF Requeue

(* When the one queued message of t is taken, nothing else of t is under way. *)
LEMMA TakesType ==
  ASSUME TimingTypeOK, NEW w \in Worker, NEW t \in Task, Takes(w, t)
  PROVE  /\ deliveryQ' \in [Task -> Nat] /\ deliveryQ'[t] = deliveryQ[t] - 1 /\ deliveryQ[t] > 0
         /\ deliveryQ[t] \in Nat
         /\ \A u \in Task \ {t} : deliveryQ'[u] = deliveryQ[u]
<1>1. deliveryQ \in [Task -> Nat] /\ deliveryQ[t] \in Nat /\ deliveryQ[t] > 0
  BY DEF Takes, TimingTypeOK
<1>2. deliveryQ' = [deliveryQ EXCEPT ![t] = deliveryQ[t] - 1] /\ deliveryQ[t] - 1 \in Nat
  BY <1>1 DEF Takes
<1> QED
  BY <1>1, <1>2

(* What retryOrDeadLetter computes and stores. *)
LEMMA AttemptEffect ==
  ASSUME TimingTypeOK, NEW w \in Worker, NEW t \in Task, AttemptFails(w, t)
  PROVE  /\ UNCHANGED <<now, policy, retryQ, channel, ended>> /\ Takes(w, t)
         /\ retryCount' \in [Task -> Nat] /\ nextRetryAt' \in [Task -> Int]
         /\ \A u \in Task \ {t} : nextRetryAt'[u] = nextRetryAt[u]
         /\ \/ WorkerGoes(w, "nack", t, 0)
            \/ \E d \in Int : /\ WorkerGoes(w, "publish", t, d)
                              /\ nextRetryAt'[t] = now + d
                              /\ Sane(policy[t]) => d \in 0..policy[t].max
<1>1. UNCHANGED <<now, policy, retryQ, channel, ended>> /\ Takes(w, t)
  BY DEF AttemptFails
<1>2. now \in Nat /\ policy[t] \in Policies /\ retryCount[t] \in Nat /\ policy[t].attempts \in Nat
  BY TimingAssumption DEF TimingTypeOK, RetryPolicy
<1>3. PICK n \in 1..policy[t].attempts : n = retryCount[t] + 1
  BY <1>2 DEF AttemptFails
<1>4. PICK r \in 0..9, answer \in {"ok", "fail", "unsure"} :
        /\ IF answer = "fail"
           THEN UNCHANGED rowVars
           ELSE /\ retryCount' = [retryCount EXCEPT ![t] = n]
                /\ nextRetryAt' = [nextRetryAt EXCEPT ![t] =
                                     now + Milliseconds(CalculateBackoff(n, policy[t], r))]
        /\ IF answer = "ok"
           THEN WorkerGoes(w, "publish", t, Milliseconds(CalculateBackoff(n, policy[t], r)))
           ELSE WorkerGoes(w, "nack", t, 0)
  BY <1>3 DEF AttemptFails
<1>5. PICK d \in Int : /\ d = Milliseconds(CalculateBackoff(n, policy[t], r))
                       /\ Sane(policy[t]) => d \in 0..policy[t].max
  BY <1>2, BackoffIsInteger, SaneBackoff
<1>6. retryCount \in [Task -> Nat] /\ nextRetryAt \in [Task -> Int] /\ now + d \in Int /\ n \in Nat
  BY <1>2, <1>3 DEF TimingTypeOK
<1>7. CASE answer = "fail"
  BY <1>1, <1>4, <1>6, <1>7 DEF rowVars
<1>8. CASE answer # "fail"
  <2>1. retryCount' = [retryCount EXCEPT ![t] = n] /\ nextRetryAt' = [nextRetryAt EXCEPT ![t] = now + d]
    BY <1>4, <1>5, <1>8
  <2>2. /\ retryCount' \in [Task -> Nat] /\ nextRetryAt' \in [Task -> Int]
        /\ nextRetryAt'[t] = now + d /\ \A u \in Task \ {t} : nextRetryAt'[u] = nextRetryAt[u]
    BY <1>6, <2>1
  <2>3. WorkerGoes(w, "nack", t, 0) \/ WorkerGoes(w, "publish", t, d)
    BY <1>4, <1>5
  <2> QED
    BY <1>1, <1>5, <2>2, <2>3
<1> QED
  BY <1>7, <1>8

(* The tasks that a worker's step does not concern. *)
LEMMA OtherTasks ==
  ASSUME UNCHANGED <<now, retryQ>>, NEW w \in Worker, NEW t \in Task,
         wpc[w] = "publish" => wtask[w] = t, wpc'[w] = "publish" => wtask'[w] = t,
         \A u \in Worker \ {w} : wpc'[u] = wpc[u] /\ wtask'[u] = wtask[u] /\ wdelay'[u] = wdelay[u],
         NEW o \in Task \ {t}, deliveryQ'[o] = deliveryQ[o], nextRetryAt'[o] = nextRetryAt[o],
         OnePlace(o), OnTime(o)
  PROVE  OnePlace(o)' /\ OnTime(o)'
<1>1. \A u \in Worker : Publishes(u, o)' <=> Publishes(u, o)
  BY DEF Publishes
<1>2. \A u \in Worker : Publishes(u, o) => wdelay'[u] = wdelay[u]
  BY DEF Publishes
<1>3. \A i \in DOMAIN retryQ : Waits(i, o)' <=> Waits(i, o)
  BY DEF Waits
<1>4. OnePlace(o)'
  BY <1>1, <1>3 DEF OnePlace
<1> QED
  BY <1>1, <1>2, <1>3, <1>4 DEF OnTime

(* The attempt fails: its message is gone, and the next one is not published yet. *)
LEMMA AttemptFailsKeeps ==
  ASSUME TimingInv, NEW w \in Worker, NEW t \in Task, AttemptFails(w, t)
  PROVE  TimingInv'
<1> USE DEF TimingInv
<1>1. /\ UNCHANGED <<now, policy, retryQ, channel, ended>> /\ Takes(w, t)
      /\ retryCount' \in [Task -> Nat] /\ nextRetryAt' \in [Task -> Int]
      /\ \A u \in Task \ {t} : nextRetryAt'[u] = nextRetryAt[u]
  BY AttemptEffect
<1>2. PICK pc \in {"nack", "publish"}, d \in Int :
        /\ WorkerGoes(w, pc, t, d)
        /\ pc = "nack" => d = 0
        /\ pc = "publish" => nextRetryAt'[t] = now + d
        /\ pc = "publish" /\ Sane(policy[t]) => d \in 0..policy[t].max
  <2>1. 0 \in Int
    OBVIOUS
  <2> QED
    BY <2>1, AttemptEffect
<1>3. /\ wpc' \in [Worker -> WorkerPc] /\ wtask' \in [Worker -> Task \cup {None}]
      /\ wdelay' \in [Worker -> Int]
      /\ wpc'[w] = pc /\ wtask'[w] = t /\ wdelay'[w] = d
      /\ \A u \in Worker \ {w} : wpc'[u] = wpc[u] /\ wtask'[u] = wtask[u] /\ wdelay'[u] = wdelay[u]
      /\ \A u \in Worker : wpc'[u] # "idle" => wtask'[u] \in Task
  BY <1>2, WorkerMoved DEF WorkerPc
<1>4. TimingTypeOK'
  BY <1>1, <1>3, TakesType DEF TimingTypeOK
<1>5. LateInv'
  BY <1>1, SameQueueLate
<1>6. SaneWorkers'
  <2> SUFFICES ASSUME AllSane
               PROVE  /\ channel' # "refused"
                      /\ \A u \in Worker : wpc'[u] = "publish" => wdelay'[u] \in 0..policy'[wtask'[u]].max
    BY <1>1, PoliciesStay DEF SaneWorkers
  <2>1. Sane(policy[t])
    BY DEF AllSane
  <2> QED
    BY <1>1, <1>2, <1>3, <2>1 DEF SaneWorkers
<1>7. EarlyInv'
  <2> SUFFICES ASSUME ended = 0, NEW o \in Task
               PROVE  channel = "open" /\ OnePlace(o)' /\ OnTime(o)'
    BY <1>1 DEF EarlyInv
  <2>1. channel = "open" /\ OnePlace(o) /\ OnTime(o) /\ OnePlace(t) /\ wpc[w] = "idle"
    BY <1>1 DEF EarlyInv, Takes
  <2>2. CASE o # t
    BY <1>1, <1>3, <2>1, <2>2, OtherTasks, TakesType
  <2>3. CASE o = t
    <3>1. deliveryQ'[t] = 0 /\ deliveryQ[t] # 0
      BY <1>1, <2>1, TakesType DEF OnePlace
    <3>2. (\A u \in Worker : ~Publishes(u, t)) /\ \A i \in DOMAIN retryQ : ~Waits(i, t)
      BY <2>1, <3>1 DEF OnePlace
    <3>3. \A u \in Worker : Publishes(u, t)' => u = w
      BY <1>3, <3>2 DEF Publishes
    <3>4. \A i \in DOMAIN retryQ' : ~Waits(i, t)'
      BY <1>1, <3>2 DEF Waits
    <3>5. OnePlace(t)'
      BY <3>1, <3>3, <3>4 DEF OnePlace
    <3>6. Publishes(w, t)' => nextRetryAt'[t] <= now' + wdelay'[w]
      <4>1. now + d <= now + d
        BY <1>2 DEF TimingTypeOK
      <4> QED
        BY <1>1, <1>2, <1>3, <4>1 DEF Publishes
    <3>7. OnTime(t)'
      BY <3>1, <3>3, <3>4, <3>6 DEF OnTime
    <3> QED
      BY <2>1, <2>3, <3>5, <3>7
  <2> QED
    BY <2>1, <2>2, <2>3
<1> QED
  BY <1>4, <1>5, <1>6, <1>7

(* The attempt ends otherwise: one message less. *)
LEMMA AttemptEndsKeeps ==
  ASSUME TimingInv, NEW w \in Worker, NEW t \in Task, AttemptEnds(w, t)
  PROVE  TimingInv'
<1> USE DEF TimingInv
<1>1. UNCHANGED <<now, policy, retryQ, retryCount, nextRetryAt, channel, ended>> /\ Takes(w, t)
  BY DEF AttemptEnds, rowVars
<1>2. PICK pc \in {"ack", "nack"} : WorkerGoes(w, pc, t, 0)
  BY DEF AttemptEnds
<1>3. /\ wpc' \in [Worker -> WorkerPc] /\ wtask' \in [Worker -> Task \cup {None}]
      /\ wdelay' \in [Worker -> Int]
      /\ wpc'[w] = pc /\ wtask'[w] = t
      /\ \A u \in Worker \ {w} : wpc'[u] = wpc[u] /\ wtask'[u] = wtask[u] /\ wdelay'[u] = wdelay[u]
      /\ \A u \in Worker : wpc'[u] # "idle" => wtask'[u] \in Task
  BY <1>2, WorkerMoved DEF WorkerPc
<1>4. TimingTypeOK'
  BY <1>1, <1>3, TakesType DEF TimingTypeOK
<1>5. LateInv'
  BY <1>1, SameQueueLate
<1>6. SaneWorkers'
  BY <1>1, <1>3, PoliciesStay DEF SaneWorkers
<1>7. EarlyInv'
  <2> SUFFICES ASSUME ended = 0, NEW o \in Task
               PROVE  channel = "open" /\ OnePlace(o)' /\ OnTime(o)'
    BY <1>1 DEF EarlyInv
  <2>1. channel = "open" /\ OnePlace(o) /\ OnTime(o) /\ OnePlace(t) /\ wpc[w] = "idle"
    BY <1>1 DEF EarlyInv, Takes
  <2>2. CASE o # t
    BY <1>1, <1>3, <2>1, <2>2, OtherTasks, TakesType
  <2>3. CASE o = t
    <3>1. deliveryQ'[t] = 0 /\ deliveryQ[t] # 0
      BY <1>1, <2>1, TakesType DEF OnePlace
    <3>2. (\A u \in Worker : ~Publishes(u, t)) /\ \A i \in DOMAIN retryQ : ~Waits(i, t)
      BY <2>1, <3>1 DEF OnePlace
    <3>3. (\A u \in Worker : ~Publishes(u, t)') /\ \A i \in DOMAIN retryQ' : ~Waits(i, t)'
      BY <1>1, <1>3, <3>2 DEF Publishes, Waits
    <3>4. OnePlace(t)' /\ OnTime(t)'
      BY <3>1, <3>3 DEF OnePlace, OnTime
    <3> QED
      BY <2>1, <2>3, <3>4
  <2> QED
    BY <2>1, <2>2, <2>3
<1> QED
  BY <1>4, <1>5, <1>6, <1>7

-----------------------------------------------------------------------------
(* Publishing and settling. *)

(* What holds of a task of which nothing new is queued, published or sent. *)
LEMMA StaysEarly ==
  ASSUME TimingTypeOK, NEW o \in Task, OnePlace(o), OnTime(o),
         deliveryQ'[o] = deliveryQ[o], nextRetryAt'[o] = nextRetryAt[o],
         now' \in Nat, now <= now',
         \A u \in Worker : Publishes(u, o)' => Publishes(u, o) /\ wdelay'[u] = wdelay[u],
         \A i \in DOMAIN retryQ' : Waits(i, o)' =>
           i \in DOMAIN retryQ /\ Waits(i, o) /\ retryQ'[i] = retryQ[i]
  PROVE  OnePlace(o)' /\ OnTime(o)'
<1>1. now \in Nat /\ nextRetryAt[o] \in Int /\ \A u \in Worker : wdelay[u] \in Int
  BY DEF TimingTypeOK
<1>2. OnePlace(o)'
  BY DEF OnePlace
<1>3. deliveryQ'[o] > 0 => nextRetryAt'[o] <= now'
  BY <1>1 DEF OnTime
<1>4. ASSUME NEW u \in Worker, Publishes(u, o)'
      PROVE  nextRetryAt'[o] <= now' + wdelay'[u]
  <2>1. nextRetryAt[o] <= now + wdelay[u] /\ wdelay'[u] = wdelay[u]
    BY <1>4 DEF OnTime
  <2> QED
    BY <1>1, <2>1
<1>5. \A i \in DOMAIN retryQ' : Waits(i, o)' => nextRetryAt'[o] <= retryQ'[i].due
  BY DEF OnTime
<1> QED
  BY <1>2, <1>3, <1>4, <1>5 DEF OnTime

(* Appending a message changes nothing for the tasks that it does not bring back. *)
LEMMA AppendWaits ==
  ASSUME TimingTypeOK, NEW m \in RetryMsg, retryQ' = Append(retryQ, m),
         NEW o \in Task, ~m.ttl \/ m.task # o
  PROVE  \A i \in DOMAIN retryQ' : Waits(i, o)' =>
           i \in DOMAIN retryQ /\ Waits(i, o) /\ retryQ'[i] = retryQ[i]
BY Appended DEF Waits

(* The delayed message takes the place of the publishing worker. *)
LEMMA AcceptedKeeps ==
  ASSUME TimingInv, NEW w \in Worker, wpc[w] = "publish", channel = "open", PublishAccepted(w),
         WorkerGoes(w, "ack", wtask[w], 0), UNCHANGED <<now, policy, rowVars>>
  PROVE  TimingInv'
<1> USE DEF TimingInv
<1>1. PICK t \in Task, d \in Nat : t = wtask[w] /\ d = wdelay[w]
  <2>1. wtask[w] \in Task
    BY DEF TimingTypeOK
  <2>2. wdelay[w] \in Int /\ wdelay[w] >= 0
    BY DEF TimingTypeOK, PublishAccepted
  <2>3. wdelay[w] \in Nat
    BY <2>2
  <2> QED
    BY <2>1, <2>3
<1>2. UNCHANGED <<now, policy, retryCount, nextRetryAt, deliveryQ, channel, ended>> /\ now \in Nat
  BY DEF PublishAccepted, rowVars, TimingTypeOK
<1>3. PICK m \in RetryMsg : m = [task |-> t, sent |-> now, due |-> now + d, ttl |-> TRUE]
  <2>1. now + d \in Int
    BY <1>1, <1>2
  <2> QED
    BY <1>1, <1>2, <2>1 DEF RetryMsg
<1>4. retryQ' = Append(retryQ, m)
  BY <1>1, <1>3 DEF PublishAccepted, Delayed
<1>5. /\ wpc' \in [Worker -> WorkerPc] /\ wtask' \in [Worker -> Task \cup {None}]
      /\ wdelay' \in [Worker -> Int]
      /\ wpc'[w] = "ack"
      /\ \A u \in Worker \ {w} : wpc'[u] = wpc[u] /\ wtask'[u] = wtask[u] /\ wdelay'[u] = wdelay[u]
      /\ \A u \in Worker : wpc'[u] # "idle" => wtask'[u] \in Task
  BY <1>1, WorkerMoved DEF WorkerPc
<1>6. TimingTypeOK'
  BY <1>2, <1>4, <1>5, Appended DEF TimingTypeOK
<1>7. LateInv'
  <2>1. AllSane => d <= policy[t].max
    BY <1>1 DEF SaneWorkers, TimingTypeOK
  <2>2. policy[t].max \in Int
    BY TimingAssumption DEF TimingTypeOK, RetryPolicy
  <2>3. AllSane => m.due <= m.sent + policy[m.task].max
    BY <1>1, <1>2, <1>3, <2>1, <2>2
  <2> QED
    BY <1>2, <1>3, <1>4, <2>3, AppendLate
<1>8. SaneWorkers'
  BY <1>2, <1>5, PoliciesStay DEF SaneWorkers
<1>9. EarlyInv'
  <2> SUFFICES ASSUME ended = 0, NEW o \in Task
               PROVE  OnePlace(o)' /\ OnTime(o)'
    BY <1>2 DEF EarlyInv
  <2>1. OnePlace(o) /\ OnTime(o) /\ now <= now
    BY <1>2 DEF EarlyInv
  <2>2. \A u \in Worker : Publishes(u, o)' => u # w /\ Publishes(u, o) /\ wdelay'[u] = wdelay[u]
    BY <1>5 DEF Publishes
  <2>3. CASE o # t
    <3>1. \A i \in DOMAIN retryQ' : Waits(i, o)' =>
            i \in DOMAIN retryQ /\ Waits(i, o) /\ retryQ'[i] = retryQ[i]
      BY <1>3, <1>4, <2>3, AppendWaits
    <3> QED
      BY <1>2, <2>1, <2>2, <3>1, StaysEarly
  <2>4. CASE o = t
    <3>1. Publishes(w, t)
      BY <1>1 DEF Publishes
    <3>2. /\ deliveryQ[t] = 0 /\ \A i \in DOMAIN retryQ : ~Waits(i, t)
          /\ nextRetryAt[t] <= now + d /\ \A u \in Worker : Publishes(u, t) => u = w
      BY <1>1, <2>1, <2>4, <3>1 DEF OnePlace, OnTime
    <3>3. \A i \in DOMAIN retryQ' : Waits(i, t)' => i = Len(retryQ) + 1 /\ retryQ'[i] = m
      BY <1>4, <3>2, Appended DEF Waits
    <3>4. \A u \in Worker : ~Publishes(u, t)'
      BY <2>2, <2>4, <3>2
    <3>5. OnePlace(t)'
      BY <1>2, <3>2, <3>3, <3>4 DEF OnePlace
    <3>6. OnTime(t)'
      BY <1>2, <1>3, <3>2, <3>3, <3>4 DEF OnTime
    <3> QED
      BY <2>4, <3>5, <3>6
  <2> QED
    BY <2>3, <2>4
<1> QED
  BY <1>6, <1>7, <1>8, <1>9

(* A negative expiration comes from a policy that is not sane. *)
LEMMA RefusedKeeps ==
  ASSUME TimingInv, NEW w \in Worker, wpc[w] = "publish", PublishRefused(w),
         WorkerGoes(w, "ack", wtask[w], 0), UNCHANGED <<now, policy, rowVars>>
  PROVE  TimingInv'
<1> USE DEF TimingInv
<1>1. UNCHANGED <<now, policy, retryCount, nextRetryAt, retryQ>> /\ ended' = ended + 1
      /\ ended \in Nat /\ Requeue /\ channel' = "refused" /\ wtask[w] \in Task
  BY DEF PublishRefused, rowVars, TimingTypeOK
<1>2. /\ wpc' \in [Worker -> WorkerPc] /\ wtask' \in [Worker -> Task \cup {None}]
      /\ wdelay' \in [Worker -> Int]
      /\ \A u \in Worker : wpc'[u] # "idle" => wtask'[u] \in Task
  BY <1>1, WorkerMoved DEF WorkerPc
<1>3. TimingTypeOK'
  <2>1. ended' \in Nat /\ channel' \in {"open", "refused", "lost"}
    BY <1>1
  <2>2. deliveryQ' \in [Task -> Nat]
    BY <1>1, RequeueType
  <2> QED
    BY <1>1, <1>2, <2>1, <2>2 DEF TimingTypeOK
<1>4. ~AllSane
  <2>1. wdelay[w] \in Int /\ wdelay[w] < 0
    BY DEF PublishRefused, TimingTypeOK
  <2> QED
    BY <2>1 DEF SaneWorkers
<1>5. LateInv' /\ SaneWorkers' /\ EarlyInv'
  BY <1>1, <1>4, SameQueueLate, PoliciesStay DEF SaneWorkers, EarlyInv
<1> QED
  BY <1>3, <1>5

(* A worker whose call goes nowhere, or whose message is settled. *)
LEMMA LeavesKeeps ==
  ASSUME TimingInv, NEW w \in Worker, NEW pc \in WorkerPc \ {"publish"},
         NEW t \in Task \cup {None}, WorkerGoes(w, pc, t, 0), pc # "idle" => t \in Task,
         UNCHANGED <<now, policy, deliveryQ, rowVars, channel, ended>>,
         \/ UNCHANGED retryQ
         \/ \E m \in RetryMsg : ~m.ttl /\ retryQ' = Append(retryQ, m)
  PROVE  TimingInv'
<1> USE DEF TimingInv
<1>1. UNCHANGED <<now, policy, retryCount, nextRetryAt, deliveryQ, channel, ended>> /\ now \in Nat
  BY DEF rowVars, TimingTypeOK
<1>2. /\ wpc' \in [Worker -> WorkerPc] /\ wtask' \in [Worker -> Task \cup {None}]
      /\ wdelay' \in [Worker -> Int]
      /\ wpc'[w] # "publish"
      /\ \A u \in Worker \ {w} : wpc'[u] = wpc[u] /\ wtask'[u] = wtask[u] /\ wdelay'[u] = wdelay[u]
      /\ \A u \in Worker : wpc'[u] # "idle" => wtask'[u] \in Task
  <2>1. TimingTypeOK /\ pc \in WorkerPc /\ 0 \in Int /\ pc # "publish"
    BY DEF TimingInv
  <2>2. /\ wpc' \in [Worker -> WorkerPc] /\ wtask' \in [Worker -> Task \cup {None}]
        /\ wdelay' \in [Worker -> Int] /\ wpc'[w] = pc
        /\ \A u \in Worker \ {w} : wpc'[u] = wpc[u] /\ wtask'[u] = wtask[u] /\ wdelay'[u] = wdelay[u]
        /\ \A u \in Worker : wpc'[u] # "idle" => wtask'[u] \in Task
    BY ONLY <2>1, WorkerGoes(w, pc, t, 0), pc # "idle" => t \in Task, WorkerMoved
  <2> QED
    BY ONLY <2>1, <2>2
<1>3. retryQ' \in Seq(RetryMsg)
  BY Appended DEF TimingTypeOK
<1>4. TimingTypeOK'
  BY <1>1, <1>2, <1>3 DEF TimingTypeOK
<1>5. LateInv'
  BY <1>1, SameQueueLate, AppendLate
<1>6. SaneWorkers'
  BY <1>1, <1>2, PoliciesStay DEF SaneWorkers
<1>7. EarlyInv'
  <2> SUFFICES ASSUME ended = 0, NEW o \in Task
               PROVE  channel = "open" /\ OnePlace(o)' /\ OnTime(o)'
    BY <1>1 DEF EarlyInv
  <2>1. channel = "open" /\ OnePlace(o) /\ OnTime(o) /\ now <= now
    BY <1>1 DEF EarlyInv
  <2>2. \A u \in Worker : Publishes(u, o)' => Publishes(u, o) /\ wdelay'[u] = wdelay[u]
    BY <1>2 DEF Publishes
  <2>3. \A i \in DOMAIN retryQ' : Waits(i, o)' =>
          i \in DOMAIN retryQ /\ Waits(i, o) /\ retryQ'[i] = retryQ[i]
    <3>1. CASE UNCHANGED retryQ
      BY <3>1 DEF Waits
    <3>2. CASE \E m \in RetryMsg : ~m.ttl /\ retryQ' = Append(retryQ, m)
      BY <3>2, AppendWaits
    <3> QED
      BY <3>1, <3>2
  <2> QED
    BY <1>1, <2>1, <2>2, <2>3, StaysEarly
<1> QED
  BY <1>4, <1>5, <1>6, <1>7

LEMMA PublishDelayedKeeps ==
  ASSUME TimingInv, NEW w \in Worker, PublishDelayed(w)
  PROVE  TimingInv'
<1>1. wpc[w] = "publish" /\ wtask[w] \in Task /\ UNCHANGED <<now, policy, rowVars>>
  BY DEF PublishDelayed, TimingInv, TimingTypeOK
<1>2. CASE channel = "open" /\ PublishAccepted(w) /\ WorkerGoes(w, "ack", wtask[w], 0)
  BY <1>1, <1>2, AcceptedKeeps
<1>3. CASE PublishRefused(w) /\ WorkerGoes(w, "ack", wtask[w], 0)
  BY <1>1, <1>3, RefusedKeeps
<1>4. ASSUME NEW pc \in {"ack", "nack"}, WorkerGoes(w, pc, wtask[w], 0),
             UNCHANGED <<deliveryQ, retryQ, channel, ended>>
      PROVE  TimingInv'
  <2>1. pc \in WorkerPc \ {"publish"}
    BY DEF WorkerPc
  <2>2. PICK t \in Task : t = wtask[w]
    BY <1>1
  <2> QED
    BY <1>1, <1>4, <2>1, <2>2, LeavesKeeps
<1> QED
  BY <1>2, <1>3, <1>4 DEF PublishDelayed

LEMMA SettleKeeps ==
  ASSUME TimingInv, NEW w \in Worker, Settle(w)
  PROVE  TimingInv'
<1>1. /\ WorkerGoes(w, "idle", None, 0)
      /\ UNCHANGED <<now, policy, deliveryQ, rowVars, channel, ended>>
  BY DEF Settle
<1>2. \/ UNCHANGED retryQ
      \/ \E m \in RetryMsg : ~m.ttl /\ retryQ' = Append(retryQ, m)
  <2>1. PICK t \in Task : t = wtask[w]
    BY DEF Settle, TimingInv, TimingTypeOK
  <2>2. PICK m \in RetryMsg : m = [task |-> t, sent |-> 0, due |-> 0, ttl |-> FALSE]
    <3>1. 0 \in Nat /\ 0 \in Int /\ FALSE \in BOOLEAN
      OBVIOUS
    <3> QED
      BY <3>1 DEF RetryMsg
  <2>3. retryQ' = Append(retryQ, m) \/ UNCHANGED retryQ
    BY <2>1, <2>2 DEF Settle, Parked
  <2> QED
    BY <2>2, <2>3
<1>3. "idle" \in WorkerPc \ {"publish"}
  BY DEF WorkerPc
<1> QED
  BY <1>1, <1>2, <1>3, LeavesKeeps

-----------------------------------------------------------------------------
(* The broker, the clock and the end of channels. *)

(* A message leaves the queue not before it is due. *)
LEMMA ExpireHeadKeeps ==
  ASSUME TimingInv, ExpireHead
  PROVE  TimingInv'
<1> USE DEF TimingInv
<1>1. /\ UNCHANGED <<now, policy, wpc, wtask, wdelay, retryCount, nextRetryAt, channel, ended>>
      /\ retryQ # <<>> /\ Head(retryQ).ttl /\ Head(retryQ).due <= now /\ retryQ' = Tail(retryQ)
      /\ deliveryQ' = [deliveryQ EXCEPT ![Head(retryQ).task] = @ + 1] /\ now \in Nat
  BY DEF ExpireHead, HeadIsDue, workerVars, rowVars, TimingTypeOK
<1>2. PICK t \in Task : /\ t = retryQ[1].task /\ retryQ[1].due \in Int /\ nextRetryAt[t] \in Int
                         /\ retryQ[1].due <= now /\ Waits(1, t) /\ 1 \in DOMAIN retryQ
                         /\ Head(retryQ) = retryQ[1]
  BY <1>1, Behead DEF RetryMsg, Waits, TimingTypeOK
<1>3. /\ deliveryQ' \in [Task -> Nat] /\ deliveryQ'[t] = deliveryQ[t] + 1 /\ deliveryQ[t] \in Nat
      /\ \A o \in Task \ {t} : deliveryQ'[o] = deliveryQ[o]
  BY <1>1, <1>2 DEF TimingTypeOK
<1>4. TimingTypeOK'
  BY <1>1, <1>3, Behead DEF TimingTypeOK
<1>5. LateInv'
  BY <1>1, <1>2, BeheadLate DEF Waits
<1>6. SaneWorkers'
  BY <1>1, PoliciesStay DEF SaneWorkers
<1>7. EarlyInv'
  <2> SUFFICES ASSUME ended = 0, NEW o \in Task
               PROVE  channel = "open" /\ OnePlace(o)' /\ OnTime(o)'
    BY <1>1 DEF EarlyInv
  <2>1. channel = "open" /\ OnePlace(o) /\ OnTime(o)
    BY DEF EarlyInv
  <2>2. \A u \in Worker : Publishes(u, o)' <=> Publishes(u, o)
    BY <1>1 DEF Publishes
  <2>3. \A i \in DOMAIN retryQ' :
          /\ i \in Nat /\ i >= 1 /\ i + 1 \in DOMAIN retryQ
          /\ retryQ'[i] = retryQ[i + 1]
          /\ Waits(i, o)' => Waits(i + 1, o)
    BY <1>1, Behead DEF Waits
  <2>4. CASE o # t
    <3>1. deliveryQ'[o] = deliveryQ[o]
      BY <1>3, <2>4
    <3>2. OnePlace(o)'
      <4>1. ASSUME NEW u \in Worker, Publishes(u, o)'
            PROVE  /\ deliveryQ'[o] = 0
                   /\ \A v \in Worker : Publishes(v, o)' => v = u
                   /\ \A i \in DOMAIN retryQ' : ~Waits(i, o)'
        <5>1. Publishes(u, o)
          BY <2>2, <4>1
        <5>2. /\ deliveryQ[o] = 0 /\ \A v \in Worker : Publishes(v, o) => v = u
              /\ \A i \in DOMAIN retryQ : ~Waits(i, o)
          BY <2>1, <5>1 DEF OnePlace
        <5>3. \A i \in DOMAIN retryQ' : ~Waits(i, o)'
          BY <2>3, <5>2
        <5> QED
          BY <2>2, <3>1, <5>2, <5>3
      <4>2. ASSUME NEW i \in DOMAIN retryQ', Waits(i, o)'
            PROVE  deliveryQ'[o] = 0 /\ \A j \in DOMAIN retryQ' : Waits(j, o)' => j = i
        <5>1. i \in Nat /\ i + 1 \in DOMAIN retryQ /\ Waits(i + 1, o)
          BY <2>3, <4>2
        <5>2. deliveryQ'[o] = 0 /\ \A j \in DOMAIN retryQ : Waits(j, o) => j = i + 1
          BY <2>1, <3>1, <5>1 DEF OnePlace
        <5>3. ASSUME NEW j \in DOMAIN retryQ', Waits(j, o)'
              PROVE  j = i
          <6>1. j \in Nat /\ j + 1 \in DOMAIN retryQ /\ Waits(j + 1, o)
            BY <2>3, <5>3
          <6>2. j + 1 = i + 1
            BY <5>2, <6>1
          <6> QED
            BY <5>1, <6>1, <6>2
        <5> QED
          BY <5>2, <5>3
      <4>3. deliveryQ'[o] <= 1
        BY <2>1, <3>1 DEF OnePlace
      <4> QED
        BY <4>1, <4>2, <4>3 DEF OnePlace
    <3>3. OnTime(o)'
      <4>1. ASSUME NEW i \in DOMAIN retryQ', Waits(i, o)'
            PROVE  nextRetryAt'[o] <= retryQ'[i].due
        BY <1>1, <2>1, <2>3, <4>1 DEF OnTime
      <4>2. \A u \in Worker : Publishes(u, o)' => nextRetryAt'[o] <= now' + wdelay'[u]
        BY <1>1, <2>1, <2>2 DEF OnTime
      <4>3. deliveryQ'[o] > 0 => nextRetryAt'[o] <= now'
        BY <1>1, <2>1, <3>1 DEF OnTime
      <4> QED
        BY <4>1, <4>2, <4>3 DEF OnTime
    <3> QED
      BY <2>1, <3>2, <3>3
  <2>5. CASE o = t
    <3>1. /\ deliveryQ[t] = 0 /\ \A j \in DOMAIN retryQ : Waits(j, t) => j = 1
          /\ \A u \in Worker : ~Publishes(u, t)
      BY <1>2, <2>1, <2>5 DEF OnePlace
    <3>2. \A i \in DOMAIN retryQ' : ~Waits(i, t)'
      <4>1. ASSUME NEW i \in DOMAIN retryQ', Waits(i, t)'
            PROVE  FALSE
        <5>1. i \in Nat /\ i >= 1 /\ i + 1 \in DOMAIN retryQ /\ Waits(i + 1, t)
          BY <2>3, <2>5, <4>1
        <5>2. i + 1 = 1
          BY <3>1, <5>1
        <5> QED
          BY <5>1, <5>2
      <4> QED
        BY <4>1
    <3>3. \A u \in Worker : ~Publishes(u, t)'
      BY <2>2, <2>5, <3>1
    <3>4. deliveryQ'[t] = 1
      BY <1>3, <3>1
    <3>5. nextRetryAt[t] <= now
      <4>1. nextRetryAt[t] <= retryQ[1].due
        BY <1>2, <2>1, <2>5 DEF OnTime
      <4> QED
        BY <1>1, <1>2, <4>1
    <3>6. OnePlace(t)' /\ OnTime(t)'
      BY <1>1, <3>2, <3>3, <3>4, <3>5 DEF OnePlace, OnTime
    <3> QED
      BY <2>1, <2>5, <3>6
  <2> QED
    BY <2>4, <2>5
<1> QED
  BY <1>4, <1>5, <1>6, <1>7

LEMMA TickKeeps ==
  ASSUME TimingInv, Tick
  PROVE  TimingInv'
<1> USE DEF TimingInv
<1>1. /\ UNCHANGED <<policy, deliveryQ, retryQ, wpc, wtask, wdelay>>
      /\ UNCHANGED <<retryCount, nextRetryAt, channel, ended>>
      /\ now' = now + 1 /\ now' \in Nat /\ now <= now'
  BY DEF Tick, workerVars, rowVars, TimingTypeOK
<1>2. TimingTypeOK'
  BY <1>1 DEF TimingTypeOK
<1>3. SaneWorkers'
  BY <1>1, PoliciesStay DEF SaneWorkers
<1>4. EarlyInv'
  <2> SUFFICES ASSUME ended = 0, NEW o \in Task
               PROVE  channel = "open" /\ OnePlace(o)' /\ OnTime(o)'
    BY <1>1 DEF EarlyInv
  <2>1. channel = "open" /\ OnePlace(o) /\ OnTime(o)
    BY DEF EarlyInv
  <2>2. \A u \in Worker : Publishes(u, o)' => Publishes(u, o) /\ wdelay'[u] = wdelay[u]
    BY <1>1 DEF Publishes
  <2>3. \A i \in DOMAIN retryQ' : Waits(i, o)' =>
          i \in DOMAIN retryQ /\ Waits(i, o) /\ retryQ'[i] = retryQ[i]
    BY <1>1 DEF Waits
  <2> QED
    BY <1>1, <2>1, <2>2, <2>3, StaysEarly
<1> QED
  BY <1>2, <1>3, <1>4, TickLate

(* The end of a channel gives messages back at once: nothing is early from then on. *)
LEMMA EndKeeps ==
  ASSUME TimingInv, ConnectionLost \/ Restart
  PROVE  TimingInv'
<1> USE DEF TimingInv
<1>1. /\ UNCHANGED <<now, policy, retryQ, retryCount, nextRetryAt>>
      /\ ended' = ended + 1 /\ ended \in Nat /\ channel' \in {"open", "lost"}
      /\ Requeue \/ UNCHANGED deliveryQ
  BY DEF ConnectionLost, Restart, rowVars, TimingTypeOK
<1>2. /\ wpc' \in [Worker -> WorkerPc] /\ wtask' \in [Worker -> Task \cup {None}]
      /\ wdelay' \in [Worker -> Int]
      /\ \A w \in Worker : \/ wpc'[w] = "idle"
                           \/ wpc'[w] = wpc[w] /\ wtask'[w] = wtask[w] /\ wdelay'[w] = wdelay[w]
  <2>1. CASE ConnectionLost
    BY <2>1 DEF ConnectionLost, workerVars, TimingTypeOK
  <2>2. CASE Restart
    BY <2>2 DEF Restart, WorkerPc
  <2> QED
    BY <2>1, <2>2
<1>3. TimingTypeOK'
  BY <1>1, <1>2, RequeueType DEF TimingTypeOK
<1>4. LateInv' /\ EarlyInv'
  BY <1>1, SameQueueLate DEF EarlyInv
<1>5. SaneWorkers'
  BY <1>1, <1>2, PoliciesStay DEF SaneWorkers
<1> QED
  BY <1>3, <1>4, <1>5

LEMMA TimingInvariance == TimingSpec => []TimingInv
<1>1. ASSUME TimingInv, [TimingNext]_timingVars
      PROVE  TimingInv'
  <2>1. CASE UNCHANGED timingVars
    <3>1. /\ UNCHANGED <<now, policy, deliveryQ, retryQ, wpc, wtask, wdelay>>
          /\ UNCHANGED <<retryCount, nextRetryAt, channel, ended>>
      BY <2>1 DEF timingVars, workerVars, rowVars
    <3>2. TimingTypeOK' /\ EarlyInv'
      BY <1>1, <3>1 DEF TimingInv, TimingTypeOK, EarlyInv, OnePlace, OnTime, Publishes, Waits
    <3>3. LateInv' /\ SaneWorkers'
      BY <1>1, <3>1, SameQueueLate, PoliciesStay DEF TimingInv, SaneWorkers
    <3> QED
      BY <3>2, <3>3 DEF TimingInv
  <2> QED
    BY <1>1, <2>1, AttemptFailsKeeps, AttemptEndsKeeps, PublishDelayedKeeps, SettleKeeps,
       ExpireHeadKeeps, TickKeeps, EndKeeps
       DEF TimingNext
<1> QED
  BY <1>1, TimingInitInv, PTL DEF TimingSpec

(***************************************************************************)
(* With sane policies no retry carries an expiration the broker rejects,   *)
(* for every width of a time.Duration and every policy: the truncations    *)
(* and the wrap-around of calculateBackoff never leave 0..max_delay.       *)
(***************************************************************************)
THEOREM ChannelStaysOpen == TimingSpec => []SaneKeepsChannel
<1>1. TimingInv => SaneKeepsChannel
  BY DEF TimingInv, SaneWorkers, SaneKeepsChannel
<1> QED
  BY <1>1, TimingInvariance, PTL

(***************************************************************************)
(* Until a channel ends, no attempt starts before the next_retry_at that   *)
(* is stored for its task, with any policy, sane or not, any number of     *)
(* workers, and whichever statements and publications fail.                *)
(***************************************************************************)
THEOREM NeverTooEarly == TimingSpec => []NotBeforeNextRetryAt
<1>1. TimingInv => NotBeforeNextRetryAt
  <2> SUFFICES ASSUME TimingInv, ended = 0, NEW t \in Task, deliveryQ[t] > 0
               PROVE  now >= nextRetryAt[t]
    BY DEF NotBeforeNextRetryAt
  <2>1. nextRetryAt[t] <= now /\ now \in Nat /\ nextRetryAt[t] \in Int
    BY DEF TimingInv, EarlyInv, OnTime, TimingTypeOK
  <2> QED
    BY <2>1
<1> QED
  BY <1>1, TimingInvariance, PTL

(***************************************************************************)
(* However many delayed messages of whatever delays wait in the one retry  *)
(* queue, and through crashes and lost connections, head-of-line blocking  *)
(* ends at the longest max_delay of a policy, unless a rejected message    *)
(* stands before them.                                                     *)
(***************************************************************************)
THEOREM BoundedLateness == TimingSpec => []LatenessBounded
<1>1. TimingInv => LatenessBounded
  BY DEF TimingInv, LateInv
<1> QED
  BY <1>1, TimingInvariance, PTL
=============================================================================
