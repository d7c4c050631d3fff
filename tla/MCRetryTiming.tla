---------------------------- MODULE MCRetryTiming ----------------------------
(* Small policies, with a time.Duration of 8 bits, for TLC. *)
EXTENDS RetryTiming, TLC

CONSTANTS t1, t2, w1, w2

Policy(attempts, base, max, mult, jitter) ==
  [attempts |-> attempts, base |-> base, max |-> max, mult |-> mult, jitter |-> jitter]

(***************************************************************************)
(* Steep and capped; slow with full jitter; without a cap, so that the     *)
(* first retry overflows; with a jitter above 1.                           *)
(***************************************************************************)
FourPolicies ==
  { Policy(3, 1, 1, 4, 0), Policy(2, 2, 4, 3, 10),
    Policy(2, 40, 0, 4, 0), Policy(2, 2, 4, 4, 15) }

TimingSymmetry == Permutations(Task) \cup Permutations(Worker)
=============================================================================
