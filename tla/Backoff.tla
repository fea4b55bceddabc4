------------------------------ MODULE Backoff -------------------------------
(***************************************************************************)
(* resilience.ExponentialBackoff and the wait the producer makes of it. A  *)
(* delay is the set of what the jitter may draw, in whole units of time;   *)
(* MaxInt stands for math.MaxInt64, which a duration cannot exceed.        *)
(***************************************************************************)
EXTENDS Integers

CONSTANTS
  MaxInt,
  MinRetryDelay,  \* minRetryDelay
  RetryAfterCap   \* WithProducerRetryAfterCap

ASSUME BackoffAssumption ==
  /\ MaxInt \in Nat \ {0}
  /\ MinRetryDelay \in Nat \ {0} /\ RetryAfterCap \in Nat \ {0}

Larger(a, b) == IF a < b THEN b ELSE a
Smaller(a, b) == IF a < b THEN a ELSE b

Capped(b, d) == IF b.max > 0 THEN Smaller(d, b.max) ELSE d

Product(b, attempt) ==
  b.initial * (IF b.mult <= 0 THEN 1 ELSE b.mult) ^ Larger(attempt, 0)

jitter(d, f) == {Smaller(Larger(j, 0), MaxInt) : j \in (d - f * d)..(d + f * d)}

(* Slip: a product that no duration holds is converted all the same, which *)
(* makes it the most negative one.                                         *)
DelayWraps(b, attempt) ==
  LET d == Product(b, attempt)
  IN IF b.initial <= 0 THEN {0}
     ELSE {Capped(b, j) : j \in jitter(Capped(b, IF d >= MaxInt THEN -MaxInt ELSE d), b.factor)}

Delay(b, attempt) ==
  LET d == Product(b, attempt)
  IN IF b.initial <= 0 THEN {0}
     ELSE IF d >= MaxInt THEN {IF b.max > 0 THEN b.max ELSE b.initial}
     ELSE IF b.factor > 0 THEN {Capped(b, j) : j \in jitter(Capped(b, d), b.factor)}
     ELSE {Capped(b, d)}

(* retryAfter is what the server asked for, or -1. *)
Hinted(d, retryAfter) ==
  IF retryAfter < 0 THEN d ELSE Larger(d, Smaller(retryAfter, RetryAfterCap))

(* Slip: the wait has no floor. *)
NoFloor(b, attempt, retryAfter) == {Hinted(d, retryAfter) : d \in Delay(b, attempt - 1)}

nextDelay(b, attempt, retryAfter) ==
  {Larger(Hinted(d, retryAfter), MinRetryDelay) : d \in Delay(b, attempt - 1)}
=============================================================================
