---------------------------- MODULE TokenBucket -----------------------------
(***************************************************************************)
(* resilience.NewTokenBucket, the rate limiter. A limiter is a record of   *)
(* whether there is one, its rate and its burst. Its tokens are counted in *)
(* the time it takes to earn them, so that a fraction of one is a number.  *)
(***************************************************************************)
EXTENDS Integers

CONSTANT Second  \* in units of the clock

ASSUME TokenBucketAssumption == Second \in Nat \ {0}

NewTokenBucket(l, nilOption) ==
  CASE l.rps <= 0 \/ l.burst < 1 -> "ErrInvalidRateLimit"
    [] nilOption -> "ErrNilFunc"
    [] OTHER -> "nil"

Interval(l) == Second \div l.rps

refill(l, earned, elapsed) ==
  LET burst == l.burst * Interval(l)
  IN CASE elapsed <= 0 -> earned
       [] elapsed > 0 /\ earned + elapsed > burst -> burst
       [] OTHER -> earned + elapsed
=============================================================================
