-------------------------- MODULE MCStreamConsumer --------------------------
(* Small instances of StreamConsumer for TLC. *)
EXTENDS StreamConsumer

Setup(buffer, overflow, limiter) == [buffer |-> buffer, overflow |-> overflow, limiter |-> limiter]

Unlimited == [set |-> FALSE, rps |-> 0, burst |-> 0, panics |-> FALSE]
OnePerSecond == [set |-> TRUE, rps |-> 1, burst |-> 1, panics |-> FALSE]

(* The limiter that panics lets everything pass, like none. *)
MCSetups ==
  {Setup(buffer, "block", Unlimited) : buffer \in {-1, 0, 1}}
    \cup {Setup(1, "shed", Unlimited), Setup(0, "shed", [OnePerSecond EXCEPT !.panics = TRUE]),
          Setup(0, "block", OnePerSecond), Setup(1, "shed", OnePerSecond),
          Setup(0, "block", [OnePerSecond EXCEPT !.rps = 0])}
=============================================================================
