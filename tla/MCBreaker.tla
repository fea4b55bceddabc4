----------------------------- MODULE MCBreaker ------------------------------
(* The default breaker, one without a ProbeGate, and ones that panic. *)
EXTENDS Breaker

MCPlugins ==
  {[probeGate |-> gate, panics |-> {}] : gate \in BOOLEAN}
    \cup {[probeGate |-> TRUE, panics |-> {method}] : method \in Methods}
=============================================================================
