---------------------------- MODULE MCAggregator ----------------------------
(* Small instances of Aggregator for TLC. *)
EXTENDS Aggregator

CONSTANTS h1, h2, reaper, p1, p2, k1

(* One handler in a process of its own, the other beside the reaper. *)
MCOwner(a) == IF a = h1 THEN p1 ELSE p2

Keyed == [m \in Msgs |-> [kind |-> "string", v |-> k1]]

(* One message has a correlation id that is no string, or whose evaluation *)
(* fails.                                                                  *)
Unkeyed(kind) == [Keyed EXCEPT ![CHOOSE m \in Msgs : TRUE] = [kind |-> kind, v |-> NoKey]]

Sized(size, members, timeout) ==
  [strategy |-> "size", size |-> size, members |-> members, header |-> "none",
   correlate |-> "default", ids |-> Keyed, timed |-> timeout]

(* The parts of a message that was split in two. *)
Part(num) == SQL!stampSequence(<<>>, k1, num, 2)

(* The parts of a message, one behind whose release a residual grows, one that is  *)
(* full with the member that completes it, and those with a message that   *)
(* has no group.                                                           *)
MCCase(c) ==
  CASE c = "pair" -> [Sized(2, 2, BOOLEAN) EXCEPT !.strategy = "default",
                                                       !.header = Part(1)["sequence-size"].kind,
                                                       !.ids = [m \in Msgs |-> Part(2)["correlation-id"]]]
    [] c = "residual" -> Sized(1, 2, {TRUE})
    [] c = "full" -> [Sized(1, 1, {TRUE}) EXCEPT !.strategy = "expression", !.header = "int64",
                                                 !.correlate = "expression"]
    [] c = "unkeyed" -> [Sized(1, 1, {TRUE}) EXCEPT !.ids = Unkeyed("int")]
    [] c = "failing" -> [Sized(1, 1, {FALSE}) EXCEPT !.ids = Unkeyed("error"),
                                                     !.correlate = "expression"]
=============================================================================
