------------------------------ MODULE Pipeline ------------------------------
(***************************************************************************)
(* A chain of steps. A message is what the functions and expressions of    *)
(* the steps make of it; the copies a split makes of it are alike. What    *)
(* the chain does is the sequence of the sends it makes in turn, the first *)
(* error of which ends it.                                                 *)
(***************************************************************************)
EXTENDS Integers, Sequences, SequencesExt

Expr == INSTANCE Expressions

nilPredicate == "failed"

(* A predicate is true, false, failed or nil; the second is asked only if  *)
(* the first leaves it open.                                               *)
And(p, q) ==
  CASE "nil" \in {p, q} -> nilPredicate
    [] p = "true" -> q
    [] OTHER -> p
Or(p, q) ==
  CASE "nil" \in {p, q} -> nilPredicate
    [] p = "false" -> q
    [] OTHER -> p
Not(p) ==
  CASE p = "nil" -> nilPredicate
    [] p = "true" -> "false"
    [] p = "false" -> "true"
    [] OTHER -> p

(* The copies that go on, and the sends made. *)
Entering == [copies |-> 1, sends |-> <<>>]
Each(f, send) == [copies |-> 0, sends |-> [i \in 1..f.copies |-> send]]

(* A step made of a nil function, or no step at all. *)
nilFuncStep(f) == Each(f, "error")

(* A payload of another type fails at a typed step. *)
PayloadOf(m) == m.typed

Transform(f, m) ==
  IF PayloadOf(m) /\ Expr!Transformer(m.transform).kind # "error" THEN f ELSE Each(f, "error")

Activate(f, m) == IF PayloadOf(m) /\ m.service = "nil" THEN f ELSE Each(f, "error")

(* The service has it; nothing goes on. *)
Consume(f, m) == Each(f, IF PayloadOf(m) /\ m.service = "nil" THEN "consumed" ELSE "error")

Filter(f, m, discard) ==
  LET pass == And(Expr!Predicate(m.wanted), Or(m.urgent, Not(m.late)))
  IN CASE ~PayloadOf(m) -> Each(f, "error")
       [] pass = "true" -> f
       [] pass = "false" -> IF discard THEN Each(f, "side") ELSE [f EXCEPT !.copies = 0]
       [] OTHER -> Each(f, "error")

(* Each part goes on in turn. *)
forwardSplit(f, n) == [f EXCEPT !.copies = @ * n]

Split(f, m) ==
  LET n == Expr!SplitFunc(m.parts)
  IN IF PayloadOf(m) /\ n >= 0 THEN forwardSplit(f, n) ELSE Each(f, "error")

NewRouter(o) == [err |-> IF o.nilOption THEN "ErrNilFunc" ELSE "nil", defaultCh |-> o.defaultCh]

(* A topic, the default channel, or an error, of the function or for want  *)
(* of a channel.                                                           *)
Route(f, m, r) ==
  LET ch == Expr!RouteFunc(PayloadOf(m), m.route, {"topic"})
  IN CASE r.err # "nil" \/ ch = "failed" -> Each(f, "error")
       [] ch = "none" -> Each(f, IF r.defaultCh THEN "side" ELSE "error")
       [] OTHER -> Each(f, ch)

To(f, sink) == Each(f, IF sink THEN "side" ELSE "error")

(* What reaches the end of the chain is dropped. *)
Chain(steps, m, o) ==
  FoldLeft(LAMBDA f, step :
             CASE f.copies = 0 -> f
               [] step = "transform" -> Transform(f, m)
               [] step = "activate" -> Activate(f, m)
               [] step = "consume" -> Consume(f, m)
               [] step = "filter" -> Filter(f, m, o.side)
               [] step = "split" -> Split(f, m)
               [] step = "route" -> Route(f, m, NewRouter([nilOption |-> o.nilOption, defaultCh |-> o.side]))
               [] step = "to" -> To(f, o.side)
               [] OTHER -> nilFuncStep(f),
           Entering, steps).sends
=============================================================================
