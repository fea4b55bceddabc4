---------------------------- MODULE Expressions -----------------------------
(***************************************************************************)
(* The strategies of package expr: functions for the routing, transform    *)
(* and aggregation steps that are written as expressions. The engine that  *)
(* evaluates them is external: an expression is the type the engine infers *)
(* for it ("any" if it cannot tell) and the value it evaluates to for the  *)
(* message at hand, of kind "error" if the evaluation fails.               *)
(***************************************************************************)
EXTENDS Integers, Sequences

Invalid(why) == [kind |-> "error", v |-> why]

(* What a strategy is refused for when it is made, and what is left to the *)
(* evaluation: a result whose type is not known before.                    *)
compile(e, output) ==
  /\ e.static # "blank"
  /\ output = "any" \/ e.static \in {output, "any"}

(* The kind counts, so a named string type is a string. *)
stringResult(o) ==
  IF o.kind \in {"string", "error"} THEN o ELSE Invalid("ErrPayloadType")

(* A result that is no bool passes for false. *)
Predicate(e) ==
  CASE e.result.kind = "error" -> "failed"
    [] e.result.kind = "bool" -> e.result.v
    [] OTHER -> "false"

(* The channel of the key, none for a key without one. *)
RouteFunc(typed, e, routes) ==
  LET o == IF typed THEN stringResult(e.result) ELSE Invalid("ErrPayloadType")
  IN CASE o.kind = "error" -> "failed"
       [] o.v \in routes -> o.v
       [] OTHER -> "none"

Transformer(e) ==
  IF e.result.kind \in {"payload", "error"} THEN e.result ELSE Invalid("ErrPayloadType")

(* One child for each element, if all are of the type. *)
sliceToChildren(o) ==
  IF o.kind = "slice" /\ \A i \in DOMAIN o.v : o.v[i] = "payload" THEN Len(o.v) ELSE -1

SplitFunc(e) == sliceToChildren(e.result)

(* The key, or why there is none. *)
Correlation(typed, e, emptyKey) ==
  LET o == IF typed THEN stringResult(e.result) ELSE Invalid("ErrPayloadType")
  IN IF o.kind = "string" /\ o.v = emptyKey THEN Invalid("ErrNoCorrelation") ELSE o

-----------------------------------------------------------------------------
(* Release: an expression over a group. *)

compileGroup(e) == e.static \in {"bool", "any"}

firstHeader(headers) == headers[1]

asInt(h) == IF h.kind \in {"int", "int64", "float64"} THEN h.v ELSE 0

(* The members and the size they give, by their sequence-size headers. *)
toGroupEnv(headers) ==
  IF headers = <<>> THEN [messages |-> 0, size |-> 0]
  ELSE [messages |-> Len(headers), size |-> asInt(firstHeader(headers))]

(* The form the package recommends: size > 0 && len(messages) >= size. *)
Release(headers) ==
  LET env == toGroupEnv(headers) IN env.size > 0 /\ env.messages >= env.size
=============================================================================
