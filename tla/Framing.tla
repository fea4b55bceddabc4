------------------------------ MODULE Framing -------------------------------
(***************************************************************************)
(* How the SQL adapters keep the headers of a message: as JSON, in which a *)
(* number has no Go type and a time is a string. A header is a value with  *)
(* its kind; headers are a function of the header names that are set.      *)
(***************************************************************************)
EXTENDS Integers

(* What fails to encode or to decode. *)
NoHeaders == [k \in {"error"} |-> [kind |-> "error", v |-> 0]]

Numbers == {"int", "int64", "float64"}

with(h, k, v) == [x \in DOMAIN h \cup {k} |-> IF x = k THEN v ELSE h[x]]
without(h, k) == [x \in DOMAIN h \ {k} |-> h[x]]

(* A new message has an id and a time of its own, whatever headers it is   *)
(* given.                                                                  *)
New(h, id, now) == with(with(h, "message-id", id), "timestamp", now)

(* What a splitter stamps on part num of size. A parent with an id gives   *)
(* the part an id of its own and, if it has none, its correlation.         *)
stampSequence(h, pid, num, size) ==
  LET stamped == with(with(h, "sequence-number", [kind |-> "int", v |-> num]),
                      "sequence-size", [kind |-> "int", v |-> size])
      named == with(stamped, "message-id", [kind |-> "string", v |-> <<pid, num>>])
  IN IF pid = "" THEN stamped
     ELSE IF "correlation-id" \in DOMAIN h THEN named
     ELSE with(named, "correlation-id", [kind |-> "string", v |-> pid])

(* json.Marshal, after a time under the timestamp key was formatted. A     *)
(* value that is not data (a channel, a function) has no encoding.         *)
EncodeHeaders(h) ==
  IF \E k \in DOMAIN h : h[k].kind = "opaque" THEN NoHeaders
  ELSE [k \in DOMAIN h |->
          CASE h[k].kind \in Numbers -> [h[k] EXCEPT !.kind = "number"]
            [] h[k].kind = "time" -> [h[k] EXCEPT !.kind = "rfc3339"]
            [] OTHER -> h[k]]

(* json.Unmarshal makes a float64 of every number; what msgin counts with  *)
(* is an int again, and the timestamp a time.                              *)
DecodeHeaders(b) ==
  IF b = NoHeaders THEN NoHeaders
  ELSE [k \in DOMAIN b |->
          CASE b[k].kind = "rfc3339" ->
                 [b[k] EXCEPT !.kind = IF k = "timestamp" THEN "time" ELSE "string"]
            [] b[k].kind = "number" ->
                 [b[k] EXCEPT !.kind = IF k \in {"delivery-count", "sequence-number", "sequence-size"}
                                       THEN "int" ELSE "float64"]
            [] OTHER -> b[k]]
=============================================================================
