----------------------------- MODULE SSEParser ------------------------------
(***************************************************************************)
(* Server-sent events on the wire: the lines of an encoded event, the      *)
(* parser that reads them one at a time, the triage of a response, and the *)
(* pace at which the client reconnects. Event n has the id n, or no id if  *)
(* it is anonymous; 0 is the empty id.                                     *)
(***************************************************************************)
EXTENDS Integers, Sequences

CONSTANTS
  Anon,          \* events without an id
  Big,           \* events whose data is above WithMaxEventBytes
  ReconnectMin,  \* WithReconnectBackoff
  ReconnectMax

ASSUME SSEParserAssumption ==
  /\ ReconnectMin \in Nat \ {0} /\ ReconnectMax \in Nat
  /\ ReconnectMin <= ReconnectMax

IdOf(e) == IF e \in Anon THEN 0 ELSE e

(* id: (if there is one), data:, and the empty line that dispatches. *)
EncodeSSEEvent(e) ==
  (IF IdOf(e) = 0 THEN <<>> ELSE <<[field |-> "id", value |-> e]>>)
  \o <<[field |-> "data", value |-> e], [field |-> "", value |-> 0]>>

sseHeartbeat == <<[field |-> ":", value |-> 0]>>

newSSEParser == [id |-> 0, data |-> 0, retry |-> -1]

(* A retry value that is no number, here a negative one, is ignored. *)
parseRetryMillis(value) == value \in Nat

(* What a line does to the buffers of the parser. An id stays until the    *)
(* next one; comments and unknown fields are ignored.                      *)
processField(p, line) ==
  CASE line.field = "id" -> [p EXCEPT !.id = line.value]
    [] line.field = "data" -> [p EXCEPT !.data = line.value]
    [] line.field = "retry" /\ parseRetryMillis(line.value) -> [p EXCEPT !.retry = line.value]
    [] OTHER -> p

resetEventBuffers(p) == [p EXCEPT !.data = 0]

(* One round of Next: read on, an event (0 if there is none), or an error. *)
ParserNext(p, line) ==
  IF line.field = ""
  THEN [p |-> resetEventBuffers(p), event |-> p.data, err |-> FALSE]
  ELSE LET q == processField(p, line)
           tooLarge == q.data \in Big
       IN [p |-> IF tooLarge THEN resetEventBuffers(q) ELSE q, event |-> 0, err |-> tooLarge]

classifySSEResponse(status, eventStream) ==
  CASE status = 200 -> IF eventStream THEN "stream" ELSE "wrongType"
    [] status = 204 -> "done"
    [] OTHER -> "reconnect"

clampDelay(d) ==
  IF d < ReconnectMin THEN ReconnectMin ELSE IF d > ReconnectMax THEN ReconnectMax ELSE d

doubleDelay(d) == IF 2 * d > ReconnectMax THEN ReconnectMax ELSE 2 * d

(* The wait after a connection, and the delay kept for the round after it. *)
Wait(delay, gotEvent, retry) ==
  IF retry >= 0 THEN clampDelay(retry) ELSE IF gotEvent THEN ReconnectMin ELSE delay

NextDelay(delay, gotEvent, retry) ==
  IF retry >= 0 \/ gotEvent THEN Wait(delay, gotEvent, retry)
  ELSE doubleDelay(Wait(delay, gotEvent, retry))
=============================================================================
