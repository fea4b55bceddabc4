---------------------------- MODULE HTTPAdapter -----------------------------
(***************************************************************************)
(* What the HTTP adapters make of a status, of a Retry-After header, of an *)
(* error and of a body that may end early. A status is its number; a       *)
(* header is what it parses to; a body is its length.                      *)
(***************************************************************************)
EXTENDS HTTPConfig, Framing

CONSTANTS
  MaxResponseBytes,    \* WithMaxResponseBytes
  MaxRetryAfter        \* maxRetryAfterSeconds

ASSUME HTTPAdapterAssumption == MaxResponseBytes \in Nat \ {0} /\ MaxRetryAfter \in Nat

Nil == [class |-> "nil", retryAfter |-> -1]
Permanent == [class |-> "permanent", retryAfter |-> -1]
Transient == [class |-> "transient", retryAfter |-> -1]
RetryAfter(d) == [class |-> "transient", retryAfter |-> IF d < 0 THEN 0 ELSE d]

permanentEncode == Permanent
redactTransport == Transient

(* The delay the header asks for, or -1 if there is none to follow. *)
parseRetryAfter(header) ==
  CASE header.form = "seconds" ->
         IF header.value \in 0..MaxRetryAfter THEN header.value ELSE -1
    [] header.form = "date" -> IF header.value < 0 THEN 0 ELSE header.value
    [] OTHER -> -1

ClassifyResponse(status, header) ==
  IF status \in 200..299 THEN Nil
  ELSE IF status < 500 /\ status \notin {408, 429} THEN Permanent
  ELSE IF status \in {429, 503} /\ parseRetryAfter(header) >= 0
       THEN RetryAfter(parseRetryAfter(header))
  ELSE Transient

DefaultErrorStatus(err) ==
  CASE err = "ErrReplyTimeout" -> 504
    [] err = "ErrGatewayClosed" -> 503
    [] err = "ErrDuplicateCorrelation" -> 409
    [] err = "MaxBytesError" -> 413
    [] err = "ErrDecodeRequest" -> 400
    [] OTHER -> 500

(* WithErrorStatus, here one that has the same status for every error. *)
errStatus(o, err) == OrDefault(o.errorStatus, DefaultErrorStatus(err))

(* Slip: a body that fills the limit is taken for whole. *)
ReadUnprobed(total, arrived) ==
  IF arrived < total /\ arrived < MaxResponseBytes THEN [err |-> "transient", body |-> 0]
  ELSE [err |-> "nil", body |-> IF arrived < MaxResponseBytes THEN arrived ELSE MaxResponseBytes]

(* A body of which some bytes arrived before the connection ended, read up *)
(* to the limit; at the limit one more byte tells whether it is whole.     *)
ReadReply(total, arrived) ==
  LET cut == arrived < total
  IN CASE arrived > MaxResponseBytes -> [err |-> "ErrReplyTooLarge", body |-> 0]
       [] arrived <= MaxResponseBytes /\ cut -> [err |-> "transient", body |-> 0]
       [] OTHER -> [err |-> "nil", body |-> arrived]

(* Whether there is a body to write for a payload. *)
payloadBytes(payload) == IF payload \in {"bytes", "string"} THEN "nil" ELSE "ErrUnsupportedPayload"

(* The type that the message says it has, or that of any bytes. *)
contentTypeOf(h) ==
  IF "content-type" \in DOMAIN h /\ h["content-type"] # "" THEN h["content-type"] ELSE "octet-stream"

(* The status of a reply, its type and the length of its body. *)
EncodeResponse(payload, h, body) ==
  [err |-> payloadBytes(payload), status |-> 200, type |-> contentTypeOf(h), body |-> body]

(* A panic of the target or of the exchange. *)
recoverHandler == 500

(* What says who a message is, or describes the request it came with. *)
OfRequest == {"message-id", "timestamp", "content-type",
              "http.method", "http.path", "http.query", "http.content-type"}

(* The reply has the other headers of the request, an identity of its own  *)
(* and the type of the response.                                           *)
buildReply(h, type, body) ==
  LET x == New([k \in DOMAIN h \ OfRequest |-> h[k]], "reply", "later")
  IN [headers |-> IF type = "" THEN x ELSE with(x, "http.content-type", type), body |-> body]
=============================================================================
