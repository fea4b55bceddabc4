------------------------------- MODULE MCFlow -------------------------------
(* Small instances of Flow for TLC. *)
EXTENDS Flow

CONSTANTS s1, s2, d1

Exponential == [initial |-> 1, mult |-> 4, max |-> 3, factor |-> 0]
Jittered == [initial |-> 1, mult |-> 2, max |-> 0, factor |-> 1]
Zero == [initial |-> 0, mult |-> 0, max |-> 0, factor |-> 0]

Once == [set |-> FALSE, maxAttempts |-> 0, sink |-> FALSE, nilBackoff |-> TRUE, backoff |-> Zero]
Twice == [set |-> TRUE, maxAttempts |-> 2, sink |-> TRUE, nilBackoff |-> FALSE, backoff |-> Jittered]
Sunk == [Twice EXCEPT !.maxAttempts = 0, !.backoff = Exponential]
Unsunk == [Twice EXCEPT !.maxAttempts = 0, !.sink = FALSE, !.backoff = Zero]

(* Policies without an end, or without a sink for it. *)
Endless == {[Sunk EXCEPT !.nilBackoff = TRUE], [Twice EXCEPT !.sink = FALSE]}

Gives(kind, v) == [static |-> "any", result |-> [kind |-> kind, v |-> v]]
Parts(n) == Gives("slice", [i \in 1..n |-> "payload"])

Plain == [typed |-> TRUE, transform |-> Gives("payload", 0), service |-> "nil",
          wanted |-> Gives("bool", "true"), urgent |-> "true", late |-> "false",
          parts |-> Parts(1), route |-> Gives("string", "topic")]

Steps == <<"transform", "filter", "split", "route">>

(* Only an outbound gateway looks at headers. *)
Bytes == [encodable |-> TRUE, size |-> 1, reads |-> TRUE, headers |-> <<>>]
Fresh == [Bytes EXCEPT !.headers = New(<<>>, "own", "now")]

(* A part of a split that came in over HTTP. *)
Correlated ==
  LET h == [k \in {"correlation-id", "sequence-number", "content-type", "http.method",
                   "http.content-type"} |-> "own"]
  IN [Bytes EXCEPT !.headers = New(h, "own", "now")]

Open == [fanOut |-> "allSucceed", single |-> FALSE, side |-> FALSE, nilOption |-> FALSE,
         brokenPubSub |-> FALSE]

URL == [blank |-> FALSE, parses |-> TRUE, scheme |-> "http", host |-> TRUE]

Args == [out |-> "nil", live |-> FALSE, codecSet |-> TRUE, retryAfterCap |-> {RetryAfterCap},
         retryBudget |-> {RetryBudget}, deadLetterTimeout |-> {}, nilOption |-> FALSE]

Exclusive == [request |-> TRUE, reply |-> TRUE, nilOption |-> FALSE, replyTimeout |-> {},
              allowShared |-> FALSE, exclusive |-> {"yes"}, subscribed |-> "nil"]

HTTP == [Defaults EXCEPT !.maxResponseBytes = {MaxResponseBytes}]

Normal == [mode |-> "send", policy |-> Once, message |-> Plain, outgoing |-> Bytes, setup |-> Open,
           steps |-> Steps, args |-> Args, url |-> URL, http |-> HTTP,
           exchange |-> Exclusive]

(* The chain fails; one of its steps or options is nil. *)
Failing == {[Normal EXCEPT !.message.typed = FALSE],
            [Normal EXCEPT !.message.wanted = Gives("error", "evaluation")],
            [Normal EXCEPT !.message.late = "nil", !.message.urgent = "false"],
            [Normal EXCEPT !.message.parts = Gives("slice", <<"payload", "other">>)],
            [Normal EXCEPT !.outgoing.encodable = FALSE],
            [Normal EXCEPT !.message.route = Gives("int", "topic"), !.message.parts = Parts(2)],
            [Normal EXCEPT !.steps = <<"split", "nil", "route">>],
            [Normal EXCEPT !.setup.nilOption = TRUE],
            [Normal EXCEPT !.outgoing.size = 3, !.http.maxBodyBytes = {2}],
            [Normal EXCEPT !.outgoing.size = 3, !.http.maxBodyBytes = {2}, !.http.errorStatus = {503}],
            [Normal EXCEPT !.setup.brokenPubSub = TRUE]}

(* It fails at once, after a part, or for good. *)
Hopeless == {[Normal EXCEPT !.message.typed = FALSE],
             [Normal EXCEPT !.message.parts = Gives("slice", <<"payload", "other">>)],
             [Normal EXCEPT !.outgoing.size = 3, !.http.maxBodyBytes = {2}]}

(* It leads to the direct channel, or nowhere. *)
Elsewhere == {[Normal EXCEPT !.message.urgent = "false", !.message.late = "true"],
              [Normal EXCEPT !.message.wanted = Gives("int", "true")],
              [Normal EXCEPT !.message.urgent = "false", !.message.route = Gives("string", "other"),
                             !.message.parts = Parts(2)],
              [Normal EXCEPT !.steps = <<"activate", "split", "to">>, !.http.successStatus = {204}],
              [Normal EXCEPT !.steps = <<"transform", "consume", "route">>]}

Refused == {[Normal EXCEPT !.url.host = FALSE], [Normal EXCEPT !.http.maxResponseBytes = {0}],
            [Normal EXCEPT !.http.successStatus = {99}],
            [Normal EXCEPT !.message.wanted.static = "int"],
            [Normal EXCEPT !.args.live = TRUE], [Normal EXCEPT !.args.retryBudget = {0}]}
           \cup {[Normal EXCEPT !.policy = p] : p \in Endless}

Replies == {[Normal EXCEPT !.mode = "step", !.outgoing = Correlated],
            [Normal EXCEPT !.mode = "step", !.outgoing = Fresh, !.http.followRedirects = TRUE],
            [Normal EXCEPT !.mode = "step", !.outgoing = Fresh, !.url.blank = TRUE],
            [Normal EXCEPT !.mode = "gateway"],
            [Normal EXCEPT !.mode = "gateway", !.exchange.exclusive = {"panic"}],
            [Normal EXCEPT !.mode = "gateway", !.exchange.subscribed = "ErrChannelSubscribed"],
            [Normal EXCEPT !.mode = "gateway", !.outgoing.reads = FALSE],
            [Normal EXCEPT !.mode = "gateway", !.url.scheme = "ftp"]}

MCScenarios ==
  {[Normal EXCEPT !.policy = Twice],
   [Normal EXCEPT !.message.parts = Parts(2), !.setup.single = TRUE],
   [Normal EXCEPT !.message.parts = Parts(2), !.setup.fanOut = "bestEffort"]}
  \cup {[c EXCEPT !.policy = Twice] : c \in Failing}
  \cup {[c EXCEPT !.policy = p] : c \in Hopeless, p \in {Once, Sunk, Unsunk}}
  \cup {[c EXCEPT !.setup.side = side] : c \in Elsewhere, side \in BOOLEAN}
  \cup {[c EXCEPT !.policy = Sunk, !.setup.side = TRUE] : c \in Elsewhere}
  \cup Refused \cup Replies

MCHeaders == {[form |-> "", value |-> 0], [form |-> "seconds", value |-> 2],
              [form |-> "seconds", value |-> 99], [form |-> "date", value |-> -1]}
=============================================================================
