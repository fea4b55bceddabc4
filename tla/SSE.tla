-------------------------------- MODULE SSE ---------------------------------
(***************************************************************************)
(* The SSE server with its connections and its replay ring, and one client *)
(* that streams, loses its connection and comes back with Last-Event-ID.   *)
(*                                                                         *)
(* A connection slot is a registered sseConn with the bytes in flight to   *)
(* its peer, as lines. The network may cut a connection at any line. The   *)
(* server learns of it when it writes or when its request context ends, so *)
(* the connection the client left may still be registered.                 *)
(***************************************************************************)
EXTENDS SSEParser, HTTPConfig, FiniteSets, SequencesExt

CONSTANTS
  Slots,       \* connections that exist at a time
  NoSlot,
  MaxEvents,   \* bound: events sent
  MaxConns,    \* WithMaxConnections
  ConnBuffer,  \* WithConnectionBuffer
  ReplaySize,  \* WithReplayBuffer, 0 for off
  MaxWire,     \* bound: lines the network holds before a write blocks
  Invalid,     \* events whose payload, id or name has no encoding
  Retries,     \* retry values a foreign server may name
  MaxFaults    \* bound: cuts, heartbeats, foreign answers

ASSUME SSEAssumption ==
  /\ NoSlot \notin Slots
  /\ ConnBuffer \in Nat \ {0} /\ ReplaySize \in Nat
  /\ MaxWire >= 3

VARIABLES
  policy,    \* WithSlowClientPolicy, never changed
  closed, ring, sent,   \* the server, and how many events it was given
  conn,      \* the connections
  pc, slot, parser, gotEvent, pending,  \* the client: where it is, what it reads
  lastEventID, delay, wait,             \* the client: position and pace
  received,  \* events the client passed on
  faults

server == <<closed, ring, sent>>
client == <<pc, slot, parser, gotEvent, pending, lastEventID, delay, wait, received>>
vars == <<policy, server, conn, client, faults>>

(* resume is the position the connection was opened with, if the ring had  *)
(* it; written what the writer has put on the wire; whole: no event was    *)
(* refused by the buffer.                                                  *)
NoConn == [open |-> FALSE, frames |-> <<>>, replay |-> <<>>, cancelled |-> FALSE,
           wire |-> <<>>, cut |-> FALSE, resume |-> 0, written |-> <<>>, whole |-> TRUE]

Registered == {c \in Slots : conn[c].open}

Options(slowClientPolicy) ==
  [Defaults EXCEPT !.slowClientPolicy = {slowClientPolicy}, !.maxConnections = {MaxConns},
                   !.connectionBuffer = {ConnBuffer}, !.replayBuffer = {ReplaySize} \ {0},
                   !.reconnectBackoff = {[min |-> ReconnectMin, max |-> ReconnectMax]}]

URL == [blank |-> FALSE, parses |-> TRUE, scheme |-> "https", host |-> TRUE]

Fault == faults < MaxFaults /\ faults' = faults + 1

Init ==
  /\ policy \in {"drop", "disconnect", "block"}
  /\ NewSSEServer(Options(policy)) = "nil" /\ NewSSEClient(URL, Options(policy)) = "nil"
  /\ closed = FALSE /\ ring = <<>> /\ sent = 0
  /\ conn = [c \in Slots |-> NoConn]
  /\ pc = "connect" /\ slot = NoSlot
  /\ parser = newSSEParser /\ gotEvent = FALSE /\ pending = 0
  /\ lastEventID = 0 /\ delay = ReconnectMin /\ wait = ReconnectMin
  /\ received = <<>>
  /\ faults = 0

-----------------------------------------------------------------------------
(* The server. *)

appendRing(r, e) == Append(IF Len(r) >= ReplaySize THEN Tail(r) ELSE r, e)

(* The entries behind the last one with that id; none if it is not there. *)
replayAfter(lastID) ==
  LET at == {i \in 1..Len(ring) : ring[i] = lastID}
  IN IF at = {} THEN <<>> ELSE SubSeq(ring, (CHOOSE i \in at : \A j \in at : j <= i) + 1, Len(ring))

Accepts == ~closed /\ Cardinality(Registered) < MaxConns

(* ServeHTTP up to the writer: the snapshot of the ring and the            *)
(* registration are one critical section.                                  *)
Register(lastID) ==
  LET resumes == ReplaySize > 0 /\ lastID # 0
  IN [NoConn EXCEPT !.open = TRUE,
                    !.replay = IF resumes THEN replayAfter(lastID) ELSE <<>>,
                    !.resume = IF resumes /\ lastID \in ToSet(ring) THEN lastID ELSE 0]

(* The offer of a frame to one connection never blocks. *)
Offer(k, e) ==
  IF ~k.open THEN k
  ELSE IF Len(k.frames) < ConnBuffer THEN [k EXCEPT !.frames = Append(@, e)]
  ELSE IF policy = "disconnect" THEN [k EXCEPT !.cancelled = TRUE, !.whole = FALSE]
  ELSE [k EXCEPT !.whole = FALSE]

SSEEventFromMessage(e) == IF e \in Invalid THEN "ErrInvalidEventField" ELSE "nil"

(* Slip: a connection that has not written its replay yet is passed over. *)
SendToLive(e) ==
  /\ ~closed
  /\ sent' = sent + 1
  /\ ring' = IF ReplaySize > 0 /\ IdOf(e) # 0 THEN appendRing(ring, e) ELSE ring
  /\ conn' = [c \in Slots |-> IF conn[c].replay # <<>> THEN conn[c] ELSE Offer(conn[c], e)]
  /\ UNCHANGED <<policy, closed, client, faults>>

(* What has no encoding is refused; anything else goes to all. *)
Send(e) ==
  /\ ~closed
  /\ sent' = sent + 1
  /\ IF SSEEventFromMessage(e) # "nil" THEN UNCHANGED <<ring, conn>>
     ELSE /\ ring' = IF ReplaySize > 0 /\ IdOf(e) # 0 THEN appendRing(ring, e) ELSE ring
          /\ conn' = [c \in Slots |-> Offer(conn[c], e)]
  /\ UNCHANGED <<policy, closed, client, faults>>

(* A frame goes out if the network takes it; the peer may be gone. *)
writeFrame(c, frame) ==
  /\ ~conn[c].cut
  /\ Len(conn[c].wire) + Len(frame) <= MaxWire

Put(c, frame, k) == conn' = [conn EXCEPT ![c] = [k EXCEPT !.wire = @ \o frame]]

(* runWriter: the replay first, then frames and heartbeats as they come. A *)
(* cancelled connection may still write what is in its buffer.             *)
WriteReplay(c) ==
  LET k == conn[c]
      e == Head(k.replay)
  IN /\ k.open /\ k.replay # <<>>
     /\ writeFrame(c, EncodeSSEEvent(e))
     /\ Put(c, EncodeSSEEvent(e), [k EXCEPT !.replay = Tail(@), !.written = Append(@, e)])
     /\ UNCHANGED <<policy, server, client, faults>>

WriteLive(c) ==
  LET k == conn[c]
      e == Head(k.frames)
  IN /\ k.open /\ k.replay = <<>> /\ k.frames # <<>>
     /\ writeFrame(c, EncodeSSEEvent(e))
     /\ Put(c, EncodeSSEEvent(e), [k EXCEPT !.frames = Tail(@), !.written = Append(@, e)])
     /\ UNCHANGED <<policy, server, client, faults>>

Heartbeat(c) ==
  /\ conn[c].open /\ conn[c].replay = <<>>
  /\ writeFrame(c, sseHeartbeat)
  /\ Fault
  /\ Put(c, sseHeartbeat, conn[c])
  /\ UNCHANGED <<policy, server, client>>

(* The slot is cleared once its bytes are read or lost. *)
Ended(k) == [k EXCEPT !.open = FALSE, !.frames = <<>>, !.replay = <<>>, !.cancelled = FALSE,
                      !.resume = 0, !.written = <<>>, !.whole = TRUE]

(* The writer returns, on the cancel or on a write that fails, and the     *)
(* connection is unregistered. Behind the cancel the writer is at its      *)
(* select, so not within the replay.                                       *)
runWriterReturns(c) ==
  LET k == conn[c]
  IN /\ k.open
     /\ \/ k.cancelled /\ k.replay = <<>>
        \/ k.cut
     /\ conn' = [conn EXCEPT ![c] = IF slot = c THEN Ended(k) ELSE NoConn]
     /\ UNCHANGED <<policy, server, client, faults>>

(* A write that blocks runs into the per-write deadline, with part of its  *)
(* frame sent; the frame of a heartbeat is one line.                       *)
WriteTimeout(c) ==
  LET k == conn[c]
      queue == k.replay \o k.frames
      frame == IF queue # <<>> THEN EncodeSSEEvent(Head(queue)) ELSE sseHeartbeat
  IN /\ k.open /\ ~k.cut /\ ~writeFrame(c, frame)
     /\ \E n \in 0..(MaxWire - Len(k.wire)) :
          conn' = [conn EXCEPT ![c] =
                     IF slot = c THEN [Ended(k) EXCEPT !.wire = @ \o SubSeq(frame, 1, n)] ELSE NoConn]
     /\ UNCHANGED <<policy, server, client, faults>>

(* Slip: Close leaves the connections to end by themselves. *)
CloseOnly ==
  /\ ~closed
  /\ closed' = TRUE
  /\ UNCHANGED <<policy, ring, sent, conn, client, faults>>

Close ==
  /\ ~closed
  /\ closed' = TRUE
  /\ conn' = [c \in Slots |-> IF conn[c].open THEN [conn[c] EXCEPT !.cancelled = TRUE] ELSE conn[c]]
  /\ UNCHANGED <<policy, ring, sent, client, faults>>

-----------------------------------------------------------------------------
(* The client. *)

(* The end of a connection attempt: the position it leaves, and the wait.  *)
Reconnect(position, got, retry) ==
  /\ pc' = "wait"
  /\ lastEventID' = position
  /\ wait' = Wait(delay, got, retry)
  /\ delay' = NextDelay(delay, got, retry)
  /\ slot' = NoSlot /\ parser' = newSSEParser /\ gotEvent' = FALSE
  /\ UNCHANGED <<pending, received>>

Terminal ==
  /\ pc' = "done"
  /\ UNCHANGED <<slot, parser, gotEvent, pending, lastEventID, delay, wait, received>>

(* The answers of this server: the stream, or 503. *)
Connect(c) ==
  /\ pc = "connect"
  /\ conn[c] = NoConn
  /\ IF Accepts
     THEN /\ conn' = [conn EXCEPT ![c] = Register(lastEventID)]
          /\ pc' = "read" /\ slot' = c
          /\ UNCHANGED <<parser, gotEvent, pending, lastEventID, delay, wait, received>>
     ELSE Reconnect(lastEventID, FALSE, -1) /\ UNCHANGED conn
  /\ UNCHANGED <<policy, server, faults>>

(* No answer, or that of something between the client and this server. *)
ConnectFails ==
  /\ pc = "connect"
  /\ Fault
  /\ \/ Reconnect(lastEventID, FALSE, -1)
     \/ \E status \in {200, 204, 500} :
          LET triage == classifySSEResponse(status, FALSE)
          IN IF triage = "reconnect" THEN Reconnect(lastEventID, FALSE, -1) ELSE Terminal
  /\ UNCHANGED <<policy, server, conn>>

(* The peer of a connection that is left is gone for the server too. *)
Left(c) == IF conn[c].open THEN [conn[c] EXCEPT !.cut = TRUE, !.wire = <<>>] ELSE NoConn

(* Slip: the position is that of the event before the last one. *)
ReadEndsBehind(p, got) ==
  /\ conn' = [conn EXCEPT ![slot] = Left(slot)]
  /\ Reconnect(IF Len(received) > 1 THEN IdOf(received[Len(received) - 1]) ELSE 0, got, p.retry)

(* readEvents ends with the position of its parser, which starts empty: a  *)
(* connection that brought no id loses the position the client had.        *)
ReadEnds(p, got) ==
  /\ conn' = [conn EXCEPT ![slot] = Left(slot)]
  /\ Reconnect(p.id, got, p.retry)

(* One line: read on, hand an event over, or give up on an error. *)
ReadLine ==
  LET r == ParserNext(parser, Head(conn[slot].wire))
  IN /\ pc = "read" /\ conn[slot].wire # <<>>
     /\ IF r.err THEN ReadEnds(r.p, gotEvent)
        ELSE /\ conn' = [conn EXCEPT ![slot].wire = Tail(@)]
             /\ parser' = r.p
             /\ pending' = r.event
             /\ pc' = IF r.event # 0 THEN "out" ELSE "read"
             /\ UNCHANGED <<slot, gotEvent, lastEventID, delay, wait, received>>
     /\ UNCHANGED <<policy, server, faults>>

(* out <- Delivery: when the consumer takes it. *)
Deliver ==
  /\ pc = "out"
  /\ received' = Append(received, pending)
  /\ gotEvent' = TRUE
  /\ pending' = 0
  /\ pc' = "read"
  /\ UNCHANGED <<policy, server, conn, slot, parser, lastEventID, delay, wait, faults>>

(* Everything that arrived is read and no more will come. *)
ReadEOF ==
  /\ pc = "read"
  /\ conn[slot].wire = <<>>
  /\ conn[slot].cut \/ ~conn[slot].open
  /\ ReadEnds(parser, gotEvent)
  /\ UNCHANGED <<policy, server, faults>>

(* WithReadTimeout: nothing came for too long. *)
ReadTimeout ==
  /\ pc = "read" /\ conn[slot].wire = <<>>
  /\ Fault
  /\ ReadEnds(parser, gotEvent)
  /\ UNCHANGED <<policy, server>>

backoffWait ==
  /\ pc = "wait"
  /\ pc' = "connect"
  /\ UNCHANGED <<policy, server, conn, slot, parser, gotEvent, pending, lastEventID, delay, wait,
                 received, faults>>

(* The context ends. *)
Stop ==
  /\ pc \in {"out", "wait", "read"}
  /\ Fault
  /\ pc' = "done" /\ slot' = NoSlot
  /\ conn' = IF slot = NoSlot THEN conn ELSE [conn EXCEPT ![slot] = Left(slot)]
  /\ UNCHANGED <<policy, server, parser, gotEvent, pending, lastEventID, delay, wait, received>>

-----------------------------------------------------------------------------
(* The network loses the connection behind some line that is in flight. *)
Cut(c) ==
  /\ conn[c].open /\ ~conn[c].cut
  /\ Fault
  /\ \E n \in 0..Len(conn[c].wire) :
       conn' = [conn EXCEPT ![c].cut = TRUE, ![c].wire = SubSeq(@, 1, n)]
  /\ UNCHANGED <<policy, server, client>>

(* A retry field, which this server never writes but another would. *)
ForeignRetry(c) ==
  /\ conn[c].open /\ ~conn[c].cut /\ conn[c].wire = <<>>
  /\ Fault
  /\ \E d \in Retries : conn' = [conn EXCEPT ![c].wire = <<[field |-> "retry", value |-> d]>>]
  /\ UNCHANGED <<policy, server, client>>

Write(c) == WriteReplay(c) \/ WriteLive(c) \/ WriteTimeout(c)
Read == (\E c \in Slots : Connect(c)) \/ ReadLine \/ Deliver \/ ReadEOF \/ backoffWait

Next ==
  \/ sent < MaxEvents /\ Send(sent + 1)
  \/ Close
  \/ \E c \in Slots : Write(c) \/ runWriterReturns(c) \/ Heartbeat(c) \/ Cut(c) \/ ForeignRetry(c)
  \/ Read \/ ConnectFails \/ ReadTimeout \/ Stop

Spec == Init /\ [][Next]_vars

(* The writers run and the deadlines of their writes pass; the client need *)
(* not read.                                                               *)
FairSpec ==
  /\ Spec
  /\ \A c \in Slots : WF_vars(Write(c)) /\ WF_vars(runWriterReturns(c))

-----------------------------------------------------------------------------
(* Events of a sequence that were sent with an id. *)
WithId(s) == SelectSeq(s, LAMBDA e : IdOf(e) # 0 /\ e \notin Invalid)

(* No event reaches the consumer twice over any number of reconnects, and  *)
(* events with an id reach it in order: what a connection replays begins   *)
(* behind the client's position and ends where its live events begin. An   *)
(* event without an id may overtake one that was dropped and replayed.     *)
AtMostOnce ==
  /\ IsInjective(received)
  /\ \A i, j \in 1..Len(WithId(received)) : i < j => WithId(received)[i] < WithId(received)[j]

(* A connection that resumes behind an event the ring still holds gets     *)
(* every later event with an id, in order and once, whether it was sent    *)
(* before or after it registered, as long as its buffer took them all.     *)
ResumeIsGapless ==
  \A c \in Registered : (conn[c].resume # 0 /\ conn[c].whole) =>
    WithId(conn[c].written \o conn[c].replay \o conn[c].frames)
      = WithId([i \in 1..(sent - conn[c].resume) |-> conn[c].resume + i])

(* A closed server gets rid of all its connections, those with a peer that *)
(* does not read included.                                                 *)
CloseEnds == []<>(closed => Registered = {})
=============================================================================
