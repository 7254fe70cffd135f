------------------------------ MODULE PortRelay ------------------------------
(***************************************************************************)
(* Port forwarding between a TCP stream of the host and one of the guest   *)
(* over one framed connection (agent/port.go).  Each side runs two pumps   *)
(* and a coordinator that reads their events; the streams end separately.  *)
(* Streams are counted in chunks.  The connection may break and either     *)
(* side may be cancelled at any time.                                      *)
(***************************************************************************)
EXTENDS Naturals, Sequences

CONSTANTS Chunks    \* most chunks one local stream carries

Sides == {"host", "guest"}
Peer(s) == IF s = "host" THEN "guest" ELSE "host"

VARIABLES
    total,      \* [Sides -> chunks the local stream of the side will produce]
    read,       \* [Sides -> chunks sendPortData has read]
    wire,       \* [Sides -> frames the side sent that its peer has not decoded]
    got,        \* [Sides -> chunks receivePortData has written to the local stream]
    ended,      \* [Sides -> the receive pump closed the local write half]
    pump,       \* [Sides -> state of the two pumps]
    events,     \* [Sides -> events not read by the coordinator]
    seen,       \* [Sides -> events the coordinator has accepted]
    ret,        \* [Sides -> result of relayPort]
    open        \* [Sides -> the side has not closed the connection]

vars == <<total, read, wire, got, ended, pump, events, seen, ret, open>>

Frames == {"data", "end", "done"}
Event(kind, ok) == [kind |-> kind, ok |-> ok]

TypeOK ==
    /\ total \in [Sides -> 0..Chunks] /\ read \in [Sides -> 0..Chunks] /\ got \in [Sides -> 0..Chunks]
    /\ \A s \in Sides : \A i \in 1..Len(wire[s]) : wire[s][i] \in Frames
    /\ ended \in [Sides -> BOOLEAN] /\ open \in [Sides -> BOOLEAN]
    /\ pump \in [Sides -> [send : {"run", "end"}, receive : {"run", "end"}]]
    /\ \A s \in Sides : Len(events[s]) <= 3 /\ seen[s] \subseteq {"sent_end", "received_end", "received_done"}
    /\ ret \in [Sides -> {"none", "ok", "error"}]

Init ==
    /\ total \in [Sides -> 0..Chunks] /\ read = [s \in Sides |-> 0] /\ got = [s \in Sides |-> 0]
    /\ wire = [s \in Sides |-> <<>>] /\ ended = [s \in Sides |-> FALSE]
    /\ pump = [s \in Sides |-> [send |-> "run", receive |-> "run"]]
    /\ events = [s \in Sides |-> <<>>] /\ seen = [s \in Sides |-> {}]
    /\ ret = [s \in Sides |-> "none"] /\ open = [s \in Sides |-> TRUE]

Raise(s, e) == events' = [events EXCEPT ![s] = Append(@, e)]
\* A frame written to a connection that the peer has closed is lost or refused.
Transmit(s, frame) == wire' = [wire EXCEPT ![s] = IF open[Peer(s)] THEN Append(@, frame) ELSE @]
-----------------------------------------------------------------------------
\* sendPortData

SendData(s) ==
    /\ pump[s].send = "run" /\ open[s] /\ read[s] < total[s]
    /\ read' = [read EXCEPT ![s] = @ + 1]
    /\ Transmit(s, "data")
    /\ UNCHANGED <<total, got, ended, pump, events, seen, ret, open>>

SendEnd(s) ==
    /\ pump[s].send = "run" /\ open[s] /\ read[s] = total[s]
    /\ Transmit(s, "end")
    /\ pump' = [pump EXCEPT ![s].send = "end"] /\ Raise(s, Event("sent_end", TRUE))
    /\ UNCHANGED <<total, read, got, ended, seen, ret, open>>

\* A read or write error, also the one the closed connection causes.
SendFailed(s) ==
    /\ pump[s].send = "run"
    /\ pump' = [pump EXCEPT ![s].send = "end"] /\ Raise(s, Event("sent_end", FALSE))
    /\ UNCHANGED <<total, read, wire, got, ended, seen, ret, open>>
-----------------------------------------------------------------------------
\* receivePortData

Incoming(s) == pump[s].receive = "run" /\ open[s] /\ wire[Peer(s)] # <<>>
Consume(s) == wire' = [wire EXCEPT ![Peer(s)] = Tail(@)]

ReceiveData(s) ==
    /\ Incoming(s) /\ Head(wire[Peer(s)]) = "data" /\ ~ended[s]
    /\ Consume(s) /\ got' = [got EXCEPT ![s] = @ + 1]
    /\ UNCHANGED <<total, read, ended, pump, events, seen, ret, open>>

ReceiveEnd(s) ==
    /\ Incoming(s) /\ Head(wire[Peer(s)]) = "end" /\ ~ended[s]
    /\ Consume(s) /\ ended' = [ended EXCEPT ![s] = TRUE] /\ Raise(s, Event("received_end", TRUE))
    /\ UNCHANGED <<total, read, got, pump, seen, ret, open>>

ReceiveDone(s) ==
    /\ Incoming(s) /\ Head(wire[Peer(s)]) = "done"
    /\ Consume(s)
    /\ pump' = [pump EXCEPT ![s].receive = "end"]
    /\ Raise(s, Event("received_done", s = "host" /\ ended[s]))
    /\ UNCHANGED <<total, read, got, ended, seen, ret, open>>

\* The peer closed after its last frame, the transport broke or a write failed.
ReceiveFailed(s) ==
    /\ pump[s].receive = "run"
    /\ pump' = [pump EXCEPT ![s].receive = "end"] /\ Raise(s, Event("received_done", FALSE))
    /\ UNCHANGED <<total, read, wire, got, ended, seen, ret, open>>
-----------------------------------------------------------------------------
\* relayPort

\* A mutant: the host does not wait until the guest has delivered everything.
FinishedEarly(s, kinds) == {"sent_end", "received_end"} \subseteq kinds

Finished(s, kinds) ==
    /\ {"sent_end", "received_end"} \subseteq kinds
    /\ s = "host" => "received_done" \in kinds

relayPort(s) ==
    /\ ret[s] = "none" /\ events[s] # <<>>
    /\ LET e == Head(events[s])
           kinds == seen[s] \cup {e.kind} IN
        /\ events' = [events EXCEPT ![s] = Tail(@)]
        /\ seen' = [seen EXCEPT ![s] = kinds]
        /\ \/ ret' = [ret EXCEPT ![s] = IF ~e.ok THEN "error" ELSE IF Finished(s, kinds) THEN "ok" ELSE @]
           \/ s = "guest" /\ e.ok /\ Finished(s, kinds) /\ ~open["host"] /\ ret' = [ret EXCEPT ![s] = "error"]
        /\ open' = [open EXCEPT ![s] = e.ok /\ ~Finished(s, kinds)]
        /\ IF e.ok /\ Finished(s, kinds) /\ s = "guest" THEN Transmit(s, "done") ELSE UNCHANGED wire
    /\ UNCHANGED <<total, read, got, ended, pump>>

Cancel(s) ==
    /\ ret[s] = "none"
    /\ ret' = [ret EXCEPT ![s] = "error"] /\ open' = [open EXCEPT ![s] = FALSE]
    /\ UNCHANGED <<total, read, wire, got, ended, pump, events, seen>>

Next ==
    \E s \in Sides :
        \/ SendData(s) \/ SendEnd(s) \/ SendFailed(s)
        \/ ReceiveData(s) \/ ReceiveEnd(s) \/ ReceiveDone(s) \/ ReceiveFailed(s)
        \/ relayPort(s) \/ Cancel(s)

Spec == Init /\ [][Next]_vars
-----------------------------------------------------------------------------
(* Guest sends done only after both halves finish, so a response produced  *)
(* after the request's EOF is never truncated: when the host reports       *)
(* success both streams have been delivered to their last chunk, and when  *)
(* the guest does, the request has been and the response is on its way.    *)
NothingTruncated ==
    /\ ret["host"] = "ok" => \A s \in Sides : ended[s] /\ got[s] = total[Peer(s)]
    /\ ret["guest"] = "ok" => ended["guest"] /\ got["guest"] = total["host"] /\ read["guest"] = total["guest"]
=============================================================================
