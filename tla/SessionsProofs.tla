--------------------------- MODULE SessionsProofs ---------------------------
(***************************************************************************)
(* The streams between host and guest are whole: a forwarded port, a       *)
(* followed log and a foreground command, for any number of chunks, frames *)
(* and boots and every failure of a connection, a caller or a process.     *)
(***************************************************************************)
EXTENDS Sessions, Sequences, TLAPS

USE Zenon    \* unless a leaf names another prover

-----------------------------------------------------------------------------

(* Port forwarding.  A frame that ends a stream stands behind all its data,  *)
(* an event that reports success is true of the stream, and stays true.      *)

RlKinds == {"sent_end", "received_end", "received_done"}

RlTyped ==
    /\ portTotal \in [Relay!Sides -> Nat] /\ portRead \in [Relay!Sides -> Nat]
    /\ portGot \in [Relay!Sides -> Nat]
    /\ portWire \in [Relay!Sides -> Seq(Relay!Frames)]
    /\ portEnded \in [Relay!Sides -> BOOLEAN] /\ portOpen \in [Relay!Sides -> BOOLEAN]
    /\ portPump \in [Relay!Sides -> [send : {"run", "end"}, receive : {"run", "end"}]]
    /\ portEvents \in [Relay!Sides -> Seq([kind : RlKinds, ok : BOOLEAN])]
    /\ portSeen \in [Relay!Sides -> SUBSET RlKinds]
    /\ portRet \in [Relay!Sides -> {"none", "ok", "error"}]

(* What an event that reports success says of the side s.                    *)
RlFact(s, kind) ==
    /\ kind = "sent_end" => portPump[s].send = "end" /\ portRead[s] = portTotal[s]
    /\ kind = "received_end" => portEnded[s]
    /\ kind = "received_done" => portEnded["host"] /\ portEnded["guest"]

(* The stream that s sends.                                                  *)
RlRunning(s) ==
    portPump[s].send = "run" /\ portOpen[Relay!Peer(s)] =>
        /\ \A i \in 1..Len(portWire[s]) : portWire[s][i] = "data"
        /\ portGot[Relay!Peer(s)] + Len(portWire[s]) = portRead[s]
RlEnd(s) ==
    \A i \in 1..Len(portWire[s]) : portWire[s][i] = "end" =>
        /\ portGot[Relay!Peer(s)] + i = portTotal[s] + 1
        /\ \A j \in 1..Len(portWire[s]) : j < i => portWire[s][j] = "data"
RlEnded(s) == portEnded[Relay!Peer(s)] => portGot[Relay!Peer(s)] = portTotal[s]

RlTrue(s) ==
    \A i \in 1..Len(portEvents[s]) : portEvents[s][i].ok => RlFact(s, portEvents[s][i].kind)
RlEvents(s) ==
    /\ portRet[s] = "none" => portOpen[s]
    /\ RlTrue(s)
    /\ portRet[s] # "error" => \A kind \in portSeen[s] : RlFact(s, kind)
    /\ portRet[s] = "ok" => Relay!Finished(s, portSeen[s])

RlDone == \A i \in 1..Len(portWire["guest"]) : portWire["guest"][i] = "done" => portEnded["guest"]

RlInv ==
    /\ RlTyped /\ RlDone
    /\ \A s \in Relay!Sides : RlRunning(s) /\ RlEnd(s) /\ RlEnded(s) /\ RlEvents(s)

(* No step takes back what an event has reported.                            *)
RlProgress ==
    /\ portTotal' = portTotal
    /\ \A s \in Relay!Sides :
        /\ portPump[s].send = "end" => portPump'[s].send = "end" /\ portRead'[s] = portRead[s]
        /\ portEnded[s] => portEnded'[s]

LEMMA RlUnchanged ==
    ASSUME RlInv, UNCHANGED portVars
    PROVE  RlInv'
<1>1. /\ portTotal' = portTotal /\ portRead' = portRead /\ portWire' = portWire /\ portGot' = portGot
      /\ portEnded' = portEnded /\ portPump' = portPump /\ portEvents' = portEvents
      /\ portSeen' = portSeen /\ portRet' = portRet /\ portOpen' = portOpen
  BY DEF portVars
<1>2. RlTyped' /\ RlDone'
  BY <1>1 DEF RlInv, RlTyped, RlDone
<1>3. ASSUME NEW s \in Relay!Sides
      PROVE  RlRunning(s)' /\ RlEnd(s)' /\ RlEnded(s)'
  BY ZenonT(30), <1>1 DEF RlInv, RlRunning, RlEnd, RlEnded
<1>4. ASSUME NEW s \in Relay!Sides
      PROVE  RlEvents(s)'
  <2>1. RlEvents(s)
    BY DEF RlInv
  <2>2. \A kind : RlFact(s, kind)' <=> RlFact(s, kind)
    BY <1>1 DEF RlFact
  <2> QED
    BY <1>1, <2>1, <2>2 DEF RlEvents, RlTrue
<1> QED
  BY <1>2, <1>3, <1>4 DEF RlInv

LEMMA RlSides ==
    ASSUME NEW s \in Relay!Sides
    PROVE  /\ Relay!Peer(s) \in Relay!Sides /\ Relay!Peer(s) # s
           /\ Relay!Peer(Relay!Peer(s)) = s
           /\ \A t \in Relay!Sides : t = s \/ t = Relay!Peer(s)
           /\ "host" \in Relay!Sides /\ "guest" \in Relay!Sides
  BY DEF Relay!Sides, Relay!Peer

LEMMA RlFactStays ==
    ASSUME RlProgress, NEW s \in Relay!Sides, NEW kind, RlFact(s, kind)
    PROVE  RlFact(s, kind)'
  BY RlSides DEF RlProgress, RlFact

(* The stream of s is not touched.                                           *)
LEMMA RlQuiet ==
    ASSUME RlInv, RlProgress, NEW s \in Relay!Sides, portWire'[s] = portWire[s],
           portRead'[s] = portRead[s], portGot'[Relay!Peer(s)] = portGot[Relay!Peer(s)],
           portOpen'[Relay!Peer(s)] => portOpen[Relay!Peer(s)],
           portPump'[s].send = "run" => portPump[s].send = "run",
           portEnded'[Relay!Peer(s)] => portEnded[Relay!Peer(s)]
    PROVE  RlRunning(s)' /\ RlEnd(s)' /\ RlEnded(s)'
<1>1. RlRunning(s) /\ RlEnd(s) /\ RlEnded(s) /\ portTotal' = portTotal
  BY DEF RlInv, RlProgress
<1>2. RlRunning(s)'
  BY <1>1 DEF RlRunning
<1>3. RlEnd(s)'
  BY <1>1 DEF RlEnd
<1>4. RlEnded(s)'
  BY <1>1 DEF RlEnded
<1> QED
  BY <1>2, <1>3, <1>4

LEMMA RlRaises ==
    ASSUME RlTyped, NEW s \in Relay!Sides, NEW p \in Relay!Sides, p # s,
           NEW e \in [kind : RlKinds, ok : BOOLEAN],
           portEvents' = [portEvents EXCEPT ![s] = Append(@, e)]
    PROVE  /\ portEvents' \in [Relay!Sides -> Seq([kind : RlKinds, ok : BOOLEAN])]
           /\ portEvents'[s] = Append(portEvents[s], e) /\ portEvents'[p] = portEvents[p]
<1> DEFINE E == [kind : RlKinds, ok : BOOLEAN]
<1>1. portEvents \in [Relay!Sides -> Seq(E)] /\ e \in E
  BY DEF RlTyped
<1> HIDE DEF E
<1>2. Append(portEvents[s], e) \in Seq(E)
  BY SMTT(30), <1>1
<1> QED
  BY <1>1, <1>2 DEF E

(* The coordinator of s has nothing new, or one event that is true.          *)
LEMMA RlEventsStay ==
    ASSUME RlInv, RlProgress, NEW s \in Relay!Sides, portEvents'[s] = portEvents[s],
           portSeen'[s] = portSeen[s], portRet'[s] = portRet[s], portOpen'[s] = portOpen[s]
    PROVE  RlEvents(s)'
<1>1. RlEvents(s)
  BY DEF RlInv
<1>2. \A kind : RlFact(s, kind) => RlFact(s, kind)'
  BY RlFactStays
<1> QED
  BY <1>1, <1>2 DEF RlEvents, RlTrue, Relay!Finished

LEMMA RlRaised ==
    ASSUME RlInv, RlProgress, NEW s \in Relay!Sides, NEW e \in [kind : RlKinds, ok : BOOLEAN],
           portEvents'[s] = Append(portEvents[s], e), e.ok => RlFact(s, e.kind)',
           portSeen'[s] = portSeen[s], portRet'[s] = portRet[s], portOpen'[s] = portOpen[s]
    PROVE  RlEvents(s)'
<1>1. RlEvents(s) /\ portEvents[s] \in Seq([kind : RlKinds, ok : BOOLEAN])
  BY DEF RlInv, RlTyped
<1>2. \A kind : RlFact(s, kind) => RlFact(s, kind)'
  BY RlFactStays
<1>3. RlTrue(s)'
  <2> SUFFICES ASSUME NEW i \in 1..Len(portEvents'[s]), portEvents'[s][i].ok
               PROVE  RlFact(s, portEvents[s][i].kind)'
    BY DEF RlTrue
  <2>1. CASE i \in 1..Len(portEvents[s])
    <3>1. portEvents'[s][i] = portEvents[s][i]
      BY SMTT(30), <1>1, <2>1
    <3> QED
      BY <1>1, <1>2, <2>1, <3>1 DEF RlEvents, RlTrue
  <2>2. CASE i \notin 1..Len(portEvents[s])
    <3>1. portEvents'[s][i] = e
      BY SMTT(30), <1>1, <2>2
    <3> QED
      BY <3>1
  <2> QED
    BY <2>1, <2>2
<1> QED
  BY <1>1, <1>2, <1>3 DEF RlEvents, Relay!Finished

LEMMA RlSent ==
    ASSUME RlTyped, NEW s \in Relay!Sides, NEW f \in Relay!Frames, Relay!Transmit(s, f)
    PROVE  /\ portWire' \in [Relay!Sides -> Seq(Relay!Frames)]
           /\ portWire'[Relay!Peer(s)] = portWire[Relay!Peer(s)]
           /\ portOpen[Relay!Peer(s)] =>
                /\ Len(portWire'[s]) = Len(portWire[s]) + 1
                /\ portWire'[s][Len(portWire[s]) + 1] = f
                /\ \A i \in 1..Len(portWire[s]) : portWire'[s][i] = portWire[s][i]
           /\ ~portOpen[Relay!Peer(s)] => portWire'[s] = portWire[s]
<1>1. Relay!Peer(s) \in Relay!Sides /\ Relay!Peer(s) # s
  BY RlSides
<1>2. portWire \in [Relay!Sides -> Seq(Relay!Frames)]
  BY DEF RlTyped
<1> HIDE DEF Relay!Sides, Relay!Frames
<1>3. portWire' = [portWire EXCEPT ![s] = IF portOpen[Relay!Peer(s)] THEN Append(@, f) ELSE @]
  BY DEF Relay!Transmit
<1> QED
  BY SMTT(30), <1>1, <1>2, <1>3

LEMMA RlConsumed ==
    ASSUME RlTyped, NEW s \in Relay!Sides, Relay!Incoming(s), Relay!Consume(s)
    PROVE  /\ portWire' \in [Relay!Sides -> Seq(Relay!Frames)]
           /\ portWire'[s] = portWire[s]
           /\ Len(portWire[Relay!Peer(s)]) = Len(portWire'[Relay!Peer(s)]) + 1
           /\ portWire[Relay!Peer(s)][1] = Head(portWire[Relay!Peer(s)])
           /\ \A i \in 1..Len(portWire'[Relay!Peer(s)]) :
                portWire'[Relay!Peer(s)][i] = portWire[Relay!Peer(s)][i + 1]
<1>1. Relay!Peer(s) \in Relay!Sides /\ Relay!Peer(s) # s
  BY RlSides
<1>2. portWire \in [Relay!Sides -> Seq(Relay!Frames)]
  BY DEF RlTyped
<1>3. portWire' = [portWire EXCEPT ![Relay!Peer(s)] = Tail(@)] /\ portWire[Relay!Peer(s)] # <<>>
  BY DEF Relay!Consume, Relay!Incoming
<1> QED
  BY SMTT(30), <1>1, <1>2, <1>3

LEMMA RlOneMore ==
    ASSUME NEW a \in Nat, NEW b \in Nat
    PROVE  a + (b + 1) = (a + b) + 1
  BY SMTT(30)

LEMMA RlShift ==
    ASSUME NEW a \in Nat, NEW b \in Nat
    PROVE  (a + 1) + b = a + (b + 1)
  BY SMTT(30)

LEMMA RlLast ==
    ASSUME NEW v \in Seq(Relay!Frames), NEW w \in Seq(Relay!Frames), Len(w) = Len(v) + 1,
           \A i \in 1..Len(v) : w[i] = v[i], NEW i \in 1..Len(w)
    PROVE  /\ (i \in 1..Len(v) /\ w[i] = v[i]) \/ i = Len(v) + 1
           /\ i < Len(v) + 1 => i \in 1..Len(v)
           /\ Len(v) \in Nat
  BY SMTT(30)

(* A frame other than done leaves what the wire of the guest says of done.   *)
LEMMA RlDoneSent ==
    ASSUME RlInv, NEW s \in Relay!Sides, NEW f \in Relay!Frames, Relay!Transmit(s, f),
           f = "done" => s = "guest" /\ portEnded'["guest"],
           portEnded["guest"] => portEnded'["guest"]
    PROVE  RlDone'
<1> USE DEF RlInv
<1> SUFFICES ASSUME NEW i \in 1..Len(portWire'["guest"]), portWire'["guest"][i] = "done"
             PROVE  portEnded'["guest"]
  BY DEF RlDone
<1>1. CASE s = "guest" /\ portOpen[Relay!Peer(s)]
  <2>1. /\ Len(portWire'[s]) = Len(portWire[s]) + 1
        /\ portWire'[s][Len(portWire[s]) + 1] = f
        /\ \A j \in 1..Len(portWire[s]) : portWire'[s][j] = portWire[s][j]
        /\ portWire[s] \in Seq(Relay!Frames)
    BY ZenonT(30), <1>1, RlSent DEF RlTyped
  <2>2. i \in 1..Len(portWire[s]) \/ i = Len(portWire[s]) + 1
    BY SMTT(30), <1>1, <2>1
  <2> QED
    BY <1>1, <2>1, <2>2 DEF RlDone
<1>2. CASE ~(s = "guest" /\ portOpen[Relay!Peer(s)])
  <2>1. portWire'["guest"] = portWire["guest"]
    <3>1. portWire'[Relay!Peer(s)] = portWire[Relay!Peer(s)]
      BY RlSent
    <3>2. ~portOpen[Relay!Peer(s)] => portWire'[s] = portWire[s]
      BY RlSent
    <3>3. "guest" = s \/ "guest" = Relay!Peer(s)
      BY RlSides
    <3> QED
      BY <1>2, <3>1, <3>2, <3>3
  <2> QED
    BY <2>1 DEF RlDone
<1> QED
  BY <1>1, <1>2

LEMMA RlDoneConsumed ==
    ASSUME RlInv, NEW s \in Relay!Sides, Relay!Incoming(s), Relay!Consume(s),
           portEnded["guest"] => portEnded'["guest"]
    PROVE  RlDone'
<1> USE DEF RlInv
<1> SUFFICES ASSUME NEW i \in 1..Len(portWire'["guest"]), portWire'["guest"][i] = "done"
             PROVE  portEnded'["guest"]
  BY DEF RlDone
<1>1. \E j \in 1..Len(portWire["guest"]) : portWire["guest"][j] = "done"
  <2>1. CASE s = "guest"
    BY <2>1, RlConsumed
  <2>2. CASE Relay!Peer(s) = "guest"
    <3> DEFINE p == Relay!Peer(s)
    <3>0. /\ portWire' \in [Relay!Sides -> Seq(Relay!Frames)] /\ p \in Relay!Sides
          /\ Len(portWire[p]) = Len(portWire'[p]) + 1
          /\ \A j \in 1..Len(portWire'[p]) : portWire'[p][j] = portWire[p][j + 1]
      BY RlConsumed, RlSides
    <3> HIDE DEF p
    <3>1. /\ Len(portWire["guest"]) = Len(portWire'["guest"]) + 1
          /\ portWire'["guest"][i] = portWire["guest"][i + 1]
          /\ portWire'["guest"] \in Seq(Relay!Frames)
      BY <2>2, <3>0 DEF p
    <3>2. i + 1 \in 1..Len(portWire["guest"])
      BY SMTT(30), <3>1
    <3> QED
      BY <3>1, <3>2
  <2> QED
    BY <2>1, <2>2, RlSides
<1> QED
  BY <1>1 DEF RlDone

LEMMA RlBoth ==
    ASSUME NEW s \in Relay!Sides, RlTyped', RlDone',
           RlRunning(s)' /\ RlEnd(s)' /\ RlEnded(s)', RlEvents(s)', RlEvents(Relay!Peer(s))',
           RlRunning(Relay!Peer(s))' /\ RlEnd(Relay!Peer(s))' /\ RlEnded(Relay!Peer(s))'
    PROVE  RlInv'
<1> SUFFICES ASSUME NEW t \in Relay!Sides
             PROVE  RlRunning(t)' /\ RlEnd(t)' /\ RlEnded(t)' /\ RlEvents(t)'
  BY DEF RlInv
<1>1. t = s \/ t = Relay!Peer(s)
  BY RlSides
<1> QED
  BY <1>1

LEMMA RlSendData ==
    ASSUME RlInv, NEW s \in Relay!Sides, Relay!SendData(s)
    PROVE  RlInv'
<1> DEFINE p == Relay!Peer(s)
<1>p. p \in Relay!Sides /\ p # s /\ Relay!Peer(p) = s
  BY RlSides
<1> HIDE DEF p
<1>1. /\ RlTyped /\ portPump[s].send = "run" /\ Relay!Transmit(s, "data") /\ "data" \in Relay!Frames
      /\ portRead' = [portRead EXCEPT ![s] = @ + 1]
      /\ UNCHANGED <<portTotal, portGot, portEnded, portPump, portEvents, portSeen, portRet, portOpen>>
      /\ RlRunning(s) /\ RlEnd(s) /\ RlEnded(s)
  BY DEF RlInv, Relay!SendData, Relay!Frames
<1>2. /\ portWire' \in [Relay!Sides -> Seq(Relay!Frames)] /\ portWire'[p] = portWire[p]
      /\ portOpen[p] =>
           /\ Len(portWire'[s]) = Len(portWire[s]) + 1
           /\ portWire'[s][Len(portWire[s]) + 1] = "data"
           /\ \A i \in 1..Len(portWire[s]) : portWire'[s][i] = portWire[s][i]
      /\ ~portOpen[p] => portWire'[s] = portWire[s]
      /\ portWire[s] \in Seq(Relay!Frames)
  BY <1>1, RlSent DEF RlTyped, p
<1>3. /\ portRead' \in [Relay!Sides -> Nat] /\ portRead'[s] = portRead[s] + 1
      /\ portRead'[p] = portRead[p] /\ portRead[s] \in Nat /\ portGot[p] \in Nat
  BY SMTT(30), <1>1, <1>p DEF RlTyped
<1>4. RlTyped'
  BY <1>1, <1>2, <1>3 DEF RlTyped
<1>5. RlProgress
  <2>1. \A t \in Relay!Sides : t # s => portRead'[t] = portRead[t]
    BY <1>3, RlSides DEF p
  <2>2. portPump[s].send # "end"
    BY <1>1
  <2> QED
    BY <1>1, <2>1, <2>2 DEF RlProgress
<1>6. portOpen[p] => /\ \A i \in 1..Len(portWire'[s]) : portWire'[s][i] = "data"
                     /\ portGot[p] + Len(portWire'[s]) = portRead'[s]
  <2> SUFFICES ASSUME portOpen[p]
               PROVE  /\ \A i \in 1..Len(portWire'[s]) : portWire'[s][i] = "data"
                      /\ portGot[p] + Len(portWire'[s]) = portRead'[s]
    OBVIOUS
  <2>1. /\ \A i \in 1..Len(portWire[s]) : portWire[s][i] = "data"
        /\ portGot[p] + Len(portWire[s]) = portRead[s]
    BY <1>1 DEF RlRunning, p
  <2>2. Len(portWire[s]) \in Nat
    BY SMTT(30), <1>2
  <2>3. portGot[p] + Len(portWire'[s]) = portRead'[s]
    <3>1. Len(portWire'[s]) = Len(portWire[s]) + 1
      BY <1>2
    <3>2. portGot[p] + (Len(portWire[s]) + 1) = (portGot[p] + Len(portWire[s])) + 1
      BY <1>3, <2>2, RlOneMore
    <3>3. (portGot[p] + Len(portWire[s])) + 1 = portRead'[s]
      BY <1>3, <2>1
    <3> QED
      BY <3>1, <3>2, <3>3
  <2>4. portWire'[s] \in Seq(Relay!Frames)
    BY <1>2
  <2> QED
    BY <1>2, <2>1, <2>3, <2>4, RlLast
<1>7. RlRunning(s)'
  BY <1>1, <1>6 DEF RlRunning, p
<1>8. RlEnd(s)'
  <2>1. CASE portOpen[p]
    BY <2>1, <1>6 DEF RlEnd
  <2>2. CASE ~portOpen[p]
    BY <2>2, <1>1, <1>2 DEF RlEnd
  <2> QED
    BY <2>1, <2>2
<1>9. RlEnded(s)'
  BY <1>1 DEF RlEnded
<1>10. RlRunning(p)' /\ RlEnd(p)' /\ RlEnded(p)'
  BY <1>p, <1>1, <1>2, <1>3, <1>5, RlQuiet
<1>11. RlEvents(s)' /\ RlEvents(p)'
  BY <1>p, <1>1, <1>5, RlEventsStay
<1>12. RlDone'
  BY <1>1, RlDoneSent
<1> QED
  BY <1>4, <1>7, <1>8, <1>9, <1>10, <1>11, <1>12, RlBoth DEF p

LEMMA RlSendEnd ==
    ASSUME RlInv, NEW s \in Relay!Sides, Relay!SendEnd(s)
    PROVE  RlInv'
<1> DEFINE p == Relay!Peer(s)
<1> DEFINE e == Relay!Event("sent_end", TRUE)
<1>p. p \in Relay!Sides /\ p # s /\ Relay!Peer(p) = s
  BY RlSides
<1>e. e \in [kind : RlKinds, ok : BOOLEAN] /\ e.ok = TRUE /\ e.kind = "sent_end"
  BY DEF Relay!Event, RlKinds
<1> HIDE DEF p, e
<1>1. /\ RlTyped /\ portPump[s].send = "run" /\ Relay!Transmit(s, "end") /\ "end" \in Relay!Frames
      /\ portRead[s] = portTotal[s]
      /\ portPump' = [portPump EXCEPT ![s].send = "end"]
      /\ portEvents' = [portEvents EXCEPT ![s] = Append(@, e)]
      /\ UNCHANGED <<portTotal, portRead, portGot, portEnded, portSeen, portRet, portOpen>>
      /\ RlRunning(s) /\ RlEnd(s) /\ RlEnded(s)
  BY DEF RlInv, Relay!SendEnd, Relay!Frames, Relay!Raise, e
<1>2. /\ portWire' \in [Relay!Sides -> Seq(Relay!Frames)] /\ portWire'[p] = portWire[p]
      /\ portOpen[p] =>
           /\ Len(portWire'[s]) = Len(portWire[s]) + 1
           /\ portWire'[s][Len(portWire[s]) + 1] = "end"
           /\ \A i \in 1..Len(portWire[s]) : portWire'[s][i] = portWire[s][i]
      /\ ~portOpen[p] => portWire'[s] = portWire[s]
      /\ portWire[s] \in Seq(Relay!Frames) /\ portRead[s] \in Nat /\ portGot[p] \in Nat
  BY <1>p, <1>1, RlSent DEF RlTyped, p
<1>3. /\ portPump' \in [Relay!Sides -> [send : {"run", "end"}, receive : {"run", "end"}]]
      /\ portPump'[s].send = "end" /\ portPump'[p] = portPump[p]
      /\ portEvents' \in [Relay!Sides -> Seq([kind : RlKinds, ok : BOOLEAN])]
      /\ portEvents'[s] = Append(portEvents[s], e) /\ portEvents'[p] = portEvents[p]
  <2>1. /\ portPump \in [Relay!Sides -> [send : {"run", "end"}, receive : {"run", "end"}]]
        /\ portPump' = [portPump EXCEPT ![s].send = "end"]
    BY <1>1 DEF RlTyped
  <2>2. /\ portPump' \in [Relay!Sides -> [send : {"run", "end"}, receive : {"run", "end"}]]
        /\ portPump'[s].send = "end" /\ portPump'[p] = portPump[p]
    BY ONLY <2>1, <1>p, s \in Relay!Sides
  <2>3. /\ portEvents' \in [Relay!Sides -> Seq([kind : RlKinds, ok : BOOLEAN])]
        /\ portEvents'[s] = Append(portEvents[s], e) /\ portEvents'[p] = portEvents[p]
    BY <1>1, <1>p, <1>e, RlRaises
  <2> QED
    BY <2>2, <2>3
<1>4. RlTyped'
  BY <1>1, <1>2, <1>3 DEF RlTyped
<1>5. RlProgress
  <2>1. \A t \in Relay!Sides : t = s \/ t = p
    BY RlSides DEF p
  <2> QED
    BY <1>1, <1>3, <2>1 DEF RlProgress
<1>6. RlRunning(s)'
  BY <1>3 DEF RlRunning
<1>7. RlEnd(s)'
  <2>1. CASE portOpen[p]
    <3>1. /\ \A i \in 1..Len(portWire[s]) : portWire[s][i] = "data"
          /\ portGot[p] + Len(portWire[s]) = portRead[s]
      BY <1>1, <2>1 DEF RlRunning, p
    <3>2. /\ \A i \in 1..Len(portWire'[s]) : portWire'[s][i] = "end" => i = Len(portWire[s]) + 1
          /\ \A i \in 1..Len(portWire'[s]) : i < Len(portWire[s]) + 1 => portWire'[s][i] = "data"
          /\ portGot[p] + (Len(portWire[s]) + 1) = portTotal[s] + 1
      <4>1. portWire'[s] \in Seq(Relay!Frames) /\ "data" # "end"
        BY <1>2
      <4>2. Len(portWire[s]) \in Nat
        BY SMTT(30), <1>2
      <4>3. portGot[p] + (Len(portWire[s]) + 1) = portTotal[s] + 1
        BY ONLY SMTT(30), <1>1, <1>2, <3>1, <4>2
      <4> QED
        BY ZenonT(30), <1>2, <2>1, <3>1, <4>1, <4>3, RlLast
    <3> QED
      BY <1>1, <3>2 DEF RlEnd, p
  <2>2. CASE ~portOpen[p]
    BY <2>2, <1>1, <1>2 DEF RlEnd
  <2> QED
    BY <2>1, <2>2
<1>8. RlEnded(s)'
  BY <1>1 DEF RlEnded
<1>9. RlRunning(p)' /\ RlEnd(p)' /\ RlEnded(p)'
  BY <1>p, <1>1, <1>2, <1>3, <1>5, RlQuiet
<1>10. RlEvents(s)'
  <2>1. RlFact(s, e.kind)'
    BY <1>e, <1>1, <1>3 DEF RlFact
  <2> QED
    BY <1>e, <1>1, <1>3, <1>5, <2>1, RlRaised
<1>11. RlEvents(p)'
  BY <1>p, <1>1, <1>3, <1>5, RlEventsStay
<1>12. RlDone'
  BY <1>1, RlDoneSent
<1> QED
  BY <1>4, <1>6, <1>7, <1>8, <1>9, <1>10, <1>11, <1>12, RlBoth DEF p

(* A pump that ends raises one event.                                        *)
LEMMA RlPumpEnds ==
    ASSUME RlInv, NEW s \in Relay!Sides, NEW e \in [kind : RlKinds, ok : BOOLEAN],
           Relay!Raise(s, e), e.ok => RlFact(s, e.kind)',
           \/ portPump' = [portPump EXCEPT ![s].send = "end"]
           \/ portPump' = [portPump EXCEPT ![s].receive = "end"],
           UNCHANGED <<portTotal, portRead, portGot, portEnded, portSeen, portRet, portOpen>>,
           portWire' \in [Relay!Sides -> Seq(Relay!Frames)]
    PROVE  /\ RlTyped' /\ RlProgress
           /\ RlEvents(s)' /\ RlEvents(Relay!Peer(s))'
           /\ \A t \in Relay!Sides : portPump'[t].send = "run" => portPump[t].send = "run"
<1> DEFINE p == Relay!Peer(s)
<1>p. p \in Relay!Sides /\ p # s /\ \A t \in Relay!Sides : t = s \/ t = p
  BY RlSides
<1> HIDE DEF p
<1>1. RlTyped
  BY DEF RlInv
<1>2. /\ portPump' \in [Relay!Sides -> [send : {"run", "end"}, receive : {"run", "end"}]]
      /\ portPump'[p] = portPump[p] /\ portPump'[s].send \in {portPump[s].send, "end"}
  <2>1. portPump \in [Relay!Sides -> [send : {"run", "end"}, receive : {"run", "end"}]]
    BY <1>1 DEF RlTyped
  <2>2. CASE portPump' = [portPump EXCEPT ![s].send = "end"]
    BY ONLY SMTT(30), <2>1, <2>2, <1>p, s \in Relay!Sides
  <2>3. CASE portPump' = [portPump EXCEPT ![s].receive = "end"]
    BY ONLY <2>1, <2>3, <1>p, s \in Relay!Sides
  <2> QED
    BY <2>2, <2>3
<1>3. /\ portEvents' \in [Relay!Sides -> Seq([kind : RlKinds, ok : BOOLEAN])]
      /\ portEvents'[s] = Append(portEvents[s], e) /\ portEvents'[p] = portEvents[p]
  <2>1. portEvents' = [portEvents EXCEPT ![s] = Append(@, e)]
    BY DEF Relay!Raise
  <2> QED
    BY <1>1, <1>p, <2>1, RlRaises
<1>4. RlTyped'
  BY <1>1, <1>2, <1>3 DEF RlTyped
<1>5. \A t \in Relay!Sides : portPump'[t].send \in {portPump[t].send, "end"}
  BY <1>p, <1>2
<1>6. RlProgress
  BY <1>5 DEF RlProgress
<1>7. RlEvents(s)'
  BY <1>3, <1>6, RlRaised
<1>8. RlEvents(p)'
  BY <1>p, <1>3, <1>6, RlEventsStay
<1>9. \A t \in Relay!Sides : portPump'[t].send = "run" => portPump[t].send = "run"
  <2>1. "run" # "end"
    OBVIOUS
  <2> QED
    BY <1>5, <2>1
<1> QED
  BY <1>4, <1>6, <1>7, <1>8, <1>9 DEF p

LEMMA RlFailed ==
    ASSUME RlInv, NEW s \in Relay!Sides, Relay!SendFailed(s) \/ Relay!ReceiveFailed(s)
    PROVE  RlInv'
<1> DEFINE p == Relay!Peer(s)
<1>p. p \in Relay!Sides /\ Relay!Peer(p) = s
  BY RlSides
<1>1. \E e \in [kind : RlKinds, ok : BOOLEAN] :
        /\ e.ok = FALSE /\ Relay!Raise(s, e)
        /\ \/ portPump' = [portPump EXCEPT ![s].send = "end"]
           \/ portPump' = [portPump EXCEPT ![s].receive = "end"]
  <2>1. /\ Relay!Event("sent_end", FALSE) \in [kind : RlKinds, ok : BOOLEAN]
        /\ Relay!Event("sent_end", FALSE).ok = FALSE
        /\ Relay!Event("received_done", FALSE) \in [kind : RlKinds, ok : BOOLEAN]
        /\ Relay!Event("received_done", FALSE).ok = FALSE
    BY DEF Relay!Event, RlKinds
  <2> QED
    BY <2>1 DEF Relay!SendFailed, Relay!ReceiveFailed
<1>2. /\ UNCHANGED <<portTotal, portRead, portGot, portEnded, portSeen, portRet, portOpen>>
      /\ portWire' = portWire /\ portWire \in [Relay!Sides -> Seq(Relay!Frames)] /\ RlDone
  BY DEF Relay!SendFailed, Relay!ReceiveFailed, RlInv, RlTyped
<1>3. PICK e \in [kind : RlKinds, ok : BOOLEAN] :
        /\ e.ok = FALSE /\ Relay!Raise(s, e)
        /\ \/ portPump' = [portPump EXCEPT ![s].send = "end"]
           \/ portPump' = [portPump EXCEPT ![s].receive = "end"]
  BY <1>1
<1>4. /\ RlTyped' /\ RlProgress /\ RlEvents(s)' /\ RlEvents(p)'
      /\ \A t \in Relay!Sides : portPump'[t].send = "run" => portPump[t].send = "run"
  <2>1. /\ portWire' \in [Relay!Sides -> Seq(Relay!Frames)]
        /\ e.ok => RlFact(s, e.kind)'
    BY <1>2, <1>3
  <2> QED
    BY <1>2, <1>3, <2>1, RlPumpEnds
<1>5. \A t \in Relay!Sides : RlRunning(t)' /\ RlEnd(t)' /\ RlEnded(t)'
  BY <1>2, <1>4, RlQuiet
<1>6. RlDone'
  BY <1>2 DEF RlDone
<1> QED
  BY <1>p, <1>4, <1>5, <1>6, RlBoth

(* A frame that carries no data is the last of its kind.                     *)
LEMMA RlTaken ==
    ASSUME RlInv, NEW s \in Relay!Sides, Relay!Incoming(s), Relay!Consume(s),
           Head(portWire[Relay!Peer(s)]) # "data",
           portPump'[Relay!Peer(s)].send = "run" => portPump[Relay!Peer(s)].send = "run"
    PROVE  RlRunning(Relay!Peer(s))' /\ RlEnd(Relay!Peer(s))'
<1> DEFINE p == Relay!Peer(s)
<1>p. p \in Relay!Sides /\ Relay!Peer(p) = s
  BY RlSides
<1>1. /\ RlTyped /\ RlRunning(p) /\ RlEnd(p) /\ portOpen[s] /\ portWire[p] \in Seq(Relay!Frames)
  BY <1>p DEF RlInv, RlTyped, Relay!Incoming
<1>2. /\ portWire' \in [Relay!Sides -> Seq(Relay!Frames)]
      /\ Len(portWire[p]) = Len(portWire'[p]) + 1
      /\ portWire[p][1] = Head(portWire[p])
      /\ \A i \in 1..Len(portWire'[p]) : portWire'[p][i] = portWire[p][i + 1]
  BY <1>1, RlConsumed
<1> HIDE DEF p
<1>3. /\ 1 \in 1..Len(portWire[p]) /\ portWire[p][1] # "data"
      /\ \A i \in 1..Len(portWire'[p]) : i + 1 \in 1..Len(portWire[p]) /\ 1 < i + 1
  <2>1. portWire'[p] \in Seq(Relay!Frames)
    BY <1>p, <1>2
  <2>2. portWire[p][1] # "data"
    BY <1>2 DEF p
  <2> QED
    BY SMTT(30), <1>1, <1>2, <2>1, <2>2
<1>4. ~(portPump[p].send = "run")
  BY <1>p, <1>1, <1>3 DEF RlRunning
<1>5. RlRunning(p)'
  BY <1>4 DEF RlRunning, p
<1>6. \A i \in 1..Len(portWire'[p]) : portWire'[p][i] # "end"
  BY <1>1, <1>2, <1>3 DEF RlEnd
<1>7. RlEnd(p)'
  BY <1>6 DEF RlEnd
<1> QED
  BY <1>5, <1>7 DEF p

LEMMA RlReceiveData ==
    ASSUME RlInv, NEW s \in Relay!Sides, Relay!ReceiveData(s)
    PROVE  RlInv'
<1> DEFINE p == Relay!Peer(s)
<1>p. p \in Relay!Sides /\ p # s /\ Relay!Peer(p) = s
  BY RlSides
<1>1. /\ RlTyped /\ RlDone /\ Relay!Incoming(s) /\ Relay!Consume(s) /\ portEnded[s] # TRUE
      /\ Head(portWire[p]) = "data" /\ portGot' = [portGot EXCEPT ![s] = @ + 1]
      /\ UNCHANGED <<portTotal, portRead, portEnded, portPump, portEvents, portSeen, portRet, portOpen>>
      /\ portOpen[s] /\ RlRunning(p) /\ RlEnd(p)
  BY <1>p DEF RlInv, Relay!ReceiveData, Relay!Incoming
<1>2. /\ portWire' \in [Relay!Sides -> Seq(Relay!Frames)] /\ portWire'[s] = portWire[s]
      /\ Len(portWire[p]) = Len(portWire'[p]) + 1
      /\ \A i \in 1..Len(portWire'[p]) : portWire'[p][i] = portWire[p][i + 1]
      /\ portWire[p] \in Seq(Relay!Frames)
  BY <1>p, <1>1, RlConsumed DEF RlTyped
<1> HIDE DEF p
<1>3. /\ portGot' \in [Relay!Sides -> Nat] /\ portGot'[s] = portGot[s] + 1
      /\ portGot'[p] = portGot[p] /\ portGot[s] \in Nat /\ portTotal[p] \in Nat
  BY SMTT(30), <1>1, <1>p DEF RlTyped
<1>4. RlTyped' /\ RlProgress
  BY <1>1, <1>2, <1>3 DEF RlTyped, RlProgress
<1>5. /\ Len(portWire'[p]) \in Nat
      /\ \A i \in 1..Len(portWire'[p]) : i \in Nat /\ i + 1 \in 1..Len(portWire[p])
      /\ \A i, j \in 1..Len(portWire'[p]) : j < i => j + 1 < i + 1
  <2>1. portWire'[p] \in Seq(Relay!Frames)
    BY <1>p, <1>2
  <2>2. Len(portWire'[p]) \in Nat
    BY SMTT(30), <2>1
  <2> QED
    BY ONLY SMTT(30), <2>2, <1>2
<1>6. RlRunning(p)'
  <2>1. CASE portPump[p].send = "run"
    <3>1. /\ \A i \in 1..Len(portWire[p]) : portWire[p][i] = "data"
          /\ portGot[s] + Len(portWire[p]) = portRead[p]
      BY <1>p, <1>1, <2>1 DEF RlRunning
    <3>2. \A i \in 1..Len(portWire'[p]) : portWire'[p][i] = "data"
      BY <1>2, <1>5, <3>1
    <3>3. portGot'[s] + Len(portWire'[p]) = portRead[p]
      <4>1. (portGot[s] + 1) + Len(portWire'[p]) = portGot[s] + (Len(portWire'[p]) + 1)
        BY <1>3, <1>5, RlShift
      <4> QED
        BY <1>2, <1>3, <3>1, <4>1
    <3> QED
      BY <1>p, <1>1, <3>2, <3>3 DEF RlRunning
  <2>2. CASE portPump[p].send # "run"
    BY <1>1, <2>2 DEF RlRunning
  <2> QED
    BY <2>1, <2>2
<1>7. RlEnd(p)'
  <2> SUFFICES ASSUME NEW i \in 1..Len(portWire'[p]), portWire'[p][i] = "end"
               PROVE  /\ portGot'[s] + i = portTotal[p] + 1
                      /\ \A j \in 1..Len(portWire'[p]) : j < i => portWire'[p][j] = "data"
    BY <1>p, <1>1 DEF RlEnd
  <2>1. /\ portGot[s] + (i + 1) = portTotal[p] + 1
        /\ \A j \in 1..Len(portWire[p]) : j < i + 1 => portWire[p][j] = "data"
    BY <1>p, <1>1, <1>2, <1>5 DEF RlEnd
  <2>2. \A j \in 1..Len(portWire'[p]) : j < i => portWire'[p][j] = "data"
    BY <1>2, <1>5, <2>1
  <2>3. (portGot[s] + 1) + i = portGot[s] + (i + 1)
    BY <1>3, <1>5, RlShift
  <2> QED
    BY <1>3, <2>1, <2>2, <2>3
<1>8. RlEnded(p)'
  BY <1>p, <1>1 DEF RlEnded
<1>9. RlRunning(s)' /\ RlEnd(s)' /\ RlEnded(s)'
  BY <1>p, <1>1, <1>2, <1>3, <1>4, RlQuiet DEF p
<1>10. RlEvents(s)' /\ RlEvents(p)'
  BY <1>p, <1>1, <1>4, RlEventsStay
<1>11. RlDone'
  BY <1>1, RlDoneConsumed
<1> QED
  BY <1>4, <1>6, <1>7, <1>8, <1>9, <1>10, <1>11, RlBoth DEF p

LEMMA RlReceiveEnd ==
    ASSUME RlInv, NEW s \in Relay!Sides, Relay!ReceiveEnd(s)
    PROVE  RlInv'
<1> DEFINE p == Relay!Peer(s)
<1> DEFINE e == Relay!Event("received_end", TRUE)
<1>p. p \in Relay!Sides /\ p # s /\ Relay!Peer(p) = s /\ \A t \in Relay!Sides : t = s \/ t = p
  BY RlSides
<1>e. e \in [kind : RlKinds, ok : BOOLEAN] /\ e.ok = TRUE /\ e.kind = "received_end"
  BY DEF Relay!Event, RlKinds
<1> HIDE DEF e
<1>1. /\ RlTyped /\ RlDone /\ Relay!Incoming(s) /\ Relay!Consume(s)
      /\ Head(portWire[p]) = "end" /\ portEnded' = [portEnded EXCEPT ![s] = TRUE]
      /\ portEvents' = [portEvents EXCEPT ![s] = Append(@, e)]
      /\ UNCHANGED <<portTotal, portRead, portGot, portPump, portSeen, portRet, portOpen>>
      /\ RlEnd(p)
  BY <1>p DEF RlInv, Relay!ReceiveEnd, Relay!Raise, e
<1>2. /\ portWire' \in [Relay!Sides -> Seq(Relay!Frames)] /\ portWire'[s] = portWire[s]
      /\ Len(portWire[p]) = Len(portWire'[p]) + 1 /\ portWire[p][1] = Head(portWire[p])
  BY <1>1, RlConsumed
<1>3. /\ portEvents' \in [Relay!Sides -> Seq([kind : RlKinds, ok : BOOLEAN])]
      /\ portEvents'[s] = Append(portEvents[s], e) /\ portEvents'[p] = portEvents[p]
  BY <1>1, <1>p, <1>e, RlRaises
<1>4. /\ portEnded' \in [Relay!Sides -> BOOLEAN] /\ portEnded'[s] = TRUE /\ portEnded'[p] = portEnded[p]
  BY <1>1, <1>p DEF RlTyped
<1>5. RlTyped'
  BY <1>1, <1>2, <1>3, <1>4 DEF RlTyped
<1>6. RlProgress
  BY <1>1, <1>p, <1>4 DEF RlProgress
<1>7. RlRunning(p)' /\ RlEnd(p)'
  <2>1. "end" # "data"
    OBVIOUS
  <2> QED
    BY <1>1, <2>1, RlTaken
<1> HIDE DEF p
<1>8. RlEnded(p)'
  <2>1. portWire'[p] \in Seq(Relay!Frames) /\ portGot[s] \in Nat /\ portTotal[p] \in Nat
    BY <1>p, <1>1, <1>2 DEF RlTyped
  <2>2. 1 \in 1..Len(portWire[p])
    BY SMTT(30), <1>2, <2>1
  <2>3. portGot[s] + 1 = portTotal[p] + 1
    BY <1>1, <1>2, <1>p, <2>2 DEF RlEnd
  <2>4. portGot[s] = portTotal[p]
    BY SMTT(30), <2>1, <2>3
  <2> QED
    BY <1>1, <1>p, <2>4 DEF RlEnded
<1>9. RlRunning(s)' /\ RlEnd(s)' /\ RlEnded(s)'
  BY <1>p, <1>1, <1>2, <1>4, <1>6, RlQuiet DEF p
<1>10. RlEvents(s)'
  <2>1. RlFact(s, e.kind)'
    <3>1. /\ "received_end" # "sent_end" /\ "received_end" # "received_done"
      OBVIOUS
    <3> QED
      BY <1>e, <1>4, <3>1 DEF RlFact
  <2> QED
    BY <1>e, <1>1, <1>3, <1>6, <2>1, RlRaised
<1>11. RlEvents(p)'
  BY <1>p, <1>1, <1>3, <1>6, RlEventsStay
<1>12. RlDone'
  <2>1. portEnded["guest"] => portEnded'["guest"]
    BY <1>6, RlSides DEF RlProgress
  <2> QED
    BY <1>1, <2>1, RlDoneConsumed
<1> QED
  BY <1>5, <1>7, <1>8, <1>9, <1>10, <1>11, <1>12, RlBoth DEF p

LEMMA RlReceiveDone ==
    ASSUME RlInv, NEW s \in Relay!Sides, Relay!ReceiveDone(s)
    PROVE  RlInv'
<1> DEFINE p == Relay!Peer(s)
<1>p. p \in Relay!Sides /\ p # s /\ Relay!Peer(p) = s /\ (s = "host" => p = "guest")
  BY RlSides DEF Relay!Peer
<1>1. /\ RlTyped /\ RlDone /\ Relay!Incoming(s) /\ Relay!Consume(s)
      /\ Head(portWire[p]) = "done" /\ Relay!Raise(s, Relay!Event("received_done", s = "host" /\ portEnded[s]))
      /\ portPump' = [portPump EXCEPT ![s].receive = "end"]
      /\ UNCHANGED <<portTotal, portRead, portGot, portEnded, portSeen, portRet, portOpen>>
      /\ RlEnded(p) /\ portEnded[s] \in BOOLEAN
  BY <1>p DEF RlInv, RlTyped, Relay!ReceiveDone
<1>e. PICK e \in [kind : RlKinds, ok : BOOLEAN] :
        e.ok = (s = "host" /\ portEnded[s]) /\ e.kind = "received_done" /\ Relay!Raise(s, e)
  <2>1. (s = "host" /\ portEnded[s]) \in BOOLEAN
    BY <1>1
  <2> QED
    BY <1>1, <2>1 DEF Relay!Event, RlKinds
<1>2. /\ portWire' \in [Relay!Sides -> Seq(Relay!Frames)] /\ portWire'[s] = portWire[s]
      /\ Len(portWire[p]) = Len(portWire'[p]) + 1 /\ portWire[p][1] = Head(portWire[p])
  BY <1>1, RlConsumed
<1> HIDE DEF p
<1>3. e.ok => RlFact(s, e.kind)'
  <2> SUFFICES ASSUME e.ok
               PROVE  RlFact(s, "received_done")'
    BY <1>e
  <2>1. portWire'[p] \in Seq(Relay!Frames)
    BY <1>p, <1>2
  <2>2. 1 \in 1..Len(portWire[p])
    BY SMTT(30), <1>2, <2>1
  <2>3. s = "host" /\ portEnded[s] /\ p = "guest"
    BY <1>e, <1>p
  <2>4. portEnded["guest"]
    BY <1>1, <1>2, <2>2, <2>3 DEF RlDone
  <2>5. "received_done" # "sent_end" /\ "received_done" # "received_end"
    OBVIOUS
  <2> QED
    BY <1>1, <2>3, <2>4, <2>5 DEF RlFact
<1>4. /\ RlTyped' /\ RlProgress /\ RlEvents(s)' /\ RlEvents(p)'
      /\ \A t \in Relay!Sides : portPump'[t].send = "run" => portPump[t].send = "run"
  BY <1>1, <1>2, <1>3, <1>e, RlPumpEnds DEF p
<1>5. RlRunning(p)' /\ RlEnd(p)'
  <2>1. "done" # "data"
    OBVIOUS
  <2> QED
    BY <1>p, <1>1, <1>4, <2>1, RlTaken DEF p
<1>6. RlEnded(p)'
  BY <1>1 DEF RlEnded
<1>7. RlRunning(s)' /\ RlEnd(s)' /\ RlEnded(s)'
  BY <1>p, <1>1, <1>2, <1>4, RlQuiet DEF p
<1>8. RlDone'
  BY <1>1, RlDoneConsumed
<1> QED
  BY <1>4, <1>5, <1>6, <1>7, <1>8, RlBoth DEF p

(* The frame done goes out behind a stream that has ended.                   *)
LEMMA RlDoneFrame ==
    ASSUME RlInv, NEW s \in Relay!Sides, Relay!Transmit(s, "done"), portPump[s].send = "end",
           UNCHANGED <<portTotal, portGot, portEnded, portPump>>
    PROVE  RlRunning(s)' /\ RlEnd(s)' /\ RlEnded(s)'
<1> DEFINE p == Relay!Peer(s)
<1>1. RlTyped /\ RlEnd(s) /\ RlEnded(s) /\ "done" \in Relay!Frames /\ portWire[s] \in Seq(Relay!Frames)
  BY DEF RlInv, RlTyped, Relay!Frames
<1>2. /\ portWire' \in [Relay!Sides -> Seq(Relay!Frames)]
      /\ portOpen[p] =>
           /\ Len(portWire'[s]) = Len(portWire[s]) + 1
           /\ portWire'[s][Len(portWire[s]) + 1] = "done"
           /\ \A i \in 1..Len(portWire[s]) : portWire'[s][i] = portWire[s][i]
      /\ ~portOpen[p] => portWire'[s] = portWire[s]
  BY <1>1, RlSent
<1> HIDE DEF p
<1>3. RlRunning(s)'
  BY DEF RlRunning
<1>4. RlEnd(s)'
  <2>1. CASE portOpen[p]
    <3> SUFFICES ASSUME NEW i \in 1..Len(portWire'[s]), portWire'[s][i] = "end"
                 PROVE  /\ portGot[p] + i = portTotal[s] + 1
                        /\ \A j \in 1..Len(portWire'[s]) : j < i => portWire'[s][j] = "data"
      BY DEF RlEnd, p
    <3>1. portWire'[s] \in Seq(Relay!Frames) /\ "done" # "end"
      BY <1>2
    <3>2. i \in 1..Len(portWire[s]) /\ portWire[s][i] = "end"
      BY <1>1, <1>2, <2>1, <3>1, RlLast
    <3>3. \A j \in 1..Len(portWire'[s]) : j < i => j \in 1..Len(portWire[s])
      BY SMTT(30), <1>1, <3>1, <3>2
    <3> QED
      BY <1>1, <1>2, <2>1, <3>2, <3>3 DEF RlEnd, p
  <2>2. CASE ~portOpen[p]
    BY <1>1, <1>2, <2>2 DEF RlEnd
  <2> QED
    BY <2>1, <2>2
<1>5. RlEnded(s)'
  BY <1>1 DEF RlEnded
<1> QED
  BY <1>3, <1>4, <1>5

LEMMA RlRelayPort ==
    ASSUME RlInv, NEW s \in Relay!Sides, Relay!relayPort(s)
    PROVE  RlInv'
<1> DEFINE p == Relay!Peer(s)
<1> DEFINE E == [kind : RlKinds, ok : BOOLEAN]
<1>p. p \in Relay!Sides /\ p # s /\ Relay!Peer(p) = s
  BY RlSides
<1>1. /\ RlTyped /\ RlDone /\ RlEvents(s) /\ portEvents \in [Relay!Sides -> Seq(E)]
      /\ portRet[s] = "none" /\ portEvents[s] # <<>>
      /\ portEvents' = [portEvents EXCEPT ![s] = Tail(@)]
      /\ UNCHANGED <<portTotal, portRead, portGot, portEnded, portPump>>
  BY DEF RlInv, RlTyped, Relay!relayPort
<1>e. PICK e \in E : e = Head(portEvents[s]) /\ e = portEvents[s][1]
  <2> HIDE DEF E
  <2> QED
    BY SMTT(30), <1>1
<1> DEFINE kinds == portSeen[s] \cup {e.kind}
<1>2. /\ portSeen' = [portSeen EXCEPT ![s] = kinds]
      /\ \/ portRet' = [portRet EXCEPT ![s] = IF ~e.ok THEN "error"
                                              ELSE IF Relay!Finished(s, kinds) THEN "ok" ELSE @]
         \/ portRet' = [portRet EXCEPT ![s] = "error"] /\ e.ok /\ Relay!Finished(s, kinds)
      /\ portOpen' = [portOpen EXCEPT ![s] = e.ok /\ ~Relay!Finished(s, kinds)]
      /\ IF e.ok /\ Relay!Finished(s, kinds) /\ s = "guest" THEN Relay!Transmit(s, "done")
         ELSE UNCHANGED portWire
  BY <1>e DEF Relay!relayPort
<1>k. /\ kinds \in SUBSET RlKinds /\ e.ok \in BOOLEAN /\ Relay!Finished(s, kinds) \in BOOLEAN
      /\ portSeen[s] \subseteq kinds /\ e.kind \in kinds /\ \A k \in kinds : k \in portSeen[s] \/ k = e.kind
  <2>1. portSeen[s] \in SUBSET RlKinds
    BY <1>1 DEF RlTyped
  <2>2. e.kind \in RlKinds /\ e.ok \in BOOLEAN
    BY <1>e
  <2> QED
    BY <2>1, <2>2 DEF Relay!Finished
<1> HIDE DEF p, E, kinds
<1>3. /\ portEvents' \in [Relay!Sides -> Seq(E)] /\ portEvents'[s] = Tail(portEvents[s])
      /\ portEvents'[p] = portEvents[p] /\ portEvents[s] \in Seq(E)
  <2>1. Tail(portEvents[s]) \in Seq(E) /\ portEvents[s] \in Seq(E)
    BY SMTT(30), <1>1
  <2> QED
    BY <1>1, <1>p, <2>1
<1>4. /\ portSeen' \in [Relay!Sides -> SUBSET RlKinds] /\ portSeen'[s] = kinds /\ portSeen'[p] = portSeen[p]
      /\ portOpen' \in [Relay!Sides -> BOOLEAN] /\ portOpen'[p] = portOpen[p]
      /\ portOpen'[s] = (e.ok /\ ~Relay!Finished(s, kinds))
  BY <1>1, <1>2, <1>p, <1>k DEF RlTyped
<1>5. /\ portRet' \in [Relay!Sides -> {"none", "ok", "error"}] /\ portRet'[p] = portRet[p]
      /\ portRet'[s] # "error" => e.ok
      /\ portRet'[s] = "none" => e.ok /\ ~Relay!Finished(s, kinds)
      /\ portRet'[s] = "ok" => Relay!Finished(s, kinds)
  <2>1. portRet \in [Relay!Sides -> {"none", "ok", "error"}] /\ portRet[s] = "none"
    BY <1>1 DEF RlTyped
  <2>2. CASE portRet' = [portRet EXCEPT ![s] = "error"]
    BY <2>1, <2>2, <1>p
  <2>3. CASE portRet' = [portRet EXCEPT ![s] = IF ~e.ok THEN "error"
                                               ELSE IF Relay!Finished(s, kinds) THEN "ok" ELSE @]
    BY <2>1, <2>3, <1>p
  <2> QED
    BY <1>2, <2>2, <2>3
<1>6. portWire' \in [Relay!Sides -> Seq(Relay!Frames)]
  <2>1. portWire \in [Relay!Sides -> Seq(Relay!Frames)] /\ "done" \in Relay!Frames
    BY <1>1 DEF RlTyped, Relay!Frames
  <2> QED
    BY <1>1, <1>2, <2>1, RlSent
<1>7. RlTyped'
  BY <1>1, <1>3, <1>4, <1>5, <1>6 DEF RlTyped, E
<1>8. RlProgress
  BY <1>1 DEF RlProgress
<1>9. e.ok => \A k \in kinds : RlFact(s, k)
  <2>1. \A k \in portSeen[s] : RlFact(s, k)
    <3>1. "none" # "error"
      OBVIOUS
    <3> QED
      BY <1>1, <3>1 DEF RlEvents
  <2>2. e.ok => RlFact(s, e.kind)
    <3>1. 1 \in 1..Len(portEvents[s])
      BY SMTT(30), <1>1, <1>3
    <3> QED
      BY <1>1, <1>e, <3>1 DEF RlEvents, RlTrue
  <2> QED
    BY <1>k, <2>1, <2>2
<1>10. e.ok => \A k \in kinds : RlFact(s, k)'
  BY <1>8, <1>9, RlFactStays
<1>11. RlTrue(s)'
  <2> SUFFICES ASSUME NEW i \in 1..Len(portEvents'[s]), portEvents'[s][i].ok
               PROVE  RlFact(s, portEvents[s][i].kind)'
    BY DEF RlTrue
  <2>1. portEvents'[s][i] = portEvents[s][i + 1] /\ i + 1 \in 1..Len(portEvents[s])
    BY SMTT(30), <1>1, <1>3
  <2>2. RlFact(s, portEvents[s][i + 1].kind)
    BY <1>1, <2>1 DEF RlEvents, RlTrue
  <2>3. PICK k : k = portEvents[s][i + 1].kind
    OBVIOUS
  <2>4. RlFact(s, k)'
    BY <1>8, <2>2, <2>3, RlFactStays
  <2> QED
    BY <2>1, <2>3, <2>4
<1>12. RlEvents(s)'
  <2>1. portRet'[s] = "none" => portOpen'[s]
    BY <1>4, <1>5
  <2>2. portRet'[s] # "error" => \A k \in portSeen'[s] : RlFact(s, k)'
    BY <1>4, <1>5, <1>10
  <2>3. portRet'[s] = "ok" => Relay!Finished(s, portSeen'[s])
    BY <1>4, <1>5
  <2> QED
    BY <1>11, <2>1, <2>2, <2>3 DEF RlEvents, Relay!Finished
<1>13. RlEvents(p)'
  BY <1>p, <1>3, <1>4, <1>5, <1>8, RlEventsStay
<1>14. RlRunning(p)' /\ RlEnd(p)' /\ RlEnded(p)'
  <2>1. portWire'[p] = portWire[p]
    <3>1. "done" \in Relay!Frames
      BY DEF Relay!Frames
    <3> QED
      BY <1>1, <1>2, <3>1, RlSent DEF p
  <2>2. portOpen[s]
    BY <1>1 DEF RlEvents
  <2> QED
    BY <1>p, <1>1, <1>8, <2>1, <2>2, RlQuiet
<1>15. RlRunning(s)' /\ RlEnd(s)' /\ RlEnded(s)' /\ RlDone'
  <2>1. CASE e.ok /\ Relay!Finished(s, kinds) /\ s = "guest"
    <3>1. {"sent_end", "received_end"} \subseteq kinds
      BY <2>1 DEF Relay!Finished
    <3>2. portPump[s].send = "end" /\ portEnded["guest"]
      BY <1>9, <2>1, <3>1 DEF RlFact
    <3>3. Relay!Transmit(s, "done") /\ "done" \in Relay!Frames
      BY <1>2, <2>1 DEF Relay!Frames
    <3> QED
      BY <1>1, <2>1, <3>2, <3>3, RlDoneFrame, RlDoneSent
  <2>2. CASE ~(e.ok /\ Relay!Finished(s, kinds) /\ s = "guest")
    <3>1. portWire' = portWire
      BY <1>2, <2>2
    <3>2. RlDone'
      BY <1>1, <3>1 DEF RlDone
    <3> QED
      BY <1>1, <1>4, <1>8, <3>1, <3>2, RlQuiet DEF p
  <2> QED
    BY <2>1, <2>2
<1> QED
  BY <1>7, <1>12, <1>13, <1>14, <1>15, RlBoth DEF p

LEMMA RlCancel ==
    ASSUME RlInv, NEW s \in Relay!Sides, Relay!Cancel(s)
    PROVE  RlInv'
<1> DEFINE p == Relay!Peer(s)
<1>p. p \in Relay!Sides /\ p # s /\ Relay!Peer(p) = s
  BY RlSides
<1>1. /\ RlTyped /\ RlDone /\ RlEvents(s) /\ portRet[s] = "none"
      /\ portRet' = [portRet EXCEPT ![s] = "error"] /\ portOpen' = [portOpen EXCEPT ![s] = FALSE]
      /\ UNCHANGED <<portTotal, portRead, portWire, portGot, portEnded, portPump, portEvents, portSeen>>
  BY DEF RlInv, Relay!Cancel
<1> HIDE DEF p
<1>2. /\ portRet' \in [Relay!Sides -> {"none", "ok", "error"}] /\ portRet'[s] = "error" /\ portRet'[p] = portRet[p]
      /\ portOpen' \in [Relay!Sides -> BOOLEAN] /\ portOpen'[p] = portOpen[p] /\ portOpen'[s] = FALSE
  BY <1>1, <1>p DEF RlTyped
<1>3. RlTyped' /\ RlProgress
  BY <1>1, <1>2 DEF RlTyped, RlProgress
<1>4. RlEvents(s)'
  <2>1. "error" # "none" /\ "error" # "ok"
    OBVIOUS
  <2>2. RlTrue(s)'
    BY <1>1 DEF RlEvents, RlTrue, RlFact
  <2> QED
    BY <1>2, <2>1, <2>2 DEF RlEvents
<1>5. RlEvents(p)'
  BY <1>p, <1>1, <1>2, <1>3, RlEventsStay
<1>6. RlRunning(s)' /\ RlEnd(s)' /\ RlEnded(s)'
  BY <1>1, <1>2, <1>3, RlQuiet DEF p
<1>7. RlRunning(p)' /\ RlEnd(p)' /\ RlEnded(p)'
  BY <1>p, <1>1, <1>2, <1>3, RlQuiet
<1>8. RlDone'
  BY <1>1 DEF RlDone
<1> QED
  BY <1>3, <1>4, <1>5, <1>6, <1>7, <1>8, RlBoth DEF p

LEMMA RlNext ==
    ASSUME RlInv, Relay!Next
    PROVE  RlInv'
<1>1. PICK s \in Relay!Sides :
        \/ Relay!SendData(s) \/ Relay!SendEnd(s) \/ Relay!SendFailed(s)
        \/ Relay!ReceiveData(s) \/ Relay!ReceiveEnd(s) \/ Relay!ReceiveDone(s)
        \/ Relay!ReceiveFailed(s) \/ Relay!relayPort(s) \/ Relay!Cancel(s)
  BY DEF Relay!Next
<1> QED
  BY <1>1, RlSendData, RlSendEnd, RlFailed, RlReceiveData, RlReceiveEnd, RlReceiveDone,
     RlRelayPort, RlCancel

LEMMA RlInit == Relay!Init => RlInv
<1> SUFFICES ASSUME Relay!Init
             PROVE  RlInv
  OBVIOUS
<1>1. /\ portTotal \in [Relay!Sides -> 0..Chunks] /\ portRead = [s \in Relay!Sides |-> 0]
      /\ portGot = [s \in Relay!Sides |-> 0] /\ portWire = [s \in Relay!Sides |-> <<>>]
      /\ portEnded = [s \in Relay!Sides |-> FALSE] /\ portOpen = [s \in Relay!Sides |-> TRUE]
      /\ portPump = [s \in Relay!Sides |-> [send |-> "run", receive |-> "run"]]
      /\ portEvents = [s \in Relay!Sides |-> <<>>] /\ portSeen = [s \in Relay!Sides |-> {}]
      /\ portRet = [s \in Relay!Sides |-> "none"]
  BY DEF Relay!Init
<1>2. 0..Chunks \subseteq Nat /\ 0 \in Nat /\ Len(<<>>) = 0 /\ 1..0 = {} /\ 0 + 0 = 0
  BY SMTT(30)
<1>3. <<>> \in Seq(Relay!Frames) /\ <<>> \in Seq([kind : RlKinds, ok : BOOLEAN])
  BY SMTT(30)
<1>4. [send |-> "run", receive |-> "run"] \in [send : {"run", "end"}, receive : {"run", "end"}]
  OBVIOUS
<1>5. RlTyped
  BY <1>1, <1>2, <1>3, <1>4 DEF RlTyped
<1>6. \A s \in Relay!Sides : Relay!Peer(s) \in Relay!Sides
  BY RlSides
<1>7. \A s \in Relay!Sides : /\ portWire[s] = <<>> /\ portEvents[s] = <<>> /\ portSeen[s] = {}
                             /\ portGot[s] = 0 /\ portRead[s] = 0 /\ portEnded[s] = FALSE
                             /\ portOpen[s] = TRUE /\ portRet[s] = "none"
  BY <1>1
<1>8. "none" # "ok" /\ "guest" \in Relay!Sides
  BY DEF Relay!Sides
<1>9. \A s \in Relay!Sides : RlRunning(s) /\ RlEnd(s)
  BY <1>2, <1>6, <1>7 DEF RlRunning, RlEnd
<1>10. \A s \in Relay!Sides : RlEnded(s) /\ RlEvents(s)
  BY <1>2, <1>6, <1>7, <1>8 DEF RlEnded, RlEvents, RlTrue
<1>11. RlDone
  BY <1>2, <1>7, <1>8 DEF RlDone
<1> QED
  BY <1>5, <1>9, <1>10, <1>11 DEF RlInv

(* What a report of success means.                                           *)
LEMMA RlWhole == RlInv => Relay!NothingTruncated
<1> SUFFICES ASSUME RlInv
             PROVE  Relay!NothingTruncated
  OBVIOUS
<1>1. \A s \in Relay!Sides : portEnded[s] => portGot[s] = portTotal[Relay!Peer(s)]
  BY ZenonT(30), RlSides DEF RlInv, RlEnded
<1>2. \A s \in Relay!Sides : portRet[s] = "ok" =>
        /\ Relay!Finished(s, portSeen[s])
        /\ \A kind \in portSeen[s] : RlFact(s, kind)
  <2>1. "ok" # "error"
    OBVIOUS
  <2> QED
    BY <2>1 DEF RlInv, RlEvents
<1>3. "host" \in Relay!Sides /\ "guest" \in Relay!Sides /\ Relay!Peer("guest") = "host"
      /\ \A s \in Relay!Sides : s = "host" \/ s = "guest"
  BY DEF Relay!Sides, Relay!Peer
<1>4. portRet["host"] = "ok" => portEnded["host"] /\ portEnded["guest"]
  BY <1>2, <1>3 DEF Relay!Finished, RlFact
<1>5. portRet["guest"] = "ok" => portEnded["guest"] /\ portRead["guest"] = portTotal["guest"]
  BY <1>2, <1>3 DEF Relay!Finished, RlFact
<1> QED
  BY <1>1, <1>3, <1>4, <1>5 DEF Relay!NothingTruncated

LEMMA RlInvariant == SessionsSpec => [](focus = "relay" => RlInv)
<1> DEFINE Inv == focus = "relay" => RlInv
<1>1. SessionsInit => Inv
  BY RlInit DEF SessionsInit
<1>2. Inv /\ [SessionsNext]_sessionsVars => Inv'
  <2> SUFFICES ASSUME Inv, [SessionsNext]_sessionsVars, focus' = "relay"
               PROVE  RlInv'
    OBVIOUS
  <2>1. CASE RelayStep
    BY <2>1, RlNext DEF RelayStep
  <2>2. CASE ExecStep \/ LogStep
    BY <2>2 DEF ExecStep, LogStep
  <2>3. CASE UNCHANGED sessionsVars
    <3>1. focus' = focus /\ UNCHANGED portVars
      BY <2>3 DEF sessionsVars
    <3> QED
      BY <3>1, RlUnchanged
  <2> QED
    BY <2>1, <2>2, <2>3 DEF SessionsNext
<1> QED
  BY <1>1, <1>2, PTL DEF SessionsSpec

-----------------------------------------------------------------------------

(* Following a log.  The offset never passes what was shown of the boot that *)
(* the signature names, so whatever the file holds now is either continued   *)
(* or started again.                                                         *)

LgFols ==
    [at : {"copy", "sign", "select", "open", "check", "end"}, open : Nat, offset : Nat, size : Nat,
     signature : [boot : Nat, width : Nat], first : BOOLEAN]

LgTyped ==
    /\ logInode \in Seq([boot : Nat, size : Nat])
    /\ logPath \in Nat /\ (logPath # 0 => logPath \in 1..Len(logInode))
    /\ logBoots \in 1..MaxBoots
    /\ logFol \in LgFols /\ logFol.open \in 1..Len(logInode)
    /\ logSeen \in [1..MaxBoots -> Nat] /\ logDirty \in BOOLEAN /\ logRaced \in BOOLEAN

(* A boot has one file, which holds all that was shown of it.                *)
LgFiles ==
    /\ \A f \in 1..Len(logInode) : /\ logInode[f].boot \in 1..logBoots
                                   /\ logSeen[logInode[f].boot] <= logInode[f].size
    /\ \A f, g \in 1..Len(logInode) : logInode[f].boot = logInode[g].boot => f = g
    /\ \A b \in 1..MaxBoots : logBoots < b => logSeen[b] = 0

(* What the follower knows of its file while no truncation overtook it.      *)
LgCopies ==
    /\ logFol.offset <= logSeen[logInode[logFol.open].boot]
    /\ logFol.signature # Log!NoSignature => logFol.signature.boot = logInode[logFol.open].boot
LgWaits ==
    /\ logFol.signature = Log!NoSignature => logFol.offset = 0
    /\ logFol.signature # Log!NoSignature =>
        logFol.signature.boot \in 1..logBoots /\ logFol.offset <= logSeen[logFol.signature.boot]
LgView ==
    ~logRaced => /\ logFol.at \in {"copy", "sign"} => LgCopies
                 /\ logFol.at \in {"select", "open", "check"} => LgWaits

(* The pass that is under way, or has ended, and no change since it began.   *)
LgFresh ==
    ~logDirty /\ ~logRaced /\ logPath # 0 =>
        /\ logFol.at \in {"check", "copy", "sign", "select"} => logFol.open = logPath
        /\ logFol.at \in {"sign", "select"} =>
            logSeen[logInode[logFol.open].boot] = logInode[logFol.open].size

LgInv == LgTyped /\ LgFiles /\ LgView /\ LgFresh

LEMMA LgUnchanged ==
    ASSUME LgInv, UNCHANGED logVars
    PROVE  LgInv'
<1>1. /\ logInode' = logInode /\ logPath' = logPath /\ logBoots' = logBoots /\ logFol' = logFol
      /\ logSeen' = logSeen /\ logDirty' = logDirty /\ logRaced' = logRaced
  BY DEF logVars
<1>2. LgTyped' /\ LgFiles'
  BY <1>1 DEF LgInv, LgTyped, LgFiles
<1>3. LgView' /\ LgFresh'
  BY <1>1 DEF LgInv, LgView, LgCopies, LgWaits, LgFresh
<1> QED
  BY <1>2, <1>3 DEF LgInv

LEMMA LgElement ==
    ASSUME NEW S, NEW s \in Seq(S), NEW i \in 1..Len(s)
    PROVE  s[i] \in S
  BY SMTT(30)

LEMMA LgExcept ==
    ASSUME NEW S, NEW s \in Seq(S), NEW i \in 1..Len(s), NEW x \in S, NEW t, t = [s EXCEPT ![i] = x]
    PROVE  /\ t \in Seq(S) /\ Len(t) = Len(s)
           /\ t[i] = x /\ \A j \in 1..Len(s) : j # i => t[j] = s[j]
  BY SMTT(30)

LEMMA LgAppend ==
    ASSUME NEW S, NEW s \in Seq(S), NEW x \in S, NEW n, n = Len(s) + 1, NEW t, t = Append(s, x)
    PROVE  /\ t \in Seq(S) /\ Len(t) = n
           /\ t[n] = x /\ \A j \in 1..Len(s) : t[j] = s[j]
           /\ n \in Nat /\ n # 0 /\ n \in 1..n
           /\ \A j \in 1..Len(s) : j \in 1..n
           /\ \A j \in 1..n : j = n \/ j \in 1..Len(s)
  BY SMTT(30)

(* Facts of every step.                                                      *)
LEMMA LgKnown ==
    ASSUME LgInv
    PROVE  /\ logInode[logFol.open] \in [boot : Nat, size : Nat]
           /\ logInode[logFol.open].boot \in 1..logBoots /\ logInode[logFol.open].boot \in 1..MaxBoots
           /\ logSeen[logInode[logFol.open].boot] \in Nat /\ logInode[logFol.open].size \in Nat
           /\ logSeen[logInode[logFol.open].boot] <= logInode[logFol.open].size
           /\ logFol.offset \in Nat /\ logFol.signature \in [boot : Nat, width : Nat]
           /\ logFol.open \in 1..Len(logInode)
           /\ \A b \in 1..logBoots : b \in 1..MaxBoots
<1>1. logFol.open \in 1..Len(logInode) /\ logFol \in LgFols /\ logSeen \in [1..MaxBoots -> Nat]
  BY DEF LgInv, LgTyped
<1>2. logInode \in Seq([boot : Nat, size : Nat]) /\ logBoots \in 1..MaxBoots
  BY DEF LgInv, LgTyped
<1>3. logInode[logFol.open] \in [boot : Nat, size : Nat]
  BY <1>1, <1>2, LgElement
<1>4. \A b \in 1..logBoots : b \in 1..MaxBoots
  BY ONLY SMTT(30), <1>2, SessionsAssumption
<1>5. /\ logInode[logFol.open].boot \in 1..logBoots
      /\ logSeen[logInode[logFol.open].boot] <= logInode[logFol.open].size
  BY <1>1 DEF LgInv, LgFiles
<1>6. logFol.offset \in Nat /\ logFol.signature \in [boot : Nat, width : Nat]
  BY <1>1 DEF LgFols
<1> QED
  BY <1>1, <1>3, <1>4, <1>5, <1>6

(* A step of the follower that shows nothing.                                *)
LEMMA LgFollows ==
    ASSUME LgInv, UNCHANGED <<logInode, logPath, logBoots, logSeen, logRaced>>, logDirty' \in BOOLEAN,
           logFol' \in LgFols, logFol'.open \in 1..Len(logInode), LgView', LgFresh'
    PROVE  LgInv'
  BY DEF LgInv, LgTyped, LgFiles

LEMMA LgSigned ==
    ASSUME LgInv, NEW w \in Nat
    PROVE  /\ Log!logSignature(w) \in [boot : Nat, width : Nat]
           /\ Log!logSignature(w) # Log!NoSignature => Log!logSignature(w).boot = logInode[logFol.open].boot
           /\ w = 0 /\ Log!logSignature(w) = Log!NoSignature => logInode[logFol.open].size = 0
<1> DEFINE file == logInode[logFol.open]
           n == Log!Least(IF w = 0 THEN HeadSize ELSE w, file.size)
<1>1. file \in [boot : Nat, size : Nat] /\ HeadSize \in Nat \ {0}
  BY LgKnown, SessionsAssumption
<1>2. n \in Nat /\ (w = 0 /\ n = 0 => file.size = 0)
  <2> HIDE DEF file
  <2> QED
    BY ONLY <1>1, w \in Nat DEF Log!Least
<1>3. Log!logSignature(w) = IF n = 0 THEN Log!NoSignature ELSE [boot |-> file.boot, width |-> n]
  BY DEF Log!logSignature
<1> HIDE DEF file, n
<1>4. CASE n = 0
  <2>1. Log!NoSignature \in [boot : Nat, width : Nat]
    BY DEF Log!NoSignature
  <2> QED
    BY <1>2, <1>3, <1>4, <2>1 DEF file
<1>5. CASE n # 0
  <2>1. Log!logSignature(w) = [boot |-> file.boot, width |-> n]
    BY <1>3, <1>5
  <2>2. [boot |-> file.boot, width |-> n] \in [boot : Nat, width : Nat]
    BY ONLY <1>1, <1>2
  <2>3. [boot |-> file.boot, width |-> n].boot = file.boot
    OBVIOUS
  <2>4. [boot |-> file.boot, width |-> n] # Log!NoSignature
    BY <1>2, <1>5 DEF Log!NoSignature
  <2> QED
    BY <2>1, <2>2, <2>3, <2>4 DEF file
<1> QED
  BY <1>4, <1>5

LEMMA LgSigns ==
    ASSUME LgInv, Log!Sign
    PROVE  LgInv'
<1> DEFINE file == logInode[logFol.open]
           signs == logFol.first \/ (logFol.signature = Log!NoSignature /\ logFol.offset > 0)
           sig == IF signs THEN Log!logSignature(0) ELSE logFol.signature
<1>1. /\ logFol.at = "sign" /\ UNCHANGED <<logInode, logPath, logBoots, logSeen, logDirty, logRaced>>
      /\ logFol' = [logFol EXCEPT !.at = "select", !.first = FALSE, !.signature = sig]
  BY DEF Log!Sign, Log!logVars
<1>2. logFol \in LgFols /\ 0 \in Nat /\ logDirty \in BOOLEAN
  BY LgSigned DEF LgInv, LgTyped
<1>3. /\ Log!logSignature(0) \in [boot : Nat, width : Nat]
      /\ Log!logSignature(0) # Log!NoSignature => Log!logSignature(0).boot = file.boot
      /\ Log!logSignature(0) = Log!NoSignature => file.size = 0
  BY <1>2, LgSigned
<1>4. sig \in [boot : Nat, width : Nat]
  BY <1>3, LgKnown
<1>5. /\ logFol' \in LgFols /\ logFol'.at = "select" /\ logFol'.open = logFol.open
      /\ logFol'.offset = logFol.offset /\ logFol'.signature = sig
  <2> HIDE DEF sig
  <2> QED
    BY <1>1, <1>2, <1>4 DEF LgFols
<1>6. /\ file.boot \in 1..logBoots /\ logSeen[file.boot] \in Nat /\ file.size \in Nat
      /\ logSeen[file.boot] <= file.size /\ logFol.offset \in Nat
  BY LgKnown
<1>7. LgView'
  <2> SUFFICES ASSUME ~logRaced
               PROVE  LgWaits'
    BY <1>1, <1>5, "select" # "copy", "select" # "sign" DEF LgView
  <2>1. /\ logFol.offset <= logSeen[file.boot]
        /\ logFol.signature # Log!NoSignature => logFol.signature.boot = file.boot
    BY <1>1 DEF LgInv, LgView, LgCopies
  <2>2. sig = Log!NoSignature => logFol.offset = 0
    <3>1. CASE signs
      <4>1. ASSUME file.size = 0 PROVE logFol.offset = 0
        <5> HIDE DEF file
        <5> QED
          BY ONLY SMTT(30), <1>6, <2>1, <4>1
      <4> QED
        BY <3>1, <1>3, <4>1
    <3>2. CASE ~signs
      <4>1. ~(logFol.offset > 0) => logFol.offset = 0
        BY ONLY SMTT(30), <1>6
      <4> QED
        BY <3>2, <4>1
    <3> QED
      BY <3>1, <3>2
  <2>3. sig # Log!NoSignature => sig.boot = file.boot
    BY <1>3, <2>1
  <2> HIDE DEF sig, file
  <2> QED
    BY <1>1, <1>5, <1>6, <2>1, <2>2, <2>3 DEF LgWaits
<1>8. LgFresh'
  <2> HIDE DEF sig
  <2> QED
    BY <1>1, <1>5 DEF LgInv, LgFresh
<1>9. logFol'.open \in 1..Len(logInode) /\ logDirty' \in BOOLEAN
  BY <1>1, <1>2, <1>5, LgKnown
<1> HIDE DEF sig
<1> QED
  BY <1>1, <1>5, <1>7, <1>8, <1>9, LgFollows

LEMMA LgChecks ==
    ASSUME LgInv, Log!Check
    PROVE  LgInv'
<1> DEFINE file == logInode[logFol.open]
           sig == IF Log!Rewind THEN Log!logSignature(0) ELSE logFol.signature
           off == IF Log!Rewind THEN 0 ELSE logFol.offset
<1>1. /\ logFol.at = "check" /\ UNCHANGED <<logInode, logPath, logBoots, logSeen, logDirty, logRaced>>
      /\ logFol' = [logFol EXCEPT !.at = "copy", !.offset = off, !.signature = sig]
  BY DEF Log!Check, Log!logVars
<1>2. logFol \in LgFols /\ 0 \in Nat /\ logDirty \in BOOLEAN
  BY LgSigned DEF LgInv, LgTyped
<1>3. /\ Log!logSignature(0) \in [boot : Nat, width : Nat]
      /\ Log!logSignature(0) # Log!NoSignature => Log!logSignature(0).boot = file.boot
  BY <1>2, LgSigned
<1>4. sig \in [boot : Nat, width : Nat] /\ off \in Nat
  BY <1>2, <1>3, LgKnown
<1>5. /\ logFol' \in LgFols /\ logFol'.at = "copy" /\ logFol'.open = logFol.open
      /\ logFol'.offset = off /\ logFol'.signature = sig
  <2> HIDE DEF sig, off
  <2> QED
    BY <1>1, <1>2, <1>4 DEF LgFols
<1>6. file.boot \in 1..logBoots /\ logSeen[file.boot] \in Nat /\ logFol.signature.width \in Nat
  <2>1. logFol.signature.width \in Nat
    BY LgKnown
  <2> QED
    BY LgKnown, <2>1
<1>7. LgView'
  <2> SUFFICES ASSUME ~logRaced
               PROVE  LgCopies'
    BY <1>1, <1>5, "copy" # "select", "copy" # "open", "copy" # "check" DEF LgView
  <2>1. LgWaits
    BY <1>1 DEF LgInv, LgView
  <2>2. 0 <= logSeen[file.boot]
    <3> HIDE DEF file
    <3> QED
      BY ONLY SMTT(30), <1>6
  <2>3. off <= logSeen[file.boot] /\ (sig # Log!NoSignature => sig.boot = file.boot)
    <3>1. CASE Log!Rewind
      BY <3>1, <1>3, <2>2
    <3>2. CASE ~Log!Rewind /\ logFol.signature = Log!NoSignature
      BY <3>2, <2>1, <2>2 DEF LgWaits
    <3>3. CASE ~Log!Rewind /\ logFol.signature # Log!NoSignature
      <4>1. Log!logSignature(logFol.signature.width) = logFol.signature
        BY <3>3 DEF Log!Rewind
      <4>2. logFol.signature.boot = file.boot
        BY <1>6, <3>3, <4>1, LgSigned
      <4> QED
        BY <3>3, <4>2, <2>1 DEF LgWaits
    <3> QED
      BY <3>1, <3>2, <3>3
  <2> HIDE DEF sig, off
  <2> QED
    BY <1>1, <1>5, <2>3 DEF LgCopies
<1>8. LgFresh'
  <2> HIDE DEF sig, off
  <2> QED
    BY <1>1, <1>5, "copy" # "sign", "copy" # "select" DEF LgInv, LgFresh
<1>9. logFol'.open \in 1..Len(logInode) /\ logDirty' \in BOOLEAN
  BY <1>1, <1>2, <1>5, LgKnown
<1> HIDE DEF sig, off
<1> QED
  BY <1>1, <1>5, <1>7, <1>8, <1>9, LgFollows

LEMMA LgPolls ==
    ASSUME LgInv, Log!Poll
    PROVE  LgInv'
<1> DEFINE at == IF logPath = logFol.open THEN "check" ELSE "open"
<1>1. /\ logFol.at = "select" /\ UNCHANGED <<logInode, logPath, logBoots, logSeen, logRaced>>
      /\ logDirty' = FALSE /\ logFol \in LgFols
  BY DEF Log!Poll, Log!logVars, LgInv, LgTyped
<1>2. CASE logPath = 0
  <2>1. logFol' = [logFol EXCEPT !.at = "end"]
    BY <1>2 DEF Log!Poll
  <2>2. logFol' \in LgFols /\ logFol'.at = "end" /\ logFol'.open = logFol.open
    BY <1>1, <2>1 DEF LgFols
  <2>3. LgView' /\ LgFresh'
    BY <1>1, <1>2, <2>2, "end" # "copy", "end" # "sign", "end" # "select", "end" # "open", "end" # "check"
    DEF LgView, LgFresh
  <2> QED
    BY <1>1, <2>2, <2>3, LgKnown, LgFollows
<1>3. CASE logPath # 0
  <2>1. logFol' = [logFol EXCEPT !.at = at, !.size = logInode[logPath].size]
    BY <1>3 DEF Log!Poll
  <2>2. logInode[logPath] \in [boot : Nat, size : Nat]
    BY <1>3, LgElement DEF LgInv, LgTyped
  <2>3. logInode[logPath].size \in Nat
    BY <2>2
  <2>4. at \in {"check", "open"} /\ (at = "check" => logFol.open = logPath)
    BY "check" # "open"
  <2>5. /\ logFol' \in LgFols /\ logFol'.at = at /\ logFol'.open = logFol.open
        /\ logFol'.offset = logFol.offset /\ logFol'.signature = logFol.signature
    <3> HIDE DEF at
    <3> QED
      BY <1>1, <2>1, <2>3, <2>4 DEF LgFols
  <2>6. at \notin {"copy", "sign", "select"}
    <3> HIDE DEF at
    <3> QED
      BY ONLY <2>4
  <2>7. LgView'
    <3> HIDE DEF at
    <3> QED
      BY <1>1, <2>5, <2>6 DEF LgInv, LgView, LgWaits
  <2>8. LgFresh'
    <3> HIDE DEF at
    <3> QED
      BY <1>1, <2>4, <2>5, <2>6 DEF LgFresh
  <2> HIDE DEF at
  <2> QED
    BY <1>1, <2>5, <2>7, <2>8, LgKnown, LgFollows
<1> QED
  BY <1>2, <1>3

LEMMA LgOpens ==
    ASSUME LgInv, Log!openLog
    PROVE  LgInv'
<1>1. /\ logFol.at = "open" /\ UNCHANGED <<logInode, logPath, logBoots, logSeen, logDirty, logRaced>>
      /\ logFol \in LgFols /\ logDirty \in BOOLEAN
  BY DEF Log!openLog, Log!logVars, LgInv, LgTyped
<1>2. CASE logPath = 0
  <2>1. logFol' = [logFol EXCEPT !.at = "select"]
    BY <1>2 DEF Log!openLog
  <2>2. /\ logFol' \in LgFols /\ logFol'.at = "select" /\ logFol'.open = logFol.open
        /\ logFol'.offset = logFol.offset /\ logFol'.signature = logFol.signature
    BY <1>1, <2>1 DEF LgFols
  <2>3. LgView' /\ LgFresh'
    BY <1>1, <1>2, <2>2, "select" # "copy", "select" # "sign" DEF LgInv, LgView, LgWaits, LgFresh
  <2> QED
    BY <1>1, <2>2, <2>3, LgKnown, LgFollows
<1>3. CASE logPath # 0
  <2>1. logFol' = [logFol EXCEPT !.at = "check", !.open = logPath, !.offset = 0,
                                 !.signature = Log!NoSignature]
    BY <1>3 DEF Log!openLog
  <2>2. logPath \in Nat /\ logPath \in 1..Len(logInode)
    BY <1>3 DEF LgInv, LgTyped
  <2>3. Log!NoSignature \in [boot : Nat, width : Nat]
    BY DEF Log!NoSignature
  <2>4. /\ logFol' \in LgFols /\ logFol'.at = "check" /\ logFol'.open = logPath
        /\ logFol'.offset = 0 /\ logFol'.signature = Log!NoSignature
    BY <1>1, <2>1, <2>2, <2>3 DEF LgFols
  <2>5. Log!NoSignature' = Log!NoSignature
    BY DEF Log!NoSignature
  <2>6. LgView'
    BY <1>1, <2>4, <2>5, "check" # "copy", "check" # "sign" DEF LgView, LgWaits
  <2>7. LgFresh'
    BY <1>1, <2>4, "check" # "select", "check" # "sign" DEF LgFresh
  <2> QED
    BY <1>1, <2>2, <2>4, <2>6, <2>7, LgFollows
<1> QED
  BY <1>2, <1>3

LEMMA LgCancels ==
    ASSUME LgInv, Log!Cancel
    PROVE  LgInv'
<1>1. /\ UNCHANGED <<logInode, logPath, logBoots, logSeen, logDirty, logRaced>>
      /\ logFol \in LgFols /\ logDirty \in BOOLEAN /\ logFol' = [logFol EXCEPT !.at = "end"]
  BY DEF Log!Cancel, Log!logVars, LgInv, LgTyped
<1>2. logFol' \in LgFols /\ logFol'.at = "end" /\ logFol'.open = logFol.open
  BY <1>1 DEF LgFols
<1>3. LgView' /\ LgFresh'
  BY <1>1, <1>2, "end" # "copy", "end" # "sign", "end" # "select", "end" # "open", "end" # "check"
  DEF LgView, LgFresh
<1> QED
  BY <1>1, <1>2, <1>3, LgKnown, LgFollows

LEMMA LgCopied ==
    ASSUME LgInv, Log!copyLog
    PROVE  LgInv'
<1> DEFINE file == logInode[logFol.open]
           was == logSeen[file.boot]
           now == IF logFol.offset <= was /\ was < file.size THEN file.size ELSE was
           off == IF logFol.offset < file.size THEN file.size ELSE logFol.offset
<1>1. /\ logFol.at = "copy" /\ UNCHANGED <<logInode, logPath, logBoots, logDirty, logRaced>>
      /\ logSeen' = [logSeen EXCEPT ![file.boot] = now]
      /\ logFol' = [logFol EXCEPT !.at = "sign", !.offset = off]
  BY DEF Log!copyLog, Log!logVars
<1>2. /\ logFol \in LgFols /\ logSeen \in [1..MaxBoots -> Nat] /\ logBoots \in 1..MaxBoots
      /\ logDirty \in BOOLEAN
  BY DEF LgInv, LgTyped
<1>3. /\ file.boot \in 1..logBoots /\ file.boot \in 1..MaxBoots /\ was \in Nat /\ file.size \in Nat
      /\ was <= file.size /\ logFol.offset \in Nat
  BY LgKnown
<1>4. /\ now \in Nat /\ off \in Nat /\ now <= file.size
      /\ logFol.offset <= was => now = file.size /\ off <= now
  <2> HIDE DEF file, was
  <2> QED
    BY ONLY SMTT(30), <1>3
<1> HIDE DEF now, off
<1>5. /\ logFol' \in LgFols /\ logFol'.at = "sign" /\ logFol'.open = logFol.open
      /\ logFol'.offset = off /\ logFol'.signature = logFol.signature
  BY <1>1, <1>2, <1>4 DEF LgFols
<1>6. /\ logSeen' \in [1..MaxBoots -> Nat] /\ logSeen'[file.boot] = now
      /\ \A b \in 1..MaxBoots : b # file.boot => logSeen'[b] = logSeen[b]
  <2> HIDE DEF file, was
  <2> QED
    BY ONLY <1>1, <1>2, <1>3, <1>4
<1>7. LgTyped'
  BY <1>1, <1>2, <1>5, <1>6 DEF LgInv, LgTyped
<1>8. LgFiles'
  <2>1. ASSUME NEW f \in 1..Len(logInode)
        PROVE  logInode[f].boot \in 1..logBoots /\ logSeen'[logInode[f].boot] <= logInode[f].size
    <3>1. logInode[f].boot \in 1..logBoots /\ logSeen[logInode[f].boot] <= logInode[f].size
      BY DEF LgInv, LgFiles
    <3>2. CASE logInode[f].boot = file.boot
      <4>1. f = logFol.open
        BY <3>2, LgKnown DEF LgInv, LgFiles
      <4> QED
        BY <3>1, <4>1, <1>4, <1>6
    <3>3. CASE logInode[f].boot # file.boot
      BY <3>1, <3>3, <1>6, LgKnown
    <3> QED
      BY <3>2, <3>3
  <2>2. ASSUME NEW b \in 1..MaxBoots, logBoots < b
        PROVE  logSeen'[b] = 0
    <3>1. b # file.boot
      <4> HIDE DEF file
      <4> QED
        BY ONLY SMTT(30), <1>2, <1>3, <2>2, SessionsAssumption
    <3> QED
      BY <2>2, <3>1, <1>6 DEF LgInv, LgFiles
  <2> QED
    BY <1>1, <2>1, <2>2 DEF LgInv, LgFiles
<1>9. LgView'
  <2> SUFFICES ASSUME ~logRaced
               PROVE  LgCopies'
    BY <1>1, <1>5, "sign" # "select", "sign" # "open", "sign" # "check" DEF LgView
  <2>1. LgCopies
    BY <1>1 DEF LgInv, LgView
  <2>2. off <= now
    BY <1>4, <2>1 DEF LgCopies
  <2> QED
    BY <1>1, <1>5, <1>6, <2>1, <2>2 DEF LgCopies
<1>10. LgFresh'
  <2> SUFFICES ASSUME ~logDirty, ~logRaced, logPath # 0
               PROVE  logFol.open = logPath /\ now = file.size
    BY <1>1, <1>5, <1>6 DEF LgFresh
  <2>1. logFol.offset <= was
    BY <1>1 DEF LgInv, LgView, LgCopies
  <2> QED
    BY <1>1, <1>4, <2>1 DEF LgInv, LgFresh
<1> QED
  BY <1>7, <1>8, <1>9, <1>10 DEF LgInv

(* The VMM appends.                                                          *)
LEMMA LgAppends ==
    ASSUME LgInv, Log!Append1
    PROVE  LgInv'
<1>1. /\ logPath # 0 /\ logDirty' = TRUE
      /\ UNCHANGED <<logPath, logBoots, logFol, logSeen, logRaced>>
      /\ logInode' = [logInode EXCEPT ![logPath].size = @ + 1]
  BY DEF Log!Append1
<1>2. logInode \in Seq([boot : Nat, size : Nat]) /\ logPath \in 1..Len(logInode)
  BY <1>1 DEF LgInv, LgTyped
<1>3. /\ logInode' \in Seq([boot : Nat, size : Nat]) /\ Len(logInode') = Len(logInode)
      /\ \A f \in 1..Len(logInode) :
            logInode'[f].boot = logInode[f].boot /\ logInode[f].size <= logInode'[f].size
  <2> DEFINE was == logInode[logPath]
             now == [was EXCEPT !.size = @ + 1]
  <2>1. logInode' = [logInode EXCEPT ![logPath] = now]
    BY <1>1
  <2>2. was \in [boot : Nat, size : Nat]
    BY <1>2, LgElement
  <2> HIDE DEF was
  <2>3. now \in [boot : Nat, size : Nat] /\ now.boot = was.boot /\ was.size <= now.size
    BY ONLY SMTT(30), <2>2
  <2> HIDE DEF now
  <2>4. /\ logInode' \in Seq([boot : Nat, size : Nat]) /\ Len(logInode') = Len(logInode)
        /\ logInode'[logPath] = now
        /\ \A f \in 1..Len(logInode) : f # logPath => logInode'[f] = logInode[f]
    BY ONLY SMTT(30), <1>2, <2>1, <2>3, LgExcept
  <2>5. \A f \in 1..Len(logInode) : logInode[f].size <= logInode[f].size
    <3> SUFFICES ASSUME NEW f \in 1..Len(logInode)
                 PROVE  logInode[f].size <= logInode[f].size
      OBVIOUS
    <3>1. logInode[f] \in [boot : Nat, size : Nat]
      BY <1>2, LgElement
    <3> QED
      BY ONLY SMTT(30), <3>1
  <2> QED
    BY <2>3, <2>4, <2>5 DEF was
<1>4. LgTyped'
  BY <1>1, <1>3 DEF LgInv, LgTyped
<1>5. LgFiles'
  <2>1. ASSUME NEW f \in 1..Len(logInode)
        PROVE  logSeen[logInode[f].boot] <= logInode'[f].size
    <3>1. logInode[f].boot \in 1..logBoots /\ logSeen[logInode[f].boot] <= logInode[f].size
      BY DEF LgInv, LgFiles
    <3>2. logSeen[logInode[f].boot] \in Nat
      BY <3>1, LgKnown DEF LgInv, LgTyped
    <3>3. logInode[f] \in [boot : Nat, size : Nat] /\ logInode'[f] \in [boot : Nat, size : Nat]
      BY <1>2, <1>3, LgElement
    <3>4. logInode[f].size \in Nat /\ logInode'[f].size \in Nat
      BY ONLY <3>3
    <3>5. logInode[f].size <= logInode'[f].size
      BY <1>3
    <3> QED
      BY ONLY SMTT(30), <3>1, <3>2, <3>4, <3>5
  <2> QED
    BY <1>1, <1>3, <2>1 DEF LgInv, LgFiles
<1>6. LgView'
  BY <1>1, <1>3, LgKnown DEF LgInv, LgView, LgCopies, LgWaits
<1>7. LgFresh'
  BY <1>1 DEF LgFresh
<1> QED
  BY <1>4, <1>5, <1>6, <1>7 DEF LgInv

LEMMA LgRemoves ==
    ASSUME LgInv, Log!RemoveLogs
    PROVE  LgInv'
<1>1. logPath' = 0 /\ logDirty' = TRUE /\ UNCHANGED <<logInode, logBoots, logFol, logSeen, logRaced>>
  BY DEF Log!RemoveLogs
<1>2. 0 \in Nat
  OBVIOUS
<1>3. LgTyped' /\ LgFiles'
  BY <1>1, <1>2 DEF LgInv, LgTyped, LgFiles
<1>4. LgView' /\ LgFresh'
  BY <1>1 DEF LgInv, LgView, LgCopies, LgWaits, LgFresh
<1> QED
  BY <1>3, <1>4 DEF LgInv

(* A new VMM truncates its log or puts a file in its place.                  *)
LEMMA LgBoots ==
    ASSUME LgInv, logBoots < MaxBoots
    PROVE  /\ logBoots + 1 \in 1..MaxBoots /\ logBoots + 1 \in 1..(logBoots + 1) /\ logBoots + 1 \in Nat
           /\ \A b \in 1..logBoots : b \in 1..(logBoots + 1) /\ b # logBoots + 1
           /\ \A b \in 1..MaxBoots : logBoots + 1 < b => logBoots < b
           /\ logBoots < logBoots + 1 /\ logSeen[logBoots + 1] = 0 /\ 0 <= 0
           /\ [boot |-> logBoots + 1, size |-> 0] \in [boot : Nat, size : Nat]
           /\ [boot |-> logBoots + 1, size |-> 0].boot = logBoots + 1
           /\ [boot |-> logBoots + 1, size |-> 0].size = 0
<1>1. logBoots \in 1..MaxBoots
  BY DEF LgInv, LgTyped
<1>2. /\ logBoots + 1 \in 1..MaxBoots /\ logBoots + 1 \in 1..(logBoots + 1) /\ logBoots + 1 \in Nat
      /\ \A b \in 1..logBoots : b \in 1..(logBoots + 1) /\ b # logBoots + 1
      /\ \A b \in 1..MaxBoots : logBoots + 1 < b => logBoots < b
      /\ logBoots < logBoots + 1 /\ 0 <= 0
  BY ONLY SMTT(30), <1>1, logBoots < MaxBoots, SessionsAssumption
<1>3. logSeen[logBoots + 1] = 0
  BY <1>2 DEF LgInv, LgFiles
<1>4. /\ [boot |-> logBoots + 1, size |-> 0] \in [boot : Nat, size : Nat]
      /\ [boot |-> logBoots + 1, size |-> 0].boot = logBoots + 1
      /\ [boot |-> logBoots + 1, size |-> 0].size = 0
  BY ONLY <1>2
<1> QED
  BY <1>2, <1>3, <1>4

LEMMA LgTruncates ==
    ASSUME LgInv, Log!Truncate
    PROVE  LgInv'
<1> DEFINE new == [boot |-> logBoots + 1, size |-> 0]
<1>1. /\ logPath # 0 /\ logBoots < MaxBoots /\ logDirty' = TRUE /\ UNCHANGED <<logPath, logFol, logSeen>>
      /\ logBoots' = logBoots + 1 /\ logInode' = [logInode EXCEPT ![logPath] = new]
      /\ logRaced' = (logRaced \/ logFol.at \notin {"select", "end"})
  BY DEF Log!Truncate
<1>2. logInode \in Seq([boot : Nat, size : Nat]) /\ logPath \in 1..Len(logInode)
  BY <1>1 DEF LgInv, LgTyped
<1>3. new \in [boot : Nat, size : Nat] /\ new.boot = logBoots + 1 /\ new.size = 0
  BY <1>1, LgBoots
<1> HIDE DEF new
<1>4. /\ logInode' \in Seq([boot : Nat, size : Nat]) /\ Len(logInode') = Len(logInode)
      /\ logInode'[logPath] = new
      /\ \A f \in 1..Len(logInode) : f # logPath => logInode'[f] = logInode[f]
  BY ONLY SMTT(30), <1>1, <1>2, <1>3, LgExcept
<1>5. LgTyped'
  BY <1>1, <1>4, LgBoots DEF LgInv, LgTyped
<1>6. LgFiles'
  <2>1. ASSUME NEW f \in 1..Len(logInode)
        PROVE  /\ logInode'[f].boot \in 1..logBoots'
               /\ logSeen[logInode'[f].boot] <= logInode'[f].size
    <3>1. CASE f = logPath
      BY ZenonT(30), <3>1, <1>1, <1>3, <1>4, LgBoots
    <3>2. CASE f # logPath
      <4>1. f \in 1..Len(logInode) /\ logInode'[f] = logInode[f]
        BY <3>2, <1>4
      <4>2. logInode[f].boot \in 1..logBoots /\ logSeen[logInode[f].boot] <= logInode[f].size
        BY <4>1 DEF LgInv, LgFiles
      <4> QED
        BY <4>1, <4>2, <1>1, LgBoots
    <3> QED
      BY <3>1, <3>2
  <2>2. ASSUME NEW f \in 1..Len(logInode), f # logPath
        PROVE  logInode'[f].boot # new.boot /\ logInode'[f] = logInode[f] /\ f \in 1..Len(logInode)
    <3>1. f \in 1..Len(logInode) /\ logInode'[f] = logInode[f]
      BY <2>2, <1>4
    <3>2. logInode[f].boot \in 1..logBoots
      BY <3>1 DEF LgInv, LgFiles
    <3> QED
      BY <3>1, <3>2, <1>1, <1>3, LgBoots
  <2>3. ASSUME NEW f \in 1..Len(logInode), NEW g \in 1..Len(logInode), logInode'[f].boot = logInode'[g].boot
        PROVE  f = g
    <3>1. CASE f = logPath \/ g = logPath
      BY <3>1, <2>2, <2>3, <1>4
    <3>2. CASE f # logPath /\ g # logPath
      BY <3>2, <2>2, <2>3 DEF LgInv, LgFiles
    <3> QED
      BY <3>1, <3>2
  <2>4. \A b \in 1..MaxBoots : logBoots' < b => logSeen[b] = 0
    BY <1>1, LgBoots DEF LgInv, LgFiles
  <2> QED
    BY <1>1, <1>4, <2>1, <2>3, <2>4 DEF LgFiles
<1>7. LgView'
  <2> SUFFICES ASSUME ~logRaced'
               PROVE  /\ logFol.at \in {"copy", "sign"} => LgCopies'
                      /\ logFol.at \in {"select", "open", "check"} => LgWaits'
    BY <1>1 DEF LgView
  <2>1. ~logRaced /\ logFol.at \in {"select", "end"}
    BY <1>1
  <2>2. logFol.at \notin {"copy", "sign"}
    BY ONLY <2>1
  <2>3. logFol.at \in {"select", "open", "check"} => LgWaits
    BY <2>1 DEF LgInv, LgView
  <2>4. LgWaits => LgWaits'
    BY <1>1, LgBoots DEF LgWaits
  <2> QED
    BY <2>2, <2>3, <2>4
<1>8. LgFresh'
  BY <1>1 DEF LgFresh
<1> QED
  BY <1>5, <1>6, <1>7, <1>8 DEF LgInv

LEMMA LgReplaces ==
    ASSUME LgInv, Log!Replace
    PROVE  LgInv'
<1> DEFINE new == [boot |-> logBoots + 1, size |-> 0]
           last == Len(logInode) + 1
<1>1. /\ logBoots < MaxBoots /\ logDirty' = TRUE /\ UNCHANGED <<logFol, logSeen, logRaced>>
      /\ logBoots' = logBoots + 1 /\ logInode' = Append(logInode, new) /\ logPath' = last
  BY DEF Log!Replace
<1>2. logInode \in Seq([boot : Nat, size : Nat])
  BY DEF LgInv, LgTyped
<1>3. new \in [boot : Nat, size : Nat] /\ new.boot = logBoots + 1 /\ new.size = 0
  BY <1>1, LgBoots
<1> HIDE DEF new
<1>4. /\ logInode' \in Seq([boot : Nat, size : Nat]) /\ Len(logInode') = last
      /\ logInode'[last] = new
      /\ \A f \in 1..Len(logInode) : logInode'[f] = logInode[f]
      /\ last \in Nat /\ last # 0 /\ last \in 1..last
      /\ \A f \in 1..Len(logInode) : f \in 1..last
      /\ \A f \in 1..last : f = last \/ f \in 1..Len(logInode)
  BY ONLY SMTT(30), <1>1, <1>2, <1>3, LgAppend
<1> HIDE DEF last
<1>5. LgTyped'
  BY <1>1, <1>4, LgBoots DEF LgInv, LgTyped
<1>6. LgFiles'
  <2>1. ASSUME NEW f \in 1..last
        PROVE  /\ logInode'[f].boot \in 1..logBoots'
               /\ logSeen[logInode'[f].boot] <= logInode'[f].size
    <3>1. CASE f = last
      BY <3>1, <1>1, <1>3, <1>4, LgBoots
    <3>2. CASE f # last
      <4>1. f \in 1..Len(logInode) /\ logInode'[f] = logInode[f]
        BY <3>2, <1>4
      <4>2. logInode[f].boot \in 1..logBoots /\ logSeen[logInode[f].boot] <= logInode[f].size
        BY <4>1 DEF LgInv, LgFiles
      <4> QED
        BY <4>1, <4>2, <1>1, LgBoots
    <3> QED
      BY <3>1, <3>2
  <2>2. ASSUME NEW f \in 1..last, f # last
        PROVE  logInode'[f].boot # new.boot /\ logInode'[f] = logInode[f] /\ f \in 1..Len(logInode)
    <3>1. f \in 1..Len(logInode) /\ logInode'[f] = logInode[f]
      BY <2>2, <1>4
    <3>2. logInode[f].boot \in 1..logBoots
      BY <3>1 DEF LgInv, LgFiles
    <3> QED
      BY <3>1, <3>2, <1>1, <1>3, LgBoots
  <2>3. ASSUME NEW f \in 1..last, NEW g \in 1..last, logInode'[f].boot = logInode'[g].boot
        PROVE  f = g
    <3>1. CASE f = last \/ g = last
      BY <3>1, <2>2, <2>3, <1>4
    <3>2. CASE f # last /\ g # last
      BY <3>2, <2>2, <2>3 DEF LgInv, LgFiles
    <3> QED
      BY <3>1, <3>2
  <2>4. \A b \in 1..MaxBoots : logBoots' < b => logSeen[b] = 0
    BY <1>1, LgBoots DEF LgInv, LgFiles
  <2> QED
    BY <1>1, <1>4, <2>1, <2>3, <2>4 DEF LgFiles
<1>7. LgView'
  <2>1. LgCopies => LgCopies'
    BY <1>1, <1>4, LgKnown DEF LgCopies
  <2>2. LgWaits => LgWaits'
    BY <1>1, LgBoots DEF LgWaits
  <2> QED
    BY <1>1, <2>1, <2>2 DEF LgInv, LgView
<1>8. LgFresh'
  BY <1>1 DEF LgFresh
<1> QED
  BY <1>5, <1>6, <1>7, <1>8 DEF LgInv

LEMMA LgInit ==
    ASSUME Log!Init
    PROVE  LgInv
<1>1. PICK n \in 0..MaxSize : logInode = <<[boot |-> 1, size |-> n]>>
  BY DEF Log!Init
<1>2. PICK start \in 0..logInode[1].size :
        /\ logFol = [at |-> "copy", open |-> 1, offset |-> start, size |-> 0,
                     signature |-> Log!NoSignature, first |-> TRUE]
        /\ logSeen = [b \in 1..MaxBoots |-> IF b = 1 THEN start ELSE 0]
  BY DEF Log!Init
<1>3. logPath = 1 /\ logBoots = 1 /\ logDirty = FALSE /\ logRaced = FALSE
  BY DEF Log!Init
<1>4. /\ logInode \in Seq([boot : Nat, size : Nat]) /\ Len(logInode) = 1
      /\ logInode[1].boot = 1 /\ logInode[1].size = n /\ n \in Nat /\ start \in Nat /\ start <= n
  BY SMTT(30), <1>1
<1>5. /\ logFol \in LgFols /\ logFol.at = "copy" /\ logFol.open = 1 /\ logFol.offset = start
      /\ logFol.signature = Log!NoSignature
  BY <1>2, <1>4 DEF LgFols, Log!NoSignature
<1>6. /\ logSeen \in [1..MaxBoots -> Nat] /\ logSeen[1] = start /\ 1 \in 1..MaxBoots
      /\ \A b \in 1..MaxBoots : 1 < b => logSeen[b] = 0
  BY ONLY SMTT(30), <1>2, <1>4, SessionsAssumption
<1>7. /\ 1 \in Nat /\ 1 \in 1..1 /\ (\A f \in 1..1 : f = 1) /\ start <= start
  BY ONLY SMTT(30), <1>4
<1>8. LgTyped
  BY <1>3, <1>4, <1>5, <1>6, <1>7 DEF LgTyped
<1>9. LgFiles
  BY <1>3, <1>4, <1>6, <1>7 DEF LgFiles
<1>10. LgView
  BY <1>4, <1>5, <1>6, <1>7, "copy" # "select", "copy" # "open", "copy" # "check" DEF LgView, LgCopies
<1>11. LgFresh
  BY <1>3, <1>5, "copy" # "select", "copy" # "sign" DEF LgFresh
<1> QED
  BY <1>8, <1>9, <1>10, <1>11 DEF LgInv

LEMMA LgNext ==
    ASSUME LgInv, Log!Next
    PROVE  LgInv'
  BY LgAppends, LgTruncates, LgReplaces, LgRemoves, LgCopied, LgSigns, LgPolls, LgOpens, LgChecks,
     LgCancels DEF Log!Next

LEMMA LgUpToDate == LgInv => Log!FollowerIsUpToDate
  BY DEF LgInv, LgFresh, Log!FollowerIsUpToDate

LEMMA LgInvariant == SessionsSpec => [](focus = "log" => LgInv)
<1> DEFINE Inv == focus = "log" => LgInv
<1>1. SessionsInit => Inv
  BY LgInit DEF SessionsInit
<1>2. Inv /\ [SessionsNext]_sessionsVars => Inv'
  <2> SUFFICES ASSUME Inv, [SessionsNext]_sessionsVars, focus' = "log"
               PROVE  LgInv'
    OBVIOUS
  <2>1. CASE LogStep
    BY <2>1, LgNext DEF LogStep
  <2>2. CASE RelayStep \/ ExecStep
    BY <2>2 DEF RelayStep, ExecStep
  <2>3. CASE UNCHANGED sessionsVars
    <3>1. focus' = focus /\ UNCHANGED logVars
      BY <2>3 DEF sessionsVars
    <3> QED
      BY <3>1, LgUnchanged
  <2> QED
    BY <2>1, <2>2, <2>3 DEF SessionsNext
<1> QED
  BY <1>1, <1>2, PTL DEF SessionsSpec

-----------------------------------------------------------------------------

(* A foreground command.  Until the terminal frame is sent, what the command *)
(* wrote is on its way or has arrived; what a status says of the command is  *)
(* settled before it is sent.                                                *)

ExFinals == Exec!Codes \cup {"error"}
ExHosts == [run : Exec!Codes \cup {"run", "error", "replied"}, send : {"read", "close", "done"},
            inputError : BOOLEAN, cancelled : BOOLEAN]
ExServers == [at : {"accept", "start", "wait", "drain", "join", "end"}, closed : BOOLEAN, ctx : BOOLEAN,
              deadline : BOOLEAN, wait : Exec!Codes \cup {"none", "silent", "error"}, delayed : BOOLEAN]
ExRecvs == [at : {"none", "decode", "write", "cancel", "done"}, error : BOOLEAN]
ExProcs == [state : {"none", "running", "exited"}, code : Exec!Codes, read : Nat, wrote : Nat, eof : BOOLEAN]
ExOuts == [n : Nat, copy : {"run", "end"}, error : BOOLEAN]

ExTyped ==
    /\ execBody \in [left : Nat, there : BOOLEAN] /\ execCall \in ExFinals \cup {"none"}
    /\ execFrames \in Seq(ExFinals \cup {"stdout"}) /\ execGot \in Nat
    /\ execSession \in {"ok", "broken"} /\ execHost \in ExHosts
    /\ execUp \in Seq({"stdin", "close"}) /\ execDown \in Seq(ExFinals \cup {"started", "stdout"})
    /\ execSrv \in ExServers /\ execRecv \in ExRecvs /\ execPipe \in [n : Nat, closed : BOOLEAN]
    /\ execProc \in ExProcs /\ execOut \in ExOuts

(* How far the server, the command and the copy of its output are.           *)
ExEarly ==
    execSrv.at \in {"accept", "start"} =>
        /\ execProc.state = "none" /\ execProc.wrote = 0 /\ execOut.n = 0 /\ execDown = <<>>
        /\ execSrv.wait = "none"
ExIdle ==
    /\ execRecv.at = "none" => execPipe.n = 0 /\ execProc.read = 0
    /\ execProc.state = "none" => execRecv.at = "none" /\ ~execProc.eof
ExPhase ==
    /\ execProc.state = "running" => execSrv.at = "wait"
    /\ execSrv.at = "wait" => execSrv.wait \in {"none", "silent"}
    /\ execSrv.at \in {"drain", "join"} =>
        /\ execProc.state = "exited" /\ execSrv.wait # "none"
        /\ execSrv.wait \in Exec!Codes => execProc.code = execSrv.wait
ExCopy ==
    /\ execOut.copy = "end" /\ ~execOut.error => execOut.n = 0 /\ execProc.state = "exited"
    /\ execSrv.at = "join" /\ ~execSrv.delayed => execOut.copy = "end"
ExLinked ==
    /\ execHost.run = "run" => execSession = "ok"
    /\ execBody.there <=> execCall = "none"
ExControl == ExEarly /\ ExIdle /\ ExPhase /\ ExCopy /\ ExLinked

(* The input.                                                                *)
ExHeld == IF execRecv.at = "write" THEN 1 ELSE 0
ExTaken == ExHeld + (execPipe.n + execProc.read)
ExSending ==
    execHost.send = "read" /\ {"host", "guest"} \subseteq execOpen =>
        /\ \A i \in 1..Len(execUp) : execUp[i] = "stdin"
        /\ ~execPipe.closed => execBody.left + (Len(execUp) + ExTaken) = Chunks
ExClosing ==
    \A i \in 1..Len(execUp) : execUp[i] = "close" =>
        /\ i = Len(execUp) /\ execHost.send = "done"
        /\ ~execPipe.closed => execHost.inputError \/ Len(execUp) + ExTaken = Chunks + 1
ExTold == execHost.send = "close" => execHost.inputError
ExExcused == execSrv.ctx \/ execRecv.error \/ execHost.inputError
ExCut ==
    execPipe.closed =>
        ExExcused \/ execPipe.n + execProc.read = Chunks \/ execProc.state = "exited"
ExEof ==
    execProc.eof => execPipe.n = 0 /\ execPipe.closed /\ (ExExcused \/ execProc.read = Chunks)
ExLate ==
    execSrv.at \in {"drain", "join"} /\ execSrv.wait = "0" /\ execProc.eof =>
        execRecv.error \/ execHost.inputError \/ execProc.read = Chunks
ExInput == ExSending /\ ExClosing /\ ExTold /\ ExCut /\ ExEof /\ ExLate

(* The output.                                                               *)
ExEnded(code) == execSrv.at = "end" /\ execProc.state = "exited" /\ execProc.code = code
ExLead == IF Len(execDown) > 0 /\ execDown[1] = "started" THEN 1 ELSE 0
ExPassed == Len(execFrames) + execGot
ExFlowing ==
    /\ execHost.run = "run" /\ execCall = "none" /\ "host" \in execOpen /\ execSrv.at # "end"
    /\ ~execSrv.delayed /\ ~execOut.error
    => execOut.n + (Len(execDown) + ExPassed) = execProc.wrote + ExLead
ExHeard(code) ==
    ExEnded(code) /\ (code = "0" /\ execProc.eof => execHost.inputError \/ execProc.read = Chunks)
ExDown ==
    \A i \in 1..Len(execDown) :
        /\ execDown[i] = "started" => i = 1
        /\ execDown[i] \in ExFinals => i = Len(execDown) /\ execSrv.at = "end"
        /\ execDown[i] \in Exec!Codes /\ execHost.run = "run" =>
            /\ ExHeard(execDown[i])
            /\ execCall = "none" /\ ~execSrv.delayed => Len(execDown) + ExPassed = (execProc.wrote + ExLead) + 1
ExKnows(code) == ExEnded(code) /\ (code = "0" /\ execProc.eof => execProc.read = Chunks)
ExReturned ==
    execHost.run \in Exec!Codes =>
        /\ ExKnows(execHost.run)
        /\ execCall = "none" /\ ~execSrv.delayed => ExPassed = execProc.wrote
ExReplied ==
    \A i \in 1..Len(execFrames) : execFrames[i] # "stdout" =>
        /\ i = Len(execFrames) /\ execHost.run = "replied"
        /\ execFrames[i] \in Exec!Codes =>
            /\ ExKnows(execFrames[i])
            /\ ~execSrv.delayed => ExPassed = execProc.wrote + 1
ExCalled ==
    execCall \in Exec!Codes =>
        ExKnows(execCall) /\ (~execSrv.delayed => execGot = execProc.wrote)
ExOutput == ExFlowing /\ ExDown /\ ExReturned /\ ExReplied /\ ExCalled

ExInv == ExTyped /\ ExControl /\ ExInput /\ ExOutput

LEMMA ExUnchanged ==
    ASSUME ExInv, UNCHANGED execVars
    PROVE  ExInv'
<1>1. /\ execBody' = execBody /\ execCall' = execCall /\ execFrames' = execFrames /\ execGot' = execGot
      /\ execSession' = execSession /\ execHost' = execHost /\ execUp' = execUp /\ execDown' = execDown
      /\ execOpen' = execOpen /\ execSrv' = execSrv /\ execRecv' = execRecv /\ execPipe' = execPipe
      /\ execProc' = execProc /\ execOut' = execOut
  BY DEF execVars
<1>2. ExTyped' /\ ExControl'
  <2>1. ExTyped'
    BY <1>1 DEF ExInv, ExTyped
  <2>2. ExEarly' /\ ExIdle' /\ ExPhase'
    BY <1>1 DEF ExInv, ExControl, ExEarly, ExIdle, ExPhase
  <2>3. ExCopy' /\ ExLinked'
    BY <1>1 DEF ExInv, ExControl, ExCopy, ExLinked
  <2> QED
    BY <2>1, <2>2, <2>3 DEF ExControl
<1>3. ExSending' /\ ExClosing'
  BY <1>1 DEF ExInv, ExInput, ExSending, ExClosing, ExTaken, ExHeld
<1>4. ExTold' /\ ExCut' /\ ExEof' /\ ExLate'
  BY <1>1 DEF ExInv, ExInput, ExTold, ExCut, ExEof, ExLate, ExExcused
<1>5. ExFlowing' /\ ExDown'
  BY <1>1 DEF ExInv, ExOutput, ExFlowing, ExDown, ExHeard, ExEnded, ExLead, ExPassed
<1>6. ExReturned' /\ ExReplied' /\ ExCalled'
  BY <1>1 DEF ExInv, ExOutput, ExReturned, ExReplied, ExCalled, ExKnows, ExEnded, ExPassed
<1> QED
  BY <1>2, <1>3, <1>4, <1>5, <1>6 DEF ExInv, ExInput, ExOutput

(* Steps that move no input, and no output towards the caller.               *)
LEMMA ExInputStays ==
    ASSUME ExInv, execUp' = execUp, execBody'.left = execBody.left, execHost'.send = execHost.send,
           execHost.inputError => execHost'.inputError, execSrv.ctx => execSrv'.ctx,
           execRecv.error => execRecv'.error, execRecv'.at = "write" <=> execRecv.at = "write",
           execOpen' \subseteq execOpen, execPipe'.n = execPipe.n, execPipe.closed => execPipe'.closed,
           execPipe'.closed =>
               execPipe.closed \/ execProc'.state = "exited" \/ execSrv'.ctx \/ execRecv'.error,
           execProc'.read = execProc.read, execProc'.eof <=> execProc.eof,
           execProc.state = "exited" => execProc'.state = "exited", ExLate'
    PROVE  ExInput'
<1>1. ExTaken' = ExTaken
  BY DEF ExTaken, ExHeld
<1>2. ExExcused => ExExcused'
  BY DEF ExExcused
<1>3. ExSending' /\ ExClosing'
  BY <1>1 DEF ExInv, ExInput, ExSending, ExClosing
<1>4. ExCut'
  BY <1>2 DEF ExInv, ExInput, ExCut, ExExcused
<1>5. ExTold' /\ ExEof'
  BY <1>2 DEF ExInv, ExInput, ExTold, ExEof
<1> QED
  BY <1>3, <1>4, <1>5 DEF ExInput

LEMMA ExFlowingStays ==
    ASSUME ExInv, UNCHANGED <<execCall, execFrames, execGot, execDown, execOut>>,
           execProc'.wrote = execProc.wrote, execHost'.run = execHost.run, execOpen' \subseteq execOpen,
           execSrv'.at # "end" => execSrv.at # "end", execSrv.delayed => execSrv'.delayed
    PROVE  ExFlowing'
<1>1. ExPassed' = ExPassed /\ ExLead' = ExLead
  BY DEF ExPassed, ExLead
<1> QED
  BY <1>1 DEF ExInv, ExOutput, ExFlowing

LEMMA ExOutputStays ==
    ASSUME ExInv, UNCHANGED <<execCall, execFrames, execGot, execDown>>, execHost'.run = execHost.run,
           execHost.inputError => execHost'.inputError,
           execSrv.at = "end" =>
               execProc' = execProc /\ execSrv'.at = "end" /\ execSrv'.delayed = execSrv.delayed,
           ExFlowing'
    PROVE  ExOutput'
<1>1. ExPassed' = ExPassed /\ ExLead' = ExLead
  BY DEF ExPassed, ExLead
<1>2. \A c \in Exec!Codes : ExEnded(c) =>
            ExEnded(c)' /\ execProc' = execProc /\ execSrv'.delayed = execSrv.delayed
  BY DEF ExEnded
<1>3. \A c \in Exec!Codes : (ExHeard(c) => ExHeard(c)') /\ (ExKnows(c) => ExKnows(c)')
  BY <1>2 DEF ExHeard, ExKnows
<1>4. ExDown'
  BY <1>1, <1>2, <1>3 DEF ExInv, ExOutput, ExDown, ExHeard
<1>5. ExReturned'
  BY <1>1, <1>2, <1>3 DEF ExInv, ExOutput, ExReturned, ExKnows
<1>6. ExReplied'
  BY <1>1, <1>2, <1>3 DEF ExInv, ExOutput, ExReplied, ExKnows
<1>7. ExCalled'
  BY <1>1, <1>2, <1>3 DEF ExInv, ExOutput, ExCalled, ExKnows
<1> QED
  BY <1>4, <1>5, <1>6, <1>7 DEF ExOutput

LEMMA ExStops ==
    ASSUME ExInv, Exec!Stop
    PROVE  ExInv'
<1>1. /\ UNCHANGED <<execBody, execCall, execFrames, execGot, execSession, execHost, execUp, execDown,
                     execOpen, execRecv, execPipe, execProc, execOut>>
      /\ execSrv' = [execSrv EXCEPT !.closed = TRUE, !.ctx = TRUE] /\ execSrv \in ExServers
  BY DEF Exec!Stop, Exec!callerVars, Exec!hostVars, ExInv, ExTyped
<1>2. /\ execSrv' \in ExServers /\ execSrv'.at = execSrv.at /\ execSrv'.wait = execSrv.wait
      /\ execSrv'.delayed = execSrv.delayed /\ execSrv'.ctx
  BY ONLY Zenon, <1>1 DEF ExServers
<1>3. ExTyped'
  BY <1>1, <1>2 DEF ExInv, ExTyped
<1>4. ExControl'
  BY <1>1, <1>2 DEF ExInv, ExControl, ExEarly, ExIdle, ExPhase, ExCopy, ExLinked
<1>5. ExLate'
  BY <1>1, <1>2 DEF ExInv, ExInput, ExLate
<1>6. ExInput'
  BY <1>1, <1>2, <1>5, ExInputStays
<1>7. ExFlowing'
  BY <1>1, <1>2, ExFlowingStays
<1>8. ExOutput'
  BY <1>1, <1>2, <1>7, ExOutputStays
<1> QED
  BY <1>3, <1>4, <1>6, <1>8 DEF ExInv

LEMMA ExCloses ==
    ASSUME ExInv, Exec!Close \/ Exec!HostClose
    PROVE  ExInv'
<1>1. /\ UNCHANGED <<execBody, execCall, execFrames, execGot, execSession, execHost, execUp, execDown,
                     execSrv, execRecv, execPipe, execProc, execOut>>
      /\ execOpen' \subseteq execOpen
  BY DEF Exec!Close, Exec!HostClose, Exec!callerVars, Exec!hostVars, Exec!guestVars
<1>2. ExTyped'
  BY <1>1 DEF ExInv, ExTyped
<1>3. ExControl'
  BY <1>1 DEF ExInv, ExControl, ExEarly, ExIdle, ExPhase, ExCopy, ExLinked
<1>4. ExLate'
  BY <1>1 DEF ExInv, ExInput, ExLate
<1>5. ExInput'
  BY <1>1, <1>4, ExInputStays
<1>6. ExFlowing'
  BY <1>1, ExFlowingStays
<1>7. ExOutput'
  BY <1>1, <1>6, ExOutputStays
<1> QED
  BY <1>2, <1>3, <1>5, <1>7 DEF ExInv

LEMMA ExTracks ==
    ASSUME ExInv, Exec!track
    PROVE  ExInv'
<1>1. /\ UNCHANGED <<execBody, execCall, execFrames, execGot, execSession, execHost, execUp, execDown,
                     execRecv, execPipe, execProc, execOut>>
      /\ execOpen' \subseteq execOpen /\ execSrv.at = "accept" /\ execSrv \in ExServers
      /\ \E at \in {"start", "end"} : execSrv' = [execSrv EXCEPT !.at = at]
  BY DEF Exec!track, Exec!callerVars, Exec!hostVars, ExInv, ExTyped
<1>2. /\ execSrv' \in ExServers /\ execSrv'.at \in {"start", "end"} /\ execSrv'.wait = execSrv.wait
      /\ execSrv'.delayed = execSrv.delayed /\ execSrv'.ctx = execSrv.ctx
  BY ONLY <1>1 DEF ExServers
<1>3. ExTyped'
  BY <1>1, <1>2 DEF ExInv, ExTyped
<1>4. execSrv'.at \notin {"wait", "drain", "join"} /\ execSrv.at \in {"accept", "start"} /\ execSrv.at # "end"
  BY ONLY <1>1, <1>2
<1>5. ExControl'
  <2>1. ExEarly
    BY DEF ExInv, ExControl
  <2>2. execProc.state = "none"
    BY <1>4, <2>1 DEF ExEarly
  <2>3. execProc.state # "running" /\ execProc.state # "exited"
    BY ONLY <2>2
  <2>4. ExEarly' /\ ExIdle'
    BY <1>1, <1>2, <1>4, <2>1 DEF ExInv, ExControl, ExEarly, ExIdle
  <2>5. ExPhase' /\ ExCopy' /\ ExLinked'
    BY <1>1, <1>4, <2>3 DEF ExInv, ExControl, ExPhase, ExCopy, ExLinked
  <2> QED
    BY <2>4, <2>5 DEF ExControl
<1>6. ExLate'
  BY <1>4 DEF ExLate
<1>7. ExInput'
  BY <1>1, <1>2, <1>6, ExInputStays
<1>8. ExFlowing'
  BY <1>1, <1>2, <1>4, ExFlowingStays
<1>9. ExOutput'
  BY <1>1, <1>2, <1>4, <1>8, ExOutputStays
<1> QED
  BY <1>3, <1>5, <1>7, <1>9 DEF ExInv

LEMMA ExReaps ==
    ASSUME ExInv, Exec!Reap
    PROVE  ExInv'
<1> DEFINE w == IF execSrv.wait = "silent" THEN execSrv.wait
                ELSE IF execProc.code = "0" /\ execSrv.ctx THEN "error" ELSE execProc.code
<1>1. /\ UNCHANGED <<execBody, execCall, execFrames, execGot, execSession, execHost, execUp, execDown,
                     execOpen, execRecv, execPipe, execProc, execOut>>
      /\ execSrv.at = "wait" /\ execProc.state = "exited" /\ execSrv \in ExServers /\ execProc \in ExProcs
      /\ execSrv' = [execSrv EXCEPT !.at = "drain", !.wait = w]
  BY DEF Exec!Reap, Exec!callerVars, Exec!hostVars, ExInv, ExTyped
<1>2. execProc.code \in Exec!Codes
  BY ONLY <1>1 DEF ExProcs
<1>3. /\ w \in Exec!Codes \cup {"silent", "error"} /\ (w \in Exec!Codes => w = execProc.code)
      /\ w = "0" => ~execSrv.ctx
  BY ONLY <1>2 DEF Exec!Codes
<1> HIDE DEF w
<1>4. /\ execSrv' \in ExServers /\ execSrv'.at = "drain" /\ execSrv'.wait = w
      /\ execSrv'.delayed = execSrv.delayed /\ execSrv'.ctx = execSrv.ctx
  BY ONLY Zenon, <1>1, <1>3 DEF ExServers
<1>5. w # "none" /\ execSrv.at # "end" /\ execSrv'.at \notin {"accept", "start", "wait", "join", "end"}
  BY ONLY <1>1, <1>3, <1>4 DEF Exec!Codes
<1>6. ExTyped'
  BY <1>1, <1>4 DEF ExInv, ExTyped
<1>7. ExControl'
  <2>1. execProc.state # "running"
    BY ONLY <1>1
  <2>2. ExEarly' /\ ExIdle' /\ ExPhase'
    BY <1>1, <1>3, <1>4, <1>5, <2>1 DEF ExInv, ExControl, ExEarly, ExIdle, ExPhase
  <2>3. ExCopy' /\ ExLinked'
    BY <1>1, <1>5 DEF ExInv, ExControl, ExCopy, ExLinked
  <2> QED
    BY <2>2, <2>3 DEF ExControl
<1>8. ExLate'
  BY <1>1, <1>3, <1>4 DEF ExInv, ExInput, ExLate, ExEof, ExExcused
<1>9. ExInput'
  BY <1>1, <1>4, <1>8, ExInputStays
<1>10. ExFlowing'
  BY <1>1, <1>4, <1>5, ExFlowingStays
<1>11. ExOutput'
  BY <1>1, <1>4, <1>5, <1>10, ExOutputStays
<1> QED
  BY <1>6, <1>7, <1>9, <1>11 DEF ExInv

LEMMA ExDrains ==
    ASSUME ExInv, Exec!Drained
    PROVE  ExInv'
<1>1. /\ UNCHANGED <<execBody, execCall, execFrames, execGot, execSession, execHost, execUp, execDown,
                     execOpen, execRecv, execProc, execOut>>
      /\ execSrv.at = "drain" /\ execOut.copy = "end" /\ execSrv \in ExServers
      /\ execPipe \in [n : Nat, closed : BOOLEAN]
      /\ execSrv' = [execSrv EXCEPT !.at = "join", !.ctx = TRUE, !.deadline = TRUE]
      /\ execPipe' = [execPipe EXCEPT !.closed = TRUE]
  BY DEF Exec!Drained, Exec!AfterWait, Exec!callerVars, Exec!hostVars, ExInv, ExTyped
<1>2. /\ execSrv' \in ExServers /\ execSrv'.at = "join" /\ execSrv'.wait = execSrv.wait
      /\ execSrv'.delayed = execSrv.delayed /\ execSrv'.ctx
      /\ execPipe' \in [n : Nat, closed : BOOLEAN] /\ execPipe'.n = execPipe.n /\ execPipe'.closed
  BY ONLY Zenon, <1>1 DEF ExServers
<1>3. /\ execSrv.at # "end" /\ execSrv'.at \notin {"accept", "start", "wait", "end"}
      /\ execSrv.at \in {"drain", "join"}
  BY ONLY <1>1, <1>2
<1>4. execProc.state = "exited"
  BY <1>3 DEF ExInv, ExControl, ExPhase
<1>5. ExTyped'
  BY <1>1, <1>2 DEF ExInv, ExTyped
<1>6. ExControl'
  <2>1. execProc.state # "running"
    BY ONLY <1>4
  <2>2. ExEarly' /\ ExIdle' /\ ExPhase'
    BY <1>1, <1>2, <1>3, <1>4, <2>1 DEF ExInv, ExControl, ExEarly, ExIdle, ExPhase
  <2>3. ExCopy' /\ ExLinked'
    BY <1>1, <1>3 DEF ExInv, ExControl, ExCopy, ExLinked
  <2> QED
    BY <2>2, <2>3 DEF ExControl
<1>7. ExLate'
  BY <1>1, <1>2, <1>3 DEF ExInv, ExInput, ExLate
<1>8. ExInput'
  BY <1>1, <1>2, <1>7, ExInputStays
<1>9. ExFlowing'
  BY <1>1, <1>2, <1>3, ExFlowingStays
<1>10. ExOutput'
  BY <1>1, <1>2, <1>3, <1>9, ExOutputStays
<1> QED
  BY <1>5, <1>6, <1>8, <1>10 DEF ExInv

LEMMA ExDelays ==
    ASSUME ExInv, Exec!WaitDelay
    PROVE  ExInv'
<1>1. /\ UNCHANGED <<execBody, execCall, execFrames, execGot, execSession, execHost, execUp, execDown,
                     execOpen, execRecv, execProc>>
      /\ execSrv.at = "drain" /\ execOut.copy # "end" /\ execSrv \in ExServers /\ execOut \in ExOuts
      /\ execPipe \in [n : Nat, closed : BOOLEAN]
      /\ execSrv' = [[execSrv EXCEPT !.at = "join", !.ctx = TRUE, !.deadline = TRUE] EXCEPT !.delayed = TRUE]
      /\ execPipe' = [execPipe EXCEPT !.closed = TRUE]
      /\ \E n \in {0, 1} : execOut' = [execOut EXCEPT !.n = n]
  BY DEF Exec!WaitDelay, Exec!AfterWait, Exec!callerVars, Exec!hostVars, ExInv, ExTyped
<1>2. /\ execSrv' \in ExServers /\ execSrv'.at = "join" /\ execSrv'.wait = execSrv.wait
      /\ execSrv'.delayed /\ execSrv'.ctx
      /\ execPipe' \in [n : Nat, closed : BOOLEAN] /\ execPipe'.n = execPipe.n /\ execPipe'.closed
  BY ONLY Zenon, <1>1 DEF ExServers
<1>3. execOut' \in ExOuts /\ execOut'.copy = execOut.copy
  BY ONLY SMTT(30), <1>1 DEF ExOuts
<1>4. /\ execSrv.at # "end" /\ execSrv'.at \notin {"accept", "start", "wait", "end"}
      /\ execSrv.at \in {"drain", "join"}
  BY ONLY <1>1, <1>2
<1>5. execProc.state = "exited"
  BY <1>4 DEF ExInv, ExControl, ExPhase
<1>6. ExTyped'
  BY <1>1, <1>2, <1>3 DEF ExInv, ExTyped
<1>7. ExControl'
  <2>1. execProc.state # "running"
    BY ONLY <1>5
  <2>2. ExEarly' /\ ExIdle' /\ ExPhase'
    BY <1>1, <1>2, <1>4, <1>5, <2>1 DEF ExInv, ExControl, ExEarly, ExIdle, ExPhase
  <2>3. ExCopy' /\ ExLinked'
    BY <1>1, <1>2, <1>3 DEF ExInv, ExControl, ExCopy, ExLinked
  <2> QED
    BY <2>2, <2>3 DEF ExControl
<1>8. ExLate'
  BY <1>1, <1>2, <1>4 DEF ExInv, ExInput, ExLate
<1>9. ExInput'
  BY <1>1, <1>2, <1>8, ExInputStays
<1>10. ExFlowing'
  BY <1>2 DEF ExFlowing
<1>11. ExOutput'
  BY <1>1, <1>4, <1>10, ExOutputStays
<1> QED
  BY <1>6, <1>7, <1>9, <1>11 DEF ExInv

LEMMA ExCopyEnds ==
    ASSUME ExInv, Exec!CopyEnd
    PROVE  ExInv'
<1>1. /\ UNCHANGED <<execBody, execCall, execFrames, execGot, execSession, execHost, execUp, execDown,
                     execOpen, execSrv, execRecv, execPipe, execProc>>
      /\ execOut.n = 0 /\ execProc.state = "exited" /\ execOut \in ExOuts
      /\ execOut' = [execOut EXCEPT !.copy = "end"]
  BY DEF Exec!CopyEnd, Exec!callerVars, Exec!hostVars, ExInv, ExTyped
<1>2. execOut' \in ExOuts /\ execOut'.copy = "end" /\ execOut'.n = execOut.n /\ execOut'.error = execOut.error
  BY ONLY <1>1 DEF ExOuts
<1>3. ExTyped'
  BY <1>1, <1>2 DEF ExInv, ExTyped
<1>4. ExControl'
  BY <1>1, <1>2 DEF ExInv, ExControl, ExEarly, ExIdle, ExPhase, ExCopy, ExLinked
<1>5. ExLate'
  BY <1>1 DEF ExInv, ExInput, ExLate
<1>6. ExInput'
  BY <1>1, <1>5, ExInputStays
<1>7. ExFlowing'
  <2>1. ExPassed' = ExPassed /\ ExLead' = ExLead
    BY <1>1 DEF ExPassed, ExLead
  <2> QED
    BY <1>1, <1>2, <2>1 DEF ExInv, ExOutput, ExFlowing
<1>8. ExOutput'
  BY <1>1, <1>7, ExOutputStays
<1> QED
  BY <1>3, <1>4, <1>6, <1>8 DEF ExInv

LEMMA ExRecvCancels ==
    ASSUME ExInv, Exec!RecvCancel
    PROVE  ExInv'
<1>1. /\ UNCHANGED <<execBody, execCall, execFrames, execGot, execSession, execHost, execUp, execDown,
                     execOpen, execPipe, execProc, execOut>>
      /\ execRecv.at = "cancel" /\ execSrv \in ExServers /\ execRecv \in ExRecvs
      /\ execSrv' = [execSrv EXCEPT !.ctx = TRUE] /\ execRecv' = [execRecv EXCEPT !.at = "done"]
  BY DEF Exec!RecvCancel, Exec!callerVars, Exec!hostVars, ExInv, ExTyped
<1>2. /\ execSrv' \in ExServers /\ execSrv'.at = execSrv.at /\ execSrv'.wait = execSrv.wait
      /\ execSrv'.delayed = execSrv.delayed /\ execSrv'.ctx
  BY ONLY Zenon, <1>1 DEF ExServers
<1>3. /\ execRecv' \in ExRecvs /\ execRecv'.at = "done" /\ execRecv'.error = execRecv.error
      /\ execRecv.at # "none" /\ execRecv'.at # "none" /\ execRecv.at # "write" /\ execRecv'.at # "write"
  BY ONLY <1>1 DEF ExRecvs
<1>4. ExTyped'
  BY <1>1, <1>2, <1>3 DEF ExInv, ExTyped
<1>5. ExControl'
  BY <1>1, <1>2, <1>3 DEF ExInv, ExControl, ExEarly, ExIdle, ExPhase, ExCopy, ExLinked
<1>6. ExLate'
  BY <1>1, <1>2, <1>3 DEF ExInv, ExInput, ExLate
<1>7. ExInput'
  BY <1>1, <1>2, <1>3, <1>6, ExInputStays
<1>8. ExFlowing'
  BY <1>1, <1>2, ExFlowingStays
<1>9. ExOutput'
  BY <1>1, <1>2, <1>8, ExOutputStays
<1> QED
  BY <1>4, <1>5, <1>7, <1>9 DEF ExInv

(* Steps of the goroutine that receives the input alone.                     *)
LEMMA ExRecvStep ==
    ASSUME ExInv, UNCHANGED <<execBody, execCall, execFrames, execGot, execSession, execHost, execDown,
                              execOpen, execSrv, execProc, execOut>>,
           execUp' \in Seq({"stdin", "close"}), execRecv' \in ExRecvs,
           execPipe' \in [n : Nat, closed : BOOLEAN],
           execRecv.at # "none", execRecv'.at # "none", execRecv.error => execRecv'.error, ExInput'
    PROVE  ExInv'
<1>1. ExTyped'
  BY DEF ExInv, ExTyped
<1>2. ExControl'
  BY DEF ExInv, ExControl, ExEarly, ExIdle, ExPhase, ExCopy, ExLinked
<1>3. ExFlowing'
  BY ExFlowingStays
<1>4. ExOutput'
  BY <1>3, ExOutputStays
<1> QED
  BY <1>1, <1>2, <1>4 DEF ExInv

LEMMA ExRecvFails ==
    ASSUME ExInv, Exec!RecvFailed
    PROVE  ExInv'
<1>1. /\ UNCHANGED <<execBody, execCall, execFrames, execGot, execSession, execHost, execUp, execDown,
                     execOpen, execSrv, execProc, execOut>>
      /\ execRecv.at = "decode" /\ execRecv \in ExRecvs /\ execPipe \in [n : Nat, closed : BOOLEAN]
      /\ execPipe' = [execPipe EXCEPT !.closed = TRUE]
      /\ execRecv' = IF execSrv.ctx THEN [execRecv EXCEPT !.at = "done"] ELSE [at |-> "cancel", error |-> TRUE]
  BY DEF Exec!RecvFailed, Exec!callerVars, Exec!hostVars, ExInv, ExTyped
<1>2. execPipe' \in [n : Nat, closed : BOOLEAN] /\ execPipe'.n = execPipe.n /\ execPipe'.closed
  BY ONLY Zenon, <1>1
<1>3. /\ execRecv' \in ExRecvs /\ execRecv'.at \in {"done", "cancel"}
      /\ (execRecv.error => execRecv'.error) /\ (execSrv.ctx \/ execRecv'.error)
  BY ONLY <1>1 DEF ExRecvs
<1>4. execRecv.at # "none" /\ execRecv'.at # "none" /\ execRecv.at # "write" /\ execRecv'.at # "write"
  BY ONLY <1>1, <1>3
<1>5. execUp' \in Seq({"stdin", "close"})
  BY <1>1 DEF ExInv, ExTyped
<1>6. ExLate'
  BY <1>1, <1>3 DEF ExInv, ExInput, ExLate
<1>7. ExInput'
  BY <1>1, <1>2, <1>3, <1>4, <1>6, ExInputStays
<1> QED
  BY <1>1, <1>2, <1>3, <1>4, <1>5, <1>7, ExRecvStep

(* The command exits or is killed.                                           *)
LEMMA ExExits ==
    ASSUME ExInv, execProc.state = "running", NEW c \in Exec!Codes,
           UNCHANGED <<execBody, execCall, execFrames, execGot, execSession, execHost, execUp, execDown,
                       execOpen, execSrv, execRecv, execPipe, execOut>>,
           execProc' = [execProc EXCEPT !.state = "exited", !.code = c]
    PROVE  ExInv'
<1>1. execProc \in ExProcs /\ execSrv.at = "wait"
  BY DEF ExInv, ExTyped, ExControl, ExPhase
<1>2. /\ execProc' \in ExProcs /\ execProc'.state = "exited" /\ execProc'.read = execProc.read
      /\ execProc'.wrote = execProc.wrote /\ execProc'.eof = execProc.eof
  BY <1>1 DEF ExProcs
<1>3. execSrv.at \notin {"accept", "start", "drain", "join", "end"} /\ execProc'.state \notin {"none", "running"}
  BY ONLY <1>1, <1>2
<1>4. ExTyped'
  BY <1>2 DEF ExInv, ExTyped
<1>5. ExControl'
  <2>1. ExEarly' /\ ExIdle' /\ ExPhase'
    BY <1>2, <1>3 DEF ExInv, ExControl, ExEarly, ExIdle, ExPhase
  <2>2. ExCopy' /\ ExLinked'
    BY <1>2, <1>3 DEF ExInv, ExControl, ExCopy, ExLinked
  <2> QED
    BY <2>1, <2>2 DEF ExControl
<1>6. ExLate'
  BY <1>3 DEF ExLate
<1>7. ExInput'
  BY <1>2, <1>6, ExInputStays
<1>8. ExFlowing'
  BY <1>2, ExFlowingStays
<1>9. ExOutput'
  BY <1>3, <1>8, ExOutputStays
<1> QED
  BY <1>4, <1>5, <1>7, <1>9 DEF ExInv

LEMMA ExKills ==
    ASSUME ExInv, Exec!Kill
    PROVE  ExInv'
<1>1. "killed" \in Exec!Codes
  BY DEF Exec!Codes
<1>2. UNCHANGED <<execBody, execCall, execFrames, execGot, execSession, execHost, execUp, execDown,
                  execOpen, execSrv, execRecv, execPipe, execOut>>
  BY DEF Exec!Kill, Exec!callerVars, Exec!hostVars
<1> QED
  BY <1>1, <1>2, ExExits DEF Exec!Kill

(* Steps of the goroutine that sends the input alone.                        *)
LEMMA ExHostSends ==
    ASSUME ExInv, UNCHANGED <<execCall, execFrames, execGot, execSession, execDown,
                              execOpen, execSrv, execRecv, execPipe, execProc, execOut>>,
           execBody' \in [left : Nat, there : BOOLEAN], execBody'.there = execBody.there,
           execHost' \in ExHosts, execHost'.run = execHost.run, execHost.inputError => execHost'.inputError,
           execUp' \in Seq({"stdin", "close"}), ExSending', ExClosing', ExTold'
    PROVE  ExInv'
<1>1. ExTyped'
  BY DEF ExInv, ExTyped
<1>2. ExControl'
  BY DEF ExInv, ExControl, ExEarly, ExIdle, ExPhase, ExCopy, ExLinked
<1>3. ExCut' /\ ExEof' /\ ExLate'
  BY DEF ExInv, ExInput, ExCut, ExEof, ExLate, ExExcused
<1>4. ExFlowing'
  BY ExFlowingStays
<1>5. ExOutput'
  BY <1>4, ExOutputStays
<1> QED
  BY <1>1, <1>2, <1>3, <1>5 DEF ExInv, ExInput

LEMMA ExReadFails ==
    ASSUME ExInv, Exec!ReadFailed
    PROVE  ExInv'
<1>1. /\ UNCHANGED <<execBody, execCall, execFrames, execGot, execSession, execUp, execDown,
                     execOpen, execSrv, execRecv, execPipe, execProc, execOut>>
      /\ execHost.send = "read" /\ execHost \in ExHosts
      /\ execHost' = [execHost EXCEPT !.send = "close", !.inputError = TRUE, !.cancelled = TRUE]
  BY DEF Exec!ReadFailed, Exec!callerVars, Exec!guestVars, ExInv, ExTyped
<1>2. execHost' \in ExHosts /\ execHost'.run = execHost.run /\ execHost'.send = "close" /\ execHost'.inputError
  BY ONLY Zenon, <1>1 DEF ExHosts
<1>3. execHost.send # "done" /\ execHost'.send # "read"
  BY ONLY <1>1, <1>2
<1>4. ExSending' /\ ExTold'
  BY <1>2, <1>3 DEF ExSending, ExTold
<1>5. ExClosing'
  BY <1>1, <1>3 DEF ExInv, ExInput, ExClosing
<1>6. /\ execBody' \in [left : Nat, there : BOOLEAN] /\ execBody'.there = execBody.there
      /\ execUp' \in Seq({"stdin", "close"})
  BY <1>1 DEF ExInv, ExTyped
<1> QED
  BY <1>1, <1>2, <1>4, <1>5, <1>6, ExHostSends

LEMMA ExAppend ==
    ASSUME NEW S, NEW s \in Seq(S), NEW x \in S, NEW t, t = Append(s, x)
    PROVE  /\ t \in Seq(S) /\ Len(t) = Len(s) + 1 /\ Len(s) \in Nat
           /\ \A i \in 1..Len(t) : (i \in 1..Len(s) /\ t[i] = s[i]) \/ (i = Len(t) /\ t[i] = x)
  BY SMTT(30)

LEMMA ExTail ==
    ASSUME NEW S, NEW s \in Seq(S), s # <<>>, NEW t, t = Tail(s)
    PROVE  /\ t \in Seq(S) /\ Len(s) = Len(t) + 1 /\ Len(t) \in Nat
           /\ 1 \in 1..Len(s) /\ Head(s) = s[1] /\ Head(s) \in S
           /\ \A i \in 1..Len(t) : i + 1 \in 1..Len(s) /\ t[i] = s[i + 1]
           /\ \A i \in 1..Len(t) : i + 1 = Len(s) => i = Len(t)
           /\ 1 = Len(s) => t = <<>> /\ Len(t) = 0 /\ \A i \in 1..Len(t) : FALSE
  BY SMTT(30)

LEMMA ExNumbers ==
    ASSUME ExInv
    PROVE  /\ execBody.left \in Nat /\ execPipe.n \in Nat /\ execProc.read \in Nat /\ execProc.wrote \in Nat
           /\ execOut.n \in Nat /\ execGot \in Nat /\ Len(execUp) \in Nat /\ Len(execDown) \in Nat
           /\ Len(execFrames) \in Nat /\ Chunks \in Nat /\ ExHeld \in Nat /\ ExTaken \in Nat
           /\ ExLead \in Nat /\ ExPassed \in Nat
<1>1. /\ execBody \in [left : Nat, there : BOOLEAN] /\ execPipe \in [n : Nat, closed : BOOLEAN]
      /\ execProc \in ExProcs /\ execOut \in ExOuts /\ execGot \in Nat
  BY DEF ExInv, ExTyped
<1>2. /\ execUp \in Seq({"stdin", "close"}) /\ execDown \in Seq(ExFinals \cup {"started", "stdout"})
      /\ execFrames \in Seq(ExFinals \cup {"stdout"})
  BY DEF ExInv, ExTyped
<1>3. /\ execBody.left \in Nat /\ execPipe.n \in Nat /\ execProc.read \in Nat /\ execProc.wrote \in Nat
      /\ execOut.n \in Nat
  BY ONLY <1>1 DEF ExProcs, ExOuts
<1>4. Len(execUp) \in Nat /\ Len(execDown) \in Nat /\ Len(execFrames) \in Nat
  BY ONLY SMTT(30), <1>2
<1>5. ExHeld \in Nat /\ ExLead \in Nat
  BY DEF ExHeld, ExLead
<1>6. ExTaken \in Nat /\ ExPassed \in Nat
  BY ONLY SMTT(30), <1>1, <1>3, <1>4, <1>5 DEF ExTaken, ExPassed
<1> QED
  BY <1>1, <1>3, <1>4, <1>5, <1>6, SessionsAssumption

LEMMA ExSendsChunk ==
    ASSUME ExInv, Exec!SendChunk
    PROVE  ExInv'
<1>1. /\ UNCHANGED <<execCall, execFrames, execGot, execSession, execOpen, execSrv, execRecv, execPipe,
                     execProc, execOut>>
      /\ execHost.send = "read" /\ execHost \in ExHosts /\ execBody.left > 0
      /\ execBody \in [left : Nat, there : BOOLEAN] /\ execBody' = [execBody EXCEPT !.left = @ - 1]
      /\ execUp \in Seq({"stdin", "close"})
  BY DEF Exec!SendChunk, Exec!guestVars, ExInv, ExTyped
<1>2. /\ execBody' \in [left : Nat, there : BOOLEAN] /\ execBody'.there = execBody.there
      /\ execBody'.left = execBody.left - 1
  BY ONLY SMTT(30), <1>1
<1>3. execHost.send # "done" /\ execHost.send # "close"
  BY ONLY <1>1
<1>4. \A i \in 1..Len(execUp) : execUp[i] # "close"
  BY <1>3 DEF ExInv, ExInput, ExClosing
<1>5. ExTaken' = ExTaken
  BY <1>1 DEF ExTaken, ExHeld
<1>6. CASE Exec!Transmit("host", "guest", "stdin") /\ UNCHANGED execHost
  <2>1. {"host", "guest"} \subseteq execOpen /\ execUp' = Append(execUp, "stdin") /\ execDown' = execDown
    BY <1>6 DEF Exec!Transmit, Exec!Deliver
  <2>2. "stdin" \in {"stdin", "close"} /\ "stdin" # "close"
    OBVIOUS
  <2>3. /\ execUp' \in Seq({"stdin", "close"}) /\ Len(execUp') = Len(execUp) + 1
        /\ \A i \in 1..Len(execUp') : (i \in 1..Len(execUp) /\ execUp'[i] = execUp[i]) \/ execUp'[i] = "stdin"
    BY ONLY SMTT(30), <1>1, <2>1, <2>2, ExAppend
  <2>4. ~execPipe.closed => execBody'.left + (Len(execUp') + ExTaken) = Chunks
    <3>1. (execBody.left - 1) + ((Len(execUp) + 1) + ExTaken) = execBody.left + (Len(execUp) + ExTaken)
      <4>1. execBody.left \in Nat /\ Len(execUp) \in Nat /\ ExTaken \in Nat
        BY ExNumbers
      <4> QED
        BY ONLY SMTT(30), <1>1, <4>1
    <3> QED
      BY <1>1, <1>2, <2>1, <2>3, <3>1 DEF ExInv, ExInput, ExSending
  <2>5. ExSending'
    BY <1>1, <1>5, <1>6, <2>1, <2>3, <2>4 DEF ExInv, ExInput, ExSending
  <2>6. ExClosing'
    BY <1>4, <2>2, <2>3 DEF ExClosing
  <2>7. ExTold'
    BY <1>3, <1>6 DEF ExTold
  <2> QED
    BY <1>1, <1>2, <1>6, <2>1, <2>3, <2>5, <2>6, <2>7, ExHostSends
<1>7. CASE Exec!Lost("host", "guest") /\ UNCHANGED execHost
  <2>1. "guest" \notin execOpen /\ execUp' = execUp /\ execDown' = execDown
    BY <1>7 DEF Exec!Lost
  <2>2. ExSending' /\ ExTold'
    BY <1>1, <1>3, <1>7, <2>1 DEF ExSending, ExTold
  <2>3. ExClosing'
    BY <1>4, <2>1 DEF ExClosing
  <2> QED
    BY <1>1, <1>2, <1>7, <2>1, <2>2, <2>3, ExHostSends
<1>8. CASE Exec!Refused /\ execHost' = [execHost EXCEPT !.send = "done"]
  <2>1. execUp' = execUp /\ execDown' = execDown
    BY <1>8 DEF Exec!Refused
  <2>2. /\ execHost' \in ExHosts /\ execHost'.run = execHost.run /\ execHost'.send = "done"
        /\ execHost'.inputError = execHost.inputError
    BY ONLY <1>1, <1>8 DEF ExHosts
  <2>3. execHost'.send # "read" /\ execHost'.send # "close"
    BY ONLY <2>2
  <2>4. ExSending' /\ ExTold'
    BY <2>3 DEF ExSending, ExTold
  <2>5. ExClosing'
    BY <1>4, <2>1 DEF ExClosing
  <2> QED
    BY <1>1, <1>2, <2>1, <2>2, <2>4, <2>5, ExHostSends
<1> QED
  BY <1>6, <1>7, <1>8 DEF Exec!SendChunk

LEMMA ExSendsEnd ==
    ASSUME ExInv, Exec!sendInput
    PROVE  ExInv'
<1>1. /\ UNCHANGED <<execBody, execCall, execFrames, execGot, execSession, execOpen, execSrv, execRecv,
                     execPipe, execProc, execOut>>
      /\ execHost.send = "close" \/ (execHost.send = "read" /\ execBody.left = 0)
      /\ execHost \in ExHosts /\ execUp \in Seq({"stdin", "close"})
      /\ execBody \in [left : Nat, there : BOOLEAN]
      /\ execHost' = [execHost EXCEPT !.send = "done"]
  BY DEF Exec!sendInput, Exec!callerVars, Exec!guestVars, ExInv, ExTyped
<1>2. /\ execHost' \in ExHosts /\ execHost'.run = execHost.run /\ execHost'.send = "done"
      /\ execHost'.inputError = execHost.inputError
  BY ONLY <1>1 DEF ExHosts
<1>3. execHost.send # "done" /\ execHost'.send # "read" /\ execHost'.send # "close"
  BY ONLY <1>1, <1>2
<1>4. \A i \in 1..Len(execUp) : execUp[i] # "close"
  BY <1>3 DEF ExInv, ExInput, ExClosing
<1>5. ExTaken' = ExTaken
  BY <1>1 DEF ExTaken, ExHeld
<1>6. ExSending' /\ ExTold'
  BY <1>3 DEF ExSending, ExTold
<1>7. CASE Exec!Transmit("host", "guest", "close")
  <2>1. {"host", "guest"} \subseteq execOpen /\ execUp' = Append(execUp, "close") /\ execDown' = execDown
    BY <1>7 DEF Exec!Transmit, Exec!Deliver
  <2>2. "close" \in {"stdin", "close"}
    OBVIOUS
  <2>3. /\ execUp' \in Seq({"stdin", "close"}) /\ Len(execUp') = Len(execUp) + 1
        /\ \A i \in 1..Len(execUp') : (i \in 1..Len(execUp) /\ execUp'[i] = execUp[i]) \/ i = Len(execUp')
    BY ONLY SMTT(30), <1>1, <2>1, <2>2, ExAppend
  <2>4. ~execPipe.closed => execHost.inputError \/ Len(execUp') + ExTaken = Chunks + 1
    <3>1. CASE execHost.send = "close"
      BY <3>1 DEF ExInv, ExInput, ExTold
    <3>2. CASE execHost.send = "read" /\ execBody.left = 0
      <4>1. ~execPipe.closed => 0 + (Len(execUp) + ExTaken) = Chunks
        BY <3>2, <2>1 DEF ExInv, ExInput, ExSending
      <4>2. Len(execUp) \in Nat /\ ExTaken \in Nat /\ Chunks \in Nat
        BY ExNumbers
      <4> QED
        BY ONLY SMTT(30), <2>3, <4>1, <4>2
    <3> QED
      BY <1>1, <3>1, <3>2
  <2>5. ExClosing'
    BY <1>1, <1>2, <1>4, <1>5, <2>3, <2>4 DEF ExClosing
  <2> QED
    BY <1>1, <1>2, <1>6, <2>1, <2>3, <2>5, ExHostSends
<1>8. CASE Exec!Lost("host", "guest") \/ Exec!Refused
  <2>1. execUp' = execUp /\ execDown' = execDown
    BY <1>8 DEF Exec!Lost, Exec!Refused
  <2>2. ExClosing'
    BY <1>4, <2>1 DEF ExClosing
  <2> QED
    BY <1>1, <1>2, <1>6, <2>1, <2>2, ExHostSends
<1> QED
  BY <1>7, <1>8 DEF Exec!sendInput

LEMMA ExRecvCloses ==
    ASSUME ExInv, Exec!RecvClose
    PROVE  ExInv'
<1>1. /\ UNCHANGED <<execBody, execCall, execFrames, execGot, execSession, execHost, execDown,
                     execOpen, execSrv, execProc, execOut>>
      /\ execRecv.at = "decode" /\ execRecv \in ExRecvs /\ execPipe \in [n : Nat, closed : BOOLEAN]
      /\ execUp # <<>> /\ Head(execUp) = "close" /\ execUp' = Tail(execUp)
      /\ execUp \in Seq({"stdin", "close"}) /\ execPipe' = [execPipe EXCEPT !.closed = TRUE]
      /\ execRecv' = [execRecv EXCEPT !.at = IF execSrv.ctx THEN "done" ELSE "decode"]
  BY DEF Exec!RecvClose, Exec!callerVars, Exec!hostVars, ExInv, ExTyped
<1>2. execPipe' \in [n : Nat, closed : BOOLEAN] /\ execPipe'.n = execPipe.n /\ execPipe'.closed
  BY ONLY Zenon, <1>1
<1>3. execRecv' \in ExRecvs /\ execRecv'.at \in {"done", "decode"} /\ execRecv'.error = execRecv.error
  BY ONLY <1>1 DEF ExRecvs
<1>4. execRecv.at # "none" /\ execRecv'.at # "none" /\ execRecv.at # "write" /\ execRecv'.at # "write"
  BY ONLY <1>1, <1>3
<1>5. /\ execUp' \in Seq({"stdin", "close"}) /\ 1 \in 1..Len(execUp) /\ execUp[1] = "close"
      /\ 1 = Len(execUp) => \A i \in 1..Len(execUp') : FALSE
  BY ONLY <1>1, ExTail
<1>6. /\ 1 = Len(execUp) /\ execHost.send = "done"
      /\ ~execPipe.closed => execHost.inputError \/ Len(execUp) + ExTaken = Chunks + 1
  BY <1>5 DEF ExInv, ExInput, ExClosing
<1>7. execHost.send # "read" /\ execHost.send # "close"
  BY ONLY <1>6
<1>8. ExSending' /\ ExClosing' /\ ExTold'
  BY <1>1, <1>5, <1>6, <1>7 DEF ExSending, ExClosing, ExTold
<1>9. ExCut'
  <2>1. ASSUME ~execPipe.closed
        PROVE  execHost.inputError \/ execPipe.n + execProc.read = Chunks
    <3>1. /\ execHost.inputError \/ 1 + (ExHeld + (execPipe.n + execProc.read)) = Chunks + 1
          /\ ExHeld = 0
      BY <1>4, <1>6, <2>1 DEF ExTaken, ExHeld
    <3>2. execPipe.n \in Nat /\ execProc.read \in Nat /\ Chunks \in Nat
      BY ExNumbers
    <3> QED
      BY ONLY SMTT(30), <3>1, <3>2
  <2> QED
    BY <1>1, <1>2, <1>3, <2>1 DEF ExInv, ExInput, ExCut, ExExcused
<1>10. ExEof' /\ ExLate'
  BY <1>1, <1>2, <1>3 DEF ExInv, ExInput, ExEof, ExLate, ExExcused
<1>11. ExInput'
  BY <1>8, <1>9, <1>10 DEF ExInput
<1> QED
  BY <1>1, <1>2, <1>3, <1>4, <1>5, <1>11, ExRecvStep

LEMMA ExRecvTakes ==
    ASSUME ExInv, Exec!RecvChunk
    PROVE  ExInv'
<1>1. /\ UNCHANGED <<execBody, execCall, execFrames, execGot, execSession, execHost, execDown,
                     execOpen, execSrv, execPipe, execProc, execOut>>
      /\ execRecv.at = "decode" /\ execRecv \in ExRecvs
      /\ execUp # <<>> /\ Head(execUp) = "stdin" /\ execUp' = Tail(execUp)
      /\ execUp \in Seq({"stdin", "close"})
      /\ execRecv' = [execRecv EXCEPT !.at = IF execPipe.closed THEN "decode" ELSE "write"]
  BY DEF Exec!RecvChunk, Exec!callerVars, Exec!hostVars, ExInv, ExTyped
<1>2. /\ execRecv' \in ExRecvs /\ execRecv'.at \in {"write", "decode"} /\ execRecv'.error = execRecv.error
      /\ ~execPipe.closed => execRecv'.at = "write"
  BY ONLY <1>1 DEF ExRecvs
<1>3. execRecv.at # "none" /\ execRecv'.at # "none" /\ execRecv.at # "write"
  BY ONLY <1>1, <1>2
<1>4. /\ execUp' \in Seq({"stdin", "close"}) /\ Len(execUp) = Len(execUp') + 1 /\ Len(execUp') \in Nat
      /\ \A i \in 1..Len(execUp') : i + 1 \in 1..Len(execUp) /\ execUp'[i] = execUp[i + 1]
      /\ \A i \in 1..Len(execUp') : i + 1 = Len(execUp) => i = Len(execUp')
  BY ONLY SMTT(30), <1>1, ExTail
<1>5. ~execPipe.closed => Len(execUp') + ExTaken' = Len(execUp) + ExTaken
  <2> SUFFICES ASSUME ~execPipe.closed
               PROVE  Len(execUp') + ExTaken' = Len(execUp) + ExTaken
    OBVIOUS
  <2>1. ExTaken' = 1 + (execPipe.n + execProc.read) /\ ExTaken = 0 + (execPipe.n + execProc.read)
    BY <1>1, <1>2, <1>3 DEF ExTaken, ExHeld
  <2>2. execPipe.n \in Nat /\ execProc.read \in Nat
    BY ExNumbers
  <2>3. Len(execUp) = Len(execUp') + 1 /\ Len(execUp') \in Nat
    BY <1>4
  <2> QED
    BY ONLY SMTT(30), <2>1, <2>2, <2>3
<1>6. ExSending'
  BY <1>1, <1>4, <1>5 DEF ExInv, ExInput, ExSending
<1>7. ExClosing'
  BY <1>1, <1>4, <1>5 DEF ExInv, ExInput, ExClosing
<1>8. ExTold' /\ ExCut' /\ ExEof' /\ ExLate'
  BY <1>1, <1>2 DEF ExInv, ExInput, ExTold, ExCut, ExEof, ExLate, ExExcused
<1>9. ExInput'
  BY <1>6, <1>7, <1>8 DEF ExInput
<1>10. execPipe' \in [n : Nat, closed : BOOLEAN]
  BY <1>1 DEF ExInv, ExTyped
<1> QED
  BY <1>1, <1>2, <1>3, <1>4, <1>9, <1>10, ExRecvStep

LEMMA ExRecvWrites ==
    ASSUME ExInv, Exec!RecvWrite
    PROVE  ExInv'
<1>1. /\ UNCHANGED <<execBody, execCall, execFrames, execGot, execSession, execHost, execUp, execDown,
                     execOpen, execSrv, execProc, execOut>>
      /\ execRecv.at = "write" /\ execRecv \in ExRecvs /\ execPipe \in [n : Nat, closed : BOOLEAN]
      /\ execUp \in Seq({"stdin", "close"}) /\ execSrv \in ExServers
      /\ execRecv' = [execRecv EXCEPT !.at = IF execSrv.ctx THEN "done" ELSE "decode"]
  BY DEF Exec!RecvWrite, Exec!callerVars, Exec!hostVars, ExInv, ExTyped
<1>2. execRecv' \in ExRecvs /\ execRecv'.at \in {"done", "decode"} /\ execRecv'.error = execRecv.error
  BY ONLY <1>1 DEF ExRecvs
<1>3. execRecv.at # "none" /\ execRecv'.at # "none" /\ execRecv'.at # "write"
  BY ONLY <1>1, <1>2
<1>4. CASE ~execPipe.closed /\ execPipe' = [n |-> execPipe.n + 1, closed |-> execSrv.ctx]
  <2>1. /\ execPipe' \in [n : Nat, closed : BOOLEAN] /\ execPipe'.n = execPipe.n + 1
        /\ execPipe'.closed = execSrv.ctx
    BY ONLY SMTT(30), <1>1, <1>4 DEF ExServers
  <2>2. ExTaken' = ExTaken
    <3>1. /\ ExTaken' = 0 + ((execPipe.n + 1) + execProc.read)
          /\ ExTaken = 1 + (execPipe.n + execProc.read)
      BY <1>1, <1>3, <2>1 DEF ExTaken, ExHeld
    <3>2. execPipe.n \in Nat /\ execProc.read \in Nat
      BY ExNumbers
    <3> QED
      BY ONLY SMTT(30), <3>1, <3>2
  <2>3. ExSending' /\ ExClosing'
    BY <1>1, <1>4, <2>2 DEF ExInv, ExInput, ExSending, ExClosing
  <2>4. ExTold' /\ ExCut' /\ ExEof' /\ ExLate'
    BY <1>1, <1>2, <1>4, <2>1 DEF ExInv, ExInput, ExTold, ExCut, ExEof, ExLate, ExExcused
  <2>5. ExInput'
    BY <2>3, <2>4 DEF ExInput
  <2> QED
    BY <1>1, <1>2, <1>3, <2>1, <2>5, ExRecvStep
<1>5. CASE execProc.state = "exited" /\ execPipe' = [execPipe EXCEPT !.closed = TRUE]
  <2>1. execPipe' \in [n : Nat, closed : BOOLEAN] /\ execPipe'.n = execPipe.n /\ execPipe'.closed
    BY ONLY Zenon, <1>1, <1>5
  <2>2. ExSending' /\ ExClosing'
    BY <1>1, <2>1 DEF ExInv, ExInput, ExSending, ExClosing
  <2>3. ExTold' /\ ExCut' /\ ExEof' /\ ExLate'
    BY <1>1, <1>2, <1>5, <2>1 DEF ExInv, ExInput, ExTold, ExCut, ExEof, ExLate, ExExcused
  <2>4. ExInput'
    BY <2>2, <2>3 DEF ExInput
  <2> QED
    BY <1>1, <1>2, <1>3, <2>1, <2>4, ExRecvStep
<1> QED
  BY <1>4, <1>5 DEF Exec!RecvWrite

LEMMA ExCommands ==
    ASSUME ExInv, Exec!Command
    PROVE  ExInv'
<1>1. /\ UNCHANGED <<execBody, execCall, execFrames, execGot, execSession, execHost, execUp, execDown,
                     execOpen, execSrv, execRecv>>
      /\ execProc.state = "running" /\ execProc \in ExProcs /\ execPipe \in [n : Nat, closed : BOOLEAN]
      /\ execOut \in ExOuts
  BY DEF Exec!Command, Exec!callerVars, Exec!hostVars, ExInv, ExTyped
<1>2. execSrv.at = "wait" /\ execRecv \in ExRecvs
  BY <1>1 DEF ExInv, ExTyped, ExControl, ExPhase
<1>3. execSrv.at \notin {"accept", "start", "drain", "join", "end"} /\ execProc.state \notin {"none", "exited"}
  BY ONLY <1>1, <1>2
<1>4. CASE /\ execPipe.n > 0 /\ ~execProc.eof /\ execProc' = [execProc EXCEPT !.read = @ + 1]
           /\ execPipe' = [execPipe EXCEPT !.n = @ - 1] /\ UNCHANGED execOut
  <2>1. /\ execProc' \in ExProcs /\ execProc'.state = execProc.state /\ execProc'.code = execProc.code
        /\ execProc'.read = execProc.read + 1 /\ execProc'.wrote = execProc.wrote
        /\ execProc'.eof = execProc.eof
    BY ONLY SMTT(30), <1>1, <1>4 DEF ExProcs
  <2>2. /\ execPipe' \in [n : Nat, closed : BOOLEAN] /\ execPipe'.n = execPipe.n - 1
        /\ execPipe'.closed = execPipe.closed
    BY ONLY SMTT(30), <1>1, <1>4
  <2>3. execPipe'.n + execProc'.read = execPipe.n + execProc.read
    <3>1. execPipe.n \in Nat /\ execProc.read \in Nat
      BY ExNumbers
    <3> QED
      BY ONLY SMTT(30), <1>4, <2>1, <2>2, <3>1
  <2>4. ExTaken' = ExTaken
    BY <1>1, <2>3 DEF ExTaken, ExHeld
  <2>5. execRecv.at # "none"
    <3>1. execPipe.n # 0
      BY ONLY SMTT(30), <1>1, <1>4
    <3> QED
      BY <3>1 DEF ExInv, ExControl, ExIdle
  <2>6. ExTyped'
    BY <1>1, <1>4, <2>1, <2>2 DEF ExInv, ExTyped
  <2>7. ExControl'
    <3>1. ExEarly' /\ ExIdle' /\ ExPhase'
      BY <1>1, <1>3, <2>1, <2>5 DEF ExInv, ExControl, ExEarly, ExIdle, ExPhase
    <3>2. ExCopy' /\ ExLinked'
      BY <1>1, <1>4, <2>1 DEF ExInv, ExControl, ExCopy, ExLinked
    <3> QED
      BY <3>1, <3>2 DEF ExControl
  <2>8. ExSending' /\ ExClosing'
    BY <1>1, <2>2, <2>4 DEF ExInv, ExInput, ExSending, ExClosing
  <2>9. ExTold' /\ ExCut' /\ ExEof' /\ ExLate'
    BY <1>1, <1>3, <1>4, <2>1, <2>2, <2>3 DEF ExInv, ExInput, ExTold, ExCut, ExEof, ExLate, ExExcused
  <2>10. ExFlowing'
    BY <1>1, <1>4, <2>1, ExFlowingStays
  <2>11. ExOutput'
    BY <1>1, <1>3, <2>10, ExOutputStays
  <2> QED
    BY <2>6, <2>7, <2>8, <2>9, <2>11 DEF ExInv, ExInput
<1>5. CASE /\ execPipe.n = 0 /\ execPipe.closed /\ ~execProc.eof
           /\ execProc' = [execProc EXCEPT !.eof = TRUE] /\ UNCHANGED <<execPipe, execOut>>
  <2>1. /\ execProc' \in ExProcs /\ execProc'.state = execProc.state /\ execProc'.code = execProc.code
        /\ execProc'.read = execProc.read /\ execProc'.wrote = execProc.wrote /\ execProc'.eof
    BY ONLY Zenon, <1>1, <1>5 DEF ExProcs
  <2>2. ExTyped'
    BY <1>1, <1>5, <2>1 DEF ExInv, ExTyped
  <2>3. ExControl'
    <3>1. ExEarly' /\ ExIdle' /\ ExPhase'
      BY <1>1, <1>3, <1>5, <2>1 DEF ExInv, ExControl, ExEarly, ExIdle, ExPhase
    <3>2. ExCopy' /\ ExLinked'
      BY <1>1, <1>5, <2>1 DEF ExInv, ExControl, ExCopy, ExLinked
    <3> QED
      BY <3>1, <3>2 DEF ExControl
  <2>4. ExTaken' = ExTaken
    BY <1>1, <1>5, <2>1 DEF ExTaken, ExHeld
  <2>5. ExSending' /\ ExClosing'
    BY <1>1, <1>5, <2>4 DEF ExInv, ExInput, ExSending, ExClosing
  <2>6. ExEof'
    <3>1. ExExcused \/ 0 + execProc.read = Chunks
      BY <1>3, <1>5 DEF ExInv, ExInput, ExCut
    <3>2. 0 + execProc.read = execProc.read
      <4>1. execProc.read \in Nat
        BY ExNumbers
      <4> QED
        BY ONLY SMTT(30), <4>1
    <3> QED
      BY <1>1, <1>5, <2>1, <3>1, <3>2 DEF ExEof, ExExcused
  <2>7. ExTold' /\ ExCut' /\ ExLate'
    BY <1>1, <1>3, <1>5, <2>1 DEF ExInv, ExInput, ExTold, ExCut, ExLate, ExExcused
  <2>8. ExFlowing'
    BY <1>1, <1>5, <2>1, ExFlowingStays
  <2>9. ExOutput'
    BY <1>1, <1>3, <2>8, ExOutputStays
  <2> QED
    BY <2>2, <2>3, <2>5, <2>6, <2>7, <2>9 DEF ExInv, ExInput
<1>6. CASE /\ execProc' = [execProc EXCEPT !.wrote = @ + 1] /\ UNCHANGED execPipe
           /\ execOut' = IF execOut.copy = "run" THEN [execOut EXCEPT !.n = @ + 1] ELSE execOut
  <2>1. /\ execProc' \in ExProcs /\ execProc'.state = execProc.state /\ execProc'.code = execProc.code
        /\ execProc'.read = execProc.read /\ execProc'.wrote = execProc.wrote + 1
        /\ execProc'.eof = execProc.eof
    BY ONLY SMTT(30), <1>1, <1>6 DEF ExProcs
  <2>2. /\ execOut' \in ExOuts /\ execOut'.copy = execOut.copy /\ execOut'.error = execOut.error
        /\ execOut.copy = "run" \/ execOut.copy = "end"
        /\ execOut.copy = "run" => execOut'.n = execOut.n + 1
    BY ONLY SMTT(30), <1>1, <1>6 DEF ExOuts
  <2>3. execOut.copy = "end" => execOut.error
    BY <1>3 DEF ExInv, ExControl, ExCopy
  <2>4. ExTyped'
    BY <1>1, <1>6, <2>1, <2>2 DEF ExInv, ExTyped
  <2>5. ExControl'
    <3>1. ExEarly' /\ ExIdle' /\ ExPhase'
      BY <1>1, <1>3, <1>6, <2>1 DEF ExInv, ExControl, ExEarly, ExIdle, ExPhase
    <3>2. ExCopy' /\ ExLinked'
      BY <1>1, <2>2, <2>3 DEF ExInv, ExControl, ExCopy, ExLinked
    <3> QED
      BY <3>1, <3>2 DEF ExControl
  <2>6. ExLate'
    BY <1>1, <1>3 DEF ExLate
  <2>7. ExInput'
    BY <1>1, <1>6, <2>1, <2>6, ExInputStays
  <2>8. ExFlowing'
    <3>1. ExPassed' = ExPassed /\ ExLead' = ExLead
      BY <1>1 DEF ExPassed, ExLead
    <3>2. ASSUME execOut.n + (Len(execDown) + ExPassed) = execProc.wrote + ExLead
          PROVE  (execOut.n + 1) + (Len(execDown) + ExPassed) = (execProc.wrote + 1) + ExLead
      <4>1. /\ execOut.n \in Nat /\ Len(execDown) \in Nat /\ ExPassed \in Nat /\ execProc.wrote \in Nat
            /\ ExLead \in Nat
        BY ExNumbers
      <4> QED
        BY ONLY SMTT(30), <3>2, <4>1
    <3> QED
      BY <1>1, <2>1, <2>2, <2>3, <3>1, <3>2 DEF ExInv, ExOutput, ExFlowing
  <2>9. ExOutput'
    BY <1>1, <1>3, <2>8, ExOutputStays
  <2> QED
    BY <2>4, <2>5, <2>7, <2>9 DEF ExInv
<1>7. CASE \E c \in {"0", "1"} : execProc' = [execProc EXCEPT !.state = "exited", !.code = c]
                                 /\ UNCHANGED <<execPipe, execOut>>
  <2>1. PICK c \in {"0", "1"} : execProc' = [execProc EXCEPT !.state = "exited", !.code = c]
                                /\ UNCHANGED <<execPipe, execOut>>
    BY <1>7
  <2>2. c \in Exec!Codes
    BY DEF Exec!Codes
  <2> QED
    BY <1>1, <2>1, <2>2, ExExits
<1> QED
  BY <1>4, <1>5, <1>6, <1>7 DEF Exec!Command

(* Steps of the caller alone.                                                *)
LEMMA ExCallerStep ==
    ASSUME ExInv, UNCHANGED <<execSession, execHost, execUp, execDown, execOpen, execSrv, execRecv,
                              execPipe, execProc, execOut>>,
           execBody' \in [left : Nat, there : BOOLEAN], execBody'.left = execBody.left,
           execCall' \in ExFinals \cup {"none"}, execFrames' \in Seq(ExFinals \cup {"stdout"}),
           execGot' \in Nat, execBody'.there <=> execCall' = "none",
           execCall' = "none" => execCall = "none" /\ ExPassed' = ExPassed,
           ExReplied', ExCalled'
    PROVE  ExInv'
<1>1. ExTyped'
  BY DEF ExInv, ExTyped
<1>2. ExControl'
  BY DEF ExInv, ExControl, ExEarly, ExIdle, ExPhase, ExCopy, ExLinked
<1>3. ExLate'
  BY DEF ExInv, ExInput, ExLate
<1>4. ExInput'
  BY <1>3, ExInputStays
<1>5. ExLead' = ExLead
  BY DEF ExLead
<1>6. ExFlowing'
  BY <1>5 DEF ExInv, ExOutput, ExFlowing
<1>7. \A c \in Exec!Codes : (ExHeard(c) => ExHeard(c)') /\ (ExKnows(c) => ExKnows(c)')
  BY DEF ExHeard, ExKnows, ExEnded
<1>8. ExDown'
  BY <1>5, <1>7 DEF ExInv, ExOutput, ExDown
<1>9. ExReturned'
  BY <1>7 DEF ExInv, ExOutput, ExReturned
<1> QED
  BY <1>1, <1>2, <1>4, <1>6, <1>8, <1>9 DEF ExInv, ExOutput

LEMMA ExCallFails ==
    ASSUME ExInv, Exec!CallFailed
    PROVE  ExInv'
<1>1. /\ UNCHANGED <<execGot, execSession, execHost, execUp, execDown, execOpen, execSrv, execRecv,
                     execPipe, execProc, execOut>>
      /\ execCall' = "error" /\ execFrames' = <<>> /\ execBody' = [execBody EXCEPT !.there = FALSE]
      /\ execBody \in [left : Nat, there : BOOLEAN] /\ execGot \in Nat
  BY DEF Exec!CallFailed, Exec!hostVars, Exec!guestVars, ExInv, ExTyped
<1>2. execBody' \in [left : Nat, there : BOOLEAN] /\ execBody'.left = execBody.left /\ ~execBody'.there
  BY ONLY Zenon, <1>1
<1>3. "error" \in ExFinals /\ "error" \notin Exec!Codes /\ "error" # "none"
  BY DEF ExFinals, Exec!Codes
<1>4. <<>> \in Seq(ExFinals \cup {"stdout"}) /\ \A i \in 1..Len(<<>>) : FALSE
  BY SMTT(30)
<1>5. ExReplied' /\ ExCalled'
  BY <1>1, <1>3, <1>4 DEF ExReplied, ExCalled
<1> QED
  BY <1>1, <1>2, <1>3, <1>4, <1>5, ExCallerStep

LEMMA ExCallEnds ==
    ASSUME ExInv, Exec!CallResult
    PROVE  ExInv'
<1>1. /\ UNCHANGED <<execGot, execSession, execHost, execUp, execDown, execOpen, execSrv, execRecv,
                     execPipe, execProc, execOut>>
      /\ execFrames # <<>> /\ Head(execFrames) # "stdout" /\ execCall' = Head(execFrames)
      /\ execFrames' = Tail(execFrames) /\ execBody' = [execBody EXCEPT !.there = FALSE]
      /\ execBody \in [left : Nat, there : BOOLEAN] /\ execGot \in Nat
      /\ execFrames \in Seq(ExFinals \cup {"stdout"})
  BY DEF Exec!CallResult, Exec!hostVars, Exec!guestVars, ExInv, ExTyped
<1>2. execBody' \in [left : Nat, there : BOOLEAN] /\ execBody'.left = execBody.left /\ ~execBody'.there
  BY ONLY Zenon, <1>1
<1>3. /\ execFrames' \in Seq(ExFinals \cup {"stdout"}) /\ 1 \in 1..Len(execFrames)
      /\ execCall' = execFrames[1] /\ execCall' \in ExFinals \cup {"stdout"}
      /\ 1 = Len(execFrames) => \A i \in 1..Len(execFrames') : FALSE
  BY ONLY <1>1, ExTail
<1>4. execCall' \in ExFinals /\ execCall' # "none"
  BY <1>1, <1>3 DEF ExFinals, Exec!Codes
<1>5. /\ 1 = Len(execFrames)
      /\ execCall' \in Exec!Codes => /\ ExKnows(execCall')
                                     /\ ~execSrv.delayed => 1 + execGot = execProc.wrote + 1
  BY <1>1, <1>3 DEF ExInv, ExOutput, ExReplied, ExPassed
<1>6. 1 + execGot = execProc.wrote + 1 => execGot = execProc.wrote
  <2>1. execGot \in Nat /\ execProc.wrote \in Nat
    BY ExNumbers
  <2> QED
    BY ONLY SMTT(30), <2>1
<1>7. ExReplied'
  BY <1>3, <1>5 DEF ExReplied
<1>8. ExCalled'
  BY <1>1, <1>5, <1>6 DEF ExCalled, ExKnows, ExEnded
<1> QED
  BY <1>1, <1>2, <1>3, <1>4, <1>7, <1>8, ExCallerStep

LEMMA ExCallTakes ==
    ASSUME ExInv, Exec!CallOutput
    PROVE  ExInv'
<1>1. /\ UNCHANGED <<execBody, execCall, execSession, execHost, execUp, execDown, execOpen, execSrv,
                     execRecv, execPipe, execProc, execOut>>
      /\ execCall = "none" /\ execFrames # <<>> /\ Head(execFrames) = "stdout"
      /\ execFrames' = Tail(execFrames) /\ execGot' = execGot + 1 /\ execGot \in Nat
      /\ execFrames \in Seq(ExFinals \cup {"stdout"})
  BY DEF Exec!CallOutput, Exec!hostVars, Exec!guestVars, ExInv, ExTyped
<1>2. /\ execFrames' \in Seq(ExFinals \cup {"stdout"}) /\ Len(execFrames) = Len(execFrames') + 1
      /\ Len(execFrames') \in Nat
      /\ \A i \in 1..Len(execFrames') : i + 1 \in 1..Len(execFrames) /\ execFrames'[i] = execFrames[i + 1]
      /\ \A i \in 1..Len(execFrames') : i + 1 = Len(execFrames) => i = Len(execFrames')
  BY ONLY SMTT(30), <1>1, ExTail
<1>3. ExPassed' = ExPassed
  <2>1. Len(execFrames) = Len(execFrames') + 1 /\ Len(execFrames') \in Nat
    BY <1>2
  <2>2. Len(execFrames') + (execGot + 1) = Len(execFrames) + execGot
    BY ONLY SMTT(30), <1>1, <2>1
  <2> QED
    BY <1>1, <2>2 DEF ExPassed
<1>4. \A c \in Exec!Codes : ExKnows(c) => ExKnows(c)'
  BY <1>1 DEF ExKnows, ExEnded
<1>5. ExReplied'
  BY <1>1, <1>2, <1>3, <1>4 DEF ExInv, ExOutput, ExReplied
<1>6. ExCalled'
  <2>1. "none" \notin Exec!Codes
    BY DEF Exec!Codes
  <2> QED
    BY <1>1, <2>1 DEF ExCalled
<1>7. /\ execBody' \in [left : Nat, there : BOOLEAN] /\ execCall' \in ExFinals \cup {"none"}
      /\ execBody'.there <=> execCall' = "none"
  BY <1>1 DEF ExInv, ExTyped, ExControl, ExLinked
<1>8. execGot' \in Nat
  BY ONLY SMTT(30), <1>1
<1> QED
  BY <1>1, <1>2, <1>3, <1>5, <1>6, <1>7, <1>8, ExCallerStep

(* Steps of Run and of the session alone.                                    *)
LEMMA ExHostStep ==
    ASSUME ExInv, UNCHANGED <<execBody, execCall, execGot, execUp, execOpen, execSrv, execRecv, execPipe,
                              execProc, execOut>>,
           execHost' \in ExHosts, execHost'.send = execHost.send, execHost'.inputError = execHost.inputError,
           execSession' \in {"ok", "broken"}, execHost'.run = "run" => execSession' = "ok",
           execFrames' \in Seq(ExFinals \cup {"stdout"}),
           execDown' \in Seq(ExFinals \cup {"started", "stdout"}), execDown = <<>> => execDown' = <<>>,
           ExFlowing', ExDown', ExReturned', ExReplied'
    PROVE  ExInv'
<1>1. ExTyped'
  BY DEF ExInv, ExTyped
<1>2. ExControl'
  BY DEF ExInv, ExControl, ExEarly, ExIdle, ExPhase, ExCopy, ExLinked
<1>3. ExLate'
  BY DEF ExInv, ExInput, ExLate
<1>4. ExInput'
  BY <1>3, ExInputStays
<1>5. ExCalled'
  BY DEF ExInv, ExOutput, ExCalled, ExKnows, ExEnded
<1> QED
  BY <1>1, <1>2, <1>4, <1>5 DEF ExInv, ExOutput

(* While Run has not returned, no terminal frame was sent to the caller.     *)
LEMMA ExOnlyOutput ==
    ASSUME ExInv, execHost.run # "replied"
    PROVE  \A i \in 1..Len(execFrames) : execFrames[i] = "stdout"
  BY DEF ExInv, ExOutput, ExReplied

LEMMA ExNames ==
    /\ "run" \notin Exec!Codes /\ "error" \notin Exec!Codes /\ "replied" \notin Exec!Codes
    /\ "stdout" \notin Exec!Codes /\ "started" \notin Exec!Codes /\ "none" \notin Exec!Codes
    /\ "error" # "run" /\ "replied" # "run" /\ "error" # "replied" /\ "started" # "stdout"
    /\ "stdout" \notin ExFinals /\ "started" \notin ExFinals /\ "none" \notin ExFinals
    /\ "error" \in ExFinals /\ "run" # "replied"
  BY DEF ExFinals, Exec!Codes

(* Run returns without a status.                                             *)
LEMMA ExRunFails ==
    ASSUME ExInv, UNCHANGED <<execBody, execCall, execFrames, execGot, execUp, execOpen, execSrv, execRecv,
                              execPipe, execProc, execOut>>,
           execHost.run = "run", execSession' \in {"ok", "broken"},
           execHost' = [execHost EXCEPT !.run = "error", !.cancelled = TRUE],
           execDown' = execDown \/ (execDown # <<>> /\ execDown' = Tail(execDown))
    PROVE  ExInv'
<1>1. execHost \in ExHosts /\ execDown \in Seq(ExFinals \cup {"started", "stdout"})
      /\ execFrames \in Seq(ExFinals \cup {"stdout"})
  BY DEF ExInv, ExTyped
<1>2. /\ execHost' \in ExHosts /\ execHost'.run = "error" /\ execHost'.send = execHost.send
      /\ execHost'.inputError = execHost.inputError
  BY <1>1 DEF ExHosts
<1>3. execHost'.run # "run" /\ execHost'.run \notin Exec!Codes /\ execHost.run # "replied"
  BY <1>2, ExNames
<1>4. ExFlowing' /\ ExReturned'
  BY <1>3 DEF ExFlowing, ExReturned
<1>5. ExReplied'
  BY <1>3, ExOnlyOutput DEF ExReplied
<1>6. CASE execDown' = execDown
  <2>1. ExDown'
    BY <1>3, <1>6 DEF ExInv, ExOutput, ExDown
  <2> QED
    BY <1>1, <1>2, <1>3, <1>4, <1>5, <1>6, <2>1, ExHostStep
<1>7. CASE execDown # <<>> /\ execDown' = Tail(execDown)
  <2>1. /\ execDown' \in Seq(ExFinals \cup {"started", "stdout"})
        /\ \A i \in 1..Len(execDown') : i + 1 \in 1..Len(execDown) /\ execDown'[i] = execDown[i + 1]
        /\ \A i \in 1..Len(execDown') : i + 1 = Len(execDown) => i = Len(execDown')
    BY ONLY SMTT(30), <1>1, <1>7, ExTail
  <2>2. \A i \in 1..Len(execDown') : i + 1 # 1
    BY ONLY SMTT(30), <1>1, <2>1
  <2>3. ExDown'
    BY <1>3, <2>1, <2>2 DEF ExInv, ExOutput, ExDown
  <2> QED
    BY <1>1, <1>2, <1>3, <1>4, <1>5, <1>7, <2>1, <2>3, ExHostStep
<1> QED
  BY <1>6, <1>7

LEMMA ExDecodeFails ==
    ASSUME ExInv, Exec!RunDecodeFailed
    PROVE  ExInv'
<1>1. /\ UNCHANGED <<execBody, execCall, execFrames, execGot, execSession, execUp, execDown, execOpen,
                     execSrv, execRecv, execPipe, execProc, execOut>>
      /\ execHost.run = "run" /\ execHost' = [execHost EXCEPT !.run = "error", !.cancelled = TRUE]
      /\ execSession \in {"ok", "broken"}
  BY DEF Exec!RunDecodeFailed, Exec!RunReturn, Exec!callerVars, Exec!guestVars, ExInv, ExTyped
<1> QED
  BY <1>1, ExRunFails

LEMMA ExRegisters ==
    ASSUME ExInv, NEW fails \in BOOLEAN, Exec!Register(fails)
    PROVE  ExInv'
<1>1. /\ UNCHANGED <<execBody, execCall, execGot, execUp, execDown, execOpen, execSrv, execRecv, execPipe,
                     execProc, execOut>>
      /\ execHost.run \notin {"run", "replied"} /\ execHost' = [execHost EXCEPT !.run = "replied"]
      /\ execSession' = (IF fails THEN "broken" ELSE execSession)
      /\ execFrames' = execFrames \/ (execBody.there /\ execFrames' = Append(execFrames, execHost.run))
  BY DEF Exec!Register, Exec!send, Exec!guestVars
<1>2. /\ execHost \in ExHosts /\ execSession \in {"ok", "broken"}
      /\ execFrames \in Seq(ExFinals \cup {"stdout"})
      /\ execDown \in Seq(ExFinals \cup {"started", "stdout"})
  BY DEF ExInv, ExTyped
<1>3. /\ execHost' \in ExHosts /\ execHost'.run = "replied" /\ execHost'.send = execHost.send
      /\ execHost'.inputError = execHost.inputError /\ execHost.run \in ExFinals \cup {"stdout"}
  BY ONLY <1>1, <1>2 DEF ExHosts, ExFinals
<1>4. execHost'.run # "run" /\ execHost'.run \notin Exec!Codes /\ execHost.run # "replied"
  BY <1>1, <1>3, ExNames
<1>5. execSession' \in {"ok", "broken"}
  BY ONLY <1>1, <1>2
<1>6. ExFlowing' /\ ExReturned'
  BY <1>4 DEF ExFlowing, ExReturned
<1>7. ExDown'
  BY <1>1, <1>4 DEF ExInv, ExOutput, ExDown
<1>8. \A i \in 1..Len(execFrames) : execFrames[i] = "stdout"
  BY <1>4, ExOnlyOutput
<1>9. CASE execFrames' = execFrames
  <2>1. ExReplied'
    BY <1>8, <1>9 DEF ExReplied
  <2> QED
    BY <1>1, <1>2, <1>3, <1>4, <1>5, <1>6, <1>7, <1>9, <2>1, ExHostStep
<1>10. CASE execBody.there /\ execFrames' = Append(execFrames, execHost.run)
  <2>1. /\ execFrames' \in Seq(ExFinals \cup {"stdout"}) /\ Len(execFrames') = Len(execFrames) + 1
        /\ \A i \in 1..Len(execFrames') : \/ i \in 1..Len(execFrames) /\ execFrames'[i] = execFrames[i]
                                          \/ i = Len(execFrames') /\ execFrames'[i] = execHost.run
    BY ONLY SMTT(30), <1>2, <1>3, <1>10, ExAppend
  <2>2. ASSUME execHost.run \in Exec!Codes
        PROVE  ExKnows(execHost.run) /\ (~execSrv.delayed => ExPassed' = execProc.wrote + 1)
    <3>1. execCall = "none"
      BY <1>10 DEF ExInv, ExControl, ExLinked
    <3>2. ExKnows(execHost.run) /\ (~execSrv.delayed => ExPassed = execProc.wrote)
      BY <2>2, <3>1 DEF ExInv, ExOutput, ExReturned
    <3>3. ExPassed' = ExPassed + 1
      <4>1. Len(execFrames) \in Nat /\ execGot \in Nat
        BY ExNumbers
      <4>2. (Len(execFrames) + 1) + execGot = (Len(execFrames) + execGot) + 1
        BY ONLY SMTT(30), <4>1
      <4> QED
        BY <1>1, <2>1, <4>2 DEF ExPassed
    <3> QED
      BY <3>2, <3>3
  <2>3. \A c \in Exec!Codes : ExKnows(c) => ExKnows(c)'
    BY <1>1 DEF ExKnows, ExEnded
  <2>4. ExReplied'
    BY <1>1, <1>3, <1>8, <2>1, <2>2, <2>3 DEF ExReplied
  <2> QED
    BY <1>1, <1>2, <1>3, <1>4, <1>5, <1>6, <1>7, <2>1, <2>4, ExHostStep
<1> QED
  BY <1>1, <1>9, <1>10

(* What is left of the frames when the first one is read.                    *)
LEMMA ExShift ==
    ASSUME ExInv, execDown # <<>>, execDown' = Tail(execDown)
    PROVE  /\ execDown' \in Seq(ExFinals \cup {"started", "stdout"})
           /\ Len(execDown) = Len(execDown') + 1 /\ Len(execDown') \in Nat
           /\ Head(execDown) = execDown[1] /\ 1 \in 1..Len(execDown)
           /\ Head(execDown) \in ExFinals \cup {"started", "stdout"}
           /\ \A i \in 1..Len(execDown') :
                /\ i + 1 \in 1..Len(execDown) /\ execDown'[i] = execDown[i + 1]
                /\ execDown'[i] # "started" /\ (i + 1 = Len(execDown) => i = Len(execDown'))
           /\ ExLead' = 0 /\ ExLead = (IF Head(execDown) = "started" THEN 1 ELSE 0)
           /\ Len(execDown) = 1 => execDown' = <<>>
<1>1. execDown \in Seq(ExFinals \cup {"started", "stdout"})
  BY DEF ExInv, ExTyped
<1>2. /\ execDown' \in Seq(ExFinals \cup {"started", "stdout"})
      /\ Len(execDown) = Len(execDown') + 1 /\ Len(execDown') \in Nat
      /\ Head(execDown) = execDown[1] /\ 1 \in 1..Len(execDown)
      /\ Head(execDown) \in ExFinals \cup {"started", "stdout"}
      /\ \A i \in 1..Len(execDown') : i + 1 \in 1..Len(execDown) /\ execDown'[i] = execDown[i + 1]
      /\ \A i \in 1..Len(execDown') : i + 1 = Len(execDown) => i = Len(execDown')
      /\ 1 = Len(execDown) => execDown' = <<>>
  BY SMTT(30), <1>1, ExTail
<1>3. \A i \in 1..Len(execDown') : i + 1 # 1
  BY ONLY SMTT(30), <1>2
<1>4. \A i \in 1..Len(execDown') : execDown'[i] # "started"
  <2> SUFFICES ASSUME NEW i \in 1..Len(execDown'), execDown'[i] = "started"
               PROVE  FALSE
    OBVIOUS
  <2>1. i + 1 \in 1..Len(execDown) /\ execDown[i + 1] = "started"
    BY <1>2
  <2>2. i + 1 = 1
    BY <2>1 DEF ExInv, ExOutput, ExDown
  <2> QED
    BY <2>2, <1>3
<1>5. Len(execDown') > 0 => 1 \in 1..Len(execDown')
  BY ONLY SMTT(30), <1>2
<1>6. Len(execDown) > 0
  BY ONLY SMTT(30), <1>2
<1>7. ExLead' = 0
  BY <1>4, <1>5 DEF ExLead
<1>8. ExLead = (IF Head(execDown) = "started" THEN 1 ELSE 0)
  BY <1>2, <1>6 DEF ExLead
<1> QED
  BY <1>2, <1>4, <1>7, <1>8

LEMMA ExRunShows ==
    ASSUME ExInv, NEW fails \in BOOLEAN, Exec!RunOutput(fails)
    PROVE  ExInv'
<1>1. /\ UNCHANGED <<execBody, execCall, execGot, execUp, execOpen, execSrv, execRecv, execPipe,
                     execProc, execOut>>
      /\ execHost.run = "run" /\ execDown # <<>> /\ Head(execDown) = "stdout" /\ execDown' = Tail(execDown)
  BY DEF Exec!RunOutput, Exec!Incoming, Exec!guestVars
<1>2. execSession = "ok" /\ execFrames \in Seq(ExFinals \cup {"stdout"}) /\ execHost \in ExHosts
  BY <1>1 DEF ExInv, ExTyped, ExControl, ExLinked
<1>3. execSession # "broken" /\ {"ok", "broken"} = {"broken", "ok"}
  BY ONLY <1>2
<1>4. CASE fails
  <2>1. /\ execFrames' = execFrames /\ execSession' = "broken"
        /\ execHost' = [execHost EXCEPT !.run = "error", !.cancelled = TRUE]
    BY <1>4 DEF Exec!RunOutput, Exec!send, Exec!RunReturn
  <2> QED
    BY <1>1, <2>1, ExRunFails
<1>5. CASE ~fails
  <2>1. /\ execHost' = execHost /\ execSession' = execSession
        /\ execFrames' = IF execBody.there THEN Append(execFrames, "stdout") ELSE execFrames
    BY <1>3, <1>5 DEF Exec!RunOutput, Exec!send
  <2>2. "stdout" \in ExFinals \cup {"stdout"} /\ execHost.run # "replied"
    BY <1>1, ExNames
  <2>3. /\ execFrames' \in Seq(ExFinals \cup {"stdout"})
        /\ \A i \in 1..Len(execFrames') : execFrames'[i] = "stdout"
        /\ execBody.there => Len(execFrames') = Len(execFrames) + 1
    <3>1. \A i \in 1..Len(execFrames) : execFrames[i] = "stdout"
      BY <2>2, ExOnlyOutput
    <3>2. CASE execBody.there
      <4>1. execFrames' = Append(execFrames, "stdout")
        BY <2>1, <3>2
      <4> QED
        BY ONLY SMTT(30), <1>2, <2>2, <3>1, <4>1, ExAppend
    <3>3. CASE ~execBody.there
      BY <1>2, <2>1, <3>1, <3>3
    <3> QED
      BY <3>2, <3>3
  <2>4. ExLead' = 0 /\ ExLead = 0 /\ Len(execDown) = Len(execDown') + 1 /\ Len(execDown') \in Nat
    BY <1>1, ExShift, ExNames
  <2>5. execCall = "none" => Len(execDown') + ExPassed' = Len(execDown) + ExPassed
    <3> SUFFICES ASSUME execCall = "none"
                 PROVE  Len(execDown') + ExPassed' = Len(execDown) + ExPassed
      OBVIOUS
    <3>1. execBody.there
      BY DEF ExInv, ExControl, ExLinked
    <3>2. ExPassed' = (Len(execFrames) + 1) + execGot /\ ExPassed = Len(execFrames) + execGot
      BY <1>1, <2>3, <3>1 DEF ExPassed
    <3>3. Len(execFrames) \in Nat /\ execGot \in Nat
      BY ExNumbers
    <3> QED
      BY ONLY SMTT(30), <2>4, <3>2, <3>3
  <2>6. ExFlowing'
    BY <1>1, <2>1, <2>4, <2>5 DEF ExInv, ExOutput, ExFlowing
  <2>7. \A c \in Exec!Codes : ExHeard(c) => ExHeard(c)'
    BY <1>1, <2>1 DEF ExHeard, ExEnded
  <2>8. ExDown'
    BY ZenonT(30), <1>1, <2>1, <2>4, <2>5, <2>7, ExShift DEF ExInv, ExOutput, ExDown
  <2>9. ExReturned' /\ ExReplied'
    BY <1>1, <2>1, <2>3, ExNames DEF ExReturned, ExReplied
  <2> QED
    BY <1>1, <1>2, <2>1, <2>3, <2>6, <2>8, <2>9, ExShift, ExHostStep
<1> QED
  BY <1>4, <1>5

LEMMA ExRunEnds ==
    ASSUME ExInv, Exec!RunExit
    PROVE  ExInv'
<1>1. /\ UNCHANGED <<execBody, execCall, execFrames, execGot, execSession, execUp, execOpen, execSrv,
                     execRecv, execPipe, execProc, execOut>>
      /\ execHost.run = "run" /\ execDown # <<>> /\ Head(execDown) # "stdout" /\ execDown' = Tail(execDown)
  BY DEF Exec!RunExit, Exec!Incoming, Exec!callerVars, Exec!guestVars
<1>2. /\ execSession = "ok" /\ execFrames \in Seq(ExFinals \cup {"stdout"}) /\ execHost \in ExHosts
      /\ execSession \in {"ok", "broken"}
  BY <1>1 DEF ExInv, ExTyped, ExControl, ExLinked
<1>3. \A i \in 1..Len(execFrames) : execFrames[i] = "stdout"
  BY <1>1, ExNames, ExOnlyOutput
<1>4. ExReplied' /\ ExPassed' = ExPassed
  BY <1>1, <1>3 DEF ExReplied, ExPassed
<1>5. CASE Head(execDown) = "started"
  <2>1. execHost' = execHost
    BY <1>5 DEF Exec!RunExit
  <2>2. ExLead' = 0 /\ ExLead = 1 /\ Len(execDown) = Len(execDown') + 1 /\ Len(execDown') \in Nat
    BY <1>1, <1>5, ExShift
  <2>3. /\ ExPassed \in Nat /\ execProc.wrote \in Nat /\ execOut.n \in Nat
    BY ExNumbers
  <2>4. /\ execOut.n + (Len(execDown) + ExPassed) = execProc.wrote + 1
           => execOut.n + (Len(execDown') + ExPassed) = execProc.wrote + 0
        /\ Len(execDown) + ExPassed = (execProc.wrote + 1) + 1
           => Len(execDown') + ExPassed = (execProc.wrote + 0) + 1
    <3>1. Len(execDown) = Len(execDown') + 1 /\ Len(execDown') \in Nat
      BY <2>2
    <3> QED
      BY ONLY SMTT(30), <2>3, <3>1
  <2>5. ExFlowing'
    BY <1>1, <1>4, <2>1, <2>2, <2>4 DEF ExInv, ExOutput, ExFlowing
  <2>6. \A c \in Exec!Codes : ExHeard(c) => ExHeard(c)'
    BY <1>1, <2>1 DEF ExHeard, ExEnded
  <2>7. ExDown'
    <3>1. ASSUME NEW i \in 1..Len(execDown')
          PROVE  /\ execDown'[i] = execDown[i + 1] /\ execDown'[i] # "started"
                 /\ execDown'[i] \in ExFinals => i = Len(execDown') /\ execSrv.at = "end"
                 /\ execDown'[i] \in Exec!Codes =>
                     /\ ExHeard(execDown[i + 1])
                     /\ execCall = "none" /\ ~execSrv.delayed =>
                         Len(execDown') + ExPassed = (execProc.wrote + 0) + 1
      <4>1. /\ i + 1 \in 1..Len(execDown) /\ execDown'[i] = execDown[i + 1] /\ execDown'[i] # "started"
            /\ i + 1 = Len(execDown) => i = Len(execDown')
        BY <1>1, ExShift
      <4> QED
        BY <1>1, <2>2, <2>4, <4>1 DEF ExInv, ExOutput, ExDown
    <3>2. ASSUME NEW i \in 1..Len(execDown'), execDown'[i] \in Exec!Codes
          PROVE  ExHeard(execDown[i])'
      <4>1. PICK c \in Exec!Codes : c = execDown'[i]
        BY <3>2
      <4>2. ExHeard(c)
        BY <3>1, <3>2, <4>1
      <4> QED
        BY <2>6, <4>1, <4>2 DEF ExHeard, ExEnded
    <3> QED
      BY <1>1, <1>4, <2>1, <2>2, <3>1, <3>2 DEF ExDown
  <2>8. ExReturned'
    BY <1>1, <2>1, ExNames DEF ExReturned
  <2> QED
    BY <1>1, <1>2, <1>4, <2>1, <2>5, <2>7, <2>8, ExShift, ExHostStep
<1>6. CASE Head(execDown) # "started" /\ execHost.inputError
  <2>1. execHost' = [execHost EXCEPT !.run = "error", !.cancelled = TRUE]
    BY <1>6 DEF Exec!RunExit, Exec!RunReturn
  <2> QED
    BY <1>1, <1>2, <2>1, ExRunFails
<1>7. CASE Head(execDown) # "started" /\ ~execHost.inputError
  <2>0. PICK c : c = Head(execDown)
    OBVIOUS
  <2>1. execHost' = [execHost EXCEPT !.run = c, !.cancelled = TRUE]
    BY <1>7, <2>0 DEF Exec!RunExit, Exec!RunReturn
  <2>2. /\ c \in ExFinals \cup {"started", "stdout"} /\ c = execDown[1] /\ 1 \in 1..Len(execDown)
        /\ c # "stdout" /\ c # "started" /\ ExLead = 0
    BY <1>1, <1>7, <2>0, ExShift
  <2>3. c \in ExFinals
    BY <2>2
  <2>4. 1 = Len(execDown)
    BY <2>2, <2>3 DEF ExInv, ExOutput, ExDown
  <2>5. /\ execHost' \in ExHosts /\ execHost'.run = c /\ execHost'.send = execHost.send
        /\ execHost'.inputError = execHost.inputError
    BY ONLY Zenon, <1>2, <2>1, <2>3 DEF ExHosts, ExFinals
  <2>6. c # "run"
    BY ONLY <2>3 DEF ExFinals, Exec!Codes
  <2>7. execDown' = <<>>
    BY <1>1, <2>4, ExShift
  <2>8. <<>> \in Seq(ExFinals \cup {"started", "stdout"}) /\ \A i \in 1..Len(<<>>) : FALSE
    BY SMTT(30)
  <2>9. ExFlowing' /\ ExDown'
    BY <2>5, <2>6, <2>7, <2>8 DEF ExFlowing, ExDown
  <2>10. ExReturned'
    <3> SUFFICES ASSUME c \in Exec!Codes
                 PROVE  ExKnows(c)' /\ (execCall = "none" /\ ~execSrv.delayed => ExPassed = execProc.wrote)
      BY <1>1, <1>4, <2>5 DEF ExReturned
    <3>1. /\ ExHeard(c)
          /\ execCall = "none" /\ ~execSrv.delayed => 1 + ExPassed = (execProc.wrote + 0) + 1
      BY <1>1, <2>2, <2>4 DEF ExInv, ExOutput, ExDown
    <3>2. 1 + ExPassed = (execProc.wrote + 0) + 1 => ExPassed = execProc.wrote
      <4>1. ExPassed \in Nat /\ execProc.wrote \in Nat
        BY ExNumbers
      <4> QED
        BY ONLY SMTT(30), <4>1
    <3> QED
      BY <1>1, <1>7, <3>1, <3>2 DEF ExHeard, ExKnows, ExEnded
  <2> QED
    BY <1>1, <1>2, <1>4, <2>5, <2>6, <2>7, <2>8, <2>9, <2>10, ExHostStep
<1> QED
  BY <1>5, <1>6, <1>7

(* Before the server has ended, no status is under way.                      *)
LEMMA ExOutputEarly ==
    ASSUME ExInv, execSrv.at # "end", UNCHANGED <<execCall, execFrames, execGot>>,
           execHost'.run = execHost.run, ExFlowing', ExDown'
    PROVE  ExOutput'
  BY DEF ExInv, ExOutput, ExReturned, ExReplied, ExCalled, ExKnows, ExEnded

(* A frame is sent to the host.                                              *)
LEMMA ExSent ==
    ASSUME ExInv, NEW x \in ExFinals \cup {"started", "stdout"}, execSrv.at # "end",
           execDown' = Append(execDown, x)
    PROVE  /\ execDown' \in Seq(ExFinals \cup {"started", "stdout"})
           /\ Len(execDown') = Len(execDown) + 1
           /\ \A i \in 1..Len(execDown') :
                \/ execDown'[i] \notin ExFinals /\ (execDown'[i] = "started" => i = 1)
                \/ i = Len(execDown') /\ execDown'[i] = x
           /\ x # "started" => ExLead' = ExLead
<1>1. execDown \in Seq(ExFinals \cup {"started", "stdout"})
  BY DEF ExInv, ExTyped
<1>2. /\ execDown' \in Seq(ExFinals \cup {"started", "stdout"})
      /\ Len(execDown') = Len(execDown) + 1 /\ Len(execDown) \in Nat
      /\ \A i \in 1..Len(execDown') : \/ i \in 1..Len(execDown) /\ execDown'[i] = execDown[i]
                                      \/ i = Len(execDown') /\ execDown'[i] = x
  BY SMTT(30), <1>1, ExAppend
<1>3. \A i \in 1..Len(execDown) :
        execDown[i] \notin ExFinals /\ (execDown[i] = "started" => i = 1)
  BY DEF ExInv, ExOutput, ExDown
<1>4. ASSUME x # "started"
      PROVE  ExLead' = ExLead
  <2>1. /\ Len(execDown') > 0 /\ 1 \in 1..Len(execDown') /\ (1 \in 1..Len(execDown) => Len(execDown) > 0)
        /\ Len(execDown) > 0 => 1 \in 1..Len(execDown) /\ 1 # Len(execDown')
    <3>1. Len(execDown') = Len(execDown) + 1 /\ Len(execDown) \in Nat
      BY <1>2
    <3> QED
      BY ONLY SMTT(30), <3>1
  <2> QED
    BY <1>2, <1>4, <2>1 DEF ExLead
<1> QED
  BY <1>2, <1>3, <1>4

LEMMA ExWrites ==
    ASSUME ExInv, Exec!Write
    PROVE  ExInv'
<1>1. /\ UNCHANGED <<execBody, execCall, execFrames, execGot, execSession, execHost, execOpen, execRecv,
                     execPipe, execProc>>
      /\ execOut.n > 0 /\ execOut.copy = "run" /\ execOut \in ExOuts /\ execSrv \in ExServers
      /\ execDown \in Seq(ExFinals \cup {"started", "stdout"})
  BY DEF Exec!Write, Exec!callerVars, Exec!hostVars, ExInv, ExTyped
<1>2. execSrv.at \notin {"accept", "start"}
  <2>1. execOut.n # 0
    BY ONLY SMTT(30), <1>1 DEF ExOuts
  <2> QED
    BY <2>1 DEF ExInv, ExControl, ExEarly
<1>3. CASE /\ execSrv.at # "end"
           /\ Exec!Transmit("guest", "host", "stdout") \/ Exec!Lost("guest", "host")
           /\ execOut' = [execOut EXCEPT !.n = @ - 1] /\ UNCHANGED execSrv
  <2>1. /\ execOut' \in ExOuts /\ execOut'.n = execOut.n - 1 /\ execOut'.copy = execOut.copy
        /\ execOut'.error = execOut.error /\ execOut'.copy # "end"
    BY ONLY SMTT(30), <1>1, <1>3 DEF ExOuts
  <2>2. execUp' = execUp
    BY <1>3 DEF Exec!Transmit, Exec!Deliver, Exec!Lost
  <2>3. ExControl'
    <3>1. ExEarly' /\ ExIdle' /\ ExPhase'
      BY <1>1, <1>2, <1>3 DEF ExInv, ExControl, ExEarly, ExIdle, ExPhase
    <3>2. ExCopy' /\ ExLinked'
      BY <1>1, <1>3, <2>1 DEF ExInv, ExControl, ExCopy, ExLinked
    <3> QED
      BY <3>1, <3>2 DEF ExControl
  <2>4. ExLate'
    BY <1>1, <1>3 DEF ExInv, ExInput, ExLate
  <2>5. ExInput'
    BY <1>1, <1>3, <2>2, <2>4, ExInputStays
  <2>6. ExPassed' = ExPassed
    BY <1>1 DEF ExPassed
  <2>7. CASE Exec!Transmit("guest", "host", "stdout")
    <3>1. execDown' = Append(execDown, "stdout")
      BY <2>7, "guest" # "host" DEF Exec!Transmit, Exec!Deliver
    <3>2. /\ execDown' \in Seq(ExFinals \cup {"started", "stdout"}) /\ Len(execDown') = Len(execDown) + 1
          /\ \A i \in 1..Len(execDown') :
                execDown'[i] \notin ExFinals /\ (execDown'[i] = "started" => i = 1)
          /\ ExLead' = ExLead
      BY <1>3, <3>1, ExSent, ExNames
    <3>3. (execOut.n - 1) + ((Len(execDown) + 1) + ExPassed) = execOut.n + (Len(execDown) + ExPassed)
      <4>1. execOut.n \in Nat /\ Len(execDown) \in Nat /\ ExPassed \in Nat
        BY ExNumbers
      <4> QED
        BY ONLY SMTT(30), <4>1
    <3>4. ExFlowing'
      BY <1>1, <1>3, <2>1, <2>6, <3>2, <3>3 DEF ExInv, ExOutput, ExFlowing
    <3>5. Exec!Codes \subseteq ExFinals
      BY DEF ExFinals
    <3>6. ExDown'
      BY <3>2, <3>5 DEF ExDown
    <3>7. ExOutput'
      BY <1>1, <1>3, <3>4, <3>6, ExOutputEarly
    <3>8. ExTyped'
      BY <1>1, <1>3, <2>1, <2>2, <3>2 DEF ExInv, ExTyped
    <3> QED
      BY <2>3, <2>5, <3>7, <3>8 DEF ExInv
  <2>8. CASE Exec!Lost("guest", "host")
    <3>1. execDown' = execDown /\ "host" \notin execOpen
      BY <2>8 DEF Exec!Lost
    <3>2. ExFlowing'
      BY <1>1, <3>1 DEF ExFlowing
    <3>3. ExOutput'
      BY <1>1, <1>3, <3>1, <3>2, ExOutputStays
    <3>4. ExTyped'
      BY ZenonT(30), <1>1, <1>3, <2>1, <2>2, <3>1 DEF ExInv, ExTyped
    <3> QED
      BY <2>3, <2>5, <3>3, <3>4 DEF ExInv
  <2> QED
    BY <1>3, <2>7, <2>8
<1>4. CASE /\ IF execSrv.at = "end" THEN UNCHANGED <<execUp, execDown>> ELSE Exec!Refused
           /\ execOut' = [n |-> 0, copy |-> "end", error |-> TRUE]
           /\ execSrv' = [execSrv EXCEPT !.ctx = TRUE]
  <2>1. execUp' = execUp /\ execDown' = execDown
    BY <1>4 DEF Exec!Refused
  <2>2. execOut' \in ExOuts /\ execOut'.copy = "end" /\ execOut'.error
    BY ONLY <1>4 DEF ExOuts
  <2>3. /\ execSrv' \in ExServers /\ execSrv'.at = execSrv.at /\ execSrv'.wait = execSrv.wait
        /\ execSrv'.delayed = execSrv.delayed /\ execSrv'.ctx
    BY ONLY Zenon, <1>1, <1>4 DEF ExServers
  <2>4. ExTyped'
    BY <1>1, <2>1, <2>2, <2>3 DEF ExInv, ExTyped
  <2>5. ExControl'
    <3>1. ExEarly' /\ ExIdle' /\ ExPhase'
      BY <1>1, <1>2, <2>3 DEF ExInv, ExControl, ExEarly, ExIdle, ExPhase
    <3>2. ExCopy' /\ ExLinked'
      BY <1>1, <2>2 DEF ExInv, ExControl, ExCopy, ExLinked
    <3> QED
      BY <3>1, <3>2 DEF ExControl
  <2>6. ExLate'
    BY <1>1, <2>3 DEF ExInv, ExInput, ExLate
  <2>7. ExInput'
    BY <1>1, <2>1, <2>3, <2>6, ExInputStays
  <2>8. ExFlowing'
    BY <2>2 DEF ExFlowing
  <2>9. ExOutput'
    BY <1>1, <2>1, <2>3, <2>8, ExOutputStays
  <2> QED
    BY <2>4, <2>5, <2>7, <2>9 DEF ExInv
<1> QED
  BY <1>3, <1>4 DEF Exec!Write

(* The guest's end reports how the command ended, or tells nothing.          *)
LEMMA ExEnds ==
    ASSUME ExInv, execSrv.at # "end", execSrv'.at = "end", execProc.state # "running",
           execProc' = execProc, execSrv'.delayed = execSrv.delayed,
           UNCHANGED <<execCall, execFrames, execGot, execHost>>,
           \/ execDown' = execDown
           \/ \E x \in ExFinals :
                /\ execDown' = Append(execDown, x)
                /\ x \in Exec!Codes =>
                     /\ ExHeard(x)'
                     /\ execHost.run = "run" /\ execCall = "none" /\ ~execSrv.delayed
                        => Len(execDown) + ExPassed = execProc.wrote + ExLead
    PROVE  ExOutput'
<1>1. ExFlowing'
  BY DEF ExFlowing
<1>2. CASE execDown' = execDown
  BY <1>1, <1>2, ExOutputStays
<1>3. ASSUME NEW x \in ExFinals, execDown' = Append(execDown, x),
             x \in Exec!Codes =>
                 /\ ExHeard(x)'
                 /\ execHost.run = "run" /\ execCall = "none" /\ ~execSrv.delayed
                    => Len(execDown) + ExPassed = execProc.wrote + ExLead
      PROVE  ExOutput'
  <2>0. x # "started" /\ x \in ExFinals \cup {"started", "stdout"}
    BY ExNames
  <2>1. /\ Len(execDown') = Len(execDown) + 1 /\ ExLead' = ExLead
        /\ \A i \in 1..Len(execDown') :
             \/ execDown'[i] \notin ExFinals /\ (execDown'[i] = "started" => i = 1)
             \/ i = Len(execDown') /\ execDown'[i] = x
    BY <1>3, <2>0, ExSent
  <2>2. ExPassed' = ExPassed
    BY DEF ExPassed
  <2>3. ASSUME Len(execDown) + ExPassed = execProc.wrote + ExLead
        PROVE  Len(execDown') + ExPassed' = (execProc'.wrote + ExLead') + 1
    <3>1. /\ Len(execDown) \in Nat /\ ExPassed \in Nat /\ execProc.wrote \in Nat /\ ExLead \in Nat
          /\ execProc'.wrote = execProc.wrote
      BY ExNumbers
    <3>2. (Len(execDown) + 1) + ExPassed = (execProc.wrote + ExLead) + 1
      BY ONLY SMTT(30), <2>3, <3>1
    <3> QED
      BY <2>1, <2>2, <3>1, <3>2
  <2>4. Exec!Codes \subseteq ExFinals
    BY DEF ExFinals
  <2>5. ExDown'
    BY <1>3, <2>0, <2>1, <2>3, <2>4 DEF ExDown
  <2> QED
    BY <1>1, <2>5, ExOutputEarly
<1> QED
  BY <1>2, <1>3

LEMMA ExServerEnds ==
    ASSUME ExInv, Exec!runCommand
    PROVE  ExInv'
<1>1. /\ UNCHANGED <<execBody, execCall, execFrames, execGot, execSession, execHost, execRecv, execPipe,
                     execProc, execOut>>
      /\ execSrv.at = "join" /\ execOpen' = execOpen \ {"guest"}
      /\ execSrv' = [execSrv EXCEPT !.at = "end"] /\ execSrv \in ExServers
  BY DEF Exec!runCommand, Exec!callerVars, Exec!hostVars, ExInv, ExTyped
<1>2. /\ execSrv' \in ExServers /\ execSrv'.at = "end" /\ execSrv'.wait = execSrv.wait
      /\ execSrv'.delayed = execSrv.delayed /\ execSrv'.ctx = execSrv.ctx
  BY ONLY <1>1 DEF ExServers
<1>3. /\ execProc.state = "exited" /\ execSrv.wait # "none"
      /\ execSrv.wait \in Exec!Codes => execProc.code = execSrv.wait
      /\ ~execSrv.delayed /\ ~execOut.error => execOut.n = 0
  BY <1>1 DEF ExInv, ExControl, ExPhase, ExCopy
<1>4. execUp' = execUp
  BY DEF Exec!runCommand, Exec!Transmit, Exec!Deliver, Exec!Lost, Exec!Refused
<1>5. \/ execDown' = execDown
      \/ /\ Exec!Report # "none" /\ "host" \in execOpen
         /\ execDown' = Append(execDown, Exec!Report)
  BY "guest" # "host"
     DEF Exec!runCommand, Exec!Transmit, Exec!Deliver, Exec!Lost, Exec!Refused
<1>6. ExControl'
  <2>1. execProc.state # "none" /\ execProc.state # "running"
    BY <1>3
  <2>2. ExEarly' /\ ExIdle' /\ ExPhase'
    BY <1>1, <1>2, <2>1 DEF ExInv, ExControl, ExEarly, ExIdle, ExPhase
  <2>3. ExCopy' /\ ExLinked'
    BY <1>1, <1>2 DEF ExInv, ExControl, ExCopy, ExLinked
  <2> QED
    BY <2>2, <2>3 DEF ExControl
<1>7. ExLate'
  BY <1>2 DEF ExLate
<1>8. ExInput'
  BY <1>1, <1>2, <1>4, <1>7, ExInputStays
<1>9. ASSUME Exec!Report # "none", "host" \in execOpen, execDown' = Append(execDown, Exec!Report)
      PROVE  \E x \in ExFinals :
                /\ execDown' = Append(execDown, x)
                /\ x \in Exec!Codes =>
                     /\ ExHeard(x)'
                     /\ execHost.run = "run" /\ execCall = "none" /\ ~execSrv.delayed
                        => Len(execDown) + ExPassed = execProc.wrote + ExLead
  <2>1. PICK x : x = Exec!Report
    OBVIOUS
  <2>2. /\ execSrv.wait # "silent" /\ ~execOut.error
        /\ x = "error" \/ (x = execSrv.wait /\ ~execRecv.error)
    BY <1>9, <2>1 DEF Exec!Report
  <2>3. x \in ExFinals
    <3>1. execSrv.wait \in Exec!Codes \cup {"none", "silent", "error"}
      BY ONLY <1>1 DEF ExServers
    <3> QED
      BY <1>3, <2>2, <3>1 DEF ExFinals
  <2>4. "error" \notin Exec!Codes
    BY ExNames
  <2>5. ASSUME x \in Exec!Codes
        PROVE  /\ ExHeard(x)'
               /\ execHost.run = "run" /\ execCall = "none" /\ ~execSrv.delayed
                  => Len(execDown) + ExPassed = execProc.wrote + ExLead
    <3>1. x = execSrv.wait /\ ~execRecv.error
      BY <2>2, <2>4, <2>5
    <3>2. x = "0" /\ execProc.eof => execHost.inputError \/ execProc.read = Chunks
      BY <1>1, <3>1 DEF ExInv, ExInput, ExLate
    <3>3. ExHeard(x)'
      BY <1>1, <1>2, <1>3, <2>5, <3>1, <3>2 DEF ExHeard, ExEnded
    <3>4. ASSUME execHost.run = "run", execCall = "none", ~execSrv.delayed
          PROVE  Len(execDown) + ExPassed = execProc.wrote + ExLead
      <4>1. execOut.n = 0
        BY <1>3, <2>2, <3>4
      <4>2. execOut.n + (Len(execDown) + ExPassed) = execProc.wrote + ExLead
        BY <1>1, <1>9, <2>2, <3>4 DEF ExInv, ExOutput, ExFlowing
      <4>3. Len(execDown) \in Nat /\ ExPassed \in Nat
        BY ExNumbers
      <4> QED
        BY ONLY SMTT(30), <4>1, <4>2, <4>3
    <3> QED
      BY <3>3, <3>4
  <2> QED
    BY <1>9, <2>1, <2>3, <2>5
<1>10. ExOutput'
  <2>1. execSrv.at # "end" /\ execProc.state # "running"
    BY <1>1, <1>3
  <2> QED
    BY <1>1, <1>2, <1>5, <1>9, <2>1, ExEnds
<1>11. ExTyped'
  <2>1. execDown' \in Seq(ExFinals \cup {"started", "stdout"})
    <3>1. ASSUME NEW x \in ExFinals, execDown' = Append(execDown, x)
          PROVE  execDown' \in Seq(ExFinals \cup {"started", "stdout"})
      <4>1. x \in ExFinals \cup {"started", "stdout"} /\ execSrv.at # "end"
        BY <1>1
      <4> QED
        BY <3>1, <4>1, ExSent
    <3> QED
      BY <1>5, <1>9, <3>1 DEF ExInv, ExTyped
  <2> QED
    BY <1>1, <1>2, <1>4, <2>1 DEF ExInv, ExTyped
<1> QED
  BY <1>6, <1>8, <1>10, <1>11 DEF ExInv

LEMMA ExStarts ==
    ASSUME ExInv, Exec!Start
    PROVE  ExInv'
<1>1. /\ UNCHANGED <<execBody, execCall, execFrames, execGot, execSession, execHost, execPipe, execOut>>
      /\ execSrv.at = "start" /\ execSrv \in ExServers /\ execRecv \in ExRecvs /\ execProc \in ExProcs
  BY DEF Exec!Start, Exec!callerVars, Exec!hostVars, ExInv, ExTyped
<1>2. /\ execProc.state = "none" /\ execProc.wrote = 0 /\ execOut.n = 0 /\ execDown = <<>>
      /\ execSrv.wait = "none" /\ execRecv.at = "none" /\ ~execProc.eof
  BY <1>1 DEF ExInv, ExControl, ExEarly, ExIdle
<1>3. execUp' = execUp
  BY DEF Exec!Start, Exec!Transmit, Exec!Deliver, Exec!Lost, Exec!Refused
<1>4. CASE /\ Exec!Transmit("guest", "host", "error") \/ Exec!Lost("guest", "host") \/ Exec!Refused
           /\ execSrv' = [execSrv EXCEPT !.at = "end"] /\ execOpen' = execOpen \ {"guest"}
           /\ UNCHANGED <<execRecv, execProc>>
  <2>1. /\ execSrv' \in ExServers /\ execSrv'.at = "end" /\ execSrv'.wait = execSrv.wait
        /\ execSrv'.delayed = execSrv.delayed /\ execSrv'.ctx = execSrv.ctx
    BY ONLY <1>1, <1>4 DEF ExServers
  <2>2. execDown' = execDown \/ execDown' = Append(execDown, "error")
    BY <1>4, "guest" # "host" DEF Exec!Transmit, Exec!Deliver, Exec!Lost, Exec!Refused
  <2>3. "error" \in ExFinals /\ "error" \notin Exec!Codes
    BY ExNames
  <2>4. execSrv.at # "end" /\ execProc.state # "running"
    BY <1>1, <1>2
  <2>5. ExOutput'
    BY <1>1, <1>4, <2>1, <2>2, <2>3, <2>4, ExEnds
  <2>6. ExControl'
    <3>1. ExEarly' /\ ExIdle' /\ ExPhase'
      BY <1>1, <1>4, <2>1, <2>4 DEF ExInv, ExControl, ExEarly, ExIdle, ExPhase
    <3>2. ExCopy' /\ ExLinked'
      BY <1>1, <1>4, <2>1 DEF ExInv, ExControl, ExCopy, ExLinked
    <3> QED
      BY <3>1, <3>2 DEF ExControl
  <2>7. ExLate'
    BY <2>1 DEF ExLate
  <2>8. ExInput'
    BY <1>1, <1>3, <1>4, <2>1, <2>7, ExInputStays
  <2>9. ExTyped'
    <3>1. "error" \in ExFinals \cup {"started", "stdout"}
      BY <2>3
    <3>2. execDown' \in Seq(ExFinals \cup {"started", "stdout"})
      BY <2>2, <2>4, <3>1, ExSent DEF ExInv, ExTyped
    <3> QED
      BY ZenonT(30), <1>1, <1>3, <1>4, <2>1, <3>2 DEF ExInv, ExTyped
  <2> QED
    BY <2>5, <2>6, <2>8, <2>9 DEF ExInv
<1>5. CASE /\ \/ /\ Exec!Transmit("guest", "host", "started") \/ Exec!Lost("guest", "host")
                 /\ execSrv' = [execSrv EXCEPT !.at = "wait"]
              \/ Exec!Refused /\ execSrv' = [execSrv EXCEPT !.at = "wait", !.ctx = TRUE, !.wait = "silent"]
           /\ execProc' = [execProc EXCEPT !.state = "running"]
           /\ execRecv' = [execRecv EXCEPT !.at = "decode"] /\ UNCHANGED execOpen
  <2>1. /\ execSrv' \in ExServers /\ execSrv'.at = "wait" /\ execSrv'.wait \in {"none", "silent"}
        /\ execSrv'.delayed = execSrv.delayed /\ (execSrv.ctx => execSrv'.ctx)
    <3>1. CASE execSrv' = [execSrv EXCEPT !.at = "wait"]
      BY ONLY SMTT(30), <1>1, <1>2, <3>1 DEF ExServers
    <3>2. CASE execSrv' = [execSrv EXCEPT !.at = "wait", !.ctx = TRUE, !.wait = "silent"]
      BY ONLY Zenon, <1>1, <3>2 DEF ExServers
    <3> QED
      BY <1>5, <3>1, <3>2
  <2>2. /\ execProc' \in ExProcs /\ execProc'.state = "running" /\ execProc'.wrote = execProc.wrote
        /\ execProc'.read = execProc.read /\ execProc'.eof = execProc.eof
    BY ONLY <1>1, <1>5 DEF ExProcs
  <2>3. execRecv' \in ExRecvs /\ execRecv'.at = "decode" /\ execRecv'.error = execRecv.error
    BY ONLY <1>1, <1>5 DEF ExRecvs
  <2>4. execDown' = execDown \/ execDown' = Append(execDown, "started")
    BY <1>5, "guest" # "host" DEF Exec!Transmit, Exec!Deliver, Exec!Lost, Exec!Refused
  <2>5. ExControl'
    <3>1. execSrv'.at \notin {"accept", "start", "drain", "join"} /\ execRecv'.at # "none"
          /\ execProc'.state # "none"
      BY <2>1, <2>2, <2>3
    <3>2. ExEarly' /\ ExIdle' /\ ExPhase'
      BY <2>1, <2>2, <3>1 DEF ExEarly, ExIdle, ExPhase
    <3>3. execOut.copy = "end" => execOut.error
      BY <1>2 DEF ExInv, ExControl, ExCopy
    <3>4. ExCopy' /\ ExLinked'
      BY <1>1, <3>1, <3>3 DEF ExInv, ExControl, ExCopy, ExLinked
    <3> QED
      BY <3>2, <3>4 DEF ExControl
  <2>6. ExLate'
    BY <2>1 DEF ExLate
  <2>7. ExInput'
    <3>1. execRecv'.at # "write" /\ execRecv.at # "write" /\ execProc.state # "exited"
      BY <1>2, <2>3
    <3> QED
      BY <1>1, <1>3, <1>5, <2>1, <2>2, <2>3, <2>6, <3>1, ExInputStays
  <2>8. CASE execDown' = execDown
    <3>1. ExFlowing'
      BY <1>1, <1>5, <2>1, <2>2, <2>8, ExFlowingStays
    <3>2. ExOutput'
      BY <1>1, <2>1, <2>8, <3>1, ExOutputStays
    <3>3. ExTyped'
      BY <1>1, <1>3, <2>1, <2>2, <2>3, <2>8 DEF ExInv, ExTyped
    <3> QED
      BY <2>5, <2>7, <3>2, <3>3 DEF ExInv
  <2>9. CASE execDown' = Append(execDown, "started")
    <3>1. /\ execDown' \in Seq(ExFinals \cup {"started", "stdout"}) /\ Len(execDown') = 1
          /\ Len(execDown) = 0 /\ execDown'[1] = "started"
          /\ \A i \in 1..Len(execDown') : i = 1 /\ execDown'[i] = "started"
      BY ONLY SMTT(30), <1>2, <2>9
    <3>2. "started" \notin ExFinals /\ Exec!Codes \subseteq ExFinals
      BY ExNames DEF ExFinals
    <3>3. ExDown'
      BY <3>1, <3>2 DEF ExDown
    <3>4. ExPassed' = ExPassed /\ ExPassed \in Nat
      BY <1>1, ExNumbers DEF ExPassed
    <3>5. ExLead = 0 /\ ExLead' = 1
      BY ONLY SMTT(30), <3>1 DEF ExLead
    <3>6. ASSUME execOut.n + (Len(execDown) + ExPassed) = execProc.wrote + ExLead
          PROVE  execOut'.n + (Len(execDown') + ExPassed') = execProc'.wrote + ExLead'
      <4>1. 0 + (0 + ExPassed) = 0 + 0
        BY <1>2, <3>1, <3>5, <3>6
      <4>2. 0 + (1 + ExPassed) = 0 + 1
        BY ONLY SMTT(30), <3>4, <4>1
      <4> QED
        BY <1>1, <1>2, <2>2, <3>1, <3>4, <3>5, <4>2
    <3>7. ExFlowing'
      BY <1>1, <1>5, <2>1, <3>6 DEF ExInv, ExOutput, ExFlowing
    <3>8. ExOutput'
      <4>1. execSrv.at # "end"
        BY <1>1
      <4> QED
        BY <1>1, <3>3, <3>7, <4>1, ExOutputEarly
    <3>9. ExTyped'
      BY <1>1, <1>3, <2>1, <2>2, <2>3, <3>1 DEF ExInv, ExTyped
    <3> QED
      BY <2>5, <2>7, <3>8, <3>9 DEF ExInv
  <2> QED
    BY <2>4, <2>8, <2>9
<1> QED
  BY <1>4, <1>5 DEF Exec!Start

LEMMA ExInit ==
    ASSUME Exec!Init
    PROVE  ExInv
<1>1. /\ execBody = [left |-> Chunks, there |-> TRUE] /\ execCall = "none" /\ execFrames = <<>>
      /\ execGot = 0 /\ execSession = "ok" /\ execUp = <<>> /\ execDown = <<>>
      /\ execHost = [run |-> "run", send |-> "read", inputError |-> FALSE, cancelled |-> FALSE]
      /\ execSrv = [at |-> "accept", closed |-> FALSE, ctx |-> FALSE, deadline |-> FALSE,
                    wait |-> "none", delayed |-> FALSE]
      /\ execRecv = [at |-> "none", error |-> FALSE] /\ execPipe = [n |-> 0, closed |-> FALSE]
      /\ execProc = [state |-> "none", code |-> "0", read |-> 0, wrote |-> 0, eof |-> FALSE]
      /\ execOut = [n |-> 0, copy |-> "run", error |-> FALSE]
  BY DEF Exec!Init
<1>2. Chunks \in Nat /\ "0" \in Exec!Codes
  BY SessionsAssumption DEF SessionsAssumption, Exec!Codes
<1>3. ExTyped
  BY ONLY SMTT(30), <1>1, <1>2 DEF ExTyped, ExHosts, ExServers, ExRecvs, ExProcs, ExOuts, ExFinals
<1>4. ExControl
  BY ONLY SMTT(30), <1>1 DEF ExControl, ExEarly, ExIdle, ExPhase, ExCopy, ExLinked
<1>5. Len(execUp) = 0 /\ Len(execDown) = 0 /\ Len(execFrames) = 0
      /\ (\A i \in 1..0 : FALSE)
  BY ONLY SMTT(30), <1>1
<1>6. ExTaken = 0 /\ ExLead = 0 /\ ExPassed = 0
  BY ONLY SMTT(30), <1>1, <1>5 DEF ExTaken, ExHeld, ExLead, ExPassed
<1>7. ExInput
  <2>1. Chunks + (0 + 0) = Chunks
    BY ONLY SMTT(30), <1>2
  <2>2. ExSending /\ ExClosing
    BY ZenonT(30), <1>1, <1>5, <1>6, <2>1 DEF ExSending, ExClosing
  <2>3. ExTold /\ ExCut /\ ExEof /\ ExLate
    BY ONLY <1>1 DEF ExTold, ExCut, ExEof, ExLate
  <2> QED
    BY <2>2, <2>3 DEF ExInput
<1>8. ExOutput
  <2>1. 0 + (0 + 0) = 0 + 0
    BY SMTT(30)
  <2>2. ExFlowing
    BY <1>1, <1>5, <1>6, <2>1 DEF ExFlowing
  <2>3. ExDown /\ ExReplied
    BY <1>5 DEF ExDown, ExReplied
  <2>4. ExReturned /\ ExCalled
    BY <1>1, ExNames DEF ExReturned, ExCalled
  <2> QED
    BY <2>2, <2>3, <2>4 DEF ExOutput
<1> QED
  BY <1>3, <1>4, <1>7, <1>8 DEF ExInv

LEMMA ExNext ==
    ASSUME ExInv, Exec!Next
    PROVE  ExInv'
<1>1. CASE \/ Exec!CallOutput \/ Exec!CallResult \/ Exec!CallFailed \/ Exec!SendChunk \/ Exec!ReadFailed
           \/ Exec!sendInput \/ Exec!RunExit \/ Exec!RunDecodeFailed \/ Exec!HostClose
           \/ \E fails \in BOOLEAN : Exec!Register(fails) \/ Exec!RunOutput(fails)
  BY <1>1, ExCallTakes, ExCallEnds, ExCallFails, ExSendsChunk, ExReadFails, ExSendsEnd, ExRunEnds,
     ExDecodeFails, ExCloses, ExRegisters, ExRunShows
<1>2. CASE \/ Exec!track \/ Exec!Stop \/ Exec!Close \/ Exec!Start \/ Exec!Reap \/ Exec!Drained
           \/ Exec!WaitDelay \/ Exec!runCommand
  BY <1>2, ExTracks, ExStops, ExCloses, ExStarts, ExReaps, ExDrains, ExDelays, ExServerEnds
<1>3. CASE \/ Exec!RecvClose \/ Exec!RecvChunk \/ Exec!RecvWrite \/ Exec!RecvFailed \/ Exec!RecvCancel
           \/ Exec!Write \/ Exec!CopyEnd \/ Exec!Command \/ Exec!Kill
  BY <1>3, ExRecvCloses, ExRecvTakes, ExRecvWrites, ExRecvFails, ExRecvCancels, ExWrites,
     ExCopyEnds, ExCommands, ExKills
<1> QED
  BY <1>1, <1>2, <1>3 DEF Exec!Next

LEMMA ExTrue == ExInv => Exec!ReportIsTrue
<1> SUFFICES ASSUME ExInv PROVE Exec!ReportIsTrue
  OBVIOUS
<1>1. ExCalled /\ ExPhase
  BY DEF ExInv, ExOutput, ExControl
<1>2. execSrv.at = "end" => execProc.state # "running"
  BY <1>1 DEF ExPhase
<1> QED
  BY <1>1, <1>2 DEF ExCalled, ExKnows, ExEnded, Exec!ReportIsTrue

LEMMA ExInvariant == SessionsSpec => [](focus = "exec" => ExInv)
<1> DEFINE Inv == focus = "exec" => ExInv
<1>1. SessionsInit => Inv
  BY ExInit DEF SessionsInit
<1>2. Inv /\ [SessionsNext]_sessionsVars => Inv'
  <2> SUFFICES ASSUME Inv, [SessionsNext]_sessionsVars, focus' = "exec"
               PROVE  ExInv'
    OBVIOUS
  <2>1. CASE ExecStep
    BY <2>1, ExNext DEF ExecStep
  <2>2. CASE RelayStep \/ LogStep
    BY <2>2 DEF RelayStep, LogStep
  <2>3. CASE UNCHANGED sessionsVars
    <3>1. focus' = focus /\ UNCHANGED execVars
      BY <2>3 DEF sessionsVars
    <3> QED
      BY <3>1, ExUnchanged
  <2> QED
    BY <2>1, <2>2, <2>3 DEF SessionsNext
<1> QED
  BY <1>1, <1>2, PTL DEF SessionsSpec

-----------------------------------------------------------------------------

\* A forwarding that ends without error has delivered both streams (relayPort);
\* a status that the caller of a command gets is the command's own, comes after
\* all its output, and is no success over a cut-off input (Run, runCommand,
\* receiveInput); and a follower that waits has shown the newest boot's log as
\* far as the file goes (Paths.Logs).
THEOREM StreamsAreWhole == SessionsSpec => []NothingTruncated
<1>1. (focus = "relay" => RlInv) /\ (focus = "exec" => ExInv) /\ (focus = "log" => LgInv)
      => NothingTruncated
  BY RlWhole, ExTrue, LgUpToDate DEF NothingTruncated
<1> QED
  BY <1>1, RlInvariant, ExInvariant, LgInvariant, PTL
=============================================================================
