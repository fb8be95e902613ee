-------------------------- MODULE InvalidatorProofs --------------------------
(***************************************************************************)
(* Proofs about the Redis invalidator, for any enforcers, users, channel   *)
(* capacity and bounds on mutations and faults: no order of breaks,        *)
(* resubscriptions, broadcasts and calls of Messages loses an invalidation *)
(* silently, and the broadcast never waits for a full channel.             *)
(***************************************************************************)
EXTENDS Invalidator, SequenceTheorems, TLAPS

\* What a broadcast knows: the replacement flush is at one channel, which it has
\* not served yet and which is empty once it is drained.
SendingInv ==
    /\ sending.phase = "idle" => sending.left = {}
    /\ sending.phase \in {"drain", "send"} =>
          /\ sending.ev = InvalidateFlush
          /\ sending.at \subseteq sending.left
          /\ \A e, f \in sending.at : e = f
    /\ sending.phase = "send" => \A e \in sending.at : queue[e] = << >>

\* A subscription at Redis whose acknowledgement run has not seen has it on the
\* wire: Messages may leave the flush of a new channel to it.
ReadyInv == conn = "up" /\ ~ ready => \E i \in DOMAIN wire : wire[i] = Ack

\* The inductive invariant.
IInv == TypeOK /\ SendingInv /\ ReadyInv /\ StaleIsCovered

-----------------------------------------------------------------------------
(* Sequences *)

\* Append keeps what is there and adds one element.
LEMMA AppendFacts ==
    ASSUME NEW S, NEW s \in Seq(S), NEW x \in S
    PROVE  /\ Append(s, x) \in Seq(S) /\ Len(Append(s, x)) = Len(s) + 1
           /\ \A i \in DOMAIN s : i \in DOMAIN Append(s, x) /\ Append(s, x)[i] = s[i]
           /\ Len(s) + 1 \in DOMAIN Append(s, x) /\ Append(s, x)[Len(s) + 1] = x
  OBVIOUS

\* Taking the head leaves every other element.
LEMMA TailFacts ==
    ASSUME NEW S, NEW s \in Seq(S), s # << >>
    PROVE  /\ Head(s) \in S /\ Tail(s) \in Seq(S) /\ Len(Tail(s)) = Len(s) - 1
           /\ \A i \in DOMAIN s : \/ s[i] = Head(s)
                                  \/ i - 1 \in DOMAIN Tail(s) /\ Tail(s)[i - 1] = s[i]
  OBVIOUS

-----------------------------------------------------------------------------
(* Types *)

\* The broadcast after some channels are served.
LEMMA AfterFacts ==
    ASSUME TypeOK, NEW done
    PROVE  /\ After(done) \in SendStates
           /\ After(done).phase \in {"idle", "try"}
           /\ After(done).phase = "idle" => After(done).left = {}
           /\ \A e : e \in sending.left /\ e \notin done =>
                 e \in After(done).left /\ After(done).ev = sending.ev
<1> DEFINE y == [sending EXCEPT !.phase = "try", !.left = @ \ done, !.at = {}]
<1>1. sending \in SendStates
  BY DEF TypeOK
<1>2. y \in SendStates /\ y.phase = "try" /\ y.left = sending.left \ done /\ y.ev = sending.ev
  BY <1>1 DEF SendStates
<1>3. NoSend \in SendStates /\ NoSend.phase = "idle" /\ NoSend.left = {}
  BY DEF SendStates, NoSend, Events
<1>4. After(done) = IF sending.left \subseteq done THEN NoSend ELSE y
  BY DEF After
<1> HIDE DEF y
<1> QED
  BY <1>2, <1>3, <1>4

\* The broadcast at a full channel.
LEMMA NextPhaseFacts ==
    ASSUME TypeOK, NEW e \in Enforcers
    PROVE  /\ NextPhase(e) \in SendStates
           /\ sending.ev = InvalidateFlush =>
                 /\ NextPhase(e).phase = "drain" /\ NextPhase(e).at = {e}
                 /\ NextPhase(e).left = sending.left /\ NextPhase(e).ev = sending.ev
           /\ sending.ev # InvalidateFlush => NextPhase(e) = After({e})
<1> DEFINE y == [sending EXCEPT !.phase = "drain", !.at = {e}]
<1>1. sending \in SendStates
  BY DEF TypeOK
<1>2. /\ y \in SendStates /\ y.phase = "drain" /\ y.at = {e}
      /\ y.left = sending.left /\ y.ev = sending.ev
  BY <1>1 DEF SendStates
<1>3. NextPhase(e) = IF sending.ev = InvalidateFlush THEN y ELSE After({e})
  BY DEF NextPhase
<1> HIDE DEF y
<1> QED
  BY <1>2, <1>3, AfterFacts

\* The broadcast of a received message, which takes r.mu.
LEMMA ReceivedFacts ==
    ASSUME TypeOK, NEW m \in Events \cup {Ack}
    PROVE  /\ Received(m) \in SendStates
           /\ Received(m).phase \in {"idle", "try"}
           /\ Received(m).left = subs
           /\ Received(m).phase = "idle" => subs = {}
           /\ Received(m).ev = IF m = Ack THEN InvalidateFlush ELSE m
  BY DEF Received, TypeOK, SendStates, Events

\* The channels start empty and the broadcast idle.
LEMMA IInit == Init => IInv
<1> SUFFICES ASSUME Init PROVE IInv
  OBVIOUS
<1>1. NoSend \in SendStates /\ NoSend.phase = "idle" /\ NoSend.left = {}
  BY DEF SendStates, NoSend, Events
<1>2. NewLoop \in LoopStates
  BY DEF NewLoop, LoopStates, Events
<1>3. TypeOK
  <2>1. cached \in [Enforcers -> [Users -> {"none", "fresh", "stale"}]]
    BY DEF Init
  <2>2. queue \in [Enforcers -> Seq(Events)] /\ \A e \in Enforcers : Len(queue[e]) <= QueueCap
    BY InvalidatorConstantsOK DEF Init
  <2>3. unsent \in [Events -> Nat] /\ loop \in [Enforcers -> LoopStates] /\ sending \in SendStates
    BY <1>1, <1>2 DEF Init
  <2>4. wire \in Seq(Events \cup {Ack})
    BY DEF Init
  <2>5. ready \in BOOLEAN
    BY DEF Init
  <2>6. commits \in 0 .. MaxCommits /\ faults \in 0 .. MaxFaults
    BY InvalidatorConstantsOK DEF Init
  <2>7. subs \subseteq Enforcers /\ shut \subseteq Enforcers /\ missed \subseteq Enforcers \X Users
    BY DEF Init
  <2> QED
    BY <2>1, <2>2, <2>3, <2>4, <2>5, <2>6, <2>7 DEF TypeOK, Init
<1>4. SendingInv
  BY <1>1 DEF Init, SendingInv
<1> QED
  BY <1>3, <1>4 DEF IInv, Init, ReadyInv, StaleIsCovered

-----------------------------------------------------------------------------

\* A channel is given a new content within its capacity.
LEMMA ChannelSet ==
    ASSUME TypeOK, NEW e \in Enforcers, NEW q \in Seq(Events), Len(q) <= QueueCap,
           queue' = [queue EXCEPT ![e] = q]
    PROVE  queue' \in [Enforcers -> Seq(Events)] /\ \A f \in Enforcers : Len(queue'[f]) <= QueueCap
  BY DEF TypeOK

\* The types are kept.
LEMMA TypeNext == ASSUME TypeOK, SendingInv, Next PROVE TypeOK'
<1>0. /\ wire \in Seq(Events \cup {Ack}) /\ queue \in [Enforcers -> Seq(Events)]
      /\ loop \in [Enforcers -> LoopStates] /\ sending \in SendStates
      /\ MaxFaults \in Nat /\ MaxCommits \in Nat /\ QueueCap \in Nat /\ QueueCap > 0
  BY InvalidatorConstantsOK DEF TypeOK
<1>1. CASE Subscribe \/ ReceiveFails \/ DialFails \/ Retry \/ Close
  <2>1. wire' \in Seq(Events \cup {Ack})
    <3>1. wire' \in {wire, <<Ack>>, << >>}
      BY <1>1 DEF Subscribe, ReceiveFails, DialFails, Retry, Close
    <3>2. <<Ack>> \in Seq(Events \cup {Ack}) /\ << >> \in Seq(Events \cup {Ack})
      OBVIOUS
    <3> QED
      BY <1>0, <3>1, <3>2, Zenon
  <2>2. ready' \in BOOLEAN
    BY <1>1 DEF TypeOK, Subscribe, ReceiveFails, DialFails, Retry, Close
  <2>3. faults' \in 0 .. MaxFaults
    BY <1>0, <1>1 DEF TypeOK, Subscribe, ReceiveFails, DialFails, Retry, Close
  <2>4. UNCHANGED <<queue, sending, loop, cached, unsent, missed, commits, subs, shut>>
    BY <1>1 DEF Subscribe, ReceiveFails, DialFails, Retry, Close, registry, policy
  <2>5. /\ conn' \in {"down", "up", "broken"} /\ run' \in {"receive", "backoff", "ended"}
        /\ closing' \in {"no", "cancelled", "returned"}
    BY <1>1 DEF TypeOK, Subscribe, ReceiveFails, DialFails, Retry, Close, registry
  <2> QED
    BY <2>1, <2>2, <2>3, <2>4, <2>5 DEF TypeOK
<1>2. CASE Break
  <2>1. PICK n \in 0 .. Len(wire) : wire' = SubSeq(wire, 1, n)
    BY <1>2 DEF Break
  <2>2. wire' \in Seq(Events \cup {Ack})
    BY <1>0, <2>1
  <2> QED
    BY <1>0, <1>2, <2>2 DEF TypeOK, Break, registry, policy
<1>3. CASE Receive
  <2>1. Head(wire) \in Events \cup {Ack} /\ wire' \in Seq(Events \cup {Ack})
    BY <1>0, <1>3, TailFacts DEF Receive
  <2>2. sending' \in SendStates
    BY <1>3, <2>1, ReceivedFacts DEF Receive
  <2> QED
    BY <1>3, <2>1, <2>2 DEF TypeOK, Receive, registry, policy
<1>4. CASE RunEnds \/ CloseReturns
  BY <1>4 DEF TypeOK, RunEnds, CloseReturns, closeSubscribers, link, policy
<1>5. ASSUME NEW e \in Enforcers, Try(e) PROVE TypeOK'
  <2>1. CASE Full(e)
    <3>1. sending' \in SendStates
      BY <1>5, <2>1, NextPhaseFacts DEF Try
    <3>2. missed' \subseteq Enforcers \X Users
      BY <1>0, <1>5, <2>1 DEF Try, TypeOK, SendStates, Events
    <3> QED
      BY <1>5, <2>1, <3>1, <3>2 DEF TypeOK, Try, link, registry, policy
  <2>2. CASE ~ Full(e)
    <3>1. sending' \in SendStates
      BY <1>5, <2>2, AfterFacts DEF Try
    <3>2. sending.ev \in Events
      BY <1>0 DEF SendStates
    <3>3. queue' \in [Enforcers -> Seq(Events)] /\ \A f \in Enforcers : Len(queue'[f]) <= QueueCap
      <4>1. queue[e] \in Seq(Events) /\ Len(queue[e]) < QueueCap /\ Len(queue[e]) \in Nat
        BY <1>0, <2>2 DEF Full
      <4>2. Append(queue[e], sending.ev) \in Seq(Events) /\ Len(Append(queue[e], sending.ev)) = Len(queue[e]) + 1
        BY <3>2, <4>1, AppendFacts
      <4>3. queue' = [queue EXCEPT ![e] = Append(queue[e], sending.ev)]
        BY <1>5, <2>2 DEF Try
      <4> QED
        BY <1>0, <4>1, <4>2, <4>3 DEF TypeOK
    <3> QED
      BY <1>5, <2>2, <3>1, <3>3 DEF TypeOK, Try, link, registry, policy
  <2> QED
    BY <2>1, <2>2
<1>6. ASSUME NEW e \in Enforcers, Drain(e) PROVE TypeOK'
  <2> DEFINE y == [sending EXCEPT !.phase = "send"]
  <2>1. y \in SendStates
    BY <1>0 DEF SendStates
  <2>2. sending' \in SendStates
    BY <1>0, <1>6, <2>1 DEF Drain
  <2>3. queue' \in [Enforcers -> Seq(Events)] /\ \A f \in Enforcers : Len(queue'[f]) <= QueueCap
    BY <1>0, <1>6, TailFacts DEF Drain, TypeOK
  <2> QED
    BY <1>6, <2>2, <2>3 DEF TypeOK, Drain, link, registry, policy
<1>7. ASSUME NEW e \in Enforcers, SendFlush(e) PROVE TypeOK'
  <2>1. sending' \in SendStates
    BY <1>7, AfterFacts DEF SendFlush
  <2>2. queue' \in [Enforcers -> Seq(Events)] /\ \A f \in Enforcers : Len(queue'[f]) <= QueueCap
    BY <1>0, <1>7, AppendFacts DEF SendFlush, Full, TypeOK, Events
  <2> QED
    BY <1>7, <2>1, <2>2 DEF TypeOK, SendFlush, link, registry, policy
<1>8. ASSUME NEW e \in Enforcers, Messages(e) PROVE TypeOK'
  <2>1. loop' \in [Enforcers -> LoopStates]
    BY <1>0, <1>8 DEF Messages, LoopStates
  <2>2. queue' \in [Enforcers -> Seq(Events)] /\ \A f \in Enforcers : Len(queue'[f]) <= QueueCap
    <3>1. CASE closed
      BY <1>8, <3>1 DEF Messages, TypeOK
    <3>2. CASE ~ closed /\ ready
      <4>1. queue' = [queue EXCEPT ![e] = <<InvalidateFlush>>]
        BY <1>8, <3>2 DEF Messages
      <4>2. <<InvalidateFlush>> \in Seq(Events) /\ Len(<<InvalidateFlush>>) <= QueueCap
        BY <1>0 DEF Events
      <4> QED
        BY <4>1, <4>2, ChannelSet
    <3>3. CASE ~ closed /\ ~ ready
      <4>1. queue' = [queue EXCEPT ![e] = << >>]
        BY <1>8, <3>3 DEF Messages
      <4>2. << >> \in Seq(Events) /\ Len(<< >>) <= QueueCap
        BY <1>0
      <4> QED
        BY <4>1, <4>2, ChannelSet
    <3> QED
      BY <3>1, <3>2, <3>3
  <2> QED
    BY <1>8, <2>1, <2>2 DEF TypeOK, Messages, link, policy
<1>9. ASSUME NEW e \in Enforcers, StopLoop(e) \/ EndLoop(e) PROVE TypeOK'
  <2>1. loop' \in [Enforcers -> LoopStates]
    BY <1>0, <1>9 DEF StopLoop, EndLoop, LoopStates
  <2> QED
    BY <1>9, <2>1 DEF TypeOK, StopLoop, EndLoop, link, registry, policy
<1>10. ASSUME NEW e \in Enforcers, unsubscribe(e) PROVE TypeOK'
  BY <1>10 DEF TypeOK, unsubscribe, link, policy
<1>11. ASSUME NEW e \in Enforcers, TakeEvent(e) PROVE TypeOK'
  <2>1. queue[e] \in Seq(Events) /\ queue[e] # << >>
    BY <1>0, <1>11 DEF TakeEvent
  <2>2. Head(queue[e]) \in Events /\ Tail(queue[e]) \in Seq(Events) /\ Len(Tail(queue[e])) = Len(queue[e]) - 1
    BY <2>1, TailFacts
  <2>3. loop' \in [Enforcers -> LoopStates]
    BY <1>0, <1>11, <2>2 DEF TakeEvent, LoopStates
  <2>4. queue' \in [Enforcers -> Seq(Events)] /\ \A f \in Enforcers : Len(queue'[f]) <= QueueCap
    BY <1>0, <1>11, <2>2 DEF TakeEvent, TypeOK
  <2> QED
    BY <1>11, <2>3, <2>4 DEF TypeOK, TakeEvent, link, registry, policy
<1>12. ASSUME NEW e \in Enforcers, applyInvalidation(e) PROVE TypeOK'
  <2>1. loop' \in [Enforcers -> LoopStates]
    BY <1>0, <1>12 DEF applyInvalidation, LoopStates
  <2>2. cached' \in [Enforcers -> [Users -> {"none", "fresh", "stale"}]]
    BY <1>12 DEF applyInvalidation, TypeOK
  <2> QED
    BY <1>12, <2>1, <2>2 DEF TypeOK, applyInvalidation, link, registry, policy
<1>13. ASSUME NEW e \in Enforcers, NEW u \in Users, Fill(e, u) PROVE TypeOK'
  <2>1. cached' \in [Enforcers -> [Users -> {"none", "fresh", "stale"}]]
    BY <1>13 DEF Fill, TypeOK
  <2> QED
    BY <1>13, <2>1 DEF TypeOK, Fill, link, registry, policy
<1>14. ASSUME NEW ev \in Events, Commit(ev) PROVE TypeOK'
  <2>1. cached' \in [Enforcers -> [Users -> {"none", "fresh", "stale"}]]
    BY <1>14 DEF Commit, TypeOK
  <2>2. unsent' \in [Events -> Nat]
    BY <1>14 DEF Commit, TypeOK
  <2> QED
    BY <1>0, <1>14, <2>1, <2>2 DEF TypeOK, Commit, link, registry
<1>15. ASSUME NEW ev \in Events, Publish(ev) \/ PublishFails(ev) PROVE TypeOK'
  <2>1. unsent' \in [Events -> Nat]
    <3>1. unsent \in [Events -> Nat] /\ unsent[ev] > 0 /\ unsent' = [unsent EXCEPT ![ev] = unsent[ev] - 1]
      BY <1>15 DEF Publish, PublishFails, TypeOK
    <3> QED
      BY <3>1
  <2>2. wire' \in Seq(Events \cup {Ack})
    <3>1. wire' = wire \/ wire' = Append(wire, ev)
      BY <1>15 DEF Publish, PublishFails, link
    <3> QED
      BY <1>0, <3>1
  <2>3. missed' \subseteq Enforcers \X Users
    BY <1>15 DEF Publish, PublishFails, TypeOK, Hits, Events
  <2> QED
    BY <1>0, <1>15, <2>1, <2>2, <2>3 DEF TypeOK, Publish, PublishFails, link, registry
<1> QED
  BY <1>1, <1>2, <1>3, <1>4, <1>5, <1>6, <1>7, <1>8, <1>9, <1>10, <1>11, <1>12, <1>13, <1>14,
     <1>15 DEF Next, RunStep, Broadcast, LoopStep

-----------------------------------------------------------------------------
(* The broadcast *)

\* Only the broadcast and, with r.mu, Messages put something into a channel, so
\* that a drained channel stays empty until its flush is sent.
LEMMA SendingNext == ASSUME TypeOK, SendingInv, Next PROVE SendingInv'
<1>0. sending \in SendStates /\ queue \in [Enforcers -> Seq(Events)]
  BY DEF TypeOK
<1>1. CASE UNCHANGED <<sending, queue>>
  BY <1>1 DEF SendingInv
<1>2. ASSUME sending'.phase \in {"idle", "try"}, sending'.phase = "idle" => sending'.left = {}
      PROVE  SendingInv'
  BY <1>2 DEF SendingInv
<1>3. CASE Receive
  <2>1. Head(wire) \in Events \cup {Ack}
    BY <1>3, TailFacts DEF Receive, TypeOK
  <2> QED
    BY <1>2, <1>3, <2>1, ReceivedFacts DEF Receive
<1>4. ASSUME NEW e \in Enforcers, Try(e) PROVE SendingInv'
  <2>1. CASE Full(e) /\ sending.ev = InvalidateFlush
    <3>1. sending' = NextPhase(e) /\ e \in sending.left
      BY <1>4, <2>1 DEF Try
    <3>2. /\ sending'.phase = "drain" /\ sending'.at = {e} /\ sending'.left = sending.left
          /\ sending'.ev = InvalidateFlush
      BY <2>1, <3>1, NextPhaseFacts
    <3> QED
      BY <3>1, <3>2 DEF SendingInv
  <2>2. CASE ~ (Full(e) /\ sending.ev = InvalidateFlush)
    <3>1. sending' = After({e})
      BY <1>4, <2>2, NextPhaseFacts DEF Try
    <3> QED
      BY <1>2, <3>1, AfterFacts
  <2> QED
    BY <2>1, <2>2
<1>5. ASSUME NEW e \in Enforcers, Drain(e) PROVE SendingInv'
  <2>1. CASE queue[e] = << >>
    <3> DEFINE y == [sending EXCEPT !.phase = "send"]
    <3>1. y.phase = "send" /\ y.ev = sending.ev /\ y.at = sending.at /\ y.left = sending.left
      BY <1>0 DEF SendStates
    <3>2. sending' = y /\ queue' = queue
      BY <1>0, <1>5, <2>1 DEF Drain
    <3> HIDE DEF y
    <3>3. \A f \in sending.at : f = e
      BY <1>5 DEF Drain, SendingInv
    <3> QED
      BY <1>5, <2>1, <3>1, <3>2, <3>3 DEF Drain, SendingInv
  <2>2. CASE queue[e] # << >>
    BY <1>5, <2>2 DEF Drain, SendingInv
  <2> QED
    BY <2>1, <2>2
<1>6. ASSUME NEW e \in Enforcers, SendFlush(e) PROVE SendingInv'
  BY <1>2, <1>6, AfterFacts DEF SendFlush
<1>7. ASSUME NEW e \in Enforcers, Messages(e) PROVE SendingInv'
  BY <1>2, <1>7 DEF Messages, SendingInv
<1>8. ASSUME NEW e \in Enforcers, TakeEvent(e) PROVE SendingInv'
  <2>1. queue' = [queue EXCEPT ![e] = Tail(queue[e])] /\ queue[e] # << >> /\ sending' = sending
    BY <1>8 DEF TakeEvent
  <2>2. sending.phase = "send" => \A f \in sending.at : queue'[f] = << >>
    BY <1>0, <2>1 DEF SendingInv
  <2> QED
    BY <2>1, <2>2 DEF SendingInv
<1>9. CASE \/ Subscribe \/ ReceiveFails \/ Retry \/ RunEnds \/ Break \/ DialFails
           \/ Close \/ CloseReturns
           \/ \E e \in Enforcers : \/ StopLoop(e) \/ unsubscribe(e) \/ EndLoop(e)
                                   \/ applyInvalidation(e)
                                   \/ \E u \in Users : Fill(e, u)
           \/ \E ev \in Events : Commit(ev) \/ Publish(ev) \/ PublishFails(ev)
  <2>1. UNCHANGED <<sending, queue>>
    BY <1>9 DEF Subscribe, ReceiveFails, Retry, RunEnds, Break, DialFails, Close, CloseReturns,
                StopLoop, unsubscribe, EndLoop, applyInvalidation, Fill, Commit, Publish,
                PublishFails
  <2> QED
    BY <1>1, <2>1
<1> QED
  BY <1>3, <1>4, <1>5, <1>6, <1>7, <1>8, <1>9 DEF Next, RunStep, Broadcast, LoopStep

-----------------------------------------------------------------------------
(* The subscription *)

\* An acknowledgement leaves the wire by making the invalidator ready.
LEMMA ReadyNext == ASSUME TypeOK, ReadyInv, Next PROVE ReadyInv'
<1>0. wire \in Seq(Events \cup {Ack})
  BY DEF TypeOK
<1>1. CASE UNCHANGED <<conn, wire, ready>>
  BY <1>1 DEF ReadyInv
<1>2. CASE conn' # "up"
  BY <1>2 DEF ReadyInv
<1>3. CASE Subscribe
  <2>1. wire' = <<Ack>>
    BY <1>3 DEF Subscribe
  <2>2. 1 \in DOMAIN wire' /\ wire'[1] = Ack
    BY <2>1
  <2> QED
    BY <2>2 DEF ReadyInv
<1>4. CASE Receive
  <2>1. SUFFICES ASSUME conn' = "up", ~ ready' PROVE \E i \in DOMAIN wire' : wire'[i] = Ack
    BY DEF ReadyInv
  <2>2. conn = "up" /\ ~ ready /\ Head(wire) # Ack /\ wire' = Tail(wire) /\ wire # << >>
    BY <1>4, <2>1 DEF Receive
  <2>3. PICK i \in DOMAIN wire : wire[i] = Ack
    BY <2>2 DEF ReadyInv
  <2>4. i - 1 \in DOMAIN Tail(wire) /\ Tail(wire)[i - 1] = wire[i]
    BY <1>0, <2>2, <2>3, TailFacts
  <2> QED
    BY <2>2, <2>3, <2>4
<1>5. ASSUME NEW ev \in Events, Publish(ev) PROVE ReadyInv'
  <2>1. SUFFICES ASSUME conn = "up", ~ ready PROVE \E i \in DOMAIN wire' : wire'[i] = Ack
    BY <1>5 DEF ReadyInv, Publish
  <2>2. PICK i \in DOMAIN wire : wire[i] = Ack
    BY <2>1 DEF ReadyInv
  <2>3. wire' = Append(wire, ev)
    BY <1>5, <2>1 DEF Publish
  <2>4. i \in DOMAIN Append(wire, ev) /\ Append(wire, ev)[i] = wire[i]
    BY <1>0, <2>2, AppendFacts
  <2> QED
    BY <2>2, <2>3, <2>4
<1>6. CASE Break \/ ReceiveFails \/ DialFails \/ Close
  BY <1>2, <1>6 DEF Break, ReceiveFails, DialFails, Close
<1>7. CASE \/ Retry \/ RunEnds \/ Broadcast \/ CloseReturns
           \/ \E e \in Enforcers : \/ Messages(e) \/ StopLoop(e) \/ unsubscribe(e)
                                   \/ LoopStep(e)
                                   \/ \E u \in Users : Fill(e, u)
           \/ \E ev \in Events : Commit(ev) \/ PublishFails(ev)
  <2>1. UNCHANGED <<conn, wire, ready>>
    BY <1>7 DEF Retry, RunEnds, Broadcast, Try, Drain, SendFlush, CloseReturns, Messages, StopLoop,
                unsubscribe, LoopStep, TakeEvent, EndLoop, applyInvalidation, Fill, Commit,
                PublishFails, link
  <2> QED
    BY <1>1, <2>1
<1> QED
  BY <1>3, <1>4, <1>5, <1>6, <1>7 DEF Next, RunStep

-----------------------------------------------------------------------------
(* Stale snapshots *)

\* Where an invalidation of u can be, and what excuses its absence.
Unpublished(u) == \E ev \in Events : unsent[ev] > 0 /\ u \in Hits(ev)
OnWire(u) == \E i \in DOMAIN wire : wire[i] = Ack \/ u \in Hits(wire[i])
SendingTo(e, u) == e \in sending.left /\ u \in Hits(sending.ev)
Applying(e, u) == loop[e].pc = "apply" /\ u \in Hits(loop[e].ev)
Excused(e, u) == conn # "up" \/ <<e, u>> \in missed \/ loop[e].stop

Covered(e, u) == \/ Unpublished(u) \/ OnWire(u) \/ SendingTo(e, u) \/ Waits(e, u)
                 \/ Applying(e, u) \/ Excused(e, u)

\* StaleIsCovered in these terms.
LEMMA CoveredFacts ==
    StaleIsCovered <=> \A e \in subs, u \in Users : cached[e][u] = "stale" => Covered(e, u)
  BY DEF StaleIsCovered, OnItsWay, Covered, Unpublished, OnWire, SendingTo, Applying, Excused

\* A flush is for everybody.
LEMMA FlushHits == ASSUME NEW u \in Users PROVE u \in Hits(InvalidateFlush)
  BY DEF Hits

\* A channel to which an event is added still holds what it held.
LEMMA WaitsAppend ==
    ASSUME TypeOK, NEW e \in Enforcers, NEW u \in Users, NEW ev \in Events, NEW f \in Enforcers,
           queue' = [queue EXCEPT ![f] = Append(queue[f], ev)],
           Waits(e, u) \/ (e = f /\ u \in Hits(ev))
    PROVE  Waits(e, u)'
<1>0. queue[f] \in Seq(Events) /\ queue \in [Enforcers -> Seq(Events)]
  BY DEF TypeOK
<1>1. CASE e # f
  BY <1>0, <1>1 DEF Waits
<1>2. CASE e = f
  <2>1. queue'[e] = Append(queue[e], ev)
    BY <1>0, <1>2
  <2>2. CASE u \in Hits(ev)
    <3>1. Len(queue[e]) + 1 \in DOMAIN queue'[e] /\ queue'[e][Len(queue[e]) + 1] = ev
      BY <1>0, <1>2, <2>1, AppendFacts
    <3> QED
      BY <2>2, <3>1 DEF Waits
  <2>3. CASE Waits(e, u)
    <3>1. PICK i \in DOMAIN queue[e] : u \in Hits(queue[e][i])
      BY <2>3 DEF Waits
    <3>2. i \in DOMAIN queue'[e] /\ queue'[e][i] = queue[e][i]
      BY <1>0, <1>2, <2>1, <3>1, AppendFacts
    <3> QED
      BY <3>1, <3>2 DEF Waits
  <2> QED
    BY <1>2, <2>2, <2>3
<1> QED
  BY <1>1, <1>2

\* A step that changes none of the places keeps an invalidation where it is.
LEMMA CoveredStays ==
    ASSUME NEW e, NEW u, Covered(e, u),
           UNCHANGED <<unsent, wire, sending, queue, loop, conn, missed>>
    PROVE  Covered(e, u)'
  BY DEF Covered, Unpublished, OnWire, SendingTo, Waits, Applying, Excused

\* A new channel of a subscription that is at Redis gets its flush at once, or
\* from the acknowledgement that is on the wire.
LEMMA MessagesCover ==
    ASSUME TypeOK, ReadyInv, NEW e \in Enforcers, Messages(e), NEW u \in Users, ~ closed
    PROVE  Covered(e, u)'
<1>0. queue \in [Enforcers -> Seq(Events)]
  BY DEF TypeOK
<1>1. CASE conn # "up"
  BY <1>1 DEF Messages, link, Covered, Excused
<1>2. CASE conn = "up" /\ ready
  <2>1. queue' = [queue EXCEPT ![e] = <<InvalidateFlush>>]
    BY <1>2 DEF Messages
  <2>2. queue'[e] = <<InvalidateFlush>>
    BY <1>0, <2>1
  <2>3. 1 \in DOMAIN queue'[e] /\ u \in Hits(queue'[e][1])
    BY <2>2, FlushHits
  <2> QED
    BY <2>3 DEF Covered, Waits
<1>3. CASE conn = "up" /\ ~ ready
  <2>1. \E i \in DOMAIN wire : wire[i] = Ack
    BY <1>3 DEF ReadyInv
  <2>2. wire' = wire
    BY DEF Messages, link
  <2> QED
    BY <2>1, <2>2 DEF Covered, OnWire
<1> QED
  BY <1>1, <1>2, <1>3

\* What the broadcast does with the invalidation of u for e.
LEMMA BroadcastCover ==
    ASSUME TypeOK, SendingInv, NEW e \in Enforcers, NEW u \in Users, Covered(e, u), Broadcast
    PROVE  Covered(e, u)'
<1>0. sending \in SendStates /\ queue \in [Enforcers -> Seq(Events)] /\ sending.ev \in Events
  BY DEF TypeOK, SendStates
<1>1. UNCHANGED <<unsent, wire, loop, conn>>
  BY DEF Broadcast, Try, Drain, SendFlush, link, policy
<1>2. ASSUME missed \subseteq missed', \/ Unpublished(u) \/ OnWire(u) \/ Applying(e, u) \/ Excused(e, u)
      PROVE  Covered(e, u)'
  BY <1>1, <1>2 DEF Covered, Unpublished, OnWire, Applying, Excused
<1>3. missed \subseteq missed'
  BY DEF Broadcast, Try, Drain, SendFlush
<1>4. SUFFICES ASSUME SendingTo(e, u) \/ Waits(e, u) PROVE Covered(e, u)'
  BY <1>2, <1>3 DEF Covered
<1>5. ASSUME NEW f \in Enforcers, Try(f) PROVE Covered(e, u)'
  <2>1. CASE Full(f) /\ sending.ev = InvalidateFlush
    <3>1. sending' = NextPhase(f) /\ queue' = queue
      BY <1>5, <2>1 DEF Try
    <3>2. sending'.left = sending.left /\ sending'.ev = sending.ev
      BY <2>1, <3>1, NextPhaseFacts
    <3> QED
      BY <1>4, <3>1, <3>2 DEF Covered, SendingTo, Waits
  <2>2. CASE Full(f) /\ sending.ev # InvalidateFlush
    <3>1. sending' = After({f}) /\ queue' = queue /\ missed' = missed \cup {<<f, sending.ev>>}
      BY <1>5, <2>2, NextPhaseFacts DEF Try
    <3>2. CASE Waits(e, u)
      BY <3>1, <3>2 DEF Covered, Waits
    <3>3. CASE SendingTo(e, u) /\ e = f
      <4>1. u = sending.ev
        BY <2>2, <3>3 DEF SendingTo, Hits
      <4> QED
        BY <3>1, <3>3, <4>1 DEF Covered, Excused
    <3>4. CASE SendingTo(e, u) /\ e # f
      BY <3>1, <3>4, AfterFacts DEF Covered, SendingTo
    <3> QED
      BY <1>4, <3>2, <3>3, <3>4
  <2>3. CASE ~ Full(f)
    <3>1. sending' = After({f}) /\ queue' = [queue EXCEPT ![f] = Append(queue[f], sending.ev)]
      BY <1>5, <2>3 DEF Try
    <3>2. CASE Waits(e, u) \/ (SendingTo(e, u) /\ e = f)
      <4>1. Waits(e, u)'
        BY <1>0, <3>1, <3>2, WaitsAppend DEF SendingTo
      <4> QED
        BY <4>1 DEF Covered
    <3>3. CASE SendingTo(e, u) /\ e # f
      BY <3>1, <3>3, AfterFacts DEF Covered, SendingTo
    <3> QED
      BY <1>4, <3>2, <3>3
  <2> QED
    BY <2>1, <2>2, <2>3
<1>6. ASSUME NEW f \in Enforcers, Drain(f) PROVE Covered(e, u)'
  <2>1. sending'.left = sending.left /\ sending'.ev = sending.ev
    BY <1>0, <1>6 DEF Drain, SendStates
  <2>2. CASE e = f
    <3>1. SendingTo(e, u)
      BY <1>6, <2>2, FlushHits DEF Drain, SendingInv, SendingTo
    <3> QED
      BY <2>1, <3>1 DEF Covered, SendingTo
  <2>3. CASE e # f
    <3>1. queue'[e] = queue[e]
      BY <1>0, <1>6, <2>3 DEF Drain
    <3> QED
      BY <1>4, <2>1, <3>1 DEF Covered, SendingTo, Waits
  <2> QED
    BY <2>2, <2>3
<1>7. ASSUME NEW f \in Enforcers, SendFlush(f) PROVE Covered(e, u)'
  <2>1. sending' = After({f}) /\ queue' = [queue EXCEPT ![f] = Append(queue[f], InvalidateFlush)]
    BY <1>7 DEF SendFlush
  <2>2. CASE Waits(e, u) \/ e = f
    <3>1. Waits(e, u)'
      BY <2>1, <2>2, FlushHits, WaitsAppend DEF Events
    <3> QED
      BY <3>1 DEF Covered
  <2>3. CASE SendingTo(e, u) /\ e # f
    BY <2>1, <2>3, AfterFacts DEF Covered, SendingTo
  <2> QED
    BY <1>4, <2>2, <2>3
<1> QED
  BY <1>5, <1>6, <1>7 DEF Broadcast

\* No step loses the invalidation of a stale snapshot.
LEMMA StaleNext ==
    ASSUME TypeOK, SendingInv, ReadyInv, StaleIsCovered, Next
    PROVE  StaleIsCovered'
<1>0. /\ subs \subseteq Enforcers /\ wire \in Seq(Events \cup {Ack})
      /\ queue \in [Enforcers -> Seq(Events)] /\ loop \in [Enforcers -> LoopStates]
      /\ cached \in [Enforcers -> [Users -> {"none", "fresh", "stale"}]]
      /\ unsent \in [Events -> Nat]
  BY DEF TypeOK
<1>1. \A e \in subs, u \in Users : cached[e][u] = "stale" => Covered(e, u)
  BY CoveredFacts
<1>2. SUFFICES ASSUME NEW e \in subs', NEW u \in Users, cached'[e][u] = "stale"
               PROVE  Covered(e, u)'
  BY DEF StaleIsCovered, OnItsWay, Covered, Unpublished, OnWire, SendingTo, Applying, Excused
<1>3. CASE Subscribe
  <2>1. wire' = <<Ack>>
    BY <1>3 DEF Subscribe
  <2>2. 1 \in DOMAIN wire' /\ wire'[1] = Ack
    BY <2>1
  <2> QED
    BY <2>2 DEF Covered, OnWire
<1>4. CASE Break \/ ReceiveFails \/ DialFails \/ Close
  BY <1>4 DEF Break, ReceiveFails, DialFails, Close, Covered, Excused
<1>5. CASE RunEnds \/ CloseReturns
  BY <1>2, <1>5 DEF RunEnds, CloseReturns, closeSubscribers
<1>6. CASE \/ Retry \/ \E f \in Enforcers : unsubscribe(f)
           \/ \E f \in Enforcers, v \in Users : Fill(f, v)
  <2>1. UNCHANGED <<unsent, wire, sending, queue, loop, conn, missed>> /\ e \in subs
    BY <1>6 DEF Retry, unsubscribe, Fill, link, registry, policy
  <2>2. cached[e][u] = "stale"
    <3>1. CASE cached' = cached
      BY <1>2, <3>1
    <3>2. ASSUME NEW f \in Enforcers, NEW v \in Users, cached' = [cached EXCEPT ![f][v] = "fresh"]
          PROVE  cached[e][u] = "stale"
      BY <1>0, <1>2, <2>1, <3>2
    <3> QED
      BY <1>6, <3>1, <3>2 DEF Retry, unsubscribe, Fill
  <2> QED
    BY <1>1, <2>1, <2>2, CoveredStays
<1>7. CASE Receive
  <2>1. e \in subs /\ cached[e][u] = "stale" /\ UNCHANGED <<unsent, queue, loop, conn, missed>>
    BY <1>2, <1>7 DEF Receive, registry, policy
  <2>2. wire # << >> /\ wire' = Tail(wire) /\ sending' = Received(Head(wire)) /\ sending.left = {}
    BY <1>7 DEF Receive, SendingInv
  <2>3. Head(wire) \in Events \cup {Ack}
    BY <1>0, <2>2, TailFacts
  <2>4. sending'.left = subs /\ sending'.ev = IF Head(wire) = Ack THEN InvalidateFlush ELSE Head(wire)
    BY <2>2, <2>3, ReceivedFacts
  <2>5. CASE OnWire(u)
    <3>1. PICK i \in DOMAIN wire : wire[i] = Ack \/ u \in Hits(wire[i])
      BY <2>5 DEF OnWire
    <3>2. CASE wire[i] = Head(wire)
      <4>1. u \in Hits(sending'.ev)
        BY <2>4, <3>1, <3>2, FlushHits
      <4> QED
        BY <2>1, <2>4, <4>1 DEF Covered, SendingTo
    <3>3. CASE i - 1 \in DOMAIN Tail(wire) /\ Tail(wire)[i - 1] = wire[i]
      BY <2>2, <3>1, <3>3 DEF Covered, OnWire
    <3> QED
      BY <1>0, <2>2, <3>2, <3>3, TailFacts
  <2>6. CASE ~ OnWire(u)
    <3>1. Unpublished(u) \/ Waits(e, u) \/ Applying(e, u) \/ Excused(e, u)
      BY <1>1, <2>1, <2>2, <2>6 DEF Covered, SendingTo
    <3> QED
      BY <2>1, <3>1 DEF Covered, Unpublished, Waits, Applying, Excused
  <2> QED
    BY <2>5, <2>6
<1>8. CASE Broadcast
  <2>1. e \in subs /\ cached[e][u] = "stale"
    BY <1>2, <1>8 DEF Broadcast, Try, Drain, SendFlush, registry
  <2> QED
    BY <1>0, <1>1, <1>8, <2>1, BroadcastCover
<1>9. ASSUME NEW f \in Enforcers, Messages(f) PROVE Covered(e, u)'
  <2>1. CASE e = f /\ ~ closed
    BY <1>9, <2>1, MessagesCover
  <2>2. CASE e # f \/ closed
    <3>1. e \in subs /\ cached[e][u] = "stale"
      BY <1>2, <1>9, <2>2 DEF Messages
    <3>2. UNCHANGED <<unsent, wire, sending, conn, missed>>
      BY <1>9 DEF Messages, link, policy
    <3>3. queue'[e] = queue[e]
      BY <1>0, <1>9, <2>2, <3>1 DEF Messages
    <3>4. Applying(e, u) => Applying(e, u)'
      BY <1>0, <1>9, <3>1 DEF Messages, Applying, LoopStates
    <3>5. loop[e].stop => loop'[e].stop
      BY <1>0, <1>9, <3>1 DEF Messages, LoopStates
    <3> QED
      BY <1>1, <3>1, <3>2, <3>3, <3>4, <3>5
      DEF Covered, Unpublished, OnWire, SendingTo, Waits, Excused
  <2> QED
    BY <2>1, <2>2
<1>10. ASSUME NEW f \in Enforcers, StopLoop(f) \/ EndLoop(f) PROVE Covered(e, u)'
  <2>1. e \in subs /\ cached[e][u] = "stale" /\ UNCHANGED <<unsent, wire, sending, queue, conn, missed>>
    BY <1>2, <1>10 DEF StopLoop, EndLoop, link, registry, policy
  <2>2. Applying(e, u) => Applying(e, u)'
    <3>1. loop'[e].ev = loop[e].ev /\ (loop[e].pc = "apply" => loop'[e].pc = "apply")
      <4>1. CASE StopLoop(f)
        BY <1>0, <2>1, <4>1 DEF StopLoop, LoopStates
      <4>2. CASE EndLoop(f)
        BY <1>0, <2>1, <4>2 DEF EndLoop, LoopStates
      <4> QED
        BY <1>10, <4>1, <4>2
    <3> QED
      BY <3>1 DEF Applying
  <2>3. loop[e].stop => loop'[e].stop
    BY <1>0, <1>10, <2>1 DEF StopLoop, EndLoop, LoopStates
  <2> QED
    BY <1>1, <2>1, <2>2, <2>3 DEF Covered, Unpublished, OnWire, SendingTo, Waits, Excused
<1>11. ASSUME NEW f \in Enforcers, TakeEvent(f) PROVE Covered(e, u)'
  <2>1. e \in subs /\ cached[e][u] = "stale" /\ UNCHANGED <<unsent, wire, sending, conn, missed>>
    BY <1>2, <1>11 DEF TakeEvent, link, registry, policy
  <2>2. loop[e].stop => loop'[e].stop
    BY <1>0, <1>11, <2>1 DEF TakeEvent, LoopStates
  <2>3. CASE e = f
    <3>1. ~ Applying(e, u)
      BY <1>11, <2>3 DEF TakeEvent, Applying
    <3>2. /\ loop'[e].pc = "apply" /\ loop'[e].ev = Head(queue[e]) /\ queue'[e] = Tail(queue[e])
          /\ queue[e] # << >> /\ queue[e] \in Seq(Events)
      BY <1>0, <1>11, <2>3 DEF TakeEvent, LoopStates
    <3>3. Waits(e, u) => Waits(e, u)' \/ Applying(e, u)'
      <4>1. SUFFICES ASSUME NEW i \in DOMAIN queue[e], u \in Hits(queue[e][i])
                     PROVE  Waits(e, u)' \/ Applying(e, u)'
        BY DEF Waits
      <4>2. CASE queue[e][i] = Head(queue[e])
        BY <3>2, <4>1, <4>2 DEF Applying
      <4>3. CASE i - 1 \in DOMAIN Tail(queue[e]) /\ Tail(queue[e])[i - 1] = queue[e][i]
        BY <3>2, <4>1, <4>3 DEF Waits
      <4> QED
        BY <3>2, <4>2, <4>3, TailFacts
    <3> QED
      BY <1>1, <2>1, <2>2, <3>1, <3>3 DEF Covered, Unpublished, OnWire, SendingTo, Excused
  <2>4. CASE e # f
    <3>1. queue'[e] = queue[e] /\ loop'[e] = loop[e]
      BY <1>0, <1>11, <2>1, <2>4 DEF TakeEvent
    <3> QED
      BY <1>1, <2>1, <3>1 DEF Covered, Unpublished, OnWire, SendingTo, Waits, Applying, Excused
  <2> QED
    BY <2>3, <2>4
<1>12. ASSUME NEW f \in Enforcers, applyInvalidation(f) PROVE Covered(e, u)'
  <2>1. e \in subs /\ UNCHANGED <<unsent, wire, sending, queue, conn>>
    BY <1>12 DEF applyInvalidation, link, registry, policy
  <2>2. cached[e][u] = "stale" /\ ~ (e = f /\ u \in Hits(loop[f].ev))
    BY <1>0, <1>2, <1>12, <2>1 DEF applyInvalidation
  <2>3. <<e, u>> \in missed => <<e, u>> \in missed'
    BY <1>12, <2>2 DEF applyInvalidation
  <2>4. Applying(e, u) => Applying(e, u)'
    BY <1>0, <1>12, <2>1, <2>2 DEF applyInvalidation, Applying
  <2>5. loop[e].stop => loop'[e].stop
    BY <1>0, <1>12, <2>1 DEF applyInvalidation, LoopStates
  <2> QED
    BY <1>1, <2>1, <2>2, <2>3, <2>4, <2>5
    DEF Covered, Unpublished, OnWire, SendingTo, Waits, Excused
<1>13. ASSUME NEW ev \in Events, Commit(ev) PROVE Covered(e, u)'
  <2>1. e \in subs /\ UNCHANGED <<wire, sending, queue, loop, conn, missed>>
    BY <1>13 DEF Commit, link, registry
  <2>2. unsent'[ev] > 0 /\ \A d \in Events : unsent[d] > 0 => unsent'[d] > 0
    BY <1>0, <1>13 DEF Commit
  <2>3. cached'[e][u] = IF u \in Hits(ev) /\ cached[e][u] = "fresh" THEN "stale" ELSE cached[e][u]
    BY <1>0, <1>13, <2>1 DEF Commit
  <2>4. CASE u \in Hits(ev)
    BY <2>2, <2>4 DEF Covered, Unpublished
  <2>5. CASE u \notin Hits(ev)
    <3>1. Covered(e, u)
      BY <1>1, <1>2, <2>1, <2>3, <2>5
    <3> QED
      BY <2>1, <2>2, <3>1 DEF Covered, Unpublished, OnWire, SendingTo, Waits, Applying, Excused
  <2> QED
    BY <2>4, <2>5
<1>14. ASSUME NEW ev \in Events, Publish(ev) \/ PublishFails(ev) PROVE Covered(e, u)'
  <2>1. e \in subs /\ cached[e][u] = "stale" /\ UNCHANGED <<sending, queue, loop, conn>>
    BY <1>2, <1>14 DEF Publish, PublishFails, link, registry
  <2>2. \A d \in Events : d # ev => unsent'[d] = unsent[d]
    BY <1>0, <1>14 DEF Publish, PublishFails
  <2>3. missed \subseteq missed'
    BY <1>14 DEF Publish, PublishFails
  <2>4. OnWire(u) => OnWire(u)'
    <3>1. CASE wire' = wire
      BY <3>1 DEF OnWire
    <3>2. CASE wire' = Append(wire, ev)
      BY <1>0, <3>2, AppendFacts DEF OnWire
    <3> QED
      BY <1>14, <3>1, <3>2 DEF Publish, PublishFails, link
  <2>5. CASE u \in Hits(ev)
    <3>1. CASE Publish(ev) /\ conn = "up"
      <4>1. wire' = Append(wire, ev)
        BY <3>1 DEF Publish
      <4>2. Len(wire) + 1 \in DOMAIN wire' /\ wire'[Len(wire) + 1] = ev
        BY <1>0, <4>1, AppendFacts
      <4> QED
        BY <2>5, <4>2 DEF Covered, OnWire
    <3>2. CASE Publish(ev) /\ conn # "up"
      BY <2>1, <3>2 DEF Covered, Excused
    <3>3. CASE PublishFails(ev)
      <4>1. <<e, u>> \in missed'
        BY <1>0, <2>1, <2>5, <3>3 DEF PublishFails
      <4> QED
        BY <4>1 DEF Covered, Excused
    <3> QED
      BY <1>14, <3>1, <3>2, <3>3
  <2>6. CASE u \notin Hits(ev)
    <3>1. Unpublished(u) => Unpublished(u)'
      BY <2>2, <2>6 DEF Unpublished
    <3> QED
      BY <1>1, <2>1, <2>3, <2>4, <3>1 DEF Covered, SendingTo, Waits, Applying, Excused
  <2> QED
    BY <2>5, <2>6
<1> QED
  BY <1>3, <1>4, <1>5, <1>6, <1>7, <1>8, <1>9, <1>10, <1>11, <1>12, <1>13, <1>14
  DEF Next, RunStep, LoopStep

-----------------------------------------------------------------------------
(* The theorems *)

\* Every step of run, the broadcast, the enforcers and the publishers keeps the
\* invariant.
THEOREM InvalidatorInvariant == Spec => []IInv
<1>1. IInv /\ [Next]_vars => IInv'
  <2> SUFFICES ASSUME IInv, Next \/ UNCHANGED vars PROVE IInv'
    OBVIOUS
  <2>1. CASE Next
    BY <2>1, TypeNext, SendingNext, ReadyNext, StaleNext DEF IInv
  <2>2. CASE UNCHANGED vars
    BY <2>2 DEF vars, IInv, TypeOK, SendingInv, ReadyInv, StaleIsCovered, OnItsWay, Waits
  <2> QED
    BY <2>1, <2>2
<1> QED
  BY <1>1, IInit, PTL DEF Spec

\* A stale snapshot of a subscribed enforcer always has an invalidation on its
\* way, or a named excuse: run's flush on each acknowledgement and Messages'
\* flush of a new channel leave no gap.
THEOREM NoInvalidationIsLost == Spec => []StaleIsCovered
<1>1. IInv => StaleIsCovered
  BY DEF IInv
<1> QED
  BY <1>1, InvalidatorInvariant, PTL

\* The flush that replaces a full channel's content finds room, for every
\* capacity: broadcastLocked never blocks with r.mu held.
THEOREM BroadcastNeverBlocks == Spec => []SenderNeverBlocks
<1>1. IInv => SenderNeverBlocks
  BY InvalidatorConstantsOK DEF IInv, TypeOK, SendingInv, SenderNeverBlocks, Full
<1> QED
  BY <1>1, InvalidatorInvariant, PTL
=============================================================================
