------------------------------ MODULE Invalidator ------------------------------
(***************************************************************************)
(* redisInvalidator: one Redis subscription of a process that feeds the    *)
(* channels of several enforcers.  Modelled are the life of the connection *)
(* (subscription, acknowledgement, break, backoff, resubscription), the    *)
(* broadcast under r.mu into bounded channels, Messages and unsubscribe    *)
(* while the connection is in any of those states, Close, and the loops    *)
(* of the enforcers.                                                       *)
(*                                                                         *)
(* The mutations are those of other processes.  A snapshot in an           *)
(* enforcer's cache is fresh or stale; what a lookup does while it fills   *)
(* the cache is the subject of EnforcerCache.  A cache may hold snapshots  *)
(* before its enforcer subscribes: a Redis cache outlives a process, and   *)
(* WithLRU takes any backend.                                              *)
(***************************************************************************)
EXTENDS Naturals, Sequences, FiniteSets

CONSTANTS Enforcers, Users,
          InvalidateFlush,           \* the event for all users; a user stands for a drop
          Ack,                       \* Redis confirms the subscription
          QueueCap,                  \* capacity of a channel, 64 in the code
          MaxCommits, MaxFaults      \* bounds: mutations; breaks and failed publishes

ASSUME InvalidatorConstantsOK ==
    /\ InvalidateFlush \notin Users /\ Ack \notin Users \cup {InvalidateFlush}
    /\ QueueCap \in Nat \ {0} /\ MaxCommits \in Nat /\ MaxFaults \in Nat

Events == Users \cup {InvalidateFlush}
Hits(ev) == IF ev = InvalidateFlush THEN Users ELSE {ev}

VARIABLES conn,      \* the subscription: "down", "up" at Redis, or "broken" and not noticed
          wire,      \* what Redis has sent and Receive has not returned
          run,       \* the receiving goroutine: "receive", "backoff", "ended"
          ready,
          subs,      \* enforcers whose channel is registered
          queue,     \* enforcer -> its channel
          shut,      \* enforcers whose channel is closed
          sending,   \* the broadcast that holds r.mu
          closing,   \* "no", "cancelled", "returned"
          loop,      \* enforcer -> its invalidationLoop
          cached,    \* enforcer -> user -> "none", "fresh", "stale"
          unsent,    \* events committed and not yet published
          missed,    \* <<enforcer, user>> : a drop was discarded, or a publish failed
          commits, faults

vars == <<conn, wire, run, ready, subs, queue, shut, sending, closing, loop, cached,
          unsent, missed, commits, faults>>

link == <<conn, wire, run, ready>>
registry == <<subs, shut, closing>>
policy == <<unsent, commits>>

\* phase "idle": r.mu is free.  "try" offers ev to the channels in left;
\* "drain" and "send" replace what waits in the full channel of at.
SendStates == [phase : {"idle", "try", "drain", "send"},
               ev : Events, left : SUBSET Enforcers, at : SUBSET Enforcers]

\* "new" : before Messages.  stop is stopInvalidation.
LoopStates == [pc : {"new", "wait", "apply", "ended"}, ev : Events, stop : BOOLEAN]

TypeOK == /\ conn \in {"down", "up", "broken"} /\ run \in {"receive", "backoff", "ended"}
          /\ wire \in Seq(Events \cup {Ack})
          /\ ready \in BOOLEAN
          /\ subs \subseteq Enforcers /\ shut \subseteq Enforcers
          /\ queue \in [Enforcers -> Seq(Events)]
          /\ \A e \in Enforcers : Len(queue[e]) <= QueueCap
          /\ sending \in SendStates
          /\ closing \in {"no", "cancelled", "returned"}
          /\ loop \in [Enforcers -> LoopStates]
          /\ cached \in [Enforcers -> [Users -> {"none", "fresh", "stale"}]]
          /\ unsent \in [Events -> Nat]
          /\ missed \subseteq Enforcers \X Users
          /\ commits \in 0 .. MaxCommits /\ faults \in 0 .. MaxFaults

NoSend == [phase |-> "idle", ev |-> InvalidateFlush, left |-> {}, at |-> {}]
NewLoop == [pc |-> "new", ev |-> InvalidateFlush, stop |-> FALSE]

Init == /\ conn = "down" /\ wire = << >> /\ run = "receive" /\ ready = FALSE
        /\ subs = {} /\ shut = {}
        /\ queue = [e \in Enforcers |-> << >>]
        /\ sending = NoSend
        /\ closing = "no"
        /\ loop = [e \in Enforcers |-> NewLoop]
        /\ cached \in [Enforcers -> [Users -> {"none", "fresh"}]]
        /\ unsent = [ev \in Events |-> 0]
        /\ missed = {}
        /\ commits = 0 /\ faults = 0

-----------------------------------------------------------------------------
(* The connection *)

\* Receive dials and sends SUBSCRIBE; Redis registers the subscription and
\* answers.  From now on published events follow the answer.
Subscribe ==
    /\ run = "receive" /\ conn = "down" /\ closing = "no"
    /\ conn' = "up" /\ wire' = <<Ack>>
    /\ UNCHANGED <<run, ready, registry, queue, sending, loop, cached, policy, missed, faults>>

\* The connection breaks; some of what was sent may still be read.
Break ==
    /\ conn = "up" /\ faults < MaxFaults
    /\ faults' = faults + 1
    /\ conn' = "broken"
    /\ \E n \in 0 .. Len(wire) : wire' = SubSeq(wire, 1, n)
    /\ UNCHANGED <<run, ready, registry, queue, sending, loop, cached, policy, missed>>

\* Receive returns an error.  r.mu is taken for ready.
ReceiveFails ==
    /\ run = "receive" /\ conn = "broken" /\ wire = << >>
    /\ sending.phase = "idle" /\ closing = "no"
    /\ conn' = "down" /\ run' = "backoff" /\ ready' = FALSE
    /\ UNCHANGED <<wire, registry, queue, sending, loop, cached, policy, missed, faults>>

\* The dial fails: an error as well, with nothing to lose.
DialFails ==
    /\ run = "receive" /\ conn = "down" /\ closing = "no"
    /\ sending.phase = "idle" /\ faults < MaxFaults
    /\ faults' = faults + 1
    /\ run' = "backoff" /\ ready' = FALSE
    /\ UNCHANGED <<conn, wire, registry, queue, sending, loop, cached, policy, missed>>

\* The timer of the backoff.
Retry ==
    /\ run = "backoff" /\ closing = "no"
    /\ run' = "receive"
    /\ UNCHANGED <<conn, wire, ready, registry, queue, sending, loop, cached, policy, missed, faults>>

\* Mutant: an acknowledgement only sets ready; the flush is left to Messages.
Received_NoFlush(m) ==
    IF m = Ack THEN NoSend
    ELSE [phase |-> IF subs = {} THEN "idle" ELSE "try", ev |-> m, left |-> subs, at |-> {}]

\* What a received message makes run broadcast to the registered channels.
Received(m) ==
    [phase |-> IF subs = {} THEN "idle" ELSE "try",
     ev |-> IF m = Ack THEN InvalidateFlush ELSE m, left |-> subs, at |-> {}]

Receive ==
    /\ run = "receive" /\ wire # << >>
    /\ sending.phase = "idle"
    /\ wire' = Tail(wire)
    /\ ready' = (ready \/ Head(wire) = Ack)
    /\ sending' = Received(Head(wire))
    /\ UNCHANGED <<conn, run, registry, queue, loop, cached, policy, missed, faults>>

-----------------------------------------------------------------------------
(* broadcastLocked *)

Full(e) == Len(queue[e]) >= QueueCap

\* The broadcast after the channels in done are served; r.mu is freed at the end.
After(done) ==
    IF sending.left \subseteq done THEN NoSend
    ELSE [sending EXCEPT !.phase = "try", !.left = @ \ done, !.at = {}]

\* Mutant: a flush that finds a full channel is sent at once.
NextPhase_Send(e) ==
    IF sending.ev = InvalidateFlush THEN [sending EXCEPT !.phase = "send", !.at = {e}]
                                    ELSE After({e})

\* The full channel of e: a flush replaces what waits there, a drop is discarded.
NextPhase(e) ==
    IF sending.ev = InvalidateFlush THEN [sending EXCEPT !.phase = "drain", !.at = {e}]
                                    ELSE After({e})

\* The first select of one channel.
Try(e) ==
    /\ sending.phase = "try" /\ e \in sending.left
    /\ IF Full(e)
       THEN /\ sending' = NextPhase(e)
            /\ missed' = IF sending.ev = InvalidateFlush THEN missed
                         ELSE missed \cup {<<e, sending.ev>>}
            /\ UNCHANGED queue
       ELSE /\ queue' = [queue EXCEPT ![e] = Append(@, sending.ev)]
            /\ sending' = After({e})
            /\ UNCHANGED missed
    /\ UNCHANGED <<link, registry, loop, cached, policy, faults>>

\* One round of the draining loop; the enforcer's loop takes events meanwhile.
Drain(e) ==
    /\ sending.phase = "drain" /\ e \in sending.at
    /\ queue' = [queue EXCEPT ![e] = IF @ = << >> THEN @ ELSE Tail(@)]
    /\ sending' = IF queue[e] = << >> THEN [sending EXCEPT !.phase = "send"] ELSE sending
    /\ UNCHANGED <<link, registry, loop, cached, policy, missed, faults>>

\* The send without default: it blocks, with r.mu held, on a full channel.
SendFlush(e) ==
    /\ sending.phase = "send" /\ e \in sending.at
    /\ ~ Full(e)
    /\ queue' = [queue EXCEPT ![e] = Append(@, InvalidateFlush)]
    /\ sending' = After({e})
    /\ UNCHANGED <<link, registry, loop, cached, policy, missed, faults>>

Broadcast == \E e \in Enforcers : Try(e) \/ Drain(e) \/ SendFlush(e)

-----------------------------------------------------------------------------
(* Messages, unsubscribe, Close *)

\* One of the two calls of closeSubscribers has been made.
closed == closing = "returned" \/ run = "ended"

\* Mutant: Messages does not look at closed.
Messages_Closed(e) ==
    /\ loop[e].pc = "new" /\ sending.phase = "idle"
    /\ loop' = [loop EXCEPT ![e].pc = "wait"]
    /\ subs' = subs \cup {e}
    /\ queue' = [queue EXCEPT ![e] = IF ready THEN <<InvalidateFlush>> ELSE << >>]
    /\ UNCHANGED <<link, shut, closing, sending, cached, policy, missed, faults>>

\* Mutant: a new channel waits for the next acknowledgement.
Messages_NoFlush(e) ==
    /\ loop[e].pc = "new" /\ sending.phase = "idle"
    /\ loop' = [loop EXCEPT ![e].pc = "wait"]
    /\ IF closed THEN shut' = shut \cup {e} /\ UNCHANGED subs
                             ELSE subs' = subs \cup {e} /\ UNCHANGED shut
    /\ UNCHANGED <<link, queue, closing, sending, cached, policy, missed, faults>>

\* New: the enforcer subscribes, starts its loop and only then serves lookups.
Messages(e) ==
    /\ loop[e].pc = "new" /\ sending.phase = "idle"
    /\ loop' = [loop EXCEPT ![e].pc = "wait"]
    /\ IF closed
       THEN shut' = shut \cup {e} /\ UNCHANGED <<subs, queue>>
       ELSE /\ subs' = subs \cup {e}
            /\ queue' = [queue EXCEPT ![e] = IF ready THEN <<InvalidateFlush>> ELSE << >>]
            /\ UNCHANGED shut
    /\ UNCHANGED <<link, closing, sending, cached, policy, missed, faults>>

\* Enforcer.Close, first half: stopInvalidation is closed.
StopLoop(e) ==
    /\ loop[e].pc # "new" /\ ~ loop[e].stop
    /\ loop' = [loop EXCEPT ![e].stop = TRUE]
    /\ UNCHANGED <<link, registry, queue, sending, cached, policy, missed, faults>>

\* Its second half.  A channel that Close has closed already is not in subs.
unsubscribe(e) ==
    /\ loop[e].stop /\ sending.phase = "idle"
    /\ e \in subs
    /\ subs' = subs \ {e} /\ shut' = shut \cup {e}
    /\ UNCHANGED <<link, queue, closing, sending, loop, cached, policy, missed, faults>>

\* Close: the context is cancelled and the subscription closed.
Close ==
    /\ closing = "no"
    /\ closing' = "cancelled"
    /\ conn' = "broken" /\ wire' = << >>
    /\ UNCHANGED <<run, ready, subs, shut, queue, sending, loop, cached, policy, missed, faults>>

closeSubscribers == subs' = {} /\ shut' = shut \cup subs

\* Close goes on with closeSubscribers and returns.
CloseReturns ==
    /\ closing = "cancelled" /\ sending.phase = "idle"
    /\ closing' = "returned"
    /\ closeSubscribers
    /\ UNCHANGED <<link, queue, sending, loop, cached, policy, missed, faults>>

\* Receive, or the backoff, sees the cancelled context; closeSubscribers is the
\* goroutine's deferred call.
RunEnds ==
    /\ closing # "no" /\ run # "ended" /\ sending.phase = "idle"
    /\ run' = "ended"
    /\ closeSubscribers
    /\ UNCHANGED <<conn, wire, ready, closing, queue, sending, loop, cached, policy, missed, faults>>

-----------------------------------------------------------------------------
(* The enforcers *)

\* invalidationLoop: select takes an event, or sees that it has to end.
TakeEvent(e) ==
    /\ loop[e].pc = "wait" /\ queue[e] # << >>
    /\ loop' = [loop EXCEPT ![e].pc = "apply", ![e].ev = Head(queue[e])]
    /\ queue' = [queue EXCEPT ![e] = Tail(@)]
    /\ UNCHANGED <<link, registry, sending, cached, policy, missed, faults>>

EndLoop(e) ==
    /\ loop[e].pc = "wait"
    /\ loop[e].stop \/ (e \in shut /\ queue[e] = << >>)
    /\ loop' = [loop EXCEPT ![e].pc = "ended"]
    /\ UNCHANGED <<link, registry, queue, sending, cached, policy, missed, faults>>

\* applyInvalidation: the cache is flushed, or the user's key dropped.
applyInvalidation(e) ==
    LET H == Hits(loop[e].ev) IN
    /\ loop[e].pc = "apply"
    /\ cached' = [cached EXCEPT ![e] = [u \in Users |-> IF u \in H THEN "none" ELSE @[u]]]
    /\ missed' = missed \ ({e} \X H)
    /\ loop' = [loop EXCEPT ![e].pc = "wait"]
    /\ UNCHANGED <<link, registry, queue, sending, policy, faults>>

\* A lookup that ran between two mutations fills the cache.
Fill(e, u) ==
    /\ loop[e].pc # "new" /\ cached[e][u] = "none"
    /\ cached' = [cached EXCEPT ![e][u] = "fresh"]
    /\ UNCHANGED <<link, registry, queue, sending, loop, policy, missed, faults>>

\* Another process commits a mutation and publishes it.
Commit(ev) ==
    /\ commits < MaxCommits
    /\ commits' = commits + 1
    /\ unsent' = [unsent EXCEPT ![ev] = @ + 1]
    /\ cached' = [e \in Enforcers |-> [u \in Users |->
                    IF u \in Hits(ev) /\ cached[e][u] = "fresh" THEN "stale" ELSE cached[e][u]]]
    /\ UNCHANGED <<link, registry, queue, sending, loop, missed, faults>>

\* Redis passes the event to the subscriptions it has; there is no other copy.
Publish(ev) ==
    /\ unsent[ev] > 0
    /\ unsent' = [unsent EXCEPT ![ev] = @ - 1]
    /\ wire' = IF conn = "up" THEN Append(wire, ev) ELSE wire
    /\ UNCHANGED <<conn, run, ready, registry, queue, sending, loop, cached, missed, commits, faults>>

\* The publisher gets an error, counts it and goes on.
PublishFails(ev) ==
    /\ unsent[ev] > 0 /\ faults < MaxFaults
    /\ faults' = faults + 1
    /\ unsent' = [unsent EXCEPT ![ev] = @ - 1]
    /\ missed' = missed \cup (Enforcers \X Hits(ev))
    /\ UNCHANGED <<link, registry, queue, sending, loop, cached, commits>>

-----------------------------------------------------------------------------

RunStep == Subscribe \/ Receive \/ ReceiveFails \/ Retry \/ RunEnds

LoopStep(e) == TakeEvent(e) \/ EndLoop(e) \/ applyInvalidation(e)

Next == \/ RunStep \/ Broadcast \/ Break \/ DialFails
        \/ Close \/ CloseReturns
        \/ \E e \in Enforcers : \/ Messages(e) \/ StopLoop(e) \/ unsubscribe(e)
                                \/ LoopStep(e)
                                \/ \E u \in Users : Fill(e, u)
        \/ \E ev \in Events : Commit(ev) \/ Publish(ev) \/ PublishFails(ev)

Spec == Init /\ [][Next]_vars

\* Goroutines are scheduled, Redis can be reached again after a failure, and a
\* Close that began goes on.  Nobody has to subscribe, mutate or close.
Fairness == /\ WF_vars(RunStep) /\ WF_vars(Broadcast) /\ WF_vars(CloseReturns)
            /\ \A e \in Enforcers : WF_vars(LoopStep(e)) /\ WF_vars(unsubscribe(e))
            /\ \A ev \in Events : WF_vars(Publish(ev))

FairSpec == Spec /\ Fairness

-----------------------------------------------------------------------------
(* Correctness *)

Waits(e, u) == \E i \in DOMAIN queue[e] : u \in Hits(queue[e][i])

\* An event or an acknowledgement that will make enforcer e drop u's snapshot
\* is somewhere between the publisher and e's loop.
OnItsWay(e, u) ==
    \/ \E ev \in Events : unsent[ev] > 0 /\ u \in Hits(ev)
    \/ \E i \in DOMAIN wire : wire[i] = Ack \/ u \in Hits(wire[i])
    \/ e \in sending.left /\ u \in Hits(sending.ev)
    \/ Waits(e, u)
    \/ loop[e].pc = "apply" /\ u \in Hits(loop[e].ev)

\* A stale snapshot of a subscribed enforcer has an invalidation on its way, or
\* the subscription is not at Redis and its next acknowledgement will bring
\* one, or its drop was discarded or never published.  So no order of breaks,
\* resubscriptions and calls of Messages loses an event silently.
StaleIsCovered ==
    \A e \in subs, u \in Users :
        cached[e][u] = "stale" =>
            OnItsWay(e, u) \/ conn # "up" \/ <<e, u>> \in missed \/ loop[e].stop

\* The replacement flush finds room: run never waits for a slow enforcer with
\* r.mu held, which would stop every other enforcer and Close.
SenderNeverBlocks == sending.phase = "send" => \A e \in sending.at : ~ Full(e)

Subscribed(e) == e \in subs /\ ~ loop[e].stop

\* With the faults over, the subscribed enforcers hold no stale snapshot,
\* without the help of a TTL, except where a drop was discarded or a publish
\* failed.
RecoversFresh ==
    <>[](\A e \in Enforcers, u \in Users :
            Subscribed(e) /\ cached[e][u] = "stale" => <<e, u>> \in missed)

\* Close ends the receiving goroutine and every enforcer's loop, of an enforcer
\* that subscribes during the Close too.
CloseEndsLoops ==
    closing # "no" ~> (run = "ended" /\ \A e \in Enforcers : loop[e].pc \in {"new", "ended"})
=============================================================================
