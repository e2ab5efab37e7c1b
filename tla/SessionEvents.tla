---------------------------- MODULE SessionEvents ----------------------------
(***************************************************************************)
(* The events of one realtime session: the bounded ring of the server      *)
(* (jobs/sessions.go), the handlers that stream it to a client             *)
(* (httpapi/sessions.go), and the client that reconnects with the last     *)
(* sequence it saw and wakes its loop (observeSession). A handler neither  *)
(* blocks the queue nor is told what was published: it is woken by closing *)
(* the channel it got with its last replay, and reads the ring again.      *)
(*                                                                         *)
(* The queue publishes in any order here; which transitions publish is in  *)
(* JobManager. What the woken loop does is in RealtimeClient.              *)
(***************************************************************************)
EXTENDS Integers, Sequences, FiniteSets

CONSTANTS
    Handlers,              \* connections the client may open
    maxSessionEvents,      \* size of the ring
    maxSessionSubscribers, \* streams of a session at a time
    MaxSequence,           \* bound: events published
    MaxBreaks,             \* bound: connections that fail or time out
    NoHandler

ASSUME EventsAssumption ==
    /\ IsFiniteSet(Handlers) /\ NoHandler \notin Handlers
    /\ maxSessionEvents \in Nat \ {0} /\ maxSessionSubscribers \in Nat \ {0}
    /\ MaxSequence \in Nat \ {0} /\ MaxBreaks \in Nat

VARIABLES
    open,         \* the session exists
    events,       \* the ring
    sequence,     \* EventSequence
    channel,      \* which changed channel is open; the ones before are closed
    subscribers,  \* streams reserved
    handler,      \* the handlers of sessionEvents
    wire,         \* events written to a connection and not yet read
    conn,         \* the connection the client reads
    cursor,       \* the client's after
    signal,       \* the client's buffered channel changed is full
    told,         \* finished events the client has heard of
    reported,     \* those known when its loop last woke
    finished,     \* finished events ever published
    breaks

ringVars == <<open, events, sequence, channel, finished>>
clientVars == <<conn, cursor, signal, told, reported>>
vars == <<ringVars, subscribers, handler, wire, clientVars, breaks>>

Kinds == {"submitted", "running", "finished"}
Event == [sequence: 1..MaxSequence, type: Kinds \cup {"created", "resync"}]
Handler == [pc: {"idle", "asked", "read", "write"}, after: 0..MaxSequence,
            batch: Seq(Event), channel: 0..(MaxSequence + 1)]
Idle == [pc |-> "idle", after |-> 0, batch |-> <<>>, channel |-> 0]
Active == {h \in Handlers : handler[h].pc \in {"read", "write"}}

(* The ring holds the latest events without a gap, and every stream that   *)
(* is served holds exactly one of the session's places.                    *)
EventsTypeOK ==
    /\ open \in BOOLEAN /\ sequence \in 1..MaxSequence /\ breaks \in 0..MaxBreaks
    /\ channel \in 0..(MaxSequence + 1) /\ cursor \in 0..MaxSequence
    /\ signal \in BOOLEAN /\ conn \in Handlers \cup {NoHandler}
    /\ reported \subseteq told /\ told \subseteq finished /\ finished \subseteq 1..sequence
    /\ handler \in [Handlers -> Handler] /\ wire \in [Handlers -> Seq(Event)]
    /\ events \in Seq(Event) /\ Len(events) \in 1..maxSessionEvents
    /\ \A i \in DOMAIN events : events[i].sequence = sequence - Len(events) + i
    /\ subscribers = Cardinality(Active) /\ subscribers <= maxSessionSubscribers

Init ==
    /\ open = TRUE /\ sequence = 1 /\ events = <<[sequence |-> 1, type |-> "created"]>>
    /\ channel = 1 /\ subscribers = 0
    /\ handler = [h \in Handlers |-> Idle] /\ wire = [h \in Handlers |-> <<>>]
    /\ conn = NoHandler /\ cursor = 0 /\ signal = FALSE
    /\ told = {} /\ reported = {} /\ finished = {} /\ breaks = 0

-----------------------------------------------------------------------------
(* The queue. *)
BroadcastNever == channel' = channel
Broadcast == channel' = channel + 1

Trim(ring) ==
    IF Len(ring) > maxSessionEvents
    THEN SubSeq(ring, Len(ring) - maxSessionEvents + 1, Len(ring)) ELSE ring

Publish(kind) ==
    /\ open /\ sequence < MaxSequence
    /\ sequence' = sequence + 1
    /\ events' = Trim(Append(events, [sequence |-> sequence', type |-> kind]))
    /\ Broadcast
    /\ finished' = finished \cup (IF kind = "finished" THEN {sequence'} ELSE {})
    /\ UNCHANGED <<open, subscribers, handler, wire, clientVars, breaks>>

(* Closed or expired. *)
CloseSession ==
    /\ open
    /\ open' = FALSE
    /\ channel' = channel + 1
    /\ UNCHANGED <<events, sequence, finished, subscribers, handler, wire, clientVars, breaks>>

-----------------------------------------------------------------------------
(* A handler. *)
BehindLate(after) == after > sequence \/ after + 2 < events[1].sequence
Behind(after) == after > sequence \/ after + 1 < events[1].sequence

(* The ring is in order, so the events after a sequence are its last ones. *)
Later(after) == {i \in DOMAIN events : events[i].sequence > after}
Replay(after) ==
    IF Behind(after) THEN <<[sequence |-> sequence, type |-> "resync"]>>
    ELSE SubSeq(events, Len(events) - Cardinality(Later(after)) + 1, Len(events))

Release(h) == subscribers' = IF h \in Active THEN subscribers - 1 ELSE subscribers
Return(h) == handler' = [handler EXCEPT ![h] = Idle] /\ Release(h)

(* SubscribeSession; a stream beyond the limit is refused. *)
Subscribe(h) ==
    /\ handler[h].pc = "asked"
    /\ IF open /\ subscribers < maxSessionSubscribers
       THEN handler' = [handler EXCEPT ![h].pc = "read"] /\ subscribers' = subscribers + 1
       ELSE Return(h)
    /\ UNCHANGED <<ringVars, wire, clientVars, breaks>>

(* SessionEvents, under the lock of the queue. *)
Read(h) ==
    /\ handler[h].pc = "read"
    /\ IF open
       THEN /\ handler' = [handler EXCEPT ![h].pc = "write", ![h].channel = channel,
                                          ![h].batch = Replay(handler[h].after)]
            /\ UNCHANGED subscribers
       ELSE Return(h)
    /\ UNCHANGED <<ringVars, wire, clientVars, breaks>>

(* What is written to a connection the client has left is lost. *)
Write(h) ==
    LET event == Head(handler[h].batch) IN
    /\ handler[h].pc = "write" /\ handler[h].batch # <<>>
    /\ handler' = [handler EXCEPT ![h].batch = Tail(@), ![h].after = event.sequence]
    /\ wire' = IF conn = h THEN [wire EXCEPT ![h] = Append(@, event)] ELSE wire
    /\ UNCHANGED <<ringVars, subscribers, clientVars, breaks>>

Waiting(h) == handler[h].pc = "write" /\ handler[h].batch = <<>>
Wake(h) ==
    /\ Waiting(h) /\ handler[h].channel < channel
    /\ handler' = [handler EXCEPT ![h].pc = "read"]
    /\ UNCHANGED <<ringVars, subscribers, wire, clientVars, breaks>>

Heartbeat(h) ==
    /\ Waiting(h)
    /\ IF open THEN handler' = [handler EXCEPT ![h].pc = "read"] /\ UNCHANGED subscribers
       ELSE Return(h)
    /\ UNCHANGED <<ringVars, wire, clientVars, breaks>>

(* The request's context ends once the client has left: the next write or  *)
(* the next wait ends the handler.                                         *)
Gone(h) ==
    /\ handler[h].pc = "write" /\ conn # h
    /\ Return(h)
    /\ UNCHANGED <<ringVars, wire, clientVars, breaks>>

(* A write misses its deadline, or the credentials are revoked. *)
Drop(h) ==
    /\ h \in Active /\ breaks < MaxBreaks
    /\ breaks' = breaks + 1
    /\ Return(h)
    /\ UNCHANGED <<ringVars, wire, clientVars>>

-----------------------------------------------------------------------------
(* The client: StreamSessionEvents in the loop of observeSession. *)
Connect(h) ==
    /\ conn = NoHandler /\ handler[h].pc = "idle"
    /\ conn' = h
    /\ handler' = [handler EXCEPT ![h].pc = "asked", ![h].after = cursor]
    /\ UNCHANGED <<ringVars, subscribers, wire, cursor, signal, told, reported, breaks>>

Heard(event) ==
    IF event.type = "resync" THEN {s \in finished : s <= event.sequence}
    ELSE IF event.type = "finished" THEN {event.sequence} ELSE {}

(* readSessionEvents skips repetitions; a full channel keeps its signal.   *)
Receive ==
    /\ conn # NoHandler /\ wire[conn] # <<>>
    /\ LET event == Head(wire[conn])
           fresh == event.type = "resync" \/ event.sequence > cursor IN
       /\ cursor' = IF fresh THEN event.sequence ELSE cursor
       /\ signal' = (signal \/ (fresh /\ event.type \in {"finished", "resync"}))
       /\ told' = IF fresh THEN told \cup Heard(event) ELSE told
    /\ wire' = [wire EXCEPT ![conn] = Tail(@)]
    /\ UNCHANGED <<ringVars, subscribers, handler, conn, reported, breaks>>

(* The stream has ended, or was refused. *)
Disconnect ==
    /\ conn # NoHandler /\ wire[conn] = <<>> /\ handler[conn].pc = "idle"
    /\ conn' = NoHandler
    /\ UNCHANGED <<ringVars, subscribers, handler, wire, cursor, signal, told, reported, breaks>>

(* The connection breaks or its time is over, at any point of the stream.  *)
Abandon ==
    /\ conn # NoHandler /\ breaks < MaxBreaks
    /\ breaks' = breaks + 1
    /\ conn' = NoHandler
    /\ wire' = [wire EXCEPT ![conn] = <<>>]
    /\ UNCHANGED <<ringVars, subscribers, handler, cursor, signal, told, reported>>

(* The realtime loop wakes and reports. *)
Take ==
    /\ signal
    /\ signal' = FALSE
    /\ reported' = told
    /\ UNCHANGED <<ringVars, subscribers, handler, wire, conn, cursor, told, breaks>>

Serve(h) == Subscribe(h) \/ Read(h) \/ Write(h) \/ Wake(h)
Follow == Receive \/ Disconnect \/ \E h \in Handlers : Connect(h)

Next ==
    \/ \E kind \in Kinds : Publish(kind)
    \/ CloseSession \/ Abandon \/ Follow \/ Take
    \/ \E h \in Handlers : Serve(h) \/ Heartbeat(h) \/ Gone(h) \/ Drop(h)

Spec == Init /\ [][Next]_vars

(* Handlers run, the client reads and reconnects. A handler whose client   *)
(* has left waits again and again, and select does not always prefer the   *)
(* heartbeat. Heartbeats are not needed otherwise: the broadcast alone     *)
(* must wake a handler.                                                    *)
FairSpec ==
    /\ Spec
    /\ \A h \in Handlers : WF_vars(Serve(h)) /\ SF_vars(Gone(h))
    /\ WF_vars(Follow) /\ WF_vars(Take)
-----------------------------------------------------------------------------
(* However slow the client and however often it reconnects, its cursor     *)
(* never moves past a finished event it has not heard of: it received the  *)
(* event or a resync that covers it. And what it has heard of and its loop *)
(* has not seen keeps the signal up.                                       *)
NoSilentSkip ==
    /\ \A s \in finished : s <= cursor => s \in told
    /\ told # reported => signal

(* Every finished event of a session that stays open wakes the client's    *)
(* loop, although the ring drops events, streams break between any two     *)
(* writes and refused or lingering streams occupy the session's places.    *)
FinishHeard == \A s \in 1..MaxSequence : s \in finished ~> (s \in reported \/ ~open)
=============================================================================
