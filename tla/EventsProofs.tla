---------------------------- MODULE EventsProofs ----------------------------
(***************************************************************************)
(* Proofs about SessionEvents for every number of connections, every size  *)
(* of the ring and every limit of streams.                                 *)
(***************************************************************************)
EXTENDS SessionEvents, FiniteSetTheorems, SequenceTheorems, TLAPS

(* A stream read from position p onwards leaves no gap: every event is the *)
(* next one or a resync, which stands for all events up to its own.        *)
Chained(p, S) ==
    \A i \in 1..Len(S) :
        LET q == IF i = 1 THEN p ELSE S[i - 1].sequence IN
        IF S[i].type = "resync" THEN S[i].sequence >= q ELSE S[i].sequence = q + 1

(* The events are published ones, and a finished event says so.            *)
Genuine(S) ==
    \A i \in 1..Len(S) :
        /\ S[i].sequence <= sequence
        /\ S[i].type # "resync" => (S[i].type = "finished" <=> S[i].sequence \in finished)

(* Where the client will be once it has read what is under way to it.      *)
Position(h) == IF wire[h] = <<>> THEN cursor ELSE wire[h][Len(wire[h])].sequence

RingOK == Genuine(events) /\ \A i \in 1..Len(events) : events[i].type # "resync"

HandlerOK(h) ==
    /\ Genuine(handler[h].batch)
    /\ Chained(handler[h].after, handler[h].batch)
    /\ handler[h].after <= sequence
    /\ handler[h].pc = "idle" => handler[h].batch = <<>>

WireOK(h) ==
    /\ Genuine(wire[h])
    /\ conn # h => wire[h] = <<>>
    /\ conn = h => Chained(cursor, wire[h])
    /\ conn = h /\ handler[h].pc # "idle" => handler[h].after = Position(h)

(* NoSilentSkip, with what the rest of the stream must be for it to stay.  *)
EventsInv ==
    /\ EventsTypeOK
    /\ channel = IF open THEN sequence ELSE sequence + 1
    /\ cursor <= sequence
    /\ RingOK
    /\ \A h \in Handlers : HandlerOK(h) /\ WireOK(h)
    /\ NoSilentSkip

-----------------------------------------------------------------------------
(* Lemmas about streams. *)

(* Reading the first event of a gapless stream leaves a gapless stream.    *)
LEMMA ChainedTail ==
    ASSUME NEW S \in Seq(Event), S # <<>>, NEW p \in Nat, Chained(p, S)
    PROVE  /\ Head(S) \in Event /\ Tail(S) \in Seq(Event)
           /\ Head(S) = S[1] /\ Len(Tail(S)) = Len(S) - 1
           /\ IF Head(S).type = "resync" THEN Head(S).sequence >= p ELSE Head(S).sequence = p + 1
           /\ Chained(Head(S).sequence, Tail(S))
<1>1. Len(S) \in Nat \ {0} /\ 1 \in 1..Len(S)
  OBVIOUS
<1>2. /\ Head(S) = S[1] /\ Head(S) \in Event /\ Tail(S) \in Seq(Event)
      /\ Len(Tail(S)) = Len(S) - 1
      /\ \A i \in 1..Len(Tail(S)) : Tail(S)[i] = S[i + 1]
  BY <1>1
<1>3. ASSUME NEW i \in 1..Len(Tail(S))
      PROVE  LET q == IF i = 1 THEN Head(S).sequence ELSE Tail(S)[i - 1].sequence IN
             IF Tail(S)[i].type = "resync" THEN Tail(S)[i].sequence >= q
             ELSE Tail(S)[i].sequence = q + 1
  <2>1. i + 1 \in 1..Len(S) /\ i + 1 # 1 /\ (i + 1) - 1 = i
    BY <1>1, <1>2
  <2>2. IF S[i + 1].type = "resync" THEN S[i + 1].sequence >= S[i].sequence
        ELSE S[i + 1].sequence = S[i].sequence + 1
    BY <2>1 DEF Chained
  <2>3. S[i] = IF i = 1 THEN Head(S) ELSE Tail(S)[i - 1]
    BY <1>1, <1>2
  <2>4. QED
    BY <2>2, <2>3, <1>2
<1>4. QED
  BY <1>1, <1>2, <1>3 DEF Chained

(* Writing the next event at the end of a gapless stream keeps it gapless. *)
LEMMA ChainedAppend ==
    ASSUME NEW S \in Seq(Event), NEW e \in Event, NEW p \in Nat, Chained(p, S),
           LET q == IF S = <<>> THEN p ELSE S[Len(S)].sequence IN
           IF e.type = "resync" THEN e.sequence >= q ELSE e.sequence = q + 1
    PROVE  /\ Append(S, e) \in Seq(Event) /\ Append(S, e) # <<>>
           /\ Append(S, e)[Len(Append(S, e))] = e
           /\ Chained(p, Append(S, e))
<1> DEFINE T == Append(S, e)
<1>1. /\ T \in Seq(Event) /\ Len(T) = Len(S) + 1 /\ T[Len(S) + 1] = e /\ T # <<>>
      /\ \A i \in 1..Len(S) : T[i] = S[i]
  BY AppendProperties
<1>2. ASSUME NEW i \in 1..Len(T)
      PROVE  LET q == IF i = 1 THEN p ELSE T[i - 1].sequence IN
             IF T[i].type = "resync" THEN T[i].sequence >= q ELSE T[i].sequence = q + 1
  <2>1. CASE i \in 1..Len(S)
    <3>1. T[i] = S[i] /\ (i # 1 => T[i - 1] = S[i - 1])
      BY <1>1, <2>1
    <3>2. QED
      BY <3>1, <2>1 DEF Chained
  <2>2. CASE i = Len(S) + 1
    <3>1. T[i] = e
      BY <1>1, <2>2
    <3>2. (S = <<>> <=> i = 1) /\ (i # 1 => i - 1 = Len(S) /\ T[i - 1] = S[Len(S)])
      BY <1>1, <2>2
    <3>3. QED
      BY <3>1, <3>2
  <2>3. QED
    BY <2>1, <2>2, <1>1
<1>3. QED
  BY <1>1, <1>2 DEF Chained

(* What is read or written of genuine events is genuine.                   *)
LEMMA GenuineParts ==
    ASSUME NEW S \in Seq(Event), Genuine(S)
    PROVE  /\ S # <<>> => Genuine(Tail(S)) /\ Genuine(<<Head(S)>>)
           /\ \A e \in Event : Genuine(<<e>>) => Genuine(Append(S, e))
<1>1. ASSUME S # <<>> PROVE Genuine(Tail(S)) /\ Genuine(<<Head(S)>>)
  <2>1. /\ Len(S) \in Nat \ {0} /\ Head(S) = S[1] /\ Len(Tail(S)) = Len(S) - 1
        /\ \A i \in 1..Len(Tail(S)) : Tail(S)[i] = S[i + 1] /\ i + 1 \in 1..Len(S)
    BY <1>1
  <2>2. QED
    BY <2>1 DEF Genuine
<1>2. ASSUME NEW e \in Event, Genuine(<<e>>) PROVE Genuine(Append(S, e))
  <2>1. /\ Len(Append(S, e)) = Len(S) + 1 /\ Append(S, e)[Len(S) + 1] = e
        /\ \A i \in 1..Len(S) : Append(S, e)[i] = S[i]
    OBVIOUS
  <2>2. 1 \in 1..Len(<<e>>) /\ <<e>>[1] = e
    OBVIOUS
  <2>3. QED
    BY <1>2, <2>1, <2>2 DEF Genuine
<1>3. QED
  BY <1>1, <1>2

(* SessionEvents returns a genuine, gapless continuation of what the       *)
(* client has, or a resync.                                                *)
LEMMA ReplayContinues ==
    ASSUME EventsTypeOK, RingOK, NEW after \in 0..MaxSequence, after <= sequence
    PROVE  Replay(after) \in Seq(Event) /\ Genuine(Replay(after)) /\ Chained(after, Replay(after))
<1> DEFINE n == Len(events)
           k == after - sequence + n
<1>1. /\ n \in Nat \ {0} /\ sequence \in 1..MaxSequence /\ MaxSequence \in Nat
      /\ events \in Seq(Event)
      /\ \A i \in 1..n : events[i].sequence = sequence - n + i /\ events[i] \in Event
  BY EventsAssumption DEF EventsTypeOK
<1>2. CASE Behind(after)
  <2> DEFINE e == [sequence |-> sequence, type |-> "resync"]
  <2>1. Replay(after) = <<e>> /\ e \in Event /\ Len(<<e>>) = 1 /\ <<e>>[1] = e
    BY <1>1, <1>2 DEF Replay, Event
  <2>2. Genuine(<<e>>) /\ Chained(after, <<e>>)
    <3>1. /\ \A i \in 1..Len(<<e>>) : i = 1
          /\ e.sequence = sequence /\ e.type = "resync" /\ sequence >= after /\ sequence <= sequence
      BY <2>1, <1>1
    <3> HIDE DEF e
    <3>2. QED
      BY <3>1, <2>1 DEF Genuine, Chained
  <2>3. QED
    BY <2>1, <2>2
<1>3. CASE ~Behind(after)
  <2>1. events[1].sequence = sequence - n + 1
    BY <1>1
  <2>2. k \in 0..n
    BY <1>1, <1>3, <2>1 DEF Behind
  <2>3. Later(after) = (k + 1)..n
    BY <1>1, <2>2 DEF Later
  <2>4. Cardinality(Later(after)) = n - k
    <3>1. k + 1 \in Int /\ n \in Int
      BY <1>1, <2>2
    <3>2. Cardinality((k + 1)..n) = IF k + 1 > n THEN 0 ELSE n - (k + 1) + 1
      BY <3>1, FS_Interval
    <3>3. QED
      BY <3>2, <2>2, <2>3, <1>1
  <2> DEFINE R == SubSeq(events, k + 1, n)
  <2>5. Replay(after) = R
    <3>1. n - Cardinality(Later(after)) + 1 = k + 1
      BY <2>4, <2>2, <1>1
    <3>2. QED
      BY <3>1, <1>3 DEF Replay
  <2>6. /\ R \in Seq(Event) /\ Len(R) = n - k
        /\ \A i \in 1..Len(R) : R[i] = events[k + i] /\ k + i \in 1..n
    BY <1>1, <2>2
  <2>7. \A i \in 1..Len(R) : R[i].type # "resync" /\ R[i].sequence = after + i
    BY <2>6, <2>2, <1>1 DEF RingOK
  <2>8. Genuine(R)
    BY <2>6 DEF RingOK, Genuine
  <2>9. Chained(after, R)
    <3>1. \A i \in 1..Len(R) : i # 1 => R[i - 1].sequence + 1 = after + i
      <4> TAKE i \in 1..Len(R)
      <4> HAVE i # 1
      <4>1. i - 1 \in 1..Len(R)
        BY <2>6, <2>2, <1>1
      <4>2. R[i - 1].sequence = after + (i - 1)
        BY <4>1, <2>7
      <4>3. after \in Nat /\ i \in Nat
        BY <2>6, <2>2, <1>1
      <4> HIDE DEF R
      <4>4. QED
        BY <4>2, <4>3
    <3> HIDE DEF R
    <3>2. QED
      BY <2>7, <3>1 DEF Chained
  <2>10. QED
    BY <2>5, <2>6, <2>8, <2>9
<1>4. QED
  BY <1>2, <1>3

-----------------------------------------------------------------------------
(* The state starts as the invariant says. *)
LEMMA EventsInitially == Init => EventsInv
<1> SUFFICES ASSUME Init PROVE EventsInv
  OBVIOUS
<1> DEFINE e == [sequence |-> 1, type |-> "created"]
<1>1. e \in Event /\ events = <<e>> /\ Len(<<e>>) = 1 /\ <<e>>[1] = e /\ <<e>> \in Seq(Event)
  BY EventsAssumption DEF Init, Event
<1>2. Active = {} /\ Cardinality(Active) = 0
  BY FS_EmptySet DEF Init, Active, Idle
<1>3. Idle \in Handler
  BY EventsAssumption DEF Idle, Handler
<1>4. EventsTypeOK
  <2>1. \A i \in DOMAIN events : events[i].sequence = sequence - Len(events) + i
    BY <1>1 DEF Init
  <2>2. handler \in [Handlers -> Handler] /\ wire \in [Handlers -> Seq(Event)]
    BY <1>3 DEF Init
  <2>3. events \in Seq(Event) /\ Len(events) \in 1..maxSessionEvents
    BY <1>1, EventsAssumption
  <2>4. subscribers = Cardinality(Active) /\ subscribers <= maxSessionSubscribers
    BY <1>2, EventsAssumption DEF Init
  <2>5. /\ open \in BOOLEAN /\ sequence \in 1..MaxSequence /\ breaks \in 0..MaxBreaks
        /\ channel \in 0..(MaxSequence + 1) /\ cursor \in 0..MaxSequence
        /\ signal \in BOOLEAN /\ conn \in Handlers \cup {NoHandler}
        /\ reported \subseteq told /\ told \subseteq finished /\ finished \subseteq 1..sequence
    <3>1. /\ open = TRUE /\ sequence = 1 /\ breaks = 0 /\ channel = 1 /\ cursor = 0
          /\ signal = FALSE /\ conn = NoHandler /\ reported = {} /\ told = {} /\ finished = {}
      BY DEF Init
    <3>2. /\ sequence \in 1..MaxSequence /\ breaks \in 0..MaxBreaks
          /\ channel \in 0..(MaxSequence + 1) /\ cursor \in 0..MaxSequence
      BY <3>1, EventsAssumption
    <3>3. open \in BOOLEAN /\ signal \in BOOLEAN
      BY <3>1
    <3>4. QED
      BY <3>1, <3>2, <3>3
  <2> HIDE DEF e
  <2>6. QED
    BY <2>1, <2>2, <2>3, <2>4, <2>5 DEF EventsTypeOK
<1>5. RingOK
  <2>1. \A i \in 1..Len(events) : events[i] = e
    BY <1>1
  <2>2. sequence = 1 /\ finished = {}
    BY DEF Init
  <2>3. QED
    BY <2>1, <2>2 DEF RingOK, Genuine
<1>6. ASSUME NEW h \in Handlers PROVE HandlerOK(h) /\ WireOK(h)
  <2>1. handler[h] = Idle /\ wire[h] = <<>> /\ conn # h
    BY EventsAssumption DEF Init
  <2>2. QED
    BY <2>1 DEF HandlerOK, WireOK, Genuine, Chained, Idle, Init
<1>7. QED
  BY <1>4, <1>5, <1>6 DEF Init, EventsInv, NoSilentSkip

(* A handler that starts or stops serving takes or gives back one place.   *)
LEMMA Places ==
    ASSUME EventsTypeOK, NEW h \in Handlers, NEW r \in Handler,
           handler' = [handler EXCEPT ![h] = r],
           subscribers' = IF r.pc \in {"read", "write"}
                          THEN IF h \in Active THEN subscribers ELSE subscribers + 1
                          ELSE IF h \in Active THEN subscribers - 1 ELSE subscribers
    PROVE  subscribers' = Cardinality(Active')
<1>1. IsFiniteSet(Active) /\ Cardinality(Active) \in Nat
  BY EventsAssumption, FS_Subset, FS_CardinalityType DEF Active
<1>2. \A g \in Handlers : handler'[g] = IF g = h THEN r ELSE handler[g]
  BY DEF EventsTypeOK
<1>3. CASE r.pc \in {"read", "write"}
  <2>1. Active' = Active \cup {h}
    BY <1>2, <1>3 DEF Active
  <2>2. QED
    BY <1>1, <1>3, <2>1, FS_AddElement DEF EventsTypeOK
<1>4. CASE r.pc \notin {"read", "write"}
  <2>1. Active' = Active \ {h}
    BY <1>2, <1>4 DEF Active
  <2>2. QED
    BY <1>1, <1>4, <2>1, FS_RemoveElement DEF EventsTypeOK
<1>5. QED
  BY <1>3, <1>4

(* The step of a handler that leaves ring, wire and client alone.          *)
LEMMA HandlerStep ==
    ASSUME EventsInv, NEW h \in Handlers, NEW r \in Handler,
           handler' = [handler EXCEPT ![h] = r],
           UNCHANGED <<ringVars, wire, clientVars>>,
           breaks' \in 0..MaxBreaks,
           subscribers' = IF r.pc \in {"read", "write"}
                          THEN IF h \in Active THEN subscribers ELSE subscribers + 1
                          ELSE IF h \in Active THEN subscribers - 1 ELSE subscribers,
           subscribers' <= maxSessionSubscribers,
           Genuine(r.batch), Chained(r.after, r.batch), r.after <= sequence,
           r.pc = "idle" => r.batch = <<>>,
           conn = h /\ r.pc # "idle" => r.after = Position(h)
    PROVE  EventsInv'
<1>1. EventsTypeOK'
  <2>1. subscribers' = Cardinality(Active')
    BY Places DEF EventsInv
  <2>2. handler' \in [Handlers -> Handler]
    BY DEF EventsInv, EventsTypeOK
  <2>3. QED
    BY <2>1, <2>2 DEF EventsInv, EventsTypeOK, ringVars, clientVars
<1>2. ASSUME NEW g \in Handlers PROVE (HandlerOK(g) /\ WireOK(g))'
  <2>1. handler'[g] = IF g = h THEN r ELSE handler[g]
    BY DEF EventsInv, EventsTypeOK
  <2>2. HandlerOK(g) /\ WireOK(g)
    BY DEF EventsInv
  <2>3. QED
    BY <2>1, <2>2 DEF HandlerOK, WireOK, Genuine, Position, ringVars, clientVars
<1>3. QED
  BY <1>1, <1>2 DEF EventsInv, RingOK, Genuine, NoSilentSkip, ringVars, clientVars

-----------------------------------------------------------------------------
(* Every step keeps the invariant: one lemma per group of actions.         *)

(* The steps of a handler that write nothing.                              *)
LEMMA HandlersKeep ==
    ASSUME EventsInv, NEW h \in Handlers,
           Subscribe(h) \/ Read(h) \/ Wake(h) \/ Heartbeat(h) \/ Gone(h) \/ Drop(h)
    PROVE  EventsInv'
<1> USE EventsAssumption
<1>1. /\ EventsTypeOK /\ RingOK /\ HandlerOK(h) /\ WireOK(h) /\ handler[h] \in Handler
      /\ handler \in [Handlers -> Handler]
      /\ subscribers \in Nat /\ subscribers <= maxSessionSubscribers /\ sequence \in 1..MaxSequence
  <2>1. IsFiniteSet(Active)
    BY FS_Subset DEF Active
  <2>2. subscribers \in Nat
    BY <2>1, FS_CardinalityType DEF EventsInv, EventsTypeOK
  <2>3. QED
    BY <2>2 DEF EventsInv, EventsTypeOK
<1>2. Idle \in Handler /\ Genuine(Idle.batch) /\ Chained(Idle.after, Idle.batch)
      /\ Idle.after <= sequence /\ Idle.pc = "idle" /\ Idle.batch = <<>>
  BY <1>1 DEF Idle, Handler, Genuine, Chained
<1>3. ASSUME Return(h), UNCHANGED <<ringVars, wire, clientVars>>, breaks' \in 0..MaxBreaks
      PROVE  EventsInv'
  <2>1. handler' = [handler EXCEPT ![h] = Idle]
        /\ subscribers' = IF h \in Active THEN subscribers - 1 ELSE subscribers
    BY <1>3 DEF Return, Release
  <2>2. subscribers' <= maxSessionSubscribers
    BY <1>1, <2>1
  <2>3. Idle.pc \notin {"read", "write"}
    BY <1>2
  <2> HIDE DEF Idle
  <2>4. QED
    BY <1>1, <1>2, <1>3, <2>1, <2>2, <2>3, HandlerStep
<1>4. breaks \in 0..MaxBreaks
  BY DEF EventsInv, EventsTypeOK
<1>5. CASE Subscribe(h)
  <2>1. CASE open /\ subscribers < maxSessionSubscribers
    <3> DEFINE r == [handler[h] EXCEPT !.pc = "read"]
    <3>1. r \in Handler /\ r.batch = handler[h].batch /\ r.after = handler[h].after /\ r.pc = "read"
      BY <1>1 DEF Handler
    <3>2. handler' = [handler EXCEPT ![h] = r] /\ subscribers' = subscribers + 1
      BY <1>1, <1>5, <2>1 DEF Subscribe
    <3>3. h \notin Active
      BY <1>5 DEF Subscribe, Active
    <3>4. UNCHANGED <<ringVars, wire, clientVars>> /\ breaks' \in 0..MaxBreaks
          /\ handler[h].pc = "asked"
      BY <1>4, <1>5 DEF Subscribe
    <3>5. /\ subscribers' <= maxSessionSubscribers
          /\ Genuine(r.batch) /\ Chained(r.after, r.batch) /\ r.after <= sequence
          /\ conn = h /\ r.pc # "idle" => r.after = Position(h)
      BY <1>1, <2>1, <3>1, <3>2, <3>4 DEF HandlerOK, WireOK
    <3> HIDE DEF r
    <3>6. QED
      BY <3>1, <3>2, <3>3, <3>4, <3>5, HandlerStep
  <2>2. QED
    BY <1>3, <1>4, <1>5, <2>1 DEF Subscribe
<1>6. CASE Read(h)
  <2>1. CASE open
    <3> DEFINE b == Replay(handler[h].after)
               r == [handler[h] EXCEPT !.pc = "write", !.channel = channel, !.batch = b]
    <3>1. b \in Seq(Event) /\ Genuine(b) /\ Chained(handler[h].after, b)
      BY <1>1, ReplayContinues DEF HandlerOK, Handler
    <3>2. channel \in 0..(MaxSequence + 1)
      BY DEF EventsInv, EventsTypeOK
    <3> HIDE DEF b
    <3>3. r \in Handler /\ r.batch = b /\ r.after = handler[h].after /\ r.pc = "write"
      BY <1>1, <3>1, <3>2 DEF Handler
    <3>4. handler' = [handler EXCEPT ![h] = r] /\ subscribers' = subscribers
      BY <1>1, <1>6, <2>1 DEF Read, b
    <3>5. h \in Active /\ handler[h].pc = "read"
      BY <1>6 DEF Read, Active
    <3>6. UNCHANGED <<ringVars, wire, clientVars>> /\ breaks' \in 0..MaxBreaks
      BY <1>4, <1>6 DEF Read
    <3> HIDE DEF r
    <3>7. QED
      BY <1>1, <3>1, <3>3, <3>4, <3>5, <3>6, HandlerStep DEF HandlerOK, WireOK
  <2>2. QED
    BY <1>3, <1>4, <1>6, <2>1 DEF Read
<1>7. ASSUME Waiting(h), handler' = [handler EXCEPT ![h].pc = "read"], UNCHANGED subscribers,
             UNCHANGED <<ringVars, wire, clientVars, breaks>>
      PROVE  EventsInv'
  <2> DEFINE r == [handler[h] EXCEPT !.pc = "read"]
  <2>1. r \in Handler /\ r.batch = handler[h].batch /\ r.after = handler[h].after /\ r.pc = "read"
    BY <1>1 DEF Handler
  <2>2. handler' = [handler EXCEPT ![h] = r] /\ h \in Active /\ handler[h].pc # "idle"
    BY <1>1, <1>7 DEF Waiting, Active
  <2> HIDE DEF r
  <2>3. QED
    BY <1>1, <1>4, <1>7, <2>1, <2>2, HandlerStep DEF HandlerOK, WireOK
<1>8. CASE Wake(h)
  BY <1>7, <1>8 DEF Wake
<1>9. CASE Heartbeat(h)
  BY <1>3, <1>4, <1>7, <1>9 DEF Heartbeat
<1>10. CASE Gone(h)
  BY <1>3, <1>4, <1>10 DEF Gone
<1>11. CASE Drop(h)
  BY <1>3, <1>4, <1>11 DEF Drop
<1>12. QED
  BY <1>5, <1>6, <1>8, <1>9, <1>10, <1>11

(* Write: the event goes from the batch to the end of the wire, or is lost *)
(* with a connection the client has left.                                  *)
LEMMA WriteKeeps ==
    ASSUME EventsInv, NEW h \in Handlers, Write(h)
    PROVE  EventsInv'
<1> USE EventsAssumption
<1> DEFINE b == handler[h].batch
           e == Head(b)
           r == [handler[h] EXCEPT !.batch = Tail(b), !.after = e.sequence]
<1>1. /\ EventsTypeOK /\ HandlerOK(h) /\ WireOK(h) /\ handler[h] \in Handler
      /\ b \in Seq(Event) /\ b # <<>> /\ handler[h].after \in Nat /\ wire[h] \in Seq(Event)
      /\ cursor \in Nat
  <2>1. EventsTypeOK /\ HandlerOK(h) /\ WireOK(h) /\ b # <<>>
    BY DEF EventsInv, Write
  <2>2. handler[h] \in Handler /\ wire[h] \in Seq(Event) /\ cursor \in 0..MaxSequence
    BY <2>1 DEF EventsTypeOK
  <2>3. b \in Seq(Event) /\ handler[h].after \in Nat
    BY <2>2 DEF Handler
  <2>4. QED
    BY <2>1, <2>2, <2>3
<1>2. /\ e \in Event /\ Tail(b) \in Seq(Event)
      /\ Chained(e.sequence, Tail(b)) /\ Genuine(Tail(b)) /\ Genuine(<<e>>)
      /\ IF e.type = "resync" THEN e.sequence >= handler[h].after
         ELSE e.sequence = handler[h].after + 1
  BY <1>1, ChainedTail, GenuineParts DEF HandlerOK
<1>3. e.sequence \in 0..MaxSequence /\ e.sequence <= sequence
  <2>1. 1 \in 1..Len(<<e>>) /\ <<e>>[1] = e
    OBVIOUS
  <2>2. QED
    BY <1>2, <2>1 DEF Genuine, Event
<1> HIDE DEF e, b
<1>4. r \in Handler /\ r.pc = "write" /\ r.after = e.sequence /\ r.batch = Tail(b)
  BY <1>1, <1>2, <1>3 DEF Handler, Write
<1>5. handler' = [handler EXCEPT ![h] = r]
  BY <1>1 DEF Write, EventsTypeOK, e, b
<1> HIDE DEF r
<1>6. \A g \in Handlers : handler'[g] = IF g = h THEN r ELSE handler[g]
  BY <1>5, <1>1 DEF EventsTypeOK
<1>7. subscribers' = Cardinality(Active')
  BY <1>1, <1>4, <1>5, Places DEF Write, Active
<1>8. wire' = IF conn = h THEN [wire EXCEPT ![h] = Append(wire[h], e)] ELSE wire
  BY DEF Write, e, b
<1>9. /\ UNCHANGED <<ringVars, subscribers, clientVars, breaks>> /\ handler[h].pc = "write"
  BY DEF Write
<1>10. ASSUME conn = h
       PROVE  /\ Append(wire[h], e) \in Seq(Event) /\ Append(wire[h], e) # <<>>
              /\ Append(wire[h], e)[Len(Append(wire[h], e))] = e
              /\ Chained(cursor, Append(wire[h], e)) /\ Genuine(Append(wire[h], e))
  <2>1. handler[h].after = Position(h) /\ Chained(cursor, wire[h]) /\ Genuine(wire[h])
    BY <1>1, <1>9, <1>10 DEF WireOK
  <2>2. QED
    BY <1>1, <1>2, <2>1, ChainedAppend, GenuineParts DEF Position
<1>11. EventsTypeOK'
  <2>1. handler' \in [Handlers -> Handler] /\ wire' \in [Handlers -> Seq(Event)]
    BY <1>1, <1>4, <1>5, <1>8, <1>10 DEF EventsTypeOK
  <2>2. QED
    BY <1>1, <1>7, <1>9, <2>1 DEF EventsTypeOK, ringVars, clientVars
<1>12. ASSUME NEW g \in Handlers PROVE (HandlerOK(g) /\ WireOK(g))'
  <2>1. HandlerOK(g) /\ WireOK(g)
    BY DEF EventsInv
  <2>2. HandlerOK(g)'
    BY <1>2, <1>3, <1>4, <1>6, <1>9, <2>1 DEF HandlerOK, Genuine, ringVars
  <2>3. CASE g = h /\ conn = h
    <3>1. wire'[g] = Append(wire[h], e) /\ conn' = g /\ cursor' = cursor
      BY <1>1, <1>8, <1>9, <2>3 DEF EventsTypeOK, clientVars
    <3>2. Genuine(wire[g])'
      BY <1>9, <1>10, <2>3, <3>1 DEF Genuine, ringVars
    <3>3. handler'[g].after = e.sequence /\ Position(g)' = e.sequence
      BY <1>4, <1>6, <1>10, <2>3, <3>1 DEF Position
    <3>4. /\ Chained(cursor', wire'[g])
          /\ handler'[g].after = IF wire'[g] = <<>> THEN cursor' ELSE wire'[g][Len(wire'[g])].sequence
      BY <1>10, <2>3, <3>1, <3>3
    <3>5. QED
      BY <2>2, <2>3, <3>1, <3>2, <3>4 DEF WireOK, Position
  <2>4. CASE ~(g = h /\ conn = h)
    <3>1. wire'[g] = wire[g] /\ conn' = conn /\ cursor' = cursor
      BY <1>1, <1>8, <1>9, <2>4 DEF EventsTypeOK, clientVars
    <3>2. Genuine(wire[g])'
      BY <1>9, <2>1, <3>1 DEF Genuine, ringVars, WireOK
    <3>3. conn = g => handler'[g] = handler[g]
      BY <1>6, <2>4
    <3>4. /\ conn' # g => wire'[g] = <<>>
          /\ conn' = g => Chained(cursor', wire'[g])
      BY <2>1, <3>1 DEF WireOK
    <3>5. conn' = g /\ handler'[g].pc # "idle" => handler'[g].after = Position(g)'
      BY <2>1, <3>1, <3>3 DEF WireOK, Position
    <3>6. QED
      BY <2>2, <3>2, <3>4, <3>5 DEF WireOK
  <2>5. QED
    BY <2>2, <2>3, <2>4
<1>13. QED
  BY <1>9, <1>11, <1>12 DEF EventsInv, RingOK, Genuine, NoSilentSkip, ringVars, clientVars

(* Publish: the new event extends the ring, which drops its oldest.        *)
LEMMA PublishKeeps ==
    ASSUME EventsInv, NEW kind \in Kinds, Publish(kind)
    PROVE  EventsInv'
<1> USE EventsAssumption
<1> DEFINE e == [sequence |-> sequence + 1, type |-> kind]
           A == Append(events, e)
           n == Len(events)
<1>1. /\ EventsTypeOK /\ RingOK /\ sequence \in 1..MaxSequence /\ sequence < MaxSequence
      /\ events \in Seq(Event) /\ n \in Nat \ {0} /\ n <= maxSessionEvents /\ open
      /\ finished \subseteq 1..sequence
      /\ channel = sequence
  BY DEF EventsInv, EventsTypeOK, Publish
<1>2. /\ sequence' = sequence + 1 /\ channel' = channel + 1 /\ events' = Trim(A)
      /\ finished' = finished \cup (IF kind = "finished" THEN {sequence + 1} ELSE {})
      /\ UNCHANGED <<open, subscribers, handler, wire, clientVars, breaks>>
  BY DEF Publish, Broadcast
<1>3. e \in Event /\ e.type \in Kinds
  BY <1>1 DEF Event, Kinds
<1>4. /\ A \in Seq(Event) /\ Len(A) = n + 1
      /\ \A i \in 1..n : A[i] = events[i]
      /\ A[n + 1] = e
  BY <1>1, <1>3, AppendProperties
<1>5. \A i \in 1..(n + 1) : A[i].sequence = sequence - n + i /\ A[i].type # "resync"
  <2>1. \A i \in 1..n : A[i].sequence = sequence - n + i /\ A[i].type # "resync"
    BY <1>1, <1>4 DEF EventsTypeOK, RingOK
  <2>2. e.sequence = sequence - n + (n + 1) /\ e.type # "resync"
    BY <1>1 DEF Kinds
  <2> HIDE DEF e, A
  <2>3. QED
    BY <2>1, <2>2, <1>1, <1>4
(* Whatever was genuine still is: its events are older than the new one.   *)
<1>6. ASSUME NEW S, Genuine(S), \A i \in 1..Len(S) : S[i].sequence \in Nat PROVE Genuine(S)'
  BY <1>1, <1>2, <1>6 DEF Genuine
<1>7. \A i \in 1..(n + 1) : (A[i].type = "finished" <=> A[i].sequence \in finished')
                          /\ A[i].sequence <= sequence'
  <2>1. \A i \in 1..n : (A[i].type = "finished" <=> A[i].sequence \in finished')
                      /\ A[i].sequence <= sequence'
    BY <1>1, <1>2, <1>4, <1>5 DEF RingOK, Genuine
  <2>2. (e.type = "finished" <=> e.sequence \in finished') /\ e.sequence <= sequence'
    BY <1>1, <1>2
  <2> HIDE DEF e, A
  <2>3. QED
    BY <2>1, <2>2, <1>1, <1>4
<1> HIDE DEF e, A
<1>8. PICK d \in {0, 1} : /\ events' \in Seq(Event) /\ Len(events') = n + 1 - d
                          /\ \A i \in 1..(n + 1 - d) : events'[i] = A[i + d]
                          /\ n + 1 - d <= maxSessionEvents
  <2>1. CASE Len(A) > maxSessionEvents
    <3>1. n = maxSessionEvents /\ events' = SubSeq(A, 2, n + 1)
      <4>1. n = maxSessionEvents /\ Len(A) - maxSessionEvents + 1 = 2
        BY <1>1, <1>4, <2>1
      <4>2. QED
        BY <1>2, <1>4, <2>1, <4>1 DEF Trim
    <3>2. \A i \in 2..(n + 1) : A[i] \in Event
      BY <1>1, <1>4
    <3>3. /\ events' \in Seq(Event) /\ Len(events') = n
          /\ \A i \in 1..n : events'[i] = A[i + 1]
      BY <1>1, <1>4, <3>1, <3>2
    <3>4. QED
      BY <3>1, <3>3, <1>1
  <2>2. CASE ~(Len(A) > maxSessionEvents)
    BY <1>1, <1>2, <1>4, <2>2 DEF Trim
  <2>3. QED
    BY <2>1, <2>2
<1>9. \A i \in 1..Len(events') : /\ i + d \in 1..(n + 1) /\ events'[i] = A[i + d]
                                /\ events'[i].sequence = sequence' - Len(events') + i
  <2> TAKE i \in 1..Len(events')
  <2>1. i + d \in 1..(n + 1) /\ events'[i] = A[i + d]
    <3>1. i \in 1..(n + 1 - d) /\ i + d \in 1..(n + 1)
      BY <1>1, <1>8
    <3>2. QED
      BY <1>8, <3>1
  <2>2. A[i + d].sequence = sequence - n + (i + d)
    BY <1>5, <2>1
  <2>3. sequence' - Len(events') + i = sequence - n + (i + d)
    <3>1. /\ Len(events') = n + 1 - d /\ sequence' = sequence + 1
          /\ i \in Nat /\ d \in Nat /\ n \in Nat /\ sequence \in Nat
      BY <1>1, <1>2, <1>8
    <3>2. QED
      BY <3>1
  <2>4. QED
    BY <2>1, <2>2, <2>3
<1>10. EventsTypeOK'
  <2>1. /\ Len(events') \in 1..maxSessionEvents /\ DOMAIN events' = 1..Len(events')
        /\ channel' \in 0..(MaxSequence + 1) /\ sequence' \in 1..MaxSequence
        /\ told' \subseteq finished' /\ finished' \subseteq 1..sequence'
    <3>1. told \subseteq finished /\ told' = told
      BY <1>1, <1>2 DEF EventsTypeOK, clientVars
    <3>2. Len(events') \in 1..maxSessionEvents /\ DOMAIN events' = 1..Len(events')
      BY <1>1, <1>8
    <3>3. channel' \in 0..(MaxSequence + 1) /\ sequence' \in 1..MaxSequence
      BY <1>1, <1>2
    <3>4. finished' \subseteq 1..sequence'
      BY <1>1, <1>2
    <3>5. QED
      BY <1>2, <3>1, <3>2, <3>3, <3>4
  <2>2. Active' = Active
    BY <1>2 DEF Active
  <2>3. QED
    BY <1>1, <1>2, <1>8, <1>9, <2>1, <2>2 DEF EventsTypeOK, clientVars
<1>11. RingOK'
  BY <1>5, <1>7, <1>9 DEF RingOK, Genuine
<1>12. ASSUME NEW h \in Handlers PROVE (HandlerOK(h) /\ WireOK(h))'
  <2>1. /\ HandlerOK(h) /\ WireOK(h)
        /\ handler'[h] = handler[h] /\ wire'[h] = wire[h] /\ conn' = conn /\ cursor' = cursor
    BY <1>2 DEF EventsInv, clientVars
  <2>2. /\ \A i \in 1..Len(handler[h].batch) : handler[h].batch[i].sequence \in Nat
        /\ \A i \in 1..Len(wire[h]) : wire[h][i].sequence \in Nat
        /\ handler[h].after \in Nat
    <3>1. handler[h] \in Handler /\ wire[h] \in Seq(Event)
      BY <1>1 DEF EventsTypeOK
    <3>2. handler[h].batch \in Seq(Event) /\ handler[h].after \in Nat
      BY <3>1 DEF Handler
    <3>3. \A v \in Event : v.sequence \in Nat
      BY DEF Event
    <3>4. QED
      BY <3>1, <3>2, <3>3
  <2>3. Genuine(handler[h].batch)' /\ Genuine(wire[h])'
    <3>1. Genuine(handler[h].batch) /\ Genuine(wire[h])
      BY <2>1 DEF HandlerOK, WireOK
    <3>2. Genuine(handler[h].batch)'
      BY <1>1, <1>2, <2>1, <2>2, <3>1 DEF Genuine
    <3>3. Genuine(wire[h])'
      BY <1>1, <1>2, <2>1, <2>2, <3>1 DEF Genuine
    <3>4. QED
      BY <3>2, <3>3
  <2>4. QED
    BY <1>1, <1>2, <2>1, <2>2, <2>3 DEF HandlerOK, WireOK, Position
<1>13. NoSilentSkip' /\ cursor' <= sequence' /\ channel' = IF open' THEN sequence' ELSE sequence' + 1
  BY <1>1, <1>2 DEF EventsInv, EventsTypeOK, NoSilentSkip, clientVars
<1>14. QED
  BY <1>10, <1>11, <1>12, <1>13 DEF EventsInv

(* Receive: the first event on the wire is the next one or a resync, so    *)
(* the client hears of every finished event its cursor passes.             *)
LEMMA ReceiveKeeps ==
    ASSUME EventsInv, Receive
    PROVE  EventsInv'
<1> USE EventsAssumption
<1> DEFINE h == conn
           w == wire[h]
           e == Head(w)
<1>1. /\ EventsTypeOK /\ h \in Handlers /\ HandlerOK(h) /\ WireOK(h)
      /\ w \in Seq(Event) /\ w # <<>> /\ cursor \in Nat
  <2>1. EventsTypeOK /\ h \in Handlers /\ w # <<>>
    BY DEF EventsInv, EventsTypeOK, Receive
  <2>2. HandlerOK(h) /\ WireOK(h)
    BY <2>1 DEF EventsInv
  <2>3. w \in Seq(Event) /\ cursor \in 0..MaxSequence
    BY <2>1 DEF EventsTypeOK
  <2>4. QED
    BY <2>1, <2>2, <2>3
<1>2. /\ e \in Event /\ Tail(w) \in Seq(Event) /\ e = w[1] /\ Len(Tail(w)) = Len(w) - 1
      /\ Chained(e.sequence, Tail(w)) /\ Genuine(Tail(w)) /\ Genuine(<<e>>)
      /\ IF e.type = "resync" THEN e.sequence >= cursor ELSE e.sequence = cursor + 1
  BY <1>1, ChainedTail, GenuineParts DEF WireOK
<1>3. /\ e.sequence \in 1..MaxSequence /\ e.sequence <= sequence
      /\ e.type # "resync" => (e.type = "finished" <=> e.sequence \in finished)
  <2>1. 1 \in 1..Len(<<e>>) /\ <<e>>[1] = e
    OBVIOUS
  <2>2. QED
    BY <1>2, <2>1 DEF Genuine, Event
<1>4. /\ cursor' = e.sequence
      /\ signal' = (signal \/ e.type \in {"finished", "resync"})
      /\ told' = told \cup Heard(e)
      /\ wire' = [wire EXCEPT ![h] = Tail(w)]
      /\ UNCHANGED <<ringVars, subscribers, handler, conn, reported, breaks>>
  <2>1. e.type = "resync" \/ e.sequence > cursor
    BY <1>1, <1>2
  <2>2. QED
    BY <2>1 DEF Receive
<1> HIDE DEF e
<1>5. EventsTypeOK'
  <2>1. /\ cursor' \in 0..MaxSequence /\ signal' \in BOOLEAN
    BY <1>1, <1>3, <1>4 DEF EventsTypeOK
  <2>2. reported' \subseteq told' /\ told' \subseteq finished'
    BY <1>1, <1>2, <1>3, <1>4 DEF EventsTypeOK, Heard, ringVars
  <2>3. wire' \in [Handlers -> Seq(Event)]
    BY <1>1, <1>2, <1>4 DEF EventsTypeOK
  <2>4. Active' = Active
    BY <1>4 DEF Active
  <2>5. QED
    BY <1>1, <1>4, <2>1, <2>2, <2>3, <2>4 DEF EventsTypeOK, ringVars
<1>6. NoSilentSkip'
  <2>1. NoSilentSkip /\ finished' = finished /\ reported' = reported /\ finished \subseteq 1..sequence
    BY <1>1, <1>4 DEF EventsInv, ringVars, EventsTypeOK
  <2>2. \A s \in finished : s <= e.sequence => s \in told \cup Heard(e)
    <3> TAKE s \in finished
    <3> HAVE s <= e.sequence
    <3>1. s \in Nat
      BY <1>1, <2>1 DEF EventsTypeOK
    <3>2. CASE e.type = "resync"
      BY <3>2 DEF Heard
    <3>3. CASE e.type # "resync" /\ s <= cursor
      BY <2>1, <3>3 DEF NoSilentSkip
    <3>4. CASE e.type # "resync" /\ ~(s <= cursor)
      <4>1. s = e.sequence
        BY <1>1, <1>2, <3>1, <3>4
      <4>2. QED
        BY <1>3, <3>4, <4>1 DEF Heard
    <3>5. QED
      BY <3>2, <3>3, <3>4
  <2>3. told' # told => e.type \in {"finished", "resync"}
    BY <1>4 DEF Heard
  <2>4. told' # reported' => signal'
    <3>1. CASE told' = told
      BY <2>1, <3>1, <1>4 DEF NoSilentSkip
    <3>2. CASE told' # told
      BY <2>3, <3>2, <1>4
    <3>3. QED
      BY <3>1, <3>2
  <2>5. QED
    BY <1>4, <2>1, <2>2, <2>4 DEF NoSilentSkip
<1>7. ASSUME NEW g \in Handlers PROVE (HandlerOK(g) /\ WireOK(g))'
  <2>1. HandlerOK(g) /\ WireOK(g) /\ handler' = handler /\ conn' = conn
    BY <1>4 DEF EventsInv
  <2>2. HandlerOK(g)'
    BY <1>4, <2>1 DEF HandlerOK, Genuine, ringVars
  <2>3. CASE g = h
    <3>1. wire'[g] = Tail(w)
      BY <1>1, <1>4, <2>3 DEF EventsTypeOK
    <3>2. Genuine(wire[g])'
      <4>1. Genuine(Tail(w)) /\ sequence' = sequence /\ finished' = finished
        BY <1>2, <1>4 DEF ringVars
      <4> HIDE DEF w
      <4>2. QED
        BY <3>1, <4>1 DEF Genuine
    <3>3. (IF Tail(w) = <<>> THEN e.sequence ELSE Tail(w)[Len(Tail(w))].sequence) = Position(g)
      <4>1. Position(g) = w[Len(w)].sequence
        BY <1>1, <2>3 DEF Position
      <4>2. CASE Tail(w) = <<>>
        <5>1. Len(w) = 1
          <6>1. Len(Tail(w)) = 0 /\ Len(w) \in Nat
            BY <1>1, <1>2, <4>2, EmptySeq
          <6>2. QED
            BY <1>2, <6>1
        <5>2. QED
          BY <1>2, <4>1, <4>2, <5>1
      <4>3. CASE Tail(w) # <<>>
        <5>1. Tail(w)[Len(Tail(w))] = w[Len(w)]
          <6>1. Len(Tail(w)) \in 1..Len(Tail(w)) /\ Len(Tail(w)) + 1 = Len(w)
            BY <1>1, <1>2, <4>3
          <6>2. Tail(w)[Len(Tail(w))] = w[Len(Tail(w)) + 1]
            BY <1>1, <6>1, HeadTailProperties
          <6>3. QED
            BY <6>1, <6>2
        <5>2. QED
          BY <4>1, <4>3, <5>1
      <4>4. QED
        BY <4>2, <4>3
    <3>4. Position(g)' = Position(g)
      BY <1>4, <3>1, <3>3 DEF Position
    <3>5. Chained(cursor', wire'[g])
      BY <1>2, <1>4, <3>1
    <3>6. QED
      BY <2>1, <2>2, <2>3, <3>2, <3>4, <3>5 DEF WireOK
  <2>4. CASE g # h
    <3>1. wire'[g] = wire[g]
      BY <1>1, <1>4, <2>4 DEF EventsTypeOK
    <3>2. Genuine(wire[g])'
      BY <1>4, <2>1, <3>1 DEF Genuine, ringVars, WireOK
    <3>3. QED
      BY <2>1, <2>2, <2>4, <3>1, <3>2 DEF WireOK
  <2>5. QED
    BY <2>3, <2>4
<1>8. QED
  BY <1>3, <1>4, <1>5, <1>6, <1>7 DEF EventsInv, RingOK, Genuine, ringVars

(* The remaining steps of the client, and the end of the session.          *)
LEMMA ClientKeeps ==
    ASSUME EventsInv,
           CloseSession \/ Abandon \/ Disconnect \/ Take \/ \E h \in Handlers : Connect(h)
    PROVE  EventsInv'
<1> USE EventsAssumption
<1>1. /\ EventsTypeOK /\ RingOK /\ NoSilentSkip /\ cursor <= sequence
      /\ channel = IF open THEN sequence ELSE sequence + 1
      /\ \A g \in Handlers : HandlerOK(g) /\ WireOK(g)
  BY DEF EventsInv
<1>2. CASE CloseSession
  <2>1. open /\ open' = FALSE /\ channel' = channel + 1
        /\ UNCHANGED <<events, sequence, finished, subscribers, handler, wire, clientVars, breaks>>
    BY <1>2 DEF CloseSession
  <2>2. Active' = Active /\ open' \in BOOLEAN /\ channel' \in 0..(MaxSequence + 1)
    <3>1. Active' = Active /\ open' \in BOOLEAN
      BY <2>1 DEF Active
    <3>2. sequence \in 1..MaxSequence
      BY <1>1 DEF EventsTypeOK
    <3>3. QED
      BY <1>1, <2>1, <3>1, <3>2
  <2>3. EventsTypeOK'
    BY <1>1, <2>1, <2>2 DEF EventsTypeOK, clientVars
  <2>4. RingOK' /\ NoSilentSkip' /\ cursor' <= sequence'
        /\ channel' = IF open' THEN sequence' ELSE sequence' + 1
    BY <1>1, <2>1 DEF RingOK, NoSilentSkip, Genuine, clientVars
  <2>5. ASSUME NEW g \in Handlers PROVE (HandlerOK(g) /\ WireOK(g))'
    BY <1>1, <2>1 DEF HandlerOK, WireOK, Genuine, Position, clientVars
  <2>6. QED
    BY <2>3, <2>4, <2>5 DEF EventsInv
<1>3. CASE Abandon
  <2>1. conn \in Handlers /\ breaks' \in 0..MaxBreaks
    BY <1>1, <1>3 DEF Abandon, EventsTypeOK
  <2>2. /\ conn' = NoHandler /\ wire' = [wire EXCEPT ![conn] = <<>>]
        /\ UNCHANGED <<ringVars, subscribers, handler, cursor, signal, told, reported>>
    BY <1>3 DEF Abandon
  <2>3. wire' \in [Handlers -> Seq(Event)] /\ Active' = Active
    BY <1>1, <2>1, <2>2 DEF EventsTypeOK, Active
  <2>4. EventsTypeOK'
    BY <1>1, <2>1, <2>2, <2>3 DEF EventsTypeOK, ringVars
  <2>5. ASSUME NEW g \in Handlers PROVE (HandlerOK(g) /\ WireOK(g))'
    <3>1. wire'[g] = <<>> /\ conn' # g
      BY <1>1, <2>1, <2>2 DEF EventsTypeOK, WireOK
    <3>2. HandlerOK(g)'
      BY <1>1, <2>2 DEF HandlerOK, Genuine, ringVars
    <3>3. QED
      BY <3>1, <3>2 DEF WireOK, Genuine
  <2>6. QED
    BY <1>1, <2>2, <2>4, <2>5 DEF EventsInv, RingOK, Genuine, NoSilentSkip, ringVars
<1>4. CASE Disconnect
  <2>1. /\ conn \in Handlers /\ wire[conn] = <<>> /\ conn' = NoHandler
        /\ UNCHANGED <<ringVars, subscribers, handler, wire, cursor, signal, told, reported, breaks>>
    BY <1>1, <1>4 DEF Disconnect, EventsTypeOK
  <2>2. Active' = Active
    BY <2>1 DEF Active
  <2>3. EventsTypeOK'
    BY <1>1, <2>1, <2>2 DEF EventsTypeOK, ringVars
  <2>4. ASSUME NEW g \in Handlers PROVE (HandlerOK(g) /\ WireOK(g))'
    <3>1. wire'[g] = <<>> /\ conn' # g
      BY <1>1, <2>1 DEF WireOK
    <3>2. HandlerOK(g)'
      BY <1>1, <2>1 DEF HandlerOK, Genuine, ringVars
    <3>3. QED
      BY <3>1, <3>2 DEF WireOK, Genuine
  <2>5. QED
    BY <1>1, <2>1, <2>3, <2>4 DEF EventsInv, RingOK, Genuine, NoSilentSkip, ringVars
<1>5. CASE Take
  <2>1. /\ signal' = FALSE /\ reported' = told
        /\ UNCHANGED <<ringVars, subscribers, handler, wire, conn, cursor, told, breaks>>
    BY <1>5 DEF Take
  <2>2. Active' = Active /\ signal' \in BOOLEAN
    BY <2>1 DEF Active
  <2>3. EventsTypeOK'
    BY <1>1, <2>1, <2>2 DEF EventsTypeOK, ringVars
  <2>4. ASSUME NEW g \in Handlers PROVE (HandlerOK(g) /\ WireOK(g))'
    BY <1>1, <2>1 DEF HandlerOK, WireOK, Genuine, Position, ringVars
  <2>5. QED
    BY <1>1, <2>1, <2>3, <2>4 DEF EventsInv, RingOK, Genuine, NoSilentSkip, ringVars
<1>6. CASE \E h \in Handlers : Connect(h)
  <2>1. PICK h \in Handlers : Connect(h)
    BY <1>6
  <2> DEFINE r == [handler[h] EXCEPT !.pc = "asked", !.after = cursor]
  <2>2. handler[h] \in Handler /\ cursor \in 0..MaxSequence /\ handler \in [Handlers -> Handler]
    BY <1>1 DEF EventsTypeOK
  <2>3. /\ handler[h].pc = "idle" /\ conn = NoHandler /\ conn' = h
        /\ handler' = [handler EXCEPT ![h] = r]
        /\ UNCHANGED <<ringVars, subscribers, wire, cursor, signal, told, reported, breaks>>
    BY <2>1, <2>2 DEF Connect
  <2>4. r \in Handler /\ r.pc = "asked" /\ r.after = cursor /\ r.batch = handler[h].batch
    BY <2>2 DEF Handler
  <2> HIDE DEF r
  <2>5. \A g \in Handlers : handler'[g] = IF g = h THEN r ELSE handler[g]
    BY <2>2, <2>3
  <2>6. subscribers' = Cardinality(Active')
    BY <1>1, <2>3, <2>4, Places DEF Active
  <2>7. handler' \in [Handlers -> Handler] /\ conn' \in Handlers \cup {NoHandler}
    BY <2>2, <2>3, <2>4
  <2>8. EventsTypeOK'
    BY <1>1, <2>3, <2>6, <2>7 DEF EventsTypeOK, ringVars
  <2>9. handler[h].batch = <<>>
    BY <1>1, <2>3 DEF HandlerOK
  <2>10. ASSUME NEW g \in Handlers PROVE (HandlerOK(g) /\ WireOK(g))'
    <3>1. wire'[g] = <<>>
      BY <1>1, <2>3 DEF WireOK
    <3>2. HandlerOK(g)'
      <4>1. CASE g = h
        BY <1>1, <2>3, <2>4, <2>5, <2>9, <4>1 DEF HandlerOK, Genuine, Chained, ringVars
      <4>2. CASE g # h
        BY <1>1, <2>3, <2>5, <4>2 DEF HandlerOK, Genuine, ringVars
      <4>3. QED
        BY <4>1, <4>2
    <3>3. Chained(cursor', wire'[g])
      BY <3>1 DEF Chained
    <3>4. QED
      BY <2>3, <2>4, <2>5, <3>1, <3>2, <3>3 DEF WireOK, Genuine, Position
  <2>11. QED
    BY <1>1, <2>3, <2>8, <2>10 DEF EventsInv, RingOK, Genuine, NoSilentSkip, ringVars
<1>7. QED
  BY <1>2, <1>3, <1>4, <1>5, <1>6

(* The invariant is inductive. *)
LEMMA EventsStep == EventsInv /\ [Next]_vars => EventsInv'
<1> SUFFICES ASSUME EventsInv, [Next]_vars PROVE EventsInv'
  OBVIOUS
<1>1. CASE Next
  BY <1>1, PublishKeeps, ClientKeeps, ReceiveKeeps, HandlersKeep, WriteKeeps DEF Next, Follow, Serve
<1>2. CASE UNCHANGED vars
  BY <1>2 DEF vars, ringVars, clientVars, EventsInv, EventsTypeOK, Active, RingOK, HandlerOK,
              WireOK, Position, Genuine, NoSilentSkip
<1>3. QED
  BY <1>1, <1>2

(* The ring holds the latest events without a gap within its size, and the *)
(* streams that are served are counted exactly and within their limit.     *)
THEOREM EventsTypeCorrect == Spec => []EventsTypeOK
<1>1. EventsInv => EventsTypeOK
  BY DEF EventsInv
<1>2. QED
  BY <1>1, EventsInitially, EventsStep, PTL DEF Spec

(* However slow a client is and however often it reconnects, its cursor    *)
(* never passes a finished event it has not heard of, and what its loop    *)
(* has not seen keeps the signal up.                                       *)
THEOREM NoSilentSkipHolds == Spec => []NoSilentSkip
<1>1. EventsInv => NoSilentSkip
  BY DEF EventsInv
<1>2. QED
  BY <1>1, EventsInitially, EventsStep, PTL DEF Spec
=============================================================================
