---------------------------- MODULE StreamProofs ----------------------------
(***************************************************************************)
(* Proofs about Stream: for any parts, values, buffer sizes and loads, an  *)
(* open stream misses no change of a part that it still observes, and none *)
(* of the configuration that came after it began to listen.                *)
(*                                                                         *)
(* The invariant follows a value from the buffer to the connection to the  *)
(* page (Caught).  That needs the shape of a connection (Shape): it is     *)
(* empty when it is made, and nothing but data is on it while the handler  *)
(* runs, so what a handler wrote never reaches the page of a later one.    *)
(***************************************************************************)
EXTENDS Stream, TLAPS

LEMMA Empty ==
    ASSUME NEW S
    PROVE  <<>> \in Seq(S) /\ Len(<<>>) = 0
OBVIOUS

LEMMA LastOfAppend ==
    ASSUME NEW S, NEW s \in Seq(S), NEW e \in S
    PROVE  Append(s, e) # <<>> /\ Last(Append(s, e)) = e
BY DEF Last

LEMMA LastOfTail ==
    ASSUME NEW S, NEW s \in Seq(S), s # <<>>, Tail(s) # <<>>
    PROVE  Last(Tail(s)) = Last(s)
BY DEF Last

LEMMA HeadIsLast ==
    ASSUME NEW S, NEW s \in Seq(S), s # <<>>, Tail(s) = <<>>
    PROVE  Head(s) = Last(s)
<1>1. Len(Tail(s)) = Len(s) - 1
  OBVIOUS
<1>2. Len(Tail(s)) = 0
  BY Empty, Zenon
<1>3. Len(s) \in Nat
  OBVIOUS
<1>4. Len(s) = 1
  <2> QED  BY <1>1, <1>2, <1>3
<1> QED  BY <1>4 DEF Last

-----------------------------------------------------------------------------
\* A connection holds nothing when it is made, only data while its handler
\* runs, and nothing at all when the browser has let go of it.
Shape ==
    /\ source = "closed" \/ mounted
    /\ source # "open" => wire = <<>>
    /\ source = "open" /\ pc # "none" => \A i \in 1 .. Len(wire) : wire[i].kind = "data"
    /\ pc = "none" => observed = {} /\ \A p \in Parts : queue[p] = <<>>
    /\ pc = "observe" => /\ wire = <<>>
                         /\ \A p \in todo : p \notin observed /\ queue[p] = <<>>
                         /\ \A p \in Parts \ todo : got.val[p] \in Values
    /\ Writing => got \in Readings

\* The last value of a buffer is the present one.
Buffered == \A p \in observed : queue[p] # <<>> => Last(queue[p]) = state[p]

\* With nothing in the buffer, so is the one the snapshot will have.
Initial == pc = "observe" => \A p \in observed : queue[p] = <<>> => got.val[p] = state[p]

\* And later, the one in the last message made, or shown.
Caught ==
    Streaming /\ ~Overtaken =>
        \A p \in observed : queue[p] = <<>> => Ahead.val[p] = state[p]

IInv == TypeOK /\ Shape /\ Buffered /\ Initial /\ Caught

USE DEF Data, Writing

LEMMA InvInit == Init => IInv
<1> SUFFICES ASSUME Init PROVE IInv
  OBVIOUS
<1>1. wire \in Seq(Messages) /\ Len(wire) <= MaxWire
  BY Empty, StreamAssumption DEF Init
<1>2. queue \in [Parts -> Seq(Values)] /\ \A p \in Parts : Len(queue[p]) <= Buffer
  BY Empty, StreamAssumption DEF Init
<1>3. NoData \in Drafts
  BY DEF NoData, Drafts
<1>4. loads \in [Loaders -> [pc : {"none", "sent", "ok"}, got : Readings \cup {NoData}]]
  BY DEF Init, Idle
<1>5. TypeOK
  BY <1>1, <1>2, <1>3, <1>4 DEF Init, TypeOK
<1> QED
  BY <1>5 DEF Init, IInv, Shape, Buffered, Initial, Caught, Streaming

-----------------------------------------------------------------------------
(* Types                                                                   *)

LEMMA ReadingTypes ==
    ASSUME TypeOK
    PROVE  /\ Present \in Readings
           /\ NoData \in Drafts
           /\ \A r \in Readings : Data(r) \in Messages
           /\ \A k \in {"auth_expired", "shutdown"} : [kind |-> k] \in Messages
           /\ \A r \in Readings :
                 r \in Drafts
BY DEF TypeOK, Present, Readings, NoData, Messages, Drafts

\* When all parts are observed, the snapshot has a value for each.
LEMMA SnapshotReading ==
    ASSUME TypeOK, Shape, Snapshot
    PROVE  [val |-> got.val, config |-> config] \in Readings
<1>1. got.val \in [Parts -> Values]
  BY DEF TypeOK, Drafts, Shape, Snapshot
<1> QED  BY <1>1 DEF TypeOK, Readings

LEMMA WriteType ==
    ASSUME TypeOK, Room, NEW m \in Messages, Write(m)
    PROVE  wire' \in Seq(Messages) /\ Len(wire') <= MaxWire
BY StreamAssumption DEF TypeOK, Room, Write

LEMMA EndType ==
    ASSUME TypeOK, End
    PROVE  /\ pc' = "none" /\ todo' \subseteq Parts
           /\ got' \in Drafts
           /\ observed' = {} /\ queue' \in [Parts -> Seq(Values)]
           /\ \A p \in Parts : queue'[p] = <<>> /\ Len(queue'[p]) <= Buffer
           /\ configSignal' \in BOOLEAN /\ sessionSignal' \in BOOLEAN /\ gap' \in BOOLEAN
<1>1. queue' = [p \in Parts |-> <<>>]
  BY DEF End
<1>2. \A p \in Parts : queue'[p] = <<>> /\ Len(queue'[p]) <= Buffer
  BY <1>1, Empty, StreamAssumption
<1>3. queue' \in [Parts -> Seq(Values)]
  BY <1>1, Empty
<1> QED  BY <1>2, <1>3, ReadingTypes DEF End

LEMMA UnmountType ==
    ASSUME TypeOK, Unmount
    PROVE  TypeOK'
<1>1. wire' \in Seq(Messages) /\ Len(wire') <= MaxWire
  BY Empty, StreamAssumption DEF Unmount
<1>2. loads' \in [Loaders -> [pc : {"none", "sent", "ok"}, got : Readings \cup {NoData}]]
  BY DEF Unmount, Idle
<1>3. UNCHANGED <<server, handler, gap>>
  BY DEF Unmount
<1> QED
  BY <1>1, <1>2, <1>3 DEF TypeOK, Unmount, server, handler, observer, signals

LEMMA TypeChange ==
    ASSUME TypeOK, Change
    PROVE  TypeOK'
<1>1. ASSUME NEW p \in Parts, NEW v \in Values, Publish(p, v) PROVE TypeOK'
  <2>1. /\ observed' \subseteq Parts /\ queue' \in [Parts -> Seq(Values)]
        /\ \A q \in Parts : Len(queue'[q]) <= Buffer
    <3>1. CASE p \notin observed
      BY <1>1, <3>1 DEF Publish, observer, TypeOK
    <3>2. CASE p \in observed /\ Len(queue[p]) < Buffer
      <4>1. queue' = [queue EXCEPT ![p] = Append(queue[p], v)] /\ observed' = observed
        BY <1>1, <3>2 DEF Publish, Offer
      <4>2. Append(queue[p], v) \in Seq(Values) /\ Len(Append(queue[p], v)) <= Buffer
        BY <3>2, StreamAssumption DEF TypeOK
      <4> QED  BY <4>1, <4>2 DEF TypeOK
    <3>3. CASE p \in observed /\ ~(Len(queue[p]) < Buffer)
      BY <1>1, <3>3 DEF Publish, Offer, TypeOK
    <3> QED  BY <3>1, <3>2, <3>3
  <2>2. state' \in [Parts -> Values]
    BY <1>1 DEF Publish, TypeOK
  <2>3. UNCHANGED <<config, session, pc, todo, got, signals, wire, page, gap>>
    BY <1>1 DEF Publish
  <2> QED
    BY <2>1, <2>2, <2>3 DEF TypeOK, signals, page
<1>2. CASE SetConfiguration
  <2>1. config' \in Nat
    BY <1>2 DEF SetConfiguration, TypeOK
  <2>2. configSignal' \in BOOLEAN /\ gap' \in BOOLEAN
    BY <1>2 DEF SetConfiguration, TypeOK, Listening
  <2>3. UNCHANGED <<state, session, pc, todo, got, observer, sessionSignal, wire, page>>
    BY <1>2 DEF SetConfiguration
  <2> QED
    BY <2>1, <2>2, <2>3 DEF TypeOK, observer, page
<1>3. CASE Revoke \/ OtherSession
  <2>1. /\ session' \in {"live", "gone"}
        /\ UNCHANGED <<state, config, pc, todo, got, observer, configSignal, wire, page, gap>>
    BY <1>3 DEF Revoke, OtherSession, TypeOK, server
  <2>2. sessionSignal' \in BOOLEAN
    BY <1>3 DEF Revoke, OtherSession, TypeOK, Listening
  <2> QED
    BY <2>1, <2>2 DEF TypeOK, observer, page
<1>4. CASE Expire
  BY <1>4 DEF Expire, TypeOK, handler, observer, signals, page
<1>5. CASE Restart
  <2>1. wire' \in Seq(Messages) /\ Len(wire') <= MaxWire
    BY <1>5, ReadingTypes, WriteType DEF Restart, TypeOK
  <2> QED
    BY <1>5, <2>1, EndType DEF Restart, TypeOK, page
<1> QED
  BY <1>1, <1>2, <1>3, <1>4, <1>5 DEF Change

LEMMA TypeHandle ==
    ASSUME IInv, Handle
    PROVE  TypeOK'
<1> USE DEF IInv
<1>1. ASSUME NEW p \in Parts, Observe(p) PROVE TypeOK'
  <2>1. got' \in Drafts
    BY <1>1 DEF Observe, TypeOK, Drafts
  <2> QED  BY <1>1, <2>1 DEF Observe, TypeOK, server, signals, page
<1>2. ASSUME NEW p \in Parts, Take(p) PROVE TypeOK'
  <2>1. Head(queue[p]) \in Values /\ Tail(queue[p]) \in Seq(Values)
        /\ Len(Tail(queue[p])) <= Buffer
    BY <1>2, StreamAssumption DEF Take, TypeOK
  <2>2. [val |-> [state EXCEPT ![p] = Head(queue[p])], config |-> config] \in Readings
    BY <2>1 DEF TypeOK, Readings
  <2>3. got' \in Readings /\ pc' = "event" /\ gap' = FALSE
        /\ UNCHANGED <<server, todo, observed, wire, page, signals>>
    BY <1>2, <2>2 DEF Take, Make
  <2>4. queue' \in [Parts -> Seq(Values)] /\ \A q \in Parts : Len(queue'[q]) <= Buffer
    BY <1>2, <2>1 DEF Take, TypeOK
  <2> QED
    BY <2>3, <2>4, ReadingTypes DEF TypeOK, server, signals, page
<1>3. ASSUME NEW p \in Parts, ObserverClosed(p) PROVE TypeOK'
  BY <1>3, EndType DEF ObserverClosed, TypeOK, server, page
<1>4. CASE Snapshot
  <2>1. got' \in Readings /\ pc' = "snapshot" /\ gap' = FALSE
        /\ UNCHANGED <<server, todo, observer, wire, page, signals>>
    BY <1>4, SnapshotReading DEF Snapshot, Make, observer
  <2> QED
    BY <2>1, ReadingTypes DEF TypeOK, server, observer, signals, page
<1>5. CASE Arm
  BY <1>5 DEF Arm, TypeOK, server, observer, signals, page
<1>6. CASE ConfigurationChanged
  BY <1>6 DEF ConfigurationChanged, TypeOK, server, observer, page
<1>7. CASE WriteEvent
  <2>1. wire' \in Seq(Messages) /\ Len(wire') <= MaxWire
    BY <1>7, ReadingTypes, WriteType DEF WriteEvent, Shape
  <2>2. pc' \in {"arm", "select"} /\ got' = NoData
        /\ UNCHANGED <<server, todo, observer, signals, page, gap>>
    BY <1>7 DEF WriteEvent
  <2> QED
    BY <2>1, <2>2, ReadingTypes DEF TypeOK, server, observer, signals, page
<1>7a. CASE StateEvent
  <2>1. got' \in Readings /\ pc' = "event" /\ gap' = FALSE
        /\ UNCHANGED <<server, todo, observer, wire, page, signals>>
    BY <1>7a, ReadingTypes DEF StateEvent, Make, observer
  <2> QED
    BY <2>1, ReadingTypes DEF TypeOK, server, observer, signals, page
<1>8. CASE SessionKept
  BY <1>8 DEF SessionKept, TypeOK, server, observer, page
<1>9. CASE SessionGone \/ SessionTimer
  <2>1. EndWith("auth_expired")
    BY <1>9 DEF SessionGone, SessionTimer
  <2>2. wire' \in Seq(Messages) /\ Len(wire') <= MaxWire
    BY <2>1, ReadingTypes, WriteType DEF EndWith, TypeOK
  <2> QED
    BY <2>1, <2>2, EndType DEF EndWith, TypeOK, server, page
<1>10. CASE ClientGone
  BY <1>10, EndType DEF ClientGone, TypeOK, server, page
<1> QED
  BY <1>1, <1>2, <1>3, <1>4, <1>5, <1>6, <1>7, <1>7a, <1>8, <1>9, <1>10 DEF Handle

LEMMA TypeBrowse ==
    ASSUME TypeOK, Browse \/ \E l \in Loaders : Loading(l)
    PROVE  TypeOK'
<1>1. ASSUME NEW login \in BOOLEAN, Mount(login) PROVE TypeOK'
  BY <1>1 DEF Mount, TypeOK, handler, observer, signals
<1>2. CASE Leave
  BY <1>2, UnmountType DEF Leave
<1>3. CASE Connect
  BY <1>3 DEF Connect, TypeOK, server, observer, signals
<1>4. CASE Refused
  BY <1>4 DEF Refused, TypeOK, server, handler, observer, signals
<1>5. CASE Deliver
  <2>1. Head(wire) \in Messages /\ Tail(wire) \in Seq(Messages) /\ Len(Tail(wire)) <= MaxWire
    BY <1>5, StreamAssumption DEF Deliver, TypeOK
  <2>2. Head(wire).kind = "data" => Head(wire).is \in Readings
    BY <2>1 DEF Messages
  <2> QED
    BY <1>5, <2>1, <2>2 DEF Deliver, TypeOK, server, handler, observer, signals
<1>6. CASE AuthExpired
  BY <1>6, UnmountType DEF AuthExpired
<1>7. CASE StreamEnds \/ NetworkFails
  <2>1. StreamError
    BY <1>7 DEF StreamEnds, NetworkFails
  <2>2. wire' \in Seq(Messages) /\ Len(wire') <= MaxWire
    BY <2>1, Empty, StreamAssumption DEF StreamError
  <2>3. UNCHANGED <<state, config, session, pc, todo, got, observed, queue, configSignal,
                    sessionSignal, mounted, data, loads, late, gap>>
        /\ source' \in {"connecting", "open", "closed"}
    BY <2>1 DEF StreamError, server, handler, observer, signals
  <2> QED
    BY <2>2, <2>3 DEF TypeOK
<1>8. ASSUME NEW l \in Loaders, Loading(l) PROVE TypeOK'
  <2>1. CASE Load(l)
    <3>1. loads' \in [Loaders -> [pc : {"none", "sent", "ok"}, got : Readings \cup {NoData}]]
      BY <2>1 DEF Load, TypeOK
    <3> QED  BY <2>1, <3>1 DEF Load, TypeOK, server, handler, observer, signals
  <2>2. CASE GetDashboard(l)
    BY <2>2, ReadingTypes DEF GetDashboard, TypeOK, server, handler, observer, signals
  <2>3. CASE Loaded(l)
    BY <2>3 DEF Loaded, Idle, TypeOK, server, handler, observer, signals
  <2>4. CASE Denied(l)
    BY <2>4, UnmountType DEF Denied
  <2>5. CASE LoadFails(l)
    BY <2>5 DEF LoadFails, Idle, TypeOK, server, handler, observer, signals
  <2> QED  BY <1>8, <2>1, <2>2, <2>3, <2>4, <2>5 DEF Loading
<1> QED
  BY <1>1, <1>2, <1>3, <1>4, <1>5, <1>6, <1>7, <1>8 DEF Browse

-----------------------------------------------------------------------------
(* The steps                                                               *)

LEMMA InvEnd ==
    ASSUME IInv, TypeOK', End, UNCHANGED <<source, mounted>>, source # "open" => wire' = wire
    PROVE  IInv'
BY EndType DEF IInv, Shape, Buffered, Initial, Caught, Streaming

LEMMA InvUnmount ==
    ASSUME IInv, TypeOK', Unmount
    PROVE  IInv'
BY DEF Unmount, IInv, Shape, Buffered, Initial, Caught, Streaming, server, handler,
       observer

\* A handler that goes on makes a message.
LEMMA InvMake ==
    ASSUME IInv, NEW r \in Readings, NEW label \in {"snapshot", "event"}, Make(label, r),
           pc # "none", Buffered',
           \A p \in observed : queue'[p] = <<>> => r.val[p] = state[p],
           TypeOK'
    PROVE  IInv'
<1>1. /\ pc' = label /\ got' = r
      /\ UNCHANGED <<state, todo, observed, wire, source, mounted>>
  BY DEF Make, server, page
<1>2. Shape'
  BY <1>1 DEF IInv, Shape
<1>3. Initial'
  BY <1>1 DEF Initial
<1>4. Caught'
  BY <1>1 DEF Caught, Ahead
<1> QED  BY <1>2, <1>3, <1>4 DEF IInv

\* What is written was ahead already.
LEMMA WriteAhead ==
    ASSUME IInv, WriteEvent, source = "open"
    PROVE  Ahead' = Ahead /\ wire' # <<>>
<1>1. got \in Readings /\ Ahead = got
  BY DEF WriteEvent, IInv, Shape, Ahead
<1>2. Data(got) \in Messages /\ wire' = Append(wire, Data(got)) /\ wire \in Seq(Messages)
  BY <1>1, ReadingTypes DEF IInv, TypeOK, WriteEvent, Write
<1>3. wire' # <<>> /\ Last(wire') = Data(got)
  BY <1>2, LastOfAppend
<1>4. ~Writing'
  BY DEF WriteEvent
<1> QED  BY <1>1, <1>3, <1>4 DEF Ahead

LEMMA InvWrite ==
    ASSUME IInv, WriteEvent, TypeOK'
    PROVE  IInv'
<1>1. /\ pc' \in {"arm", "select"} /\ pc # "none" /\ pc # "observe" /\ Write(Data(got))
      /\ UNCHANGED <<state, todo, observed, queue, source, mounted, late>>
  BY DEF WriteEvent, server, observer, page
<1> DEFINE m == Data(got)
<1>2. m \in Messages /\ m.kind = "data"
  BY ReadingTypes DEF IInv, Shape, WriteEvent
<1>3. ASSUME source = "open" PROVE \A i \in 1 .. Len(wire') : wire'[i].kind = "data"
  <2>1. wire' = Append(wire, m) /\ wire \in Seq(Messages)
    BY <1>1, <1>3 DEF Write, IInv, TypeOK
  <2>2. \A i \in 1 .. Len(wire) : wire[i].kind = "data"
    BY <1>1, <1>3 DEF IInv, Shape
  <2> SUFFICES ASSUME NEW i \in 1 .. Len(wire') PROVE wire'[i].kind = "data"
    OBVIOUS
  <2> HIDE DEF m
  <2>3. Len(wire') = Len(wire) + 1 /\ Len(wire) \in Nat
    BY <2>1, <1>2
  <2>4. CASE i = Len(wire) + 1
    BY <2>4, <2>1, <1>2
  <2>5. CASE i \in 1 .. Len(wire)
    BY <2>5, <2>1, <2>2, <1>2
  <2> QED  BY <2>3, <2>4, <2>5
<1>4. source # "open" => wire' = <<>>
  BY <1>1 DEF Write, IInv, Shape
<1>5. Shape'
  BY <1>1, <1>3, <1>4 DEF Shape, IInv
<1>6. Caught'
  BY <1>1, WriteAhead DEF Caught, Streaming, Overtaken, WriteEvent, IInv
<1>7. Initial' /\ Buffered'
  BY <1>1 DEF Initial, Buffered, IInv
<1> QED  BY <1>5, <1>6, <1>7 DEF IInv

LEMMA InvHandle ==
    ASSUME IInv, Handle
    PROVE  IInv'
<1>t. TypeOK'
  BY TypeHandle
<1>1. ASSUME NEW p \in Parts, Observe(p) PROVE IInv'
  <2>0. /\ pc = "observe" /\ p \in todo /\ todo' = todo \ {p}
        /\ observed' = observed \cup {p}
        /\ got'.val = [got.val EXCEPT ![p] = state[p]]
        /\ got.val \in [Parts -> Values \cup {None}] /\ state[p] \in Values
        /\ UNCHANGED <<state, pc, queue, wire, source, mounted>>
    BY <1>1 DEF Observe, IInv, TypeOK, Drafts, server, page
  <2>1. Shape'
    BY <2>0 DEF IInv, Shape
  <2>2. Buffered'
    BY <1>1 DEF Observe, IInv, Shape, Buffered, server
  <2>3. Initial'
    BY <2>0 DEF IInv, TypeOK, Initial
  <2>4. Caught'
    BY <1>1 DEF Observe, Caught, Streaming
  <2> QED  BY <1>t, <2>1, <2>2, <2>3, <2>4 DEF IInv
<1>2. ASSUME NEW p \in Parts, Take(p) PROVE IInv'
  <2> DEFINE r == [val |-> [state EXCEPT ![p] = Head(queue[p])], config |-> config]
  <2>1. /\ queue[p] \in Seq(Values) /\ queue[p] # <<>>
        /\ queue' = [queue EXCEPT ![p] = Tail(queue[p])] /\ observed' = observed /\ state' = state
    BY <1>2 DEF Take, Make, IInv, TypeOK, server
  <2>2. Head(queue[p]) \in Values
    BY <2>1
  <2>3. r \in Readings
    BY <2>2 DEF IInv, TypeOK, Readings
  <2>4. p \in observed => Last(queue[p]) = state[p]
    BY <2>1 DEF IInv, Buffered
  <2>5. Buffered'
    <3> SUFFICES ASSUME NEW q \in observed, queue'[q] # <<>> PROVE Last(queue'[q]) = state[q]
      BY <2>1 DEF Buffered
    <3>1. CASE q = p
      BY <3>1, <2>1, <2>4, LastOfTail DEF IInv, TypeOK
    <3>2. CASE q # p
      BY <3>2, <2>1 DEF IInv, Buffered, TypeOK
    <3> QED  BY <3>1, <3>2
  <2>6. \A q \in observed : queue'[q] = <<>> => r.val[q] = state[q]
    <3> SUFFICES ASSUME NEW q \in observed, queue'[q] = <<>> PROVE r.val[q] = state[q]
      OBVIOUS
    <3>1. CASE q = p
      <4>1. Head(queue[p]) = Last(queue[p])
        BY <3>1, <2>1, HeadIsLast DEF IInv, TypeOK
      <4> QED  BY <3>1, <4>1, <2>4 DEF IInv, TypeOK
    <3>2. CASE q # p
      BY <3>2 DEF IInv, TypeOK
    <3> QED  BY <3>1, <3>2
  <2>7. Make("event", r) /\ pc # "none"
    BY <1>2 DEF Take
  <2> HIDE DEF r
  <2> QED  BY <1>t, <2>3, <2>5, <2>6, <2>7, InvMake
<1>3. ASSUME NEW p \in Parts, ObserverClosed(p) PROVE IInv'
  BY <1>3, <1>t, InvEnd DEF ObserverClosed, page
<1>4. CASE Snapshot
  <2> DEFINE r == [val |-> got.val, config |-> config]
  <2>1. r \in Readings
    BY <1>4, SnapshotReading DEF IInv
  <2>2. observed' = observed /\ queue' = queue /\ state' = state
    BY <1>4 DEF Snapshot, Make, server
  <2>3. Buffered'
    BY <2>2 DEF IInv, Buffered
  <2>4. \A q \in observed : queue'[q] = <<>> => r.val[q] = state[q]
    BY <1>4, <2>2 DEF Snapshot, IInv, Initial, TypeOK
  <2>5. Make("snapshot", r) /\ pc # "none"
    BY <1>4 DEF Snapshot
  <2> HIDE DEF r
  <2> QED  BY <1>t, <2>1, <2>3, <2>4, <2>5, InvMake
<1>5. CASE Arm
  BY <1>5, <1>t
  DEF Arm, IInv, Shape, Buffered, Initial, Caught, Streaming, Overtaken, Ahead,
      server, observer, page
<1>6. CASE ConfigurationChanged
  BY <1>6, <1>t
  DEF ConfigurationChanged, IInv, Shape, Buffered, Initial, Caught, Streaming, Overtaken, Ahead,
      server, observer, page
<1>7. CASE WriteEvent
  BY <1>7, <1>t, InvWrite
<1>7a. CASE StateEvent
  <2>1. observed' = observed /\ queue' = queue /\ state' = state
    BY <1>7a DEF StateEvent, Make, server
  <2>2. Buffered'
    BY <2>1 DEF IInv, Buffered
  <2>3. Make("event", Present) /\ pc # "none"
    BY <1>7a DEF StateEvent
  <2>4. Present \in Readings /\ \A q \in observed : queue'[q] = <<>> => Present.val[q] = state[q]
    BY ReadingTypes DEF IInv, Present
  <2> QED  BY <1>t, <2>2, <2>3, <2>4, InvMake
<1>8. CASE SessionKept
  BY <1>8, <1>t
  DEF SessionKept, IInv, Shape, Buffered, Initial, Caught, Streaming, Overtaken, Ahead,
      server, observer, page
<1>9. CASE SessionGone \/ SessionTimer
  BY <1>9, <1>t, InvEnd DEF SessionGone, SessionTimer, EndWith, Write, page
<1>10. CASE ClientGone
  BY <1>10, <1>t, InvEnd DEF ClientGone, page
<1> QED
  BY <1>1, <1>2, <1>3, <1>4, <1>5, <1>6, <1>7, <1>7a, <1>8, <1>9, <1>10 DEF Handle

LEMMA InvChange ==
    ASSUME IInv, Change
    PROVE  IInv'
<1>t. TypeOK'
  BY TypeChange DEF IInv
<1>1. ASSUME NEW p \in Parts, NEW v \in Values, Publish(p, v) PROVE IInv'
  <2>1. /\ state' = [state EXCEPT ![p] = v]
        /\ UNCHANGED <<pc, todo, got, wire, source, mounted, data, late>>
        /\ IF p \in observed THEN Offer(p, v) ELSE UNCHANGED observer
    BY <1>1 DEF Publish, page
  <2>2. /\ observed' \subseteq observed
        /\ \A q \in Parts : q # p => queue'[q] = queue[q] /\ state'[q] = state[q]
        /\ p \notin observed => queue'[p] = queue[p]
        /\ p \in observed' => queue'[p] = Append(queue[p], v) /\ state'[p] = v
    BY <2>1 DEF Offer, observer, IInv, TypeOK
  <2>3. p \in observed' => queue'[p] # <<>> /\ Last(queue'[p]) = v
    <3> SUFFICES ASSUME p \in observed' PROVE queue'[p] # <<>> /\ Last(queue'[p]) = v
      OBVIOUS
    <3>1. queue[p] \in Seq(Values) /\ queue'[p] = Append(queue[p], v)
      BY <2>2 DEF IInv, TypeOK
    <3> QED  BY <3>1, LastOfAppend
  <2>4. Shape'
    BY <2>1, <2>2 DEF IInv, TypeOK, Shape
  <2>5. Buffered'
    BY <2>2, <2>3 DEF IInv, TypeOK, Buffered
  <2>6. Initial'
    BY <2>1, <2>2, <2>3 DEF IInv, TypeOK, Initial
  <2>7. Caught'
    BY <2>1, <2>2, <2>3 DEF IInv, TypeOK, Caught, Streaming, Overtaken, Ahead
  <2> QED  BY <1>t, <2>4, <2>5, <2>6, <2>7 DEF IInv
<1>2. CASE SetConfiguration \/ Revoke \/ OtherSession \/ Expire
  <2>1. UNCHANGED <<state, pc, todo, got, observed, queue, wire, source, mounted, data, late>>
    BY <1>2 DEF SetConfiguration, Revoke, OtherSession, Expire, server, handler, observer, page
  <2> QED
    BY <1>t, <2>1 DEF IInv, Shape, Buffered, Initial, Caught, Streaming, Overtaken, Ahead
<1>3. CASE Restart
  BY <1>3, <1>t, InvEnd DEF Restart, Write, page
<1> QED
  BY <1>1, <1>2, <1>3 DEF Change

LEMMA DeliverAhead ==
    ASSUME IInv, Deliver, Streaming
    PROVE  Ahead' = Ahead
<1>1. wire \in Seq(Messages) /\ wire # <<>> /\ wire' = Tail(wire) /\ UNCHANGED <<pc, got>>
  BY DEF Deliver, IInv, TypeOK, handler
<1>2. CASE Tail(wire) # <<>>
  <2>1. Last(Tail(wire)) = Last(wire)
    BY <1>2, <1>1, LastOfTail
  <2> QED  BY <1>2, <2>1, <1>1 DEF Ahead
<1>3. CASE Tail(wire) = <<>>
  <2>1. Head(wire) = Last(wire)
    BY <1>3, <1>1, HeadIsLast
  <2>2. 1 \in 1 .. Len(wire) /\ Head(wire) = wire[1]
    BY <1>1
  <2>3. Head(wire).kind = "data"
    BY <2>2 DEF IInv, Shape, Streaming
  <2> QED  BY <1>3, <2>1, <2>3, <1>1 DEF Deliver, Ahead
<1> QED  BY <1>2, <1>3

LEMMA InvBrowse ==
    ASSUME IInv, Browse \/ \E l \in Loaders : Loading(l)
    PROVE  IInv'
<1>t. TypeOK'
  BY TypeBrowse DEF IInv
<1>1. ASSUME NEW login \in BOOLEAN, Mount(login) PROVE IInv'
  BY <1>1, <1>t
  DEF Mount, IInv, Shape, Buffered, Initial, Caught, Streaming, handler, observer
<1>2. CASE Leave \/ AuthExpired
  BY <1>2, <1>t, InvUnmount DEF Leave, AuthExpired
<1>3. CASE Connect
  BY <1>3, <1>t
  DEF Connect, IInv, TypeOK, Shape, Buffered, Initial, Caught, Streaming, server, observer
<1>4. CASE Refused
  BY <1>4, <1>t
  DEF Refused, IInv, Shape, Buffered, Initial, Caught, Streaming, server, handler, observer
<1>5. CASE Deliver
  <2>1. /\ wire \in Seq(Messages) /\ wire # <<>> /\ wire' = Tail(wire) /\ source = "open"
        /\ UNCHANGED <<state, pc, todo, got, observed, queue, source, mounted>>
    BY <1>5 DEF Deliver, IInv, TypeOK, server, handler, observer
  <2>2. Shape'
    <3>1. pc # "none" => \A i \in 1 .. Len(Tail(wire)) : Tail(wire)[i].kind = "data"
      <4> SUFFICES ASSUME pc # "none", NEW i \in 1 .. Len(Tail(wire))
                   PROVE  Tail(wire)[i].kind = "data"
        OBVIOUS
      <4>1. i + 1 \in 1 .. Len(wire) /\ Tail(wire)[i] = wire[i + 1]
        BY <2>1
      <4> QED  BY <4>1, <2>1 DEF IInv, Shape
    <3> QED  BY <2>1, <3>1 DEF IInv, Shape
  <2>3. Buffered' /\ Initial'
    BY <2>1 DEF IInv, Buffered, Initial
  <2>4. Caught'
    BY <1>5, <2>1, DeliverAhead DEF IInv, Caught, Streaming, Overtaken
  <2> QED  BY <1>t, <2>2, <2>3, <2>4 DEF IInv
<1>6. CASE StreamEnds \/ NetworkFails
  <2>1. StreamError
    BY <1>6 DEF StreamEnds, NetworkFails
  <2> QED
    BY <2>1, <1>t
    DEF StreamError, IInv, Shape, Buffered, Initial, Caught, Streaming, server, handler, observer
<1>7. ASSUME NEW l \in Loaders, Loading(l) PROVE IInv'
  <2>1. CASE Load(l) \/ GetDashboard(l) \/ LoadFails(l)
    <3>1. UNCHANGED <<state, pc, todo, got, observed, queue, wire, source, mounted, data, late>>
      BY <2>1 DEF Load, GetDashboard, LoadFails, server, handler, observer
    <3> QED
      BY <1>t, <3>1 DEF IInv, Shape, Buffered, Initial, Caught, Streaming, Overtaken, Ahead
  <2>2. CASE Loaded(l)
    <3>1. /\ UNCHANGED <<state, pc, todo, got, observed, queue, wire, source, mounted>>
          /\ late' \/ data'.val = state
      <4>1. CASE loads[l].got = Present
        BY <4>1, <2>2 DEF Loaded, Present, server, handler, observer
      <4>2. CASE loads[l].got # Present
        BY <4>2, <2>2 DEF Loaded, server, handler, observer
      <4> QED  BY <4>1, <4>2
    <3> QED
      BY <1>t, <3>1 DEF IInv, Shape, Buffered, Initial, Caught, Streaming, Overtaken, Ahead
  <2>3. CASE Denied(l)
    BY <2>3, <1>t, InvUnmount DEF Denied
  <2> QED  BY <1>7, <2>1, <2>2, <2>3 DEF Loading
<1> QED
  BY <1>1, <1>2, <1>3, <1>4, <1>5, <1>6, <1>7 DEF Browse

LEMMA Invariance == Spec => []IInv
<1>1. IInv /\ [Next]_vars => IInv'
  <2> SUFFICES ASSUME IInv, [Next]_vars PROVE IInv'
    OBVIOUS
  <2>1. CASE Next
    BY <2>1, InvHandle, InvChange, InvBrowse DEF Next
  <2>2. CASE UNCHANGED vars
    BY <2>2 DEF vars, server, handler, observer, signals, page, IInv, TypeOK, Shape, Buffered,
                Initial, Caught, Streaming, Overtaken, Ahead
  <2> QED  BY <2>1, <2>2
<1> QED  BY <1>1, InvInit, PTL DEF Spec

\* The variables of the stream and of the page keep their types; buffers and
\* the connection keep their bounds.
THEOREM StreamTypes == Spec => []TypeOK
BY Invariance, PTL DEF IInv

\* For any number of parts and any capacities: an open stream misses no value
\* of a part it observes; the present value is buffered, written or shown.
THEOREM StreamMissesNothing == Spec => []NothingMissed
<1>1. IInv => NothingMissed
  BY DEF IInv, Buffered, Caught, NothingMissed
<1> QED  BY <1>1, Invariance, PTL

-----------------------------------------------------------------------------
(* The configuration                                                       *)

LEMMA HeardNext ==
    ASSUME IInv, ConfigurationHeard, Next
    PROVE  ConfigurationHeard'
<1> USE DEF ConfigurationHeard, Streaming, Overtaken
\* The handler has returned, or the browser has let go of the connection.
<1>a. ASSUME pc' = "none" \/ source' # "open" PROVE ConfigurationHeard'
  BY <1>a
\* What is made has the present configuration.
<1>b. ASSUME NEW r, NEW label \in {"snapshot", "event"}, Make(label, r), r.config = config
      PROVE  ConfigurationHeard'
  BY <1>b DEF Make, Ahead, server
<1>1. CASE Change
  <2>1. ASSUME NEW p \in Parts, NEW v \in Values, Publish(p, v) PROVE ConfigurationHeard'
    BY <2>1 DEF Publish, Ahead, signals, page
  <2>2. CASE SetConfiguration
    BY <2>2 DEF SetConfiguration, Listening, page, IInv, TypeOK
  <2>3. CASE Revoke \/ OtherSession \/ Expire
    BY <2>3 DEF Revoke, OtherSession, Expire, Ahead, server, handler, signals, page
  <2>4. CASE Restart
    BY <2>4, <1>a DEF Restart, End
  <2> QED  BY <1>1, <2>1, <2>2, <2>3, <2>4 DEF Change
<1>2. CASE Handle
  <2>1. ASSUME NEW p \in Parts, Observe(p) PROVE ConfigurationHeard'
    BY <2>1 DEF Observe
  <2>2. ASSUME NEW p \in Parts, Take(p) PROVE ConfigurationHeard'
    BY <2>2, <1>b DEF Take
  <2>3. CASE Snapshot
    <3>1. [val |-> got.val, config |-> config].config = config
      BY DEF IInv, TypeOK
    <3> QED  BY <2>3, <3>1, <1>b DEF Snapshot
  <2>4. CASE Arm \/ ConfigurationChanged \/ SessionKept
    BY <2>4 DEF Arm, ConfigurationChanged, SessionKept, Ahead, server, signals, page
  <2>5. CASE StateEvent
    BY <2>5, <1>b DEF StateEvent, Present
  <2>6. CASE WriteEvent
    BY <2>6, WriteAhead DEF WriteEvent, server, signals, page
  <2>7. CASE SessionGone \/ SessionTimer \/ ClientGone \/ \E p \in Parts : ObserverClosed(p)
    BY <2>7, <1>a DEF SessionGone, SessionTimer, ClientGone, ObserverClosed, EndWith, End
  <2> QED  BY <1>2, <2>1, <2>2, <2>3, <2>4, <2>5, <2>6, <2>7 DEF Handle
<1>3. CASE Browse
  <2>1. CASE Deliver
    BY <2>1, DeliverAhead DEF Deliver, server, handler, signals
  <2>2. CASE ~Deliver
    <3>1. pc' = "none" \/ source' # "open" \/ pc' = "observe"
      BY <1>3, <2>2 DEF Browse, Mount, Leave, Connect, Refused, AuthExpired, StreamEnds,
                        NetworkFails, StreamError, Unmount
    <3> QED  BY <3>1
  <2> QED  BY <2>1, <2>2
<1>4. ASSUME NEW l \in Loaders, Loading(l) PROVE ConfigurationHeard'
  <2>1. CASE Load(l) \/ GetDashboard(l) \/ LoadFails(l)
    BY <2>1 DEF Load, GetDashboard, LoadFails, Ahead, server, handler, signals
  <2>2. CASE Loaded(l) /\ loads[l].got = Present
    BY <2>2 DEF Loaded, Present, Ahead, server, handler, signals
  <2>3. CASE Loaded(l) /\ loads[l].got # Present
    BY <2>3 DEF Loaded, Ahead, server, handler, signals
  <2>4. CASE Denied(l)
    BY <2>4, <1>a DEF Denied, Unmount
  <2> QED  BY <1>4, <2>1, <2>2, <2>3, <2>4 DEF Loading
<1> QED  BY <1>1, <1>2, <1>3, <1>4 DEF Next

\* A change of the configuration that comes while the handler listens is
\* signalled or in its last message, also while it tells an earlier one: the
\* channel is renewed before the configuration is read.  A change between the
\* snapshot and the first look at the channel is the one exception.
THEOREM StreamHearsConfiguration == Spec => []ConfigurationHeard
<1>1. Init => ConfigurationHeard
  BY DEF Init, ConfigurationHeard, Streaming
<1>2. IInv /\ ConfigurationHeard /\ [Next]_vars => ConfigurationHeard'
  <2> SUFFICES ASSUME IInv, ConfigurationHeard, [Next]_vars PROVE ConfigurationHeard'
    OBVIOUS
  <2>1. CASE UNCHANGED vars
    BY <2>1 DEF vars, server, handler, signals, page, ConfigurationHeard, Streaming, Overtaken, Ahead
  <2> QED  BY <2>1, HeardNext
<1> QED  BY <1>1, <1>2, Invariance, PTL DEF Spec
=============================================================================
