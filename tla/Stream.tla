-------------------------------- MODULE Stream --------------------------------
(***************************************************************************)
(* The live dashboard: the observers of the manager and of the adapters'   *)
(* status (internal/jobs/manager.go, internal/hub/client.go), the event    *)
(* stream that merges them (internal/web/sse.go) and the dashboard page    *)
(* that shows the result (frontend/src/App.tsx).                           *)
(*                                                                         *)
(* A part of the state (the jobs, the status of an adapter) has one value  *)
(* at a time.  An observer gets every new value through a bounded buffer.  *)
(* A message of the stream is made from one buffered value and from what   *)
(* the other parts are at that moment, so the values of one part may come  *)
(* out of order; the page keeps the last message, or the last answer to    *)
(* GET /dashboard, whichever came later.                                   *)
(*                                                                         *)
(* One page and one handler at a time are modelled: handlers share nothing *)
(* but the sessions, and the browser does not see the end of an old one.   *)
(***************************************************************************)
EXTENDS Naturals, Sequences

CONSTANTS
    Parts,      \* parts of the state that can be observed
    Values,     \* values a part can have
    MaxRevision,\* bound: changes of the configuration
    None,       \* nothing loaded yet
    Buffer,     \* capacity of an observer's channel (32 and 8 in the code)
    MaxWire,    \* messages the connection holds before a write blocks
    Loaders     \* calls of load that may be in flight at once

ASSUME StreamAssumption ==
    /\ Buffer \in Nat \ {0} /\ MaxWire \in Nat \ {0}
    /\ None \notin Values \cup Nat /\ MaxRevision \in Nat

VARIABLES
    state,         \* the present value of each part
    config,        \* s.configSnapshot: its revision
    session,       \* the page's session: "live" or "gone", revoked or expired
    pc,            \* events: where the handler is
    todo,          \* events: parts still to be observed
    got,           \* events: the reading that is being made or written
    observed,      \* parts whose observer is registered for the handler
    queue,         \* the observers' channels
    configSignal,  \* the channel configurationChanges is closed
    sessionSignal, \* the channel sessionChanges is closed
    wire,          \* messages on their way to the browser
    mounted,       \* the dashboard is on the page
    source,        \* the EventSource: "connecting", "open" or "closed"
    data,          \* data
    loads,         \* calls of load, some at the end of a runAction
    late,          \* history: data is an answer that was old when it arrived
    gap            \* history: the configuration changed after the snapshot was made
                   \* and before the handler listened, and no event was made since

server   == <<state, config, session>>
observer == <<observed, queue>>
signals  == <<configSignal, sessionSignal>>
handler  == <<pc, todo, got, observer, signals>>
page     == <<mounted, source, data, loads, late>>
vars     == <<server, handler, wire, page, gap>>

Valid == session = "live"

\* What GET /dashboard, a snapshot or a state event tell: statePayload
Readings == [val : [Parts -> Values], config : Nat]
Present  == [val |-> state, config |-> config]
NoData   == [val |-> [p \in Parts |-> None], config |-> None]
Idle     == [pc |-> "none", got |-> NoData]

Messages == [kind : {"data"}, is : Readings] \cup [kind : {"auth_expired", "shutdown"}]
Data(r)  == [kind |-> "data", is |-> r]

Init ==
    /\ state \in [Parts -> Values] /\ config = 0 /\ session = "live"
    /\ pc = "none" /\ todo = {} /\ got = NoData
    /\ observed = {} /\ queue = [p \in Parts |-> <<>>]
    /\ configSignal = FALSE /\ sessionSignal = FALSE
    /\ wire = <<>>
    /\ mounted = FALSE /\ source = "closed"
    /\ data = NoData /\ loads = [l \in Loaders |-> Idle]
    /\ late = FALSE /\ gap = FALSE

-----------------------------------------------------------------------------
(* The state changes                                                       *)

\* Fault: a full observer misses the value and stays
SkipFull(p, v) ==
    IF Len(queue[p]) < Buffer
      THEN queue' = [queue EXCEPT ![p] = Append(@, v)] /\ UNCHANGED observed
      ELSE UNCHANGED observer

\* publishLocked, StatusStore.Set: an observer that is full is dropped and its
\* channel closed; what is buffered can still be read.
Offer(p, v) ==
    IF Len(queue[p]) < Buffer
      THEN queue' = [queue EXCEPT ![p] = Append(@, v)] /\ UNCHANGED observed
      ELSE observed' = observed \ {p} /\ UNCHANGED queue

\* broadcastStateLocked, StatusStore.Set
Publish(p, v) ==
    /\ state' = [state EXCEPT ![p] = v]
    /\ IF p \in observed THEN Offer(p, v) ELSE UNCHANGED observer
    /\ UNCHANGED <<config, session, pc, todo, got, signals, wire, page, gap>>

\* The handler has its channels: it is past line 43.
Listening == pc \in {"select", "state", "event"}

\* setConfiguration: closes the channel of those that listen
SetConfiguration ==
    /\ config < MaxRevision
    /\ config' = config + 1
    /\ configSignal' = (configSignal \/ Listening)
    /\ gap' = (gap \/ pc \in {"snapshot", "arm"})
    /\ UNCHANGED <<state, session, pc, todo, got, observer, sessionSignal, wire, page>>

\* revokeSessions, or a login or logout of the same browser
Revoke ==
    /\ Valid
    /\ session' = "gone"
    /\ sessionSignal' = (sessionSignal \/ Listening)
    /\ UNCHANGED <<state, config, pc, todo, got, observer, configSignal, wire, page, gap>>

\* A login or logout elsewhere
OtherSession ==
    /\ Listening
    /\ sessionSignal' = TRUE
    /\ UNCHANGED <<server, pc, todo, got, observer, configSignal, wire, page, gap>>

\* The session's time is over.  Nobody is told.
Expire ==
    /\ Valid
    /\ session' = "gone"
    /\ UNCHANGED <<state, config, handler, wire, page, gap>>

-----------------------------------------------------------------------------
(* The handler of GET /events                                              *)

\* It returns: the deferred Closes remove its observers.
End ==
    /\ pc' = "none" /\ todo' = {} /\ got' = NoData
    /\ observed' = {} /\ queue' = [p \in Parts |-> <<>>]
    /\ configSignal' = FALSE /\ sessionSignal' = FALSE
    /\ gap' = FALSE

\* writeSSE; what is written to a connection that is gone is lost.
Room     == Len(wire) < MaxWire
Write(m) == wire' = IF source = "open" THEN Append(wire, m) ELSE wire

\* Observe: the value and the subscription, under one lock
Observe(p) ==
    /\ pc = "observe" /\ p \in todo
    /\ todo' = todo \ {p} /\ observed' = observed \cup {p}
    /\ got' = [val |-> [got.val EXCEPT ![p] = state[p]], config |-> None]
    /\ UNCHANGED <<server, pc, queue, signals, wire, page, gap>>

\* A payload is made; writing it may block, so that is a step of its own.
Make(label, reading) ==
    /\ pc' = label /\ got' = reading /\ gap' = FALSE
    /\ UNCHANGED <<server, todo, observed, wire, page>>

\* dashboardPayload, with the values the observers began with
Snapshot ==
    /\ pc = "observe" /\ todo = {}
    /\ Make("snapshot", [val |-> got.val, config |-> config])
    /\ UNCHANGED <<queue, signals>>

Writing == pc \in {"snapshot", "event"}

\* Fault: the handler renews its channel after the event, not before
RenewedLast ==
    /\ Writing /\ Room
    /\ Write(Data(got)) /\ got' = NoData
    /\ pc' = (IF pc = "snapshot" THEN "arm" ELSE "select")
    /\ configSignal' = FALSE
    /\ UNCHANGED <<server, todo, observer, sessionSignal, page, gap>>

WriteEvent ==
    /\ Writing /\ Room
    /\ Write(Data(got)) /\ got' = NoData
    /\ pc' = IF pc = "snapshot" THEN "arm" ELSE "select"
    /\ UNCHANGED <<server, todo, observer, signals, page, gap>>

\* The channels for changes of the configuration and of the sessions are read.
Arm ==
    /\ pc = "arm"
    /\ pc' = "select"
    /\ UNCHANGED <<server, todo, got, observer, signals, wire, page, gap>>

\* A value is received; a state event has it, and the other parts as they are
\* now.
Take(p) ==
    /\ pc = "select" /\ queue[p] # <<>>
    /\ Make("event", [val |-> [state EXCEPT ![p] = Head(queue[p])], config |-> config])
    /\ queue' = [queue EXCEPT ![p] = Tail(@)]
    /\ UNCHANGED signals

\* The observer was dropped and its channel is empty: the handler returns.
ObserverClosed(p) ==
    /\ pc = "select" /\ p \notin observed /\ queue[p] = <<>>
    /\ End
    /\ UNCHANGED <<server, wire, page>>

\* The configuration changed: the channel is renewed first, and then read what
\* the state is.
ConfigurationChanged ==
    /\ pc = "select" /\ configSignal
    /\ configSignal' = FALSE /\ pc' = "state"
    /\ UNCHANGED <<server, todo, got, observer, sessionSignal, wire, page, gap>>
StateEvent ==
    /\ pc = "state"
    /\ Make("event", Present)
    /\ UNCHANGED <<queue, signals>>

\* The sessions changed.
SessionKept ==
    /\ pc = "select" /\ sessionSignal /\ Valid
    /\ sessionSignal' = FALSE
    /\ UNCHANGED <<server, pc, todo, got, observer, configSignal, wire, page, gap>>

\* A last message; it is lost when the connection takes no more.
EndWith(kind) ==
    /\ End
    /\ IF Room THEN Write([kind |-> kind]) ELSE UNCHANGED wire
    /\ UNCHANGED <<server, page>>
SessionGone   == pc = "select" /\ sessionSignal /\ ~Valid /\ EndWith("auth_expired")
\* Fault: the handler has no timer
NoTimer       == FALSE /\ UNCHANGED vars
\* The timer was set to the session's time, which passes also for a session that
\* was revoked before.
SessionTimer  == pc = "select" /\ ~Valid /\ EndWith("auth_expired")

\* The request's context is done, or a write fails or takes too long.
ClientGone ==
    /\ pc # "none" /\ (source # "open" \/ ~Room)
    /\ End
    /\ UNCHANGED <<server, wire, page>>

-----------------------------------------------------------------------------
(* The program stops and starts again.  Sessions and jobs are in memory.   *)

Restart ==
    /\ session' = "gone"
    /\ state' \in [Parts -> Values]
    /\ End
    /\ IF pc = "select" /\ Room THEN Write([kind |-> "shutdown"]) ELSE UNCHANGED wire
    /\ UNCHANGED <<config, page>>

-----------------------------------------------------------------------------
(* The page                                                                *)

\* The dashboard is shown after a login or instead of the configuration page;
\* its effects load the state and open the stream.
Mount(login) ==
    /\ ~mounted /\ pc = "none"
    /\ mounted' = TRUE /\ source' = "connecting"
    /\ \E l \in Loaders : loads' = [loads EXCEPT ![l].pc = "sent"]
    /\ session' = IF login THEN "live" ELSE session
    /\ UNCHANGED <<state, config, handler, wire, data, late, gap>>

\* The page is left; the effect's cleanup closes the source.
Unmount ==
    /\ mounted' = FALSE /\ source' = "closed"
    /\ data' = NoData /\ late' = FALSE
    /\ loads' = [l \in Loaders |-> Idle]
    /\ wire' = <<>>
    /\ UNCHANGED <<server, handler, gap>>
Leave == mounted /\ Unmount

\* The browser asks for the stream, at first and after each failure.
Connect ==
    /\ source = "connecting" /\ pc = "none" /\ Valid
    /\ source' = "open"
    /\ pc' = "observe" /\ todo' = Parts
    /\ UNCHANGED <<server, got, observer, signals, wire, mounted, data, loads, late, gap>>

\* An answer that is not a stream ends the source for good; onerror.
Refused ==
    /\ source = "connecting" /\ ~Valid
    /\ source' = "closed"
    /\ UNCHANGED <<server, handler, wire, mounted, data, loads, late, gap>>

\* The listeners for snapshot and state, which set all fields of data.  There
\* is none for a shutdown.
Deliver ==
    /\ source = "open" /\ wire # <<>> /\ Head(wire).kind # "auth_expired"
    /\ IF Head(wire).kind = "data"
         THEN data' = Head(wire).is /\ late' = FALSE
         ELSE UNCHANGED <<data, late>>
    /\ wire' = Tail(wire)
    /\ UNCHANGED <<server, handler, mounted, source, loads, gap>>

\* The listener for auth_expired is onLogout.  The page is left when its logout
\* is answered; here, and in Denied, that is at once.
AuthExpired ==
    /\ source = "open" /\ wire # <<>> /\ Head(wire).kind = "auth_expired"
    /\ Unmount

\* Fault: the page closes the source on an error
CloseOnError ==
    /\ source = "open" /\ wire' = <<>>
    /\ source' = "closed"
    /\ UNCHANGED <<server, handler, mounted, data, loads, late, gap>>

\* onerror: the stream has ended, or the connection fails and what was on its
\* way is lost.  The browser tries again.
StreamError ==
    /\ source = "open" /\ wire' = <<>>
    /\ source' = "connecting"
    /\ UNCHANGED <<server, handler, mounted, data, loads, late, gap>>
StreamEnds   == pc = "none" /\ wire = <<>> /\ StreamError
NetworkFails == StreamError

\* The refresh button; and runAction, which loads when its action is done.
\* What the action does to the state is Publish.
Load(l) ==
    /\ mounted /\ loads[l].pc = "none"
    /\ loads' = [loads EXCEPT ![l].pc = "sent"]
    /\ UNCHANGED <<server, handler, wire, mounted, source, data, late, gap>>

\* GET /dashboard
GetDashboard(l) ==
    /\ loads[l].pc = "sent" /\ Valid
    /\ loads' = [loads EXCEPT ![l] = [pc |-> "ok", got |-> Present]]
    /\ UNCHANGED <<server, handler, wire, mounted, source, data, late, gap>>

\* load: setData
Loaded(l) ==
    /\ loads[l].pc = "ok"
    /\ data' = loads[l].got /\ late' = (loads[l].got # Present)
    /\ loads' = [loads EXCEPT ![l] = Idle]
    /\ UNCHANGED <<server, handler, wire, mounted, source, gap>>

\* load: not logged in any more
Denied(l) == loads[l].pc = "sent" /\ ~Valid /\ Unmount

\* load and runAction: any other failure is a notice.
LoadFails(l) ==
    /\ loads[l].pc # "none"
    /\ loads' = [loads EXCEPT ![l] = Idle]
    /\ UNCHANGED <<server, handler, wire, mounted, source, data, late, gap>>

-----------------------------------------------------------------------------
Change == \/ \E p \in Parts, v \in Values : Publish(p, v)
          \/ SetConfiguration
          \/ Revoke \/ OtherSession \/ Expire \/ Restart
Handle == \/ \E p \in Parts : Observe(p) \/ Take(p) \/ ObserverClosed(p)
          \/ Snapshot \/ WriteEvent \/ Arm \/ ConfigurationChanged \/ StateEvent
          \/ SessionKept \/ SessionGone \/ SessionTimer \/ ClientGone
Browse == \/ \E login \in BOOLEAN : Mount(login)
          \/ Leave \/ Connect \/ Refused \/ Deliver \/ AuthExpired \/ StreamEnds \/ NetworkFails
Loading(l) == Load(l) \/ GetDashboard(l) \/ Loaded(l) \/ Denied(l) \/ LoadFails(l)

Next == Change \/ Handle \/ Browse \/ \E l \in Loaders : Loading(l)

Spec == Init /\ [][Next]_vars

\* Where the handler does not wait, and where the browser has something to do
Proceed == (\E p \in Parts : Observe(p)) \/ Snapshot \/ WriteEvent \/ Arm \/ StateEvent
Follow  == Connect \/ Deliver \/ StreamEnds

\* The handler runs and its select starves none of its cases; the timer of a
\* session that is gone fires (a live one may last as long as one looks at it);
\* the browser delivers, notices the end of a stream and connects again.
Fairness ==
    /\ WF_vars(Proceed) /\ WF_vars(ClientGone)
    /\ \A p \in Parts : SF_vars(Take(p) \/ ObserverClosed(p))
    /\ SF_vars(SessionGone \/ SessionTimer)
    /\ WF_vars(Follow)

FairSpec == Spec /\ Fairness

-----------------------------------------------------------------------------
(* Properties                                                              *)

\* Readings that may still lack parts
Drafts == [val : [Parts -> Values \cup {None}], config : Nat \cup {None}]

\* Types of the server, of the stream and of the page.  No buffer grows past its
\* limit, and the page shows readings only.
TypeOK ==
    /\ state \in [Parts -> Values] /\ config \in Nat
    /\ session \in {"live", "gone"}
    /\ pc \in {"none", "observe", "snapshot", "arm", "select", "state", "event"}
    /\ todo \subseteq Parts
    /\ got \in Drafts
    /\ observed \subseteq Parts /\ queue \in [Parts -> Seq(Values)]
    /\ \A p \in Parts : Len(queue[p]) <= Buffer
    /\ configSignal \in BOOLEAN /\ sessionSignal \in BOOLEAN
    /\ wire \in Seq(Messages) /\ Len(wire) <= MaxWire
    /\ mounted \in BOOLEAN /\ source \in {"connecting", "open", "closed"}
    /\ data \in Readings \cup {NoData}
    /\ loads \in [Loaders -> [pc : {"none", "sent", "ok"}, got : Readings \cup {NoData}]]
    /\ late \in BOOLEAN /\ gap \in BOOLEAN

Last(s) == s[Len(s)]

\* What the page will show when the stream has delivered what it has made
Ahead == IF Writing THEN got ELSE IF wire # <<>> THEN Last(wire).is ELSE data

\* The stream is open and its snapshot is made.
Streaming == source = "open" /\ pc \notin {"none", "observe"}

\* An answer to GET /dashboard that was old when it came is what is shown.
Overtaken == late /\ wire = <<>> /\ ~Writing

\* No value is missed: while a part is observed, its present value is the last
\* one in its buffer, or else in the last message made; and when all is
\* delivered it is the one shown, if no late answer to GET /dashboard replaced it.
NothingMissed ==
    Streaming => \A p \in observed :
        IF queue[p] # <<>> THEN Last(queue[p]) = state[p]
        ELSE ~Overtaken => Ahead.val[p] = state[p]

\* The configuration has no buffer but a signal.  A change is signalled or in the
\* last message made, also when it comes while an earlier one is being told.
\* The one exception, which the code has, is a change between the snapshot and
\* the handler's first look at the channel: it is told with the next event only.
ConfigurationHeard ==
    Streaming /\ ~configSignal /\ pc # "state" /\ ~Overtaken
        => Ahead.config = config \/ gap

\* A stream does not outlive its session: whether it was revoked or expired,
\* and also if the change was missed, the handler returns.
DeadStreamEnds == []<>(Valid \/ pc = "none")

\* When a part stops changing and connections stop failing, the dashboard comes
\* to show it, through streams that ended because a buffer was full, as long as
\* the page stays, logged in, and no late answer replaces what the stream told.
DashboardConverges ==
    <>[][~NetworkFails \/ StreamEnds]_vars =>
        \A p \in Parts, v \in Values :
            <>[](state[p] = v /\ mounted /\ Valid) => <>[](late \/ data.val[p] = v)
=============================================================================
