------------------------------ MODULE Messages ------------------------------
(***************************************************************************)
(* The chat adapters and their hot reload: the OpenILink and Telegram      *)
(* clients (internal/hub, internal/telegram), the message runtime that     *)
(* replaces them when the configuration changes (cmd/codex-queue-bot/      *)
(* messages.go) and the proxies through which everybody sends              *)
(* (internal/messaging).                                                   *)
(*                                                                         *)
(* A client is created by one reload, so an adapter and a generation name  *)
(* it.  Three goroutines work on it: Run (listens), forwardStatus (copies  *)
(* its status to the one the console shows) and whoever sends.  An action  *)
(* is one critical section (of a status store, a proxy, r.mu or runMu) or  *)
(* the end of one network request.  Message contents are left out; what    *)
(* clients receive is in SeenEvents and TelegramPoll.                      *)
(***************************************************************************)
EXTENDS Naturals, Sequences

CONSTANTS
    Adapters,       \* "openilink", "telegram" or both
    MaxGeneration,  \* bound: no reload once this many have been made
    StatusBuffer,   \* capacity of a forwarder's channel (16)
    Senders,        \* goroutines that send: handlers and notifications
    Rejectable,     \* generations whose token may become invalid (an input)
    MayShutDown     \* whether the signal to end may come (an input)

ASSUME MessagesAssumption ==
    /\ Adapters \subseteq {"openilink", "telegram"}
    /\ MaxGeneration \in Nat
    /\ StatusBuffer \in Nat \ {0}
    /\ MayShutDown \in BOOLEAN

VARIABLES
    generation, \* r.generation
    current,    \* r.openClient, r.telegramClient: a generation, 0 for nil
    proxy,      \* the client behind each adapter's proxy, 0 for nil
    default,    \* the adapter behind the default proxy, "none" for nil
    shown,      \* r.openStatus, r.telegramStatus
    reload,     \* the Reload or Close in progress (it holds reloadMu)
    run,        \* where Run of each client is
    status,     \* the client's own status store
    done,       \* clients whose context was cancelled by a reload
    stopped,    \* clients whose Run was cancelled through runCancel
    canStop,    \* clients with runCancel # nil
    fwd,        \* forwardStatus of each client and its subscription
    send,       \* calls of Send in progress
    revoked,    \* clients whose requests the server may answer with 401 or 403
    rootDone    \* the process is shutting down

runtimeVars == <<generation, current, proxy, default, reload>>
clientVars  == <<run, done, stopped, canStop>>
vars == <<runtimeVars, shown, clientVars, status, fwd, send, revoked, rootDone>>

Statuses == {"disabled", "connecting", "connected", "reconnecting", "unauthorized"}
Clients  == Adapters \X (1..MaxGeneration)

\* A reload treats OpenILink before Telegram.
First(todo) == IF "openilink" \in todo THEN "openilink" ELSE "telegram"

NoReload == [pc |-> "idle", todo |-> {}, enabled |-> {}, old |-> {}, closing |-> FALSE]
NoSend   == [pc |-> "idle", adapter |-> "none", client |-> 0]
NoForwarder  == [pc |-> "none", held |-> "none", queue |-> <<>>, open |-> FALSE]
Forwarded    == [pc |-> "ended", held |-> "none", queue |-> <<>>, open |-> FALSE]

\* The context of forwardStatus, and the one of Run, which is its child
ContextDone(c) == rootDone \/ c \in done
RunDone(c)     == ContextDone(c) \/ c \in stopped

Init ==
    /\ generation = 0
    /\ current = [a \in Adapters |-> 0]
    /\ proxy = [a \in Adapters |-> 0]
    /\ default = "none"
    /\ shown = [a \in Adapters |-> "disabled"]
    /\ reload = NoReload
    /\ run = [c \in Clients |-> "none"]
    /\ status = [c \in Clients |-> "connecting"]
    /\ done = {} /\ stopped = {} /\ canStop = {}
    /\ fwd = [c \in Clients |-> NoForwarder]
    /\ send = [s \in Senders |-> NoSend]
    /\ revoked = {}
    /\ rootDone = FALSE

-----------------------------------------------------------------------------
(* StatusStore                                                             *)

\* Fault: a full observer just misses the update
OfferOrSkip(f, state) ==
    IF f.open /\ Len(f.queue) < StatusBuffer
      THEN [f EXCEPT !.queue = Append(@, state)] ELSE f

\* Set offers the new status to an observer and drops it if its buffer is full
Offer(f, state) ==
    IF ~f.open THEN f
    ELSE IF Len(f.queue) < StatusBuffer
      THEN [f EXCEPT !.queue = Append(@, state)]
      ELSE [f EXCEPT !.open = FALSE]

Set(c, state) ==
    /\ status' = [status EXCEPT ![c] = state]
    /\ fwd' = [fwd EXCEPT ![c] = Offer(@, state)]

-----------------------------------------------------------------------------
(* Reload and Close                                                        *)

\* The next phase, with the adapters it has to go through
Phase(label, todo) ==
    reload' = [reload EXCEPT !.pc = label, !.todo = todo]

\* Create the clients of the given adapters, or return if there are none
CreateClients(todo) == IF todo = {} THEN reload' = NoReload ELSE Phase("create", todo)

\* Both begin under r.mu: the generation moves on, the clients are forgotten.
Begin(enabled, closing) ==
    /\ reload.pc = "idle"
    /\ generation < MaxGeneration
    /\ generation' = generation + 1
    /\ current' = [a \in Adapters |-> 0]
    /\ reload' = [pc      |-> IF closing THEN "cancel" ELSE "clear",
                  todo    |-> Adapters, enabled |-> enabled,
                  old     |-> {<<a, current[a]>> : a \in {b \in Adapters : current[b] # 0}},
                  closing |-> closing]
    /\ UNCHANGED <<proxy, default, shown, clientVars, status, fwd, send, revoked, rootDone>>

Reload(enabled) == Begin(enabled, FALSE)
Close == rootDone /\ Begin({}, TRUE)

\* openProxy.Set(nil), telegramProxy.Set(nil)
ClearProxy ==
    LET a == First(reload.todo) IN
    /\ reload.pc = "clear"
    /\ proxy' = [proxy EXCEPT ![a] = 0]
    /\ Phase(IF reload.todo = {a} THEN "default" ELSE "clear", reload.todo \ {a})
    /\ UNCHANGED <<generation, current, default, shown, clientVars, status, fwd,
                   send, revoked, rootDone>>

\* defaultProxy.Set(nil)
ClearDefault ==
    /\ reload.pc = "default"
    /\ default' = "none"
    /\ Phase(IF reload.closing THEN "disable" ELSE "cancel", Adapters)
    /\ UNCHANGED <<generation, current, proxy, shown, clientVars, status, fwd,
                   send, revoked, rootDone>>

\* Fault: the old client is closed, but its context is not cancelled
CloseOnly ==
    LET a == First(reload.todo)
        old == {c \in reload.old : c[1] = a}
    IN
    /\ reload.pc = "cancel"
    /\ stopped' = stopped \cup (old \cap canStop)
    /\ IF reload.todo # {a} THEN Phase("cancel", reload.todo \ {a})
       ELSE Phase(IF reload.closing THEN "clear" ELSE "disable", Adapters)
    /\ UNCHANGED <<generation, current, proxy, default, shown, run, done, canStop,
                   status, fwd, send, revoked, rootDone>>

\* Cancel the context of the old client and Close it
CancelOld ==
    LET a == First(reload.todo)
        old == {c \in reload.old : c[1] = a}
    IN
    /\ reload.pc = "cancel"
    /\ done' = done \cup old
    /\ stopped' = stopped \cup (old \cap canStop)
    /\ IF reload.todo # {a} THEN Phase("cancel", reload.todo \ {a})
       ELSE Phase(IF reload.closing THEN "clear" ELSE "disable", Adapters)
    /\ UNCHANGED <<generation, current, proxy, default, shown, run, canStop,
                   status, fwd, send, revoked, rootDone>>

ShowDisabled ==
    LET a == First(reload.todo) IN
    /\ reload.pc = "disable"
    /\ shown' = [shown EXCEPT ![a] = "disabled"]
    /\ IF reload.todo # {a} THEN Phase("disable", reload.todo \ {a})
                            ELSE CreateClients(reload.enabled)
    /\ UNCHANGED <<generation, current, proxy, default, clientVars, status, fwd,
                   send, revoked, rootDone>>

\* A new client is put behind its proxy ...
SetProxy ==
    LET a == First(reload.todo) IN
    /\ reload.pc = "create"
    /\ proxy' = [proxy EXCEPT ![a] = generation]
    /\ Phase("choose", reload.todo)
    /\ UNCHANGED <<generation, current, default, shown, clientVars, status, fwd,
                   send, revoked, rootDone>>

\* ... and the proxy behind the default one, OpenILink taking precedence ...
SetDefault ==
    LET a == First(reload.todo) IN
    /\ reload.pc = "choose"
    /\ default' = IF a = "openilink" \/ default = "none" THEN a ELSE default
    /\ Phase("announce", reload.todo)
    /\ UNCHANGED <<generation, current, proxy, shown, clientVars, status, fwd,
                   send, revoked, rootDone>>

\* ... shown as connecting ...
ShowConnecting ==
    LET a == First(reload.todo) IN
    /\ reload.pc = "announce"
    /\ shown' = [shown EXCEPT ![a] = "connecting"]
    /\ Phase("install", reload.todo)
    /\ UNCHANGED <<generation, current, proxy, default, clientVars, status, fwd,
                   send, revoked, rootDone>>

\* ... and made the current one; its two goroutines start.
InstallClient ==
    LET a == First(reload.todo)
        c == <<a, generation>>
    IN
    /\ reload.pc = "install"
    /\ current' = [current EXCEPT ![a] = generation]
    /\ run' = [run EXCEPT ![c] = "new"]
    /\ fwd' = [fwd EXCEPT ![c].pc = "new"]
    /\ CreateClients(reload.todo \ {a})
    /\ UNCHANGED <<generation, proxy, default, shown, done, stopped, canStop,
                   status, send, revoked, rootDone>>

ReloadStep ==
    \/ ClearProxy \/ ClearDefault \/ CancelOld \/ ShowDisabled
    \/ SetProxy \/ SetDefault \/ ShowConnecting \/ InstallClient

-----------------------------------------------------------------------------
(* forwardStatus                                                           *)

ForwardFrame == UNCHANGED <<runtimeVars, clientVars, status, send, revoked, rootDone>>

Subscribe(c) ==
    /\ fwd[c].pc = "new"
    /\ fwd' = [fwd EXCEPT ![c] =
           [pc |-> "held", held |-> status[c], queue |-> <<>>, open |-> TRUE]]
    /\ UNCHANGED shown /\ ForwardFrame

\* Fault: a forwarder does not ask whether its client was replaced
AlwaysCurrent(c) == TRUE

\* Is c the client that the runtime has now?  The generation is redundant.
IsCurrent(c) == c[2] = generation /\ current[c[1]] = c[2]

\* setStatusIfCurrent, under r.mu; the subscription is closed on the way out
SetStatusIfCurrent(c) ==
    /\ fwd[c].pc = "held"
    /\ shown' = IF IsCurrent(c) THEN [shown EXCEPT ![c[1]] = fwd[c].held] ELSE shown
    /\ fwd' = [fwd EXCEPT ![c] =
           IF IsCurrent(c) THEN [@ EXCEPT !.pc = "loop", !.held = "none"] ELSE Forwarded]
    /\ ForwardFrame

\* The select receives an update ...
ReceiveStatus(c) ==
    /\ fwd[c].pc = "loop" /\ fwd[c].queue # <<>>
    /\ fwd' = [fwd EXCEPT ![c].pc = "held", ![c].held = Head(fwd[c].queue),
                          ![c].queue = Tail(@)]
    /\ UNCHANGED shown /\ ForwardFrame

\* ... or finds the channel closed, or the context done
ForwardEnds(c) ==
    /\ fwd[c].pc = "loop"
    /\ ContextDone(c) \/ (~fwd[c].open /\ fwd[c].queue = <<>>)
    /\ fwd' = [fwd EXCEPT ![c] = Forwarded]
    /\ UNCHANGED shown /\ ForwardFrame

Forward(c) == Subscribe(c) \/ SetStatusIfCurrent(c) \/ ReceiveStatus(c)

-----------------------------------------------------------------------------
(* Run                                                                     *)

RunFrame == UNCHANGED <<runtimeVars, shown, done, stopped, send, revoked, rootDone>>
RunGoto(c, label) == run' = [run EXCEPT ![c] = label]

RunMoves(c, from, to) ==
    /\ run[c] = from
    /\ RunGoto(c, to)
    /\ UNCHANGED <<canStop, status, fwd>> /\ RunFrame

RunSets(c, from, state, to) ==
    /\ run[c] = from
    /\ Set(c, state)
    /\ RunGoto(c, to)
    /\ UNCHANGED canStop /\ RunFrame

\* runCancel is set, in a section of its own
RunBegins(c) ==
    /\ run[c] = "new"
    /\ canStop' = canStop \cup {c}
    /\ RunGoto(c, "starting")
    /\ UNCHANGED <<status, fwd>> /\ RunFrame

\* The deferred function; the context is cancelled as well
RunReturns(c) ==
    /\ run[c] = "exit"
    /\ canStop' = canStop \ {c}
    /\ RunGoto(c, "ended")
    /\ UNCHANGED <<status, fwd>> /\ RunFrame

\* DialContext or getUpdates ends: it was answered before it was cancelled,
\* its token was rejected, or it failed, as a cancelled request does.
RequestEnds(c) ==
    \/ RunMoves(c, "request", "answered")
    \/ c \in revoked /\ RunMoves(c, "request", "rejected")
    \/ RunMoves(c, "request", "failed")

\* internal/hub: connect, then readLoop until the connection is lost
OpenILinkRun(c) ==
    \/ RunSets(c, "rejected", "unauthorized", "exit")
    \/ RunMoves(c, "failed", "dropped")
    \/ RunSets(c, "answered", "connected", "reading")
    \/ RunDone(c) /\ RunMoves(c, "reading", "lost")
    \/ RunMoves(c, "lost", IF status[c] = "unauthorized" THEN "exit" ELSE "lostCheck")
    \/ RunMoves(c, "lostCheck", IF RunDone(c) THEN "exit" ELSE "dropped")

ConnectionLost(c) == c[1] = "openilink" /\ RunMoves(c, "reading", "lost")

\* internal/telegram: poll, handle the updates, poll again
TelegramRun(c) ==
    \/ RunMoves(c, "rejected", IF RunDone(c) THEN "exit" ELSE "refused")
    \/ RunSets(c, "refused", "unauthorized", "exit")
    \/ RunMoves(c, "failed", IF RunDone(c) THEN "exit" ELSE "dropped")
    \/ RunMoves(c, "answered", IF status[c] = "connected" THEN "check" ELSE "polled")
    \/ RunSets(c, "polled", "connected", "check")

RunStep(c) ==
    \/ RunBegins(c)
    \/ RunSets(c, "starting", "connecting", "check")
    \/ RunMoves(c, "check", IF RunDone(c) THEN "exit" ELSE "request")
    \/ RequestEnds(c)
    \/ c[1] = "openilink" /\ OpenILinkRun(c)
    \/ c[1] = "telegram" /\ TelegramRun(c)
    \/ RunSets(c, "dropped", "reconnecting", "backoff")
    \/ RunMoves(c, "backoff", "check")
    \/ RunDone(c) /\ RunMoves(c, "backoff", "exit")
    \/ RunReturns(c)

-----------------------------------------------------------------------------
(* Send                                                                    *)

SendFrame == UNCHANGED <<runtimeVars, shown, run, done, canStop, revoked, rootDone>>

\* A reply goes through the adapter's proxy, a notification may go through
\* the default proxy; without a client it fails with ErrUnavailable.
SendBegins(s, a) ==
    /\ send[s].pc = "idle"
    /\ send' = [send EXCEPT ![s] = [pc |-> "proxy", adapter |-> a, client |-> 0]]
    /\ UNCHANGED <<stopped, status, fwd>> /\ SendFrame

SendDefault(s) == default # "none" /\ SendBegins(s, default)

\* Proxy.Client: the client is read here and used later
PickClient(s) ==
    LET g == proxy[send[s].adapter] IN
    /\ send[s].pc = "proxy"
    /\ send' = [send EXCEPT ![s] =
           IF g = 0 THEN NoSend
                    ELSE [pc |-> "sending", adapter |-> send[s].adapter, client |-> g]]
    /\ UNCHANGED <<stopped, status, fwd>> /\ SendFrame

SendClient(s) == <<send[s].adapter, send[s].client>>

\* The request succeeds or fails ...
SendEnds(s) ==
    /\ send[s].pc = "sending"
    /\ send' = [send EXCEPT ![s] = NoSend]
    /\ UNCHANGED <<stopped, status, fwd>> /\ SendFrame

\* ... or the token is rejected: the status is set ...
SendRejected(s) ==
    /\ send[s].pc = "sending"
    /\ SendClient(s) \in revoked
    /\ Set(SendClient(s), "unauthorized")
    /\ send' = [send EXCEPT ![s].pc = "stop"]
    /\ UNCHANGED stopped /\ SendFrame

\* Fault: the listener of the present client is stopped, not of the one used
StopPresentAdapter(s) ==
    LET a == send[s].adapter IN
    /\ send[s].pc = "stop"
    /\ stopped' = stopped \cup ({<<a, current[a]>>} \cap canStop)
    /\ send' = [send EXCEPT ![s] = NoSend]
    /\ UNCHANGED <<status, fwd>> /\ SendFrame

\* ... and then the listener is stopped: stopAdapter
StopAdapter(s) ==
    /\ send[s].pc = "stop"
    /\ stopped' = stopped \cup ({SendClient(s)} \cap canStop)
    /\ send' = [send EXCEPT ![s] = NoSend]
    /\ UNCHANGED <<status, fwd>> /\ SendFrame

SendStep(s) == PickClient(s) \/ SendEnds(s) \/ SendRejected(s) \/ StopAdapter(s)

-----------------------------------------------------------------------------
(* Specification                                                           *)

\* The token of a client's configuration becomes invalid.  The server may
\* still accept some requests: those in flight, or of another endpoint.
Revoke(c) ==
    /\ c[2] \in Rejectable /\ c \notin revoked
    /\ revoked' = revoked \cup {c}
    /\ UNCHANGED <<runtimeVars, shown, clientVars, status, fwd, send, rootDone>>

\* The signal context ends; the contexts of all clients are its children.
RootCancel ==
    /\ MayShutDown /\ ~rootDone
    /\ rootDone' = TRUE
    /\ UNCHANGED <<runtimeVars, shown, clientVars, status, fwd, send, revoked>>

Next ==
    \/ \E enabled \in SUBSET Adapters : Reload(enabled)
    \/ Close
    \/ ReloadStep
    \/ \E c \in Clients : \/ Forward(c) \/ ForwardEnds(c)
                          \/ RunStep(c) \/ ConnectionLost(c) \/ Revoke(c)
    \/ \E s \in Senders : \/ SendStep(s) \/ SendDefault(s)
                          \/ \E a \in Adapters : SendBegins(s, a)
    \/ RootCancel

Spec == Init /\ [][Next]_vars

\* Goroutines are scheduled (WF); requests end, as dialling and HTTP calls
\* have timeouts (WF of the step that ends them); a select with several ready
\* cases does not ignore one for ever (SF).  Nothing is assumed of reloads,
\* connections, senders or the server.
Fairness ==
    /\ WF_vars(ReloadStep)
    /\ \A c \in Clients : /\ WF_vars(Forward(c))
                          /\ SF_vars(ForwardEnds(c))
                          /\ WF_vars(RunStep(c))

FairSpec == Spec /\ Fairness

-----------------------------------------------------------------------------
(* Properties                                                              *)

RunPcs == {"none", "new", "starting", "check", "request", "answered", "rejected",
           "failed", "dropped", "backoff", "reading", "lost", "lostCheck",
           "refused", "polled", "exit", "ended"}

Reloads ==
    [pc : {"idle", "clear", "default", "cancel", "disable", "create", "choose", "announce",
           "install"},
     todo : SUBSET Adapters, enabled : SUBSET Adapters, old : SUBSET Clients, closing : BOOLEAN]
Forwarders ==
    [pc : {"none", "new", "held", "loop", "ended"}, held : Statuses \cup {"none"},
     queue : Seq(Statuses), open : BOOLEAN]
Sends ==
    [pc : {"idle", "proxy", "sending", "stop"}, adapter : Adapters \cup {"none"},
     client : 0..MaxGeneration]

\* Types of the runtime, of the clients and of the calls in progress; no
\* forwarder's channel holds more than its buffer.
TypeOK ==
    /\ generation \in 0..MaxGeneration
    /\ current \in [Adapters -> 0..MaxGeneration]
    /\ proxy \in [Adapters -> 0..MaxGeneration]
    /\ default \in Adapters \cup {"none"}
    /\ shown \in [Adapters -> Statuses]
    /\ reload \in Reloads
    /\ run \in [Clients -> RunPcs]
    /\ status \in [Clients -> Statuses]
    /\ done \subseteq Clients /\ stopped \subseteq Clients
    /\ canStop \subseteq Clients /\ revoked \subseteq Clients
    /\ fwd \in [Clients -> Forwarders] /\ send \in [Senders -> Sends]
    /\ \A c \in Clients : Len(fwd[c].queue) <= StatusBuffer
    /\ rootDone \in BOOLEAN

\* While the forwarder of the current client is subscribed, what the console
\* shows, followed by what the forwarder still has to pass on, ends with the
\* status of that client: updates are not skipped or overtaken, and no client
\* that a reload replaced gets a word in.  It says nothing of a forwarder that
\* was dropped because its buffer was full (fwd[c].open is FALSE): that one
\* passes on what is buffered and ends, and what it showed last stays, right or
\* wrong, until the next reload.
ShownFollowsClient ==
    \A c \in Clients : current[c[1]] = c[2] /\ fwd[c].open =>
        LET pending == (IF fwd[c].pc = "held" THEN <<fwd[c].held>> ELSE <<shown[c[1]]>>)
                          \o fwd[c].queue
        IN  pending[Len(pending)] = status[c]

\* The adapters that senders can use
UsableAdapters == {a \in Adapters : proxy[a] # 0}

\* Between reloads everything agrees on the client in use: senders reach the
\* client that listens, an adapter that is switched off is shown as such, and
\* a notification that names no adapter goes to one that is switched on.
ReloadConsistent ==
    reload.pc = "idle" => \A a \in Adapters :
        /\ proxy[a] = current[a]
        /\ current[a] = 0 => shown[a] = "disabled"
        /\ current[a] # 0 => current[a] = generation
        /\ default = IF UsableAdapters = {} THEN "none" ELSE First(UsableAdapters)
        /\ \A g \in 1..MaxGeneration :
              run[<<a, g>>] # "none" /\ g # current[a] => <<a, g>> \in done

\* A listener ends only when it is replaced, when the process ends or when
\* its own token was rejected: no network error and no other client's
\* rejection ends it.
ListenerStaysUp ==
    \A c \in Clients : run[c] \in {"exit", "ended"} => ContextDone(c) \/ c \in revoked

\* A client that a reload has replaced and that has not ended yet, its
\* forwarder included
Leftover(c) ==
    /\ run[c] # "none" /\ current[c[1]] # c[2]
    /\ ~(run[c] = "ended" /\ fwd[c].pc = "ended")

\* A client that a reload replaced ends, wherever its listener is at that
\* time, even before Run has set runCancel; its forwarder ends too: a replaced
\* client stays replaced, so none is left over for good.
ReplacedClientEnds == []<>(\A c \in Clients : ~Leftover(c))
=============================================================================
