------------------------------ MODULE Manager ------------------------------
(***************************************************************************)
(* The job manager of codex-queue-bot (internal/jobs/manager.go): queue    *)
(* workers, keepalive workers and one-shot (adhoc) requests compete for    *)
(* one Codex process per target and for a global number of process slots,  *)
(* while chat and web callers start and stop them, edit the targets and    *)
(* change the settings.                                                    *)
(*                                                                         *)
(* Every access to the manager's state is a critical section under m.mu,   *)
(* so one action is one critical section, together with the purely local   *)
(* work up to the next one.  Blocking (a channel receive, a timer, the     *)
(* Codex process itself) happens between critical sections and is a        *)
(* program counter of its own.  Timestamps, attempt counters and error     *)
(* texts are display data and are left out.  Target IDs are left out: the  *)
(* web server serialises target edits, so an ID names one key throughout.  *)
(***************************************************************************)
EXTENDS Naturals, FiniteSets

CONSTANTS
    Keys,         \* normalised target names
    NoKey,        \* no target
    Defs,         \* contents of a target definition (URL, API key, model)
    Intervals,    \* keepalive interval settings; 0 is Go's zero time
    Limits,       \* values of max_parallel that the settings may take
    Threads,      \* pool of goroutines for workers and adhoc requests
    Starters,     \* goroutines calling Start / StartKeepalive
    Subscribers,  \* chat recipients of success notifications
    Operations,   \* the requests the environment makes (an input set)
    NameLists,    \* the targets one start or stop call names (an input set)
    MaxRunID      \* bound: no call is made once a run counter reaches it

ASSUME ConstantsAssumption ==
    /\ NoKey \notin Keys
    /\ IsFiniteSet(Threads)
    /\ 0 \notin Defs
    /\ Intervals \subseteq Nat \ {0}
    /\ Limits \subseteq Nat \ {0}
    /\ NameLists \subseteq SUBSET Keys
    /\ MaxRunID \in Nat

VARIABLES
    targets,           \* m.targets: key -> definition, 0 when absent
    job,               \* m.jobs
    keepalive,         \* m.keepalives
    arbiter,           \* m.arbiters
    slotsInUse, currentProcesses, maxParallel,
    interval,          \* keepaliveMin, keepaliveMax
    nextAdhocRunID, shuttingDown,
    rootDone,          \* m.root is cancelled
    published,         \* the snapshot of the last state event
    pc,                \* where each goroutine of the pool is
    work,              \* its locals: key, run ID, target copy, deadline
    cancelled,         \* goroutines whose context is done
    woken,             \* blocked goroutines whose awaited channel is closed
    starter,           \* calls of Start / StartKeepalive in progress
    editor             \* the target edit that holds the web configWriteMu

modeVars    == <<job, keepalive, arbiter>>
slotVars    == <<slotsInUse, currentProcesses>>
settingVars == <<maxParallel, interval>>
lifeVars    == <<shuttingDown, rootDone>>
threadVars  == <<pc, work, cancelled, woken>>
vars == <<targets, modeVars, slotVars, settingVars, nextAdhocRunID, lifeVars,
          published, threadVars, starter, editor>>

-----------------------------------------------------------------------------
(* Records                                                                 *)

Modes  == {"queue", "keepalive", "adhoc"}
Owners == Modes \cup {"none"}

NewJob == [state |-> "idle", runID |-> 0, cancel |-> {}, workers |-> 0,
           subscribers |-> {}]
NewKeepalive == [state |-> "stopped", runID |-> 0, cancel |-> {},
                 workers |-> 0, nextRequest |-> 0]
NewArbiter == [owner |-> "none", ownerRunID |-> 0, cancel |-> {}]
NoWork     == [key |-> NoKey, run |-> 0, def |-> 0, at |-> 0]
NoStart    == [pc |-> "idle", mode |-> "none", todo |-> {}, key |-> NoKey,
               subscriber |-> {}]
NoEdit     == [pc |-> "idle", key |-> NoKey, newKey |-> NoKey, def |-> 0]

Known == {k \in Keys : targets[k] # 0}

QueueActive(k)     == job[k].state = "running" \/ job[k].workers > 0
KeepaliveActive(k) == keepalive[k].state # "stopped" \/ keepalive[k].workers > 0

\* Fault: keepalive mode does not make a target busy
BusyQueue(k) == QueueActive(k) \/ arbiter[k].owner # "none"

\* targetBusyLocked
Busy(k) == QueueActive(k) \/ KeepaliveActive(k) \/ arbiter[k].owner # "none"

\* snapshotLocked
Snapshot ==
    [targets |-> [k \in Known |->
        [def          |-> targets[k],
         busy         |-> Busy(k),
         adhocRunning |-> arbiter[k].owner = "adhoc",
         queue        |-> job[k].state,
         keepalive    |-> keepalive[k].state,
         nextRequest  |-> keepalive[k].nextRequest]],
     currentProcesses |-> currentProcesses,
     maxParallel      |-> maxParallel]

\* broadcastStateLocked, when the critical section calls it
Broadcast(called) == published' = IF called THEN Snapshot' ELSE published

-----------------------------------------------------------------------------
(* Goroutines                                                              *)

QueuePcs ==
    {"qTarget", "qTargetWait", "qSlot", "qSlotWait", "qBegin", "qUnSlot",
     "qUnTarget", "qRunning", "qSuccess", "qCheck", "qFailure", "qCancel",
     "qExit"}
KeepalivePcs ==
    {"kFirst", "kTargetWait", "kSlot", "kSlotWait", "kBegin", "kUnSlot",
     "kUnSlotWait", "kRunning", "kCheck", "kFinish", "kNext", "kSleep",
     "kCancel", "kExit"}
AdhocPcs ==
    {"aSlot", "aSlotWait", "aCheck", "aBegin", "aRunning", "aQuit",
     "aQuitSlot"}

RunningPcs    == {"qRunning", "kRunning", "aRunning"}
SlotWaitPcs   == {"qSlotWait", "kSlotWait", "aSlotWait"}
TargetWaitPcs == {"qTargetWait", "kTargetWait", "kUnSlotWait"}

\* Goroutines here have taken a slot and not given it back.
SlotPcs == {"qBegin", "qUnSlot", "qRunning", "kBegin", "kUnSlot",
            "kUnSlotWait", "kRunning", "aCheck", "aBegin", "aRunning",
            "aQuitSlot"}

Live(t) == pc[t] # "free"
At(t, label) == pc[t] = label
Goto(t, label) == pc' = [pc EXCEPT ![t] = label]
KeyOf(t) == work[t].key
RunOf(t) == work[t].run

\* The worker's run has not been superseded by a stop or a later start.
QueueCurrent(t) ==
    job[KeyOf(t)].runID = RunOf(t) /\ job[KeyOf(t)].state = "running"
KeepaliveCurrent(t) ==
    /\ keepalive[KeyOf(t)].runID = RunOf(t)
    /\ keepalive[KeyOf(t)].state # "stopped"

Owns(t, owner) ==
    /\ arbiter[KeyOf(t)].owner = owner
    /\ arbiter[KeyOf(t)].ownerRunID = RunOf(t)

\* go func() { ... } with a child context of m.root
Spawn(t, label, key, run, def) ==
    /\ ~Live(t)
    /\ Goto(t, label)
    /\ work' = [work EXCEPT ![t] =
                   [key |-> key, run |-> run, def |-> def, at |-> 0]]
    /\ cancelled' = IF rootDone THEN cancelled \cup {t} ELSE cancelled

\* The goroutine ends (runWG.Done).
Leave(t) ==
    /\ Goto(t, "free")
    /\ work' = [work EXCEPT ![t] = NoWork]
    /\ cancelled' = cancelled \ {t}

-----------------------------------------------------------------------------
(* Signals: closing a channel wakes every goroutine that holds it          *)

\* Fault: the release of a target wakes queue workers only
QueueWaiters(K) == {t \in Threads : pc[t] = "qTargetWait" /\ KeyOf(t) \in K}

\* signalTargetLocked on every key in K: the holders of arbiter.changed
WaitingForTarget(K) ==
    {t \in Threads : pc[t] \in TargetWaitPcs /\ KeyOf(t) \in K}

\* signalParallelLocked: the holders of parallelChanged
WaitingForSlot == {t \in Threads : pc[t] \in SlotWaitPcs}

\* Fault: the schedule channel is not closed
SleepOn(K) == {}

\* signalKeepaliveScheduleLocked: the holders of scheduleChanged
Sleeping(K) == {t \in Threads : pc[t] = "kSleep" /\ KeyOf(t) \in K}

\* releaseTargetLocked: the key released (none if somebody else owns it)
Released(t, owner) == IF Owns(t, owner) THEN {KeyOf(t)} ELSE {}

\* A worker takes the target; arbiter.cancel is only set by adhoc requests.
TakeTarget(t, owner) ==
    arbiter' = [arbiter EXCEPT ![KeyOf(t)] =
        [owner |-> owner, ownerRunID |-> RunOf(t), cancel |-> @.cancel]]

ReleaseTargetLocked(t, owner) ==
    arbiter' = [k \in Keys |->
        IF k \in Released(t, owner) THEN NewArbiter ELSE arbiter[k]]

-----------------------------------------------------------------------------
(* Stopping                                                                *)

\* Fault: a stop forgets the unwinding workers
StopForgetsWorkers(j) ==
    IF j.state = "running" \/ j.workers > 0
      THEN [j EXCEPT !.state = "stopped", !.runID = @ + 1, !.cancel = {},
                     !.workers = 0, !.subscribers = {}]
      ELSE j

\* stopQueueLocked, stopKeepaliveLocked, stopAdhocLocked: the new records
StopQueue(j) ==
    IF j.state # "running" /\ j.workers = 0 THEN j
    ELSE [state   |-> IF j.state = "running" THEN "stopped" ELSE j.state,
          runID   |-> j.runID + 1, cancel |-> {}, workers |-> j.workers,
          subscribers |-> IF j.state = "running" THEN {} ELSE j.subscribers]

StopKeepalive(kj) ==
    IF kj.state = "stopped" /\ kj.workers = 0 THEN kj
    ELSE [state   |-> "stopped", runID |-> kj.runID + 1, cancel |-> {},
          workers |-> kj.workers,
          nextRequest |-> IF kj.state # "stopped" THEN 0 ELSE kj.nextRequest]

StopAdhoc(a) == IF a.owner = "adhoc" THEN [a EXCEPT !.cancel = {}] ELSE a

\* Which of the given modes there is something to stop of
Stoppable(k, modes) ==
    {m \in modes : \/ m = "queue" /\ QueueActive(k)
                   \/ m = "keepalive" /\ KeepaliveActive(k)
                   \/ m = "adhoc" /\ arbiter[k].owner = "adhoc"}

\* Fault: stop does not call the cancel function
CancelNobody(k, mode) == {}

CancelOf(k, mode) ==
    CASE mode = "queue" -> job[k].cancel
      [] mode = "keepalive" -> keepalive[k].cancel
      [] mode = "adhoc" -> arbiter[k].cancel

\* Stop the given modes on every key in K: run counters move on, contexts
\* are cancelled, workers blocked on the target are signalled.
StopModes(K, modes) ==
    /\ job' = [k \in Keys |->
           IF k \in K /\ "queue" \in modes THEN StopQueue(job[k]) ELSE job[k]]
    /\ keepalive' = [k \in Keys |->
           IF k \in K /\ "keepalive" \in modes THEN StopKeepalive(keepalive[k])
                                               ELSE keepalive[k]]
    /\ arbiter' = [k \in Keys |->
           IF k \in K /\ "adhoc" \in modes THEN StopAdhoc(arbiter[k])
                                           ELSE arbiter[k]]
    /\ cancelled' = cancelled \cup
           UNION {UNION {CancelOf(k, m) : m \in Stoppable(k, modes)} : k \in K}
    /\ woken' = woken \cup WaitingForTarget(
           {k \in K : Stoppable(k, modes) \ {"adhoc"} # {}})
    /\ UNCHANGED <<targets, slotVars, settingVars, nextAdhocRunID, lifeVars,
                   pc, work>>
    /\ Broadcast(\E k \in K : Stoppable(k, modes) # {})

-----------------------------------------------------------------------------
(* New                                                                     *)

Init ==
    /\ targets \in [Keys -> Defs \cup {0}]
    /\ job = [k \in Keys |-> NewJob]
    /\ keepalive = [k \in Keys |-> NewKeepalive]
    /\ arbiter = [k \in Keys |-> NewArbiter]
    /\ slotsInUse = 0 /\ currentProcesses = 0
    /\ maxParallel \in Limits /\ interval \in Intervals
    /\ nextAdhocRunID = 0
    /\ shuttingDown = FALSE /\ rootDone = FALSE
    /\ published = Snapshot
    /\ pc = [t \in Threads |-> "free"]
    /\ work = [t \in Threads |-> NoWork]
    /\ cancelled = {} /\ woken = {}
    /\ starter = [c \in Starters |-> NoStart]
    /\ editor = NoEdit

-----------------------------------------------------------------------------
(* Start and StartKeepalive: chat commands and web requests                *)

\* What a caller leaves alone while it only moves on itself
managerVars == <<targets, modeVars, slotVars, settingVars, nextAdhocRunID,
                 lifeVars, published, threadVars>>

\* Named bound: calls that advance a run counter stop when one reaches it.
RunIDsLeft ==
    /\ nextAdhocRunID < MaxRunID
    /\ \A k \in Keys : job[k].runID < MaxRunID /\ keepalive[k].runID < MaxRunID

\* Start / StartKeepalive up to resolveLocked: the keys asked for that exist
StartCall(c, mode, names, subscriber) ==
    /\ starter[c].pc = "idle"
    /\ RunIDsLeft
    /\ names \cap Known # {}
    /\ starter' = [starter EXCEPT ![c] =
           [pc |-> "prepare", mode |-> mode, todo |-> names \cap Known,
            key |-> NoKey, subscriber |-> subscriber]]
    /\ UNCHANGED <<managerVars, editor>>

\* A start call goes on with key k at the given place
StarterAt(c, label, k, todo) ==
    [pc |-> label, mode |-> starter[c].mode, todo |-> todo, key |-> k,
     subscriber |-> starter[c].subscriber]

\* The loop over the resolved keys moves on, or the call returns.
NextKey(c) ==
    LET rest == starter[c].todo \ {starter[c].key} IN
    starter' = [starter EXCEPT ![c] =
        IF rest = {} THEN NoStart ELSE StarterAt(c, "prepare", NoKey, rest)]

\* addSubscriberLocked
AddSubscriber(c, k) ==
    job' = [job EXCEPT ![k].subscribers = @ \cup starter[c].subscriber]

AtPrepare(c, k) ==
    /\ starter[c].pc = "prepare"
    /\ k \in starter[c].todo
    /\ starter[c].key \in {NoKey, k}

AlreadyInMode(k, mode) ==
    \/ mode = "queue" /\ job[k].state = "running"
    \/ mode = "keepalive" /\ keepalive[k].state # "stopped"

\* prepareMode returns false at once
PrepareRefused(c, k) ==
    /\ AtPrepare(c, k)
    /\ k \notin Known \/ shuttingDown \/ AlreadyInMode(k, starter[c].mode)
    /\ starter' = [starter EXCEPT ![c] = StarterAt(c, "refuse", k, @.todo)]
    /\ UNCHANGED <<managerVars, editor>>

\* prepareMode stops the other modes and waits if the target is still busy
PrepareMode(c, k) ==
    /\ AtPrepare(c, k)
    /\ k \in Known /\ ~shuttingDown /\ ~AlreadyInMode(k, starter[c].mode)
    /\ StopModes({k}, Modes \ {starter[c].mode})
    /\ starter' = [starter EXCEPT ![c] =
           StarterAt(c, IF Busy(k)' THEN "wait" ELSE "commit", k, @.todo)]
    /\ UNCHANGED editor

\* waitTargetIdle, called by prepareMode: a poll that ends the wait ...
WaitTargetIdle(c) ==
    /\ starter[c].pc = "wait"
    /\ starter[c].key \notin Known \/ ~Busy(starter[c].key)
    /\ starter' = [starter EXCEPT ![c].pc =
           IF starter[c].key \in Known THEN "prepare" ELSE "refuse"]
    /\ UNCHANGED <<managerVars, editor>>

\* ... or its deadline passes, or m.root is done, while the target is busy
WaitTimeout(c) ==
    /\ starter[c].pc = "wait"
    /\ starter[c].key \in Known /\ Busy(starter[c].key)
    /\ starter' = [starter EXCEPT ![c].pc = "refuse"]
    /\ UNCHANGED <<managerVars, editor>>

\* startQueue / startKeepalive after prepareMode returned false
StartRefused(c) ==
    LET k == starter[c].key IN
    /\ starter[c].pc = "refuse"
    /\ IF starter[c].mode = "queue" /\ k \in Known /\ job[k].state = "running"
         THEN AddSubscriber(c, k) ELSE UNCHANGED job
    /\ NextKey(c)
    /\ UNCHANGED <<targets, keepalive, arbiter, slotVars, settingVars,
                   nextAdhocRunID, lifeVars, published, threadVars, editor>>

\* The second critical section of startQueue / startKeepalive returns early:
\* shutdown began, the target is gone, or the mode was started meanwhile.
StartLate(c) ==
    LET k == starter[c].key IN
    /\ starter[c].pc = "commit"
    /\ shuttingDown \/ k \notin Known \/ AlreadyInMode(k, starter[c].mode)
    /\ IF ~shuttingDown /\ k \in Known /\ starter[c].mode = "queue"
         THEN AddSubscriber(c, k) ELSE UNCHANGED job
    /\ NextKey(c)
    /\ UNCHANGED <<targets, keepalive, arbiter, slotVars, settingVars,
                   nextAdhocRunID, lifeVars, published, threadVars, editor>>

MayCommit(c) ==
    /\ starter[c].pc = "commit"
    /\ ~shuttingDown
    /\ starter[c].key \in Known
    /\ ~AlreadyInMode(starter[c].key, starter[c].mode)

\* Fault: the second critical section trusts prepareMode
TrustPrepareMode(c) == FALSE

OtherModeActive(c) ==
    \/ starter[c].mode = "queue" /\ KeepaliveActive(starter[c].key)
    \/ starter[c].mode = "keepalive" /\ QueueActive(starter[c].key)

\* ... finds the other mode started since prepareMode and tries again
StartRetry(c) ==
    /\ MayCommit(c) /\ OtherModeActive(c)
    /\ starter' = [starter EXCEPT ![c].pc = "prepare"]
    /\ UNCHANGED <<managerVars, editor>>

StartQueue(c, t) ==
    LET k == starter[c].key IN
    /\ MayCommit(c) /\ ~OtherModeActive(c) /\ starter[c].mode = "queue"
    /\ job' = [job EXCEPT ![k] =
           [state |-> "running", runID |-> @.runID + 1, cancel |-> {t},
            workers |-> @.workers + 1,
            subscribers |-> @.subscribers \cup starter[c].subscriber]]
    /\ Spawn(t, "qTarget", k, job[k].runID + 1, 0)
    /\ woken' = woken \cup WaitingForTarget({k})
    /\ NextKey(c)
    /\ UNCHANGED <<targets, keepalive, arbiter, slotVars, settingVars,
                   nextAdhocRunID, lifeVars, editor>>
    /\ Broadcast(TRUE)

StartKeepalive(c, t) ==
    LET k == starter[c].key IN
    /\ MayCommit(c) /\ ~OtherModeActive(c) /\ starter[c].mode = "keepalive"
    /\ keepalive' = [keepalive EXCEPT ![k] =
           [state |-> "requesting", runID |-> @.runID + 1, cancel |-> {t},
            workers |-> @.workers + 1, nextRequest |-> 0]]
    /\ Spawn(t, "kFirst", k, keepalive[k].runID + 1, 0)
    /\ woken' = woken \cup WaitingForTarget({k})
    /\ NextKey(c)
    /\ UNCHANGED <<targets, job, arbiter, slotVars, settingVars,
                   nextAdhocRunID, lifeVars, editor>>
    /\ Broadcast(TRUE)

\* Stop, StopTask, StopKeepalive: one critical section for all the names
Stop(names) ==
    /\ RunIDsLeft \/ \A k \in names \cap Known : Stoppable(k, Modes) = {}
    /\ StopModes(names \cap Known, Modes)
    /\ UNCHANGED <<starter, editor>>

-----------------------------------------------------------------------------
(* Target edits and settings, serialised by the web server's configWriteMu *)
(* The persist callback runs inside the critical section and may fail.     *)

ConfigWriteFree == editor.pc = "idle"

CreateTarget(k, def) ==
    /\ ConfigWriteFree
    /\ k \notin Known
    /\ targets' = [targets EXCEPT ![k] = def]
    /\ job' = [job EXCEPT ![k] = NewJob]
    /\ keepalive' = [keepalive EXCEPT ![k] = NewKeepalive]
    /\ arbiter' = [arbiter EXCEPT ![k] = NewArbiter]
    /\ UNCHANGED <<slotVars, settingVars, nextAdhocRunID, lifeVars, threadVars,
                   starter, editor>>
    /\ Broadcast(TRUE)

\* UpdateTarget (newKey # NoKey) and DeleteTarget (newKey = NoKey) stop
\* whatever runs on the target and wait for it to be idle.
BeginEdit(k, newKey, def) ==
    /\ ConfigWriteFree
    /\ k \in Known
    /\ RunIDsLeft \/ Stoppable(k, Modes) = {}
    /\ StopModes({k}, Modes)
    /\ editor' = [pc |-> "wait", key |-> k, newKey |-> newKey, def |-> def]
    /\ UNCHANGED starter

\* waitTargetIdle in UpdateTarget / DeleteTarget succeeds ...
EditWaitIdle ==
    /\ editor.pc = "wait"
    /\ editor.key \in Known /\ ~Busy(editor.key)
    /\ editor' = [editor EXCEPT !.pc = "apply"]
    /\ UNCHANGED <<managerVars, starter>>

\* ... or times out: ErrTargetBusy, nothing is written
EditWaitTimeout ==
    /\ editor.pc = "wait"
    /\ Busy(editor.key)
    /\ editor' = NoEdit
    /\ UNCHANGED <<managerVars, starter>>

\* The target is busy again, the new name is taken, or persist fails
EditRejected ==
    /\ editor.pc = "apply"
    /\ editor' = NoEdit
    /\ UNCHANGED <<managerVars, starter>>

\* Fault: no second check once the wait is over
ApplyUnchecked == editor.pc = "apply" /\ editor.key \in Known

\* Re-check under the lock: the target may have been started meanwhile.
MayApply ==
    /\ editor.pc = "apply"
    /\ editor.key \in Known /\ ~Busy(editor.key)
    /\ editor.newKey \in Known => editor.newKey = editor.key

\* f with the entry of the edited key moved to the new key, absent if none
Moved(f, absent) ==
    [k \in Keys |-> IF k = editor.newKey THEN f[editor.key]
                    ELSE IF k = editor.key THEN absent ELSE f[k]]

\* UpdateTarget: a rename moves the job, keepalive and arbiter records
\* DeleteTarget: they are dropped
ApplyEdit ==
    /\ MayApply
    /\ targets' = [k \in Keys |-> IF k = editor.newKey THEN editor.def
                                  ELSE Moved(targets, 0)[k]]
    /\ job' = Moved(job, NewJob)
    /\ keepalive' = Moved(keepalive, NewKeepalive)
    /\ arbiter' = Moved(arbiter, NewArbiter)
    /\ editor' = NoEdit
    /\ UNCHANGED <<slotVars, settingVars, nextAdhocRunID, lifeVars, threadVars,
                   starter>>
    /\ Broadcast(TRUE)

\* The keepalives whose next request UpdateSettings draws anew
Resampled(newInterval) ==
    {k \in Keys : /\ newInterval # interval
                  /\ keepalive[k].state = "waiting_next"
                  /\ keepalive[k].nextRequest # 0}

UpdateSettings(newInterval, newLimit) ==
    /\ ConfigWriteFree
    /\ interval' = newInterval
    /\ maxParallel' = newLimit
    /\ keepalive' = [k \in Keys |->
           IF k \in Resampled(newInterval)
             THEN [keepalive[k] EXCEPT !.nextRequest = newInterval]
             ELSE keepalive[k]]
    /\ woken' = woken \cup Sleeping(Resampled(newInterval))
                      \cup (IF newLimit # maxParallel THEN WaitingForSlot ELSE {})
    /\ UNCHANGED <<targets, job, arbiter, slotVars, nextAdhocRunID, lifeVars,
                   pc, work, cancelled, starter, editor>>
    /\ Broadcast(TRUE)

-----------------------------------------------------------------------------
(* Shutdown                                                                *)

\* The signal context ends.  Worker contexts are its children; an adhoc
\* context is tied to it by context.AfterFunc, which runs on its own.
RootCancel ==
    /\ ~rootDone
    /\ rootDone' = TRUE
    /\ cancelled' = cancelled \cup
           {t \in Threads : pc[t] \in QueuePcs \cup KeepalivePcs}
    /\ UNCHANGED <<targets, modeVars, slotVars, settingVars, nextAdhocRunID,
                   shuttingDown, published, pc, work, woken, starter, editor>>

\* BeginShutdown, called by main once the root context is done
BeginShutdown ==
    /\ rootDone /\ ~shuttingDown
    /\ shuttingDown' = TRUE
    /\ cancelled' = cancelled \cup
           UNION {job[k].cancel \cup keepalive[k].cancel
                     \cup (IF arbiter[k].owner = "adhoc" THEN arbiter[k].cancel
                                                         ELSE {}) : k \in Keys}
    /\ UNCHANGED <<targets, modeVars, slotVars, settingVars, nextAdhocRunID,
                   rootDone, published, pc, work, woken, starter, editor>>

-----------------------------------------------------------------------------
(* Steps that the three kinds of goroutines share.  WorkerFrame holds for  *)
(* every step of a goroutine; the actions list what else they leave alone. *)

WorkerFrame == UNCHANGED <<targets, settingVars, nextAdhocRunID, lifeVars,
                           starter, editor>>

\* Counters never go below zero: the code tests them before decrementing.
Dec(n) == IF n > 0 THEN n - 1 ELSE n

\* Fault: off by one
AcquireOneMore(t, from, granted, blocked) ==
    /\ At(t, from)
    /\ IF slotsInUse <= maxParallel
         THEN slotsInUse' = slotsInUse + 1 /\ Goto(t, granted)
         ELSE UNCHANGED slotsInUse /\ Goto(t, blocked)
    /\ UNCHANGED <<modeVars, currentProcesses, published, work, cancelled, woken>>

\* acquire: take a slot, or remember the channel and block
Acquire(t, from, granted, blocked) ==
    /\ At(t, from)
    /\ IF slotsInUse < maxParallel
         THEN slotsInUse' = slotsInUse + 1 /\ Goto(t, granted)
         ELSE UNCHANGED slotsInUse /\ Goto(t, blocked)
    /\ UNCHANGED <<modeVars, currentProcesses, published, work, cancelled, woken>>

\* A blocked goroutine goes on; a timer it waits for is stopped.
Unblock(t, from, to) ==
    /\ At(t, from)
    /\ woken' = woken \ {t}
    /\ work' = [work EXCEPT ![t].at = 0]
    /\ Goto(t, to)
    /\ UNCHANGED <<modeVars, slotVars, published, cancelled>>

\* Fault: a blocked goroutine does not listen to its context
NeverGiveUp(t, from, to) == FALSE

\* Its channel was closed, or its context is done
Resume(t, from, to) == t \in woken /\ Unblock(t, from, to)
GiveUp(t, from, to) == t \in cancelled /\ Unblock(t, from, to)

\* Fault: a cancelled run is taken for a failed one
IgnoreContext(t, from, done, alive) ==
    /\ At(t, from)
    /\ Goto(t, alive)
    /\ UNCHANGED <<modeVars, slotVars, published, work, cancelled, woken>>

\* Read ctx.Err() outside the lock
CheckContext(t, from, done, alive) ==
    /\ At(t, from)
    /\ Goto(t, IF t \in cancelled THEN done ELSE alive)
    /\ UNCHANGED <<modeVars, slotVars, published, work, cancelled, woken>>

\* Fault: the slot is given back without closing the channel
ReleaseSlotSilently(t, from, to) ==
    /\ At(t, from)
    /\ slotsInUse' = Dec(slotsInUse)
    /\ Goto(t, to)
    /\ UNCHANGED <<modeVars, currentProcesses, published, work, cancelled, woken>>

\* releaseSlot
ReleaseSlot(t, from, to) ==
    /\ At(t, from)
    /\ slotsInUse' = Dec(slotsInUse)
    /\ woken' = woken \cup WaitingForSlot
    /\ Goto(t, to)
    /\ UNCHANGED <<modeVars, currentProcesses, published, work, cancelled>>

\* The runner returns and finishProcess gives the slot back
FinishProcess(t, from, to) ==
    /\ At(t, from)
    /\ currentProcesses' = Dec(currentProcesses)
    /\ slotsInUse' = Dec(slotsInUse)
    /\ woken' = woken \cup WaitingForSlot
    /\ work' = [work EXCEPT ![t].def = 0]
    /\ Goto(t, to)
    /\ UNCHANGED <<modeVars, cancelled>>
    /\ Broadcast(TRUE)

-----------------------------------------------------------------------------
(* run: the queue worker                                                   *)

\* acquireQueueTarget, one turn of its loop
AcquireQueueTarget(t) ==
    LET free == arbiter[KeyOf(t)].owner = "none" IN
    /\ At(t, "qTarget")
    /\ IF QueueCurrent(t) /\ free THEN TakeTarget(t, "queue")
                                  ELSE UNCHANGED arbiter
    /\ Goto(t, IF ~QueueCurrent(t) THEN "qCancel"
               ELSE IF free THEN "qSlot" ELSE "qTargetWait")
    /\ UNCHANGED <<job, keepalive, slotVars, published, work, cancelled, woken>>

\* beginAttempt
BeginAttempt(t) ==
    /\ At(t, "qBegin")
    /\ QueueCurrent(t) /\ Owns(t, "queue")
    /\ currentProcesses' = currentProcesses + 1
    /\ work' = [work EXCEPT ![t].def = targets[KeyOf(t)]]
    /\ Goto(t, "qRunning")
    /\ UNCHANGED <<modeVars, slotsInUse, cancelled, woken>>
    /\ Broadcast(TRUE)

\* Fault: the early return keeps the slot
RefusedKeepsSlot(t) ==
    /\ At(t, "qBegin")
    /\ ~(QueueCurrent(t) /\ Owns(t, "queue"))
    /\ Goto(t, "qUnTarget")
    /\ UNCHANGED <<modeVars, slotVars, published, work, cancelled, woken>>

AttemptRefused(t) ==
    /\ At(t, "qBegin")
    /\ ~(QueueCurrent(t) /\ Owns(t, "queue"))
    /\ Goto(t, "qUnSlot")
    /\ UNCHANGED <<modeVars, slotVars, published, work, cancelled, woken>>

\* releaseTarget, after the slot of a refused attempt was given back
ReleaseTarget(t) ==
    /\ At(t, "qUnTarget")
    /\ ReleaseTargetLocked(t, "queue")
    /\ woken' = woken \cup WaitingForTarget(Released(t, "queue"))
    /\ Goto(t, "qExit")
    /\ UNCHANGED <<job, keepalive, slotVars, published, work, cancelled>>

\* The run is over: state, cancel function and subscribers are reset.
EndQueueRun(k, state) ==
    job' = [job EXCEPT ![k] =
        [state |-> state, runID |-> @.runID, cancel |-> {},
         workers |-> @.workers, subscribers |-> {}]]

\* markSuccess; the notifications it hands out are sent outside the manager
MarkSuccess(t) ==
    /\ At(t, "qSuccess")
    /\ ReleaseTargetLocked(t, "queue")
    /\ IF QueueCurrent(t)
         THEN /\ EndQueueRun(KeyOf(t), "succeeded")
              /\ cancelled' = cancelled \cup job[KeyOf(t)].cancel
         ELSE UNCHANGED <<job, cancelled>>
    /\ woken' = woken \cup WaitingForTarget(Released(t, "queue"))
    /\ Goto(t, "qExit")
    /\ UNCHANGED <<keepalive, slotVars, work>>
    /\ Broadcast(QueueCurrent(t))

\* markFailure: retry at once, unless the run was superseded
MarkFailure(t) ==
    /\ At(t, "qFailure")
    /\ ReleaseTargetLocked(t, "queue")
    /\ woken' = woken \cup WaitingForTarget(Released(t, "queue"))
    /\ Goto(t, IF QueueCurrent(t) THEN "qTarget" ELSE "qExit")
    /\ UNCHANGED <<job, keepalive, slotVars, work, cancelled>>
    /\ Broadcast(QueueCurrent(t))

\* Fault: a cancelled worker thinks that it never had the target
CancelKeepsTarget(t) ==
    /\ At(t, "qCancel")
    /\ IF QueueCurrent(t) THEN EndQueueRun(KeyOf(t), "stopped")
                          ELSE UNCHANGED job
    /\ Goto(t, "qExit")
    /\ UNCHANGED <<keepalive, arbiter, slotVars, work, cancelled, woken>>
    /\ Broadcast(QueueCurrent(t))

\* markQueueCancelled
MarkQueueCancelled(t) ==
    /\ At(t, "qCancel")
    /\ ReleaseTargetLocked(t, "queue")
    /\ IF QueueCurrent(t) THEN EndQueueRun(KeyOf(t), "stopped")
                          ELSE UNCHANGED job
    /\ woken' = woken \cup WaitingForTarget(
           IF QueueCurrent(t) THEN {KeyOf(t)} ELSE Released(t, "queue"))
    /\ Goto(t, "qExit")
    /\ UNCHANGED <<keepalive, slotVars, work, cancelled>>
    /\ Broadcast(QueueCurrent(t))

\* Fault: the worker leaves without a state event
FinishQueueWorkerSilently(t) ==
    /\ At(t, "qExit")
    /\ job' = [job EXCEPT ![KeyOf(t)].workers = Dec(@)]
    /\ Leave(t)
    /\ UNCHANGED <<keepalive, arbiter, slotVars, published, woken>>

\* finishQueueWorker, deferred
FinishQueueWorker(t) ==
    LET counted == KeyOf(t) \in Known /\ job[KeyOf(t)].workers > 0 IN
    /\ At(t, "qExit")
    /\ job' = IF counted THEN [job EXCEPT ![KeyOf(t)].workers = @ - 1] ELSE job
    /\ Leave(t)
    /\ UNCHANGED <<keepalive, arbiter, slotVars, woken>>
    /\ Broadcast(counted)

QueueWorker(t) ==
    \/ AcquireQueueTarget(t)
    \/ Resume(t, "qTargetWait", "qTarget")
    \/ Acquire(t, "qSlot", "qBegin", "qSlotWait")
    \/ Resume(t, "qSlotWait", "qSlot")
    \/ BeginAttempt(t)
    \/ AttemptRefused(t)
    \/ ReleaseSlot(t, "qUnSlot", "qUnTarget")
    \/ ReleaseTarget(t)
    \/ MarkSuccess(t)
    \/ CheckContext(t, "qCheck", "qCancel", "qFailure")
    \/ MarkFailure(t)
    \/ MarkQueueCancelled(t)
    \/ FinishQueueWorker(t)

-----------------------------------------------------------------------------
(* runKeepalive: the keepalive worker                                      *)

\* Fault: an adhoc request does not keep a keepalive request from starting
BlockedByModes(k) == job[k].state = "running" \/ arbiter[k].owner \in {"queue", "keepalive"}

\* What keeps a keepalive request from starting: queue mode, or a request
Blocked(k) == job[k].state = "running" \/ arbiter[k].owner # "none"
BlockedByQueue(k) == job[k].state = "running" \/ arbiter[k].owner = "queue"

\* The keepalive record of k with a new state and a new deadline
Scheduled(k, state, cancel, nextRequest) ==
    [keepalive EXCEPT ![k] =
        [state |-> state, runID |-> @.runID, cancel |-> cancel,
         workers |-> @.workers, nextRequest |-> nextRequest]]

\* Set the displayed keepalive state; broadcast only when it changes.
ShowKeepalive(k, state) ==
    /\ keepalive' = [keepalive EXCEPT ![k].state = state]
    /\ UNCHANGED <<job, arbiter, slotVars>>
    /\ Broadcast(state # keepalive[k].state)

\* beginKeepaliveRequest, first critical section
BeginKeepaliveRequest(t) ==
    LET k == KeyOf(t) IN
    /\ At(t, "kFirst")
    /\ IF KeepaliveCurrent(t)
         THEN /\ ShowKeepalive(k, IF BlockedByQueue(k) THEN "waiting_queue"
                                                       ELSE "requesting")
              /\ Goto(t, IF Blocked(k) THEN "kTargetWait" ELSE "kSlot")
         ELSE UNCHANGED <<modeVars, slotVars, published>> /\ Goto(t, "kCancel")
    /\ UNCHANGED <<work, cancelled, woken>>

\* ... second critical section, holding a slot: start the request
KeepaliveRequest(t) ==
    LET k == KeyOf(t) IN
    /\ At(t, "kBegin")
    /\ KeepaliveCurrent(t) /\ ~Blocked(k)
    /\ TakeTarget(t, "keepalive")
    /\ keepalive' = Scheduled(k, "requesting", keepalive[k].cancel, 0)
    /\ currentProcesses' = currentProcesses + 1
    /\ work' = [work EXCEPT ![t].def = targets[k]]
    /\ Goto(t, "kRunning")
    /\ UNCHANGED <<job, slotsInUse, cancelled, woken>>
    /\ Broadcast(TRUE)

\* ... or refuse it: the slot is given back
KeepaliveRefused(t) ==
    LET k == KeyOf(t) IN
    /\ At(t, "kBegin")
    /\ ~KeepaliveCurrent(t) \/ Blocked(k)
    /\ IF KeepaliveCurrent(t)
         THEN /\ ShowKeepalive(k, IF BlockedByQueue(k) THEN "waiting_queue"
                                                       ELSE keepalive[k].state)
              /\ Goto(t, "kUnSlotWait")
         ELSE UNCHANGED <<modeVars, slotVars, published>> /\ Goto(t, "kUnSlot")
    /\ UNCHANGED <<work, cancelled, woken>>

\* ... to end, or to wait on the channel read when the request was refused
ReleaseKeepaliveSlot(t) ==
    \E from \in {"kUnSlot", "kUnSlotWait"} :
        ReleaseSlot(t, from, IF from = "kUnSlot" THEN "kCancel" ELSE "kTargetWait")

\* finishKeepaliveRequest: schedule the next request
FinishKeepaliveRequest(t) ==
    /\ At(t, "kFinish")
    /\ ReleaseTargetLocked(t, "keepalive")
    /\ woken' = woken \cup WaitingForTarget(Released(t, "keepalive"))
    /\ keepalive' = IF KeepaliveCurrent(t)
                      THEN Scheduled(KeyOf(t), "waiting_next",
                                     keepalive[KeyOf(t)].cancel, interval)
                      ELSE keepalive
    /\ Goto(t, IF KeepaliveCurrent(t) THEN "kNext" ELSE "kExit")
    /\ UNCHANGED <<job, slotVars, work, cancelled>>
    /\ Broadcast(KeepaliveCurrent(t))

\* waitKeepaliveNext: read the deadline and the schedule channel, then sleep
WaitKeepaliveNext(t) ==
    LET current == KeyOf(t) \in Known /\ KeepaliveCurrent(t) IN
    /\ At(t, "kNext")
    /\ work' = [work EXCEPT ![t].at =
                   IF current THEN keepalive[KeyOf(t)].nextRequest ELSE @]
    /\ Goto(t, IF current THEN "kSleep" ELSE "kCancel")
    /\ UNCHANGED <<modeVars, slotVars, published, cancelled, woken>>

\* The deadline passes (at once when it already has).
TimerFires(t) == Unblock(t, "kSleep", "kFirst")

\* markKeepaliveCancelled
MarkKeepaliveCancelled(t) ==
    /\ At(t, "kCancel")
    /\ ReleaseTargetLocked(t, "keepalive")
    /\ keepalive' = IF KeepaliveCurrent(t)
                      THEN Scheduled(KeyOf(t), "stopped", {}, 0)
                      ELSE keepalive
    /\ woken' = woken \cup WaitingForTarget(
           IF KeepaliveCurrent(t) THEN {KeyOf(t)} ELSE Released(t, "keepalive"))
    /\ Goto(t, "kExit")
    /\ UNCHANGED <<job, slotVars, work, cancelled>>
    /\ Broadcast(KeepaliveCurrent(t))

\* finishKeepaliveWorker, deferred
FinishKeepaliveWorker(t) ==
    LET counted == KeyOf(t) \in Known /\ keepalive[KeyOf(t)].workers > 0 IN
    /\ At(t, "kExit")
    /\ keepalive' = IF counted
                      THEN [keepalive EXCEPT ![KeyOf(t)].workers = @ - 1]
                      ELSE keepalive
    /\ Leave(t)
    /\ UNCHANGED <<job, arbiter, slotVars, woken>>
    /\ Broadcast(counted)

KeepaliveWorker(t) ==
    \/ BeginKeepaliveRequest(t)
    \/ Resume(t, "kTargetWait", "kFirst")
    \/ Acquire(t, "kSlot", "kBegin", "kSlotWait")
    \/ Resume(t, "kSlotWait", "kSlot")
    \/ KeepaliveRequest(t)
    \/ KeepaliveRefused(t)
    \/ ReleaseKeepaliveSlot(t)
    \/ CheckContext(t, "kCheck", "kCancel", "kFinish")
    \/ FinishKeepaliveRequest(t)
    \/ WaitKeepaliveNext(t)
    \/ Resume(t, "kSleep", "kNext")
    \/ MarkKeepaliveCancelled(t)
    \/ FinishKeepaliveWorker(t)

-----------------------------------------------------------------------------
(* RunAdhoc: a one-shot request on an idle target                          *)

\* Reserve the target; its copy is taken here, before a slot is granted.
RunAdhoc(t, k) ==
    /\ RunIDsLeft
    /\ k \in Known /\ ~shuttingDown /\ ~rootDone /\ ~Busy(k)
    /\ nextAdhocRunID' = nextAdhocRunID + 1
    /\ arbiter' = [arbiter EXCEPT ![k] =
           [owner |-> "adhoc", ownerRunID |-> nextAdhocRunID + 1, cancel |-> {t}]]
    /\ Spawn(t, "aSlot", k, nextAdhocRunID + 1, targets[k])
    /\ UNCHANGED <<targets, job, keepalive, slotVars, settingVars, lifeVars,
                   woken, starter, editor>>
    /\ Broadcast(TRUE)

\* The HTTP client goes away, or context.AfterFunc(m.root, cancel) runs.
AdhocCancel(t) ==
    /\ pc[t] \in AdhocPcs /\ t \notin cancelled
    /\ cancelled' = cancelled \cup {t}
    /\ UNCHANGED <<modeVars, slotVars, published, pc, work, woken>>

\* The section after the slot was granted: the process starts, unless the
\* reservation is no longer this request's
AdhocBegin(t) ==
    /\ At(t, "aBegin")
    /\ currentProcesses' = currentProcesses + (IF Owns(t, "adhoc") THEN 1 ELSE 0)
    /\ Goto(t, IF Owns(t, "adhoc") THEN "aRunning" ELSE "aQuitSlot")
    /\ UNCHANGED <<modeVars, slotsInUse, work, cancelled, woken>>
    /\ Broadcast(Owns(t, "adhoc"))

\* finishAdhocRequest, deferred; from aRunning it follows the runner's return
FinishAdhocRequest(t, from) ==
    LET slotAcquired   == from \in {"aQuitSlot", "aRunning"}
        processStarted == from = "aRunning"
    IN
    /\ At(t, from)
    /\ currentProcesses' = IF processStarted THEN Dec(currentProcesses)
                                             ELSE currentProcesses
    /\ slotsInUse' = IF slotAcquired THEN Dec(slotsInUse) ELSE slotsInUse
    /\ ReleaseTargetLocked(t, "adhoc")
    /\ woken' = woken \cup (IF slotAcquired /\ slotsInUse > 0
                              THEN WaitingForSlot ELSE {})
                      \cup WaitingForTarget(Released(t, "adhoc"))
    /\ Leave(t)
    /\ UNCHANGED <<job, keepalive>>
    /\ Broadcast(TRUE)

AdhocRequest(t) ==
    \/ Acquire(t, "aSlot", "aCheck", "aSlotWait")
    \/ Resume(t, "aSlotWait", "aSlot")
    \/ CheckContext(t, "aCheck", "aQuitSlot", "aBegin")
    \/ AdhocBegin(t)
    \/ FinishAdhocRequest(t, "aQuit")
    \/ FinishAdhocRequest(t, "aQuitSlot")

-----------------------------------------------------------------------------
(* Specification                                                           *)

WorkerStep(t) ==
    WorkerFrame /\ (QueueWorker(t) \/ KeepaliveWorker(t) \/ AdhocRequest(t))

\* A select takes its ctx.Done() case
GivesUp(t) ==
    /\ WorkerFrame
    /\ \/ GiveUp(t, "qTargetWait", "qCancel")
       \/ GiveUp(t, "qSlotWait", "qCancel")
       \/ GiveUp(t, "kTargetWait", "kCancel")
       \/ GiveUp(t, "kSlotWait", "kCancel")
       \/ GiveUp(t, "kSleep", "kCancel")
       \/ GiveUp(t, "aSlotWait", "aQuit")

\* The Codex process of a goroutine ends: the runner returns
ProcessEnds(t) ==
    /\ WorkerFrame
    /\ \/ FinishProcess(t, "qRunning", "qSuccess")
       \/ FinishProcess(t, "qRunning", "qCheck")
       \/ FinishProcess(t, "kRunning", "kCheck")
       \/ FinishAdhocRequest(t, "aRunning")

ClientLeaves(t) == WorkerFrame /\ AdhocCancel(t)

StarterStep(c) ==
    \/ \E k \in Keys : PrepareRefused(c, k) \/ PrepareMode(c, k)
    \/ WaitTargetIdle(c)
    \/ StartRefused(c)
    \/ StartLate(c)
    \/ StartRetry(c)
    \/ \E t \in Threads : StartQueue(c, t) \/ StartKeepalive(c, t)

EditorStep == EditWaitIdle \/ EditRejected \/ ApplyEdit

\* Requests from outside: chat commands, web requests, signals, clients
Calls ==
    \/ \E c \in Starters, mode \in Operations \cap {"queue", "keepalive"},
          names \in NameLists,
          subscriber \in {{}} \cup {{s} : s \in Subscribers} :
             StartCall(c, mode, names, subscriber)
    \/ "stop" \in Operations /\ \E names \in NameLists : Stop(names)
    \/ "adhoc" \in Operations /\ \E t \in Threads, k \in Keys : RunAdhoc(t, k)
    \/ \E t \in Threads : ClientLeaves(t)

Edits ==
    /\ "edit" \in Operations
    /\ \/ \E k \in Keys, def \in Defs : CreateTarget(k, def)
       \/ \E k, newKey \in Keys, def \in Defs : BeginEdit(k, newKey, def)
       \/ \E k \in Keys : BeginEdit(k, NoKey, 0)

Settings ==
    /\ "settings" \in Operations
    /\ \E i \in Intervals, limit \in Limits : UpdateSettings(i, limit)

Shutdown == "shutdown" \in Operations /\ (RootCancel \/ BeginShutdown)

\* Deadlines: nothing forces them, nothing prevents them
Timeouts ==
    \/ \E c \in Starters : WaitTimeout(c)
    \/ EditWaitTimeout
    \/ \E t \in Threads : WorkerFrame /\ TimerFires(t)

Next ==
    \/ Calls \/ Edits \/ Settings \/ Shutdown
    \/ Timeouts
    \/ \E c \in Starters : StarterStep(c)
    \/ EditorStep
    \/ \E t \in Threads : WorkerStep(t) \/ GivesUp(t) \/ ProcessEnds(t)

Spec == Init /\ [][Next]_vars

\* Fairness.  Goroutines and callers are scheduled by Go (WF).  A select with
\* several ready cases picks one at random, so a ctx.Done() case that is ready
\* infinitely often is taken (SF).  A Codex process ends once its context is
\* done: runCommand kills the process group after a grace period (WF, and
\* only then).  context.AfterFunc runs once m.root is done (WF), and main
\* calls BeginShutdown then (WF).  No fairness is assumed of slots, timers,
\* clients or commands.
Fairness ==
    /\ \A t \in Threads :
          /\ WF_vars(WorkerStep(t))
          /\ SF_vars(GivesUp(t))
          /\ WF_vars(t \in cancelled /\ ProcessEnds(t))
          /\ WF_vars(rootDone /\ ClientLeaves(t))
    /\ \A c \in Starters : WF_vars(StarterStep(c) \/ WaitTimeout(c))
    /\ WF_vars(BeginShutdown)

FairSpec == Spec /\ Fairness

-----------------------------------------------------------------------------
(* Invariants                                                              *)

JobRec       == [state : {"idle", "running", "succeeded", "stopped"},
                 runID : Nat, cancel : SUBSET Threads, workers : Nat,
                 subscribers : SUBSET Subscribers]
KeepaliveRec == [state : {"requesting", "waiting_queue", "waiting_next",
                          "stopped"},
                 runID : Nat, cancel : SUBSET Threads, workers : Nat,
                 nextRequest : Intervals \cup {0}]
ArbiterRec   == [owner : Owners, ownerRunID : Nat, cancel : SUBSET Threads]
WorkRec      == [key : Keys \cup {NoKey}, run : Nat, def : Defs \cup {0},
                 at : Intervals \cup {0}]
StarterRec   == [pc : {"idle", "prepare", "wait", "refuse", "commit"},
                 mode : {"none", "queue", "keepalive"}, todo : SUBSET Keys,
                 key : Keys \cup {NoKey}, subscriber : SUBSET Subscribers]
EditorRec    == [pc : {"idle", "wait", "apply"}, key : Keys \cup {NoKey},
                 newKey : Keys \cup {NoKey}, def : Defs \cup {0}]

\* The variables keep the types of the Manager struct and of the goroutines'
\* locals: counters stay natural numbers, and a goroutine at work, a caller
\* past prepareMode and an edit in progress have a key.
TypeOK ==
    /\ targets \in [Keys -> Defs \cup {0}]
    /\ job \in [Keys -> JobRec]
    /\ keepalive \in [Keys -> KeepaliveRec]
    /\ arbiter \in [Keys -> ArbiterRec]
    /\ slotsInUse \in Nat /\ currentProcesses \in Nat
    /\ maxParallel \in Limits /\ interval \in Intervals
    /\ nextAdhocRunID \in Nat
    /\ shuttingDown \in BOOLEAN /\ rootDone \in BOOLEAN
    /\ pc \in [Threads ->
                 {"free"} \cup QueuePcs \cup KeepalivePcs \cup AdhocPcs]
    /\ work \in [Threads -> WorkRec]
    /\ \A t \in Threads : Live(t) => KeyOf(t) \in Keys
    /\ cancelled \subseteq Threads /\ woken \subseteq Threads
    /\ starter \in [Starters -> StarterRec]
    /\ \A c \in Starters :
          starter[c].pc \in {"wait", "refuse", "commit"} => starter[c].key \in Keys
    /\ editor \in EditorRec
    /\ editor.pc # "idle" => editor.key \in Keys

RunningThreads == {t \in Threads : pc[t] \in RunningPcs}
SlotHolders    == {t \in Threads : pc[t] \in SlotPcs}

\* At most one Codex process runs on a target: the arbiter keeps queue,
\* keepalive and adhoc requests, and old and new workers of one mode, apart.
OneProcessPerTarget ==
    \A s, t \in RunningThreads : KeyOf(s) = KeyOf(t) => s = t

\* The mode of a goroutine at the given place, and of goroutine t
KindAt(label) == IF label \in QueuePcs THEN "queue"
                 ELSE IF label \in KeepalivePcs THEN "keepalive"
                 ELSE IF label \in AdhocPcs THEN "adhoc" ELSE "none"
Kind(t) == KindAt(pc[t])

\* Goroutines that own the arbiter of their target.
HoldingPcs ==
    {"qSlot", "qSlotWait", "qBegin", "qUnSlot", "qUnTarget", "qRunning",
     "qSuccess", "qCheck", "qFailure", "kRunning", "kCheck", "kFinish"}
        \cup AdhocPcs

\* ... or own it perhaps: a cancelled worker on its way out had taken its target
\* or not, and releaseTargetLocked looks which.
HeldPcs == HoldingPcs \cup {"qCancel", "kCancel"}

\* slotsInUse and currentProcesses count the goroutines that hold a slot or
\* run a process, on every path that returns early, is cancelled or fails.
SlotAccounting ==
    /\ slotsInUse = Cardinality(SlotHolders)
    /\ currentProcesses = Cardinality(RunningThreads)

\* job.workers and keepaliveJob.workers count the live worker goroutines.
WorkerCount ==
    \A k \in Keys :
        /\ job[k].workers =
              Cardinality({t \in Threads : pc[t] \in QueuePcs /\ KeyOf(t) = k})
        /\ keepalive[k].workers =
              Cardinality({t \in Threads : pc[t] \in KeepalivePcs /\ KeyOf(t) = k})

\* Queue and keepalive mode are never active on one target at once, not even
\* while the one that was switched off is still unwinding.
ModesExclusive == \A k \in Keys : ~(QueueActive(k) /\ KeepaliveActive(k))

\* A keepalive worker that saw its target free, and let go of the lock to wait
\* for a slot, still finds it free: nobody else can take it meanwhile, so the
\* second check of beginKeepaliveRequest only ever fails for a stopped run.
TargetStaysFree ==
    \A t \in Threads :
        pc[t] \in {"kSlot", "kSlotWait", "kBegin"} /\ KeepaliveCurrent(t) =>
            ~Blocked(KeyOf(t))

\* A target that is taken has its goroutine, of the owner's own run and still
\* short of its release: no early return, cancellation or superseded run
\* leaves a target taken with nobody to free it.
TargetHeld ==
    \A k \in Keys : arbiter[k].owner # "none" =>
        \E t \in Threads : /\ pc[t] \in HeldPcs /\ KeyOf(t) = k
                           /\ Owns(t, Kind(t))

\* A worker or request in flight has a target: the unchecked lookups
\* m.jobs[key], m.keepalives[key] and m.arbiters[key] never meet nil.
WorkHasTarget == \A t \in Threads : Live(t) => KeyOf(t) \in Known

\* Nobody sleeps on the slot channel while a slot is free.
NoLostSlotSignal ==
    \A t \in Threads : pc[t] \in SlotWaitPcs /\ t \notin woken =>
        slotsInUse >= maxParallel

\* Nobody sleeps on the target channel while the target is free.
NoLostTargetSignal ==
    \A t \in Threads : pc[t] \in TargetWaitPcs /\ t \notin woken =>
        IF pc[t] = "qTargetWait"
          THEN QueueCurrent(t) /\ arbiter[KeyOf(t)].owner # "none"
          ELSE KeepaliveCurrent(t) /\ Blocked(KeyOf(t))

\* The last state event shows the present state: no critical section changes
\* what a snapshot shows without a broadcast.
PublishedCurrent == published = Snapshot

\* A sleeping keepalive worker has a deadline sampled from the interval in
\* force, or its schedule channel is closed and it will read a new one.
ScheduleFresh ==
    \A t \in Threads : pc[t] = "kSleep" /\ t \notin woken /\ KeepaliveCurrent(t)
        => work[t].at = interval

\* A running mode can be stopped: its cancel function belongs to the live
\* worker of the current run; and a worker whose run was superseded has been
\* cancelled, so that it cannot stay in a request or in a wait.
WorkersCancellable ==
    /\ \A k \in Keys : job[k].state = "running" =>
          \E t \in Threads : /\ job[k].cancel = {t} /\ pc[t] \in QueuePcs
                             /\ KeyOf(t) = k /\ RunOf(t) = job[k].runID
    /\ \A k \in Keys : keepalive[k].state # "stopped" =>
          \E t \in Threads : /\ keepalive[k].cancel = {t}
                             /\ pc[t] \in KeepalivePcs
                             /\ KeyOf(t) = k /\ RunOf(t) = keepalive[k].runID
    /\ \A t \in Threads :
          \/ pc[t] \in QueuePcs \ {"qExit"} /\ ~QueueCurrent(t)
          \/ pc[t] \in KeepalivePcs \ {"kExit"} /\ ~KeepaliveCurrent(t)
          => t \in cancelled

-----------------------------------------------------------------------------
(* Action properties                                                       *)

\* A target is not edited, renamed or deleted under a worker or request.
NoEditUnderWork ==
    [][\A t \in Threads : Live(t) /\ Live(t)' =>
          targets'[KeyOf(t)] = targets[KeyOf(t)]]_vars

-----------------------------------------------------------------------------
(* Liveness                                                                *)

\* Work whose context is done leaves, wherever a stop or a mode switch catches
\* it: blocked on its target, on a slot that is never given back or on its
\* timer, running, or between two critical sections.  No thread stays
\* cancelled for good, so a switch that waits for it can succeed.
CancelledWorkEnds == \A t \in Threads : []<>(t \notin cancelled)

\* Once the process is told to stop, Wait returns: every goroutine leaves and
\* none starts again (rootDone is never undone).
ShutdownDrains == <>[](rootDone => \A t \in Threads : ~Live(t))

-----------------------------------------------------------------------------
(* What the documentation says and the code does not do                    *)

\* README: a target has one active mode, and switching cancels the current
\* request and waits for it to exit.
OneModePerTarget ==
    \A k \in Keys : arbiter[k].owner = "adhoc" =>
        job[k].state # "running" /\ keepalive[k].state = "stopped"
=============================================================================
