# Verification of codex-queue-bot

codex-queue-bot runs Codex requests against a list of *targets* (API endpoints).
A target can be in **queue** mode (retry until one request succeeds, then notify
the subscribers), in **keepalive** mode (one request every now and then, at
random intervals), or serve a single **adhoc** request from the web console.
Chat commands (OpenILink, Telegram) and the web console start and stop the
modes; the web console also edits targets and settings while everything runs.

This directory holds TLA+ modules that model the service, TLC configurations
that check them on small instances, and TLAPS proofs for every instance.

## Parts of the system

| Part | State | Operations | Hard because |
|---|---|---|---|
| Job manager (`internal/jobs/manager.go`) | targets, jobs, keepalives, arbiters, slots, run counters, observers, all behind one mutex | Start, StartKeepalive, Stop, RunAdhoc, Create/Update/DeleteTarget, UpdateSettings, BeginShutdown, Wait, and the worker loops | every operation is several critical sections with waits in between; superseded runs unwind while new ones start |
| Observers and SSE (`manager.go`, `hub/client.go`, `web/sse.go`) | bounded channels, last snapshot, change channels | Observe, publish, drop, stream | full buffers, changes in the gap before the stream listens, sessions that end under a stream |
| Notifications (`manager.go`, `messaging/proxy.go`) | subscribers, current messenger | notifySuccess with retries, hot swap | the messenger changes under a retry |
| Adapters (`hub/client.go`, `telegram/client.go`) | connection status, seen events, offset | Run, Send, Close | two goroutines write one status; duplicates after a reconnect |
| Message runtime (`cmd/.../messages.go`) | generation, current clients | Reload, forwardStatus, Close | old clients go on while new ones start |
| Codex runner (`internal/codex`) | settings, process group, output tail | Run, RunPrompt, UpdateRuntime | termination, timeout against exit |
| Configuration store (`internal/storage`) | sections, targets, administrator, revision | Load, Update*, Create/Delete | commit succeeds and reload fails |
| Web API and sessions (`internal/web`) | sessions, configuration snapshot, write lock | setup, login, logout, account, configuration, actions | checks before an unlock and effects after it; revocation |
| Web console (`frontend/src`) | page, forms, cached secrets, dialog, event source, cookie | boot, setup, login, logout, load, save, reveal, adhoc run | answers of earlier requests, visits and tabs arrive in any order or not at all |
| Commands (`internal/commands`) | allow-list | parse, call the manager, reply | wording only |
| Configuration file, proxy environment, health check | none that interacts | parsing, validation, probing | not modelled |

How they interact: adapters call the command handler, which calls the manager;
the web server calls the manager directly and serialises configuration writes
with its own lock (`configWriteMu`), handing the manager a `persist` callback
that writes the database inside the manager's critical section; the manager
calls the runner outside its lock and publishes snapshots to observers; `main`
cancels the root context, then calls `BeginShutdown`, closes the adapters and
waits. The console talks to the server through plain requests, one long request
for each manual run, and one event stream; all tabs of a browser share a cookie.

What makes the manager correct: one Codex process per target whatever is
started, stopped, switched or edited; no slot, worker count or arbiter leaks on
any early return; no lost wake-up; nothing runs on a target that is gone or
with a definition that was replaced; what is stopped ends; shutdown drains. What
makes the console correct: it shows what is the case in the end, it never offers a
form or a button for something that is not there, no form stays locked, and who
was logged out stays out.

## Modules

| Module | Contents |
|---|---|
| `Manager` | the job manager: state, actions, specification, properties |
| `ProcessPool` | what the manager promises, without modes, counters, channels or locks |
| `ManagerPool` | the refinement mapping from `Manager` to `ProcessPool` |
| `ManagerProofs` | TLAPS proofs that `Manager` keeps its types, of one process per target, exact worker counters, taken targets with their goroutines, no edit under work, exact slot counters, no lost slot signal, and the refinement |
| `ModeProofs` | TLAPS proofs about the modes, their cancel functions, the signals and deadlines that workers sleep on, the state events, and shutdown |
| `MCManager` | the instance for TLC: the symmetry set; the `.cfg` files give the constants |
| `Messages`, `MessagesProofs` | the OpenILink and Telegram clients (connection, status, sending), the message runtime that replaces them, the proxies |
| `SeenEvents` | the memory of events an OpenILink client has passed on |
| `TelegramPoll` | the poll offset of Telegram clients against the server's queue of updates |
| `Mailbox` | what the Telegram adapter promises, without polls, offsets or batches; `TelegramPoll` has the mapping |
| `Inbound`, `InboundProofs` | the two side by side, as in one process |
| `ConfigPage`, `ConfigProofs` | the configuration page with its forms, editor and cached secrets, the configuration API and the store |
| `AdhocDialog`, `AdhocProofs` | the dialog for a manual request, the call, its handler and the target it reserves |
| `Stream`, `StreamProofs` | observers, event stream, and the dashboard that shows it |
| `Session`, `SessionProofs` | the shell of the console in several tabs, cookie, sessions and the administrator |

The console's modules do not extend `Manager`: each keeps of it what its part of
the console can see. `AdhocDialog` has "the manager has other work for the target",
`Stream` has values that change at any time, and `ConfigPage` leaves running work
to `Manager`, whose `editor` is the same request seen from the other side.

### How Manager corresponds to the code

All shared state of the manager is accessed under `m.mu`, so **one action is one
critical section**, with the local work up to the next one. What happens without
the lock is a program counter: `qTargetWait` is a queue worker blocked on
`arbiter.changed`, `qSlotWait` one blocked on `parallelChanged`, `qRunning` one
inside `runner.Run`, `qCheck` one about to read `ctx.Err()`, and so on.

* `targets`, `job`, `keepalive`, `arbiter` are the maps of the `Manager` struct.
  A key with definition 0 is not in the map; its records are then the initial
  ones, which is what `CreateTarget` installs.
* A `context.CancelFunc` is the set of goroutines it cancels (empty for `nil`);
  `cancelled` is the set of goroutines whose context is done.
* A channel that is closed to signal and then replaced is modelled by `woken`:
  closing it puts every goroutine that holds it into `woken`, and a goroutine
  that read the new channel is not in it. The keepalive worker that still has
  to give its slot back (`kUnSlotWait`) already holds the channel.
* `pc` and `work` hold the goroutines of the manager: a pool `Threads`; a free
  member is a goroutine that does not exist. `work` has the captured key and
  run ID, the copy of the target, and the deadline of a sleeping keepalive.
* `starter` holds the calls of `Start` and `StartKeepalive` in progress, each a
  loop over keys with `prepareMode`, `waitTargetIdle` and the commit section.
* `editor` is the one target edit in progress: `configWriteMu` admits one.
* `published` is the snapshot in the last state event.
* Time is abstracted. A keepalive deadline is the *interval setting* it was drawn
  from, which is what `ScheduleFresh` tells apart. A deadline or timeout may fire
  at any moment.

Left out: timestamps, attempt counters, error texts, logging, display names and
sort order; target IDs (an ID names one key for as long as the edit lock is
held); the retry interval, which the code no longer uses.

### How Messages, SeenEvents and TelegramPoll correspond to the code

A client is named by its adapter and by the generation of the reload that
created it. **One action of `Messages` is one critical section** (of a status
store, a proxy, `r.mu` or `runMu`) or the end of a network request.

* `reload` is the `Reload` or `Close` in progress: `reloadMu` admits one. Its
  `pc` is the place in the function, `todo` the adapters the place still has to
  treat, OpenILink first, as the code writes it.
* `done` holds the clients whose `clientCtx` was cancelled, `stopped` those whose
  `Run` was cancelled through `runCancel`; `canStop` those with `runCancel` set.
  A `Close` that comes before `Run` has set `runCancel` does nothing, and the
  reload relies on `clientCtx` alone.
* `run[c]` is the place of `Run`: `request` stands for `DialContext` or
  `getUpdates`, `reading` for `readLoop`, `backoff` for the wait. A request may
  end with an answer even after it was cancelled.
* `fwd[c]` is `forwardStatus` with its subscription: the status it holds, the
  channel, and whether the store still has it as an observer.
* `send[s]` is a call of `Send` through a proxy: the client is read in one step
  and used in later ones. Any goroutine may send, at any time; that includes
  command handlers and notifications.
* `revoked` holds the clients whose token the server *may* reject from then on.

`SeenEvents` has the two fields of the memory and, as a history, every ID it
accepted. `TelegramPoll` has the local `offset` and the rest of the batch of each
client; the server is external and does what the Bot API documents: it numbers
updates, forgets those below the highest offset and repeats the others. A new
client starts with offset 0 while the old one may still be polling or handling,
and a process may be killed at any point. Delivery is at least once: a client
never handles an update twice, two clients may.

Left out: contents, error texts, allow-lists and the lengths of back-offs.

### How the console's modules correspond to the code

In a browser an event handler runs to its next `await` undisturbed, so **one action
is one event** (user input, an answer, an abort) up to there. On the server an
action is one critical section or, where nothing shared is read in between, a
handler. Requests, answers and failures of the connection are steps of their own.

* `ConfigPage`: `data`, `section`, `editing`, `token`, `clear`, `secrets`, `busy`
  and `secretsBusy` are the React states of the page; typing changes `data` in
  place. The page is that of one tab. `saves` and `reads` are the requests of the
  present visit with what was sent and what came back, since a component that was
  left takes no more answers. The server has the configuration twice, `db` and
  `mem`: a commit whose reload fails leaves them different. `SaveStep` covers a
  request that is lost, refused, committed, or committed without the server
  noticing. `Elsewhere` is every save this page does not wait for, in one step: those
  of other tabs and sessions, and those it gave up by leaving or because the
  connection failed. It may come at any time, and the page is not told.
* `AdhocDialog`: `target`, `prompt`, `result`, `error`, `busy` and `controller` are
  the dialog's; `Shown` is what the user sees of them. A call has a half in the
  browser (`call`) and one on the server (`server`), and nothing but the closed
  connection tells the second of the end of the first. Aborting rejects the promise
  within the same event, so the rest of `submit` is part of it.
* `Stream`: `events` from its first observer to its loop is `observe`, `arm`,
  `select` and `state` of `pc`. A message has the value that was buffered and,
  for the other parts, what they are when it is made. `wire` is the connection,
  which holds a bounded number of messages; a write that is stuck longer than the
  deadline ends the handler. The page takes messages and the answers of
  `GET /dashboard` alike. It is left at once when the session is told to be over,
  and not, as in the code, after the logout request that follows; nothing depends on
  the difference.
* `Session`: a request is where it is (`sent`; `in`, past `requireSession`;
  `establish`, past the check of password or setup; `done`), with the cookie it was
  sent with and the one its answer will set. A handler is split where it gives up a
  lock: an account is changed by `Account` (the commit and the new snapshot, under
  `configWriteMu`) and then `Revoke` (`s.mu`), so that old sessions are valid in
  between; a login removes the session it came with in `Rotate` and gets its own in
  `Establish`. `page` is which of its `return`s `App` has taken. `Use` is what users do: open, reload and close tabs, submit forms, log
  out, change the account, look at the dashboard.

Two history variables serve the properties of `Stream` alone. `late` records that an
answer to `GET /dashboard` was outdated when it replaced what the stream had told;
`gap` that the configuration changed between the first snapshot and the place where
the handler begins to listen. The code can do both, and the properties say that
nothing else goes wrong; what the two cases mean for the user is listed below.

Left out: layout, texts, notices, formatting, the selection of targets, the fields
of the forms that are copied and sent like the ones kept, and the heartbeat.

Definitions marked *Fault* are not part of the specification: each is a plausible
mistake in the definition that follows it. Putting it in that definition's place
makes TLC report the property named in `PROJECT.json` as violated, which shows
that the property can fail.

## Runs

The first five runs use `MCManager`, the others their module directly. One run looks for
a violation, and shows that there is one; all others pass.

| Run | Configuration | Checks |
|---|---|---|
| `modes` | one target, three goroutines, two callers, a subscriber, two slots; start, stop, adhoc; run counters to 3 | `OneProcessPerTarget`, `ModesExclusive`, `TargetStaysFree`, `WorkerCount`, `WorkersCancellable`, `NoLostTargetSignal`, `TargetHeld` |
| `slots` | two targets, two goroutines, limit 1 or 2 and two intervals changing at run time, both modes | `SlotAccounting`, `NoLostSlotSignal`, `ScheduleFresh`, `PublishedCurrent`, and that the manager `ImplementsPool` |
| `edits` | two names with two definitions, one goroutine; create, redefine, rename, delete against queue and adhoc | `WorkHasTarget`, `NoEditUnderWork` |
| `drain` | all modes on one target, started, stopped and switched, adhoc requests on a second one, one slot, two goroutines; run counters to 2; shutdown; with fairness | `CancelledWorkEnds`, `ShutdownDrains` |
| `one_mode` | queue start against an adhoc request | `OneModePerTarget` is violated |
| `reload` | OpenILink, two generations, a buffer of 1, one sender, rejections | `ShownFollowsClient`, `ReloadConsistent`, `ListenerStaysUp` |
| `replaced` | Telegram, two generations, a buffer of 1, shutdown, with fairness | `ReplacedClientEnds` |
| `inbound` | two Telegram clients and three updates, beside a memory of two for four events | `NoUpdateLost`, `NoDuplicateInWindow`, and that the poll `ImplementsMailbox` |
| `config` | one adapter, one token, one target, one reveal and two saves that could be in flight, saves from elsewhere, three revisions, with fairness | `OneSave`, `EnabledHasToken`, `RevisionNeverBack`, `FormsUnlock` |
| `adhoc` | two targets, two calls, with fairness | `ShownIsTrue`, `AbortEndsProcess` |
| `stream` | one part with two values, a buffer of 1, a connection of 1, one load, two changes of the configuration, with fairness | `NothingMissed`, `ConfigurationHeard`, `DeadStreamEnds`, `DashboardConverges` |
| `session` | one tab, two requests, three sessions, two accounts, with fairness | `EndedStaysEnded`, `OneFounder`, `PageHasItsRequest`, `NoPageHangs` |

`ImplementsPool` is the abstract specification as a property. In `ProcessPool` a
client takes one of a limited number of slots, begins a process on a target that
nobody uses, with the definition configured at that moment, and gives the slot back
at the end; configuration may change targets that are not in use and the limit at
any time. So it says at once that no slot is granted above the limit, that lowering
the limit interrupts nobody, that a process uses the present definition although
`RunAdhoc` and the workers copied it earlier, and that the definition stays. TLC
checks it with slots and limits that change; with targets that change it is proved.

`ImplementsMailbox` is the other one. In `Mailbox` updates are handed over in the
order in which they were sent, with no gap, once by each client, and forgotten only
after they were handed over; it knows nothing of polls, offsets and batches. It says
more than `NoUpdateLost` and `OncePerClient` (which is checked as part of it, and proved
on its own): a client that handled a batch from its newest end would lose nothing and
repeat nothing, but would turn round the order of a user's commands.

`TargetHeld` is about the exits of the worker loops. A worker that is cancelled calls
`releaseTargetLocked` whether it has taken the target or not, and the comparison with
owner and run ID decides; a superseded worker finds another owner as a matter of
course. So the danger is not a release that does nothing but an exit without one, or
one that finds the wrong run: the target would then be taken for good, with every
later worker asleep on it. The property says that a taken target always has the
goroutine that took it, short of its release.
`ShownFollowsClient` speaks of a forwarder that is subscribed. One whose buffer was
full is dropped by the store, and nothing is said of what is shown afterwards (see
below); what is checked is that a subscribed one skips nothing and that no client that
was replaced gets a word in.
`ConfigurationHeard` has two changes of the configuration, so that one can come while
the other is being told; the change in the gap is excepted and listed below.
`PageHasItsRequest` is the safety half of `NoPageHangs`: a page that is loading has a
request under way, and an answer that leads to another page finds the page that asked.

The violation is a place where the code does less than its documentation says
(`PROJECT.json`, findings): `README.md` promises one active mode per target, with
switching cancelling the current request first. A start releases the lock between
`prepareMode` and its commit, and the commit looks at the other mode but not at the
arbiter, so an adhoc request admitted in between runs on beside the new mode. Only
one process runs at a time all the same: the new worker waits for the arbiter.

Other places that a reader of the code should know, modelled and without a property
because the code does not prevent them:

* The chat reply "in progress, and subscribed" is given for every start that was
  refused, also when the wait for the old request timed out or the service is
  shutting down and nothing is in progress.
* `README.md` says that a rejected token is shown as `unauthorized` until the
  configuration changes. `Send` sets that status and then stops the listener, but a
  `Run` that is just connecting writes `connecting`, `connected` or `reconnecting` over
  it and ends, as its context is done by then.
* An event stream whose reconnect is answered with an error is closed for good by
  the browser, and the page goes on showing that it reconnects.
* A page at the setup form stays there after another tab has done the setup; every
  attempt is answered 409 until it is loaded again.
* The answer to a save of one target closes whatever editor is open by then.
* The late answer of an old logout, or of a load that was denied, takes the cookie
  or the page of somebody who has logged in again.
* The console says that changing the account revokes all sessions (`App.tsx:330`).
  A login that was verified before the change and established after the revocation
  stays valid, and so does every session when the reload after the commit fails,
  because the handler returns before it revokes.
* A configuration change between a stream's first snapshot and its first look at the
  change channel is told with the next event only, whenever that comes.
* A forwarder of status whose buffer overflowed is dropped, and the console shows its
  last word until the next reload.
* The cache of revealed secrets is forgotten with the saves of its own page. After a
  save in another tab, or one that overlapped the reveal, it is stale until the page
  saves or is left.

`TargetStaysFree` and `ModesExclusive` together say that one branch of the code
is never taken: a keepalive worker that has waited for a slot never finds its
target occupied, and the state `waiting_queue` is never entered after a slot was
granted. The branch is modelled, and would be taken if either property failed.

### Bounds

* `MaxRunID` stops the *calls* that advance a run counter once one has reached
  it; everything already started still runs to its end. Two generations of each
  mode are enough for an old worker to meet a new one; `modes` has three. In `drain`
  the second is the one a stop or a switch moves to, so that what was started is
  stopped or superseded.
* `NameLists` is what one start or stop call names. It is every set of targets but in
  `drain`, where calls name the first target only: a goroutine is cancelled there at
  each place where it blocks, on its target, on its timer, in its process, and on the
  slot, which an adhoc request on the second target may keep for good. Two targets
  with all modes on each are too many states for liveness.
* Three goroutines let a superseded worker, its successor and a third party
  (adhoc or other mode) be alive at once. The pool also bounds how many can be
  alive: a start or an adhoc call waits for a free member.
* Two targets suffice for slots, since targets interact through slots only. `slots`
  leaves stops to `modes` and `drain`, and has two goroutines, one that holds a slot
  and one that wants it.
* `edits` leaves keepalive out and has one goroutine, as edits of a target race with
  the one piece of work that target can have: two names, two definitions and several
  kinds and pieces of work together are too many states, and its properties are
  proved for all of them.
* Two adapters share nothing but the default proxy, so `reload` and `replaced` take
  one each. `reload` has the rejections and `replaced` the shutdown; the three
  properties of `reload` are proved with both, and for both adapters together.
* In `Messages` two generations are one replacement; a third client could only
  meet clients that are already forgotten. The status buffer has one place instead
  of 16 so that it overflows. `MaxGeneration` stops further reloads, nothing else.
* In `inbound` five accepted events (`MaxLog`) with a memory of two let an event be
  forgotten and accepted again; the code remembers many more. Two clients are one
  replacement or one restart.
* In `config` three revisions are the first and two saves, of which each may come from
  elsewhere, so that the answer to one can meet the result of another; `Savers` has
  two members, so that a page that did not lock its forms would have two saves in
  flight. The proofs are for any number of saves, reveals, adapters, targets and
  tokens.
* In `adhoc` the second call lets a request be submitted while an aborted one is
  ending.
* In `stream` the buffer has one place instead of 32 and 8, so that it overflows at
  the second change, and a connection of one message lets a write block; two values
  let a part change and change back. One part is
  enough for TLC's liveness; that messages of one part disturb no other is proved.
* In `session` the requests race in every pair of operations: a tab that is reloaded
  leaves its request under way and sends another, so one tab is enough for two
  submissions at once. Three sessions let one be ended by another and a third follow,
  two accounts are one change. The safety properties are proved for any number of tabs,
  requests, sessions and accounts.
* In `reload`, `replaced`, `inbound`, `config` and `stream` behaviours end when the
  process has been shut down, or when the bounds are used up and everybody waits, so
  deadlock is not checked there; in the other runs it is.
* Goroutines, callers, targets and definitions are interchangeable, and the safety
  runs of the manager use that symmetry; the liveness runs do not.

### Fairness

`FairSpec` assumes what Go's scheduler and the code give, and no more:

* a goroutine that can run eventually runs (weak fairness of each worker and
  caller);
* a `select` chooses at random among ready cases, so a `ctx.Done()` case that is
  ready again and again is chosen at last (strong fairness of giving up);
* a Codex process ends once its context is done, since `runCommand` signals the
  process group and kills it after a grace period (weak fairness, and only for
  cancelled contexts: a process that is not cancelled may run for ever);
* `context.AfterFunc` runs, and `main` calls `BeginShutdown`, once the root
  context is done.

Nothing is assumed about slots becoming free, timers, clients or commands.

In `Messages`: goroutines are scheduled (weak fairness of `Run`, of a forwarder
and of a reload in progress), which includes that requests end, since dialling
and HTTP calls have timeouts, and that a wait ends; a forwarder whose context is
done does not choose the other ready case for ever (strong fairness). Nothing is
assumed of reloads, of a connection being lost, of senders or of the server.

The liveness properties say of each thing that must end that it is over again and
again (`[]<>`) where the code may begin it anew, and over for good (`<>[]`) where
nothing can begin it anew.

In the console's modules the user is free to do nothing. Assumed are (weakly) that
handlers run to their answer and that an answer, or the failure of the connection,
reaches the page: fetches are settled by the browser in one way or the other.
`AdhocDialog` assumes besides that `net/http` notices a closed connection and that a
cancelled process ends, and nothing of a process that is not cancelled. `Stream`
assumes that the handler goes on where it does not wait, strong fairness of the cases
of its `select`, which chooses at random (for a session that is gone the signal and
the timer are one case: either ends the stream), and that the browser delivers,
notices the end of a stream and connects again. `DashboardConverges` is conditional, as nothing converges while
connections keep failing or values keep changing.

## Proofs

The theorems hold for every value of the constants that satisfies the `ASSUME` of
the module. `ConstantsAssumption` of `Manager`: the pool of goroutines is finite (as
any execution's is), `NoKey` is no key, 0 is no definition, intervals and limits are
positive, and calls name keys. The bounds (`MaxRunID`, `MaxRev`, `MaxSession`, ...) are any natural
numbers, so they hide nothing.

| Module | Theorem | States | Along |
|---|---|---|---|
| `ManagerProofs` | `TypeCorrect` | `[]TypeOK` | inductive; one lemma per group of actions |
| | `OneProcess` | `[]OneProcessPerTarget` | `ExclusionInv` |
| | `TargetPresent` | `[]WorkHasTarget` | `ExclusionInv` |
| | `WorkersCounted` | `[]WorkerCount` | `ExclusionInv` |
| | `EditsWaitForWork` | `NoEditUnderWork` | `ExclusionInv` |
| | `TakenTargetsHeld` | `[]TargetHeld` | `ExclusionInv` |
| | `SlotsCounted` | `[]SlotAccounting` | `SlotInv` |
| | `SlotSignalsArrive` | `[]NoLostSlotSignal` | `SlotInv` and itself |
| | `ManagerImplementsPool` | `ImplementsPool` | `SlotInv` |
| `ModeProofs` | `ModesExclude` | `[]ModesExclusive` | `ModeInv` |
| | `TargetKeptFree` | `[]TargetStaysFree` | `ModeInv` |
| | `WorkersCanBeCancelled` | `[]WorkersCancellable` | `ModeInv` |
| | `TargetSignalsArrive` | `[]NoLostTargetSignal` | `ModeInv` |
| | `SchedulesFresh` | `[]ScheduleFresh` | `ModeInv` |
| | `EventsCurrent` | `[]PublishedCurrent` | `ExclusionInv` and itself |
| | `RootReachesAll` | `[]RootReachesWorkers`: once the root context is done, that of every worker is | inductive with the types |
| | `NothingStartsLate` | `NoLateStart`: after `BeginShutdown` no goroutine starts | the types |
| `InboundProofs` | `TelegramTypes`, `NothingLost`, `HandledOnce` | `[]TypeOK`, `[]NoUpdateLost`, `[]OncePerClient` of `TelegramPoll` | `PassedIsHandled` |
| | `DuplicatesCaught` | `[]NoDuplicateInWindow` of `SeenEvents` | `SInv` |
| | `MailboxImplemented` | `ImplementsMailbox` | `PassedIsHandled`, `HandledIsPassed` |
| | `InboundIsSafe` | these together, for both adapters in one process | the theorems above |
| `ConfigProofs` | `LocksAreHeld` | `[]LocksHeld`: a flag that locks inputs has a request in flight that takes it back | `IInv` and itself |
| | `SavesAreAlone`, `AdaptersHaveTokens`, `NoOldRevision` | `[](TypeOK /\ OneSave)`, `[]EnabledHasToken`, `RevisionNeverBack` | `IInv` |
| `MessagesProofs` | `MessageTypes`, `ListenersStay` | `[]TypeOK`, `[]ListenerStaysUp` | `SInv` |
| | `StatusFollowsClient` | `[]ShownFollowsClient`, of forwarders that are subscribed | `FInv` |
| | `ReloadLeavesOrder` | `[]ReloadConsistent` | `CInv` |
| `AdhocProofs` | `DialogTellsTheTruth` | `[]ShownIsTrue` | `Controlled`, `Own` |
| `StreamProofs` | `StreamTypes`, `StreamMissesNothing`, `StreamHearsConfiguration` | `[]TypeOK`, `[]NothingMissed`, `[]ConfigurationHeard` | `Shape`, `Buffered`, `Initial`, `Caught` |
| `SessionProofs` | `SessionTypes`, `EndedForGood`, `SetupHasOneFounder` | `[]TypeOK`, `[]EndedStaysEnded`, `[]OneFounder` | `Settled` and each other |
| | `AnswersFindTheirPage` | `[]PageHasItsRequest` | `PageInv` |

### Exclusion

None of `OneProcessPerTarget`, `WorkHasTarget`, `WorkerCount`, `TargetHeld` and
`NoEditUnderWork` follows by induction alone, and their common
strengthening says why the design works:

* `HoldersOwn`: a goroutine between acquiring and releasing a target is the
  arbiter's recorded owner, by mode and run ID. So two of them on one target
  have the same mode and the same run ID.
* `RunsDistinct`: goroutines of one mode on one target have different run IDs.
  This is what makes `releaseTargetLocked`, which compares mode and run ID only,
  release nobody else's target.
* `RunsBounded`: no run ID is ahead of its counter, so a new run's ID is new.
* The counters live in the records of the target, and `CreateTarget`, a rename
  and a delete replace those records. `WorkHasTarget` says that a name which is
  not in use has no goroutine, and `CountsExact` (with `HoldersOwn` for adhoc
  requests) that a target which `targetBusyLocked` calls idle has none
  (`IdleHasNoWork`). Hence run counters restart only where nobody has an ID.

The step proof has one lemma for the movements of a goroutine that stays alive
(`Move`: the arbiter unchanged, taken when free, or released if owned), one for
goroutines that leave (`LeaveStep`), one for those that start (`SpawnStep`), one
for callers' steps that move no goroutine (`KeptStep`) and one for edits
(`EditStep`); each action is an instance of one of them.

`TargetHeld` is the converse of `HoldersOwn` and goes through the same lemmas: the
goroutine a taken target has is still short of its release (`HeldPcs`), or the step
released the target, or took it anew (`StaysHeld`). An edit needs that the targets it
replaces are free, which `targetBusyLocked` looks at.

### Slots and the refinement

Seen from the pool, a goroutine's step does one of five things (`Effect`): nothing
(`Quiet`), or it `Takes` a slot, `Gives` it back, `Begins` a process or `Ends` one;
the lemmas up to `GoroutineEffect` show it for every action, together with who is
woken and whose copy of a definition stays. All other steps are quiet
(`OutsideSpawns`) and change targets only under nobody (`OutsideFrame`). From
there the counters follow by the cardinality facts of the library, a sleeper is
left behind by no step, and each of the five is a step of `ProcessPool`: that
nobody else uses the target when a process begins is `OneProcess` in the state after
the step, that it is configured is `WorkHasTarget`, and that a manual request's copy
is still the configured definition is `AdhocCopy`.

### Modes, signals and deadlines

`ModeInv` adds to `ExclusionInv` what holds of every goroutine (`ThreadOK`) and of
every target (`TargetOK`). The five invariants are in it because none can be shown
without the others:

* that a worker may rely on a target it saw free (`StaysFree`) needs that queue mode
  is off for as long as a current keepalive worker is there, which is `ModesExclusive`,
  and that no second worker of its own run takes the target, which is `RunsDistinct`;
* that a sleeper is woken when its run ends (`Signalled`) and a superseded worker is
  cancelled (`StaleIsCancelled`) needs that the cancel function a stop calls is that
  of the current worker (`QueueHasWorker`, `KeepaliveHasWorker`);
* those two survive because a worker leaves only when its run is no longer the current
  one (`LeaversAreStale`), which no run checks and which is the point of the run
  counters;
* a deadline is right when the worker sleeps because it was right in the record when
  the worker read it (`OnTime` at `kNext`), and `UpdateSettings` redraws exactly the
  records of workers at these two places.

The step proof treats the goroutine that moves and the others apart. A step of
goroutine `t` changes the record of a mode only if `t` is its current worker, and
takes or frees a target in the ways `RecordsStep` lists; then every other goroutine is
`Undisturbed`, since a current worker is alone (`CurrentIsAlone`), and keeps
`ThreadOK`. `t` itself is looked at action by action (`QueueKeeps`, `KeepaliveKeeps`,
`AdhocKeeps`). Steps of callers leave the targets as they are (`QuietKeeps`), rewrite
records that nobody uses (`EditKeeps`), start a worker on a target whose modes are off
(`StartsKeep`), stop (`StopModesModes`) or redraw deadlines (`SettingsModes`).

`EventsCurrent` goes through all actions once more: each broadcasts, or leaves what a
snapshot shows as it is (`Announced`). The cases that are not obvious are the workers
of superseded runs, which give back their target without a broadcast. The target is
busy before and after because the worker itself is still counted, which is
`CountsExact`.

`RootReachesAll` and `NothingStartsLate` are what can be proved of `ShutdownDrains`:
the workers have all been told, and no others come. That those told do leave is
liveness and left to TLC.

### The other modules

* `TelegramPoll`: `NoUpdateLost` speaks of what the server has forgotten only; a
  poll makes it forget what the client's offset passes, and a batch begins where the
  server's memory begins. Hence `PassedIsHandled`: below the server's mark, every
  client's offset and the next update of every batch, everything was handled by some
  client. The server's part is the external assumption: it answers from the oldest
  update it still has, in order. `HandledIsPassed` is the other direction, what a
  client has handled is behind its offset. With both every step is one of `Mailbox` or
  none (`BoxStep`): a handler's is `Deliver`, since all before the batch's next update
  was handled and nothing the client handled comes after it; a poll that moves the
  server's mark is `Forget`; answers, crashes and new clients leave the mailbox alone.
* `SeenEvents`: the set and the list hold the same IDs (`MemoryConsistent`), the
  last ones accepted (`RemembersLatest`).
* `ConfigPage`: `Ordered` puts the copies of the configuration in the order of
  their age, the answers on their way to the page included; saves from elsewhere only
  make the database newer. `LocksHeld` goes one way only for the reveals: they share
  `secretsBusy`, so the first of two to end takes it back for both.
* `Messages`: `Installing` and `Follows` say what a forwarder's queue is at each
  place of a reload; `Noted`, `Proxied` and `Dark` what has been done to the
  adapters that a reload has passed, and is still to be done to the others.
* `AdhocDialog`: `Controlled` says that a controller is that of a call in flight, so
  that opening and closing the dialog leave no call behind.
* `Stream`: `Caught` follows a value from the buffer to the connection to the page;
  `Shape` says that what a handler wrote never reaches the page of a later one.
* `Session`: `Settled` says that nobody establishes a session before there is an
  administrator, and that a login which is past `Rotate` has ended the session it came
  with. `PageHasItsRequest` needs besides (`PageInv`) that a page with the
  setup form has no request under way but that form's: the answer to a late logout
  would otherwise lead it to the login page, and the form's answer find another page.

### Only model-checked

Every safety property that a passing run checks is proved. The liveness properties
`CancelledWorkEnds`, `ShutdownDrains`, `ReplacedClientEnds`, `FormsUnlock`,
`AbortEndsProcess`, `DeadStreamEnds`, `DashboardConverges` and `NoPageHangs` stay with
TLC, as liveness under fairness is out of the prover's reach. So is what a recursive
definition computes; no module uses one.

## Not modelled, and what could follow

* Success notifications: the retries of `notifySubscriber` through the proxies of
  `Messages`. Nothing depends on their outcome, and the code promises neither once
  nor in the end.
* The runner's termination: signal, grace period and kill. `Manager` and
  `AdhocDialog` assume what it is for, that a cancelled process ends. The output
  tail, the command line and the environment it builds have no state that
  interacts.
* The order of targets on display, and the commands' wording and allow-lists.
* Of the store: opening, migration, encryption and password hashing; of the web
  server: routing, headers, static files and the validation of strings.
* The configuration file, proxy environment and container health check, which run
  to their end before or beside the program and share no state with it.

Theorems worth proving next: that `Stream` and `AdhocDialog` implement what `Manager`
shows of itself, which needs an abstract specification of a snapshot's reader; and for
each liveness property that has none yet its safety half, as `RootReachesAll` and
`NothingStartsLate` are for `ShutdownDrains`, `PageHasItsRequest` for `NoPageHangs` and
`LocksHeld` for `FormsUnlock`.
