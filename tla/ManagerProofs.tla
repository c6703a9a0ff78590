--------------------------- MODULE ManagerProofs ---------------------------
(***************************************************************************)
(* Proofs about the job manager, for any number of targets, goroutines and *)
(* callers, and any settings.                                              *)
(*                                                                         *)
(* 1. Types.                                                               *)
(*                                                                         *)
(* 2. One Codex process per target, and nothing edited under work in       *)
(* flight.  Two goroutines that run a process on one target would both own *)
(* its arbiter, hence have the same mode and the same run ID.  So what has *)
(* to be invariant is that run IDs are never used twice.  They come from   *)
(* counters in the target's records, which CreateTarget, UpdateTarget and  *)
(* DeleteTarget replace: this is safe only while nobody works on the       *)
(* target, which those calls learn from the worker counters and the        *)
(* arbiter, so the counters have to be exact.  And a target that is taken  *)
(* has the goroutine that took it (TargetHeld).                            *)
(*                                                                         *)
(* 3. The slots.  Seen from the process pool, a goroutine's step does      *)
(* nothing, or takes a slot, gives it back, begins a process or ends it;   *)
(* with the slots counted exactly and the exclusion above, each of these   *)
(* is a step of ProcessPool.                                               *)
(*                                                                         *)
(* ModeProofs builds on the second part.                                   *)
(***************************************************************************)
EXTENDS ManagerPool, FiniteSetTheorems, TLAPS

(* The initial state is well typed.                                        *)
LEMMA TypeInit == Init => TypeOK
  <1> SUFFICES ASSUME Init PROVE TypeOK
    OBVIOUS
  <1>1. job \in [Keys -> JobRec]
    BY DEF Init, JobRec, NewJob
  <1>2. keepalive \in [Keys -> KeepaliveRec]
    BY DEF Init, KeepaliveRec, NewKeepalive
  <1>3. arbiter \in [Keys -> ArbiterRec]
    BY DEF Init, ArbiterRec, NewArbiter, Owners
  <1>4. work \in [Threads -> WorkRec]
    BY DEF Init, WorkRec, NoWork
  <1>5. starter \in [Starters -> StarterRec] /\ editor \in EditorRec
    BY DEF Init, StarterRec, EditorRec, NoStart, NoEdit
  <1>6. /\ \A c \in Starters : starter[c].pc = "idle"
        /\ editor.pc = "idle"
        /\ \A t \in Threads : ~Live(t)
    BY DEF Init, NoStart, NoEdit, Live
  <1> QED
    BY <1>1, <1>2, <1>3, <1>4, <1>5, <1>6 DEF Init, TypeOK

(* Stopping a mode leaves a well-typed record.                             *)
LEMMA StopQueueType ==
  ASSUME NEW j \in JobRec PROVE StopQueue(j) \in JobRec
  <1>1. CASE j.state # "running" /\ j.workers = 0
    BY <1>1 DEF StopQueue
  <1>2. CASE j.state = "running"
    BY <1>2 DEF StopQueue, JobRec
  <1>3. CASE j.state # "running" /\ j.workers # 0
    BY <1>3 DEF StopQueue, JobRec
  <1> QED BY <1>1, <1>2, <1>3

LEMMA StopKeepaliveType ==
  ASSUME NEW kj \in KeepaliveRec PROVE StopKeepalive(kj) \in KeepaliveRec
  <1>1. CASE kj.state = "stopped" /\ kj.workers = 0
    BY <1>1 DEF StopKeepalive
  <1>2. CASE kj.state # "stopped"
    BY <1>2 DEF StopKeepalive, KeepaliveRec
  <1>3. CASE kj.state = "stopped" /\ kj.workers # 0
    BY <1>3 DEF StopKeepalive, KeepaliveRec
  <1> QED BY <1>1, <1>2, <1>3

LEMMA StopAdhocType ==
  ASSUME NEW a \in ArbiterRec PROVE StopAdhoc(a) \in ArbiterRec
  BY DEF StopAdhoc, ArbiterRec

(* The contexts that a stop cancels belong to goroutines of the pool.      *)
LEMMA CancelOfType ==
  ASSUME TypeOK, NEW k \in Keys, NEW m \in Modes
  PROVE  CancelOf(k, m) \subseteq Threads
  BY DEF TypeOK, CancelOf, Modes, JobRec, KeepaliveRec, ArbiterRec

LEMMA StopModesType ==
  ASSUME TypeOK, NEW K \in SUBSET Keys, NEW modes \in SUBSET Modes,
         StopModes(K, modes),
         starter' \in [Starters -> StarterRec],
         \A c \in Starters : starter'[c].pc \in {"wait", "refuse", "commit"}
                                => starter'[c].key \in Keys,
         editor' \in EditorRec, editor'.pc # "idle" => editor'.key \in Keys
  PROVE  TypeOK'
  <1>1. job' \in [Keys -> JobRec]
    BY StopQueueType DEF TypeOK, StopModes
  <1>2. keepalive' \in [Keys -> KeepaliveRec]
    BY StopKeepaliveType DEF TypeOK, StopModes
  <1>3. arbiter' \in [Keys -> ArbiterRec]
    BY StopAdhocType DEF TypeOK, StopModes
  <1>4. cancelled' \subseteq Threads
    <2>1. \A k \in K : \A m \in Stoppable(k, modes) : CancelOf(k, m) \subseteq Threads
      BY CancelOfType DEF Stoppable
    <2> QED BY <2>1 DEF TypeOK, StopModes
  <1>5. woken' \subseteq Threads
    BY DEF TypeOK, StopModes, WaitingForTarget
  <1> QED
    BY <1>1, <1>2, <1>3, <1>4, <1>5
       DEF TypeOK, StopModes, slotVars, settingVars, lifeVars, Live, KeyOf

(* A record keeps its type when one of its fields is replaced.             *)
LEMMA JobFields ==
  ASSUME NEW r \in JobRec
  PROVE  /\ \A n \in Nat : [r EXCEPT !.workers = n] \in JobRec
         /\ \A S \in SUBSET Subscribers : [r EXCEPT !.subscribers = S] \in JobRec
  BY DEF JobRec

LEMMA KeepaliveFields ==
  ASSUME NEW r \in KeepaliveRec
  PROVE  /\ \A n \in Nat : [r EXCEPT !.workers = n] \in KeepaliveRec
         /\ \A i \in Intervals : [r EXCEPT !.nextRequest = i] \in KeepaliveRec
         /\ \A state \in {"requesting", "waiting_queue", "waiting_next", "stopped"} :
               [r EXCEPT !.state = state] \in KeepaliveRec
  BY DEF KeepaliveRec

(* Every step of a start call keeps the types.                             *)
LEMMA AddSubscriberType ==
  ASSUME TypeOK, NEW c \in Starters, NEW k \in Keys, AddSubscriber(c, k)
  PROVE  job' \in [Keys -> JobRec]
  <1> DEFINE S == job[k].subscribers \cup starter[c].subscriber
             r == [job[k] EXCEPT !.subscribers = S]
  <1>1. S \in SUBSET Subscribers /\ job[k] \in JobRec
    BY DEF TypeOK, StarterRec, JobRec
  <1>2. r \in JobRec
    <2> HIDE DEF S
    <2> QED BY <1>1, JobFields
  <1>3. job' = [job EXCEPT ![k] = r]
    BY DEF AddSubscriber
  <1> HIDE DEF r
  <1> QED BY <1>2, <1>3 DEF TypeOK

LEMMA NextKeyType ==
  ASSUME TypeOK, NEW c \in Starters, NextKey(c)
  PROVE  /\ starter' \in [Starters -> StarterRec]
         /\ \A d \in Starters : starter'[d].pc \in {"wait", "refuse", "commit"}
                                 => starter'[d].key \in Keys
  BY DEF TypeOK, NextKey, StarterAt, NoStart, StarterRec

(* A goroutine that starts has a place, a key and a context.               *)
LEMMA SpawnTypes ==
  ASSUME TypeOK, NEW t \in Threads, NEW label \in QueuePcs \cup KeepalivePcs \cup AdhocPcs,
         NEW k \in Keys, NEW run \in Nat, NEW def \in Defs \cup {0},
         Spawn(t, label, k, run, def)
  PROVE  /\ pc' \in [Threads -> {"free"} \cup QueuePcs \cup KeepalivePcs \cup AdhocPcs]
         /\ work' \in [Threads -> WorkRec]
         /\ \A s \in Threads : Live(s)' => KeyOf(s)' \in Keys
         /\ cancelled' \subseteq Threads
  <1> DEFINE r == [key |-> k, run |-> run, def |-> def, at |-> 0]
  <1>1. r \in WorkRec /\ r.key = k
    BY DEF WorkRec
  <1>2. work' = [work EXCEPT ![t] = r] /\ pc' = [pc EXCEPT ![t] = label]
    BY DEF Spawn, Goto
  <1>3. cancelled' \subseteq Threads
    BY DEF Spawn, TypeOK
  <1> HIDE DEF r
  <1> QED BY <1>1, <1>2, <1>3 DEF TypeOK, Live, KeyOf

LEMMA TypeStarter ==
  ASSUME TypeOK, NEW c \in Starters, StarterStep(c) \/ WaitTimeout(c)
  PROVE  TypeOK'
  <1>1. ASSUME NEW k \in Keys, PrepareRefused(c, k) PROVE TypeOK'
    BY <1>1 DEF TypeOK, PrepareRefused, AtPrepare, StarterAt, StarterRec,
                managerVars, modeVars, slotVars, settingVars, lifeVars,
                threadVars, Live, KeyOf
  <1>2. ASSUME NEW k \in Keys, PrepareMode(c, k) PROVE TypeOK'
    <2>1. starter[c] \in StarterRec
      BY DEF TypeOK
    <2>2. /\ starter' \in [Starters -> StarterRec]
          /\ \A d \in Starters : starter'[d].pc \in {"wait", "refuse", "commit"}
                                  => starter'[d].key \in Keys
      BY <1>2, <2>1 DEF TypeOK, PrepareMode, StarterAt, StarterRec
    <2>3. editor' \in EditorRec /\ (editor'.pc # "idle" => editor'.key \in Keys)
      BY <1>2 DEF TypeOK, PrepareMode
    <2>4. StopModes({k}, Modes \ {starter[c].mode})
      BY <1>2 DEF PrepareMode
    <2> QED BY <2>2, <2>3, <2>4, StopModesType
  <1>3. CASE WaitTargetIdle(c)
    BY <1>3 DEF TypeOK, WaitTargetIdle, StarterRec, managerVars, modeVars,
                slotVars, settingVars, lifeVars, threadVars, Live, KeyOf
  <1>4. CASE WaitTimeout(c)
    BY <1>4 DEF TypeOK, WaitTimeout, StarterRec, managerVars, modeVars,
                slotVars, settingVars, lifeVars, threadVars, Live, KeyOf
  <1>5. CASE StartRefused(c)
    <2>1. job' \in [Keys -> JobRec]
      BY <1>5, AddSubscriberType DEF TypeOK, StartRefused
    <2>2. /\ starter' \in [Starters -> StarterRec]
          /\ \A d \in Starters : starter'[d].pc \in {"wait", "refuse", "commit"}
                                  => starter'[d].key \in Keys
      BY <1>5, NextKeyType DEF StartRefused
    <2> QED
      BY <1>5, <2>1, <2>2 DEF TypeOK, StartRefused, slotVars, settingVars, lifeVars,
                              threadVars, Live, KeyOf
  <1>6. CASE StartLate(c)
    <2>1. job' \in [Keys -> JobRec]
      BY <1>6, AddSubscriberType DEF TypeOK, StartLate
    <2>2. /\ starter' \in [Starters -> StarterRec]
          /\ \A d \in Starters : starter'[d].pc \in {"wait", "refuse", "commit"}
                                  => starter'[d].key \in Keys
      BY <1>6, NextKeyType DEF StartLate
    <2> QED
      BY <1>6, <2>1, <2>2 DEF TypeOK, StartLate, slotVars, settingVars, lifeVars,
                              threadVars, Live, KeyOf
  <1>7. CASE StartRetry(c)
    BY <1>7 DEF TypeOK, StartRetry, MayCommit, StarterRec, managerVars,
                modeVars, slotVars, settingVars, lifeVars, threadVars, Live, KeyOf
  <1>8. ASSUME NEW t \in Threads, StartQueue(c, t) PROVE TypeOK'
    <2> DEFINE k == starter[c].key
               r == [state |-> "running", runID |-> job[k].runID + 1, cancel |-> {t},
                     workers |-> job[k].workers + 1,
                     subscribers |-> job[k].subscribers \cup starter[c].subscriber]
    <2>1. k \in Keys /\ starter[c].subscriber \in SUBSET Subscribers
      BY <1>8 DEF StartQueue, MayCommit, TypeOK, StarterRec
    <2>2. r \in JobRec /\ job[k].runID + 1 \in Nat
      BY <2>1 DEF TypeOK, JobRec
    <2>3. job' = [job EXCEPT ![k] = r] /\ Spawn(t, "qTarget", k, job[k].runID + 1, 0)
      BY <1>8 DEF StartQueue
    <2>4. woken' \subseteq Threads /\ "qTarget" \in QueuePcs
      BY <1>8 DEF StartQueue, WaitingForTarget, TypeOK, QueuePcs
    <2>5. NextKey(c) /\ UNCHANGED <<targets, keepalive, arbiter, slotVars, settingVars,
                                   nextAdhocRunID, lifeVars, editor>>
      BY <1>8 DEF StartQueue
    <2> HIDE DEF k, r
    <2>6. job' \in [Keys -> JobRec]
      BY <2>1, <2>2, <2>3 DEF TypeOK
    <2> QED
      BY <2>1, <2>2, <2>3, <2>4, <2>5, <2>6, SpawnTypes, NextKeyType
         DEF TypeOK, slotVars, settingVars, lifeVars
  <1>9. ASSUME NEW t \in Threads, StartKeepalive(c, t) PROVE TypeOK'
    <2> DEFINE k == starter[c].key
               r == [state |-> "requesting", runID |-> keepalive[k].runID + 1, cancel |-> {t},
                     workers |-> keepalive[k].workers + 1, nextRequest |-> 0]
    <2>1. k \in Keys
      BY <1>9 DEF StartKeepalive, MayCommit, TypeOK
    <2>2. r \in KeepaliveRec /\ keepalive[k].runID + 1 \in Nat
      BY <2>1 DEF TypeOK, KeepaliveRec
    <2>3. /\ keepalive' = [keepalive EXCEPT ![k] = r]
          /\ Spawn(t, "kFirst", k, keepalive[k].runID + 1, 0)
      BY <1>9 DEF StartKeepalive
    <2>4. woken' \subseteq Threads /\ "kFirst" \in KeepalivePcs
      BY <1>9 DEF StartKeepalive, WaitingForTarget, TypeOK, KeepalivePcs
    <2>5. NextKey(c) /\ UNCHANGED <<targets, job, arbiter, slotVars, settingVars,
                                   nextAdhocRunID, lifeVars, editor>>
      BY <1>9 DEF StartKeepalive
    <2> HIDE DEF k, r
    <2>6. keepalive' \in [Keys -> KeepaliveRec]
      BY <2>1, <2>2, <2>3 DEF TypeOK
    <2> QED
      BY <2>1, <2>2, <2>3, <2>4, <2>5, <2>6, SpawnTypes, NextKeyType
         DEF TypeOK, slotVars, settingVars, lifeVars
  <1> QED
    BY <1>1, <1>2, <1>3, <1>4, <1>5, <1>6, <1>7, <1>8, <1>9 DEF StarterStep

(* Calls from outside, target edits, settings and shutdown keep the types. *)
LEMMA TypeCalls ==
  ASSUME TypeOK, Calls PROVE TypeOK'
  <1>1. ASSUME NEW c \in Starters, NEW mode \in {"queue", "keepalive"},
               NEW names \in SUBSET Keys, NEW subscriber \in SUBSET Subscribers,
               StartCall(c, mode, names, subscriber)
        PROVE  TypeOK'
    BY <1>1 DEF TypeOK, StartCall, StarterRec, managerVars, modeVars, slotVars,
                settingVars, lifeVars, threadVars, Live, KeyOf
  <1>2. ASSUME NEW names \in SUBSET Keys, Stop(names) PROVE TypeOK'
    <2>1. StopModes(names \cap Known, Modes)
      BY <1>2 DEF Stop
    <2>2. starter' = starter /\ editor' = editor
      BY <1>2 DEF Stop
    <2> HIDE <1>2
    <2> QED BY <2>1, <2>2, StopModesType DEF TypeOK
  <1>3. ASSUME NEW t \in Threads, NEW k \in Keys, RunAdhoc(t, k) PROVE TypeOK'
    BY <1>3 DEF TypeOK, RunAdhoc, Known, Spawn, Goto, AdhocPcs, ArbiterRec, WorkRec,
                Owners, Modes, slotVars, settingVars, lifeVars, Live, KeyOf
  <1>4. ASSUME NEW t \in Threads, ClientLeaves(t) PROVE TypeOK'
    BY <1>4 DEF TypeOK, ClientLeaves, WorkerFrame, AdhocCancel, modeVars, slotVars,
                settingVars, lifeVars, Live, KeyOf
  <1>5. \A S \in {{}} \cup {{s} : s \in Subscribers} : S \in SUBSET Subscribers
    OBVIOUS
  <1>6. \A names \in NameLists : names \in SUBSET Keys
    BY ConstantsAssumption
  <1> QED BY <1>1, <1>2, <1>3, <1>4, <1>5, <1>6 DEF Calls

LEMMA MovedType ==
  ASSUME NEW T, NEW f \in [Keys -> T], NEW absent \in T, editor.key \in Keys
  PROVE  Moved(f, absent) \in [Keys -> T]
  BY DEF Moved

LEMMA TypeEdits ==
  ASSUME TypeOK, Edits \/ EditorStep \/ EditWaitTimeout PROVE TypeOK'
  <1>1. ASSUME NEW k \in Keys, NEW def \in Defs, CreateTarget(k, def) PROVE TypeOK'
    BY <1>1 DEF TypeOK, CreateTarget, NewJob, NewKeepalive, NewArbiter, JobRec,
                KeepaliveRec, ArbiterRec, Owners, slotVars, settingVars, lifeVars,
                threadVars, Live, KeyOf
  <1>2. ASSUME NEW k \in Keys, NEW newKey \in Keys \cup {NoKey},
               NEW def \in Defs \cup {0}, BeginEdit(k, newKey, def)
        PROVE  TypeOK'
    <2>1. StopModes({k}, Modes)
      BY <1>2 DEF BeginEdit
    <2>2. editor' \in EditorRec /\ editor'.key \in Keys
      BY <1>2 DEF BeginEdit, EditorRec
    <2>3. starter' = starter
      BY <1>2 DEF BeginEdit
    <2> QED BY <2>1, <2>2, <2>3, StopModesType DEF TypeOK
  <1>3. CASE EditWaitIdle
    BY <1>3 DEF TypeOK, EditWaitIdle, EditorRec, managerVars, modeVars, slotVars,
                settingVars, lifeVars, threadVars, Live, KeyOf
  <1>4. CASE EditWaitTimeout \/ EditRejected
    BY <1>4 DEF TypeOK, EditWaitTimeout, EditRejected, NoEdit, EditorRec, managerVars,
                modeVars, slotVars, settingVars, lifeVars, threadVars, Live, KeyOf
  <1>5. CASE ApplyEdit
    <2>1. editor \in EditorRec /\ editor.key \in Keys
      BY <1>5 DEF TypeOK, ApplyEdit, MayApply
    <2>2. NewJob \in JobRec /\ NewKeepalive \in KeepaliveRec /\ NewArbiter \in ArbiterRec
      BY DEF NewJob, NewKeepalive, NewArbiter, JobRec, KeepaliveRec, ArbiterRec, Owners
    <2>3. /\ job' \in [Keys -> JobRec]
          /\ keepalive' \in [Keys -> KeepaliveRec]
          /\ arbiter' \in [Keys -> ArbiterRec]
      BY <1>5, <2>1, <2>2, MovedType DEF TypeOK, ApplyEdit
    <2>4. Moved(targets, 0) \in [Keys -> Defs \cup {0}]
      BY <2>1, MovedType DEF TypeOK
    <2>5. targets' \in [Keys -> Defs \cup {0}]
      BY <1>5, <2>1, <2>4 DEF ApplyEdit, EditorRec
    <2>6. editor' \in EditorRec /\ editor'.pc = "idle"
      BY <1>5 DEF ApplyEdit, NoEdit, EditorRec
    <2> QED
      BY <1>5, <2>3, <2>5, <2>6 DEF TypeOK, ApplyEdit, slotVars, settingVars,
                                   lifeVars, threadVars, Live, KeyOf
  <1> QED BY <1>1, <1>2, <1>3, <1>4, <1>5 DEF Edits, EditorStep

LEMMA TypeSettings ==
  ASSUME TypeOK, Settings PROVE TypeOK'
  <1> SUFFICES ASSUME NEW i \in Intervals, NEW limit \in Limits,
                      UpdateSettings(i, limit)
               PROVE  TypeOK'
    BY DEF Settings
  <1>1. keepalive' \in [Keys -> KeepaliveRec]
    <2>1. \A k \in Keys : /\ keepalive[k] \in KeepaliveRec
                          /\ [keepalive[k] EXCEPT !.nextRequest = i] \in KeepaliveRec
      BY KeepaliveFields DEF TypeOK
    <2> QED BY <2>1 DEF UpdateSettings
  <1>2. woken' \subseteq Threads
    BY DEF TypeOK, UpdateSettings, Sleeping, WaitingForSlot
  <1> QED
    BY <1>1, <1>2 DEF TypeOK, UpdateSettings, slotVars, lifeVars, Live, KeyOf

LEMMA TypeShutdown ==
  ASSUME TypeOK, Shutdown PROVE TypeOK'
  <1>1. cancelled' \subseteq Threads
    <2>1. \A k \in Keys : /\ job[k].cancel \subseteq Threads
                          /\ keepalive[k].cancel \subseteq Threads
                          /\ arbiter[k].cancel \subseteq Threads
      BY DEF TypeOK, JobRec, KeepaliveRec, ArbiterRec
    <2>2. CASE RootCancel
      BY <2>2 DEF TypeOK, RootCancel
    <2>3. CASE BeginShutdown
      BY <2>1, <2>3 DEF TypeOK, BeginShutdown
    <2> QED BY <2>2, <2>3 DEF Shutdown
  <1> QED
    BY <1>1 DEF TypeOK, Shutdown, RootCancel, BeginShutdown, modeVars, slotVars,
                settingVars, Live, KeyOf
(* What a step of a goroutine may change, and the frame it keeps.          *)
LEMMA TypeFrame ==
  ASSUME TypeOK, WorkerFrame, NEW t \in Threads, NEW label,
         label \in {"free"} \cup QueuePcs \cup KeepalivePcs \cup AdhocPcs,
         Goto(t, label), label # "free" => Live(t),
         job' \in [Keys -> JobRec], keepalive' \in [Keys -> KeepaliveRec],
         arbiter' \in [Keys -> ArbiterRec],
         slotsInUse' \in Nat, currentProcesses' \in Nat,
         work' \in [Threads -> WorkRec],
         \A s \in Threads : s # t => work'[s] = work[s],
         label # "free" => work'[t].key = work[t].key,
         cancelled' \subseteq Threads, woken' \subseteq Threads
  PROVE  TypeOK'
  <1>1. pc' \in [Threads -> {"free"} \cup QueuePcs \cup KeepalivePcs \cup AdhocPcs]
    BY DEF TypeOK, Goto
  <1>2. \A s \in Threads : Live(s)' => KeyOf(s)' \in Keys
    BY DEF TypeOK, Goto, Live, KeyOf
  <1> QED
    BY <1>1, <1>2 DEF TypeOK, WorkerFrame, settingVars, lifeVars

(* Releasing and taking a target, and waking its waiters.                  *)
LEMMA ReleaseType ==
  ASSUME TypeOK, NEW t, NEW owner, ReleaseTargetLocked(t, owner)
  PROVE  arbiter' \in [Keys -> ArbiterRec]
  BY DEF TypeOK, ReleaseTargetLocked, NewArbiter, ArbiterRec, Owners

LEMMA TakeType ==
  ASSUME TypeOK, NEW t \in Threads, Live(t), NEW owner \in Modes, TakeTarget(t, owner)
  PROVE  arbiter' \in [Keys -> ArbiterRec]
  <1>1. RunOf(t) \in Nat /\ KeyOf(t) \in Keys
    BY DEF TypeOK, WorkRec, RunOf, KeyOf
  <1> QED
    BY <1>1 DEF TypeOK, TakeTarget, ArbiterRec, Owners

LEMMA WaitingType ==
  /\ \A K : WaitingForTarget(K) \subseteq Threads
  /\ WaitingForSlot \subseteq Threads
  BY DEF WaitingForTarget, WaitingForSlot

LEMMA LeaveType ==
  ASSUME TypeOK, NEW t \in Threads, Leave(t)
  PROVE  /\ Goto(t, "free") /\ cancelled' \subseteq Threads
         /\ work' \in [Threads -> WorkRec]
         /\ \A s \in Threads : s # t => work'[s] = work[s]
  BY DEF TypeOK, Leave, NoWork, WorkRec

LEMMA EndQueueRunType ==
  ASSUME TypeOK, NEW k \in Keys, NEW state \in {"succeeded", "stopped"},
         EndQueueRun(k, state)
  PROVE  job' \in [Keys -> JobRec]
  BY DEF TypeOK, EndQueueRun, JobRec

LEMMA ScheduledType ==
  ASSUME TypeOK, NEW k \in Keys, NEW cancel \in SUBSET Threads,
         NEW state \in {"requesting", "waiting_next", "stopped"},
         NEW next \in Intervals \cup {0}
  PROVE  Scheduled(k, state, cancel, next) \in [Keys -> KeepaliveRec]
  BY DEF TypeOK, Scheduled, KeepaliveRec

(* The steps that all goroutines share, at any labels.                     *)
LEMMA TypeShared ==
  ASSUME TypeOK, WorkerFrame, NEW t \in Threads,
         NEW from \in QueuePcs \cup KeepalivePcs \cup AdhocPcs,
         NEW to \in QueuePcs \cup KeepalivePcs \cup AdhocPcs,
         NEW other \in QueuePcs \cup KeepalivePcs \cup AdhocPcs,
         \/ Acquire(t, from, to, other) \/ Unblock(t, from, to)
         \/ CheckContext(t, from, to, other) \/ ReleaseSlot(t, from, to)
         \/ FinishProcess(t, from, to)
  PROVE  TypeOK'
  <1>0. Live(t)
    BY DEF Acquire, Unblock, CheckContext, ReleaseSlot, FinishProcess, At, Live,
           QueuePcs, KeepalivePcs, AdhocPcs
  <1>1. CASE Acquire(t, from, to, other)
    <2>1. PICK label \in {to, other} : Goto(t, label)
      BY <1>1 DEF Acquire
    <2> QED
      BY <1>0, <1>1, <2>1, TypeFrame DEF Acquire, TypeOK, modeVars
  <1>2. CASE Unblock(t, from, to)
    <2>1. /\ work' \in [Threads -> WorkRec]
          /\ \A s \in Threads : s # t => work'[s] = work[s]
          /\ work'[t].key = work[t].key
      BY <1>2 DEF Unblock, TypeOK, WorkRec
    <2>2. Goto(t, to) /\ woken' \subseteq Threads
      BY <1>2 DEF Unblock, TypeOK
    <2> QED
      BY <1>0, <1>2, <2>1, <2>2, TypeFrame DEF Unblock, TypeOK, modeVars, slotVars
  <1>3. CASE CheckContext(t, from, to, other)
    <2>1. PICK label \in {to, other} : Goto(t, label)
      BY <1>3 DEF CheckContext
    <2> QED
      BY <1>0, <1>3, <2>1, TypeFrame DEF CheckContext, TypeOK, modeVars, slotVars
  <1>4. CASE ReleaseSlot(t, from, to)
    <2>1. Goto(t, to) /\ woken' \subseteq Threads /\ slotsInUse' \in Nat
      BY <1>4, WaitingType DEF ReleaseSlot, TypeOK, Dec
    <2> QED
      BY <1>0, <1>4, <2>1, TypeFrame DEF ReleaseSlot, TypeOK, modeVars
  <1>5. CASE FinishProcess(t, from, to)
    <2>1. /\ Goto(t, to) /\ woken' \subseteq Threads
          /\ slotsInUse' \in Nat /\ currentProcesses' \in Nat
      BY <1>5, WaitingType DEF FinishProcess, TypeOK, Dec
    <2>2. /\ work' \in [Threads -> WorkRec]
          /\ \A s \in Threads : s # t => work'[s] = work[s]
          /\ work'[t].key = work[t].key
      BY <1>5 DEF FinishProcess, TypeOK, WorkRec
    <2> QED
      BY <1>0, <1>5, <2>1, <2>2, TypeFrame DEF FinishProcess, TypeOK, modeVars
  <1> QED BY <1>1, <1>2, <1>3, <1>4, <1>5
(* The steps of the queue worker.                                          *)
LEMMA TypeQueueWorker ==
  ASSUME TypeOK, WorkerFrame, NEW t \in Threads, QueueWorker(t)
  PROVE  TypeOK'
  <1>0. ASSUME Live(t) PROVE KeyOf(t) \in Keys
    BY <1>0 DEF TypeOK
  <1>1. CASE AcquireQueueTarget(t)
    <2>1. Live(t)
      BY <1>1 DEF AcquireQueueTarget, At, Live
    <2>2. PICK label \in {"qCancel", "qSlot", "qTargetWait"} : Goto(t, label)
      BY <1>1 DEF AcquireQueueTarget
    <2>3. arbiter' \in [Keys -> ArbiterRec]
      BY <1>1, <2>1, TakeType DEF AcquireQueueTarget, Modes, TypeOK
    <2> QED
      BY <1>1, <2>1, <2>2, <2>3, TypeFrame DEF AcquireQueueTarget, TypeOK, QueuePcs, slotVars
  <1>2. CASE BeginAttempt(t)
    <2>1. Live(t) /\ Goto(t, "qRunning") /\ currentProcesses' \in Nat
      BY <1>2 DEF BeginAttempt, At, Live, TypeOK
    <2>2. /\ work' \in [Threads -> WorkRec]
          /\ \A s \in Threads : s # t => work'[s] = work[s]
          /\ work'[t].key = work[t].key
      BY <1>2, <1>0, <2>1 DEF BeginAttempt, TypeOK, WorkRec
    <2> QED
      BY <1>2, <2>1, <2>2, TypeFrame DEF BeginAttempt, TypeOK, QueuePcs, modeVars
  <1>3. CASE AttemptRefused(t)
    <2>1. Live(t) /\ Goto(t, "qUnSlot")
      BY <1>3 DEF AttemptRefused, At, Live
    <2> QED
      BY <1>3, <2>1, TypeFrame DEF AttemptRefused, TypeOK, QueuePcs, modeVars, slotVars
  <1>4. CASE ReleaseTarget(t)
    <2>1. Live(t) /\ Goto(t, "qExit") /\ woken' \subseteq Threads
      BY <1>4, WaitingType DEF ReleaseTarget, At, Live, TypeOK
    <2>2. arbiter' \in [Keys -> ArbiterRec]
      BY <1>4, ReleaseType DEF ReleaseTarget
    <2> QED
      BY <1>4, <2>1, <2>2, TypeFrame DEF ReleaseTarget, TypeOK, QueuePcs, slotVars
  <1>5. CASE MarkSuccess(t)
    <2>1. Live(t) /\ Goto(t, "qExit") /\ woken' \subseteq Threads
      BY <1>5, WaitingType DEF MarkSuccess, At, Live, TypeOK
    <2>2. arbiter' \in [Keys -> ArbiterRec]
      BY <1>5, ReleaseType DEF MarkSuccess
    <2>3. job' \in [Keys -> JobRec]
      BY <1>0, <1>5, <2>1, EndQueueRunType DEF MarkSuccess, TypeOK
    <2>4. cancelled' \subseteq Threads
      BY <1>0, <1>5, <2>1 DEF MarkSuccess, TypeOK, JobRec
    <2> QED
      BY <1>5, <2>1, <2>2, <2>3, <2>4, TypeFrame DEF MarkSuccess, TypeOK, QueuePcs, slotVars
  <1>6. CASE MarkFailure(t)
    <2>1. Live(t) /\ woken' \subseteq Threads
      BY <1>6, WaitingType DEF MarkFailure, At, Live, TypeOK
    <2>2. PICK label \in {"qTarget", "qExit"} : Goto(t, label)
      BY <1>6 DEF MarkFailure
    <2>3. arbiter' \in [Keys -> ArbiterRec]
      BY <1>6, ReleaseType DEF MarkFailure
    <2> QED
      BY <1>6, <2>1, <2>2, <2>3, TypeFrame DEF MarkFailure, TypeOK, QueuePcs, slotVars
  <1>7. CASE MarkQueueCancelled(t)
    <2>1. Live(t) /\ Goto(t, "qExit") /\ woken' \subseteq Threads
      BY <1>7, WaitingType DEF MarkQueueCancelled, At, Live, TypeOK
    <2>2. arbiter' \in [Keys -> ArbiterRec]
      BY <1>7, ReleaseType DEF MarkQueueCancelled
    <2>3. job' \in [Keys -> JobRec]
      BY <1>0, <1>7, <2>1, EndQueueRunType DEF MarkQueueCancelled, TypeOK
    <2> QED
      BY <1>7, <2>1, <2>2, <2>3, TypeFrame DEF MarkQueueCancelled, TypeOK, QueuePcs, slotVars
  <1>8. CASE FinishQueueWorker(t)
    <2>1. Live(t) /\ Leave(t)
      BY <1>8 DEF FinishQueueWorker, At, Live
    <2>2. job' \in [Keys -> JobRec]
      <3>1. job[KeyOf(t)] \in JobRec /\ job[KeyOf(t)].workers \in Nat
        BY <1>0, <2>1 DEF TypeOK, JobRec
      <3>2. CASE job' = job
        BY <3>2 DEF TypeOK
      <3>3. CASE /\ job[KeyOf(t)].workers > 0
                 /\ job' = [job EXCEPT ![KeyOf(t)].workers = @ - 1]
        <4> DEFINE n == job[KeyOf(t)].workers - 1
        <4>1. n \in Nat
          BY <3>1, <3>3
        <4> DEFINE r == [job[KeyOf(t)] EXCEPT !.workers = n]
        <4>2. job' = [job EXCEPT ![KeyOf(t)] = r]
          BY <3>3
        <4>3. r \in JobRec
          <5> HIDE DEF n
          <5> QED BY <3>1, <4>1, JobFields
        <4> HIDE DEF r
        <4> QED BY <1>0, <2>1, <4>2, <4>3 DEF TypeOK
      <3> QED BY <1>8, <3>2, <3>3 DEF FinishQueueWorker
    <2> QED
      BY <1>8, <2>1, <2>2, LeaveType, TypeFrame DEF FinishQueueWorker, TypeOK, slotVars
  <1>9. CASE \/ Resume(t, "qTargetWait", "qTarget") \/ Resume(t, "qSlotWait", "qSlot")
             \/ Acquire(t, "qSlot", "qBegin", "qSlotWait")
             \/ ReleaseSlot(t, "qUnSlot", "qUnTarget")
             \/ CheckContext(t, "qCheck", "qCancel", "qFailure")
    BY <1>9, TypeShared DEF Resume, QueuePcs
  <1> QED
    BY <1>1, <1>2, <1>3, <1>4, <1>5, <1>6, <1>7, <1>8, <1>9 DEF QueueWorker

(* The steps of the keepalive worker.                                      *)
LEMMA ShowKeepaliveType ==
  ASSUME TypeOK, NEW k \in Keys,
         NEW state \in {"requesting", "waiting_queue", "waiting_next", "stopped"},
         ShowKeepalive(k, state)
  PROVE  keepalive' \in [Keys -> KeepaliveRec]
  <1> DEFINE r == [keepalive[k] EXCEPT !.state = state]
  <1>1. r \in KeepaliveRec
    BY KeepaliveFields DEF TypeOK
  <1>2. keepalive' = [keepalive EXCEPT ![k] = r]
    BY DEF ShowKeepalive
  <1> HIDE DEF r
  <1> QED BY <1>1, <1>2 DEF TypeOK

LEMMA TypeKeepaliveWorker ==
  ASSUME TypeOK, WorkerFrame, NEW t \in Threads, KeepaliveWorker(t)
  PROVE  TypeOK'
  <1>0. ASSUME Live(t) PROVE KeyOf(t) \in Keys /\ keepalive[KeyOf(t)] \in KeepaliveRec
    BY <1>0 DEF TypeOK
  <1>1. CASE BeginKeepaliveRequest(t)
    <2>1. Live(t)
      BY <1>1 DEF BeginKeepaliveRequest, At, Live
    <2>2. PICK label \in {"kTargetWait", "kSlot", "kCancel"} : Goto(t, label)
      BY <1>1 DEF BeginKeepaliveRequest
    <2>3. keepalive' \in [Keys -> KeepaliveRec]
      BY <1>0, <1>1, <2>1, ShowKeepaliveType DEF BeginKeepaliveRequest, TypeOK, modeVars
    <2>4. UNCHANGED <<job, arbiter, slotVars>>
      BY <1>1 DEF BeginKeepaliveRequest, ShowKeepalive, modeVars
    <2> QED
      BY <1>1, <2>1, <2>2, <2>3, <2>4, TypeFrame
         DEF BeginKeepaliveRequest, TypeOK, KeepalivePcs, slotVars
  <1>2. CASE KeepaliveRequest(t)
    <2>1. Live(t) /\ Goto(t, "kRunning") /\ currentProcesses' \in Nat
      BY <1>2 DEF KeepaliveRequest, At, Live, TypeOK
    <2>2. keepalive' \in [Keys -> KeepaliveRec]
      BY <1>0, <1>2, <2>1, ScheduledType DEF KeepaliveRequest, KeepaliveRec
    <2>3. arbiter' \in [Keys -> ArbiterRec]
      BY <1>2, <2>1, TakeType DEF KeepaliveRequest, Modes
    <2>4. /\ work' \in [Threads -> WorkRec]
          /\ \A s \in Threads : s # t => work'[s] = work[s]
          /\ work'[t].key = work[t].key
      BY <1>0, <1>2, <2>1 DEF KeepaliveRequest, TypeOK, WorkRec
    <2> QED
      BY <1>2, <2>1, <2>2, <2>3, <2>4, TypeFrame
         DEF KeepaliveRequest, TypeOK, KeepalivePcs
  <1>3. CASE KeepaliveRefused(t)
    <2>1. Live(t)
      BY <1>3 DEF KeepaliveRefused, At, Live
    <2>2. PICK label \in {"kUnSlotWait", "kUnSlot"} : Goto(t, label)
      BY <1>3 DEF KeepaliveRefused
    <2>3. keepalive' \in [Keys -> KeepaliveRec]
      BY <1>0, <1>3, <2>1, ShowKeepaliveType
         DEF KeepaliveRefused, TypeOK, modeVars, KeepaliveRec
    <2>4. UNCHANGED <<job, arbiter, slotVars>>
      BY <1>3 DEF KeepaliveRefused, ShowKeepalive, modeVars
    <2> QED
      BY <1>3, <2>1, <2>2, <2>3, <2>4, TypeFrame
         DEF KeepaliveRefused, TypeOK, KeepalivePcs, slotVars
  <1>4. CASE FinishKeepaliveRequest(t)
    <2>1. Live(t) /\ woken' \subseteq Threads
      BY <1>4, WaitingType DEF FinishKeepaliveRequest, At, Live, TypeOK
    <2>2. PICK label \in {"kNext", "kExit"} : Goto(t, label)
      BY <1>4 DEF FinishKeepaliveRequest
    <2>3. keepalive' \in [Keys -> KeepaliveRec]
      <3>1. /\ interval \in Intervals \cup {0} /\ keepalive \in [Keys -> KeepaliveRec]
            /\ KeyOf(t) \in Keys /\ keepalive[KeyOf(t)].cancel \in SUBSET Threads
        BY <1>0, <2>1 DEF TypeOK, KeepaliveRec
      <3>2. Scheduled(KeyOf(t), "waiting_next", keepalive[KeyOf(t)].cancel, interval)
               \in [Keys -> KeepaliveRec]
        BY <3>1, ScheduledType
      <3> QED BY <1>4, <3>1, <3>2 DEF FinishKeepaliveRequest
    <2>4. arbiter' \in [Keys -> ArbiterRec]
      BY <1>4, ReleaseType DEF FinishKeepaliveRequest
    <2> QED
      BY <1>4, <2>1, <2>2, <2>3, <2>4, TypeFrame
         DEF FinishKeepaliveRequest, TypeOK, KeepalivePcs, slotVars
  <1>5. CASE WaitKeepaliveNext(t)
    <2>1. Live(t)
      BY <1>5 DEF WaitKeepaliveNext, At, Live
    <2>2. PICK label \in {"kSleep", "kCancel"} : Goto(t, label)
      BY <1>5 DEF WaitKeepaliveNext
    <2>3. /\ work' \in [Threads -> WorkRec]
          /\ \A s \in Threads : s # t => work'[s] = work[s]
          /\ work'[t].key = work[t].key
      <3> DEFINE i == IF KeyOf(t) \in Known /\ KeepaliveCurrent(t)
                        THEN keepalive[KeyOf(t)].nextRequest ELSE work[t].at
                 r == [work[t] EXCEPT !.at = i]
      <3>1. work \in [Threads -> WorkRec] /\ work[t].at \in Intervals \cup {0}
        BY DEF TypeOK, WorkRec
      <3>2. keepalive[KeyOf(t)].nextRequest \in Intervals \cup {0}
        BY <1>0, <2>1 DEF KeepaliveRec
      <3>3. i \in Intervals \cup {0}
        BY <3>1, <3>2
      <3>4. work' = [work EXCEPT ![t] = r]
        BY <1>5 DEF WaitKeepaliveNext
      <3>5. r \in WorkRec /\ r.key = work[t].key
        <4> HIDE DEF i
        <4> QED BY <3>1, <3>3 DEF WorkRec
      <3> HIDE DEF r
      <3> QED BY <3>1, <3>4, <3>5
    <2> QED
      BY <1>5, <2>1, <2>2, <2>3, TypeFrame
         DEF WaitKeepaliveNext, TypeOK, KeepalivePcs, modeVars, slotVars
  <1>6. CASE MarkKeepaliveCancelled(t)
    <2>1. Live(t) /\ Goto(t, "kExit") /\ woken' \subseteq Threads
      BY <1>6, WaitingType DEF MarkKeepaliveCancelled, At, Live, TypeOK
    <2>2. keepalive' \in [Keys -> KeepaliveRec]
      BY <1>0, <1>6, <2>1, ScheduledType DEF MarkKeepaliveCancelled, TypeOK
    <2>3. arbiter' \in [Keys -> ArbiterRec]
      BY <1>6, ReleaseType DEF MarkKeepaliveCancelled
    <2> QED
      BY <1>6, <2>1, <2>2, <2>3, TypeFrame
         DEF MarkKeepaliveCancelled, TypeOK, KeepalivePcs, slotVars
  <1>7. CASE FinishKeepaliveWorker(t)
    <2>1. Live(t) /\ Leave(t)
      BY <1>7 DEF FinishKeepaliveWorker, At, Live
    <2>2. keepalive' \in [Keys -> KeepaliveRec]
      <3>1. keepalive[KeyOf(t)].workers \in Nat
        BY <1>0, <2>1 DEF KeepaliveRec
      <3>2. CASE keepalive' = keepalive
        BY <3>2 DEF TypeOK
      <3>3. CASE /\ keepalive[KeyOf(t)].workers > 0
                 /\ keepalive' = [keepalive EXCEPT ![KeyOf(t)].workers = @ - 1]
        <4> DEFINE n == keepalive[KeyOf(t)].workers - 1
                   r == [keepalive[KeyOf(t)] EXCEPT !.workers = n]
        <4>1. n \in Nat
          BY <3>1, <3>3
        <4>2. keepalive' = [keepalive EXCEPT ![KeyOf(t)] = r]
          BY <3>3
        <4>3. r \in KeepaliveRec
          <5> HIDE DEF n
          <5> QED BY <1>0, <2>1, <4>1, KeepaliveFields
        <4> HIDE DEF r
        <4> QED BY <1>0, <2>1, <4>2, <4>3 DEF TypeOK
      <3> QED BY <1>7, <3>2, <3>3 DEF FinishKeepaliveWorker
    <2> QED
      BY <1>7, <2>1, <2>2, LeaveType, TypeFrame
         DEF FinishKeepaliveWorker, TypeOK, slotVars
  <1>8. CASE \/ Resume(t, "kTargetWait", "kFirst") \/ Resume(t, "kSlotWait", "kSlot")
             \/ Resume(t, "kSleep", "kNext")
             \/ Acquire(t, "kSlot", "kBegin", "kSlotWait")
             \/ ReleaseKeepaliveSlot(t)
             \/ CheckContext(t, "kCheck", "kCancel", "kFinish")
    BY <1>8, TypeShared DEF Resume, ReleaseKeepaliveSlot, KeepalivePcs
  <1> QED
    BY <1>1, <1>2, <1>3, <1>4, <1>5, <1>6, <1>7, <1>8 DEF KeepaliveWorker

(* The steps of an adhoc request.                                          *)
LEMMA TypeFinishAdhoc ==
  ASSUME TypeOK, WorkerFrame, NEW t \in Threads,
         NEW from, FinishAdhocRequest(t, from)
  PROVE  TypeOK'
  <1>1. Leave(t) /\ UNCHANGED <<job, keepalive>>
    BY DEF FinishAdhocRequest
  <1>2. slotsInUse' \in Nat /\ currentProcesses' \in Nat
    BY DEF FinishAdhocRequest, TypeOK, Dec
  <1>3. arbiter' \in [Keys -> ArbiterRec]
    BY ReleaseType DEF FinishAdhocRequest
  <1>4. woken' \subseteq Threads
    BY WaitingType DEF FinishAdhocRequest, TypeOK
  <1> QED
    BY <1>1, <1>2, <1>3, <1>4, LeaveType, TypeFrame DEF TypeOK

LEMMA TypeAdhocRequest ==
  ASSUME TypeOK, WorkerFrame, NEW t \in Threads, AdhocRequest(t)
  PROVE  TypeOK'
  <1>1. CASE AdhocBegin(t)
    <2>1. Live(t) /\ currentProcesses' \in Nat
      BY <1>1 DEF AdhocBegin, At, Live, TypeOK
    <2>2. PICK label \in {"aRunning", "aQuitSlot"} : Goto(t, label)
      BY <1>1 DEF AdhocBegin
    <2> QED
      BY <1>1, <2>1, <2>2, TypeFrame DEF AdhocBegin, TypeOK, AdhocPcs, modeVars
  <1>2. CASE \/ Acquire(t, "aSlot", "aCheck", "aSlotWait")
             \/ Resume(t, "aSlotWait", "aSlot")
             \/ CheckContext(t, "aCheck", "aQuitSlot", "aBegin")
    BY <1>2, TypeShared DEF Resume, AdhocPcs
  <1> QED
    BY <1>1, <1>2, TypeFinishAdhoc DEF AdhocRequest

LEMMA TypeNext == TypeOK /\ [Next]_vars => TypeOK'
  <1> SUFFICES ASSUME TypeOK, [Next]_vars PROVE TypeOK'
    OBVIOUS
  <1>1. ASSUME NEW t \in Threads, WorkerStep(t) PROVE TypeOK'
    BY <1>1, TypeQueueWorker, TypeKeepaliveWorker, TypeAdhocRequest DEF WorkerStep
  <1>2. ASSUME NEW t \in Threads, GivesUp(t) PROVE TypeOK'
    BY <1>2, TypeShared DEF GivesUp, GiveUp, QueuePcs, KeepalivePcs, AdhocPcs
  <1>3. ASSUME NEW t \in Threads, ProcessEnds(t) PROVE TypeOK'
    BY <1>3, TypeShared, TypeFinishAdhoc DEF ProcessEnds, QueuePcs, KeepalivePcs
  <1>4. ASSUME NEW t \in Threads, WorkerFrame, TimerFires(t) PROVE TypeOK'
    BY <1>4, TypeShared DEF TimerFires, KeepalivePcs
  <1>5. CASE UNCHANGED vars
    BY <1>5 DEF TypeOK, vars, modeVars, slotVars, settingVars, lifeVars, threadVars,
                Live, KeyOf
  <1> QED
    BY <1>1, <1>2, <1>3, <1>4, <1>5, TypeCalls, TypeEdits, TypeSettings,
       TypeShutdown, TypeStarter DEF Next, Timeouts

(* The manager's variables always have their types: in particular no       *)
(* counter goes below zero and every goroutine at work has a key.          *)
THEOREM TypeCorrect == Spec => []TypeOK
  BY TypeInit, TypeNext, PTL DEF Spec

-----------------------------------------------------------------------------
(* Exclusion: the inductive invariant.                                     *)

(* No run ID is ahead of the counter it was drawn from.                    *)
RunsBounded ==
    \A t \in Threads :
        /\ Kind(t) = "queue" => RunOf(t) <= job[KeyOf(t)].runID
        /\ Kind(t) = "keepalive" => RunOf(t) <= keepalive[KeyOf(t)].runID
        /\ Kind(t) = "adhoc" => RunOf(t) <= nextAdhocRunID

(* Goroutines of one mode on one target have different run IDs.            *)
RunsDistinct ==
    \A s, t \in Threads :
        /\ Kind(s) # "none" /\ Kind(s) = Kind(t)
        /\ KeyOf(s) = KeyOf(t) /\ RunOf(s) = RunOf(t)
        => s = t

(* Goroutines between acquiring and releasing a target own its arbiter.    *)
HoldersOwn == \A t \in Threads : pc[t] \in HoldingPcs => Owns(t, Kind(t))

(* The workers that job.workers and keepaliveJob.workers count.            *)
Workers(k, kind) == {t \in Threads : Kind(t) = kind /\ KeyOf(t) = k}

CountsExact ==
    \A k \in Keys : /\ job[k].workers = Cardinality(Workers(k, "queue"))
                    /\ keepalive[k].workers = Cardinality(Workers(k, "keepalive"))

ExclusionInv ==
    /\ TypeOK
    /\ RunsBounded
    /\ RunsDistinct
    /\ HoldersOwn
    /\ TargetHeld
    /\ WorkHasTarget
    /\ CountsExact

-----------------------------------------------------------------------------
(* The places of the three kinds of goroutines do not overlap.             *)
LEMMA KindFacts ==
  /\ \A p : /\ p \in QueuePcs <=> KindAt(p) = "queue"
            /\ p \in KeepalivePcs <=> KindAt(p) = "keepalive"
            /\ p \in AdhocPcs <=> KindAt(p) = "adhoc"
            /\ p \in HoldingPcs => KindAt(p) # "none" /\ p \in HeldPcs
            /\ p \in HeldPcs => KindAt(p) # "none"
            /\ KindAt(p) \in Owners
  /\ KindAt("free") = "none"
  /\ \A p \in {"free"} \cup QueuePcs \cup KeepalivePcs \cup AdhocPcs :
        KindAt(p) = "none" => p = "free"
  BY DEF KindAt, QueuePcs, KeepalivePcs, AdhocPcs, HoldingPcs, HeldPcs, Owners, Modes

LEMMA WorkersFinite ==
  ASSUME NEW k, NEW kind
  PROVE  IsFiniteSet(Workers(k, kind)) /\ Cardinality(Workers(k, kind)) \in Nat
  BY ConstantsAssumption, FS_Subset, FS_CardinalityType DEF Workers

(* The two ways to say that the worker counters are exact.                 *)
LEMMA CountsAreWorkerCount == CountsExact => WorkerCount
  <1>1. \A k : /\ Workers(k, "queue") =
                    {t \in Threads : pc[t] \in QueuePcs /\ KeyOf(t) = k}
               /\ Workers(k, "keepalive") =
                    {t \in Threads : pc[t] \in KeepalivePcs /\ KeyOf(t) = k}
    BY KindFacts DEF Workers, Kind
  <1> QED BY <1>1 DEF CountsExact, WorkerCount

LEMMA ExclusionInit == Init => ExclusionInv
  <1> SUFFICES ASSUME Init PROVE ExclusionInv
    OBVIOUS
  <1>1. \A t \in Threads : Kind(t) = "none" /\ pc[t] = "free"
    BY KindFacts DEF Init, Kind
  <1>2. \A k : Workers(k, "queue") = {} /\ Workers(k, "keepalive") = {}
    BY <1>1 DEF Workers
  <1>3. CountsExact
    BY <1>2, FS_EmptySet DEF CountsExact, Init, NewJob, NewKeepalive
  <1>4. RunsBounded /\ RunsDistinct /\ HoldersOwn /\ WorkHasTarget
    BY <1>1, KindFacts DEF RunsBounded, RunsDistinct, HoldersOwn, WorkHasTarget, Live, Kind
  <1>5. TargetHeld
    BY DEF TargetHeld, Init, NewArbiter
  <1> QED BY <1>3, <1>4, <1>5, TypeInit DEF ExclusionInv

-----------------------------------------------------------------------------
(* Steps in which every goroutine keeps its mode, key and run ID.          *)

LocalsKept == \A s \in Threads : work'[s].key = work[s].key /\ work'[s].run = work[s].run
KindsKept  == \A s \in Threads : KindAt(pc'[s]) = KindAt(pc[s])
CountersKept ==
    /\ \A k \in Keys : /\ job'[k].runID >= job[k].runID
                       /\ job'[k].workers = job[k].workers
                       /\ keepalive'[k].runID >= keepalive[k].runID
                       /\ keepalive'[k].workers = keepalive[k].workers
                       /\ targets[k] # 0 => targets'[k] # 0
    /\ nextAdhocRunID' >= nextAdhocRunID

LEMMA IdentityKept ==
  ASSUME ExclusionInv, TypeOK', LocalsKept, KindsKept, CountersKept
  PROVE  RunsBounded' /\ RunsDistinct' /\ WorkHasTarget' /\ CountsExact'
  <1>1. /\ \A s \in Threads : KeyOf(s)' = KeyOf(s) /\ RunOf(s)' = RunOf(s)
        /\ \A s \in Threads : Kind(s)' = Kind(s)
    BY DEF LocalsKept, KindsKept, KeyOf, RunOf, Kind
  <1>2. \A s \in Threads : Kind(s) # "none" <=> Live(s)
    BY KindFacts DEF ExclusionInv, TypeOK, Kind, Live
  <1>2a. \A s \in Threads : Kind(s)' # "none" <=> Live(s)'
    BY KindFacts DEF TypeOK, Kind, Live
  <1>3. RunsBounded'
    <2> SUFFICES ASSUME NEW t \in Threads
                 PROVE  /\ Kind(t) = "queue" => RunOf(t) <= job'[KeyOf(t)].runID
                        /\ Kind(t) = "keepalive" => RunOf(t) <= keepalive'[KeyOf(t)].runID
                        /\ Kind(t) = "adhoc" => RunOf(t) <= nextAdhocRunID'
      BY <1>1 DEF RunsBounded
    <2>1. Kind(t) # "none" => KeyOf(t) \in Keys
      BY <1>2 DEF ExclusionInv, TypeOK
    <2>2. RunOf(t) \in Nat
      BY DEF ExclusionInv, TypeOK, WorkRec, RunOf
    <2>3. \A k \in Keys : /\ job[k].runID \in Nat /\ job'[k].runID \in Nat
                          /\ keepalive[k].runID \in Nat /\ keepalive'[k].runID \in Nat
      BY DEF ExclusionInv, TypeOK, JobRec, KeepaliveRec
    <2>4. nextAdhocRunID \in Nat /\ nextAdhocRunID' \in Nat
      BY DEF ExclusionInv, TypeOK
    <2> QED
      BY <2>1, <2>2, <2>3, <2>4 DEF ExclusionInv, RunsBounded, CountersKept
  <1>4. RunsDistinct'
    BY <1>1 DEF ExclusionInv, RunsDistinct
  <1>5. WorkHasTarget'
    BY <1>1, <1>2, <1>2a DEF ExclusionInv, TypeOK, WorkHasTarget, CountersKept, Known
  <1>6. CountsExact'
    <2>1. \A k, kind : Workers(k, kind)' = Workers(k, kind)
      BY <1>1 DEF Workers
    <2> QED BY <2>1 DEF ExclusionInv, CountsExact, CountersKept
  <1> QED BY <1>3, <1>4, <1>5, <1>6

-----------------------------------------------------------------------------
(* A goroutine of the same mode and target as an owner, with its run ID,   *)
(* is the owner.                                                           *)
LEMMA HolderIsAlone ==
  ASSUME ExclusionInv, NEW s \in Threads, NEW t \in Threads,
         pc[s] \in HoldingPcs, KeyOf(s) = KeyOf(t), Owns(t, Kind(t))
  PROVE  s = t
  <1>1. Owns(s, Kind(s)) /\ Kind(s) # "none"
    BY KindFacts DEF ExclusionInv, HoldersOwn, Kind
  <1>2. Kind(s) = Kind(t) /\ RunOf(s) = RunOf(t)
    BY <1>1 DEF Owns
  <1> QED BY <1>1, <1>2 DEF ExclusionInv, RunsDistinct

(* A taken target stays held: its owner is as before and its goroutine is  *)
(* still at such a place, or it is free, or has a holder of its own now.   *)
LEMMA StaysHeld ==
  ASSUME TargetHeld,
         \A k \in Keys :
            \/ arbiter'[k].owner = "none"
            \/ \E s \in Threads : pc'[s] \in HeldPcs /\ KeyOf(s)' = k /\ Owns(s, Kind(s))'
            \/ /\ arbiter'[k].owner = arbiter[k].owner
               /\ arbiter'[k].ownerRunID = arbiter[k].ownerRunID
               /\ \A s \in Threads :
                     pc[s] \in HeldPcs /\ KeyOf(s) = k /\ Owns(s, Kind(s)) =>
                        /\ pc'[s] \in HeldPcs /\ Kind(s)' = Kind(s)
                        /\ KeyOf(s)' = KeyOf(s) /\ RunOf(s)' = RunOf(s)
  PROVE  TargetHeld'
  <1> SUFFICES ASSUME NEW k \in Keys, arbiter'[k].owner # "none"
               PROVE  \E s \in Threads : pc'[s] \in HeldPcs /\ KeyOf(s)' = k /\ Owns(s, Kind(s))'
    BY DEF TargetHeld
  <1>1. CASE /\ arbiter'[k].owner = arbiter[k].owner
             /\ arbiter'[k].ownerRunID = arbiter[k].ownerRunID
             /\ \A s \in Threads :
                   pc[s] \in HeldPcs /\ KeyOf(s) = k /\ Owns(s, Kind(s)) =>
                      /\ pc'[s] \in HeldPcs /\ Kind(s)' = Kind(s)
                      /\ KeyOf(s)' = KeyOf(s) /\ RunOf(s)' = RunOf(s)
    <2>1. PICK s \in Threads : pc[s] \in HeldPcs /\ KeyOf(s) = k /\ Owns(s, Kind(s))
      BY <1>1 DEF TargetHeld
    <2>2. Owns(s, Kind(s))'
      BY <1>1, <2>1 DEF Owns
    <2> QED BY <1>1, <2>1, <2>2
  <1> QED BY <1>1

(* A step of one goroutine t that keeps its mode: the arbiter stays as it  *)
(* is, or t takes a free target, or t releases the target if it owns it.   *)
LEMMA Move ==
  ASSUME ExclusionInv, TypeOK', LocalsKept, CountersKept,
         NEW t \in Threads, NEW from, NEW to, At(t, from), Goto(t, to),
         KindAt(to) = KindAt(from), KindAt(from) # "none",
         \/ /\ arbiter' = arbiter
            /\ (to \in HoldingPcs => from \in HoldingPcs) /\ (from \in HeldPcs => to \in HeldPcs)
         \/ /\ TakeTarget(t, KindAt(from)) /\ arbiter[KeyOf(t)].owner = "none"
            /\ to \in HeldPcs
         \/ ReleaseTargetLocked(t, KindAt(from)) /\ to \notin HoldingPcs
  PROVE  ExclusionInv'
  <1>1. KindsKept
    BY DEF At, Goto, KindsKept, ExclusionInv, TypeOK
  <1>2. /\ \A s \in Threads : KeyOf(s)' = KeyOf(s) /\ RunOf(s)' = RunOf(s)
        /\ \A s \in Threads : Kind(s)' = Kind(s)
        /\ Kind(t) = KindAt(from) /\ pc'[t] = to
        /\ \A s \in Threads : s # t => pc'[s] = pc[s]
    BY <1>1 DEF LocalsKept, KindsKept, KeyOf, RunOf, Kind, At, Goto, ExclusionInv, TypeOK
  <1>3. HoldersOwn'
    <2> SUFFICES ASSUME NEW s \in Threads, pc'[s] \in HoldingPcs
                 PROVE  /\ arbiter'[KeyOf(s)].owner = Kind(s)
                        /\ arbiter'[KeyOf(s)].ownerRunID = RunOf(s)
      BY <1>2 DEF HoldersOwn, Owns
    <2>1. \A r \in Threads : Kind(r) # "none" => KeyOf(r) \in Keys
      BY KindFacts DEF ExclusionInv, TypeOK, Kind, Live
    <2>2. Kind(s) # "none" /\ KeyOf(s) \in Keys /\ KeyOf(t) \in Keys
      BY <1>2, <2>1, KindFacts DEF Kind
    <2>3. \A r \in Threads : pc[r] \in HoldingPcs => Owns(r, Kind(r))
      BY DEF ExclusionInv, HoldersOwn
    <2>4. CASE arbiter' = arbiter /\ (to \in HoldingPcs => from \in HoldingPcs)
      BY <1>2, <2>3, <2>4 DEF Owns, At
    <2>5. CASE TakeTarget(t, KindAt(from)) /\ arbiter[KeyOf(t)].owner = "none"
      <3>1. CASE s = t
        BY <1>2, <2>2, <2>5, <3>1 DEF TakeTarget, ExclusionInv, TypeOK
      <3>2. CASE s # t
        BY <1>2, <2>2, <2>3, <2>5, <3>2 DEF TakeTarget, Owns, ExclusionInv, TypeOK
      <3> QED BY <3>1, <3>2
    <2>6. CASE ReleaseTargetLocked(t, KindAt(from)) /\ to \notin HoldingPcs
      <3>1. s # t /\ pc[s] \in HoldingPcs
        BY <1>2, <2>6
      <3>2. KeyOf(s) \notin Released(t, Kind(t))
        BY <3>1, HolderIsAlone DEF Released
      <3>3. arbiter'[KeyOf(s)] = arbiter[KeyOf(s)]
        BY <1>2, <2>2, <2>6, <3>2 DEF ReleaseTargetLocked
      <3> QED BY <2>3, <3>1, <3>3 DEF Owns
    <2> QED BY <2>4, <2>5, <2>6
  <1>4. TargetHeld'
    <2>0. /\ \A s \in Threads : KeyOf(s)' = KeyOf(s) /\ RunOf(s)' = RunOf(s) /\ Kind(s)' = Kind(s)
          /\ TargetHeld /\ KeyOf(t) \in Keys /\ pc[t] = from
      BY <1>2, KindFacts DEF ExclusionInv, TypeOK, Kind, Live, At
    <2>1. CASE arbiter' = arbiter /\ (from \in HeldPcs => to \in HeldPcs)
      BY <1>2, <2>0, <2>1, StaysHeld
    <2>2. CASE /\ TakeTarget(t, KindAt(from)) /\ arbiter[KeyOf(t)].owner = "none"
               /\ to \in HeldPcs
      <3>1. Owns(t, Kind(t))'
        BY <1>2, <2>0, <2>2 DEF TakeTarget, Owns, ExclusionInv, TypeOK
      <3>2. \A k \in Keys : k # KeyOf(t) => arbiter'[k] = arbiter[k]
        BY <2>2 DEF TakeTarget, ExclusionInv, TypeOK
      <3>3. \A s \in Threads : KeyOf(s) # KeyOf(t) => pc'[s] = pc[s]
        BY <1>2
      <3> QED BY <1>2, <2>0, <2>2, <3>1, <3>2, <3>3, StaysHeld
    <2>3. CASE ReleaseTargetLocked(t, KindAt(from))
      <3> SUFFICES ASSUME NEW k \in Keys, arbiter'[k].owner # "none"
                   PROVE  /\ arbiter'[k] = arbiter[k]
                          /\ \A s \in Threads : KeyOf(s) = k /\ Owns(s, Kind(s)) => pc'[s] = pc[s]
        BY <2>0, StaysHeld
      <3>1. k \notin Released(t, Kind(t)) /\ arbiter'[k] = arbiter[k]
        BY <1>2, <2>3 DEF ReleaseTargetLocked, NewArbiter
      <3> QED BY <1>2, <3>1 DEF Released
    <2> QED BY <2>1, <2>2, <2>3
  <1> QED BY <1>1, <1>3, <1>4, IdentityKept DEF ExclusionInv

(* The steps that all goroutines share, between places of one mode.        *)
LEMMA SharedChoice ==
  ASSUME ExclusionInv, TypeOK', WorkerFrame, NEW t \in Threads,
         NEW from, NEW to, NEW other,
         KindAt(from) # "none", KindAt(to) = KindAt(from), KindAt(other) = KindAt(from),
         to \in HoldingPcs \/ other \in HoldingPcs => from \in HoldingPcs,
         from \in HeldPcs => to \in HeldPcs /\ other \in HeldPcs,
         \/ Acquire(t, from, to, other) \/ Unblock(t, from, to)
         \/ CheckContext(t, from, to, other) \/ ReleaseSlot(t, from, to)
         \/ FinishProcess(t, from, to)
  PROVE  ExclusionInv'
  <1>1. UNCHANGED <<job, keepalive, arbiter, targets, nextAdhocRunID>>
    BY DEF Acquire, Unblock, CheckContext, ReleaseSlot, FinishProcess, modeVars,
           WorkerFrame
  <1>2. LocalsKept
    <2>1. CASE work' = work
      BY <2>1 DEF LocalsKept
    <2>2. CASE Unblock(t, from, to)
      BY <2>2 DEF Unblock, LocalsKept, ExclusionInv, TypeOK, WorkRec
    <2>3. CASE FinishProcess(t, from, to)
      BY <2>3 DEF FinishProcess, LocalsKept, ExclusionInv, TypeOK, WorkRec
    <2> QED BY <2>1, <2>2, <2>3 DEF Acquire, CheckContext, ReleaseSlot
  <1>3. CountersKept
    BY <1>1 DEF CountersKept, ExclusionInv, TypeOK, JobRec, KeepaliveRec
  <1>4. At(t, from) /\ \E label \in {to, other} : Goto(t, label)
    BY DEF Acquire, Unblock, CheckContext, ReleaseSlot, FinishProcess
  <1> QED BY <1>1, <1>2, <1>3, <1>4, Move

LEMMA SharedMove ==
  ASSUME ExclusionInv, TypeOK', WorkerFrame, NEW t \in Threads, NEW from, NEW to,
         KindAt(from) # "none", KindAt(to) = KindAt(from),
         to \in HoldingPcs => from \in HoldingPcs, from \in HeldPcs => to \in HeldPcs,
         Unblock(t, from, to) \/ ReleaseSlot(t, from, to) \/ FinishProcess(t, from, to)
  PROVE  ExclusionInv'
  BY SharedChoice

(* Updates of a record that leave its run counter and workers alone.       *)
LEMMA CountersOfFrame ==
  ASSUME ExclusionInv, WorkerFrame,
         \A k \in Keys : /\ job'[k].runID = job[k].runID
                         /\ job'[k].workers = job[k].workers
                         /\ keepalive'[k].runID = keepalive[k].runID
                         /\ keepalive'[k].workers = keepalive[k].workers
  PROVE  CountersKept
  BY DEF CountersKept, ExclusionInv, TypeOK, JobRec, KeepaliveRec, WorkerFrame

LEMMA QueueMove ==
  ASSUME ExclusionInv, TypeOK', WorkerFrame, NEW t \in Threads, QueueWorker(t),
         ~FinishQueueWorker(t)
  PROVE  ExclusionInv'
  <1>0. \A p \in QueuePcs : KindAt(p) = "queue"
    BY KindFacts
  <1>a. \A p \in QueuePcs : At(t, p) => KeyOf(t) \in Keys
    BY DEF ExclusionInv, TypeOK, At, Live, QueuePcs
  <1>1. CASE AcquireQueueTarget(t)
    <2>1. At(t, "qTarget") /\ LocalsKept /\ UNCHANGED <<job, keepalive>>
      BY <1>1 DEF AcquireQueueTarget, LocalsKept
    <2>2. CountersKept
      BY <2>1, CountersOfFrame
    <2>3. CASE QueueCurrent(t) /\ arbiter[KeyOf(t)].owner = "none"
      <3>1. Goto(t, "qSlot") /\ TakeTarget(t, "queue")
        BY <1>1, <2>3 DEF AcquireQueueTarget
      <3> QED BY <1>0, <2>1, <2>2, <2>3, <3>1, Move DEF QueuePcs, HoldingPcs, HeldPcs
    <2>4. CASE ~(QueueCurrent(t) /\ arbiter[KeyOf(t)].owner = "none")
      <3>1. PICK to \in {"qCancel", "qTargetWait"} : Goto(t, to)
        BY <1>1, <2>4 DEF AcquireQueueTarget
      <3>2. arbiter' = arbiter
        BY <1>1, <2>4 DEF AcquireQueueTarget
      <3> QED BY <1>0, <2>1, <2>2, <3>1, <3>2, Move DEF QueuePcs, HoldingPcs, HeldPcs, AdhocPcs
    <2> QED BY <2>3, <2>4
  <1>2. CASE BeginAttempt(t)
    <2>1. At(t, "qBegin") /\ Goto(t, "qRunning") /\ UNCHANGED <<job, keepalive, arbiter>>
      BY <1>2 DEF BeginAttempt, modeVars
    <2>2. LocalsKept
      BY <1>2 DEF BeginAttempt, LocalsKept, ExclusionInv, TypeOK, WorkRec
    <2>3. CountersKept
      BY <2>1, CountersOfFrame
    <2> QED BY <1>0, <2>1, <2>2, <2>3, Move DEF QueuePcs, HoldingPcs, HeldPcs
  <1>3. CASE AttemptRefused(t)
    <2>1. /\ At(t, "qBegin") /\ Goto(t, "qUnSlot") /\ LocalsKept
          /\ UNCHANGED <<job, keepalive, arbiter>>
      BY <1>3 DEF AttemptRefused, modeVars, LocalsKept
    <2>2. CountersKept
      BY <2>1, CountersOfFrame
    <2> QED BY <1>0, <2>1, <2>2, Move DEF QueuePcs, HoldingPcs, HeldPcs
  <1>4. CASE ReleaseTarget(t)
    <2>1. /\ At(t, "qUnTarget") /\ Goto(t, "qExit") /\ LocalsKept
          /\ ReleaseTargetLocked(t, "queue") /\ UNCHANGED <<job, keepalive>>
      BY <1>4 DEF ReleaseTarget, LocalsKept
    <2>2. CountersKept
      BY <2>1, CountersOfFrame
    <2> QED BY <1>0, <2>1, <2>2, Move DEF QueuePcs, HoldingPcs, HeldPcs, AdhocPcs
  <1>b. \A state : EndQueueRun(KeyOf(t), state) /\ KeyOf(t) \in Keys =>
           \A k \in Keys : job'[k].runID = job[k].runID /\ job'[k].workers = job[k].workers
    BY DEF EndQueueRun, ExclusionInv, TypeOK, JobRec
  <1>5. CASE MarkSuccess(t)
    <2>1. /\ At(t, "qSuccess") /\ Goto(t, "qExit") /\ LocalsKept
          /\ ReleaseTargetLocked(t, "queue") /\ keepalive' = keepalive
          /\ EndQueueRun(KeyOf(t), "succeeded") \/ job' = job
      BY <1>5 DEF MarkSuccess, LocalsKept
    <2>2. CountersKept
      BY <1>a, <1>b, <2>1, CountersOfFrame DEF QueuePcs
    <2> QED BY <1>0, <2>1, <2>2, Move DEF QueuePcs, HoldingPcs, HeldPcs, AdhocPcs
  <1>6. CASE MarkFailure(t)
    <2>1. /\ At(t, "qFailure") /\ LocalsKept
          /\ ReleaseTargetLocked(t, "queue") /\ UNCHANGED <<job, keepalive>>
      BY <1>6 DEF MarkFailure, LocalsKept
    <2>2. PICK to \in {"qTarget", "qExit"} : Goto(t, to)
      BY <1>6 DEF MarkFailure
    <2>3. CountersKept
      BY <2>1, CountersOfFrame
    <2> QED BY <1>0, <2>1, <2>2, <2>3, Move DEF QueuePcs, HoldingPcs, HeldPcs, AdhocPcs
  <1>7. CASE MarkQueueCancelled(t)
    <2>1. /\ At(t, "qCancel") /\ Goto(t, "qExit") /\ LocalsKept
          /\ ReleaseTargetLocked(t, "queue") /\ keepalive' = keepalive
          /\ EndQueueRun(KeyOf(t), "stopped") \/ job' = job
      BY <1>7 DEF MarkQueueCancelled, LocalsKept
    <2>2. CountersKept
      BY <1>a, <1>b, <2>1, CountersOfFrame DEF QueuePcs
    <2> QED BY <1>0, <2>1, <2>2, Move DEF QueuePcs, HoldingPcs, HeldPcs, AdhocPcs
  <1>8. CASE Resume(t, "qTargetWait", "qTarget") \/ Resume(t, "qSlotWait", "qSlot")
    BY <1>0, <1>8, SharedMove DEF Resume, QueuePcs, HoldingPcs, HeldPcs, AdhocPcs
  <1>9. CASE \/ Acquire(t, "qSlot", "qBegin", "qSlotWait")
             \/ CheckContext(t, "qCheck", "qCancel", "qFailure")
    BY <1>0, <1>9, SharedChoice DEF QueuePcs, HoldingPcs, HeldPcs
  <1>10. CASE ReleaseSlot(t, "qUnSlot", "qUnTarget")
    BY <1>0, <1>10, SharedMove DEF QueuePcs, HoldingPcs, HeldPcs
  <1> QED
    BY <1>1, <1>2, <1>3, <1>4, <1>5, <1>6, <1>7, <1>8, <1>9, <1>10 DEF QueueWorker

LEMMA KeepaliveMove ==
  ASSUME ExclusionInv, TypeOK', WorkerFrame, NEW t \in Threads, KeepaliveWorker(t),
         ~FinishKeepaliveWorker(t)
  PROVE  ExclusionInv'
  <1>0. \A p \in KeepalivePcs : KindAt(p) = "keepalive"
    BY KindFacts
  <1>a. \A p \in KeepalivePcs : At(t, p) => KeyOf(t) \in Keys
    BY DEF ExclusionInv, TypeOK, At, Live, KeepalivePcs
  <1>b. \A state, cancel, next : keepalive' = Scheduled(KeyOf(t), state, cancel, next) =>
           \A k \in Keys : /\ keepalive'[k].runID = keepalive[k].runID
                           /\ keepalive'[k].workers = keepalive[k].workers
    BY DEF Scheduled, ExclusionInv, TypeOK, KeepaliveRec
  <1>c. \A state : ShowKeepalive(KeyOf(t), state) =>
           /\ \A k \in Keys : /\ keepalive'[k].runID = keepalive[k].runID
                              /\ keepalive'[k].workers = keepalive[k].workers
           /\ UNCHANGED <<job, arbiter>>
    BY DEF ShowKeepalive, ExclusionInv, TypeOK, KeepaliveRec
  <1>1. CASE BeginKeepaliveRequest(t)
    <2>1. At(t, "kFirst") /\ LocalsKept
      BY <1>1 DEF BeginKeepaliveRequest, LocalsKept
    <2>2. PICK to \in {"kTargetWait", "kSlot", "kCancel"} : Goto(t, to)
      BY <1>1 DEF BeginKeepaliveRequest
    <2>3. \/ \E state : ShowKeepalive(KeyOf(t), state)
          \/ UNCHANGED <<job, keepalive, arbiter>>
      BY <1>1 DEF BeginKeepaliveRequest, modeVars
    <2>4. CountersKept /\ arbiter' = arbiter
      BY <1>c, <2>3, CountersOfFrame
    <2> QED BY <1>0, <2>1, <2>2, <2>4, Move DEF KeepalivePcs, HoldingPcs, HeldPcs, AdhocPcs
  <1>2. CASE KeepaliveRequest(t)
    <2>1. /\ At(t, "kBegin") /\ Goto(t, "kRunning") /\ TakeTarget(t, "keepalive")
          /\ arbiter[KeyOf(t)].owner = "none" /\ job' = job
          /\ keepalive' = Scheduled(KeyOf(t), "requesting", keepalive[KeyOf(t)].cancel, 0)
      BY <1>2 DEF KeepaliveRequest, Blocked
    <2>2. LocalsKept
      BY <1>2 DEF KeepaliveRequest, LocalsKept, ExclusionInv, TypeOK, WorkRec
    <2>3. CountersKept
      BY <1>b, <2>1, CountersOfFrame
    <2> QED BY <1>0, <2>1, <2>2, <2>3, Move DEF KeepalivePcs, HoldingPcs, HeldPcs
  <1>3. CASE KeepaliveRefused(t)
    <2>1. At(t, "kBegin") /\ LocalsKept
      BY <1>3 DEF KeepaliveRefused, LocalsKept
    <2>2. PICK to \in {"kUnSlotWait", "kUnSlot"} : Goto(t, to)
      BY <1>3 DEF KeepaliveRefused
    <2>3. \/ \E state : ShowKeepalive(KeyOf(t), state)
          \/ UNCHANGED <<job, keepalive, arbiter>>
      BY <1>3 DEF KeepaliveRefused, modeVars
    <2>4. CountersKept /\ arbiter' = arbiter
      BY <1>c, <2>3, CountersOfFrame
    <2> QED BY <1>0, <2>1, <2>2, <2>4, Move DEF KeepalivePcs, HoldingPcs, HeldPcs, AdhocPcs
  <1>4. CASE FinishKeepaliveRequest(t)
    <2>1. /\ At(t, "kFinish") /\ LocalsKept /\ job' = job
          /\ ReleaseTargetLocked(t, "keepalive")
          /\ \/ keepalive' = keepalive
             \/ keepalive' = Scheduled(KeyOf(t), "waiting_next",
                                       keepalive[KeyOf(t)].cancel, interval)
      BY <1>4 DEF FinishKeepaliveRequest, LocalsKept
    <2>2. PICK to \in {"kNext", "kExit"} : Goto(t, to)
      BY <1>4 DEF FinishKeepaliveRequest
    <2>3. CountersKept
      BY <1>b, <2>1, CountersOfFrame
    <2> QED BY <1>0, <2>1, <2>2, <2>3, Move DEF KeepalivePcs, HoldingPcs, HeldPcs, AdhocPcs
  <1>5. CASE WaitKeepaliveNext(t)
    <2>1. At(t, "kNext") /\ UNCHANGED <<job, keepalive, arbiter>>
      BY <1>5 DEF WaitKeepaliveNext, modeVars
    <2>2. PICK to \in {"kSleep", "kCancel"} : Goto(t, to)
      BY <1>5 DEF WaitKeepaliveNext
    <2>3. LocalsKept
      BY <1>5 DEF WaitKeepaliveNext, LocalsKept, ExclusionInv, TypeOK, WorkRec
    <2>4. CountersKept
      BY <2>1, CountersOfFrame
    <2> QED BY <1>0, <2>1, <2>2, <2>3, <2>4, Move DEF KeepalivePcs, HoldingPcs, HeldPcs, AdhocPcs
  <1>6. CASE MarkKeepaliveCancelled(t)
    <2>1. /\ At(t, "kCancel") /\ Goto(t, "kExit") /\ LocalsKept /\ job' = job
          /\ ReleaseTargetLocked(t, "keepalive")
          /\ \/ keepalive' = keepalive
             \/ keepalive' = Scheduled(KeyOf(t), "stopped", {}, 0)
      BY <1>6 DEF MarkKeepaliveCancelled, LocalsKept
    <2>2. CountersKept
      BY <1>b, <2>1, CountersOfFrame
    <2> QED BY <1>0, <2>1, <2>2, Move DEF KeepalivePcs, HoldingPcs, HeldPcs, AdhocPcs
  <1>7. CASE \/ Resume(t, "kTargetWait", "kFirst") \/ Resume(t, "kSlotWait", "kSlot")
             \/ Resume(t, "kSleep", "kNext")
    BY <1>0, <1>7, SharedMove DEF Resume, KeepalivePcs, HoldingPcs, HeldPcs, AdhocPcs
  <1>8. CASE \/ Acquire(t, "kSlot", "kBegin", "kSlotWait")
             \/ CheckContext(t, "kCheck", "kCancel", "kFinish")
    BY <1>0, <1>8, SharedChoice DEF KeepalivePcs, HoldingPcs, HeldPcs, AdhocPcs
  <1>9. CASE ReleaseKeepaliveSlot(t)
    BY <1>0, <1>9, SharedMove DEF ReleaseKeepaliveSlot, KeepalivePcs, HoldingPcs, HeldPcs, AdhocPcs
  <1> QED
    BY <1>1, <1>2, <1>3, <1>4, <1>5, <1>6, <1>7, <1>8, <1>9 DEF KeepaliveWorker

LEMMA AdhocMove ==
  ASSUME ExclusionInv, TypeOK', WorkerFrame, NEW t \in Threads, 
         \/ AdhocBegin(t)
         \/ Acquire(t, "aSlot", "aCheck", "aSlotWait")
         \/ Resume(t, "aSlotWait", "aSlot")
         \/ CheckContext(t, "aCheck", "aQuitSlot", "aBegin")
  PROVE  ExclusionInv'
  <1>0. \A p \in AdhocPcs : KindAt(p) = "adhoc" /\ p \in HoldingPcs /\ p \in HeldPcs
    BY KindFacts DEF HoldingPcs, HeldPcs
  <1>1. CASE AdhocBegin(t)
    <2>1. At(t, "aBegin") /\ LocalsKept /\ UNCHANGED <<job, keepalive, arbiter>>
      BY <1>1 DEF AdhocBegin, LocalsKept, modeVars
    <2>2. PICK to \in {"aRunning", "aQuitSlot"} : Goto(t, to)
      BY <1>1 DEF AdhocBegin
    <2>3. CountersKept
      BY <2>1, CountersOfFrame
    <2> QED BY <1>0, <2>1, <2>2, <2>3, Move DEF AdhocPcs
  <1>2. CASE \/ Acquire(t, "aSlot", "aCheck", "aSlotWait")
             \/ CheckContext(t, "aCheck", "aQuitSlot", "aBegin")
    BY <1>0, <1>2, SharedChoice DEF AdhocPcs
  <1>3. CASE Resume(t, "aSlotWait", "aSlot")
    BY <1>0, <1>3, SharedMove DEF Resume, AdhocPcs
  <1> QED BY <1>1, <1>2, <1>3

(* Context done, process ended or timer fired: a goroutine stops blocking. *)
LEMMA ReturnMove ==
  ASSUME ExclusionInv, TypeOK', NEW t \in Threads,
         \/ GivesUp(t)
         \/ ProcessEnds(t) /\ ~FinishAdhocRequest(t, "aRunning")
         \/ WorkerFrame /\ TimerFires(t)
  PROVE  ExclusionInv'
  <1>0. /\ \A p \in QueuePcs : KindAt(p) = "queue"
        /\ \A p \in KeepalivePcs : KindAt(p) = "keepalive"
        /\ \A p \in AdhocPcs : KindAt(p) = "adhoc"
    BY KindFacts
  <1>1. CASE GivesUp(t)
    BY <1>0, <1>1, SharedMove DEF GivesUp, GiveUp, QueuePcs, KeepalivePcs, AdhocPcs, HoldingPcs, HeldPcs
  <1>2. CASE ProcessEnds(t) /\ ~FinishAdhocRequest(t, "aRunning")
    BY <1>0, <1>2, SharedMove DEF ProcessEnds, QueuePcs, KeepalivePcs, HoldingPcs, HeldPcs
  <1>3. CASE WorkerFrame /\ TimerFires(t)
    BY <1>0, <1>3, SharedMove DEF TimerFires, KeepalivePcs, HoldingPcs, HeldPcs, AdhocPcs
  <1> QED BY <1>1, <1>2, <1>3

-----------------------------------------------------------------------------
(* A goroutine leaves: its worker counter goes down by one.                *)

LEMMA WorkersLeft ==
  ASSUME ExclusionInv, NEW t \in Threads, Leave(t), NEW k, NEW kind \in Modes
  PROVE  /\ Kind(t) = kind /\ KeyOf(t) = k =>
               /\ Cardinality(Workers(k, kind)) > 0
               /\ Cardinality(Workers(k, kind)') = Cardinality(Workers(k, kind)) - 1
         /\ ~(Kind(t) = kind /\ KeyOf(t) = k) => Workers(k, kind)' = Workers(k, kind)
  <1>1. /\ Kind(t)' = "none"
        /\ \A s \in Threads : s # t => Kind(s)' = Kind(s) /\ KeyOf(s)' = KeyOf(s)
    BY KindFacts DEF Leave, Goto, Kind, KeyOf, ExclusionInv, TypeOK
  <1>2. Workers(k, kind)' = Workers(k, kind) \ {t}
    BY <1>1 DEF Workers, Modes
  <1>3. IsFiniteSet(Workers(k, kind)) /\ Cardinality(Workers(k, kind)) \in Nat
    BY WorkersFinite
  <1>4. ASSUME Kind(t) = kind, KeyOf(t) = k
        PROVE  /\ Cardinality(Workers(k, kind)) > 0
               /\ Cardinality(Workers(k, kind)') = Cardinality(Workers(k, kind)) - 1
    <2>1. t \in Workers(k, kind)
      BY <1>4 DEF Workers
    <2>2. Cardinality(Workers(k, kind)) # 0
      BY <1>3, <2>1, FS_EmptySet
    <2>3. Cardinality(Workers(k, kind) \ {t}) = Cardinality(Workers(k, kind)) - 1
      BY <1>3, <2>1, FS_RemoveElement
    <2> QED BY <1>2, <1>3, <2>2, <2>3
  <1>5. ASSUME ~(Kind(t) = kind /\ KeyOf(t) = k)
        PROVE  Workers(k, kind)' = Workers(k, kind)
    BY <1>2, <1>5 DEF Workers
  <1> QED BY <1>4, <1>5

LEMMA LeaveStep ==
  ASSUME ExclusionInv, TypeOK', WorkerFrame, NEW t \in Threads, Leave(t),
         \A k \in Keys : job'[k].runID = job[k].runID /\ keepalive'[k].runID = keepalive[k].runID,
         CountsExact',
         \/ arbiter' = arbiter /\ pc[t] \notin HeldPcs
         \/ ReleaseTargetLocked(t, Kind(t))
  PROVE  ExclusionInv'
  <1>1. /\ pc'[t] = "free" /\ Kind(t)' = "none"
        /\ \A s \in Threads : s # t => /\ Kind(s)' = Kind(s) /\ KeyOf(s)' = KeyOf(s)
                                       /\ RunOf(s)' = RunOf(s) /\ pc'[s] = pc[s]
    BY KindFacts DEF Leave, Goto, Kind, KeyOf, RunOf, ExclusionInv, TypeOK
  <1>2. UNCHANGED <<targets, nextAdhocRunID>>
    BY DEF WorkerFrame
  <1>3. \A s \in Threads : Kind(s) # "none" => KeyOf(s) \in Keys
    BY KindFacts DEF ExclusionInv, TypeOK, Kind, Live
  <1>4. RunsBounded'
    BY <1>1, <1>2, <1>3 DEF ExclusionInv, RunsBounded
  <1>5. RunsDistinct'
    BY <1>1 DEF ExclusionInv, RunsDistinct
  <1>6. WorkHasTarget'
    BY <1>1, <1>2 DEF ExclusionInv, WorkHasTarget, Known, Live
  <1>7. HoldersOwn'
    <2> SUFFICES ASSUME NEW s \in Threads, pc'[s] \in HoldingPcs
                 PROVE  Owns(s, Kind(s))'
      BY DEF HoldersOwn
    <2>1. s # t /\ pc[s] \in HoldingPcs /\ KeyOf(s) \in Keys
      BY <1>1, <1>3, KindFacts DEF HoldingPcs, AdhocPcs, Kind
    <2>2. Owns(s, Kind(s))
      BY <2>1 DEF ExclusionInv, HoldersOwn
    <2>3. arbiter'[KeyOf(s)] = arbiter[KeyOf(s)]
      BY <2>1, HolderIsAlone DEF ReleaseTargetLocked, Released
    <2> QED BY <1>1, <2>1, <2>2, <2>3 DEF Owns
  <1>8. TargetHeld'
    <2> SUFFICES ASSUME NEW k \in Keys, arbiter'[k].owner # "none"
                 PROVE  /\ arbiter'[k] = arbiter[k]
                        /\ \A s \in Threads : pc[s] \in HeldPcs /\ KeyOf(s) = k /\ Owns(s, Kind(s))
                                               => s # t
      BY <1>1, StaysHeld DEF ExclusionInv
    <2>1. CASE arbiter' = arbiter /\ pc[t] \notin HeldPcs
      BY <2>1
    <2>2. CASE ReleaseTargetLocked(t, Kind(t))
      <3>1. k \notin Released(t, Kind(t)) /\ arbiter'[k] = arbiter[k]
        BY <2>2 DEF ReleaseTargetLocked, NewArbiter
      <3> QED BY <3>1 DEF Released
    <2> QED BY <2>1, <2>2
  <1> QED BY <1>4, <1>5, <1>6, <1>7, <1>8 DEF ExclusionInv

LEMMA FinishQueueLeaves ==
  ASSUME ExclusionInv, TypeOK', WorkerFrame, NEW t \in Threads, FinishQueueWorker(t)
  PROVE  ExclusionInv'
  <1>1. /\ Kind(t) = "queue" /\ KeyOf(t) \in Keys /\ KeyOf(t) \in Known /\ Leave(t)
        /\ UNCHANGED <<keepalive, arbiter>> /\ pc[t] \notin HeldPcs
    BY KindFacts DEF FinishQueueWorker, ExclusionInv, TypeOK, WorkHasTarget, Live, Kind,
                     At, QueuePcs, HoldingPcs, AdhocPcs, HeldPcs
  <1>2. \A k \in Keys : /\ job[k].workers = Cardinality(Workers(k, "queue"))
                        /\ keepalive[k].workers = Cardinality(Workers(k, "keepalive"))
    BY DEF ExclusionInv, CountsExact
  <1>a. PICK key \in Keys : key = KeyOf(t)
    BY <1>1
  <1>3. /\ job[key].workers > 0
        /\ Cardinality(Workers(key, "queue")') = job[key].workers - 1
    BY <1>1, <1>2, <1>a, WorkersLeft DEF Modes
  <1>4. /\ job'[key].workers = job[key].workers - 1
        /\ \A k \in Keys : k # key => job'[k].workers = job[k].workers
        /\ \A k \in Keys : job'[k].runID = job[k].runID
    BY <1>1, <1>a, <1>3 DEF FinishQueueWorker, ExclusionInv, TypeOK, JobRec
  <1>5. CountsExact'
    <2>1. \A k \in Keys : /\ k # key => Workers(k, "queue")' = Workers(k, "queue")
                          /\ Workers(k, "keepalive")' = Workers(k, "keepalive")
      BY <1>1, <1>a, WorkersLeft DEF Modes
    <2> QED BY <1>1, <1>2, <1>3, <1>4, <2>1 DEF CountsExact
  <1> QED BY <1>1, <1>4, <1>5, LeaveStep

LEMMA FinishKeepaliveLeaves ==
  ASSUME ExclusionInv, TypeOK', WorkerFrame, NEW t \in Threads, FinishKeepaliveWorker(t)
  PROVE  ExclusionInv'
  <1>1. /\ Kind(t) = "keepalive" /\ KeyOf(t) \in Keys /\ KeyOf(t) \in Known /\ Leave(t)
        /\ UNCHANGED <<job, arbiter>> /\ pc[t] \notin HeldPcs
    BY KindFacts DEF FinishKeepaliveWorker, ExclusionInv, TypeOK, WorkHasTarget, Live,
                     Kind, At, KeepalivePcs, HoldingPcs, AdhocPcs, HeldPcs
  <1>2. \A k \in Keys : /\ job[k].workers = Cardinality(Workers(k, "queue"))
                        /\ keepalive[k].workers = Cardinality(Workers(k, "keepalive"))
    BY DEF ExclusionInv, CountsExact
  <1>a. PICK key \in Keys : key = KeyOf(t)
    BY <1>1
  <1>3. /\ keepalive[key].workers > 0
        /\ Cardinality(Workers(key, "keepalive")') = keepalive[key].workers - 1
    BY <1>1, <1>2, <1>a, WorkersLeft DEF Modes
  <1>4. /\ keepalive'[key].workers = keepalive[key].workers - 1
        /\ \A k \in Keys : k # key => keepalive'[k].workers = keepalive[k].workers
        /\ \A k \in Keys : keepalive'[k].runID = keepalive[k].runID
    BY <1>1, <1>a, <1>3 DEF FinishKeepaliveWorker, ExclusionInv, TypeOK, KeepaliveRec
  <1>5. CountsExact'
    <2>1. \A k \in Keys : /\ k # key => Workers(k, "keepalive")' = Workers(k, "keepalive")
                          /\ Workers(k, "queue")' = Workers(k, "queue")
      BY <1>1, <1>a, WorkersLeft DEF Modes
    <2> QED BY <1>1, <1>2, <1>3, <1>4, <2>1 DEF CountsExact
  <1> QED BY <1>1, <1>4, <1>5, LeaveStep

LEMMA FinishAdhocLeaves ==
  ASSUME ExclusionInv, TypeOK', WorkerFrame, NEW t \in Threads,
         NEW from \in AdhocPcs, FinishAdhocRequest(t, from)
  PROVE  ExclusionInv'
  <1>1. /\ Kind(t) = "adhoc" /\ Leave(t) /\ ReleaseTargetLocked(t, "adhoc")
        /\ UNCHANGED <<job, keepalive>>
    BY KindFacts DEF FinishAdhocRequest, Kind, At
  <1>2. \A k \in Keys : /\ Workers(k, "queue")' = Workers(k, "queue")
                        /\ Workers(k, "keepalive")' = Workers(k, "keepalive")
    BY <1>1, WorkersLeft DEF Modes
  <1>3. CountsExact'
    BY <1>1, <1>2 DEF ExclusionInv, CountsExact
  <1> QED BY <1>1, <1>3, LeaveStep

-----------------------------------------------------------------------------
(* A goroutine starts with a run ID that nobody has.                       *)

LEMMA WorkersJoined ==
  ASSUME ExclusionInv, NEW t \in Threads, NEW label, NEW key, NEW run, NEW def,
         Spawn(t, label, key, run, def), NEW k, NEW kind \in Modes
  PROVE  /\ KindAt(label) = kind /\ key = k =>
               Cardinality(Workers(k, kind)') = Cardinality(Workers(k, kind)) + 1
         /\ ~(KindAt(label) = kind /\ key = k) => Workers(k, kind)' = Workers(k, kind)
  <1>1. /\ Kind(t)' = KindAt(label) /\ KeyOf(t)' = key /\ Kind(t) = "none"
        /\ \A s \in Threads : s # t => Kind(s)' = Kind(s) /\ KeyOf(s)' = KeyOf(s)
    BY KindFacts DEF Spawn, Goto, Kind, KeyOf, Live, ExclusionInv, TypeOK
  <1>2. t \notin Workers(k, kind)
    BY <1>1 DEF Workers, Modes
  <1>3. ASSUME KindAt(label) = kind, key = k
        PROVE  Cardinality(Workers(k, kind)') = Cardinality(Workers(k, kind)) + 1
    <2>1. Workers(k, kind)' = Workers(k, kind) \cup {t}
      BY <1>1, <1>3 DEF Workers
    <2> QED BY <1>2, <2>1, WorkersFinite, FS_AddElement
  <1>4. ASSUME ~(KindAt(label) = kind /\ key = k)
        PROVE  Workers(k, kind)' = Workers(k, kind)
    BY <1>1, <1>2, <1>4 DEF Workers
  <1> QED BY <1>3, <1>4

LEMMA SpawnStep ==
  ASSUME ExclusionInv, TypeOK', NEW t \in Threads, NEW label, NEW key \in Known,
         NEW run, NEW def, Spawn(t, label, key, run, def), KindAt(label) # "none",
         \A k \in Keys : /\ job'[k].runID >= job[k].runID
                         /\ keepalive'[k].runID >= keepalive[k].runID,
         nextAdhocRunID' >= nextAdhocRunID, targets' = targets,
         \/ /\ KindAt(label) = "queue"
            /\ run = job[key].runID + 1 /\ job'[key].runID = run
         \/ /\ KindAt(label) = "keepalive"
            /\ run = keepalive[key].runID + 1 /\ keepalive'[key].runID = run
         \/ /\ KindAt(label) = "adhoc"
            /\ run = nextAdhocRunID + 1 /\ nextAdhocRunID' = run,
         CountsExact', HoldersOwn', label \in HeldPcs \/ arbiter' = arbiter,
         \A k \in Keys : arbiter'[k] # arbiter[k] => k = key /\ Owns(t, Kind(t))'
  PROVE  ExclusionInv'
  <1>1. /\ Kind(t)' = KindAt(label) /\ KeyOf(t)' = key /\ RunOf(t)' = run
        /\ Kind(t) = "none"
        /\ \A s \in Threads : s # t => /\ Kind(s)' = Kind(s) /\ KeyOf(s)' = KeyOf(s)
                                       /\ RunOf(s)' = RunOf(s) /\ pc'[s] = pc[s]
    BY KindFacts DEF Spawn, Goto, Kind, KeyOf, RunOf, Live, ExclusionInv, TypeOK
  <1>2. \A s \in Threads : (Kind(s) # "none" => KeyOf(s) \in Keys) /\ RunOf(s) \in Nat
    BY KindFacts DEF ExclusionInv, TypeOK, WorkRec, RunOf, Kind, Live
  <1>3. /\ \A k \in Keys : /\ job[k].runID \in Nat /\ job'[k].runID \in Nat
                           /\ keepalive[k].runID \in Nat /\ keepalive'[k].runID \in Nat
        /\ nextAdhocRunID \in Nat /\ nextAdhocRunID' \in Nat /\ key \in Keys
    BY DEF ExclusionInv, TypeOK, JobRec, KeepaliveRec, Known
  <1>4. \A s \in Threads : /\ Kind(s) = "queue" => RunOf(s) <= job[KeyOf(s)].runID
                           /\ Kind(s) = "keepalive" => RunOf(s) <= keepalive[KeyOf(s)].runID
                           /\ Kind(s) = "adhoc" => RunOf(s) <= nextAdhocRunID
    BY DEF ExclusionInv, RunsBounded
  <1>5. RunsBounded'
    <2>1. ASSUME NEW s \in Threads, s # t
          PROVE  /\ Kind(s) = "queue" => RunOf(s) <= job'[KeyOf(s)].runID
                 /\ Kind(s) = "keepalive" => RunOf(s) <= keepalive'[KeyOf(s)].runID
                 /\ Kind(s) = "adhoc" => RunOf(s) <= nextAdhocRunID'
      BY <1>2, <1>3, <1>4, <2>1
    <2>2. /\ Kind(t)' = "queue" => run <= job'[key].runID
          /\ Kind(t)' = "keepalive" => run <= keepalive'[key].runID
          /\ Kind(t)' = "adhoc" => run <= nextAdhocRunID'
      BY <1>1, <1>3
    <2> QED BY <1>1, <2>1, <2>2 DEF RunsBounded
  <1>6. RunsDistinct'
    <2>1. ASSUME NEW s \in Threads, s # t, Kind(s) = KindAt(label), KeyOf(s) = key
          PROVE  RunOf(s) # run
      BY <1>2, <1>3, <1>4, <2>1
    <2> QED BY <1>1, <2>1 DEF ExclusionInv, RunsDistinct
  <1>7. WorkHasTarget'
    BY <1>1 DEF ExclusionInv, WorkHasTarget, Known, Live
  <1>8. TargetHeld'
    <2>1. pc'[t] = label /\ pc[t] \notin HeldPcs
      BY <1>1, KindFacts DEF Spawn, Goto, Kind, ExclusionInv, TypeOK
    <2>2. \A s \in Threads : pc[s] \in HeldPcs =>
             /\ pc'[s] \in HeldPcs /\ Kind(s)' = Kind(s)
             /\ KeyOf(s)' = KeyOf(s) /\ RunOf(s)' = RunOf(s)
      BY <1>1, <2>1
    <2>3. \A k \in Keys : arbiter'[k] # arbiter[k] =>
             pc'[t] \in HeldPcs /\ KeyOf(t)' = k /\ Owns(t, Kind(t))'
      BY <1>1, <2>1
    <2> QED BY <2>2, <2>3, StaysHeld DEF ExclusionInv
  <1> QED BY <1>5, <1>6, <1>7, <1>8 DEF ExclusionInv

LEMMA StartQueueSpawns ==
  ASSUME ExclusionInv, TypeOK', NEW c \in Starters, NEW t \in Threads, StartQueue(c, t)
  PROVE  ExclusionInv'
  <1>1. PICK key \in Keys : key = starter[c].key /\ key \in Known
    BY DEF StartQueue, MayCommit, Known
  <1>2. /\ Spawn(t, "qTarget", key, job[key].runID + 1, 0)
        /\ UNCHANGED <<targets, keepalive, arbiter, nextAdhocRunID>>
        /\ job' = [job EXCEPT ![key] =
              [state |-> "running", runID |-> @.runID + 1, cancel |-> {t},
               workers |-> @.workers + 1,
               subscribers |-> @.subscribers \cup starter[c].subscriber]]
    BY <1>1 DEF StartQueue
  <1>3. KindAt("qTarget") = "queue"
    BY KindFacts DEF QueuePcs
  <1>4. /\ \A k \in Keys : /\ job[k].runID \in Nat
                           /\ keepalive[k].runID \in Nat
        /\ nextAdhocRunID \in Nat
    BY DEF ExclusionInv, TypeOK, JobRec, KeepaliveRec
  <1>5. /\ job'[key].runID = job[key].runID + 1 /\ job'[key].workers = job[key].workers + 1
        /\ \A k \in Keys : k # key => job'[k] = job[k]
    BY <1>2 DEF ExclusionInv, TypeOK
  <1>6. CountsExact'
    <2>1. Cardinality(Workers(key, "queue")') = Cardinality(Workers(key, "queue")) + 1
      BY <1>2, <1>3, WorkersJoined DEF Modes
    <2>2. \A k \in Keys : /\ k # key => Workers(k, "queue")' = Workers(k, "queue")
                          /\ Workers(k, "keepalive")' = Workers(k, "keepalive")
      BY <1>2, <1>3, WorkersJoined DEF Modes
    <2> QED BY <1>2, <1>5, <2>1, <2>2 DEF ExclusionInv, CountsExact
  <1>7. HoldersOwn'
    <2>1. \A s \in Threads : pc'[s] \in HoldingPcs => pc[s] \in HoldingPcs /\ s # t
      BY <1>2 DEF Spawn, Goto, HoldingPcs, AdhocPcs, ExclusionInv, TypeOK
    <2>2. \A s \in Threads : s # t => work'[s] = work[s] /\ pc'[s] = pc[s]
      BY <1>2 DEF Spawn, Goto, ExclusionInv, TypeOK
    <2> QED BY <1>2, <2>1, <2>2 DEF ExclusionInv, HoldersOwn, Owns, Kind, KeyOf, RunOf
  <1>8. /\ \A k \in Keys : job'[k].runID >= job[k].runID /\ keepalive'[k].runID >= keepalive[k].runID
        /\ nextAdhocRunID' >= nextAdhocRunID
    BY <1>2, <1>4, <1>5
  <1> QED BY <1>1, <1>2, <1>3, <1>5, <1>6, <1>7, <1>8, SpawnStep

LEMMA StartKeepaliveSpawns ==
  ASSUME ExclusionInv, TypeOK', NEW c \in Starters, NEW t \in Threads, StartKeepalive(c, t)
  PROVE  ExclusionInv'
  <1>1. PICK key \in Keys : key = starter[c].key /\ key \in Known
    BY DEF StartKeepalive, MayCommit, Known
  <1>2. /\ Spawn(t, "kFirst", key, keepalive[key].runID + 1, 0)
        /\ UNCHANGED <<targets, job, arbiter, nextAdhocRunID>>
        /\ keepalive' = [keepalive EXCEPT ![key] =
              [state |-> "requesting", runID |-> @.runID + 1, cancel |-> {t},
               workers |-> @.workers + 1, nextRequest |-> 0]]
    BY <1>1 DEF StartKeepalive
  <1>3. KindAt("kFirst") = "keepalive"
    BY KindFacts DEF KeepalivePcs
  <1>4. /\ \A k \in Keys : /\ job[k].runID \in Nat
                           /\ keepalive[k].runID \in Nat
        /\ nextAdhocRunID \in Nat
    BY DEF ExclusionInv, TypeOK, JobRec, KeepaliveRec
  <1>5. /\ keepalive'[key].runID = keepalive[key].runID + 1
        /\ keepalive'[key].workers = keepalive[key].workers + 1
        /\ \A k \in Keys : k # key => keepalive'[k] = keepalive[k]
    BY <1>2 DEF ExclusionInv, TypeOK
  <1>6. CountsExact'
    <2>1. Cardinality(Workers(key, "keepalive")') = Cardinality(Workers(key, "keepalive")) + 1
      BY <1>2, <1>3, WorkersJoined DEF Modes
    <2>2. \A k \in Keys : /\ k # key => Workers(k, "keepalive")' = Workers(k, "keepalive")
                          /\ Workers(k, "queue")' = Workers(k, "queue")
      BY <1>2, <1>3, WorkersJoined DEF Modes
    <2> QED BY <1>2, <1>5, <2>1, <2>2 DEF ExclusionInv, CountsExact
  <1>7. HoldersOwn'
    <2>1. \A s \in Threads : pc'[s] \in HoldingPcs => pc[s] \in HoldingPcs /\ s # t
      BY <1>2 DEF Spawn, Goto, HoldingPcs, AdhocPcs, ExclusionInv, TypeOK
    <2>2. \A s \in Threads : s # t => work'[s] = work[s] /\ pc'[s] = pc[s]
      BY <1>2 DEF Spawn, Goto, ExclusionInv, TypeOK
    <2> QED BY <1>2, <2>1, <2>2 DEF ExclusionInv, HoldersOwn, Owns, Kind, KeyOf, RunOf
  <1>8. /\ \A k \in Keys : job'[k].runID >= job[k].runID /\ keepalive'[k].runID >= keepalive[k].runID
        /\ nextAdhocRunID' >= nextAdhocRunID
    BY <1>2, <1>4, <1>5
  <1> QED BY <1>1, <1>2, <1>3, <1>5, <1>6, <1>7, <1>8, SpawnStep

LEMMA RunAdhocSpawns ==
  ASSUME ExclusionInv, TypeOK', NEW t \in Threads, NEW key \in Keys, RunAdhoc(t, key)
  PROVE  ExclusionInv'
  <1>1. /\ Spawn(t, "aSlot", key, nextAdhocRunID + 1, targets[key])
        /\ UNCHANGED <<targets, job, keepalive>> /\ nextAdhocRunID' = nextAdhocRunID + 1
        /\ key \in Known /\ arbiter[key].owner = "none"
        /\ arbiter' = [arbiter EXCEPT ![key] =
              [owner |-> "adhoc", ownerRunID |-> nextAdhocRunID + 1, cancel |-> {t}]]
    BY DEF RunAdhoc, Busy
  <1>2. KindAt("aSlot") = "adhoc"
    BY KindFacts DEF AdhocPcs
  <1>3. /\ \A k \in Keys : job[k].runID \in Nat /\ keepalive[k].runID \in Nat
        /\ nextAdhocRunID \in Nat
    BY DEF ExclusionInv, TypeOK, JobRec, KeepaliveRec
  <1>4. CountsExact'
    <2>1. \A k \in Keys : /\ Workers(k, "queue")' = Workers(k, "queue")
                          /\ Workers(k, "keepalive")' = Workers(k, "keepalive")
      BY <1>1, <1>2, WorkersJoined DEF Modes
    <2> QED BY <1>1, <2>1 DEF ExclusionInv, CountsExact
  <1>5. HoldersOwn'
    <2> SUFFICES ASSUME NEW s \in Threads, pc'[s] \in HoldingPcs
                 PROVE  Owns(s, Kind(s))'
      BY DEF HoldersOwn
    <2>1. CASE s = t
      <3>1. KeyOf(t)' = key /\ RunOf(t)' = nextAdhocRunID + 1 /\ Kind(t)' = "adhoc"
        BY <1>1, <1>2 DEF Spawn, Goto, KeyOf, RunOf, Kind, ExclusionInv, TypeOK
      <3>2. /\ arbiter'[key].owner = "adhoc"
            /\ arbiter'[key].ownerRunID = nextAdhocRunID + 1
        BY <1>1 DEF ExclusionInv, TypeOK
      <3> QED BY <2>1, <3>1, <3>2 DEF Owns
    <2>2. CASE s # t
      <3>1. pc'[s] = pc[s] /\ work'[s] = work[s]
        BY <1>1, <2>2 DEF Spawn, Goto, ExclusionInv, TypeOK
      <3>2. Owns(s, Kind(s)) /\ Kind(s) # "none"
        BY <3>1, KindFacts DEF ExclusionInv, HoldersOwn, Kind
      <3>3. KeyOf(s) \in Keys /\ KeyOf(s) # key
        BY <1>1, <3>2, KindFacts DEF ExclusionInv, TypeOK, Owns, Kind, Live
      <3>4. arbiter'[KeyOf(s)] = arbiter[KeyOf(s)]
        BY <1>1, <3>3 DEF ExclusionInv, TypeOK
      <3> QED BY <3>1, <3>2, <3>4 DEF Owns, Kind, KeyOf, RunOf
    <2> QED BY <2>1, <2>2
  <1>6. /\ \A k \in Keys : job'[k].runID >= job[k].runID /\ keepalive'[k].runID >= keepalive[k].runID
        /\ nextAdhocRunID' >= nextAdhocRunID
    BY <1>1, <1>3
  <1>7. /\ "aSlot" \in HoldingPcs /\ "aSlot" \in HeldPcs /\ pc'[t] = "aSlot"
        /\ \A k \in Keys : k # key => arbiter'[k] = arbiter[k]
    BY <1>1 DEF HoldingPcs, HeldPcs, AdhocPcs, Spawn, Goto, ExclusionInv, TypeOK
  <1>8. Owns(t, Kind(t))'
    BY <1>5, <1>7 DEF HoldersOwn
  <1> QED BY <1>1, <1>2, <1>4, <1>5, <1>6, <1>7, <1>8, SpawnStep

-----------------------------------------------------------------------------
(* Steps of callers in which no goroutine moves.                           *)

LEMMA KeptStep ==
  ASSUME ExclusionInv, TypeOK', UNCHANGED <<pc, work>>, CountersKept,
         \A k \in Keys : /\ arbiter'[k].owner = arbiter[k].owner
                         /\ arbiter'[k].ownerRunID = arbiter[k].ownerRunID
  PROVE  ExclusionInv'
  <1>1. LocalsKept /\ KindsKept
    BY DEF LocalsKept, KindsKept
  <1>2. \A s \in Threads : pc[s] \in HoldingPcs => KeyOf(s) \in Keys
    BY KindFacts DEF ExclusionInv, TypeOK, Live
  <1>3. HoldersOwn'
    BY <1>2 DEF ExclusionInv, HoldersOwn, Owns, Kind, KeyOf, RunOf
  <1>4. TargetHeld'
    BY StaysHeld DEF ExclusionInv, Kind, KeyOf, RunOf
  <1> QED BY <1>1, <1>3, <1>4, IdentityKept DEF ExclusionInv

LEMMA StopKeeps ==
  ASSUME ExclusionInv, TypeOK', NEW K, NEW modes, StopModes(K, modes)
  PROVE  ExclusionInv'
  <1>1. UNCHANGED <<pc, work, targets, nextAdhocRunID>>
    BY DEF StopModes
  <1>2. \A k \in Keys : job'[k].runID >= job[k].runID /\ job'[k].workers = job[k].workers
    <2> TAKE k \in Keys
    <2>1. job[k] \in JobRec /\ job[k].runID \in Nat
      BY DEF ExclusionInv, TypeOK, JobRec
    <2>2. job'[k] = StopQueue(job[k]) \/ job'[k] = job[k]
      BY DEF StopModes
    <2>3. /\ StopQueue(job[k]).runID \in {job[k].runID, job[k].runID + 1}
          /\ StopQueue(job[k]).workers = job[k].workers
      BY DEF StopQueue
    <2> QED BY <2>1, <2>2, <2>3
  <1>3. \A k \in Keys : /\ keepalive'[k].runID >= keepalive[k].runID
                        /\ keepalive'[k].workers = keepalive[k].workers
    <2> TAKE k \in Keys
    <2>1. keepalive[k] \in KeepaliveRec /\ keepalive[k].runID \in Nat
      BY DEF ExclusionInv, TypeOK, KeepaliveRec
    <2>2. keepalive'[k] = StopKeepalive(keepalive[k]) \/ keepalive'[k] = keepalive[k]
      BY DEF StopModes
    <2>3. /\ StopKeepalive(keepalive[k]).runID \in {keepalive[k].runID, keepalive[k].runID + 1}
          /\ StopKeepalive(keepalive[k]).workers = keepalive[k].workers
      BY DEF StopKeepalive
    <2> QED BY <2>1, <2>2, <2>3
  <1>4. \A k \in Keys : /\ arbiter'[k].owner = arbiter[k].owner
                        /\ arbiter'[k].ownerRunID = arbiter[k].ownerRunID
    <2> TAKE k \in Keys
    <2>1. arbiter[k] \in ArbiterRec
      BY DEF ExclusionInv, TypeOK
    <2>2. arbiter'[k] = StopAdhoc(arbiter[k]) \/ arbiter'[k] = arbiter[k]
      BY DEF StopModes
    <2> QED BY <2>1, <2>2 DEF StopAdhoc, ArbiterRec
  <1>5. CountersKept
    BY <1>1, <1>2, <1>3 DEF CountersKept, ExclusionInv, TypeOK
  <1> QED BY <1>1, <1>4, <1>5, KeptStep

LEMMA StarterKeeps ==
  ASSUME ExclusionInv, TypeOK', NEW c \in Starters, StarterStep(c) \/ WaitTimeout(c)
  PROVE  ExclusionInv'
  <1>0. /\ \A k \in Keys : job[k].runID \in Nat /\ keepalive[k].runID \in Nat
        /\ nextAdhocRunID \in Nat
    BY DEF ExclusionInv, TypeOK, JobRec, KeepaliveRec
  <1>1. ASSUME UNCHANGED managerVars PROVE ExclusionInv'
    <2>1. UNCHANGED <<pc, work, targets, job, keepalive, arbiter, nextAdhocRunID>>
      BY <1>1 DEF managerVars, modeVars, threadVars
    <2> QED BY <1>0, <2>1, KeptStep DEF CountersKept
  <1>2. ASSUME NEW k \in Keys, PrepareRefused(c, k) PROVE ExclusionInv'
    BY <1>1, <1>2 DEF PrepareRefused
  <1>3. ASSUME NEW k \in Keys, PrepareMode(c, k) PROVE ExclusionInv'
    BY <1>3, StopKeeps DEF PrepareMode
  <1>4. CASE WaitTargetIdle(c) \/ WaitTimeout(c) \/ StartRetry(c)
    BY <1>1, <1>4 DEF WaitTargetIdle, WaitTimeout, StartRetry
  <1>5. CASE StartRefused(c) \/ StartLate(c)
    <2>1. UNCHANGED <<pc, work, targets, keepalive, arbiter, nextAdhocRunID>>
      BY <1>5 DEF StartRefused, StartLate, threadVars
    <2>2. job' = job \/ AddSubscriber(c, starter[c].key)
      BY <1>5 DEF StartRefused, StartLate
    <2>3. \A k \in Keys : job'[k].runID = job[k].runID /\ job'[k].workers = job[k].workers
      <3>1. CASE job' = job
        BY <3>1
      <3>2. CASE AddSubscriber(c, starter[c].key)
        <4> DEFINE x == starter[c].key
                   r == [job[x] EXCEPT !.subscribers = job[x].subscribers \cup starter[c].subscriber]
        <4>1. job' = [job EXCEPT ![x] = r] /\ job \in [Keys -> JobRec]
          BY <3>2 DEF AddSubscriber, ExclusionInv, TypeOK
        <4>2. x \in Keys => r.runID = job[x].runID /\ r.workers = job[x].workers
          BY <4>1 DEF JobRec
        <4> HIDE DEF x, r
        <4> QED BY <4>1, <4>2
      <3> QED BY <2>2, <3>1, <3>2
    <2> QED BY <1>0, <2>1, <2>3, KeptStep DEF CountersKept
  <1> QED
    BY <1>2, <1>3, <1>4, <1>5, StartQueueSpawns, StartKeepaliveSpawns DEF StarterStep

LEMMA SettingsKeep ==
  ASSUME ExclusionInv, TypeOK', Settings \/ Shutdown
  PROVE  ExclusionInv'
  <1>1. UNCHANGED <<pc, work, targets, job, arbiter, nextAdhocRunID>>
    BY DEF Settings, UpdateSettings, Shutdown, RootCancel, BeginShutdown, modeVars
  <1>2. \A k \in Keys : /\ keepalive'[k].runID = keepalive[k].runID
                        /\ keepalive'[k].workers = keepalive[k].workers
    <2>1. CASE Shutdown
      BY <2>1 DEF Shutdown, RootCancel, BeginShutdown, modeVars
    <2>2. CASE Settings
      BY <2>2 DEF Settings, UpdateSettings, ExclusionInv, TypeOK, KeepaliveRec
    <2> QED BY <2>1, <2>2
  <1>3. CountersKept
    BY <1>1, <1>2 DEF CountersKept, ExclusionInv, TypeOK, JobRec, KeepaliveRec
  <1> QED BY <1>1, <1>3, KeptStep

-----------------------------------------------------------------------------
(* Target edits replace records, but only of targets nobody works on.      *)

LEMMA IdleHasNoWork ==
  ASSUME ExclusionInv, NEW k \in Keys, ~Busy(k), NEW t \in Threads, Live(t)
  PROVE  KeyOf(t) # k
  <1> SUFFICES ASSUME KeyOf(t) = k PROVE FALSE
    OBVIOUS
  <1>1. job[k].workers = 0 /\ keepalive[k].workers = 0 /\ arbiter[k].owner = "none"
    BY DEF Busy, QueueActive, KeepaliveActive, ExclusionInv, TypeOK, JobRec, KeepaliveRec
  <1>2. \A kind : Cardinality(Workers(k, kind)) = 0 => Workers(k, kind) = {}
    BY WorkersFinite, FS_EmptySet
  <1>3. Kind(t) \notin {"queue", "keepalive"}
    BY <1>1, <1>2 DEF ExclusionInv, CountsExact, Workers
  <1>4. pc[t] \in AdhocPcs /\ Kind(t) = "adhoc"
    BY <1>3, KindFacts DEF ExclusionInv, TypeOK, Live, Kind
  <1>5. Owns(t, "adhoc")
    BY <1>4 DEF ExclusionInv, HoldersOwn, HoldingPcs
  <1> QED BY <1>1, <1>5 DEF Owns

LEMMA EditStep ==
  ASSUME ExclusionInv, TypeOK', NEW K, UNCHANGED <<pc, work, nextAdhocRunID>>,
         \A t \in Threads : Live(t) => KeyOf(t) \notin K,
         \A k \in Keys \ K : /\ job'[k] = job[k] /\ keepalive'[k] = keepalive[k]
                             /\ arbiter'[k] = arbiter[k] /\ targets'[k] = targets[k],
         \A k \in Keys \cap K : /\ job'[k].workers = 0 /\ keepalive'[k].workers = 0
                                /\ arbiter'[k].owner = "none"
  PROVE  /\ ExclusionInv'
         /\ \A t \in Threads : Live(t) => targets'[KeyOf(t)] = targets[KeyOf(t)]
  <1>1. \A t \in Threads : Live(t) <=> Kind(t) # "none"
    BY KindFacts DEF ExclusionInv, TypeOK, Live, Kind
  <1>2. \A t \in Threads : Live(t) => KeyOf(t) \in Keys \ K
    BY DEF ExclusionInv, TypeOK
  <1>3. \A t \in Threads : /\ Kind(t)' = Kind(t) /\ KeyOf(t)' = KeyOf(t)
                           /\ RunOf(t)' = RunOf(t) /\ (Live(t)' <=> Live(t))
    BY DEF Kind, KeyOf, RunOf, Live
  <1>4. RunsBounded'
    BY <1>1, <1>2, <1>3 DEF ExclusionInv, RunsBounded
  <1>5. RunsDistinct'
    BY <1>3 DEF ExclusionInv, RunsDistinct
  <1>6. HoldersOwn'
    <2>1. \A t \in Threads : pc[t] \in HoldingPcs => Live(t)
      BY KindFacts DEF Live
    <2> QED BY <1>2, <1>3, <2>1 DEF ExclusionInv, HoldersOwn, Owns
  <1>7. WorkHasTarget'
    BY <1>2, <1>3 DEF ExclusionInv, WorkHasTarget, Known
  <1>8. CountsExact'
    <2>1. \A k, kind : Workers(k, kind)' = Workers(k, kind)
      BY <1>3 DEF Workers
    <2>2. \A k \in K : \A kind \in Modes : Workers(k, kind) = {}
      BY <1>1 DEF Workers, Modes
    <2>3. Cardinality({}) = 0
      BY FS_EmptySet
    <2>4. ASSUME NEW k \in Keys
          PROVE  /\ job'[k].workers = Cardinality(Workers(k, "queue"))
                 /\ keepalive'[k].workers = Cardinality(Workers(k, "keepalive"))
      <3>1. CASE k \in K
        BY <2>2, <2>3, <3>1 DEF Modes
      <3>2. CASE k \notin K
        BY <3>2 DEF ExclusionInv, CountsExact
      <3> QED BY <3>1, <3>2
    <2> QED BY <2>1, <2>4 DEF CountsExact
  <1>9. TargetHeld'
    <2>1. \A k \in Keys : arbiter'[k] = arbiter[k] \/ arbiter'[k].owner = "none"
      OBVIOUS
    <2> QED BY <1>3, <2>1, StaysHeld DEF ExclusionInv
  <1> QED BY <1>2, <1>4, <1>5, <1>6, <1>7, <1>8, <1>9 DEF ExclusionInv

LEMMA CreateKeeps ==
  ASSUME ExclusionInv, TypeOK', NEW key \in Keys, NEW def, CreateTarget(key, def)
  PROVE  /\ ExclusionInv'
         /\ \A t \in Threads : Live(t) => targets'[KeyOf(t)] = targets[KeyOf(t)]
  <1>1. \A t \in Threads : Live(t) => KeyOf(t) \notin {key}
    BY DEF CreateTarget, ExclusionInv, WorkHasTarget
  <1>2. UNCHANGED <<pc, work, nextAdhocRunID>>
    BY DEF CreateTarget, threadVars
  <1>3. \A k \in Keys \ {key} : /\ job'[k] = job[k] /\ keepalive'[k] = keepalive[k]
                                /\ arbiter'[k] = arbiter[k] /\ targets'[k] = targets[k]
    BY DEF CreateTarget, ExclusionInv, TypeOK
  <1>4. /\ job'[key].workers = 0 /\ keepalive'[key].workers = 0
        /\ arbiter'[key].owner = "none"
    BY DEF CreateTarget, NewJob, NewKeepalive, NewArbiter, ExclusionInv, TypeOK
  <1> QED BY <1>1, <1>2, <1>3, <1>4, EditStep

LEMMA ApplyKeeps ==
  ASSUME ExclusionInv, TypeOK', ApplyEdit
  PROVE  /\ ExclusionInv'
         /\ \A t \in Threads : Live(t) => targets'[KeyOf(t)] = targets[KeyOf(t)]
  <1>1. PICK key, newKey : key = editor.key /\ newKey = editor.newKey
    OBVIOUS
  <1>2. key \in Keys /\ key \in Known /\ ~Busy(key) /\ (newKey \in Known => newKey = key)
    BY <1>1 DEF ApplyEdit, MayApply, Known
  <1>3. \A t \in Threads : Live(t) => KeyOf(t) \notin {key, newKey}
    BY <1>2, IdleHasNoWork DEF ExclusionInv, WorkHasTarget
  <1>4. UNCHANGED <<pc, work, nextAdhocRunID>>
    BY DEF ApplyEdit, threadVars
  <1>5. \A k \in Keys \ {key, newKey} :
           /\ job'[k] = job[k] /\ keepalive'[k] = keepalive[k]
           /\ arbiter'[k] = arbiter[k] /\ targets'[k] = targets[k]
    BY <1>1 DEF ApplyEdit, Moved
  <1>6. job[key].workers = 0 /\ keepalive[key].workers = 0 /\ arbiter[key].owner = "none"
    BY <1>2 DEF Busy, QueueActive, KeepaliveActive, ExclusionInv, TypeOK, JobRec, KeepaliveRec
  <1>7. \A k \in Keys \cap {key, newKey} : /\ job'[k].workers = 0 /\ keepalive'[k].workers = 0
                                             /\ arbiter'[k].owner = "none"
    BY <1>1, <1>6 DEF ApplyEdit, Moved, NewJob, NewKeepalive, NewArbiter
  <1> QED BY <1>3, <1>4, <1>5, <1>7, EditStep

LEMMA EditsKeep ==
  ASSUME ExclusionInv, TypeOK', Edits \/ EditorStep \/ EditWaitTimeout
  PROVE  /\ ExclusionInv'
         /\ \A t \in Threads : Live(t) => targets'[KeyOf(t)] = targets[KeyOf(t)]
  <1>1. ASSUME UNCHANGED managerVars PROVE ExclusionInv' /\ targets' = targets
    <2>1. UNCHANGED <<pc, work, targets, job, keepalive, arbiter, nextAdhocRunID>>
      BY <1>1 DEF managerVars, modeVars, threadVars
    <2>2. CountersKept
      BY <2>1 DEF CountersKept, ExclusionInv, TypeOK, JobRec, KeepaliveRec
    <2> QED BY <2>1, <2>2, KeptStep
  <1>2. CASE EditWaitTimeout \/ EditWaitIdle \/ EditRejected
    BY <1>1, <1>2 DEF EditWaitTimeout, EditWaitIdle, EditRejected
  <1>3. ASSUME NEW k, NEW newKey, NEW def, BeginEdit(k, newKey, def)
        PROVE  ExclusionInv' /\ targets' = targets
    BY <1>3, StopKeeps DEF BeginEdit, StopModes
  <1> QED
    BY <1>2, <1>3, CreateKeeps, ApplyKeeps DEF Edits, EditorStep

-----------------------------------------------------------------------------
LEMMA ExclusionNext == ExclusionInv /\ [Next]_vars => ExclusionInv'
  <1> SUFFICES ASSUME ExclusionInv, [Next]_vars PROVE ExclusionInv'
    OBVIOUS
  <1>1. TypeOK'
    BY TypeNext DEF ExclusionInv
  <1>2. ASSUME NEW t \in Threads, WorkerStep(t) PROVE ExclusionInv'
    <2>1. WorkerFrame /\ (QueueWorker(t) \/ KeepaliveWorker(t) \/ AdhocRequest(t))
      BY <1>2 DEF WorkerStep
    <2>2. CASE QueueWorker(t)
      BY <1>1, <2>1, <2>2, QueueMove, FinishQueueLeaves
    <2>3. CASE KeepaliveWorker(t)
      BY <1>1, <2>1, <2>3, KeepaliveMove, FinishKeepaliveLeaves
    <2>4. CASE AdhocRequest(t)
      BY <1>1, <2>1, <2>4, AdhocMove, FinishAdhocLeaves DEF AdhocRequest, AdhocPcs
    <2> QED BY <2>1, <2>2, <2>3, <2>4
  <1>3. ASSUME NEW t \in Threads, GivesUp(t) PROVE ExclusionInv'
    BY <1>1, <1>3, ReturnMove
  <1>4. ASSUME NEW t \in Threads, ProcessEnds(t) PROVE ExclusionInv'
    <2>1. WorkerFrame
      BY <1>4 DEF ProcessEnds
    <2> QED BY <1>1, <1>4, <2>1, ReturnMove, FinishAdhocLeaves DEF AdhocPcs
  <1>5. CASE Timeouts
    BY <1>1, <1>5, StarterKeeps, EditsKeep, ReturnMove DEF Timeouts
  <1>6. CASE Calls
    <2>0. ASSUME UNCHANGED <<pc, work, targets, job, keepalive, arbiter, nextAdhocRunID>>
          PROVE  ExclusionInv'
      <3>1. CountersKept
        BY <2>0 DEF CountersKept, ExclusionInv, TypeOK, JobRec, KeepaliveRec
      <3> QED BY <1>1, <2>0, <3>1, KeptStep
    <2>1. ASSUME NEW c, NEW mode, NEW names, NEW subscriber,
                 StartCall(c, mode, names, subscriber)
          PROVE  ExclusionInv'
      BY <2>0, <2>1 DEF StartCall, managerVars, modeVars, threadVars
    <2>2. ASSUME NEW names, Stop(names) PROVE ExclusionInv'
      BY <1>1, <2>2, StopKeeps DEF Stop
    <2>3. ASSUME NEW t \in Threads, ClientLeaves(t) PROVE ExclusionInv'
      BY <2>0, <2>3 DEF ClientLeaves, AdhocCancel, WorkerFrame, modeVars
    <2> QED BY <1>1, <1>6, <2>1, <2>2, <2>3, RunAdhocSpawns DEF Calls
  <1>7. CASE UNCHANGED vars
    <2>1. UNCHANGED <<pc, work, targets, job, keepalive, arbiter, nextAdhocRunID>>
      BY <1>7 DEF vars, modeVars, slotVars, settingVars, lifeVars, threadVars
    <2>2. CountersKept
      BY <2>1 DEF CountersKept, ExclusionInv, TypeOK, JobRec, KeepaliveRec
    <2> QED BY <1>1, <2>1, <2>2, KeptStep
  <1> QED
    BY <1>1, <1>2, <1>3, <1>4, <1>5, <1>6, <1>7, StarterKeeps, EditsKeep, SettingsKeep
       DEF Next

LEMMA ExclusionAlways == Spec => []ExclusionInv
  BY ExclusionInit, ExclusionNext, PTL DEF Spec

LEMMA OneProcessIn == ExclusionInv => OneProcessPerTarget
  <1> SUFFICES ASSUME ExclusionInv, NEW s \in RunningThreads, NEW t \in RunningThreads,
                      KeyOf(s) = KeyOf(t)
               PROVE  s = t
    BY DEF OneProcessPerTarget
  <1>1. /\ s \in Threads /\ pc[s] \in HoldingPcs
        /\ t \in Threads /\ pc[t] \in HoldingPcs
    BY DEF RunningThreads, RunningPcs, HoldingPcs, AdhocPcs
  <1>2. Owns(t, Kind(t))
    BY <1>1 DEF ExclusionInv, HoldersOwn
  <1> QED BY <1>1, <1>2, HolderIsAlone

(* At most one Codex process runs on a target at any time, whatever the    *)
(* number of targets, goroutines, callers and slots: two goroutines past   *)
(* beginAttempt, beginKeepaliveRequest or RunAdhoc's section on one target *)
(* would both own its arbiter.                                             *)
THEOREM OneProcess == Spec => []OneProcessPerTarget
  BY OneProcessIn, ExclusionAlways, PTL

(* A goroutine of the manager always finds the records of its target: the  *)
(* maps of m are never indexed with a key that was renamed or deleted.     *)
THEOREM TargetPresent == Spec => []WorkHasTarget
  <1>1. ExclusionInv => WorkHasTarget
    BY DEF ExclusionInv
  <1> QED BY <1>1, ExclusionAlways, PTL

(* job.workers and keepaliveJob.workers are exactly the number of worker   *)
(* goroutines that have not finished, through stops, renames and deletes.  *)
THEOREM WorkersCounted == Spec => []WorkerCount
  <1>1. ExclusionInv => WorkerCount
    BY CountsAreWorkerCount DEF ExclusionInv
  <1> QED BY <1>1, ExclusionAlways, PTL

(* A target is never taken without a goroutine that gives it back: no exit *)
(* of run, runKeepalive or RunAdhoc, cancelled or superseded, leaves its   *)
(* arbiter owned.                                                          *)
THEOREM TakenTargetsHeld == Spec => []TargetHeld
  <1>1. ExclusionInv => TargetHeld
    BY DEF ExclusionInv
  <1> QED BY <1>1, ExclusionAlways, PTL

(* No step of a start call edits a target or the settings.                 *)
LEMMA StarterLeavesTargets ==
  ASSUME NEW c \in Starters, StarterStep(c)
  PROVE  UNCHANGED <<targets, maxParallel>>
  <1>1. ASSUME NEW k \in Keys, PrepareRefused(c, k) \/ PrepareMode(c, k)
        PROVE  UNCHANGED <<targets, maxParallel>>
    BY <1>1 DEF PrepareRefused, PrepareMode, StopModes, managerVars, settingVars
  <1>2. CASE WaitTargetIdle(c) \/ StartRefused(c) \/ StartLate(c) \/ StartRetry(c)
    BY <1>2 DEF WaitTargetIdle, StartRefused, StartLate, StartRetry, managerVars, settingVars
  <1>3. ASSUME NEW t \in Threads, StartQueue(c, t) \/ StartKeepalive(c, t)
        PROVE  UNCHANGED <<targets, maxParallel>>
    BY <1>3 DEF StartQueue, StartKeepalive, managerVars, settingVars
  <1> QED BY <1>1, <1>2, <1>3 DEF StarterStep

(* UpdateTarget and DeleteTarget never change or remove the target of a    *)
(* goroutine in flight, although they check and write in two sections.     *)
THEOREM EditsWaitForWork == Spec => NoEditUnderWork
  <1>1. ExclusionInv /\ ExclusionInv' /\ [Next]_vars =>
           [\A t \in Threads : Live(t) /\ Live(t)' =>
               targets'[KeyOf(t)] = targets[KeyOf(t)]]_vars
    <2> SUFFICES ASSUME ExclusionInv, ExclusionInv', Next
                 PROVE  \A t \in Threads : Live(t) =>
                           targets'[KeyOf(t)] = targets[KeyOf(t)]
      OBVIOUS
    <2>1. CASE Edits \/ EditorStep \/ EditWaitTimeout
      BY <2>1, EditsKeep DEF ExclusionInv
    <2>2. CASE Calls \/ Settings \/ Shutdown \/ \E c \in Starters : WaitTimeout(c)
      BY <2>2 DEF Calls, Settings, Shutdown, StartCall, Stop, StopModes, RunAdhoc,
                  ClientLeaves, WorkerFrame, UpdateSettings, RootCancel, BeginShutdown,
                  WaitTimeout, managerVars
    <2>3. CASE \E c \in Starters : StarterStep(c)
      <3>1. PICK c \in Starters : StarterStep(c)
        BY <2>3
      <3>2. UNCHANGED targets
        BY <3>1, StarterLeavesTargets
      <3> QED BY <3>2
    <2>4. CASE \E t \in Threads : \/ WorkerStep(t) \/ GivesUp(t) \/ ProcessEnds(t)
                                  \/ WorkerFrame /\ TimerFires(t)
      BY <2>4 DEF WorkerStep, GivesUp, ProcessEnds, WorkerFrame
    <2> QED BY <2>1, <2>2, <2>3, <2>4 DEF Next, Timeouts
  <1> QED BY <1>1, ExclusionAlways, PTL DEF Spec, NoEditUnderWork

-----------------------------------------------------------------------------
(* The slots.  What a step does to the process pool: nothing, or one       *)
(* goroutine takes a slot, gives it back, begins a process or ends it.     *)

OthersKept(t) == \A s \in Threads \ {t} : pc'[s] = pc[s] /\ work'[s] = work[s]

Quiet ==
    /\ UNCHANGED slotVars
    /\ \A s \in Threads : /\ pc'[s] \in SlotPcs <=> pc[s] \in SlotPcs
                          /\ pc'[s] \in RunningPcs <=> pc[s] \in RunningPcs
                          /\ pc[s] \in RunningPcs => work'[s] = work[s]

Takes(t) ==
    /\ OthersKept(t)
    /\ pc[t] \notin SlotPcs /\ pc'[t] \in SlotPcs \ RunningPcs
    /\ slotsInUse < maxParallel /\ slotsInUse' = slotsInUse + 1
    /\ UNCHANGED currentProcesses

\* Whoever sleeps on the slot channel is woken.
AllWoken == \A s \in Threads : pc'[s] \in SlotWaitPcs => s \in woken'

Gives(t) ==
    /\ OthersKept(t) /\ AllWoken
    /\ pc[t] \in SlotPcs \ RunningPcs /\ pc'[t] \notin SlotPcs
    /\ slotsInUse' = Dec(slotsInUse) /\ UNCHANGED currentProcesses

Begins(t) ==
    /\ OthersKept(t)
    /\ pc[t] \in SlotPcs \ RunningPcs /\ pc'[t] \in RunningPcs
    /\ UNCHANGED slotsInUse /\ currentProcesses' = currentProcesses + 1
    /\ work'[t].key = work[t].key /\ work'[t].def = targets[KeyOf(t)]

Ends(t) ==
    /\ OthersKept(t) /\ AllWoken
    /\ pc[t] \in RunningPcs /\ pc'[t] \notin SlotPcs
    /\ slotsInUse' = Dec(slotsInUse) /\ currentProcesses' = Dec(currentProcesses)

\* Nobody goes to sleep on the slot channel, or ceases to be woken, while a
\* slot is free.
Listening ==
    \A s \in Threads : pc'[s] \in SlotWaitPcs /\ s \notin woken' =>
        (pc[s] \in SlotWaitPcs /\ s \notin woken) \/ slotsInUse >= maxParallel

\* A manual request keeps the copy of its target's definition.
CopiesKept ==
    \A s \in Threads : pc'[s] \in AdhocPcs =>
        pc[s] \in AdhocPcs /\ work'[s].key = work[s].key /\ work'[s].def = work[s].def

Effect(t) == /\ Listening /\ CopiesKept
             /\ Quiet \/ Takes(t) \/ Gives(t) \/ Begins(t) \/ Ends(t)

AdhocCopy == \A t \in Threads : pc[t] \in AdhocPcs => work[t].def = targets[KeyOf(t)]

\* Slots and processes are counted in all states that Next leads to.
SlotInv == ExclusionInv /\ SlotAccounting /\ AdhocCopy

LEMMA SlotSets ==
  /\ IsFiniteSet(SlotHolders) /\ IsFiniteSet(RunningThreads)
  /\ Cardinality(SlotHolders) \in Nat /\ Cardinality(RunningThreads) \in Nat
  <1>1. IsFiniteSet(SlotHolders) /\ IsFiniteSet(RunningThreads)
    BY ConstantsAssumption, FS_Subset DEF SlotHolders, RunningThreads
  <1> QED BY <1>1, FS_CardinalityType

LEMMA RunningHoldsSlot == RunningPcs \subseteq SlotPcs /\ RunningPcs \cap SlotWaitPcs = {}
                          /\ SlotPcs \cap SlotWaitPcs = {}
  BY DEF RunningPcs, SlotPcs, SlotWaitPcs

(* A goroutine moves on without the pool taking notice.                    *)
LEMMA QuietMove ==
  ASSUME TypeOK, NEW t \in Threads, NEW from, NEW to, At(t, from), Goto(t, to),
         UNCHANGED slotVars, \A s \in Threads \ {t} : work'[s] = work[s],
         from \in SlotPcs <=> to \in SlotPcs, from \notin RunningPcs, to \notin RunningPcs,
         to \notin SlotWaitPcs, \A s \in woken : s = t \/ s \in woken',
         to \in AdhocPcs => /\ from \in AdhocPcs
                            /\ work'[t].key = work[t].key /\ work'[t].def = work[t].def
  PROVE  Effect(t)
  <1>1. pc[t] = from /\ pc'[t] = to /\ \A s \in Threads \ {t} : pc'[s] = pc[s]
    BY DEF At, Goto, TypeOK
  <1>2. Quiet
    BY <1>1 DEF Quiet
  <1>3. Listening /\ CopiesKept
    BY <1>1 DEF Listening, CopiesKept
  <1> QED BY <1>2, <1>3 DEF Effect

(* The steps that the goroutines share.                                    *)
LEMMA SharedEffect ==
  ASSUME TypeOK, NEW t \in Threads, NEW from, NEW to, NEW other,
         KindAt(to) = KindAt(from), KindAt(other) = KindAt(from),
         \/ /\ Acquire(t, from, to, other)
            /\ from \notin SlotPcs /\ to \in SlotPcs \ RunningPcs /\ other \in SlotWaitPcs
         \/ /\ Unblock(t, from, to) /\ from \notin SlotPcs
            /\ to \notin SlotPcs \cup SlotWaitPcs
         \/ /\ CheckContext(t, from, to, other)
            /\ from \notin RunningPcs /\ to \notin RunningPcs \cup SlotWaitPcs
            /\ other \notin RunningPcs \cup SlotWaitPcs
            /\ from \in SlotPcs <=> to \in SlotPcs
            /\ from \in SlotPcs <=> other \in SlotPcs
         \/ /\ ReleaseSlot(t, from, to)
            /\ from \in SlotPcs \ RunningPcs /\ to \notin SlotPcs \cup SlotWaitPcs
         \/ /\ FinishProcess(t, from, to) /\ KindAt(from) # "adhoc"
            /\ from \in RunningPcs /\ to \notin SlotPcs \cup SlotWaitPcs
  PROVE  Effect(t)
  <1>0. /\ to \in AdhocPcs => from \in AdhocPcs
        /\ other \in AdhocPcs => from \in AdhocPcs
    BY KindFacts
  <1>1. CASE Acquire(t, from, to, other) /\ from \notin SlotPcs
             /\ to \in SlotPcs \ RunningPcs /\ other \in SlotWaitPcs
    <2>1. /\ pc[t] = from /\ \A s \in Threads \ {t} : pc'[s] = pc[s]
          /\ pc'[t] = IF slotsInUse < maxParallel THEN to ELSE other
          /\ UNCHANGED <<work, woken, currentProcesses>>
      BY <1>1 DEF Acquire, At, Goto, TypeOK
    <2>2. CopiesKept
      BY <1>0, <2>1 DEF CopiesKept
    <2>3. CASE slotsInUse < maxParallel
      <3>1. Takes(t)
        BY <1>1, <2>1, <2>3 DEF Takes, OthersKept, Acquire
      <3>2. Listening
        BY <1>1, <2>1, <2>3, RunningHoldsSlot DEF Listening
      <3> QED BY <2>2, <3>1, <3>2 DEF Effect
    <2>4. CASE ~(slotsInUse < maxParallel)
      <3>1. Quiet
        BY <1>1, <2>1, <2>4, RunningHoldsSlot DEF Quiet, Acquire, slotVars
      <3>2. slotsInUse >= maxParallel
        BY <2>4, ConstantsAssumption DEF TypeOK
      <3> QED BY <2>2, <3>1, <3>2 DEF Effect, Listening
    <2> QED BY <2>3, <2>4
  <1>2. CASE Unblock(t, from, to) /\ from \notin SlotPcs /\ to \notin SlotPcs \cup SlotWaitPcs
    <2>1. /\ \A s \in Threads \ {t} : work'[s] = work[s]
          /\ work'[t].key = work[t].key /\ work'[t].def = work[t].def
      BY <1>2 DEF Unblock, TypeOK, WorkRec
    <2> QED BY <1>0, <1>2, <2>1, QuietMove, RunningHoldsSlot DEF Unblock
  <1>3. CASE /\ CheckContext(t, from, to, other)
             /\ from \notin RunningPcs /\ to \notin RunningPcs \cup SlotWaitPcs
             /\ other \notin RunningPcs \cup SlotWaitPcs
             /\ from \in SlotPcs <=> to \in SlotPcs
             /\ from \in SlotPcs <=> other \in SlotPcs
    <2>1. PICK label \in {to, other} : Goto(t, label)
      BY <1>3 DEF CheckContext
    <2> QED BY <1>0, <1>3, <2>1, QuietMove DEF CheckContext
  <1>4. CASE /\ ReleaseSlot(t, from, to)
             /\ from \in SlotPcs \ RunningPcs /\ to \notin SlotPcs \cup SlotWaitPcs
    <2>1. /\ pc[t] = from /\ pc'[t] = to /\ \A s \in Threads \ {t} : pc'[s] = pc[s]
          /\ UNCHANGED <<work, currentProcesses>> /\ woken' = woken \cup WaitingForSlot
      BY <1>4 DEF ReleaseSlot, At, Goto, TypeOK
    <2>2. AllWoken
      BY <1>4, <2>1 DEF AllWoken, WaitingForSlot
    <2>3. Gives(t)
      BY <1>4, <2>1, <2>2 DEF Gives, OthersKept, ReleaseSlot
    <2>4. Listening /\ CopiesKept
      BY <1>0, <2>1, <2>2 DEF Listening, AllWoken, CopiesKept
    <2> QED BY <2>3, <2>4 DEF Effect
  <1>5. CASE /\ FinishProcess(t, from, to) /\ KindAt(from) # "adhoc"
             /\ from \in RunningPcs /\ to \notin SlotPcs \cup SlotWaitPcs
    <2>1. /\ pc[t] = from /\ pc'[t] = to
          /\ \A s \in Threads \ {t} : pc'[s] = pc[s] /\ work'[s] = work[s]
          /\ woken' = woken \cup WaitingForSlot
      BY <1>5 DEF FinishProcess, At, Goto, TypeOK
    <2>2. AllWoken
      BY <1>5, <2>1 DEF AllWoken, WaitingForSlot
    <2>3. Ends(t)
      BY <1>5, <2>1, <2>2 DEF Ends, OthersKept, FinishProcess
    <2>4. Listening /\ CopiesKept
      BY <1>5, <2>1, <2>2, KindFacts DEF Listening, AllWoken, CopiesKept
    <2> QED BY <2>3, <2>4 DEF Effect
  <1> QED BY <1>1, <1>2, <1>3, <1>4, <1>5

LEMMA UnblockEffect ==
  ASSUME TypeOK, NEW t \in Threads, NEW from, NEW to, KindAt(to) = KindAt(from),
         Unblock(t, from, to), from \notin SlotPcs, to \notin SlotPcs \cup SlotWaitPcs
  PROVE  Effect(t)
  BY SharedEffect

LEMMA ReleaseEffect ==
  ASSUME TypeOK, NEW t \in Threads, NEW from, NEW to, KindAt(to) = KindAt(from),
         ReleaseSlot(t, from, to), from \in SlotPcs \ RunningPcs,
         to \notin SlotPcs \cup SlotWaitPcs
  PROVE  Effect(t)
  BY SharedEffect

LEMMA FinishEffect ==
  ASSUME TypeOK, NEW t \in Threads, NEW from, NEW to, KindAt(to) = KindAt(from),
         KindAt(from) # "adhoc", FinishProcess(t, from, to), from \in RunningPcs,
         to \notin SlotPcs \cup SlotWaitPcs
  PROVE  Effect(t)
  BY SharedEffect

LEMMA CheckEffect ==
  ASSUME TypeOK, NEW t \in Threads, NEW from, NEW to, NEW other,
         KindAt(to) = KindAt(from), KindAt(other) = KindAt(from),
         CheckContext(t, from, to, other), from \notin RunningPcs,
         to \notin RunningPcs \cup SlotWaitPcs, other \notin RunningPcs \cup SlotWaitPcs,
         from \in SlotPcs <=> to \in SlotPcs, from \in SlotPcs <=> other \in SlotPcs
  PROVE  Effect(t)
  BY SharedEffect

LEMMA QueueEffect ==
  ASSUME TypeOK, NEW t \in Threads, QueueWorker(t)
  PROVE  Effect(t)
  <1>0. \A p \in QueuePcs : KindAt(p) = "queue" /\ p \notin AdhocPcs
    BY KindFacts
  <1> USE DEF QueuePcs, SlotPcs, RunningPcs, SlotWaitPcs
  <1>1. CASE AcquireQueueTarget(t)
    <2>1. PICK to \in {"qCancel", "qSlot", "qTargetWait"} : Goto(t, to)
      BY <1>1 DEF AcquireQueueTarget
    <2> QED BY <1>0, <1>1, <2>1, QuietMove DEF AcquireQueueTarget
  <1>2. CASE BeginAttempt(t)
    <2>1. /\ pc[t] = "qBegin" /\ pc'[t] = "qRunning" /\ OthersKept(t)
          /\ work'[t].key = work[t].key /\ work'[t].def = targets[KeyOf(t)]
      BY <1>2 DEF BeginAttempt, At, Goto, TypeOK, WorkRec, OthersKept
    <2>2. Begins(t)
      BY <1>2, <2>1 DEF Begins, BeginAttempt
    <2>3. Listening /\ CopiesKept
      BY <1>0, <1>2, <2>1 DEF Listening, CopiesKept, OthersKept, BeginAttempt
    <2> QED BY <2>2, <2>3 DEF Effect
  <1>3. CASE AttemptRefused(t)
    BY <1>0, <1>3, QuietMove DEF AttemptRefused
  <1>4. CASE ReleaseTarget(t)
    BY <1>0, <1>4, QuietMove DEF ReleaseTarget
  <1>5. CASE MarkSuccess(t)
    BY <1>0, <1>5, QuietMove DEF MarkSuccess
  <1>6. CASE MarkFailure(t)
    <2>1. PICK to \in {"qTarget", "qExit"} : Goto(t, to)
      BY <1>6 DEF MarkFailure
    <2> QED BY <1>0, <1>6, <2>1, QuietMove DEF MarkFailure
  <1>7. CASE MarkQueueCancelled(t)
    BY <1>0, <1>7, QuietMove DEF MarkQueueCancelled
  <1>8. CASE FinishQueueWorker(t)
    <2>1. At(t, "qExit") /\ Goto(t, "free") /\ UNCHANGED <<slotVars, woken>>
          /\ \A s \in Threads \ {t} : work'[s] = work[s]
      BY <1>8 DEF FinishQueueWorker, Leave, TypeOK
    <2> QED BY <2>1, QuietMove DEF AdhocPcs
  <1>9. CASE Resume(t, "qTargetWait", "qTarget") \/ Resume(t, "qSlotWait", "qSlot")
    BY <1>0, <1>9, UnblockEffect DEF Resume
  <1>10. CASE Acquire(t, "qSlot", "qBegin", "qSlotWait")
    BY <1>0, <1>10, SharedEffect
  <1>11. CASE CheckContext(t, "qCheck", "qCancel", "qFailure")
    BY <1>0, <1>11, CheckEffect
  <1>12. CASE ReleaseSlot(t, "qUnSlot", "qUnTarget")
    BY <1>0, <1>12, ReleaseEffect
  <1> QED
    BY <1>1, <1>2, <1>3, <1>4, <1>5, <1>6, <1>7, <1>8, <1>9, <1>10, <1>11, <1>12 DEF QueueWorker

LEMMA KeepaliveEffect ==
  ASSUME TypeOK, NEW t \in Threads, KeepaliveWorker(t)
  PROVE  Effect(t)
  <1>0. \A p \in KeepalivePcs : KindAt(p) = "keepalive" /\ p \notin AdhocPcs
    BY KindFacts
  <1> USE DEF KeepalivePcs, SlotPcs, RunningPcs, SlotWaitPcs
  <1>1. CASE BeginKeepaliveRequest(t)
    <2>1. PICK to \in {"kTargetWait", "kSlot", "kCancel"} : Goto(t, to)
      BY <1>1 DEF BeginKeepaliveRequest
    <2>2. At(t, "kFirst") /\ UNCHANGED <<slotVars, work, woken>>
      BY <1>1 DEF BeginKeepaliveRequest, ShowKeepalive
    <2> QED BY <1>0, <2>1, <2>2, QuietMove
  <1>2. CASE KeepaliveRequest(t)
    <2>1. /\ pc[t] = "kBegin" /\ pc'[t] = "kRunning" /\ OthersKept(t)
          /\ work'[t].key = work[t].key /\ work'[t].def = targets[KeyOf(t)]
      BY <1>2 DEF KeepaliveRequest, At, Goto, TypeOK, WorkRec, OthersKept
    <2>2. Begins(t)
      BY <1>2, <2>1 DEF Begins, KeepaliveRequest
    <2>3. Listening /\ CopiesKept
      BY <1>0, <1>2, <2>1 DEF Listening, CopiesKept, OthersKept, KeepaliveRequest
    <2> QED BY <2>2, <2>3 DEF Effect
  <1>3. CASE KeepaliveRefused(t)
    <2>1. PICK to \in {"kUnSlot", "kUnSlotWait"} : Goto(t, to)
      BY <1>3 DEF KeepaliveRefused
    <2>2. At(t, "kBegin") /\ UNCHANGED <<slotVars, work, woken>>
      BY <1>3 DEF KeepaliveRefused, ShowKeepalive
    <2> QED BY <1>0, <2>1, <2>2, QuietMove
  <1>4. CASE ReleaseKeepaliveSlot(t)
    <2>1. CASE ReleaseSlot(t, "kUnSlot", "kCancel")
      BY <1>0, <2>1, ReleaseEffect
    <2>2. CASE ReleaseSlot(t, "kUnSlotWait", "kTargetWait")
      BY <1>0, <2>2, ReleaseEffect
    <2> QED BY <1>4, <2>1, <2>2 DEF ReleaseKeepaliveSlot
  <1>5. CASE FinishKeepaliveRequest(t)
    <2>1. PICK to \in {"kNext", "kExit"} : Goto(t, to)
      BY <1>5 DEF FinishKeepaliveRequest
    <2> QED BY <1>0, <1>5, <2>1, QuietMove DEF FinishKeepaliveRequest
  <1>6. CASE WaitKeepaliveNext(t)
    <2>1. PICK to \in {"kSleep", "kCancel"} : Goto(t, to)
      BY <1>6 DEF WaitKeepaliveNext
    <2>2. /\ At(t, "kNext") /\ UNCHANGED <<slotVars, woken>>
          /\ \A s \in Threads \ {t} : work'[s] = work[s]
      BY <1>6 DEF WaitKeepaliveNext, TypeOK
    <2> QED BY <1>0, <2>1, <2>2, QuietMove
  <1>7. CASE MarkKeepaliveCancelled(t)
    BY <1>0, <1>7, QuietMove DEF MarkKeepaliveCancelled
  <1>8. CASE FinishKeepaliveWorker(t)
    <2>1. /\ At(t, "kExit") /\ Goto(t, "free") /\ UNCHANGED <<slotVars, woken>>
          /\ \A s \in Threads \ {t} : work'[s] = work[s]
      BY <1>8 DEF FinishKeepaliveWorker, Leave, TypeOK
    <2> QED BY <2>1, QuietMove DEF AdhocPcs
  <1>9. CASE \/ Resume(t, "kTargetWait", "kFirst") \/ Resume(t, "kSlotWait", "kSlot")
             \/ Resume(t, "kSleep", "kNext")
    BY <1>0, <1>9, UnblockEffect DEF Resume
  <1>10. CASE Acquire(t, "kSlot", "kBegin", "kSlotWait")
    BY <1>0, <1>10, SharedEffect
  <1>11. CASE CheckContext(t, "kCheck", "kCancel", "kFinish")
    BY <1>0, <1>11, CheckEffect
  <1> QED
    BY <1>1, <1>2, <1>3, <1>4, <1>5, <1>6, <1>7, <1>8, <1>9, <1>10, <1>11 DEF KeepaliveWorker

LEMMA FinishAdhocEffect ==
  ASSUME TypeOK, NEW t \in Threads, NEW from \in {"aQuit", "aQuitSlot", "aRunning"},
         FinishAdhocRequest(t, from), from # "aQuit" => slotsInUse > 0
  PROVE  Effect(t)
  <1>1. /\ pc[t] = from /\ pc'[t] = "free" /\ At(t, from) /\ Goto(t, "free")
        /\ \A s \in Threads \ {t} : pc'[s] = pc[s] /\ work'[s] = work[s]
    BY DEF FinishAdhocRequest, Leave, At, Goto, TypeOK
  <1>2. CASE from = "aQuit"
    <2>1. UNCHANGED slotVars /\ \A s \in woken : s \in woken'
      BY <1>2 DEF FinishAdhocRequest, slotVars
    <2> QED BY <1>1, <1>2, <2>1, QuietMove DEF SlotPcs, RunningPcs, SlotWaitPcs, AdhocPcs
  <1>3. CASE from # "aQuit"
    <2>1. AllWoken
      BY <1>1, <1>3 DEF AllWoken, FinishAdhocRequest, WaitingForSlot, SlotWaitPcs
    <2>2. Listening /\ CopiesKept
      BY <1>1, <2>1 DEF Listening, AllWoken, CopiesKept, AdhocPcs
    <2>3. CASE from = "aQuitSlot"
      <3>1. Gives(t)
        BY <1>1, <2>1, <2>3
        DEF Gives, OthersKept, FinishAdhocRequest, SlotPcs, RunningPcs
      <3> QED BY <2>2, <3>1 DEF Effect
    <2>4. CASE from = "aRunning"
      <3>1. Ends(t)
        BY <1>1, <2>1, <2>4
        DEF Ends, OthersKept, FinishAdhocRequest, SlotPcs, RunningPcs
      <3> QED BY <2>2, <3>1 DEF Effect
    <2> QED BY <1>3, <2>3, <2>4
  <1> QED BY <1>2, <1>3

(* A goroutine that holds a slot is counted.                               *)
LEMMA HolderCounted ==
  ASSUME SlotAccounting, NEW t \in Threads, pc[t] \in SlotPcs
  PROVE  slotsInUse > 0
  <1>1. t \in SlotHolders
    BY DEF SlotHolders
  <1>2. Cardinality(SlotHolders) # 0
    BY <1>1, SlotSets, FS_EmptySet
  <1> QED BY <1>2, SlotSets DEF SlotAccounting

LEMMA AdhocEffect ==
  ASSUME SlotInv, NEW t \in Threads, AdhocRequest(t) \/ FinishAdhocRequest(t, "aRunning")
  PROVE  Effect(t)
  <1>0. \A p \in AdhocPcs : KindAt(p) = "adhoc"
    BY KindFacts
  <1>00. TypeOK
    BY DEF SlotInv, ExclusionInv
  <1> USE DEF SlotPcs, RunningPcs, SlotWaitPcs
  <1>1. CASE AdhocBegin(t)
    <2>1. /\ pc[t] = "aBegin" /\ OthersKept(t) /\ UNCHANGED <<work, woken, slotsInUse>>
          /\ pc'[t] = IF Owns(t, "adhoc") THEN "aRunning" ELSE "aQuitSlot"
          /\ currentProcesses' = currentProcesses + (IF Owns(t, "adhoc") THEN 1 ELSE 0)
      BY <1>00, <1>1 DEF AdhocBegin, At, Goto, TypeOK, OthersKept
    <2>2. Listening /\ CopiesKept
      BY <2>1 DEF Listening, CopiesKept, OthersKept, AdhocPcs
    <2>3. CASE Owns(t, "adhoc")
      <3>1. work[t].def = targets[KeyOf(t)]
        BY <2>1 DEF SlotInv, AdhocCopy, AdhocPcs
      <3>2. Begins(t)
        BY <2>1, <2>3, <3>1 DEF Begins
      <3> QED BY <2>2, <3>2 DEF Effect
    <2>4. CASE ~Owns(t, "adhoc")
      <3>1. currentProcesses' = currentProcesses
        BY <1>00, <2>1, <2>4 DEF TypeOK
      <3>2. Quiet
        BY <2>1, <2>4, <3>1 DEF Quiet, OthersKept, slotVars
      <3> QED BY <2>2, <3>2 DEF Effect
    <2> QED BY <2>3, <2>4
  <1>2. CASE Acquire(t, "aSlot", "aCheck", "aSlotWait")
    BY <1>0, <1>00, <1>2, SharedEffect DEF AdhocPcs
  <1>3. CASE CheckContext(t, "aCheck", "aQuitSlot", "aBegin")
    BY <1>0, <1>00, <1>3, CheckEffect DEF AdhocPcs
  <1>4. CASE Resume(t, "aSlotWait", "aSlot")
    BY <1>0, <1>00, <1>4, UnblockEffect DEF Resume, AdhocPcs
  <1>5. CASE FinishAdhocRequest(t, "aQuitSlot") \/ FinishAdhocRequest(t, "aRunning")
    <2>1. pc[t] \in SlotPcs
      BY <1>5 DEF FinishAdhocRequest, At
    <2>2. slotsInUse > 0
      BY <2>1, HolderCounted DEF SlotInv
    <2> QED BY <1>00, <1>5, <2>2, FinishAdhocEffect
  <1>6. CASE FinishAdhocRequest(t, "aQuit")
    BY <1>00, <1>6, FinishAdhocEffect
  <1> QED BY <1>1, <1>2, <1>3, <1>4, <1>5, <1>6 DEF AdhocRequest


(* A step of a goroutine, of whatever kind.                                *)
GoroutineStep(t) ==
    \/ WorkerStep(t) \/ GivesUp(t) \/ ProcessEnds(t) \/ ClientLeaves(t)
    \/ WorkerFrame /\ TimerFires(t)

LEMMA GoroutineEffect ==
  ASSUME SlotInv, NEW t \in Threads, GoroutineStep(t)
  PROVE  Effect(t) /\ UNCHANGED <<targets, maxParallel>>
  <1>0. TypeOK /\ UNCHANGED <<targets, maxParallel>>
    BY DEF SlotInv, ExclusionInv, GoroutineStep, WorkerStep, GivesUp, ProcessEnds, ClientLeaves,
           WorkerFrame, settingVars
  <1>00. /\ \A p \in QueuePcs : KindAt(p) = "queue"
         /\ \A p \in KeepalivePcs : KindAt(p) = "keepalive"
         /\ \A p \in AdhocPcs : KindAt(p) = "adhoc"
    BY KindFacts
  <1>1. CASE WorkerStep(t)
    BY <1>0, <1>1, QueueEffect, KeepaliveEffect, AdhocEffect DEF WorkerStep
  <1>2. CASE GivesUp(t)
    BY <1>0, <1>00, <1>2, UnblockEffect
    DEF GivesUp, GiveUp, QueuePcs, KeepalivePcs, AdhocPcs, SlotPcs, SlotWaitPcs
  <1>3. CASE ProcessEnds(t)
    <2>1. CASE FinishAdhocRequest(t, "aRunning")
      BY <1>0, <2>1, AdhocEffect
    <2>2. CASE FinishProcess(t, "qRunning", "qSuccess") \/ FinishProcess(t, "qRunning", "qCheck")
      BY <1>0, <1>00, <2>2, FinishEffect DEF QueuePcs, SlotPcs, SlotWaitPcs, RunningPcs
    <2>3. CASE FinishProcess(t, "kRunning", "kCheck")
      BY <1>0, <1>00, <2>3, FinishEffect DEF KeepalivePcs, SlotPcs, SlotWaitPcs, RunningPcs
    <2> QED BY <1>3, <2>1, <2>2, <2>3 DEF ProcessEnds
  <1>4. CASE ClientLeaves(t)
    BY <1>0, <1>4
    DEF ClientLeaves, AdhocCancel, Effect, Quiet, Listening, CopiesKept
  <1>5. CASE WorkerFrame /\ TimerFires(t)
    BY <1>0, <1>00, <1>5, UnblockEffect
    DEF TimerFires, KeepalivePcs, SlotPcs, SlotWaitPcs
  <1> QED BY <1>0, <1>1, <1>2, <1>3, <1>4, <1>5 DEF GoroutineStep

(* The steps of callers, of edits and of the process as a whole leave the  *)
(* slots alone; a spawned goroutine holds none.                            *)
Spawned ==
    \A s \in Threads : \/ pc'[s] = pc[s] /\ work'[s] = work[s]
                       \/ /\ pc[s] = "free" /\ pc'[s] \in {"qTarget", "kFirst", "aSlot"}
                          /\ pc'[s] = "aSlot" => work'[s].def = targets[work'[s].key]

LEMMA SpawnQuiet ==
  ASSUME Spawned, UNCHANGED slotVars, woken \subseteq woken'
  PROVE  Quiet /\ Listening
  BY DEF Spawned, Quiet, Listening, SlotPcs, RunningPcs, SlotWaitPcs

OutsideStep ==
    \/ Calls /\ ~(\E t \in Threads : ClientLeaves(t))
    \/ Edits \/ Settings \/ Shutdown
    \/ (\E c \in Starters : WaitTimeout(c) \/ StarterStep(c)) \/ EditWaitTimeout \/ EditorStep

LEMMA OutsideSpawns ==
  ASSUME TypeOK, OutsideStep
  PROVE  Spawned /\ UNCHANGED slotVars /\ woken \subseteq woken'
  <1> USE DEF slotVars
  <1>1. ASSUME NEW t \in Threads, NEW label \in {"qTarget", "kFirst"}, NEW k, NEW run,
               Spawn(t, label, k, run, 0)
        PROVE  Spawned
    BY <1>1 DEF Spawned, Spawn, Live, Goto, TypeOK
  <1>2. ASSUME NEW t \in Threads, NEW k, NEW run, Spawn(t, "aSlot", k, run, targets[k])
        PROVE  Spawned
    BY <1>2 DEF Spawned, Spawn, Live, Goto, TypeOK
  <1>3. UNCHANGED <<pc, work>> => Spawned
    BY DEF Spawned
  <1>4. CASE Calls /\ ~(\E t \in Threads : ClientLeaves(t))
    BY <1>2, <1>3, <1>4
    DEF Calls, StartCall, Stop, StopModes, RunAdhoc, managerVars, threadVars
  <1>5. CASE Edits \/ EditWaitTimeout \/ EditorStep
    BY <1>3, <1>5
    DEF Edits, EditorStep, CreateTarget, BeginEdit, StopModes, EditWaitIdle, EditWaitTimeout,
        EditRejected, ApplyEdit, managerVars, threadVars
  <1>6. CASE Settings \/ Shutdown
    BY <1>3, <1>6 DEF Settings, UpdateSettings, Shutdown, RootCancel, BeginShutdown
  <1>7. ASSUME NEW c \in Starters, WaitTimeout(c) \/ StarterStep(c)
        PROVE  Spawned /\ UNCHANGED slotVars /\ woken \subseteq woken'
    BY <1>1, <1>3, <1>7
    DEF StarterStep, WaitTimeout, PrepareRefused, PrepareMode, StopModes, WaitTargetIdle,
        StartRefused, StartLate, StartRetry, StartQueue, StartKeepalive, managerVars, threadVars
  <1> QED BY <1>4, <1>5, <1>6, <1>7 DEF OutsideStep

LEMMA NextSplit ==
  ASSUME Next
  PROVE  OutsideStep \/ \E t \in Threads : GoroutineStep(t)
  BY DEF Next, Timeouts, Calls, OutsideStep, GoroutineStep


(* Only edits change targets, and only those that nobody works on; only    *)
(* the settings change the number of slots.                                *)
LEMMA OutsideFrame ==
  ASSUME ExclusionInv, TypeOK', OutsideStep
  PROVE  /\ \/ UNCHANGED targets
            \/ /\ UNCHANGED <<pc, work, maxParallel>>
               /\ \A t \in Threads : Live(t) => targets'[KeyOf(t)] = targets[KeyOf(t)]
         /\ \/ UNCHANGED maxParallel
            \/ /\ UNCHANGED <<pc, work, targets>> /\ maxParallel' \in Limits /\ AllWoken
  <1>1. CASE Calls \/ Shutdown \/ \E c \in Starters : WaitTimeout(c)
    BY <1>1 DEF Calls, Shutdown, StartCall, Stop, StopModes, RunAdhoc, ClientLeaves, WorkerFrame,
                RootCancel, BeginShutdown, WaitTimeout, managerVars, settingVars
  <1>2. CASE \E c \in Starters : StarterStep(c)
    BY <1>2, StarterLeavesTargets
  <1>3. CASE Edits \/ EditorStep \/ EditWaitTimeout
    <2>1. UNCHANGED <<pc, work, maxParallel>>
      BY <1>3 DEF Edits, EditorStep, CreateTarget, BeginEdit, StopModes, EditWaitIdle,
                  EditWaitTimeout, EditRejected, ApplyEdit, managerVars, threadVars, settingVars
    <2> QED BY <1>3, <2>1, EditsKeep
  <1>4. CASE Settings
    <2>1. UNCHANGED <<pc, work, targets>> /\ maxParallel' \in Limits
      BY <1>4 DEF Settings, UpdateSettings
    <2>2. maxParallel' # maxParallel => AllWoken
      BY <1>4, <2>1 DEF Settings, UpdateSettings, AllWoken, WaitingForSlot
    <2> QED BY <2>1, <2>2
  <1> QED BY <1>1, <1>2, <1>3, <1>4 DEF OutsideStep

LEMMA QuietCounts == ASSUME SlotAccounting, Quiet PROVE SlotAccounting'
  <1>1. SlotHolders' = SlotHolders /\ RunningThreads' = RunningThreads
    BY DEF Quiet, SlotHolders, RunningThreads
  <1> QED BY <1>1 DEF SlotAccounting, Quiet, slotVars

LEMMA EffectCounts ==
  ASSUME SlotAccounting, NEW t \in Threads, Effect(t)
  PROVE  SlotAccounting'
  <1>0. /\ IsFiniteSet(SlotHolders) /\ IsFiniteSet(RunningThreads)
        /\ Cardinality(SlotHolders) \in Nat /\ Cardinality(RunningThreads) \in Nat
    BY SlotSets
  <1>1. CASE Takes(t)
    <2>1. /\ SlotHolders' = SlotHolders \cup {t} /\ t \notin SlotHolders
          /\ RunningThreads' = RunningThreads
      BY <1>1, RunningHoldsSlot DEF Takes, OthersKept, SlotHolders, RunningThreads
    <2>2. Cardinality(SlotHolders \cup {t}) = Cardinality(SlotHolders) + 1
      BY <1>0, <2>1, FS_AddElement
    <2> QED BY <1>1, <2>1, <2>2 DEF Takes, SlotAccounting
  <1>2. CASE Gives(t)
    <2>1. /\ SlotHolders' = SlotHolders \ {t} /\ t \in SlotHolders
          /\ RunningThreads' = RunningThreads
      BY <1>2, RunningHoldsSlot DEF Gives, OthersKept, SlotHolders, RunningThreads
    <2>2. Cardinality(SlotHolders \ {t}) = Cardinality(SlotHolders) - 1
      BY <1>0, <2>1, FS_RemoveElement
    <2>3. slotsInUse > 0
      BY <1>2, HolderCounted DEF Gives
    <2> QED BY <1>2, <2>1, <2>2, <2>3 DEF Gives, SlotAccounting, Dec
  <1>3. CASE Begins(t)
    <2>1. /\ RunningThreads' = RunningThreads \cup {t} /\ t \notin RunningThreads
          /\ SlotHolders' = SlotHolders
      BY <1>3, RunningHoldsSlot DEF Begins, OthersKept, SlotHolders, RunningThreads
    <2>2. Cardinality(RunningThreads \cup {t}) = Cardinality(RunningThreads) + 1
      BY <1>0, <2>1, FS_AddElement
    <2> QED BY <1>3, <2>1, <2>2 DEF Begins, SlotAccounting
  <1>4. CASE Ends(t)
    <2>1. /\ SlotHolders' = SlotHolders \ {t} /\ t \in SlotHolders
          /\ RunningThreads' = RunningThreads \ {t} /\ t \in RunningThreads
      BY <1>4, RunningHoldsSlot DEF Ends, OthersKept, SlotHolders, RunningThreads
    <2>2. /\ Cardinality(SlotHolders \ {t}) = Cardinality(SlotHolders) - 1
          /\ Cardinality(RunningThreads \ {t}) = Cardinality(RunningThreads) - 1
      BY <1>0, <2>1, FS_RemoveElement
    <2>3. Cardinality(SlotHolders) # 0 /\ Cardinality(RunningThreads) # 0
      BY <1>0, <2>1, FS_EmptySet
    <2>4. slotsInUse > 0 /\ currentProcesses > 0
      BY <1>0, <2>3 DEF SlotAccounting
    <2> QED BY <1>4, <2>1, <2>2, <2>4 DEF Ends, SlotAccounting, Dec
  <1> QED BY <1>1, <1>2, <1>3, <1>4, QuietCounts DEF Effect

LEMMA SlotInit == Init => SlotInv /\ NoLostSlotSignal
  <1> SUFFICES ASSUME Init PROVE SlotInv /\ NoLostSlotSignal
    OBVIOUS
  <1>1. \A t \in Threads : pc[t] = "free"
    BY DEF Init
  <1>2. SlotHolders = {} /\ RunningThreads = {}
    BY <1>1 DEF SlotHolders, RunningThreads, SlotPcs, RunningPcs
  <1>3. SlotAccounting
    BY <1>2, FS_EmptySet DEF SlotAccounting, Init
  <1>4. AdhocCopy /\ NoLostSlotSignal
    BY <1>1 DEF AdhocCopy, NoLostSlotSignal, AdhocPcs, SlotWaitPcs
  <1> QED BY <1>3, <1>4, ExclusionInit DEF SlotInv

LEMMA SlotNext == SlotInv /\ [Next]_vars => SlotInv'
  <1> SUFFICES ASSUME SlotInv, [Next]_vars PROVE SlotInv'
    OBVIOUS
  <1>1. ExclusionInv /\ ExclusionInv' /\ TypeOK /\ TypeOK'
    BY ExclusionNext DEF SlotInv, ExclusionInv
  <1>2. ASSUME NEW t \in Threads, GoroutineStep(t) PROVE SlotAccounting' /\ AdhocCopy'
    <2>1. Effect(t) /\ UNCHANGED targets
      BY <1>2, GoroutineEffect
    <2>2. AdhocCopy'
      BY <2>1 DEF Effect, CopiesKept, SlotInv, AdhocCopy, KeyOf
    <2> QED BY <2>1, <2>2, EffectCounts DEF SlotInv
  <1>3. CASE OutsideStep
    <2>1. Spawned /\ Quiet
      BY <1>1, <1>3, OutsideSpawns, SpawnQuiet
    <2>2. SlotAccounting'
      BY <2>1, QuietCounts DEF SlotInv
    <2>3. ASSUME NEW s \in Threads, pc'[s] \in AdhocPcs PROVE work'[s].def = targets'[work'[s].key]
      <3>1. CASE UNCHANGED targets
        BY <2>1, <2>3, <3>1 DEF Spawned, SlotInv, AdhocCopy, KeyOf, AdhocPcs
      <3>2. CASE /\ UNCHANGED <<pc, work>>
                 /\ \A t \in Threads : Live(t) => targets'[KeyOf(t)] = targets[KeyOf(t)]
        BY <2>3, <3>2 DEF SlotInv, AdhocCopy, KeyOf, AdhocPcs, Live
      <3> QED BY <1>1, <1>3, <3>1, <3>2, OutsideFrame
    <2> QED BY <1>1, <2>2, <2>3 DEF SlotInv, AdhocCopy, KeyOf
  <1>4. CASE UNCHANGED vars
    BY <1>1, <1>4 DEF vars, slotVars, threadVars, SlotInv, SlotAccounting, AdhocCopy, KeyOf, SlotHolders,
                RunningThreads
  <1> QED BY <1>1, <1>2, <1>3, <1>4, NextSplit DEF SlotInv

LEMMA SlotAlways == Spec => []SlotInv
  BY SlotInit, SlotNext, PTL DEF Spec

(* slotsInUse and currentProcesses count exactly the goroutines that hold  *)
(* a slot and run a process: no path of acquire, releaseSlot,              *)
(* finishProcess and finishAdhocRequest leaks or frees a slot twice.       *)
THEOREM SlotsCounted == Spec => []SlotAccounting
  <1>1. SlotInv => SlotAccounting
    BY DEF SlotInv
  <1> QED BY <1>1, SlotAlways, PTL

(* Nobody sleeps in acquire while a slot is free, whether it became free   *)
(* by releaseSlot, by the end of a process or by a larger max_parallel.    *)
THEOREM SlotSignalsArrive == Spec => []NoLostSlotSignal
  <1>1. SlotInv /\ SlotInv' /\ NoLostSlotSignal /\ [Next]_vars => NoLostSlotSignal'
    <2> SUFFICES ASSUME SlotInv, SlotInv', NoLostSlotSignal, [Next]_vars PROVE NoLostSlotSignal'
      OBVIOUS
    <2>0. TypeOK /\ ExclusionInv /\ TypeOK' /\ slotsInUse \in Nat /\ maxParallel \in Nat
      BY ConstantsAssumption DEF SlotInv, ExclusionInv, TypeOK
    <2>1. ASSUME NEW t \in Threads, GoroutineStep(t) PROVE NoLostSlotSignal'
      <3>1. Effect(t) /\ UNCHANGED maxParallel
        BY <2>1, GoroutineEffect
      <3>2. CASE Gives(t) \/ Ends(t)
        BY <3>2 DEF Gives, Ends, AllWoken, NoLostSlotSignal
      <3>3. CASE Quiet \/ Takes(t) \/ Begins(t)
        <4>1. slotsInUse' >= slotsInUse
          BY <2>0, <3>3 DEF Quiet, Takes, Begins, slotVars
        <4> QED BY <2>0, <3>1, <4>1 DEF Effect, Listening, NoLostSlotSignal, TypeOK
      <3> QED BY <3>1, <3>2, <3>3 DEF Effect
    <2>2. CASE OutsideStep
      <3>1. Listening /\ UNCHANGED slotsInUse
        BY <2>0, <2>2, OutsideSpawns, SpawnQuiet DEF slotVars
      <3>2. UNCHANGED maxParallel \/ AllWoken
        BY <2>0, <2>2, OutsideFrame
      <3>3. CASE AllWoken
        BY <3>3 DEF AllWoken, NoLostSlotSignal
      <3>4. CASE maxParallel' = maxParallel
        <4>1. slotsInUse' = slotsInUse
          BY <3>1
        <4>2. ASSUME NEW s \in Threads, pc'[s] \in SlotWaitPcs, s \notin woken'
              PROVE  slotsInUse >= maxParallel
          BY <3>1, <4>2 DEF Listening, NoLostSlotSignal
        <4> QED BY <3>4, <4>1, <4>2 DEF NoLostSlotSignal
      <3> QED BY <3>2, <3>3, <3>4
    <2>3. CASE UNCHANGED vars
      <3>1. UNCHANGED <<pc, woken, slotsInUse, maxParallel>>
        BY <2>3 DEF vars, slotVars, settingVars, threadVars
      <3> QED BY <3>1 DEF NoLostSlotSignal
    <2> QED BY <2>1, <2>2, <2>3, NextSplit
  <1> QED BY <1>1, SlotInit, SlotAlways, PTL DEF Spec

(* The manager implements the pool.  The definition of a manual request,   *)
(* copied when it was accepted, is still the one configured when it runs.  *)

LEMMA PoolInit == Init => Pool!Init
  <1> SUFFICES ASSUME Init PROVE Pool!Init
    OBVIOUS
  <1>1. \A t \in Threads : pc[t] = "free"
    BY DEF Init
  <1>2. SlotHolders = {}
    BY <1>1 DEF SlotHolders, SlotPcs
  <1>3. \A t \in Threads : Process(t) = Pool!NoRun
    BY <1>1 DEF Process, RunningPcs, Pool!NoRun
  <1>4. targets \in [Keys -> Defs \cup {0}] /\ maxParallel \in Limits
    BY SlotInit DEF SlotInv, ExclusionInv, TypeOK
  <1> QED BY <1>2, <1>3, <1>4 DEF Pool!Init

(* What the pool sees of a goroutine's own step.                           *)
LEMMA PoolGoroutine ==
  ASSUME SlotInv, SlotInv', NEW t \in Threads, GoroutineStep(t)
  PROVE  Pool!Next \/ UNCHANGED Pool!vars
  <1>0. Effect(t) /\ UNCHANGED <<targets, maxParallel>> /\ slotsInUse = Cardinality(SlotHolders)
    BY GoroutineEffect DEF SlotInv, SlotAccounting
  <1>1. CASE Quiet
    <2>1. SlotHolders' = SlotHolders
      BY <1>1 DEF Quiet, SlotHolders
    <2>2. \A s \in Threads : Process(s)' = Process(s)
      BY <1>1 DEF Quiet, Process, KeyOf
    <2> QED BY <1>0, <2>1, <2>2 DEF Pool!vars
  <1>2. CASE Takes(t)
    <2>1. SlotHolders' = SlotHolders \cup {t} /\ t \notin SlotHolders
      BY <1>2 DEF Takes, OthersKept, SlotHolders
    <2>2. \A s \in Threads : Process(s)' = Process(s)
      BY <1>2, RunningHoldsSlot DEF Takes, OthersKept, Process, KeyOf
    <2>3. Cardinality(SlotHolders) < maxParallel
      BY <1>0, <1>2 DEF Takes
    <2>4. UNCHANGED [s \in Threads |-> Process(s)]
      BY <2>2
    <2>5. Pool!Cardinality(SlotHolders) = Cardinality(SlotHolders)
      BY DEF Pool!Cardinality, Cardinality
    <2>6. Pool!Take(t)
      BY <1>0, <2>1, <2>3, <2>4, <2>5 DEF Pool!Take
    <2> QED BY <2>6 DEF Pool!Next
  <1>3. CASE Gives(t)
    <2>1. SlotHolders' = SlotHolders \ {t} /\ t \in SlotHolders
      BY <1>3 DEF Gives, OthersKept, SlotHolders
    <2>2. \A s \in Threads : Process(s)' = Process(s)
      BY <1>3, RunningHoldsSlot DEF Gives, OthersKept, Process, KeyOf
    <2>3. Process(t) = Pool!NoRun
      BY <1>3 DEF Gives, Process, Pool!NoRun
    <2>4. Pool!Give(t)
      BY <1>0, <2>1, <2>2, <2>3 DEF Pool!Give
    <2> QED BY <2>4 DEF Pool!Next
  <1>4. CASE Begins(t)
    <2> DEFINE k == KeyOf(t)
    <2>1. SlotHolders' = SlotHolders /\ t \in SlotHolders
      BY <1>4, RunningHoldsSlot DEF Begins, OthersKept, SlotHolders
    <2>2. \A s \in Threads \ {t} : Process(s)' = Process(s)
      BY <1>4 DEF Begins, OthersKept, Process, KeyOf
    <2>3. Process(t) = Pool!NoRun /\ Process(t)' = [key |-> k, def |-> targets[k]]
      BY <1>4 DEF Begins, Process, Pool!NoRun, KeyOf
    <2>4. Live(t)
      BY <1>4 DEF Begins, Live, SlotPcs
    <2>5. k \in Keys /\ targets[k] # 0
      BY <2>4 DEF SlotInv, ExclusionInv, WorkHasTarget, Known
    <2>6. \A s \in Threads : Process(s).key # k
      <3> SUFFICES ASSUME NEW s \in Threads, Process(s).key = k PROVE FALSE
        OBVIOUS
      <3>1. k # NoKey
        BY <2>5, ConstantsAssumption
      <3>2. pc[s] \in RunningPcs /\ KeyOf(s) = k
        BY <3>1 DEF Process
      <3>3. s # t
        BY <1>4, <3>2 DEF Begins
      <3>4. s \in RunningThreads' /\ t \in RunningThreads' /\ KeyOf(s)' = KeyOf(t)'
        BY <1>4, <3>2, <3>3 DEF Begins, OthersKept, RunningThreads, KeyOf
      <3>5. OneProcessPerTarget'
        BY OneProcessIn, PTL DEF SlotInv
      <3> QED BY <3>3, <3>4, <3>5 DEF OneProcessPerTarget
    <2>7. Pool!Begin(t, k)
      BY <1>0, <2>1, <2>2, <2>3, <2>5, <2>6 DEF Pool!Begin, Pool!InUse
    <2> QED BY <2>5, <2>7 DEF Pool!Next
  <1>5. CASE Ends(t)
    <2>1. SlotHolders' = SlotHolders \ {t}
      BY <1>5 DEF Ends, OthersKept, SlotHolders
    <2>2. \A s \in Threads \ {t} : Process(s)' = Process(s)
      BY <1>5 DEF Ends, OthersKept, Process, KeyOf
    <2>3. Process(t)' = Pool!NoRun
      BY <1>5, RunningHoldsSlot DEF Ends, Process, Pool!NoRun
    <2>4. Live(t)
      BY <1>5 DEF Ends, Live, RunningPcs
    <2>5. KeyOf(t) # NoKey
      BY <2>4, ConstantsAssumption DEF SlotInv, ExclusionInv, WorkHasTarget, Known
    <2>6. Process(t) # Pool!NoRun
      BY <1>5, <2>5 DEF Ends, Process, Pool!NoRun
    <2>7. [s \in Threads |-> Process(s)]' = [[s \in Threads |-> Process(s)] EXCEPT ![t] = Pool!NoRun]
      BY <2>2, <2>3
    <2>8. Pool!End(t)
      BY <1>0, <2>1, <2>6, <2>7 DEF Pool!End
    <2> QED BY <2>8 DEF Pool!Next
  <1> QED BY <1>0, <1>1, <1>2, <1>3, <1>4, <1>5 DEF Effect

(* Callers and the web server leave slots and processes alone, and change  *)
(* only targets that no process uses.                                      *)
LEMMA PoolOutside ==
  ASSUME SlotInv, SlotInv', OutsideStep
  PROVE  Pool!Next \/ UNCHANGED Pool!vars
  <1>0. ExclusionInv /\ TypeOK /\ TypeOK'
    BY DEF SlotInv, ExclusionInv
  <1>1. Quiet
    BY <1>0, OutsideSpawns, SpawnQuiet
  <1>2. SlotHolders' = SlotHolders
    BY <1>1 DEF Quiet, SlotHolders
  <1>3. \A s \in Threads : Process(s)' = Process(s)
    BY <1>1 DEF Quiet, Process, KeyOf
  <1>4. ASSUME NEW k \in Keys, Pool!InUse(k)
        PROVE  \E s \in Threads : Live(s) /\ KeyOf(s) = k
    <2>1. PICK s \in Threads : Process(s).key = k
      BY <1>4 DEF Pool!InUse
    <2>2. pc[s] \in RunningPcs /\ KeyOf(s) = k
      BY <2>1, ConstantsAssumption DEF Process
    <2> QED BY <2>2 DEF Live, RunningPcs
  <1>5. CASE UNCHANGED <<targets, maxParallel>>
    BY <1>2, <1>3, <1>5 DEF Pool!vars
  <1>6. CASE /\ UNCHANGED maxParallel
             /\ \A t \in Threads : Live(t) => targets'[KeyOf(t)] = targets[KeyOf(t)]
    <2>1. targets' \in [Keys -> Defs \cup {0}]
      BY <1>0 DEF TypeOK
    <2>2. Pool!Configure
      BY <1>2, <1>3, <1>4, <1>6, <2>1 DEF Pool!Configure
    <2> QED BY <2>2 DEF Pool!Next
  <1>7. CASE UNCHANGED targets /\ maxParallel' \in Limits
    <2>1. Pool!SetLimit
      BY <1>2, <1>3, <1>7 DEF Pool!SetLimit
    <2> QED BY <2>1 DEF Pool!Next
  <1> QED BY <1>0, <1>5, <1>6, <1>7, OutsideFrame

(* The manager implements the process pool: through every interleaving of  *)
(* workers, manual requests, stops, edits and settings, whoever runs a     *)
(* Codex process holds one of at most max_parallel slots, has the target   *)
(* to itself and uses the definition that is configured until it ends.     *)
THEOREM ManagerImplementsPool == Spec => ImplementsPool
  <1>1. SlotInv /\ SlotInv' /\ [Next]_vars => [Pool!Next]_(Pool!vars)
    <2> SUFFICES ASSUME SlotInv, SlotInv', [Next]_vars
                 PROVE  Pool!Next \/ UNCHANGED Pool!vars
      OBVIOUS
    <2>1. CASE UNCHANGED vars
      <3>1. UNCHANGED <<pc, work, targets, maxParallel>>
        BY <2>1 DEF vars, threadVars, settingVars
      <3>2. SlotHolders' = SlotHolders /\ \A s \in Threads : Process(s)' = Process(s)
        BY <3>1 DEF SlotHolders, Process, KeyOf
      <3> QED BY <3>1, <3>2 DEF Pool!vars
    <2> QED BY <2>1, PoolGoroutine, PoolOutside, NextSplit
  <1> QED BY <1>1, PoolInit, SlotAlways, PTL DEF Spec, ImplementsPool, Pool!Spec
=============================================================================
