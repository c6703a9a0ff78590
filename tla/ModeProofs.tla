----------------------------- MODULE ModeProofs -----------------------------
(***************************************************************************)
(* The modes of the targets, the signals and deadlines their workers sleep *)
(* on, and the state events, for any number of targets, goroutines and     *)
(* callers, and any settings.                                              *)
(*                                                                         *)
(* The five invariants about modes and signals need each other.  A         *)
(* keepalive worker that saw its target free still finds it free because   *)
(* queue mode is off and nobody else of its run is there; a waiter is not  *)
(* forgotten because the run it belongs to cannot end without waking it; a *)
(* run cannot end silently because its cancel function is that of the one  *)
(* live worker of the run.  ModeInv says all of this goroutine by          *)
(* goroutine (ThreadOK) and target by target (TargetOK), on top of         *)
(* ExclusionInv, and adds what makes it inductive: a worker leaves only    *)
(* when its run is no longer the current one, and one that is about to     *)
(* sleep will read a deadline of the interval in force.                    *)
(*                                                                         *)
(* Two notions carry the proof.  A goroutine that is Undisturbed by a step *)
(* of somebody else keeps ThreadOK.  A step of goroutine t (RecordsStep)   *)
(* changes the record of a mode only as its current worker, who is alone.  *)
(*                                                                         *)
(* Then the state events: a critical section that does not broadcast       *)
(* leaves everything a snapshot shows as it is (Announced).  And shutdown: *)
(* the signal reaches every worker, and nothing starts after it.           *)
(***************************************************************************)
EXTENDS ManagerProofs

(* What the invariants of the modes ask of one goroutine.                  *)
FreePcs == {"kSlot", "kSlotWait", "kBegin"}
DuePcs  == {"kNext", "kSleep"}

StaysFree(t) ==
    pc[t] \in FreePcs /\ KeepaliveCurrent(t) => ~Blocked(KeyOf(t))

StaleIsCancelled(t) ==
    \/ pc[t] \in QueuePcs \ {"qExit"} /\ ~QueueCurrent(t)
    \/ pc[t] \in KeepalivePcs \ {"kExit"} /\ ~KeepaliveCurrent(t)
    => t \in cancelled

\* A worker does not leave while its run is the current one.
LeaversAreStale(t) ==
    /\ pc[t] \in {"qUnSlot", "qUnTarget", "qExit"} => ~QueueCurrent(t)
    /\ pc[t] = "kExit" => ~KeepaliveCurrent(t)

Signalled(t) ==
    pc[t] \in TargetWaitPcs /\ t \notin woken =>
        IF pc[t] = "qTargetWait"
          THEN QueueCurrent(t) /\ arbiter[KeyOf(t)].owner # "none"
          ELSE KeepaliveCurrent(t) /\ Blocked(KeyOf(t))

\* A worker that sleeps, or is about to, finds a deadline of the interval in
\* force.
OnTime(t) ==
    pc[t] \in DuePcs /\ KeepaliveCurrent(t) =>
        /\ keepalive[KeyOf(t)].state = "waiting_next"
        /\ keepalive[KeyOf(t)].nextRequest = interval
        /\ pc[t] = "kSleep" /\ t \notin woken => work[t].at = interval

ThreadOK(t) == /\ StaysFree(t) /\ StaleIsCancelled(t) /\ LeaversAreStale(t)
               /\ Signalled(t) /\ OnTime(t)

(* ... and of one target: its modes exclude each other, and the cancel     *)
(* function of an active one is that of its current worker.                *)
QueueHasWorker(k) ==
    job[k].state = "running" =>
        \E t \in Threads : /\ job[k].cancel = {t} /\ pc[t] \in QueuePcs
                           /\ KeyOf(t) = k /\ RunOf(t) = job[k].runID
KeepaliveHasWorker(k) ==
    keepalive[k].state # "stopped" =>
        \E t \in Threads : /\ keepalive[k].cancel = {t} /\ pc[t] \in KeepalivePcs
                           /\ KeyOf(t) = k /\ RunOf(t) = keepalive[k].runID
TargetOK(k) == /\ ~(QueueActive(k) /\ KeepaliveActive(k))
               /\ QueueHasWorker(k) /\ KeepaliveHasWorker(k)

ModeInv == /\ ExclusionInv
           /\ \A t \in Threads : ThreadOK(t)
           /\ \A k \in Keys : TargetOK(k)

LEMMA ModeInit == Init => ModeInv
  <1> SUFFICES ASSUME Init PROVE ModeInv
    OBVIOUS
  <1>1. \A t \in Threads : pc[t] = "free"
    BY DEF Init
  <1>2. ASSUME NEW t \in Threads PROVE ThreadOK(t)
    BY <1>1 DEF ThreadOK, StaysFree, StaleIsCancelled, LeaversAreStale, Signalled, OnTime,
                FreePcs, DuePcs, QueuePcs, KeepalivePcs, TargetWaitPcs
  <1>3. ASSUME NEW k \in Keys PROVE TargetOK(k)
    BY DEF Init, NewJob, NewKeepalive, TargetOK, QueueHasWorker, KeepaliveHasWorker,
           QueueActive, KeepaliveActive
  <1> QED BY <1>2, <1>3, ExclusionInit DEF ModeInv

(* The invariants that the runs check, from their parts.                   *)
LEMMA ModeInvImplies ==
  ModeInv => /\ ModesExclusive /\ TargetStaysFree /\ WorkersCancellable
             /\ NoLostTargetSignal /\ ScheduleFresh
  <1> SUFFICES ASSUME ModeInv
               PROVE  /\ ModesExclusive /\ TargetStaysFree /\ WorkersCancellable
                      /\ NoLostTargetSignal /\ ScheduleFresh
    OBVIOUS
  <1>1. ModesExclusive
    BY DEF ModeInv, TargetOK, ModesExclusive
  <1>2. TargetStaysFree
    BY DEF ModeInv, ThreadOK, StaysFree, TargetStaysFree, FreePcs
  <1>3. WorkersCancellable
    BY DEF ModeInv, ThreadOK, StaleIsCancelled, TargetOK, QueueHasWorker, KeepaliveHasWorker,
           WorkersCancellable
  <1>4. NoLostTargetSignal
    BY DEF ModeInv, ThreadOK, Signalled, NoLostTargetSignal
  <1>5. ScheduleFresh
    BY DEF ModeInv, ThreadOK, OnTime, DuePcs, ScheduleFresh
  <1> QED BY <1>1, <1>2, <1>3, <1>4, <1>5

-----------------------------------------------------------------------------
(* What a step may do to a goroutine that does not take it.                *)
Undisturbed(s) ==
    /\ pc'[s] = pc[s] /\ work'[s] = work[s]
    /\ s \in woken => s \in woken'
    /\ s \in cancelled => s \in cancelled'
    /\ pc[s] \in QueuePcs => (QueueCurrent(s)' => QueueCurrent(s))
    /\ pc[s] \in KeepalivePcs => (KeepaliveCurrent(s)' => KeepaliveCurrent(s))
    /\ pc[s] \in QueuePcs /\ QueueCurrent(s) /\ ~QueueCurrent(s)' => s \in cancelled'
    /\ pc[s] \in KeepalivePcs /\ KeepaliveCurrent(s) /\ ~KeepaliveCurrent(s)' => s \in cancelled'
    /\ pc[s] \in TargetWaitPcs /\ s \notin woken' =>
          /\ pc[s] \in QueuePcs /\ QueueCurrent(s) => QueueCurrent(s)'
          /\ pc[s] \in KeepalivePcs /\ KeepaliveCurrent(s) => KeepaliveCurrent(s)'
          /\ arbiter[KeyOf(s)].owner # "none" => arbiter'[KeyOf(s)].owner # "none"
          /\ Blocked(KeyOf(s)) => Blocked(KeyOf(s))'
    /\ pc[s] \in FreePcs /\ KeepaliveCurrent(s) /\ ~Blocked(KeyOf(s))
          => ~Blocked(KeyOf(s))' \/ ~KeepaliveCurrent(s)'
    /\ pc[s] \in DuePcs /\ KeepaliveCurrent(s) /\ KeepaliveCurrent(s)' =>
          LET k == KeyOf(s) IN
          /\ keepalive'[k].state = keepalive[k].state
          /\ \/ keepalive'[k].nextRequest = keepalive[k].nextRequest /\ interval' = interval
             \/ keepalive[k].state = "waiting_next" /\ keepalive[k].nextRequest = interval =>
                    keepalive'[k].nextRequest = interval' /\ (pc[s] = "kSleep" => s \in woken')

LEMMA UndisturbedKeeps ==
  ASSUME NEW s \in Threads, ThreadOK(s), Undisturbed(s)
  PROVE  ThreadOK(s)'
  <1>0. KeyOf(s)' = KeyOf(s) /\ pc'[s] = pc[s] /\ work'[s] = work[s]
    BY DEF Undisturbed, KeyOf
  <1>1. StaysFree(s)'
    <2>1. SUFFICES ASSUME pc[s] \in FreePcs, KeepaliveCurrent(s)' PROVE ~Blocked(KeyOf(s))'
      BY <1>0 DEF StaysFree
    <2>2. pc[s] \in KeepalivePcs
      BY <2>1 DEF FreePcs, KeepalivePcs
    <2>3. KeepaliveCurrent(s)
      BY <2>1, <2>2 DEF Undisturbed
    <2>4. ~Blocked(KeyOf(s))
      BY <2>1, <2>3 DEF ThreadOK, StaysFree
    <2> QED BY <2>1, <2>3, <2>4 DEF Undisturbed
  <1>2. StaleIsCancelled(s)'
    BY <1>0 DEF Undisturbed, ThreadOK, StaleIsCancelled
  <1>3. LeaversAreStale(s)'
    BY <1>0 DEF Undisturbed, ThreadOK, LeaversAreStale, QueuePcs, KeepalivePcs
  <1>4. Signalled(s)'
    <2>1. SUFFICES ASSUME pc[s] \in TargetWaitPcs, s \notin woken'
                   PROVE  IF pc[s] = "qTargetWait"
                            THEN QueueCurrent(s)' /\ arbiter'[KeyOf(s)].owner # "none"
                            ELSE KeepaliveCurrent(s)' /\ Blocked(KeyOf(s))'
      BY <1>0 DEF Signalled
    <2>2. s \notin woken
      BY <2>1 DEF Undisturbed
    <2>3. CASE pc[s] = "qTargetWait"
      <3>1. QueueCurrent(s) /\ arbiter[KeyOf(s)].owner # "none" /\ pc[s] \in QueuePcs
        BY <2>1, <2>2, <2>3 DEF ThreadOK, Signalled, QueuePcs
      <3> QED BY <2>1, <2>3, <3>1 DEF Undisturbed
    <2>4. CASE pc[s] # "qTargetWait"
      <3>1. KeepaliveCurrent(s) /\ Blocked(KeyOf(s)) /\ pc[s] \in KeepalivePcs
        BY <2>1, <2>2, <2>4 DEF ThreadOK, Signalled, KeepalivePcs, TargetWaitPcs
      <3> QED BY <2>1, <2>4, <3>1 DEF Undisturbed
    <2> QED BY <2>3, <2>4
  <1>5. OnTime(s)'
    <2>1. SUFFICES ASSUME pc[s] \in DuePcs, KeepaliveCurrent(s)'
                   PROVE  /\ keepalive'[KeyOf(s)].state = "waiting_next"
                          /\ keepalive'[KeyOf(s)].nextRequest = interval'
                          /\ pc[s] = "kSleep" /\ s \notin woken' => work[s].at = interval'
      BY <1>0 DEF OnTime
    <2>2. KeepaliveCurrent(s)
      BY <2>1 DEF Undisturbed, DuePcs, KeepalivePcs
    <2>3. /\ keepalive[KeyOf(s)].state = "waiting_next"
          /\ keepalive[KeyOf(s)].nextRequest = interval
          /\ pc[s] = "kSleep" /\ s \notin woken => work[s].at = interval
      BY <2>1, <2>2 DEF ThreadOK, OnTime
    <2> QED BY <2>1, <2>2, <2>3 DEF Undisturbed
  <1> QED BY <1>1, <1>2, <1>3, <1>4, <1>5 DEF ThreadOK

-----------------------------------------------------------------------------
(* What a step of goroutine t does to the records of the targets.          *)

SameJob(k) == /\ job'[k].state = job[k].state /\ job'[k].runID = job[k].runID
              /\ job'[k].cancel = job[k].cancel
SameKeepalive(k) ==
    /\ keepalive'[k].state = keepalive[k].state
    /\ keepalive'[k].runID = keepalive[k].runID
    /\ keepalive'[k].cancel = keepalive[k].cancel
    /\ keepalive'[k].nextRequest = keepalive[k].nextRequest

\* Whoever waits for the target of k is woken.
WokenAt(k) == \A s \in Threads : pc[s] \in TargetWaitPcs /\ KeyOf(s) = k => s \in woken'

\* The current worker t of a mode on k
QueueActor(t, k)     == pc[t] \in QueuePcs /\ KeyOf(t) = k /\ QueueCurrent(t)
KeepaliveActor(t, k) == pc[t] \in KeepalivePcs /\ KeyOf(t) = k /\ KeepaliveCurrent(t)

JobStep(t) ==
    \A k \in Keys :
        \/ SameJob(k)
        \/ QueueActor(t, k) /\ job'[k].state # "running" /\ WokenAt(k)
KeepaliveStep(t) ==
    \A k \in Keys :
        \/ SameKeepalive(k)
        \/ KeepaliveActor(t, k) /\ keepalive'[k].state = "stopped" /\ WokenAt(k)
        \/ /\ KeepaliveActor(t, k) /\ keepalive'[k].state # "stopped"
           /\ keepalive'[k].runID = keepalive[k].runID
           /\ keepalive'[k].cancel = keepalive[k].cancel
ArbiterStep(t) ==
    \A k \in Keys :
        \/ arbiter'[k].owner = arbiter[k].owner
        \/ arbiter'[k].owner = "none" /\ WokenAt(k)
        \/ arbiter'[k].owner # "none" /\ (QueueActor(t, k) \/ KeepaliveActor(t, k))
FewerWorkers ==
    \A k \in Keys : /\ job'[k].workers > 0 => job[k].workers > 0
                    /\ keepalive'[k].workers > 0 => keepalive[k].workers > 0

RecordsStep(t) == JobStep(t) /\ KeepaliveStep(t) /\ ArbiterStep(t) /\ FewerWorkers

\* What a step of t leaves to the others
OthersLeft(t) ==
    /\ OthersKept(t) /\ interval' = interval
    /\ \A s \in Threads \ {t} : /\ s \in woken => s \in woken'
                                /\ s \in cancelled => s \in cancelled'

(* Two current workers of one mode on one target are the same.             *)
LEMMA CurrentIsAlone ==
  ASSUME ExclusionInv, NEW s \in Threads, NEW t \in Threads, NEW k,
         \/ QueueActor(s, k) /\ QueueActor(t, k)
         \/ KeepaliveActor(s, k) /\ KeepaliveActor(t, k)
  PROVE  s = t
  <1>1. /\ Kind(s) = Kind(t) /\ Kind(s) # "none"
        /\ KeyOf(s) = KeyOf(t) /\ RunOf(s) = RunOf(t)
    BY KindFacts DEF QueueActor, KeepaliveActor, QueueCurrent, KeepaliveCurrent, Kind
  <1> QED BY <1>1 DEF ExclusionInv, RunsDistinct

(* A goroutine is not disturbed by the step of another one.                *)
LEMMA GoroutineLeaves ==
  ASSUME ModeInv, NEW t \in Threads, RecordsStep(t), OthersLeft(t),
         NEW s \in Threads \ {t}
  PROVE  ThreadOK(s)'
  <1>0. ExclusionInv /\ ThreadOK(s) /\ TypeOK
    BY DEF ModeInv, ExclusionInv
  <1>1. pc'[s] = pc[s] /\ work'[s] = work[s] /\ KeyOf(s)' = KeyOf(s) /\ RunOf(s)' = RunOf(s)
    BY DEF OthersLeft, OthersKept, KeyOf, RunOf
  <1>2. CASE pc[s] = "free"
    BY <1>1, <1>2 DEF ThreadOK, StaysFree, StaleIsCancelled, LeaversAreStale, Signalled, OnTime,
                FreePcs, DuePcs, QueuePcs, KeepalivePcs, TargetWaitPcs
  <1>3. CASE pc[s] # "free"
    <2> DEFINE k == KeyOf(s)
    <2>0. k \in Keys
      BY <1>0, <1>3 DEF TypeOK, Live
    <2>1. pc[s] \in QueuePcs /\ QueueCurrent(s) => SameJob(k)
      <3>1. ASSUME QueueActor(t, k), pc[s] \in QueuePcs, QueueCurrent(s) PROVE FALSE
        BY <1>0, <3>1, CurrentIsAlone DEF QueueActor
      <3> QED BY <2>0, <3>1 DEF RecordsStep, JobStep
    <2>2. pc[s] \in KeepalivePcs /\ KeepaliveCurrent(s) => SameKeepalive(k)
      <3>1. ASSUME KeepaliveActor(t, k), pc[s] \in KeepalivePcs, KeepaliveCurrent(s) PROVE FALSE
        BY <1>0, <3>1, CurrentIsAlone DEF KeepaliveActor
      <3> QED BY <2>0, <3>1 DEF RecordsStep, KeepaliveStep
    <2>3. pc[s] \in QueuePcs => (QueueCurrent(s)' <=> QueueCurrent(s))
      <3>1. SameJob(k) \/ job'[k].state # "running"
        BY <2>0 DEF RecordsStep, JobStep
      <3> QED BY <1>1, <2>1, <3>1 DEF QueueCurrent, SameJob
    <2>4. pc[s] \in KeepalivePcs => (KeepaliveCurrent(s)' <=> KeepaliveCurrent(s))
      <3>1. \/ SameKeepalive(k) \/ keepalive'[k].state = "stopped"
            \/ KeepaliveActor(t, k) /\ keepalive'[k].runID = keepalive[k].runID
        BY <2>0 DEF RecordsStep, KeepaliveStep
      <3>2. KeepaliveActor(t, k) => keepalive[k].state # "stopped"
        BY DEF KeepaliveActor, KeepaliveCurrent
      <3> QED BY <1>1, <2>2, <3>1, <3>2 DEF KeepaliveCurrent, SameKeepalive
    <2>5. /\ pc[s] \in TargetWaitPcs /\ s \notin woken' =>
                /\ job[k].state = "running" => job'[k].state = "running"
                /\ arbiter[k].owner # "none" => arbiter'[k].owner # "none"
      <3> SUFFICES ASSUME pc[s] \in TargetWaitPcs, s \notin woken'
                   PROVE  /\ job[k].state = "running" => job'[k].state = "running"
                          /\ arbiter[k].owner # "none" => arbiter'[k].owner # "none"
        OBVIOUS
      <3>1. ~WokenAt(k)
        BY DEF WokenAt
      <3> QED BY <2>0, <3>1 DEF RecordsStep, JobStep, ArbiterStep, SameJob
    <2>6. ASSUME pc[s] \in FreePcs, KeepaliveCurrent(s), ~Blocked(k)
          PROVE  ~Blocked(k)'
      <3>1. KeepaliveActor(s, k) /\ KeepaliveActive(k)
        BY <2>6 DEF KeepaliveActor, KeepaliveCurrent, KeepaliveActive, FreePcs, KeepalivePcs
      <3>2. ~QueueActive(k)
        BY <2>0, <3>1 DEF ModeInv, TargetOK
      <3>3. ~QueueActor(t, k) /\ ~KeepaliveActor(t, k)
        BY <1>0, <3>1, <3>2, CurrentIsAlone DEF QueueActor, QueueCurrent, QueueActive
      <3>4. SameJob(k) /\ (arbiter'[k].owner = arbiter[k].owner \/ arbiter'[k].owner = "none")
        BY <2>0, <3>3 DEF RecordsStep, JobStep, ArbiterStep
      <3> QED BY <1>1, <2>6, <3>4 DEF Blocked, SameJob
    <2>7. Undisturbed(s)
      <3>1. Blocked(k)' <=> job'[k].state = "running" \/ arbiter'[k].owner # "none"
        BY <1>1 DEF Blocked
      <3>2. pc[s] \in TargetWaitPcs /\ s \notin woken' /\ Blocked(k) => Blocked(k)'
        BY <2>5, <3>1 DEF Blocked
      <3>3. pc[s] \in DuePcs /\ KeepaliveCurrent(s) =>
               keepalive'[k].state = keepalive[k].state /\
               keepalive'[k].nextRequest = keepalive[k].nextRequest
        BY <2>2 DEF DuePcs, KeepalivePcs, SameKeepalive
      <3> QED BY <1>1, <2>3, <2>4, <2>5, <2>6, <3>2, <3>3 DEF Undisturbed, OthersLeft
    <2> QED BY <1>0, <2>7, UndisturbedKeeps
  <1> QED BY <1>2, <1>3

(* ... and remains what it is, unless it leaves.                           *)
MoverKept(t) ==
    \/ pc[t] \in {"qExit", "kExit"} \cup AdhocPcs
    \/ /\ KindAt(pc'[t]) = KindAt(pc[t])
       /\ work'[t].key = work[t].key /\ work'[t].run = work[t].run

LEMMA GoroutineTargets ==
  ASSUME ModeInv, NEW t \in Threads, RecordsStep(t), OthersKept(t), MoverKept(t),
         NEW k \in Keys
  PROVE  TargetOK(k)'
  <1>0. ExclusionInv /\ TargetOK(k) /\ ThreadOK(t)
    BY DEF ModeInv
  <1>1. /\ SameJob(k) \/ job'[k].state # "running"
        /\ \/ SameKeepalive(k) \/ keepalive'[k].state = "stopped"
           \/ /\ keepalive[k].state # "stopped"
              /\ keepalive'[k].runID = keepalive[k].runID
              /\ keepalive'[k].cancel = keepalive[k].cancel
    BY DEF RecordsStep, JobStep, KeepaliveStep, KeepaliveActor, KeepaliveCurrent
  <1>2. /\ QueueActive(k)' => QueueActive(k)
        /\ KeepaliveActive(k)' => KeepaliveActive(k)
    BY <1>1 DEF QueueActive, KeepaliveActive, RecordsStep, FewerWorkers, SameJob, SameKeepalive
  <1>3. QueueHasWorker(k)'
    <2>1. SUFFICES ASSUME job'[k].state = "running"
                   PROVE  \E u \in Threads : /\ job'[k].cancel = {u} /\ pc'[u] \in QueuePcs
                                             /\ work'[u].key = k /\ work'[u].run = job'[k].runID
      BY DEF QueueHasWorker, KeyOf, RunOf
    <2>2. SameJob(k) /\ job[k].state = "running"
      BY <1>1, <2>1 DEF SameJob
    <2>3. PICK u \in Threads : /\ job[k].cancel = {u} /\ pc[u] \in QueuePcs
                               /\ KeyOf(u) = k /\ RunOf(u) = job[k].runID
      BY <1>0, <2>2 DEF TargetOK, QueueHasWorker
    <2>4. QueueCurrent(u)
      BY <2>2, <2>3 DEF QueueCurrent
    <2>5. pc'[u] \in QueuePcs /\ work'[u].key = k /\ work'[u].run = job[k].runID
      <3>1. CASE u # t
        BY <2>3, <3>1 DEF OthersKept, KeyOf, RunOf
      <3>2. CASE u = t
        <4>1. pc[t] \notin {"qExit", "kExit"} \cup AdhocPcs
          BY <1>0, <2>3, <2>4, <3>2
          DEF ThreadOK, LeaversAreStale, QueuePcs, AdhocPcs
        <4> QED BY <2>3, <3>2, <4>1, KindFacts DEF MoverKept, KeyOf, RunOf
      <3> QED BY <3>1, <3>2
    <2> QED BY <2>2, <2>3, <2>5 DEF SameJob
  <1>4. KeepaliveHasWorker(k)'
    <2>1. SUFFICES ASSUME keepalive'[k].state # "stopped"
                   PROVE  \E u \in Threads :
                             /\ keepalive'[k].cancel = {u} /\ pc'[u] \in KeepalivePcs
                             /\ work'[u].key = k /\ work'[u].run = keepalive'[k].runID
      BY DEF KeepaliveHasWorker, KeyOf, RunOf
    <2>2. /\ keepalive[k].state # "stopped"
          /\ keepalive'[k].runID = keepalive[k].runID
          /\ keepalive'[k].cancel = keepalive[k].cancel
      BY <1>1, <2>1 DEF SameKeepalive
    <2>3. PICK u \in Threads : /\ keepalive[k].cancel = {u} /\ pc[u] \in KeepalivePcs
                               /\ KeyOf(u) = k /\ RunOf(u) = keepalive[k].runID
      BY <1>0, <2>2 DEF TargetOK, KeepaliveHasWorker
    <2>4. KeepaliveCurrent(u)
      BY <2>2, <2>3 DEF KeepaliveCurrent
    <2>5. pc'[u] \in KeepalivePcs /\ work'[u].key = k /\ work'[u].run = keepalive[k].runID
      <3>1. CASE u # t
        BY <2>3, <3>1 DEF OthersKept, KeyOf, RunOf
      <3>2. CASE u = t
        <4>1. pc[t] \notin {"qExit", "kExit"} \cup AdhocPcs
          BY <1>0, <2>3, <2>4, <3>2
          DEF ThreadOK, LeaversAreStale, KeepalivePcs, AdhocPcs
        <4> QED BY <2>3, <3>2, <4>1, KindFacts DEF MoverKept, KeyOf, RunOf
      <3> QED BY <3>1, <3>2
    <2> QED BY <2>2, <2>3, <2>5
  <1> QED BY <1>0, <1>2, <1>3, <1>4 DEF TargetOK

GoroutineOK(t) == RecordsStep(t) /\ OthersLeft(t) /\ MoverKept(t) /\ ThreadOK(t)'

LEMMA GoroutineKeeps ==
  ASSUME ModeInv, NEW t \in Threads, GoroutineOK(t)
  PROVE  (\A s \in Threads : ThreadOK(s)') /\ (\A k \in Keys : TargetOK(k)')
  <1>1. \A s \in Threads : ThreadOK(s)'
    BY GoroutineLeaves DEF GoroutineOK
  <1>2. \A k \in Keys : TargetOK(k)'
    BY GoroutineTargets DEF GoroutineOK, OthersLeft
  <1> QED BY <1>1, <1>2

-----------------------------------------------------------------------------
(* The steps of goroutines, one by one.  Most of them leave the records    *)
(* of the targets alone.                                                   *)
LEMMA PlainMove ==
  ASSUME TypeOK, NEW t \in Threads, NEW from, NEW to, At(t, from), Goto(t, to), ThreadOK(t),
         UNCHANGED <<modeVars, interval, cancelled>>,
         \A s \in Threads \ {t} : work'[s] = work[s] /\ (s \in woken => s \in woken'),
         work'[t].key = work[t].key, work'[t].run = work[t].run,
         KindAt(to) = KindAt(from), from \notin {"qExit", "kExit"},
         to \in FreePcs => from \in FreePcs,
         to \in {"qUnSlot", "qUnTarget", "qExit"} => from \in {"qUnSlot", "qUnTarget"},
         to # "kExit",
         to \in TargetWaitPcs => /\ from \in TargetWaitPcs \ {"qTargetWait"} /\ to # "qTargetWait"
                                 /\ t \in woken => t \in woken',
         to \in DuePcs => to = "kNext" /\ from \in DuePcs
  PROVE  GoroutineOK(t)
  <1>1. pc[t] = from /\ pc'[t] = to /\ \A s \in Threads \ {t} : pc'[s] = pc[s]
    BY DEF At, Goto, TypeOK
  <1>2. UNCHANGED <<job, keepalive, arbiter>>
    BY DEF modeVars
  <1>3. RecordsStep(t)
    BY <1>2 DEF RecordsStep, JobStep, KeepaliveStep, ArbiterStep, FewerWorkers, SameJob,
                SameKeepalive
  <1>4. OthersLeft(t)
    BY <1>1 DEF OthersLeft, OthersKept
  <1>5. MoverKept(t)
    BY <1>1 DEF MoverKept
  <1>6. /\ KeyOf(t)' = KeyOf(t) /\ (QueueCurrent(t)' <=> QueueCurrent(t))
        /\ KeepaliveCurrent(t)' <=> KeepaliveCurrent(t)
        /\ Blocked(KeyOf(t))' <=> Blocked(KeyOf(t))
    BY <1>2 DEF KeyOf, RunOf, QueueCurrent, KeepaliveCurrent, Blocked
  <1>7. StaysFree(t)' /\ LeaversAreStale(t)'
    BY <1>1, <1>6 DEF ThreadOK, StaysFree, LeaversAreStale
  <1>8. StaleIsCancelled(t)'
    BY <1>1, <1>6, KindFacts DEF ThreadOK, StaleIsCancelled
  <1>9. Signalled(t)'
    BY <1>1, <1>6 DEF ThreadOK, Signalled
  <1>10. OnTime(t)'
    BY <1>1, <1>2, <1>6 DEF ThreadOK, OnTime
  <1> QED BY <1>3, <1>4, <1>5, <1>7, <1>8, <1>9, <1>10 DEF GoroutineOK, ThreadOK

LEMMA SharedMoves ==
  ASSUME TypeOK, NEW t \in Threads, NEW from, NEW to, NEW other, ThreadOK(t), WorkerFrame,
         KindAt(to) = KindAt(from), KindAt(other) = KindAt(from),
         from \notin {"qExit", "kExit"}, to # "kExit", other # "kExit",
         to \in FreePcs => from \in FreePcs, other \in FreePcs => from \in FreePcs,
         to \in {"qUnSlot", "qUnTarget", "qExit"} => from \in {"qUnSlot", "qUnTarget"},
         other \notin {"qUnSlot", "qUnTarget", "qExit"},
         to \notin TargetWaitPcs, other \notin TargetWaitPcs, other \notin DuePcs,
         to \in DuePcs => to = "kNext" /\ from \in DuePcs,
         \/ Acquire(t, from, to, other) \/ Unblock(t, from, to)
         \/ CheckContext(t, from, to, other) \/ ReleaseSlot(t, from, to)
         \/ FinishProcess(t, from, to)
  PROVE  GoroutineOK(t)
  <1>0. UNCHANGED interval
    BY DEF WorkerFrame, settingVars
  <1>1. PICK p \in {to, other} : Goto(t, p)
    BY DEF Acquire, Unblock, CheckContext, ReleaseSlot, FinishProcess
  <1>2. At(t, from) /\ UNCHANGED <<modeVars, cancelled>>
    BY DEF Acquire, Unblock, CheckContext, ReleaseSlot, FinishProcess
  <1>3. /\ \A s \in Threads \ {t} : work'[s] = work[s] /\ (s \in woken => s \in woken')
        /\ work'[t].key = work[t].key /\ work'[t].run = work[t].run
    <2>1. CASE Unblock(t, from, to)
      BY <2>1 DEF Unblock, TypeOK, WorkRec
    <2>2. CASE FinishProcess(t, from, to)
      BY <2>2 DEF FinishProcess, TypeOK, WorkRec
    <2>3. CASE Acquire(t, from, to, other) \/ CheckContext(t, from, to, other)
      BY <2>3 DEF Acquire, CheckContext
    <2>4. CASE ReleaseSlot(t, from, to)
      BY <2>4 DEF ReleaseSlot
    <2> QED BY <2>1, <2>2, <2>3, <2>4
  <1>4. CASE p = to
    BY <1>0, <1>1, <1>2, <1>3, <1>4, PlainMove
  <1>5. CASE p = other
    BY <1>0, <1>1, <1>2, <1>3, <1>5, PlainMove
  <1> QED BY <1>1, <1>4, <1>5

LEMMA UnblockMoves ==
  ASSUME TypeOK, NEW t \in Threads, NEW from, NEW to, ThreadOK(t), WorkerFrame,
         KindAt(to) = KindAt(from), from \notin {"qExit", "kExit"}, to # "kExit",
         to \notin FreePcs \/ from \in FreePcs,
         to \notin {"qUnSlot", "qUnTarget", "qExit"}, to \notin TargetWaitPcs,
         to \notin DuePcs \/ (to = "kNext" /\ from = "kSleep"),
         Unblock(t, from, to)
  PROVE  GoroutineOK(t)
  <1>0. UNCHANGED interval /\ At(t, from) /\ Goto(t, to) /\ UNCHANGED <<modeVars, cancelled>>
    BY DEF WorkerFrame, settingVars, Unblock
  <1>1. /\ \A s \in Threads \ {t} : work'[s] = work[s] /\ (s \in woken => s \in woken')
        /\ work'[t].key = work[t].key /\ work'[t].run = work[t].run
    BY DEF Unblock, TypeOK, WorkRec
  <1> QED BY <1>0, <1>1, PlainMove DEF DuePcs

(* A goroutine that ends, and one that asks for nothing of the modes.      *)
LEMMA GoneIsOK ==
  ASSUME NEW t \in Threads, pc'[t] = "free" \/ pc'[t] \in AdhocPcs
  PROVE  ThreadOK(t)'
  <1>1. pc'[t] \notin FreePcs \cup DuePcs \cup QueuePcs \cup KeepalivePcs \cup TargetWaitPcs
    BY DEF FreePcs, DuePcs, QueuePcs, KeepalivePcs, TargetWaitPcs, AdhocPcs
  <1>2. pc'[t] \notin {"qUnSlot", "qUnTarget", "qExit", "kExit"}
    BY <1>1 DEF QueuePcs, KeepalivePcs
  <1> QED BY <1>1, <1>2 DEF ThreadOK, StaysFree, StaleIsCancelled, LeaversAreStale, Signalled, OnTime

(* releaseTargetLocked wakes whoever waits for the target.                 *)
LEMMA ReleaseSignals ==
  ASSUME TypeOK, NEW t \in Threads, NEW owner, ReleaseTargetLocked(t, owner),
         WaitingForTarget(Released(t, owner)) \subseteq woken'
  PROVE  ArbiterStep(t)
  <1> SUFFICES ASSUME NEW k \in Keys
               PROVE  \/ arbiter'[k].owner = arbiter[k].owner
                      \/ arbiter'[k].owner = "none" /\ WokenAt(k)
    BY DEF ArbiterStep
  <1>1. CASE k \in Released(t, owner)
    BY <1>1 DEF ReleaseTargetLocked, NewArbiter, WokenAt, WaitingForTarget
  <1>2. CASE k \notin Released(t, owner)
    BY <1>2 DEF ReleaseTargetLocked
  <1> QED BY <1>1, <1>2

(* What is asked of a queue worker.                                        *)
LEMMA QueueWorkerOK ==
  ASSUME NEW t \in Threads, pc'[t] \in QueuePcs,
         pc'[t] # "qExit" => QueueCurrent(t)' \/ t \in cancelled',
         pc'[t] \in {"qUnSlot", "qUnTarget", "qExit"} => ~QueueCurrent(t)',
         pc'[t] = "qTargetWait" => QueueCurrent(t)' /\ arbiter'[work'[t].key].owner # "none"
  PROVE  ThreadOK(t)'
  <1>1. pc'[t] \notin FreePcs \cup DuePcs \cup KeepalivePcs
    BY DEF FreePcs, DuePcs, QueuePcs, KeepalivePcs
  <1>2. pc'[t] \in TargetWaitPcs => pc'[t] = "qTargetWait"
    BY <1>1 DEF TargetWaitPcs, KeepalivePcs
  <1>3. StaysFree(t)' /\ OnTime(t)'
    BY <1>1 DEF StaysFree, OnTime
  <1>4. StaleIsCancelled(t)'
    BY <1>1 DEF StaleIsCancelled
  <1>5. LeaversAreStale(t)'
    BY <1>1 DEF LeaversAreStale, KeepalivePcs
  <1>6. Signalled(t)'
    BY <1>2 DEF Signalled, KeyOf
  <1> QED BY <1>3, <1>4, <1>5, <1>6 DEF ThreadOK

LEMMA QueueKeeps ==
  ASSUME ModeInv, NEW t \in Threads, WorkerFrame, QueueWorker(t)
  PROVE  GoroutineOK(t)
  <1>0. TypeOK /\ ExclusionInv /\ ThreadOK(t) /\ UNCHANGED interval
    BY DEF ModeInv, ExclusionInv, WorkerFrame, settingVars
  <1>00. \A p \in QueuePcs : KindAt(p) = "queue" /\ p \notin AdhocPcs
    BY KindFacts
  <1>k. pc[t] \in QueuePcs => KeyOf(t) \in Keys
    BY <1>0 DEF TypeOK, Live, QueuePcs
  <1>k2. pc[t] \in QueuePcs => RunOf(t) = work[t].run /\ job[KeyOf(t)] \in JobRec
    BY <1>0, <1>k DEF TypeOK, RunOf
  <1>u. job' = job => JobStep(t)
    BY DEF JobStep, SameJob
  <1>v. keepalive' = keepalive => KeepaliveStep(t)
    BY DEF KeepaliveStep, SameKeepalive
  <1>w. job' = job /\ keepalive' = keepalive => FewerWorkers
    BY DEF FewerWorkers
  <1>1. CASE AcquireQueueTarget(t)
    <2>1. /\ pc[t] = "qTarget" /\ UNCHANGED <<job, keepalive, work, cancelled, woken>>
          /\ OthersKept(t)
          /\ pc'[t] = IF ~QueueCurrent(t) THEN "qCancel"
                      ELSE IF arbiter[KeyOf(t)].owner = "none" THEN "qSlot" ELSE "qTargetWait"
      BY <1>0, <1>1 DEF AcquireQueueTarget, At, Goto, TypeOK, OthersKept
    <2>2. QueueCurrent(t)' <=> QueueCurrent(t)
      BY <2>1 DEF QueueCurrent, KeyOf, RunOf
    <2>3. ArbiterStep(t)
      <3>1. CASE QueueCurrent(t) /\ arbiter[KeyOf(t)].owner = "none"
        <4>1. QueueActor(t, KeyOf(t))
          BY <2>1, <3>1 DEF QueueActor, QueuePcs
        <4>2. \A k \in Keys : arbiter'[k] = arbiter[k] \/ (k = KeyOf(t) /\ arbiter'[k].owner = "queue")
          <5>1. TakeTarget(t, "queue") /\ arbiter \in [Keys -> ArbiterRec]
            BY <1>0, <1>1, <3>1 DEF AcquireQueueTarget, TypeOK
          <5> QED BY <5>1 DEF TakeTarget
        <4> QED BY <4>1, <4>2 DEF ArbiterStep
      <3>2. CASE ~(QueueCurrent(t) /\ arbiter[KeyOf(t)].owner = "none")
        BY <1>1, <3>2 DEF AcquireQueueTarget, ArbiterStep
      <3> QED BY <3>1, <3>2
    <2>4. ~QueueCurrent(t) => t \in cancelled
      BY <1>0, <2>1 DEF ThreadOK, StaleIsCancelled, QueuePcs
    <2>5. pc'[t] = "qTargetWait" => arbiter'[work'[t].key].owner # "none"
      BY <1>1, <2>1 DEF AcquireQueueTarget, KeyOf
    <2>6. ThreadOK(t)'
      BY <2>1, <2>2, <2>4, <2>5, QueueWorkerOK DEF QueuePcs
    <2>7. MoverKept(t)
      BY <1>00, <2>1 DEF MoverKept, QueuePcs
    <2> QED BY <1>0, <1>u, <1>v, <1>w, <2>1, <2>3, <2>6, <2>7
            DEF GoroutineOK, RecordsStep, OthersLeft
  <1>2. CASE BeginAttempt(t)
    <2>1. /\ At(t, "qBegin") /\ Goto(t, "qRunning") /\ UNCHANGED <<modeVars, cancelled, woken>>
          /\ \A s \in Threads \ {t} : work'[s] = work[s]
          /\ work'[t].key = work[t].key /\ work'[t].run = work[t].run
      BY <1>0, <1>2 DEF BeginAttempt, TypeOK, WorkRec
    <2> QED BY <1>0, <1>00, <2>1, PlainMove DEF QueuePcs, FreePcs, TargetWaitPcs, DuePcs
  <1>3. CASE AttemptRefused(t)
    <2>1. /\ pc[t] = "qBegin" /\ pc'[t] = "qUnSlot" /\ OthersKept(t)
          /\ UNCHANGED <<job, keepalive, arbiter, work, cancelled, woken>>
      BY <1>0, <1>3 DEF AttemptRefused, At, Goto, TypeOK, OthersKept, modeVars
    <2>2. Owns(t, "queue")
      BY <1>0, <1>00, <2>1 DEF ExclusionInv, HoldersOwn, HoldingPcs, Kind, QueuePcs
    <2>3. ~QueueCurrent(t) /\ ~QueueCurrent(t)'
      BY <1>3, <2>1, <2>2 DEF AttemptRefused, QueueCurrent, KeyOf, RunOf
    <2>4. t \in cancelled'
      BY <1>0, <2>1, <2>3 DEF ThreadOK, StaleIsCancelled, QueuePcs
    <2>5. ThreadOK(t)'
      BY <2>1, <2>3, <2>4, QueueWorkerOK DEF QueuePcs
    <2>6. MoverKept(t) /\ ArbiterStep(t)
      BY <1>00, <2>1 DEF MoverKept, QueuePcs, ArbiterStep
    <2> QED BY <1>0, <1>u, <1>v, <1>w, <2>1, <2>5, <2>6
            DEF GoroutineOK, RecordsStep, OthersLeft
  <1>4. CASE ReleaseTarget(t)
    <2>1. /\ pc[t] = "qUnTarget" /\ pc'[t] = "qExit" /\ OthersKept(t)
          /\ UNCHANGED <<job, keepalive, work, cancelled>> /\ woken \subseteq woken'
      BY <1>0, <1>4 DEF ReleaseTarget, At, Goto, TypeOK, OthersKept
    <2>2. ArbiterStep(t)
      BY <1>0, <1>4, ReleaseSignals DEF ReleaseTarget
    <2>3. ~QueueCurrent(t)'
      BY <1>0, <2>1 DEF ThreadOK, LeaversAreStale, QueueCurrent, KeyOf, RunOf
    <2>4. ThreadOK(t)'
      BY <2>1, <2>3, QueueWorkerOK DEF QueuePcs
    <2>5. MoverKept(t)
      BY <1>00, <2>1 DEF MoverKept, QueuePcs
    <2> QED BY <1>0, <1>u, <1>v, <1>w, <2>1, <2>2, <2>4, <2>5
            DEF GoroutineOK, RecordsStep, OthersLeft
  <1>5. ASSUME MarkSuccess(t) \/ MarkFailure(t) \/ MarkQueueCancelled(t)
        PROVE  GoroutineOK(t)
    <2>1. /\ pc[t] \in {"qSuccess", "qFailure", "qCancel"} /\ OthersKept(t)
          /\ pc'[t] = IF QueueCurrent(t) /\ pc[t] = "qFailure" THEN "qTarget" ELSE "qExit"
          /\ UNCHANGED <<keepalive, work>> /\ woken \subseteq woken' /\ cancelled \subseteq cancelled'
      BY <1>0, <1>5 DEF MarkSuccess, MarkFailure, MarkQueueCancelled, At, Goto, TypeOK, OthersKept
    <2>2. ReleaseTargetLocked(t, "queue")
      BY <1>5 DEF MarkSuccess, MarkFailure, MarkQueueCancelled
    <2>3. pc[t] \in HoldingPcs => Released(t, "queue") = {KeyOf(t)}
      BY <1>0, <1>00, <2>1 DEF ExclusionInv, HoldersOwn, Kind, QueuePcs, Released
    <2>4. WaitingForTarget(Released(t, "queue")) \subseteq woken'
      BY <1>5 DEF MarkSuccess, MarkFailure, MarkQueueCancelled, Released, WaitingForTarget
    <2>5. ArbiterStep(t)
      BY <1>0, <2>2, <2>4, ReleaseSignals
    <2>6. QueueCurrent(t) => WokenAt(KeyOf(t))
      <3>1. CASE MarkQueueCancelled(t)
        BY <3>1 DEF MarkQueueCancelled, WokenAt, WaitingForTarget
      <3>2. CASE MarkSuccess(t) \/ MarkFailure(t)
        BY <2>3, <2>4, <3>2
        DEF MarkSuccess, MarkFailure, At, HoldingPcs, WokenAt, WaitingForTarget
      <3> QED BY <1>5, <3>1, <3>2
    <2>7. \/ job' = job /\ (pc'[t] = "qTarget" \/ ~QueueCurrent(t))
          \/ /\ QueueCurrent(t) /\ pc'[t] = "qExit"
             /\ \E state \in {"succeeded", "stopped"} : EndQueueRun(KeyOf(t), state)
      BY <1>0, <1>5, <2>1 DEF MarkSuccess, MarkFailure, MarkQueueCancelled, At
    <2>8. /\ JobStep(t) /\ FewerWorkers /\ (pc'[t] = "qExit" => ~QueueCurrent(t)')
          /\ pc'[t] = "qTarget" => QueueCurrent(t)'
      <3>1. CASE job' = job /\ (pc'[t] = "qTarget" \/ ~QueueCurrent(t))
        <4>1. QueueCurrent(t)' <=> QueueCurrent(t)
          BY <2>1, <3>1 DEF QueueCurrent, KeyOf, RunOf
        <4> QED BY <1>u, <1>w, <2>1, <3>1, <4>1
      <3>2. ASSUME QueueCurrent(t), pc'[t] = "qExit", NEW state \in {"succeeded", "stopped"},
                   EndQueueRun(KeyOf(t), state)
            PROVE  JobStep(t) /\ FewerWorkers /\ (pc'[t] = "qExit" => ~QueueCurrent(t)')
        <4>1. KeyOf(t) \in Keys /\ QueueActor(t, KeyOf(t))
          BY <1>k, <2>1, <3>2 DEF QueueActor, QueuePcs
        <4>2. /\ \A k \in Keys \ {KeyOf(t)} : job'[k] = job[k]
              /\ job'[KeyOf(t)].state # "running"
              /\ job'[KeyOf(t)].workers = job[KeyOf(t)].workers
          BY <1>0, <3>2, <4>1 DEF EndQueueRun, TypeOK, JobRec
        <4>3. JobStep(t)
          BY <2>6, <3>2, <4>1, <4>2 DEF JobStep, SameJob
        <4>4. FewerWorkers
          BY <2>1, <4>2 DEF FewerWorkers
        <4>5. ~QueueCurrent(t)'
          BY <2>1, <4>2 DEF QueueCurrent, KeyOf
        <4> QED BY <4>3, <4>4, <4>5
      <3> QED BY <2>7, <3>1, <3>2
    <2>9. ThreadOK(t)'
      BY <2>1, <2>8, QueueWorkerOK DEF QueuePcs
    <2>10. MoverKept(t)
      BY <1>00, <2>1 DEF MoverKept, QueuePcs
    <2> QED BY <1>0, <1>v, <2>1, <2>5, <2>8, <2>9, <2>10
            DEF GoroutineOK, RecordsStep, OthersLeft
  <1>8. CASE FinishQueueWorker(t)
    <2>1. /\ pc[t] = "qExit" /\ pc'[t] = "free" /\ OthersKept(t)
          /\ UNCHANGED <<keepalive, arbiter, woken>>
          /\ \A s \in Threads \ {t} : s \in cancelled => s \in cancelled'
      BY <1>0, <1>8 DEF FinishQueueWorker, Leave, At, Goto, TypeOK, OthersKept
    <2>2. KeyOf(t) \in Keys
      BY <1>k, <2>1 DEF QueuePcs
    <2>3. \A k \in Keys : /\ SameJob(k)
                          /\ job'[k].workers > 0 => job[k].workers > 0
      BY <1>0, <1>8, <2>2 DEF FinishQueueWorker, TypeOK, JobRec, SameJob
    <2>4. RecordsStep(t)
      BY <1>v, <2>1, <2>3 DEF RecordsStep, JobStep, ArbiterStep, FewerWorkers
    <2>5. ThreadOK(t)'
      BY <2>1, GoneIsOK
    <2> QED BY <1>0, <2>1, <2>4, <2>5 DEF GoroutineOK, OthersLeft, MoverKept
  <1> USE DEF QueuePcs, FreePcs, TargetWaitPcs, DuePcs
  <1>9. CASE Resume(t, "qTargetWait", "qTarget") \/ Resume(t, "qSlotWait", "qSlot")
    <2>1. Unblock(t, "qTargetWait", "qTarget") \/ Unblock(t, "qSlotWait", "qSlot")
      BY <1>9 DEF Resume
    <2>2. CASE Unblock(t, "qTargetWait", "qTarget")
      BY <1>0, <1>00, <2>2, UnblockMoves
    <2>3. CASE Unblock(t, "qSlotWait", "qSlot")
      BY <1>0, <1>00, <2>3, UnblockMoves
    <2> QED BY <2>1, <2>2, <2>3
  <1>10. CASE Acquire(t, "qSlot", "qBegin", "qSlotWait")
    BY <1>0, <1>00, <1>10, SharedMoves
  <1>11. CASE CheckContext(t, "qCheck", "qCancel", "qFailure")
    BY <1>0, <1>00, <1>11, SharedMoves
  <1>12. CASE ReleaseSlot(t, "qUnSlot", "qUnTarget")
    <2>1. /\ At(t, "qUnSlot") /\ Goto(t, "qUnTarget") /\ woken \subseteq woken'
          /\ UNCHANGED <<modeVars, cancelled, work, interval>>
      BY <1>0, <1>12 DEF ReleaseSlot, WorkerFrame, settingVars
    <2>2. KindAt("qUnSlot") = KindAt("qUnTarget")
      BY <1>00
    <2> QED BY <1>0, <2>1, <2>2, PlainMove
  <1> QED
    BY <1>1, <1>2, <1>3, <1>4, <1>5, <1>8, <1>9, <1>10, <1>11, <1>12 DEF QueueWorker

(* What is asked of a keepalive worker.                                    *)
LEMMA KeepaliveWorkerOK ==
  ASSUME NEW t \in Threads, pc'[t] \in KeepalivePcs,
         pc'[t] # "kExit" => KeepaliveCurrent(t)' \/ t \in cancelled',
         pc'[t] = "kExit" => ~KeepaliveCurrent(t)',
         pc'[t] \in FreePcs => ~Blocked(KeyOf(t))',
         pc'[t] \in TargetWaitPcs => KeepaliveCurrent(t)' /\ Blocked(KeyOf(t))',
         pc'[t] \in DuePcs /\ KeepaliveCurrent(t)' =>
             /\ keepalive'[work'[t].key].state = "waiting_next"
             /\ keepalive'[work'[t].key].nextRequest = interval'
             /\ pc'[t] = "kSleep" => work'[t].at = interval'
  PROVE  ThreadOK(t)'
  <1>1. pc'[t] \notin QueuePcs
    BY DEF QueuePcs, KeepalivePcs
  <1>2. StaysFree(t)' /\ Signalled(t)'
    BY <1>1 DEF StaysFree, Signalled, QueuePcs
  <1>3. StaleIsCancelled(t)' /\ LeaversAreStale(t)'
    BY <1>1 DEF StaleIsCancelled, LeaversAreStale, QueuePcs
  <1>4. OnTime(t)'
    BY DEF OnTime, KeyOf
  <1> QED BY <1>2, <1>3, <1>4 DEF ThreadOK

(* The current keepalive worker changes what is shown of its target.       *)
LEMMA CurrentShows ==
  ASSUME TypeOK, NEW t \in Threads, pc[t] \in KeepalivePcs, KeepaliveCurrent(t),
         KeyOf(t) \in Keys, work'[t].key = work[t].key, work'[t].run = work[t].run,
         \A k \in Keys \ {KeyOf(t)} : keepalive'[k] = keepalive[k],
         keepalive'[KeyOf(t)].state # "stopped",
         keepalive'[KeyOf(t)].runID = keepalive[KeyOf(t)].runID,
         keepalive'[KeyOf(t)].cancel = keepalive[KeyOf(t)].cancel,
         keepalive'[KeyOf(t)].workers = keepalive[KeyOf(t)].workers,
         job' = job
  PROVE  JobStep(t) /\ KeepaliveStep(t) /\ FewerWorkers /\ KeepaliveCurrent(t)'
  <1>1. JobStep(t) /\ KeepaliveStep(t)
    BY DEF JobStep, KeepaliveStep, SameJob, SameKeepalive, KeepaliveActor
  <1>2. FewerWorkers
    BY DEF FewerWorkers
  <1>3. KeepaliveCurrent(t)'
    BY DEF KeepaliveCurrent, KeyOf, RunOf
  <1> QED BY <1>1, <1>2, <1>3

LEMMA KeepaliveKeeps ==
  ASSUME ModeInv, NEW t \in Threads, WorkerFrame, KeepaliveWorker(t)
  PROVE  GoroutineOK(t)
  <1>0. TypeOK /\ ExclusionInv /\ ThreadOK(t) /\ UNCHANGED interval
    BY DEF ModeInv, ExclusionInv, WorkerFrame, settingVars
  <1>00. \A p \in KeepalivePcs : KindAt(p) = "keepalive" /\ p \notin AdhocPcs
    BY KindFacts
  <1>k. pc[t] \in KeepalivePcs => KeyOf(t) \in Keys
    BY <1>0 DEF TypeOK, Live, KeepalivePcs
  <1>s. pc[t] \in KeepalivePcs \ {"kExit"} /\ ~KeepaliveCurrent(t) => t \in cancelled
    BY <1>0 DEF ThreadOK, StaleIsCancelled
  <1>u. job' = job => JobStep(t)
    BY DEF JobStep, SameJob
  <1>v. keepalive' = keepalive => KeepaliveStep(t)
    BY DEF KeepaliveStep, SameKeepalive
  <1>w. job' = job /\ keepalive' = keepalive => FewerWorkers
    BY DEF FewerWorkers
  <1>x. arbiter' = arbiter => ArbiterStep(t)
    BY DEF ArbiterStep
  <1>y. UNCHANGED <<keepalive, work>> => (KeepaliveCurrent(t)' <=> KeepaliveCurrent(t))
    BY DEF KeepaliveCurrent, KeyOf, RunOf
  <1>z. UNCHANGED <<job, arbiter, work>> => (Blocked(KeyOf(t))' <=> Blocked(KeyOf(t)))
    BY DEF Blocked, KeyOf
  <1>1. ASSUME BeginKeepaliveRequest(t) \/ KeepaliveRefused(t)
        PROVE  GoroutineOK(t)
    <2>1. /\ pc[t] \in {"kFirst", "kBegin"} /\ OthersKept(t)
          /\ UNCHANGED <<job, arbiter, work, cancelled, woken>>
          /\ pc'[t] \in {"kTargetWait", "kSlot", "kUnSlotWait", "kCancel", "kUnSlot"}
          /\ pc'[t] \in {"kTargetWait", "kUnSlotWait"} => KeepaliveCurrent(t) /\ Blocked(KeyOf(t))
          /\ pc'[t] = "kSlot" => KeepaliveCurrent(t) /\ ~Blocked(KeyOf(t))
          /\ pc'[t] \in {"kCancel", "kUnSlot"} => ~KeepaliveCurrent(t)
      BY <1>0, <1>1 DEF BeginKeepaliveRequest, KeepaliveRefused, At, Goto, TypeOK, OthersKept,
                        ShowKeepalive, modeVars
    <2>2. KeyOf(t) \in Keys
      BY <1>k, <2>1 DEF KeepalivePcs
    <2>3. KeepaliveCurrent(t) =>
            \E state \in {"waiting_queue", "requesting", keepalive[KeyOf(t)].state} :
                ShowKeepalive(KeyOf(t), state)
      BY <1>1 DEF BeginKeepaliveRequest, KeepaliveRefused
    <2>4. ~KeepaliveCurrent(t) => keepalive' = keepalive
      BY <1>1 DEF BeginKeepaliveRequest, KeepaliveRefused, modeVars
    <2>5. JobStep(t) /\ KeepaliveStep(t) /\ FewerWorkers
          /\ (KeepaliveCurrent(t)' <=> KeepaliveCurrent(t))
      <3>1. CASE KeepaliveCurrent(t)
        <4>1. PICK state \in {"waiting_queue", "requesting", keepalive[KeyOf(t)].state} :
                      ShowKeepalive(KeyOf(t), state)
          BY <2>3, <3>1
        <4>2. state # "stopped" /\ keepalive[KeyOf(t)] \in KeepaliveRec
          BY <1>0, <2>2, <3>1, <4>1 DEF KeepaliveCurrent, TypeOK
        <4>3. keepalive' = [keepalive EXCEPT ![KeyOf(t)].state = state]
          BY <4>1 DEF ShowKeepalive
        <4>4. /\ \A k \in Keys \ {KeyOf(t)} : keepalive'[k] = keepalive[k]
              /\ keepalive'[KeyOf(t)].state = state
              /\ keepalive'[KeyOf(t)].runID = keepalive[KeyOf(t)].runID
              /\ keepalive'[KeyOf(t)].cancel = keepalive[KeyOf(t)].cancel
              /\ keepalive'[KeyOf(t)].workers = keepalive[KeyOf(t)].workers
          BY <1>0, <2>2, <4>2, <4>3 DEF TypeOK, KeepaliveRec
        <4>5. pc[t] \in KeepalivePcs
          BY <2>1 DEF KeepalivePcs
        <4> QED BY <1>0, <2>1, <2>2, <3>1, <4>2, <4>4, <4>5, CurrentShows
      <3>2. CASE ~KeepaliveCurrent(t)
        BY <1>u, <1>v, <1>w, <1>y, <2>1, <2>4, <3>2
      <3> QED BY <3>1, <3>2
    <2>6. ThreadOK(t)'
      <3>1. pc'[t] \in KeepalivePcs \ {"kExit"} /\ pc'[t] \notin DuePcs
        BY <2>1 DEF KeepalivePcs, DuePcs
      <3>2. KeepaliveCurrent(t)' \/ t \in cancelled'
        BY <1>s, <2>1, <2>5 DEF KeepalivePcs
      <3>3. /\ pc'[t] \in FreePcs => pc'[t] = "kSlot"
            /\ pc'[t] \in TargetWaitPcs => pc'[t] \in {"kTargetWait", "kUnSlotWait"}
        BY <2>1 DEF FreePcs, TargetWaitPcs
      <3> QED BY <1>z, <2>1, <2>5, <3>1, <3>2, <3>3, KeepaliveWorkerOK
    <2>7. MoverKept(t)
      BY <1>00, <2>1 DEF MoverKept, KeepalivePcs
    <2> QED BY <1>0, <1>x, <2>1, <2>5, <2>6, <2>7 DEF GoroutineOK, RecordsStep, OthersLeft
  <1>2. CASE KeepaliveRequest(t)
    <2>1. /\ pc[t] = "kBegin" /\ pc'[t] = "kRunning" /\ OthersKept(t) /\ KeepaliveCurrent(t)
          /\ UNCHANGED <<job, cancelled, woken>> /\ TakeTarget(t, "keepalive")
          /\ keepalive' = Scheduled(KeyOf(t), "requesting", keepalive[KeyOf(t)].cancel, 0)
      BY <1>0, <1>2 DEF KeepaliveRequest, At, Goto, TypeOK, OthersKept
    <2>2. work'[t].key = work[t].key /\ work'[t].run = work[t].run
      BY <1>0, <1>2 DEF KeepaliveRequest, TypeOK, WorkRec
    <2>3. KeyOf(t) \in Keys /\ pc[t] \in KeepalivePcs
      BY <1>k, <2>1 DEF KeepalivePcs
    <2>4. /\ \A k \in Keys \ {KeyOf(t)} : keepalive'[k] = keepalive[k]
          /\ keepalive'[KeyOf(t)].state = "requesting"
          /\ keepalive'[KeyOf(t)].runID = keepalive[KeyOf(t)].runID
          /\ keepalive'[KeyOf(t)].cancel = keepalive[KeyOf(t)].cancel
          /\ keepalive'[KeyOf(t)].workers = keepalive[KeyOf(t)].workers
      BY <1>0, <2>1, <2>3 DEF Scheduled, TypeOK, KeepaliveRec
    <2>5. JobStep(t) /\ KeepaliveStep(t) /\ FewerWorkers /\ KeepaliveCurrent(t)'
      BY <1>0, <2>1, <2>2, <2>3, <2>4, CurrentShows
    <2>6. ArbiterStep(t)
      <3>1. \A k \in Keys : \/ arbiter'[k] = arbiter[k]
                            \/ k = KeyOf(t) /\ arbiter'[k].owner = "keepalive"
        BY <1>0, <2>1 DEF TakeTarget, TypeOK
      <3> QED BY <2>1, <2>3, <3>1 DEF ArbiterStep, KeepaliveActor
    <2>7. ThreadOK(t)'
      BY <2>1, <2>5, KeepaliveWorkerOK DEF KeepalivePcs, FreePcs, TargetWaitPcs, DuePcs
    <2>8. MoverKept(t)
      BY <1>00, <2>1, <2>2 DEF MoverKept, KeepalivePcs
    <2> QED BY <1>0, <2>1, <2>5, <2>6, <2>7, <2>8 DEF GoroutineOK, RecordsStep, OthersLeft
  <1>3. CASE FinishKeepaliveRequest(t)
    <2>1. /\ pc[t] = "kFinish" /\ OthersKept(t)
          /\ pc'[t] = IF KeepaliveCurrent(t) THEN "kNext" ELSE "kExit"
          /\ UNCHANGED <<job, work, cancelled>> /\ woken \subseteq woken'
          /\ keepalive' = IF KeepaliveCurrent(t)
                            THEN Scheduled(KeyOf(t), "waiting_next",
                                           keepalive[KeyOf(t)].cancel, interval)
                            ELSE keepalive
      BY <1>0, <1>3 DEF FinishKeepaliveRequest, At, Goto, TypeOK, OthersKept
    <2>2. ArbiterStep(t)
      BY <1>0, <1>3, ReleaseSignals DEF FinishKeepaliveRequest
    <2>3. KeyOf(t) \in Keys /\ pc[t] \in KeepalivePcs
      BY <1>k, <2>1 DEF KeepalivePcs
    <2>4. MoverKept(t)
      BY <1>00, <2>1 DEF MoverKept, KeepalivePcs
    <2>5. CASE KeepaliveCurrent(t)
      <3>1. /\ \A k \in Keys \ {KeyOf(t)} : keepalive'[k] = keepalive[k]
            /\ keepalive'[KeyOf(t)].state = "waiting_next"
            /\ keepalive'[KeyOf(t)].nextRequest = interval
            /\ keepalive'[KeyOf(t)].runID = keepalive[KeyOf(t)].runID
            /\ keepalive'[KeyOf(t)].cancel = keepalive[KeyOf(t)].cancel
            /\ keepalive'[KeyOf(t)].workers = keepalive[KeyOf(t)].workers
        BY <1>0, <2>1, <2>3, <2>5 DEF Scheduled, TypeOK, KeepaliveRec
      <3>2. JobStep(t) /\ KeepaliveStep(t) /\ FewerWorkers /\ KeepaliveCurrent(t)'
        BY <1>0, <2>1, <2>3, <2>5, <3>1, CurrentShows
      <3>3. pc'[t] = "kNext" /\ work'[t].key = KeyOf(t) /\ interval' = interval
        BY <1>0, <2>1, <2>5 DEF KeyOf
      <3>4. pc'[t] \in KeepalivePcs \ {"kExit"} /\ pc'[t] \notin FreePcs \cup TargetWaitPcs
        BY <3>3 DEF KeepalivePcs, FreePcs, TargetWaitPcs
      <3>5. ThreadOK(t)'
        BY <3>1, <3>2, <3>3, <3>4, KeepaliveWorkerOK
      <3> QED BY <1>0, <2>1, <2>2, <2>4, <3>2, <3>5 DEF GoroutineOK, RecordsStep, OthersLeft
    <2>6. CASE ~KeepaliveCurrent(t)
      <3>1. ThreadOK(t)'
        BY <1>y, <2>1, <2>6, KeepaliveWorkerOK DEF KeepalivePcs, FreePcs, TargetWaitPcs, DuePcs
      <3> QED BY <1>0, <1>u, <1>v, <1>w, <2>1, <2>2, <2>4, <2>6, <3>1
              DEF GoroutineOK, RecordsStep, OthersLeft
    <2> QED BY <2>5, <2>6
  <1>4. CASE WaitKeepaliveNext(t)
    <2>1. /\ pc[t] = "kNext" /\ OthersKept(t)
          /\ UNCHANGED <<job, keepalive, arbiter, cancelled, woken>>
          /\ work'[t].key = work[t].key /\ work'[t].run = work[t].run
      BY <1>0, <1>4 DEF WaitKeepaliveNext, At, Goto, TypeOK, WorkRec, OthersKept, modeVars
    <2>2. KeyOf(t) \in Known
      BY <1>0, <2>1 DEF ExclusionInv, WorkHasTarget, Live
    <2>3. /\ pc'[t] = IF KeepaliveCurrent(t) THEN "kSleep" ELSE "kCancel"
          /\ KeepaliveCurrent(t) => work'[t].at = keepalive[KeyOf(t)].nextRequest
      BY <1>0, <1>4, <2>2 DEF WaitKeepaliveNext, At, Goto, TypeOK, WorkRec
    <2>4. KeepaliveCurrent(t)' <=> KeepaliveCurrent(t)
      BY <2>1 DEF KeepaliveCurrent, KeyOf, RunOf
    <2>5. KeepaliveCurrent(t) => /\ keepalive[KeyOf(t)].state = "waiting_next"
                                 /\ keepalive[KeyOf(t)].nextRequest = interval
      BY <1>0, <2>1 DEF ThreadOK, OnTime, DuePcs
    <2>6. ThreadOK(t)'
      BY <1>0, <1>s, <2>1, <2>3, <2>4, <2>5, KeepaliveWorkerOK
      DEF KeepalivePcs, FreePcs, TargetWaitPcs, DuePcs, KeyOf
    <2>7. MoverKept(t)
      BY <1>00, <2>1, <2>3 DEF MoverKept, KeepalivePcs
    <2> QED BY <1>0, <1>u, <1>v, <1>w, <1>x, <2>1, <2>6, <2>7
            DEF GoroutineOK, RecordsStep, OthersLeft
  <1>5. CASE MarkKeepaliveCancelled(t)
    <2>1. /\ pc[t] = "kCancel" /\ pc'[t] = "kExit" /\ OthersKept(t)
          /\ UNCHANGED <<job, work, cancelled>> /\ woken \subseteq woken'
          /\ keepalive' = IF KeepaliveCurrent(t) THEN Scheduled(KeyOf(t), "stopped", {}, 0)
                                                 ELSE keepalive
      BY <1>0, <1>5 DEF MarkKeepaliveCancelled, At, Goto, TypeOK, OthersKept
    <2>2. ArbiterStep(t)
      <3>1. WaitingForTarget(Released(t, "keepalive")) \subseteq woken'
        BY <1>5 DEF MarkKeepaliveCancelled, Released, WaitingForTarget
      <3> QED BY <1>0, <1>5, <3>1, ReleaseSignals DEF MarkKeepaliveCancelled
    <2>3. KeyOf(t) \in Keys /\ pc[t] \in KeepalivePcs
      BY <1>k, <2>1 DEF KeepalivePcs
    <2>4. MoverKept(t)
      BY <1>00, <2>1 DEF MoverKept, KeepalivePcs
    <2>5. CASE KeepaliveCurrent(t)
      <3>1. /\ \A k \in Keys \ {KeyOf(t)} : keepalive'[k] = keepalive[k]
            /\ keepalive'[KeyOf(t)].state = "stopped"
            /\ keepalive'[KeyOf(t)].workers = keepalive[KeyOf(t)].workers
        BY <1>0, <2>1, <2>3, <2>5 DEF Scheduled, TypeOK, KeepaliveRec
      <3>2. WokenAt(KeyOf(t))
        BY <1>5, <2>5 DEF MarkKeepaliveCancelled, WokenAt, WaitingForTarget
      <3>3. KeepaliveStep(t)
        BY <2>3, <2>5, <3>1, <3>2 DEF KeepaliveStep, SameKeepalive, KeepaliveActor
      <3>4. FewerWorkers
        BY <2>1, <3>1 DEF FewerWorkers
      <3>5. ~KeepaliveCurrent(t)'
        BY <2>1, <3>1 DEF KeepaliveCurrent, KeyOf
      <3>6. ThreadOK(t)'
        BY <2>1, <3>5, KeepaliveWorkerOK DEF KeepalivePcs, FreePcs, TargetWaitPcs, DuePcs
      <3> QED BY <1>0, <1>u, <2>1, <2>2, <2>4, <3>3, <3>4, <3>6
              DEF GoroutineOK, RecordsStep, OthersLeft
    <2>6. CASE ~KeepaliveCurrent(t)
      <3>1. ThreadOK(t)'
        BY <1>y, <2>1, <2>6, KeepaliveWorkerOK DEF KeepalivePcs, FreePcs, TargetWaitPcs, DuePcs
      <3> QED BY <1>0, <1>u, <1>v, <1>w, <2>1, <2>2, <2>4, <2>6, <3>1
              DEF GoroutineOK, RecordsStep, OthersLeft
    <2> QED BY <2>5, <2>6
  <1>6. CASE FinishKeepaliveWorker(t)
    <2>1. /\ pc[t] = "kExit" /\ pc'[t] = "free" /\ OthersKept(t)
          /\ UNCHANGED <<job, arbiter, woken>>
          /\ \A s \in Threads \ {t} : s \in cancelled => s \in cancelled'
      BY <1>0, <1>6 DEF FinishKeepaliveWorker, Leave, At, Goto, TypeOK, OthersKept
    <2>2. KeyOf(t) \in Keys
      BY <1>k, <2>1 DEF KeepalivePcs
    <2>3. \A k \in Keys : /\ SameKeepalive(k)
                          /\ keepalive'[k].workers > 0 => keepalive[k].workers > 0
      BY <1>0, <1>6, <2>2 DEF FinishKeepaliveWorker, TypeOK, KeepaliveRec, SameKeepalive
    <2>4. RecordsStep(t)
      BY <1>u, <1>x, <2>1, <2>3 DEF RecordsStep, KeepaliveStep, FewerWorkers
    <2>5. ThreadOK(t)'
      BY <2>1, GoneIsOK
    <2> QED BY <1>0, <2>1, <2>4, <2>5 DEF GoroutineOK, OthersLeft, MoverKept
  <1>7. CASE ReleaseKeepaliveSlot(t)
    <2>1. CASE ReleaseSlot(t, "kUnSlot", "kCancel")
      <3>1. /\ At(t, "kUnSlot") /\ Goto(t, "kCancel") /\ woken \subseteq woken'
            /\ UNCHANGED <<modeVars, work, cancelled>>
        BY <2>1 DEF ReleaseSlot
      <3> QED BY <1>0, <1>00, <3>1, PlainMove DEF KeepalivePcs, FreePcs, TargetWaitPcs, DuePcs
    <2>2. CASE ReleaseSlot(t, "kUnSlotWait", "kTargetWait")
      <3>1. /\ At(t, "kUnSlotWait") /\ Goto(t, "kTargetWait") /\ woken \subseteq woken'
            /\ UNCHANGED <<modeVars, work, cancelled>>
        BY <2>2 DEF ReleaseSlot
      <3> QED BY <1>0, <1>00, <3>1, PlainMove DEF KeepalivePcs, FreePcs, TargetWaitPcs, DuePcs
    <2> QED BY <1>7, <2>1, <2>2 DEF ReleaseKeepaliveSlot
  <1>p. /\ \A p \in {"kFirst", "kSlot", "kNext", "kCancel", "kTargetWait", "kSlotWait", "kSleep"} :
              KindAt(p) = "keepalive"
        /\ \A p \in {"kFirst", "kNext", "kCancel"} : p \notin FreePcs
        /\ \A p \in {"kFirst", "kSlot", "kNext", "kCancel"} : p \notin TargetWaitPcs
        /\ \A p \in {"kFirst", "kSlot", "kCancel"} : p \notin DuePcs
        /\ "kSlotWait" \in FreePcs
    BY <1>00 DEF KeepalivePcs, FreePcs, TargetWaitPcs, DuePcs
  <1>8. CASE Resume(t, "kTargetWait", "kFirst")
    BY <1>0, <1>p, <1>8, UnblockMoves DEF Resume
  <1>9. CASE Resume(t, "kSlotWait", "kSlot")
    BY <1>0, <1>p, <1>9, UnblockMoves DEF Resume
  <1>10. CASE Resume(t, "kSleep", "kNext")
    BY <1>0, <1>p, <1>10, UnblockMoves DEF Resume
  <1>11. CASE Acquire(t, "kSlot", "kBegin", "kSlotWait")
    BY <1>0, <1>00, <1>11, SharedMoves DEF KeepalivePcs, FreePcs, TargetWaitPcs, DuePcs
  <1>12. CASE CheckContext(t, "kCheck", "kCancel", "kFinish")
    BY <1>0, <1>00, <1>12, SharedMoves DEF KeepalivePcs, FreePcs, TargetWaitPcs, DuePcs
  <1> QED
    BY <1>1, <1>2, <1>3, <1>4, <1>5, <1>6, <1>7, <1>8, <1>9, <1>10, <1>11, <1>12
    DEF KeepaliveWorker

LEMMA AdhocKeeps ==
  ASSUME ModeInv, NEW t \in Threads, WorkerFrame,
         AdhocRequest(t) \/ FinishAdhocRequest(t, "aRunning") \/ AdhocCancel(t)
  PROVE  GoroutineOK(t)
  <1>0. TypeOK /\ UNCHANGED interval
    BY DEF ModeInv, ExclusionInv, WorkerFrame, settingVars
  <1>1. \A from \in AdhocPcs, to \in AdhocPcs :
           At(t, from) /\ Goto(t, to) => pc[t] \in AdhocPcs /\ pc'[t] \in AdhocPcs /\
                                         \A s \in Threads \ {t} : pc'[s] = pc[s]
    BY <1>0 DEF At, Goto, TypeOK
  <1>2. ASSUME \/ AdhocCancel(t) \/ AdhocBegin(t) \/ Acquire(t, "aSlot", "aCheck", "aSlotWait")
               \/ CheckContext(t, "aCheck", "aQuitSlot", "aBegin") \/ Resume(t, "aSlotWait", "aSlot")
        PROVE  GoroutineOK(t)
    <2>1. /\ pc[t] \in AdhocPcs /\ pc'[t] \in AdhocPcs
          /\ \A s \in Threads \ {t} : pc'[s] = pc[s]
      <3>1. CASE AdhocCancel(t)
        BY <3>1 DEF AdhocCancel
      <3>2. CASE AdhocBegin(t)
        BY <1>1, <3>2 DEF AdhocBegin, AdhocPcs
      <3>3. CASE Acquire(t, "aSlot", "aCheck", "aSlotWait")
        BY <1>1, <3>3 DEF Acquire, AdhocPcs
      <3>4. CASE CheckContext(t, "aCheck", "aQuitSlot", "aBegin")
        BY <1>1, <3>4 DEF CheckContext, AdhocPcs
      <3>5. CASE Resume(t, "aSlotWait", "aSlot")
        BY <1>1, <3>5 DEF Resume, Unblock, AdhocPcs
      <3> QED BY <1>2, <3>1, <3>2, <3>3, <3>4, <3>5
    <2>2. /\ UNCHANGED <<job, keepalive, arbiter>>
          /\ \A s \in Threads \ {t} : work'[s] = work[s] /\ (s \in woken => s \in woken')
                                      /\ (s \in cancelled => s \in cancelled')
      BY <1>0, <1>2 DEF AdhocCancel, AdhocBegin, Acquire, CheckContext, Resume, Unblock, modeVars,
                        TypeOK
    <2>3. RecordsStep(t)
      BY <2>2 DEF RecordsStep, JobStep, KeepaliveStep, ArbiterStep, FewerWorkers, SameJob,
                  SameKeepalive
    <2>4. ThreadOK(t)'
      BY <2>1, GoneIsOK
    <2> QED BY <1>0, <2>1, <2>2, <2>3, <2>4 DEF GoroutineOK, OthersLeft, OthersKept, MoverKept
  <1>3. ASSUME NEW from \in {"aQuit", "aQuitSlot", "aRunning"}, FinishAdhocRequest(t, from)
        PROVE  GoroutineOK(t)
    <2>1. /\ pc[t] \in AdhocPcs /\ pc'[t] = "free" /\ OthersKept(t)
          /\ \A s \in Threads \ {t} : s \in cancelled => s \in cancelled'
          /\ UNCHANGED <<job, keepalive>> /\ woken \subseteq woken'
      BY <1>0, <1>3 DEF FinishAdhocRequest, Leave, At, Goto, TypeOK, OthersKept, AdhocPcs
    <2>2. ArbiterStep(t)
      <3>1. WaitingForTarget(Released(t, "adhoc")) \subseteq woken' /\ ReleaseTargetLocked(t, "adhoc")
        BY <1>3 DEF FinishAdhocRequest
      <3> QED BY <1>0, <3>1, ReleaseSignals
    <2>3. RecordsStep(t)
      BY <2>1, <2>2 DEF RecordsStep, JobStep, KeepaliveStep, FewerWorkers, SameJob, SameKeepalive
    <2>4. ThreadOK(t)'
      BY <2>1, GoneIsOK
    <2> QED BY <1>0, <2>1, <2>3, <2>4 DEF GoroutineOK, OthersLeft, MoverKept
  <1> QED BY <1>2, <1>3 DEF AdhocRequest

LEMMA GoroutineSteps ==
  ASSUME ModeInv, NEW t \in Threads, GoroutineStep(t)
  PROVE  GoroutineOK(t)
  <1>0. TypeOK /\ ThreadOK(t) /\ WorkerFrame
    BY DEF ModeInv, ExclusionInv, GoroutineStep, WorkerStep, GivesUp, ProcessEnds, ClientLeaves
  <1>1. CASE WorkerStep(t)
    BY <1>0, <1>1, QueueKeeps, KeepaliveKeeps, AdhocKeeps DEF WorkerStep
  <1>2. /\ \A p \in {"qTargetWait", "qSlotWait", "qCancel"} : KindAt(p) = "queue"
        /\ \A p \in {"kTargetWait", "kSlotWait", "kSleep", "kCancel", "kFirst"} :
              KindAt(p) = "keepalive"
        /\ KindAt("aSlotWait") = KindAt("aQuit")
        /\ \A p \in {"qCancel", "kCancel", "kFirst", "aQuit"} :
              p \notin FreePcs \cup TargetWaitPcs \cup DuePcs
    BY KindFacts DEF QueuePcs, KeepalivePcs, AdhocPcs, FreePcs, TargetWaitPcs, DuePcs
  <1>3. CASE GivesUp(t)
    <2>1. CASE Unblock(t, "qTargetWait", "qCancel")
      BY <1>0, <1>2, <2>1, UnblockMoves
    <2>2. CASE Unblock(t, "qSlotWait", "qCancel")
      BY <1>0, <1>2, <2>2, UnblockMoves
    <2>3. CASE Unblock(t, "kTargetWait", "kCancel")
      BY <1>0, <1>2, <2>3, UnblockMoves
    <2>4. CASE Unblock(t, "kSlotWait", "kCancel")
      BY <1>0, <1>2, <2>4, UnblockMoves
    <2>5. CASE Unblock(t, "kSleep", "kCancel")
      BY <1>0, <1>2, <2>5, UnblockMoves
    <2>6. CASE Unblock(t, "aSlotWait", "aQuit")
      BY <1>0, <1>2, <2>6, UnblockMoves
    <2> QED BY <1>3, <2>1, <2>2, <2>3, <2>4, <2>5, <2>6 DEF GivesUp, GiveUp
  <1>4. CASE ProcessEnds(t)
    <2>1. CASE FinishAdhocRequest(t, "aRunning")
      BY <1>0, <2>1, AdhocKeeps
    <2>2. ASSUME NEW from \in {"qRunning", "kRunning"}, NEW to \in {"qSuccess", "qCheck", "kCheck"},
                 FinishProcess(t, from, to), KindAt(to) = KindAt(from)
          PROVE  GoroutineOK(t)
      <3>1. /\ UNCHANGED interval /\ At(t, from) /\ Goto(t, to) /\ UNCHANGED <<modeVars, cancelled>>
            /\ woken \subseteq woken'
        BY <1>0, <2>2 DEF WorkerFrame, settingVars, FinishProcess
      <3>2. /\ \A s \in Threads \ {t} : work'[s] = work[s]
            /\ work'[t].key = work[t].key /\ work'[t].run = work[t].run
        BY <1>0, <2>2 DEF FinishProcess, TypeOK, WorkRec
      <3> QED BY <1>0, <2>2, <3>1, <3>2, PlainMove DEF FreePcs, TargetWaitPcs, DuePcs
    <2>3. KindAt("qRunning") = "queue" /\ KindAt("qSuccess") = "queue" /\ KindAt("qCheck") = "queue"
          /\ KindAt("kRunning") = "keepalive" /\ KindAt("kCheck") = "keepalive"
      BY KindFacts DEF QueuePcs, KeepalivePcs
    <2> QED BY <1>4, <2>1, <2>2, <2>3 DEF ProcessEnds
  <1>5. CASE ClientLeaves(t)
    BY <1>0, <1>5, AdhocKeeps DEF ClientLeaves
  <1>6. CASE WorkerFrame /\ TimerFires(t)
    BY <1>0, <1>2, <1>6, UnblockMoves DEF TimerFires
  <1> QED BY <1>1, <1>3, <1>4, <1>5, <1>6 DEF GoroutineStep

-----------------------------------------------------------------------------
(* The steps of callers, of edits and of the settings.                     *)

ModesKept == (\A s \in Threads : ThreadOK(s)') /\ (\A k \in Keys : TargetOK(k)')

\* Goroutine s stays where it is, and nothing becomes unsignalled.
StaysPut(s) == /\ pc'[s] = pc[s] /\ work'[s] = work[s]
               /\ s \in woken => s \in woken'
               /\ s \in cancelled => s \in cancelled'

SameTarget(k) == /\ SameJob(k) /\ SameKeepalive(k) /\ arbiter'[k].owner = arbiter[k].owner
                 /\ job'[k].workers = job[k].workers
                 /\ keepalive'[k].workers = keepalive[k].workers

LEMMA BystanderOK ==
  ASSUME NEW s \in Threads, ThreadOK(s), StaysPut(s), SameTarget(KeyOf(s)), interval' = interval
  PROVE  ThreadOK(s)'
  <1>1. /\ KeyOf(s)' = KeyOf(s)
        /\ QueueCurrent(s)' <=> QueueCurrent(s)
        /\ KeepaliveCurrent(s)' <=> KeepaliveCurrent(s)
        /\ Blocked(KeyOf(s))' <=> Blocked(KeyOf(s))
    BY DEF StaysPut, SameTarget, SameJob, SameKeepalive, KeyOf, RunOf, QueueCurrent,
           KeepaliveCurrent, Blocked
  <1>2. Undisturbed(s)
    BY <1>1 DEF Undisturbed, StaysPut, SameTarget, SameKeepalive
  <1> QED BY <1>2, UndisturbedKeeps

LEMMA IdleIsOK ==
  ASSUME NEW s \in Threads, pc'[s] = "free"
  PROVE  ThreadOK(s)'
  BY GoneIsOK

(* A target whose records are the same is all right if its workers stay.   *)
LEMMA SameTargetOK ==
  ASSUME NEW k \in Keys, TargetOK(k), SameTarget(k),
         \A s \in Threads : pc[s] # "free" => pc'[s] = pc[s] /\ work'[s] = work[s]
  PROVE  TargetOK(k)'
  <1>1. (QueueActive(k)' <=> QueueActive(k)) /\ (KeepaliveActive(k)' <=> KeepaliveActive(k))
    BY DEF SameTarget, SameJob, SameKeepalive, QueueActive, KeepaliveActive
  <1>2. QueueHasWorker(k)'
    <2>1. SUFFICES ASSUME job[k].state = "running"
                   PROVE  \E u \in Threads : /\ job[k].cancel = {u} /\ pc'[u] \in QueuePcs
                                             /\ work'[u].key = k /\ work'[u].run = job[k].runID
      BY DEF QueueHasWorker, KeyOf, RunOf, SameTarget, SameJob
    <2>2. PICK u \in Threads : /\ job[k].cancel = {u} /\ pc[u] \in QueuePcs
                               /\ KeyOf(u) = k /\ RunOf(u) = job[k].runID
      BY <2>1 DEF TargetOK, QueueHasWorker
    <2>3. pc[u] # "free"
      BY <2>2 DEF QueuePcs
    <2> QED BY <2>2, <2>3 DEF KeyOf, RunOf
  <1>3. KeepaliveHasWorker(k)'
    <2>1. SUFFICES ASSUME keepalive[k].state # "stopped"
                   PROVE  \E u \in Threads :
                             /\ keepalive[k].cancel = {u} /\ pc'[u] \in KeepalivePcs
                             /\ work'[u].key = k /\ work'[u].run = keepalive[k].runID
      BY DEF KeepaliveHasWorker, KeyOf, RunOf, SameTarget, SameKeepalive
    <2>2. PICK u \in Threads : /\ keepalive[k].cancel = {u} /\ pc[u] \in KeepalivePcs
                               /\ KeyOf(u) = k /\ RunOf(u) = keepalive[k].runID
      BY <2>1 DEF TargetOK, KeepaliveHasWorker
    <2>3. pc[u] # "free"
      BY <2>2 DEF KeepalivePcs
    <2> QED BY <2>2, <2>3 DEF KeyOf, RunOf
  <1> QED BY <1>1, <1>2, <1>3 DEF TargetOK

(* Steps that leave all targets and goroutines as they are.                *)
LEMMA QuietKeeps ==
  ASSUME ModeInv, \A s \in Threads : StaysPut(s), interval' = interval,
         \A k \in Keys : SameTarget(k)
  PROVE  ModesKept
  <1>0. TypeOK
    BY DEF ModeInv, ExclusionInv
  <1>1. ASSUME NEW s \in Threads PROVE ThreadOK(s)'
    <2>1. CASE pc[s] = "free"
      BY <2>1, IdleIsOK DEF StaysPut
    <2>2. CASE pc[s] # "free"
      <3>1. KeyOf(s) \in Keys
        BY <1>0, <2>2 DEF TypeOK, Live
      <3> QED BY <3>1, BystanderOK DEF ModeInv
    <2> QED BY <2>1, <2>2
  <1>2. ASSUME NEW k \in Keys PROVE TargetOK(k)'
    BY SameTargetOK DEF ModeInv, StaysPut
  <1> QED BY <1>1, <1>2 DEF ModesKept

(* Steps that rewrite the records of targets nobody works on.              *)
LEMMA EditKeeps ==
  ASSUME ModeInv, NEW K, interval' = interval,
         \A s \in Threads : Live(s) => StaysPut(s) /\ KeyOf(s) \notin K,
         \A s \in Threads : ~Live(s) => pc'[s] = "free" \/ pc'[s] \in AdhocPcs,
         \A k \in Keys \ K : SameTarget(k),
         \A k \in Keys \cap K : /\ job'[k].state # "running" /\ job'[k].workers = 0
                                /\ keepalive'[k].state = "stopped"
                                /\ keepalive'[k].workers = 0
  PROVE  ModesKept
  <1>0. TypeOK
    BY DEF ModeInv, ExclusionInv
  <1>1. ASSUME NEW s \in Threads PROVE ThreadOK(s)'
    <2>1. CASE ~Live(s)
      BY <2>1, GoneIsOK
    <2>2. CASE Live(s)
      <3>1. KeyOf(s) \in Keys \ K
        BY <1>0, <2>2 DEF TypeOK
      <3> QED BY <2>2, <3>1, BystanderOK DEF ModeInv
    <2> QED BY <2>1, <2>2
  <1>2. ASSUME NEW k \in Keys PROVE TargetOK(k)'
    <2>1. CASE k \in K
      BY <2>1 DEF TargetOK, QueueActive, KeepaliveActive, QueueHasWorker, KeepaliveHasWorker
    <2>2. CASE k \notin K
      BY <2>2, SameTargetOK DEF ModeInv, StaysPut, Live
    <2> QED BY <2>1, <2>2
  <1> QED BY <1>1, <1>2 DEF ModesKept

LEMMA EditsModes ==
  ASSUME ModeInv, EditWaitTimeout \/ EditorStep \/ (\E k \in Keys, def \in Defs : CreateTarget(k, def))
  PROVE  ModesKept
  <1>0. TypeOK /\ ExclusionInv
    BY DEF ModeInv, ExclusionInv
  <1>1. CASE EditWaitTimeout \/ EditWaitIdle \/ EditRejected
    <2>1. UNCHANGED <<job, keepalive, arbiter, interval, pc, work, woken, cancelled>>
      BY <1>1 DEF EditWaitTimeout, EditWaitIdle, EditRejected, managerVars, modeVars, settingVars,
                  threadVars
    <2> QED BY <2>1, QuietKeeps DEF StaysPut, SameTarget, SameJob, SameKeepalive
  <1>2. ASSUME NEW key \in Keys, NEW def \in Defs, CreateTarget(key, def) PROVE ModesKept
    <2>1. \A s \in Threads : Live(s) => KeyOf(s) \notin {key}
      BY <1>0, <1>2 DEF CreateTarget, ExclusionInv, WorkHasTarget
    <2>2. UNCHANGED <<interval, pc, work, woken, cancelled>>
      BY <1>2 DEF CreateTarget, threadVars, settingVars
    <2>3. \A k \in Keys \ {key} : SameTarget(k)
      BY <1>0, <1>2 DEF CreateTarget, TypeOK, SameTarget, SameJob, SameKeepalive
    <2>4. /\ job'[key].state # "running" /\ job'[key].workers = 0
          /\ keepalive'[key].state = "stopped" /\ keepalive'[key].workers = 0
      BY <1>0, <1>2 DEF CreateTarget, TypeOK, NewJob, NewKeepalive
    <2>5. /\ \A s \in Threads : Live(s) => StaysPut(s) /\ KeyOf(s) \notin {key}
          /\ \A s \in Threads : ~Live(s) => pc'[s] = "free" \/ pc'[s] \in AdhocPcs
      BY <2>1, <2>2 DEF StaysPut, Live
    <2> QED BY <2>2, <2>3, <2>4, <2>5, EditKeeps
  <1>3. CASE ApplyEdit
    <2>1. PICK key, newKey : key = editor.key /\ newKey = editor.newKey
      OBVIOUS
    <2>2. key \in Keys /\ key \in Known /\ ~Busy(key) /\ (newKey \in Known => newKey = key)
      BY <1>3, <2>1 DEF ApplyEdit, MayApply, Known
    <2>3. \A s \in Threads : Live(s) => KeyOf(s) \notin {key, newKey}
      BY <1>0, <2>2, IdleHasNoWork DEF ExclusionInv, WorkHasTarget
    <2>4. UNCHANGED <<interval, pc, work, woken, cancelled>>
      BY <1>3 DEF ApplyEdit, threadVars, settingVars
    <2>5. \A k \in Keys \ {key, newKey} : SameTarget(k)
      BY <1>3, <2>1 DEF ApplyEdit, Moved, SameTarget, SameJob, SameKeepalive
    <2>6. /\ job[key].state # "running" /\ job[key].workers = 0
          /\ keepalive[key].state = "stopped" /\ keepalive[key].workers = 0
      BY <1>0, <2>2 DEF Busy, QueueActive, KeepaliveActive, TypeOK, JobRec, KeepaliveRec
    <2>7. \A k \in Keys \cap {key, newKey} :
             /\ job'[k] \in {job[key], NewJob} /\ keepalive'[k] \in {keepalive[key], NewKeepalive}
      BY <1>3, <2>1 DEF ApplyEdit, Moved
    <2>8. \A k \in Keys \cap {key, newKey} :
             /\ job'[k].state # "running" /\ job'[k].workers = 0
             /\ keepalive'[k].state = "stopped" /\ keepalive'[k].workers = 0
      BY <2>6, <2>7 DEF NewJob, NewKeepalive
    <2>9. /\ \A s \in Threads : Live(s) => StaysPut(s) /\ KeyOf(s) \notin {key, newKey}
          /\ \A s \in Threads : ~Live(s) => pc'[s] = "free" \/ pc'[s] \in AdhocPcs
      BY <2>3, <2>4 DEF StaysPut, Live
    <2> QED BY <2>4, <2>5, <2>8, <2>9, EditKeeps
  <1> QED BY <1>1, <1>2, <1>3 DEF EditorStep

LEMMA AdhocModes ==
  ASSUME ModeInv, NEW t \in Threads, NEW key \in Keys, RunAdhoc(t, key)
  PROVE  ModesKept
  <1>0. TypeOK /\ ExclusionInv
    BY DEF ModeInv, ExclusionInv
  <1>1. /\ ~Busy(key) /\ pc[t] = "free" /\ pc'[t] = "aSlot"
        /\ \A s \in Threads \ {t} : pc'[s] = pc[s] /\ work'[s] = work[s]
        /\ UNCHANGED <<job, keepalive, interval, woken>> /\ cancelled \subseteq cancelled'
    BY <1>0 DEF RunAdhoc, Spawn, Live, Goto, TypeOK, settingVars
  <1>2. \A k \in Keys \ {key} : SameTarget(k)
    BY <1>0, <1>1 DEF RunAdhoc, TypeOK, SameTarget, SameJob, SameKeepalive
  <1>3. /\ job'[key].state # "running" /\ job'[key].workers = 0
        /\ keepalive'[key].state = "stopped" /\ keepalive'[key].workers = 0
    BY <1>0, <1>1 DEF Busy, QueueActive, KeepaliveActive, TypeOK, JobRec, KeepaliveRec
  <1>4. \A s \in Threads : Live(s) => StaysPut(s) /\ KeyOf(s) \notin {key}
    BY <1>0, <1>1, IdleHasNoWork DEF StaysPut, Live
  <1>5. \A s \in Threads : ~Live(s) => pc'[s] = "free" \/ pc'[s] \in AdhocPcs
    BY <1>1 DEF Live, AdhocPcs
  <1> QED BY <1>1, <1>2, <1>3, <1>4, <1>5, EditKeeps

(* UpdateSettings draws the deadline anew of whoever sleeps, and wakes it. *)
LEMMA SettingsModes ==
  ASSUME ModeInv, Settings
  PROVE  ModesKept
  <1>0. TypeOK
    BY DEF ModeInv, ExclusionInv
  <1>1. PICK i \in Intervals, limit \in Limits : UpdateSettings(i, limit)
    BY DEF Settings
  <1>2. /\ UNCHANGED <<job, arbiter, pc, work, cancelled>> /\ interval' = i
        /\ woken \subseteq woken' /\ Sleeping(Resampled(i)) \subseteq woken'
    BY <1>1 DEF UpdateSettings
  <1>3. \A k \in Keys :
           /\ keepalive'[k].state = keepalive[k].state
           /\ keepalive'[k].runID = keepalive[k].runID
           /\ keepalive'[k].cancel = keepalive[k].cancel
           /\ keepalive'[k].workers = keepalive[k].workers
           /\ keepalive'[k].nextRequest = IF k \in Resampled(i) THEN i
                                          ELSE keepalive[k].nextRequest
    BY <1>0, <1>1 DEF UpdateSettings, TypeOK, KeepaliveRec
  <1>4. ASSUME NEW s \in Threads PROVE ThreadOK(s)'
    <2>1. CASE pc[s] = "free"
      BY <1>2, <2>1, IdleIsOK
    <2>2. CASE pc[s] # "free"
      <3>1. KeyOf(s) \in Keys /\ KeyOf(s)' = KeyOf(s) /\ RunOf(s)' = RunOf(s)
        BY <1>0, <1>2, <2>2 DEF TypeOK, Live, KeyOf, RunOf
      <3>2. /\ QueueCurrent(s)' <=> QueueCurrent(s)
            /\ KeepaliveCurrent(s)' <=> KeepaliveCurrent(s)
            /\ Blocked(KeyOf(s))' <=> Blocked(KeyOf(s))
        BY <1>2, <1>3, <3>1 DEF QueueCurrent, KeepaliveCurrent, Blocked
      <3>3. interval \in Nat \ {0}
        BY <1>0, ConstantsAssumption DEF TypeOK
      <3>4. ASSUME keepalive[KeyOf(s)].state = "waiting_next",
                   keepalive[KeyOf(s)].nextRequest = interval
            PROVE  \/ /\ keepalive'[KeyOf(s)].nextRequest = keepalive[KeyOf(s)].nextRequest
                      /\ interval' = interval
                   \/ /\ keepalive'[KeyOf(s)].nextRequest = interval'
                      /\ pc[s] = "kSleep" => s \in woken'
        <4>1. CASE i = interval
          BY <1>2, <1>3, <3>1, <4>1 DEF Resampled
        <4>2. CASE i # interval
          <5>1. KeyOf(s) \in Resampled(i)
            BY <3>1, <3>3, <3>4, <4>2 DEF Resampled
          <5> QED BY <1>2, <1>3, <3>1, <5>1 DEF Sleeping
        <4> QED BY <4>1, <4>2
      <3>5. keepalive'[KeyOf(s)].state = keepalive[KeyOf(s)].state
        BY <1>3, <3>1
      <3>6. /\ pc'[s] = pc[s] /\ work'[s] = work[s] /\ (s \in woken => s \in woken')
            /\ s \in cancelled => s \in cancelled'
            /\ arbiter'[KeyOf(s)].owner = arbiter[KeyOf(s)].owner
        BY <1>2
      <3>7. Undisturbed(s)
        BY <3>2, <3>4, <3>5, <3>6 DEF Undisturbed
      <3> QED BY <3>7, UndisturbedKeeps DEF ModeInv
    <2> QED BY <2>1, <2>2
  <1>5. ASSUME NEW k \in Keys PROVE TargetOK(k)'
    <2>1. TargetOK(k)
      BY DEF ModeInv
    <2>2. (QueueActive(k)' <=> QueueActive(k)) /\ (KeepaliveActive(k)' <=> KeepaliveActive(k))
      BY <1>2, <1>3 DEF QueueActive, KeepaliveActive
    <2>3. QueueHasWorker(k)'
      BY <1>2, <2>1 DEF TargetOK, QueueHasWorker, KeyOf, RunOf
    <2>4. KeepaliveHasWorker(k)'
      BY <1>2, <1>3, <2>1 DEF TargetOK, KeepaliveHasWorker, KeyOf, RunOf
    <2> QED BY <2>1, <2>2, <2>3, <2>4 DEF TargetOK
  <1> QED BY <1>4, <1>5 DEF ModesKept

(* Stopping a mode cancels its current worker, for whom the counter has    *)
(* moved on, and wakes whoever waits for the target.                       *)
LEMMA StopModesModes ==
  ASSUME ModeInv, NEW K \in SUBSET Keys, NEW modes \in SUBSET Modes, StopModes(K, modes)
  PROVE  ModesKept
  <1>0. TypeOK /\ ExclusionInv
    BY DEF ModeInv, ExclusionInv
  <1>1. /\ UNCHANGED <<pc, work, interval>> /\ woken \subseteq woken' /\ cancelled \subseteq cancelled'
    BY DEF StopModes, settingVars
  <1>2. \A k \in Keys : arbiter'[k].owner = arbiter[k].owner
    <2> TAKE k \in Keys
    <2>1. arbiter[k] \in ArbiterRec
      BY <1>0 DEF TypeOK
    <2>2. arbiter'[k] = StopAdhoc(arbiter[k]) \/ arbiter'[k] = arbiter[k]
      BY DEF StopModes
    <2> QED BY <2>1, <2>2 DEF StopAdhoc, ArbiterRec
  <1>3. \A k \in Keys : \/ job'[k] = job[k]
                        \/ /\ k \in K /\ "queue" \in modes /\ QueueActive(k)
                           /\ job'[k].state # "running" /\ job'[k].workers = job[k].workers
    <2> TAKE k \in Keys
    <2>1. job[k] \in JobRec
      BY <1>0 DEF TypeOK
    <2>2. job'[k] = job[k] \/ (job'[k] = StopQueue(job[k]) /\ k \in K /\ "queue" \in modes)
      BY DEF StopModes
    <2>3. CASE job[k].state # "running" /\ job[k].workers = 0
      BY <2>2, <2>3 DEF StopQueue
    <2>4. CASE ~(job[k].state # "running" /\ job[k].workers = 0)
      <3>1. QueueActive(k)
        BY <2>1, <2>4 DEF QueueActive, JobRec
      <3>2. StopQueue(job[k]).state # "running" /\ StopQueue(job[k]).workers = job[k].workers
        BY <2>4 DEF StopQueue
      <3> QED BY <2>2, <3>1, <3>2
    <2> QED BY <2>3, <2>4
  <1>4. \A k \in Keys : \/ keepalive'[k] = keepalive[k]
                        \/ /\ k \in K /\ "keepalive" \in modes /\ KeepaliveActive(k)
                           /\ keepalive'[k].state = "stopped"
                           /\ keepalive'[k].workers = keepalive[k].workers
    <2> TAKE k \in Keys
    <2>1. keepalive[k] \in KeepaliveRec
      BY <1>0 DEF TypeOK
    <2>2. \/ keepalive'[k] = keepalive[k]
          \/ keepalive'[k] = StopKeepalive(keepalive[k]) /\ k \in K /\ "keepalive" \in modes
      BY DEF StopModes
    <2>3. CASE keepalive[k].state = "stopped" /\ keepalive[k].workers = 0
      BY <2>2, <2>3 DEF StopKeepalive
    <2>4. CASE ~(keepalive[k].state = "stopped" /\ keepalive[k].workers = 0)
      <3>1. KeepaliveActive(k)
        BY <2>1, <2>4 DEF KeepaliveActive, KeepaliveRec
      <3>2. /\ StopKeepalive(keepalive[k]).state = "stopped"
            /\ StopKeepalive(keepalive[k]).workers = keepalive[k].workers
        BY <2>4 DEF StopKeepalive
      <3> QED BY <2>2, <3>1, <3>2
    <2> QED BY <2>3, <2>4
  <1>5. \A k \in K : \A m \in Stoppable(k, modes) :
           CancelOf(k, m) \subseteq cancelled' /\ (m # "adhoc" => WokenAt(k))
    <2> TAKE k \in K
    <2> TAKE m \in Stoppable(k, modes)
    <2>1. CancelOf(k, m) \subseteq cancelled'
      BY DEF StopModes
    <2>2. ASSUME m # "adhoc" PROVE WokenAt(k)
      <3>1. k \in {l \in K : Stoppable(l, modes) \ {"adhoc"} # {}}
        BY <2>2
      <3> QED BY <3>1 DEF StopModes, WokenAt, WaitingForTarget
    <2> QED BY <2>1, <2>2
  <1>6. \A k \in Keys : job'[k] # job[k] => job[k].cancel \subseteq cancelled' /\ WokenAt(k)
    <2> SUFFICES ASSUME NEW k \in Keys, job'[k] # job[k]
                 PROVE  job[k].cancel \subseteq cancelled' /\ WokenAt(k)
      OBVIOUS
    <2>1. k \in K /\ "queue" \in Stoppable(k, modes)
      BY <1>3 DEF Stoppable
    <2>2. CancelOf(k, "queue") = job[k].cancel
      BY DEF CancelOf
    <2> QED BY <1>5, <2>1, <2>2
  <1>7. \A k \in Keys : keepalive'[k] # keepalive[k] =>
                            keepalive[k].cancel \subseteq cancelled' /\ WokenAt(k)
    <2> SUFFICES ASSUME NEW k \in Keys, keepalive'[k] # keepalive[k]
                 PROVE  keepalive[k].cancel \subseteq cancelled' /\ WokenAt(k)
      OBVIOUS
    <2>1. k \in K /\ "keepalive" \in Stoppable(k, modes)
      BY <1>4 DEF Stoppable
    <2>2. CancelOf(k, "keepalive") = keepalive[k].cancel
      BY DEF CancelOf
    <2> QED BY <1>5, <2>1, <2>2
  <1>8. ASSUME NEW s \in Threads PROVE ThreadOK(s)'
    <2>1. CASE pc[s] = "free"
      BY <1>1, <2>1, IdleIsOK
    <2>2. CASE pc[s] # "free"
      <3> DEFINE k == KeyOf(s)
      <3>0. k \in Keys /\ KeyOf(s)' = KeyOf(s) /\ RunOf(s)' = RunOf(s)
        BY <1>0, <1>1, <2>2 DEF TypeOK, Live, KeyOf, RunOf
      <3>1. ASSUME pc[s] \in QueuePcs, QueueCurrent(s), job'[k] # job[k]
            PROVE  s \in cancelled' /\ WokenAt(k)
        <4>1. job[k].state = "running" /\ job[k].runID = RunOf(s)
          BY <3>1 DEF QueueCurrent
        <4>2. PICK u \in Threads : /\ job[k].cancel = {u} /\ pc[u] \in QueuePcs
                                   /\ KeyOf(u) = k /\ RunOf(u) = job[k].runID
          BY <3>0, <4>1 DEF ModeInv, TargetOK, QueueHasWorker
        <4>3. u = s
          BY <1>0, <3>1, <4>1, <4>2, CurrentIsAlone DEF QueueActor, QueueCurrent
        <4> QED BY <1>6, <3>0, <3>1, <4>2, <4>3
      <3>2. ASSUME pc[s] \in KeepalivePcs, KeepaliveCurrent(s), keepalive'[k] # keepalive[k]
            PROVE  s \in cancelled' /\ WokenAt(k)
        <4>1. keepalive[k].state # "stopped" /\ keepalive[k].runID = RunOf(s)
          BY <3>2 DEF KeepaliveCurrent
        <4>2. PICK u \in Threads : /\ keepalive[k].cancel = {u} /\ pc[u] \in KeepalivePcs
                                   /\ KeyOf(u) = k /\ RunOf(u) = keepalive[k].runID
          BY <3>0, <4>1 DEF ModeInv, TargetOK, KeepaliveHasWorker
        <4>3. u = s
          BY <1>0, <3>2, <4>1, <4>2, CurrentIsAlone DEF KeepaliveActor, KeepaliveCurrent
        <4> QED BY <1>7, <3>0, <3>2, <4>2, <4>3
      <3>3. /\ QueueCurrent(s)' <=> QueueCurrent(s) /\ job'[k] = job[k]
            /\ KeepaliveCurrent(s)' <=> KeepaliveCurrent(s) /\ keepalive'[k] = keepalive[k]
        BY <1>3, <1>4, <3>0 DEF QueueCurrent, KeepaliveCurrent
      <3>4. Blocked(k)' => Blocked(k)
        BY <1>2, <1>3, <3>0 DEF Blocked
      <3>5. pc[s] \in TargetWaitPcs /\ s \notin woken' => ~WokenAt(k)
        BY DEF WokenAt
      <3>6. job'[k] # job[k] => WokenAt(k)
        BY <1>6, <3>0
      <3>7. pc[s] \in TargetWaitPcs /\ s \notin woken' /\ Blocked(k) => Blocked(k)'
        BY <1>2, <3>0, <3>5, <3>6 DEF Blocked
      <3>8. /\ pc'[s] = pc[s] /\ work'[s] = work[s] /\ (s \in woken => s \in woken')
            /\ s \in cancelled => s \in cancelled'
            /\ arbiter'[k].owner = arbiter[k].owner /\ interval' = interval
        BY <1>1, <1>2, <3>0
      <3>9. Undisturbed(s)
        BY <3>1, <3>2, <3>3, <3>4, <3>5, <3>7, <3>8 DEF Undisturbed
      <3> QED BY <3>9, UndisturbedKeeps DEF ModeInv
    <2> QED BY <2>1, <2>2
  <1>9. ASSUME NEW k \in Keys PROVE TargetOK(k)'
    <2>1. TargetOK(k)
      BY DEF ModeInv
    <2>2. (QueueActive(k)' => QueueActive(k)) /\ (KeepaliveActive(k)' => KeepaliveActive(k))
      BY <1>3, <1>4 DEF QueueActive, KeepaliveActive
    <2>3. QueueHasWorker(k)'
      <3>1. job'[k].state = "running" => job'[k] = job[k]
        BY <1>3
      <3> QED BY <1>1, <2>1, <3>1 DEF TargetOK, QueueHasWorker, KeyOf, RunOf
    <2>4. KeepaliveHasWorker(k)'
      <3>1. keepalive'[k].state # "stopped" => keepalive'[k] = keepalive[k]
        BY <1>4
      <3> QED BY <1>1, <2>1, <3>1 DEF TargetOK, KeepaliveHasWorker, KeyOf, RunOf
    <2> QED BY <2>1, <2>2, <2>3, <2>4 DEF TargetOK
  <1> QED BY <1>8, <1>9 DEF ModesKept

(* A goroutine starts with a run of its own; the mode it starts was off,   *)
(* and so was the other one.                                               *)
LEMMA StartsKeep ==
  ASSUME ModeInv, NEW t \in Threads, NEW key \in Keys, NEW label, NEW run, NEW def,
         Spawn(t, label, key, run, def), KindAt(label) \in {"queue", "keepalive"},
         interval' = interval, woken \subseteq woken', WokenAt(key),
         job[key].state # "running", keepalive[key].state = "stopped",
         \A k \in Keys \ {key} : SameTarget(k),
         arbiter'[key].owner = arbiter[key].owner,
         \A s \in Threads : s # t /\ pc[s] # "free" /\ KeyOf(s) = key =>
             /\ pc[s] \in QueuePcs => RunOf(s) # job'[key].runID \/ job'[key].state # "running"
             /\ pc[s] \in KeepalivePcs => \/ RunOf(s) # keepalive'[key].runID
                                          \/ keepalive'[key].state = "stopped",
         ThreadOK(t)', TargetOK(key)'
  PROVE  ModesKept
  <1>0. TypeOK /\ ExclusionInv
    BY DEF ModeInv, ExclusionInv
  <1>1. /\ pc[t] = "free" /\ cancelled \subseteq cancelled'
        /\ \A s \in Threads \ {t} : pc'[s] = pc[s] /\ work'[s] = work[s]
    BY <1>0 DEF Spawn, Live, Goto, TypeOK
  <1>2. ASSUME NEW s \in Threads PROVE ThreadOK(s)'
    <2>1. CASE s = t
      BY <2>1
    <2>2. CASE s # t /\ pc[s] = "free"
      BY <1>1, <2>2, IdleIsOK
    <2>3. CASE s # t /\ pc[s] # "free"
      <3>1. KeyOf(s) \in Keys /\ StaysPut(s)
        BY <1>0, <1>1, <2>3 DEF TypeOK, Live, StaysPut
      <3>2. CASE KeyOf(s) # key
        BY <3>1, <3>2, BystanderOK DEF ModeInv
      <3>3. CASE KeyOf(s) = key
        <4>1. KeyOf(s)' = key /\ RunOf(s)' = RunOf(s)
          BY <3>1, <3>3 DEF StaysPut, KeyOf, RunOf
        <4>2. ~QueueCurrent(s) /\ ~KeepaliveCurrent(s)
          BY <3>3 DEF QueueCurrent, KeepaliveCurrent
        <4>3. /\ pc[s] \in QueuePcs => ~QueueCurrent(s)'
              /\ pc[s] \in KeepalivePcs => ~KeepaliveCurrent(s)'
          BY <2>3, <3>3, <4>1 DEF QueueCurrent, KeepaliveCurrent
        <4>4. pc[s] \in TargetWaitPcs => s \in woken'
          BY <3>3 DEF WokenAt
        <4>5. Undisturbed(s)
          BY <3>1, <4>2, <4>3, <4>4 DEF Undisturbed, StaysPut
        <4> QED BY <4>5, UndisturbedKeeps DEF ModeInv
      <3> QED BY <3>2, <3>3
    <2> QED BY <2>1, <2>2, <2>3
  <1>3. ASSUME NEW k \in Keys PROVE TargetOK(k)'
    <2>1. CASE k = key
      BY <2>1
    <2>2. CASE k # key
      BY <1>1, <2>2, SameTargetOK DEF ModeInv
    <2> QED BY <2>1, <2>2
  <1> QED BY <1>2, <1>3 DEF ModesKept

LEMMA StartQueueModes ==
  ASSUME ModeInv, NEW c \in Starters, NEW t \in Threads, StartQueue(c, t)
  PROVE  ModesKept
  <1>0. TypeOK /\ ExclusionInv
    BY DEF ModeInv, ExclusionInv
  <1>1. PICK key \in Keys : key = starter[c].key
    BY DEF StartQueue, MayCommit, Known
  <1>2. /\ Spawn(t, "qTarget", key, job[key].runID + 1, 0)
        /\ UNCHANGED <<keepalive, arbiter, interval>>
        /\ woken' = woken \cup WaitingForTarget({key})
        /\ job' = [job EXCEPT ![key] =
              [state |-> "running", runID |-> @.runID + 1, cancel |-> {t},
               workers |-> @.workers + 1,
               subscribers |-> @.subscribers \cup starter[c].subscriber]]
    BY <1>1 DEF StartQueue, settingVars
  <1>3. job[key].state # "running" /\ ~KeepaliveActive(key)
    BY <1>1 DEF StartQueue, MayCommit, AlreadyInMode, OtherModeActive
  <1>4. /\ job'[key].runID = job[key].runID + 1 /\ job'[key].state = "running"
        /\ job'[key].cancel = {t} /\ job[key].runID \in Nat
        /\ \A k \in Keys : k # key => job'[k] = job[k]
    BY <1>0, <1>2 DEF TypeOK, JobRec
  <1>5. pc'[t] = "qTarget" /\ KeyOf(t)' = key /\ RunOf(t)' = job[key].runID + 1
    BY <1>0, <1>2 DEF Spawn, Goto, TypeOK, KeyOf, RunOf
  <1>6. QueueCurrent(t)'
    BY <1>4, <1>5 DEF QueueCurrent
  <1>7. ThreadOK(t)'
    BY <1>5, <1>6, QueueWorkerOK DEF QueuePcs
  <1>8. TargetOK(key)'
    <2>1. ~KeepaliveActive(key)'
      BY <1>2, <1>3 DEF KeepaliveActive
    <2>2. KeepaliveHasWorker(key)'
      BY <2>1 DEF KeepaliveHasWorker, KeepaliveActive
    <2>3. QueueHasWorker(key)'
      BY <1>4, <1>5 DEF QueueHasWorker, QueuePcs
    <2> QED BY <2>1, <2>2, <2>3 DEF TargetOK
  <1>9. ASSUME NEW s \in Threads, KeyOf(s) = key, pc[s] \in QueuePcs
        PROVE  RunOf(s) # job'[key].runID
    <2>1. RunOf(s) <= job[key].runID
      BY <1>0, <1>9, KindFacts DEF ExclusionInv, RunsBounded, Kind
    <2>2. RunOf(s) \in Nat
      BY <1>0 DEF TypeOK, WorkRec, RunOf
    <2> QED BY <1>4, <2>1, <2>2
  <1>10. keepalive'[key].state = "stopped" /\ keepalive[key].state = "stopped"
    BY <1>2, <1>3 DEF KeepaliveActive
  <1>11. \A k \in Keys \ {key} : SameTarget(k)
    BY <1>2, <1>4 DEF SameTarget, SameJob, SameKeepalive
  <1>12. WokenAt(key) /\ woken \subseteq woken' /\ KindAt("qTarget") = "queue"
    BY <1>2, KindFacts DEF WokenAt, WaitingForTarget, QueuePcs
  <1> QED BY <1>2, <1>3, <1>7, <1>8, <1>9, <1>10, <1>11, <1>12, StartsKeep

LEMMA StartKeepaliveModes ==
  ASSUME ModeInv, NEW c \in Starters, NEW t \in Threads, StartKeepalive(c, t)
  PROVE  ModesKept
  <1>0. TypeOK /\ ExclusionInv
    BY DEF ModeInv, ExclusionInv
  <1>1. PICK key \in Keys : key = starter[c].key
    BY DEF StartKeepalive, MayCommit, Known
  <1>2. /\ Spawn(t, "kFirst", key, keepalive[key].runID + 1, 0)
        /\ UNCHANGED <<job, arbiter, interval>>
        /\ woken' = woken \cup WaitingForTarget({key})
        /\ keepalive' = [keepalive EXCEPT ![key] =
              [state |-> "requesting", runID |-> @.runID + 1, cancel |-> {t},
               workers |-> @.workers + 1, nextRequest |-> 0]]
    BY <1>1 DEF StartKeepalive, settingVars
  <1>3. keepalive[key].state = "stopped" /\ ~QueueActive(key)
    BY <1>1 DEF StartKeepalive, MayCommit, AlreadyInMode, OtherModeActive
  <1>4. /\ keepalive'[key].runID = keepalive[key].runID + 1
        /\ keepalive'[key].state = "requesting"
        /\ keepalive'[key].cancel = {t} /\ keepalive[key].runID \in Nat
        /\ \A k \in Keys : k # key => keepalive'[k] = keepalive[k]
    BY <1>0, <1>2 DEF TypeOK, KeepaliveRec
  <1>5. pc'[t] = "kFirst" /\ KeyOf(t)' = key /\ RunOf(t)' = keepalive[key].runID + 1
    BY <1>0, <1>2 DEF Spawn, Goto, TypeOK, KeyOf, RunOf
  <1>6. KeepaliveCurrent(t)'
    BY <1>4, <1>5 DEF KeepaliveCurrent
  <1>7. ThreadOK(t)'
    BY <1>5, <1>6, KeepaliveWorkerOK DEF KeepalivePcs, FreePcs, TargetWaitPcs, DuePcs
  <1>8. TargetOK(key)'
    <2>1. ~QueueActive(key)'
      BY <1>2, <1>3 DEF QueueActive
    <2>2. QueueHasWorker(key)'
      BY <2>1 DEF QueueHasWorker, QueueActive
    <2>3. KeepaliveHasWorker(key)'
      BY <1>4, <1>5 DEF KeepaliveHasWorker, KeepalivePcs
    <2> QED BY <2>1, <2>2, <2>3 DEF TargetOK
  <1>9. ASSUME NEW s \in Threads, KeyOf(s) = key, pc[s] \in KeepalivePcs
        PROVE  RunOf(s) # keepalive'[key].runID
    <2>1. RunOf(s) <= keepalive[key].runID
      BY <1>0, <1>9, KindFacts DEF ExclusionInv, RunsBounded, Kind
    <2>2. RunOf(s) \in Nat
      BY <1>0 DEF TypeOK, WorkRec, RunOf
    <2> QED BY <1>4, <2>1, <2>2
  <1>10. job'[key].state # "running" /\ job[key].state # "running"
    BY <1>2, <1>3 DEF QueueActive
  <1>11. \A k \in Keys \ {key} : SameTarget(k)
    BY <1>2, <1>4 DEF SameTarget, SameJob, SameKeepalive
  <1>12. WokenAt(key) /\ woken \subseteq woken' /\ KindAt("kFirst") = "keepalive"
    BY <1>2, KindFacts DEF WokenAt, WaitingForTarget, KeepalivePcs
  <1> QED BY <1>2, <1>3, <1>7, <1>8, <1>9, <1>10, <1>11, <1>12, StartsKeep

LEMMA StarterModes ==
  ASSUME ModeInv, NEW c \in Starters, StarterStep(c) \/ WaitTimeout(c)
  PROVE  ModesKept
  <1>0. TypeOK
    BY DEF ModeInv, ExclusionInv
  <1>1. ASSUME UNCHANGED <<keepalive, arbiter, interval, pc, work, woken>>,
               cancelled \subseteq cancelled',
               \A k \in Keys : SameJob(k) /\ job'[k].workers = job[k].workers
        PROVE  ModesKept
    BY <1>1, QuietKeeps DEF StaysPut, SameTarget, SameKeepalive
  <1>2. ASSUME UNCHANGED managerVars PROVE ModesKept
    BY <1>1, <1>2 DEF managerVars, modeVars, settingVars, threadVars, SameJob
  <1>3. ASSUME NEW k \in Keys, PrepareRefused(c, k) PROVE ModesKept
    BY <1>2, <1>3 DEF PrepareRefused
  <1>4. ASSUME NEW k \in Keys, PrepareMode(c, k) PROVE ModesKept
    BY <1>4, StopModesModes DEF PrepareMode
  <1>5. CASE WaitTargetIdle(c) \/ WaitTimeout(c) \/ StartRetry(c)
    BY <1>2, <1>5 DEF WaitTargetIdle, WaitTimeout, StartRetry
  <1>6. CASE StartRefused(c) \/ StartLate(c)
    <2>1. UNCHANGED <<keepalive, arbiter, interval, pc, work, woken, cancelled>>
      BY <1>6 DEF StartRefused, StartLate, threadVars, settingVars
    <2>2. job' = job \/ AddSubscriber(c, starter[c].key)
      BY <1>6 DEF StartRefused, StartLate
    <2>3. \A k \in Keys : SameJob(k) /\ job'[k].workers = job[k].workers
      BY <1>0, <2>2 DEF AddSubscriber, TypeOK, JobRec, SameJob
    <2> QED BY <1>1, <2>1, <2>3
  <1> QED
    BY <1>3, <1>4, <1>5, <1>6, StartQueueModes, StartKeepaliveModes DEF StarterStep

LEMMA OutsideModes ==
  ASSUME ModeInv, OutsideStep
  PROVE  ModesKept
  <1>1. ASSUME UNCHANGED <<job, keepalive, arbiter, interval, pc, work, woken>>,
               cancelled \subseteq cancelled'
        PROVE  ModesKept
    BY <1>1, QuietKeeps DEF StaysPut, SameTarget, SameJob, SameKeepalive
  <1>2. CASE Calls /\ ~(\E t \in Threads : ClientLeaves(t))
    <2>1. ASSUME NEW c, NEW mode, NEW names, NEW subscriber,
                 StartCall(c, mode, names, subscriber)
          PROVE  ModesKept
      BY <1>1, <2>1 DEF StartCall, managerVars, modeVars, threadVars, settingVars
    <2>2. ASSUME NEW names, Stop(names) PROVE ModesKept
      BY <2>2, StopModesModes DEF Stop, Known
    <2> QED BY <1>2, <2>1, <2>2, AdhocModes DEF Calls
  <1>3. CASE Edits
    <2>1. ASSUME NEW k \in Keys, NEW newKey, NEW def, BeginEdit(k, newKey, def)
          PROVE  ModesKept
      BY <2>1, StopModesModes DEF BeginEdit
    <2> QED BY <1>3, <2>1, EditsModes DEF Edits
  <1>4. CASE Shutdown
    BY <1>1, <1>4 DEF Shutdown, RootCancel, BeginShutdown, modeVars, settingVars
  <1> QED BY <1>2, <1>3, <1>4, SettingsModes, StarterModes, EditsModes DEF OutsideStep

LEMMA ModeNext == ModeInv /\ [Next]_vars => ModeInv'
  <1> SUFFICES ASSUME ModeInv, [Next]_vars PROVE ModeInv'
    OBVIOUS
  <1>1. ExclusionInv'
    BY ExclusionNext DEF ModeInv
  <1>2. ModesKept
    <2>1. ASSUME NEW t \in Threads, GoroutineStep(t) PROVE ModesKept
      BY <2>1, GoroutineSteps, GoroutineKeeps DEF ModesKept
    <2>2. CASE UNCHANGED vars
      <3>1. UNCHANGED <<job, keepalive, arbiter, interval, pc, work, woken, cancelled>>
        BY <2>2 DEF vars, modeVars, settingVars, threadVars
      <3> QED BY <3>1, QuietKeeps DEF StaysPut, SameTarget, SameJob, SameKeepalive
    <2> QED BY <2>1, <2>2, NextSplit, OutsideModes
  <1> QED BY <1>1, <1>2 DEF ModeInv, ModesKept

LEMMA ModeAlways == Spec => []ModeInv
  BY ModeInit, ModeNext, PTL DEF Spec

(* Queue and keepalive mode exclude each other on a target, as prepareMode *)
(* and the second look of startQueue and startKeepalive intend: neither    *)
(* starts while the other is on or one of its workers is still unwinding.  *)
THEOREM ModesExclude == Spec => []ModesExclusive
  <1>1. ModeInv => ModesExclusive
    BY ModeInvImplies
  <1> QED BY <1>1, ModeAlways, PTL

(* The target that beginKeepaliveRequest found free is still free when its *)
(* slot arrives, unless the run was stopped meanwhile.                     *)
THEOREM TargetKeptFree == Spec => []TargetStaysFree
  <1>1. ModeInv => TargetStaysFree
    BY ModeInvImplies
  <1> QED BY <1>1, ModeAlways, PTL

(* A mode that is on can be stopped: the cancel function in its record is  *)
(* that of its live worker, and a worker whose run a stop or a new start   *)
(* superseded has been cancelled.                                          *)
THEOREM WorkersCanBeCancelled == Spec => []WorkersCancellable
  <1>1. ModeInv => WorkersCancellable
    BY ModeInvImplies
  <1> QED BY <1>1, ModeAlways, PTL

(* Nobody who read arbiter.changed under the lock and blocks on it misses  *)
(* the release of the target, the end or the stop of its run, or the start *)
(* of another.                                                             *)
THEOREM TargetSignalsArrive == Spec => []NoLostTargetSignal
  <1>1. ModeInv => NoLostTargetSignal
    BY ModeInvImplies
  <1> QED BY <1>1, ModeAlways, PTL

(* A keepalive worker never sleeps on a deadline of an interval that       *)
(* UpdateSettings has replaced, unless its schedule channel is closed.     *)
THEOREM SchedulesFresh == Spec => []ScheduleFresh
  <1>1. ModeInv => ScheduleFresh
    BY ModeInvImplies
  <1> QED BY <1>1, ModeAlways, PTL

-----------------------------------------------------------------------------
(* State events: what a snapshot shows of a target changes only in a       *)
(* critical section that broadcasts.                                       *)

ShowsSame(k) ==
    /\ job'[k].state = job[k].state
    /\ keepalive'[k].state = keepalive[k].state
    /\ keepalive'[k].nextRequest = keepalive[k].nextRequest
    /\ Busy(k)' <=> Busy(k)
    /\ arbiter'[k].owner = "adhoc" <=> arbiter[k].owner = "adhoc"

(* A step that is silent and changes nothing of this, or broadcasts.       *)
Announced == \/ published' = Snapshot'
             \/ /\ UNCHANGED <<published, targets, currentProcesses, maxParallel>>
                /\ \A k \in Keys : ShowsSame(k)

LEMMA AnnouncedKeeps ==
  ASSUME PublishedCurrent, Announced
  PROVE  PublishedCurrent'
  <1>1. CASE published' = Snapshot'
    BY <1>1 DEF PublishedCurrent
  <1>2. CASE /\ UNCHANGED <<published, targets, currentProcesses, maxParallel>>
             /\ \A k \in Keys : ShowsSame(k)
    <2>1. Known' = Known
      BY <1>2 DEF Known
    <2>2. \A k \in Known : /\ Busy(k)' = Busy(k)
                           /\ (arbiter'[k].owner = "adhoc") = (arbiter[k].owner = "adhoc")
      BY <1>2 DEF ShowsSame, Known, Busy
    <2> DEFINE Shown(k) == [def          |-> targets[k],
                            busy         |-> Busy(k),
                            adhocRunning |-> arbiter[k].owner = "adhoc",
                            queue        |-> job[k].state,
                            keepalive    |-> keepalive[k].state,
                            nextRequest  |-> keepalive[k].nextRequest]
    <2>3. \A k \in Known : Shown(k)' = Shown(k)
      BY <1>2, <2>2 DEF ShowsSame, Known
    <2>4. [k \in Known |-> Shown(k)]' = [k \in Known |-> Shown(k)]
      BY <2>1, <2>3
    <2>5. Snapshot' = Snapshot
      BY <1>2, <2>4 DEF Snapshot
    <2> QED BY <1>2, <2>5 DEF PublishedCurrent
  <1> QED BY <1>1, <1>2 DEF Announced

LEMMA BroadcastAnnounces ==
  ASSUME NEW called \in BOOLEAN, Broadcast(called),
         called \/ /\ UNCHANGED <<targets, currentProcesses, maxParallel>>
                   /\ \A k \in Keys : ShowsSame(k)
  PROVE  Announced
  BY DEF Broadcast, Announced

LEMMA SilenceAnnounces ==
  ASSUME UNCHANGED <<published, targets, currentProcesses, maxParallel, job, keepalive, arbiter>>
  PROVE  Announced
  <1>1. \A k \in Keys : ShowsSame(k)
    BY DEF ShowsSame, Busy, QueueActive, KeepaliveActive
  <1> QED BY <1>1 DEF Announced

(* A target with a worker is busy, whoever owns it.                        *)
LEMMA WorkerMakesBusy ==
  ASSUME ExclusionInv, NEW t \in Threads, pc[t] \in QueuePcs \cup KeepalivePcs
  PROVE  QueueActive(KeyOf(t)) \/ KeepaliveActive(KeyOf(t))
  <1>1. PICK k \in Keys : k = KeyOf(t)
    BY DEF ExclusionInv, TypeOK, Live, QueuePcs, KeepalivePcs
  <1>2. PICK kind \in {"queue", "keepalive"} : Kind(t) = kind
    BY KindFacts DEF Kind
  <1>3. t \in Workers(k, kind)
    BY <1>1, <1>2 DEF Workers
  <1>4. Cardinality(Workers(k, kind)) > 0
    BY <1>3, WorkersFinite, FS_EmptySet
  <1> QED BY <1>1, <1>4 DEF ExclusionInv, CountsExact, QueueActive, KeepaliveActive

(* A worker that takes or gives back its target changes nothing of what is *)
(* shown of it.                                                            *)
LEMMA WorkersShowNothing ==
  ASSUME ExclusionInv, NEW t \in Threads, pc[t] \in QueuePcs \cup KeepalivePcs,
         UNCHANGED <<job, keepalive>>,
         \A k \in Keys : \/ arbiter'[k].owner = arbiter[k].owner
                         \/ /\ k = KeyOf(t) /\ arbiter[k].owner # "adhoc"
                            /\ arbiter'[k].owner # "adhoc",
         NEW k \in Keys
  PROVE  ShowsSame(k)
  <1>1. /\ QueueActive(k)' <=> QueueActive(k)
        /\ KeepaliveActive(k)' <=> KeepaliveActive(k)
    BY DEF QueueActive, KeepaliveActive
  <1>2. k = KeyOf(t) => QueueActive(k) \/ KeepaliveActive(k)
    BY WorkerMakesBusy
  <1>3. Busy(k)' <=> Busy(k)
    BY <1>1, <1>2 DEF Busy
  <1>4. arbiter'[k].owner = "adhoc" <=> arbiter[k].owner = "adhoc"
    OBVIOUS
  <1> QED BY <1>3, <1>4 DEF ShowsSame

LEMMA ReleaseShowsNothing ==
  ASSUME ExclusionInv, NEW t \in Threads, pc[t] \in QueuePcs \cup KeepalivePcs,
         UNCHANGED <<job, keepalive>>, NEW owner \in {"queue", "keepalive"},
         ReleaseTargetLocked(t, owner), NEW k \in Keys
  PROVE  ShowsSame(k)
  <1>1. \A l \in Keys : \/ arbiter'[l] = arbiter[l]
                        \/ /\ l = KeyOf(t) /\ arbiter[l].owner = owner
                           /\ arbiter'[l] = NewArbiter
    BY DEF ReleaseTargetLocked, Released, Owns
  <1>2. \A l \in Keys : \/ arbiter'[l].owner = arbiter[l].owner
                        \/ /\ l = KeyOf(t) /\ arbiter[l].owner # "adhoc"
                           /\ arbiter'[l].owner # "adhoc"
    BY <1>1 DEF NewArbiter
  <1> QED BY <1>2, WorkersShowNothing

LEMMA QueueAnnounces ==
  ASSUME ExclusionInv, NEW t \in Threads, WorkerFrame, QueueWorker(t)
  PROVE  Announced
  <1>0. TypeOK /\ UNCHANGED <<targets, maxParallel>>
    BY DEF ExclusionInv, WorkerFrame, settingVars
  <1>1. CASE AcquireQueueTarget(t)
    <2>1. pc[t] \in QueuePcs /\ KeyOf(t) \in Keys
      BY <1>0, <1>1 DEF AcquireQueueTarget, At, QueuePcs, TypeOK, Live
    <2>2. \A k \in Keys : \/ arbiter'[k].owner = arbiter[k].owner
                          \/ /\ k = KeyOf(t) /\ arbiter[k].owner # "adhoc"
                             /\ arbiter'[k].owner # "adhoc"
      BY <1>0, <1>1, <2>1 DEF AcquireQueueTarget, TakeTarget, TypeOK
    <2>3. UNCHANGED <<job, keepalive, published, currentProcesses>>
      BY <1>1 DEF AcquireQueueTarget, slotVars
    <2> QED BY <1>0, <2>1, <2>2, <2>3, WorkersShowNothing DEF Announced
  <1>2. CASE BeginAttempt(t)
    BY <1>2, BroadcastAnnounces DEF BeginAttempt
  <1>3. CASE ReleaseTarget(t)
    <2>1. pc[t] \in QueuePcs /\ ReleaseTargetLocked(t, "queue")
          /\ UNCHANGED <<job, keepalive, published, currentProcesses>>
      BY <1>3 DEF ReleaseTarget, At, QueuePcs, slotVars
    <2> QED BY <1>0, <2>1, ReleaseShowsNothing DEF Announced
  <1>4. CASE MarkSuccess(t) \/ MarkFailure(t) \/ MarkQueueCancelled(t)
    <2>1. /\ pc[t] \in QueuePcs /\ ReleaseTargetLocked(t, "queue")
          /\ UNCHANGED <<keepalive, currentProcesses>>
          /\ Broadcast(QueueCurrent(t))
          /\ ~QueueCurrent(t) => job' = job
      BY <1>4 DEF MarkSuccess, MarkFailure, MarkQueueCancelled, At, QueuePcs, slotVars
    <2>2. CASE QueueCurrent(t)
      BY <2>1, <2>2 DEF Announced, Broadcast
    <2>3. CASE ~QueueCurrent(t)
      BY <1>0, <2>1, <2>3, ReleaseShowsNothing DEF Announced, Broadcast
    <2> QED BY <2>2, <2>3
  <1>5. CASE FinishQueueWorker(t)
    <2>1. CASE published' = Snapshot'
      BY <2>1 DEF Announced
    <2>2. CASE published' # Snapshot'
      <3>1. UNCHANGED <<published, currentProcesses, job, keepalive, arbiter>>
        BY <1>5, <2>2 DEF FinishQueueWorker, Broadcast, slotVars
      <3> QED BY <1>0, <3>1, SilenceAnnounces
    <2> QED BY <2>1, <2>2
  <1>6. CASE \/ Resume(t, "qTargetWait", "qTarget") \/ Acquire(t, "qSlot", "qBegin", "qSlotWait")
             \/ Resume(t, "qSlotWait", "qSlot") \/ AttemptRefused(t)
             \/ ReleaseSlot(t, "qUnSlot", "qUnTarget")
             \/ CheckContext(t, "qCheck", "qCancel", "qFailure")
    <2>1. UNCHANGED <<published, currentProcesses, job, keepalive, arbiter>>
      BY <1>6 DEF Resume, Unblock, Acquire, AttemptRefused, ReleaseSlot, CheckContext,
                  modeVars, slotVars
    <2> QED BY <1>0, <2>1, SilenceAnnounces
  <1> QED BY <1>1, <1>2, <1>3, <1>4, <1>5, <1>6 DEF QueueWorker

LEMMA KeepaliveAnnounces ==
  ASSUME ExclusionInv, NEW t \in Threads, WorkerFrame, KeepaliveWorker(t)
  PROVE  Announced
  <1>0. TypeOK /\ UNCHANGED <<targets, maxParallel>>
    BY DEF ExclusionInv, WorkerFrame, settingVars
  <1>k. pc[t] \in KeepalivePcs => KeyOf(t) \in Keys
    BY <1>0 DEF TypeOK, Live, KeepalivePcs
  <1>1. ASSUME NEW k \in Keys, NEW state, ShowKeepalive(k, state) PROVE Announced
    <2>1. CASE state # keepalive[k].state
      BY <1>1, <2>1 DEF ShowKeepalive, Broadcast, Announced
    <2>2. CASE state = keepalive[k].state
      <3>1. UNCHANGED <<published, currentProcesses, job, arbiter>>
        BY <1>1, <2>2 DEF ShowKeepalive, Broadcast, slotVars
      <3>2. keepalive' = keepalive
        <4>1. keepalive[k] \in KeepaliveRec
          BY <1>0 DEF TypeOK
        <4>2. [keepalive[k] EXCEPT !.state = state] = keepalive[k]
          BY <2>2, <4>1 DEF KeepaliveRec
        <4>3. keepalive' = [keepalive EXCEPT ![k] = keepalive[k]]
          BY <1>1, <4>2 DEF ShowKeepalive
        <4> QED BY <1>0, <4>3 DEF TypeOK
      <3> QED BY <1>0, <3>1, <3>2, SilenceAnnounces
    <2> QED BY <2>1, <2>2
  <1>2. CASE BeginKeepaliveRequest(t) \/ KeepaliveRefused(t)
    <2>1. KeyOf(t) \in Keys
      BY <1>k, <1>2 DEF BeginKeepaliveRequest, KeepaliveRefused, At, KeepalivePcs
    <2>2. \/ \E state : ShowKeepalive(KeyOf(t), state)
          \/ UNCHANGED <<published, currentProcesses, job, keepalive, arbiter>>
      BY <1>2 DEF BeginKeepaliveRequest, KeepaliveRefused, modeVars, slotVars
    <2> QED BY <1>0, <1>1, <2>1, <2>2, SilenceAnnounces
  <1>3. CASE KeepaliveRequest(t)
    BY <1>3, BroadcastAnnounces DEF KeepaliveRequest
  <1>4. CASE FinishKeepaliveRequest(t) \/ MarkKeepaliveCancelled(t)
    <2>1. /\ pc[t] \in KeepalivePcs /\ ReleaseTargetLocked(t, "keepalive")
          /\ UNCHANGED <<job, currentProcesses>>
          /\ Broadcast(KeepaliveCurrent(t))
          /\ ~KeepaliveCurrent(t) => keepalive' = keepalive
      BY <1>4 DEF FinishKeepaliveRequest, MarkKeepaliveCancelled, At, KeepalivePcs, slotVars
    <2>2. CASE KeepaliveCurrent(t)
      BY <2>1, <2>2 DEF Announced, Broadcast
    <2>3. CASE ~KeepaliveCurrent(t)
      BY <1>0, <2>1, <2>3, ReleaseShowsNothing DEF Announced, Broadcast
    <2> QED BY <2>2, <2>3
  <1>5. CASE FinishKeepaliveWorker(t)
    <2>1. CASE published' = Snapshot'
      BY <2>1 DEF Announced
    <2>2. CASE published' # Snapshot'
      <3>1. UNCHANGED <<published, currentProcesses, job, keepalive, arbiter>>
        BY <1>5, <2>2 DEF FinishKeepaliveWorker, Broadcast, slotVars
      <3> QED BY <1>0, <3>1, SilenceAnnounces
    <2> QED BY <2>1, <2>2
  <1>6. CASE \/ Resume(t, "kTargetWait", "kFirst") \/ Acquire(t, "kSlot", "kBegin", "kSlotWait")
             \/ Resume(t, "kSlotWait", "kSlot") \/ ReleaseKeepaliveSlot(t)
             \/ CheckContext(t, "kCheck", "kCancel", "kFinish")
             \/ WaitKeepaliveNext(t) \/ Resume(t, "kSleep", "kNext")
    <2>1. UNCHANGED <<published, currentProcesses, job, keepalive, arbiter>>
      BY <1>6 DEF Resume, Unblock, Acquire, ReleaseKeepaliveSlot, ReleaseSlot, CheckContext,
                  WaitKeepaliveNext, modeVars, slotVars
    <2> QED BY <1>0, <2>1, SilenceAnnounces
  <1> QED BY <1>1, <1>2, <1>3, <1>4, <1>5, <1>6 DEF KeepaliveWorker

LEMMA GoroutineAnnounces ==
  ASSUME ExclusionInv, NEW t \in Threads, GoroutineStep(t)
  PROVE  Announced
  <1>0. WorkerFrame /\ UNCHANGED <<targets, maxParallel>>
    BY DEF GoroutineStep, WorkerStep, GivesUp, ProcessEnds, ClientLeaves, WorkerFrame, settingVars
  <1>1. ASSUME NEW from, FinishAdhocRequest(t, from) PROVE Announced
    BY <1>1, BroadcastAnnounces DEF FinishAdhocRequest
  <1>2. ASSUME UNCHANGED <<modeVars, currentProcesses, published>> PROVE Announced
    BY <1>0, <1>2, SilenceAnnounces DEF modeVars
  <1>3. CASE AdhocRequest(t)
    <2>1. CASE AdhocBegin(t)
      <3>1. CASE Owns(t, "adhoc")
        BY <2>1, <3>1 DEF AdhocBegin, Broadcast, Announced
      <3>2. CASE ~Owns(t, "adhoc")
        <4>1. currentProcesses' = currentProcesses + 0 /\ currentProcesses \in Nat
          BY <2>1, <3>2 DEF AdhocBegin, ExclusionInv, TypeOK
        <4> QED BY <1>2, <2>1, <3>2, <4>1 DEF AdhocBegin, Broadcast
      <3> QED BY <3>1, <3>2
    <2>2. CASE \/ Acquire(t, "aSlot", "aCheck", "aSlotWait") \/ Resume(t, "aSlotWait", "aSlot")
               \/ CheckContext(t, "aCheck", "aQuitSlot", "aBegin")
      BY <1>2, <2>2 DEF Acquire, Resume, Unblock, CheckContext, slotVars
    <2> QED BY <1>1, <1>3, <2>1, <2>2 DEF AdhocRequest
  <1>4. CASE WorkerStep(t)
    BY <1>0, <1>3, <1>4, QueueAnnounces, KeepaliveAnnounces DEF WorkerStep
  <1>5. CASE ProcessEnds(t)
    <2>1. ASSUME NEW from, NEW to, FinishProcess(t, from, to) PROVE Announced
      BY <2>1, BroadcastAnnounces DEF FinishProcess
    <2> QED BY <1>1, <1>5, <2>1 DEF ProcessEnds
  <1>6. CASE GivesUp(t) \/ TimerFires(t) \/ ClientLeaves(t)
    BY <1>2, <1>6 DEF GivesUp, GiveUp, TimerFires, Unblock, ClientLeaves, AdhocCancel, slotVars
  <1> QED BY <1>4, <1>5, <1>6 DEF GoroutineStep

LEMMA StopAnnounces ==
  ASSUME TypeOK, NEW K \in SUBSET Keys, NEW modes \in SUBSET Modes, StopModes(K, modes)
  PROVE  Announced
  <1>1. CASE \E k \in K : Stoppable(k, modes) # {}
    BY <1>1 DEF StopModes, Broadcast, Announced
  <1>2. CASE \A k \in K : Stoppable(k, modes) = {}
    <2>1. UNCHANGED <<published, targets, currentProcesses, maxParallel>>
      BY <1>2 DEF StopModes, Broadcast, slotVars, settingVars
    <2>2. ASSUME NEW k \in K
          PROVE  /\ "queue" \in modes => StopQueue(job[k]) = job[k]
                 /\ "keepalive" \in modes => StopKeepalive(keepalive[k]) = keepalive[k]
                 /\ "adhoc" \in modes => StopAdhoc(arbiter[k]) = arbiter[k]
      <3>1. /\ "queue" \in modes => ~QueueActive(k)
            /\ "keepalive" \in modes => ~KeepaliveActive(k)
            /\ "adhoc" \in modes => arbiter[k].owner # "adhoc"
        BY <1>2 DEF Stoppable
      <3>2. job[k].workers \in Nat /\ keepalive[k].workers \in Nat
        BY DEF TypeOK, JobRec, KeepaliveRec
      <3> QED BY <3>1, <3>2 DEF QueueActive, KeepaliveActive, StopQueue, StopKeepalive, StopAdhoc
    <2>3. \A k \in Keys : job'[k] = job[k] /\ keepalive'[k] = keepalive[k] /\ arbiter'[k] = arbiter[k]
      BY <2>2 DEF StopModes
    <2>4. \A k \in Keys : ShowsSame(k)
      BY <2>3 DEF ShowsSame, Busy, QueueActive, KeepaliveActive
    <2> QED BY <2>1, <2>4 DEF Announced
  <1> QED BY <1>1, <1>2

LEMMA StarterAnnounces ==
  ASSUME TypeOK, NEW c \in Starters, StarterStep(c) \/ WaitTimeout(c)
  PROVE  Announced
  <1>1. ASSUME UNCHANGED managerVars PROVE Announced
    BY <1>1, SilenceAnnounces DEF managerVars, modeVars, slotVars, settingVars
  <1>2. CASE WaitTimeout(c) \/ WaitTargetIdle(c) \/ StartRetry(c) \/ \E k \in Keys : PrepareRefused(c, k)
    BY <1>1, <1>2 DEF WaitTimeout, WaitTargetIdle, StartRetry, PrepareRefused
  <1>3. ASSUME NEW k \in Keys, PrepareMode(c, k) PROVE Announced
    BY <1>3, StopAnnounces DEF PrepareMode
  <1>4. CASE StartRefused(c) \/ StartLate(c)
    <2>1. UNCHANGED <<published, targets, currentProcesses, maxParallel, keepalive, arbiter>>
      BY <1>4 DEF StartRefused, StartLate, slotVars, settingVars
    <2>2. job' = job \/ AddSubscriber(c, starter[c].key)
      BY <1>4 DEF StartRefused, StartLate
    <2>3. \A k \in Keys : job'[k].state = job[k].state /\ job'[k].workers = job[k].workers
      BY <2>2 DEF AddSubscriber, TypeOK, JobRec
    <2>4. \A k \in Keys : ShowsSame(k)
      BY <2>1, <2>3 DEF ShowsSame, Busy, QueueActive, KeepaliveActive
    <2> QED BY <2>1, <2>4 DEF Announced
  <1>5. ASSUME NEW t \in Threads, StartQueue(c, t) \/ StartKeepalive(c, t) PROVE Announced
    BY <1>5, BroadcastAnnounces DEF StartQueue, StartKeepalive
  <1> QED BY <1>2, <1>3, <1>4, <1>5 DEF StarterStep

LEMMA OutsideAnnounces ==
  ASSUME TypeOK, OutsideStep
  PROVE  Announced
  <1>1. ASSUME UNCHANGED <<published, targets, slotVars, settingVars, modeVars>> PROVE Announced
    BY <1>1, SilenceAnnounces DEF modeVars, slotVars, settingVars
  <1>2. CASE Calls /\ ~(\E t \in Threads : ClientLeaves(t))
    <2>1. ASSUME NEW c, NEW mode, NEW names, NEW subscriber,
                 StartCall(c, mode, names, subscriber)
          PROVE  Announced
      BY <1>1, <2>1 DEF StartCall, managerVars
    <2>2. ASSUME NEW names, Stop(names) PROVE Announced
      BY <2>2, StopAnnounces DEF Stop, Known
    <2>3. ASSUME NEW t, NEW k, RunAdhoc(t, k) PROVE Announced
      BY <2>3, BroadcastAnnounces DEF RunAdhoc
    <2> QED BY <1>2, <2>1, <2>2, <2>3 DEF Calls
  <1>3. CASE Edits \/ EditWaitTimeout \/ EditorStep
    <2>1. ASSUME NEW k \in Keys, NEW newKey, NEW def, BeginEdit(k, newKey, def)
          PROVE  Announced
      BY <2>1, StopAnnounces DEF BeginEdit
    <2>2. ASSUME NEW k, NEW def, CreateTarget(k, def) PROVE Announced
      BY <2>2, BroadcastAnnounces DEF CreateTarget
    <2>3. CASE ApplyEdit
      BY <2>3, BroadcastAnnounces DEF ApplyEdit
    <2>4. CASE EditWaitTimeout \/ EditWaitIdle \/ EditRejected
      BY <1>1, <2>4 DEF EditWaitTimeout, EditWaitIdle, EditRejected, managerVars
    <2> QED BY <1>3, <2>1, <2>2, <2>3, <2>4 DEF Edits, EditorStep
  <1>4. CASE Settings
    BY <1>4, BroadcastAnnounces DEF Settings, UpdateSettings
  <1>5. CASE Shutdown
    BY <1>1, <1>5 DEF Shutdown, RootCancel, BeginShutdown
  <1> QED BY <1>2, <1>3, <1>4, <1>5, StarterAnnounces DEF OutsideStep

(* Whoever reads the last state event knows the present state: the worker  *)
(* that releases its target silently still makes it busy, and the stop or  *)
(* the refused start that does not broadcast has changed nothing shown.    *)
THEOREM EventsCurrent == Spec => []PublishedCurrent
  <1>1. Init => PublishedCurrent
    BY DEF Init, PublishedCurrent
  <1>2. ExclusionInv /\ PublishedCurrent /\ [Next]_vars => PublishedCurrent'
    <2> SUFFICES ASSUME ExclusionInv, PublishedCurrent, [Next]_vars PROVE PublishedCurrent'
      OBVIOUS
    <2>1. CASE UNCHANGED vars
      <3>1. Announced
        BY <2>1, SilenceAnnounces DEF vars, modeVars, slotVars, settingVars
      <3> QED BY <3>1, AnnouncedKeeps
    <2>2. CASE Next
      <3>1. TypeOK
        BY DEF ExclusionInv
      <3> QED BY <2>2, <3>1, NextSplit, GoroutineAnnounces, OutsideAnnounces, AnnouncedKeeps
    <2> QED BY <2>1, <2>2
  <1> QED BY <1>1, <1>2, ExclusionAlways, PTL DEF Spec

-----------------------------------------------------------------------------
(* Shutdown.  Worker contexts are children of m.root, also those made      *)
(* after it is done, so every worker is told to stop; and nothing starts   *)
(* once BeginShutdown has set shuttingDown.                                *)

\* Once the root context is done, so is the context of every live worker.
RootReachesWorkers ==
    rootDone => \A t \in Threads : pc[t] \in QueuePcs \cup KeepalivePcs => t \in cancelled

\* After BeginShutdown no goroutine starts: runWG only counts down.
NoLateStart == [][shuttingDown => \A t \in Threads : ~Live(t) => ~Live(t)']_vars

(* A goroutine's context stays done until it leaves, and it stays a worker *)
(* or an adhoc request.                                                    *)
ContextsKept(t) ==
    /\ \A s \in Threads \ {t} : pc'[s] = pc[s] /\ (s \in cancelled => s \in cancelled')
    /\ \/ pc'[t] = "free"
       \/ /\ t \in cancelled => t \in cancelled'
          /\ KindAt(pc'[t]) = KindAt(pc[t]) /\ pc[t] # "free"

LEMMA MoveKeepsContexts ==
  ASSUME TypeOK, NEW t \in Threads, NEW from, NEW to, At(t, from), Goto(t, to),
         cancelled \subseteq cancelled', KindAt(to) = KindAt(from), from # "free"
  PROVE  ContextsKept(t)
  BY DEF TypeOK, At, Goto, ContextsKept

LEMMA LeaveKeepsContexts ==
  ASSUME TypeOK, NEW t \in Threads, Leave(t)
  PROVE  ContextsKept(t)
  BY DEF TypeOK, Leave, Goto, ContextsKept

LEMMA GoroutineContexts ==
  ASSUME TypeOK, NEW t \in Threads, GoroutineStep(t)
  PROVE  ContextsKept(t)
  <1>0. /\ \A p \in QueuePcs : KindAt(p) = "queue" /\ p # "free"
        /\ \A p \in KeepalivePcs : KindAt(p) = "keepalive" /\ p # "free"
        /\ \A p \in AdhocPcs : KindAt(p) = "adhoc" /\ p # "free"
    BY KindFacts DEF QueuePcs, KeepalivePcs, AdhocPcs
  <1>1. ASSUME NEW Pcs \in {QueuePcs, KeepalivePcs, AdhocPcs}, NEW from \in Pcs, NEW to \in Pcs,
               At(t, from), Goto(t, to), cancelled \subseteq cancelled'
        PROVE  ContextsKept(t)
    <2>1. KindAt(to) = KindAt(from) /\ from # "free"
      BY <1>0, <1>1
    <2> QED BY <1>1, <2>1, MoveKeepsContexts
  <1>2. ASSUME NEW from, NEW to,
               \/ Unblock(t, from, to) \/ Resume(t, from, to) \/ GiveUp(t, from, to)
               \/ ReleaseSlot(t, from, to) \/ FinishProcess(t, from, to)
        PROVE  At(t, from) /\ Goto(t, to) /\ cancelled \subseteq cancelled'
    BY <1>2 DEF Unblock, Resume, GiveUp, ReleaseSlot, FinishProcess
  <1>3. ASSUME NEW from, NEW one, NEW other,
               Acquire(t, from, one, other) \/ CheckContext(t, from, one, other)
        PROVE  At(t, from) /\ (Goto(t, one) \/ Goto(t, other)) /\ cancelled \subseteq cancelled'
    BY <1>3 DEF Acquire, CheckContext
  <1>4. CASE QueueWorker(t)
    <2>1. CASE \/ AcquireQueueTarget(t) \/ BeginAttempt(t) \/ AttemptRefused(t) \/ ReleaseTarget(t)
               \/ MarkSuccess(t) \/ MarkFailure(t) \/ MarkQueueCancelled(t)
      <3>1. PICK from \in QueuePcs, to \in QueuePcs :
                    At(t, from) /\ Goto(t, to) /\ cancelled \subseteq cancelled'
        BY <2>1 DEF AcquireQueueTarget, BeginAttempt, AttemptRefused, ReleaseTarget, MarkSuccess,
                    MarkFailure, MarkQueueCancelled, QueuePcs
      <3> QED BY <1>1, <3>1
    <2>2. CASE FinishQueueWorker(t)
      BY <2>2, LeaveKeepsContexts DEF FinishQueueWorker
    <2>3. CASE \/ Resume(t, "qTargetWait", "qTarget") \/ Resume(t, "qSlotWait", "qSlot")
               \/ ReleaseSlot(t, "qUnSlot", "qUnTarget")
      <3>1. PICK from \in QueuePcs, to \in QueuePcs :
                    At(t, from) /\ Goto(t, to) /\ cancelled \subseteq cancelled'
        BY <1>2, <2>3 DEF QueuePcs
      <3> QED BY <1>1, <3>1
    <2>4. CASE \/ Acquire(t, "qSlot", "qBegin", "qSlotWait")
               \/ CheckContext(t, "qCheck", "qCancel", "qFailure")
      <3>1. PICK from \in QueuePcs, to \in QueuePcs :
                    At(t, from) /\ Goto(t, to) /\ cancelled \subseteq cancelled'
        BY <1>3, <2>4 DEF QueuePcs
      <3> QED BY <1>1, <3>1
    <2> QED BY <1>4, <2>1, <2>2, <2>3, <2>4 DEF QueueWorker
  <1>5. CASE KeepaliveWorker(t)
    <2>1. CASE \/ BeginKeepaliveRequest(t) \/ KeepaliveRequest(t) \/ KeepaliveRefused(t)
               \/ FinishKeepaliveRequest(t) \/ WaitKeepaliveNext(t) \/ MarkKeepaliveCancelled(t)
      <3>1. PICK from \in KeepalivePcs, to \in KeepalivePcs :
                    At(t, from) /\ Goto(t, to) /\ cancelled \subseteq cancelled'
        BY <2>1 DEF BeginKeepaliveRequest, KeepaliveRequest, KeepaliveRefused,
                    FinishKeepaliveRequest, WaitKeepaliveNext, MarkKeepaliveCancelled, KeepalivePcs
      <3> QED BY <1>1, <3>1
    <2>2. CASE FinishKeepaliveWorker(t)
      BY <2>2, LeaveKeepsContexts DEF FinishKeepaliveWorker
    <2>3. CASE \/ Resume(t, "kTargetWait", "kFirst") \/ Resume(t, "kSlotWait", "kSlot")
               \/ ReleaseKeepaliveSlot(t) \/ Resume(t, "kSleep", "kNext")
      <3>1. PICK from \in KeepalivePcs, to \in KeepalivePcs :
                    At(t, from) /\ Goto(t, to) /\ cancelled \subseteq cancelled'
        BY <1>2, <2>3 DEF ReleaseKeepaliveSlot, KeepalivePcs
      <3> QED BY <1>1, <3>1
    <2>4. CASE \/ Acquire(t, "kSlot", "kBegin", "kSlotWait")
               \/ CheckContext(t, "kCheck", "kCancel", "kFinish")
      <3>1. PICK from \in KeepalivePcs, to \in KeepalivePcs :
                    At(t, from) /\ Goto(t, to) /\ cancelled \subseteq cancelled'
        BY <1>3, <2>4 DEF KeepalivePcs
      <3> QED BY <1>1, <3>1
    <2> QED BY <1>5, <2>1, <2>2, <2>3, <2>4 DEF KeepaliveWorker
  <1>6. ASSUME NEW from, FinishAdhocRequest(t, from) PROVE ContextsKept(t)
    BY <1>6, LeaveKeepsContexts DEF FinishAdhocRequest
  <1>7. CASE AdhocRequest(t)
    <2>1. CASE \/ Acquire(t, "aSlot", "aCheck", "aSlotWait") \/ Resume(t, "aSlotWait", "aSlot")
               \/ CheckContext(t, "aCheck", "aQuitSlot", "aBegin") \/ AdhocBegin(t)
      <3>1. PICK from \in AdhocPcs, to \in AdhocPcs :
                    At(t, from) /\ Goto(t, to) /\ cancelled \subseteq cancelled'
        BY <1>2, <1>3, <2>1 DEF AdhocBegin, AdhocPcs
      <3> QED BY <1>1, <3>1
    <2> QED BY <1>6, <1>7, <2>1 DEF AdhocRequest
  <1>8. CASE GivesUp(t) \/ TimerFires(t)
    <2>1. PICK Pcs \in {QueuePcs, KeepalivePcs, AdhocPcs} : \E from \in Pcs, to \in Pcs :
                  At(t, from) /\ Goto(t, to) /\ cancelled \subseteq cancelled'
      BY <1>2, <1>8 DEF GivesUp, TimerFires, QueuePcs, KeepalivePcs, AdhocPcs
    <2> QED BY <1>1, <2>1
  <1>9. CASE ProcessEnds(t)
    <2>1. CASE \/ FinishProcess(t, "qRunning", "qSuccess") \/ FinishProcess(t, "qRunning", "qCheck")
               \/ FinishProcess(t, "kRunning", "kCheck")
      <3>1. PICK Pcs \in {QueuePcs, KeepalivePcs, AdhocPcs} : \E from \in Pcs, to \in Pcs :
                    At(t, from) /\ Goto(t, to) /\ cancelled \subseteq cancelled'
        BY <1>2, <2>1 DEF QueuePcs, KeepalivePcs, AdhocPcs
      <3> QED BY <1>1, <3>1
    <2> QED BY <1>6, <1>9, <2>1 DEF ProcessEnds
  <1>10. CASE ClientLeaves(t)
    BY <1>0, <1>10 DEF ClientLeaves, AdhocCancel, ContextsKept
  <1> QED BY <1>4, <1>5, <1>7, <1>8, <1>9, <1>10 DEF GoroutineStep, WorkerStep

(* Whoever is not at work may start one goroutine, whose context is done   *)
(* if the root's is; nothing starts after BeginShutdown.                   *)
LEMMA OutsideContexts ==
  ASSUME TypeOK, OutsideStep
  PROVE  /\ cancelled \subseteq cancelled'
         /\ \/ UNCHANGED pc
            \/ /\ ~shuttingDown /\ rootDone' = rootDone
               /\ \A s \in Threads : pc'[s] = pc[s] \/ (rootDone => s \in cancelled')
         /\ \/ rootDone' = rootDone
            \/ \A s \in Threads : pc[s] \in QueuePcs \cup KeepalivePcs => s \in cancelled'
  <1>1. ASSUME NEW t \in Threads, NEW label, NEW k, NEW run, NEW def,
               Spawn(t, label, k, run, def)
        PROVE  /\ cancelled \subseteq cancelled'
               /\ \A s \in Threads : pc'[s] = pc[s] \/ (rootDone => s \in cancelled')
    BY <1>1 DEF Spawn, Goto, TypeOK
  <1>2. ASSUME NEW K, NEW modes, StopModes(K, modes)
        PROVE  cancelled \subseteq cancelled' /\ UNCHANGED <<pc, rootDone>>
    BY <1>2 DEF StopModes, lifeVars
  <1>3. ASSUME UNCHANGED managerVars PROVE UNCHANGED <<cancelled, pc, rootDone>>
    BY <1>3 DEF managerVars, threadVars, lifeVars
  <1>4. CASE Calls /\ ~(\E t \in Threads : ClientLeaves(t))
    <2>1. ASSUME NEW c, NEW mode, NEW names, NEW subscriber,
                 StartCall(c, mode, names, subscriber)
          PROVE  UNCHANGED <<cancelled, pc, rootDone>>
      BY <1>3, <2>1 DEF StartCall
    <2>2. ASSUME NEW names, Stop(names)
          PROVE  cancelled \subseteq cancelled' /\ UNCHANGED <<pc, rootDone>>
      BY <1>2, <2>2 DEF Stop
    <2>3. ASSUME NEW t \in Threads, NEW k, RunAdhoc(t, k)
          PROVE  /\ cancelled \subseteq cancelled' /\ ~shuttingDown /\ rootDone' = rootDone
                 /\ \A s \in Threads : pc'[s] = pc[s] \/ (rootDone => s \in cancelled')
      BY <1>1, <2>3 DEF RunAdhoc, lifeVars
    <2> QED BY <1>4, <2>1, <2>2, <2>3 DEF Calls
  <1>5. CASE Edits \/ EditWaitTimeout \/ EditorStep
    <2>1. ASSUME NEW k, NEW newKey, NEW def, BeginEdit(k, newKey, def)
          PROVE  cancelled \subseteq cancelled' /\ UNCHANGED <<pc, rootDone>>
      BY <1>2, <2>1 DEF BeginEdit
    <2>2. ASSUME NEW k, NEW def, CreateTarget(k, def) PROVE UNCHANGED <<cancelled, pc, rootDone>>
      BY <2>2 DEF CreateTarget, threadVars, lifeVars
    <2>3. CASE EditWaitTimeout \/ EditWaitIdle \/ EditRejected \/ ApplyEdit
      BY <1>3, <2>3 DEF EditWaitTimeout, EditWaitIdle, EditRejected, ApplyEdit, threadVars, lifeVars
    <2> QED BY <1>5, <2>1, <2>2, <2>3 DEF Edits, EditorStep
  <1>6. CASE Settings
    BY <1>6 DEF Settings, UpdateSettings, lifeVars
  <1>7. CASE Shutdown
    BY <1>7 DEF Shutdown, RootCancel, BeginShutdown
  <1>8. ASSUME NEW c \in Starters, WaitTimeout(c) \/ StarterStep(c)
        PROVE  /\ cancelled \subseteq cancelled' /\ rootDone' = rootDone
               /\ \/ UNCHANGED pc
                  \/ /\ ~shuttingDown
                     /\ \A s \in Threads : pc'[s] = pc[s] \/ (rootDone => s \in cancelled')
    <2>1. CASE WaitTimeout(c) \/ WaitTargetIdle(c) \/ StartRetry(c) \/ \E k \in Keys : PrepareRefused(c, k)
      BY <1>3, <2>1 DEF WaitTimeout, WaitTargetIdle, StartRetry, PrepareRefused
    <2>2. ASSUME NEW k, PrepareMode(c, k)
          PROVE  cancelled \subseteq cancelled' /\ UNCHANGED <<pc, rootDone>>
      BY <1>2, <2>2 DEF PrepareMode
    <2>3. CASE StartRefused(c) \/ StartLate(c)
      BY <2>3 DEF StartRefused, StartLate, threadVars, lifeVars
    <2>4. ASSUME NEW t \in Threads, StartQueue(c, t)
          PROVE  /\ cancelled \subseteq cancelled' /\ ~shuttingDown /\ rootDone' = rootDone
                 /\ \A s \in Threads : pc'[s] = pc[s] \/ (rootDone => s \in cancelled')
      BY <1>1, <2>4 DEF StartQueue, MayCommit, lifeVars
    <2>5. ASSUME NEW t \in Threads, StartKeepalive(c, t)
          PROVE  /\ cancelled \subseteq cancelled' /\ ~shuttingDown /\ rootDone' = rootDone
                 /\ \A s \in Threads : pc'[s] = pc[s] \/ (rootDone => s \in cancelled')
      BY <1>1, <2>5 DEF StartKeepalive, MayCommit, lifeVars
    <2> QED BY <1>8, <2>1, <2>2, <2>3, <2>4, <2>5 DEF StarterStep
  <1> QED BY <1>4, <1>5, <1>6, <1>7, <1>8 DEF OutsideStep

(* The signal that ends the process reaches every worker, also one whose   *)
(* start was already under way when it came: startQueue and startKeepalive *)
(* derive the contexts of their workers from m.root.                       *)
THEOREM RootReachesAll == Spec => []RootReachesWorkers
  <1>1. Init => RootReachesWorkers
    BY DEF Init, RootReachesWorkers
  <1>2. TypeOK /\ RootReachesWorkers /\ [Next]_vars => RootReachesWorkers'
    <2> SUFFICES ASSUME TypeOK, RootReachesWorkers, [Next]_vars PROVE RootReachesWorkers'
      OBVIOUS
    <2>1. ASSUME NEW t \in Threads, GoroutineStep(t) PROVE RootReachesWorkers'
      <3>1. ContextsKept(t) /\ (rootDone' <=> rootDone)
        BY <2>1, GoroutineContexts DEF GoroutineStep, WorkerStep, GivesUp, ProcessEnds,
           ClientLeaves, WorkerFrame, lifeVars
      <3>2. pc'[t] \in QueuePcs \cup KeepalivePcs =>
               /\ pc[t] \in QueuePcs \cup KeepalivePcs
               /\ t \in cancelled => t \in cancelled'
        BY <3>1, KindFacts DEF ContextsKept, QueuePcs, KeepalivePcs
      <3>3. SUFFICES ASSUME rootDone', NEW s \in Threads, pc'[s] \in QueuePcs \cup KeepalivePcs
                     PROVE  s \in cancelled'
        BY DEF RootReachesWorkers
      <3>4. \A u \in Threads : pc[u] \in QueuePcs \cup KeepalivePcs => u \in cancelled
        BY <3>1, <3>3 DEF RootReachesWorkers
      <3>5. CASE s = t
        BY <3>2, <3>3, <3>4, <3>5
      <3>6. CASE s # t
        BY <3>1, <3>3, <3>4, <3>6 DEF ContextsKept
      <3> QED BY <3>5, <3>6
    <2>2. CASE OutsideStep
      BY <2>2, OutsideContexts DEF RootReachesWorkers
    <2>3. CASE UNCHANGED vars
      BY <2>3 DEF vars, lifeVars, threadVars, RootReachesWorkers
    <2> QED BY <2>1, <2>2, <2>3, NextSplit
  <1> QED BY <1>1, <1>2, TypeCorrect, PTL DEF Spec

(* Wait in main does not wait for a goroutine that started behind its      *)
(* back: shuttingDown is checked under the lock by whoever starts one.     *)
THEOREM NothingStartsLate == Spec => NoLateStart
  <1>1. TypeOK /\ [Next]_vars =>
           [shuttingDown => \A t \in Threads : ~Live(t) => ~Live(t)']_vars
    <2> SUFFICES ASSUME TypeOK, Next, shuttingDown, NEW s \in Threads, ~Live(s) PROVE ~Live(s)'
      BY DEF vars
    <2>1. ASSUME NEW t \in Threads, GoroutineStep(t) PROVE ~Live(s)'
      BY <2>1, GoroutineContexts DEF ContextsKept, Live
    <2>2. CASE OutsideStep
      BY <2>2, OutsideContexts DEF Live
    <2> QED BY <2>1, <2>2, NextSplit
  <1> QED BY <1>1, TypeCorrect, PTL DEF Spec, NoLateStart
=============================================================================
