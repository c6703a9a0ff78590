--------------------------- MODULE MessagesProofs ---------------------------
(***************************************************************************)
(* Proofs about Messages, for any number of reloads, senders and places in *)
(* a forwarder's channel.                                                  *)
(*                                                                         *)
(* ListenerStaysUp needs to know why a listener may be stopped: a sender   *)
(* that stops one has met a rejected token of that very client (Blamed).   *)
(* ShownFollowsClient needs to know where a reload is: while it shows an   *)
(* adapter as disabled or connecting that adapter has no client, and a     *)
(* client that is installed has had no forwarder before (Installing).      *)
(* ReloadConsistent is about the time between reloads; its proof follows a *)
(* reload through its phases: which clients it still has to cancel         *)
(* (Noted), which proxies it has cleared and set (Proxied), and what is    *)
(* shown of the adapters that are off (Dark).                              *)
(***************************************************************************)
EXTENDS Messages, TLAPS

\* A phase that treats clients has one to treat, in a generation above zero.
Running ==
    /\ reload.pc # "idle" => generation > 0
    /\ reload.pc \in {"create", "choose", "announce", "install"} => reload.todo # {}

\* Every reason for which a listener can be stopped.
Blamed ==
    /\ \A c \in Clients : status[c] = "unauthorized" => c \in revoked
    /\ \A c \in Clients : run[c] \in {"rejected", "refused"} => c \in revoked
    /\ \A c \in stopped : c \in done \/ c \in revoked
    /\ \A s \in Senders : send[s].pc # "idle" => send[s].adapter \in Adapters
    /\ \A s \in Senders : send[s].pc \in {"sending", "stop"} => SendClient(s) \in Clients
    /\ \A s \in Senders : send[s].pc = "stop" => SendClient(s) \in revoked

-----------------------------------------------------------------------------
LEMMA FirstOf == ASSUME NEW todo \in SUBSET Adapters, todo # {} PROVE First(todo) \in todo
BY MessagesAssumption DEF First

LEMMA Constants ==
    /\ NoReload \in Reloads /\ NoSend \in Sends
    /\ NoForwarder \in Forwarders /\ Forwarded \in Forwarders
    /\ Len(NoForwarder.queue) = 0 /\ Len(Forwarded.queue) = 0
    /\ NoReload.pc = "idle" /\ NoReload.todo = {} /\ Forwarded.pc = "ended" /\ ~Forwarded.open
BY MessagesAssumption
DEF NoReload, NoSend, NoForwarder, Forwarded, Reloads, Sends, Forwarders, Statuses

LEMMA PhaseType ==
    ASSUME reload \in Reloads, NEW label, NEW todo \in SUBSET Adapters, Phase(label, todo),
           label \in {"idle", "clear", "default", "cancel", "disable", "create", "choose",
                      "announce", "install"}
    PROVE  reload' \in Reloads /\ reload'.pc = label /\ reload'.todo = todo
BY DEF Phase, Reloads

LEMMA OfferType ==
    ASSUME NEW f \in Forwarders, Len(f.queue) <= StatusBuffer, NEW state \in Statuses
    PROVE  /\ Offer(f, state) \in Forwarders /\ Len(Offer(f, state).queue) <= StatusBuffer
           /\ Offer(f, state).pc = f.pc /\ Offer(f, state).held = f.held
<1>1. StatusBuffer \in Nat
  BY MessagesAssumption
<1>2. f.queue \in Seq(Statuses) /\ Len(f.queue) \in Nat
  BY DEF Forwarders
<1>3. Append(f.queue, state) \in Seq(Statuses) /\ Len(Append(f.queue, state)) = Len(f.queue) + 1
  BY <1>2
<1>4. CASE f.open /\ Len(f.queue) < StatusBuffer
  <2>1. Offer(f, state) = [f EXCEPT !.queue = Append(f.queue, state)]
    BY <1>4 DEF Offer
  <2>2. /\ Offer(f, state) \in Forwarders /\ Offer(f, state).queue = Append(f.queue, state)
        /\ Offer(f, state).pc = f.pc /\ Offer(f, state).held = f.held
    BY <1>3, <2>1 DEF Forwarders
  <2> QED  BY <1>1, <1>2, <1>3, <1>4, <2>2
<1>5. CASE f.open /\ ~(Len(f.queue) < StatusBuffer)
  BY <1>5 DEF Offer, Forwarders
<1>6. CASE ~f.open
  BY <1>6 DEF Offer
<1> QED  BY <1>4, <1>5, <1>6 DEF Forwarders

LEMMA SetType ==
    ASSUME TypeOK, NEW c \in Clients, NEW state \in Statuses, Set(c, state)
    PROVE  /\ status' \in [Clients -> Statuses] /\ fwd' \in [Clients -> Forwarders]
           /\ \A d \in Clients : Len(fwd'[d].queue) <= StatusBuffer
           /\ status'[c] = state /\ fwd'[c] = Offer(fwd[c], state)
           /\ \A d \in Clients \ {c} : status'[d] = status[d] /\ fwd'[d] = fwd[d]
           /\ \A d \in Clients : fwd'[d].pc = fwd[d].pc /\ fwd'[d].held = fwd[d].held
<1>1. /\ Offer(fwd[c], state) \in Forwarders /\ Len(Offer(fwd[c], state).queue) <= StatusBuffer
      /\ Offer(fwd[c], state).pc = fwd[c].pc /\ Offer(fwd[c], state).held = fwd[c].held
  BY OfferType DEF TypeOK
<1> QED  BY <1>1 DEF TypeOK, Set

\* A forwarder that holds a status holds one that was set.
Holding == \A c \in Clients : fwd[c].pc = "held" => fwd[c].held \in Statuses

SInv == TypeOK /\ Running /\ Holding /\ Blamed /\ ListenerStaysUp

LEMMA InitInv == Init => SInv
<1> SUFFICES ASSUME Init PROVE SInv
  OBVIOUS
<1>1. TypeOK
  <2>1. fwd \in [Clients -> Forwarders] /\ \A c \in Clients : Len(fwd[c].queue) <= StatusBuffer
    BY Constants, MessagesAssumption DEF Init
  <2>2. send \in [Senders -> Sends] /\ reload \in Reloads
    BY Constants DEF Init
  <2>3. 0 \in 0..MaxGeneration
    BY MessagesAssumption
  <2> QED  BY <2>1, <2>2, <2>3 DEF Init, TypeOK, Statuses, RunPcs
<1>2. Running /\ Holding /\ Blamed /\ ListenerStaysUp
  BY DEF Init, Running, Holding, Blamed, ListenerStaysUp, NoReload, NoSend, NoForwarder
<1> QED  BY <1>1, <1>2 DEF SInv

-----------------------------------------------------------------------------
(* Reload and Close                                                        *)

\* The steps of a reload leave alone what Blamed and ListenerStaysUp are about.
LEMMA ReloadFrame ==
    ASSUME SInv, UNCHANGED <<run, status, fwd, send, revoked, rootDone>>, done \subseteq done',
           \A c \in stopped' : c \in stopped \/ c \in done'
    PROVE  Holding' /\ Blamed' /\ ListenerStaysUp'
<1>1. \A s \in Senders : SendClient(s)' = SendClient(s)
  BY DEF SendClient
<1>2. Blamed'
  BY <1>1 DEF SInv, Blamed
<1>3. ListenerStaysUp' /\ Holding'
  BY DEF SInv, ListenerStaysUp, Holding, ContextDone
<1> QED  BY <1>2, <1>3

LEMMA BeginInv == ASSUME SInv, NEW enabled \in SUBSET Adapters, NEW closing \in BOOLEAN,
                         Begin(enabled, closing)
                  PROVE  SInv'
<1> USE DEF SInv, Begin
<1>1. {<<a, current[a]>> : a \in {b \in Adapters : current[b] # 0}} \subseteq Clients
  BY MessagesAssumption DEF TypeOK, Clients
<1>2. generation' \in 0..MaxGeneration /\ generation' > 0
  BY MessagesAssumption DEF TypeOK
<1>3. reload' \in Reloads /\ reload'.pc \in {"clear", "cancel"}
  BY <1>1 DEF Reloads
<1>4. current' \in [Adapters -> 0..MaxGeneration]
  BY MessagesAssumption
<1>5. TypeOK'
  BY <1>2, <1>3, <1>4 DEF TypeOK, clientVars
<1>6. Running'
  BY <1>2, <1>3 DEF Running
<1>7. Holding' /\ Blamed' /\ ListenerStaysUp'
  BY ReloadFrame DEF clientVars
<1> QED  BY <1>5, <1>6, <1>7

\* CreateClients goes on with the adapters that are left, or ends the reload.
LEMMA CreateType ==
    ASSUME reload \in Reloads, NEW todo \in SUBSET Adapters, CreateClients(todo)
    PROVE  /\ reload' \in Reloads /\ reload'.todo = todo
           /\ reload'.pc = IF todo = {} THEN "idle" ELSE "create"
<1>1. CASE todo = {}
  BY <1>1, Constants DEF CreateClients
<1>2. CASE todo # {}
  BY <1>2, PhaseType DEF CreateClients
<1> QED  BY <1>1, <1>2

LEMMA ReloadInv == ASSUME SInv, ReloadStep PROVE SInv'
<1> DEFINE a == First(reload.todo)
<1>0. /\ reload \in Reloads /\ reload.todo \in SUBSET Adapters
      /\ reload.enabled \in SUBSET Adapters /\ reload.old \subseteq Clients
  BY DEF SInv, TypeOK, Reloads
<1>00. reload.todo \ {a} \in SUBSET Adapters
  BY <1>0
<1> USE DEF SInv
<1>1. CASE ClearProxy
  <2>1. /\ reload' \in Reloads /\ reload'.pc \in {"default", "clear"} /\ reload.pc = "clear"
    BY <1>0, <1>00, <1>1, PhaseType DEF ClearProxy
  <2>2. proxy' \in [Adapters -> 0..MaxGeneration]
    <3>1. 0 \in 0..MaxGeneration
      BY MessagesAssumption
    <3> QED  BY <1>1, <3>1 DEF ClearProxy, TypeOK
  <2>3. TypeOK' /\ Running'
    BY <1>1, <2>1, <2>2 DEF ClearProxy, TypeOK, Running, clientVars
  <2> QED  BY <1>1, <2>3, ReloadFrame DEF ClearProxy, clientVars
<1>2. CASE ClearDefault
  <2>1. reload' \in Reloads /\ reload'.pc \in {"disable", "cancel"} /\ reload.pc = "default"
    BY <1>0, <1>2, PhaseType DEF ClearDefault
  <2>2. TypeOK' /\ Running'
    BY <1>2, <2>1 DEF ClearDefault, TypeOK, Running, clientVars
  <2> QED  BY <1>2, <2>2, ReloadFrame DEF ClearDefault, clientVars
<1>3. CASE CancelOld
  <2>1. PICK old \in SUBSET Clients : done' = done \cup old /\ stopped' = stopped \cup (old \cap canStop)
    BY <1>0, <1>3 DEF CancelOld
  <2>2. /\ reload' \in Reloads /\ reload'.pc \in {"clear", "cancel", "disable"}
        /\ reload.pc = "cancel"
    BY <1>0, <1>00, <1>3, PhaseType DEF CancelOld
  <2>3. TypeOK' /\ Running'
    BY <1>3, <2>1, <2>2 DEF CancelOld, TypeOK, Running
  <2> QED  BY <1>3, <2>1, <2>3, ReloadFrame DEF CancelOld
<1>4. CASE ShowDisabled
  <2>1. CASE reload.todo # {a}
    <3>1. reload' \in Reloads /\ reload'.pc = "disable" /\ reload.pc = "disable"
      BY <1>00, <1>0, <1>4, <2>1, PhaseType DEF ShowDisabled
    <3>2. TypeOK' /\ Running'
      BY <1>4, <3>1 DEF ShowDisabled, TypeOK, Running, clientVars, Statuses
    <3> QED  BY <1>4, <3>2, ReloadFrame DEF ShowDisabled, clientVars
  <2>2. CASE reload.todo = {a}
    <3>1. /\ reload' \in Reloads /\ reload.pc = "disable"
          /\ reload'.pc # "create" => reload'.pc = "idle"
          /\ reload'.pc = "create" => reload'.todo # {}
      BY <1>0, <1>4, <2>2, CreateType DEF ShowDisabled
    <3>2. TypeOK' /\ Running'
      BY <1>4, <3>1 DEF ShowDisabled, TypeOK, Running, clientVars, Statuses
    <3> QED  BY <1>4, <3>2, ReloadFrame DEF ShowDisabled, clientVars
  <2> QED  BY <2>1, <2>2
<1>5. CASE SetProxy
  <2>1. /\ reload' \in Reloads /\ reload'.pc = "choose" /\ reload.pc = "create"
        /\ reload'.todo = reload.todo
    BY <1>0, <1>5, PhaseType DEF SetProxy
  <2>2. TypeOK' /\ Running'
    BY <1>5, <2>1 DEF SetProxy, TypeOK, Running, clientVars
  <2> QED  BY <1>5, <2>2, ReloadFrame DEF SetProxy, clientVars
<1>6. CASE SetDefault
  <2>1. /\ reload' \in Reloads /\ reload'.pc = "announce" /\ reload.pc = "choose"
        /\ reload'.todo = reload.todo
    BY <1>0, <1>6, PhaseType DEF SetDefault
  <2>2. a \in Adapters
    BY <1>0, <2>1, FirstOf DEF Running
  <2>3. TypeOK' /\ Running'
    BY <1>6, <2>1, <2>2 DEF SetDefault, TypeOK, Running, clientVars
  <2> QED  BY <1>6, <2>3, ReloadFrame DEF SetDefault, clientVars
<1>7. CASE ShowConnecting
  <2>1. /\ reload' \in Reloads /\ reload'.pc = "install" /\ reload.pc = "announce"
        /\ reload'.todo = reload.todo
    BY <1>0, <1>7, PhaseType DEF ShowConnecting
  <2>2. TypeOK' /\ Running'
    BY <1>7, <2>1 DEF ShowConnecting, TypeOK, Running, clientVars, Statuses
  <2> QED  BY <1>7, <2>2, ReloadFrame DEF ShowConnecting, clientVars
<1>8. CASE InstallClient
  <2> DEFINE c == <<a, generation>>
  <2>1. reload.pc = "install" /\ reload.todo # {} /\ generation \in 1..MaxGeneration
    BY <1>8, MessagesAssumption DEF InstallClient, Running, TypeOK
  <2>2. a \in Adapters /\ c \in Clients
    BY <1>0, <2>1, FirstOf DEF Clients
  <2>3. /\ reload' \in Reloads
        /\ reload'.pc # "create" => reload'.pc = "idle"
        /\ reload'.pc = "create" => reload'.todo # {}
    BY <1>0, <1>00, <1>8, CreateType DEF InstallClient
  <2>4. /\ current' = [current EXCEPT ![a] = generation] /\ run' = [run EXCEPT ![c] = "new"]
        /\ fwd' = [fwd EXCEPT ![c].pc = "new"]
        /\ UNCHANGED <<generation, proxy, default, shown, done, stopped, canStop, status, send,
                       revoked, rootDone>>
    BY <1>8 DEF InstallClient
  <2> HIDE DEF c, a
  <2>5. fwd' \in [Clients -> Forwarders] /\ \A d \in Clients : fwd'[d].queue = fwd[d].queue
    BY <2>2, <2>4 DEF TypeOK, Forwarders
  <2>6. run' \in [Clients -> RunPcs] /\ run'[c] = "new" /\ \A d \in Clients \ {c} : run'[d] = run[d]
    BY <2>2, <2>4 DEF TypeOK, RunPcs
  <2>7. current' \in [Adapters -> 0..MaxGeneration]
    BY <2>1, <2>4 DEF TypeOK
  <2>8. TypeOK' /\ Running'
    BY <2>1, <2>3, <2>4, <2>5, <2>6, <2>7 DEF TypeOK, Running
  <2>9. \A s \in Senders : SendClient(s)' = SendClient(s)
    BY <2>4 DEF SendClient
  <2>10. Holding' /\ Blamed' /\ ListenerStaysUp'
    BY <2>2, <2>4, <2>6, <2>9 DEF Holding, Blamed, ListenerStaysUp, ContextDone, TypeOK, Forwarders
  <2> QED  BY <2>8, <2>10
<1> QED  BY <1>1, <1>2, <1>3, <1>4, <1>5, <1>6, <1>7, <1>8 DEF ReloadStep

-----------------------------------------------------------------------------
(* forwardStatus                                                           *)

LEMMA ForwardType ==
    ASSUME TypeOK, Holding, NEW c \in Clients, Forward(c) \/ ForwardEnds(c)
    PROVE  /\ \E f \in Forwarders : /\ Len(f.queue) <= StatusBuffer /\ fwd' = [fwd EXCEPT ![c] = f]
                                    /\ f.pc = "held" => f.held \in Statuses
           /\ shown' \in [Adapters -> Statuses] /\ ForwardFrame
<1>0. fwd[c] \in Forwarders /\ Len(fwd[c].queue) <= StatusBuffer /\ StatusBuffer \in Nat
  BY MessagesAssumption DEF TypeOK
<1>00. shown \in [Adapters -> Statuses]
  BY DEF TypeOK
<1>000. /\ Forwarded \in Forwarders /\ Len(Forwarded.queue) <= StatusBuffer
        /\ Forwarded.pc = "held" => Forwarded.held \in Statuses
  BY <1>0, Constants
<1>1. CASE Subscribe(c)
  <2> DEFINE f == [pc |-> "held", held |-> status[c], queue |-> <<>>, open |-> TRUE]
  <2>1. f \in Forwarders /\ Len(f.queue) <= StatusBuffer /\ f.held \in Statuses
    BY <1>0 DEF TypeOK, Forwarders
  <2> QED  BY <1>00, <1>1, <2>1 DEF Subscribe
<1>2. CASE SetStatusIfCurrent(c)
  <2> DEFINE f == [fwd[c] EXCEPT !.pc = "loop", !.held = "none"]
  <2>1. f \in Forwarders /\ f.queue = fwd[c].queue /\ f.pc = "loop"
    BY <1>0 DEF Forwarders
  <2>2. shown' \in [Adapters -> Statuses]
    BY <1>00, <1>2 DEF SetStatusIfCurrent, Holding
  <2>3. fwd' = [fwd EXCEPT ![c] = IF IsCurrent(c) THEN f ELSE Forwarded] /\ ForwardFrame
    BY <1>2 DEF SetStatusIfCurrent
  <2> HIDE DEF f
  <2>4. CASE IsCurrent(c)
    BY <1>0, <2>1, <2>2, <2>3, <2>4
  <2>5. CASE ~IsCurrent(c)
    BY <1>000, <2>2, <2>3, <2>5
  <2> QED  BY <2>4, <2>5
<1>3. CASE ReceiveStatus(c)
  <2> DEFINE f == [fwd[c] EXCEPT !.pc = "held", !.held = Head(fwd[c].queue),
                                 !.queue = Tail(fwd[c].queue)]
  <2>1. fwd[c].queue \in Seq(Statuses) /\ fwd[c].queue # <<>>
    BY <1>0, <1>3 DEF ReceiveStatus, Forwarders
  <2>2. /\ Head(fwd[c].queue) \in Statuses /\ Tail(fwd[c].queue) \in Seq(Statuses)
        /\ Len(Tail(fwd[c].queue)) = Len(fwd[c].queue) - 1 /\ Len(fwd[c].queue) \in Nat
    BY <2>1
  <2>3. f \in Forwarders /\ f.queue = Tail(fwd[c].queue) /\ f.held \in Statuses
    BY <1>0, <2>2 DEF Forwarders
  <2>4. fwd' = [fwd EXCEPT ![c] = f] /\ shown' = shown /\ ForwardFrame
    BY <1>3 DEF ReceiveStatus, TypeOK
  <2>5. Len(f.queue) <= StatusBuffer
    BY <1>0, <2>2, <2>3
  <2> HIDE DEF f
  <2> QED  BY <1>00, <2>3, <2>4, <2>5
<1>4. CASE ForwardEnds(c)
  <2>1. fwd' = [fwd EXCEPT ![c] = Forwarded] /\ shown' = shown /\ ForwardFrame
    BY <1>4 DEF ForwardEnds
  <2> QED  BY <1>00, <1>000, <2>1
<1> QED  BY <1>1, <1>2, <1>3, <1>4 DEF Forward

LEMMA ForwardInv == ASSUME SInv, NEW c \in Clients, Forward(c) \/ ForwardEnds(c) PROVE SInv'
<1> USE DEF SInv
<1>1. PICK f \in Forwarders : /\ Len(f.queue) <= StatusBuffer /\ fwd' = [fwd EXCEPT ![c] = f]
                              /\ f.pc = "held" => f.held \in Statuses
  BY ForwardType
<1>2. shown' \in [Adapters -> Statuses] /\ ForwardFrame
  BY ForwardType
<1>3. TypeOK' /\ Holding'
  BY <1>1, <1>2 DEF TypeOK, Holding, ForwardFrame, runtimeVars, clientVars
<1>4. \A s \in Senders : SendClient(s)' = SendClient(s)
  BY <1>2 DEF SendClient, ForwardFrame
<1>5. Running' /\ Blamed' /\ ListenerStaysUp'
  BY <1>2, <1>4
  DEF Running, Blamed, ListenerStaysUp, ContextDone, ForwardFrame, runtimeVars, clientVars
<1> QED  BY <1>3, <1>5

-----------------------------------------------------------------------------
(* Run                                                                     *)

\* Run goes to a place that it may only reach for a reason.
Justified(c, to) ==
    /\ to \in RunPcs
    /\ to \in {"rejected", "refused"} => c \in revoked
    /\ to \in {"exit", "ended"} => ContextDone(c) \/ c \in revoked

LEMMA RunGotoInv ==
    ASSUME SInv, NEW c \in Clients, NEW to, Justified(c, to), RunGoto(c, to), RunFrame,
           TypeOK', Holding', \A d \in Clients : status'[d] = "unauthorized" => d \in revoked
    PROVE  SInv'
<1> USE DEF SInv
<1>1. run'[c] = to /\ \A d \in Clients \ {c} : run'[d] = run[d]
  BY DEF RunGoto, TypeOK
<1>2. UNCHANGED <<generation, reload, done, stopped, send, revoked, rootDone>>
  BY DEF RunFrame, runtimeVars
<1>3. \A s \in Senders : SendClient(s)' = SendClient(s)
  BY <1>2 DEF SendClient
<1>4. Running' /\ Blamed' /\ ListenerStaysUp'
  BY <1>1, <1>2, <1>3 DEF Running, Blamed, ListenerStaysUp, ContextDone, Justified
<1> QED  BY <1>4

LEMMA RunMovesInv ==
    ASSUME SInv, NEW c \in Clients, NEW from, NEW to, Justified(c, to), RunMoves(c, from, to)
    PROVE  SInv'
<1>1. TypeOK' /\ Holding'
  BY DEF SInv, TypeOK, Holding, RunMoves, RunGoto, RunFrame, Justified, runtimeVars
<1>2. \A d \in Clients : status'[d] = "unauthorized" => d \in revoked
  BY DEF SInv, Blamed, RunMoves
<1> QED  BY <1>1, <1>2, RunGotoInv DEF RunMoves

LEMMA RunSetsInv ==
    ASSUME SInv, NEW c \in Clients, NEW from, NEW to, NEW state \in Statuses, Justified(c, to),
           state = "unauthorized" => c \in revoked, RunSets(c, from, state, to)
    PROVE  SInv'
<1>1. TypeOK' /\ Holding'
  BY SetType DEF SInv, TypeOK, Holding, RunSets, RunGoto, RunFrame, Justified, runtimeVars
<1>2. \A d \in Clients : status'[d] = "unauthorized" => d \in revoked
  BY SetType DEF SInv, Blamed, RunSets
<1> QED  BY <1>1, <1>2, RunGotoInv DEF RunSets

LEMMA RunInv == ASSUME SInv, NEW c \in Clients, RunStep(c) \/ ConnectionLost(c) PROVE SInv'
<1> \A to \in RunPcs \ {"rejected", "refused", "exit", "ended"} : Justified(c, to)
  BY DEF Justified
<1>1. /\ run[c] \in {"rejected", "refused"} => c \in revoked
      /\ status[c] = "unauthorized" => c \in revoked
      /\ RunDone(c) => ContextDone(c) \/ c \in revoked
  BY DEF SInv, Blamed, RunDone, ContextDone
<1>2. RunDone(c) \/ c \in revoked => Justified(c, "exit")
  BY <1>1 DEF Justified, RunPcs
<1>3. \A state \in Statuses \ {"unauthorized"} : state = "unauthorized" => c \in revoked
  OBVIOUS
<1>4. CASE RunBegins(c)
  <2>1. TypeOK' /\ Holding'
    BY <1>4 DEF RunBegins, SInv, TypeOK, Holding, RunGoto, RunFrame, runtimeVars, RunPcs
  <2> QED  BY <1>4, <2>1, RunGotoInv DEF RunBegins, SInv, Blamed, RunPcs
<1>5. CASE RunReturns(c)
  <2>1. Justified(c, "ended")
    BY <1>5 DEF RunReturns, SInv, ListenerStaysUp, Justified, RunPcs
  <2>2. TypeOK' /\ Holding'
    BY <1>5 DEF RunReturns, SInv, TypeOK, Holding, RunGoto, RunFrame, runtimeVars, RunPcs
  <2> QED  BY <1>5, <2>1, <2>2, RunGotoInv DEF RunReturns, SInv, Blamed
<1>6. CASE RequestEnds(c)
  <2>1. c \in revoked => Justified(c, "rejected")
    BY DEF Justified, RunPcs
  <2> QED  BY <1>6, <2>1, RunMovesInv DEF RequestEnds, RunPcs
<1>7. CASE OpenILinkRun(c)
  <2>1. CASE RunSets(c, "rejected", "unauthorized", "exit")
    BY <1>1, <1>2, <2>1, RunSetsInv DEF RunSets, Statuses
  <2>2. CASE RunSets(c, "answered", "connected", "reading")
    BY <2>2, RunSetsInv DEF Statuses, RunPcs
  <2>3. CASE RunMoves(c, "failed", "dropped") \/ RunMoves(c, "reading", "lost")
    BY <2>3, RunMovesInv DEF RunPcs
  <2>4. CASE RunMoves(c, "lost", IF status[c] = "unauthorized" THEN "exit" ELSE "lostCheck")
    BY <1>1, <1>2, <2>4, RunMovesInv DEF RunPcs
  <2>5. CASE RunMoves(c, "lostCheck", IF RunDone(c) THEN "exit" ELSE "dropped")
    BY <1>1, <1>2, <2>5, RunMovesInv DEF RunPcs
  <2> QED  BY <1>7, <2>1, <2>2, <2>3, <2>4, <2>5 DEF OpenILinkRun
<1>8. CASE TelegramRun(c)
  <2>1. CASE RunMoves(c, "rejected", IF RunDone(c) THEN "exit" ELSE "refused")
    <3>1. run[c] = "rejected"
      BY <2>1 DEF RunMoves
    <3>2. Justified(c, "refused")
      BY <1>1, <3>1 DEF Justified, RunPcs
    <3> QED  BY <1>2, <2>1, <3>2, RunMovesInv
  <2>2. CASE RunSets(c, "refused", "unauthorized", "exit")
    BY <1>1, <1>2, <2>2, RunSetsInv DEF RunSets, Statuses
  <2>3. CASE RunMoves(c, "failed", IF RunDone(c) THEN "exit" ELSE "dropped")
    BY <1>2, <2>3, RunMovesInv DEF RunPcs
  <2>4. CASE RunMoves(c, "answered", IF status[c] = "connected" THEN "check" ELSE "polled")
    BY <2>4, RunMovesInv DEF RunPcs
  <2>5. CASE RunSets(c, "polled", "connected", "check")
    BY <2>5, RunSetsInv DEF Statuses, RunPcs
  <2> QED  BY <1>8, <2>1, <2>2, <2>3, <2>4, <2>5 DEF TelegramRun
<1>9. CASE RunSets(c, "starting", "connecting", "check") \/ RunSets(c, "dropped", "reconnecting", "backoff")
  BY <1>9, RunSetsInv DEF Statuses, RunPcs
<1>10. CASE RunMoves(c, "check", IF RunDone(c) THEN "exit" ELSE "request")
  BY <1>2, <1>10, RunMovesInv DEF RunPcs
<1>11. CASE RunMoves(c, "backoff", "check") \/ ConnectionLost(c)
  BY <1>11, RunMovesInv DEF ConnectionLost, RunPcs
<1>12. CASE RunDone(c) /\ RunMoves(c, "backoff", "exit")
  BY <1>2, <1>12, RunMovesInv
<1> QED
  BY <1>4, <1>5, <1>6, <1>7, <1>8, <1>9, <1>10, <1>11, <1>12 DEF RunStep

-----------------------------------------------------------------------------
(* Send                                                                    *)

LEMMA SendInv ==
    ASSUME SInv, NEW s \in Senders,
           SendStep(s) \/ SendDefault(s) \/ \E a \in Adapters : SendBegins(s, a)
    PROVE  SInv'
<1> USE DEF SInv, SendFrame, runtimeVars
<1>0. /\ send[s] \in Sends /\ \A q : [send EXCEPT ![s] = q][s] = q
      /\ \A t \in Senders \ {s} : \A q : [send EXCEPT ![s] = q][t] = send[t]
  BY DEF TypeOK
<1>1. ASSUME NEW a \in Adapters, SendBegins(s, a) PROVE SInv'
  <2> DEFINE q == [pc |-> "proxy", adapter |-> a, client |-> 0]
  <2>1. q \in Sends
    BY MessagesAssumption DEF Sends
  <2>2. TypeOK' /\ Running' /\ Holding' /\ ListenerStaysUp'
    BY <1>1, <2>1 DEF SendBegins, TypeOK, Running, Holding, ListenerStaysUp, ContextDone
  <2>3. Blamed'
    BY <1>0, <1>1 DEF SendBegins, Blamed, SendClient
  <2> QED  BY <2>2, <2>3
<1>2. CASE SendDefault(s)
  BY <1>1, <1>2 DEF SendDefault, TypeOK
<1>3. CASE PickClient(s)
  <2> DEFINE g == proxy[send[s].adapter]
             q == IF g = 0 THEN NoSend
                  ELSE [pc |-> "sending", adapter |-> send[s].adapter, client |-> g]
  <2>1. send[s].adapter \in Adapters /\ g \in 0..MaxGeneration
    BY <1>3 DEF PickClient, Blamed, TypeOK
  <2>2. q \in Sends /\ (g # 0 => <<send[s].adapter, g>> \in Clients)
    BY <2>1, Constants, MessagesAssumption DEF Sends, Clients
  <2>3. TypeOK' /\ Running' /\ Holding' /\ ListenerStaysUp'
    BY <1>3, <2>2 DEF PickClient, TypeOK, Running, Holding, ListenerStaysUp, ContextDone
  <2>4. Blamed'
    BY <1>0, <1>3, <2>1, <2>2 DEF PickClient, Blamed, SendClient, NoSend
  <2> QED  BY <2>3, <2>4
<1>4. CASE SendEnds(s)
  <2>1. TypeOK' /\ Running' /\ Holding' /\ ListenerStaysUp'
    BY <1>4, Constants DEF SendEnds, TypeOK, Running, Holding, ListenerStaysUp, ContextDone
  <2>2. Blamed'
    BY <1>0, <1>4 DEF SendEnds, Blamed, SendClient, NoSend
  <2> QED  BY <2>1, <2>2
<1>5. CASE SendRejected(s)
  <2> DEFINE q == [send[s] EXCEPT !.pc = "stop"]
  <2>1. SendClient(s) \in Clients /\ SendClient(s) \in revoked /\ send[s].adapter \in Adapters
    BY <1>5 DEF SendRejected, Blamed
  <2>2. /\ q \in Sends /\ q.pc = "stop" /\ q.adapter = send[s].adapter /\ q.client = send[s].client
        /\ send' = [send EXCEPT ![s] = q]
    BY <1>5 DEF SendRejected, TypeOK, Sends
  <2>3. /\ status' \in [Clients -> Statuses] /\ fwd' \in [Clients -> Forwarders]
        /\ \A d \in Clients : Len(fwd'[d].queue) <= StatusBuffer
        /\ \A d \in Clients \ {SendClient(s)} : status'[d] = status[d]
        /\ \A d \in Clients : fwd'[d].pc = fwd[d].pc /\ fwd'[d].held = fwd[d].held
    BY <1>5, <2>1, SetType DEF SendRejected, Statuses
  <2> HIDE DEF q
  <2>4. TypeOK' /\ Running' /\ Holding' /\ ListenerStaysUp'
    BY <1>5, <2>2, <2>3 DEF SendRejected, TypeOK, Running, Holding, ListenerStaysUp, ContextDone
  <2>5. \A t \in Senders : SendClient(t)' = SendClient(t)
    BY <1>0, <2>2 DEF SendClient
  <2>6. Blamed'
    BY <1>0, <1>5, <2>1, <2>2, <2>3, <2>5 DEF SendRejected, Blamed
  <2> QED  BY <2>4, <2>6
<1>6. CASE StopAdapter(s)
  <2>1. SendClient(s) \in Clients /\ SendClient(s) \in revoked
    BY <1>6 DEF StopAdapter, Blamed
  <2>2. TypeOK' /\ Running' /\ Holding' /\ ListenerStaysUp'
    BY <1>6, <2>1, Constants
    DEF StopAdapter, TypeOK, Running, Holding, ListenerStaysUp, ContextDone
  <2>3. Blamed'
    BY <1>0, <1>6, <2>1 DEF StopAdapter, Blamed, SendClient, NoSend
  <2> QED  BY <2>2, <2>3
<1> QED  BY <1>1, <1>2, <1>3, <1>4, <1>5, <1>6 DEF SendStep

-----------------------------------------------------------------------------
LEMMA NextInv == SInv /\ [Next]_vars => SInv'
<1> SUFFICES ASSUME SInv, [Next]_vars PROVE SInv'
  OBVIOUS
<1>1. ASSUME NEW enabled \in SUBSET Adapters, Reload(enabled) PROVE SInv'
  BY <1>1, BeginInv DEF Reload
<1>2. CASE Close
  BY <1>2, BeginInv DEF Close
<1>3. CASE ReloadStep
  BY <1>3, ReloadInv
<1>4. ASSUME NEW c \in Clients, Forward(c) \/ ForwardEnds(c) PROVE SInv'
  BY <1>4, ForwardInv
<1>5. ASSUME NEW c \in Clients, RunStep(c) \/ ConnectionLost(c) PROVE SInv'
  BY <1>5, RunInv
<1>6. ASSUME NEW s \in Senders,
             SendStep(s) \/ SendDefault(s) \/ \E a \in Adapters : SendBegins(s, a)
      PROVE  SInv'
  BY <1>6, SendInv
<1>7. ASSUME \/ \E c \in Clients : Revoke(c)
             \/ RootCancel
             \/ UNCHANGED vars
      PROVE  SInv'
  <2>1. /\ UNCHANGED <<runtimeVars, shown, clientVars, status, fwd, send>>
        /\ revoked \subseteq revoked' /\ revoked' \subseteq Clients
        /\ rootDone' \in BOOLEAN /\ (rootDone => rootDone')
    BY <1>7 DEF Revoke, RootCancel, vars, SInv, TypeOK
  <2>2. \A s \in Senders : SendClient(s)' = SendClient(s)
    BY <2>1 DEF SendClient
  <2>3. TypeOK' /\ Running' /\ Holding'
    BY <2>1 DEF SInv, TypeOK, Running, Holding, runtimeVars, clientVars
  <2>4. Blamed' /\ ListenerStaysUp'
    BY <2>1, <2>2 DEF SInv, Blamed, ListenerStaysUp, ContextDone, runtimeVars, clientVars
  <2> QED  BY <2>3, <2>4 DEF SInv
<1> QED  BY <1>1, <1>2, <1>3, <1>4, <1>5, <1>6, <1>7 DEF Next

LEMMA Invariance == Spec => []SInv
BY InitInv, NextInv, PTL DEF Spec

-----------------------------------------------------------------------------
(* The status shown                                                        *)

\* Clients that no reload has installed yet
Unborn(c) == c[2] > generation \/ (c[2] = generation /\ current[c[1]] # generation)

\* The last status that forwarder f has passed on or still holds
Latest(f, state) ==
    IF f.queue # <<>> THEN f.queue[Len(f.queue)]
    ELSE IF f.pc = "held" THEN f.held ELSE state

\* Where a reload is: it forgets the clients first, shows a status itself only
\* for an adapter without a client, and installs each client once.
Installing ==
    /\ \A a \in Adapters : current[a] \in {0, generation}
    /\ \A c \in Clients : Unborn(c) => fwd[c] = NoForwarder
    /\ \A c \in Clients : fwd[c].open => fwd[c].pc \in {"held", "loop"}
    /\ reload.pc \in {"clear", "default", "cancel", "disable"} => \A a \in Adapters : current[a] = 0
    /\ reload.pc \in {"create", "choose", "announce", "install"} =>
          \A a \in reload.todo : current[a] = 0

Follows ==
    \A c \in Clients : current[c[1]] = c[2] /\ fwd[c].open =>
        Latest(fwd[c], shown[c[1]]) = status[c]

FInv == Installing /\ Follows

LEMMA ClientPair == \A c, d \in Clients : c[1] = d[1] /\ c[2] = d[2] => c = d
BY DEF Clients

LEMMA ClientParts == \A c \in Clients : c[1] \in Adapters /\ c[2] \in 1..MaxGeneration
BY DEF Clients

LEMMA LastOfTail ==
    ASSUME NEW q \in Seq(Statuses), q # <<>>
    PROVE  /\ Tail(q) = <<>> => Head(q) = q[Len(q)]
           /\ Tail(q) # <<>> => Tail(q)[Len(Tail(q))] = q[Len(q)]
<1> DEFINE t == Tail(q)
<1>1. Len(q) \in Nat /\ Len(q) > 0 /\ Len(t) = Len(q) - 1 /\ t \in Seq(Statuses)
  OBVIOUS
<1>2. CASE t = <<>>
  <2> HIDE DEF t
  <2>1. Len(t) = 0
    BY <1>2
  <2>2. Len(q) = 1
    BY <1>1, <2>1
  <2> QED  BY <1>2, <2>2 DEF t
<1>3. CASE Tail(q) # <<>>
  <2>1. Len(Tail(q)) > 0
    BY <1>1, <1>3
  <2>2. \A i \in 1..Len(q) - 1 : Tail(q)[i] = q[i + 1]
    BY <1>1
  <2>3. Len(q) - 1 \in 1..Len(q) - 1 /\ (Len(q) - 1) + 1 = Len(q)
    BY <1>1, <2>1
  <2> QED  BY <1>1, <1>3, <2>2, <2>3
<1> QED  BY <1>2, <1>3

LEMMA InitFollows == Init => FInv
<1> SUFFICES ASSUME Init PROVE FInv
  OBVIOUS
<1>1. \A c \in Clients : fwd[c] = NoForwarder /\ ~fwd[c].open
  BY DEF Init, NoForwarder
<1>2. reload.pc = "idle" /\ \A a \in Adapters : current[a] = 0
  BY DEF Init, NoReload
<1> QED  BY <1>1, <1>2 DEF FInv, Installing, Follows

\* Setting a status of a client keeps the last word its own.
LEMMA SetFollows ==
    ASSUME TypeOK, FInv, NEW c \in Clients, NEW state \in Statuses, Set(c, state),
           UNCHANGED <<generation, current, reload, shown>>
    PROVE  FInv'
<1>1. /\ status'[c] = state /\ fwd'[c] = Offer(fwd[c], state)
      /\ \A d \in Clients \ {c} : status'[d] = status[d] /\ fwd'[d] = fwd[d]
      /\ fwd'[c].pc = fwd[c].pc
  BY SetType
<1>2. /\ ~fwd[c].open => fwd'[c] = fwd[c]
      /\ fwd'[c].open => fwd[c].open
      /\ fwd'[c].open => fwd'[c].queue = Append(fwd[c].queue, state)
  <2>1. fwd[c] \in Forwarders
    BY DEF TypeOK
  <2> QED  BY <1>1, <2>1 DEF Offer, Forwarders
<1>3. fwd'[c].open => Latest(fwd'[c], shown'[c[1]]) = state
  <2>1. fwd[c].queue \in Seq(Statuses)
    BY DEF TypeOK, Forwarders
  <2>2. /\ Append(fwd[c].queue, state) # <<>>
        /\ Append(fwd[c].queue, state)[Len(Append(fwd[c].queue, state))] = state
    BY <2>1
  <2> QED  BY <1>2, <2>2 DEF Latest
<1>4. Follows'
  BY <1>1, <1>3 DEF FInv, Follows
<1>5. ~NoForwarder.open
  BY DEF NoForwarder
<1>6. Installing'
  BY <1>1, <1>2, <1>5 DEF FInv, Installing, Unborn
<1> QED  BY <1>4, <1>6 DEF FInv

LEMMA ReloadFollows ==
    ASSUME SInv, SInv', FInv, ReloadStep
    PROVE  FInv'
<1> DEFINE a == First(reload.todo)
<1>0. /\ reload \in Reloads /\ reload.todo \in SUBSET Adapters
      /\ reload.enabled \in SUBSET Adapters /\ reload.todo \ {a} \in SUBSET Adapters
  BY DEF SInv, TypeOK, Reloads
<1>1. CASE ClearProxy \/ ClearDefault \/ CancelOld
  <2>1. UNCHANGED <<generation, current, shown, status, fwd>>
    BY <1>1 DEF ClearProxy, ClearDefault, CancelOld
  <2>2. /\ reload.pc \in {"clear", "default", "cancel"}
        /\ reload'.pc \in {"clear", "default", "cancel", "disable"}
    BY <1>0, <1>1, PhaseType DEF ClearProxy, ClearDefault, CancelOld
  <2> QED  BY <2>1, <2>2 DEF FInv, Installing, Follows, Unborn
<1>2. CASE ShowDisabled
  <2>1. reload.pc = "disable" /\ UNCHANGED <<generation, current, status, fwd>>
    BY <1>2 DEF ShowDisabled
  <2>2. \A b \in Adapters : current[b] = 0
    BY <2>1 DEF FInv, Installing
  <2>3. /\ reload'.pc \in {"disable", "create", "idle"}
        /\ reload'.todo \in SUBSET Adapters
    BY <1>0, <1>2, PhaseType, CreateType DEF ShowDisabled
  <2>4. Installing'
    BY <2>1, <2>2, <2>3 DEF FInv, Installing, Unborn
  <2>5. Follows'
    BY <2>1, <2>2, ClientParts DEF Follows
  <2> QED  BY <2>4, <2>5 DEF FInv
<1>3. CASE SetProxy \/ SetDefault
  <2>1. UNCHANGED <<generation, current, shown, status, fwd>>
    BY <1>3 DEF SetProxy, SetDefault
  <2>2. /\ reload.pc \in {"create", "choose"} /\ reload'.pc \in {"choose", "announce"}
        /\ reload'.todo = reload.todo
    BY <1>0, <1>3, PhaseType DEF SetProxy, SetDefault
  <2> QED  BY <2>1, <2>2 DEF FInv, Installing, Follows, Unborn
<1>4. CASE ShowConnecting
  <2>1. /\ reload.pc = "announce" /\ UNCHANGED <<generation, current, status, fwd>>
        /\ shown' = [shown EXCEPT ![a] = "connecting"]
    BY <1>4 DEF ShowConnecting
  <2>2. reload'.pc = "install" /\ reload'.todo = reload.todo
    BY <1>0, <1>4, PhaseType DEF ShowConnecting
  <2>3. a \in Adapters /\ current[a] = 0
    BY <1>0, <2>1, FirstOf DEF SInv, Running, FInv, Installing
  <2>4. Installing'
    BY <2>1, <2>2 DEF FInv, Installing, Unborn
  <2>5. \A b \in Adapters \ {a} : shown'[b] = shown[b]
    BY <2>1 DEF SInv, TypeOK
  <2>6. Follows'
    BY <2>1, <2>3, <2>5, ClientParts DEF FInv, Follows
  <2> QED  BY <2>4, <2>6 DEF FInv
<1>5. CASE InstallClient
  <2> DEFINE c == <<a, generation>>
  <2>1. reload.pc = "install" /\ reload.todo # {} /\ generation \in 1..MaxGeneration
    BY <1>5, MessagesAssumption DEF InstallClient, SInv, Running, TypeOK
  <2>2. a \in reload.todo /\ a \in Adapters /\ c \in Clients /\ current[a] = 0
    BY <1>0, <2>1, FirstOf DEF Clients, FInv, Installing
  <2>3. /\ reload'.pc \in {"create", "idle"} /\ reload'.todo = reload.todo \ {a}
    BY <1>0, <1>5, CreateType DEF InstallClient
  <2>4. /\ current' = [current EXCEPT ![a] = generation] /\ fwd' = [fwd EXCEPT ![c].pc = "new"]
        /\ UNCHANGED <<generation, shown, status>>
    BY <1>5 DEF InstallClient
  <2>5. Unborn(c)
    BY <2>1, <2>2 DEF Unborn
  <2>6. fwd[c] = NoForwarder
    BY <2>2, <2>5 DEF FInv, Installing
  <2>7. c[1] = a /\ c[2] = generation
    OBVIOUS
  <2> HIDE DEF c, a
  <2>8. /\ current'[a] = generation /\ \A b \in Adapters \ {a} : current'[b] = current[b]
        /\ ~fwd'[c].open /\ \A d \in Clients \ {c} : fwd'[d] = fwd[d]
    BY <2>2, <2>4, <2>6 DEF SInv, TypeOK, NoForwarder
  <2>9. \A d \in Clients \ {c} : d[1] # a \/ d[2] # generation
    BY <2>2, <2>7, ClientPair
  <2>10. \A d \in Clients : Unborn(d)' => d # c /\ Unborn(d)
    BY <2>2, <2>4, <2>7, <2>8, <2>9, ClientParts DEF Unborn
  <2>11. Installing'
    <3>1. \A b \in Adapters : current'[b] \in {0, generation'}
      BY <2>4, <2>8 DEF FInv, Installing
    <3>2. \A d \in Clients : Unborn(d)' => fwd'[d] = NoForwarder
      BY <2>8, <2>10 DEF FInv, Installing
    <3>3. \A d \in Clients : fwd'[d].open => fwd'[d].pc \in {"held", "loop"}
      BY <2>8 DEF FInv, Installing
    <3>4. \A b \in reload'.todo : current'[b] = 0
      BY <1>0, <2>1, <2>3, <2>8 DEF FInv, Installing
    <3> QED  BY <2>3, <3>1, <3>2, <3>3, <3>4 DEF Installing
  <2>12. Follows'
    BY <2>4, <2>8, <2>9, ClientParts DEF FInv, Follows
  <2> QED  BY <2>11, <2>12 DEF FInv
<1> QED  BY <1>1, <1>2, <1>3, <1>4, <1>5 DEF ReloadStep

LEMMA ForwardFollows ==
    ASSUME SInv, FInv, NEW c \in Clients, Forward(c) \/ ForwardEnds(c)
    PROVE  FInv'
<1>0. /\ fwd[c] \in Forwarders /\ fwd \in [Clients -> Forwarders]
      /\ shown \in [Adapters -> Statuses]
  BY DEF SInv, TypeOK
<1>1. UNCHANGED <<generation, current, reload, status>>
  BY DEF Forward, ForwardEnds, Subscribe, SetStatusIfCurrent, ReceiveStatus, ForwardFrame,
         runtimeVars
<1>2. fwd[c].pc # "none" /\ fwd' = [fwd EXCEPT ![c] = fwd'[c]]
  BY <1>0 DEF Forward, ForwardEnds, Subscribe, SetStatusIfCurrent, ReceiveStatus
<1>3. ~Unborn(c)
  BY <1>2 DEF FInv, Installing, NoForwarder
<1>4. \A d \in Clients \ {c} : fwd'[d] = fwd[d]
  BY <1>0, <1>2
<1>5. ~Forwarded.open
  BY DEF Forwarded
<1>6. SUFFICES /\ fwd'[c].open => fwd'[c].pc \in {"held", "loop"}
               /\ \A d \in Clients \ {c} : current[d[1]] = d[2] => shown'[d[1]] = shown[d[1]]
               /\ current[c[1]] = c[2] /\ fwd'[c].open =>
                     Latest(fwd'[c], shown'[c[1]]) = status[c]
  <2>1. Installing'
    BY <1>1, <1>3, <1>4, <1>6 DEF FInv, Installing, Unborn
  <2>2. Follows'
    BY <1>1, <1>4, <1>6 DEF FInv, Follows
  <2> QED  BY <2>1, <2>2 DEF FInv
<1>7. CASE Subscribe(c)
  <2>1. fwd'[c] = [pc |-> "held", held |-> status[c], queue |-> <<>>, open |-> TRUE] /\ shown' = shown
    BY <1>0, <1>7 DEF Subscribe
  <2> QED  BY <2>1 DEF Latest
<1>8. CASE SetStatusIfCurrent(c)
  <2>1. CASE IsCurrent(c)
    <3>1. /\ fwd'[c] = [fwd[c] EXCEPT !.pc = "loop", !.held = "none"]
          /\ shown' = [shown EXCEPT ![c[1]] = fwd[c].held] /\ fwd[c].pc = "held"
      BY <1>0, <1>8, <2>1 DEF SetStatusIfCurrent
    <3>2. /\ fwd'[c].pc = "loop" /\ fwd'[c].queue = fwd[c].queue /\ fwd'[c].open = fwd[c].open
      BY <1>0, <3>1 DEF Forwarders
    <3>3. shown'[c[1]] = fwd[c].held /\ \A b \in Adapters \ {c[1]} : shown'[b] = shown[b]
      BY <1>0, <3>1, ClientParts
    <3>4. \A d \in Clients \ {c} : current[d[1]] = d[2] => d[1] # c[1]
      BY <2>1, ClientPair DEF IsCurrent
    <3>5. Latest(fwd'[c], shown'[c[1]]) = Latest(fwd[c], shown[c[1]])
      BY <3>1, <3>2, <3>3 DEF Latest
    <3> QED  BY <3>2, <3>3, <3>4, <3>5, ClientParts DEF FInv, Follows
  <2>2. CASE ~IsCurrent(c)
    BY <1>0, <1>5, <1>8, <2>2 DEF SetStatusIfCurrent
  <2> QED  BY <2>1, <2>2
<1>9. CASE ReceiveStatus(c)
  <2> DEFINE q == fwd[c].queue
  <2>1. q \in Seq(Statuses) /\ q # <<>> /\ shown' = shown
    BY <1>0, <1>9 DEF ReceiveStatus, Forwarders
  <2>2. /\ fwd'[c].pc = "held" /\ fwd'[c].held = Head(q)
        /\ fwd'[c].queue = Tail(q) /\ fwd'[c].open = fwd[c].open
    BY <1>0, <1>9 DEF ReceiveStatus, Forwarders
  <2>3. /\ Tail(q) = <<>> => Head(q) = q[Len(q)]
        /\ Tail(q) # <<>> => Tail(q)[Len(Tail(q))] = q[Len(q)]
    BY <2>1, LastOfTail
  <2>4. Latest(fwd'[c], shown'[c[1]]) = Latest(fwd[c], shown[c[1]])
    BY <2>1, <2>2, <2>3 DEF Latest
  <2> QED  BY <2>1, <2>2, <2>4 DEF FInv, Follows
<1>10. CASE ForwardEnds(c)
  BY <1>0, <1>5, <1>10 DEF ForwardEnds
<1> QED  BY <1>7, <1>8, <1>9, <1>10 DEF Forward

LEMMA RunFollows == ASSUME SInv, FInv, NEW c \in Clients, RunStep(c) \/ ConnectionLost(c) PROVE FInv'
<1>1. \/ UNCHANGED <<generation, current, reload, shown, status, fwd>>
      \/ \E state \in Statuses : Set(c, state) /\ UNCHANGED <<generation, current, reload, shown>>
  BY DEF RunStep, ConnectionLost, RunBegins, RunReturns, RequestEnds, OpenILinkRun, TelegramRun,
         RunMoves, RunSets, RunFrame, runtimeVars, Statuses
<1>2. CASE UNCHANGED <<generation, current, reload, shown, status, fwd>>
  BY <1>2 DEF FInv, Installing, Follows, Unborn
<1> QED  BY <1>1, <1>2, SetFollows DEF SInv

LEMMA SendFollows ==
    ASSUME SInv, FInv, NEW s \in Senders,
           SendStep(s) \/ SendDefault(s) \/ \E a \in Adapters : SendBegins(s, a)
    PROVE  FInv'
<1>1. CASE SendRejected(s)
  <2>1. SendClient(s) \in Clients
    BY <1>1 DEF SendRejected, SInv, Blamed
  <2> QED  BY <1>1, <2>1, SetFollows DEF SendRejected, SInv, SendFrame, runtimeVars, Statuses
<1>2. CASE ~SendRejected(s)
  <2>1. UNCHANGED <<generation, current, reload, shown, status, fwd>>
    BY <1>2 DEF SendStep, SendDefault, SendBegins, PickClient, SendEnds, StopAdapter, SendFrame,
                runtimeVars
  <2> QED  BY <2>1 DEF FInv, Installing, Follows, Unborn
<1> QED  BY <1>1, <1>2

LEMMA BeginFollows == ASSUME SInv, FInv, NEW enabled \in SUBSET Adapters, NEW closing \in BOOLEAN,
                             Begin(enabled, closing)
                      PROVE  FInv'
<1>1. /\ generation \in Nat /\ generation' = generation + 1 /\ UNCHANGED fwd
      /\ reload'.pc \in {"clear", "cancel"}
  BY DEF Begin, SInv, TypeOK
<1>2. \A a \in Adapters : current'[a] = 0
  BY DEF Begin
<1>3. \A c \in Clients : Unborn(c)' => Unborn(c)
  BY <1>1, ClientParts DEF Unborn
<1>4. Installing'
  BY <1>1, <1>2, <1>3 DEF FInv, Installing
<1>5. Follows'
  BY <1>2, ClientParts DEF Follows
<1> QED  BY <1>4, <1>5 DEF FInv

LEMMA NextFollows == SInv /\ SInv' /\ FInv /\ [Next]_vars => FInv'
<1> SUFFICES ASSUME SInv, SInv', FInv, [Next]_vars PROVE FInv'
  OBVIOUS
<1>1. ASSUME NEW enabled \in SUBSET Adapters, Reload(enabled) PROVE FInv'
  BY <1>1, BeginFollows DEF Reload
<1>2. CASE Close
  BY <1>2, BeginFollows DEF Close
<1>3. CASE ReloadStep
  BY <1>3, ReloadFollows
<1>4. ASSUME NEW c \in Clients, Forward(c) \/ ForwardEnds(c) PROVE FInv'
  BY <1>4, ForwardFollows
<1>5. ASSUME NEW c \in Clients, RunStep(c) \/ ConnectionLost(c) PROVE FInv'
  BY <1>5, RunFollows
<1>6. ASSUME NEW s \in Senders,
             SendStep(s) \/ SendDefault(s) \/ \E a \in Adapters : SendBegins(s, a)
      PROVE  FInv'
  BY <1>6, SendFollows
<1>7. CASE (\E c \in Clients : Revoke(c)) \/ RootCancel \/ UNCHANGED vars
  <2>1. UNCHANGED <<generation, current, reload, shown, status, fwd>>
    BY <1>7 DEF Revoke, RootCancel, vars, runtimeVars
  <2> QED  BY <2>1 DEF FInv, Installing, Follows, Unborn
<1> QED  BY <1>1, <1>2, <1>3, <1>4, <1>5, <1>6, <1>7 DEF Next

LEMMA FollowsShown == TypeOK /\ FInv => ShownFollowsClient
<1> SUFFICES ASSUME TypeOK, FInv, NEW c \in Clients, current[c[1]] = c[2], fwd[c].open
             PROVE  LET x == IF fwd[c].pc = "held" THEN fwd[c].held ELSE shown[c[1]]
                        pending == <<x>> \o fwd[c].queue
                    IN  pending[Len(pending)] = status[c]
  BY DEF ShownFollowsClient
<1> DEFINE q == fwd[c].queue
           x == IF fwd[c].pc = "held" THEN fwd[c].held ELSE shown[c[1]]
           pending == <<x>> \o q
<1>1. q \in Seq(Statuses)
  BY DEF TypeOK, Forwarders
<1>2. Latest(fwd[c], shown[c[1]]) = IF q # <<>> THEN q[Len(q)] ELSE x
  BY DEF Latest
<1>3. Latest(fwd[c], shown[c[1]]) = status[c]
  BY DEF FInv, Follows
<1> HIDE DEF x, q
<1>4. pending[Len(pending)] = IF q # <<>> THEN q[Len(q)] ELSE x
  BY <1>1
<1> QED  BY <1>2, <1>3, <1>4 DEF x, q

-----------------------------------------------------------------------------
(* What is left when a reload is over                                      *)

\* The adapter that notifications without one go to, of those that have a client
Best(usable) == IF usable = {} THEN "none" ELSE First(usable)

\* Clients that were started and not told to end
Live(c) == run[c] # "none" /\ c \notin done

\* A live client is the one in use, or one that the reload in progress has
\* taken note of and will cancel.
Noted ==
    \A c \in Clients : Live(c) =>
        /\ reload.pc \in {"idle", "create", "choose", "announce", "install"} =>
              current[c[1]] = c[2]
        /\ reload.pc \in {"clear", "default"} => ~reload.closing /\ c \in reload.old
        /\ reload.pc = "cancel" => c \in reload.old /\ c[1] \in reload.todo
        /\ reload.pc # "disable"

\* How far the proxies have been cleared and set
Proxied ==
    /\ reload.pc = "clear" => \A a \in Adapters \ reload.todo : proxy[a] = 0
    /\ reload.pc = "default" => \A a \in Adapters : proxy[a] = 0
    /\ reload.pc = "disable" \/ (reload.pc = "cancel" /\ ~reload.closing) =>
          default = "none" /\ \A a \in Adapters : proxy[a] = 0
    /\ reload.pc \in {"idle", "create"} => \A a \in Adapters : proxy[a] = current[a]
    /\ reload.pc \in {"choose", "announce", "install"} =>
          /\ proxy[First(reload.todo)] = generation
          /\ \A a \in Adapters \ {First(reload.todo)} : proxy[a] = current[a]
    /\ reload.pc \in {"idle", "create", "announce", "install"} => default = Best(UsableAdapters)
    /\ reload.pc = "choose" => default = Best(UsableAdapters \ {First(reload.todo)})

\* Which adapters are shown as disabled
Dark ==
    /\ reload.pc = "disable" => \A a \in Adapters \ reload.todo : shown[a] = "disabled"
    /\ reload.pc \in {"idle", "create", "choose", "announce"} =>
          \A a \in Adapters : current[a] = 0 => shown[a] = "disabled"
    /\ reload.pc = "install" =>
          \A a \in Adapters \ {First(reload.todo)} : current[a] = 0 => shown[a] = "disabled"

CInv == Noted /\ Proxied /\ Dark

LEMMA InitConsistent == Init => CInv
<1> SUFFICES ASSUME Init PROVE CInv
  OBVIOUS
<1>1. /\ reload.pc = "idle" /\ \A c \in Clients : ~Live(c)
      /\ \A a \in Adapters : current[a] = 0 /\ proxy[a] = 0 /\ shown[a] = "disabled"
  BY DEF Init, NoReload, Live
<1>2. UsableAdapters = {} /\ default = "none"
  BY <1>1 DEF UsableAdapters, Init
<1> QED  BY <1>1, <1>2 DEF CInv, Noted, Proxied, Dark, Best

\* A step outside the reload only ends clients and shows a status of one in use.
LEMMA OutsideReload ==
    ASSUME FInv, CInv, UNCHANGED runtimeVars, UNCHANGED done,
           \A c \in Clients : run[c] = "none" => run'[c] = "none",
           \A a \in Adapters : current[a] = 0 => shown'[a] = shown[a]
    PROVE  CInv'
<1>1. \A c \in Clients : Live(c)' => Live(c)
  BY DEF Live
<1>2. UNCHANGED <<generation, current, proxy, default, reload>> /\ UsableAdapters' = UsableAdapters
  BY DEF runtimeVars, UsableAdapters
<1>3. Noted' /\ Proxied'
  BY <1>1, <1>2 DEF CInv, Noted, Proxied
<1> QED  BY <1>2, <1>3 DEF FInv, Installing, CInv, Dark

LEMMA BeginConsistent == ASSUME SInv, CInv, NEW enabled \in SUBSET Adapters, NEW closing \in BOOLEAN,
                                Begin(enabled, closing)
                         PROVE  CInv'
<1>1. /\ reload.pc = "idle" /\ reload'.todo = Adapters /\ reload'.closing = closing
      /\ reload'.pc = IF closing THEN "cancel" ELSE "clear"
      /\ reload'.old = {<<a, current[a]>> : a \in {b \in Adapters : current[b] # 0}}
      /\ UNCHANGED <<run, done>>
  BY DEF Begin, clientVars
<1>2. ASSUME NEW c \in Clients, Live(c)' PROVE c \in reload'.old /\ c[1] \in Adapters
  <2>1. current[c[1]] = c[2]
    BY <1>1, <1>2 DEF CInv, Noted, Live
  <2>2. c = <<c[1], current[c[1]]>> /\ c[1] \in Adapters /\ c[2] # 0
    BY <2>1 DEF Clients
  <2> QED  BY <1>1, <2>1, <2>2
<1>3. Noted'
  BY <1>1, <1>2 DEF Noted
<1>4. Proxied' /\ Dark'
  BY <1>1 DEF Proxied, Dark
<1> QED  BY <1>3, <1>4 DEF CInv

LEMMA ReloadConsistentStep == ASSUME SInv, FInv, FInv', CInv, ReloadStep PROVE CInv'
<1> DEFINE a == First(reload.todo)
<1>0. /\ reload \in Reloads /\ reload.todo \in SUBSET Adapters
      /\ reload.enabled \in SUBSET Adapters /\ reload.todo \ {a} \in SUBSET Adapters
      /\ reload.closing \in BOOLEAN
  BY DEF SInv, TypeOK, Reloads
<1>00. ASSUME NEW label, NEW todo, Phase(label, todo)
       PROVE  reload'.old = reload.old /\ reload'.closing = reload.closing
              /\ reload'.pc = label /\ reload'.todo = todo
  BY <1>0, <1>00 DEF Phase, Reloads
<1>1. CASE ClearProxy
  <2>1. /\ reload.pc = "clear" /\ proxy' = [proxy EXCEPT ![a] = 0]
        /\ reload'.todo = reload.todo \ {a} /\ UNCHANGED <<run, done>>
        /\ reload'.old = reload.old /\ reload'.closing = reload.closing
        /\ reload'.pc = IF reload.todo = {a} THEN "default" ELSE "clear"
    BY <1>00, <1>1 DEF ClearProxy, clientVars
  <2>2. \A b \in Adapters : proxy'[b] = IF b = a THEN 0 ELSE proxy[b]
    BY <2>1 DEF SInv, TypeOK
  <2> HIDE DEF a
  <2>3. Noted'
    BY <2>1 DEF CInv, Noted, Live
  <2>4. Proxied' /\ Dark'
    BY <2>1, <2>2 DEF CInv, Proxied, Dark
  <2> QED  BY <2>3, <2>4 DEF CInv
<1>2. CASE ClearDefault
  <2>1. /\ reload.pc = "default" /\ default' = "none" /\ UNCHANGED <<run, done, proxy>>
        /\ reload'.old = reload.old /\ reload'.closing = reload.closing
        /\ reload'.pc = IF reload.closing THEN "disable" ELSE "cancel"
        /\ reload'.todo = Adapters
    BY <1>00, <1>2 DEF ClearDefault, clientVars
  <2>2. Noted'
    BY <2>1, ClientParts DEF CInv, Noted, Live
  <2>3. Proxied' /\ Dark'
    BY <2>1 DEF CInv, Proxied, Dark
  <2> QED  BY <2>2, <2>3 DEF CInv
<1>3. CASE CancelOld
  <2>1. /\ reload.pc = "cancel" /\ UNCHANGED <<run, proxy, default>>
        /\ done' = done \cup {c \in reload.old : c[1] = a}
    BY <1>3 DEF CancelOld
  <2>2. /\ reload'.old = reload.old /\ reload'.closing = reload.closing
        /\ reload.todo # {a} => reload'.pc = "cancel" /\ reload'.todo = reload.todo \ {a}
        /\ reload.todo = {a} => /\ reload'.pc = IF reload.closing THEN "clear" ELSE "disable"
                                /\ reload'.todo = Adapters
    BY <1>00, <1>3 DEF CancelOld
  <2> HIDE DEF a
  <2>3. \A c \in Clients : Live(c)' => c \in reload.old /\ c[1] \in reload.todo \ {a}
    BY <2>1 DEF CInv, Noted, Live
  <2>4. Noted'
    BY <2>2, <2>3 DEF Noted
  <2>5. Proxied' /\ Dark'
    BY <1>0, <2>1, <2>2 DEF CInv, Proxied, Dark
  <2> QED  BY <2>4, <2>5 DEF CInv
<1>4. CASE ShowDisabled
  <2>1. /\ reload.pc = "disable" /\ shown' = [shown EXCEPT ![a] = "disabled"]
        /\ UNCHANGED <<run, done, proxy, default, current>>
        /\ default = "none" /\ \A b \in Adapters : current[b] = 0 /\ proxy[b] = 0
    BY <1>4 DEF ShowDisabled, clientVars, CInv, Proxied, FInv, Installing
  <2>2. /\ reload.todo # {a} => reload'.pc = "disable" /\ reload'.todo = reload.todo \ {a}
        /\ reload.todo = {a} => reload'.pc \in {"create", "idle"}
    BY <1>0, <1>00, <1>4, CreateType DEF ShowDisabled
  <2>3. \A b \in Adapters : shown'[b] = IF b = a THEN "disabled" ELSE shown[b]
    BY <2>1 DEF SInv, TypeOK
  <2>4. UsableAdapters' = {}
    BY <2>1 DEF UsableAdapters
  <2> HIDE DEF a
  <2>5. Noted'
    BY <2>1 DEF CInv, Noted, Live
  <2>6. Proxied'
    BY <2>1, <2>2, <2>4 DEF Proxied, Best
  <2>7. Dark'
    BY <2>1, <2>2, <2>3 DEF CInv, Dark
  <2> QED  BY <2>5, <2>6, <2>7 DEF CInv
<1>5. CASE SetProxy
  <2>1. /\ reload.pc = "create" /\ proxy' = [proxy EXCEPT ![a] = generation]
        /\ UNCHANGED <<run, done, default, current, shown, generation>>
        /\ reload'.pc = "choose" /\ reload'.todo = reload.todo
    BY <1>00, <1>5 DEF SetProxy, clientVars
  <2>2. a \in Adapters /\ current[a] = 0
    BY <1>0, <2>1, FirstOf DEF SInv, Running, FInv, Installing
  <2>3. \A b \in Adapters : proxy'[b] = IF b = a THEN generation ELSE proxy[b]
    BY <2>1 DEF SInv, TypeOK
  <2>4. UsableAdapters' \ {a} = UsableAdapters
    BY <2>1, <2>2, <2>3 DEF UsableAdapters, CInv, Proxied
  <2>5. Noted' /\ Dark'
    BY <2>1 DEF CInv, Noted, Live, Dark
  <2>6. Proxied'
    BY <2>1, <2>2, <2>3, <2>4 DEF CInv, Proxied
  <2> QED  BY <2>5, <2>6 DEF CInv
<1>6. CASE SetDefault
  <2>1. /\ reload.pc = "choose" /\ reload'.pc = "announce" /\ reload'.todo = reload.todo
        /\ default' = IF a = "openilink" \/ default = "none" THEN a ELSE default
        /\ UNCHANGED <<run, done, proxy, current, shown, generation>>
    BY <1>00, <1>6 DEF SetDefault, clientVars
  <2>2. a \in Adapters /\ proxy[a] # 0
    BY <1>0, <2>1, FirstOf DEF SInv, Running, CInv, Proxied
  <2>3. a \in UsableAdapters /\ UsableAdapters' = UsableAdapters
    BY <2>1, <2>2 DEF UsableAdapters
  <2>4. default = Best(UsableAdapters \ {a})
    BY <2>1 DEF CInv, Proxied
  <2>5. UsableAdapters \subseteq {"openilink", "telegram"}
    BY MessagesAssumption DEF UsableAdapters
  <2> HIDE DEF a
  <2>6. default' = Best(UsableAdapters)
    BY <2>1, <2>3, <2>4, <2>5 DEF Best, First
  <2>7. Noted' /\ Dark'
    BY <2>1 DEF CInv, Noted, Live, Dark
  <2>8. Proxied'
    BY <2>1, <2>3, <2>6 DEF CInv, Proxied
  <2> QED  BY <2>7, <2>8 DEF CInv
<1>7. CASE ShowConnecting
  <2>1. /\ reload.pc = "announce" /\ reload'.pc = "install" /\ reload'.todo = reload.todo
        /\ shown' = [shown EXCEPT ![a] = "connecting"]
        /\ UNCHANGED <<run, done, proxy, default, current, generation>>
    BY <1>00, <1>7 DEF ShowConnecting, clientVars
  <2>2. \A b \in Adapters \ {a} : shown'[b] = shown[b]
    BY <2>1 DEF SInv, TypeOK
  <2>3. UsableAdapters' = UsableAdapters
    BY <2>1 DEF UsableAdapters
  <2>4. Noted' /\ Proxied'
    BY <2>1, <2>3 DEF CInv, Noted, Live, Proxied
  <2>5. Dark'
    BY <2>1, <2>2 DEF CInv, Dark
  <2> QED  BY <2>4, <2>5 DEF CInv
<1>8. CASE InstallClient
  <2> DEFINE c == <<a, generation>>
  <2>1. /\ reload.pc = "install" /\ current' = [current EXCEPT ![a] = generation]
        /\ run' = [run EXCEPT ![c] = "new"] /\ CreateClients(reload.todo \ {a})
        /\ UNCHANGED <<done, proxy, default, shown, generation>>
    BY <1>8 DEF InstallClient
  <2>2. a \in Adapters /\ current[a] = 0 /\ generation # 0
    BY <1>0, <2>1, FirstOf DEF SInv, Running, FInv, Installing
  <2>3. reload'.pc \in {"create", "idle"}
    BY <1>0, <2>1, CreateType
  <2>4. c[1] = a /\ c[2] = generation
    OBVIOUS
  <2> HIDE DEF a, c
  <2>5. \A b \in Adapters : current'[b] = IF b = a THEN generation ELSE current[b]
    BY <2>1 DEF SInv, TypeOK
  <2>6. \A d \in Clients : run'[d] = IF d = c THEN "new" ELSE run[d]
    BY <2>1 DEF SInv, TypeOK
  <2>7. UsableAdapters' = UsableAdapters /\ default = Best(UsableAdapters)
    BY <2>1 DEF UsableAdapters, CInv, Proxied
  <2>8. \A b \in Adapters : proxy[b] = IF b = a THEN generation ELSE current[b]
    BY <2>1, <2>2 DEF CInv, Proxied, a
  <2>9. \A d \in Clients : Live(d)' => current'[d[1]] = d[2]
    BY <2>1, <2>2, <2>4, <2>5, <2>6, ClientParts DEF CInv, Noted, Live
  <2>10. Noted'
    BY <2>3, <2>9 DEF Noted
  <2>11. Proxied'
    BY <2>1, <2>3, <2>5, <2>7, <2>8 DEF Proxied
  <2>12. Dark'
    BY <2>1, <2>2, <2>3, <2>5 DEF CInv, Dark, a
  <2> QED  BY <2>10, <2>11, <2>12 DEF CInv
<1> QED  BY <1>1, <1>2, <1>3, <1>4, <1>5, <1>6, <1>7, <1>8 DEF ReloadStep

LEMMA ForwardConsistent ==
    ASSUME SInv, FInv, CInv, NEW c \in Clients, Forward(c) \/ ForwardEnds(c)
    PROVE  CInv'
<1>1. ForwardFrame
  BY DEF Forward, ForwardEnds, Subscribe, SetStatusIfCurrent, ReceiveStatus
<1>2. \A a \in Adapters : current[a] = 0 => shown'[a] = shown[a]
  BY ClientParts
  DEF Forward, ForwardEnds, Subscribe, SetStatusIfCurrent, ReceiveStatus, IsCurrent, SInv, TypeOK
<1> QED  BY <1>1, <1>2, OutsideReload DEF ForwardFrame, clientVars

LEMMA RunConsistent ==
    ASSUME SInv, FInv, CInv, NEW c \in Clients, RunStep(c) \/ ConnectionLost(c)
    PROVE  CInv'
<1>1. RunFrame /\ run[c] # "none" /\ \E to : RunGoto(c, to)
  BY DEF RunStep, ConnectionLost, RunBegins, RunReturns, RequestEnds, OpenILinkRun, TelegramRun,
         RunMoves, RunSets
<1>2. \A d \in Clients : run[d] = "none" => run'[d] = "none"
  BY <1>1 DEF RunGoto, SInv, TypeOK
<1> QED  BY <1>1, <1>2, OutsideReload DEF RunFrame

LEMMA NextConsistent == SInv /\ FInv /\ FInv' /\ CInv /\ [Next]_vars => CInv'
<1> SUFFICES ASSUME SInv, FInv, FInv', CInv, [Next]_vars PROVE CInv'
  OBVIOUS
<1>1. ASSUME NEW enabled \in SUBSET Adapters, Reload(enabled) PROVE CInv'
  BY <1>1, BeginConsistent DEF Reload
<1>2. CASE Close
  BY <1>2, BeginConsistent DEF Close
<1>3. CASE ReloadStep
  BY <1>3, ReloadConsistentStep
<1>4. ASSUME NEW c \in Clients, Forward(c) \/ ForwardEnds(c) PROVE CInv'
  BY <1>4, ForwardConsistent
<1>5. ASSUME NEW c \in Clients, RunStep(c) \/ ConnectionLost(c) PROVE CInv'
  BY <1>5, RunConsistent
<1>6. ASSUME NEW s \in Senders,
             SendStep(s) \/ SendDefault(s) \/ \E a \in Adapters : SendBegins(s, a)
      PROVE  CInv'
  <2>1. SendFrame
    BY <1>6 DEF SendStep, SendDefault, SendBegins, PickClient, SendEnds, SendRejected, StopAdapter
  <2> QED  BY <2>1, OutsideReload DEF SendFrame
<1>7. CASE (\E c \in Clients : Revoke(c)) \/ RootCancel \/ UNCHANGED vars
  BY <1>7, OutsideReload DEF Revoke, RootCancel, vars, clientVars
<1> QED  BY <1>1, <1>2, <1>3, <1>4, <1>5, <1>6, <1>7 DEF Next

LEMMA ConsistentReload == FInv /\ CInv => ReloadConsistent
<1> SUFFICES ASSUME FInv, CInv, reload.pc = "idle", NEW a \in Adapters
             PROVE  /\ proxy[a] = current[a]
                    /\ current[a] = 0 => shown[a] = "disabled"
                    /\ current[a] # 0 => current[a] = generation
                    /\ default = IF UsableAdapters = {} THEN "none" ELSE First(UsableAdapters)
                    /\ \A g \in 1..MaxGeneration :
                          run[<<a, g>>] # "none" /\ g # current[a] => <<a, g>> \in done
  BY DEF ReloadConsistent
<1>1. \A g \in 1..MaxGeneration :
         run[<<a, g>>] # "none" /\ g # current[a] => <<a, g>> \in done
  BY DEF CInv, Noted, Live, Clients
<1> QED  BY <1>1 DEF FInv, Installing, CInv, Proxied, Dark, Best

-----------------------------------------------------------------------------
\* The types of internal/hub, internal/telegram and of the message runtime
\* hold, and no forwarder's channel ever holds more than its buffer.
THEOREM MessageTypes == Spec => []TypeOK
<1>1. SInv => TypeOK
  BY DEF SInv
<1> QED  BY <1>1, Invariance, PTL

\* A listener ends only for a reason of its own, however reloads, network
\* errors and rejected sends of other clients interleave.
THEOREM ListenersStay == Spec => []ListenerStaysUp
<1>1. SInv => ListenerStaysUp
  BY DEF SInv
<1> QED  BY <1>1, Invariance, PTL

\* As long as its forwarder is subscribed, the status that the console shows,
\* with what the forwarder still has to pass on, ends with that of the client in
\* use, however forwardStatus, Run, senders and reloads interleave; a forwarder
\* that overflowed is not spoken of, and nothing is promised after it.
THEOREM StatusFollowsClient == Spec => []ShownFollowsClient
<1>1. SInv => TypeOK
  BY DEF SInv
<1> QED  BY <1>1, Invariance, InitFollows, NextFollows, FollowsShown, PTL DEF Spec

\* When a reload is over, senders, console and default proxy agree on the
\* clients in use, and every other client has been told to end.
THEOREM ReloadLeavesOrder == Spec => []ReloadConsistent
<1>1. SInv => TypeOK
  BY DEF SInv
<1> QED
  BY <1>1, Invariance, InitFollows, NextFollows, InitConsistent, NextConsistent, ConsistentReload,
     PTL DEF Spec
=============================================================================
