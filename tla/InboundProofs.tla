---------------------------- MODULE InboundProofs ----------------------------
(***************************************************************************)
(* What the two chat adapters receive, for any number of clients, updates  *)
(* and events and for any size of the memory.                              *)
(*                                                                         *)
(* NoUpdateLost is not inductive: the server forgets what the offset of a  *)
(* poll passes, so one has to know that what any client's offset passes    *)
(* was handled.  The offset moves behind an update before the batch is     *)
(* finished, so one also has to know that a batch begins where handled     *)
(* updates end, which the server's answer ensures.  OncePerClient follows  *)
(* from the other direction: what a client has handled is behind its       *)
(* offset, and no answer begins before it.  With both, each step is one of *)
(* the Mailbox or none: what is handed over next leaves no gap before it,  *)
(* and what is forgotten was handed over.                                  *)
(*                                                                         *)
(* NoDuplicateInWindow needs to know what the memory holds: the last       *)
(* events accepted, all different, in the list and in the set.             *)
(***************************************************************************)
EXTENDS Inbound, TLAPS

\* Every update below n was handled by some client.
HandledBelow(n) == \A u \in Nat : 1 <= u /\ u < n => HandledBySome(u)

\* Whatever a client or the server regards as done was handled.
PassedIsHandled ==
    /\ HandledBelow(confirmed)
    /\ \A c \in Clients : HandledBelow(client[c].offset) /\ HandledBelow(client[c].next)

-----------------------------------------------------------------------------
\* Every state of TelegramPoll is well typed (the offset moves behind an
\* update of client.go's answer, never beyond what users have sent).
THEOREM TelegramTypes == Spec => []TypeOK
<1>1. Init => TypeOK
  BY TelegramPollAssumption DEF Init, TypeOK, NoClient
<1>2. TypeOK /\ [Next]_vars => TypeOK'
  <2> SUFFICES ASSUME TypeOK, [Next]_vars PROVE TypeOK'
    OBVIOUS
  <2> USE TelegramPollAssumption DEF TypeOK
  <2>1. CASE UserSends
    <3>1. 0..(sent + 1) \subseteq 0..(sent' + 1) /\ 0..sent \subseteq 0..sent'
      BY <2>1 DEF UserSends
    <3>2. client' \in [Clients -> [pc : {"none", "poll", "answer", "handle", "ended"},
                                   offset : 0..(sent' + 1), next : Nat \ {0}, last : 0..sent']]
      <4>1. client \in [Clients -> [pc : {"none", "poll", "answer", "handle", "ended"},
                                    offset : 0..(sent' + 1), next : Nat \ {0}, last : 0..sent']]
        BY <3>1
      <4> QED BY <4>1, <2>1 DEF UserSends
    <3> QED BY <3>2, <2>1 DEF UserSends
  <2>2. CASE StartClient
    BY <2>2 DEF StartClient, NoClient, Clients
  <2>3. ASSUME NEW c \in Clients, ServerAnswers(c) PROVE TypeOK'
    BY <2>3 DEF ServerAnswers, Later
  <2>4. ASSUME NEW c \in Clients, ReceiveUpdates(c) PROVE TypeOK'
    BY <2>4 DEF ReceiveUpdates
  <2>5. ASSUME NEW c \in Clients, HandleUpdate(c) PROVE TypeOK'
    BY <2>5 DEF HandleUpdate
  <2>6. ASSUME NEW c \in Clients, PollAgain(c) PROVE TypeOK'
    BY <2>6 DEF PollAgain
  <2>7. ASSUME NEW c \in Clients, PollFails(c) PROVE TypeOK'
    BY <2>7 DEF PollFails
  <2>8. ASSUME NEW c \in Clients, ClientEnds(c) PROVE TypeOK'
    BY <2>8 DEF ClientEnds
  <2>9. CASE UNCHANGED vars
    BY <2>9 DEF vars
  <2> QED
    BY <2>1, <2>2, <2>3, <2>4, <2>5, <2>6, <2>7, <2>8, <2>9 DEF Next, ClientStep
<1> QED
  BY <1>1, <1>2, PTL DEF Spec

-----------------------------------------------------------------------------
LEMMA InitHandled == Init => PassedIsHandled
  BY DEF Init, NoClient, PassedIsHandled, HandledBelow, TypeOK

LEMMA NextHandled == TypeOK /\ TypeOK' /\ PassedIsHandled /\ [Next]_vars => PassedIsHandled'
<1> SUFFICES ASSUME TypeOK, TypeOK', PassedIsHandled, [Next]_vars PROVE PassedIsHandled'
  OBVIOUS
<1> HandledBelow(0) /\ HandledBelow(1)
  BY DEF HandledBelow
<1>1. CASE UserSends
  BY <1>1 DEF UserSends, PassedIsHandled, HandledBelow, HandledBySome
<1>2. CASE StartClient
  BY <1>2 DEF StartClient, NoClient, TypeOK, PassedIsHandled, HandledBelow, HandledBySome
<1>3. ASSUME NEW c \in Clients, ServerAnswers(c) PROVE PassedIsHandled'
  <2> DEFINE from == Later(confirmed, client[c].offset)
  <2>1. HandledBelow(from) /\ HandledBelow(Later(from, 1))
    BY DEF Later, PassedIsHandled
  <2>2. UNCHANGED handled /\ confirmed' = from
    BY <1>3 DEF ServerAnswers
  <2>3. client'[c].offset = client[c].offset /\ client'[c].next = Later(from, 1)
    BY <1>3 DEF ServerAnswers, TypeOK
  <2>4. \A d \in Clients \ {c} : client'[d] = client[d]
    BY <1>3 DEF ServerAnswers, TypeOK
  <2> QED
    BY <2>1, <2>2, <2>3, <2>4 DEF PassedIsHandled, HandledBelow, HandledBySome
<1>4. ASSUME NEW c \in Clients, ReceiveUpdates(c) PROVE PassedIsHandled'
  BY <1>4 DEF ReceiveUpdates, TypeOK, PassedIsHandled, HandledBelow, HandledBySome
<1>5. ASSUME NEW c \in Clients, HandleUpdate(c) PROVE PassedIsHandled'
  <2>0. PICK u0 \in Nat : u0 = client[c].next
    BY DEF TypeOK
  <2>1. \A u : HandledBySome(u) => HandledBySome(u)'
    BY <1>5 DEF HandleUpdate, HandledBySome, TypeOK
  <2>2. HandledBySome(u0)'
    BY <1>5, <2>0 DEF HandleUpdate, HandledBySome, TypeOK
  <2>3. HandledBelow(u0) /\ HandledBelow(client[c].offset)
    BY <2>0 DEF TypeOK, PassedIsHandled
  <2>4. HandledBelow(u0 + 1)'
    <3> SUFFICES ASSUME NEW u \in Nat, 1 <= u, u < u0 + 1 PROVE HandledBySome(u)'
      BY DEF HandledBelow
    <3> QED
      BY <2>1, <2>2, <2>3 DEF HandledBelow
  <2>5. client'[c].next = u0 + 1 /\ client'[c].offset \in {u0 + 1, client[c].offset}
    BY <1>5, <2>0 DEF HandleUpdate, TypeOK
  <2>6. \A d \in Clients \ {c} : client'[d] = client[d]
    BY <1>5 DEF HandleUpdate, TypeOK
  <2>7. confirmed' = confirmed
    BY <1>5 DEF HandleUpdate
  <2> QED
    BY <2>1, <2>3, <2>4, <2>5, <2>6, <2>7 DEF PassedIsHandled, HandledBelow
<1>6. ASSUME NEW c \in Clients, PollAgain(c) PROVE PassedIsHandled'
  BY <1>6 DEF PollAgain, TypeOK, PassedIsHandled, HandledBelow, HandledBySome
<1>7. ASSUME NEW c \in Clients, PollFails(c) PROVE PassedIsHandled'
  BY <1>7 DEF PollFails, TypeOK, PassedIsHandled, HandledBelow, HandledBySome
<1>8. ASSUME NEW c \in Clients, ClientEnds(c) PROVE PassedIsHandled'
  BY <1>8 DEF ClientEnds, TypeOK, PassedIsHandled, HandledBelow, HandledBySome
<1>9. CASE UNCHANGED vars
  BY <1>9 DEF vars, PassedIsHandled, HandledBelow, HandledBySome
<1> QED
  BY <1>1, <1>2, <1>3, <1>4, <1>5, <1>6, <1>7, <1>8, <1>9 DEF Next, ClientStep

\* The long poll of internal/telegram/client.go loses no command: what the
\* server has forgotten was handled, however polls fail, clients are replaced
\* in the middle of a batch or the process is killed.
THEOREM NothingLost == Spec => []NoUpdateLost
<1>1. TypeOK /\ PassedIsHandled => NoUpdateLost
  BY DEF TypeOK, PassedIsHandled, HandledBelow, NoUpdateLost
<1> QED
  BY <1>1, TelegramTypes, InitHandled, NextHandled, PTL DEF Spec

-----------------------------------------------------------------------------
\* What a client has handled is behind its offset, at which or after which
\* its batches begin; a client that has not started has handled nothing.
HandledIsPassed ==
    \A c \in Clients :
        /\ \A u \in handled[c] : u < client[c].offset
        /\ client[c].pc \in {"answer", "handle"} => client[c].next >= client[c].offset
        /\ c > started => handled[c] = {} /\ client[c].pc = "none"

LEMMA InitPassed == Init => HandledIsPassed
  BY DEF Init, NoClient, Clients, HandledIsPassed

LEMMA NextPassed == TypeOK /\ TypeOK' /\ HandledIsPassed /\ [Next]_vars => HandledIsPassed'
<1> SUFFICES ASSUME TypeOK, TypeOK', HandledIsPassed, [Next]_vars PROVE HandledIsPassed'
  OBVIOUS
<1> USE DEF TypeOK, HandledIsPassed
<1>1. CASE UserSends
  BY <1>1 DEF UserSends
<1>2. CASE StartClient
  <2>1. started + 1 > started /\ started + 1 \in Clients
    BY <1>2, TelegramPollAssumption DEF StartClient, Clients
  <2>2. handled'[started + 1] = {}
    BY <1>2, <2>1 DEF StartClient
  <2>3. client'[started + 1].pc = "poll"
    BY <1>2, <2>1 DEF StartClient, NoClient
  <2>4. \A c \in Clients \ {started + 1} : client'[c] = client[c] /\ handled'[c] = handled[c]
    BY <1>2 DEF StartClient
  <2>5. \A c \in Clients : c > started' => c > started /\ c # started + 1
    BY <1>2 DEF StartClient, Clients
  <2> QED
    BY <2>2, <2>3, <2>4, <2>5
<1>3. ASSUME NEW c \in Clients, ServerAnswers(c) PROVE HandledIsPassed'
  BY <1>3 DEF ServerAnswers, Later
<1>4. ASSUME NEW c \in Clients, ReceiveUpdates(c) PROVE HandledIsPassed'
  BY <1>4 DEF ReceiveUpdates
<1>5. ASSUME NEW c \in Clients, HandleUpdate(c) PROVE HandledIsPassed'
  BY <1>5 DEF HandleUpdate
<1>6. ASSUME NEW c \in Clients, PollAgain(c) PROVE HandledIsPassed'
  BY <1>6 DEF PollAgain
<1>7. ASSUME NEW c \in Clients, PollFails(c) PROVE HandledIsPassed'
  BY <1>7 DEF PollFails
<1>8. ASSUME NEW c \in Clients, ClientEnds(c) PROVE HandledIsPassed'
  BY <1>8 DEF ClientEnds
<1>9. CASE UNCHANGED vars
  BY <1>9 DEF vars
<1> QED
  BY <1>1, <1>2, <1>3, <1>4, <1>5, <1>6, <1>7, <1>8, <1>9 DEF Next, ClientStep

\* No client of internal/telegram/client.go handles an update twice: its
\* offset, which only grows, passes each one before the handler is called.
THEOREM HandledOnce == Spec => []OncePerClient
<1>1. TypeOK /\ HandledIsPassed => OncePerClient
  BY DEF TypeOK, HandledIsPassed, OncePerClient
<1> QED
  BY <1>1, TelegramTypes, InitPassed, NextPassed, PTL DEF Spec

-----------------------------------------------------------------------------
(* TelegramPoll implements Mailbox                                          *)

LEMMA BoxInit == Init => Box!Init
  BY DEF Init, Box!Init

\* One turn of the loop hands over one update: it is the first that the client
\* has not passed, and all before it were handled.
LEMMA BoxHandles ==
    ASSUME TypeOK, PassedIsHandled, HandledIsPassed, NEW c \in Clients, HandleUpdate(c)
    PROVE  Box!Next
<1>0. PICK u \in Nat : u = client[c].next /\ u > 0
  BY DEF TypeOK
<1>1. u \in 1..sent
  BY <1>0 DEF HandleUpdate, TypeOK
<1>2. \A v \in handled[c] : v < u
  <2>1. client[c].offset \in Nat /\ client[c].offset <= u
    BY <1>0 DEF HandleUpdate, HandledIsPassed, TypeOK
  <2>2. \A v \in handled[c] : v \in Nat /\ v < client[c].offset
    BY DEF HandledIsPassed, TypeOK
  <2> QED  BY <2>1, <2>2
<1>3. Box!NoneBefore(u)
  BY <1>0 DEF PassedIsHandled, HandledBelow, HandledBySome, Box!NoneBefore
<1>4. handled' = [handled EXCEPT ![c] = @ \cup {u}] /\ UNCHANGED <<sent, confirmed>>
  BY <1>0 DEF HandleUpdate
<1>5. Box!Deliver(c, u)
  BY <1>2, <1>3, <1>4 DEF Box!Deliver
<1> QED  BY <1>1, <1>5 DEF Box!Next

\* A poll makes the server forget what every earlier step has handled, or it
\* comes from an old client and changes nothing.
LEMMA BoxForgets ==
    ASSUME TypeOK, TypeOK', PassedIsHandled, NEW c \in Clients, ServerAnswers(c)
    PROVE  Box!Next \/ UNCHANGED Box!vars
<1>1. /\ client[c].offset \in 0..(sent + 1) /\ confirmed \in Nat /\ sent \in Nat
      /\ UNCHANGED <<sent, handled>>
  BY DEF TypeOK, ServerAnswers
<1>2. confirmed' = IF confirmed > client[c].offset THEN confirmed ELSE client[c].offset
  BY DEF ServerAnswers, Later
<1>3. CASE client[c].offset > confirmed
  <2>1. confirmed' = client[c].offset /\ confirmed' \in 1..(sent + 1)
    BY <1>1, <1>2, <1>3
  <2>2. Box!NoneBefore(confirmed')
    BY <1>1, <2>1 DEF PassedIsHandled, HandledBelow, HandledBySome, Box!NoneBefore
  <2>3. Box!Forget(confirmed')
    BY <1>1, <1>3, <2>1, <2>2 DEF Box!Forget
  <2> QED  BY <2>1, <2>3 DEF Box!Next
<1>4. CASE ~(client[c].offset > confirmed)
  BY <1>1, <1>2, <1>4 DEF Box!vars
<1> QED  BY <1>3, <1>4

LEMMA BoxStep ==
    ASSUME TypeOK, TypeOK', PassedIsHandled, HandledIsPassed, [Next]_vars
    PROVE  Box!Next \/ UNCHANGED Box!vars
<1>1. CASE UserSends
  <2>1. Box!Arrive
    BY <1>1 DEF UserSends, Box!Arrive
  <2> QED  BY <2>1 DEF Box!Next
<1>2. ASSUME NEW c \in Clients, ServerAnswers(c) PROVE Box!Next \/ UNCHANGED Box!vars
  BY <1>2, BoxForgets
<1>3. ASSUME NEW c \in Clients, HandleUpdate(c) PROVE Box!Next
  BY <1>3, BoxHandles
<1>4. CASE StartClient
  BY <1>4 DEF StartClient, Box!vars
<1>5. ASSUME NEW c \in Clients, ReceiveUpdates(c) \/ PollAgain(c) \/ PollFails(c) \/ ClientEnds(c)
      PROVE  UNCHANGED Box!vars
  BY <1>5 DEF ReceiveUpdates, PollAgain, PollFails, ClientEnds, Box!vars
<1>6. CASE UNCHANGED vars
  BY <1>6 DEF vars, Box!vars
<1> QED
  BY <1>1, <1>2, <1>3, <1>4, <1>5, <1>6 DEF Next, ClientStep

\* The loop of internal/telegram/client.go implements the mailbox: commands are
\* handled in the order in which they were sent and without a gap, however
\* many clients follow or overlap each other and whichever polls fail.
THEOREM MailboxImplemented == Spec => ImplementsMailbox
<1>1. TypeOK /\ TypeOK' /\ PassedIsHandled /\ HandledIsPassed /\ [Next]_vars => [Box!Next]_Box!vars
  BY BoxStep
<1> QED
  BY <1>1, BoxInit, TelegramTypes, InitHandled, NextHandled, InitPassed, NextPassed, PTL
  DEF Spec, ImplementsMailbox, Box!Spec

-----------------------------------------------------------------------------
(* The memory of rememberEvent                                             *)

SInv == MemoryConsistent /\ RemembersLatest /\ NoDuplicateInWindow

\* Within the memory no event is there twice.
LEMMA SeenDistinct ==
    ASSUME SInv
    PROVE  \A i, j \in 1..Len(seenOrder) : i < j => seenOrder[i] # seenOrder[j]
<1> SUFFICES ASSUME NEW i \in 1..Len(seenOrder), NEW j \in 1..Len(seenOrder), i < j,
                    seenOrder[i] = seenOrder[j]
             PROVE  FALSE
  OBVIOUS
<1> DEFINE n == Len(log) - Len(seenOrder)
<1>1. Len(log) \in Nat /\ Len(seenOrder) \in Nat /\ n \in Nat
  BY DEF SInv, MemoryConsistent, RemembersLatest
<1>2. seenOrder[i] = log[n + i] /\ seenOrder[j] = log[n + j]
  BY DEF SInv, RemembersLatest
<1>3. n + i \in 1..Len(log) /\ n + j \in 1..Len(log) /\ n + i < n + j
  BY <1>1
<1>4. (n + j) - (n + i) > MaxRemembered
  BY <1>2, <1>3 DEF SInv, NoDuplicateInWindow
<1> QED
  BY <1>1, <1>4, SeenEventsAssumption DEF SInv, MemoryConsistent

LEMMA SeenInit == NothingSeen => SInv
  BY SeenEventsAssumption
  DEF NothingSeen, SInv, MemoryConsistent, RemembersLatest, NoDuplicateInWindow

LEMMA SeenNew ==
    ASSUME SInv, NEW e \in Events, NewEvent(e)
    PROVE  SInv'
<1> DEFINE order == Append(seenOrder, e)
           n == Len(log) - Len(seenOrder)
<1> USE SeenEventsAssumption
<1>1. /\ seenOrder \in Seq(Events) /\ log \in Seq(Events)
      /\ Len(seenOrder) \in Nat /\ Len(log) \in Nat /\ Len(seenOrder) <= MaxRemembered
      /\ n \in Nat /\ (n > 0 => Len(seenOrder) = MaxRemembered)
      /\ \A i \in 1..Len(seenOrder) : seenOrder[i] = log[n + i]
  BY DEF SInv, MemoryConsistent, RemembersLatest
<1>2. e \notin {seenOrder[i] : i \in 1..Len(seenOrder)} /\ log' = Append(log, e)
  BY DEF NewEvent, SInv, MemoryConsistent
<1>3. /\ order \in Seq(Events) /\ Len(order) = Len(seenOrder) + 1
      /\ \A i \in 1..Len(seenOrder) : order[i] = seenOrder[i]
      /\ order[Len(order)] = e
  BY <1>1
<1>4. /\ log' \in Seq(Events) /\ Len(log') = Len(log) + 1
      /\ \A i \in 1..Len(log) : log'[i] = log[i]
      /\ log'[Len(log')] = e
  BY <1>1, <1>2
<1>5. NoDuplicateInWindow'
  <2> SUFFICES ASSUME NEW i \in 1..Len(log'), NEW j \in 1..Len(log'), i < j,
                      log'[i] = log'[j]
               PROVE  j - i > MaxRemembered
    BY DEF NoDuplicateInWindow
  <2>1. CASE j <= Len(log)
    <3>1. i \in 1..Len(log) /\ j \in 1..Len(log)
      BY <1>1, <1>4, <2>1
    <3>2. log[i] = log[j]
      BY <1>4, <3>1
    <3> QED  BY <3>1, <3>2 DEF SInv, NoDuplicateInWindow
  <2>2. CASE j = Len(log')
    <3>1. i \in 1..Len(log) /\ log[i] = e
      BY <1>1, <1>4, <2>2
    <3>2. i <= n
      <4> SUFFICES ASSUME i > n PROVE FALSE
        BY <1>1, <3>1
      <4>1. i - n \in 1..Len(seenOrder) /\ n + (i - n) = i
        BY <1>1, <3>1
      <4>2. seenOrder[i - n] = e
        BY <1>1, <3>1, <4>1
      <4> QED  BY <1>2, <4>1, <4>2
    <3> QED  BY <1>1, <1>4, <2>2, <3>1, <3>2
  <2> QED  BY <1>1, <1>4, <2>1, <2>2
<1>6. CASE Len(order) > MaxRemembered
  <2>1. /\ seenOrder' = Tail(order) /\ seen' = (seen \cup {e}) \ {Head(order)}
    BY <1>6 DEF NewEvent, RememberEvent
  <2>2. /\ Len(seenOrder) = MaxRemembered /\ Len(order) = MaxRemembered + 1
        /\ Head(order) = seenOrder[1] /\ Head(order) \in Events
    BY <1>1, <1>3, <1>6
  <2>3. /\ seenOrder' \in Seq(Events) /\ Len(seenOrder') = MaxRemembered
        /\ \A i \in 1..MaxRemembered : seenOrder'[i] = order[i + 1]
    BY <1>3, <2>1, <2>2
  <2>4. /\ \A i \in 1..(MaxRemembered - 1) : seenOrder'[i] = seenOrder[i + 1]
        /\ seenOrder'[MaxRemembered] = e
    BY <1>1, <1>3, <2>2, <2>3
  <2>5. seen = {seenOrder[i] : i \in 1..MaxRemembered}
    BY <2>2 DEF SInv, MemoryConsistent
  <2>6. e # Head(order) /\ \A i \in 1..(MaxRemembered - 1) : seenOrder[i + 1] # Head(order)
    BY <1>1, <1>2, <2>2, SeenDistinct
  <2>7. seen' = {seenOrder'[i] : i \in 1..MaxRemembered}
    <3>1. ASSUME NEW x \in seen' PROVE \E i \in 1..MaxRemembered : x = seenOrder'[i]
      <4>1. CASE x = e
        BY <2>4, <4>1
      <4>2. CASE x # e
        <5>1. PICK k \in 1..MaxRemembered : x = seenOrder[k]
          BY <2>1, <2>5, <3>1, <4>2
        <5>2. k # 1
          BY <2>1, <2>2, <3>1, <5>1
        <5>3. k - 1 \in 1..(MaxRemembered - 1) /\ (k - 1) + 1 = k
          BY <5>2
        <5>4. seenOrder'[k - 1] = x /\ k - 1 \in 1..MaxRemembered
          BY <2>4, <5>1, <5>3
        <5> QED  BY <5>4
      <4> QED  BY <4>1, <4>2
    <3>2. ASSUME NEW i \in 1..MaxRemembered PROVE seenOrder'[i] \in seen'
      <4>1. CASE i = MaxRemembered
        BY <2>1, <2>4, <2>6, <4>1, SeenEventsAssumption
      <4>2. CASE i # MaxRemembered
        <5>1. i \in 1..(MaxRemembered - 1) /\ i + 1 \in 1..MaxRemembered
          BY <4>2
        <5>2. seenOrder[i + 1] \in seen
          BY <2>5, <5>1
        <5> QED  BY <2>1, <2>4, <2>6, <5>1, <5>2
      <4> QED  BY <4>1, <4>2
    <3> QED  BY <3>1, <3>2
  <2>8. MemoryConsistent'
    BY <1>4, <2>3, <2>7 DEF MemoryConsistent
  <2>9. RemembersLatest'
    <3>1. Len(log') - Len(seenOrder') = n + 1
      BY <1>1, <1>4, <2>2, <2>3
    <3>2. ASSUME NEW i \in 1..MaxRemembered PROVE seenOrder'[i] = log'[(n + 1) + i]
      <4>1. CASE i = MaxRemembered
        <5>1. (n + 1) + i = Len(log')
          BY <1>1, <1>4, <2>2, <4>1
        <5> QED  BY <1>4, <2>4, <4>1, <5>1
      <4>2. CASE i # MaxRemembered
        <5>1. /\ i \in 1..(MaxRemembered - 1) /\ i + 1 \in 1..Len(seenOrder)
              /\ n + (i + 1) = (n + 1) + i /\ (n + 1) + i \in 1..Len(log)
          BY <1>1, <2>2, <4>2
        <5>2. seenOrder[i + 1] = log[(n + 1) + i]
          BY <1>1, <5>1
        <5> QED  BY <1>4, <2>4, <5>1, <5>2
      <4> QED  BY <4>1, <4>2
    <3> QED  BY <1>1, <2>3, <3>1, <3>2 DEF RemembersLatest
  <2> QED  BY <1>5, <2>8, <2>9 DEF SInv
<1>7. CASE ~(Len(order) > MaxRemembered)
  <2>1. seenOrder' = order /\ seen' = seen \cup {e}
    BY <1>7 DEF NewEvent, RememberEvent
  <2>2. n = 0 /\ Len(seenOrder) = Len(log)
    BY <1>1, <1>3, <1>7
  <2>3. seen' = {seenOrder'[i] : i \in 1..Len(seenOrder')}
    <3>1. seen = {seenOrder[i] : i \in 1..Len(seenOrder)}
      BY DEF SInv, MemoryConsistent
    <3>2. 1..Len(order) = 1..Len(seenOrder) \cup {Len(order)}
      BY <1>1, <1>3
    <3> QED  BY <1>3, <2>1, <3>1, <3>2
  <2>4. MemoryConsistent'
    BY <1>1, <1>3, <1>4, <1>7, <2>1, <2>3 DEF MemoryConsistent
  <2>5. RemembersLatest'
    <3>1. Len(log') - Len(seenOrder') = 0
      BY <1>1, <1>3, <1>4, <2>1, <2>2
    <3>2. \A i \in 1..Len(seenOrder') : seenOrder'[i] = log'[0 + i]
      BY <1>1, <1>3, <1>4, <2>1, <2>2
    <3> QED  BY <3>1, <3>2 DEF RemembersLatest
  <2> QED  BY <1>5, <2>4, <2>5 DEF SInv
<1> QED  BY <1>6, <1>7

LEMMA SeenNext == SInv /\ [Receive]_seenVars => SInv'
<1> SUFFICES ASSUME SInv, [Receive]_seenVars PROVE SInv'
  OBVIOUS
<1>1. ASSUME NEW e \in Events, NewEvent(e) PROVE SInv'
  BY <1>1, SeenNew
<1>2. CASE UNCHANGED seenVars
  BY <1>2 DEF seenVars, SInv, MemoryConsistent, RemembersLatest, NoDuplicateInWindow
<1> QED  BY <1>1, <1>2 DEF Receive, KnownEvent

\* rememberEvent of internal/hub/client.go catches every event that comes
\* again before MaxRemembered others were accepted, for any size of the memory.
THEOREM DuplicatesCaught == SeenSpec => []NoDuplicateInWindow
<1>1. SInv => NoDuplicateInWindow
  BY DEF SInv
<1> QED  BY <1>1, SeenInit, SeenNext, PTL DEF SeenSpec

-----------------------------------------------------------------------------
\* The two adapters do not disturb each other: side by side they keep what
\* each promises alone, the order of the commands included.
THEOREM InboundIsSafe ==
    InboundSpec => /\ [](NoUpdateLost /\ OncePerClient /\ NoDuplicateInWindow)
                   /\ ImplementsMailbox
<1>1. InboundInit => Init /\ NothingSeen
  BY DEF InboundInit
<1>2. [InboundNext]_<<vars, seenVars>> => [Next]_vars /\ [Receive]_seenVars
  BY DEF InboundNext
<1> QED
  BY <1>1, <1>2, NothingLost, HandledOnce, DuplicatesCaught, MailboxImplemented, PTL DEF InboundSpec, Spec, SeenSpec
=============================================================================
