----------------------------- MODULE SeenEvents -----------------------------
(***************************************************************************)
(* The memory of an OpenILink client (internal/hub/client.go): readLoop    *)
(* passes an event on only if it does not remember its ID.  The memory has *)
(* a fixed size and forgets the oldest ID first; it survives reconnects,   *)
(* after which the hub may deliver events again.                           *)
(***************************************************************************)
EXTENDS Naturals, Sequences

CONSTANTS
    Events,         \* event IDs
    MaxRemembered,  \* maxRememberedEvent
    MaxLog          \* bound: new events accepted in a behaviour

ASSUME SeenEventsAssumption ==
    /\ MaxRemembered \in Nat \ {0}
    /\ MaxLog \in Nat

VARIABLES
    seen,       \* c.seen
    seenOrder,  \* c.seenOrder
    log         \* every ID accepted as new, in order

seenVars == <<seen, seenOrder, log>>

NothingSeen == seen = {} /\ seenOrder = <<>> /\ log = <<>>

\* Fault: one ID too few is kept
RememberOneLess(e) ==
    LET order == Append(seenOrder, e) IN
    /\ seenOrder' = IF Len(order) >= MaxRemembered THEN Tail(order) ELSE order
    /\ seen' = IF Len(order) >= MaxRemembered THEN (seen \cup {e}) \ {Head(order)}
                                              ELSE seen \cup {e}

\* rememberEvent, when the ID is new
RememberEvent(e) ==
    LET order == Append(seenOrder, e) IN
    /\ seenOrder' = IF Len(order) > MaxRemembered THEN Tail(order) ELSE order
    /\ seen' = IF Len(order) > MaxRemembered THEN (seen \cup {e}) \ {Head(order)}
                                             ELSE seen \cup {e}

\* readLoop receives an event that is new to it: decodeIncoming then decides,
\* from the event alone, whether the handler sees it.  An event without an ID
\* passes unremembered and is left out here.
NewEvent(e) ==
    /\ Len(log) < MaxLog
    /\ e \notin seen
    /\ RememberEvent(e)
    /\ log' = Append(log, e)

\* It receives an event again: continue
KnownEvent(e) == e \in seen /\ UNCHANGED seenVars

Receive == \E e \in Events : NewEvent(e) \/ KnownEvent(e)

SeenSpec == NothingSeen /\ [][Receive]_seenVars

-----------------------------------------------------------------------------
\* The memory is within its limit, and the set that is searched holds the
\* same IDs as the list that says which to forget.
MemoryConsistent ==
    /\ seenOrder \in Seq(Events) /\ log \in Seq(Events)
    /\ Len(seenOrder) <= MaxRemembered
    /\ seen = {seenOrder[i] : i \in 1..Len(seenOrder)}

\* An event is accepted twice only if at least MaxRemembered others were
\* accepted in between: no duplicate within that window is handled.
NoDuplicateInWindow ==
    \A i, j \in 1..Len(log) : i < j /\ log[i] = log[j] => j - i > MaxRemembered

\* The memory is exactly the last MaxRemembered events accepted.
RemembersLatest ==
    LET n == Len(log) - Len(seenOrder) IN
    /\ n \in Nat /\ (n > 0 => Len(seenOrder) = MaxRemembered)
    /\ \A i \in 1..Len(seenOrder) : seenOrder[i] = log[n + i]
=============================================================================
