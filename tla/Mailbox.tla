------------------------------- MODULE Mailbox -------------------------------
(***************************************************************************)
(* What the Telegram adapter promises to the users, without polls, offsets *)
(* or batches: updates are handed over in the order in which they were     *)
(* sent, by one client after another or by several side by side.  None is  *)
(* passed over, each client hands an update over once, and only what was   *)
(* handed over is forgotten.                                               *)
(***************************************************************************)
EXTENDS Naturals

CONSTANT Clients    \* those who hand updates over

VARIABLES
    sent,       \* updates 1..sent were sent
    forgotten,  \* those below are no longer kept
    handled     \* the updates each client has handed over

vars == <<sent, forgotten, handled>>

\* Every update before u was handed over, by whichever client.
NoneBefore(u) == \A v \in 1..(u - 1) : \E c \in Clients : v \in handled[c]

Init == sent = 0 /\ forgotten = 0 /\ handled = [c \in Clients |-> {}]

Arrive == sent' = sent + 1 /\ UNCHANGED <<forgotten, handled>>

\* The next update for this client, with no gap before it.
Deliver(c, u) ==
    /\ \A v \in handled[c] : v < u
    /\ NoneBefore(u)
    /\ handled' = [handled EXCEPT ![c] = @ \cup {u}]
    /\ UNCHANGED <<sent, forgotten>>

Forget(n) ==
    /\ n > forgotten /\ NoneBefore(n)
    /\ forgotten' = n
    /\ UNCHANGED <<sent, handled>>

Next ==
    \/ Arrive
    \/ \E c \in Clients, u \in 1..sent : Deliver(c, u)
    \/ \E n \in 1..(sent + 1) : Forget(n)

Spec == Init /\ [][Next]_vars
=============================================================================
