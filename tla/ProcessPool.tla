----------------------------- MODULE ProcessPool -----------------------------
(***************************************************************************)
(* What the job manager promises about Codex processes, without modes,     *)
(* run counters, channels or locks: whoever runs a process holds one of a  *)
(* limited number of slots, has the target to itself, and works with the   *)
(* definition that is configured, which stays as it is until the process   *)
(* has ended.                                                              *)
(***************************************************************************)
EXTENDS Naturals, FiniteSets

CONSTANTS
    Keys,       \* targets
    NoKey,      \* no target
    Clients,    \* those who run processes
    Defs,       \* definitions of a target; 0 is none
    Limits      \* numbers of slots

VARIABLES
    slots,      \* clients that hold a slot
    running,    \* the target and the definition each client's process works with
    targets,    \* the definitions that are configured
    limit       \* the number of slots

vars == <<slots, running, targets, limit>>

NoRun == [key |-> NoKey, def |-> 0]

InUse(k) == \E c \in Clients : running[c].key = k

Init ==
    /\ slots = {} /\ running = [c \in Clients |-> NoRun]
    /\ targets \in [Keys -> Defs \cup {0}] /\ limit \in Limits

\* A slot is free, also after the limit was lowered.
Take(c) ==
    /\ c \notin slots /\ Cardinality(slots) < limit
    /\ slots' = slots \cup {c}
    /\ UNCHANGED <<running, targets, limit>>

Give(c) ==
    /\ c \in slots /\ running[c] = NoRun
    /\ slots' = slots \ {c}
    /\ UNCHANGED <<running, targets, limit>>

Begin(c, k) ==
    /\ c \in slots /\ running[c] = NoRun
    /\ targets[k] # 0 /\ ~InUse(k)
    /\ running' = [running EXCEPT ![c] = [key |-> k, def |-> targets[k]]]
    /\ UNCHANGED <<slots, targets, limit>>

\* The process ends and the slot is free.
End(c) ==
    /\ running[c] # NoRun
    /\ running' = [running EXCEPT ![c] = NoRun]
    /\ slots' = slots \ {c}
    /\ UNCHANGED <<targets, limit>>

\* Targets that are not in use are created, changed, renamed and deleted.
Configure ==
    /\ targets' \in [Keys -> Defs \cup {0}]
    /\ \A k \in Keys : InUse(k) => targets'[k] = targets[k]
    /\ UNCHANGED <<slots, running, limit>>

\* Nobody is interrupted.
SetLimit ==
    /\ limit' \in Limits
    /\ UNCHANGED <<slots, running, targets>>

Next ==
    \/ \E c \in Clients : Take(c) \/ Give(c) \/ End(c) \/ \E k \in Keys : Begin(c, k)
    \/ Configure \/ SetLimit

Spec == Init /\ [][Next]_vars
=============================================================================
