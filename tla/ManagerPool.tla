----------------------------- MODULE ManagerPool -----------------------------
(* The manager as an implementation of ProcessPool.                        *)
EXTENDS Manager

\* The process of a goroutine: it works with the copy of the definition that
\* the goroutine made, maybe long before.
Process(t) ==
    IF pc[t] \in RunningPcs THEN [key |-> KeyOf(t), def |-> work[t].def]
                            ELSE [key |-> NoKey, def |-> 0]

Pool == INSTANCE ProcessPool
            WITH Clients <- Threads, slots <- SlotHolders, limit <- maxParallel,
                 running <- [t \in Threads |-> Process(t)]

\* Whatever the modes, run counters and signals do, each critical section of
\* the manager is a step of the pool or changes nothing of it: no slot above
\* the limit, no second process on a target, no old definition, and no edit of
\* a target in use.
ImplementsPool == Pool!Spec
=============================================================================
