----------------------------- MODULE AdhocProofs -----------------------------
(***************************************************************************)
(* Proofs about AdhocDialog: for every set of targets and of calls, what   *)
(* the dialog shows is the call that is in flight.                         *)
(*                                                                         *)
(* CallIsShown and RunningIsCall are inductive once it is known that the   *)
(* controller is the one of a call in flight (Controlled): opening and     *)
(* closing the dialog then leave no call behind.                           *)
(***************************************************************************)
EXTENDS AdhocDialog, TLAPS

\* The dialog's flags and its controller agree with the calls in flight.
Controlled ==
    /\ controller # None => controller \in Pending
    /\ busy => controller # None /\ result = None /\ error = "none"
    /\ \A c \in Pending : target # None /\ target = of[c] /\ busy /\ controller = c

\* A result is one of the target the dialog was last opened for.
Own == target # None /\ result \in Targets => result = target

IInv == TypeOK /\ Controlled /\ Own

LEMMA InvInit == Init => IInv
BY AdhocAssumption DEF Init, IInv, TypeOK, Controlled, Own, Pending

LEMMA InvSettle ==
    ASSUME IInv, NEW c \in Pending, NEW res \in Targets \cup {None, "empty"},
           NEW err \in {"none", "aborted", "refused", "failed"},
           res \in Targets => res = of[c],
           Settle(c, res, err), target' = target \/ target' = None,
           UNCHANGED <<mounted, of, server, manager>>, prompt' \in BOOLEAN
    PROVE  IInv'
<1>1. TypeOK'
  BY AdhocAssumption DEF IInv, TypeOK, Settle, Pending, manager
<1>2. Pending' = {}
  BY DEF IInv, TypeOK, Settle, Pending, Controlled
<1>3. Controlled'
  BY <1>2, AdhocAssumption DEF IInv, TypeOK, Settle, Controlled
<1>4. Own'
  BY AdhocAssumption DEF IInv, TypeOK, Settle, Controlled, Own
<1> QED  BY <1>1, <1>3, <1>4 DEF IInv

LEMMA AfterAbortType ==
    ASSUME NEW c \in Calls
    PROVE  /\ AfterAbort(c)[1] \in {None, "empty"}
           /\ AfterAbort(c)[2] \in {"none", "aborted", "refused"}
BY DEF AfterAbort

LEMMA InvAbortCurrent ==
    ASSUME IInv, AbortCurrent, target' = target \/ target' = None,
           UNCHANGED <<mounted, prompt, of, server, manager>>
    PROVE  IInv'
<1>1. CASE controller # None
  <2>1. controller \in Pending /\ controller \in Calls
    BY <1>1 DEF IInv, Controlled, Pending
  <2>2. AfterAbort(controller)[1] \notin Targets
    BY <2>1, AfterAbortType, AdhocAssumption
  <2> QED
    BY <1>1, <2>1, <2>2, AfterAbortType, InvSettle DEF AbortCurrent, IInv, TypeOK
<1>2. CASE controller = None
  <2>1. Pending = {}
    BY <1>2, AdhocAssumption DEF IInv, Controlled, TypeOK, Pending
  <2>2. UNCHANGED <<result, error, busy, controller, call>>
    BY <1>2 DEF AbortCurrent
  <2> QED
    BY <2>1, <2>2 DEF IInv, TypeOK, Controlled, Own, Pending, manager
<1> QED  BY <1>1, <1>2

\* The steps of the server change neither the dialog nor the calls.
LEMMA InvServer ==
    ASSUME IInv, UNCHANGED <<mounted, dialog, call>>, TypeOK',
           \A c \in Pending : of'[c] = of[c]
    PROVE  IInv'
BY DEF IInv, Controlled, Own, Pending, dialog

LEMMA InvNext == IInv /\ [Next]_vars => IInv'
<1> SUFFICES ASSUME IInv, [Next]_vars PROVE IInv'
  OBVIOUS
<1> USE AdhocAssumption
<1>1. ASSUME NEW t \in Targets, OpenDialog(t) PROVE IInv'
  <2>1. controller = None /\ Pending = {}
    BY <1>1 DEF OpenDialog, IInv, TypeOK, Controlled, Pending
  <2> QED
    BY <1>1, <2>1 DEF OpenDialog, IInv, TypeOK, Controlled, Own, Pending, manager
<1>2. CASE ChangeOpen
  BY <1>2, InvAbortCurrent DEF ChangeOpen
<1>3. CASE Abort
  BY <1>3, InvAbortCurrent DEF Abort
<1>4. CASE Unmount
  <2>1. Pending' = {}
    BY <1>4 DEF Unmount, IInv, TypeOK, Controlled, Pending
  <2> QED
    BY <1>4, <2>1 DEF Unmount, IInv, TypeOK, Controlled, Own, manager
<1>5. CASE Mount
  BY <1>5 DEF Mount, IInv, TypeOK, Controlled, Own, Pending, manager, dialog
<1>6. ASSUME NEW text \in BOOLEAN, TypePrompt(text) PROVE IInv'
  BY <1>6 DEF TypePrompt, IInv, TypeOK, Controlled, Own, Pending, manager
<1>7. ASSUME NEW c \in Calls, Submit(c) PROVE IInv'
  <2>1. target # None /\ ~busy
    BY <1>7 DEF Submit, Shown
  <2>2. Pending = {}
    BY <2>1 DEF IInv, Controlled
  <2>3. Pending' = {c}
    BY <1>7, <2>2 DEF Submit, Pending, IInv, TypeOK
  <2>4. TypeOK'
    BY <1>7 DEF Submit, IInv, TypeOK, manager
  <2> QED
    BY <1>7, <2>1, <2>3, <2>4 DEF Submit, IInv, TypeOK, Controlled, Own
<1>8. ASSUME NEW c \in Calls, Answer(c) PROVE IInv'
  BY <1>8 DEF Answer, IInv, TypeOK, Controlled, Own, Pending, manager, dialog
<1>9. ASSUME NEW c \in Calls, Body(c) PROVE IInv'
  <2>1. c \in Pending
    BY <1>9 DEF Body, Pending
  <2>2. of[c] \in Targets
    BY <2>1 DEF IInv, TypeOK, Controlled
  <2> QED
    BY <1>9, <2>1, <2>2, InvSettle DEF Body, IInv, TypeOK
<1>10. ASSUME NEW c \in Calls, Fails(c) PROVE IInv'
  <2>1. c \in Pending
    BY <1>10 DEF Fails
  <2> DEFINE res == AfterAbort(c)[1]
             err == IF AfterAbort(c)[2] = "aborted" THEN "failed" ELSE AfterAbort(c)[2]
  <2>2. res \in {None, "empty"} /\ err \in {"none", "aborted", "refused", "failed"}
    BY AfterAbortType
  <2>3. Settle(c, res, err) /\ UNCHANGED <<mounted, target, prompt, of, server, manager>>
    BY <1>10 DEF Fails
  <2> HIDE DEF res, err
  <2> QED
    BY <2>1, <2>2, <2>3, InvSettle DEF IInv, TypeOK
<1>11. ASSUME NEW c \in Calls, Forget(c) PROVE IInv'
  <2>1. TypeOK'
    BY <1>11 DEF Forget, Goto, IInv, TypeOK, dialog
  <2> QED
    BY <1>11, <2>1, InvServer DEF Forget, IInv, TypeOK, Pending
<1>12. ASSUME NEW c \in Calls, HandlerStep(c) PROVE IInv'
  <2>1. TypeOK'
    BY <1>12 DEF HandlerStep, Refuse, Reserve, StartProcess, Finish, Disconnect, Stop, Goto,
                 Handled, Reserved, IInv, TypeOK, dialog, manager
  <2>2. UNCHANGED <<mounted, dialog, call, of>>
    BY <1>12 DEF HandlerStep, Refuse, Reserve, StartProcess, Finish, Disconnect, Stop
  <2> QED
    BY <2>1, <2>2, InvServer
<1>13. ASSUME NEW t \in Targets, OtherWork(t) \/ EditTargets(t) PROVE IInv'
  <2>1. TypeOK'
    BY <1>13 DEF OtherWork, EditTargets, IInv, TypeOK, dialog
  <2>2. UNCHANGED <<mounted, dialog, call, of>>
    BY <1>13 DEF OtherWork, EditTargets
  <2> QED
    BY <2>1, <2>2, InvServer
<1>14. CASE UNCHANGED vars
  BY <1>14 DEF vars, IInv, TypeOK, Controlled, Own, Pending, manager, dialog
<1> QED
  BY <1>1, <1>2, <1>3, <1>4, <1>5, <1>6, <1>7, <1>8, <1>9, <1>10, <1>11, <1>12, <1>13, <1>14
  DEF Next

LEMMA Invariance == Spec => []IInv
BY InvInit, InvNext, PTL DEF Spec

\* For every number of targets and calls: a call in flight is the one of the
\* open dialog, which says so and can abort it; the dialog says that a request
\* runs only while one does, with no older result next to it; and a result is
\* of the target in the title, however often the dialog was opened and closed.
THEOREM DialogTellsTheTruth == Spec => []ShownIsTrue
<1>1. IInv => ShownIsTrue
  <2> SUFFICES ASSUME IInv PROVE ShownIsTrue
    OBVIOUS
  <2>1. CallIsShown
    BY DEF IInv, Controlled, CallIsShown, Shown
  <2>2. RunningIsCall
    BY DEF IInv, Controlled, RunningIsCall, Shown
  <2>3. ResultIsOwn
    BY AdhocAssumption DEF IInv, Own, ResultIsOwn, Shown
  <2> QED  BY <2>1, <2>2, <2>3 DEF ShownIsTrue
<1> QED  BY <1>1, Invariance, PTL

=============================================================================
