----------------------------- MODULE AdhocDialog -----------------------------
(***************************************************************************)
(* The dialog for a manual request (components/adhoc-run-dialog.tsx), the  *)
(* call it makes (runAdhoc in lib/api.ts) and what the server does for it  *)
(* (runAdhoc in internal/web/server.go, Manager.RunAdhoc).                 *)
(*                                                                         *)
(* A call is an HTTP request that lasts as long as the Codex process it    *)
(* starts.  The user ends it by aborting the fetch: there is no message to *)
(* the server, which sees the connection go and cancels the process.       *)
(* Aborting settles the promise within the same browser event, so an abort *)
(* and the rest of submit are one step.                                    *)
(***************************************************************************)

CONSTANTS
    Targets,    \* targets of the list
    Calls,      \* calls that may exist at once, for the page and the server
    None        \* no target, no call, no result

ASSUME AdhocAssumption == /\ None \notin Targets \cup Calls \cup {"empty"}
                          /\ "empty" \notin Targets

VARIABLES
    mounted,    \* the dashboard, and with it the dialog, is on the page
    target,     \* adhocTarget: None when the dialog is closed
    prompt,     \* whether the prompt has text
    result,     \* result: the target it is of, or "empty" for an empty body
    error,      \* error
    busy,       \* busy
    controller, \* controller.current
    call,       \* per call: the fetch, "none" when it has settled
    of,         \* per call: the target it names
    server,     \* per call: where the handler is
    cancelled,  \* calls whose request context has ended
    work,       \* targets the manager has other work for
    configured  \* targets of the configuration

dialog  == <<target, prompt, result, error, busy, controller>>
manager == <<cancelled, work, configured>>
vars    == <<mounted, dialog, call, of, server, manager>>

Pending  == {c \in Calls : call[c] # "none"}
Handled  == {c \in Calls : server[c] \in {"arriving", "slot", "process"}}
\* Calls that hold their target's arbiter
Reserved == {c \in Calls : server[c] \in {"slot", "process"}}

Init ==
    /\ mounted = TRUE
    /\ target = None /\ prompt = FALSE /\ result = None /\ error = "none"
    /\ busy = FALSE /\ controller = None
    /\ call = [c \in Calls |-> "none"] /\ of = [c \in Calls |-> None]
    /\ server = [c \in Calls |-> "none"]
    /\ cancelled = {} /\ work = {} /\ configured = Targets

-----------------------------------------------------------------------------
(* The dialog                                                              *)

\* What the rest of submit makes of an abort.  The body of an answer that is
\* being read is taken for empty; otherwise the fetch throws.
AfterAbort(c) ==
    CASE call[c] = "reading" /\ server[c] = "result" -> <<"empty", "none">>
      [] call[c] = "reading" /\ server[c] # "result" -> <<None, "refused">>
      [] OTHER                                      -> <<None, "aborted">>

\* The call settles: the rest of submit, with setResult or setError.
Settle(c, res, err) ==
    /\ result' = res /\ error' = err /\ busy' = FALSE
    /\ controller' = IF controller = c THEN None ELSE controller
    /\ call' = [call EXCEPT ![c] = "none"]

\* controller.current?.abort()
AbortCurrent ==
    IF controller # None
      THEN Settle(controller, AfterAbort(controller)[1], AfterAbort(controller)[2])
      ELSE UNCHANGED <<result, error, busy, controller, call>>

\* The button of a target's row.  The dialog is modal: one is open at a time.
\* The effect on `open' clears the dialog and aborts what it finds.
OpenDialog(t) ==
    /\ mounted /\ target = None
    /\ target' = t /\ prompt' = FALSE
    /\ IF controller # None THEN AbortCurrent
       ELSE /\ result' = None /\ error' = "none" /\ busy' = FALSE
            /\ UNCHANGED <<controller, call>>
    /\ UNCHANGED <<mounted, of, server, manager>>

\* Fault: closing leaves the call alone
CloseQuietly ==
    /\ mounted /\ target # None
    /\ target' = None
    /\ UNCHANGED <<mounted, prompt, result, error, busy, controller, call, of, server, manager>>

\* changeOpen(false): the close button, Escape or a click outside
ChangeOpen ==
    /\ mounted /\ target # None
    /\ AbortCurrent /\ target' = None
    /\ UNCHANGED <<mounted, prompt, of, server, manager>>

\* What is on the screen and what can be used of it
Shown == [of     |-> target, running |-> target # None /\ busy,
          result |-> IF target # None THEN result ELSE None,
          error  |-> IF target # None THEN error ELSE "none",
          edit   |-> target # None /\ ~busy,
          abort  |-> target # None /\ busy,
          submit |-> target # None /\ ~busy /\ prompt]

TypePrompt(text) ==
    /\ Shown.edit
    /\ prompt' = text
    /\ UNCHANGED <<mounted, target, result, error, busy, controller, call, of, server, manager>>

\* submit, up to its await, and runAdhoc.  (The button needs a prompt, so the
\* test for an empty one is only there for a form without it.)
Submit(c) ==
    /\ Shown.submit /\ c \notin Pending /\ server[c] = "none"
    /\ controller' = c /\ busy' = TRUE /\ error' = "none" /\ result' = None
    /\ call' = [call EXCEPT ![c] = "fetching"]
    /\ of' = [of EXCEPT ![c] = target]
    /\ server' = [server EXCEPT ![c] = "arriving"]
    /\ UNCHANGED <<mounted, target, prompt, manager>>

\* The button that ends the request
Abort ==
    /\ Shown.abort
    /\ AbortCurrent
    /\ UNCHANGED <<mounted, target, prompt, of, server, manager>>

\* The answer's header arrives and request() reads the body.
Answer(c) ==
    /\ call[c] = "fetching" /\ server[c] \in {"result", "refused"}
    /\ call' = [call EXCEPT ![c] = "reading"]
    /\ UNCHANGED <<mounted, dialog, of, server, manager>>

\* The body is there: submit shows the result or throws what the server says.
Body(c) ==
    /\ call[c] = "reading"
    /\ IF server[c] = "result" THEN Settle(c, of[c], "none") ELSE Settle(c, None, "refused")
    /\ UNCHANGED <<mounted, target, prompt, of, server, manager>>

\* The connection fails.  In the body it is taken for an empty one.
Fails(c) ==
    /\ c \in Pending
    /\ LET after == AfterAbort(c)
       IN  Settle(c, after[1], IF after[2] = "aborted" THEN "failed" ELSE after[2])
    /\ UNCHANGED <<mounted, target, prompt, of, server, manager>>

\* The dashboard is left, by a logout or another view, or the page goes: the
\* last effect's cleanup aborts the call.
Unmount ==
    /\ mounted
    /\ mounted' = FALSE
    /\ target' = None /\ prompt' = FALSE /\ result' = None /\ error' = "none"
    /\ busy' = FALSE /\ controller' = None
    /\ call' = [c \in Calls |-> IF c = controller THEN "none" ELSE call[c]]
    /\ UNCHANGED <<of, server, manager>>

Mount ==
    /\ ~mounted
    /\ mounted' = TRUE
    /\ UNCHANGED <<dialog, call, of, server, manager>>

-----------------------------------------------------------------------------
(* The server                                                              *)

Goto(c, where) == server' = [server EXCEPT ![c] = where]

\* targetBusyLocked
TargetBusy(t) == t \in work \/ \E c \in Reserved : of[c] = t

\* RunAdhoc refuses: the target is gone or busy, or the manager shuts down.
Refuse(c) ==
    /\ server[c] = "arriving"
    /\ Goto(c, "refused")
    /\ UNCHANGED <<mounted, dialog, call, of, manager>>

\* RunAdhoc takes the target and waits for a slot.
Reserve(c) ==
    /\ server[c] = "arriving" /\ of[c] \in configured /\ ~TargetBusy(of[c])
    /\ Goto(c, "slot")
    /\ UNCHANGED <<mounted, dialog, call, of, manager>>

\* It has a slot, and its context has not ended.
StartProcess(c) ==
    /\ server[c] = "slot" /\ c \notin cancelled
    /\ Goto(c, "process")
    /\ UNCHANGED <<mounted, dialog, call, of, manager>>

\* The process ends, or the wait for a slot does: cancelled or not, the
\* answer is a result.
Finish(c) ==
    /\ server[c] = "process" \/ (server[c] = "slot" /\ c \in cancelled)
    /\ Goto(c, "result")
    /\ UNCHANGED <<mounted, dialog, call, of, manager>>

\* Fault: the handler's context is not the request's
Deaf(c) == FALSE /\ UNCHANGED vars

\* net/http sees the connection go and ends the request's context.
Disconnect(c) ==
    /\ c \in Handled \ (Pending \cup cancelled)
    /\ cancelled' = cancelled \cup {c}
    /\ UNCHANGED <<mounted, dialog, call, of, server, work, configured>>

\* Nobody waits for the answer any more.
Forget(c) ==
    /\ server[c] \in {"result", "refused"} /\ c \notin Pending
    /\ Goto(c, "none")
    /\ of' = [of EXCEPT ![c] = None] /\ cancelled' = cancelled \ {c}
    /\ UNCHANGED <<mounted, dialog, call, work, configured>>

\* task.stop, a chat command or the end of the program cancels the request.
Stop(c) ==
    /\ c \in Reserved \ cancelled
    /\ cancelled' = cancelled \cup {c}
    /\ UNCHANGED <<mounted, dialog, call, of, server, work, configured>>

\* A queue or keepalive task of the target starts or ends.  One that was just
\* being started may find a manual request and waits for it (Manager).
OtherWork(t) ==
    /\ t \in configured
    /\ work' = IF t \in work THEN work \ {t} ELSE work \cup {t}
    /\ UNCHANGED <<mounted, dialog, call, of, server, cancelled, configured>>

\* A target is removed from the configuration, or comes back.
EditTargets(t) ==
    /\ \/ t \in configured /\ ~TargetBusy(t) /\ configured' = configured \ {t}
       \/ t \notin configured /\ configured' = configured \cup {t}
    /\ UNCHANGED <<mounted, dialog, call, of, server, cancelled, work>>

-----------------------------------------------------------------------------
HandlerStep(c) == Refuse(c) \/ Reserve(c) \/ StartProcess(c) \/ Finish(c)
                  \/ Disconnect(c) \/ Stop(c)

Next ==
    \/ \E t \in Targets : OpenDialog(t) \/ OtherWork(t) \/ EditTargets(t)
    \/ ChangeOpen \/ Abort \/ Unmount \/ Mount
    \/ \E text \in BOOLEAN : TypePrompt(text)
    \/ \E c \in Calls : \/ Submit(c) \/ Answer(c) \/ Body(c) \/ Fails(c) \/ Forget(c)
                        \/ HandlerStep(c)

Spec == Init /\ [][Next]_vars

\* A handler runs, net/http notices a closed connection, and a process whose
\* context has ended goes (a signal, and another that cannot be ignored).  A
\* process that is not cancelled may run for ever, and wait for ever to run.
Fairness ==
    \A c \in Calls :
       /\ WF_vars(Refuse(c) \/ Reserve(c))
       /\ WF_vars(Disconnect(c))
       /\ WF_vars(c \in cancelled /\ Finish(c))

FairSpec == Spec /\ Fairness

-----------------------------------------------------------------------------
(* Properties                                                              *)

\* Types of the dialog, of the calls and of the server.  What a refused call
\* answers is never taken for a result.
TypeOK ==
    /\ mounted \in BOOLEAN /\ prompt \in BOOLEAN /\ busy \in BOOLEAN
    /\ target \in Targets \cup {None} /\ controller \in Calls \cup {None}
    /\ result \in Targets \cup {None, "empty"}
    /\ error \in {"none", "aborted", "refused", "failed"}
    /\ call \in [Calls -> {"none", "fetching", "reading"}]
    /\ of \in [Calls -> Targets \cup {None}]
    /\ server \in [Calls -> {"none", "arriving", "slot", "process", "result", "refused"}]
    /\ cancelled \subseteq Calls
    /\ work \subseteq Targets /\ configured \subseteq Targets

\* A call that has not settled is the one of the open dialog: it is for the
\* target in the title, the dialog says that it runs, and the button aborts
\* it.  A user cannot lose sight of a process that was not told to end.
CallIsShown ==
    \A c \in Pending : Shown.running /\ Shown.of = of[c] /\ controller = c

\* The dialog says that a request runs only while there is one, and shows no
\* result or error of an earlier one next to it.
RunningIsCall ==
    /\ Shown.running => Pending # {}
    /\ Shown.running => Shown.result = None /\ Shown.error = "none"

\* A result that is shown is one of the target in the title.
ResultIsOwn == Shown.result \in Targets => Shown.result = Shown.of

\* What the dialog shows is true: the call it shows runs, no other does, and a
\* result is one of its target, however calls are aborted, closed and reopened.
ShownIsTrue == CallIsShown /\ RunningIsCall /\ ResultIsOwn

\* README: closing the dialog or aborting the request ends the process.  So
\* does everything else that settles the call before its answer.
AbortEndsProcess ==
    \A c \in Calls : (c \in Handled \ Pending) ~> (c \notin Handled)
=============================================================================
