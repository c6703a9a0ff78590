------------------------------- MODULE Session -------------------------------
(***************************************************************************)
(* Who is logged in: the shell of the console (App, SetupPage, LoginPage   *)
(* and the doLogout of frontend/src/App.tsx) in several tabs of a browser, *)
(* which share one cookie, and the sessions of the web server              *)
(* (internal/web/server.go, config_api.go) with the one administrator of   *)
(* the store (internal/storage/storage.go).                                *)
(*                                                                         *)
(* A request carries the cookie of the moment it is sent; what its answer  *)
(* sets takes effect when the answer arrives, in any order.  The handlers  *)
(* run concurrently and are split where they give up a lock.               *)
(*                                                                         *)
(* The credentials are a number that grows with each change.               *)
(***************************************************************************)
EXTENDS Naturals

CONSTANTS
    Tabs,        \* tabs of the browser
    Calls,       \* requests that may be under way at once
    MaxSession,  \* bound: sessions established
    MaxAccount,  \* bound: credentials, the first ones included
    None,        \* no cookie
    Keep         \* the answer leaves the cookie alone

ASSUME SessionAssumption ==
    /\ MaxSession \in Nat /\ MaxAccount \in Nat \ {0}
    /\ None \notin Nat /\ Keep \notin Nat /\ None # Keep

VARIABLES
    account,   \* administrators: the credentials, 0 for no row
    known,     \* s.configSnapshot: the same as it was last read
    sessions,  \* s.sessions: their tokens
    issued,    \* tokens made so far
    cookie,    \* the browser's cookie
    page,      \* which of its returns App has taken in each tab
    calls      \* requests

server  == <<account, known, sessions, issued>>
browser == <<cookie, page>>
vars    == <<server, browser, calls>>

Pages  == {"closed", "loading", "setup", "login", "console"}

\* Requests that pass requireSession first; load is GET /dashboard
Guarded == {"session", "logout", "account", "load"}
Kinds   == Guarded \cup {"status", "setup", "login"}

Idle == [pc |-> "none", kind |-> "status", tab |-> None, waits |-> FALSE,
         cookie |-> None, body |-> 0, status |-> "failed", set |-> Keep]

\* request: "body" is what is typed, and later what the answer says.  Nobody
\* looks at the cookie of the two requests of the setup.
New(t, kind, body, sent) ==
    [Idle EXCEPT !.pc = "sent", !.kind = kind, !.tab = t, !.waits = TRUE, !.body = body,
                 !.cookie = IF kind \in {"status", "setup"} THEN None ELSE sent]

At(c, pc, kind) == calls[c].pc = pc /\ calls[c].kind = kind

Init ==
    /\ account = 0 /\ known = 0
    /\ sessions = {} /\ issued = 0
    /\ cookie = None /\ page = [t \in Tabs |-> "closed"]
    /\ calls = [c \in Calls |-> Idle]

-----------------------------------------------------------------------------
(* The server                                                              *)

\* A handler has written its answer; the request ends here if nobody waits.
Answer(c, status, set, body) ==
    calls' = [calls EXCEPT ![c] =
                 IF @.waits
                   THEN [@ EXCEPT !.pc = "done", !.status = status, !.set = set, !.body = body]
                   ELSE Idle]
Goes(c, pc) == calls' = [calls EXCEPT ![c].pc = pc]

\* setupStatus
GetStatus(c) ==
    /\ At(c, "sent", "status")
    /\ Answer(c, "ok", Keep, known)
    /\ UNCHANGED <<server, browser>>

\* requireSession: a token that is not valid any more is taken from the browser.
Admit(c) ==
    /\ calls[c].pc = "sent" /\ calls[c].kind \in Guarded
    /\ IF calls[c].cookie \in sessions
         THEN Goes(c, "in")
         ELSE Answer(c, "denied", IF calls[c].cookie = None THEN Keep ELSE None, 0)
    /\ UNCHANGED <<server, browser>>

\* getSession, dashboard
Read(c) ==
    /\ At(c, "in", "session") \/ At(c, "in", "load")
    /\ Answer(c, "ok", Keep, 0)
    /\ UNCHANGED <<server, browser>>

\* Fault: only the cookie is removed
LogoutCookie(c) ==
    /\ At(c, "in", "logout")
    /\ Answer(c, "ok", None, 0)
    /\ UNCHANGED <<server, browser>>

\* logout
Logout(c) ==
    /\ At(c, "in", "logout")
    /\ sessions' = sessions \ {calls[c].cookie}
    /\ Answer(c, "ok", None, 0)
    /\ UNCHANGED <<account, known, issued, browser>>

\* Fault: an administrator that exists is replaced
SetupAgain(c) ==
    /\ At(c, "sent", "setup")
    /\ account < MaxAccount
    /\ account' = account + 1 /\ known' = account'
    /\ Goes(c, "establish")
    /\ UNCHANGED <<sessions, issued, browser>>

\* setup and SetupAdmin: the row and the snapshot; the session is next.
Setup(c) ==
    /\ At(c, "sent", "setup") /\ account = 0
    /\ account' = 1 /\ known' = 1
    /\ Goes(c, "establish")
    /\ UNCHANGED <<sessions, issued, browser>>

\* loadAfterCommit fails: the row is there, and the caller is told otherwise.
SetupCommitOnly(c) ==
    /\ At(c, "sent", "setup") /\ account = 0
    /\ account' = 1
    /\ Answer(c, "failed", Keep, 0)
    /\ UNCHANGED <<known, sessions, issued, browser>>

\* ErrAlreadySetup
SetupConflict(c) ==
    /\ At(c, "sent", "setup") /\ account # 0
    /\ Answer(c, "failed", Keep, 0)
    /\ UNCHANGED <<server, browser>>

\* login: VerifyAdmin
Verify(c) ==
    /\ At(c, "sent", "login")
    /\ IF account # 0 /\ calls[c].body = account
         THEN Goes(c, IF calls[c].cookie = None THEN "establish" ELSE "rotate")
         ELSE Answer(c, "failed", Keep, 0)
    /\ UNCHANGED <<server, browser>>

\* login: the session the request came with is removed.
Rotate(c) ==
    /\ calls[c].pc = "rotate"
    /\ sessions' = sessions \ {calls[c].cookie}
    /\ Goes(c, "establish")
    /\ UNCHANGED <<account, known, issued, browser>>

\* establishSession: the credentials may have changed since they were verified.
Establish(c) ==
    /\ calls[c].pc = "establish" /\ issued < MaxSession
    /\ issued' = issued + 1
    /\ sessions' = sessions \cup {issued'}
    /\ Answer(c, "ok", issued', 0)
    /\ UNCHANGED <<account, known, browser>>

\* No random token can be made.
EstablishFails(c) ==
    /\ calls[c].pc = "establish"
    /\ Answer(c, "failed", Keep, 0)
    /\ UNCHANGED <<server, browser>>

\* updateAccount holds configWriteMu from before its checks to its answer.
ConfigUnlocked == \A d \in Calls : calls[d].pc # "revoke"

\* updateAccount: UpdateAccount commits, and the snapshot becomes current.
\* Whoever was let in before an earlier change goes on.
Account(c) ==
    /\ At(c, "in", "account") /\ ConfigUnlocked /\ account < MaxAccount
    /\ account' = account + 1 /\ known' = account'
    /\ Goes(c, "revoke")
    /\ UNCHANGED <<sessions, issued, browser>>

\* updateAccount: revokeSessions.  Until then the old sessions are valid.
Revoke(c) ==
    /\ calls[c].pc = "revoke"
    /\ sessions' = {}
    /\ Answer(c, "ok", None, 0)
    /\ UNCHANGED <<account, known, issued, browser>>

\* loadAfterCommit fails: the sessions are not revoked.
AccountCommitOnly(c) ==
    /\ At(c, "in", "account") /\ ConfigUnlocked /\ account < MaxAccount
    /\ account' = account + 1
    /\ Answer(c, "failed", Keep, 0)
    /\ UNCHANGED <<known, sessions, issued, browser>>

\* A form that is not well filled in, a wrong current password, an error of the
\* database before the commit
Refuse(c) ==
    /\ At(c, "sent", "setup") \/ At(c, "sent", "login") \/ At(c, "in", "account")
    /\ Answer(c, "failed", Keep, 0)
    /\ UNCHANGED <<server, browser>>

\* A session's time is over: requireSession and establishSession forget it.
Expire ==
    /\ \E s \in sessions : sessions' = sessions \ {s}
    /\ UNCHANGED <<account, known, issued, browser, calls>>

\* A request that has no answer yet fails when the connection is gone.
Dropped(call) ==
    IF call.pc \in {"none", "done"} THEN call
    ELSE IF call.waits THEN [call EXCEPT !.pc = "done", !.status = "failed", !.body = 0]
    ELSE Idle

\* The program stops and starts again; sessions are in memory only.
Restart ==
    /\ sessions' = {} /\ known' = account
    /\ calls' = [c \in Calls |-> Dropped(calls[c])]
    /\ UNCHANGED <<account, issued, browser>>

-----------------------------------------------------------------------------
(* The tabs                                                                *)

Send(c, t, kind, body) ==
    /\ calls[c].pc = "none"
    /\ calls' = [calls EXCEPT ![c] = New(t, kind, body, cookie)]
    /\ UNCHANGED <<server, browser>>

\* The server goes on with a request that nobody waits for; it matters if it may
\* change something.
Abandoned(call) ==
    IF call.pc # "done" /\ call.kind \in {"setup", "login", "logout", "account"}
      THEN [call EXCEPT !.waits = FALSE, !.tab = None]
      ELSE Idle

\* A tab is opened or loaded again: App's effect asks for the setup status.
\* Nobody waits any more for what the old page had asked.  (To load a page again
\* that is loading only starts over.)
Open(t, c) ==
    /\ page[t] # "loading" /\ calls[c].pc = "none"
    /\ page' = [page EXCEPT ![t] = "loading"]
    /\ calls' = [d \in Calls |->
                    CASE d = c -> New(t, "status", 0, cookie)
                      [] d # c /\ calls[d].tab = t -> Abandoned(calls[d])
                      [] OTHER -> calls[d]]
    /\ UNCHANGED <<server, cookie>>

\* busy: the page waits for the answer to its form.
Busy(t, kind) == \E c \in Calls : calls[c].tab = t /\ calls[c].kind = kind

\* SetupPage: submit
SubmitSetup(t, c) == page[t] = "setup" /\ ~Busy(t, "setup") /\ Send(c, t, "setup", 0)

\* LoginPage: submit, with the credentials of now, of the past, or wrong ones
SubmitLogin(t, c) ==
    page[t] = "login" /\ ~Busy(t, "login") /\ \E n \in 0..account : Send(c, t, "login", n)

\* doLogout: the button, and the stream's auth_expired
DoLogout(t, c) == page[t] = "console" /\ Send(c, t, "logout", 0)

\* The dashboard loads; the form of the account is saved.
Work(t, c) == page[t] = "console" /\ \E kind \in {"load", "account"} : Send(c, t, kind, 0)

\* Fault: the page waits until a start request succeeds
BootGoesOn(c, status) ==
    LET call == calls[c]
    IN  CASE call.kind = "status" /\ status = "ok" ->
                IF call.body = 0 THEN "setup" ELSE "loading"
          [] call.kind = "session" /\ status = "ok" -> "console"
          [] OTHER -> "loading"

\* App's effect: the promise that ends booting, whatever fails
Boot(c, status) ==
    LET call == calls[c]
    IN  CASE call.kind = "status" /\ status = "ok" ->
                IF call.body = 0 THEN "setup" ELSE "loading"
          [] call.kind = "session" /\ status = "ok" -> "console"
          [] OTHER -> "login"

\* doLogout: setAuth(null) after the answer, or the lack of one
LoggedOut(c, status) == "login"

\* The page after the call is settled
NextPage(c, status) ==
    LET call == calls[c]
    IN  CASE call.kind \in {"status", "session"} -> Boot(c, status)
          [] call.kind \in {"setup", "login"} /\ status = "ok" -> "console"
          [] call.kind = "logout" -> LoggedOut(c, status)
          [] OTHER -> page[call.tab]

\* The request that follows: session() in the effect; the logout of a load that
\* was denied, and of an account that was changed, by the doLogout of the page
\* that asked, whatever page there is now.
Follow(c, status, sent) ==
    LET call == calls[c]
    IN  CASE call.kind = "status" /\ status = "ok" /\ call.body # 0 -> New(call.tab, "session", 0, sent)
          [] call.kind = "load" /\ status = "denied"    -> New(call.tab, "logout", 0, sent)
          [] call.kind = "account" /\ status = "ok"     -> New(call.tab, "logout", 0, sent)
          [] OTHER -> Idle

\* An answer arrives; the browser has its cookie first.
Settle(c) ==
    /\ calls[c].pc = "done"
    /\ cookie' = IF calls[c].set = Keep THEN cookie ELSE calls[c].set
    /\ page' = [page EXCEPT ![calls[c].tab] = NextPage(c, calls[c].status)]
    /\ calls' = [calls EXCEPT ![c] = Follow(c, calls[c].status, cookie')]
    /\ UNCHANGED server

\* fetch fails: the request or its answer is lost, or the server goes on.
Lose(c) ==
    /\ calls[c].waits
    /\ page' = [page EXCEPT ![calls[c].tab] = NextPage(c, "failed")]
    /\ \/ calls' = [calls EXCEPT ![c] = Idle]
       \/ calls' = [calls EXCEPT ![c] = Abandoned(@)]
    /\ UNCHANGED <<server, cookie>>

-----------------------------------------------------------------------------
Serve(c) ==
    \/ GetStatus(c) \/ Admit(c) \/ Read(c) \/ Logout(c)
    \/ Setup(c) \/ SetupCommitOnly(c) \/ SetupConflict(c)
    \/ Verify(c) \/ Rotate(c) \/ Establish(c) \/ EstablishFails(c)
    \/ Account(c) \/ Revoke(c) \/ AccountCommitOnly(c) \/ Refuse(c)
Use(t, c) == Open(t, c) \/ SubmitSetup(t, c) \/ SubmitLogin(t, c) \/ DoLogout(t, c) \/ Work(t, c)

Next ==
    \/ \E c \in Calls : Serve(c) \/ Settle(c) \/ Lose(c)
    \/ \E t \in Tabs, c \in Calls : Use(t, c)
    \/ Expire \/ Restart

Spec == Init /\ [][Next]_vars

\* Every handler comes to its answer, and every answer that is not lost arrives.
Fairness == \A c \in Calls : WF_vars(Serve(c)) /\ WF_vars(Settle(c))

FairSpec == Spec /\ Fairness

-----------------------------------------------------------------------------
(* Properties                                                              *)

Requests(n) ==
    [pc : {"none", "sent", "in", "rotate", "establish", "revoke", "done"},
     kind : Kinds, tab : Tabs \cup {None}, waits : BOOLEAN, cookie : (1..n) \cup {None},
     body : 0..MaxAccount, status : {"ok", "denied", "failed"},
     set : (1..n) \cup {None, Keep}]

\* The types.  Whoever is past requireSession came with a token: the handlers
\* take session_id for a string.
TypeOK ==
    /\ account \in 0..MaxAccount /\ known \in 0..account
    /\ issued \in 0..MaxSession
    /\ sessions \subseteq 1..issued
    /\ cookie \in (1..issued) \cup {None} /\ page \in [Tabs -> Pages]
    /\ calls \in [Calls -> Requests(issued)]
    /\ \A c \in Calls : calls[c].pc = "in" => calls[c].cookie # None
    /\ \A c \in Calls : calls[c].waits => calls[c].tab \in Tabs /\ calls[c].pc # "none"
    /\ \A c \in Calls : calls[c].pc = "done" => calls[c].waits
    /\ \A c \in Calls : calls[c].pc = "establish" => calls[c].kind \in {"setup", "login"}
    /\ \A c \in Calls : calls[c].pc = "rotate" => calls[c].kind = "login"
    /\ \A c \in Calls : calls[c].pc = "revoke" => calls[c].kind = "account"

\* What was ended stays ended: the session that a logout, a login or a change of
\* the account came with is not valid any more when the answer is there, and no
\* other request brings it back, whatever it was admitted to before.
EndedStaysEnded ==
    \A c \in Calls :
        /\ calls[c].pc = "done" /\ calls[c].status = "ok"
        /\ calls[c].kind \in {"login", "logout", "account"}
        => calls[c].cookie \notin sessions

\* One administrator: of the pages that submit the first account, one is told
\* that it is its own.
Founded(c) ==
    /\ calls[c].kind = "setup"
    /\ calls[c].pc = "establish" \/ (calls[c].pc = "done" /\ calls[c].status = "ok")
OneFounder == \A c, d \in Calls : Founded(c) /\ Founded(d) => c = d

\* The requests that lead from one page to another, and the page each belongs to
Asks(c, t) == calls[c].waits /\ calls[c].tab = t
PageOf(kind) ==
    CASE kind \in {"status", "session"} -> "loading"
      [] kind \in {"setup", "login"}    -> kind
      [] OTHER -> "any"
Leads(c, t) == Asks(c, t) /\ PageOf(calls[c].kind) # "any"

\* An answer finds the page that asked: the start screen waits for one request
\* and the tab has no other then; no late answer to the start or to a form of
\* an earlier page leads a page on, and a form has one submission.
PageHasItsRequest ==
    \A t \in Tabs :
        /\ \A c \in Calls : Leads(c, t) => page[t] = PageOf(calls[c].kind)
        /\ \A c, d \in Calls : Leads(c, t) /\ Leads(d, t) => c = d
        /\ page[t] = "loading" =>
              \E c \in Calls : Leads(c, t) /\ \A d \in Calls : Asks(d, t) => d = c

\* Any one of the tabs, which are all alike
SomeTab == CHOOSE t \in Tabs : TRUE

\* The start of the page ends, whatever fails.
BootEnds == []<>(page[SomeTab] # "loading")

\* A logout leads out of the console, also if the server is not reached or does
\* not know the session.
LogoutEnds ==
    (\E c \in Calls : calls[c].kind = "logout" /\ calls[c].tab = SomeTab)
        ~> page[SomeTab] # "console"

\* No page hangs: neither the loading screen nor the console of a user who
\* logs out stays for good, whichever request fails.
NoPageHangs == BootEnds /\ LogoutEnds
=============================================================================
