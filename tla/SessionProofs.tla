---------------------------- MODULE SessionProofs ----------------------------
(***************************************************************************)
(* Proofs about Session: for every number of tabs, requests, sessions and  *)
(* changes of the account, what was ended stays ended, there is one        *)
(* founder, and an answer finds the page that asked.                       *)
(*                                                                         *)
(* The invariant adds that nobody is being logged in before there is an    *)
(* administrator, and that a login has ended the session it came with when *)
(* it establishes the new one (Settled).  Each step changes one request,   *)
(* or abandons some; most lemmas are about what may happen to one.  For    *)
(* the pages it adds that a page which asks for the first account has no   *)
(* other request under way (PageInv): a late logout would lead it to the   *)
(* login page.                                                             *)
(***************************************************************************)
EXTENDS Session, TLAPS

\* A request that has ended the session it came with
Granted(call) ==
    \/ call.pc = "done" /\ call.status = "ok" /\ call.kind \in {"login", "logout", "account"}
    \/ call.pc = "establish" /\ call.kind = "login"

\* A request that is the founder's
Founds(call) ==
    /\ call.kind = "setup"
    /\ call.pc = "establish" \/ (call.pc = "done" /\ call.status = "ok")

\* A request that only an administrator can have made
Entered(call) == call.pc \in {"rotate", "establish"} \/ Founds(call)

Settled ==
    /\ \A c \in Calls : Entered(calls[c]) => account # 0
    /\ \A c \in Calls : At(c, "establish", "login") => calls[c].cookie \notin sessions

IInv == TypeOK /\ Settled /\ EndedStaysEnded /\ OneFounder

\* What TypeOK says of one request
Sound(call, n) ==
    /\ call \in Requests(n)
    /\ call.pc = "in" => call.cookie # None
    /\ call.waits => call.tab \in Tabs /\ call.pc # "none"
    /\ call.pc = "done" => call.waits
    /\ call.pc = "establish" => call.kind \in {"setup", "login"}
    /\ call.pc = "rotate" => call.kind = "login"
    /\ call.pc = "revoke" => call.kind = "account"

-----------------------------------------------------------------------------
(* Requests                                                                *)

LEMMA IdleSound == \A n \in Nat : Sound(Idle, n)
BY SessionAssumption DEF Idle, Sound, Requests, Kinds

LEMMA IdleQuiet == ~Granted(Idle) /\ ~Entered(Idle) /\ ~Founds(Idle) /\ Idle.pc = "none"
BY DEF Idle, Granted, Entered, Founds

LEMMA NewSound ==
    ASSUME NEW n \in Nat, NEW t \in Tabs, NEW kind \in Kinds, NEW body \in 0..MaxAccount,
           NEW sent \in (1..n) \cup {None}
    PROVE  /\ Sound(New(t, kind, body, sent), n)
           /\ New(t, kind, body, sent).pc = "sent"
BY SessionAssumption DEF New, Idle, Sound, Requests

LEMMA AbandonedSound ==
    ASSUME NEW n \in Nat, NEW call, Sound(call, n)
    PROVE  /\ Sound(Abandoned(call), n)
           /\ Abandoned(call).pc # "done"
           /\ Abandoned(call).pc # "none" => /\ Abandoned(call).pc = call.pc
                                             /\ Abandoned(call).kind = call.kind
                                             /\ Abandoned(call).cookie = call.cookie
BY IdleSound, IdleQuiet DEF Abandoned, Sound, Requests

LEMMA Grow ==
    ASSUME NEW n \in Nat, NEW call, Sound(call, n)
    PROVE  Sound(call, n + 1)
<1>1. 1..n \subseteq 1..(n + 1)
  OBVIOUS
<1> QED
  BY <1>1 DEF Sound, Requests

\* The answer to a request
Closed(call, status, set, body) ==
    IF call.waits
      THEN [call EXCEPT !.pc = "done", !.status = status, !.set = set, !.body = body]
      ELSE Idle

LEMMA Answered ==
    ASSUME NEW n \in Nat, NEW call, Sound(call, n), call.pc # "none",
           NEW status \in {"ok", "denied", "failed"}, NEW set \in (1..n) \cup {None, Keep},
           NEW body \in 0..MaxAccount
    PROVE  LET after == Closed(call, status, set, body)
           IN  /\ Sound(after, n)
               /\ after.pc \in {"none", "done"}
               /\ Granted(after) => /\ status = "ok"
                                    /\ after.kind = call.kind
                                    /\ after.cookie = call.cookie
               /\ Founds(after) => call.kind = "setup" /\ status = "ok"
BY IdleSound, IdleQuiet DEF Closed, Sound, Requests, Granted, Founds

-----------------------------------------------------------------------------
(* The invariant in terms of requests                                      *)

LEMMA Parts ==
    IInv <=>
        /\ account \in 0..MaxAccount /\ known \in 0..account
        /\ issued \in 0..MaxSession
        /\ sessions \subseteq 1..issued
        /\ cookie \in (1..issued) \cup {None} /\ page \in [Tabs -> Pages]
        /\ calls = [c \in Calls |-> calls[c]]
        /\ \A c \in Calls : Sound(calls[c], issued)
        /\ \A c \in Calls : Entered(calls[c]) => account # 0
        /\ \A c \in Calls : Granted(calls[c]) => calls[c].cookie \notin sessions
        /\ \A c, d \in Calls : Founds(calls[c]) /\ Founds(calls[d]) => c = d
BY DEF IInv, TypeOK, Sound, Settled, At, Granted, Founds, EndedStaysEnded, OneFounder, Founded

LEMMA InvInit == Init => IInv
<1> SUFFICES ASSUME Init PROVE IInv
  OBVIOUS
<1>1. \A c \in Calls : calls[c] = Idle
  BY DEF Init
<1>2. issued = 0 /\ sessions = {} /\ account = 0 /\ known = 0 /\ cookie = None
  BY DEF Init
<1>3. page \in [Tabs -> Pages] /\ calls = [c \in Calls |-> calls[c]]
  BY DEF Init, Pages
<1> QED
  BY <1>1, <1>2, <1>3, IdleSound, IdleQuiet, Parts, SessionAssumption

\* A step that changes one request.  The sessions are old ones, or one with a
\* token that is new.
LEMMA OneCall ==
    ASSUME IInv, NEW c \in Calls,
           calls' = [d \in Calls |-> calls'[d]], \A d \in Calls : d # c => calls'[d] = calls[d],
           Sound(calls'[c], issued'),
           issued' = issued \/ issued' = issued + 1, issued' \in 0..MaxSession,
           account' \in 0..MaxAccount, known' \in 0..account', account # 0 => account' # 0,
           sessions' \subseteq 1..issued', sessions' \subseteq sessions \cup {issued + 1},
           cookie' \in (1..issued') \cup {None}, page' \in [Tabs -> Pages],
           Entered(calls'[c]) => account' # 0,
           Founds(calls'[c]) => Founds(calls[c]) \/ \A d \in Calls : ~Founds(calls[d]),
           Granted(calls'[c]) => calls'[c].cookie \notin sessions'
    PROVE  IInv'
<1> USE SessionAssumption
<1>1. issued \in Nat /\ \A d \in Calls : Sound(calls[d], issued)
  BY Parts
<1>4. \A d \in Calls : Sound(calls'[d], issued')
  BY <1>1, Grow
<1>5. \A d \in Calls : Entered(calls'[d]) => account' # 0
  BY Parts
<1>6. ASSUME NEW d \in Calls, Granted(calls'[d]) PROVE calls'[d].cookie \notin sessions'
  <2>1. CASE d = c
    BY <1>6, <2>1
  <2>2. CASE d # c
    <3>1. calls[d].cookie \notin sessions /\ calls'[d] = calls[d]
      BY <1>6, <2>2, Parts
    <3>2. calls[d].cookie \in (1..issued) \cup {None}
      BY <1>1 DEF Sound, Requests
    <3>3. calls[d].cookie # issued + 1
      BY <1>1, <3>2
    <3> QED
      BY <3>1, <3>3
  <2> QED  BY <2>1, <2>2
<1>7. \A d, e \in Calls : Founds(calls'[d]) /\ Founds(calls'[e]) => d = e
  BY Parts
<1>9. TypeOK'
  BY <1>4 DEF TypeOK, Sound
<1>10. Settled'
  BY <1>5, <1>6 DEF Settled, At, Granted
<1>11. EndedStaysEnded'
  BY <1>6 DEF EndedStaysEnded, Granted
<1>12. OneFounder'
  BY <1>7 DEF OneFounder, Founded, Founds
<1> QED
  BY <1>9, <1>10, <1>11, <1>12 DEF IInv

\* What an answer leaves to be shown, in terms of the request it answers
LEMMA AnswerCall ==
    ASSUME IInv, NEW c \in Calls, calls[c].pc # "none",
           issued' = issued \/ issued' = issued + 1,
           NEW status \in {"ok", "denied", "failed"}, NEW set \in (1..issued') \cup {None, Keep},
           NEW body \in 0..MaxAccount, Answer(c, status, set, body)
    PROVE  /\ calls' = [d \in Calls |-> calls'[d]]
           /\ \A d \in Calls : d # c => calls'[d] = calls[d]
           /\ Sound(calls'[c], issued')
           /\ calls'[c].pc \in {"none", "done"}
           /\ Granted(calls'[c]) => /\ status = "ok"
                                   /\ calls'[c].kind = calls[c].kind
                                   /\ calls'[c].cookie = calls[c].cookie
           /\ Founds(calls'[c]) => calls[c].kind = "setup" /\ status = "ok"
<1>1. calls = [d \in Calls |-> calls[d]] /\ Sound(calls[c], issued) /\ issued \in Nat
  BY Parts, SessionAssumption
<1>2. Sound(calls[c], issued') /\ issued' \in Nat
  BY <1>1, Grow
<1>3. calls'[c] = Closed(calls[c], status, set, body)
  BY <1>1 DEF Answer, Closed
<1>4. /\ calls' = [d \in Calls |-> calls'[d]]
      /\ \A d \in Calls : d # c => calls'[d] = calls[d]
  BY <1>1 DEF Answer
<1>5. PICK x, y, n : x = calls[c] /\ y = calls'[c] /\ n = issued'
  OBVIOUS
<1>6. n \in Nat /\ Sound(x, n) /\ x.pc # "none" /\ set \in (1..n) \cup {None, Keep}
  BY <1>2, <1>5
<1>7. y = Closed(x, status, set, body)
  BY <1>3, <1>5
<1>8. /\ Sound(y, n)
      /\ y.pc \in {"none", "done"}
      /\ Granted(y) => /\ status = "ok"
                       /\ y.kind = x.kind
                       /\ y.cookie = x.cookie
      /\ Founds(y) => x.kind = "setup" /\ status = "ok"
  BY ONLY <1>6, <1>7, Answered, status \in {"ok", "denied", "failed"}, body \in 0..MaxAccount
<1> QED
  BY <1>4, <1>5, <1>8

\* An answer that touches neither the sessions nor the account
LEMMA PlainAnswer ==
    ASSUME IInv, NEW c \in Calls, calls[c].pc # "none",
           NEW status \in {"ok", "denied", "failed"}, NEW set \in {None, Keep},
           NEW body \in 0..MaxAccount, Answer(c, status, set, body),
           status = "ok" => calls[c].kind \notin {"login", "logout", "account", "setup"},
           UNCHANGED <<server, browser>>
    PROVE  IInv'
<1>1. UNCHANGED <<account, known, sessions, issued, cookie, page>>
  BY DEF server, browser
<1>2. ~Granted(calls'[c]) /\ ~Entered(calls'[c])
  BY <1>1, AnswerCall DEF Granted, Entered
<1> QED
  BY <1>1, <1>2, AnswerCall, OneCall, Parts DEF Entered

\* A handler goes on to its next locked section.
LEMMA Advance ==
    ASSUME IInv, NEW c \in Calls, NEW pc \in {"in", "rotate", "establish", "revoke"}, Goes(c, pc),
           ~calls[c].pc \in {"none", "done"},
           pc = "in" => calls[c].cookie # None,
           pc = "rotate" => calls[c].kind = "login" /\ account' # 0,
           pc = "revoke" => calls[c].kind = "account",
           pc = "establish" =>
              /\ account' # 0
              /\ \/ calls[c].kind = "login" /\ calls[c].cookie \notin sessions'
                 \/ calls[c].kind = "setup" /\ \A d \in Calls : ~Founds(calls[d]),
           sessions' \subseteq sessions, account' \in 0..MaxAccount, known' \in 0..account',
           account # 0 => account' # 0, UNCHANGED <<issued, browser>>
    PROVE  IInv'
<1>1. UNCHANGED <<issued, cookie, page>>
  BY DEF browser
<1>2. /\ calls = [d \in Calls |-> calls[d]]
      /\ Sound(calls[c], issued)
  BY Parts
<1>3. /\ calls' = [d \in Calls |-> calls'[d]]
      /\ \A d \in Calls : d # c => calls'[d] = calls[d]
      /\ calls'[c] = [calls[c] EXCEPT !.pc = pc]
  BY <1>2 DEF Goes
<1>4. /\ Sound(calls'[c], issued') /\ calls'[c].pc = pc /\ calls'[c].kind = calls[c].kind
      /\ calls'[c].cookie = calls[c].cookie
  BY <1>1, <1>2, <1>3 DEF Sound, Requests
<1>5. /\ Granted(calls'[c]) => calls'[c].cookie \notin sessions'
      /\ Entered(calls'[c]) => account' # 0
      /\ Founds(calls'[c]) => \A d \in Calls : ~Founds(calls[d])
  BY <1>4 DEF Granted, Entered, Founds
<1>6. sessions' \subseteq 1..issued' /\ issued' \in 0..MaxSession
  BY <1>1, Parts
<1> QED
  BY <1>1, <1>3, <1>4, <1>5, <1>6, OneCall, Parts

-----------------------------------------------------------------------------
(* The server                                                              *)

LEMMA InvReads ==
    ASSUME IInv, NEW c \in Calls, GetStatus(c) \/ Read(c) \/ SetupConflict(c) \/ Refuse(c)
    PROVE  IInv'
<1> USE SessionAssumption
<1>1. known \in 0..MaxAccount /\ 0 \in 0..MaxAccount
  BY Parts
<1>2. CASE GetStatus(c)
  BY <1>1, <1>2, PlainAnswer DEF GetStatus, At
<1>3. CASE Read(c)
  BY <1>1, <1>3, PlainAnswer DEF Read, At
<1>4. CASE SetupConflict(c)
  BY <1>1, <1>4, PlainAnswer DEF SetupConflict, At
<1>5. CASE Refuse(c)
  BY <1>1, <1>5, PlainAnswer DEF Refuse, At
<1> QED  BY <1>2, <1>3, <1>4, <1>5

LEMMA InvAdmit == ASSUME IInv, NEW c \in Calls, Admit(c) PROVE IInv'
<1>1. CASE calls[c].cookie \in sessions
  <2>1. calls[c].cookie # None
    BY <1>1, Parts, SessionAssumption
  <2> QED
    BY <1>1, <2>1, Advance, Parts DEF Admit, server
<1>2. CASE calls[c].cookie \notin sessions
  <2>1. 0 \in 0..MaxAccount
    BY SessionAssumption
  <2> QED
    BY <1>2, <2>1, PlainAnswer DEF Admit
<1> QED  BY <1>1, <1>2

LEMMA InvVerify == ASSUME IInv, NEW c \in Calls, Verify(c) PROVE IInv'
<1>1. 0 \in 0..MaxAccount /\ calls[c].pc = "sent" /\ calls[c].kind = "login"
  BY SessionAssumption DEF Verify, At
<1>2. CASE account # 0 /\ calls[c].body = account
  <2>1. None \notin sessions
    BY Parts, SessionAssumption
  <2> QED
    BY <1>1, <1>2, <2>1, Advance, Parts DEF Verify, server
<1>3. CASE ~(account # 0 /\ calls[c].body = account)
  BY <1>1, <1>3, PlainAnswer DEF Verify
<1> QED  BY <1>2, <1>3

\* An answer after which there are no more sessions than before
LEMMA EndingAnswer ==
    ASSUME IInv, NEW c \in Calls, calls[c].pc # "none",
           NEW status \in {"ok", "failed"}, NEW set \in {None, Keep}, Answer(c, status, set, 0),
           sessions' \subseteq sessions,
           status = "ok" => calls[c].cookie \notin sessions' /\ calls[c].kind # "setup",
           UNCHANGED <<account, known, issued, browser>>
    PROVE  IInv'
<1>1. UNCHANGED <<cookie, page>> /\ 0 \in 0..MaxAccount
  BY SessionAssumption DEF browser
<1>2. /\ ~Founds(calls'[c]) /\ ~Entered(calls'[c])
      /\ Granted(calls'[c]) => calls'[c].cookie \notin sessions'
  BY <1>1, AnswerCall DEF Entered
<1>3. sessions' \subseteq 1..issued' /\ issued' \in 0..MaxSession
  BY Parts
<1> QED
  BY <1>1, <1>2, <1>3, AnswerCall, OneCall, Parts

LEMMA InvLogout == ASSUME IInv, NEW c \in Calls, Logout(c) PROVE IInv'
BY EndingAnswer DEF Logout, At

LEMMA InvEstablishFails == ASSUME IInv, NEW c \in Calls, EstablishFails(c) PROVE IInv'
BY EndingAnswer DEF EstablishFails, server

LEMMA InvRotate == ASSUME IInv, NEW c \in Calls, Rotate(c) PROVE IInv'
<1>1. calls[c].kind = "login" /\ account # 0
  BY Parts DEF Rotate, Sound, Entered
<1> QED
  BY <1>1, Advance, Parts DEF Rotate

LEMMA InvEstablish == ASSUME IInv, NEW c \in Calls, Establish(c) PROVE IInv'
<1>1. issued' = issued + 1 /\ issued' \in 0..MaxSession /\ issued \in Nat /\ 0 \in 0..MaxAccount
  BY Parts, SessionAssumption DEF Establish
<1>2. UNCHANGED <<account, known, cookie, page>> /\ calls[c].pc = "establish" /\ account # 0
  BY Parts DEF Establish, browser, Entered
<1>3. Sound(calls[c], issued) /\ calls[c].cookie \in (1..issued) \cup {None}
  BY Parts DEF Sound, Requests
<1>4. sessions' = sessions \cup {issued + 1} /\ sessions' \subseteq 1..issued'
  BY <1>1, Parts DEF Establish
<1>5. Answer(c, "ok", issued', 0) /\ issued' \in (1..issued') \cup {None, Keep}
  BY <1>1 DEF Establish
<1>6. /\ calls' = [d \in Calls |-> calls'[d]]
      /\ \A d \in Calls : d # c => calls'[d] = calls[d]
      /\ Sound(calls'[c], issued')
      /\ calls'[c].pc \in {"none", "done"}
      /\ Granted(calls'[c]) => calls'[c].kind = calls[c].kind /\ calls'[c].cookie = calls[c].cookie
      /\ Founds(calls'[c]) => calls[c].kind = "setup"
  BY <1>1, <1>2, <1>5, AnswerCall
<1>7. Founds(calls'[c]) => Founds(calls[c])
  BY <1>2, <1>6 DEF Founds
<1>8. Granted(calls'[c]) => calls'[c].cookie \notin sessions'
  <2>1. SUFFICES ASSUME Granted(calls'[c]) PROVE calls[c].cookie \notin sessions'
    BY <1>6
  <2>2. calls[c].kind = "login"
    BY <1>2, <1>3, <1>6, <2>1 DEF Granted, Sound
  <2>3. calls[c].cookie \notin sessions
    BY <1>2, <2>2, Parts DEF Granted
  <2> QED
    BY <1>1, <1>3, <1>4, <2>3, SessionAssumption
<1>9. cookie' \in (1..issued') \cup {None}
  BY <1>1, <1>2, Parts
<1> QED
  BY <1>1, <1>2, <1>4, <1>6, <1>7, <1>8, <1>9, OneCall, Parts

\* The first account
LEMMA InvSetup == ASSUME IInv, NEW c \in Calls, Setup(c) PROVE IInv'
<1>1. /\ account = 0 /\ account' = 1 /\ known' = 1 /\ UNCHANGED <<sessions, issued, browser>>
      /\ calls[c].pc = "sent" /\ calls[c].kind = "setup" /\ Goes(c, "establish")
  BY DEF Setup, At
<1>2. \A d \in Calls : ~Founds(calls[d])
  BY <1>1, Parts DEF Entered
<1>3. 1 \in 0..MaxAccount
  BY SessionAssumption
<1> QED
  BY <1>1, <1>2, <1>3, Advance

LEMMA InvSetupCommitOnly == ASSUME IInv, NEW c \in Calls, SetupCommitOnly(c) PROVE IInv'
<1>1. /\ account = 0 /\ account' = 1 /\ UNCHANGED <<known, sessions, issued, cookie, page>>
      /\ calls[c].pc = "sent" /\ calls[c].kind = "setup" /\ Answer(c, "failed", Keep, 0)
  BY DEF SetupCommitOnly, At, browser
<1>2. 1 \in 0..MaxAccount /\ 0 \in 0..MaxAccount /\ known' \in 0..account'
  BY <1>1, Parts, SessionAssumption
<1>3. ~Granted(calls'[c]) /\ ~Founds(calls'[c])
  BY <1>1, <1>2, AnswerCall
<1> QED
  BY <1>1, <1>2, <1>3, AnswerCall, OneCall, Parts

LEMMA InvAccount == ASSUME IInv, NEW c \in Calls, Account(c) PROVE IInv'
<1>1. /\ account' = account + 1 /\ known' = account' /\ account < MaxAccount
      /\ UNCHANGED <<sessions, issued, browser>>
      /\ calls[c].pc = "in" /\ calls[c].kind = "account" /\ Goes(c, "revoke")
  BY DEF Account, At
<1>2. account' \in 0..MaxAccount /\ known' \in 0..account' /\ account' # 0
  BY <1>1, Parts, SessionAssumption
<1> QED
  BY <1>1, <1>2, Advance

LEMMA InvRevoke == ASSUME IInv, NEW c \in Calls, Revoke(c) PROVE IInv'
<1>1. calls[c].kind = "account"
  BY Parts DEF Revoke, Sound
<1> QED
  BY <1>1, EndingAnswer DEF Revoke

LEMMA InvAccountCommitOnly == ASSUME IInv, NEW c \in Calls, AccountCommitOnly(c) PROVE IInv'
<1>1. /\ account' = account + 1 /\ account < MaxAccount
      /\ UNCHANGED <<known, sessions, issued, cookie, page>>
      /\ calls[c].pc = "in" /\ Answer(c, "failed", Keep, 0)
  BY DEF AccountCommitOnly, At, browser
<1>2. 0 \in 0..MaxAccount /\ account' \in 0..MaxAccount /\ known' \in 0..account' /\ account' # 0
  BY <1>1, Parts, SessionAssumption
<1>3. ~Granted(calls'[c]) /\ ~Founds(calls'[c])
  BY <1>1, <1>2, AnswerCall
<1> QED
  BY <1>1, <1>2, <1>3, AnswerCall, OneCall, Parts

LEMMA InvServe == ASSUME IInv, NEW c \in Calls, Serve(c) PROVE IInv'
BY InvReads, InvAdmit, InvVerify, InvLogout, InvRotate, InvEstablish, InvEstablishFails, InvSetup,
   InvSetupCommitOnly, InvAccount, InvRevoke, InvAccountCommitOnly DEF Serve

-----------------------------------------------------------------------------
(* The browser                                                             *)

\* What may become of a request that the server does not go on with
Quieter(new, old, n) ==
    /\ Sound(new, n)
    /\ Granted(new) => Granted(old) /\ new.cookie = old.cookie
    /\ Entered(new) => Entered(old)
    /\ Founds(new) => Founds(old)

\* A step that changes only requests, and gives none a grant
LEMMA QuietCalls ==
    ASSUME IInv, UNCHANGED <<account, issued>>, known' \in 0..account, sessions' \subseteq sessions,
           cookie' \in (1..issued) \cup {None}, page' \in [Tabs -> Pages],
           calls' = [d \in Calls |-> calls'[d]],
           \A d \in Calls : calls'[d] = calls[d] \/ Quieter(calls'[d], calls[d], issued)
    PROVE  IInv'
<1>1. \A d \in Calls : Sound(calls'[d], issued')
  BY Parts DEF Quieter
<1>2. TypeOK'
  BY <1>1, Parts DEF TypeOK, Sound
<1>3. \A d \in Calls : Granted(calls'[d]) => calls'[d].cookie \notin sessions'
  BY Parts DEF Quieter
<1>4. \A d \in Calls : Entered(calls'[d]) => account' # 0
  BY Parts DEF Quieter
<1>5. Settled'
  BY <1>3, <1>4 DEF Settled, At, Granted
<1>6. EndedStaysEnded'
  BY <1>3 DEF EndedStaysEnded, Granted
<1>7. \A d, e \in Calls : Founds(calls'[d]) /\ Founds(calls'[e]) => d = e
  BY Parts DEF Quieter
<1>8. OneFounder'
  BY <1>7 DEF OneFounder, Founded, Founds
<1> QED
  BY <1>2, <1>5, <1>6, <1>8 DEF IInv

LEMMA SentQuiet ==
    ASSUME NEW t \in Tabs, NEW kind \in Kinds, NEW body \in 0..MaxAccount, NEW n \in Nat,
           NEW sent \in (1..n) \cup {None}, NEW old
    PROVE  Quieter(New(t, kind, body, sent), old, n)
BY NewSound DEF Quieter, Granted, Entered, Founds

LEMMA IdleQuieter == \A n \in Nat : \A old : Quieter(Idle, old, n)
BY IdleSound, IdleQuiet DEF Quieter

LEMMA AbandonedQuiet ==
    ASSUME NEW n \in Nat, NEW call, Sound(call, n)
    PROVE  Quieter(Abandoned(call), call, n)
BY AbandonedSound DEF Quieter, Granted, Entered, Founds

LEMMA DroppedQuiet ==
    ASSUME NEW n \in Nat, NEW call, Sound(call, n)
    PROVE  Dropped(call) = call \/ Quieter(Dropped(call), call, n)
<1>1. 0 \in 0..MaxAccount
  BY SessionAssumption
<1>2. CASE call.pc \notin {"none", "done"} /\ call.waits
  <2> DEFINE new == [call EXCEPT !.pc = "done", !.status = "failed", !.body = 0]
  <2>1. Sound(new, n) /\ new.pc = "done" /\ new.status = "failed"
    BY <1>1, <1>2 DEF Sound, Requests
  <2>2. Dropped(call) = new
    BY <1>2 DEF Dropped
  <2> HIDE DEF new
  <2> QED
    BY <2>1, <2>2 DEF Quieter, Granted, Entered, Founds
<1> QED
  BY <1>2, IdleQuieter DEF Dropped

LEMMA InvSend ==
    ASSUME IInv, NEW c \in Calls, NEW t \in Tabs, NEW kind \in Kinds, NEW body \in 0..MaxAccount,
           Send(c, t, kind, body)
    PROVE  IInv'
<1>1. UNCHANGED <<account, known, sessions, issued, cookie, page>>
  BY DEF Send, server, browser
<1>2. /\ calls' = [d \in Calls |-> calls'[d]]
      /\ \A d \in Calls : d # c => calls'[d] = calls[d]
      /\ calls'[c] = New(t, kind, body, cookie)
  BY Parts DEF Send
<1>3. issued \in Nat /\ cookie \in (1..issued) \cup {None}
  BY Parts, SessionAssumption
<1>4. Quieter(calls'[c], calls[c], issued)
  BY <1>2, <1>3, SentQuiet
<1> QED
  BY <1>1, <1>2, <1>4, QuietCalls, Parts

LEMMA InvOpen == ASSUME IInv, NEW t \in Tabs, NEW c \in Calls, Open(t, c) PROVE IInv'
<1>1. UNCHANGED <<account, known, sessions, issued, cookie>>
  BY DEF Open, server
<1>2. page' \in [Tabs -> Pages]
  BY Parts DEF Open, Pages
<1>3. /\ calls' = [d \in Calls |-> calls'[d]]
      /\ \A d \in Calls : \/ calls'[d] = calls[d]
                          \/ calls'[d] = New(t, "status", 0, cookie)
                          \/ calls'[d] = Abandoned(calls[d])
  BY Parts DEF Open
<1>4. /\ issued \in Nat /\ cookie \in (1..issued) \cup {None} /\ 0 \in 0..MaxAccount
      /\ \A d \in Calls : Sound(calls[d], issued)
      /\ "status" \in Kinds
  BY Parts, SessionAssumption DEF Kinds
<1>5. \A d \in Calls : calls'[d] = calls[d] \/ Quieter(calls'[d], calls[d], issued)
  BY <1>3, <1>4, SentQuiet, AbandonedQuiet
<1> QED
  BY <1>1, <1>2, <1>3, <1>5, QuietCalls, Parts

LEMMA InvUse == ASSUME IInv, NEW t \in Tabs, NEW c \in Calls, Use(t, c) PROVE IInv'
<1>1. 0 \in 0..MaxAccount /\ 0..account \subseteq 0..MaxAccount
  BY Parts, SessionAssumption
<1>2. {"setup", "login", "logout", "load", "account"} \subseteq Kinds
  BY DEF Kinds, Guarded
<1>3. CASE Open(t, c)
  BY <1>3, InvOpen
<1>4. CASE SubmitSetup(t, c)
  BY <1>1, <1>2, <1>4, InvSend DEF SubmitSetup
<1>5. CASE SubmitLogin(t, c)
  BY <1>1, <1>2, <1>5, InvSend DEF SubmitLogin
<1>6. CASE DoLogout(t, c)
  BY <1>1, <1>2, <1>6, InvSend DEF DoLogout
<1>7. CASE Work(t, c)
  BY <1>1, <1>2, <1>7, InvSend DEF Work
<1> QED  BY <1>3, <1>4, <1>5, <1>6, <1>7 DEF Use

LEMMA NextPageType ==
    ASSUME IInv, NEW c \in Calls, calls[c].tab \in Tabs, NEW status
    PROVE  NextPage(c, status) \in Pages
BY Parts DEF NextPage, Boot, LoggedOut, Pages

LEMMA InvSettle == ASSUME IInv, NEW c \in Calls, Settle(c) PROVE IInv'
<1>1. UNCHANGED <<account, known, sessions, issued>> /\ calls[c].pc = "done"
  BY DEF Settle, server
<1>2. Sound(calls[c], issued) /\ calls[c].tab \in Tabs /\ issued \in Nat /\ 0 \in 0..MaxAccount
  BY <1>1, Parts, SessionAssumption DEF Sound
<1>3. page' \in [Tabs -> Pages]
  BY <1>2, NextPageType, Parts DEF Settle
<1>4. cookie' \in (1..issued) \cup {None}
  BY <1>2, Parts DEF Settle, Sound, Requests
<1>5. /\ calls' = [d \in Calls |-> calls'[d]]
      /\ \A d \in Calls : d # c => calls'[d] = calls[d]
      /\ calls'[c] = Follow(c, calls[c].status, cookie')
  BY Parts DEF Settle
<1>6. {"session", "logout"} \subseteq Kinds
  BY DEF Kinds, Guarded
<1>7. \/ Follow(c, calls[c].status, cookie') = Idle
      \/ \E kind \in {"session", "logout"} :
            Follow(c, calls[c].status, cookie') = New(calls[c].tab, kind, 0, cookie')
  BY DEF Follow
<1>8. Quieter(calls'[c], calls[c], issued)
  BY <1>2, <1>4, <1>5, <1>6, <1>7, SentQuiet, IdleQuieter
<1> QED
  BY <1>1, <1>3, <1>4, <1>5, <1>8, QuietCalls, Parts

LEMMA InvLose == ASSUME IInv, NEW c \in Calls, Lose(c) PROVE IInv'
<1>1. UNCHANGED <<account, known, sessions, issued, cookie>> /\ calls[c].waits
  BY DEF Lose, server
<1>2. Sound(calls[c], issued) /\ calls[c].tab \in Tabs /\ issued \in Nat
  BY <1>1, Parts, SessionAssumption DEF Sound
<1>3. page' \in [Tabs -> Pages]
  BY <1>2, NextPageType, Parts DEF Lose
<1>4. /\ calls' = [d \in Calls |-> calls'[d]]
      /\ \A d \in Calls : d # c => calls'[d] = calls[d]
      /\ calls'[c] = Idle \/ calls'[c] = Abandoned(calls[c])
  BY Parts DEF Lose
<1>5. Quieter(calls'[c], calls[c], issued)
  BY <1>2, <1>4, AbandonedQuiet, IdleQuieter
<1> QED
  BY <1>1, <1>3, <1>4, <1>5, QuietCalls, Parts

LEMMA InvExpire == ASSUME IInv, Expire PROVE IInv'
<1>1. sessions' \subseteq sessions /\ UNCHANGED <<account, known, issued, cookie, page, calls>>
  BY DEF Expire, browser
<1> QED
  BY <1>1, QuietCalls, Parts

LEMMA InvRestart == ASSUME IInv, Restart PROVE IInv'
<1>1. /\ sessions' = {} /\ known' = account /\ UNCHANGED <<account, issued, cookie, page>>
      /\ calls' = [d \in Calls |-> calls'[d]]
  BY DEF Restart, browser
<1>2. account \in Nat /\ issued \in Nat /\ 0 \in 0..MaxAccount
  BY Parts, SessionAssumption
<1>3. ASSUME NEW d \in Calls
      PROVE  calls'[d] = calls[d] \/ Quieter(calls'[d], calls[d], issued)
  <2>1. Sound(calls[d], issued)
    BY Parts
  <2>2. calls'[d] = Dropped(calls[d])
    BY DEF Restart
  <2> QED
    BY <1>2, <2>1, <2>2, DroppedQuiet
<1> QED
  BY <1>1, <1>2, <1>3, QuietCalls, Parts

LEMMA InvNext == IInv /\ [Next]_vars => IInv'
<1> SUFFICES ASSUME IInv, [Next]_vars PROVE IInv'
  OBVIOUS
<1>1. CASE UNCHANGED vars
  <2>1. UNCHANGED <<account, known, sessions, issued, cookie, page, calls>>
    BY <1>1 DEF vars, server, browser
  <2> QED
    BY <2>1, QuietCalls, Parts
<1> QED
  BY <1>1, InvServe, InvSettle, InvLose, InvUse, InvExpire, InvRestart DEF Next

LEMMA Always == Spec => []IInv
BY InvInit, InvNext, PTL DEF Spec

-----------------------------------------------------------------------------
(* Pages and the requests they wait for                                    *)

\* A page that asks for the first account has not been in the console before.
PageInv ==
    /\ PageHasItsRequest
    /\ \A t \in Tabs : page[t] = "setup" => \A d \in Calls : Asks(d, t) => Leads(d, t)

LEMMA PageInit == Init => PageInv
BY DEF Init, Idle, PageInv, PageHasItsRequest, Asks, Leads

\* The request c is asked for on behalf of the same tab and of the same kind.
SameAsk(c) ==
    /\ calls'[c].waits <=> calls[c].waits
    /\ calls[c].waits => calls'[c].tab = calls[c].tab /\ calls'[c].kind = calls[c].kind

LEMMA SameLeads ==
    ASSUME NEW c, SameAsk(c)
    PROVE  \A t : (Asks(c, t)' <=> Asks(c, t)) /\ (Leads(c, t)' <=> Leads(c, t))
BY DEF SameAsk, Asks, Leads

LEMMA PageKept ==
    ASSUME PageInv, UNCHANGED page, \A c \in Calls : SameAsk(c)
    PROVE  PageInv'
<1>1. \A c \in Calls, t \in Tabs : /\ Asks(c, t)' <=> Asks(c, t)
                                   /\ Leads(c, t)' <=> Leads(c, t)
                                   /\ Leads(c, t) => calls'[c].kind = calls[c].kind
  BY SameLeads DEF SameAsk, Leads, Asks
<1> QED
  BY <1>1 DEF PageInv, PageHasItsRequest

LEMMA ClosedAsks ==
    ASSUME NEW call, call.waits, NEW status, NEW set, NEW body,
           NEW n, Sound(call, n)
    PROVE  LET new == Closed(call, status, set, body)
           IN  new.waits /\ new.tab = call.tab /\ new.kind = call.kind
BY DEF Closed, Sound, Requests

LEMMA AnswerAsks ==
    ASSUME IInv, NEW c \in Calls, NEW status, NEW set, NEW body, Answer(c, status, set, body)
    PROVE  \A d \in Calls : SameAsk(d)
<1>1. calls = [d \in Calls |-> calls[d]] /\ Sound(calls[c], issued)
  BY Parts
<1>2. calls'[c] = Closed(calls[c], status, set, body) /\ \A d \in Calls : d # c => calls'[d] = calls[d]
  BY <1>1 DEF Answer, Closed
<1>3. CASE calls[c].waits
  <2>1. SameAsk(c)
    BY <1>1, <1>2, <1>3, ClosedAsks DEF SameAsk
  <2> QED  BY <1>2, <2>1 DEF SameAsk
<1>4. CASE ~calls[c].waits
  <2>1. calls'[c] = Idle /\ ~Idle.waits
    BY <1>2, <1>4 DEF Closed, Idle
  <2> QED  BY <1>2, <1>4, <2>1 DEF SameAsk
<1> QED  BY <1>3, <1>4

LEMMA GoesAsks ==
    ASSUME IInv, NEW c \in Calls, NEW pc, Goes(c, pc)
    PROVE  \A d \in Calls : SameAsk(d)
<1>1. calls = [d \in Calls |-> calls[d]] /\ Sound(calls[c], issued)
  BY Parts
<1>2. calls'[c] = [calls[c] EXCEPT !.pc = pc] /\ \A d \in Calls : d # c => calls'[d] = calls[d]
  BY <1>1 DEF Goes
<1> QED  BY <1>1, <1>2 DEF SameAsk, Sound, Requests

LEMMA PageServe == ASSUME IInv, PageInv, NEW c \in Calls, Serve(c) PROVE PageInv'
<1>1. UNCHANGED page
  BY DEF Serve, GetStatus, Admit, Read, Logout, Setup, SetupCommitOnly, SetupConflict, Verify,
         Rotate, Establish, EstablishFails, Account, Revoke, AccountCommitOnly, Refuse, browser
<1>2. \/ \E status, set, body : Answer(c, status, set, body)
      \/ \E pc : Goes(c, pc)
  BY DEF Serve, GetStatus, Admit, Read, Logout, Setup, SetupCommitOnly, SetupConflict, Verify,
         Rotate, Establish, EstablishFails, Account, Revoke, AccountCommitOnly, Refuse
<1>3. \A d \in Calls : SameAsk(d)
  BY <1>2, AnswerAsks, GoesAsks
<1> QED  BY <1>1, <1>3, PageKept

\* A page that is not starting asks for something that leads nowhere else, or
\* submits its form.
LEMMA PageSend ==
    ASSUME IInv, PageInv, NEW t \in Tabs, NEW c \in Calls, NEW kind \in Kinds, NEW body,
           Send(c, t, kind, body),
           \/ page[t] = "console" /\ PageOf(kind) = "any"
           \/ page[t] = PageOf(kind) /\ kind \in {"setup", "login"} /\ ~Busy(t, kind)
    PROVE  PageInv'
<1>1. UNCHANGED page /\ ~calls[c].waits /\ calls'[c] = New(t, kind, body, cookie)
  BY Parts DEF Send, browser, Sound
<1>2. calls'[c].waits /\ calls'[c].tab = t /\ calls'[c].kind = kind
  BY <1>1 DEF New, Idle
<1>3. \A d \in Calls : d # c => SameAsk(d)
  BY Parts DEF Send, SameAsk
<1>4. \A d \in Calls, u \in Tabs : d # c =>
          (Asks(d, u)' <=> Asks(d, u)) /\ (Leads(d, u)' <=> Leads(d, u))
  BY <1>3, SameLeads
<1>5. \A d \in Calls, u \in Tabs : d # c /\ Leads(d, u) => calls'[d].kind = calls[d].kind
  BY <1>3 DEF SameAsk, Leads, Asks
<1>6. \A u \in Tabs : /\ Asks(c, u)' <=> u = t
                      /\ Leads(c, u)' <=> u = t /\ PageOf(kind) # "any"
                      /\ ~Asks(c, u) /\ ~Leads(c, u)
  BY <1>1, <1>2 DEF Asks, Leads
<1>7. \A u \in Tabs : u # t => \A d \in Calls : /\ Asks(d, u)' <=> Asks(d, u)
                                                /\ Leads(d, u)' <=> Leads(d, u)
  BY <1>4, <1>6
<1>8. PageOf(kind) # "any" => \A d \in Calls : ~Leads(d, t)
  <2> SUFFICES ASSUME PageOf(kind) # "any", NEW d \in Calls, Leads(d, t) PROVE FALSE
    OBVIOUS
  <2>1. page[t] = PageOf(kind) /\ kind \in {"setup", "login"} /\ ~Busy(t, kind)
    OBVIOUS
  <2>2. PageOf(calls[d].kind) = kind
    BY <2>1 DEF PageInv, PageHasItsRequest, PageOf
  <2>3. calls[d].kind = kind
    BY <2>1, <2>2 DEF PageOf
  <2> QED  BY <2>1, <2>3 DEF Busy, Leads, Asks
<1>9. page[t] # "loading" /\ (page[t] = "setup" => PageOf(kind) # "any")
  BY DEF PageOf
<1>10. PageHasItsRequest'
  <2> SUFFICES ASSUME NEW u \in Tabs
               PROVE  /\ \A d \in Calls : Leads(d, u)' => page[u] = PageOf(calls'[d].kind)
                      /\ \A d, e \in Calls : Leads(d, u)' /\ Leads(e, u)' => d = e
                      /\ page[u] = "loading" =>
                            \E d \in Calls : Leads(d, u)' /\ \A e \in Calls : Asks(e, u)' => e = d
    BY <1>1 DEF PageHasItsRequest
  <2>1. CASE u = t
    <3>1. \A d \in Calls : Leads(d, t)' => page[t] = PageOf(calls'[d].kind)
      BY <1>2, <1>4, <1>5, <1>6 DEF PageInv, PageHasItsRequest
    <3>2. \A d, e \in Calls : Leads(d, t)' /\ Leads(e, t)' => d = e
      BY <1>4, <1>6, <1>8 DEF PageInv, PageHasItsRequest
    <3> QED  BY <1>9, <2>1, <3>1, <3>2
  <2>2. CASE u # t
    BY <1>5, <1>6, <1>7, <2>2 DEF PageInv, PageHasItsRequest
  <2> QED  BY <2>1, <2>2
<1>11. \A u \in Tabs : page[u] = "setup" => \A d \in Calls : Asks(d, u)' => Leads(d, u)'
  BY <1>4, <1>6, <1>7, <1>9 DEF PageInv
<1> QED  BY <1>1, <1>10, <1>11 DEF PageInv

LEMMA AbandonedAsks ==
    ASSUME NEW n, NEW call, Sound(call, n)
    PROVE  ~Abandoned(call).waits
BY DEF Abandoned, Idle, Sound, Requests

\* The page starts over: what it had asked before is abandoned.
LEMMA PageOpen == ASSUME IInv, PageInv, NEW t \in Tabs, NEW c \in Calls, Open(t, c) PROVE PageInv'
<1>1. page'[t] = "loading" /\ \A u \in Tabs : u # t => page'[u] = page[u]
  BY Parts DEF Open
<1>2. calls'[c] = New(t, "status", 0, cookie) /\ ~calls[c].waits
  BY Parts DEF Open, Sound
<1>3. Asks(c, t)' /\ Leads(c, t)' /\ \A u \in Tabs : u # t => ~Asks(c, u) /\ ~Asks(c, u)'
  BY <1>2 DEF New, Idle, Asks, Leads, PageOf
<1>4. calls'[c].kind = "status"
  BY <1>2 DEF New, Idle
<1>5. \A d \in Calls : d # c /\ calls[d].tab = t => ~calls'[d].waits
  BY AbandonedAsks, Parts DEF Open
<1>6. \A d \in Calls : d # c /\ calls[d].tab # t => calls'[d] = calls[d]
  BY DEF Open
<1>7. \A d \in Calls : Asks(d, t)' => d = c
  BY <1>5, <1>6 DEF Asks
<1>8. \A u \in Tabs, d \in Calls : u # t =>
          /\ Asks(d, u)' <=> Asks(d, u)
          /\ Leads(d, u)' <=> Leads(d, u)
          /\ Leads(d, u) => calls'[d].kind = calls[d].kind
  BY <1>3, <1>5, <1>6 DEF Asks, Leads
<1>9. PageHasItsRequest'
  <2> SUFFICES ASSUME NEW u \in Tabs
               PROVE  /\ \A d \in Calls : Leads(d, u)' => page'[u] = PageOf(calls'[d].kind)
                      /\ \A d, e \in Calls : Leads(d, u)' /\ Leads(e, u)' => d = e
                      /\ page'[u] = "loading" =>
                            \E d \in Calls : Leads(d, u)' /\ \A e \in Calls : Asks(e, u)' => e = d
    BY DEF PageHasItsRequest
  <2>1. CASE u = t
    BY <1>1, <1>3, <1>4, <1>7, <2>1 DEF Leads, PageOf
  <2>2. CASE u # t
    BY <1>1, <1>8, <2>2 DEF PageInv, PageHasItsRequest
  <2> QED  BY <2>1, <2>2
<1>10. \A u \in Tabs : page'[u] = "setup" => \A d \in Calls : Asks(d, u)' => Leads(d, u)'
  BY <1>1, <1>8 DEF PageInv
<1> QED  BY <1>9, <1>10 DEF PageInv

LEMMA PageUse == ASSUME IInv, PageInv, NEW t \in Tabs, NEW c \in Calls, Use(t, c) PROVE PageInv'
<1>1. {"setup", "login", "logout", "load", "account"} \subseteq Kinds
  BY DEF Kinds, Guarded
<1>2. /\ PageOf("setup") = "setup" /\ PageOf("login") = "login"
      /\ PageOf("logout") = "any" /\ PageOf("load") = "any" /\ PageOf("account") = "any"
  BY DEF PageOf
<1>3. CASE Open(t, c)
  BY <1>3, PageOpen
<1>4. CASE SubmitSetup(t, c)
  BY <1>1, <1>2, <1>4, PageSend DEF SubmitSetup
<1>5. CASE SubmitLogin(t, c)
  BY <1>1, <1>2, <1>5, PageSend DEF SubmitLogin
<1>6. CASE DoLogout(t, c)
  BY <1>1, <1>2, <1>6, PageSend DEF DoLogout
<1>7. CASE Work(t, c)
  BY <1>1, <1>2, <1>7, PageSend DEF Work
<1> QED  BY <1>3, <1>4, <1>5, <1>6, <1>7 DEF Use

\* A request is settled: one that leads somewhere ends, the start goes on to its
\* second request, or one that leads nowhere ends or is followed by a logout.
LEMMA PageSettled ==
    ASSUME IInv, PageInv, NEW c \in Calls, NEW t \in Tabs, Asks(c, t),
           \A d \in Calls : d # c => calls'[d] = calls[d],
           NEW p, page' = [page EXCEPT ![t] = p],
           \/ /\ Leads(c, t) /\ ~calls'[c].waits /\ p # "loading"
              /\ p = "setup" => page[t] \in {"loading", "setup"}
           \/ /\ calls[c].kind = "status" /\ p = "loading"
              /\ calls'[c].waits /\ calls'[c].tab = t /\ calls'[c].kind = "session"
           \/ /\ ~Leads(c, t) /\ p \in {page[t], "login"}
              /\ calls'[c].waits => calls'[c].tab = t /\ calls'[c].kind = "logout"
    PROVE  PageInv'
<1>1. page'[t] = p /\ \A u \in Tabs : u # t => page'[u] = page[u]
  BY Parts
<1>2. \A u \in Tabs : u # t => ~Asks(c, u) /\ ~Asks(c, u)'
  BY DEF Asks
<1>3. \A d \in Calls, u \in Tabs : d # c =>
          /\ Asks(d, u)' <=> Asks(d, u)
          /\ Leads(d, u)' <=> Leads(d, u)
          /\ calls'[d].kind = calls[d].kind
  BY DEF Asks, Leads
<1>4. \A d \in Calls, u \in Tabs : u # t =>
          /\ Asks(d, u)' <=> Asks(d, u)
          /\ Leads(d, u)' <=> Leads(d, u)
          /\ Leads(d, u) => calls'[d].kind = calls[d].kind
  BY <1>2, <1>3 DEF Leads
<1>5. SUFFICES
        /\ \A d \in Calls : Leads(d, t)' => p = PageOf(calls'[d].kind)
        /\ \A d, e \in Calls : Leads(d, t)' /\ Leads(e, t)' => d = e
        /\ p = "loading" => \E d \in Calls : Leads(d, t)' /\ \A e \in Calls : Asks(e, t)' => e = d
        /\ p = "setup" => \A d \in Calls : Asks(d, t)' => Leads(d, t)'
  <2>1. ASSUME NEW u \in Tabs, u # t
        PROVE  /\ \A d \in Calls : Leads(d, u)' => page'[u] = PageOf(calls'[d].kind)
               /\ \A d, e \in Calls : Leads(d, u)' /\ Leads(e, u)' => d = e
               /\ page'[u] = "loading" =>
                     \E d \in Calls : Leads(d, u)' /\ \A e \in Calls : Asks(e, u)' => e = d
               /\ page'[u] = "setup" => \A d \in Calls : Asks(d, u)' => Leads(d, u)'
    BY <1>1, <1>4, <2>1 DEF PageInv, PageHasItsRequest
  <2> QED  BY <1>1, <2>1 DEF PageInv, PageHasItsRequest
<1>6. CASE Leads(c, t) /\ ~calls'[c].waits /\ p # "loading"
           /\ (p = "setup" => page[t] \in {"loading", "setup"})
  <2>1. \A d \in Calls : ~Leads(d, t)'
    BY <1>3, <1>6 DEF PageInv, PageHasItsRequest, Leads, Asks
  <2>2. ~Asks(c, t)' /\ \A d \in Calls : Asks(d, t)' => Asks(d, t) /\ d # c
    BY <1>3, <1>6 DEF Asks
  <2>3. p = "setup" => \A d \in Calls : Asks(d, t) => d = c
    BY <1>6 DEF PageInv, PageHasItsRequest
  <2> QED  BY <1>6, <2>1, <2>2, <2>3
<1>7. CASE calls[c].kind = "status" /\ p = "loading"
           /\ calls'[c].waits /\ calls'[c].tab = t /\ calls'[c].kind = "session"
  <2>1. Leads(c, t) /\ page[t] = "loading"
    BY <1>7 DEF PageInv, PageHasItsRequest, Leads, PageOf
  <2>2. \A d \in Calls : Asks(d, t) => d = c
    BY <2>1 DEF PageInv, PageHasItsRequest, Leads
  <2>3. Asks(c, t)' /\ Leads(c, t)' /\ PageOf(calls'[c].kind) = "loading"
    BY <1>7 DEF Asks, Leads, PageOf
  <2>4. \A d \in Calls : Asks(d, t)' => d = c
    BY <1>3, <2>2
  <2> QED  BY <1>7, <2>3, <2>4 DEF Leads
<1>8. CASE ~Leads(c, t) /\ p \in {page[t], "login"}
           /\ (calls'[c].waits => calls'[c].tab = t /\ calls'[c].kind = "logout")
  <2>1. page[t] # "loading" /\ page[t] # "setup"
    BY <1>8 DEF PageInv, PageHasItsRequest
  <2>2. ~Leads(c, t)'
    BY <1>8 DEF Leads, Asks, PageOf
  <2>3. \A d \in Calls : Leads(d, t)' => d # c /\ Leads(d, t) /\ calls'[d].kind = calls[d].kind
    BY <1>3, <2>2
  <2>4. \A d \in Calls : Leads(d, t) => page[t] = PageOf(calls[d].kind)
    BY DEF PageInv, PageHasItsRequest
  <2>5. \A d \in Calls : Leads(d, t) => page[t] = "login"
    BY <2>1, <2>4 DEF Leads, PageOf
  <2>6. \A d \in Calls : Leads(d, t)' => p = PageOf(calls'[d].kind)
    BY <1>8, <2>3, <2>4, <2>5
  <2>7. \A d, e \in Calls : Leads(d, t)' /\ Leads(e, t)' => d = e
    BY <2>3 DEF PageInv, PageHasItsRequest
  <2>8. p # "loading" /\ p # "setup"
    BY <1>8, <2>1
  <2> QED  BY <2>6, <2>7, <2>8
<1> QED  BY <1>6, <1>7, <1>8

\* Where the answer, or its loss, leads
LEMMA WhereTo ==
    ASSUME IInv, PageInv, NEW c \in Calls, NEW t \in Tabs, Asks(c, t), NEW status, NEW sent
    PROVE  \/ /\ Leads(c, t) /\ Follow(c, status, sent) = Idle
              /\ NextPage(c, status) # "loading"
              /\ NextPage(c, status) = "setup" => page[t] \in {"loading", "setup"}
           \/ /\ calls[c].kind = "status" /\ NextPage(c, status) = "loading" /\ status = "ok"
              /\ Follow(c, status, sent) = New(t, "session", 0, sent)
           \/ /\ ~Leads(c, t) /\ NextPage(c, status) \in {page[t], "login"}
              /\ Follow(c, status, sent) \in {Idle, New(t, "logout", 0, sent)}
<1>1. calls[c].tab = t /\ calls[c].waits
  BY DEF Asks
<1>2. Leads(c, t) => page[t] = PageOf(calls[c].kind)
  BY DEF PageInv, PageHasItsRequest
<1>3. CASE calls[c].kind = "status"
  <2>1. Leads(c, t) /\ page[t] = "loading"
    BY <1>2, <1>3 DEF Leads, PageOf
  <2> QED  BY <1>1, <1>3, <2>1 DEF NextPage, Boot, Follow
<1>4. CASE calls[c].kind = "session"
  <2>1. Leads(c, t) /\ page[t] = "loading"
    BY <1>2, <1>4 DEF Leads, PageOf
  <2> QED  BY <1>1, <1>4, <2>1 DEF NextPage, Boot, Follow
<1>5. CASE calls[c].kind \in {"setup", "login"}
  <2>1. Leads(c, t) /\ page[t] = calls[c].kind
    BY <1>2, <1>5 DEF Leads, PageOf
  <2> QED  BY <1>1, <1>5, <2>1 DEF NextPage, Follow
<1>6. CASE calls[c].kind \in {"logout", "account", "load"}
  <2>1. ~Leads(c, t)
    BY <1>6 DEF Leads, PageOf
  <2> QED  BY <1>1, <1>6, <2>1 DEF NextPage, LoggedOut, Follow
<1>7. calls[c].kind \in Kinds
  BY Parts DEF Sound, Requests
<1> QED  BY <1>3, <1>4, <1>5, <1>6, <1>7 DEF Kinds, Guarded

LEMMA PageSettle == ASSUME IInv, PageInv, NEW c \in Calls, Settle(c) PROVE PageInv'
<1>1. calls[c].waits /\ calls[c].tab \in Tabs
  BY Parts DEF Settle, Sound
<1>2. PICK t \in Tabs : t = calls[c].tab
  BY <1>1
<1>3. PICK status, p, new : /\ status = calls[c].status /\ p = NextPage(c, status)
                            /\ new = Follow(c, status, cookie')
  OBVIOUS
<1>4. /\ page' = [page EXCEPT ![t] = p] /\ calls'[c] = new
      /\ \A d \in Calls : d # c => calls'[d] = calls[d]
  BY <1>2, <1>3, Parts DEF Settle
<1>5. Asks(c, t)
  BY <1>1, <1>2 DEF Asks
<1>6. /\ ~Idle.waits
      /\ \A kind : LET call == New(t, kind, 0, cookie')
                   IN  call.waits /\ call.tab = t /\ call.kind = kind
  BY DEF Idle, New
<1>7. \/ /\ Leads(c, t) /\ new = Idle /\ p # "loading"
         /\ p = "setup" => page[t] \in {"loading", "setup"}
      \/ calls[c].kind = "status" /\ p = "loading" /\ new = New(t, "session", 0, cookie')
      \/ ~Leads(c, t) /\ p \in {page[t], "login"} /\ new \in {Idle, New(t, "logout", 0, cookie')}
  BY <1>3, <1>5, WhereTo
<1>8. \/ /\ Leads(c, t) /\ ~calls'[c].waits /\ p # "loading"
         /\ p = "setup" => page[t] \in {"loading", "setup"}
      \/ /\ calls[c].kind = "status" /\ p = "loading"
         /\ calls'[c].waits /\ calls'[c].tab = t /\ calls'[c].kind = "session"
      \/ /\ ~Leads(c, t) /\ p \in {page[t], "login"}
         /\ calls'[c].waits => calls'[c].tab = t /\ calls'[c].kind = "logout"
  BY <1>4, <1>6, <1>7
<1> QED  BY <1>4, <1>5, <1>8, PageSettled

LEMMA PageLose == ASSUME IInv, PageInv, NEW c \in Calls, Lose(c) PROVE PageInv'
<1>1. calls[c].waits /\ calls[c].tab \in Tabs
  BY Parts DEF Lose, Sound
<1>2. PICK t \in Tabs : t = calls[c].tab
  BY <1>1
<1>3. PICK p : p = NextPage(c, "failed")
  OBVIOUS
<1>4. /\ page' = [page EXCEPT ![t] = p]
      /\ calls'[c] = Idle \/ calls'[c] = Abandoned(calls[c])
      /\ \A d \in Calls : d # c => calls'[d] = calls[d]
  BY <1>2, <1>3, Parts DEF Lose
<1>5. Asks(c, t)
  BY <1>1, <1>2 DEF Asks
<1>6. ~calls'[c].waits
  BY <1>4, AbandonedAsks, Parts DEF Idle
<1> QED  BY <1>3, <1>4, <1>5, <1>6, WhereTo, PageSettled

LEMMA DroppedAsks ==
    ASSUME NEW n, NEW call, Sound(call, n)
    PROVE  /\ Dropped(call).waits <=> call.waits
           /\ call.waits => Dropped(call).tab = call.tab /\ Dropped(call).kind = call.kind
BY DEF Dropped, Idle, Sound, Requests

LEMMA PageNext == IInv /\ PageInv /\ [Next]_vars => PageInv'
<1> SUFFICES ASSUME IInv, PageInv, [Next]_vars PROVE PageInv'
  OBVIOUS
<1>1. CASE UNCHANGED vars \/ Expire
  BY <1>1, PageKept DEF vars, browser, Expire, SameAsk
<1>2. CASE Restart
  <2>1. UNCHANGED page /\ \A d \in Calls : calls'[d] = Dropped(calls[d])
    BY <1>2 DEF Restart, browser
  <2>2. \A d \in Calls : SameAsk(d)
    BY <2>1, DroppedAsks, Parts DEF SameAsk
  <2> QED  BY <2>1, <2>2, PageKept
<1> QED
  BY <1>1, <1>2, PageServe, PageSettle, PageLose, PageUse DEF Next

-----------------------------------------------------------------------------
(* Theorems                                                                *)

\* The types, and that who is past requireSession has a token (server.go)
THEOREM SessionTypes == Spec => []TypeOK
<1>1. IInv => TypeOK
  BY DEF IInv
<1> QED
  BY <1>1, Always, PTL

\* A session that a logout, a login or a change of the account has ended does
\* not come back: no handler that was let in before can revive it.
THEOREM EndedForGood == Spec => []EndedStaysEnded
<1>1. IInv => EndedStaysEnded
  BY DEF IInv
<1> QED
  BY <1>1, Always, PTL

\* SetupAdmin: of any number of concurrent setups one succeeds.
THEOREM SetupHasOneFounder == Spec => []OneFounder
<1>1. IInv => OneFounder
  BY DEF IInv
<1> QED
  BY <1>1, Always, PTL

\* App's effect, its forms and doLogout (App.tsx): the answer to a start, a setup
\* or a login always finds the page that asked, and a page that is loading has
\* exactly one request under way, however pages are reloaded and answers lost.
THEOREM AnswersFindTheirPage == Spec => []PageHasItsRequest
<1>1. PageInv => PageHasItsRequest
  BY DEF PageInv
<1> QED
  BY <1>1, PageInit, PageNext, Always, PTL DEF Spec
============================================================================
