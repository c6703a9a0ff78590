----------------------------- MODULE ConfigPage -----------------------------
(***************************************************************************)
(* The configuration page of the web console (frontend/src/App.tsx) and    *)
(* the server it edits (internal/web/config_api.go, internal/storage).     *)
(*                                                                         *)
(* The page keeps a copy of the configuration in which the user types, a   *)
(* cache of revealed secrets, and flags that lock its buttons while a      *)
(* request is on its way.  The server keeps the configuration twice: in    *)
(* the database and in memory.  An action is one event handler of the page *)
(* (user input, or the answer to a request, up to its next await), or what *)
(* the server does for one request.  Of the configuration the model keeps  *)
(* the revision, the targets, and which adapters are enabled with which    *)
(* token; the other fields of the forms are copied and sent the same way.  *)
(*                                                                         *)
(* The page is that of one browser tab, which may be left and visited      *)
(* again.  What other tabs and sessions save, and what this one has given  *)
(* up, is the server's step Elsewhere, at any time: the page is not told.  *)
(***************************************************************************)
EXTENDS Naturals

CONSTANTS
    Adapters,   \* the message adapters: "openilink", "telegram"
    Tokens,     \* tokens an adapter can have
    None,       \* no token: the empty string
    Targets,    \* IDs of targets; the database never uses one twice
    Readers,    \* reveals that may be in flight at once
    Savers,     \* saves of this visit that may be in flight at once
    MaxRev      \* bound: writes to the database

ASSUME ConfigPageAssumption ==
    /\ MaxRev \in Nat
    /\ None \notin Tokens
    /\ {"none", "new", "key"} \cap (Adapters \cup Targets) = {}

VARIABLES
    db,          \* the configuration in the database
    used,        \* target IDs the database has given out
    mem,         \* s.configSnapshot
    page,        \* "closed", "loading" (data is null) or "open"
    load,        \* the answer to getConfiguration, once there is one
    data,        \* data: the page's copy, edited in place
    section,     \* section
    editing,     \* editing: a target, "new" or "none"
    token,       \* token, telegramToken
    clear,       \* clearToken, clearTelegramToken
    secrets,     \* secrets: the tokens in the cache, not known for null
    busy,        \* busy
    secretsBusy, \* secretsBusy
    reads,       \* calls of SecretInput's toggle that await the secrets
    saves        \* saves in flight whose answer is awaited

server == <<db, used, mem>>
view   == <<server, page, load, data>>
forms  == <<section, editing, token, clear>>
locks  == <<secrets, busy, secretsBusy>>
rest   == <<server, page, load, locks, saves>>   \* what typing leaves alone
vars   == <<view, forms, locks, reads, saves>>

MaybeToken == Tokens \cup {None}
Sections   == {"targets", "openilink", "settings"}  \* the last: tasks, runtime, account
Fields     == Adapters \cup {"key"}     \* inputs that can reveal a secret

Configs(revs) == [rev : revs, targets : SUBSET Targets,
                  enabled : [Adapters -> BOOLEAN], token : [Adapters -> MaybeToken]]
Views(revs) == [rev : revs, targets : SUBSET Targets,
                enabled : [Adapters -> BOOLEAN], set : SUBSET Adapters]

\* configurationPayload: the configuration without its secrets
Payload(c) == [rev |-> c.rev, targets |-> c.targets, enabled |-> c.enabled,
               set |-> {a \in Adapters : c.token[a] # None}]

NoTokens  == [a \in Adapters |-> None]
NoClear   == [a \in Adapters |-> FALSE]
NoView    == [rev |-> 0, targets |-> {}, enabled |-> NoClear, set |-> {}]
NoSecrets == [known |-> FALSE, of |-> NoTokens]
NoRead    == [pc |-> "none", field |-> "none", live |-> FALSE, got |-> NoTokens]
NoSave    == [pc |-> "none", op |-> "none", what |-> "none", token |-> None, on |-> FALSE,
              clear |-> FALSE, result |-> NoView]

Init ==
    /\ db \in Configs({1})
    /\ \A a \in Adapters : db.enabled[a] => db.token[a] # None
    /\ mem = db /\ used = db.targets
    /\ page = "closed" /\ load = NoView /\ data = NoView
    /\ section = "targets" /\ editing = "none" /\ token = NoTokens /\ clear = NoClear
    /\ secrets = NoSecrets /\ busy = FALSE /\ secretsBusy = FALSE
    /\ reads = [r \in Readers |-> NoRead]
    /\ saves = [s \in Savers |-> NoSave]

Reading == {r \in Readers : reads[r].pc # "none"}
Saving  == {s \in Savers : saves[s].pc # "none"}

-----------------------------------------------------------------------------
(* Visiting the page                                                       *)

\* The page is mounted and asks for the configuration.
Open ==
    /\ page = "closed"
    /\ page' = "loading"
    /\ UNCHANGED <<server, load, data, forms, locks, reads, saves>>

GetConfiguration ==
    /\ page = "loading" /\ load = NoView
    /\ load' = Payload(mem)
    /\ UNCHANGED <<server, page, data, forms, locks, reads, saves>>

\* load: the answer is shown.  (Without one the page says so, and stays as it
\* is until the user leaves it.)
Load ==
    /\ page = "loading" /\ load # NoView
    /\ page' = "open" /\ data' = load /\ load' = NoView
    /\ UNCHANGED <<server, forms, locks, reads, saves>>

\* The page is left (another view, a logout, a reload of the browser): its
\* state goes.  What the server has been sent it may still do: see Elsewhere.
Unmount ==
    /\ page' = "closed" /\ load' = NoView /\ data' = NoView
    /\ section' = "targets" /\ editing' = "none" /\ token' = NoTokens /\ clear' = NoClear
    /\ secrets' = NoSecrets /\ busy' = FALSE /\ secretsBusy' = FALSE
    /\ reads' = [r \in Readers |-> NoRead] /\ saves' = [s \in Savers |-> NoSave]
    /\ UNCHANGED server
Leave ==
    /\ page # "closed"
    /\ Unmount

-----------------------------------------------------------------------------
(* Typing                                                                  *)

\* The "enabled" checkbox of an adapter
SetEnabled(a, on) ==
    /\ page = "open" /\ section = "openilink" /\ data.enabled[a] # on
    /\ data' = [data EXCEPT !.enabled[a] = on]
    /\ clear' = IF on THEN [clear EXCEPT ![a] = FALSE] ELSE clear
    /\ UNCHANGED <<rest, section, editing, token, reads>>

\* The "clear token" checkbox, disabled while the adapter is enabled
SetClear(a, on) ==
    /\ page = "open" /\ section = "openilink" /\ ~data.enabled[a] /\ clear[a] # on
    /\ clear' = [clear EXCEPT ![a] = on]
    /\ UNCHANGED <<rest, data, section, editing, token, reads>>

\* A secret input is disabled while it awaits a reveal.
Loading(f) == \E r \in Readers : reads[r].field = f /\ reads[r].live

TypeToken(a, value) ==
    /\ page = "open" /\ section = "openilink" /\ ~secretsBusy /\ ~Loading(a)
    /\ token' = [token EXCEPT ![a] = value]
    /\ UNCHANGED <<rest, data, section, editing, clear, reads>>

\* Secret inputs that are unmounted: their reveals go on without them.
Without(fields) ==
    [r \in Readers |-> [reads[r] EXCEPT !.live = @ /\ reads[r].field \notin fields]]

\* Fault: changing the section also unlocks the buttons
SetSectionUnlocks(value) ==
    /\ page = "open"
    /\ section' = value /\ editing' = "none" /\ busy' = FALSE
    /\ reads' = Without(IF value = section THEN {"key"} ELSE Fields)
    /\ UNCHANGED <<view, token, clear, secrets, secretsBusy, saves>>

\* setSection
SetSection(value) ==
    /\ page = "open"
    /\ section' = value /\ editing' = "none"
    /\ reads' = Without(IF value = section THEN {"key"} ELSE Fields)
    /\ UNCHANGED <<rest, data, token, clear>>

\* The buttons to add and to edit a target, disabled while an editor is open
Edit(target) ==
    /\ page = "open" /\ section = "targets" /\ editing = "none"
    /\ target = "new" \/ target \in data.targets
    /\ editing' = target
    /\ UNCHANGED <<rest, data, section, token, clear, reads>>

Cancel ==
    /\ page = "open" /\ editing # "none"
    /\ editing' = "none" /\ reads' = Without({"key"})
    /\ UNCHANGED <<rest, data, section, token, clear>>

-----------------------------------------------------------------------------
(* Revealing a secret: SecretInput's toggle, for an input that is empty.   *)
(* Showing and hiding what is already there changes nothing else.          *)

\* onChange with a revealed secret.  An adapter's token is kept by the page,
\* so an input that is gone still sets it.  (The key belongs to the editor.)
Fill(f, tokens) == token' = IF f \in Adapters THEN [token EXCEPT ![f] = tokens[f]] ELSE token

\* The button is there and enabled, and the input may be empty.
CanReveal(f) ==
    /\ page = "open" /\ ~Loading(f)
    /\ IF f = "key" THEN editing \in Targets /\ ~busy
       ELSE section = "openilink" /\ f \in data.set /\ token[f] = None /\ ~secretsBusy

\* revealSecrets, from the cache
RevealCached(f) ==
    /\ CanReveal(f) /\ secrets.known
    /\ Fill(f, secrets.of)
    /\ UNCHANGED <<rest, data, section, editing, clear, reads>>

\* revealSecrets, up to its await
Reveal(f, r) ==
    /\ CanReveal(f) /\ ~secrets.known /\ r \notin Reading
    /\ reads' = [reads EXCEPT ![r] = [NoRead EXCEPT !.pc = "sent", !.field = f, !.live = TRUE]]
    /\ secretsBusy' = TRUE
    /\ UNCHANGED <<view, forms, secrets, busy, saves>>

\* getConfigSecrets answers from memory.
GetConfigSecrets(r) ==
    /\ reads[r].pc = "sent"
    /\ reads' = [reads EXCEPT ![r].pc = "ok", ![r].got = mem.token]
    /\ UNCHANGED <<rest, data, forms>>

\* The rest of revealSecrets and of toggle
Revealed(r) ==
    /\ reads[r].pc = "ok"
    /\ secrets' = [known |-> TRUE, of |-> reads[r].got]
    /\ Fill(reads[r].field, reads[r].got)
    /\ secretsBusy' = FALSE
    /\ reads' = [reads EXCEPT ![r] = NoRead]
    /\ UNCHANGED <<view, section, editing, clear, busy, saves>>

\* Fault: no finally around the await
RevealFailsLocked(r) ==
    /\ r \in Reading
    /\ reads' = [reads EXCEPT ![r] = NoRead]
    /\ UNCHANGED <<view, forms, locks, saves>>

\* The request is refused, or it or its answer is lost.
RevealFails(r) ==
    /\ r \in Reading
    /\ secretsBusy' = FALSE
    /\ reads' = [reads EXCEPT ![r] = NoRead]
    /\ UNCHANGED <<view, forms, secrets, busy, saves>>

-----------------------------------------------------------------------------
(* Saving                                                                  *)

Request(op, what) == [NoSave EXCEPT !.pc = "sent", !.op = op, !.what = what]

\* A slot for a new save: which of the free ones does not matter.
Free(s) == s \notin Saving /\ s = CHOOSE t \in Savers : t \notin Saving

\* runSave and its like, up to the await
BeginSave(s, request) ==
    /\ page = "open" /\ ~busy /\ Free(s)
    /\ busy' = TRUE
    /\ saves' = [saves EXCEPT ![s] = request]
    /\ UNCHANGED <<view, forms, secrets, secretsBusy, reads>>

\* saveCodex and the save of the Web section
SaveSettings(s) == section = "settings" /\ BeginSave(s, Request("settings", "none"))
SaveAccount(s)  == section = "settings" /\ BeginSave(s, Request("account", "none"))

\* updateOpenILink, updateTelegram
SaveAdapter(s, a) ==
    /\ section = "openilink"
    /\ BeginSave(s, [Request("adapter", a) EXCEPT !.token = token[a], !.clear = clear[a],
                                                 !.on = data.enabled[a]])

\* saveTarget
SaveTarget(s) ==
    /\ editing # "none"
    /\ BeginSave(s, IF editing = "new" THEN Request("create", "none")
                                       ELSE Request("update", editing))

DeleteTarget(s, t) ==
    section = "targets" /\ t \in data.targets /\ BeginSave(s, Request("delete", t))

-----------------------------------------------------------------------------
(* The server                                                              *)

\* The token a request leaves: a blank one keeps what is there.
NewToken(c, q) == IF q.token # None THEN q.token
                  ELSE IF q.clear THEN None ELSE c.token[q.what]

\* Whether a request is valid for a configuration.  The handlers ask this of
\* the one in memory (for an ID, of the manager's targets, which are the same),
\* and the store again of the database.
Valid(c, q) ==
    /\ q.op = "adapter" => /\ ~(q.clear /\ (q.on \/ q.token # None))
                           /\ q.on => NewToken(c, q) # None
    /\ q.op \in {"update", "delete"} => q.what \in c.targets

\* Fault: the store relies on the handler's check
StoreTrusts(q) == TRUE

ServerAccepts(q) == Valid(mem, q)
StoreAccepts(q)  == Valid(db, q)

\* What a request writes; t is the ID the database chooses for a new target.
Apply(q, t) ==
    [rev     |-> db.rev + 1,
     targets |-> CASE q.op = "create" -> db.targets \cup {t}
                   [] q.op = "delete" -> db.targets \ {q.what}
                   [] OTHER           -> db.targets,
     enabled |-> IF q.op = "adapter" THEN [db.enabled EXCEPT ![q.what] = q.on] ELSE db.enabled,
     token   |-> IF q.op = "adapter" THEN [db.token EXCEPT ![q.what] = NewToken(db, q)]
                                     ELSE db.token]
Write(q) ==
    /\ db.rev < MaxRev /\ ServerAccepts(q) /\ StoreAccepts(q)
    /\ IF q.op = "create"
         THEN \E t \in Targets \ used : db' = Apply(q, t) /\ used' = used \cup {t}
         ELSE db' = Apply(q, "none") /\ used' = used

\* The transaction commits, the snapshot is loaded and becomes current.
Commit(s) ==
    /\ saves[s].pc = "sent"
    /\ Write(saves[s]) /\ mem' = db'
    /\ saves' = [saves EXCEPT ![s].pc = "ok", ![s].result = Payload(mem')]
    /\ UNCHANGED <<page, load, data, forms, locks, reads>>

\* The transaction commits, but loadAfterCommit fails: the handler returns an
\* error and the configuration in memory stays what it was.
CommitOnly(s) ==
    /\ saves[s].pc = "sent"
    /\ Write(saves[s]) /\ mem' = mem
    /\ saves' = [saves EXCEPT ![s].pc = "failed"]
    /\ UNCHANGED <<page, load, data, forms, locks, reads>>

\* A save this page does not await: one of another tab or session, or one it
\* has given up, by leaving or because the connection failed.  To the page all
\* of it is one step, as the handlers hold configWriteMu from the check to the
\* new snapshot.
WriteElsewhere ==
    \/ \E op \in {"settings", "account", "create"} : Write(Request(op, "none"))
    \/ \E op \in {"update", "delete"}, t \in Targets : Write(Request(op, t))
    \/ \E a \in Adapters, v \in MaybeToken, on \in BOOLEAN, c \in BOOLEAN :
          Write([Request("adapter", a) EXCEPT !.token = v, !.on = on, !.clear = c])
Elsewhere ==
    /\ WriteElsewhere
    /\ mem' \in {db', mem}
    /\ UNCHANGED <<page, load, data, forms, locks, reads, saves>>

-----------------------------------------------------------------------------
(* The answers                                                             *)

\* setSecrets(null)
Forgets(op) == op \in {"adapter", "create", "update"}

\* applyResult, and what each save does with its form
Saved(s) ==
    LET q == saves[s] IN
    /\ q.pc = "ok" /\ q.op # "account"
    /\ data' = q.result /\ busy' = FALSE
    /\ token' = IF q.op = "adapter" THEN [token EXCEPT ![q.what] = None] ELSE token
    /\ clear' = IF q.op = "adapter" THEN [clear EXCEPT ![q.what] = FALSE] ELSE clear
    /\ IF q.op \in {"create", "update"} THEN editing' = "none" /\ reads' = Without({"key"})
                                        ELSE UNCHANGED <<editing, reads>>
    /\ secrets' = IF Forgets(q.op) THEN NoSecrets ELSE secrets
    /\ saves' = [saves EXCEPT ![s] = NoSave]
    /\ UNCHANGED <<server, page, load, section, secretsBusy>>

\* updateAccount(...).then(onLogout): the page is left
AccountSaved(s) ==
    /\ saves[s].pc = "ok" /\ saves[s].op = "account"
    /\ Unmount

\* The server answered with an error, or the request or its answer is lost.
\* A request whose connection has failed may still be handled: see Elsewhere.
SaveFails(s) ==
    /\ s \in Saving
    /\ busy' = FALSE
    /\ saves' = [saves EXCEPT ![s] = NoSave]
    /\ UNCHANGED <<view, forms, secrets, secretsBusy, reads>>

-----------------------------------------------------------------------------
Visit  == Open \/ GetConfiguration \/ Load \/ Leave
Typing ==
    \/ \E a \in Adapters, on \in BOOLEAN : SetEnabled(a, on) \/ SetClear(a, on)
    \/ \E a \in Adapters, v \in MaybeToken : TypeToken(a, v)
    \/ \E v \in Sections : SetSection(v)
    \/ \E t \in Targets \cup {"new"} : Edit(t)
    \/ Cancel
    \/ \E f \in Fields : RevealCached(f) \/ \E r \in Readers : Reveal(f, r)
StartSave(s) ==
    \/ SaveSettings(s) \/ SaveAccount(s) \/ SaveTarget(s)
    \/ \E a \in Adapters : SaveAdapter(s, a)
    \/ \E t \in Targets : DeleteTarget(s, t)
ReadStep(r) == GetConfigSecrets(r) \/ Revealed(r) \/ RevealFails(r)
SaveStep(s) == \/ Commit(s) \/ CommitOnly(s)
               \/ Saved(s) \/ AccountSaved(s) \/ SaveFails(s)

Next ==
    \/ Visit
    \/ Typing
    \/ Elsewhere
    \/ \E r \in Readers : ReadStep(r)
    \/ \E s \in Savers : StartSave(s) \/ SaveStep(s)

Spec == Init /\ [][Next]_vars

\* The server handles a request, and its answer, or the failure of the
\* connection, reaches the page.  Nothing is assumed of the user.
Fairness ==
    /\ \A s \in Savers : WF_vars(SaveStep(s))
    /\ \A r \in Readers : WF_vars(ReadStep(r))

FairSpec == Spec /\ Fairness

-----------------------------------------------------------------------------
(* Properties                                                              *)

ReadCalls ==
    [pc : {"none", "sent", "ok"}, field : Fields \cup {"none"}, live : BOOLEAN,
     got : [Adapters -> MaybeToken]]
SaveCalls ==
    [pc : {"none", "sent", "ok", "failed"},
     op : {"none", "settings", "account", "adapter", "create", "update", "delete"},
     what : Adapters \cup Targets \cup {"none"}, token : MaybeToken, on : BOOLEAN,
     clear : BOOLEAN, result : Views(Nat)]

\* Types of the two copies of the configuration, of the page and of the requests.
\* The page's copy never holds a token, only whether there is one.
TypeOK ==
    /\ db \in Configs(Nat) /\ mem \in Configs(Nat) /\ used \subseteq Targets
    /\ page \in {"closed", "loading", "open"}
    /\ load \in Views(Nat) /\ data \in Views(Nat)
    /\ section \in Sections /\ editing \in Targets \cup {"none", "new"}
    /\ token \in [Adapters -> MaybeToken] /\ clear \in [Adapters -> BOOLEAN]
    /\ secrets \in [known : BOOLEAN, of : [Adapters -> MaybeToken]]
    /\ busy \in BOOLEAN /\ secretsBusy \in BOOLEAN
    /\ reads \in [Readers -> ReadCalls] /\ saves \in [Savers -> SaveCalls]

\* The buttons are locked exactly while this visit has a save in flight, and
\* there is at most one: all forms and the editor share one flag, and any of
\* their answers unlocks it.
OneSave == /\ busy <=> Saving # {}
           /\ \A s, t \in Saving : s = t

\* An enabled adapter has a token, in memory and in the database, also when
\* the two differ because a snapshot could not be loaded after a commit.
EnabledHasToken ==
    \A c \in {mem, db} : \A a \in Adapters : c.enabled[a] => c.token[a] # None

\* The revision shown never goes back while the page stays open, although its
\* saves, given-up ones and those of other tabs reach the server in any order:
\* no answer is shown after that to a later request.
RevisionNeverBack == [][page = "open" /\ page' = "open" => data'.rev >= data.rev]_vars

\* The forms do not stay locked: every save and every reveal ends, whatever
\* its outcome.
FormsUnlock == []<>~busy /\ []<>~secretsBusy
=============================================================================
