---------------------------- MODULE ConfigProofs ----------------------------
(***************************************************************************)
(* Proofs about ConfigPage: for any adapters, targets and tokens and for   *)
(* any number of requests in flight, whatever other tabs save meanwhile.   *)
(*                                                                         *)
(* OneSave and EnabledHasToken are inductive with the types.  That the     *)
(* revision shown does not go back rests on the order of the copies        *)
(* (Ordered): the page's is not newer than the server's, and the answer    *)
(* to a save of this visit not older than the page's.  LocksHeld is what   *)
(* FormsUnlock rests on: a flag that is set has a request in flight that   *)
(* takes it back.                                                          *)
(***************************************************************************)
EXTENDS ConfigPage, TLAPS

\* The copies of the configuration, from the oldest to the newest.
Ordered ==
    /\ mem.rev <= db.rev /\ data.rev <= mem.rev /\ load.rev <= mem.rev
    /\ \A s \in Saving : page = "open"
    /\ \A s \in Saving : saves[s].pc = "ok" =>
          data.rev <= saves[s].result.rev /\ saves[s].result.rev <= mem.rev

IInv == TypeOK /\ OneSave /\ EnabledHasToken /\ Ordered

-----------------------------------------------------------------------------
(* Types                                                                   *)

LEMMA Constants ==
    /\ NoTokens \in [Adapters -> MaybeToken] /\ NoClear \in [Adapters -> BOOLEAN]
    /\ NoView \in Views(Nat)
    /\ NoRead \in ReadCalls /\ NoSave \in SaveCalls
    /\ NoSecrets \in [known : BOOLEAN, of : [Adapters -> MaybeToken]]
BY DEF NoTokens, NoClear, NoView, NoRead, NoSave, NoSecrets, Views, MaybeToken, Fields,
       ReadCalls, SaveCalls

LEMMA PayloadType == ASSUME NEW c \in Configs(Nat) PROVE Payload(c) \in Views(Nat)
BY DEF Payload, Configs, Views

LEMMA WriteType ==
    ASSUME TypeOK, NEW q \in SaveCalls, Write(q)
    PROVE  db' \in Configs(Nat) /\ used' \subseteq Targets /\ db'.rev = db.rev + 1
<1>1. /\ q.token \in MaybeToken /\ q.on \in BOOLEAN /\ db \in Configs(Nat)
      /\ used \subseteq Targets
  BY DEF TypeOK, SaveCalls
<1>2. NewToken(db, q) \in MaybeToken \/ q.what \notin Adapters
  BY <1>1 DEF NewToken, Configs, MaybeToken
<1>3. ASSUME NEW t, t \in Targets \/ q.op # "create"
      PROVE  Apply(q, t) \in Configs(Nat) /\ Apply(q, t).rev = db.rev + 1
  <2>1. [db.enabled EXCEPT ![q.what] = q.on] \in [Adapters -> BOOLEAN]
    BY <1>1 DEF Configs
  <2>2. [db.token EXCEPT ![q.what] = NewToken(db, q)] \in [Adapters -> MaybeToken]
    BY <1>1, <1>2 DEF Configs
  <2>3. db.targets \in SUBSET Targets /\ db.rev \in Nat
        /\ db.enabled \in [Adapters -> BOOLEAN] /\ db.token \in [Adapters -> MaybeToken]
    BY <1>1 DEF Configs
  <2> QED
    BY <1>3, <2>1, <2>2, <2>3 DEF Apply, Configs
<1>4. CASE q.op = "create"
  BY <1>1, <1>3, <1>4 DEF Write
<1>5. CASE q.op # "create"
  BY <1>1, <1>3, <1>5 DEF Write
<1> QED  BY <1>4, <1>5

LEMMA InitInv == Init => IInv
<1> SUFFICES ASSUME Init PROVE IInv
  OBVIOUS
<1>1. TypeOK
  <2>1. db \in Configs(Nat) /\ db.targets \subseteq Targets
    BY DEF Init, Configs
  <2> QED  BY <2>1, Constants DEF Init, TypeOK, Sections
<1>2. Saving = {}
  BY DEF Init, Saving, NoSave
<1>3. db.rev = 1 /\ mem = db /\ data.rev = 0 /\ load.rev = 0
  BY DEF Init, Configs, NoView
<1>4. EnabledHasToken
  BY DEF Init, EnabledHasToken
<1>5. OneSave /\ Ordered
  BY <1>2, <1>3 DEF Init, OneSave, Ordered
<1> QED
  BY <1>1, <1>4, <1>5 DEF IInv

-----------------------------------------------------------------------------
(* Steps that start and end no request                                     *)

\* Typing, and what the page does with an answer it has already had.
LEMMA Quiet ==
    ASSUME IInv, UNCHANGED rest, TypeOK', data'.rev = data.rev
    PROVE  IInv'
<1>1. Saving' = Saving
  BY DEF rest, Saving
<1>2. OneSave' /\ EnabledHasToken' /\ Ordered'
  BY <1>1 DEF rest, server, locks, IInv, OneSave, EnabledHasToken, Ordered
<1> QED  BY <1>2 DEF IInv

\* A step of the reveals
LEMMA Requestless ==
    ASSUME IInv, UNCHANGED <<server, page, load, data, busy, saves>>, TypeOK'
    PROVE  IInv'
<1>1. Saving' = Saving
  BY DEF Saving
<1>2. OneSave' /\ EnabledHasToken' /\ Ordered'
  BY <1>1 DEF server, IInv, OneSave, EnabledHasToken, Ordered
<1> QED  BY <1>2 DEF IInv

\* A request keeps its type when some of its fields are replaced.
LEMMA SaveFields ==
    ASSUME NEW q \in SaveCalls, NEW v \in Views(Nat)
    PROVE  [q EXCEPT !.pc = "ok", !.result = v] \in SaveCalls
BY DEF SaveCalls

LEMMA ReadFields ==
    ASSUME NEW r \in ReadCalls, NEW tokens \in [Adapters -> MaybeToken]
    PROVE  [r EXCEPT !.pc = "ok", !.got = tokens] \in ReadCalls
BY DEF ReadCalls

LEMMA WithoutReads ==
    ASSUME TypeOK, NEW fields, reads' = Without(fields)
    PROVE  /\ reads' \in [Readers -> ReadCalls]
           /\ \A r \in Readers : reads'[r].pc = reads[r].pc /\ reads'[r].got = reads[r].got
<1> SUFFICES ASSUME NEW r \in Readers
             PROVE  /\ [reads[r] EXCEPT !.live = @ /\ reads[r].field \notin fields] \in ReadCalls
                    /\ reads'[r].pc = reads[r].pc /\ reads'[r].got = reads[r].got
  BY DEF Without
<1> DEFINE live == reads[r].live /\ reads[r].field \notin fields
<1>1. reads[r] \in ReadCalls
  BY DEF TypeOK
<1>2. live \in BOOLEAN
  BY <1>1 DEF ReadCalls
<1>3. reads'[r] = [reads[r] EXCEPT !.live = live]
  BY DEF Without
<1> HIDE DEF live
<1>4. [reads[r] EXCEPT !.live = live] \in ReadCalls
  BY <1>1, <1>2 DEF ReadCalls
<1> QED  BY <1>1, <1>3, <1>4 DEF ReadCalls, live

LEMMA FillType ==
    ASSUME TypeOK, NEW f, NEW tokens \in [Adapters -> MaybeToken], Fill(f, tokens)
    PROVE  token' \in [Adapters -> MaybeToken]
BY DEF Fill, TypeOK

LEMMA TypingInv == ASSUME IInv, Typing PROVE IInv'
<1> USE DEF IInv, rest, server, locks
<1>1. ASSUME NEW a \in Adapters, NEW on \in BOOLEAN, SetEnabled(a, on) PROVE IInv'
  <2>1. data' \in Views(Nat) /\ data'.rev = data.rev
    BY <1>1 DEF SetEnabled, TypeOK, Views
  <2>2. TypeOK'
    BY <1>1, <2>1 DEF SetEnabled, TypeOK
  <2> QED  BY <1>1, <2>1, <2>2, Quiet DEF SetEnabled
<1>2. ASSUME NEW a \in Adapters, NEW on \in BOOLEAN, SetClear(a, on) PROVE IInv'
  <2>1. TypeOK'
    BY <1>2 DEF SetClear, TypeOK
  <2> QED  BY <1>2, <2>1, Quiet DEF SetClear
<1>3. ASSUME NEW a \in Adapters, NEW v \in MaybeToken, TypeToken(a, v) PROVE IInv'
  <2>1. TypeOK'
    BY <1>3 DEF TypeToken, TypeOK
  <2> QED  BY <1>3, <2>1, Quiet DEF TypeToken
<1>4. ASSUME NEW v \in Sections, SetSection(v) PROVE IInv'
  <2>1. PICK fields : reads' = Without(fields)
    BY <1>4 DEF SetSection
  <2>2. TypeOK'
    BY <1>4, <2>1, WithoutReads DEF SetSection, TypeOK
  <2> QED  BY <1>4, <2>1, <2>2, WithoutReads, Quiet DEF SetSection
<1>5. ASSUME NEW t \in Targets \cup {"new"}, Edit(t) PROVE IInv'
  <2>1. TypeOK'
    BY <1>5 DEF Edit, TypeOK
  <2> QED  BY <1>5, <2>1, Quiet DEF Edit
<1>6. CASE Cancel
  <2>1. TypeOK'
    BY <1>6, WithoutReads DEF Cancel, TypeOK
  <2> QED  BY <1>6, <2>1, WithoutReads, Quiet DEF Cancel
<1>7. ASSUME NEW f \in Fields, RevealCached(f) PROVE IInv'
  <2>1. secrets.of \in [Adapters -> MaybeToken]
    BY DEF TypeOK
  <2>2. token' \in [Adapters -> MaybeToken]
    BY <1>7, <2>1, FillType DEF RevealCached
  <2>3. TypeOK'
    BY <1>7, <2>2 DEF RevealCached, TypeOK
  <2> QED  BY <1>7, <2>3, Quiet DEF RevealCached
<1>8. ASSUME NEW f \in Fields, NEW r \in Readers, Reveal(f, r) PROVE IInv'
  <2>1. /\ reads' = [reads EXCEPT ![r] = [NoRead EXCEPT !.pc = "sent", !.field = f, !.live = TRUE]]
        /\ UNCHANGED <<view, forms, secrets, busy, saves>> /\ secretsBusy' = TRUE
    BY <1>8 DEF Reveal
  <2>2. TypeOK'
    <3>1. [NoRead EXCEPT !.pc = "sent", !.field = f, !.live = TRUE] \in ReadCalls
      BY Constants DEF ReadCalls, NoRead
    <3> QED  BY <2>1, <3>1 DEF TypeOK, view, forms
  <2> QED  BY <2>1, <2>2, Requestless DEF view
<1> QED  BY <1>1, <1>2, <1>3, <1>4, <1>5, <1>6, <1>7, <1>8 DEF Typing

-----------------------------------------------------------------------------
(* Visits and reveals                                                      *)

\* Leaving the page, alone or after the account was changed.
LEMMA UnmountInv == ASSUME IInv, Unmount PROVE IInv'
<1> USE DEF Unmount, server
<1>1. TypeOK'
  BY Constants DEF IInv, TypeOK, Sections
<1>2. Saving' = {}
  BY DEF Saving, NoSave
<1>3. data'.rev = 0 /\ load'.rev = 0 /\ mem.rev \in Nat
  BY DEF NoView, IInv, TypeOK, Configs
<1> QED
  BY <1>1, <1>2, <1>3 DEF IInv, OneSave, EnabledHasToken, Ordered

LEMMA VisitInv == ASSUME IInv, Visit PROVE IInv'
<1> USE DEF IInv, server, forms, locks
<1>1. CASE Open
  <2>1. TypeOK'
    BY <1>1 DEF Open, TypeOK
  <2>2. Saving' = Saving
    BY <1>1 DEF Open, Saving
  <2>3. OneSave' /\ EnabledHasToken' /\ Ordered'
    BY <1>1, <2>2 DEF Open, OneSave, EnabledHasToken, Ordered
  <2> QED  BY <2>1, <2>3
<1>2. CASE GetConfiguration
  <2>1. load' \in Views(Nat) /\ load'.rev = mem.rev
    BY <1>2, PayloadType DEF GetConfiguration, TypeOK, Payload
  <2>2. TypeOK'
    BY <1>2, <2>1 DEF GetConfiguration, TypeOK
  <2>3. Saving' = Saving /\ mem.rev \in Nat
    BY <1>2 DEF GetConfiguration, Saving, TypeOK, Configs
  <2>4. OneSave' /\ EnabledHasToken' /\ Ordered'
    BY <1>2, <2>1, <2>3 DEF GetConfiguration, OneSave, EnabledHasToken, Ordered
  <2> QED  BY <2>2, <2>4
<1>3. CASE Load
  <2>1. TypeOK'
    BY <1>3, Constants DEF Load, TypeOK
  <2>2. Saving' = Saving /\ mem.rev \in Nat
    BY <1>3 DEF Load, Saving, TypeOK, Configs
  <2>3. OneSave' /\ EnabledHasToken' /\ Ordered'
    BY <1>3, <2>2 DEF Load, OneSave, EnabledHasToken, Ordered, NoView
  <2> QED  BY <2>1, <2>3
<1>4. CASE Leave
  BY <1>4, UnmountInv DEF Leave
<1> QED  BY <1>1, <1>2, <1>3, <1>4 DEF Visit

LEMMA ReadInv == ASSUME IInv, NEW r \in Readers, ReadStep(r) PROVE IInv'
<1> USE DEF IInv
<1>1. CASE GetConfigSecrets(r)
  <2>1. mem.token \in [Adapters -> MaybeToken]
    BY DEF TypeOK, Configs
  <2>2. reads' \in [Readers -> ReadCalls]
    <3> DEFINE q == [reads[r] EXCEPT !.pc = "ok", !.got = mem.token]
    <3>1. reads' = [reads EXCEPT ![r] = q] /\ reads \in [Readers -> ReadCalls]
      BY <1>1 DEF GetConfigSecrets, TypeOK
    <3>2. q \in ReadCalls
      BY <2>1, <3>1, ReadFields
    <3> HIDE DEF q
    <3> QED  BY <3>1, <3>2
  <2>3. TypeOK'
    BY <1>1, <2>2 DEF GetConfigSecrets, TypeOK, rest, server, locks, forms
  <2> QED  BY <1>1, <2>2, <2>3, Quiet DEF GetConfigSecrets, forms
<1>2. CASE Revealed(r)
  <2>1. reads[r].got \in [Adapters -> MaybeToken]
    BY DEF TypeOK, ReadCalls
  <2>2. /\ secrets' = [known |-> TRUE, of |-> reads[r].got]
        /\ token' \in [Adapters -> MaybeToken] /\ secretsBusy' = FALSE
        /\ reads' = [reads EXCEPT ![r] = NoRead]
        /\ UNCHANGED <<view, section, editing, clear, busy, saves>>
    BY <1>2, <2>1, FillType DEF Revealed
  <2>3. TypeOK'
    BY <2>1, <2>2, Constants DEF TypeOK, view, server
  <2> QED  BY <2>2, <2>3, Requestless DEF view
<1>3. CASE RevealFails(r)
  <2>1. TypeOK'
    BY <1>3, Constants DEF RevealFails, TypeOK, view, server, forms
  <2> QED  BY <1>3, <2>1, Requestless DEF RevealFails, view
<1> QED  BY <1>1, <1>2, <1>3 DEF ReadStep

-----------------------------------------------------------------------------
(* Saves                                                                   *)

\* The types of a step that changes one save.
LEMMA OneSaveType ==
    ASSUME TypeOK, NEW s \in Savers, NEW q \in SaveCalls, saves' = [saves EXCEPT ![s] = q]
    PROVE  /\ saves' \in [Savers -> SaveCalls] /\ saves'[s] = q
           /\ \A t \in Savers \ {s} : saves'[t] = saves[t]
BY DEF TypeOK

LEMMA RequestType ==
    ASSUME NEW op \in {"settings", "account", "adapter", "create", "update", "delete"},
           NEW what \in Adapters \cup Targets \cup {"none"}
    PROVE  /\ Request(op, what) \in SaveCalls
           /\ Request(op, what).pc = "sent"
BY Constants DEF Request, NoSave, SaveCalls

LEMMA BeginInv ==
    ASSUME IInv, NEW s \in Savers, NEW q \in SaveCalls, q.pc = "sent", BeginSave(s, q)
    PROVE  IInv'
<1> USE DEF IInv
<1>1. /\ page = "open" /\ ~busy /\ s \notin Saving /\ busy' = TRUE
      /\ saves' = [saves EXCEPT ![s] = q]
      /\ UNCHANGED <<view, forms, secrets, secretsBusy, reads>>
  BY DEF BeginSave, Free
<1>2. /\ saves' \in [Savers -> SaveCalls] /\ saves'[s] = q
      /\ \A t \in Savers \ {s} : saves'[t] = saves[t]
  BY <1>1, OneSaveType
<1>3. TypeOK'
  BY <1>1, <1>2 DEF TypeOK, view, server, forms
<1>4. Saving = {} /\ Saving' = {s}
  BY <1>1, <1>2 DEF OneSave, Saving
<1>5. OneSave' /\ EnabledHasToken' /\ Ordered'
  BY <1>1, <1>2, <1>4 DEF view, server, OneSave, EnabledHasToken, Ordered
<1> QED  BY <1>3, <1>5

LEMMA StartInv == ASSUME IInv, NEW s \in Savers, StartSave(s) PROVE IInv'
<1>1. CASE SaveSettings(s) \/ SaveAccount(s)
  BY <1>1, RequestType, BeginInv DEF SaveSettings, SaveAccount
<1>2. CASE SaveTarget(s)
  <2>1. editing = "new" \/ editing \in Targets
    BY <1>2 DEF SaveTarget, IInv, TypeOK
  <2> QED  BY <1>2, <2>1, RequestType, BeginInv DEF SaveTarget
<1>3. ASSUME NEW a \in Adapters, SaveAdapter(s, a) PROVE IInv'
  <2> DEFINE q == [Request("adapter", a) EXCEPT !.token = token[a], !.clear = clear[a],
                                                !.on = data.enabled[a]]
  <2>1. token[a] \in MaybeToken /\ clear[a] \in BOOLEAN /\ data.enabled[a] \in BOOLEAN
    BY DEF IInv, TypeOK, Views
  <2>2. q \in SaveCalls /\ q.pc = "sent"
    <3> DEFINE req == Request("adapter", a)
    <3>1. req \in SaveCalls /\ req.pc = "sent"
      BY RequestType
    <3> HIDE DEF req
    <3>2. [req EXCEPT !.token = token[a], !.clear = clear[a], !.on = data.enabled[a]] \in SaveCalls
      BY <2>1, <3>1 DEF SaveCalls
    <3> QED  BY <3>1, <3>2 DEF SaveCalls, req
  <2>3. BeginSave(s, q)
    BY <1>3 DEF SaveAdapter
  <2> HIDE DEF q
  <2> QED  BY <2>2, <2>3, BeginInv
<1>4. ASSUME NEW t \in Targets, DeleteTarget(s, t) PROVE IInv'
  BY <1>4, RequestType, BeginInv DEF DeleteTarget
<1> QED  BY <1>1, <1>2, <1>3, <1>4 DEF StartSave

\* A write leaves no adapter enabled without a token.
LEMMA WriteTokens ==
    ASSUME TypeOK, EnabledHasToken, NEW q \in SaveCalls, Write(q)
    PROVE  \A a \in Adapters : db'.enabled[a] => db'.token[a] # None
<1>1. db.enabled \in [Adapters -> BOOLEAN] /\ db.token \in [Adapters -> MaybeToken]
  BY DEF TypeOK, Configs
<1>2. PICK t : db' = Apply(q, t)
  BY DEF Write
<1>3. Valid(db, q)
  BY DEF Write, StoreAccepts
<1>4. CASE q.op # "adapter"
  BY <1>2, <1>4 DEF Apply, EnabledHasToken
<1>5. CASE q.op = "adapter"
  <2>1. /\ db'.enabled = [db.enabled EXCEPT ![q.what] = q.on]
        /\ db'.token = [db.token EXCEPT ![q.what] = NewToken(db, q)]
    BY <1>2, <1>5 DEF Apply
  <2>2. q.on => NewToken(db, q) # None
    BY <1>3, <1>5 DEF Valid
  <2> QED  BY <1>1, <2>1, <2>2 DEF EnabledHasToken
<1> QED  BY <1>4, <1>5

LEMMA ElsewhereInv == ASSUME IInv, Elsewhere PROVE IInv'
<1> USE DEF IInv
<1>1. PICK q \in SaveCalls : Write(q)
  <2>1. CASE \/ \E op \in {"settings", "account", "create"} : Write(Request(op, "none"))
             \/ \E op \in {"update", "delete"}, t \in Targets : Write(Request(op, t))
    BY <2>1, RequestType
  <2>2. ASSUME NEW a \in Adapters, NEW v \in MaybeToken, NEW on \in BOOLEAN, NEW c \in BOOLEAN,
               Write([Request("adapter", a) EXCEPT !.token = v, !.on = on, !.clear = c])
        PROVE  \E q \in SaveCalls : Write(q)
    <3> DEFINE req == Request("adapter", a)
    <3>1. req \in SaveCalls
      BY RequestType
    <3> HIDE DEF req
    <3>2. [req EXCEPT !.token = v, !.on = on, !.clear = c] \in SaveCalls
      BY <3>1 DEF SaveCalls
    <3> QED  BY <2>2, <3>2 DEF req
  <2> QED  BY <2>1, <2>2 DEF Elsewhere, WriteElsewhere
<1>2. /\ mem' \in {db', mem} /\ UNCHANGED <<page, load, data, forms, locks, reads, saves>>
  BY DEF Elsewhere
<1>3. db' \in Configs(Nat) /\ used' \subseteq Targets /\ db'.rev = db.rev + 1
  BY <1>1, WriteType
<1>4. TypeOK'
  BY <1>2, <1>3 DEF TypeOK, forms, locks
<1>5. OneSave'
  BY <1>2 DEF locks, OneSave, Saving
<1>6. EnabledHasToken'
  BY <1>1, <1>2, WriteTokens DEF EnabledHasToken
<1>7. Ordered'
  <2>1. db.rev \in Nat /\ mem.rev \in Nat /\ data.rev \in Nat /\ load.rev \in Nat
    BY DEF TypeOK, Configs, Views
  <2>2. Saving' = Saving /\ \A s \in Saving : saves[s].result.rev \in Nat
    BY <1>2 DEF Saving, TypeOK, SaveCalls, Views
  <2> QED  BY <1>2, <1>3, <2>1, <2>2 DEF Ordered
<1> QED  BY <1>4, <1>5, <1>6, <1>7

LEMMA CommitInv == ASSUME IInv, NEW s \in Savers, Commit(s) PROVE IInv'
<1> USE DEF IInv
<1> DEFINE q == [saves[s] EXCEPT !.pc = "ok", !.result = Payload(mem')]
<1>1. /\ saves[s].pc = "sent" /\ Write(saves[s]) /\ mem' = db'
      /\ UNCHANGED <<page, load, data, forms, locks, reads>>
      /\ saves' = [saves EXCEPT ![s] = q]
  BY DEF Commit, TypeOK
<1>2. /\ saves[s] \in SaveCalls /\ db' \in Configs(Nat) /\ used' \subseteq Targets
      /\ db'.rev = db.rev + 1
  <2>1. saves[s] \in SaveCalls
    BY DEF TypeOK
  <2> QED  BY <1>1, <2>1, WriteType
<1>3. Payload(mem') \in Views(Nat) /\ Payload(mem').rev = mem'.rev
  BY <1>1, <1>2, PayloadType DEF Payload
<1>4. q \in SaveCalls /\ q.pc = "ok" /\ q.result.rev = mem'.rev
  <2>1. q \in SaveCalls
    BY <1>2, <1>3, SaveFields
  <2> QED  BY <1>2, <1>3, <2>1 DEF SaveCalls
<1> HIDE DEF q
<1>5. /\ saves' \in [Savers -> SaveCalls] /\ saves'[s] = q
      /\ \A t \in Savers \ {s} : saves'[t] = saves[t]
  BY <1>1, <1>4, OneSaveType
<1>6. TypeOK'
  BY <1>1, <1>2, <1>5 DEF TypeOK, forms, locks
<1>7. Saving' = Saving /\ s \in Saving
  BY <1>1, <1>4, <1>5 DEF Saving
<1>8. OneSave'
  BY <1>1, <1>7 DEF locks, OneSave
<1>9. EnabledHasToken'
  BY <1>1, <1>2, WriteTokens DEF EnabledHasToken
<1>10. Ordered'
  <2>1. db.rev \in Nat /\ mem.rev \in Nat /\ data.rev \in Nat /\ load.rev \in Nat
    BY DEF TypeOK, Configs, Views
  <2>2. \A t \in Saving : t # s => saves'[t] = saves[t] /\ saves[t].result.rev \in Nat
    BY <1>5 DEF Saving, TypeOK, SaveCalls, Views
  <2> QED  BY <1>1, <1>2, <1>4, <1>5, <1>7, <2>1, <2>2 DEF Ordered
<1> QED  BY <1>6, <1>8, <1>9, <1>10

LEMMA CommitOnlyInv == ASSUME IInv, NEW s \in Savers, CommitOnly(s) PROVE IInv'
<1> USE DEF IInv
<1> DEFINE q == [saves[s] EXCEPT !.pc = "failed"]
<1>1. /\ saves[s].pc = "sent" /\ Write(saves[s]) /\ mem' = mem
      /\ UNCHANGED <<page, load, data, forms, locks, reads>>
      /\ saves' = [saves EXCEPT ![s] = q]
  BY DEF CommitOnly, TypeOK
<1>2. /\ saves[s] \in SaveCalls /\ db' \in Configs(Nat) /\ used' \subseteq Targets
      /\ db'.rev = db.rev + 1
  <2>1. saves[s] \in SaveCalls
    BY DEF TypeOK
  <2> QED  BY <1>1, <2>1, WriteType
<1>3. q \in SaveCalls /\ q.pc = "failed"
  BY DEF TypeOK, SaveCalls
<1> HIDE DEF q
<1>4. /\ saves' \in [Savers -> SaveCalls] /\ saves'[s] = q
      /\ \A t \in Savers \ {s} : saves'[t] = saves[t]
  BY <1>1, <1>3, OneSaveType
<1>5. TypeOK'
  BY <1>1, <1>2, <1>4 DEF TypeOK, forms, locks
<1>6. Saving' = Saving /\ s \in Saving
  BY <1>1, <1>3, <1>4 DEF Saving
<1>7. OneSave'
  BY <1>1, <1>6 DEF locks, OneSave
<1>8. EnabledHasToken'
  BY <1>1, <1>2, WriteTokens DEF EnabledHasToken
<1>9. Ordered'
  <2>1. db.rev \in Nat /\ mem.rev \in Nat
    BY DEF TypeOK, Configs
  <2> QED  BY <1>1, <1>2, <1>3, <1>4, <1>6, <2>1 DEF Ordered
<1> QED  BY <1>5, <1>7, <1>8, <1>9

LEMMA SavedInv == ASSUME IInv, NEW s \in Savers, Saved(s) PROVE IInv'
<1> USE DEF IInv
<1> DEFINE q == saves[s]
<1>1. /\ q.pc = "ok" /\ data' = q.result /\ busy' = FALSE
      /\ token' = IF q.op = "adapter" THEN [token EXCEPT ![q.what] = None] ELSE token
      /\ clear' = IF q.op = "adapter" THEN [clear EXCEPT ![q.what] = FALSE] ELSE clear
      /\ editing' \in {"none", editing} /\ (reads' = reads \/ reads' = Without({"key"}))
      /\ secrets' = IF Forgets(q.op) THEN NoSecrets ELSE secrets
      /\ saves' = [saves EXCEPT ![s] = NoSave]
      /\ UNCHANGED <<server, page, load, section, secretsBusy>>
  BY DEF Saved
<1>2. q \in SaveCalls
  BY DEF TypeOK
<1>3. /\ saves' \in [Savers -> SaveCalls] /\ saves'[s] = NoSave
      /\ \A t \in Savers \ {s} : saves'[t] = saves[t]
  BY <1>1, Constants, OneSaveType
<1>4. reads' \in [Readers -> ReadCalls]
  BY <1>1, WithoutReads DEF TypeOK
<1>5. s \in Saving /\ \A t \in Saving : t = s
  BY <1>1 DEF Saving, OneSave
<1> HIDE DEF q
<1>6. TypeOK'
  <2>1. data' \in Views(Nat)
    BY <1>1, <1>2 DEF SaveCalls
  <2>2. token' \in [Adapters -> MaybeToken] /\ clear' \in [Adapters -> BOOLEAN]
    BY <1>1 DEF TypeOK, MaybeToken
  <2>3. secrets' \in [known : BOOLEAN, of : [Adapters -> MaybeToken]]
    BY <1>1, Constants DEF TypeOK
  <2> QED  BY <1>1, <1>3, <1>4, <2>1, <2>2, <2>3 DEF TypeOK, server
<1>7. Saving' = {}
  BY <1>3, <1>5 DEF Saving, NoSave
<1>8. OneSave' /\ EnabledHasToken'
  BY <1>1, <1>7 DEF server, OneSave, EnabledHasToken
<1>9. Ordered'
  BY <1>1, <1>5, <1>7 DEF server, Ordered, q
<1> QED  BY <1>6, <1>8, <1>9

LEMMA SaveEnds == ASSUME IInv, NEW s \in Savers, AccountSaved(s) \/ SaveFails(s) PROVE IInv'
<1> USE DEF IInv
<1>1. CASE AccountSaved(s)
  BY <1>1, UnmountInv DEF AccountSaved
<1>2. CASE SaveFails(s)
  <2>1. /\ s \in Saving /\ busy' = FALSE /\ UNCHANGED <<view, forms, secrets, secretsBusy, reads>>
        /\ saves' = [saves EXCEPT ![s] = NoSave]
    BY <1>2 DEF SaveFails
  <2>2. /\ saves' \in [Savers -> SaveCalls] /\ saves'[s] = NoSave
        /\ \A t \in Savers \ {s} : saves'[t] = saves[t]
    BY <2>1, Constants, OneSaveType
  <2>3. TypeOK'
    BY <2>1, <2>2 DEF TypeOK, view, server, forms
  <2>4. Saving' = {}
    BY <2>1, <2>2 DEF OneSave, Saving, NoSave
  <2>5. OneSave' /\ EnabledHasToken' /\ Ordered'
    BY <2>1, <2>4 DEF view, server, OneSave, EnabledHasToken, Ordered
  <2> QED  BY <2>3, <2>5
<1> QED  BY <1>1, <1>2

-----------------------------------------------------------------------------
LEMMA NextInv == IInv /\ [Next]_vars => IInv'
<1> SUFFICES ASSUME IInv, [Next]_vars PROVE IInv'
  OBVIOUS
<1>1. CASE Visit
  BY <1>1, VisitInv
<1>2. CASE Typing
  BY <1>2, TypingInv
<1>3. ASSUME NEW r \in Readers, ReadStep(r) PROVE IInv'
  BY <1>3, ReadInv
<1>4. ASSUME NEW s \in Savers, StartSave(s) PROVE IInv'
  BY <1>4, StartInv
<1>5. ASSUME NEW s \in Savers, SaveStep(s) PROVE IInv'
  BY <1>5, CommitInv, CommitOnlyInv, SavedInv, SaveEnds DEF SaveStep
<1>6. CASE Elsewhere
  BY <1>6, ElsewhereInv
<1>7. CASE UNCHANGED vars
  <2>1. UNCHANGED rest /\ TypeOK' /\ data' = data
    BY <1>7 DEF vars, view, forms, locks, rest, IInv, TypeOK, server
  <2> QED  BY <2>1, Quiet
<1> QED  BY <1>1, <1>2, <1>3, <1>4, <1>5, <1>6, <1>7 DEF Next

LEMMA Invariance == Spec => []IInv
BY InitInv, NextInv, PTL DEF Spec

\* For any number of requests in flight and whatever other tabs save: the types
\* hold, and at most one save of this visit is in flight, which locks the forms
\* exactly as long as it lasts.
THEOREM SavesAreAlone == Spec => [](TypeOK /\ OneSave)
<1>1. IInv => TypeOK /\ OneSave
  BY DEF IInv
<1> QED  BY <1>1, Invariance, PTL

\* Neither configuration ever has an adapter that is enabled and has no token,
\* although requests are made for a configuration that is long gone.
THEOREM AdaptersHaveTokens == Spec => []EnabledHasToken
<1>1. IInv => EnabledHasToken
  BY DEF IInv
<1> QED  BY <1>1, Invariance, PTL

\* No answer takes the page that stays open back to an older revision, in
\* whatever order its own saves and those of others reach the server.
THEOREM NoOldRevision == Spec => RevisionNeverBack
<1> DEFINE Forward == page = "open" /\ page' = "open" => data'.rev >= data.rev
<1>1. IInv /\ [Next]_vars => [Forward]_vars
  <2> SUFFICES ASSUME IInv, Next, page = "open", page' = "open" PROVE data'.rev >= data.rev
    OBVIOUS
  <2>1. data.rev \in Nat
    BY DEF IInv, TypeOK, Views
  <2>2. CASE Visit
    BY <2>2 DEF Visit, Open, GetConfiguration, Load, Leave, Unmount
  <2>3. CASE Typing
    <3>1. data'.rev = data.rev
      BY <2>3 DEF Typing, SetEnabled, SetClear, TypeToken, SetSection, Edit, Cancel, RevealCached,
                  Reveal, view, IInv, TypeOK, Views
    <3> QED  BY <2>1, <3>1
  <2>4. ASSUME NEW r \in Readers, ReadStep(r) PROVE data'.rev >= data.rev
    BY <2>1, <2>4 DEF ReadStep, GetConfigSecrets, Revealed, RevealFails, view
  <2>5. ASSUME NEW s \in Savers, StartSave(s) PROVE data'.rev >= data.rev
    <3>1. PICK q : BeginSave(s, q)
      BY <2>5 DEF StartSave, SaveSettings, SaveAccount, SaveTarget, SaveAdapter, DeleteTarget
    <3> QED  BY <2>1, <3>1 DEF BeginSave, view
  <2>6. ASSUME NEW s \in Savers, Saved(s) PROVE data'.rev >= data.rev
    <3>1. s \in Saving /\ saves[s].pc = "ok" /\ data' = saves[s].result
      BY <2>6 DEF Saved, Saving
    <3>2. data.rev <= saves[s].result.rev /\ saves[s].result.rev \in Nat
      BY <3>1 DEF IInv, Ordered, TypeOK, SaveCalls, Views
    <3> QED  BY <2>1, <3>1, <3>2
  <2>7. ASSUME NEW s \in Savers, SaveStep(s), ~Saved(s) PROVE data'.rev >= data.rev
    BY <2>1, <2>7 DEF SaveStep, Commit, CommitOnly, AccountSaved, Unmount, SaveFails, view
  <2>8. CASE Elsewhere
    BY <2>1, <2>8 DEF Elsewhere
  <2> QED  BY <2>2, <2>3, <2>4, <2>5, <2>6, <2>7, <2>8 DEF Next
<1> QED  BY <1>1, Invariance, PTL DEF Spec, RevisionNeverBack

-----------------------------------------------------------------------------
(* The safety half of FormsUnlock                                          *)

\* Each flag that locks inputs has a request in flight whose answer, or
\* failure, will take it back.
LocksHeld == (busy => Saving # {}) /\ (secretsBusy => Reading # {})

\* A step that keeps its reads where they are, and the flag too
LEMMA ReadsKept ==
    ASSUME secretsBusy => Reading # {}, secretsBusy' = secretsBusy,
           \A r \in Readers : reads'[r].pc = "none" <=> reads[r].pc = "none"
    PROVE  (secretsBusy => Reading # {})'
BY DEF Reading

LEMMA SecretsStep ==
    ASSUME TypeOK, secretsBusy => Reading # {}, [Next]_vars
    PROVE  (secretsBusy => Reading # {})'
<1>1. CASE Open \/ GetConfiguration \/ Load \/ Elsewhere \/ UNCHANGED vars
  BY <1>1, ReadsKept DEF Open, GetConfiguration, Load, Elsewhere, vars, locks
<1>2. CASE Leave \/ \E s \in Savers : AccountSaved(s)
  BY <1>2 DEF Leave, AccountSaved, Unmount
<1>3. CASE \/ \E a \in Adapters, on \in BOOLEAN : SetEnabled(a, on) \/ SetClear(a, on)
           \/ \E a \in Adapters, v \in MaybeToken : TypeToken(a, v)
           \/ \E t \in Targets \cup {"new"} : Edit(t)
           \/ \E f \in Fields : RevealCached(f)
  BY <1>3, ReadsKept DEF SetEnabled, SetClear, TypeToken, Edit, RevealCached, rest, locks
<1>4. CASE Cancel \/ \E v \in Sections : SetSection(v)
  <2>1. PICK fields : reads' = Without(fields) /\ secretsBusy' = secretsBusy
    BY <1>4 DEF Cancel, SetSection, rest, locks
  <2> QED  BY <2>1, WithoutReads, ReadsKept
<1>5. ASSUME NEW f \in Fields, NEW r \in Readers, Reveal(f, r)
      PROVE  (secretsBusy => Reading # {})'
  <2>1. reads'[r].pc = "sent"
    BY <1>5 DEF Reveal, NoRead, TypeOK
  <2> QED  BY <2>1 DEF Reading
<1>6. ASSUME NEW r \in Readers, ReadStep(r) PROVE (secretsBusy => Reading # {})'
  <2>1. CASE GetConfigSecrets(r)
    <3>1. reads[r].pc # "none" /\ reads'[r].pc = "ok" /\ secretsBusy' = secretsBusy
      BY <2>1 DEF GetConfigSecrets, rest, locks, TypeOK, ReadCalls
    <3>2. \A u \in Readers \ {r} : reads'[u] = reads[u]
      BY <2>1 DEF GetConfigSecrets, TypeOK
    <3> QED  BY <3>1, <3>2, ReadsKept
  <2> QED  BY <1>6, <2>1 DEF ReadStep, Revealed, RevealFails
<1>7. ASSUME NEW s \in Savers, StartSave(s) PROVE (secretsBusy => Reading # {})'
  <2>1. PICK q : BeginSave(s, q)
    BY <1>7 DEF StartSave, SaveSettings, SaveAccount, SaveTarget, SaveAdapter, DeleteTarget
  <2> QED  BY <2>1, ReadsKept DEF BeginSave
<1>8. ASSUME NEW s \in Savers, Commit(s) \/ CommitOnly(s) \/ SaveFails(s)
      PROVE  (secretsBusy => Reading # {})'
  BY <1>8, ReadsKept DEF Commit, CommitOnly, SaveFails, locks
<1>9. ASSUME NEW s \in Savers, Saved(s) PROVE (secretsBusy => Reading # {})'
  <2>1. secretsBusy' = secretsBusy /\ (reads' = reads \/ reads' = Without({"key"}))
    BY <1>9 DEF Saved
  <2> QED  BY <2>1, WithoutReads, ReadsKept
<1> QED
  BY <1>1, <1>2, <1>3, <1>4, <1>5, <1>6, <1>7, <1>8, <1>9 DEF Next, Visit, Typing, SaveStep

\* No form is locked for want of an answer: as long as a flag is set, a request
\* of this visit is in flight that takes it back when it ends.  In revealSecrets
\* and in the saves every path out of the await resets the flag, and two
\* overlapping reveals share one.
THEOREM LocksAreHeld == Spec => []LocksHeld
<1>1. Init => (secretsBusy => Reading # {})
  BY DEF Init
<1>2. IInv => TypeOK
  BY DEF IInv
<1>3. IInv /\ (secretsBusy => Reading # {}) => LocksHeld
  BY DEF IInv, OneSave, LocksHeld
<1> QED  BY <1>1, <1>2, <1>3, SecretsStep, Invariance, PTL DEF Spec
=============================================================================
