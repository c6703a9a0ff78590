---------------------------- MODULE TelegramPoll ----------------------------
(***************************************************************************)
(* Incoming Telegram updates (internal/telegram/client.go): Run polls with *)
(* an offset, handles the updates of the answer one by one and polls again *)
(* with the offset behind them, which tells the server to forget them.     *)
(*                                                                         *)
(* A reload, or a restart of the process, starts a new client whose offset *)
(* is zero, while the one before may still be polling or handling.  The    *)
(* server is external: it numbers updates, forgets those below the highest *)
(* offset it was asked for and answers with the oldest of the rest.        *)
(***************************************************************************)
EXTENDS Naturals

CONSTANTS
    MaxClients,  \* bound: clients started in a behaviour
    MaxUpdates   \* bound: updates the users send

ASSUME TelegramPollAssumption == MaxClients \in Nat /\ MaxUpdates \in Nat

VARIABLES
    sent,       \* updates 1..sent have reached the server
    confirmed,  \* the server has forgotten those below
    started,    \* clients 1..started were created
    client,     \* pc, offset and the updates next..last still to handle
    handled     \* the updates each client has handled

vars == <<sent, confirmed, started, client, handled>>

Clients == 1..MaxClients
NoClient == [pc |-> "none", offset |-> 0, next |-> 1, last |-> 0]

Init ==
    /\ sent = 0 /\ confirmed = 0 /\ started = 0
    /\ client = [c \in Clients |-> NoClient]
    /\ handled = [c \in Clients |-> {}]

UserSends ==
    /\ sent < MaxUpdates
    /\ sent' = sent + 1
    /\ UNCHANGED <<confirmed, started, client, handled>>

\* A reload or a restart: Run of a new client, with var offset int64
StartClient ==
    /\ started < MaxClients
    /\ started' = started + 1
    /\ client' = [client EXCEPT ![started + 1] = [NoClient EXCEPT !.pc = "poll"]]
    /\ UNCHANGED <<sent, confirmed, handled>>

Later(a, b) == IF a > b THEN a ELSE b

\* getUpdates reaches the server: it forgets what the offset passes and takes
\* the oldest updates left, as many as it likes (none when the poll times out)
ServerAnswers(c) ==
    LET from == Later(confirmed, client[c].offset) IN
    /\ client[c].pc = "poll"
    /\ confirmed' = from
    /\ \E last \in 0..sent :
          client' = [client EXCEPT ![c] =
              [pc |-> "answer", offset |-> client[c].offset,
               next |-> Later(from, 1), last |-> last]]
    /\ UNCHANGED <<sent, started, handled>>

\* The answer arrives ...
ReceiveUpdates(c) ==
    /\ client[c].pc = "answer"
    /\ client' = [client EXCEPT ![c].pc = "handle"]
    /\ UNCHANGED <<sent, confirmed, started, handled>>

\* ... or the request, or the answer, is lost: Run polls again after a pause
PollFails(c) ==
    /\ client[c].pc \in {"poll", "answer"}
    /\ client' = [client EXCEPT ![c] =
           [pc |-> "poll", offset |-> @.offset, next |-> 1, last |-> 0]]
    /\ UNCHANGED <<sent, confirmed, started, handled>>

\* Faults: the offset is one too far ...
HandleOneTooFar(c) ==
    /\ client[c].pc = "handle" /\ client[c].next <= client[c].last
    /\ client' = [client EXCEPT ![c] =
           [pc |-> "handle", offset |-> @.next + 2, next |-> @.next + 1, last |-> @.last]]
    /\ handled' = [handled EXCEPT ![c] = @ \cup {client[c].next}]
    /\ UNCHANGED <<sent, confirmed, started>>
\* ... or the batch is handled from its newest update to its oldest
HandleNewestFirst(c) ==
    /\ client[c].pc = "handle" /\ client[c].next <= client[c].last
    /\ client' = [client EXCEPT ![c] =
           [pc     |-> "handle",
            offset |-> IF @.last >= @.offset THEN @.last + 1 ELSE @.offset,
            next   |-> @.next, last |-> @.last - 1]]
    /\ handled' = [handled EXCEPT ![c] = @ \cup {client[c].last}]
    /\ UNCHANGED <<sent, confirmed, started>>

\* One turn of the loop: the offset moves on, then the handler is called
\* (an update without text is skipped, which counts as handled)
HandleUpdate(c) ==
    /\ client[c].pc = "handle" /\ client[c].next <= client[c].last
    /\ client' = [client EXCEPT ![c] =
           [pc     |-> "handle",
            offset |-> IF @.next >= @.offset THEN @.next + 1 ELSE @.offset,
            next   |-> @.next + 1, last |-> @.last]]
    /\ handled' = [handled EXCEPT ![c] = @ \cup {client[c].next}]
    /\ UNCHANGED <<sent, confirmed, started>>

PollAgain(c) ==
    /\ client[c].pc = "handle" /\ client[c].next > client[c].last
    /\ client' = [client EXCEPT ![c] =
           [pc |-> "poll", offset |-> @.offset, next |-> 1, last |-> 0]]
    /\ UNCHANGED <<sent, confirmed, started, handled>>

\* Run returns because the client was replaced or its token rejected, which
\* it notices between batches; or the process is killed at any point.
ClientEnds(c) ==
    /\ client[c].pc \in {"poll", "answer", "handle"}
    /\ client' = [client EXCEPT ![c] =
           [pc |-> "ended", offset |-> @.offset, next |-> 1, last |-> 0]]
    /\ UNCHANGED <<sent, confirmed, started, handled>>

ClientStep(c) ==
    \/ ServerAnswers(c) \/ ReceiveUpdates(c) \/ HandleUpdate(c) \/ PollAgain(c)

Next ==
    \/ UserSends \/ StartClient
    \/ \E c \in Clients : ClientStep(c) \/ PollFails(c) \/ ClientEnds(c)

Spec == Init /\ [][Next]_vars

-----------------------------------------------------------------------------
(* Properties                                                              *)

\* Types; no offset asks the server to forget an update it has not had yet.
TypeOK ==
    /\ sent \in Nat /\ confirmed \in Nat /\ started \in 0..MaxClients
    /\ client \in [Clients -> [pc : {"none", "poll", "answer", "handle", "ended"},
                               offset : 0..(sent + 1), next : Nat \ {0}, last : 0..sent]]
    /\ handled \in [Clients -> SUBSET Nat]

HandledBySome(u) == \E c \in Clients : u \in handled[c]

\* An update that the server has forgotten was handled: neither a lost
\* answer, nor a crash, nor a client replaced in the middle of a batch, nor a
\* late poll of an old client loses a command.
NoUpdateLost == \A u \in 1..(confirmed - 1) : HandledBySome(u)

\* A client never handles an update twice, however often it polls.
OncePerClient ==
    \A c \in Clients : client[c].pc \in {"answer", "handle"} =>
        \A u \in client[c].next..client[c].last : u \notin handled[c]

Box == INSTANCE Mailbox WITH forgotten <- confirmed

\* Whatever polls fail and clients overlap, each step of the loop is one of the
\* mailbox or changes nothing of it: a command is handled only after all that
\* were sent before it, whichever clients handled those, by each client once
\* and in order, and the server is told to forget only what was handled.
ImplementsMailbox == Box!Spec
=============================================================================
