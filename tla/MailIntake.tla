------------------------------ MODULE MailIntake ------------------------------
(***************************************************************************)
(* One mailbox and the two transports that store its mail.  The poller     *)
(* lists, every few seconds, what arrived after its checkpoint, stores the *)
(* messages one by one in transactions of their own and then moves the     *)
(* checkpoint; the webhook stores a message when Graph says so, perhaps    *)
(* late, twice or never.  A message that fails is tried again by the next  *)
(* ticks, up to a limit, and holds the checkpoint back meanwhile.  The     *)
(* checkpoint and the failure counts live in the process; a copy of the    *)
(* checkpoint is in mailbox_poll_state, for the next process.              *)
(*                                                                         *)
(* A stored message is threaded under one of its conversation, or else     *)
(* under the message it answers; a reply that came before its original is  *)
(* moved under it when the original arrives.                               *)
(***************************************************************************)
EXTENDS Naturals, FiniteSets

CONSTANTS
    Mail,           \* messages
    NoMail,
    ReplyTo,        \* the message each of them answers, or NoMail
    Conversation,   \* the conversation Graph has put each of them into
    Kinds,          \* what a message may turn out to be: see KindsOfMail
    RetryAttempts,  \* MAX_MESSAGE_RETRY_ATTEMPTS
    Lookback,       \* INITIAL_LOOKBACK_MINUTES
    Second,         \* the instants in a second: the filter of a listing has no fraction
    PageCap,        \* messages one listing returns at most (pages of 50, 20 of them)
    MaxInstant,     \* bound: time
    MaxTroubles     \* bound: failures and restarts

\* Time starts at 2, so that a checkpoint just before a message is never 0, "none".
\* "refused": an unknown inbox address, or data that no schema accepts.
KindsOfMail == {"email", "bounce", "refused"}

ASSUME IntakeAssumption ==
    /\ NoMail \notin Mail /\ IsFiniteSet(Mail)
    /\ ReplyTo \in [Mail -> Mail \cup {NoMail}] /\ DOMAIN Conversation = Mail
    /\ Kinds \subseteq KindsOfMail
    /\ RetryAttempts \in Nat \ {0} /\ Lookback \in Nat
    /\ Second \in Nat \ {0} /\ PageCap \in Nat \ {0}
    /\ MaxInstant \in Nat \ {0, 1} /\ MaxTroubles \in Nat

VARIABLES
    instant,    \* time
    kind,       \* what each message is
    arrived,    \* its receivedDateTime, 0 before it is in the mailbox
    stored,     \* messages with a row
    parent,     \* parent_interaction_id of the rows
    acted,      \* rows an agent has claimed, archived or put on a ticket
    refused,    \* ghost: messages that were skipped for good by their kind
    givenUp,    \* ghost: messages that failed too often
    outOfSight, \* ghost: messages older than the lookback of a tick without checkpoint,
                \* or beyond the last page of a listing
    receiver,   \* the calls of receive_email: the poller's and the webhook's
    tick,       \* the poller's tick
    memory,     \* its checkpoint, failure counts and whether it looked for a saved checkpoint
    saved,      \* mailbox_poll_state.checkpoint_at, 0 when there is none
    troubles    \* failures and restarts so far

inVars == <<instant, kind, arrived, stored, parent, acted, refused, givenUp, outOfSight,
            receiver, tick, memory, saved, troubles>>
mailboxVars == <<instant, kind, arrived>>
threadVars == <<stored, parent, acted>>
ghostVars == <<refused, givenUp, outOfSight>>

Receivers == {"poll", "hook"}
Times == 0 .. MaxInstant
IdleReceiver == [pc |-> "idle", mail |-> NoMail, parent |-> NoMail, orphans |-> {}]
NewProcess == [checkpoint |-> 0, fails |-> [m \in Mail |-> 0], seeded |-> FALSE]

IntakeTypeOK ==
    /\ instant \in Times
    /\ kind \in [Mail -> KindsOfMail]
    /\ arrived \in [Mail -> Times]
    /\ stored \subseteq Mail /\ acted \subseteq Mail
    /\ parent \in [Mail -> Mail \cup {NoMail}]
    /\ refused \subseteq Mail /\ givenUp \subseteq Mail /\ outOfSight \subseteq Mail
    /\ receiver \in [Receivers -> [pc : {"idle", "matched", "inserted"},
                                   mail : Mail \cup {NoMail},
                                   parent : Mail \cup {NoMail}, orphans : SUBSET Mail]]
    /\ tick \in [pc : {"idle", "listing", "storing"}, start : Times,
                 todo : SUBSET Mail, hold : Times]
    /\ memory \in [checkpoint : Times, fails : [Mail -> 0 .. RetryAttempts - 1],
                   seeded : BOOLEAN]
    /\ saved \in Times
    /\ troubles \in 0 .. MaxTroubles

IntakeInit ==
    /\ instant = 2
    /\ kind \in [Mail -> Kinds]
    /\ arrived = [m \in Mail |-> 0]
    /\ stored = {} /\ acted = {} /\ parent = [m \in Mail |-> NoMail]
    /\ refused = {} /\ givenUp = {} /\ outOfSight = {}
    /\ receiver = [r \in Receivers |-> IdleReceiver]
    /\ tick = [pc |-> "idle", start |-> 0, todo |-> {}, hold |-> 0]
    /\ memory = NewProcess /\ saved = 0 /\ troubles = 0

Trouble == troubles < MaxTroubles /\ troubles' = troubles + 1

-----------------------------------------------------------------------------
(* The mailbox and the agents.                                             *)

TimePasses ==
    /\ instant < MaxInstant /\ instant' = instant + 1
    /\ UNCHANGED <<kind, arrived, threadVars, ghostVars, receiver, tick, memory, saved, troubles>>

\* No two events fall on one instant: a message arrives after the last tick started.
Arrive(m) ==
    /\ arrived[m] = 0 /\ instant > tick.start
    /\ arrived' = [arrived EXCEPT ![m] = instant]
    /\ UNCHANGED <<instant, kind, threadVars, ghostVars, receiver, tick, memory, saved, troubles>>

Act(m) ==
    /\ m \in stored \ acted /\ acted' = acted \cup {m}
    /\ UNCHANGED <<mailboxVars, stored, parent, ghostVars, receiver, tick, memory, saved, troubles>>

-----------------------------------------------------------------------------
(* A tick of the poller.                                                   *)

\* The first tick of a process takes over the saved checkpoint, if it can read it.
Seed ==
    \/ /\ memory.seeded \/ saved = 0
       /\ memory' = [memory EXCEPT !.seeded = TRUE] /\ UNCHANGED troubles
    \/ /\ ~memory.seeded /\ saved # 0
       /\ memory' = [memory EXCEPT !.seeded = TRUE, !.checkpoint = saved]
       /\ UNCHANGED troubles
    \/ /\ ~memory.seeded /\ saved # 0 /\ Trouble
       /\ memory' = [memory EXCEPT !.seeded = TRUE]

BeginTick ==
    /\ tick.pc = "idle" /\ Seed
    /\ tick' = [pc |-> "listing", start |-> instant, todo |-> {}, hold |-> 0]
    /\ UNCHANGED <<mailboxVars, threadVars, ghostVars, receiver, saved>>

Since == IF memory.checkpoint # 0 THEN memory.checkpoint
         ELSE IF instant > Lookback THEN instant - Lookback ELSE 0

\* The filter is written in whole seconds.
Literal(t) == t - (t % Second)

Matching == {m \in Mail : arrived[m] > Literal(Since)}

\* In the order of arrival, as many as the pages hold.
Listed == {m \in Matching : Cardinality({n \in Matching : arrived[n] < arrived[m]}) < PageCap}

Handled(m) == m \in stored \cup refused \cup givenUp

ListMail ==
    /\ tick.pc = "listing"
    /\ tick' = [tick EXCEPT !.pc = "storing", !.todo = Listed]
    /\ LET beyond == Matching \ Listed
           before == {m \in Mail : memory.checkpoint = 0 /\ arrived[m] \in 1 .. Since}
       IN  outOfSight' = outOfSight \cup {m \in beyond \cup before : ~Handled(m)}
    /\ UNCHANGED <<mailboxVars, threadVars, refused, givenUp, receiver, memory, saved, troubles>>

\* Graph does not answer, or a rollback fails too: the checkpoint stays.
TickFails ==
    /\ tick.pc # "idle" /\ receiver["poll"].pc = "idle" /\ Trouble
    /\ tick' = [tick EXCEPT !.pc = "idle", !.todo = {}, !.hold = 0]
    /\ UNCHANGED <<mailboxVars, threadVars, ghostVars, receiver, memory, saved>>

\* Mutant: the checkpoint moves to the end of the listing, whatever failed.
NewCheckpoint_Unheld == tick.start

NewCheckpoint == IF tick.hold # 0 THEN tick.hold - 1 ELSE tick.start

\* The copy may fail to be written, which costs only the next process.
EndTick ==
    /\ tick.pc = "storing" /\ tick.todo = {} /\ receiver["poll"].pc = "idle"
    /\ tick' = [tick EXCEPT !.pc = "idle", !.hold = 0]
    /\ memory' = [memory EXCEPT !.checkpoint = NewCheckpoint]
    /\ \/ saved' = NewCheckpoint /\ UNCHANGED troubles
       \/ Trouble /\ UNCHANGED saved
    /\ UNCHANGED <<mailboxVars, threadVars, ghostVars, receiver>>

-----------------------------------------------------------------------------
(* receive_email, called by the poller for the messages of its listing in  *)
(* the order of arrival, and by the webhook for any message.               *)

MayReceive(r, m) ==
    /\ receiver[r].pc = "idle" /\ arrived[m] # 0
    /\ r = "poll" => /\ tick.pc = "storing" /\ m \in tick.todo
                     /\ \A n \in tick.todo : arrived[m] <= arrived[n]

\* The caller is through with m; only the poller keeps accounts.
Done(r, m) ==
    IF r = "poll"
    THEN /\ tick' = [tick EXCEPT !.todo = @ \ {m}]
         /\ memory' = [memory EXCEPT !.fails = [@ EXCEPT ![m] = 0]]
    ELSE UNCHANGED <<tick, memory>>

\* Nothing a retry could change: the kind of the message, or a row that is there already.
Refuse(r, m) ==
    /\ MayReceive(r, m) /\ (kind[m] = "refused" \/ m \in stored)
    /\ refused' = IF kind[m] = "refused" THEN refused \cup {m} ELSE refused
    /\ Done(r, m)
    /\ UNCHANGED <<mailboxVars, threadVars, givenUp, outOfSight, receiver, saved, troubles>>

IsRoot(m) == parent[m] = NoMail

\* The rows a walk up from m passes; it may go round in a loop.
WalkUp(m) == {x \in Mail : \A S \in SUBSET Mail :
    m \in S /\ (\A y \in S : IsRoot(y) \/ parent[y] \in S) => x \in S}
Roots(m) == {x \in WalkUp(m) : IsRoot(x)}

\* A row of the same conversation, any of them, or else the one that is answered.
\* A bounce is not threaded and its row names no conversation.
Matched(m) ==
    LET same == {n \in stored : kind[n] = "email" /\ Conversation[n] = Conversation[m]} IN
    IF kind[m] # "email" THEN {} ELSE IF same # {} THEN same ELSE {ReplyTo[m]} \cap stored

\* The recursive query for a root does not end on a loop: nothing more is threaded there.
ThreadsOf(m) == IF Matched(m) = {} THEN {NoMail}
                ELSE UNION {Roots(n) : n \in Matched(m)}

Match(r, m) ==
    /\ MayReceive(r, m) /\ kind[m] # "refused" /\ m \notin stored
    /\ \E p \in ThreadsOf(m) : receiver' = [receiver EXCEPT ![r] =
          [pc |-> "matched", mail |-> m, parent |-> p, orphans |-> {}]]
    /\ UNCHANGED <<mailboxVars, threadVars, ghostVars, tick, memory, saved, troubles>>

\* Mutant: no look backward once the original arrives.
Orphans_None(m) == {}

\* Replies already stored that waited for m and that nobody has touched.
Orphans(m) == {o \in stored \ acted : parent[o] = NoMail /\ ReplyTo[o] = m /\ kind[o] = "email"}

\* The unique index lets one transaction at a time insert the message.
Insert(r) ==
    LET m == receiver[r].mail IN
    /\ receiver[r].pc = "matched" /\ m \notin stored
    /\ \A q \in Receivers : receiver[q].pc = "inserted" => receiver[q].mail # m
    /\ receiver' = [receiver EXCEPT ![r] = [@ EXCEPT !.pc = "inserted",
                       !.orphans = IF kind[m] = "email" THEN Orphans(m) ELSE {}]]
    /\ UNCHANGED <<mailboxVars, threadVars, ghostVars, tick, memory, saved, troubles>>

LostInsertRace(r) ==
    LET m == receiver[r].mail IN
    /\ receiver[r].pc = "matched" /\ m \in stored
    /\ receiver' = [receiver EXCEPT ![r] = IdleReceiver]
    /\ Done(r, m)
    /\ UNCHANGED <<mailboxVars, threadVars, ghostVars, saved, troubles>>

Store(r) ==
    LET m == receiver[r].mail IN
    /\ receiver[r].pc = "inserted"
    /\ stored' = stored \cup {m}
    /\ parent' = [o \in Mail |-> IF o = m THEN receiver[r].parent
                                 ELSE IF o \in receiver[r].orphans THEN m
                                 ELSE parent[o]]
    /\ receiver' = [receiver EXCEPT ![r] = IdleReceiver]
    /\ Done(r, m)
    /\ UNCHANGED <<mailboxVars, acted, ghostVars, saved, troubles>>

Earlier(t, u) == IF u = 0 \/ t < u THEN t ELSE u

\* Mutant: a message that fails is never given up.
ReceiveFails_Forever(r) ==
    LET m == receiver[r].mail IN
    /\ receiver[r].pc # "idle" /\ Trouble
    /\ receiver' = [receiver EXCEPT ![r] = IdleReceiver]
    /\ tick' = [tick EXCEPT !.todo = @ \ {m}, !.hold = Earlier(arrived[m], @)]
    /\ memory' = [memory EXCEPT !.fails = [@ EXCEPT ![m] = @ + 1]]
    /\ UNCHANGED <<mailboxVars, threadVars, ghostVars, saved>>

\* Mutant: it leaves the listing and holds nothing back.
ReceiveFails_Dropped(r) ==
    LET m == receiver[r].mail IN
    /\ receiver[r].pc # "idle" /\ Trouble
    /\ receiver' = [receiver EXCEPT ![r] = IdleReceiver]
    /\ Done(r, m)
    /\ UNCHANGED <<mailboxVars, threadVars, ghostVars, saved>>

\* The exception rolls back.  The poller counts it and holds its checkpoint, until
\* it gives the message up; the webhook forgets the message.
ReceiveFails(r) ==
    LET m == receiver[r].mail
        attempts == memory.fails[m] + 1
        last == attempts >= RetryAttempts
    IN
    /\ receiver[r].pc # "idle" /\ Trouble
    /\ receiver' = [receiver EXCEPT ![r] = IdleReceiver]
    /\ IF r = "poll"
       THEN /\ tick' = [tick EXCEPT !.todo = @ \ {m},
                           !.hold = IF last THEN @ ELSE Earlier(arrived[m], @)]
            /\ memory' = [memory EXCEPT !.fails =
                             [@ EXCEPT ![m] = IF last THEN 0 ELSE attempts]]
            /\ givenUp' = IF last THEN givenUp \cup {m} ELSE givenUp
       ELSE UNCHANGED <<tick, memory, givenUp>>
    /\ UNCHANGED <<mailboxVars, threadVars, refused, outOfSight, saved>>

Reboot ==
    /\ Trouble
    /\ receiver' = [r \in Receivers |-> IdleReceiver]
    /\ tick' = [tick EXCEPT !.pc = "idle", !.todo = {}, !.hold = 0]
    /\ memory' = NewProcess
    /\ UNCHANGED <<mailboxVars, threadVars, ghostVars, saved>>

-----------------------------------------------------------------------------
Receive(r) ==
    \/ \E m \in Mail : Refuse(r, m) \/ Match(r, m)
    \/ Insert(r) \/ LostInsertRace(r) \/ Store(r)

IntakeNext ==
    \/ TimePasses \/ \E m \in Mail : Arrive(m) \/ Act(m)
    \/ BeginTick \/ ListMail \/ TickFails \/ EndTick
    \/ \E r \in Receivers : Receive(r) \/ ReceiveFails(r)
    \/ Reboot

Poll == BeginTick \/ ListMail \/ Receive("poll") \/ EndTick

\* The scheduler starts a tick every few seconds, one at a time, and its calls end.
\* A webhook transaction that holds the insert of a message ends too.
IntakeFairness == WF_inVars(Poll) /\ WF_inVars(Store("hook"))

IntakeSpec == IntakeInit /\ [][IntakeNext]_inVars /\ IntakeFairness

-----------------------------------------------------------------------------
(* Properties.                                                             *)

\* No checkpoint, the one in use or the one the next process will read, moves past
\* a message that is neither stored, refused nor given up: what failed is listed
\* again (_poll_one_mailbox).  Only a tick without a checkpoint, and a listing that
\* is cut at its last page, leave mail behind.
NothingIsPassedOver == \A m \in Mail :
    arrived[m] # 0 /\ ~Handled(m) /\ m \notin outOfSight =>
        arrived[m] > memory.checkpoint /\ arrived[m] > saved

\* A reply and its original are in one thread, whichever of the two was stored
\* first, unless an agent acted on the reply while it looked like a thread of its
\* own (_reconcile_orphaned_replies).
RepliesFindTheirThread == \A m \in stored :
    kind[m] = "email" /\ ReplyTo[m] \in stored /\ kind[ReplyTo[m]] = "email"
        => Roots(m) \cap Roots(ReplyTo[m]) # {} \/ m \in acted

\* Every row is in a thread that has a root: an inbox lists roots, and a thread
\* that is a loop is in none (find_thread_root).
ThreadsHaveARoot == \A m \in stored : Roots(m) # {}

\* Mail that reaches the mailbox is stored, refused or given up, or was out of the
\* sight of a process that could not read its checkpoint or of a full listing.
MailIsHandled == \A m \in Mail :
    arrived[m] # 0 ~> (Handled(m) \/ m \in outOfSight)
=============================================================================
