----------------------------- MODULE OutboundMail -----------------------------
(***************************************************************************)
(* Outbound replies and their undo window.  Sending a draft creates an     *)
(* interaction in PENDING_SEND, commits it and starts a task in the        *)
(* process's memory; ten seconds later the task reads the row again, calls *)
(* Graph and records SENT or FAILED.  Until then the sender may cancel;    *)
(* after FAILED the sender may retry.  Requests (Send, Undo) read, await   *)
(* and write in transactions of their own, so they overlap one another     *)
(* and the task.  The process may die, a commit may fail, and Graph may    *)
(* take an e-mail and fail to say so.                                      *)
(*                                                                         *)
(* The interactions are replies on a thread that is not a ticket yet.  The *)
(* text, the recipients and the attachments are left out.                  *)
(***************************************************************************)
EXTENDS Naturals

CONSTANTS
    Messages,       \* interactions that sends may create
    Clicks,         \* requests POST .../draft/send
    Cancels,        \* requests POST .../cancel-send
    Keys,           \* idempotency keys
    NoKey,          \* a request without one
    MaxAttempts,    \* bound: times a message is scheduled
    MaxDrafts,      \* bound: draft rows created on the thread
    MaxLost,        \* bound: e-mails Graph takes without an answer
    MaxInterrupts   \* bound: process deaths and failed commits

ASSUME OutboundAssumption ==
    /\ NoKey \notin Keys
    /\ MaxAttempts \in Nat \ {0} /\ MaxDrafts \in Nat
    /\ MaxLost \in Nat /\ MaxInterrupts \in Nat

VARIABLES
    message,        \* dispatch_status and dispatch_idempotency_key of each interaction
    attempt,        \* how often it was scheduled
    open,           \* is its send_after still ahead?
    task,           \* the delayed task of each attempt
    click,          \* the Send requests
    cancel,         \* the Undo requests
    draft,          \* the draft row of the thread: its number, 0 when there is none
    drafts,         \* draft rows created so far
    sent,           \* ghost: e-mails Graph took, for each message
    lost,           \* ghost: those of them that were answered by an error
    undone,         \* ghost: messages whose cancellation committed inside the window
    interrupted,    \* ghost: messages whose task or commit died
    interrupts      \* process deaths and failed commits so far

outVars == <<message, attempt, open, task, click, cancel, draft, drafts,
             sent, lost, undone, interrupted, interrupts>>
rowVars == <<message, attempt, open>>
draftVars == <<draft, drafts>>
mailVars == <<sent, lost>>
faultVars == <<interrupted, interrupts>>

Attempts == 1 .. MaxAttempts
DispatchStatuses == {"PENDING_SEND", "SENT", "FAILED", "CANCELED"}
Statuses == {"NONE"} \cup DispatchStatuses
TaskStates == {"none", "waiting", "sending", "accepted", "refused", "ended"}

NoMessage == [status |-> "NONE", key |-> NoKey]
IdleClick == [pc |-> "idle", key |-> NoKey, draft |-> 0]
IdleCancel == [pc |-> "idle"]
Loaded(m) == [pc |-> "loaded", message |-> m]

Exists(m) == message[m].status # "NONE"
\* Mutant: the key is compared only with messages still on their way.
KeyTaken_Pending(k) ==
    k # NoKey /\ \E m \in Messages : message[m].status = "PENDING_SEND" /\ message[m].key = k

KeyTaken(k) == k # NoKey /\ \E m \in Messages : Exists(m) /\ message[m].key = k

OutTypeOK ==
    /\ message \in [Messages -> [status : Statuses, key : Keys \cup {NoKey}]]
    /\ attempt \in [Messages -> 0 .. MaxAttempts]
    /\ open \in [Messages -> BOOLEAN]
    /\ task \in [Messages -> [Attempts -> TaskStates]]
    /\ click \in [Clicks -> [pc : {"idle", "loaded", "created"},
                             key : Keys \cup {NoKey}, draft : 0 .. MaxDrafts]]
    /\ cancel \in [Cancels -> {IdleCancel} \cup {Loaded(m) : m \in Messages}]
    /\ drafts \in 0 .. MaxDrafts /\ draft \in 0 .. drafts
    /\ sent \in [Messages -> Nat] /\ lost \in [Messages -> 0 .. MaxLost]
    /\ undone \subseteq Messages /\ interrupted \subseteq Messages
    /\ interrupts \in 0 .. MaxInterrupts

OutInit ==
    /\ message = [m \in Messages |-> NoMessage]
    /\ attempt = [m \in Messages |-> 0]
    /\ open = [m \in Messages |-> FALSE]
    /\ task = [m \in Messages |-> [a \in Attempts |-> "none"]]
    /\ click = [c \in Clicks |-> IdleClick]
    /\ cancel = [x \in Cancels |-> IdleCancel]
    /\ draft = 0 /\ drafts = 0
    /\ sent = [m \in Messages |-> 0] /\ lost = [m \in Messages |-> 0]
    /\ undone = {} /\ interrupted = {} /\ interrupts = 0

-----------------------------------------------------------------------------
(* Drafts.                                                                 *)

\* The first autosave creates the row; the index refuses a second one.  Later
\* ones overwrite its text.
SaveDraft ==
    /\ draft = 0 /\ drafts < MaxDrafts
    /\ drafts' = drafts + 1 /\ draft' = drafts'
    /\ UNCHANGED <<rowVars, task, click, cancel, mailVars, undone, faultVars>>

DiscardDraft ==
    /\ draft # 0 /\ draft' = 0
    /\ UNCHANGED <<rowVars, task, click, cancel, drafts, mailVars, undone, faultVars>>

-----------------------------------------------------------------------------
(* Scheduling: one commit makes the row PENDING_SEND with a new send_after *)
(* and a task sleeps until then.                                           *)

Scheduled(m, k) ==
    /\ attempt[m] < MaxAttempts
    /\ message' = [message EXCEPT ![m] = [status |-> "PENDING_SEND", key |-> k]]
    /\ attempt' = [attempt EXCEPT ![m] = @ + 1]
    /\ open' = [open EXCEPT ![m] = TRUE]
    /\ task' = [task EXCEPT ![m] = [@ EXCEPT ![attempt[m] + 1] = "waiting"]]

-----------------------------------------------------------------------------
(* Send: the key is looked up before the draft.                            *)

SendLoad(c, k) ==
    /\ click[c].pc = "idle" /\ ~KeyTaken(k) /\ draft # 0
    /\ click' = [click EXCEPT ![c] = [pc |-> "loaded", key |-> k, draft |-> draft]]
    /\ UNCHANGED <<rowVars, task, cancel, draftVars, mailVars, undone, faultVars>>

\* The insert and its schedule.
SendCreate(c, m) ==
    /\ click[c].pc = "loaded" /\ ~Exists(m) /\ ~KeyTaken(click[c].key)
    /\ Scheduled(m, click[c].key)
    /\ click' = [click EXCEPT ![c].pc = "created"]
    /\ UNCHANGED <<cancel, draftVars, mailVars, undone, faultVars>>

\* The unique index refuses the key: the request goes on with the message that has it.
SendFindsExisting(c) ==
    /\ click[c].pc = "loaded" /\ KeyTaken(click[c].key)
    /\ click' = [click EXCEPT ![c].pc = "created"]
    /\ UNCHANGED <<rowVars, task, cancel, draftVars, mailVars, undone, faultVars>>

\* The rest of the request, a transaction of its own: the draft goes.
SendFinish(c) ==
    /\ click[c].pc = "created"
    /\ draft' = IF draft = click[c].draft THEN 0 ELSE draft
    /\ click' = [click EXCEPT ![c] = IdleClick]
    /\ UNCHANGED <<rowVars, task, cancel, drafts, mailVars, undone, faultVars>>

\* An exception: what was not committed is rolled back, what was stays.
SendFails(c) ==
    /\ click[c].pc # "idle" /\ click' = [click EXCEPT ![c] = IdleClick]
    /\ UNCHANGED <<rowVars, task, cancel, draftVars, mailVars, undone, faultVars>>

-----------------------------------------------------------------------------
(* Undo and retry.                                                         *)

CancelLoad(x, m) ==
    /\ cancel[x].pc = "idle" /\ message[m].status = "PENDING_SEND" /\ open[m]
    /\ cancel' = [cancel EXCEPT ![x] = Loaded(m)]
    /\ UNCHANGED <<rowVars, task, click, draftVars, mailVars, undone, faultVars>>

\* The write does not ask again what it overwrites.
CancelCommit(x, m) ==
    /\ cancel[x] = Loaded(m)
    /\ message' = [message EXCEPT ![m].status = "CANCELED"]
    /\ cancel' = [cancel EXCEPT ![x] = IdleCancel]
    /\ undone' = IF open[m] THEN undone \cup {m} ELSE undone
    /\ UNCHANGED <<attempt, open, task, click, draftVars, mailVars, faultVars>>

\* Mutant: the update asks only that nothing is on its way, as a loaded row would tell.
Retry_AnyEnded(m) ==
    /\ message[m].status \in {"FAILED", "PENDING_SEND"} /\ ~open[m]
    /\ Scheduled(m, message[m].key)
    /\ UNCHANGED <<click, cancel, draftVars, mailVars, undone, faultVars>>

\* The conditional update and the commit hold the row together.
Retry(m) ==
    /\ message[m].status = "FAILED"
    /\ Scheduled(m, message[m].key)
    /\ UNCHANGED <<click, cancel, draftVars, mailVars, undone, faultVars>>

-----------------------------------------------------------------------------
(* The delayed task.                                                       *)

WindowCloses(m) ==
    /\ open[m] /\ open' = [open EXCEPT ![m] = FALSE]
    /\ UNCHANGED <<message, attempt, task, click, cancel, draftVars, mailVars, undone, faultVars>>

TaskMoves(m, a, from, to) ==
    /\ task[m][a] = from
    /\ task' = [task EXCEPT ![m] = [@ EXCEPT ![a] = to]]

\* Mutant: the task trusts the copy it was started with.
Wake_Unread(m, a) ==
    /\ ~open[m]
    /\ TaskMoves(m, a, "waiting", "sending")
    /\ UNCHANGED <<rowVars, click, cancel, draftVars, mailVars, undone, faultVars>>

\* It reads the row in a session of its own and goes on only from PENDING_SEND.
Wake(m, a) ==
    /\ ~open[m]
    /\ TaskMoves(m, a, "waiting",
                 IF message[m].status = "PENDING_SEND" THEN "sending" ELSE "ended")
    /\ UNCHANGED <<rowVars, click, cancel, draftVars, mailVars, undone, faultVars>>

GraphAccepts(m, a) ==
    /\ TaskMoves(m, a, "sending", "accepted")
    /\ sent' = [sent EXCEPT ![m] = @ + 1]
    /\ UNCHANGED <<rowVars, click, cancel, draftVars, lost, undone, faultVars>>

GraphRefuses(m, a) ==
    /\ TaskMoves(m, a, "sending", "refused")
    /\ UNCHANGED <<rowVars, click, cancel, draftVars, mailVars, undone, faultVars>>

\* A timeout after Graph took the e-mail is an exception like any other.
AnswerLost(m, a) ==
    /\ lost[m] < MaxLost
    /\ TaskMoves(m, a, "sending", "refused")
    /\ sent' = [sent EXCEPT ![m] = @ + 1]
    /\ lost' = [lost EXCEPT ![m] = @ + 1]
    /\ UNCHANGED <<rowVars, click, cancel, draftVars, undone, faultVars>>

\* Mutant: the failure is not committed before the exception rolls back.
RecordResult_FailedRollsBack(m, a) ==
    /\ \/ /\ TaskMoves(m, a, "accepted", "ended")
          /\ message' = [message EXCEPT ![m].status = "SENT"]
       \/ /\ TaskMoves(m, a, "refused", "ended")
          /\ UNCHANGED message
    /\ UNCHANGED <<attempt, open, click, cancel, draftVars, mailVars, undone, faultVars>>

\* Mutant: every end of the call is recorded as a failure.
RecordResult_AllFailed(m, a) ==
    /\ \E from \in {"accepted", "refused"} : TaskMoves(m, a, from, "ended")
    /\ message' = [message EXCEPT ![m].status = "FAILED"]
    /\ UNCHANGED <<attempt, open, click, cancel, draftVars, mailVars, undone, faultVars>>

\* The payload read before the call is written back whole.
RecordResult(m, a) ==
    /\ \/ /\ TaskMoves(m, a, "accepted", "ended")
          /\ message' = [message EXCEPT ![m].status = "SENT"]
       \/ /\ TaskMoves(m, a, "refused", "ended")
          /\ message' = [message EXCEPT ![m].status = "FAILED"]
    /\ UNCHANGED <<attempt, open, click, cancel, draftVars, mailVars, undone, faultVars>>

-----------------------------------------------------------------------------
(* Faults.                                                                 *)

\* The commit of the result fails: the row stays PENDING_SEND.
ResultIsLost(m, a) ==
    /\ interrupts < MaxInterrupts
    /\ TaskMoves(m, a, "accepted", "ended") \/ TaskMoves(m, a, "refused", "ended")
    /\ interrupts' = interrupts + 1 /\ interrupted' = interrupted \cup {m}
    /\ UNCHANGED <<rowVars, click, cancel, draftVars, mailVars, undone>>

Alive(m) == \E a \in Attempts : task[m][a] \notin {"none", "ended"}

\* The process dies and starts again: tasks and requests lived in its memory.
Restart ==
    /\ interrupts < MaxInterrupts /\ interrupts' = interrupts + 1
    /\ interrupted' = interrupted \cup {m \in Messages : Alive(m)}
    /\ task' = [m \in Messages |-> [a \in Attempts |->
                   IF task[m][a] = "none" THEN "none" ELSE "ended"]]
    /\ click' = [c \in Clicks |-> IdleClick]
    /\ cancel' = [x \in Cancels |-> IdleCancel]
    /\ UNCHANGED <<rowVars, draftVars, mailVars, undone>>

-----------------------------------------------------------------------------
TaskSteps(m, a) ==
    \/ Wake(m, a)
    \/ GraphAccepts(m, a) \/ GraphRefuses(m, a) \/ AnswerLost(m, a)
    \/ RecordResult(m, a)

OutNext ==
    \/ SaveDraft \/ DiscardDraft
    \/ \E c \in Clicks, k \in Keys \cup {NoKey} : SendLoad(c, k)
    \/ \E c \in Clicks, m \in Messages : SendCreate(c, m)
    \/ \E c \in Clicks : SendFindsExisting(c) \/ SendFinish(c) \/ SendFails(c)
    \/ \E x \in Cancels, m \in Messages : CancelLoad(x, m) \/ CancelCommit(x, m)
    \/ \E m \in Messages : Retry(m) \/ WindowCloses(m)
    \/ \E m \in Messages, a \in Attempts : TaskSteps(m, a) \/ ResultIsLost(m, a)
    \/ Restart

\* Time passes, the event loop runs its tasks and every call to Graph has a
\* timeout; nothing is assumed of the requests.
OutFairness == \A m \in Messages :
    WF_outVars(WindowCloses(m) \/ \E a \in Attempts : TaskSteps(m, a))

OutSpec == OutInit /\ [][OutNext]_outVars /\ OutFairness

-----------------------------------------------------------------------------
(* Properties.                                                             *)

\* However requests overlap, retries are clicked and the process dies, a client
\* gets a message once, and once more only for each e-mail that Graph took
\* while its answer was lost (_dispatch_and_record, retry_failed_send).
DuplicateOnlyAfterLostAnswer == \A m \in Messages : sent[m] <= lost[m] + 1

\* The row tells the truth to whoever would retry: SENT was taken by Graph, and
\* of a FAILED message no e-mail went out but those whose answer was lost.
StatusIsTrue == \A m \in Messages :
    /\ message[m].status = "SENT" => sent[m] = lost[m] + 1
    /\ message[m].status = "FAILED" => sent[m] = lost[m]

\* Two clicks with one key, also after a first one that failed half-way, lead to
\* e-mails of one message only (dispatch_idempotency_key).
KeyedSendMailsOneMessage == \A m, n \in Messages :
    sent[m] > 0 /\ sent[n] > 0 /\ message[m].key = message[n].key
        => m = n \/ message[m].key = NoKey

\* What was canceled inside its window stays canceled: it is neither sent, nor
\* marked otherwise, nor retried (cancel_pending_send, _dispatch_if_still_pending).
TimelyCancelIsFinal ==
    [][\A m \in undone : sent'[m] = sent[m] /\ message'[m] = message[m]]_outVars

\* A message does not stay PENDING_SEND, unless the process died or the commit of
\* its result failed: nothing but the task in memory ever sends it.
PendingSendEnds == \A m \in Messages :
    message[m].status = "PENDING_SEND" ~>
        (message[m].status # "PENDING_SEND" \/ m \in interrupted)
=============================================================================
