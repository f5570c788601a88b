--------------------------- MODULE OutboundMailProofs ---------------------------
(***************************************************************************)
(* Outbound mail for any number of messages, requests, attempts and        *)
(* faults.                                                                 *)
(***************************************************************************)
EXTENDS OutboundMail, TLAPS

---------------------------------------------------------------------------
(* What the steps do to the nested functions                               *)

\* Moving one task leaves the others alone.
LEMMA TaskMovesFacts ==
    ASSUME OutTypeOK, NEW m \in Messages, NEW a \in Attempts,
           NEW from, NEW to \in TaskStates, TaskMoves(m, a, from, to)
    PROVE  /\ task[m][a] = from
           /\ task' \in [Messages -> [Attempts -> TaskStates]]
           /\ \A n \in Messages, b \in Attempts :
                 task'[n][b] = IF n = m /\ b = a THEN to ELSE task[n][b]
<1> DEFINE moved == [task[m] EXCEPT ![a] = to]
<1>1. moved \in [Attempts -> TaskStates]
  BY DEF OutTypeOK
<1>2. \A b \in Attempts : moved[b] = IF b = a THEN to ELSE task[m][b]
  BY DEF OutTypeOK
<1>3. task' = [task EXCEPT ![m] = moved]
  BY DEF TaskMoves
<1> HIDE DEF moved
<1> QED BY <1>1, <1>2, <1>3 DEF OutTypeOK, TaskMoves

\* Scheduling starts the next task of one message.
LEMMA ScheduledFacts ==
    ASSUME OutTypeOK, NEW m \in Messages, NEW k \in Keys \cup {NoKey}, Scheduled(m, k)
    PROVE  /\ attempt[m] + 1 \in Attempts
           /\ attempt' \in [Messages -> 0 .. MaxAttempts]
           /\ message' \in [Messages -> [status : Statuses, key : Keys \cup {NoKey}]]
           /\ open' \in [Messages -> BOOLEAN]
           /\ task' \in [Messages -> [Attempts -> TaskStates]]
           /\ \A n \in Messages \ {m} : /\ message'[n] = message[n]
                                        /\ attempt'[n] = attempt[n]
                                        /\ open'[n] = open[n]
                                        /\ task'[n] = task[n]
           /\ message'[m].status = "PENDING_SEND" /\ message'[m].key = k
           /\ attempt'[m] = attempt[m] + 1
           /\ \A b \in Attempts :
                 task'[m][b] = IF b = attempt[m] + 1 THEN "waiting" ELSE task[m][b]
<1> DEFINE next == attempt[m] + 1
           started == [task[m] EXCEPT ![next] = "waiting"]
<1>1. next \in Attempts
  BY OutboundAssumption DEF Scheduled, OutTypeOK, Attempts
<1>2. started \in [Attempts -> TaskStates]
  BY DEF OutTypeOK, TaskStates
<1>3. \A b \in Attempts : started[b] = IF b = next THEN "waiting" ELSE task[m][b]
  BY DEF OutTypeOK
<1>4. task' = [task EXCEPT ![m] = started]
  BY DEF Scheduled
<1>5. next \in 0 .. MaxAttempts /\ attempt' = [attempt EXCEPT ![m] = next]
  BY <1>1, OutboundAssumption DEF Scheduled, Attempts
<1>6. [status |-> "PENDING_SEND", key |-> k] \in [status : Statuses, key : Keys \cup {NoKey}]
  BY DEF Statuses, DispatchStatuses
<1> HIDE DEF started, next
<1> QED BY <1>1, <1>2, <1>3, <1>4, <1>5, <1>6 DEF Scheduled, OutTypeOK, next

\* Writing one field of one row, or of one request.
LEMMA StatusWrite ==
    ASSUME OutTypeOK, NEW m \in Messages, NEW s \in Statuses
    PROVE  /\ [message EXCEPT ![m].status = s]
                 \in [Messages -> [status : Statuses, key : Keys \cup {NoKey}]]
           /\ [message EXCEPT ![m].status = s][m].status = s
           /\ [message EXCEPT ![m].status = s][m].key = message[m].key
           /\ \A n \in Messages \ {m} : [message EXCEPT ![m].status = s][n] = message[n]
<1> DEFINE row == [message[m] EXCEPT !.status = s]
<1>1. /\ row \in [status : Statuses, key : Keys \cup {NoKey}]
      /\ row.status = s /\ row.key = message[m].key
  BY DEF OutTypeOK
<1>2. [message EXCEPT ![m].status = s] = [message EXCEPT ![m] = row]
  OBVIOUS
<1> HIDE DEF row
<1> QED BY <1>1, <1>2 DEF OutTypeOK

LEMMA ClickWrite ==
    ASSUME OutTypeOK, NEW c \in Clicks
    PROVE  [click EXCEPT ![c].pc = "created"]
              \in [Clicks -> [pc : {"idle", "loaded", "created"},
                             key : Keys \cup {NoKey}, draft : 0 .. MaxDrafts]]
<1> DEFINE request == [click[c] EXCEPT !.pc = "created"]
<1>1. request \in [pc : {"idle", "loaded", "created"},
                   key : Keys \cup {NoKey}, draft : 0 .. MaxDrafts]
  BY DEF OutTypeOK
<1>2. [click EXCEPT ![c].pc = "created"] = [click EXCEPT ![c] = request]
  OBVIOUS
<1> HIDE DEF request
<1> QED BY <1>1, <1>2 DEF OutTypeOK

---------------------------------------------------------------------------
(* Types                                                                   *)

LEMMA RequestTypeStep ==
    ASSUME OutTypeOK,
           \/ SaveDraft \/ DiscardDraft
           \/ \E c \in Clicks, k \in Keys \cup {NoKey} : SendLoad(c, k)
           \/ \E c \in Clicks : SendFindsExisting(c) \/ SendFinish(c) \/ SendFails(c)
           \/ \E x \in Cancels, m \in Messages : CancelLoad(x, m) \/ CancelCommit(x, m)
           \/ \E m \in Messages : WindowCloses(m)
    PROVE  OutTypeOK'
<1> USE OutboundAssumption
<1>1. CASE SaveDraft \/ DiscardDraft
  BY <1>1 DEF OutTypeOK, SaveDraft, DiscardDraft, rowVars, mailVars, faultVars
<1>2. ASSUME NEW c \in Clicks, NEW k \in Keys \cup {NoKey}, SendLoad(c, k) PROVE OutTypeOK'
  BY <1>2 DEF OutTypeOK, SendLoad, rowVars, draftVars, mailVars, faultVars
<1>3. ASSUME NEW c \in Clicks, SendFindsExisting(c) \/ SendFinish(c) \/ SendFails(c)
      PROVE  OutTypeOK'
  <2>1. click' \in [Clicks -> [pc : {"idle", "loaded", "created"},
                               key : Keys \cup {NoKey}, draft : 0 .. MaxDrafts]]
    <3>1. CASE SendFindsExisting(c)
      BY <3>1, ClickWrite DEF SendFindsExisting
    <3>2. CASE SendFinish(c) \/ SendFails(c)
      <4>1. IdleClick \in [pc : {"idle", "loaded", "created"},
                           key : Keys \cup {NoKey}, draft : 0 .. MaxDrafts]
        BY DEF IdleClick
      <4>2. click' = [click EXCEPT ![c] = IdleClick]
        BY <3>2 DEF SendFinish, SendFails
      <4> QED BY <4>1, <4>2 DEF OutTypeOK
    <3> QED BY <1>3, <3>1, <3>2
  <2>2. draft' \in 0 .. drafts' /\ drafts' = drafts
    BY <1>3 DEF OutTypeOK, SendFindsExisting, SendFinish, SendFails, draftVars
  <2> QED BY <1>3, <2>1, <2>2 DEF OutTypeOK, SendFindsExisting, SendFinish, SendFails,
             rowVars, mailVars, faultVars
<1>4. ASSUME NEW x \in Cancels, NEW m \in Messages, CancelLoad(x, m) PROVE OutTypeOK'
  BY <1>4 DEF OutTypeOK, CancelLoad, rowVars, draftVars, mailVars, faultVars
<1>5. ASSUME NEW x \in Cancels, NEW m \in Messages, CancelCommit(x, m) PROVE OutTypeOK'
  <2>1. message' \in [Messages -> [status : Statuses, key : Keys \cup {NoKey}]]
    BY <1>5, StatusWrite DEF CancelCommit, Statuses, DispatchStatuses
  <2>2. cancel' \in [Cancels -> {IdleCancel} \cup {Loaded(n) : n \in Messages}]
    BY <1>5 DEF OutTypeOK, CancelCommit
  <2>3. undone' \subseteq Messages
    BY <1>5 DEF OutTypeOK, CancelCommit
  <2> QED BY <1>5, <2>1, <2>2, <2>3 DEF OutTypeOK, CancelCommit, draftVars, mailVars, faultVars
<1>6. ASSUME NEW m \in Messages, WindowCloses(m) PROVE OutTypeOK'
  BY <1>6 DEF OutTypeOK, WindowCloses, draftVars, mailVars, faultVars
<1> QED BY <1>1, <1>2, <1>3, <1>4, <1>5, <1>6

LEMMA ScheduleTypeStep ==
    ASSUME OutTypeOK,
           \/ \E c \in Clicks, m \in Messages : SendCreate(c, m)
           \/ \E m \in Messages : Retry(m)
    PROVE  OutTypeOK'
<1>1. ASSUME NEW c \in Clicks, NEW m \in Messages, SendCreate(c, m) PROVE OutTypeOK'
  <2>1. click[c].key \in Keys \cup {NoKey}
    BY DEF OutTypeOK
  <2>2. click' \in [Clicks -> [pc : {"idle", "loaded", "created"},
                               key : Keys \cup {NoKey}, draft : 0 .. MaxDrafts]]
    BY <1>1, ClickWrite DEF SendCreate
  <2> QED BY <1>1, <2>1, <2>2, ScheduledFacts
          DEF OutTypeOK, SendCreate, draftVars, mailVars, faultVars
<1>2. ASSUME NEW m \in Messages, Retry(m) PROVE OutTypeOK'
  <2>1. message[m].key \in Keys \cup {NoKey}
    BY DEF OutTypeOK
  <2> QED BY <1>2, <2>1, ScheduledFacts DEF OutTypeOK, Retry, draftVars, mailVars, faultVars
<1> QED BY <1>1, <1>2

\* The steps of tasks: where the task and the row go.
LEMMA TaskStepFacts ==
    ASSUME OutTypeOK, NEW m \in Messages, NEW a \in Attempts,
           TaskSteps(m, a) \/ ResultIsLost(m, a)
    PROVE  \E from, to \in TaskStates :
              /\ TaskMoves(m, a, from, to)
              /\ to # "none" /\ from # "none" /\ from # "ended"
              /\ \/ /\ from = "waiting" /\ ~open[m] /\ message' = message
                    /\ to \in {"sending", "ended"}
                    /\ to = "sending" => message[m].status = "PENDING_SEND"
                    /\ sent' = sent /\ lost' = lost
                 \/ /\ from = "sending" /\ to = "accepted" /\ message' = message
                    /\ sent' = [sent EXCEPT ![m] = @ + 1] /\ lost' = lost
                 \/ /\ from = "sending" /\ to = "refused" /\ message' = message
                    /\ sent' = sent /\ lost' = lost
                 \/ /\ from = "sending" /\ to = "refused" /\ message' = message
                    /\ lost[m] < MaxLost
                    /\ sent' = [sent EXCEPT ![m] = @ + 1]
                    /\ lost' = [lost EXCEPT ![m] = @ + 1]
                 \/ /\ from = "accepted" /\ to = "ended"
                    /\ message' = [message EXCEPT ![m].status = "SENT"]
                    /\ sent' = sent /\ lost' = lost
                 \/ /\ from = "refused" /\ to = "ended"
                    /\ message' = [message EXCEPT ![m].status = "FAILED"]
                    /\ sent' = sent /\ lost' = lost
                 \/ /\ from \in {"accepted", "refused"} /\ to = "ended" /\ message' = message
                    /\ sent' = sent /\ lost' = lost
              /\ attempt' = attempt /\ open' = open
              /\ click' = click /\ cancel' = cancel /\ draft' = draft /\ drafts' = drafts
              /\ undone' = undone
<1> USE DEF TaskStates, rowVars, draftVars, mailVars, faultVars
<1>1. CASE Wake(m, a)
  <2> DEFINE to == IF message[m].status = "PENDING_SEND" THEN "sending" ELSE "ended"
  <2> WITNESS "waiting" \in TaskStates, to \in TaskStates
  <2> QED BY <1>1 DEF Wake
<1>2. CASE GraphAccepts(m, a)
  <2> WITNESS "sending" \in TaskStates, "accepted" \in TaskStates
  <2> QED BY <1>2 DEF GraphAccepts
<1>3. CASE GraphRefuses(m, a)
  <2> WITNESS "sending" \in TaskStates, "refused" \in TaskStates
  <2> QED BY <1>3 DEF GraphRefuses
<1>4. CASE AnswerLost(m, a)
  <2> WITNESS "sending" \in TaskStates, "refused" \in TaskStates
  <2> QED BY <1>4 DEF AnswerLost
<1>5. CASE RecordResult(m, a)
  <2>1. CASE TaskMoves(m, a, "accepted", "ended") /\ message' = [message EXCEPT ![m].status = "SENT"]
    <3> WITNESS "accepted" \in TaskStates, "ended" \in TaskStates
    <3> QED BY <1>5, <2>1 DEF RecordResult
  <2>2. CASE TaskMoves(m, a, "refused", "ended") /\ message' = [message EXCEPT ![m].status = "FAILED"]
    <3> WITNESS "refused" \in TaskStates, "ended" \in TaskStates
    <3> QED BY <1>5, <2>2 DEF RecordResult
  <2> QED BY <1>5, <2>1, <2>2 DEF RecordResult
<1>6. CASE ResultIsLost(m, a)
  <2>1. PICK from \in {"accepted", "refused"} : TaskMoves(m, a, from, "ended")
    BY <1>6 DEF ResultIsLost
  <2> WITNESS from \in TaskStates, "ended" \in TaskStates
  <2> QED BY <1>6, <2>1 DEF ResultIsLost
<1> QED BY <1>1, <1>2, <1>3, <1>4, <1>5, <1>6 DEF TaskSteps

LEMMA TaskTypeStep ==
    ASSUME OutTypeOK, NEW m \in Messages, NEW a \in Attempts,
           TaskSteps(m, a) \/ ResultIsLost(m, a)
    PROVE  OutTypeOK'
<1>1. PICK from \in TaskStates, to \in TaskStates :
         TaskMoves(m, a, from, to)
  BY TaskStepFacts
<1>2. task' \in [Messages -> [Attempts -> TaskStates]]
  BY <1>1, TaskMovesFacts
<1>3. message' \in [Messages -> [status : Statuses, key : Keys \cup {NoKey}]]
  <2>1. \/ message' = message
        \/ message' = [message EXCEPT ![m].status = "SENT"]
        \/ message' = [message EXCEPT ![m].status = "FAILED"]
    BY DEF TaskSteps, ResultIsLost, Wake, GraphAccepts, GraphRefuses, AnswerLost,
       RecordResult, rowVars
  <2>2. {"SENT", "FAILED"} \subseteq Statuses
    BY DEF Statuses, DispatchStatuses
  <2> QED BY <2>1, <2>2, StatusWrite DEF OutTypeOK
<1>4. sent' \in [Messages -> Nat] /\ lost' \in [Messages -> 0 .. MaxLost]
  <2>1. CASE UNCHANGED mailVars
    BY <2>1 DEF OutTypeOK, mailVars
  <2>2. CASE GraphAccepts(m, a)
    BY <2>2 DEF OutTypeOK, GraphAccepts
  <2>3. CASE AnswerLost(m, a)
    <3>1. lost[m] + 1 \in 0 .. MaxLost
      BY <2>3, OutboundAssumption DEF OutTypeOK, AnswerLost
    <3> QED BY <2>3, <3>1 DEF OutTypeOK, AnswerLost
  <2> QED BY <2>1, <2>2, <2>3 DEF TaskSteps, ResultIsLost, Wake, GraphRefuses, RecordResult
<1>5. interrupted' \subseteq Messages /\ interrupts' \in 0 .. MaxInterrupts
  BY OutboundAssumption DEF OutTypeOK, TaskSteps, ResultIsLost, Wake, GraphAccepts,
     GraphRefuses, AnswerLost, RecordResult, faultVars
<1>6. /\ attempt' = attempt /\ open' = open /\ click' = click /\ cancel' = cancel
      /\ draft' = draft /\ drafts' = drafts /\ undone' = undone
  BY TaskStepFacts
<1> QED BY <1>2, <1>3, <1>4, <1>5, <1>6 DEF OutTypeOK

LEMMA RestartFacts ==
    ASSUME OutTypeOK, Restart
    PROVE  /\ OutTypeOK'
           /\ \A m \in Messages, a \in Attempts :
                 task'[m][a] = IF task[m][a] = "none" THEN "none" ELSE "ended"
<1>1. task' \in [Messages -> [Attempts -> TaskStates]]
  BY DEF OutTypeOK, Restart, TaskStates
<1>2. click' \in [Clicks -> [pc : {"idle", "loaded", "created"},
                             key : Keys \cup {NoKey}, draft : 0 .. MaxDrafts]]
  BY OutboundAssumption DEF Restart, IdleClick
<1>3. cancel' \in [Cancels -> {IdleCancel} \cup {Loaded(m) : m \in Messages}]
  BY DEF Restart
<1>4. interrupted' \subseteq Messages /\ interrupts' \in 0 .. MaxInterrupts
  BY OutboundAssumption DEF OutTypeOK, Restart
<1>5. OutTypeOK'
  BY <1>1, <1>2, <1>3, <1>4 DEF OutTypeOK, Restart, rowVars, draftVars, mailVars
<1> QED BY <1>5 DEF Restart

LEMMA TypeInit == OutInit => OutTypeOK
BY OutboundAssumption DEF OutInit, OutTypeOK, NoMessage, IdleClick, IdleCancel,
   Statuses, DispatchStatuses, TaskStates, Attempts

LEMMA TypeStep == OutTypeOK /\ [OutNext]_outVars => OutTypeOK'
<1> SUFFICES ASSUME OutTypeOK, [OutNext]_outVars PROVE OutTypeOK'
  OBVIOUS
<1>1. CASE UNCHANGED outVars
  BY <1>1 DEF outVars, OutTypeOK
<1>2. CASE OutNext
  BY <1>2, RequestTypeStep, ScheduleTypeStep, TaskTypeStep, RestartFacts DEF OutNext
<1> QED BY <1>1, <1>2

\* Types, for any number of messages, requests, attempts and faults.
THEOREM OutTypeCorrect == OutSpec => []OutTypeOK
BY TypeInit, TypeStep, PTL DEF OutSpec

---------------------------------------------------------------------------
(* The invariant                                                           *)

\* No task of the message is at Graph.
Still(m) == \A a \in Attempts : task[m][a] \in {"none", "waiting", "ended"}
Idle(m) == \A a \in Attempts : task[m][a] \in {"none", "ended"}

\* One attempt at a time: those before are over, those after have not begun.
TasksInTurn(m) == \A a \in Attempts :
    /\ task[m][a] \in {"waiting", "sending", "accepted", "refused"} => a = attempt[m]
    /\ task[m][a] = "none" <=> a > attempt[m]

\* What the task knows of the e-mails that went out.
TaskKnows(m) ==
    /\ sent[m] <= lost[m] + 1
    /\ \A a \in Attempts :
          /\ task[m][a] \in {"waiting", "sending", "refused"} => sent[m] = lost[m]
          /\ task[m][a] = "accepted" => sent[m] = lost[m] + 1

\* What the row knows of its tasks.
RowKnows(m) ==
    /\ message[m].status = "NONE" =>
          attempt[m] = 0 /\ ~open[m] /\ sent[m] = 0 /\ lost[m] = 0 /\ m \notin undone
    /\ message[m].status = "SENT" => Idle(m) /\ sent[m] = lost[m] + 1
    /\ message[m].status = "FAILED" => Idle(m) /\ sent[m] = lost[m]
    /\ open[m] => Still(m)
    /\ m \in undone => message[m].status = "CANCELED" /\ Still(m)

MailInv(m) == TasksInTurn(m) /\ TaskKnows(m) /\ RowKnows(m)

\* The partial unique index on the key.
KeysDiffer == \A m, n \in Messages :
    Exists(m) /\ Exists(n) /\ message[m].key = message[n].key
        => m = n \/ message[m].key = NoKey

\* A request loads rows that exist, and rows are not deleted.
CancelsExist == \A x \in Cancels, m \in Messages : cancel[x] = Loaded(m) => Exists(m)

IInv == OutTypeOK /\ (\A m \in Messages : MailInv(m)) /\ KeysDiffer /\ CancelsExist

LEMMA IInvInit == OutInit => IInv
<1> SUFFICES ASSUME OutInit PROVE IInv
  OBVIOUS
<1>1. ASSUME NEW m \in Messages PROVE MailInv(m)
  <2>1. /\ message[m].status = "NONE" /\ attempt[m] = 0 /\ ~open[m]
        /\ sent[m] = 0 /\ lost[m] = 0 /\ m \notin undone
        /\ \A a \in Attempts : task[m][a] = "none"
    BY DEF OutInit, NoMessage
  <2>2. TasksInTurn(m)
    BY <2>1 DEF TasksInTurn, Attempts
  <2> QED BY <2>1, <2>2 DEF MailInv, TaskKnows, RowKnows, Still
<1>3. CancelsExist
  BY DEF OutInit, CancelsExist, IdleCancel, Loaded
<1>2. KeysDiffer
  BY DEF OutInit, KeysDiffer, Exists, NoMessage
<1> QED BY <1>1, <1>2, <1>3, TypeInit DEF IInv

\* What is not touched keeps what is known of it.
LEMMA MailUntouched ==
    ASSUME NEW m \in Messages, MailInv(m),
           UNCHANGED <<message[m], attempt[m], open[m], task[m], sent[m], lost[m]>>,
           m \in undone' => m \in undone
    PROVE  MailInv(m)'
BY DEF MailInv, TasksInTurn, TaskKnows, RowKnows, Still, Idle

---------------------------------------------------------------------------
(* The steps                                                               *)

LEMMA RequestInvStep ==
    ASSUME IInv,
           \/ SaveDraft \/ DiscardDraft
           \/ \E c \in Clicks, k \in Keys \cup {NoKey} : SendLoad(c, k)
           \/ \E c \in Clicks : SendFindsExisting(c) \/ SendFinish(c) \/ SendFails(c)
           \/ \E x \in Cancels, m \in Messages : CancelLoad(x, m)
    PROVE  (\A m \in Messages : MailInv(m)') /\ KeysDiffer'
<1>1. UNCHANGED <<message, attempt, open, task, sent, lost, undone>>
  BY DEF SaveDraft, DiscardDraft, SendLoad, SendFindsExisting, SendFinish, SendFails,
     CancelLoad, rowVars, mailVars
<1>2. \A m \in Messages : MailInv(m)'
  BY <1>1, MailUntouched DEF IInv
<1>3. KeysDiffer'
  BY <1>1 DEF IInv, KeysDiffer, Exists
<1> QED BY <1>2, <1>3

LEMMA WindowInvStep ==
    ASSUME IInv, NEW m \in Messages, WindowCloses(m)
    PROVE  (\A n \in Messages : MailInv(n)') /\ KeysDiffer'
<1>1. UNCHANGED <<message, attempt, task, sent, lost, undone>>
  BY DEF WindowCloses, mailVars
<1>2. \A n \in Messages : open'[n] => open[n]
  BY DEF WindowCloses, IInv, OutTypeOK
<1>3. \A n \in Messages : MailInv(n)'
  BY <1>1, <1>2 DEF IInv, MailInv, TasksInTurn, TaskKnows, RowKnows, Still, Idle
<1>4. KeysDiffer'
  BY <1>1 DEF IInv, KeysDiffer, Exists
<1> QED BY <1>3, <1>4

\* A canceled row was PENDING_SEND once, so it exists.
LEMMA CancelInvStep ==
    ASSUME IInv, NEW x \in Cancels, NEW m \in Messages, CancelCommit(x, m), Exists(m)
    PROVE  (\A n \in Messages : MailInv(n)') /\ KeysDiffer'
<1>1. UNCHANGED <<attempt, open, task, sent, lost>>
  BY DEF CancelCommit, mailVars
<1>2. "CANCELED" \in Statuses
  BY DEF Statuses, DispatchStatuses
<1>3. /\ message'[m].status = "CANCELED" /\ message'[m].key = message[m].key
      /\ \A n \in Messages \ {m} : message'[n] = message[n]
  BY <1>2, StatusWrite DEF CancelCommit, IInv
<1>4. \A n \in Messages \ {m} : MailInv(n)'
  BY <1>1, <1>3, MailUntouched DEF IInv, CancelCommit
<1>5. MailInv(m)'
  BY <1>1, <1>3 DEF CancelCommit, IInv, MailInv, TasksInTurn, TaskKnows, RowKnows, Still, Idle
<1>6. KeysDiffer'
  BY <1>3 DEF IInv, KeysDiffer, Exists
<1> QED BY <1>4, <1>5, <1>6

LEMMA ScheduledInv ==
    ASSUME IInv, NEW m \in Messages, NEW k \in Keys \cup {NoKey}, Scheduled(m, k),
           UNCHANGED <<sent, lost, undone>>,
           message[m].status \in {"NONE", "FAILED"},
           (Exists(m) /\ k = message[m].key) \/ (~Exists(m) /\ ~KeyTaken(k))
    PROVE  (\A n \in Messages : MailInv(n)') /\ KeysDiffer'
<1> USE ScheduledFacts DEF IInv
<1>1. Idle(m) /\ sent[m] = lost[m] /\ m \notin undone
  <2>1. CASE message[m].status = "FAILED"
    BY <2>1 DEF MailInv, RowKnows
  <2>2. CASE message[m].status = "NONE"
    <3>1. attempt[m] = 0 /\ sent[m] = 0 /\ lost[m] = 0 /\ m \notin undone
      BY <2>2 DEF MailInv, RowKnows
    <3>2. \A a \in Attempts : task[m][a] = "none"
      BY <3>1 DEF MailInv, TasksInTurn, Attempts
    <3> QED BY <3>1, <3>2 DEF Idle
  <2> QED BY <2>1, <2>2
<1>2. \A n \in Messages \ {m} : MailInv(n)'
  BY MailUntouched
<1>3. TasksInTurn(m)'
  BY <1>1, OutboundAssumption DEF MailInv, TasksInTurn, Idle, Attempts, OutTypeOK
<1>4. TaskKnows(m)'
  BY <1>1, OutboundAssumption, SMTT(20) DEF TaskKnows, MailInv, Idle
<1>5. RowKnows(m)'
  BY <1>1 DEF RowKnows, Still, Idle
<1>6. KeysDiffer'
  BY SMTT(20) DEF KeysDiffer, KeyTaken, Exists
<1> QED BY <1>2, <1>3, <1>4, <1>5, <1>6 DEF MailInv

LEMMA ScheduleInvStep ==
    ASSUME IInv,
           \/ \E c \in Clicks, m \in Messages : SendCreate(c, m)
           \/ \E m \in Messages : Retry(m)
    PROVE  (\A n \in Messages : MailInv(n)') /\ KeysDiffer'
<1>1. ASSUME NEW c \in Clicks, NEW m \in Messages, SendCreate(c, m)
      PROVE  (\A n \in Messages : MailInv(n)') /\ KeysDiffer'
  <2>1. click[c].key \in Keys \cup {NoKey}
    BY DEF IInv, OutTypeOK
  <2>2. message[m].status = "NONE"
    BY <1>1 DEF SendCreate, Exists
  <2> QED BY <1>1, <2>1, <2>2, ScheduledInv DEF SendCreate, mailVars
<1>2. ASSUME NEW m \in Messages, Retry(m)
      PROVE  (\A n \in Messages : MailInv(n)') /\ KeysDiffer'
  <2>1. message[m].key \in Keys \cup {NoKey}
    BY DEF IInv, OutTypeOK
  <2>2. Exists(m)
    BY <1>2 DEF Retry, Exists
  <2> QED BY <1>2, <2>1, <2>2, ScheduledInv DEF Retry, mailVars
<1> QED BY <1>1, <1>2

LEMMA TaskInvStep ==
    ASSUME IInv, NEW m \in Messages, NEW a \in Attempts,
           TaskSteps(m, a) \/ ResultIsLost(m, a)
    PROVE  (\A n \in Messages : MailInv(n)') /\ KeysDiffer'
<1> USE DEF IInv
<1>1. PICK from \in TaskStates, to \in TaskStates :
         /\ TaskMoves(m, a, from, to)
         /\ to # "none" /\ from # "none" /\ from # "ended"
         /\ \/ /\ from = "waiting" /\ ~open[m] /\ message' = message
               /\ to \in {"sending", "ended"}
               /\ to = "sending" => message[m].status = "PENDING_SEND"
               /\ sent' = sent /\ lost' = lost
            \/ /\ from = "sending" /\ to = "accepted" /\ message' = message
               /\ sent' = [sent EXCEPT ![m] = @ + 1] /\ lost' = lost
            \/ /\ from = "sending" /\ to = "refused" /\ message' = message
               /\ sent' = sent /\ lost' = lost
            \/ /\ from = "sending" /\ to = "refused" /\ message' = message
               /\ lost[m] < MaxLost
               /\ sent' = [sent EXCEPT ![m] = @ + 1]
               /\ lost' = [lost EXCEPT ![m] = @ + 1]
            \/ /\ from = "accepted" /\ to = "ended"
               /\ message' = [message EXCEPT ![m].status = "SENT"]
               /\ sent' = sent /\ lost' = lost
            \/ /\ from = "refused" /\ to = "ended"
               /\ message' = [message EXCEPT ![m].status = "FAILED"]
               /\ sent' = sent /\ lost' = lost
            \/ /\ from \in {"accepted", "refused"} /\ to = "ended" /\ message' = message
               /\ sent' = sent /\ lost' = lost
         /\ attempt' = attempt /\ open' = open /\ undone' = undone
  BY TaskStepFacts
<1>2. /\ task[m][a] = from
      /\ \A n \in Messages, b \in Attempts :
            task'[n][b] = IF n = m /\ b = a THEN to ELSE task[n][b]
      /\ task' \in [Messages -> [Attempts -> TaskStates]]
  BY <1>1, TaskMovesFacts
<1>3. /\ \A n \in Messages : message'[n].key = message[n].key
      /\ \A n \in Messages \ {m} : message'[n] = message[n]
      /\ \/ message'[m] = message[m]
         \/ from = "accepted" /\ to = "ended" /\ message'[m].status = "SENT"
         \/ from = "refused" /\ to = "ended" /\ message'[m].status = "FAILED"
  <2>1. "SENT" \in Statuses /\ "FAILED" \in Statuses
    BY DEF Statuses, DispatchStatuses
  <2>2. CASE message' = message
    BY <2>2
  <2>3. CASE from = "accepted" /\ to = "ended" /\ message' = [message EXCEPT ![m].status = "SENT"]
    BY <2>1, <2>3, StatusWrite
  <2>4. CASE from = "refused" /\ to = "ended" /\ message' = [message EXCEPT ![m].status = "FAILED"]
    BY <2>1, <2>4, StatusWrite
  <2> QED BY <1>1, <2>2, <2>3, <2>4
<1>4. \A n \in Messages \ {m} : sent'[n] = sent[n] /\ lost'[n] = lost[n]
  BY <1>1 DEF OutTypeOK
<1>5. /\ from \in {"waiting", "sending", "accepted", "refused"}
      /\ a = attempt[m]
      /\ \A b \in Attempts \ {a} : task[m][b] \in {"none", "ended"}
  BY <1>1, <1>2 DEF MailInv, TasksInTurn, TaskStates, OutTypeOK
<1>6. Exists(m) /\ message[m].status \notin {"SENT", "FAILED"}
  <2>1. attempt[m] # 0
    BY <1>5, OutboundAssumption DEF Attempts
  <2>2. ~Idle(m)
    BY <1>2, <1>5 DEF Idle
  <2> QED BY <2>1, <2>2 DEF MailInv, RowKnows, Exists
<1>7. ASSUME NEW n \in Messages \ {m} PROVE MailInv(n)'
  <2>1. \A b \in Attempts : task'[n][b] = task[n][b]
    BY <1>2
  <2>2. /\ message'[n] = message[n] /\ attempt'[n] = attempt[n] /\ open'[n] = open[n]
        /\ sent'[n] = sent[n] /\ lost'[n] = lost[n] /\ (n \in undone' <=> n \in undone)
    BY <1>1, <1>3, <1>4
  <2>3. MailInv(n)
    OBVIOUS
  <2> QED BY <2>1, <2>2, <2>3 DEF MailInv, TasksInTurn, TaskKnows, RowKnows, Still, Idle
<1>8. TasksInTurn(m)'
  BY <1>1, <1>2, <1>5 DEF MailInv, TasksInTurn
<1>9. sent[m] \in Nat /\ lost[m] \in Nat
  BY OutboundAssumption DEF OutTypeOK
<1>10. /\ from \in {"waiting", "sending", "refused"} => sent[m] = lost[m]
       /\ from = "accepted" => sent[m] = lost[m] + 1
       /\ sent[m] <= lost[m] + 1
  BY <1>2 DEF MailInv, TaskKnows
<1>11. /\ to \in {"sending", "refused"} => sent'[m] = lost'[m]
       /\ to = "accepted" => sent'[m] = lost'[m] + 1
       /\ sent'[m] <= lost'[m] + 1
  BY <1>1, <1>9, <1>10 DEF OutTypeOK
<1>12. TaskKnows(m)'
  BY <1>1, <1>2, <1>5, <1>11 DEF TaskKnows
<1>13. to = "ended" => Idle(m)'
  BY <1>2, <1>5 DEF Idle
<1>14. ~open[m] /\ (m \in undone => from = "waiting" /\ to = "ended")
  BY <1>1, <1>2, <1>5 DEF MailInv, RowKnows, Still
<1>15. to = "ended" => sent' = sent /\ lost' = lost
  BY <1>1
<1>16. RowKnows(m)'
  <2>1. CASE message'[m] = message[m]
    <3>1. m \in undone => Still(m)'
      BY <1>13, <1>14 DEF Idle, Still
    <3> QED BY <1>1, <1>6, <1>14, <2>1, <3>1 DEF RowKnows, MailInv, Exists
  <2>2. CASE message'[m] # message[m]
    BY <1>1, <1>3, <1>10, <1>13, <1>14, <1>15, <2>2 DEF RowKnows
  <2> QED BY <2>1, <2>2
<1>17. KeysDiffer'
  <2>1. \A n \in Messages : Exists(n)' => Exists(n)
    BY <1>3, <1>6 DEF Exists
  <2> QED BY <1>3, <2>1 DEF KeysDiffer
<1> QED BY <1>7, <1>8, <1>12, <1>16, <1>17 DEF MailInv

LEMMA RestartInvStep ==
    ASSUME IInv, Restart
    PROVE  (\A m \in Messages : MailInv(m)') /\ KeysDiffer'
<1>1. UNCHANGED <<message, attempt, open, sent, lost, undone>>
  BY DEF Restart, rowVars, mailVars
<1>2. \A m \in Messages : MailInv(m)'
  BY <1>1, RestartFacts DEF IInv, MailInv, TasksInTurn, TaskKnows, RowKnows, Still, Idle
<1>3. KeysDiffer'
  BY <1>1 DEF IInv, KeysDiffer, Exists
<1> QED BY <1>2, <1>3

\* Rows are not deleted, and a request loads rows that exist.
LEMMA CancelsStep ==
    ASSUME IInv, OutNext
    PROVE  CancelsExist'
<1> USE DEF IInv
<1>1. ASSUME NEW m \in Messages, NEW k \in Keys \cup {NoKey}, Scheduled(m, k)
      PROVE  \A n \in Messages : Exists(n) => Exists(n)'
  BY <1>1, ScheduledFacts DEF Exists
<1>2. ASSUME NEW m \in Messages, NEW s \in Statuses \ {"NONE"},
             message' = [message EXCEPT ![m].status = s]
      PROVE  \A n \in Messages : Exists(n) => Exists(n)'
  BY <1>2, StatusWrite DEF Exists
<1>3. CASE UNCHANGED <<message, cancel>>
  BY <1>3 DEF CancelsExist, Exists
<1>4. ASSUME NEW c \in Clicks, NEW m \in Messages, SendCreate(c, m) PROVE CancelsExist'
  <2>1. click[c].key \in Keys \cup {NoKey}
    BY DEF OutTypeOK
  <2> QED BY <1>1, <1>4, <2>1 DEF SendCreate, CancelsExist
<1>5. ASSUME NEW m \in Messages, Retry(m) PROVE CancelsExist'
  <2>1. message[m].key \in Keys \cup {NoKey}
    BY DEF OutTypeOK
  <2> QED BY <1>1, <1>5, <2>1 DEF Retry, CancelsExist
<1>6. ASSUME NEW x \in Cancels, NEW m \in Messages, CancelLoad(x, m) PROVE CancelsExist'
  <2>1. Exists(m) /\ message' = message
    BY <1>6 DEF CancelLoad, Exists, rowVars
  <2>2. \A y \in Cancels, n \in Messages : cancel'[y] = Loaded(n) => n = m \/ cancel[y] = Loaded(n)
    BY <1>6 DEF CancelLoad, Loaded, OutTypeOK
  <2> QED BY <2>1, <2>2 DEF CancelsExist, Exists
<1>7. ASSUME NEW x \in Cancels, NEW m \in Messages, CancelCommit(x, m) PROVE CancelsExist'
  <2>1. "CANCELED" \in Statuses \ {"NONE"}
    BY DEF Statuses, DispatchStatuses
  <2>2. \A n \in Messages : Exists(n) => Exists(n)'
    BY <1>2, <1>7, <2>1 DEF CancelCommit
  <2>3. \A y \in Cancels, n \in Messages : cancel'[y] = Loaded(n) => cancel[y] = Loaded(n)
    BY <1>7 DEF CancelCommit, Loaded, IdleCancel, OutTypeOK
  <2> QED BY <2>2, <2>3 DEF CancelsExist
<1>8. ASSUME NEW m \in Messages, NEW a \in Attempts, TaskSteps(m, a) \/ ResultIsLost(m, a)
      PROVE  CancelsExist'
  <2>1. {"SENT", "FAILED"} \subseteq Statuses \ {"NONE"}
    BY DEF Statuses, DispatchStatuses
  <2>2. /\ cancel' = cancel
        /\ \/ message' = message
           \/ message' = [message EXCEPT ![m].status = "SENT"]
           \/ message' = [message EXCEPT ![m].status = "FAILED"]
    BY <1>8 DEF TaskSteps, ResultIsLost, Wake, GraphAccepts, GraphRefuses, AnswerLost,
       RecordResult, rowVars
  <2>3. \A n \in Messages : Exists(n) => Exists(n)'
    BY <1>2, <2>1, <2>2 DEF Exists
  <2> QED BY <2>2, <2>3 DEF CancelsExist
<1>9. CASE Restart
  BY <1>9 DEF Restart, CancelsExist, IdleCancel, Loaded, rowVars
<1>10. CASE \/ SaveDraft \/ DiscardDraft
            \/ \E c \in Clicks, k \in Keys \cup {NoKey} : SendLoad(c, k)
            \/ \E c \in Clicks : SendFindsExisting(c) \/ SendFinish(c) \/ SendFails(c)
            \/ \E m \in Messages : WindowCloses(m)
  BY <1>3, <1>10 DEF SaveDraft, DiscardDraft, SendLoad, SendFindsExisting, SendFinish,
     SendFails, WindowCloses, rowVars
<1> QED BY <1>4, <1>5, <1>6, <1>7, <1>8, <1>9, <1>10 DEF OutNext

LEMMA IInvStep == IInv /\ [OutNext]_outVars => IInv'
<1> SUFFICES ASSUME IInv, [OutNext]_outVars PROVE IInv'
  OBVIOUS
<1>1. OutTypeOK'
  BY TypeStep DEF IInv
<1>2. CASE UNCHANGED outVars
  <2>1. UNCHANGED <<message, attempt, open, task, sent, lost, undone, cancel>>
    BY <1>2 DEF outVars
  <2>2. \A m \in Messages : MailInv(m)'
    BY <2>1, MailUntouched DEF IInv
  <2>3. KeysDiffer' /\ CancelsExist'
    BY <2>1 DEF IInv, KeysDiffer, CancelsExist, Exists
  <2> QED BY <1>1, <2>2, <2>3 DEF IInv
<1>3. CASE OutNext
  <2>1. ASSUME NEW x \in Cancels, NEW m \in Messages, CancelCommit(x, m)
        PROVE  (\A n \in Messages : MailInv(n)') /\ KeysDiffer'
    <3>1. Exists(m)
      BY <2>1 DEF CancelCommit, IInv, CancelsExist
    <3> QED BY <2>1, <3>1, CancelInvStep
  <2>2. (\A n \in Messages : MailInv(n)') /\ KeysDiffer'
    BY <1>3, <2>1, RequestInvStep, WindowInvStep, ScheduleInvStep, TaskInvStep, RestartInvStep
       DEF OutNext
  <2>3. CancelsExist'
    BY <1>3, CancelsStep
  <2> QED BY <1>1, <2>2, <2>3 DEF IInv
<1> QED BY <1>2, <1>3

---------------------------------------------------------------------------
(* The theorems                                                            *)

\* The inductive invariant of messages, tasks and keys.
THEOREM OutboundInvariance == OutSpec => []IInv
BY IInvInit, IInvStep, PTL DEF OutSpec

\* A client gets a message a second time only if Graph took an e-mail whose
\* answer was lost.
THEOREM DuplicateOnlyAfterLostAnswerHolds == OutSpec => []DuplicateOnlyAfterLostAnswer
<1>1. IInv => DuplicateOnlyAfterLostAnswer
  BY DEF IInv, MailInv, TaskKnows, DuplicateOnlyAfterLostAnswer
<1> QED BY <1>1, OutboundInvariance, PTL

\* SENT and FAILED say what Graph did.
THEOREM StatusIsTrueHolds == OutSpec => []StatusIsTrue
<1>1. IInv => StatusIsTrue
  BY DEF IInv, MailInv, RowKnows, StatusIsTrue
<1> QED BY <1>1, OutboundInvariance, PTL

\* One key, one message that is mailed.
THEOREM KeyedSendMailsOneMessageHolds == OutSpec => []KeyedSendMailsOneMessage
<1>1. IInv => KeyedSendMailsOneMessage
  <2> SUFFICES ASSUME IInv PROVE KeyedSendMailsOneMessage
    OBVIOUS
  <2>1. \A m \in Messages : sent[m] > 0 => Exists(m)
    BY DEF IInv, MailInv, RowKnows, Exists
  <2> QED BY <2>1 DEF IInv, KeysDiffer, KeyedSendMailsOneMessage
<1> QED BY <1>1, OutboundInvariance, PTL

\* A cancellation that committed inside the window is final.
THEOREM TimelyCancelIsFinalHolds == OutSpec => TimelyCancelIsFinal
<1> DEFINE Kept == \A m \in undone : sent'[m] = sent[m] /\ message'[m] = message[m]
<1>1. IInv /\ [OutNext]_outVars => Kept
  <2> SUFFICES ASSUME IInv, [OutNext]_outVars, NEW m \in undone
               PROVE  sent'[m] = sent[m] /\ message'[m] = message[m]
    OBVIOUS
  <2> USE DEF IInv
  <2>1. m \in Messages /\ message[m].status = "CANCELED" /\ Still(m)
    BY DEF OutTypeOK, MailInv, RowKnows
  <2>2. CASE UNCHANGED <<message, sent>>
    BY <2>2
  <2>3. ASSUME NEW n \in Messages, NEW k \in Keys \cup {NoKey}, Scheduled(n, k),
               message[n].status \in {"NONE", "FAILED"}, sent' = sent
        PROVE  sent'[m] = sent[m] /\ message'[m] = message[m]
    BY <2>1, <2>3, ScheduledFacts
  <2>4. ASSUME NEW c \in Clicks, NEW n \in Messages, SendCreate(c, n)
        PROVE  sent'[m] = sent[m] /\ message'[m] = message[m]
    <3>1. click[c].key \in Keys \cup {NoKey}
      BY DEF OutTypeOK
    <3> QED BY <2>3, <2>4, <3>1 DEF SendCreate, Exists, mailVars
  <2>5. ASSUME NEW n \in Messages, Retry(n)
        PROVE  sent'[m] = sent[m] /\ message'[m] = message[m]
    <3>1. message[n].key \in Keys \cup {NoKey}
      BY DEF OutTypeOK
    <3> QED BY <2>3, <2>5, <3>1 DEF Retry, mailVars
  <2>6. ASSUME NEW x \in Cancels, NEW n \in Messages, CancelCommit(x, n)
        PROVE  sent'[m] = sent[m] /\ message'[m] = message[m]
    <3>1. CASE n # m
      BY <2>1, <2>6, <3>1, StatusWrite DEF CancelCommit, mailVars, Statuses, DispatchStatuses
    <3>2. CASE n = m
      <4>1. [message EXCEPT ![m].status = "CANCELED"] = message
        BY <2>1 DEF OutTypeOK
      <4> QED BY <2>6, <3>2, <4>1 DEF CancelCommit, mailVars
    <3> QED BY <3>1, <3>2
  <2>7. ASSUME NEW n \in Messages, NEW a \in Attempts, TaskSteps(n, a) \/ ResultIsLost(n, a)
        PROVE  sent'[m] = sent[m] /\ message'[m] = message[m]
    <3>1. CASE UNCHANGED <<message, sent>>
      BY <3>1
    <3>2. CASE task[n][a] \in {"sending", "accepted", "refused"}
      <4>1. n # m
        BY <2>1, <3>2 DEF Still
      <4>2. sent'[m] = sent[m]
        BY <2>1, <2>7, <4>1 DEF OutTypeOK, TaskSteps, ResultIsLost, Wake, GraphAccepts,
           GraphRefuses, AnswerLost, RecordResult, mailVars
      <4>3. \/ message' = message
            \/ message' = [message EXCEPT ![n].status = "SENT"]
            \/ message' = [message EXCEPT ![n].status = "FAILED"]
        BY <2>7 DEF TaskSteps, ResultIsLost, Wake, GraphAccepts, GraphRefuses, AnswerLost,
           RecordResult, rowVars
      <4>4. {"SENT", "FAILED"} \subseteq Statuses
        BY DEF Statuses, DispatchStatuses
      <4>5. ASSUME NEW s \in Statuses, message' = [message EXCEPT ![n].status = s]
            PROVE  message'[m] = message[m]
        BY <2>1, <4>1, <4>5, StatusWrite
      <4>6. message'[m] = message[m]
        BY <4>3, <4>4, <4>5
      <4> QED BY <4>2, <4>6
    <3> QED BY <2>7, <3>1, <3>2 DEF TaskSteps, ResultIsLost, Wake, GraphAccepts, GraphRefuses,
           AnswerLost, RecordResult, TaskMoves, rowVars, mailVars
  <2>8. CASE UNCHANGED outVars
    BY <2>2, <2>8 DEF outVars
  <2>9. CASE \/ SaveDraft \/ DiscardDraft \/ Restart
             \/ \E c \in Clicks, k \in Keys \cup {NoKey} : SendLoad(c, k)
             \/ \E c \in Clicks : SendFindsExisting(c) \/ SendFinish(c) \/ SendFails(c)
             \/ \E x \in Cancels, n \in Messages : CancelLoad(x, n)
             \/ \E n \in Messages : WindowCloses(n)
    BY <2>2, <2>9 DEF SaveDraft, DiscardDraft, Restart, SendLoad, SendFindsExisting, SendFinish,
       SendFails, CancelLoad, WindowCloses, rowVars, mailVars
  <2> QED BY <2>4, <2>5, <2>6, <2>7, <2>8, <2>9 DEF OutNext
<1>2. IInv /\ [OutNext]_outVars => [Kept]_outVars
  BY <1>1
<1> QED BY <1>2, OutboundInvariance, PTL DEF OutSpec, TimelyCancelIsFinal
=============================================================================
