-------------------------------- MODULE SlaSweep --------------------------------
(***************************************************************************)
(* The SLA sweep over the clocks of SlaClock and of a first response, with *)
(* the ledger that lets a threshold be notified once in each cycle.        *)
(* Sweeps and answers are database sessions: what they write is seen by    *)
(* others when they commit, and a row that is not committed makes others   *)
(* that insert it wait.  An escalation is reduced to whether it is open    *)
(* and accepted; EscalationLadder has the rest of it.                      *)
(***************************************************************************)
EXTENDS SlaClock

CONSTANTS
    Sessions,              \* sessions of sweeping processes and of handlers
    ResolutionCutoffs,     \* tenths of the target at which each threshold lies,
    FirstResponseCutoffs,  \*   as the sweep takes them from the policy,
    DefaultCutoffs,        \*   and as the completion takes them
    ResponseTarget,        \* first response target of the policy
    PolicyStates,          \* whether the policy may be active
    MaxFaults              \* bound: lost notifications and rollbacks

Thresholds == DOMAIN ResolutionCutoffs \cup DOMAIN FirstResponseCutoffs

ASSUME SweepAssumption ==
    /\ ResolutionCutoffs \in [DOMAIN ResolutionCutoffs -> Nat]
    /\ FirstResponseCutoffs \in [DOMAIN FirstResponseCutoffs -> Nat]
    /\ DefaultCutoffs \in [DOMAIN FirstResponseCutoffs -> Nat]
    /\ "ESCALATED" \in DOMAIN ResolutionCutoffs
    /\ "BREACHED" \in DOMAIN FirstResponseCutoffs /\ DefaultCutoffs["BREACHED"] = 10
    /\ ResponseTarget \in Nat \ {0} /\ PolicyStates \subseteq BOOLEAN /\ MaxFaults \in Nat

VARIABLES
    escalation,   \* of the ticket: none, open, accepted
    response,     \* first_response_slas: its status, due_at and completed_at
    ledger,       \* committed rows of sla_breach_notifications
    notices,      \* committed notifications of each ledger row
    session,      \* what each session has read and not yet committed
    faults,
    crossed       \* no variable of the code: what clocks ever reached in which cycle

sweepVars == <<escalation, response, ledger, notices, session, faults>>
allVars == <<vars, sweepVars, crossed>>

Entry(type, threshold, n) == [type |-> type, threshold |-> threshold, cycle |-> n]

Entries ==
    {Entry("RESOLUTION", t, n) : t \in DOMAIN ResolutionCutoffs, n \in 0 .. MaxCycles}
      \cup {Entry("FIRST_RESPONSE", t, 0) : t \in DOMAIN FirstResponseCutoffs}

Idle == [pc |-> "idle", op |-> "none", at |-> 0, found |-> {}, overdue |-> FALSE,
         rows |-> {}, sent |-> {}, opens |-> FALSE]

---------------------------------------------------------------------------
(* Classification                                                          *)

\* Mutant: a threshold is reached only after its instant.
Reached_Strict(cutoffs, dueAt, minutes, at) ==
    {t \in DOMAIN cutoffs :
        IF minutes = 0 THEN 10 >= cutoffs[t]
        ELSE 10 * (minutes - (dueAt - at)) > cutoffs[t] * minutes}

\* compute_elapsed_fraction against the cutoffs, in tenths; a target of zero
\* counts as used up.
Reached(cutoffs, dueAt, minutes, at) ==
    {t \in DOMAIN cutoffs :
        IF minutes = 0 THEN 10 >= cutoffs[t]
        ELSE 10 * (minutes - (dueAt - at)) >= cutoffs[t] * minutes}

ResolutionReached(at) ==
    IF status = "RUNNING" THEN Reached(ResolutionCutoffs, due, target, at) ELSE {}

\* Mutant: the restart is not told apart.
Candidates_OneCycle(at) ==
    {Entry("RESOLUTION", t, 0) : t \in ResolutionReached(at)}

\* The cycle is read with the due date.
Candidates(at) == {Entry("RESOLUTION", t, cycle) : t \in ResolutionReached(at)}

ResponseCandidates(cutoffs, minutes, at) ==
    IF response.status # "PENDING" THEN {}
    ELSE {Entry("FIRST_RESPONSE", t, 0) : t \in Reached(cutoffs, response.due, minutes, at)}

---------------------------------------------------------------------------
(* A sweep                                                                 *)

BeginTick(s) ==
    /\ session[s] = Idle
    /\ session' = [session EXCEPT ![s] = [Idle EXCEPT !.pc = "started", !.op = "sweep", !.at = now]]
    /\ UNCHANGED <<vars, escalation, response, ledger, notices, faults>>

\* Both lists of clocks, and the open escalations, are read once.
Classify(s) ==
    LET at == session[s].at IN
    /\ session[s].pc = "started"
    /\ session' = [session EXCEPT
         ![s].pc = "classified",
         ![s].found = Candidates(at) \cup ResponseCandidates(FirstResponseCutoffs, ResponseTarget, at),
         ![s].overdue = "ESCALATED" \in ResolutionReached(at) /\ escalation = "none"]
    /\ UNCHANGED <<vars, escalation, response, ledger, notices, faults>>

\* Mutant: there is no unique index that makes sessions wait for each other.
RowsFree_NoWait(s) == TRUE

\* ON CONFLICT DO NOTHING waits for the transaction that holds a conflicting row.
RowsFree(s) == \A o \in Sessions \ {s} : session[o].rows \cap session[s].found = {}

\* try_record_many, RETURNING the rows that are new.
Record(s) ==
    /\ session[s].pc = "classified" /\ RowsFree(s)
    /\ session' = [session EXCEPT ![s].pc = "recorded", ![s].rows = session[s].found \ ledger]
    /\ UNCHANGED <<vars, escalation, response, ledger, notices, faults>>

\* Escalations are announced by the escalation, not by the sweep.
Announced(entry) == entry.type = "FIRST_RESPONSE" \/ entry.threshold # "ESCALATED"

ToNotify(s) == {r \in session[s].rows : Announced(r)}

\* Each notification has its savepoint: one may fail, and its row stays.
Notify(s) ==
    /\ session[s].pc = "recorded" /\ session[s].op = "sweep"
    /\ \E lost \in SUBSET ToNotify(s) :
         /\ faults' = faults + (IF lost = {} THEN 0 ELSE 1) /\ faults' <= MaxFaults
         /\ session' = [session EXCEPT ![s].pc = "notified", ![s].sent = ToNotify(s) \ lost]
    /\ UNCHANGED <<vars, escalation, response, ledger, notices>>

Opening(s) == \E o \in Sessions \ {s} : session[o].opens

\* Mutant: only the tick that recorded the threshold escalates.
EscalationDue_Recorded(s) ==
    session[s].overdue /\ \E r \in session[s].rows : r.threshold = "ESCALATED"

EscalationDue(s) == session[s].overdue

\* auto_escalate_if_needed on a fresh ticket, whose clock is not read again.  Another
\* transaction's row of the unique index makes the insert wait.
AutoEscalate(s) ==
    /\ session[s].pc = "notified"
    /\ EscalationDue(s) /\ escalation = "none" => ~Opening(s)
    /\ session' = [session EXCEPT ![s].pc = "escalated",
                                  ![s].opens = EscalationDue(s) /\ escalation = "none"]
    /\ UNCHANGED <<vars, escalation, response, ledger, notices, faults>>

\* It fails within its savepoint, and the rest of the tick is committed.
EscalationFails(s) ==
    /\ session[s].pc = "notified" /\ EscalationDue(s) /\ faults < MaxFaults
    /\ faults' = faults + 1
    /\ session' = [session EXCEPT ![s].pc = "escalated"]
    /\ UNCHANGED <<vars, escalation, response, ledger, notices>>

Recorded(s) ==
    /\ ledger' = ledger \cup session[s].rows
    /\ notices' = [r \in Entries |-> notices[r] + (IF r \in session[s].sent THEN 1 ELSE 0)]
    /\ session' = [session EXCEPT ![s] = Idle]

CommitTick(s) ==
    /\ session[s].pc = "escalated"
    /\ Recorded(s)
    /\ escalation' = IF session[s].opens THEN "open" ELSE escalation
    /\ UNCHANGED <<vars, response, faults>>

\* The transaction fails and takes its rows and notifications with it.
Rollback(s) ==
    /\ session[s] # Idle /\ faults < MaxFaults
    /\ faults' = faults + 1 /\ session' = [session EXCEPT ![s] = Idle]
    /\ UNCHANGED <<vars, escalation, response, ledger, notices>>

---------------------------------------------------------------------------
(* The first response                                                      *)

\* start_first_response_clock: the mail may have been received earlier.
ReceiveMail ==
    /\ response.status = "NONE"
    /\ \E received \in 0 .. now :
         response' = [status |-> "PENDING", due |-> received + ResponseTarget, done |-> 0]
    /\ UNCHANGED <<vars, escalation, ledger, notices, session, faults>>

\* complete_first_response_clock looks at the thresholds itself, since no later
\* sweep sees a completed clock.
Answer(s) ==
    /\ session[s] = Idle /\ response.status = "PENDING"
    /\ \E active \in PolicyStates :
         session' = [session EXCEPT ![s] = [Idle EXCEPT
           !.pc = "classified", !.op = "answer", !.at = now,
           !.found = ResponseCandidates(DefaultCutoffs, IF active THEN ResponseTarget ELSE 0, now)]]
    /\ UNCHANGED <<vars, escalation, response, ledger, notices, faults>>

\* A notification that fails here fails the request (Rollback).
CommitAnswer(s) ==
    /\ session[s].pc = "recorded" /\ session[s].op = "answer"
    /\ ledger' = ledger \cup session[s].rows
    /\ notices' = [r \in Entries |-> notices[r] + (IF r \in ToNotify(s) THEN 1 ELSE 0)]
    /\ session' = [session EXCEPT ![s] = Idle]
    /\ response' = [response EXCEPT !.status = "COMPLETED", !.done = session[s].at]
    /\ UNCHANGED <<vars, escalation, faults>>

---------------------------------------------------------------------------
(* Handlers of the ticket                                                  *)

ManualEscalate ==
    /\ escalation = "none" /\ Live /\ \A s \in Sessions : ~session[s].opens
    /\ escalation' = "open"
    /\ UNCHANGED <<vars, response, ledger, notices, session, faults>>

\* An accepted stage has a fresh window, unless the clock is completed.
AcceptEscalation ==
    /\ escalation = "open" /\ escalation' = "accepted"
    /\ IF status = "COMPLETED" THEN UNCHANGED vars ELSE \E t \in Targets : Restart(t)
    /\ UNCHANGED <<response, ledger, notices, session, faults>>

\* The window of the accepted stage has run out, whatever the ticket's status:
\* the escalation waits for an acceptance again.
StageBreached ==
    /\ escalation = "accepted" /\ escalation' = "open"
    /\ UNCHANGED <<vars, response, ledger, notices, session, faults>>

\* Resolving the ticket completes the clock and leaves the escalation as it is,
\* which may have been opened after the handler looked for a freeze.
ResolveTicket == Complete /\ UNCHANGED sweepVars

\* Closing it completes the clock, unless that is done, and closes the escalation.
CloseTicket ==
    /\ Complete \/ (status = "COMPLETED" /\ UNCHANGED vars)
    /\ escalation' = "none"
    /\ UNCHANGED <<response, ledger, notices, session, faults>>

\* A frozen ticket is not reopened.
ReopenTicket ==
    /\ escalation # "open" /\ \E t \in Targets : Reopen(t)
    /\ UNCHANGED sweepVars

ClockStep ==
    /\ \/ \E t \in Targets : Start(t) \/ Reshift(t)
       \/ Pause \/ Resume \/ Tick
    /\ UNCHANGED sweepVars

---------------------------------------------------------------------------

SweepInit ==
    /\ Init
    /\ escalation = "none" /\ response = [status |-> "NONE", due |-> 0, done |-> 0]
    /\ ledger = {} /\ notices = [r \in Entries |-> 0]
    /\ session = [s \in Sessions |-> Idle]
    /\ faults = 0 /\ crossed = {}

Work(s) ==
    \/ Classify(s) \/ Record(s) \/ Notify(s) \/ AutoEscalate(s) \/ CommitTick(s)
    \/ CommitAnswer(s)

SessionStep(s) ==
    BeginTick(s) \/ Work(s) \/ Answer(s) \/ EscalationFails(s) \/ Rollback(s)

Steps ==
    \/ ReceiveMail \/ ManualEscalate \/ AcceptEscalation \/ StageBreached
    \/ ResolveTicket \/ CloseTicket \/ ReopenTicket \/ ClockStep
    \/ \E s \in Sessions : SessionStep(s)

CrossedNow == {Entry("RESOLUTION", t, cycle) : t \in ResolutionReached(now)}

Remember == crossed' = crossed \cup CrossedNow'

SweepNext == Steps /\ Remember

SweepSpec == SweepInit /\ [][SweepNext]_allVars

\* The scheduler starts a sweep every few seconds, and what it awaits returns.
SweepFairness == \A s \in Sessions :
    WF_allVars((BeginTick(s) \/ Work(s)) /\ Remember)

FairSweepSpec == SweepSpec /\ SweepFairness

---------------------------------------------------------------------------
(* Properties                                                              *)

SessionType ==
    [pc : {"idle", "started", "classified", "recorded", "notified", "escalated"},
     op : {"none", "sweep", "answer"}, at : 0 .. now, found : SUBSET Entries,
     overdue : BOOLEAN, rows : SUBSET Entries, sent : SUBSET Entries, opens : BOOLEAN]

\* Every variable has its type, and no session is ahead of time.
SweepTypeOK ==
    /\ ClockTypeOK
    /\ escalation \in {"none", "open", "accepted"}
    /\ response \in [status : {"NONE", "PENDING", "COMPLETED"}, due : Nat, done : 0 .. now]
    /\ ledger \subseteq Entries /\ notices \in [Entries -> Nat]
    /\ session \in [Sessions -> SessionType]
    /\ faults \in 0 .. MaxFaults
    /\ crossed \subseteq Entries

\* However sweeps of several processes and the answer overlap, fail and repeat, a
\* threshold is notified once at most in a cycle, and never off the ledger.
NotifiedOnce ==
    \A r \in Entries : notices[r] <= 1 /\ (notices[r] = 1 => r \in ledger)

\* A restart between the classification and the insert never uses up a threshold
\* of the new window: what the ledger says was reached, was reached in that cycle.
LedgerIsTrue == \A r \in ledger : r.type = "RESOLUTION" => r \in crossed

\* A first response that came too late is on record as a breach, also when it
\* overtakes the sweep, or waits for a sweep that is then rolled back.
LateAnswerIsOnRecord ==
    response.status = "COMPLETED" /\ response.done >= response.due
      => Entry("FIRST_RESPONSE", "BREACHED", 0) \in ledger

\* A ticket that stays overdue is escalated in the end, also if the first tick that
\* saw it failed.
OverdueIsEscalated ==
    []<>(status = "RUNNING" /\ now >= due => escalation # "none")
=============================================================================
