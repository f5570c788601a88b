------------------------- MODULE EscalationLadderProofs -------------------------
(***************************************************************************)
(* The invariants of EscalationLadder for any number of escalations, any   *)
(* chains and any policy behaviour.                                        *)
(*                                                                         *)
(* RowInv says what is true of a single row of ticket_escalations, whoever *)
(* wrote it last; the row operators preserve it (the lemmas of the first   *)
(* part), so each handler does.  What relates ticket, clock and rows is    *)
(* then proved from the clock operators.                                   *)
(***************************************************************************)
EXTENDS EscalationLadder, TLAPS

RowInv(r) ==
    /\ r \in RowType
    /\ IsOpen(r) => (r.status = "ACKNOWLEDGED" <=> r.window # "none")
    /\ IsOpen(r) => r.pos <= Len(r.chain) /\ r.owner = OwnerAt(r.chain, r.pos)
    /\ r.stage > 0 <=> r.handling # "none"
    /\ r.status = "UNUSED" => r.window = "none"

ClockType == [status : ClockStatuses, crossed : BOOLEAN]
TicketAndClockOK == ticket \in [status : Statuses, assigned : BOOLEAN] /\ clock \in ClockType
RowsOK == esc \in [Rows -> RowType] /\ \A e \in Rows : RowInv(esc[e])

IInv ==
    /\ TicketAndClockOK
    /\ RowsOK
    /\ LiveTicketHasLiveClock
    /\ ClockedEscalationEndsWithTicket

---------------------------------------------------------------------------
(* Rows                                                                    *)

\* A chain of the program, or the empty one of a row not yet inserted, has a
\* length and an owner at each of its positions.
LEMMA ChainFacts ==
    ASSUME NEW c \in Chains \cup {<<>>}
    PROVE  /\ Len(c) \in Positions
           /\ \A p \in Positions : OwnerAt(c, p) \in Owners
<1>1. CASE c = <<>>
  BY <1>1 DEF Positions, OwnerAt, Owners
<1>2. CASE c \in Chains
  <2>1. c \in Seq(Owners \ {SiteLead}) /\ Len(c) \in Positions
    BY <1>2, LadderAssumption
  <2>2. ASSUME NEW p \in Positions PROVE OwnerAt(c, p) \in Owners
    <3>1. CASE p < Len(c)
      <4>1. p + 1 \in 1 .. Len(c)
        BY <2>1, <3>1 DEF Positions
      <4>2. c[p + 1] \in Owners \ {SiteLead}
        BY <2>1, <4>1
      <4> QED BY <3>1, <4>2 DEF OwnerAt
    <3>2. CASE ~(p < Len(c))
      BY <3>2 DEF OwnerAt, Owners
    <3> QED BY <3>1, <3>2
  <2> QED BY <2>1, <2>2
<1> QED BY <1>1, <1>2

\* A row is inserted consistent.
LEMMA NewRowInv ==
    ASSUME NEW c \in Chains \cup {<<>>}
    PROVE  RowInv(NewRow(c)) /\ IsOpen(NewRow(c))
<1>1. Len(c) \in Positions /\ OwnerAt(c, 0) \in Owners /\ 0 \in Positions
  BY ChainFacts DEF Positions
<1>2. 0 \in 0 .. MaxStage
  BY LadderAssumption
<1> QED
  BY <1>1, <1>2 DEF NewRow, RowInv, RowType, IsOpen, OpenStatuses, Positions

LEMMA UnusedRowInv == RowInv(UnusedRow) /\ ~IsOpen(UnusedRow)
<1> DEFINE r == NewRow(<<>>)
<1>1. RowInv(r)
  BY NewRowInv
<1>2. r.stage = 0 /\ r.handling = "none" /\ r.window = "none"
  BY DEF NewRow
<1>3. UnusedRow = [r EXCEPT !.status = "UNUSED"]
  BY DEF UnusedRow
<1> HIDE DEF r
<1> QED
  BY <1>1, <1>2, <1>3 DEF RowInv, RowType, IsOpen, OpenStatuses

\* A row of an open escalation is still consistent, and open, after it was
\* moved to any position of any chain it may be given.
LEMMA MovedInv ==
    ASSUME NEW r, RowInv(r), IsOpen(r),
           NEW c \in Chains \cup {<<>>}, NEW p \in 0 .. Len(c)
    PROVE  LET m == [Moved(Cleared(r, r), p, OwnerAt(c, p)) EXCEPT !.chain = c]
           IN  RowInv(m) /\ IsOpen(m)
<1>1. Len(c) \in Positions /\ p \in Positions
  <2>1. Len(c) \in Positions
    BY ChainFacts
  <2>2. \A n \in Positions : \A q \in 0 .. n : q \in Positions
    BY DEF Positions
  <2> QED BY <2>1, <2>2
<1>2. OwnerAt(c, p) \in Owners
  BY <1>1, ChainFacts
<1>3. Cleared(r, r) = [r EXCEPT !.window = "none"]
  BY DEF Cleared, RowInv, RowType
<1> DEFINE m == [Moved(Cleared(r, r), p, OwnerAt(c, p)) EXCEPT !.chain = c]
<1>4. m = [r EXCEPT !.window = "none", !.status = "ACTIVE", !.pos = p,
                    !.owner = OwnerAt(c, p), !.ackLapsed = FALSE, !.chain = c]
  BY <1>3 DEF Moved, RowInv, RowType
<1>5. m \in RowType
  BY <1>1, <1>2, <1>4 DEF RowInv, RowType, OpenStatuses
<1>6. m.status = "ACTIVE" /\ m.window = "none" /\ m.pos = p /\ m.chain = c
      /\ m.owner = OwnerAt(c, p) /\ m.stage = r.stage /\ m.handling = r.handling
  BY <1>4 DEF RowInv, RowType
<1> QED BY <1>1, <1>5, <1>6 DEF RowInv, IsOpen, OpenStatuses

LEMMA ClimbedInv ==
    ASSUME NEW r, RowInv(r), IsOpen(r)
    PROVE  RowInv(Climbed(r, r)) /\ IsOpen(Climbed(r, r))
<1> DEFINE p == IF IsTerminal(r) THEN r.pos ELSE r.pos + 1
           m == [Moved(Cleared(r, r), p, OwnerAt(r.chain, p)) EXCEPT !.chain = r.chain]
<1>1. r.chain \in Chains \cup {<<>>} /\ r.pos \in Positions /\ r.pos <= Len(r.chain)
  BY DEF RowInv, RowType
<1>2. Len(r.chain) \in Positions
  BY <1>1, ChainFacts
<1>3. p \in 0 .. Len(r.chain)
  BY <1>1, <1>2 DEF IsTerminal, Positions
<1>4. RowInv(m) /\ IsOpen(m)
  BY <1>1, <1>3, MovedInv
<1>5. Climbed(r, r) = m
  BY DEF Climbed, Moved, Cleared, RowInv, RowType
<1> QED BY <1>4, <1>5

LEMMA RechainedInv ==
    ASSUME NEW r, RowInv(r), IsOpen(r), NEW c \in Chains
    PROVE  RowInv(Rechained(r, r, c)) /\ IsOpen(Rechained(r, r, c))
<1>1. 0 \in 0 .. Len(c)
  BY ChainFacts DEF Positions
<1>2. RowInv([Moved(Cleared(r, r), 0, OwnerAt(c, 0)) EXCEPT !.chain = c])
      /\ IsOpen([Moved(Cleared(r, r), 0, OwnerAt(c, 0)) EXCEPT !.chain = c])
  BY <1>1, MovedInv
<1> QED BY <1>2 DEF Rechained

\* Acceptance leaves a consistent, open row: either it starts a stage and
\* has its handling row, or the row already had both.
LEMMA AcceptedInv ==
    ASSUME NEW r, RowInv(r), IsOpen(r)
    PROVE  RowInv(Accepted(r, r)) /\ IsOpen(Accepted(r, r))
<1>1. Reloaded(r, r) = r
  BY DEF Reloaded
<1>2. NextStage(r.stage) \in 0 .. MaxStage /\ NextStage(r.stage) > 0
  BY LadderAssumption DEF NextStage, RowInv, RowType
<1>3. CASE r.status = "ACTIVE"
  <2>1. r.window = "none"
    BY <1>3 DEF RowInv, IsOpen, OpenStatuses, RowType
  <2>2. Accepted(r, r) =
          [r EXCEPT !.status = "ACKNOWLEDGED", !.stage = NextStage(r.stage),
                    !.window = "running",
                    !.handling = IF HandlingOpen(r) THEN r.handling ELSE "running"]
    BY <1>1, <1>3, <2>1 DEF Accepted, Acknowledged, StartsStage, RowInv, RowType
  <2> QED
    BY <1>2, <2>2 DEF RowInv, RowType, IsOpen, OpenStatuses, HandlingOpen
<1>4. CASE r.status # "ACTIVE"
  <2>1. r.window # "none"
    BY <1>4 DEF RowInv, IsOpen, OpenStatuses
  <2>2. Accepted(r, r) = r
    BY <1>1, <1>4, <2>1 DEF Accepted, Acknowledged, StartsStage
  <2> QED BY <2>2
<1> QED BY <1>3, <1>4

LEMMA ClosedInv ==
    ASSUME NEW r, RowInv(r), IsOpen(r)
    PROVE  RowInv(Closed(r)) /\ ~IsOpen(Closed(r))
BY DEF Closed, RowInv, RowType, IsOpen, OpenStatuses, HandlingOpen

\* Lapses, and the marking of a handling row, are local to the columns that
\* no other conjunct mentions.
LEMMA LapsedInv ==
    ASSUME NEW r, RowInv(r)
    PROVE  /\ r.status = "ACTIVE" =>
                LET m == [r EXCEPT !.ackLapsed = TRUE] IN RowInv(m) /\ (IsOpen(m) <=> IsOpen(r))
           /\ r.window = "running" =>
                LET m == [r EXCEPT !.window = "lapsed"] IN RowInv(m) /\ (IsOpen(m) <=> IsOpen(r))
           /\ r.handling = "running" =>
                LET m == [r EXCEPT !.handling = "lapsed"] IN RowInv(m) /\ (IsOpen(m) <=> IsOpen(r))
           /\ r.handling = "lapsed" =>
                LET m == [r EXCEPT !.handling = "breached"] IN RowInv(m) /\ (IsOpen(m) <=> IsOpen(r))
<1>1. r.status = "ACTIVE" =>
        LET m == [r EXCEPT !.ackLapsed = TRUE] IN RowInv(m) /\ (IsOpen(m) <=> IsOpen(r))
  BY DEF RowInv, RowType, IsOpen
<1>2. r.window = "running" =>
        LET m == [r EXCEPT !.window = "lapsed"] IN RowInv(m) /\ (IsOpen(m) <=> IsOpen(r))
  BY DEF RowInv, RowType, IsOpen
<1>3. r.handling = "running" =>
        LET m == [r EXCEPT !.handling = "lapsed"] IN RowInv(m) /\ (IsOpen(m) <=> IsOpen(r))
  BY DEF RowInv, RowType, IsOpen
<1>4. r.handling = "lapsed" =>
        LET m == [r EXCEPT !.handling = "breached"] IN RowInv(m) /\ (IsOpen(m) <=> IsOpen(r))
  BY DEF RowInv, RowType, IsOpen
<1> QED BY <1>1, <1>2, <1>3, <1>4

---------------------------------------------------------------------------
(* The whole state                                                         *)

\* Writing one consistent row into the table keeps every row consistent, and
\* keeps the set of open rows if the row is as open as it was.
LEMMA WrittenRows ==
    ASSUME RowsOK, NEW d \in Rows, NEW x, RowInv(x), esc' = [esc EXCEPT ![d] = x]
    PROVE  /\ RowsOK'
           /\ (IsOpen(x) <=> IsOpen(esc[d])) => OpenRows' = OpenRows
<1>1. RowsOK'
  BY DEF RowsOK, RowInv
<1>2. ASSUME IsOpen(x) <=> IsOpen(esc[d]) PROVE OpenRows' = OpenRows
  <2>1. \A e \in Rows : IsOpen(esc'[e]) <=> IsOpen(esc[e])
    BY <1>2 DEF RowsOK
  <2>2. OpenRows' = {e \in Rows : IsOpen(esc'[e])}
    BY DEF OpenRows, IsOpen
  <2> QED BY <2>1, <2>2 DEF OpenRows
<1> QED BY <1>1, <1>2

\* What the clock operators make of a clock.
LEMMA ClockFacts ==
    ASSUME NEW c \in ClockType
    PROVE  /\ Paused(c) \in ClockType
           /\ Resumed(c) \in ClockType
           /\ Completed(c) \in ClockType
           /\ Restarted(c) \in ClockType
           /\ Restarted(c).status = c.status
           /\ Completed(c).status \in {"COMPLETED", "NONE"}
           /\ Completed(c).status = "NONE" <=> c.status = "NONE"
           /\ c.status = "COMPLETED" <=> Paused(c).status = "COMPLETED"
           /\ c.status = "COMPLETED" <=> Resumed(c).status = "COMPLETED"
           /\ c.status \in {"COMPLETED", "NONE"} => Paused(c) = c /\ Resumed(c) = c
           /\ \A p, x \in BOOLEAN :
                 /\ Reopened(c, p) \in ClockType
                 /\ Reshifted(c, p, x) \in ClockType
                 /\ Reshifted(c, p, x).status = c.status
                 /\ p => Reopened(c, p).status = "RUNNING"
                 /\ ~p => Reopened(c, p) = c
BY DEF Paused, Resumed, Completed, Restarted, Reopened, Reshifted, ClockStatuses, ClockType

\* change_status completes the clock of a ticket that becomes resolved, and
\* revives that of a ticket that leaves RESOLVED if a policy is found.
LEMMA ClockAfterStatusFacts ==
    ASSUME NEW c \in ClockType, NEW p \in BOOLEAN,
           NEW old \in Statuses \ {"CLOSED"}, NEW new \in Statuses \ {"CLOSED"}
    PROVE  LET d == ClockAfterStatus(c, old, new, p)
           IN  /\ d \in ClockType
               /\ new = "RESOLVED" /\ old # "RESOLVED" => d.status \in {"COMPLETED", "NONE"}
               /\ new = "RESOLVED" /\ old = "RESOLVED" => d = c
               /\ p /\ old = "RESOLVED" /\ new # "RESOLVED" => d.status = "RUNNING"
               /\ old # "RESOLVED" /\ new # "RESOLVED" /\ d.status = "COMPLETED"
                     => c.status = "COMPLETED"
BY DEF ClockAfterStatus, Paused, Resumed, Completed, Reopened, ClockStatuses, ClockType, Statuses

\* An acceptance changes no status: not the clock's, and not which rows are
\* open.
LEMMA AcceptFacts ==
    ASSUME IInv, NEW e \in OpenRows, Accept(e, esc[e])
    PROVE  /\ RowsOK' /\ OpenRows' = OpenRows
           /\ clock' \in ClockType /\ clock'.status = clock.status
<1>1. e \in Rows /\ RowInv(esc[e]) /\ IsOpen(esc[e])
  BY DEF OpenRows, IInv, RowsOK
<1>2. RowInv(Accepted(esc[e], esc[e])) /\ IsOpen(Accepted(esc[e], esc[e]))
  BY <1>1, AcceptedInv
<1>3. esc' = [esc EXCEPT ![e] = Accepted(esc[e], esc[e])]
  BY DEF Accept
<1>4. clock' = clock \/ clock' = Restarted(clock)
  BY DEF Accept
<1>5. clock \in ClockType
  BY DEF IInv, TicketAndClockOK
<1>6. RowsOK' /\ OpenRows' = OpenRows
  BY <1>1, <1>2, <1>3, WrittenRows DEF IInv
<1>7. clock' \in ClockType /\ clock'.status = clock.status
  BY <1>4, <1>5, ClockFacts
<1> QED BY <1>6, <1>7

LEMMA AcceptByAssignmentFacts ==
    ASSUME IInv, NEW m \in BOOLEAN, AcceptByAssignment(m)
    PROVE  /\ RowsOK' /\ OpenRows' = OpenRows
           /\ clock' \in ClockType /\ clock'.status = clock.status
<1>1. CASE m /\ OpenRows # {}
  <2>1. PICK e \in OpenRows : Accept(e, esc[e])
    BY <1>1 DEF AcceptByAssignment
  <2> QED BY <2>1, AcceptFacts
<1>2. CASE ~(m /\ OpenRows # {})
  <2>1. UNCHANGED <<clock, esc>>
    BY <1>2 DEF AcceptByAssignment
  <2> QED BY <2>1 DEF IInv, RowsOK, TicketAndClockOK, OpenRows
<1> QED BY <1>1, <1>2

THEOREM InitInv == Init => IInv
<1> SUFFICES ASSUME Init PROVE IInv
  OBVIOUS
<1>1. TicketAndClockOK
  BY DEF Init, TicketAndClockOK, ClockType, Statuses, ClockStatuses
<1>2. RowsOK
  BY UnusedRowInv DEF Init, RowsOK, RowInv
<1>3. ticket.status \in {"OPEN", "IN_PROGRESS"} /\ clock.status \in {"RUNNING", "NONE"}
  BY DEF Init
<1> QED
  BY <1>1, <1>2, <1>3 DEF IInv, LiveTicketHasLiveClock, ClockedEscalationEndsWithTicket

\* Everything that follows from the rows alone being rewritten.
LEMMA WriteRowInv ==
    ASSUME IInv, NEW d \in Rows, NEW x, RowInv(x), IsOpen(x) <=> IsOpen(esc[d]),
           WriteRow(d, x)
    PROVE  IInv'
<1>1. esc' = [esc EXCEPT ![d] = x] /\ ticket' = ticket /\ clock' = clock
  BY DEF WriteRow
<1>2. RowsOK' /\ OpenRows' = OpenRows
  BY <1>1, WrittenRows DEF IInv
<1> QED
  BY <1>1, <1>2 DEF IInv, TicketAndClockOK, LiveTicketHasLiveClock, ClockedEscalationEndsWithTicket

LEMMA CreateInv ==
    ASSUME IInv, NEW d \in Rows, NEW c \in Chains, Create(d, c),
           ticket.status = "CLOSED" => clock.status = "NONE"
    PROVE  IInv'
<1>1. esc' = [esc EXCEPT ![d] = NewRow(c)] /\ ticket' = ticket /\ clock' = clock
  BY DEF Create
<1>2. RowsOK'
  BY <1>1, WrittenRows, NewRowInv DEF IInv
<1> QED
  BY <1>1, <1>2 DEF IInv, TicketAndClockOK, LiveTicketHasLiveClock, ClockedEscalationEndsWithTicket

\* The same when the clock keeps its status and the ticket at most goes from
\* OPEN to IN_PROGRESS.
LEMMA SameStatusInv ==
    ASSUME IInv, RowsOK', OpenRows' = OpenRows, clock' \in ClockType,
           clock'.status = clock.status,
           ticket' \in [status : Statuses, assigned : BOOLEAN],
           ticket'.status = ticket.status
             \/ (ticket.status = "OPEN" /\ ticket'.status = "IN_PROGRESS")
    PROVE  IInv'
<1>1. TicketAndClockOK'
  BY DEF TicketAndClockOK
<1>2. LiveTicketHasLiveClock'
  BY DEF IInv, LiveTicketHasLiveClock
<1>3. ClockedEscalationEndsWithTicket'
  BY DEF IInv, ClockedEscalationEndsWithTicket
<1> QED BY <1>1, <1>2, <1>3 DEF IInv

LEMMA AgentsInv == IInv /\ Agents => IInv'
<1> SUFFICES ASSUME IInv, Agents PROVE IInv'
  OBVIOUS
<1> USE DEF IInv, TicketAndClockOK
<1>1. ASSUME NEW m \in BOOLEAN, Claim(m) PROVE IInv'
  <2>1. RowsOK' /\ OpenRows' = OpenRows /\ clock' \in ClockType /\ clock'.status = clock.status
    BY <1>1, AcceptByAssignmentFacts DEF Claim
  <2>2. ticket' \in [status : Statuses, assigned : BOOLEAN]
        /\ ticket.status = "OPEN" /\ ticket'.status = "IN_PROGRESS"
    BY <1>1 DEF Claim, Statuses
  <2> QED BY <2>1, <2>2, SameStatusInv
<1>2. ASSUME NEW m \in BOOLEAN, Transfer(m) PROVE IInv'
  <2>1. RowsOK' /\ OpenRows' = OpenRows /\ clock' \in ClockType /\ clock'.status = clock.status
    BY <1>2, AcceptByAssignmentFacts DEF Transfer
  <2>2. /\ ticket' \in [status : Statuses, assigned : BOOLEAN]
        /\ ticket'.status = ticket.status
             \/ (ticket.status = "OPEN" /\ ticket'.status = "IN_PROGRESS")
    BY <1>2 DEF Transfer, Statuses, StatusAfterAssignment
  <2> QED BY <2>1, <2>2, SameStatusInv
<1>3. ASSUME NEW e \in Rows, ConfirmAssignment(e) PROVE IInv'
  <2>1. RowsOK' /\ OpenRows' = OpenRows /\ clock' \in ClockType /\ clock'.status = clock.status
    BY <1>3, AcceptFacts DEF ConfirmAssignment
  <2>2. /\ ticket' \in [status : Statuses, assigned : BOOLEAN]
        /\ ticket'.status = ticket.status
    BY <1>3 DEF ConfirmAssignment
  <2> QED BY <2>1, <2>2, SameStatusInv
<1>4. ASSUME NEW e \in Rows, ManualEscalateAgain(e) PROVE IInv'
  <2>1. RowInv(esc[e]) /\ IsOpen(esc[e]) /\ WriteRow(e, Climbed(esc[e], esc[e]))
    BY <1>4 DEF ManualEscalateAgain, OpenRows, RowsOK
  <2>2. RowInv(Climbed(esc[e], esc[e])) /\ IsOpen(Climbed(esc[e], esc[e]))
    BY <2>1, ClimbedInv
  <2> QED BY <2>1, <2>2, WriteRowInv
<1>5. ASSUME NEW s \in Statuses, NEW p \in PolicyStates, ChangeStatus(s, p) PROVE IInv'
  <2> DEFINE d == ClockAfterStatus(clock, ticket.status, s, p)
  <2>1. p \in BOOLEAN /\ ticket.status \in Statuses \ {"CLOSED"} /\ s \in Statuses \ {"CLOSED"}
    BY <1>5, LadderAssumption DEF ChangeStatus, NotClosed, Statuses
  <2>2. clock' = d /\ ticket' = [ticket EXCEPT !.status = s] /\ esc' = esc
    BY <1>5 DEF ChangeStatus
  <2>3. /\ d \in ClockType
        /\ s = "RESOLVED" /\ ticket.status # "RESOLVED" => d.status \in {"COMPLETED", "NONE"}
        /\ s = "RESOLVED" /\ ticket.status = "RESOLVED" => d = clock
        /\ p /\ ticket.status = "RESOLVED" /\ s # "RESOLVED" => d.status = "RUNNING"
        /\ ticket.status # "RESOLVED" /\ s # "RESOLVED" /\ d.status = "COMPLETED"
             => clock.status = "COMPLETED"
    BY <2>1, ClockAfterStatusFacts
  <2> HIDE DEF d
  <2>4. ticket'.status = s /\ ticket' \in [status : Statuses, assigned : BOOLEAN]
    BY <2>2
  <2>5. RowsOK'
    BY <2>2 DEF RowsOK
  <2>6. LiveTicketHasLiveClock'
    BY <2>1, <2>2, <2>3, <2>4 DEF LiveTicketHasLiveClock, Statuses
  <2>7. ClockedEscalationEndsWithTicket'
    BY <2>1, <2>4 DEF ClockedEscalationEndsWithTicket
  <2> QED BY <2>2, <2>3, <2>4, <2>5, <2>6, <2>7
<1>6. ASSUME NEW x \in BOOLEAN, NEW p \in PolicyStates, ChangePriority(p, x) PROVE IInv'
  <2>1. p \in BOOLEAN
    BY LadderAssumption
  <2>2. clock' \in ClockType /\ clock'.status = clock.status
    BY <1>6, <2>1, ClockFacts DEF ChangePriority
  <2>3. /\ ticket' \in [status : Statuses, assigned : BOOLEAN]
        /\ ticket'.status = ticket.status
    BY <1>6 DEF ChangePriority
  <2>4. RowsOK' /\ OpenRows' = OpenRows
    BY <1>6 DEF ChangePriority, RowsOK, OpenRows
  <2> QED BY <2>2, <2>3, <2>4, SameStatusInv
<1>7. ASSUME CloseTicket PROVE IInv'
  <2>1. ticket' = [ticket EXCEPT !.status = "CLOSED"] /\ clock' = Completed(clock)
    BY <1>7 DEF CloseTicket
  <2>2. /\ clock' \in ClockType /\ clock'.status \in {"COMPLETED", "NONE"}
        /\ clock'.status = "NONE" <=> clock.status = "NONE"
    BY <2>1, ClockFacts
  <2>3. ticket'.status = "CLOSED" /\ ticket' \in [status : Statuses, assigned : BOOLEAN]
    BY <2>1 DEF Statuses
  <2>4. RowsOK' /\ (clock.status # "NONE" => OpenRows' = {})
    <3>1. CASE clock.status = "NONE"
      BY <1>7, <3>1 DEF CloseTicket, RowsOK
    <3>2. CASE clock.status # "NONE"
      <4>1. esc' = [e \in Rows |-> IF IsOpen(esc[e]) THEN Closed(esc[e]) ELSE esc[e]]
        BY <1>7, <3>2 DEF CloseTicket
      <4>2. \A e \in Rows : RowInv(esc'[e]) /\ ~IsOpen(esc'[e])
        BY <4>1, ClosedInv DEF RowsOK
      <4>3. esc' \in [Rows -> RowType]
        BY <4>1, <4>2 DEF RowInv
      <4>4. OpenRows' = {}
        BY <4>2 DEF OpenRows, IsOpen
      <4> QED BY <4>2, <4>3, <4>4 DEF RowsOK
    <3> QED BY <3>1, <3>2
  <2> QED
    BY <2>2, <2>3, <2>4 DEF LiveTicketHasLiveClock, ClockedEscalationEndsWithTicket
<1>8. ASSUME NEW p \in PolicyStates, ReopenTicket(p) PROVE IInv'
  <2>1. p \in BOOLEAN /\ (PolicyStates = {TRUE} => p)
    BY LadderAssumption
  <2>2. ticket' = [ticket EXCEPT !.status = "OPEN"] /\ clock' = Reopened(clock, p) /\ esc' = esc
    BY <1>8 DEF ReopenTicket
  <2>3. clock' \in ClockType /\ (p => clock'.status = "RUNNING")
    BY <2>1, <2>2, ClockFacts
  <2>4. ticket'.status = "OPEN" /\ ticket' \in [status : Statuses, assigned : BOOLEAN]
    BY <2>2 DEF Statuses
  <2>5. RowsOK'
    BY <2>2 DEF RowsOK
  <2> QED
    BY <2>1, <2>3, <2>4, <2>5 DEF LiveTicketHasLiveClock, ClockedEscalationEndsWithTicket
<1>9. ASSUME NEW e \in Rows, NEW c \in Chains, ManualEscalateNew(e, c) PROVE IInv'
  BY <1>9, CreateInv DEF ManualEscalateNew, NotClosed
<1>10. ASSUME ManualPause PROVE IInv'
  <2>1. clock.status = "RUNNING" /\ clock' = [clock EXCEPT !.status = "PAUSED"]
        /\ ticket' = ticket /\ esc' = esc
    BY <1>10 DEF ManualPause, Paused
  <2>2. RowsOK' /\ OpenRows' = OpenRows
    BY <2>1 DEF RowsOK, OpenRows
  <2>3. clock' \in ClockType /\ clock'.status = "PAUSED"
    BY <2>1 DEF ClockType, ClockStatuses
  <2> QED
    BY <2>1, <2>2, <2>3 DEF LiveTicketHasLiveClock, ClockedEscalationEndsWithTicket
<1>11. ASSUME Resume PROVE IInv'
  <2>1. clock.status = "PAUSED" /\ clock' = [clock EXCEPT !.status = "RUNNING"]
        /\ ticket' = ticket /\ esc' = esc
    BY <1>11 DEF Resume, Resumed
  <2>2. RowsOK' /\ OpenRows' = OpenRows
    BY <2>1 DEF RowsOK, OpenRows
  <2>3. clock' \in ClockType /\ clock'.status = "RUNNING"
    BY <2>1 DEF ClockType, ClockStatuses
  <2> QED
    BY <2>1, <2>2, <2>3 DEF LiveTicketHasLiveClock, ClockedEscalationEndsWithTicket
<1> QED
  BY <1>1, <1>2, <1>3, <1>4, <1>5, <1>6, <1>7, <1>8, <1>9, <1>10, <1>11 DEF Agents

LEMMA SweepInv == IInv /\ Sweep => IInv'
<1> SUFFICES ASSUME IInv, Sweep PROVE IInv'
  OBVIOUS
<1>1. ASSUME NEW e \in Rows, NEW c \in Chains, AutoEscalate(e, c) PROVE IInv'
  <2>1. clock.status = "RUNNING" /\ Create(e, c)
    BY <1>1 DEF AutoEscalate
  <2>2. ticket.status # "CLOSED"
    BY <2>1 DEF IInv, LiveTicketHasLiveClock
  <2> QED BY <2>1, <2>2, CreateInv
<1>2. ASSUME NEW e \in Rows, AdvanceOverdue(e) PROVE IInv'
  <2>1. RowInv(esc[e]) /\ IsOpen(esc[e]) /\ WriteRow(e, Climbed(esc[e], esc[e]))
    BY <1>2 DEF AdvanceOverdue, IInv, RowsOK, IsOpen, OpenStatuses
  <2>2. RowInv(Climbed(esc[e], esc[e])) /\ IsOpen(Climbed(esc[e], esc[e]))
    BY <2>1, ClimbedInv
  <2> QED BY <2>1, <2>2, WriteRowInv
<1>3. ASSUME NEW e \in Rows, MarkHandlingBreached(e) PROVE IInv'
  <2> DEFINE x == [esc[e] EXCEPT !.handling = "breached"]
  <2>1. RowInv(esc[e]) /\ esc[e].handling = "lapsed" /\ WriteRow(e, x)
    BY <1>3 DEF MarkHandlingBreached, IInv, RowsOK
  <2>2. RowInv(x) /\ (IsOpen(x) <=> IsOpen(esc[e]))
    BY <2>1, LapsedInv
  <2> QED BY <2>1, <2>2, WriteRowInv
<1>4. ASSUME NEW d \in Rows, NEW e \in Rows, NEW c \in Chains, AdvanceBreached(d, e, c)
      PROVE  IInv'
  <2>1. RowInv(esc[e]) /\ IsOpen(esc[e]) /\ WriteRow(e, Rechained(esc[e], esc[e], c))
    BY <1>4 DEF AdvanceBreached, IInv, RowsOK, OpenRows
  <2>2. RowInv(Rechained(esc[e], esc[e], c)) /\ IsOpen(Rechained(esc[e], esc[e], c))
    BY <2>1, RechainedInv
  <2> QED BY <2>1, <2>2, WriteRowInv
<1> QED BY <1>1, <1>2, <1>3, <1>4 DEF Sweep

LEMMA TimeInv == IInv /\ Time => IInv'
<1> SUFFICES ASSUME IInv, Time PROVE IInv'
  OBVIOUS
<1>1. ASSUME SlaLapses PROVE IInv'
  <2>1. /\ ticket' \in [status : Statuses, assigned : BOOLEAN] /\ ticket'.status = ticket.status
        /\ clock' \in ClockType /\ clock'.status = clock.status
        /\ RowsOK' /\ OpenRows' = OpenRows
    BY <1>1 DEF SlaLapses, IInv, TicketAndClockOK, ClockType, RowsOK, OpenRows
  <2> QED BY <2>1, SameStatusInv
<1>2. ASSUME NEW e \in Rows, AckWindowLapses(e) PROVE IInv'
  <2> DEFINE x == [esc[e] EXCEPT !.ackLapsed = TRUE]
  <2>1. RowInv(esc[e]) /\ esc[e].status = "ACTIVE" /\ WriteRow(e, x)
    BY <1>2 DEF AckWindowLapses, IInv, RowsOK
  <2>2. RowInv(x) /\ (IsOpen(x) <=> IsOpen(esc[e]))
    BY <2>1, LapsedInv
  <2> QED BY <2>1, <2>2, WriteRowInv
<1>3. ASSUME NEW e \in Rows, StageLapses(e) PROVE IInv'
  <2> DEFINE x == [esc[e] EXCEPT !.window = "lapsed"]
  <2>1. RowInv(esc[e]) /\ esc[e].window = "running" /\ WriteRow(e, x)
    BY <1>3 DEF StageLapses, IInv, RowsOK
  <2>2. RowInv(x) /\ (IsOpen(x) <=> IsOpen(esc[e]))
    BY <2>1, LapsedInv
  <2> QED BY <2>1, <2>2, WriteRowInv
<1>4. ASSUME NEW e \in Rows, HandlingLapses(e) PROVE IInv'
  <2> DEFINE x == [esc[e] EXCEPT !.handling = "lapsed"]
  <2>1. RowInv(esc[e]) /\ esc[e].handling = "running" /\ WriteRow(e, x)
    BY <1>4 DEF HandlingLapses, IInv, RowsOK
  <2>2. RowInv(x) /\ (IsOpen(x) <=> IsOpen(esc[e]))
    BY <2>1, LapsedInv
  <2> QED BY <2>1, <2>2, WriteRowInv
<1> QED BY <1>1, <1>2, <1>3, <1>4 DEF Time

---------------------------------------------------------------------------
(* Theorems                                                                *)

\* The inductive invariant holds in every state the program reaches.
THEOREM Invariance == Spec => []IInv
<1>1. Init => IInv
  BY InitInv
<1>2. IInv /\ [Next]_vars => IInv'
  <2> SUFFICES ASSUME IInv, [Next]_vars PROVE IInv'
    OBVIOUS
  <2>1. CASE Next
    BY <2>1, AgentsInv, SweepInv, TimeInv DEF Next
  <2>2. CASE UNCHANGED vars
    BY <2>2 DEF vars, IInv, TicketAndClockOK, RowsOK, LiveTicketHasLiveClock,
                ClockedEscalationEndsWithTicket, OpenRows
  <2> QED BY <2>1, <2>2
<1> QED BY <1>1, <1>2, PTL DEF Spec

\* Every row of the three tables keeps its shape, whatever handler or sweep
\* wrote it.
THEOREM TypeCorrect == Spec => []TypeOK
<1>1. IInv => TypeOK
  BY DEF IInv, TicketAndClockOK, RowsOK, ClockType, TypeOK
<1> QED BY <1>1, Invariance, PTL

\* A handling stage runs on an open escalation exactly while it is
\* acknowledged, so the two candidate lists of the sweep stay disjoint.
THEOREM StageRunsWhileAcknowledgedHolds == Spec => []StageRunsWhileAcknowledged
<1>1. IInv => StageRunsWhileAcknowledged
  BY DEF IInv, RowsOK, RowInv, OpenRows, StageRunsWhileAcknowledged
<1> QED BY <1>1, Invariance, PTL

\* The owner of an open escalation is the one its chain names at its
\* position, for chains of any length.
THEOREM OwnerFollowsChainHolds == Spec => []OwnerFollowsChain
<1>1. IInv => OwnerFollowsChain
  BY DEF IInv, RowsOK, RowInv, OpenRows, OwnerFollowsChain
<1> QED BY <1>1, Invariance, PTL

\* An escalation has a handling row exactly if some acceptance has given it a
\* stage, so the freeze is lifted by acceptance and by nothing else.
THEOREM HandlingRowMeansAcceptedHolds == Spec => []HandlingRowMeansAccepted
<1>1. IInv => HandlingRowMeansAccepted
  BY DEF IInv, RowsOK, RowInv, HandlingRowMeansAccepted
<1> QED BY <1>1, Invariance, PTL

\* A resolved or closed ticket has no live clock, and while policies are
\* always found every other ticket has one.
THEOREM LiveTicketHasLiveClockHolds == Spec => []LiveTicketHasLiveClock
<1>1. IInv => LiveTicketHasLiveClock
  BY DEF IInv
<1> QED BY <1>1, Invariance, PTL

\* Closing a ticket that has a clock ends its escalation, and no handler or
\* sweep opens one before it is reopened.
THEOREM ClockedEscalationEndsWithTicketHolds == Spec => []ClockedEscalationEndsWithTicket
<1>1. IInv => ClockedEscalationEndsWithTicket
  BY DEF IInv
<1> QED BY <1>1, Invariance, PTL

\* An unaccepted escalation freezes the ticket: no step changes its status
\* except the assignment that moves it off OPEN, and no step completes or
\* revives its clock.
THEOREM FrozenTicketIsNotWorkedHolds == Spec => FrozenTicketIsNotWorked
<1> DEFINE Kept == /\ ticket'.status = ticket.status
                        \/ (ticket.status = "OPEN" /\ ticket'.status = "IN_PROGRESS")
                   /\ (clock'.status = "COMPLETED") <=> (clock.status = "COMPLETED")
<1>1. IInv /\ Frozen /\ [Next]_vars => Kept
  <2> SUFFICES ASSUME IInv, Frozen, [Next]_vars PROVE Kept
    OBVIOUS
  <2>1. ASSUME NEW m \in BOOLEAN, Claim(m) \/ Transfer(m) PROVE Kept
    <3>1. AcceptByAssignment(m)
      BY <2>1 DEF Claim, Transfer
    <3>2. clock'.status = clock.status
      BY <3>1, AcceptByAssignmentFacts
    <3>3. ticket'.status = ticket.status
            \/ (ticket.status = "OPEN" /\ ticket'.status = "IN_PROGRESS")
      BY <2>1 DEF Claim, Transfer, StatusAfterAssignment, IInv, TicketAndClockOK
    <3> QED BY <3>2, <3>3
  <2>2. ASSUME NEW e \in Rows, ConfirmAssignment(e) PROVE Kept
    <3>1. clock'.status = clock.status /\ ticket' = ticket
      BY <2>2, AcceptFacts DEF ConfirmAssignment
    <3> QED BY <3>1
  <2>3. ASSUME NEW x \in BOOLEAN, NEW p \in PolicyStates, ChangePriority(p, x) PROVE Kept
    BY <2>3 DEF ChangePriority
  <2>4. ASSUME \/ CloseTicket
               \/ \E s \in Statuses, p \in PolicyStates : ChangeStatus(s, p)
               \/ \E p \in PolicyStates : ReopenTicket(p)
        PROVE  Kept
    BY <2>4 DEF CloseTicket, ChangeStatus, ReopenTicket
  <2>5. CASE ManualPause \/ Resume \/ SlaLapses
    BY <2>5 DEF ManualPause, Resume, SlaLapses, Paused, Resumed, IInv, TicketAndClockOK, ClockType
  <2>6. ASSUME NEW e \in Rows, NEW d \in Rows, NEW c \in Chains,
               \/ ManualEscalateNew(e, c) \/ ManualEscalateAgain(e) \/ AutoEscalate(e, c)
               \/ AdvanceOverdue(e) \/ MarkHandlingBreached(e) \/ AdvanceBreached(d, e, c)
               \/ AckWindowLapses(e) \/ StageLapses(e) \/ HandlingLapses(e)
        PROVE  Kept
    <3>1. ticket' = ticket /\ clock' = clock
      BY <2>6 DEF ManualEscalateNew, ManualEscalateAgain, AutoEscalate, AdvanceOverdue,
                  MarkHandlingBreached, AdvanceBreached, AckWindowLapses, StageLapses,
                  HandlingLapses, Create, WriteRow
    <3> QED BY <3>1
  <2>7. CASE UNCHANGED vars
    BY <2>7 DEF vars
  <2>8. Chains # {}
    BY LadderAssumption
  <2> QED
    BY <2>1, <2>2, <2>3, <2>4, <2>5, <2>6, <2>7, <2>8 DEF Next, Agents, Sweep, Time
<1>2. IInv /\ [Next]_vars =>
        [Frozen => /\ \/ ticket'.status = ticket.status
                      \/ ticket.status = "OPEN" /\ ticket'.status = "IN_PROGRESS"
                   /\ clock'.status = "COMPLETED" <=> clock.status = "COMPLETED"]_vars
  BY <1>1
<1> QED BY <1>2, Invariance, PTL DEF Spec, FrozenTicketIsNotWorked
---------------------------------------------------------------------------
(* When an acceptance may be lost                                          *)

SingleOpen == \A d, e \in OpenRows : d = e

\* What a step may make of one row: it opens none, and takes an acceptance
\* back only as AcceptanceLostOnlyByBreach allows, if no closed escalation still
\* has a lapsed stage.
MayBecome(r, x) ==
    /\ IsOpen(x) => IsOpen(r)
    /\ ~StaleBreach /\ r.status = "ACKNOWLEDGED" /\ x.status = "ACTIVE"
         => r.window = "lapsed" \/ x.pos = r.pos + 1

RowsMay == \A e \in Rows : MayBecome(esc[e], esc'[e])

LEMMA MayFacts ==
    ASSUME RowsMay, SingleOpen
    PROVE  SingleOpen' /\ OpenRows' \subseteq OpenRows
BY DEF RowsMay, MayBecome, SingleOpen, OpenRows, IsOpen

LEMMA OneRowMay ==
    ASSUME RowsOK, NEW e \in Rows, NEW x, MayBecome(esc[e], x),
           esc' = [esc EXCEPT ![e] = x]
    PROVE  RowsMay
<1>1. ASSUME NEW d \in Rows PROVE MayBecome(esc[d], esc'[d])
  <2>1. CASE d = e
    <3>1. esc'[d] = x
      BY <2>1 DEF RowsOK
    <3> QED BY <2>1, <3>1
  <2>2. CASE d # e
    <3>1. esc'[d] = esc[d]
      BY <2>2 DEF RowsOK
    <3> QED BY <3>1 DEF MayBecome
  <2> QED BY <2>1, <2>2
<1> QED BY <1>1 DEF RowsMay

LEMMA SameRowsMay ==
    ASSUME UNCHANGED esc
    PROVE  RowsMay
BY DEF RowsMay, MayBecome

LEMMA AcceptMay ==
    ASSUME RowsOK, NEW e \in OpenRows, Accept(e, esc[e])
    PROVE  RowsMay
<1> DEFINE r == esc[e]
<1>1. e \in Rows /\ RowInv(r) /\ IsOpen(r)
  BY DEF OpenRows, RowsOK
<1>2. r.status = "ACKNOWLEDGED" => Accepted(r, r) = r
  BY <1>1 DEF RowInv, Accepted, Acknowledged, StartsStage, Reloaded
<1>3. r.status = "ACKNOWLEDGED" => Accepted(r, r).status # "ACTIVE"
  BY <1>2
<1>4. MayBecome(r, Accepted(r, r))
  BY <1>1, <1>3 DEF MayBecome
<1>5. esc' = [esc EXCEPT ![e] = Accepted(r, r)]
  BY DEF Accept
<1> QED BY <1>1, <1>4, <1>5, OneRowMay

LEMMA AcceptByAssignmentMay ==
    ASSUME RowsOK, NEW m \in BOOLEAN, AcceptByAssignment(m)
    PROVE  RowsMay
BY AcceptMay, SameRowsMay DEF AcceptByAssignment

\* A climb from an acknowledged row is the manual one, which takes one hop.
LEMMA ClimbedMay ==
    ASSUME NEW r, RowInv(r), IsOpen(r), r.status = "ACTIVE" \/ ~IsTerminal(r)
    PROVE  MayBecome(r, Climbed(r, r))
<1>1. Climbed(r, r).pos = IF IsTerminal(r) THEN r.pos ELSE r.pos + 1
  BY DEF Climbed, Moved, Cleared, RowInv, RowType
<1> QED BY <1>1 DEF MayBecome

\* Every step but the insertion of a row keeps to MayBecome.
LEMMA StepsMay ==
    ASSUME IInv, SingleOpen, Next
    PROVE  RowsMay \/ \E e \in Rows, c \in Chains : OpenRows = {} /\ IsFree(e) /\ Create(e, c)
<1>0. RowsOK
  BY DEF IInv
<1>1. ASSUME NEW m \in BOOLEAN, Claim(m) \/ Transfer(m) PROVE RowsMay
  BY <1>0, <1>1, AcceptByAssignmentMay DEF Claim, Transfer
<1>2. ASSUME NEW e \in Rows, ConfirmAssignment(e) PROVE RowsMay
  BY <1>0, <1>2, AcceptMay DEF ConfirmAssignment
<1>3. ASSUME \/ \E x \in BOOLEAN, p \in PolicyStates : ChangePriority(p, x)
             \/ \E s \in Statuses, p \in PolicyStates : ChangeStatus(s, p)
             \/ \E p \in PolicyStates : ReopenTicket(p)
             \/ ManualPause \/ Resume \/ SlaLapses
      PROVE  RowsMay
  BY <1>3, SameRowsMay DEF ChangePriority, ChangeStatus, ReopenTicket, ManualPause, Resume, SlaLapses
<1>4. CASE CloseTicket
  <2>1. ASSUME NEW e \in Rows PROVE MayBecome(esc[e], esc'[e])
    <3>1. esc'[e] = esc[e] \/ (IsOpen(esc[e]) /\ esc'[e] = Closed(esc[e]))
      BY <1>4 DEF CloseTicket
    <3>2. Closed(esc[e]).status = "CLOSED"
      BY <1>0 DEF RowsOK, RowType, Closed
    <3>3. MayBecome(esc[e], Closed(esc[e]))
      BY <3>2 DEF MayBecome, IsOpen, OpenStatuses
    <3>4. MayBecome(esc[e], esc[e])
      BY DEF MayBecome
    <3> QED BY <3>1, <3>3, <3>4
  <2> QED BY <2>1 DEF RowsMay
<1>5. ASSUME NEW e \in Rows, ManualEscalateAgain(e) \/ AdvanceOverdue(e) PROVE RowsMay
  <2>1. /\ RowInv(esc[e]) /\ IsOpen(esc[e])
        /\ esc[e].status = "ACTIVE" \/ ~IsTerminal(esc[e])
        /\ esc' = [esc EXCEPT ![e] = Climbed(esc[e], esc[e])]
    BY <1>0, <1>5 DEF ManualEscalateAgain, AdvanceOverdue, WriteRow, RowsOK, OpenRows,
                      IsOpen, OpenStatuses
  <2> QED BY <1>0, <2>1, ClimbedMay, OneRowMay
<1>6. ASSUME NEW d \in Rows, NEW e \in Rows, NEW c \in Chains, AdvanceBreached(d, e, c)
      PROVE  RowsMay
  <2>1. esc[d].window = "lapsed" /\ e \in OpenRows
    BY <1>6 DEF AdvanceBreached
  <2>2. ~StaleBreach => d \in OpenRows
    <3> SUFFICES ASSUME ~StaleBreach PROVE d \in OpenRows
      OBVIOUS
    <3>1. esc[d].status # "CLOSED" /\ esc[d].status # "UNUSED"
      BY <1>0, <2>1 DEF StaleBreach, RowsOK, RowInv
    <3> QED BY <1>0, <3>1 DEF RowsOK, RowType, OpenRows, IsOpen
  <2>3. ~StaleBreach => d = e
    BY <2>1, <2>2 DEF SingleOpen
  <2>4. IsOpen(esc[e]) /\ (~StaleBreach => esc[e].window = "lapsed")
    BY <2>1, <2>3 DEF OpenRows
  <2>5. MayBecome(esc[e], Rechained(esc[e], esc[e], c))
    BY <2>4 DEF MayBecome
  <2> QED BY <1>0, <1>6, <2>5, OneRowMay DEF AdvanceBreached, WriteRow
<1>7. ASSUME NEW e \in Rows, NEW x,
             x.status = esc[e].status,
             WriteRow(e, x)
      PROVE  RowsMay
  <2>1. MayBecome(esc[e], x)
    BY <1>7 DEF MayBecome, IsOpen
  <2> QED BY <1>0, <1>7, <2>1, OneRowMay DEF WriteRow
<1>8. ASSUME NEW e \in Rows,
             \/ MarkHandlingBreached(e) \/ AckWindowLapses(e)
             \/ StageLapses(e) \/ HandlingLapses(e)
      PROVE  RowsMay
  <2>1. esc[e] \in RowType
    BY <1>0 DEF RowsOK
  <2>2. /\ [esc[e] EXCEPT !.handling = "breached"].status = esc[e].status
        /\ [esc[e] EXCEPT !.ackLapsed = TRUE].status = esc[e].status
        /\ [esc[e] EXCEPT !.window = "lapsed"].status = esc[e].status
        /\ [esc[e] EXCEPT !.handling = "lapsed"].status = esc[e].status
    BY <2>1 DEF RowType
  <2> QED BY <1>7, <1>8, <2>2
          DEF MarkHandlingBreached, AckWindowLapses, StageLapses, HandlingLapses
<1>9. ASSUME NEW e \in Rows, NEW c \in Chains, ManualEscalateNew(e, c) \/ AutoEscalate(e, c)
      PROVE  OpenRows = {} /\ IsFree(e) /\ Create(e, c)
  BY <1>9 DEF ManualEscalateNew, AutoEscalate
<1> QED
  BY <1>1, <1>2, <1>3, <1>4, <1>5, <1>6, <1>8, <1>9 DEF Next, Agents, Sweep, Time

LEMMA SingleOpenStep ==
    ASSUME IInv, SingleOpen, [Next]_vars
    PROVE  SingleOpen'
<1>1. CASE RowsMay
  BY <1>1, MayFacts
<1>2. ASSUME NEW e \in Rows, NEW c \in Chains, OpenRows = {}, Create(e, c) PROVE SingleOpen'
  <2>1. ASSUME NEW d \in OpenRows' PROVE d = e
    <3>1. d \in Rows /\ IsOpen(esc'[d])
      BY DEF OpenRows, IsOpen
    <3>2. d # e => esc'[d] = esc[d]
      BY <1>2, <3>1 DEF Create, IInv, RowsOK
    <3> QED BY <1>2, <3>1, <3>2 DEF OpenRows
  <2> QED BY <2>1 DEF SingleOpen
<1>3. CASE UNCHANGED vars
  BY <1>1, <1>3, SameRowsMay DEF vars
<1> QED BY <1>1, <1>2, <1>3, StepsMay

\* The acceptance of an escalation is safe, as the ladder promises, as long as
\* no escalation of the ticket was closed with its stage deadline in place: the
\* deadline that close() forgets is the only way to lose it.
THEOREM AcceptanceKeptUnlessStaleBreach ==
    Spec => [][~StaleBreach =>
                 \A e \in Rows :
                   esc[e].status = "ACKNOWLEDGED" /\ esc'[e].status = "ACTIVE"
                     => esc[e].window = "lapsed" \/ esc'[e].pos = esc[e].pos + 1]_vars
<1>1. Init => SingleOpen
  <2> SUFFICES ASSUME Init PROVE OpenRows = {}
    BY DEF SingleOpen
  <2> QED BY UnusedRowInv DEF Init, OpenRows
<1>2. IInv /\ SingleOpen /\ [Next]_vars => SingleOpen'
  BY SingleOpenStep
<1> DEFINE Kept == ~StaleBreach =>
                     \A e \in Rows :
                       esc[e].status = "ACKNOWLEDGED" /\ esc'[e].status = "ACTIVE"
                         => esc[e].window = "lapsed" \/ esc'[e].pos = esc[e].pos + 1
<1>3. IInv /\ SingleOpen /\ [Next]_vars => [Kept]_vars
  <2> SUFFICES ASSUME IInv, SingleOpen, Next PROVE Kept
    OBVIOUS
  <2>1. CASE RowsMay
    BY <2>1 DEF RowsMay, MayBecome
  <2>2. ASSUME NEW e \in Rows, NEW c \in Chains, IsFree(e), Create(e, c) PROVE Kept
    <3>1. esc[e].status = "UNUSED" /\ \A d \in Rows : d # e => esc'[d] = esc[d]
      BY <2>2 DEF IsFree, Create, IInv, RowsOK
    <3> QED BY <3>1
  <2> QED BY <2>1, <2>2, StepsMay
<1> HIDE DEF Kept
<1>4. Spec => [][Kept]_vars
  BY <1>1, <1>2, <1>3, Invariance, PTL DEF Spec
<1> QED BY <1>4 DEF Kept
=============================================================================
