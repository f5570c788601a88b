------------------------ MODULE EscalationSessionsProofs ------------------------
(***************************************************************************)
(* What no interleaving of any number of sessions can break: the shape of  *)
(* the rows, the unique open escalation, and the handling row that goes    *)
(* with every stage.                                                       *)
(*                                                                         *)
(* The argument is by row: whatever a session had seen, the row it writes  *)
(* is a well-shaped row with a handling row exactly if it has a stage      *)
(* (RowKept), and an INSERT or UPDATE that would open a second row is      *)
(* rolled back by Store.                                                   *)
(*                                                                         *)
(* And that sessions served one at a time implement EscalationLadder.      *)
(***************************************************************************)
EXTENDS MCSessions, EscalationLadderProofs, FiniteSetTheorems

RowKept(r) == r \in RowType /\ (r.stage > 0 <=> r.handling # "none")

SInv ==
    /\ SessionsTypeOK
    /\ \A e \in Rows : RowKept(esc[e])
    /\ OneOpenEscalation

---------------------------------------------------------------------------
(* Rows, from what a session had seen                                      *)

LEMMA SeenAccepted ==
    ASSUME NEW r, RowKept(r), NEW s \in LoadedType
    PROVE  RowKept(Accepted(r, s))
<1>1. Reloaded(r, s).stage \in 0 .. MaxStage
  BY DEF Reloaded, RowKept, RowType, LoadedType
<1>2. NextStage(Reloaded(r, s).stage) \in 0 .. MaxStage /\ NextStage(Reloaded(r, s).stage) > 0
  BY <1>1, LadderAssumption DEF NextStage
<1> DEFINE a == Acknowledged(r, s)
           n == NextStage(Reloaded(r, s).stage)
<1>3. a \in RowType /\ a.stage = r.stage /\ a.handling = r.handling
  BY DEF Acknowledged, RowKept, RowType, OpenStatuses
<1>4. CASE ~StartsStage(r, s)
  <2>1. Accepted(r, s) = a
    BY <1>4 DEF Accepted
  <2> QED BY <1>3, <2>1 DEF RowKept
<1>5. CASE StartsStage(r, s)
  <2> DEFINE h == IF HandlingOpen(r) THEN r.handling ELSE "running"
  <2>1. Accepted(r, s) = [a EXCEPT !.stage = n, !.window = "running", !.handling = h]
    BY <1>3, <1>5 DEF Accepted, RowType
  <2>2. h \in {"none", "running", "lapsed", "breached", "completed"} /\ h # "none"
    BY DEF HandlingOpen, RowKept, RowType
  <2> HIDE DEF a, n, h
  <2>3. n \in 0 .. MaxStage /\ n > 0
    BY <1>2 DEF n
  <2> QED BY <1>3, <2>1, <2>2, <2>3 DEF RowKept, RowType
<1> QED BY <1>4, <1>5

LEMMA SeenCleared ==
    ASSUME NEW r, RowKept(r), NEW s \in LoadedType
    PROVE  RowKept(Cleared(r, s))
BY DEF Cleared, RowKept, RowType

LEMMA SeenMoved ==
    ASSUME NEW r, RowKept(r), NEW s \in LoadedType,
           NEW p \in Positions, NEW o \in Owners
    PROVE  RowKept(Moved(Cleared(r, s), p, o))
<1>1. RowKept(Cleared(r, s))
  BY SeenCleared
<1> DEFINE c == Cleared(r, s)
<1> HIDE DEF c
<1>2. /\ c \in RowType /\ Moved(c, p, o).handling = c.handling
      /\ Moved(c, p, o).stage = c.stage /\ Moved(c, p, o).status = "ACTIVE"
  BY <1>1 DEF c, Moved, RowKept, RowType
<1>3. Moved(c, p, o) \in RowType
  BY <1>2 DEF Moved, RowType, OpenStatuses
<1> QED BY <1>1, <1>2, <1>3 DEF c, RowKept

LEMMA SeenClimbed ==
    ASSUME NEW r, RowKept(r), NEW s \in LoadedType
    PROVE  RowKept(Climbed(r, s))
<1> DEFINE p == IF IsTerminal(s) THEN s.pos ELSE s.pos + 1
<1>1. s.chain \in Chains \cup {<<>>} /\ s.pos \in Positions
  BY DEF LoadedType
<1>2. Len(s.chain) \in Positions
  BY <1>1, ChainFacts
<1>3. p \in Positions
  <2>1. \A n, q \in Positions : ~(q >= n) => q + 1 \in Positions
    BY DEF Positions
  <2> QED BY <1>1, <1>2, <2>1 DEF IsTerminal
<1>4. OwnerAt(s.chain, p) \in Owners
  BY <1>1, <1>3, ChainFacts
<1> QED BY <1>3, <1>4, SeenMoved DEF Climbed

LEMMA SeenRechained ==
    ASSUME NEW r, RowKept(r), NEW s \in LoadedType, NEW c \in Chains
    PROVE  RowKept(Rechained(r, s, c))
<1>1. 0 \in Positions /\ OwnerAt(c, 0) \in Owners
  BY ChainFacts DEF Positions
<1>2. RowKept(Moved(Cleared(r, s), 0, OwnerAt(c, 0)))
  BY <1>1, SeenMoved
<1> QED BY <1>2 DEF Rechained, RowKept, RowType

---------------------------------------------------------------------------
(* The table                                                               *)

\* A step that opens no row leaves at most one open.
LEMMA NoneOpened ==
    ASSUME OneOpenEscalation, OpenRows' \subseteq OpenRows
    PROVE  OneOpenEscalation'
<1>1. IsFiniteSet(Rows)
  BY FS_Interval, LadderAssumption DEF Rows
<1>2. IsFiniteSet(OpenRows)
  BY <1>1, FS_Subset DEF OpenRows
<1>3. Cardinality(OpenRows') <= Cardinality(OpenRows)
  BY <1>2, FS_Subset
<1>4. Cardinality(OpenRows) \in Nat /\ Cardinality(OpenRows') \in Nat
  BY <1>2, FS_Subset, FS_CardinalityType
<1> QED BY <1>3, <1>4 DEF OneOpenEscalation

\* The unique index does the rest, whatever row is written.
LEMMA StoreInv ==
    ASSUME TypeOK, \A e \in Rows : RowKept(esc[e]), OneOpenEscalation,
           NEW d \in Rows, NEW x, RowKept(x), Store(d, x)
    PROVE  /\ esc' \in [Rows -> RowType]
           /\ \A e \in Rows : RowKept(esc'[e])
           /\ OneOpenEscalation'
<1> DEFINE rows == [esc EXCEPT ![d] = x]
<1>1. CASE IndexAllows(rows) /\ esc' = rows
  <2>1. OpenRows' = {e \in Rows : IsOpen(rows[e])}
    BY <1>1 DEF OpenRows, IsOpen
  <2>2. OneOpenEscalation'
    BY <1>1, <2>1 DEF OneOpenEscalation, IndexAllows
  <2> QED BY <1>1, <2>2 DEF TypeOK, RowKept
<1>2. CASE esc' = esc
  BY <1>2 DEF TypeOK, OneOpenEscalation, OpenRows
<1> QED BY <1>1, <1>2 DEF Store

\* Rewriting an open row, or a row without touching its status, opens none.
LEMMA SameStatusWritten ==
    ASSUME TypeOK, \A e \in Rows : RowKept(esc[e]), OneOpenEscalation,
           NEW d \in Rows, NEW x, RowKept(x), IsOpen(x) => IsOpen(esc[d]),
           esc' = [esc EXCEPT ![d] = x]
    PROVE  /\ esc' \in [Rows -> RowType]
           /\ \A e \in Rows : RowKept(esc'[e])
           /\ OneOpenEscalation'
<1>1. \A e \in Rows : esc'[e] = IF e = d THEN x ELSE esc[e]
  BY DEF TypeOK
<1>2. OpenRows' = {e \in Rows : IsOpen(esc'[e])}
  BY DEF OpenRows, IsOpen
<1>3. OneOpenEscalation'
  BY <1>1, <1>2, NoneOpened DEF OpenRows
<1> QED BY <1>1, <1>3 DEF TypeOK, RowKept

\* An acceptance that sees the row it writes.
LEMMA AcceptKept ==
    ASSUME TypeOK, \A e \in Rows : RowKept(esc[e]), OneOpenEscalation,
           NEW d \in OpenRows, Accept(d, esc[d])
    PROVE  /\ esc' \in [Rows -> RowType] /\ clock' \in ClockType
           /\ \A e \in Rows : RowKept(esc'[e])
           /\ OneOpenEscalation'
<1>1. d \in Rows /\ IsOpen(esc[d]) /\ RowKept(esc[d])
  BY DEF OpenRows
<1> DEFINE s == Loaded(esc[d])
<1>2. s \in LoadedType
  BY <1>1 DEF Loaded, LoadedType, RowKept, RowType, IsOpen
<1>3. s.status = esc[d].status /\ s.window = esc[d].window /\ s.stage = esc[d].stage
  BY DEF Loaded
<1>4. RowKept(Accepted(esc[d], s))
  BY <1>1, <1>2, SeenAccepted
<1>5. Accepted(esc[d], esc[d]) = Accepted(esc[d], s)
  BY <1>3 DEF Accepted, StartsStage, Reloaded, Acknowledged
<1>6. esc' = [esc EXCEPT ![d] = Accepted(esc[d], esc[d])]
  BY DEF Accept
<1>7. clock' \in ClockType
  <2>1. clock \in ClockType /\ (clock' = clock \/ clock' = Restarted(clock))
    BY DEF Accept, TypeOK, ClockType
  <2> QED BY <2>1, ClockFacts
<1>8. RowKept(Accepted(esc[d], esc[d]))
  BY <1>4, <1>5
<1> QED BY <1>1, <1>6, <1>7, <1>8, SameStatusWritten

---------------------------------------------------------------------------
(* Steps                                                                   *)

\* Loading changes only what the session holds.
LEMMA BeginInv ==
    ASSUME SInv, NEW s \in Sessions, Begin(s) PROVE SInv'
<1>1. \A e \in Rows : IsOpen(esc[e]) => Loaded(esc[e]) \in LoadedType
  BY DEF SInv, RowKept, RowType, Loaded, LoadedType, IsOpen
<1>2. \A e \in Rows : esc[e].status = "ACTIVE" => IsOpen(esc[e])
  BY DEF IsOpen, OpenStatuses
<1>3. ticket.status \in Statuses
  BY DEF SInv, SessionsTypeOK, TypeOK
<1>4. PICK r \in InFlight : Load(s, r)
  <2>1. CASE BeginTransfer(s)
    BY <1>3, <2>1 DEF BeginTransfer, InFlight
  <2>2. CASE BeginPriority(s) \/ BeginEscalateNew(s) \/ BeginAuto(s) \/ BeginPause(s) \/ BeginResume(s)
    BY <2>2 DEF BeginPriority, BeginEscalateNew, BeginAuto, BeginPause, BeginResume, InFlight
  <2>3. ASSUME NEW new \in Statuses, BeginStatus(s, new) PROVE \E r \in InFlight : Load(s, r)
    BY <1>3, <2>3 DEF BeginStatus, InFlight
  <2>4. ASSUME NEW e \in Rows, BeginConfirm(s, e) PROVE \E r \in InFlight : Load(s, r)
    <3>1. IsOpen(esc[e])
      BY <2>4 DEF BeginConfirm, OpenRows
    <3> QED BY <1>1, <2>4, <3>1 DEF BeginConfirm, InFlight
  <2>5. ASSUME NEW e \in Rows, BeginEscalateAgain(s, e) PROVE \E r \in InFlight : Load(s, r)
    <3>1. IsOpen(esc[e])
      BY <2>5 DEF BeginEscalateAgain, OpenRows
    <3> QED BY <1>1, <2>5, <3>1 DEF BeginEscalateAgain, InFlight
  <2>6. ASSUME NEW e \in Rows, BeginOverdue(s, e) PROVE \E r \in InFlight : Load(s, r)
    BY <1>1, <1>2, <2>6 DEF BeginOverdue, InFlight
  <2>7. ASSUME NEW d \in Rows, NEW e \in Rows, BeginBreached(s, d, e)
        PROVE  \E r \in InFlight : Load(s, r)
    <3>1. IsOpen(esc[e])
      BY <2>7 DEF BeginBreached, OpenRows
    <3> QED BY <1>1, <2>7, <3>1 DEF BeginBreached, InFlight
  <2> QED BY <2>1, <2>2, <2>3, <2>4, <2>5, <2>6, <2>7 DEF Begin
<1>5. sess' = [sess EXCEPT ![s] = r] /\ ticket' = ticket /\ clock' = clock /\ esc' = esc
  BY <1>4 DEF Load, vars
<1> QED
  BY <1>5 DEF SInv, SessionsTypeOK, TypeOK, OneOpenEscalation, OpenRows

\* A commit writes at most one row, and that through Store, except for the
\* acceptance of a transfer, which sees the row it writes.
LEMMA CommitInv ==
    ASSUME SInv, NEW s \in Sessions, Commit(s) PROVE SInv'
<1> DEFINE t == sess[s]
<1> USE DEF SInv, SessionsTypeOK
<1>1. t \in InFlight
  BY DEF Commit, Idle
<1>2. sess' \in [Sessions -> InFlight \cup {Idle}]
  BY DEF Commit
<1>3. SUFFICES /\ ticket' \in [status : Statuses, assigned : BOOLEAN] /\ clock' \in ClockType
               /\ esc' \in [Rows -> RowType]
               /\ \A e \in Rows : RowKept(esc'[e])
               /\ OneOpenEscalation'
  BY <1>2 DEF TypeOK, ClockType
<1>4. TypeOK /\ clock \in ClockType
  BY DEF TypeOK, ClockType
<1>5. \A p \in PolicyStates : p \in BOOLEAN
  BY LadderAssumption
<1>6. ASSUME UNCHANGED esc
      PROVE  esc' \in [Rows -> RowType] /\ (\A e \in Rows : RowKept(esc'[e])) /\ OneOpenEscalation'
  BY <1>6 DEF TypeOK, OneOpenEscalation, OpenRows
<1>7. ASSUME NEW d \in Rows, NEW x, RowKept(x), Store(d, x)
      PROVE  esc' \in [Rows -> RowType] /\ (\A e \in Rows : RowKept(esc'[e])) /\ OneOpenEscalation'
  BY <1>4, <1>7, StoreInv
<1>8. ASSUME NEW c \in Chains, Insert(c)
      PROVE  esc' \in [Rows -> RowType] /\ (\A e \in Rows : RowKept(esc'[e])) /\ OneOpenEscalation'
  <2>1. RowKept(NewRow(c))
    BY NewRowInv DEF RowKept, RowInv
  <2> QED BY <1>6, <1>7, <1>8, <2>1 DEF Insert
<1>9. CASE t.op \in {"confirm", "escalate_again", "overdue", "breached"}
  <2>1. t.row \in Rows /\ t.seen \in LoadedType
    BY <1>1, <1>9 DEF InFlight
  <2>2. RowKept(esc[t.row])
    BY <2>1
  <2>3. CASE t.op = "confirm"
    <3>1. Store(t.row, Accepted(esc[t.row], t.seen)) /\ ticket' = ticket
          /\ (clock' = clock \/ clock' = Restarted(clock))
      BY <2>3 DEF Commit, CommitConfirm
    <3>2. clock' \in ClockType
      BY <1>4, <3>1, ClockFacts
    <3>3. RowKept(Accepted(esc[t.row], t.seen))
      BY <2>1, <2>2, SeenAccepted
    <3> QED BY <1>4, <1>7, <2>1, <3>1, <3>2, <3>3 DEF TypeOK
  <2>4. CASE t.op = "escalate_again"
    <3>1. (Store(t.row, Climbed(esc[t.row], t.seen)) \/ UNCHANGED esc)
          /\ ticket' = ticket /\ clock' = clock
      BY <2>4 DEF Commit, CommitEscalateAgain
    <3>2. RowKept(Climbed(esc[t.row], t.seen))
      BY <2>1, <2>2, SeenClimbed
    <3> QED BY <1>4, <1>6, <1>7, <2>1, <3>1, <3>2 DEF TypeOK
  <2>5. CASE t.op = "overdue"
    <3>1. (Store(t.row, Climbed(esc[t.row], t.seen)) \/ Store(t.row, Cleared(esc[t.row], t.seen)))
          /\ ticket' = ticket /\ clock' = clock
      BY <2>5 DEF Commit, CommitOverdue
    <3>2. RowKept(Climbed(esc[t.row], t.seen)) /\ RowKept(Cleared(esc[t.row], t.seen))
      BY <2>1, <2>2, SeenClimbed, SeenCleared
    <3> QED BY <1>4, <1>7, <2>1, <3>1, <3>2 DEF TypeOK
  <2>6. CASE t.op = "breached"
    <3>1. PICK c \in Chains : CommitBreached(t.row, t.seen, c)
      BY <2>6 DEF Commit
    <3>2. (Store(t.row, Rechained(esc[t.row], t.seen, c)) \/ Store(t.row, Cleared(esc[t.row], t.seen)))
          /\ ticket' = ticket /\ clock' = clock
      BY <3>1 DEF CommitBreached
    <3>3. RowKept(Rechained(esc[t.row], t.seen, c)) /\ RowKept(Cleared(esc[t.row], t.seen))
      BY <2>1, <2>2, SeenRechained, SeenCleared
    <3> QED BY <1>4, <1>7, <2>1, <3>2, <3>3 DEF TypeOK
  <2> QED BY <1>9, <2>3, <2>4, <2>5, <2>6
<1>10. CASE t.op = "transfer"
  <2>1. PICK m \in BOOLEAN : CommitTransfer(t.status, m)
    BY <1>10 DEF Commit
  <2>2. ticket' \in [status : Statuses, assigned : BOOLEAN]
    BY <1>4, <2>1 DEF CommitTransfer, TypeOK, Statuses
  <2>3. CASE m /\ OpenRows # {}
    <3>1. PICK e \in OpenRows : Accept(e, esc[e])
      BY <2>1, <2>3 DEF CommitTransfer, AcceptByAssignment
    <3> QED BY <1>4, <2>2, <3>1, AcceptKept
  <2>4. CASE ~(m /\ OpenRows # {})
    <3>1. UNCHANGED esc /\ clock' = clock
      BY <2>1, <2>4 DEF CommitTransfer, AcceptByAssignment
    <3> QED BY <1>4, <1>6, <2>2, <3>1
  <2> QED BY <2>3, <2>4
<1>11. CASE t.op = "status"
  <2>1. t.status \in Statuses /\ t.new \in Statuses
    BY <1>1, <1>11 DEF InFlight
  <2>2. PICK p \in PolicyStates : CommitStatus(t.status, t.new, p)
    BY <1>11 DEF Commit
  <2>3. ticket' \in [status : Statuses, assigned : BOOLEAN] /\ UNCHANGED esc
    BY <1>4, <2>1, <2>2 DEF CommitStatus, TypeOK
  <2>4. clock' \in ClockType
    <3>1. clock' = ClockAfterStatus(clock, t.status, t.new, p) /\ p \in BOOLEAN
      BY <1>5, <2>2 DEF CommitStatus
    <3> QED
      BY <1>4, <3>1 DEF ClockAfterStatus, Paused, Resumed, Completed, Reopened, ClockType, ClockStatuses
  <2> QED BY <1>6, <2>3, <2>4
<1>12. CASE t.op = "priority"
  <2>1. PICK p \in PolicyStates, x \in BOOLEAN : CommitPriority(p, x)
    BY <1>12 DEF Commit
  <2>2. clock' \in ClockType
    BY <1>4, <1>5, <2>1, ClockFacts DEF CommitPriority
  <2> QED BY <1>4, <1>6, <2>1, <2>2 DEF CommitPriority, TypeOK
<1>13. CASE t.op \in {"pause", "resume"}
  <2>1. clock' = [clock EXCEPT !.status = "PAUSED"] \/ clock' = [clock EXCEPT !.status = "RUNNING"]
    BY <1>13 DEF Commit, CommitClock
  <2>2. UNCHANGED <<ticket, esc>>
    BY <1>13 DEF Commit, CommitClock
  <2>3. clock' \in ClockType
    BY <1>4, <2>1 DEF ClockType, ClockStatuses
  <2> QED BY <1>4, <1>6, <2>2, <2>3 DEF TypeOK
<1>14. CASE t.op \in {"escalate_new", "auto"}
  <2>1. PICK c \in Chains : (Insert(c) \/ UNCHANGED esc) /\ UNCHANGED <<ticket, clock>>
    BY <1>14 DEF Commit, CommitEscalateNew, CommitAuto
  <2> QED BY <1>4, <1>6, <1>8, <2>1 DEF TypeOK
<1> QED
  BY <1>1, <1>9, <1>10, <1>11, <1>12, <1>13, <1>14 DEF InFlight

\* A step that only marks a row leaves its status, stage and handling as
\* consistent as they were.
LEMMA MarkInv ==
    ASSUME SInv, sess' = sess, NEW d \in Rows, NEW x, RowKept(x), x.status = esc[d].status,
           WriteRow(d, x)
    PROVE  SInv'
<1>1. esc' = [esc EXCEPT ![d] = x] /\ ticket' = ticket /\ clock' = clock
  BY DEF WriteRow
<1>2. IsOpen(x) => IsOpen(esc[d])
  BY DEF IsOpen
<1>3. esc' \in [Rows -> RowType] /\ (\A e \in Rows : RowKept(esc'[e])) /\ OneOpenEscalation'
  BY <1>1, <1>2, SameStatusWritten DEF SInv, SessionsTypeOK
<1> QED BY <1>1, <1>3 DEF SInv, SessionsTypeOK, TypeOK

LEMMA LockedInv ==
    ASSUME SInv, Locked, sess' = sess PROVE SInv'
<1>1. ASSUME NEW m \in BOOLEAN, Claim(m) PROVE SInv'
  <2>1. ticket' \in [status : Statuses, assigned : BOOLEAN] /\ AcceptByAssignment(m)
    BY <1>1 DEF Claim, SInv, SessionsTypeOK, TypeOK, Statuses
  <2>2. CASE m /\ OpenRows # {}
    <3>1. PICK e \in OpenRows : Accept(e, esc[e])
      BY <2>1, <2>2 DEF AcceptByAssignment
    <3>2. /\ esc' \in [Rows -> RowType] /\ clock' \in ClockType
          /\ (\A e1 \in Rows : RowKept(esc'[e1])) /\ OneOpenEscalation'
      BY <3>1, AcceptKept DEF SInv, SessionsTypeOK
    <3> QED BY <2>1, <3>2 DEF SInv, SessionsTypeOK, TypeOK, ClockType
  <2>3. CASE ~(m /\ OpenRows # {})
    <3>1. UNCHANGED <<clock, esc>>
      BY <2>1, <2>3 DEF AcceptByAssignment
    <3> QED BY <2>1, <3>1 DEF SInv, SessionsTypeOK, TypeOK, OneOpenEscalation, OpenRows
  <2> QED BY <2>2, <2>3
<1>2. ASSUME CloseTicket PROVE SInv'
  <2>1. clock \in ClockType /\ clock' = Completed(clock)
        /\ ticket' = [ticket EXCEPT !.status = "CLOSED"]
    BY <1>2 DEF CloseTicket, SInv, SessionsTypeOK, TypeOK, ClockType
  <2>2. clock' \in ClockType /\ ticket' \in [status : Statuses, assigned : BOOLEAN]
    BY <2>1, ClockFacts DEF SInv, SessionsTypeOK, TypeOK, Statuses
  <2>3. \A e \in Rows : esc'[e] = esc[e] \/ (IsOpen(esc[e]) /\ esc'[e] = Closed(esc[e]))
    BY <1>2 DEF CloseTicket
  <2>4. \A e \in Rows : RowKept(Closed(esc[e]))
    BY DEF SInv, RowKept, RowType, Closed, HandlingOpen
  <2>5. \A e \in Rows : RowKept(esc'[e])
    BY <2>3, <2>4 DEF SInv
  <2>6. esc' \in [Rows -> RowType]
    <3>1. esc' = [e \in Rows |-> esc'[e]]
      BY <1>2 DEF CloseTicket, SInv, SessionsTypeOK, TypeOK
    <3> QED BY <2>5, <3>1 DEF RowKept
  <2>7. OneOpenEscalation'
    <3>1. OpenRows' = {e \in Rows : IsOpen(esc'[e])}
      BY DEF OpenRows, IsOpen
    <3> QED BY <2>3, <3>1, NoneOpened DEF OpenRows, SInv
  <2> QED BY <2>2, <2>5, <2>6, <2>7 DEF SInv, SessionsTypeOK, TypeOK, ClockType
<1>3. ASSUME NEW p \in PolicyStates, ReopenTicket(p) PROVE SInv'
  <2>1. p \in BOOLEAN /\ clock \in ClockType /\ clock' = Reopened(clock, p)
    BY <1>3, LadderAssumption DEF ReopenTicket, SInv, SessionsTypeOK, TypeOK, ClockType
  <2>2. clock' \in ClockType
    BY <2>1, ClockFacts
  <2>3. ticket' \in [status : Statuses, assigned : BOOLEAN] /\ esc' = esc
    BY <1>3 DEF ReopenTicket, SInv, SessionsTypeOK, TypeOK, Statuses
  <2> QED
    BY <2>2, <2>3 DEF SInv, SessionsTypeOK, TypeOK, ClockType, OneOpenEscalation, OpenRows
<1>4. ASSUME NEW e \in Rows, MarkHandlingBreached(e) PROVE SInv'
  <2> DEFINE x == [esc[e] EXCEPT !.handling = "breached"]
  <2>1. RowKept(x) /\ x.status = esc[e].status /\ WriteRow(e, x)
    BY <1>4 DEF MarkHandlingBreached, SInv, RowKept, RowType
  <2> QED BY <2>1, MarkInv
<1> QED BY <1>1, <1>2, <1>3, <1>4 DEF Locked

LEMMA TimePassesInv ==
    ASSUME SInv, Time, sess' = sess PROVE SInv'
<1>1. CASE SlaLapses
  BY <1>1 DEF SlaLapses, SInv, SessionsTypeOK, TypeOK, OneOpenEscalation, OpenRows
<1>2. ASSUME NEW e \in Rows, AckWindowLapses(e) PROVE SInv'
  <2> DEFINE x == [esc[e] EXCEPT !.ackLapsed = TRUE]
  <2>1. RowKept(x) /\ x.status = esc[e].status /\ WriteRow(e, x)
    BY <1>2 DEF AckWindowLapses, SInv, RowKept, RowType
  <2> QED BY <2>1, MarkInv
<1>3. ASSUME NEW e \in Rows, StageLapses(e) PROVE SInv'
  <2> DEFINE x == [esc[e] EXCEPT !.window = "lapsed"]
  <2>1. RowKept(x) /\ x.status = esc[e].status /\ WriteRow(e, x)
    BY <1>3 DEF StageLapses, SInv, RowKept, RowType
  <2> QED BY <2>1, MarkInv
<1>4. ASSUME NEW e \in Rows, HandlingLapses(e) PROVE SInv'
  <2> DEFINE x == [esc[e] EXCEPT !.handling = "lapsed"]
  <2>1. RowKept(x) /\ x.status = esc[e].status /\ WriteRow(e, x)
    BY <1>4 DEF HandlingLapses, SInv, RowKept, RowType
  <2> QED BY <2>1, MarkInv
<1> QED BY <1>1, <1>2, <1>3, <1>4 DEF Time

---------------------------------------------------------------------------
(* Theorems                                                                *)

\* The inductive invariant holds under every interleaving.
THEOREM SessionsInvariance == SSpec => []SInv
<1>1. SInit => SInv
  <2> SUFFICES ASSUME SInit PROVE SInv
    OBVIOUS
  <2>1. TypeOK /\ \A e \in Rows : RowKept(esc[e])
    BY InitInv DEF SInit, IInv, RowsOK, RowInv, RowKept, TicketAndClockOK, TypeOK, ClockType
  <2>2. OpenRows = {}
    BY UnusedRowInv DEF SInit, Init, OpenRows
  <2>3. OneOpenEscalation
    BY <2>2, FS_EmptySet DEF OneOpenEscalation
  <2> QED BY <2>1, <2>3 DEF SInit, SInv, SessionsTypeOK
<1>2. SInv /\ [SNext]_svars => SInv'
  <2> SUFFICES ASSUME SInv, [SNext]_svars PROVE SInv'
    OBVIOUS
  <2>1. CASE SNext
    BY <2>1, BeginInv, CommitInv, LockedInv, TimePassesInv DEF SNext
  <2>2. CASE UNCHANGED svars
    BY <2>2 DEF svars, SInv, SessionsTypeOK, TypeOK, OneOpenEscalation, OpenRows
  <2> QED BY <2>1, <2>2
<1> QED BY <1>1, <1>2, PTL DEF SSpec

\* Rows keep their shape, and a session holds what its operation loads,
\* however many sessions overlap.
THEOREM SessionsTypeCorrect == SSpec => []SessionsTypeOK
<1>1. SInv => SessionsTypeOK
  BY DEF SInv
<1> QED BY <1>1, SessionsInvariance, PTL

\* No interleaving of requests and sweeps opens two escalations of a ticket.
THEOREM OneOpenEscalationHolds == SSpec => []OneOpenEscalation
<1>1. SInv => OneOpenEscalation
  BY DEF SInv
<1> QED BY <1>1, SessionsInvariance, PTL

\* Stage and handling row stay together even when an acceptance is computed
\* from a row that has changed since it was loaded.
THEOREM HandlingRowMeansAcceptedSurvives == SSpec => []HandlingRowMeansAccepted
<1>1. SInv => HandlingRowMeansAccepted
  BY DEF SInv, RowKept, HandlingRowMeansAccepted
<1> QED BY <1>1, SessionsInvariance, PTL
---------------------------------------------------------------------------
(* One session at a time is EscalationLadder: while it is served, time may  *)
(* have let a deadline lapse, but no guard it checked has become false, and *)
(* what it writes is what it would write had it loaded its row only now.    *)

\* Row e still has what the session loaded; its stage may have lapsed since.
Fresh(e, seen) ==
    /\ esc[e].status = seen.status /\ esc[e].chain = seen.chain
    /\ esc[e].pos = seen.pos /\ esc[e].owner = seen.owner /\ esc[e].stage = seen.stage
    /\ esc[e].window = "none" <=> seen.window = "none"

FreshAndOpen(t) == t.row \in OpenRows /\ Fresh(t.row, t.seen)

\* What a session checked when it loaded holds when it writes.
StillGuarded(t) ==
    \/ t.op = "transfer" /\ NotClosed /\ t.status = ticket.status
    \/ t.op = "status" /\ NotClosed /\ ~Frozen /\ t.new # "CLOSED" /\ t.status = ticket.status
    \/ t.op = "priority" /\ NotClosed /\ ~Frozen
    \/ t.op = "pause" /\ clock.status = "RUNNING"
    \/ t.op = "resume" /\ clock.status = "PAUSED"
    \/ t.op = "escalate_new" /\ NotClosed /\ OpenRows = {} /\ ticket.assigned
    \/ t.op = "auto" /\ clock.status = "RUNNING" /\ clock.crossed /\ OpenRows = {}
    \/ t.op = "confirm" /\ FreshAndOpen(t)
    \/ /\ t.op = "escalate_again" /\ FreshAndOpen(t) /\ NotClosed
       /\ ~IsTerminal(esc[t.row])
       /\ esc[t.row].window # "none" => ticket.assigned
    \/ /\ t.op = "overdue" /\ FreshAndOpen(t)
       /\ esc[t.row].status = "ACTIVE" /\ esc[t.row].ackLapsed
    \/ /\ t.op = "breached" /\ FreshAndOpen(t)
       /\ \E d \in Rows : esc[d].window = "lapsed"

ServedAlone ==
    \A s \in Sessions : ~Free(s) =>
        /\ \A z \in Sessions : Free(z) \/ z = s
        /\ StillGuarded(sess[s])

\* A fresh row is rewritten as the ladder rewrites it.
LEMMA FreshWrites ==
    ASSUME NEW e \in Rows, NEW s, Fresh(e, s), esc[e] \in RowType
    PROVE  /\ SameStep(esc[e], s)
           /\ StartsStage(esc[e], s) <=> StartsStage(esc[e], esc[e])
           /\ Accepted(esc[e], s) = Accepted(esc[e], esc[e])
           /\ Climbed(esc[e], s) = Climbed(esc[e], esc[e])
           /\ \A c : Rechained(esc[e], s, c) = Rechained(esc[e], esc[e], c)
<1> DEFINE r == esc[e]
<1>1. SameStep(r, s)
  BY DEF Fresh, SameStep, Level
<1>2. StartsStage(r, s) <=> StartsStage(r, r)
  BY DEF Fresh, StartsStage, Reloaded
<1>3. Acknowledged(r, s) = Acknowledged(r, r) /\ Reloaded(r, s).stage = Reloaded(r, r).stage
  BY DEF Fresh, Acknowledged, Reloaded
<1>4. Accepted(r, s) = Accepted(r, r)
  BY <1>2, <1>3 DEF Accepted
<1>5. Cleared(r, s) = Cleared(r, r)
  BY DEF Fresh, Cleared
<1>6. (IsTerminal(s) <=> IsTerminal(r)) /\ \A p : OwnerAt(s.chain, p) = OwnerAt(r.chain, p)
  BY DEF Fresh, IsTerminal
<1>7. Climbed(r, s) = Climbed(r, r)
  BY <1>5, <1>6 DEF Fresh, Climbed
<1> QED BY <1>1, <1>2, <1>4, <1>5, <1>7 DEF Rechained

\* An acceptance the index lets through is the ladder's, restart of the clock
\* included: a stage that starts changes the row.
LEMMA ConfirmIsAccept ==
    ASSUME TypeOK, NEW e \in OpenRows, NEW s, Fresh(e, s), CommitConfirm(e, s)
    PROVE  Next \/ UNCHANGED vars
<1>1. e \in Rows /\ esc[e] \in RowType
  BY DEF OpenRows, TypeOK
<1> DEFINE x == Accepted(esc[e], esc[e])
<1>2. Accepted(esc[e], s) = x /\ (StartsStage(esc[e], s) <=> StartsStage(esc[e], esc[e]))
  BY <1>1, FreshWrites
<1>3. esc' = [esc EXCEPT ![e] = x] \/ esc' = esc
  BY <1>2 DEF CommitConfirm, Store
<1>4. ASSUME esc' = esc PROVE UNCHANGED vars
  BY <1>4 DEF CommitConfirm, vars
<1>5. ASSUME esc' = [esc EXCEPT ![e] = x] PROVE ConfirmAssignment(e)
  <2>1. ASSUME StartsStage(esc[e], esc[e]) PROVE esc' # esc
    <3>1. esc[e].window = "none"
      BY <2>1 DEF StartsStage, Reloaded
    <3>2. Acknowledged(esc[e], esc[e]) \in RowType
      BY <1>1 DEF Acknowledged, RowType, OpenStatuses
    <3>3. x.window = "running"
      BY <2>1, <3>2 DEF Accepted, RowType
    <3> HIDE DEF x
    <3>4. esc'[e] = x
      BY <1>1, <1>5 DEF TypeOK
    <3> QED BY <3>1, <3>3, <3>4
  <2>2. clock' = IF StartsStage(esc[e], esc[e]) /\ clock.status # "NONE"
                 THEN Restarted(clock) ELSE clock
    BY <1>2, <2>1 DEF CommitConfirm
  <2>3. Accept(e, esc[e])
    BY <1>5, <2>2 DEF Accept
  <2> QED BY <2>3 DEF ConfirmAssignment, CommitConfirm
<1> QED BY <1>1, <1>3, <1>4, <1>5 DEF Next, Agents

\* An INSERT into the first free row, or none.
LEMMA InsertIsCreate ==
    ASSUME NEW c, Insert(c), UNCHANGED <<ticket, clock>>
    PROVE  UNCHANGED vars \/ \E e \in Rows : IsFree(e) /\ Create(e, c)
BY DEF Insert, Store, Create, vars

\* A commit is its handler, or a transaction the index rolled back.
LEMMA CommitIsHandler ==
    ASSUME SessionsTypeOK, NEW s \in Sessions, StillGuarded(sess[s]), Commit(s)
    PROVE  Next \/ UNCHANGED vars
<1> DEFINE t == sess[s]
<1>1. t \in InFlight /\ TypeOK
  BY DEF Commit, SessionsTypeOK, Idle
<1>2. ASSUME FreshAndOpen(t)
      PROVE  /\ t.row \in Rows /\ t.row \in OpenRows
             /\ SameStep(esc[t.row], t.seen)
             /\ Climbed(esc[t.row], t.seen) = Climbed(esc[t.row], esc[t.row])
             /\ \A c : Rechained(esc[t.row], t.seen, c) = Rechained(esc[t.row], esc[t.row], c)
  <2>1. t.row \in Rows /\ t.row \in OpenRows /\ Fresh(t.row, t.seen)
    BY <1>2 DEF FreshAndOpen, OpenRows
  <2>2. esc[t.row] \in RowType
    BY <1>1, <2>1 DEF TypeOK
  <2> QED BY <2>1, <2>2, FreshWrites
<1>3. CASE t.op = "transfer"
  <2>1. PICK m \in BOOLEAN : CommitTransfer(t.status, m)
    BY <1>3 DEF Commit
  <2>2. NotClosed /\ t.status = ticket.status
    BY <1>3 DEF StillGuarded
  <2>3. Transfer(m)
    BY <1>1, <2>1, <2>2 DEF CommitTransfer, Transfer, StatusAfterAssignment, TypeOK
  <2> QED BY <2>3 DEF Next, Agents
<1>4. CASE t.op = "status"
  <2>1. PICK p \in PolicyStates : CommitStatus(t.status, t.new, p)
    BY <1>4 DEF Commit
  <2>2. NotClosed /\ ~Frozen /\ t.new # "CLOSED" /\ t.status = ticket.status
    BY <1>4 DEF StillGuarded
  <2>3. ChangeStatus(t.new, p)
    BY <1>1, <2>1, <2>2 DEF CommitStatus, ChangeStatus, TypeOK
  <2>4. t.new \in Statuses
    BY <1>1, <1>4 DEF InFlight
  <2> QED BY <2>3, <2>4 DEF Next, Agents
<1>5. CASE t.op = "priority"
  <2>1. PICK p \in PolicyStates, x \in BOOLEAN : CommitPriority(p, x)
    BY <1>5 DEF Commit
  <2>2. ChangePriority(p, x)
    BY <1>5, <2>1 DEF CommitPriority, ChangePriority, StillGuarded
  <2> QED BY <2>2 DEF Next, Agents
<1>6. CASE t.op = "pause"
  <2>1. ManualPause
    BY <1>6 DEF Commit, CommitClock, StillGuarded, ManualPause, Paused
  <2> QED BY <2>1 DEF Next, Agents
<1>7. CASE t.op = "resume"
  <2>1. Resume
    BY <1>7 DEF Commit, CommitClock, StillGuarded, Resume, Resumed
  <2> QED BY <2>1 DEF Next, Agents
<1>8. CASE t.op = "escalate_new"
  <2>1. PICK c \in Chains : CommitEscalateNew(c)
    BY <1>8 DEF Commit
  <2>2. NotClosed /\ OpenRows = {} /\ ticket.assigned
    BY <1>8 DEF StillGuarded
  <2>3. UNCHANGED vars \/ \E e \in Rows : IsFree(e) /\ Create(e, c)
    BY <2>1, InsertIsCreate DEF CommitEscalateNew
  <2>4. ASSUME NEW e \in Rows, IsFree(e), Create(e, c) PROVE ManualEscalateNew(e, c)
    BY <2>2, <2>4 DEF ManualEscalateNew
  <2> QED BY <2>3, <2>4 DEF Next, Agents
<1>9. CASE t.op = "auto"
  <2>1. PICK c \in Chains : CommitAuto(c)
    BY <1>9 DEF Commit
  <2>2. clock.status = "RUNNING" /\ clock.crossed /\ OpenRows = {}
    BY <1>9 DEF StillGuarded
  <2>3. UNCHANGED vars \/ \E e \in Rows : IsFree(e) /\ Create(e, c)
    BY <2>1, <2>2, InsertIsCreate DEF CommitAuto
  <2>4. ASSUME NEW e \in Rows, IsFree(e), Create(e, c) PROVE AutoEscalate(e, c)
    BY <2>2, <2>4 DEF AutoEscalate
  <2> QED BY <2>3, <2>4 DEF Next, Sweep
<1>10. CASE t.op = "confirm"
  <2>1. CommitConfirm(t.row, t.seen)
    BY <1>10 DEF Commit
  <2>2. t.row \in OpenRows /\ Fresh(t.row, t.seen)
    BY <1>10 DEF StillGuarded, FreshAndOpen
  <2> QED BY <1>1, <2>1, <2>2, ConfirmIsAccept
<1>11. CASE t.op = "escalate_again"
  <2>1. CommitEscalateAgain(t.row, t.seen)
    BY <1>11 DEF Commit
  <2>2. /\ FreshAndOpen(t) /\ NotClosed /\ ~IsTerminal(esc[t.row])
        /\ esc[t.row].window # "none" => ticket.assigned
    BY <1>11 DEF StillGuarded
  <2>3. WriteRow(t.row, Climbed(esc[t.row], esc[t.row])) \/ UNCHANGED vars
    BY <1>2, <2>1, <2>2 DEF CommitEscalateAgain, Store, WriteRow, vars
  <2>4. ManualEscalateAgain(t.row) \/ UNCHANGED vars
    BY <1>2, <2>2, <2>3 DEF ManualEscalateAgain
  <2> QED BY <1>2, <2>2, <2>4 DEF Next, Agents
<1>12. CASE t.op = "overdue"
  <2>1. CommitOverdue(t.row, t.seen)
    BY <1>12 DEF Commit
  <2>2. FreshAndOpen(t) /\ esc[t.row].status = "ACTIVE" /\ esc[t.row].ackLapsed
    BY <1>12 DEF StillGuarded
  <2>3. WriteRow(t.row, Climbed(esc[t.row], esc[t.row])) \/ UNCHANGED vars
    BY <1>2, <2>1, <2>2 DEF CommitOverdue, Store, WriteRow, vars
  <2>4. AdvanceOverdue(t.row) \/ UNCHANGED vars
    BY <2>2, <2>3 DEF AdvanceOverdue
  <2> QED BY <1>2, <2>2, <2>4 DEF Next, Sweep
<1>13. CASE t.op = "breached"
  <2>1. PICK c \in Chains : CommitBreached(t.row, t.seen, c)
    BY <1>13 DEF Commit
  <2>2. FreshAndOpen(t)
    BY <1>13 DEF StillGuarded
  <2>3. PICK d \in Rows : esc[d].window = "lapsed"
    BY <1>13 DEF StillGuarded
  <2>4. WriteRow(t.row, Rechained(esc[t.row], esc[t.row], c)) \/ UNCHANGED vars
    BY <1>2, <2>1, <2>2 DEF CommitBreached, Store, WriteRow, vars
  <2>5. AdvanceBreached(d, t.row, c) \/ UNCHANGED vars
    BY <1>2, <2>2, <2>3, <2>4 DEF AdvanceBreached
  <2> QED BY <1>2, <2>2, <2>5 DEF Next, Sweep
<1> QED
  BY <1>3, <1>4, <1>5, <1>6, <1>7, <1>8, <1>9, <1>10, <1>11, <1>12, <1>13 DEF Commit

\* What a session loads passes the guard it was loaded under.
LEMMA BeginGuards ==
    ASSUME SessionsTypeOK, NEW s \in Sessions, Begin(s)
    PROVE  \E r : Load(s, r) /\ StillGuarded(r)
<1>1. \A e \in Rows : Fresh(e, Loaded(esc[e]))
  BY DEF Fresh, Loaded
<1>2. CASE BeginTransfer(s)
  BY <1>2 DEF BeginTransfer, StillGuarded
<1>3. CASE BeginPriority(s)
  BY <1>3 DEF BeginPriority, StillGuarded
<1>4. CASE BeginEscalateNew(s)
  BY <1>4 DEF BeginEscalateNew, StillGuarded
<1>5. CASE BeginAuto(s)
  BY <1>5 DEF BeginAuto, StillGuarded
<1>6. CASE BeginPause(s)
  BY <1>6 DEF BeginPause, StillGuarded
<1>7. CASE BeginResume(s)
  BY <1>7 DEF BeginResume, StillGuarded
<1>8. ASSUME NEW new \in Statuses, BeginStatus(s, new)
      PROVE  \E r : Load(s, r) /\ StillGuarded(r)
  BY <1>8 DEF BeginStatus, StillGuarded
<1>9. ASSUME NEW e \in Rows, BeginConfirm(s, e)
      PROVE  \E r : Load(s, r) /\ StillGuarded(r)
  BY <1>1, <1>9 DEF BeginConfirm, StillGuarded, FreshAndOpen
<1>10. ASSUME NEW e \in Rows, BeginEscalateAgain(s, e)
       PROVE  \E r : Load(s, r) /\ StillGuarded(r)
  BY <1>1, <1>10 DEF BeginEscalateAgain, StillGuarded, FreshAndOpen
<1>11. ASSUME NEW e \in Rows, BeginOverdue(s, e)
       PROVE  \E r : Load(s, r) /\ StillGuarded(r)
  <2>1. e \in OpenRows
    BY <1>11 DEF BeginOverdue, OpenRows, IsOpen, OpenStatuses
  <2> QED BY <1>1, <1>11, <2>1 DEF BeginOverdue, StillGuarded, FreshAndOpen
<1>12. ASSUME NEW d \in Rows, NEW e \in Rows, BeginBreached(s, d, e)
       PROVE  \E r : Load(s, r) /\ StillGuarded(r)
  BY <1>1, <1>12 DEF BeginBreached, StillGuarded, FreshAndOpen
<1> QED
  BY <1>2, <1>3, <1>4, <1>5, <1>6, <1>7, <1>8, <1>9, <1>10, <1>11, <1>12 DEF Begin

\* Time moves deadlines on, and nothing else.
TimeOnly ==
    /\ ticket' = ticket /\ clock'.status = clock.status /\ (clock.crossed => clock'.crossed)
    /\ \A e \in Rows :
           /\ esc'[e].status = esc[e].status /\ esc'[e].chain = esc[e].chain
           /\ esc'[e].pos = esc[e].pos /\ esc'[e].owner = esc[e].owner
           /\ esc'[e].stage = esc[e].stage
           /\ esc'[e].window = "none" <=> esc[e].window = "none"
           /\ esc'[e].handling = "none" <=> esc[e].handling = "none"
           /\ esc[e].window = "lapsed" => esc'[e].window = "lapsed"
           /\ esc[e].ackLapsed => esc'[e].ackLapsed

LEMMA TimeIsTimeOnly == ASSUME TypeOK, Time PROVE TimeOnly
<1>1. CASE SlaLapses
  BY <1>1 DEF SlaLapses, TimeOnly, TypeOK
<1>2. ASSUME NEW e \in Rows, AckWindowLapses(e) PROVE TimeOnly
  <2>1. \A d \in Rows : esc'[d] = IF d = e THEN [esc[e] EXCEPT !.ackLapsed = TRUE] ELSE esc[d]
    BY <1>2 DEF AckWindowLapses, WriteRow, TypeOK
  <2>2. ticket' = ticket /\ clock' = clock
    BY <1>2 DEF AckWindowLapses, WriteRow
  <2> QED BY <2>1, <2>2 DEF TimeOnly, TypeOK, RowType
<1>3. ASSUME NEW e \in Rows, StageLapses(e) PROVE TimeOnly
  <2>1. \A d \in Rows : esc'[d] = IF d = e THEN [esc[e] EXCEPT !.window = "lapsed"] ELSE esc[d]
    BY <1>3 DEF StageLapses, WriteRow, TypeOK
  <2>2. ticket' = ticket /\ clock' = clock /\ esc[e].window = "running"
    BY <1>3 DEF StageLapses, WriteRow
  <2> QED BY <2>1, <2>2 DEF TimeOnly, TypeOK, RowType
<1>4. ASSUME NEW e \in Rows, HandlingLapses(e) PROVE TimeOnly
  <2>1. \A d \in Rows : esc'[d] = IF d = e THEN [esc[e] EXCEPT !.handling = "lapsed"] ELSE esc[d]
    BY <1>4 DEF HandlingLapses, WriteRow, TypeOK
  <2>2. ticket' = ticket /\ clock' = clock /\ esc[e].handling = "running"
    BY <1>4 DEF HandlingLapses, WriteRow
  <2> QED BY <2>1, <2>2 DEF TimeOnly, TypeOK, RowType
<1> QED BY <1>1, <1>2, <1>3, <1>4 DEF Time

LEMMA TimeKeepsGuards ==
    ASSUME TimeOnly, NEW t, StillGuarded(t)
    PROVE  StillGuarded(t)'
<1>1. OpenRows' = OpenRows /\ OpenRows \subseteq Rows
  BY DEF TimeOnly, OpenRows, IsOpen
<1>2. (NotClosed <=> NotClosed') /\ ticket' = ticket /\ clock'.status = clock.status
  BY DEF TimeOnly, NotClosed
<1>3. Frozen <=> Frozen'
  BY <1>1 DEF TimeOnly, Frozen
<1>4. FreshAndOpen(t) => /\ FreshAndOpen(t)'
                         /\ IsTerminal(esc[t.row]) <=> IsTerminal(esc'[t.row])
                         /\ esc'[t.row].window = "none" <=> esc[t.row].window = "none"
                         /\ esc'[t.row].status = esc[t.row].status
                         /\ esc[t.row].ackLapsed => esc'[t.row].ackLapsed
  BY <1>1 DEF TimeOnly, FreshAndOpen, Fresh, IsTerminal
<1>5. (\E d \in Rows : esc[d].window = "lapsed") => \E d \in Rows : esc'[d].window = "lapsed"
  BY DEF TimeOnly
<1>6. clock.crossed => clock'.crossed
  BY DEF TimeOnly
<1> HIDE DEF TimeOnly
<1>7. CASE t.op \in {"transfer", "status", "priority"}
  BY <1>2, <1>3, <1>7 DEF StillGuarded
<1>8. CASE t.op \in {"pause", "resume", "escalate_new", "auto"}
  BY <1>1, <1>2, <1>6, <1>8 DEF StillGuarded
<1>9. CASE t.op \in {"confirm", "escalate_again", "overdue"}
  BY <1>2, <1>4, <1>9 DEF StillGuarded
<1>10. CASE t.op = "breached"
  BY <1>4, <1>5, <1>10 DEF StillGuarded
<1> QED BY <1>7, <1>8, <1>9, <1>10 DEF StillGuarded

LEMMA BusyCommits ==
    ASSUME NEW s \in Sessions, Commit(s) PROVE ~Free(s) /\ sess' = [sess EXCEPT ![s] = Idle]
BY DEF Commit, Free, Idle

LEMMA AloneInv ==
    ASSUME SessionsTypeOK, ServedAlone, SerialNext PROVE ServedAlone'
<1>0. sess \in [Sessions -> InFlight \cup {Idle}]
  BY DEF SessionsTypeOK
<1>1. ASSUME AllFree, NEW s \in Sessions, Begin(s) PROVE ServedAlone'
  <2>1. PICK r : Load(s, r) /\ StillGuarded(r)
    BY <1>1, BeginGuards
  <2>2. sess' = [sess EXCEPT ![s] = r] /\ UNCHANGED vars
    BY <2>1 DEF Load
  <2>3. sess'[s] = r /\ \A z \in Sessions : z # s => sess'[z] = Idle
    BY <1>0, <1>1, <2>2 DEF AllFree, Free
  <2>4. StillGuarded(r)'
    BY <2>1, <2>2 DEF vars, StillGuarded, FreshAndOpen, Fresh, NotClosed, Frozen, OpenRows
  <2>5. ASSUME NEW y \in Sessions, sess'[y] # Idle
        PROVE  (\A z \in Sessions : sess'[z] = Idle \/ z = y) /\ StillGuarded(sess[y])'
    <3>1. y = s
      BY <2>3, <2>5
    <3>2. r = sess'[y]
      BY <2>3, <3>1
    <3>3. StillGuarded(sess[y])'
      BY <2>4, <3>2
    <3> QED BY <2>3, <3>1, <3>3
  <2> QED BY <2>5 DEF ServedAlone, Free
<1>2. ASSUME NEW s \in Sessions, Commit(s) PROVE ServedAlone'
  <2>1. ~Free(s) /\ sess' = [sess EXCEPT ![s] = Idle]
    BY <1>2, BusyCommits
  <2>2. \A z \in Sessions : sess'[z] = Idle
    BY <1>0, <2>1 DEF ServedAlone, Free
  <2> QED BY <2>2 DEF ServedAlone, Free
<1>3. ASSUME AllFree, sess' = sess PROVE ServedAlone'
  BY <1>3 DEF AllFree, ServedAlone, Free
<1>4. ASSUME Time, sess' = sess PROVE ServedAlone'
  <2>1. TimeOnly
    BY <1>4, TimeIsTimeOnly DEF SessionsTypeOK
  <2>2. ASSUME NEW s \in Sessions, sess[s] # Idle PROVE StillGuarded(sess[s])'
    <3>1. PICK t : t = sess[s]
      OBVIOUS
    <3>2. StillGuarded(t)
      BY <2>2, <3>1 DEF ServedAlone, Free
    <3>3. StillGuarded(t)'
      BY <2>1, <3>2, TimeKeepsGuards
    <3>4. t = sess'[s]
      BY <1>4, <3>1
    <3> QED BY <3>3, <3>4
  <2> QED BY <1>4, <2>2 DEF ServedAlone, Free
<1> QED BY <1>1, <1>2, <1>3, <1>4 DEF SerialNext, SNext

\* A step of one session at a time is a step of the ladder, or none of it.
LEMMA SerialStep ==
    ASSUME SessionsTypeOK, ServedAlone, SerialNext PROVE [Next]_vars
<1>1. ASSUME NEW s \in Sessions, Begin(s) PROVE UNCHANGED vars
  BY <1>1, BeginGuards DEF Load
<1>2. ASSUME NEW s \in Sessions, Commit(s) PROVE Next \/ UNCHANGED vars
  <2>1. StillGuarded(sess[s])
    BY <1>2, BusyCommits DEF ServedAlone
  <2> QED BY <1>2, <2>1, CommitIsHandler
<1>3. ASSUME Locked PROVE Next
  BY <1>3 DEF Locked, Next, Agents, Sweep
<1>4. ASSUME Time PROVE Next
  BY <1>4 DEF Next
<1> QED BY <1>1, <1>2, <1>3, <1>4 DEF SerialNext, SNext

\* One session at a time, the split of every handler into a load and a write
\* implements EscalationLadder, where the handler is one step: what is proved
\* of the ladder holds of the sessions of a process that serves one at a time.
THEOREM SerialSessionsImplementLadder == SerialSpec => Spec
<1>1. SerialSpec => SSpec
  <2>1. SerialNext => SNext
    BY DEF SerialNext, SNext
  <2> QED BY <2>1, PTL DEF SerialSpec, SSpec
<1>2. SInv => SessionsTypeOK
  BY DEF SInv
<1>3. SInit => ServedAlone
  BY DEF SInit, ServedAlone, Free
<1>4. SessionsTypeOK /\ ServedAlone /\ [SerialNext]_svars => ServedAlone'
  <2>1. UNCHANGED svars /\ ServedAlone => ServedAlone'
    BY DEF svars, ServedAlone, Free, StillGuarded, FreshAndOpen, Fresh, NotClosed, Frozen, OpenRows
  <2> QED BY <2>1, AloneInv
<1>5. SessionsTypeOK /\ ServedAlone /\ [SerialNext]_svars => [Next]_vars
  BY SerialStep DEF svars, vars
<1>6. SInit => Init
  BY DEF SInit
<1> QED BY <1>1, <1>2, <1>3, <1>4, <1>5, <1>6, SessionsInvariance, PTL DEF SerialSpec, Spec

\* What overlapping sessions break, and the docstring of
\* list_handling_stage_overdue takes for granted, is true of a process that
\* serves one at a time: a stage runs exactly while its escalation is
\* acknowledged, the owner is the one the chain names, and clock and escalation
\* end with the ticket.
THEOREM SerialSessionsKeepTheLadder ==
    SerialSpec => [](/\ StageRunsWhileAcknowledged /\ OwnerFollowsChain
                     /\ LiveTicketHasLiveClock /\ ClockedEscalationEndsWithTicket)
BY SerialSessionsImplementLadder, StageRunsWhileAcknowledgedHolds, OwnerFollowsChainHolds,
   LiveTicketHasLiveClockHolds, ClockedEscalationEndsWithTicketHolds, PTL

\* The setting "serial" that TLC checks is such a process, next to one whose
\* sessions overlap: its steps are steps of the ladder.
THEOREM SerialImplementsLadderHolds == MCSpec => SerialImplementsLadder
<1>1. MCSpec => SSpec
  <2>1. MCInit => SInit
    BY DEF MCInit
  <2>2. [MCNext]_<<svars, serial>> => [SNext]_svars
    BY DEF MCNext, SerialNext, SNext, svars
  <2> QED BY <2>1, <2>2, PTL DEF MCSpec, SSpec
<1>2. SInv => SessionsTypeOK
  BY DEF SInv
<1> DEFINE Alone == serial => ServedAlone
<1>3. MCInit => Alone /\ (serial => Init)
  BY DEF MCInit, SInit, ServedAlone, Free
<1>4. SessionsTypeOK /\ Alone /\ [MCNext]_<<svars, serial>> => Alone'
  <2>1. UNCHANGED <<svars, serial>> /\ Alone => Alone'
    BY DEF svars, ServedAlone, Free, StillGuarded, FreshAndOpen, Fresh, NotClosed, Frozen, OpenRows
  <2>2. SessionsTypeOK /\ Alone /\ MCNext => Alone'
    BY AloneInv DEF MCNext
  <2> QED BY <2>1, <2>2
<1>5. SessionsTypeOK /\ Alone /\ [MCNext]_<<svars, serial>> => [serial => Next]_vars
  <2>1. UNCHANGED <<svars, serial>> => UNCHANGED vars
    BY DEF svars, vars
  <2>2. SessionsTypeOK /\ Alone /\ MCNext => (serial => Next \/ UNCHANGED vars)
    BY SerialStep DEF MCNext
  <2> QED BY <2>1, <2>2
<1> QED BY <1>1, <1>2, <1>3, <1>4, <1>5, SessionsInvariance, PTL DEF MCSpec, SerialImplementsLadder
=============================================================================
