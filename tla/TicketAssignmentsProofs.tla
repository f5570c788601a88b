------------------------ MODULE TicketAssignmentsProofs ------------------------
(***************************************************************************)
(* What TicketAssignments promises for any users, categories, sessions and *)
(* bounds.  The inductive invariant adds to the properties what the stale  *)
(* sessions need: a row that is used stays used, and what a session holds  *)
(* are used rows.  The lemmas come in three layers: one row, the table,    *)
(* one per action.                                                         *)
(***************************************************************************)
EXTENDS TicketAssignments, TLAPS

RowType ==
    [user : Users \cup {Nobody}, primary : BOOLEAN, removed : BOOLEAN, status : TicketStates,
     live : Nat, paused : BOOLEAN, runs : Nat]

Table == [Rows -> RowType]

\* A row that nobody has used is as it was made.
UnusedIsBlank(rows) == \A r \in Rows : rows[r].user = Nobody => rows[r].live = 0 /\ ~rows[r].paused

\* The number of a run stays within the bound, and only a run is paused.
Numbered(a) ==
    /\ a.live <= MaxRuns \/ a.live <= a.runs
    /\ a.paused => a.live # 0

Counted(rows) == \A r \in Rows : Numbered(rows[r])

SinglePrimary(rows) == \A p, q \in Primaries(rows) : p = q
SingleRow(rows) == \A p, q \in Active(rows) : rows[p].user = rows[q].user => p = q

TableOK(rows) ==
    /\ rows \in Table
    /\ UnusedIsBlank(rows) /\ Counted(rows) /\ SinglePrimary(rows) /\ SingleRow(rows)

Owned(rows, agent) ==
    /\ Active(rows) # {} => Primaries(rows) # {}
    /\ agent \in IF Primaries(rows) = {} THEN {Nobody} ELSE {rows[r].user : r \in Primaries(rows)}

\* What WorkFollowsTicket says of one row.
IsActive(a) == a.user # Nobody /\ ~a.removed

RowWorked(a, status) ==
    /\ a.live # 0 <=> IsActive(a) /\ a.status \notin {"RESOLVED", "CLOSED"}
    /\ a.paused => a.status = "WAITING_FOR_CLIENT"
    /\ IsActive(a) => (a.status = "CLOSED" <=> status = "CLOSED")

Worked(rows, status) == \A r \in Rows : RowWorked(rows[r], status)

\* A session holds rows that are used.
Holds(rows, slipped, x) ==
    /\ x.op = "assign" => x.before = 0 \/ rows[x.before].user # Nobody
    /\ x.op = "secondary" => /\ rows[x.row].user # Nobody
                             /\ "work" \notin slipped => x.seen # "CLOSED"
    /\ x.op = "reply" => \A e \in x.runs : rows[e[1]].user # Nobody

TicketType == [status : TicketStates, agent : Users \cup {Nobody}, type : Names]
CategoryType == [main : Categories \cup {NoCategory}, others : SUBSET Categories]

\* The ticket, its rows and its categories agree, as far as nothing slipped.
Consistent(t, rows, cat, slipped) ==
    /\ t \in TicketType /\ TableOK(rows) /\ cat \in CategoryType
    /\ slipped \subseteq {"owner", "work", "type"}
    /\ "owner" \notin slipped => Owned(rows, t.agent)
    /\ "work" \notin slipped => Worked(rows, t.status)
    /\ cat.main \notin cat.others
    /\ "type" \notin slipped /\ t.type \in Categories => t.type = cat.main

SessionsOK ==
    /\ sess \in [Sessions -> InFlight \cup {Idle}]
    /\ \A s \in Sessions : Holds(assignment, slips, sess[s])

IInv ==
    /\ Consistent(ticket, assignment, category, slips)
    /\ \A r \in Rows : assignment[r].runs <= MaxRuns
    /\ SessionsOK

---------------------------------------------------------------------------
(* One row                                                                 *)

\* What a clock operation leaves alone.
SameRow(a, b) == b.user = a.user /\ b.primary = a.primary /\ b.removed = a.removed

RowOK(a) == a \in RowType /\ Numbered(a)

\* A clock operation keeps the row, and puts no other clock in the place of
\* one that runs.
Kept(a, b) ==
    a.live # 0 => \/ b.live = a.live
                  \/ b.live = 0 /\ (b.status \in {"RESOLVED", "CLOSED"} \/ b.removed)

LEMMA Constants == MaxRuns \in Nat \ {0} /\ MaxRuns \in Nat /\ MaxAssignments \in Nat \ {0} /\ Nobody \notin Users
BY AssignmentsAssumption DEF AssignmentsAssumption

\* Starting a clock.
LEMMA StartedRow ==
    ASSUME NEW a, RowOK(a), NEW paused \in BOOLEAN
    PROVE  /\ RowOK(Started(a, paused)) /\ SameRow(a, Started(a, paused))
           /\ Started(a, paused).status = a.status /\ Started(a, paused).live # 0
           /\ a.live # 0 => Started(a, paused) = a
           /\ a.live = 0 => Started(a, paused).paused = paused
<1> DEFINE b == [a EXCEPT !.runs = a.runs + 1, !.live = a.runs + 1, !.paused = paused]
<1>1. a \in RowType /\ a.runs \in Nat /\ a.runs + 1 \in Nat
  BY DEF RowOK, RowType, Numbered
<1>2. CASE a.live # 0
  BY <1>2 DEF Started, SameRow
<1>3. CASE a.live = 0
  <2>1. Started(a, paused) = b
    BY <1>3 DEF Started
  <2>2. b \in RowType
    BY <1>1 DEF RowType
  <2>3. /\ b.user = a.user /\ b.primary = a.primary /\ b.removed = a.removed
        /\ b.status = a.status /\ b.live = a.runs + 1 /\ b.runs = a.runs + 1 /\ b.paused = paused
    BY <1>1 DEF RowType
  <2> HIDE DEF b
  <2>4. b.live # 0 /\ b.live <= b.runs
    BY <1>1, <2>3
  <2> QED BY <1>3, <2>1, <2>2, <2>3, <2>4 DEF RowOK, SameRow, Numbered
<1> QED BY <1>2, <1>3

\* Completing one.
LEMMA CompletedRow ==
    ASSUME NEW a, RowOK(a)
    PROVE  /\ RowOK(Completed(a)) /\ SameRow(a, Completed(a))
           /\ Completed(a).status = a.status /\ Completed(a).live = 0
           /\ Completed(a).paused = FALSE
<1> DEFINE b == [a EXCEPT !.live = 0, !.paused = FALSE]
<1>1. a \in RowType
  BY DEF RowOK, Numbered
<1>2. b \in RowType
  BY <1>1 DEF RowType
<1>3. /\ b.user = a.user /\ b.primary = a.primary /\ b.removed = a.removed
      /\ b.status = a.status /\ b.live = 0 /\ b.paused = FALSE
  BY <1>1 DEF RowType
<1>4. Completed(a) = b
  BY DEF Completed
<1> HIDE DEF b
<1> QED BY <1>2, <1>3, <1>4, Constants DEF RowOK, SameRow, Numbered

\* Pausing and resuming.
LEMMA PausedRow ==
    ASSUME NEW a, RowOK(a)
    PROVE  /\ RowOK(Paused(a)) /\ SameRow(a, Paused(a)) /\ Paused(a).status = a.status
           /\ Paused(a).live = a.live /\ Paused(a).paused = (a.live # 0)
           /\ RowOK(Resumed(a)) /\ SameRow(a, Resumed(a)) /\ Resumed(a).status = a.status
           /\ Resumed(a).live = a.live /\ Resumed(a).paused = FALSE
<1> DEFINE b == [a EXCEPT !.paused = a.live # 0]
           c == [a EXCEPT !.paused = FALSE]
<1>1. a \in RowType /\ (a.live # 0) \in BOOLEAN
  BY DEF RowOK, Numbered
<1>2. b \in RowType /\ c \in RowType
  BY <1>1 DEF RowType
<1>3. /\ b.user = a.user /\ b.primary = a.primary /\ b.removed = a.removed
      /\ b.status = a.status /\ b.live = a.live /\ b.runs = a.runs /\ b.paused = (a.live # 0)
  BY <1>1 DEF RowType
<1>4. /\ c.user = a.user /\ c.primary = a.primary /\ c.removed = a.removed
      /\ c.status = a.status /\ c.live = a.live /\ c.runs = a.runs /\ c.paused = FALSE
  BY <1>1 DEF RowType
<1>5. Paused(a) = b /\ Resumed(a) = c
  BY DEF Paused, Resumed
<1> HIDE DEF b, c
<1> QED BY <1>2, <1>3, <1>4, <1>5 DEF RowOK, SameRow, Numbered

\* A change of status of one row.
LEMMA AfterStatusRow ==
    ASSUME NEW a, RowOK(a), NEW old \in TicketStates, NEW new \in OpenStates
    PROVE  /\ RowOK(AfterStatus(a, old, new)) /\ SameRow(a, AfterStatus(a, old, new))
           /\ Kept(a, AfterStatus(a, old, new))
           /\ old = new => AfterStatus(a, old, new) = a
           /\ new # "RESOLVED" /\ a.live # 0 => AfterStatus(a, old, new).live = a.live
           /\ \A status \in OpenStates :
                 old = a.status /\ IsActive(a) /\ RowWorked(a, status)
                    => \A next \in OpenStates : RowWorked(AfterStatus(a, old, new), next)
<1> DEFINE b == [a EXCEPT !.status = new]
           c == IF new = "WAITING_FOR_CLIENT" THEN Paused(b)
                ELSE IF old = "WAITING_FOR_CLIENT" THEN Resumed(b) ELSE b
<1>1. /\ RowOK(b) /\ SameRow(a, b) /\ b.status = new
      /\ b.live = a.live /\ b.paused = a.paused /\ b.runs = a.runs
  BY DEF RowOK, RowType, SameRow, OpenStates, TicketStates, Numbered
<1>2. /\ RowOK(c) /\ SameRow(a, c) /\ c.status = new /\ c.live = a.live
      /\ new = "WAITING_FOR_CLIENT" => c.paused = (a.live # 0)
      /\ new # "WAITING_FOR_CLIENT" /\ old = "WAITING_FOR_CLIENT" => c.paused = FALSE
      /\ new # "WAITING_FOR_CLIENT" /\ old # "WAITING_FOR_CLIENT" => c.paused = a.paused
  <2> HIDE DEF b
  <2>1. /\ RowOK(Paused(b)) /\ SameRow(b, Paused(b)) /\ Paused(b).status = b.status
        /\ Paused(b).live = b.live /\ Paused(b).paused = (b.live # 0)
        /\ RowOK(Resumed(b)) /\ SameRow(b, Resumed(b)) /\ Resumed(b).status = b.status
        /\ Resumed(b).live = b.live /\ Resumed(b).paused = FALSE
    BY <1>1, PausedRow
  <2>2. CASE new = "WAITING_FOR_CLIENT"
    <3>1. c = Paused(b)
      BY <2>2
    <3> QED BY <1>1, <2>1, <2>2, <3>1 DEF SameRow
  <2>3. CASE new # "WAITING_FOR_CLIENT" /\ old = "WAITING_FOR_CLIENT"
    <3>1. c = Resumed(b)
      BY <2>3
    <3> QED BY <1>1, <2>1, <2>3, <3>1 DEF SameRow
  <2>4. CASE new # "WAITING_FOR_CLIENT" /\ old # "WAITING_FOR_CLIENT"
    <3>1. c = b
      BY <2>4
    <3> QED BY <1>1, <2>4, <3>1
  <2> QED BY <2>2, <2>3, <2>4
<1>3. CASE old = new
  <2>1. AfterStatus(a, old, new) = a
    BY <1>3 DEF AfterStatus
  <2> QED BY <1>3, <2>1 DEF SameRow, Kept, RowWorked, OpenStates
<1>4. CASE old # new /\ new = "RESOLVED"
  <2>1. AfterStatus(a, old, new) = Completed(c)
    BY <1>4 DEF AfterStatus
  <2> HIDE DEF c
  <2>2. /\ RowOK(Completed(c)) /\ SameRow(c, Completed(c))
        /\ Completed(c).status = c.status /\ Completed(c).live = 0
        /\ Completed(c).paused = FALSE
    BY <1>2, CompletedRow
  <2> QED BY <1>2, <1>4, <2>1, <2>2 DEF SameRow, Kept, RowWorked, OpenStates
<1>5. CASE old # new /\ new # "RESOLVED" /\ old = "RESOLVED"
  <2>1. AfterStatus(a, old, new) = Started(c, new = "WAITING_FOR_CLIENT")
    BY <1>5 DEF AfterStatus
  <2> HIDE DEF c
  <2> DEFINE d == Started(c, new = "WAITING_FOR_CLIENT")
  <2>2. /\ RowOK(d) /\ SameRow(c, d) /\ d.status = c.status /\ d.live # 0
        /\ c.live # 0 => d = c
        /\ c.live = 0 => d.paused = (new = "WAITING_FOR_CLIENT")
    BY <1>2, StartedRow
  <2> HIDE DEF d
  <2>3. SameRow(a, d) /\ Kept(a, d)
    BY <1>2, <2>2 DEF SameRow, Kept
  <2>4. ASSUME NEW status \in OpenStates, NEW next \in OpenStates,
               old = a.status, IsActive(a), RowWorked(a, status)
        PROVE  RowWorked(d, next)
    BY <1>2, <1>5, <2>2, <2>4 DEF RowWorked, OpenStates, SameRow, IsActive
  <2>5. a.live # 0 => d.live = a.live
    BY <1>2, <2>2
  <2> QED BY <1>5, <2>1, <2>2, <2>3, <2>4, <2>5 DEF d
<1>6. CASE old # new /\ new # "RESOLVED" /\ old # "RESOLVED"
  <2>1. AfterStatus(a, old, new) = c
    BY <1>6 DEF AfterStatus
  <2> HIDE DEF c
  <2>2. Kept(a, c)
    BY <1>2 DEF Kept
  <2>3. ASSUME NEW status \in OpenStates, NEW next \in OpenStates,
               old = a.status, IsActive(a), RowWorked(a, status)
        PROVE  RowWorked(c, next)
    BY <1>2, <1>6, <2>3 DEF RowWorked, OpenStates, SameRow, IsActive
  <2> QED BY <1>2, <1>6, <2>1, <2>2, <2>3
<1> QED BY <1>3, <1>4, <1>5, <1>6
---------------------------------------------------------------------------
(* The table                                                               *)

\* A new row: who is on it, and a clock exactly if there is work to do.
LEMMA NewRowRow ==
    ASSUME NEW u \in Users, NEW lead \in Users \cup {Nobody}, NEW status \in TicketStates,
           NEW n, n = NewRow(u, lead, status)
    PROVE  /\ RowOK(n) /\ n.user = u /\ ~n.removed
           /\ u = lead => n.primary
           /\ u # lead => ~n.primary
           /\ RowWorked(n, status)
<1> DEFINE a == Fresh(u, lead, status)
           w == status = "WAITING_FOR_CLIENT"
<1>1. a \in RowType
  BY DEF Fresh, RowType
<1>2. /\ a.user = u /\ (u = lead => a.primary) /\ (u # lead => ~a.primary) /\ a.removed = FALSE
      /\ a.status = status /\ a.live = 0 /\ a.paused = FALSE
  BY DEF Fresh
<1> HIDE DEF a
<1>3. RowOK(a)
  BY <1>1, <1>2, Constants DEF RowOK, Numbered
<1>4. CASE status \in {"RESOLVED", "CLOSED"}
  <2>1. n = a
    BY <1>4 DEF NewRow, a
  <2> QED BY <1>2, <1>3, <1>4, <2>1 DEF RowWorked
<1>5. CASE status \notin {"RESOLVED", "CLOSED"}
  <2>1. n = Started(a, w)
    BY <1>5 DEF NewRow, a
  <2> HIDE DEF w
  <2>2. w \in BOOLEAN
    BY DEF w
  <2> DEFINE b == Started(a, w)
  <2>3. /\ RowOK(b) /\ SameRow(a, b) /\ b.status = status /\ b.live # 0 /\ b.paused = w
    BY <1>2, <1>3, <2>2, StartedRow
  <2> HIDE DEF b
  <2>4. IsActive(b)
    BY <1>2, <2>3, Constants DEF IsActive, SameRow
  <2>5. RowWorked(b, status)
    BY <1>5, <2>3, <2>4 DEF RowWorked, w
  <2>6. b.user = u /\ (u = lead => b.primary) /\ (u # lead => ~b.primary) /\ ~b.removed
    BY <1>2, <2>3 DEF SameRow
  <2> QED BY <2>1, <2>3, <2>5, <2>6 DEF b
<1> QED BY <1>4, <1>5

\* Clock operations on the rows of a table leave who is on it alone.
LEMMA SameTable ==
    ASSUME NEW rows, TableOK(rows), NEW new,
           new = [r \in Rows |-> new[r]],
           \A r \in Rows : RowOK(new[r]) /\ SameRow(rows[r], new[r]),
           UnusedIsBlank(new)
    PROVE  /\ TableOK(new)
           /\ Active(new) = Active(rows) /\ Primaries(new) = Primaries(rows)
           /\ \A agent : Owned(rows, agent) => Owned(new, agent)
<1>1. new \in Table /\ Counted(new)
  BY DEF RowOK, Table, Counted, Numbered
<1>2. Active(new) = Active(rows)
  BY DEF Active, SameRow
<1>3. Primaries(new) = Primaries(rows)
  BY <1>2 DEF Primaries, SameRow, Active
<1>4. SinglePrimary(new) /\ SingleRow(new)
  BY <1>2, <1>3 DEF TableOK, SinglePrimary, SingleRow, SameRow, Active
<1>5. {new[r].user : r \in Primaries(new)} = {rows[r].user : r \in Primaries(rows)}
  BY <1>3 DEF SameRow, Primaries, Active
<1>6. \A agent : Owned(rows, agent) => Owned(new, agent)
  BY <1>2, <1>3, <1>5 DEF Owned
<1> QED BY <1>1, <1>2, <1>3, <1>4, <1>6 DEF TableOK

\* A table in which the rows of a set are primary.
IsPromoted(rows, set, new) ==
    /\ new \in Table
    /\ \A r \in Rows :
          /\ new[r].user = rows[r].user /\ new[r].removed = rows[r].removed
          /\ new[r].status = rows[r].status /\ new[r].live = rows[r].live
          /\ new[r].paused = rows[r].paused /\ new[r].runs = rows[r].runs
          /\ r \notin set => new[r] = rows[r]
    /\ Active(new) = Active(rows)
    /\ Primaries(new) = Primaries(rows) \cup (set \cap Active(rows))
    /\ UnusedIsBlank(rows) => UnusedIsBlank(new)
    /\ Counted(rows) => Counted(new)
    /\ SingleRow(rows) => SingleRow(new)
    /\ \A status : Worked(rows, status) => Worked(new, status)

\* Marking rows as primary.
LEMMA PromotedTable ==
    ASSUME NEW rows, rows \in Table, NEW set, NEW new, new = Promoted(rows, set)
    PROVE  IsPromoted(rows, set, new)
<1> DEFINE one(r) == [rows[r] EXCEPT !.primary = TRUE]
<1>1. \A r \in Rows : rows[r] \in RowType
  BY DEF Table
<1>2. \A r \in Rows :
         /\ one(r) \in RowType
         /\ one(r).user = rows[r].user /\ one(r).removed = rows[r].removed
         /\ one(r).status = rows[r].status /\ one(r).live = rows[r].live
         /\ one(r).paused = rows[r].paused /\ one(r).runs = rows[r].runs
         /\ one(r).primary = TRUE
  BY <1>1 DEF RowType
<1>3. new = [r \in Rows |-> IF r \in set THEN one(r) ELSE rows[r]]
  BY DEF Promoted
<1> HIDE DEF one
<1>4. new \in Table
  BY <1>1, <1>2, <1>3 DEF Table
<1>5. \A r \in Rows :
         /\ new[r].user = rows[r].user /\ new[r].removed = rows[r].removed
         /\ new[r].status = rows[r].status /\ new[r].live = rows[r].live
         /\ new[r].paused = rows[r].paused /\ new[r].runs = rows[r].runs
         /\ r \in set => new[r].primary = TRUE
         /\ r \notin set => new[r] = rows[r]
  BY <1>2, <1>3
<1>6. Active(new) = Active(rows)
  BY <1>5 DEF Active
<1>7. Primaries(new) = Primaries(rows) \cup (set \cap Active(rows))
  BY <1>5, <1>6 DEF Primaries, Active
<1>8. /\ UnusedIsBlank(rows) => UnusedIsBlank(new)
      /\ Counted(rows) => Counted(new)
      /\ SingleRow(rows) => SingleRow(new)
  BY <1>5, <1>6 DEF UnusedIsBlank, Counted, SingleRow, Active, Numbered
<1>9. \A status : Worked(rows, status) => Worked(new, status)
  BY <1>5 DEF Worked, RowWorked, IsActive
<1> QED BY <1>4, <1>5, <1>6, <1>7, <1>8, <1>9 DEF IsPromoted

\* A table in which the rows of a set are not primary.
IsDemoted(rows, set, new) ==
    /\ new \in Table
    /\ \A r \in Rows :
          /\ new[r].user = rows[r].user /\ new[r].removed = rows[r].removed
          /\ new[r].status = rows[r].status /\ new[r].live = rows[r].live
          /\ new[r].paused = rows[r].paused /\ new[r].runs = rows[r].runs
          /\ r \notin set => new[r] = rows[r]
    /\ Active(new) = Active(rows)
    /\ Primaries(new) = Primaries(rows) \ set
    /\ UnusedIsBlank(rows) => UnusedIsBlank(new)
    /\ Counted(rows) => Counted(new)
    /\ SingleRow(rows) => SingleRow(new)
    /\ \A status : Worked(rows, status) => Worked(new, status)

\* And no longer.
LEMMA DemotedTable ==
    ASSUME NEW rows, rows \in Table, NEW set, NEW new, new = Demoted(rows, set)
    PROVE  IsDemoted(rows, set, new)
<1> DEFINE one(r) == [rows[r] EXCEPT !.primary = FALSE]
<1>1. \A r \in Rows : rows[r] \in RowType
  BY DEF Table
<1>2. \A r \in Rows :
         /\ one(r) \in RowType
         /\ one(r).user = rows[r].user /\ one(r).removed = rows[r].removed
         /\ one(r).status = rows[r].status /\ one(r).live = rows[r].live
         /\ one(r).paused = rows[r].paused /\ one(r).runs = rows[r].runs
         /\ one(r).primary = FALSE
  BY <1>1 DEF RowType
<1>3. new = [r \in Rows |-> IF r \in set THEN one(r) ELSE rows[r]]
  BY DEF Demoted
<1> HIDE DEF one
<1>4. new \in Table
  BY <1>1, <1>2, <1>3 DEF Table
<1>5. \A r \in Rows :
         /\ new[r].user = rows[r].user /\ new[r].removed = rows[r].removed
         /\ new[r].status = rows[r].status /\ new[r].live = rows[r].live
         /\ new[r].paused = rows[r].paused /\ new[r].runs = rows[r].runs
         /\ r \in set => new[r].primary = FALSE
         /\ r \notin set => new[r] = rows[r]
  BY <1>2, <1>3
<1>6. Active(new) = Active(rows)
  BY <1>5 DEF Active
<1>7. Primaries(new) = Primaries(rows) \ set
  BY <1>5, <1>6 DEF Primaries, Active
<1>8. /\ UnusedIsBlank(rows) => UnusedIsBlank(new)
      /\ Counted(rows) => Counted(new)
      /\ SingleRow(rows) => SingleRow(new)
  BY <1>5, <1>6 DEF UnusedIsBlank, Counted, SingleRow, Active, Numbered
<1>9. \A status : Worked(rows, status) => Worked(new, status)
  BY <1>5 DEF Worked, RowWorked, IsActive
<1> QED BY <1>4, <1>5, <1>6, <1>7, <1>8, <1>9 DEF IsDemoted

\* A table with one more row, for u.
IsAdded(rows, u, lead, status, k, new) ==
    /\ TableOK(new)
    /\ k \in Rows /\ rows[k].user = Nobody /\ new[k].user = u
    /\ ~new[k].removed
    /\ \A r \in Rows \ {k} : new[r] = rows[r]
    /\ Active(new) = Active(rows) \cup {k} /\ k \notin Active(rows)
    /\ u = lead => Primaries(new) = {k}
    /\ u # lead => Primaries(new) = Primaries(rows)
    /\ Worked(rows, status) => Worked(new, status)
    /\ status # "CLOSED" => \A other \in OpenStates :
          Worked(rows, other) => Worked(new, other)

\* Adding a row: the user is not on the ticket yet, and a primary is added
\* only when there is none.
LEMMA AddedTable ==
    ASSUME NEW rows, TableOK(rows), NEW u \in Users, NEW lead \in Users \cup {Nobody},
           NEW status \in TicketStates,
           Unused(rows) # {}, RowsOf(rows, u) = {}, u = lead => Primaries(rows) = {},
           NEW new, new = Added(rows, u, lead, status),
           NEW k, k = FreeRow(rows)
    PROVE  IsAdded(rows, u, lead, status, k, new)
<1> DEFINE n == NewRow(u, lead, status)
<1>1. k \in Rows /\ rows[k].user = Nobody
  BY DEF FreeRow, Unused
<1>2. /\ RowOK(n) /\ n.user = u /\ ~n.removed
      /\ (u = lead => n.primary) /\ (u # lead => ~n.primary)
      /\ RowWorked(n, status)
  <2> HIDE DEF n
  <2>1. n = NewRow(u, lead, status)
    BY DEF n
  <2> QED BY <2>1, NewRowRow
<1>3. new = [rows EXCEPT ![k] = n]
  BY DEF Added
<1> HIDE DEF n
<1>4. rows \in Table /\ rows = [r \in Rows |-> rows[r]]
  BY DEF TableOK, Table
<1>5. /\ new[k] = n /\ \A r \in Rows \ {k} : new[r] = rows[r]
      /\ new \in Table
  BY <1>1, <1>2, <1>3, <1>4 DEF Table, RowOK, Numbered
<1>6. u # Nobody
  BY Constants
<1>7. Active(new) = Active(rows) \cup {k} /\ k \notin Active(rows)
  BY <1>1, <1>2, <1>5, <1>6 DEF Active
<1>8. /\ u = lead => Primaries(new) = {k}
      /\ u # lead => Primaries(new) = Primaries(rows)
  <2>1. ASSUME u = lead PROVE Primaries(new) = {k}
    BY <1>1, <1>2, <1>5, <1>7, <2>1 DEF Primaries, Active
  <2>2. ASSUME u # lead PROVE Primaries(new) = Primaries(rows)
    BY <1>1, <1>2, <1>5, <1>7, <2>2 DEF Primaries, Active
  <2> QED BY <2>1, <2>2
<1>9. SinglePrimary(new)
  BY <1>8 DEF TableOK, SinglePrimary
<1>10. SingleRow(new)
  <2> SUFFICES ASSUME NEW p \in Active(new), NEW q \in Active(new), new[p].user = new[q].user
               PROVE  p = q
    BY DEF SingleRow
  <2>1. \A r \in Active(rows) : rows[r].user # u /\ r # k /\ new[r] = rows[r]
    BY <1>5, <1>7 DEF RowsOf, Active
  <2> QED BY <1>2, <1>5, <1>7, <2>1 DEF TableOK, SingleRow
<1>11. Counted(new) /\ UnusedIsBlank(new)
  BY <1>2, <1>5, <1>6 DEF TableOK, Counted, UnusedIsBlank, RowOK, Numbered
<1>12. /\ Worked(rows, status) => Worked(new, status)
       /\ status # "CLOSED" => \A other \in OpenStates :
             Worked(rows, other) => Worked(new, other)
  BY <1>2, <1>5 DEF Worked, RowWorked, OpenStates
<1> QED BY <1>1, <1>2, <1>5, <1>7, <1>8, <1>9, <1>10, <1>11, <1>12 DEF TableOK, IsAdded

KeptTable(rows, new) == \A r \in Rows : Kept(rows[r], new[r])
UsedStays(rows, new) == \A r \in Rows : rows[r].user # Nobody => new[r].user # Nobody

\* The rows a removal leaves.
Left(rows, set) == [r \in Rows |-> IF r \in set THEN SoftRemoved(rows[r]) ELSE rows[r]]

\* Removing a row.
LEMMA SoftRemovedRow ==
    ASSUME NEW a, RowOK(a)
    PROVE  /\ RowOK(SoftRemoved(a)) /\ SoftRemoved(a).user = a.user
           /\ SoftRemoved(a).primary = FALSE /\ SoftRemoved(a).removed = TRUE
           /\ SoftRemoved(a).status = a.status /\ SoftRemoved(a).live = 0
           /\ SoftRemoved(a).paused = FALSE
<1> DEFINE b == Completed(a)
           c == [b EXCEPT !.primary = FALSE, !.removed = TRUE]
<1>1. /\ RowOK(b) /\ SameRow(a, b) /\ b.status = a.status /\ b.live = 0 /\ b.paused = FALSE
  BY CompletedRow
<1> HIDE DEF b
<1>2. b \in RowType
  BY <1>1 DEF RowOK, Numbered
<1>3. c \in RowType
  BY <1>2 DEF RowType
<1>4. /\ c.user = b.user /\ c.primary = FALSE /\ c.removed = TRUE
      /\ c.status = b.status /\ c.live = b.live /\ c.paused = b.paused /\ c.runs = b.runs
  BY <1>2 DEF RowType
<1>5. SoftRemoved(a) = c
  BY DEF SoftRemoved, b
<1> HIDE DEF c
<1> QED BY <1>1, <1>3, <1>4, <1>5 DEF RowOK, SameRow, Numbered

\* Removing rows: whoever leaves leaves no clock behind.
LEMMA LeftTable ==
    ASSUME NEW rows, TableOK(rows), NEW set
    PROVE  LET new == Left(rows, set)
           IN  /\ TableOK(new)
               /\ \A r \in Rows \ set : new[r] = rows[r]
               /\ \A r \in Rows : new[r].user = rows[r].user
               /\ Active(new) = Active(rows) \ set /\ Primaries(new) = Primaries(rows) \ set
               /\ \A status : Worked(rows, status) => Worked(new, status)
               /\ KeptTable(rows, new) /\ UsedStays(rows, new) /\ Unused(new) = Unused(rows)
<1> DEFINE new == Left(rows, set)
<1>1. \A r \in Rows : RowOK(rows[r])
  BY DEF TableOK, Table, Counted, RowOK, Numbered
<1>2. \A r \in Rows :
        /\ RowOK(SoftRemoved(rows[r])) /\ SoftRemoved(rows[r]).user = rows[r].user
        /\ SoftRemoved(rows[r]).primary = FALSE /\ SoftRemoved(rows[r]).removed = TRUE
        /\ SoftRemoved(rows[r]).status = rows[r].status /\ SoftRemoved(rows[r]).live = 0
        /\ SoftRemoved(rows[r]).paused = FALSE
  BY <1>1, SoftRemovedRow
<1>3. new = [r \in Rows |-> IF r \in set THEN SoftRemoved(rows[r]) ELSE rows[r]]
  BY DEF Left
<1> HIDE DEF new
<1>4. \A r \in Rows : new[r].user = rows[r].user
  BY <1>2, <1>3
<1>5. Active(new) = Active(rows) \ set
  BY <1>2, <1>3 DEF Active
<1>6. Primaries(new) = Primaries(rows) \ set
  BY <1>3, <1>5 DEF Primaries, Active
<1>7. new \in Table /\ Counted(new) /\ UnusedIsBlank(new)
  BY <1>1, <1>2, <1>3 DEF Table, Counted, UnusedIsBlank, RowOK, TableOK, Numbered
<1>8. SinglePrimary(new) /\ SingleRow(new)
  BY <1>4, <1>5, <1>6 DEF TableOK, SinglePrimary, SingleRow, Active
<1>9. \A status : Worked(rows, status) => Worked(new, status)
  BY <1>2, <1>3 DEF Worked, RowWorked, IsActive
<1>10. KeptTable(rows, new) /\ UsedStays(rows, new) /\ Unused(new) = Unused(rows)
  BY <1>2, <1>3 DEF KeptTable, Kept, UsedStays, Unused
<1> QED BY <1>3, <1>4, <1>5, <1>6, <1>7, <1>8, <1>9, <1>10 DEF TableOK, new

\* Claim, transfer, creation: u is the one primary afterwards, whoever was
\* there before.
LEMMA PrimarySetTable ==
    ASSUME NEW rows, TableOK(rows), NEW u \in Users, NEW status \in TicketStates,
           Unused(rows) # {}
    PROVE  LET new == PrimarySet(rows, u, status)
           IN  /\ TableOK(new) /\ Owned(new, u)
               /\ Worked(rows, status) => Worked(new, status)
               /\ status # "CLOSED" => \A other \in OpenStates :
                     Worked(rows, other) => Worked(new, other)
               /\ KeptTable(rows, new) /\ UsedStays(rows, new)
<1> DEFINE new == PrimarySet(rows, u, status)
           old == Primaries(rows)
           left == Left(rows, old)
           own == RowsOf(rows, u) \ old
<1>1. CASE \E r \in old : rows[r].user = u
  <2>1. new = rows
    BY <1>1 DEF PrimarySet
  <2>2. PICK r \in old : rows[r].user = u
    BY <1>1
  <2>3. old = {r}
    BY <2>2 DEF TableOK, SinglePrimary
  <2>4. Owned(rows, u)
    BY <2>2, <2>3 DEF Owned
  <2> QED BY <2>1, <2>4 DEF KeptTable, Kept, UsedStays
<1>2. ASSUME \A r \in old : rows[r].user # u
      PROVE  /\ TableOK(left) /\ \A r \in Rows \ old : left[r] = rows[r]
             /\ Active(left) = Active(rows) \ old /\ Primaries(left) = {}
             /\ \A other : Worked(rows, other) => Worked(left, other)
             /\ KeptTable(rows, left) /\ UsedStays(rows, left) /\ Unused(left) = Unused(rows)
             /\ own = RowsOf(rows, u) /\ RowsOf(left, u) = own
  <2>1. /\ TableOK(left) /\ \A r \in Rows \ old : left[r] = rows[r]
        /\ Active(left) = Active(rows) \ old /\ Primaries(left) = Primaries(rows) \ old
        /\ \A other : Worked(rows, other) => Worked(left, other)
        /\ KeptTable(rows, left) /\ UsedStays(rows, left) /\ Unused(left) = Unused(rows)
    BY LeftTable
  <2>2. own = RowsOf(rows, u) /\ RowsOf(left, u) = own
    BY <1>2, <2>1 DEF RowsOf, Active
  <2> QED BY <2>1, <2>2
<1>3. CASE (\A r \in old : rows[r].user # u) /\ own # {}
  <2>1. new = Promoted(left, own)
    BY <1>3 DEF PrimarySet, Left
  <2> HIDE DEF new, left, own
  <2>2. left \in Table /\ UnusedIsBlank(left) /\ Counted(left) /\ SingleRow(left)
    BY <1>2, <1>3 DEF TableOK
  <2>3. /\ new \in Table
        /\ \A r \in Rows :
              /\ new[r].user = left[r].user /\ new[r].removed = left[r].removed
              /\ new[r].status = left[r].status /\ new[r].live = left[r].live
        /\ Active(new) = Active(left) /\ Primaries(new) = Primaries(left) \cup (own \cap Active(left))
        /\ UnusedIsBlank(new) /\ Counted(new) /\ SingleRow(new)
        /\ \A other : Worked(left, other) => Worked(new, other)
    <3>1. IsPromoted(left, own, new)
      BY <2>1, <2>2, PromotedTable
    <3> QED BY <2>2, <3>1 DEF IsPromoted
  <2>4. Primaries(new) = own
    BY <1>2, <1>3, <2>3 DEF RowsOf
  <2>5. \A p \in own : left[p].user = u /\ p \in Active(left)
    BY <1>2, <1>3 DEF RowsOf
  <2>6. SinglePrimary(new)
    BY <2>2, <2>4, <2>5 DEF SinglePrimary, SingleRow
  <2>7. Owned(new, u)
    BY <1>3, <2>3, <2>4, <2>5 DEF Owned, Active
  <2>8. KeptTable(rows, new) /\ UsedStays(rows, new)
    BY <1>2, <1>3, <2>3 DEF KeptTable, Kept, UsedStays
  <2> QED BY <1>2, <1>3, <2>3, <2>6, <2>7, <2>8 DEF TableOK, new
<1>4. CASE (\A r \in old : rows[r].user # u) /\ own = {}
  <2>1. new = Added(left, u, u, status)
    BY <1>4 DEF PrimarySet, Left
  <2> DEFINE k == FreeRow(left)
  <2> HIDE DEF new, left, own, k
  <2>b. k = FreeRow(left)
    BY DEF k
  <2>2. /\ TableOK(new)
        /\ k \in Rows /\ left[k].user = Nobody /\ new[k].user = u
        /\ \A r \in Rows \ {k} : new[r] = left[r]
        /\ Active(new) = Active(left) \cup {k}
        /\ Primaries(new) = {k}
        /\ Worked(left, status) => Worked(new, status)
        /\ status # "CLOSED" => \A other \in OpenStates :
              Worked(left, other) => Worked(new, other)
    <3>1. /\ TableOK(left) /\ Unused(left) # {} /\ RowsOf(left, u) = {} /\ Primaries(left) = {}
      BY <1>2, <1>4
    <3>2. u = u => Primaries(left) = {}
      BY <3>1
    <3>3. IsAdded(left, u, u, status, k, new)
      BY <2>1, <2>b, <3>1, <3>2, AddedTable
    <3> QED BY <3>3 DEF IsAdded
  <2>3. Owned(new, u)
    BY <2>2 DEF Owned
  <2>4. left[k].live = 0
    BY <1>2, <1>4, <2>2 DEF TableOK, UnusedIsBlank
  <2>5. rows[k].live = 0 /\ rows[k].user = Nobody
    BY <1>2, <1>4, <2>2 DEF Unused, TableOK, UnusedIsBlank
  <2>6. KeptTable(rows, new) /\ UsedStays(rows, new)
    BY <1>2, <1>4, <2>2, <2>5 DEF KeptTable, Kept, UsedStays
  <2> QED BY <1>2, <1>4, <2>2, <2>3, <2>6 DEF new
<1> QED BY <1>1, <1>3, <1>4

\* Some rows get a new status.
Worded(rows, set, known, new) ==
    [r \in Rows |-> IF r \in set THEN AfterStatus(rows[r], known[r], new) ELSE rows[r]]

\* What is known of the rows that change is true, or what they become.
KnownWell(rows, set, known, new) ==
    \A r \in Rows : r \in set =>
       known[r] = new \/ (known[r] = rows[r].status /\ IsActive(rows[r]))

\* A table in which the rows of a set have another status.
IsWorded(rows, set, known, next, new) ==
    /\ TableOK(new)
    /\ Active(new) = Active(rows) /\ Primaries(new) = Primaries(rows)
    /\ \A agent : Owned(rows, agent) => Owned(new, agent)
    /\ KeptTable(rows, new) /\ UsedStays(rows, new) /\ Unused(new) = Unused(rows)
    /\ \A r \in Rows : new[r].user = rows[r].user
    /\ next # "RESOLVED" =>
          \A r \in Rows : rows[r].live # 0 => new[r].live = rows[r].live
    /\ KnownWell(rows, set, known, next) =>
          \A before, after \in OpenStates : Worked(rows, before) => Worked(new, after)

\* Changing the status of rows that are used: the work follows if what is
\* known of each row is true, or already the status it gets.
LEMMA WordedTable ==
    ASSUME NEW rows, TableOK(rows), NEW set, NEW known \in [Rows -> TicketStates],
           NEW next \in OpenStates,
           \A r \in Rows : r \in set => rows[r].user # Nobody,
           NEW new, new = Worded(rows, set, known, next)
    PROVE  IsWorded(rows, set, known, next, new)
<1>1. \A r \in Rows : RowOK(rows[r])
  BY DEF TableOK, Table, Counted, RowOK, Numbered
<1>2. new = [r \in Rows |-> IF r \in set THEN AfterStatus(rows[r], known[r], next) ELSE rows[r]]
  BY DEF Worded
<1>3. ASSUME NEW r \in Rows, r \in set
      PROVE  /\ RowOK(new[r]) /\ SameRow(rows[r], new[r]) /\ Kept(rows[r], new[r])
             /\ known[r] = next => new[r] = rows[r]
             /\ next # "RESOLVED" /\ rows[r].live # 0 => new[r].live = rows[r].live
             /\ \A before, after \in OpenStates :
                   /\ known[r] = rows[r].status /\ IsActive(rows[r]) /\ RowWorked(rows[r], before)
                   => RowWorked(new[r], after)
  <2> DEFINE a == rows[r]
             old == known[r]
  <2>1. new[r] = AfterStatus(a, old, next)
    BY <1>2, <1>3
  <2>2. RowOK(a) /\ old \in TicketStates
    BY <1>1
  <2> HIDE DEF a, old
  <2>3. /\ RowOK(AfterStatus(a, old, next)) /\ SameRow(a, AfterStatus(a, old, next))
        /\ Kept(a, AfterStatus(a, old, next))
        /\ old = next => AfterStatus(a, old, next) = a
        /\ next # "RESOLVED" /\ a.live # 0 => AfterStatus(a, old, next).live = a.live
        /\ \A before \in OpenStates :
              old = a.status /\ IsActive(a) /\ RowWorked(a, before)
                 => \A after \in OpenStates : RowWorked(AfterStatus(a, old, next), after)
    BY <2>2, AfterStatusRow
  <2> QED BY <2>1, <2>3 DEF a, old
<1>4. ASSUME NEW r \in Rows, r \notin set
      PROVE  new[r] = rows[r]
  BY <1>2, <1>4
<1>5. \A r \in Rows : RowOK(new[r]) /\ SameRow(rows[r], new[r])
  BY <1>1, <1>3, <1>4 DEF SameRow
<1>6. UnusedIsBlank(new)
  <2> SUFFICES ASSUME NEW r \in Rows, new[r].user = Nobody
               PROVE  new[r].live = 0 /\ ~new[r].paused
    BY DEF UnusedIsBlank
  <2>1. rows[r].user = Nobody
    BY <1>5 DEF SameRow
  <2> QED BY <1>4, <2>1 DEF TableOK, UnusedIsBlank
<1>7. new = [r \in Rows |-> new[r]]
  BY <1>2
<1>8. /\ TableOK(new) /\ Active(new) = Active(rows) /\ Primaries(new) = Primaries(rows)
      /\ \A agent : Owned(rows, agent) => Owned(new, agent)
  BY <1>5, <1>6, <1>7, SameTable
<1>9. KeptTable(rows, new)
  BY <1>3, <1>4 DEF KeptTable, Kept
<1>10. UsedStays(rows, new) /\ Unused(new) = Unused(rows) /\ \A r \in Rows : new[r].user = rows[r].user
  BY <1>5 DEF UsedStays, Unused, SameRow
<1>12. next # "RESOLVED" => \A r \in Rows : rows[r].live # 0 => new[r].live = rows[r].live
  BY <1>3, <1>4
<1>11. ASSUME NEW before \in OpenStates, NEW after \in OpenStates, Worked(rows, before),
              KnownWell(rows, set, known, next)
       PROVE  Worked(new, after)
  <2> SUFFICES ASSUME NEW r \in Rows
               PROVE  RowWorked(new[r], after)
    BY DEF Worked
  <2>1. RowWorked(rows[r], before) /\ RowWorked(rows[r], after)
    BY <1>11 DEF Worked, RowWorked, OpenStates
  <2>2. CASE r \in set
    BY <1>3, <1>11, <2>1, <2>2 DEF KnownWell
  <2>3. CASE r \notin set
    BY <1>4, <2>1, <2>3
  <2> QED BY <2>2, <2>3
<1> QED BY <1>8, <1>9, <1>10, <1>11, <1>12 DEF IsWorded

\* Closing: no clock runs, and who is on the ticket has status CLOSED.
LEMMA ClosedTable ==
    ASSUME NEW rows, TableOK(rows),
           NEW new, new = [r \in Rows |-> IF r \in Active(rows)
                             THEN [Completed(rows[r]) EXCEPT !.status = "CLOSED"]
                             ELSE Completed(rows[r])]
    PROVE  /\ TableOK(new) /\ \A agent : Owned(rows, agent) => Owned(new, agent)
           /\ KeptTable(rows, new) /\ UsedStays(rows, new)
           /\ Worked(new, "CLOSED")
<1> DEFINE b(r) == Completed(rows[r])
           c(r) == [b(r) EXCEPT !.status = "CLOSED"]
<1>1. \A r \in Rows : RowOK(rows[r])
  BY DEF TableOK, Table, Counted, RowOK, Numbered
<1>2. \A r \in Rows :
        /\ RowOK(b(r)) /\ SameRow(rows[r], b(r)) /\ b(r).status = rows[r].status
        /\ b(r).live = 0 /\ ~b(r).paused
  BY <1>1, CompletedRow
<1> HIDE DEF b
<1>3. \A r \in Rows :
        /\ RowOK(c(r)) /\ SameRow(b(r), c(r)) /\ c(r).status = "CLOSED"
        /\ c(r).live = 0 /\ c(r).paused = b(r).paused
  BY <1>2 DEF RowOK, RowType, SameRow, TicketStates, Numbered
<1>4. new = [r \in Rows |-> IF r \in Active(rows) THEN c(r) ELSE b(r)]
  BY DEF b
<1> HIDE DEF c
<1>5. \A r \in Rows : /\ RowOK(new[r]) /\ SameRow(rows[r], new[r])
                      /\ new[r].live = 0 /\ ~new[r].paused
                      /\ r \in Active(rows) => new[r].status = "CLOSED"
  <2> SUFFICES ASSUME NEW r \in Rows
               PROVE  /\ RowOK(new[r]) /\ SameRow(rows[r], new[r])
                      /\ new[r].live = 0 /\ ~new[r].paused
                      /\ r \in Active(rows) => new[r].status = "CLOSED"
    OBVIOUS
  <2>1. CASE r \in Active(rows)
    <3>1. new[r] = c(r)
      BY <1>4, <2>1
    <3> QED BY <1>2, <1>3, <3>1 DEF SameRow
  <2>2. CASE r \notin Active(rows)
    <3>1. new[r] = b(r)
      BY <1>4, <2>2
    <3> QED BY <1>2, <2>2, <3>1
  <2> QED BY <2>1, <2>2
<1>6. UnusedIsBlank(new) /\ new = [r \in Rows |-> new[r]]
  BY <1>4, <1>5 DEF UnusedIsBlank
<1>7. /\ TableOK(new) /\ Active(new) = Active(rows)
      /\ \A agent : Owned(rows, agent) => Owned(new, agent)
  BY <1>5, <1>6, SameTable
<1>8. UsedStays(rows, new)
  BY <1>5 DEF UsedStays, SameRow
<1>9. ASSUME NEW r \in Rows
      PROVE  RowWorked(new[r], "CLOSED") /\ Kept(rows[r], new[r])
  <2>1. CASE IsActive(rows[r])
    BY <1>5, <2>1 DEF RowWorked, Kept, IsActive, Active, SameRow
  <2>2. CASE rows[r].removed
    BY <1>5, <2>2 DEF RowWorked, Kept, IsActive, SameRow
  <2>3. CASE rows[r].user = Nobody
    BY <1>5, <2>3 DEF RowWorked, Kept, IsActive, SameRow, TableOK, UnusedIsBlank
  <2> QED BY <2>1, <2>2, <2>3 DEF IsActive
<1> QED BY <1>7, <1>8, <1>9 DEF Worked, KeptTable

\* Reopening: everybody on the ticket has a clock again.
LEMMA ReopenedTable ==
    ASSUME NEW rows, TableOK(rows), NEW new, new = Reopened(rows)
    PROVE  /\ TableOK(new)
           /\ Active(new) = Active(rows) /\ Primaries(new) = Primaries(rows)
           /\ Unused(new) = Unused(rows)
           /\ \A agent : Owned(rows, agent) => Owned(new, agent)
           /\ KeptTable(rows, new) /\ UsedStays(rows, new)
           /\ \A r \in Rows : r \in Active(rows) => new[r].status = "OPEN"
           /\ \A r \in Rows : rows[r].live # 0 => new[r].live = rows[r].live
           /\ Worked(rows, "CLOSED") => Worked(new, "OPEN")
<1> DEFINE b(r) == [rows[r] EXCEPT !.status = "OPEN"]
           no == FALSE
           c(r) == Started(b(r), no)
<1>1. \A r \in Rows : RowOK(rows[r])
  BY DEF TableOK, Table, Counted, RowOK, Numbered
<1>2. \A r \in Rows :
        /\ RowOK(b(r)) /\ SameRow(rows[r], b(r)) /\ b(r).status = "OPEN"
        /\ b(r).live = rows[r].live /\ b(r).paused = rows[r].paused
  BY <1>1 DEF RowOK, RowType, SameRow, TicketStates, OpenStates, Numbered
<1>3. new = [r \in Rows |-> IF r \in Active(rows) THEN c(r) ELSE rows[r]]
  BY DEF Reopened
<1>4. no \in BOOLEAN /\ ~no
  OBVIOUS
<1> HIDE DEF b, no
<1>5. \A r \in Rows :
        /\ RowOK(c(r)) /\ SameRow(b(r), c(r)) /\ c(r).status = b(r).status /\ c(r).live # 0
        /\ b(r).live # 0 => c(r) = b(r)
        /\ b(r).live = 0 => c(r).paused = no
  BY <1>2, <1>4, StartedRow
<1> HIDE DEF c
<1>6. \A r \in Rows :
        /\ RowOK(c(r)) /\ SameRow(rows[r], c(r)) /\ c(r).status = "OPEN" /\ c(r).live # 0
        /\ rows[r].live # 0 => c(r).live = rows[r].live
        /\ rows[r].live = 0 => ~c(r).paused
  BY <1>2, <1>4, <1>5 DEF SameRow
<1>7. \A r \in Rows : RowOK(new[r]) /\ SameRow(rows[r], new[r])
  BY <1>1, <1>3, <1>6 DEF SameRow
<1>8. UnusedIsBlank(new) /\ new = [r \in Rows |-> new[r]]
  BY <1>3, <1>7 DEF UnusedIsBlank, SameRow, Active, TableOK
<1>9. /\ TableOK(new) /\ Active(new) = Active(rows) /\ Primaries(new) = Primaries(rows)
      /\ \A agent : Owned(rows, agent) => Owned(new, agent)
  BY <1>7, <1>8, SameTable
<1>10. UsedStays(rows, new) /\ Unused(new) = Unused(rows)
  BY <1>7 DEF UsedStays, Unused, SameRow
<1>11. /\ KeptTable(rows, new) /\ \A r \in Rows : r \in Active(rows) => new[r].status = "OPEN"
       /\ \A r \in Rows : rows[r].live # 0 => new[r].live = rows[r].live
  BY <1>3, <1>6 DEF KeptTable, Kept
<1>12. ASSUME Worked(rows, "CLOSED"), NEW r \in Rows
       PROVE  RowWorked(new[r], "OPEN")
  <2>1. RowWorked(rows[r], "CLOSED")
    BY <1>12 DEF Worked
  <2>2. CASE r \in Active(rows)
    <3>1. rows[r].live = 0
      BY <2>1, <2>2 DEF RowWorked, IsActive, Active
    <3>2. new[r] = c(r) /\ IsActive(c(r))
      BY <1>3, <1>6, <2>2 DEF SameRow, Active, IsActive
    <3> QED BY <1>6, <3>1, <3>2 DEF RowWorked
  <2>3. CASE r \notin Active(rows)
    BY <1>3, <2>1, <2>3 DEF RowWorked, IsActive, Active
  <2> QED BY <2>2, <2>3
<1> QED BY <1>9, <1>10, <1>11, <1>12 DEF Worked

---------------------------------------------------------------------------
(* The operations that hold the lock                                       *)

\* What every action has to show.
StepOK ==
    /\ Consistent(ticket', assignment', category', slips')
    /\ KeptTable(assignment, assignment') /\ UsedStays(assignment, assignment')
    /\ slips \subseteq slips'

\* Which open status a ticket has makes no difference to its rows.
LEMMA OpenWorked ==
    ASSUME NEW rows, NEW before \in OpenStates, NEW after \in OpenStates, Worked(rows, before)
    PROVE  Worked(rows, after)
BY DEF Worked, RowWorked, OpenStates

\* A table that does not change.
LEMMA SameKept == ASSUME NEW rows PROVE KeptTable(rows, rows) /\ UsedStays(rows, rows)
BY DEF KeptTable, Kept, UsedStays

LEMMA ClaimStep ==
    ASSUME IInv, NEW u \in Users, Claim(u)
    PROVE  StepOK
<1> DEFINE old == assignment
           new == PrimarySet(old, u, "IN_PROGRESS")
<1>1. /\ ticket \in TicketType /\ TableOK(old) /\ ticket.status = "OPEN" /\ Unused(old) # {}
      /\ "work" \notin slips => Worked(old, "OPEN")
  BY DEF IInv, Consistent, Claim
<1>2. "IN_PROGRESS" \in TicketStates /\ "IN_PROGRESS" \in OpenStates /\ "OPEN" \in OpenStates
  BY DEF TicketStates, OpenStates
<1>3. /\ ticket' \in TicketType /\ ticket'.status = "IN_PROGRESS" /\ ticket'.agent = u
      /\ ticket'.type = ticket.type
  <2>1. ticket' = [ticket EXCEPT !.agent = u, !.status = "IN_PROGRESS"]
    BY DEF Claim
  <2> QED BY <1>1, <1>2, <2>1, Constants DEF TicketType
<1>4. assignment' = new
  BY DEF Claim
<1> HIDE DEF old, new
<1>5. /\ TableOK(new) /\ Owned(new, u)
      /\ Worked(old, "OPEN") => Worked(new, "OPEN")
      /\ KeptTable(old, new) /\ UsedStays(old, new)
  <2>1. new = PrimarySet(old, u, "IN_PROGRESS")
    BY DEF new
  <2> QED BY <1>1, <1>2, <2>1, PrimarySetTable
<1>6. Worked(new, "OPEN") => Worked(new, "IN_PROGRESS")
  BY <1>2, OpenWorked
<1> QED BY <1>1, <1>3, <1>4, <1>5, <1>6 DEF StepOK, IInv, Consistent, Claim, old

LEMMA CloseStep ==
    ASSUME IInv, CloseTicket
    PROVE  StepOK
<1>1. ticket \in TicketType /\ TableOK(assignment) /\ "CLOSED" \in TicketStates
  BY DEF IInv, Consistent, TicketStates
<1>2. /\ ticket' \in TicketType /\ ticket'.status = "CLOSED" /\ ticket'.agent = ticket.agent
      /\ ticket'.type = ticket.type
  BY <1>1 DEF CloseTicket, TicketType
<1>3. /\ TableOK(assignment') /\ \A agent : Owned(assignment, agent) => Owned(assignment', agent)
      /\ KeptTable(assignment, assignment') /\ UsedStays(assignment, assignment')
      /\ Worked(assignment', "CLOSED")
  <2>1. assignment' = [r \in Rows |-> IF r \in Active(assignment)
                         THEN [Completed(assignment[r]) EXCEPT !.status = "CLOSED"]
                         ELSE Completed(assignment[r])]
    BY DEF CloseTicket
  <2> QED BY <1>1, <2>1, ClosedTable
<1> QED BY <1>1, <1>2, <1>3 DEF StepOK, IInv, Consistent, CloseTicket

LEMMA ReopenStep ==
    ASSUME IInv, ReopenTicket
    PROVE  StepOK
<1>1. /\ ticket \in TicketType /\ TableOK(assignment) /\ "OPEN" \in TicketStates
      /\ ticket.status = "CLOSED"
  BY DEF IInv, Consistent, TicketStates, OpenStates, ReopenTicket
<1>2. /\ ticket' \in TicketType /\ ticket'.status = "OPEN" /\ ticket'.agent = ticket.agent
      /\ ticket'.type = ticket.type
  BY <1>1 DEF ReopenTicket, TicketType
<1>3. /\ TableOK(assignment') /\ \A agent : Owned(assignment, agent) => Owned(assignment', agent)
      /\ KeptTable(assignment, assignment') /\ UsedStays(assignment, assignment')
      /\ Worked(assignment, "CLOSED") => Worked(assignment', "OPEN")
  BY <1>1, ReopenedTable DEF ReopenTicket
<1> QED BY <1>1, <1>2, <1>3 DEF StepOK, IInv, Consistent, ReopenTicket

\* A known name becomes the primary category, any other changes nothing.
LEMMA SyncedCategory ==
    ASSUME NEW cat \in CategoryType, cat.main \notin cat.others, NEW name \in Names
    PROVE  LET new == Synced(cat, name)
           IN  /\ new \in CategoryType /\ new.main \notin new.others
               /\ name \in Categories => new.main = name
               /\ name \notin Categories => new = cat
<1>1. CASE name \in Categories \ {cat.main}
  BY <1>1 DEF Synced, MovedTo, CategoryType
<1>2. CASE name \notin Categories \ {cat.main}
  BY <1>2 DEF Synced
<1> QED BY <1>1, <1>2

LEMMA CategoryStep ==
    ASSUME IInv, Categorize
    PROVE  StepOK
<1>1. /\ ticket \in TicketType /\ category \in CategoryType /\ category.main \notin category.others
      /\ "type" \notin slips /\ ticket.type \in Categories => ticket.type = category.main
  BY DEF IInv, Consistent
<1>2. \A c \in Categories :
        LET cat == MovedTo(category, c)
        IN  cat \in CategoryType /\ cat.main = c /\ cat.main \notin cat.others
  BY <1>1 DEF MovedTo, CategoryType
<1>3. assignment' = assignment /\ slips' = slips
  BY DEF Categorize, AddCategory, RemoveCategory
<1>4. Attached(category) \subseteq Categories /\ NoCategory \notin Categories
  BY <1>1, AssignmentsAssumption DEF Attached, CategoryType
<1>5. /\ category' \in CategoryType /\ category'.main \notin category'.others
      /\ \/ ticket' = ticket /\ category'.main = category.main
         \/ ticket' = [ticket EXCEPT !.type = category'.main] /\ category'.main \in Categories
  <2>1. ASSUME NEW c \in Categories, AddCategory(c)
        PROVE  <1>5
    <3>1. CASE Attached(category) = {}
      BY <1>2, <2>1, <3>1 DEF AddCategory
    <3>2. CASE Attached(category) # {}
      <4>1. /\ category' = [category EXCEPT !.others = category.others \cup {c}]
            /\ ticket' = ticket /\ c # category.main
        BY <1>1, <1>4, <2>1, <3>2 DEF AddCategory, Attached
      <4> QED BY <1>1, <4>1 DEF CategoryType
    <3> QED BY <3>1, <3>2
  <2>2. ASSUME NEW c \in Categories, NEW next \in Categories, RemoveCategory(c, next)
        PROVE  <1>5
    <3>1. CASE c = category.main
      BY <1>2, <2>2, <3>1 DEF RemoveCategory
    <3>2. CASE c # category.main
      BY <1>1, <2>2, <3>2 DEF RemoveCategory, CategoryType
    <3> QED BY <3>1, <3>2
  <2> QED BY <2>1, <2>2 DEF Categorize
<1>6. /\ ticket' \in TicketType /\ ticket'.status = ticket.status /\ ticket'.agent = ticket.agent
      /\ "type" \notin slips /\ ticket'.type \in Categories => ticket'.type = category'.main
  BY <1>1, <1>5, AssignmentsAssumption DEF TicketType
<1> QED BY <1>1, <1>3, <1>5, <1>6, SameKept DEF StepOK, IInv, Consistent

\* Handing the ticket over to somebody who is on it.
LEMMA HandoverTable ==
    ASSUME NEW rows, TableOK(rows), NEW r \in Active(rows),
           NEW new, new = Promoted(Demoted(rows, Primaries(rows)), {r})
    PROVE  /\ TableOK(new) /\ Owned(new, rows[r].user)
           /\ Active(new) = Active(rows)
           /\ \A status : Worked(rows, status) => Worked(new, status)
           /\ KeptTable(rows, new) /\ UsedStays(rows, new)
           /\ \A q \in Rows : new[q].live = rows[q].live /\ new[q].user = rows[q].user
<1> DEFINE none == Demoted(rows, Primaries(rows))
           one == {r}
<1>1. new = Promoted(none, one)
  OBVIOUS
<1>2. none = Demoted(rows, Primaries(rows))
  OBVIOUS
<1> HIDE DEF none, one
<1>3. rows \in Table /\ UnusedIsBlank(rows) /\ Counted(rows) /\ SingleRow(rows)
  BY DEF TableOK
<1>4. /\ none \in Table
      /\ \A q \in Rows :
            /\ none[q].user = rows[q].user /\ none[q].removed = rows[q].removed
            /\ none[q].status = rows[q].status /\ none[q].live = rows[q].live
      /\ Active(none) = Active(rows) /\ Primaries(none) = Primaries(rows) \ Primaries(rows)
      /\ UnusedIsBlank(none) /\ Counted(none) /\ SingleRow(none)
      /\ \A status : Worked(rows, status) => Worked(none, status)
  <2>1. IsDemoted(rows, Primaries(rows), none)
    BY <1>2, <1>3, DemotedTable
  <2> QED BY <1>3, <2>1 DEF IsDemoted
<1>9. none \in Table /\ UnusedIsBlank(none) /\ Counted(none) /\ SingleRow(none)
  BY <1>4
<1>5. /\ new \in Table
      /\ \A q \in Rows :
            /\ new[q].user = none[q].user /\ new[q].removed = none[q].removed
            /\ new[q].status = none[q].status /\ new[q].live = none[q].live
      /\ Active(new) = Active(none) /\ Primaries(new) = Primaries(none) \cup (one \cap Active(none))
      /\ UnusedIsBlank(new) /\ Counted(new) /\ SingleRow(new)
      /\ \A status : Worked(none, status) => Worked(new, status)
  <2>1. IsPromoted(none, one, new)
    BY <1>1, <1>9, PromotedTable
  <2> QED BY <1>9, <2>1 DEF IsPromoted
<1>6. Primaries(new) = {r}
  <2>1. Primaries(none) = {} /\ r \in Active(none)
    BY <1>4
  <2> QED BY <1>5, <2>1 DEF one
<1>10. r \in Rows /\ new[r].user = rows[r].user
  BY <1>4, <1>5 DEF Active
<1>7. SinglePrimary(new) /\ Owned(new, rows[r].user)
  <2>1. SinglePrimary(new)
    BY <1>6 DEF SinglePrimary
  <2>2. {new[q].user : q \in Primaries(new)} = {rows[r].user}
    BY <1>6, <1>10
  <2> QED BY <1>6, <2>1, <2>2 DEF Owned
<1>8. KeptTable(rows, new) /\ UsedStays(rows, new)
  BY <1>4, <1>5 DEF KeptTable, Kept, UsedStays
<1> QED BY <1>4, <1>5, <1>7, <1>8 DEF TableOK

LEMMA ChangePrimaryStep ==
    ASSUME IInv, NEW r \in Rows, NEW status \in OpenStates \cup {"none"}, ChangePrimary(r, status)
    PROVE  StepOK
<1> DEFINE rows == Promoted(Demoted(assignment, Primaries(assignment)), {r})
           agent == assignment[r].user
<1>1. /\ ticket \in TicketType /\ TableOK(assignment) /\ r \in Active(assignment)
      /\ ticket.status \in OpenStates
      /\ "work" \notin slips => Worked(assignment, ticket.status)
  BY DEF IInv, Consistent, ChangePrimary, TicketType, TicketStates
<1>2. agent \in Users
  BY <1>1 DEF TableOK, Table, RowType, Active
<1>3. /\ TableOK(rows) /\ Owned(rows, agent) /\ Active(rows) = Active(assignment)
      /\ \A other : Worked(assignment, other) => Worked(rows, other)
      /\ KeptTable(assignment, rows) /\ UsedStays(assignment, rows)
      /\ \A q \in Rows : rows[q].live = assignment[q].live /\ rows[q].user = assignment[q].user
  BY <1>1, HandoverTable
<1>4. CASE status = "none"
  <2>1. /\ ticket' \in TicketType /\ ticket'.agent = agent
        /\ ticket'.status = ticket.status /\ ticket'.type = ticket.type
    BY <1>1, <1>2, <1>4 DEF ChangePrimary, TicketType
  <2>2. assignment' = rows
    BY <1>4 DEF ChangePrimary
  <2> HIDE DEF rows, agent
  <2> QED BY <1>1, <1>3, <2>1, <2>2 DEF StepOK, IInv, Consistent, ChangePrimary
<1>5. CASE status \in OpenStates
  <2> DEFINE known == [q \in Rows |-> rows[q].status]
             set == {r}
             new == [rows EXCEPT ![r] = AfterStatus(rows[r], rows[r].status, status)]
  <2>1. status # "none" /\ status \in TicketStates
    BY <1>5 DEF OpenStates, TicketStates
  <2>2. /\ ticket' \in TicketType /\ ticket'.agent = agent
        /\ ticket'.status = status /\ ticket'.type = ticket.type
    BY <1>1, <1>2, <2>1 DEF ChangePrimary, TicketType
  <2>3. assignment' = new
    BY <2>1 DEF ChangePrimary
  <2> HIDE DEF rows, agent
  <2>4. new = Worded(rows, set, known, status)
    BY <1>3 DEF Worded, TableOK, Table
  <2>5. known \in [Rows -> TicketStates]
    BY <1>3 DEF TableOK, Table, RowType
  <2>6. \A q \in Rows : q \in set => /\ rows[q].user # Nobody
                                     /\ known[q] = rows[q].status /\ IsActive(rows[q])
    BY <1>1, <1>3 DEF Active, IsActive
  <2> HIDE DEF new, known, set
  <2>7. /\ TableOK(new) /\ \A a : Owned(rows, a) => Owned(new, a)
        /\ KeptTable(rows, new) /\ UsedStays(rows, new)
        /\ KnownWell(rows, set, known, status) =>
              \A before, after \in OpenStates : Worked(rows, before) => Worked(new, after)
    <3>1. IsWorded(rows, set, known, status, new)
      BY <1>3, <1>5, <2>4, <2>5, <2>6, WordedTable
    <3> QED BY <3>1 DEF IsWorded
  <2>8. "work" \notin slips => Worked(new, status)
    <3>1. KnownWell(rows, set, known, status)
      BY <2>6 DEF KnownWell
    <3> QED BY <1>1, <1>3, <1>5, <2>7, <3>1
  <2>9. KeptTable(assignment, new) /\ UsedStays(assignment, new)
    BY <1>3, <2>7 DEF KeptTable, Kept, UsedStays
  <2> QED BY <1>1, <1>3, <2>2, <2>3, <2>7, <2>8, <2>9 DEF StepOK, IInv, Consistent, ChangePrimary
<1> QED BY <1>4, <1>5

\* A step that keeps every running clock, and then another.
LEMMA KeptThen ==
    ASSUME NEW rows, NEW mid, NEW new,
           \A r \in Rows : rows[r].live # 0 => mid[r].live = rows[r].live,
           UsedStays(rows, mid), KeptTable(mid, new), UsedStays(mid, new)
    PROVE  KeptTable(rows, new) /\ UsedStays(rows, new)
BY DEF KeptTable, Kept, UsedStays

LEMMA AttachStep ==
    ASSUME IInv, NEW u \in Users, NEW to \in Users \cup {Nobody}, AttachToClosed(u, to)
    PROVE  StepOK
<1> DEFINE old == assignment
           rows == Reopened(old)
           own == RowsOf(old, u) \ Primaries(old)
           moved == IF own = {} THEN Primaries(old) ELSE own
           status == IF own = {} THEN "IN_PROGRESS" ELSE "OPEN"
           known == [r \in Rows |-> rows[r].status]
           next == "IN_PROGRESS"
           mid == Worded(rows, moved, known, next)
<1>1. /\ ticket \in TicketType /\ TableOK(old) /\ ticket.status = "CLOSED"
      /\ "work" \notin slips => Worked(old, "CLOSED")
      /\ "owner" \notin slips => Owned(old, ticket.agent)
      /\ to # Nobody => Unused(old) # {}
  BY DEF IInv, Consistent, AttachToClosed
<1>2. /\ IF to = Nobody
         THEN ticket' = [ticket EXCEPT !.status = status] /\ assignment' = mid
         ELSE /\ ticket' = [ticket EXCEPT !.status = next, !.agent = to]
              /\ assignment' = PrimarySet(mid, to, next)
      /\ slips' = slips /\ category' = category
  <2>1. mid = [r \in Rows |-> IF r \in moved
                 THEN AfterStatus(rows[r], rows[r].status, next) ELSE rows[r]]
    BY DEF Worded
  <2>2. StatusAfterAssigning(status) = next
    BY DEF StatusAfterAssigning
  <2> HIDE DEF mid
  <2> QED BY <2>1, <2>2 DEF AttachToClosed
<1>3. /\ next \in OpenStates /\ next \in TicketStates /\ next # "CLOSED" /\ next # "RESOLVED"
      /\ status \in OpenStates /\ status \in TicketStates /\ "OPEN" \in OpenStates
  BY DEF OpenStates, TicketStates
<1>4. \A r \in Rows : r \in moved => r \in Active(old)
  BY DEF RowsOf, Primaries
<1> HIDE DEF rows, own, moved, status, next
<1>5. /\ TableOK(rows) /\ Active(rows) = Active(old) /\ Unused(rows) = Unused(old)
      /\ \A agent : Owned(old, agent) => Owned(rows, agent)
      /\ UsedStays(old, rows)
      /\ \A r \in Rows : old[r].live # 0 => rows[r].live = old[r].live
      /\ Worked(old, "CLOSED") => Worked(rows, "OPEN")
  BY <1>1, ReopenedTable DEF rows
<1>6. known \in [Rows -> TicketStates]
  BY <1>5 DEF TableOK, Table, RowType
<1>7. \A r \in Rows : r \in moved => /\ rows[r].user # Nobody
                                     /\ known[r] = rows[r].status /\ IsActive(rows[r])
  BY <1>4, <1>5 DEF Active, IsActive
<1>8. KnownWell(rows, moved, known, next)
  BY <1>7 DEF KnownWell
<1> HIDE DEF mid, known
<1>9. /\ TableOK(mid) /\ Unused(mid) = Unused(rows)
      /\ \A agent : Owned(rows, agent) => Owned(mid, agent)
      /\ KeptTable(rows, mid) /\ UsedStays(rows, mid)
      /\ \A r \in Rows : rows[r].live # 0 => mid[r].live = rows[r].live
      /\ \A before, after \in OpenStates : Worked(rows, before) => Worked(mid, after)
  <2>1. mid = Worded(rows, moved, known, next)
    BY DEF mid
  <2>2. \A r \in Rows : r \in moved => rows[r].user # Nobody
    BY <1>7
  <2>3. IsWorded(rows, moved, known, next, mid)
    BY <1>3, <1>5, <1>6, <2>1, <2>2, WordedTable
  <2> QED BY <1>3, <1>8, <2>3 DEF IsWorded
<1>10. CASE to = Nobody
  <2>1. /\ ticket' \in TicketType /\ ticket'.status = status
        /\ ticket'.agent = ticket.agent /\ ticket'.type = ticket.type
    BY <1>1, <1>2, <1>3, <1>10 DEF TicketType
  <2>2. KeptTable(old, mid) /\ UsedStays(old, mid)
    BY <1>5, <1>9, KeptThen
  <2>3. "work" \notin slips => Worked(mid, status)
    BY <1>1, <1>3, <1>5, <1>9
  <2>4. assignment' = mid
    BY <1>2, <1>10
  <2> QED BY <1>1, <1>2, <1>5, <1>9, <2>1, <2>2, <2>3, <2>4 DEF StepOK, IInv, Consistent, old
<1>11. CASE to \in Users
  <2> DEFINE new == PrimarySet(mid, to, next)
  <2>1. assignment' = new /\ ticket' = [ticket EXCEPT !.status = next, !.agent = to]
    BY <1>2, <1>11, Constants
  <2>2. /\ ticket' \in TicketType /\ ticket'.status = next
        /\ ticket'.agent = to /\ ticket'.type = ticket.type
    BY <1>1, <1>3, <1>11, <2>1 DEF TicketType
  <2>3. Unused(mid) # {}
    BY <1>1, <1>5, <1>9, <1>11, Constants
  <2>4. /\ TableOK(new) /\ Owned(new, to)
        /\ Worked(mid, next) => Worked(new, next)
        /\ KeptTable(mid, new) /\ UsedStays(mid, new)
    BY <1>3, <1>9, <1>11, <2>3, PrimarySetTable
  <2> HIDE DEF new
  <2>5. /\ UsedStays(old, mid)
        /\ \A r \in Rows : old[r].live # 0 => mid[r].live = old[r].live
    BY <1>5, <1>9 DEF UsedStays
  <2>6. KeptTable(old, new) /\ UsedStays(old, new)
    BY <2>4, <2>5, KeptThen
  <2>7. "work" \notin slips => Worked(new, next)
    <3>1. "work" \notin slips => Worked(rows, "OPEN")
      BY <1>1, <1>5
    <3>2. Worked(rows, "OPEN") => Worked(mid, next)
      BY <1>3, <1>9
    <3> QED BY <2>4, <3>1, <3>2
  <2>8. assignment' = new /\ slips' = slips /\ category' = category
    BY <1>2, <2>1
  <2>9. Consistent(ticket', new, category', slips')
    BY <1>1, <2>2, <2>4, <2>7, <2>8 DEF IInv, Consistent
  <2> QED BY <2>6, <2>8, <2>9 DEF StepOK, old
<1> QED BY <1>10, <1>11

---------------------------------------------------------------------------
(* Adding and removing assignees                                           *)

\* A table that u, and w unless it is Nobody, have joined.
IsJoined(rows, u, w, lead, new) ==
    /\ TableOK(new) /\ Active(new) # {} /\ Active(rows) \subseteq Active(new)
    /\ \A r \in Rows : rows[r].user # Nobody => new[r] = rows[r]
    /\ (lead = u \/ lead = w) /\ lead # Nobody => Owned(new, lead)
    /\ ~(lead = u \/ lead = w) \/ lead = Nobody => Primaries(new) = Primaries(rows)
    /\ \A other \in OpenStates : Worked(rows, other) => Worked(new, other)

\* One or two users join: the one who leads, if it is one of them, is the only
\* primary; otherwise the primary stays.
LEMMA JoinedTable ==
    ASSUME NEW rows, TableOK(rows), NEW u \in Users, NEW w \in Users \cup {Nobody}, u # w,
           RowsOf(rows, u) = {}, RowsOf(rows, w) = {},
           NEW lead \in Users \cup {Nobody},
           lead = u \/ lead = w => Primaries(rows) = {} \/ lead = Nobody,
           NEW su \in OpenStates, NEW sw \in OpenStates, Unused(rows) # {},
           NEW one, one = Added(rows, u, lead, su),
           w # Nobody => Unused(one) # {},
           NEW new, new = IF w = Nobody THEN one ELSE Added(one, w, lead, sw)
    PROVE  IsJoined(rows, u, w, lead, new)
<1> DEFINE k == FreeRow(rows)
           j == FreeRow(one)
<1>1. k = FreeRow(rows) /\ j = FreeRow(one)
  OBVIOUS
<1>2. /\ su \in TicketStates /\ su # "CLOSED" /\ sw \in TicketStates /\ sw # "CLOSED"
      /\ u = lead => Primaries(rows) = {}
  BY Constants DEF OpenStates, TicketStates
<1> HIDE DEF k, j
<1>3. /\ TableOK(one)
      /\ k \in Rows /\ rows[k].user = Nobody /\ one[k].user = u
      /\ \A r \in Rows \ {k} : one[r] = rows[r]
      /\ Active(one) = Active(rows) \cup {k} /\ k \notin Active(rows)
      /\ u = lead => Primaries(one) = {k}
      /\ u # lead => Primaries(one) = Primaries(rows)
      /\ \A other \in OpenStates : Worked(rows, other) => Worked(one, other)
  <2>1. IsAdded(rows, u, lead, su, k, one)
    BY <1>1, <1>2, AddedTable
  <2> QED BY <1>2, <2>1 DEF IsAdded
<1>4. CASE w = Nobody
  <2>1. new = one
    BY <1>4
  <2>2. lead = u => Owned(one, lead)
    BY <1>3 DEF Owned
  <2> QED BY <1>3, <1>4, <2>1, <2>2, Constants DEF IsJoined
<1>5. CASE w \in Users
  <2>1. new = Added(one, w, lead, sw) /\ Unused(one) # {}
    BY <1>5, Constants
  <2>2. RowsOf(one, w) = {}
    BY <1>3 DEF RowsOf, Active
  <2>3. w = lead => Primaries(one) = {}
    BY <1>3, <1>5, Constants
  <2>4. /\ TableOK(new)
        /\ j \in Rows /\ one[j].user = Nobody /\ new[j].user = w
        /\ \A r \in Rows \ {j} : new[r] = one[r]
        /\ Active(new) = Active(one) \cup {j} /\ j \notin Active(one)
        /\ w = lead => Primaries(new) = {j}
        /\ w # lead => Primaries(new) = Primaries(one)
        /\ \A other \in OpenStates : Worked(one, other) => Worked(new, other)
    <3>1. IsAdded(one, w, lead, sw, j, new)
      BY <1>1, <1>2, <1>3, <1>5, <2>1, <2>2, <2>3, AddedTable
    <3> QED BY <1>2, <3>1 DEF IsAdded
  <2>5. ASSUME NEW r \in Rows, rows[r].user # Nobody PROVE new[r] = rows[r]
    BY <1>3, <2>4, <2>5
  <2>6. lead = w => Owned(new, lead)
    BY <2>4 DEF Owned
  <2>7. lead = u => Owned(new, lead)
    <3> SUFFICES ASSUME lead = u PROVE Owned(new, lead)
      OBVIOUS
    <3>1. Primaries(new) = {k} /\ new[k].user = u
      BY <1>3, <2>4, Constants
    <3> QED BY <3>1 DEF Owned
  <2>8. ~(lead = u \/ lead = w) => Primaries(new) = Primaries(rows)
    BY <1>3, <2>4
  <2>9. lead = Nobody => lead # u /\ lead # w
    BY <1>5, Constants
  <2>10. Active(new) # {} /\ Active(rows) \subseteq Active(new)
    BY <1>3, <2>4
  <2> QED BY <1>3, <2>4, <2>5, <2>6, <2>7, <2>8, <2>9, <2>10 DEF IsJoined
<1> QED BY <1>4, <1>5

LEMMA AddUsersStep ==
    ASSUME IInv, NEW s \in Sessions, NEW u \in Users,
           NEW w \in Users \cup {Nobody}, NEW named \in Users \cup {Nobody},
           AddUsers(s, u, w, named)
    PROVE  StepOK
<1> DEFINE rows == assignment
           main == Primaries(rows)
           taken == TakenForPrimary(s)
           old == IF main # {} THEN main ELSE taken
           lead == IF old = {} /\ named = Nobody THEN u ELSE named
           demoted == {r \in old : lead # Nobody /\ rows[r].user # lead}
           fresh == lead \in {u, w} \ {Nobody}
           promoted == RowsOf(rows, lead) \ taken
           status == IF fresh THEN StatusAfterAssigning(ticket.status) ELSE ticket.status
           start(v) == IF v = lead THEN status ELSE "OPEN"
           su == start(u)
           sw == start(w)
           mid == Demoted(rows, demoted)
           one == Added(mid, u, lead, su)
           all == IF w = Nobody THEN one ELSE Added(one, w, lead, sw)
           new == Promoted(all, promoted)
           before == sess[s].before
           late == Outdated(s) /\ before \in RowsOf(rows, lead)
<1>1. /\ ticket \in TicketType /\ TableOK(rows)
      /\ "work" \notin slips => Worked(rows, ticket.status)
      /\ "owner" \notin slips => Owned(rows, ticket.agent)
  BY DEF IInv, Consistent
<1>2. /\ ticket.status # "CLOSED" /\ u # w /\ RowsOf(rows, u) = {} /\ RowsOf(rows, w) = {}
      /\ Unused(rows) # {} /\ (w # Nobody => Unused(one) # {})
      /\ named \in {u, w, Nobody} \cup {rows[r].user : r \in Active(rows)}
      /\ assignment' = new
      /\ ticket' = IF fresh \/ promoted # {}
                   THEN [ticket EXCEPT !.agent = lead, !.status = status] ELSE ticket
      /\ slips' = IF late THEN slips \cup {"owner"} ELSE slips
      /\ category' = category
  BY DEF AddUsers, Slip
<1>3. /\ ticket.status \in OpenStates /\ status \in OpenStates /\ su \in OpenStates
      /\ sw \in OpenStates /\ status \in TicketStates
  BY <1>1, <1>2 DEF TicketType, TicketStates, OpenStates, StatusAfterAssigning
<1>4. lead \in Users \cup {Nobody} /\ taken = main \cup ({before} \cap Active(rows))
  BY DEF TakenForPrimary
<1>5. /\ lead = u \/ lead = w => fresh \/ lead = Nobody
      /\ fresh => (lead = u \/ lead = w) /\ lead # Nobody
  BY Constants
<1>6. /\ promoted \subseteq RowsOf(rows, lead)
      /\ fresh => promoted = {}
  BY <1>2, <1>5
<1>7. fresh => \A r \in Rows : r \in old => r \in demoted
  <2> SUFFICES ASSUME fresh, NEW r \in Rows, r \in old, r \notin demoted PROVE FALSE
    OBVIOUS
  <2>1. r \in Active(rows)
    BY <1>4 DEF Primaries
  <2>2. rows[r].user = lead
    BY <1>5
  <2> QED BY <1>2, <1>5, <2>1, <2>2 DEF RowsOf
<1>8. IsDemoted(rows, demoted, mid)
  BY <1>1, DemotedTable DEF TableOK
<1>9. fresh => Primaries(mid) = {}
  <2>1. Primaries(mid) = main \ demoted
    BY <1>8 DEF IsDemoted
  <2>2. main = {} \/ old = main
    OBVIOUS
  <2>3. \A r \in main : r \in Rows
    BY DEF Primaries, Active
  <2> QED BY <1>7, <2>1, <2>2, <2>3
<1> HIDE DEF demoted, late, status, start, su, sw
<1>10. /\ mid \in Table /\ UnusedIsBlank(mid) /\ Counted(mid) /\ SingleRow(mid)
       /\ \A r \in Rows : mid[r].user = rows[r].user /\ mid[r].live = rows[r].live
       /\ Active(mid) = Active(rows) /\ Primaries(mid) = main \ demoted
       /\ Unused(mid) = Unused(rows)
       /\ \A v : RowsOf(mid, v) = RowsOf(rows, v)
       /\ \A other : Worked(rows, other) => Worked(mid, other)
  BY <1>1, <1>8 DEF IsDemoted, TableOK, Unused, RowsOf, Active
<1> HIDE DEF mid
<1>11. TableOK(mid)
  BY <1>1, <1>10 DEF TableOK, SinglePrimary
<1>12. IsJoined(mid, u, w, lead, all)
  <2>1. RowsOf(mid, u) = {} /\ RowsOf(mid, w) = {} /\ Unused(mid) # {}
    BY <1>2, <1>10
  <2>2. lead = u \/ lead = w => Primaries(mid) = {} \/ lead = Nobody
    BY <1>5, <1>9
  <2> HIDE DEF lead, fresh
  <2>3. one = Added(mid, u, lead, su) /\ all = IF w = Nobody THEN one ELSE Added(one, w, lead, sw)
    OBVIOUS
  <2> HIDE DEF one, all
  <2> QED BY <1>2, <1>3, <1>4, <1>11, <2>1, <2>2, <2>3, JoinedTable
<1> HIDE DEF one, all
<1>13. /\ TableOK(all) /\ Active(all) # {} /\ Active(mid) \subseteq Active(all)
       /\ \A r \in Rows : mid[r].user # Nobody => all[r] = mid[r]
       /\ fresh => Owned(all, lead)
       /\ ~fresh => Primaries(all) = Primaries(mid)
       /\ \A other \in OpenStates : Worked(mid, other) => Worked(all, other)
  <2> HIDE DEF lead, fresh
  <2> QED BY <1>5, <1>12 DEF IsJoined
<1>14. IsPromoted(all, promoted, new)
  <2>1. all \in Table
    BY <1>13 DEF TableOK
  <2> HIDE DEF promoted
  <2> QED BY <2>1, PromotedTable
<1> HIDE DEF new
<1>15. /\ Primaries(new) = Primaries(all) \cup (promoted \cap Active(all))
       /\ Active(new) = Active(all) /\ new \in Table /\ UnusedIsBlank(new) /\ Counted(new)
       /\ SingleRow(new)
       /\ \A r \in Rows : new[r].user = all[r].user /\ new[r].live = all[r].live
       /\ \A other : Worked(all, other) => Worked(new, other)
       /\ promoted = {} => \A r \in Rows : new[r] = all[r]
  <2> HIDE DEF promoted
  <2> QED BY <1>13, <1>14 DEF IsPromoted, TableOK
<1>16. \A agent : Owned(all, agent) /\ promoted = {} => Owned(new, agent)
  <2> SUFFICES ASSUME NEW agent, Owned(all, agent), promoted = {} PROVE Owned(new, agent)
    OBVIOUS
  <2>1. Primaries(new) = Primaries(all) /\ \A r \in Rows : new[r] = all[r]
    BY <1>15
  <2>2. {new[r].user : r \in Primaries(new)} = {all[r].user : r \in Primaries(all)}
    BY <2>1 DEF Primaries, Active
  <2> QED BY <1>15, <2>1, <2>2 DEF Owned
<1>17. \A r \in Active(rows) : new[r].user = rows[r].user /\ r \in Rows /\ r \in Active(new)
  BY <1>10, <1>13, <1>15 DEF Active
<1>18. \A p, q \in Active(rows) : rows[p].user = rows[q].user => p = q
  BY <1>1 DEF TableOK, SingleRow
<1>19. \A p, q \in main : p = q
  BY <1>1 DEF TableOK, SinglePrimary
<1>20. main \subseteq Active(rows) /\ \A r \in Active(rows) : rows[r].user # Nobody
  BY DEF Primaries, Active
<1>21. ASSUME ~fresh
       PROVE  SinglePrimary(new)
  <2>1. Primaries(new) = (main \ demoted) \cup (promoted \cap Active(all))
    BY <1>10, <1>13, <1>15, <1>21
  <2>2. \A p \in promoted : p \in Active(rows) /\ rows[p].user = lead /\ p \notin main
    BY <1>4, <1>6 DEF RowsOf
  <2>3. ASSUME NEW p \in main \ demoted, NEW q \in promoted PROVE FALSE
    <3>1. lead # Nobody /\ rows[p].user # lead
      BY <1>18, <1>20, <2>2, <2>3
    <3>2. p \in old
      OBVIOUS
    <3> QED BY <3>1, <3>2 DEF demoted
  <2>4. \A p, q \in promoted : p = q
    BY <1>18, <2>2
  <2> HIDE DEF promoted, main
  <2> QED BY <1>19, <2>1, <2>3, <2>4 DEF SinglePrimary
<1>22. SinglePrimary(new)
  <2>1. CASE fresh
    BY <1>6, <1>13, <1>15, <2>1 DEF TableOK, SinglePrimary
  <2> QED BY <1>21, <2>1
<1>23. ASSUME ~fresh, Owned(rows, ticket.agent), ~late
       PROVE  Owned(new, ticket'.agent)
  <2>1. CASE promoted # {}
    <3>1. PICK x \in promoted : x \in Active(rows) /\ rows[x].user = lead /\ x \notin main
      BY <1>4, <1>6, <2>1 DEF RowsOf
    <3>2. PICK p \in main : p \in Active(rows)
      BY <1>20, <1>23, <3>1 DEF Owned
    <3>3. lead # Nobody /\ rows[p].user # lead /\ p \in old
      BY <1>18, <1>20, <3>1, <3>2
    <3>4. main \ demoted = {}
      BY <1>19, <3>2, <3>3 DEF demoted
    <3>5. promoted = {x}
      BY <1>18, <3>1 DEF RowsOf
    <3>6. Primaries(new) = {x} /\ new[x].user = lead
      BY <1>10, <1>13, <1>15, <1>17, <1>23, <3>1, <3>4, <3>5
    <3>7. ticket'.agent = lead
      <4> HIDE DEF lead, promoted, fresh
      <4> QED BY <1>1, <1>2, <1>3, <1>4, <2>1 DEF TicketType
    <3>8. Owned(new, lead)
      BY <3>6 DEF Owned
    <3> QED BY <3>7, <3>8
  <2>2. CASE promoted = {}
    <3>1. ticket' = ticket
      BY <1>2, <1>23, <2>2
    <3>2. \/ old # {} /\ lead = Nobody
          \/ lead # Nobody /\ \E x \in Active(rows) : rows[x].user = lead
      BY <1>2, <1>5, <1>23, Constants
    <3>3. Active(rows) # {}
      BY <1>4, <1>20, <3>2
    <3>4. PICK p \in main : TRUE
      BY <1>23, <3>3 DEF Owned
    <3>5. old = main /\ main = {p} /\ p \in Active(rows) /\ p \in Rows
      BY <1>19, <1>20, <3>4 DEF Active
    <3>6. demoted = {}
      <4> SUFFICES ASSUME lead # Nobody, rows[p].user # lead PROVE FALSE
        BY <3>5 DEF demoted
      <4>1. PICK x \in Active(rows) : rows[x].user = lead
        BY <3>2
      <4>2. x \notin main /\ x \in RowsOf(rows, lead) /\ x # 0
        BY <3>5, <4>1 DEF RowsOf, Active, Rows
      <4>3. x \in taken
        BY <2>2, <4>2
      <4>4. x = before
        BY <1>4, <4>2, <4>3
      <4> QED BY <1>23, <4>2, <4>4 DEF late, Outdated
    <3>7. Primaries(new) = {p} /\ new[p].user = rows[p].user
      BY <1>10, <1>13, <1>15, <1>17, <1>23, <2>2, <3>5, <3>6
    <3>8. ticket.agent = rows[p].user
      BY <1>23, <3>5 DEF Owned
    <3> QED BY <3>1, <3>7, <3>8 DEF Owned
  <2> QED BY <2>1, <2>2
<1>24. ASSUME "owner" \notin slips'
       PROVE  Owned(new, ticket'.agent)
  <2>1. ~late /\ Owned(rows, ticket.agent)
    BY <1>1, <1>2, <1>24
  <2>2. CASE fresh
    <3>1. Owned(new, lead)
      BY <1>6, <1>13, <1>16, <2>2
    <3>2. ticket'.agent = lead
      <4> HIDE DEF lead, promoted, fresh
      <4> QED BY <1>1, <1>2, <1>3, <1>4, <2>2 DEF TicketType
    <3> QED BY <3>1, <3>2
  <2> QED BY <1>23, <2>1, <2>2
<1>25. /\ ticket' \in TicketType /\ ticket'.status \in OpenStates
       /\ ticket'.type = ticket.type
  <2> HIDE DEF lead, promoted, fresh
  <2> QED BY <1>1, <1>2, <1>3, <1>4 DEF TicketType
<1>26. ASSUME "work" \notin slips'
       PROVE  Worked(new, ticket'.status)
  <2>1. Worked(rows, ticket.status)
    BY <1>1, <1>2, <1>26
  <2>2. Worked(rows, ticket'.status)
    BY <1>3, <1>25, <2>1, OpenWorked
  <2> QED BY <1>10, <1>13, <1>15, <1>25, <2>2
<1>27. KeptTable(rows, new) /\ UsedStays(rows, new)
  <2>1. ASSUME NEW r \in Rows, rows[r].user # Nobody
        PROVE  new[r].user # Nobody /\ new[r].live = rows[r].live
    BY <1>10, <1>13, <1>15, <2>1
  <2>2. ASSUME NEW r \in Rows, rows[r].user = Nobody
        PROVE  rows[r].live = 0
    BY <1>1, <2>2 DEF TableOK, UnusedIsBlank
  <2> QED BY <2>1, <2>2 DEF KeptTable, Kept, UsedStays
<1>28. TableOK(new)
  BY <1>15, <1>22 DEF TableOK
<1>29. Consistent(ticket', new, category', slips')
  <2> HIDE DEF late
  <2> QED BY <1>2, <1>24, <1>25, <1>26, <1>28 DEF IInv, Consistent
<1> QED BY <1>2, <1>27, <1>29 DEF StepOK

\* What a session that is adding or removing holds.
LEMMA HeldRow ==
    ASSUME IInv, NEW s \in Sessions, sess[s].op = "assign"
    PROVE  /\ sess[s].before \in Rows \cup {0}
           /\ sess[s].before # 0 => assignment[sess[s].before].user # Nobody
<1>1. sess[s] \in InFlight \cup {Idle} /\ Holds(assignment, slips, sess[s])
  BY DEF IInv, SessionsOK
<1>2. sess[s].before \in Rows \cup {0}
  BY <1>1 DEF InFlight, Idle
<1> QED BY <1>1, <1>2 DEF Holds

LEMMA RemoveAssignmentStep ==
    ASSUME IInv, NEW s \in Sessions, NEW r \in Rows, NEW next \in Rows \cup {0},
           RemoveAssignment(s, r, next)
    PROVE  StepOK
<1> DEFINE rows == assignment
           main == Primaries(rows)
           before == sess[s].before
           others == Active(rows) \ {r}
           was == r \in TakenForPrimary(s) \cup {before}
           gone == {r}
           left == Left(rows, gone)
           set == {next} \ {0, before}
           new == Promoted(left, set)
           agent == IF next = 0 THEN Nobody ELSE rows[next].user
           late == Outdated(s) /\ next # 0 /\ next = before
           twice == \E p, q \in Primaries(new) : p # q
<1>1. /\ ticket \in TicketType /\ TableOK(rows)
      /\ "work" \notin slips => Worked(rows, ticket.status)
      /\ "owner" \notin slips => Owned(rows, ticket.agent)
  BY DEF IInv, Consistent
<1>2. /\ r \in Active(rows) \cup ({before} \ {0})
      /\ next \in IF was /\ others # {} THEN others ELSE {0}
      /\ IF twice THEN UNCHANGED <<ticket, assignment, slips>>
         ELSE /\ assignment' = new
              /\ ticket' = IF was THEN [ticket EXCEPT !.agent = agent] ELSE ticket
              /\ slips' = IF late THEN slips \cup {"owner"} ELSE slips
      /\ category' = category
  <2>1. left = [rows EXCEPT ![r] = SoftRemoved(rows[r])]
    BY <1>1 DEF Left, TableOK, Table
  <2> HIDE DEF left
  <2> QED BY <2>1 DEF RemoveAssignment, Slip
<1>3. 0 \notin Rows /\ main \subseteq Active(rows) /\ Active(rows) \subseteq Rows
  BY DEF Rows, Primaries, Active
<1>4. CASE twice
  <2>1. UNCHANGED <<ticket, assignment, slips, category>>
    BY <1>2, <1>4
  <2> HIDE DEF twice
  <2> QED BY <2>1, SameKept DEF StepOK, IInv, Consistent
<1>5. CASE ~twice
  <2>1. /\ assignment' = new
        /\ ticket' = IF was THEN [ticket EXCEPT !.agent = agent] ELSE ticket
        /\ slips' = IF late THEN slips \cup {"owner"} ELSE slips
        /\ category' = category
    BY <1>2, <1>5
  <2> HIDE DEF gone, left, set, new, was, late
  <2>2. /\ TableOK(left) /\ \A q \in Rows : left[q].user = rows[q].user
        /\ Active(left) = Active(rows) \ gone /\ Primaries(left) = main \ gone
        /\ \A status : Worked(rows, status) => Worked(left, status)
        /\ KeptTable(rows, left) /\ UsedStays(rows, left)
    BY <1>1, LeftTable DEF left
  <2>3. IsPromoted(left, set, new)
    BY <2>2, PromotedTable DEF TableOK, new
  <2>4. /\ new \in Table /\ UnusedIsBlank(new) /\ Counted(new) /\ SingleRow(new)
        /\ \A q \in Rows : /\ new[q].user = left[q].user /\ new[q].live = left[q].live
                           /\ new[q].status = left[q].status /\ new[q].removed = left[q].removed
        /\ Active(new) = Active(left) /\ Primaries(new) = Primaries(left) \cup (set \cap Active(left))
        /\ \A status : Worked(left, status) => Worked(new, status)
    BY <2>2, <2>3 DEF IsPromoted, TableOK
  <2>5. TableOK(new)
    BY <1>5, <2>4 DEF TableOK, SinglePrimary
  <2>6. KeptTable(rows, new) /\ UsedStays(rows, new)
    BY <2>2, <2>4 DEF KeptTable, Kept, UsedStays
  <2>7. /\ Active(new) = others /\ Primaries(new) = (main \ {r}) \cup (set \cap others)
        /\ \A q \in Rows : new[q].user = rows[q].user
    BY <2>2, <2>4 DEF gone
  <2>8. agent \in Users \cup {Nobody}
    BY <1>1 DEF TableOK, Table, RowType
  <2>9. /\ ticket' \in TicketType /\ ticket'.status = ticket.status /\ ticket'.type = ticket.type
        /\ was => ticket'.agent = agent
        /\ ~was => ticket'.agent = ticket.agent
    BY <1>1, <2>1, <2>8 DEF TicketType
  <2>10. ASSUME "owner" \notin slips'
         PROVE  Owned(new, ticket'.agent)
    <3>1. ~late /\ Owned(rows, ticket.agent)
      BY <1>1, <2>1, <2>10
    <3>2. CASE ~was
      <4>1. set \cap others = {} /\ r \in Active(rows) /\ r \notin main
        BY <1>2, <1>3, <3>2 DEF set, was, TakenForPrimary
      <4>2. PICK p \in main : TRUE
        BY <3>1, <4>1 DEF Owned
      <4>3. main = {p}
        BY <1>1, <4>2 DEF TableOK, SinglePrimary
      <4>4. Primaries(new) = {p} /\ p \in Rows /\ new[p].user = rows[p].user
        BY <1>3, <2>7, <4>1, <4>3
      <4>5. ticket.agent = rows[p].user
        BY <3>1, <4>3 DEF Owned
      <4> QED BY <2>9, <3>2, <4>4, <4>5 DEF Owned
    <3>3. CASE was /\ others = {}
      <4>1. next = 0 /\ Active(new) = {}
        BY <1>2, <2>7, <3>3
      <4>2. Primaries(new) = {}
        BY <4>1 DEF Primaries
      <4> QED BY <2>9, <3>3, <4>1, <4>2 DEF Owned
    <3>4. CASE was /\ others # {}
      <4>1. next \in others /\ next # 0 /\ next \in Rows
        BY <1>2, <1>3, <3>4
      <4>2. Primaries(new) = {next}
        <5>1. CASE next = before
          <6>1. next \in main
            BY <3>1, <4>1, <5>1 DEF late, Outdated
          <6>2. main = {next}
            BY <1>1, <6>1 DEF TableOK, SinglePrimary
          <6> QED BY <2>7, <4>1, <5>1, <6>2 DEF set
        <5>2. CASE next # before
          <6>1. set = {next}
            BY <4>1, <5>2 DEF set
          <6>2. next \in Primaries(new)
            BY <2>7, <4>1, <6>1
          <6> QED BY <1>5, <6>2
        <5> QED BY <5>1, <5>2
      <4>3. new[next].user = agent
        BY <2>7, <4>1
      <4> QED BY <2>9, <3>4, <4>2, <4>3 DEF Owned
    <3> QED BY <3>2, <3>3, <3>4
  <2>11. "work" \notin slips' => Worked(new, ticket'.status)
    BY <1>1, <2>1, <2>2, <2>4, <2>9
  <2>12. Consistent(ticket', new, category', slips')
    BY <2>1, <2>5, <2>9, <2>10, <2>11 DEF IInv, Consistent
  <2> QED BY <2>1, <2>6, <2>12 DEF StepOK
<1> QED BY <1>4, <1>5

---------------------------------------------------------------------------
(* Writes of handlers that loaded before                                   *)

LEMMA CommitSecondaryStep ==
    ASSUME IInv, NEW s \in Sessions, NEW new \in OpenStates, CommitSecondary(s, new)
    PROVE  StepOK
<1> DEFINE rows == assignment
           t == sess[s]
           a == rows[t.row]
           set == {t.row}
           known == [r \in Rows |-> t.seen]
           after == [rows EXCEPT ![t.row] = AfterStatus(a, t.seen, new)]
           late == new # t.seen /\ (a.removed \/ a.status # t.seen)
<1>1. /\ ticket \in TicketType /\ TableOK(rows) /\ rows \in Table
      /\ "work" \notin slips => Worked(rows, ticket.status)
      /\ "owner" \notin slips => Owned(rows, ticket.agent)
  BY DEF IInv, Consistent, TableOK
<1>2. t \in InFlight \cup {Idle} /\ t.op = "secondary" /\ Holds(rows, slips, t)
  BY DEF IInv, SessionsOK, CommitSecondary
<1>3. t.row \in Rows /\ t.seen \in TicketStates
  BY <1>2 DEF InFlight, Idle
<1>4. a.user # Nobody /\ ("work" \notin slips => t.seen # "CLOSED")
  BY <1>2 DEF Holds
<1>5. /\ ticket' = ticket /\ category' = category /\ assignment' = after
      /\ slips' = IF late THEN slips \cup {"work"} ELSE slips
  BY DEF CommitSecondary, Slip
<1>6. after = Worded(rows, set, known, new)
  BY <1>1, <1>3 DEF Worded, Table
<1>7. known \in [Rows -> TicketStates] /\ \A r \in Rows : r \in set => rows[r].user # Nobody
  BY <1>3, <1>4
<1>8. ~late => KnownWell(rows, set, known, new)
  BY <1>3, <1>4 DEF KnownWell, IsActive
<1>11. new = t.seen => after = rows
  BY <1>1, <1>3 DEF AfterStatus, Table
<1> HIDE DEF after, set, known
<1>9. IsWorded(rows, set, known, new, after)
  BY <1>1, <1>6, <1>7, WordedTable
<1>10. ASSUME "work" \notin slips' PROVE Worked(after, ticket.status)
  <2>1. ~late /\ Worked(rows, ticket.status)
    BY <1>1, <1>5, <1>10
  <2>2. CASE new = t.seen
    BY <1>11, <2>1, <2>2
  <2>3. CASE new # t.seen
    <3>1. RowWorked(a, ticket.status) /\ IsActive(a) /\ a.status # "CLOSED"
      BY <1>3, <1>4, <1>5, <1>10, <2>1, <2>3 DEF Worked, IsActive
    <3>2. ticket.status \in OpenStates
      BY <1>1, <3>1 DEF RowWorked, TicketType, TicketStates
    <3> QED BY <1>8, <1>9, <2>1, <3>2 DEF IsWorded
  <2> QED BY <2>2, <2>3
<1> HIDE DEF late
<1>12. Consistent(ticket', after, category', slips')
  BY <1>1, <1>5, <1>9, <1>10 DEF IInv, Consistent, IsWorded
<1> QED BY <1>5, <1>9, <1>12 DEF StepOK, IsWorded

LEMMA CommitStatusStep ==
    ASSUME IInv, NEW s \in Sessions, NEW new \in OpenStates, CommitStatus(s, new)
    PROVE  StepOK
<1> DEFINE rows == assignment
           t == sess[s]
           main == Primaries(rows)
           seen(r) == IF r = t.row THEN t.seen ELSE rows[r].status
           known == [r \in Rows |-> IF r \in main THEN seen(r) ELSE "OPEN"]
           after == [r \in Rows |-> IF r \in main THEN AfterStatus(rows[r], seen(r), new)
                                                  ELSE rows[r]]
           status == IF new = t.ticket THEN ticket.status ELSE new
           late == \/ ticket.status = "CLOSED"
                   \/ \E r \in main : seen(r) \notin {new, rows[r].status}
<1>1. /\ ticket \in TicketType /\ TableOK(rows) /\ rows \in Table
      /\ "work" \notin slips => Worked(rows, ticket.status)
      /\ "owner" \notin slips => Owned(rows, ticket.agent)
  BY DEF IInv, Consistent, TableOK
<1>2. t \in InFlight \cup {Idle} /\ t.op = "status"
  BY DEF IInv, SessionsOK, CommitStatus
<1>3. t.seen \in TicketStates /\ new \in TicketStates /\ "OPEN" \in TicketStates
  BY <1>2 DEF InFlight, Idle, TicketStates, OpenStates
<1>4. /\ ticket' = [ticket EXCEPT !.status = status] /\ category' = category
      /\ assignment' = after
      /\ slips' = IF late THEN slips \cup {"work"} ELSE slips
  BY DEF CommitStatus, Slip
<1>5. /\ ticket' \in TicketType /\ ticket'.status = status /\ ticket'.agent = ticket.agent
      /\ ticket'.type = ticket.type
  BY <1>1, <1>3, <1>4 DEF TicketType
<1>6. after = Worded(rows, main, known, new)
  BY DEF Worded
<1>7. \A r \in Rows : r \in main => rows[r].user # Nobody /\ IsActive(rows[r])
  BY DEF Primaries, Active, IsActive
<1>8. known \in [Rows -> TicketStates]
  BY <1>1, <1>3 DEF Table, RowType
<1>9. ~late => KnownWell(rows, main, known, new)
  BY <1>7 DEF KnownWell
<1>10. ~late => ticket.status \in OpenStates
  BY <1>1 DEF TicketType, TicketStates
<1>11. ~late => status \in OpenStates
  BY <1>10
<1> HIDE DEF after, known, main, late, status, seen
<1>12. IsWorded(rows, main, known, new, after)
  BY <1>1, <1>6, <1>7, <1>8, WordedTable
<1>13. "work" \notin slips' => Worked(after, status)
  BY <1>1, <1>4, <1>9, <1>10, <1>11, <1>12 DEF IsWorded
<1>14. Consistent(ticket', after, category', slips')
  BY <1>1, <1>4, <1>5, <1>12, <1>13 DEF IInv, Consistent, IsWorded
<1> QED BY <1>4, <1>12, <1>14 DEF StepOK, IsWorded

LEMMA CommitTransferStep ==
    ASSUME IInv, NEW s \in Sessions, NEW u \in Users, NEW c \in Names,
           CommitTransfer(s, u, c)
    PROVE  StepOK
<1> DEFINE rows == assignment
           t == sess[s]
           status == IF t.status = "OPEN" THEN "IN_PROGRESS" ELSE ticket.status
           new == PrimarySet(rows, u, status)
           agent == IF u = t.agent THEN ticket.agent ELSE u
           owner == u = t.agent /\ ticket.agent # u
           work == status # ticket.status /\ ticket.status = "CLOSED"
<1>1. /\ ticket \in TicketType /\ TableOK(rows) /\ category \in CategoryType
      /\ "work" \notin slips => Worked(rows, ticket.status)
      /\ "owner" \notin slips => Owned(rows, ticket.agent)
      /\ "type" \notin slips /\ ticket.type \in Categories => ticket.type = category.main
      /\ slips \subseteq {"owner", "work", "type"}
      /\ category.main \notin category.others
  BY DEF IInv, Consistent
<1>2. /\ Unused(rows) # {}
      /\ ticket' = [status |-> status, agent |-> agent,
                    type |-> IF c = t.type THEN ticket.type ELSE c]
      /\ assignment' = new
      /\ category' = IF c = t.type THEN category ELSE Synced(category, c)
      /\ c \in Categories \cup {t.type}
      /\ slips' = slips \cup (IF owner THEN {"owner"} ELSE {}) \cup (IF work THEN {"work"} ELSE {})
  BY DEF CommitTransfer
<1>3. status \in TicketStates /\ agent \in Users \cup {Nobody}
  BY <1>1 DEF TicketType, TicketStates, OpenStates
<1>4. /\ ticket' \in TicketType /\ ticket'.status = status /\ ticket'.agent = agent
      /\ ticket'.type = IF c = t.type THEN ticket.type ELSE c
  BY <1>1, <1>2, <1>3 DEF TicketType
<1>5. /\ category' \in CategoryType /\ category'.main \notin category'.others
      /\ "type" \notin slips /\ ticket'.type \in Categories => ticket'.type = category'.main
  <2>1. CASE c = t.type
    BY <1>1, <1>2, <1>4, <2>1
  <2>2. CASE c # t.type
    <3>1. category' = Synced(category, c) /\ c \in Categories /\ ticket'.type = c
      BY <1>2, <1>4, <2>2
    <3> QED BY <1>1, <3>1, SyncedCategory
  <2> QED BY <2>1, <2>2
<1>6. /\ "type" \notin slips' => "type" \notin slips
      /\ "owner" \notin slips' => agent = u
      /\ "work" \notin slips' => "work" \notin slips /\ ~work
      /\ slips' \subseteq {"owner", "work", "type"}
  BY <1>1, <1>2
<1>7. ~work => status = ticket.status \/ (status \in OpenStates /\ ticket.status \in OpenStates)
  BY <1>1 DEF TicketType, TicketStates, OpenStates
<1> HIDE DEF status, agent, owner, work
<1>8. /\ TableOK(new) /\ Owned(new, u)
      /\ Worked(rows, status) => Worked(new, status)
      /\ KeptTable(rows, new) /\ UsedStays(rows, new)
  BY <1>1, <1>2, <1>3, PrimarySetTable
<1> HIDE DEF new
<1>9. "work" \notin slips' => Worked(new, status)
  BY <1>1, <1>6, <1>7, <1>8, OpenWorked
<1>10. Consistent(ticket', new, category', slips')
  BY <1>4, <1>5, <1>6, <1>8, <1>9 DEF Consistent
<1> QED BY <1>2, <1>8, <1>10 DEF StepOK

LEMMA CommitTypeStep ==
    ASSUME IInv, NEW s \in Sessions, NEW c \in Names, CommitType(s, c)
    PROVE  StepOK
<1> DEFINE t == sess[s]
           type == IF c = t.type THEN ticket.type ELSE c
           late == c = t.type /\ ticket.type # c /\ {c, ticket.type} \subseteq Categories
<1>1. /\ ticket \in TicketType /\ category \in CategoryType /\ category.main \notin category.others
      /\ "type" \notin slips /\ ticket.type \in Categories => ticket.type = category.main
  BY DEF IInv, Consistent
<1>2. /\ ticket' = [ticket EXCEPT !.type = type] /\ assignment' = assignment
      /\ category' = Synced(category, c)
      /\ slips' = IF late THEN slips \cup {"type"} ELSE slips
  BY DEF CommitType, Slip
<1>3. type \in Names
  BY <1>1 DEF TicketType
<1>4. /\ ticket' \in TicketType /\ ticket'.status = ticket.status
      /\ ticket'.agent = ticket.agent /\ ticket'.type = type
  BY <1>1, <1>2, <1>3 DEF TicketType
<1>5. /\ category' \in CategoryType /\ category'.main \notin category'.others
      /\ c \in Categories => category'.main = c
      /\ c \notin Categories => category' = category
  BY <1>1, <1>2, SyncedCategory
<1>6. /\ "type" \notin slips' => "type" \notin slips
      /\ "type" \notin slips' /\ type \in Categories => type = category'.main
  <2>1. CASE c \in Categories
    BY <1>2, <1>5, <2>1
  <2>2. CASE c \notin Categories
    BY <1>1, <1>2, <1>5, <2>2
  <2> QED BY <2>1, <2>2
<1> HIDE DEF type, late
<1> QED BY <1>2, <1>4, <1>5, <1>6, SameKept DEF StepOK, IInv, Consistent

LEMMA CommitPatchStep ==
    ASSUME IInv, NEW s \in Sessions, NEW new \in TicketStates, CommitPatch(s, new)
    PROVE  StepOK
<1> DEFINE t == sess[s]
           status == IF new = t.status THEN ticket.status ELSE new
           late == new # t.status /\ ~(new = "CLOSED" <=> ticket.status = "CLOSED")
<1>1. ticket \in TicketType
  BY DEF IInv, Consistent
<1>2. /\ ticket' = [ticket EXCEPT !.status = status] /\ assignment' = assignment
      /\ category' = category
      /\ slips' = IF late THEN slips \cup {"work"} ELSE slips
  BY DEF CommitPatch, Slip
<1>3. /\ ticket' \in TicketType /\ ticket'.status = status
      /\ ticket'.agent = ticket.agent /\ ticket'.type = ticket.type
  BY <1>1, <1>2 DEF TicketType
<1>4. ~late => (status = "CLOSED" <=> ticket.status = "CLOSED")
  OBVIOUS
<1>5. ~late /\ Worked(assignment, ticket.status) => Worked(assignment, status)
  BY <1>4 DEF Worked, RowWorked
<1> HIDE DEF status, late
<1> QED BY <1>2, <1>3, <1>5, SameKept DEF StepOK, IInv, Consistent

LEMMA CommitReplyStep ==
    ASSUME IInv, NEW s \in Sessions, CommitReply(s)
    PROVE  StepOK
<1> DEFINE rows == assignment
           runs == sess[s].runs
           number(r) == CHOOSE n \in 1 .. MaxRuns : <<r, n>> \in runs
           hit == {r \in Rows : \E n \in 1 .. MaxRuns : <<r, n>> \in runs}
           clash == \E r \in hit : rows[r].live \notin {0, number(r)}
           one(r) == [rows[r] EXCEPT !.live = number(r), !.paused = FALSE]
           after == [r \in Rows |-> IF r \in hit THEN one(r) ELSE rows[r]]
           late == \E r \in hit : rows[r].live = 0
<1>1. /\ ticket \in TicketType /\ TableOK(rows) /\ rows \in Table
      /\ "work" \notin slips => Worked(rows, ticket.status)
      /\ "owner" \notin slips => Owned(rows, ticket.agent)
  BY DEF IInv, Consistent, TableOK
<1>2. Holds(rows, slips, sess[s]) /\ sess[s].op = "reply"
  BY DEF IInv, SessionsOK, CommitReply
<1>3. \A r \in hit : /\ r \in Rows /\ rows[r].user # Nobody
                     /\ number(r) \in 1 .. MaxRuns
  <2> SUFFICES ASSUME NEW r \in hit
               PROVE  rows[r].user # Nobody /\ number(r) \in 1 .. MaxRuns
    OBVIOUS
  <2>1. PICK n \in 1 .. MaxRuns : <<r, n>> \in runs
    OBVIOUS
  <2>2. rows[r].user # Nobody
    BY <1>2, <2>1 DEF Holds
  <2> QED BY <2>1, <2>2
<1>4. /\ UNCHANGED <<ticket, category>>
      /\ IF clash THEN UNCHANGED <<assignment, slips>>
         ELSE /\ assignment' = after
              /\ slips' = IF late THEN slips \cup {"work"} ELSE slips
  BY DEF CommitReply, Slip
<1> HIDE DEF number, hit
<1>5. CASE clash
  <2>1. UNCHANGED <<ticket, category, assignment, slips>>
    BY <1>4, <1>5
  <2> QED BY <2>1, SameKept DEF StepOK, IInv, Consistent
<1>6. CASE ~clash
  <2>1. /\ UNCHANGED <<ticket, category>> /\ assignment' = after
        /\ slips' = IF late THEN slips \cup {"work"} ELSE slips
    BY <1>4, <1>6
  <2>2. \A r \in hit : rows[r].live = 0 \/ rows[r].live = number(r)
    BY <1>6
  <2>3. \A r \in Rows : RowOK(rows[r])
    BY <1>1 DEF TableOK, Table, Counted, RowOK, Numbered
  <2>4. ASSUME NEW r \in hit
        PROVE  /\ RowOK(one(r)) /\ SameRow(rows[r], one(r)) /\ one(r).status = rows[r].status
               /\ one(r).live = number(r) /\ ~one(r).paused /\ number(r) # 0
    <3>1. number(r) \in Nat /\ number(r) <= MaxRuns /\ number(r) # 0 /\ r \in Rows
      BY <1>3, Constants
    <3> QED BY <2>3, <3>1 DEF RowOK, RowType, SameRow, Numbered
  <2> HIDE DEF one
  <2>5. \A r \in Rows : RowOK(after[r]) /\ SameRow(rows[r], after[r])
    BY <2>3, <2>4 DEF SameRow
  <2>6. UnusedIsBlank(after) /\ after = [r \in Rows |-> after[r]]
    BY <1>1, <1>3, <2>5 DEF TableOK, UnusedIsBlank, SameRow
  <2>7. KeptTable(rows, after) /\ UsedStays(rows, after)
    BY <2>2, <2>4, <2>5 DEF KeptTable, Kept, UsedStays, SameRow
  <2>8. ASSUME ~late, NEW status, Worked(rows, status)
        PROVE  Worked(after, status)
    BY <1>3, <2>2, <2>4, <2>8 DEF Worked, RowWorked, IsActive, SameRow
  <2> HIDE DEF after, late
  <2>9. TableOK(after) /\ \A agent : Owned(rows, agent) => Owned(after, agent)
    BY <1>1, <2>5, <2>6, SameTable
  <2>10. Consistent(ticket', after, category', slips')
    BY <1>1, <2>1, <2>8, <2>9 DEF IInv, Consistent
  <2> QED BY <2>1, <2>7, <2>10 DEF StepOK
<1> QED BY <1>5, <1>6

---------------------------------------------------------------------------
(* Sessions                                                                *)

\* A used row stays used, so what a session holds stays good.
LEMMA HoldsOn ==
    ASSUME NEW rows, NEW new, UsedStays(rows, new), NEW before, NEW after, before \subseteq after,
           NEW x \in InFlight \cup {Idle}, Holds(rows, before, x)
    PROVE  Holds(new, after, x)
<1>1. x.op = "assign" => x.before \in Rows \cup {0}
  BY DEF InFlight, Idle
<1>2. x.op = "secondary" => x.row \in Rows
  BY DEF InFlight, Idle
<1>3. x.op = "reply" => \A e \in x.runs : e[1] \in Rows
  BY DEF InFlight, Idle
<1> QED BY <1>1, <1>2, <1>3 DEF Holds, UsedStays

\* A step of the lock, or of a session that is done, leaves the others theirs.
LEMMA SessionsKept ==
    ASSUME SessionsOK, UsedStays(assignment, assignment'), slips \subseteq slips',
           \/ sess' = sess
           \/ \E s \in Sessions : sess' = [sess EXCEPT ![s] = Idle]
    PROVE  SessionsOK'
<1>1. sess' \in [Sessions -> InFlight \cup {Idle}]
  BY DEF SessionsOK
<1>2. Holds(assignment', slips', Idle)
  BY DEF Holds, Idle
<1>3. \A s \in Sessions : sess'[s] = sess[s] \/ sess'[s] = Idle
  BY DEF SessionsOK
<1>4. ASSUME NEW s \in Sessions PROVE Holds(assignment', slips', sess'[s])
  <2>1. sess[s] \in InFlight \cup {Idle} /\ Holds(assignment, slips, sess[s])
    BY DEF SessionsOK
  <2>2. Holds(assignment', slips', sess[s])
    BY <2>1, HoldsOn
  <2> QED BY <1>2, <1>3, <2>2
<1> QED BY <1>1, <1>4 DEF SessionsOK

\* What a session loads.
LEMMA BeginStep ==
    ASSUME IInv, NEW s \in Sessions, Begin(s)
    PROVE  SessionsOK' /\ UNCHANGED <<ticket, assignment, category, slips>>
<1>1. /\ ticket \in TicketType /\ TableOK(assignment) /\ assignment \in Table
      /\ \A r \in Rows : assignment[r].runs <= MaxRuns
  BY DEF IInv, Consistent, TableOK
<1>2. SUFFICES ASSUME NEW x \in InFlight, Load(s, x), Holds(assignment, slips, x)
               PROVE  SessionsOK' /\ UNCHANGED <<ticket, assignment, category, slips>>
  <2>1. ASSUME BeginAssign(s)
        PROVE  \E x \in InFlight : Load(s, x) /\ Holds(assignment, slips, x)
    <3>1. CASE Primaries(assignment) = {}
      <4> DEFINE x == [op |-> "assign", before |-> 0]
      <4>1. Load(s, x)
        BY <2>1, <3>1 DEF BeginAssign
      <4>2. x \in InFlight /\ Holds(assignment, slips, x)
        BY DEF InFlight, Holds
      <4> QED BY <4>1, <4>2
    <3>2. CASE Primaries(assignment) # {}
      <4>1. PICK p \in Primaries(assignment) : Load(s, [op |-> "assign", before |-> p])
        BY <2>1, <3>2 DEF BeginAssign
      <4> DEFINE x == [op |-> "assign", before |-> p]
      <4>2. p \in Rows /\ assignment[p].user # Nobody
        BY DEF Primaries, Active
      <4>3. x \in InFlight /\ Holds(assignment, slips, x)
        BY <4>2 DEF InFlight, Holds
      <4> QED BY <4>1, <4>3
    <3> QED BY <3>1, <3>2
  <2>2. ASSUME BeginTransfer(s)
        PROVE  \E x \in InFlight : Load(s, x) /\ Holds(assignment, slips, x)
    <3> DEFINE x == [op |-> "transfer", status |-> ticket.status, agent |-> ticket.agent,
                     type |-> ticket.type]
    <3>1. Load(s, x) /\ ticket.status # "CLOSED"
      BY <2>2 DEF BeginTransfer
    <3>2. x \in InFlight /\ Holds(assignment, slips, x)
      BY <1>1, <3>1 DEF InFlight, Holds, TicketType, TicketStates
    <3> QED BY <3>1, <3>2
  <2>3. ASSUME BeginUpdate(s)
        PROVE  \E x \in InFlight : Load(s, x) /\ Holds(assignment, slips, x)
    <3> DEFINE x == [op |-> "update", status |-> ticket.status, type |-> ticket.type]
    <3>1. Load(s, x) /\ ticket.status # "CLOSED"
      BY <2>3 DEF BeginUpdate
    <3>2. x \in InFlight /\ Holds(assignment, slips, x)
      BY <1>1, <3>1 DEF InFlight, Holds, TicketType, TicketStates
    <3> QED BY <3>1, <3>2
  <2>4. ASSUME BeginReply(s)
        PROVE  \E x \in InFlight : Load(s, x) /\ Holds(assignment, slips, x)
    <3> DEFINE runs == {<<r, assignment[r].live>> : r \in {q \in Rows : assignment[q].paused}}
               x == [op |-> "reply", runs |-> runs]
    <3>1. Load(s, x)
      BY <2>4 DEF BeginReply
    <3>2. \A r \in Rows : assignment[r].paused => assignment[r].user # Nobody
      BY <1>1 DEF TableOK, UnusedIsBlank
    <3>3. \A r \in Rows : assignment[r].paused => assignment[r].live \in 1 .. MaxRuns
      BY <1>1, Constants DEF TableOK, Table, RowType, Counted, Numbered
    <3>5. runs \subseteq Rows \X (1 .. MaxRuns)
      BY <3>3
    <3>4. x \in InFlight /\ Holds(assignment, slips, x)
      BY <3>2, <3>5 DEF InFlight, Holds
    <3> QED BY <3>1, <3>4
  <2>5. ASSUME NEW r \in Rows \cup {0}, BeginStatus(s, r)
        PROVE  \E x \in InFlight : Load(s, x) /\ Holds(assignment, slips, x)
    <3> DEFINE second == r \in Active(assignment) \ Primaries(assignment)
               seen == IF r = 0 THEN "OPEN" ELSE assignment[r].status
               x == [op |-> IF second THEN "secondary" ELSE "status", row |-> r,
                     seen |-> seen, ticket |-> ticket.status]
    <3>1. /\ Load(s, x) /\ ticket.status # "CLOSED" /\ r \in Active(assignment) \cup {0}
      BY <2>5 DEF BeginStatus
    <3>2. ticket.status \in OpenStates /\ 0 \notin Rows /\ Active(assignment) \subseteq Rows
      BY <1>1, <3>1 DEF TicketType, TicketStates, Rows, Active
    <3>3. seen \in TicketStates /\ (second => r \in Rows /\ IsActive(assignment[r]))
      BY <1>1, <3>2 DEF Table, RowType, TicketStates, OpenStates, Active, IsActive
    <3>4. second /\ "work" \notin slips => seen # "CLOSED"
      <4> SUFFICES ASSUME second, "work" \notin slips PROVE seen # "CLOSED"
        OBVIOUS
      <4>1. RowWorked(assignment[r], ticket.status)
        BY <3>3 DEF IInv, Consistent, Worked
      <4>2. seen = assignment[r].status
        BY <3>2, <3>3
      <4> QED BY <3>1, <3>3, <4>1, <4>2 DEF RowWorked
    <3> HIDE DEF second, seen
    <3>5. x \in InFlight
      BY <3>2, <3>3 DEF InFlight
    <3>6. Holds(assignment, slips, x)
      BY <3>3, <3>4 DEF Holds, IsActive
    <3> QED BY <3>1, <3>5, <3>6
  <2> QED BY <2>1, <2>2, <2>3, <2>4, <2>5 DEF Begin
<1>3. UNCHANGED <<ticket, assignment, category, slips>> /\ sess' = [sess EXCEPT ![s] = x]
  BY <1>2 DEF Load
<1>4. sess' \in [Sessions -> InFlight \cup {Idle}]
  BY <1>3 DEF IInv, SessionsOK
<1>5. \A o \in Sessions : Holds(assignment', slips', sess'[o])
  BY <1>2, <1>3 DEF IInv, SessionsOK
<1> QED BY <1>3, <1>4, <1>5 DEF SessionsOK

---------------------------------------------------------------------------
(* The theorems                                                            *)

\* Adding a row to a table of first runs.
LEMMA FirstRuns ==
    ASSUME NEW rows, rows \in Table, \A r \in Rows : rows[r].runs <= 1, Unused(rows) # {},
           NEW u \in Users, NEW lead \in Users \cup {Nobody}, NEW status \in TicketStates,
           NEW new, new = Added(rows, u, lead, status)
    PROVE  \A r \in Rows : new[r].runs <= 1
<1> DEFINE a == Fresh(u, lead, status)
           n == NewRow(u, lead, status)
           k == FreeRow(rows)
<1>1. a.live = 0 /\ a.runs = 0 /\ a \in RowType
  BY DEF Fresh, RowType
<1> HIDE DEF a
<1>2. \A paused : Started(a, paused).runs <= 1
  BY <1>1 DEF Started, RowType
<1>3. n.runs <= 1
  BY <1>1, <1>2 DEF NewRow, a
<1>4. k \in Rows
  BY DEF FreeRow, Unused
<1> HIDE DEF n, k
<1>5. new = [rows EXCEPT ![k] = n]
  BY DEF Added, n, k
<1> QED BY <1>3, <1>4, <1>5 DEF Table

LEMMA InitInvariant == TInit => IInv
<1> SUFFICES ASSUME TInit PROVE IInv
  OBVIOUS
<1>1. PICK u \in Users \cup {Nobody}, other \in Users \cup {Nobody}, name \in Names,
           more \in SUBSET Categories :
         /\ other # Nobody => u # Nobody /\ u # other /\ MaxAssignments > 1
         /\ more # {} => other # Nobody /\ name \notin more
         /\ Created(u, other, name, more)
  BY DEF TInit
<1> DEFINE rows == [r \in Rows |-> Blank]
           work == "IN_PROGRESS"
           first == IF u = Nobody THEN rows ELSE Added(rows, u, u, work)
           open == "OPEN"
           both == IF other = Nobody THEN first ELSE Added(first, other, u, open)
           k == FreeRow(rows)
           j == FreeRow(first)
<1>2. /\ ticket = [status |-> IF u = Nobody THEN "OPEN" ELSE "IN_PROGRESS", agent |-> u, type |-> name]
      /\ assignment = both
      /\ category = Synced([main |-> NoCategory, others |-> more], name)
  BY <1>1 DEF Created
<1>3. slips = {} /\ sess = [s \in Sessions |-> Idle]
  BY DEF TInit
<1>4. /\ work \in TicketStates /\ work \in OpenStates /\ open \in TicketStates
      /\ open \in OpenStates /\ open # "CLOSED" /\ work # "CLOSED"
  BY DEF TicketStates, OpenStates
<1>5. ticket \in TicketType /\ ticket.agent = u /\ ticket.type = name /\ ticket.status \in OpenStates
  BY <1>2 DEF TicketType, TicketStates, OpenStates
<1>6. /\ category \in CategoryType /\ category.main \notin category.others
      /\ name \in Categories => category.main = name
  <2> DEFINE none == [main |-> NoCategory, others |-> more]
  <2>1. none \in CategoryType /\ none.main \notin none.others
    BY <1>1, AssignmentsAssumption DEF CategoryType
  <2> HIDE DEF none
  <2>2. category = Synced(none, name)
    BY <1>2 DEF none
  <2> QED BY <1>1, <2>1, <2>2, SyncedCategory
<1>7. k = FreeRow(rows) /\ j = FreeRow(first)
  OBVIOUS
<1>8. /\ TableOK(rows) /\ Active(rows) = {} /\ Primaries(rows) = {}
      /\ \A v : RowsOf(rows, v) = {}
      /\ \A status : Worked(rows, status)
      /\ \A r \in Rows : rows[r].runs <= 1 /\ rows[r].user = Nobody
  BY Constants DEF Blank, TableOK, Table, RowType, UnusedIsBlank, Counted, Numbered, SinglePrimary,
       SingleRow, Active, Primaries, RowsOf, Worked, RowWorked, IsActive, TicketStates, OpenStates
<1> HIDE DEF rows, work, open, k, j
<1>9. 1 \in Rows /\ (MaxAssignments > 1 => 2 \in Rows)
  BY Constants DEF Rows
<1>10. /\ TableOK(first) /\ Owned(first, u) /\ \A r \in Rows : first[r].runs <= 1
       /\ \A status \in OpenStates : Worked(first, status)
       /\ u # Nobody => /\ \A r \in Rows \ {k} : first[r].user = Nobody
                        /\ \A v : v # u => RowsOf(first, v) = {}
  <2>1. CASE u = Nobody
    <3>1. first = rows
      BY <2>1
    <3> QED BY <1>8, <2>1, <3>1 DEF Owned
  <2>2. CASE u \in Users
    <3>1. first = Added(rows, u, u, work) /\ u # Nobody
      BY <2>2, Constants
    <3> HIDE DEF first
    <3>2. Unused(rows) # {} /\ rows \in Table
      BY <1>8, <1>9 DEF Unused, TableOK
    <3>3. RowsOf(rows, u) = {} /\ (u = u => Primaries(rows) = {})
      BY <1>8
    <3>4. IsAdded(rows, u, u, work, k, first)
      BY <1>4, <1>7, <1>8, <2>2, <3>1, <3>2, <3>3, AddedTable
    <3>5. /\ TableOK(first) /\ k \in Rows /\ first[k].user = u
          /\ \A r \in Rows \ {k} : first[r] = rows[r]
          /\ Active(first) = {k} /\ Primaries(first) = {k}
          /\ \A status \in OpenStates : Worked(first, status)
      BY <1>4, <1>8, <3>4 DEF IsAdded
    <3>6. Owned(first, u)
      BY <3>5 DEF Owned
    <3>7. \A r \in Rows : first[r].runs <= 1
      BY <1>4, <1>8, <2>2, <3>1, <3>2, FirstRuns
    <3>8. \A v : v # u => RowsOf(first, v) = {}
      BY <3>5 DEF RowsOf
    <3> QED BY <1>8, <3>5, <3>6, <3>7, <3>8
  <2> QED BY <2>1, <2>2
<1> HIDE DEF first
<1>11. /\ TableOK(both) /\ Owned(both, u) /\ \A r \in Rows : both[r].runs <= 1
       /\ \A status \in OpenStates : Worked(both, status)
  <2>1. CASE other = Nobody
    <3>1. both = first
      BY <2>1
    <3> QED BY <1>10, <3>1
  <2>2. CASE other \in Users
    <3>1. both = Added(first, other, u, open) /\ u \in Users /\ u # other /\ u # Nobody
      BY <1>1, <2>2, Constants
    <3> HIDE DEF both
    <3>2. first \in Table /\ RowsOf(first, other) = {}
      BY <1>10, <3>1 DEF TableOK
    <3>3. Unused(first) # {}
      BY <1>1, <1>9, <1>10, <3>1, <2>2, Constants DEF Unused
    <3>4. IsAdded(first, other, u, open, j, both)
      BY <1>4, <1>7, <1>10, <2>2, <3>1, <3>2, <3>3, AddedTable
    <3>5. /\ TableOK(both) /\ j \in Rows /\ first[j].user = Nobody
          /\ \A r \in Rows \ {j} : both[r] = first[r]
          /\ Active(both) = Active(first) \cup {j} /\ Primaries(both) = Primaries(first)
          /\ \A status \in OpenStates : Worked(both, status)
      BY <1>4, <1>10, <3>1, <3>4 DEF IsAdded
    <3>6. Primaries(first) # {} /\ \A r \in Primaries(first) : r # j /\ r \in Rows
      <4>1. Primaries(first) # {}
        BY <1>10, <3>1 DEF Owned
      <4> QED BY <3>5, <4>1 DEF Primaries, Active
    <3>7. {both[r].user : r \in Primaries(both)} = {first[r].user : r \in Primaries(first)}
      BY <3>5, <3>6
    <3>8. Owned(both, u)
      BY <1>10, <3>5, <3>6, <3>7 DEF Owned
    <3>9. \A r \in Rows : both[r].runs <= 1
      BY <1>4, <1>10, <2>2, <3>1, <3>2, <3>3, FirstRuns
    <3> QED BY <3>5, <3>8, <3>9
  <2> QED BY <2>1, <2>2
<1> HIDE DEF both
<1>12. Consistent(ticket, assignment, category, slips)
  BY <1>2, <1>3, <1>5, <1>6, <1>11 DEF Consistent
<1>13. \A r \in Rows : assignment[r].runs <= MaxRuns
  <2>1. \A r \in Rows : assignment[r].runs \in Nat /\ assignment[r].runs <= 1
    BY <1>2, <1>11 DEF TableOK, Table, RowType
  <2> QED BY <2>1, Constants
<1>14. SessionsOK
  BY <1>3 DEF SessionsOK, Holds, Idle
<1> QED BY <1>12, <1>13, <1>14 DEF IInv

\* Every step keeps the invariant, and every clock that runs.
LEMMA StepInvariant == IInv /\ [TNext]_tvars => IInv' /\ KeptTable(assignment, assignment')
<1> SUFFICES ASSUME IInv, [TNext]_tvars PROVE IInv' /\ KeptTable(assignment, assignment')
  OBVIOUS
<1>1. ASSUME StepOK, SessionsOK', TNext
      PROVE  IInv' /\ KeptTable(assignment, assignment')
  BY <1>1 DEF StepOK, IInv, TNext
<1>2. ASSUME StepOK, sess' = sess \/ \E s \in Sessions : sess' = [sess EXCEPT ![s] = Idle]
      PROVE  SessionsOK'
  BY <1>2, SessionsKept DEF StepOK, IInv
<1>3. CASE UNCHANGED tvars
  BY <1>3, SameKept DEF tvars, IInv, Consistent, SessionsOK
<1>4. CASE Locked /\ TNext
  <2>1. StepOK
    BY <1>4, ClaimStep, AttachStep, ChangePrimaryStep, CloseStep, ReopenStep DEF Locked
  <2>2. sess' = sess
    BY <1>4 DEF Locked, Claim, AttachToClosed, ChangePrimary, CloseTicket, ReopenTicket
  <2> QED BY <1>1, <1>2, <1>4, <2>1, <2>2
<1>5. CASE Categorize /\ TNext
  <2>1. sess' = sess
    BY <1>5 DEF Categorize, AddCategory, RemoveCategory
  <2> QED BY <1>1, <1>2, <1>5, <2>1, CategoryStep
<1>6. ASSUME NEW s \in Sessions, Begin(s), TNext
      PROVE  IInv' /\ KeptTable(assignment, assignment')
  <2>1. SessionsOK' /\ UNCHANGED <<ticket, assignment, category, slips>>
    BY <1>6, BeginStep
  <2> QED BY <2>1, SameKept DEF IInv, Consistent
<1>7. ASSUME NEW s \in Sessions, Commit(s), TNext
      PROVE  IInv' /\ KeptTable(assignment, assignment')
  <2>1. StepOK
    <3>1. CASE \E u \in Users, w, named \in Users \cup {Nobody} : AddUsers(s, u, w, named)
      BY <3>1, AddUsersStep
    <3>2. CASE \E r \in Rows, next \in Rows \cup {0} : RemoveAssignment(s, r, next)
      BY <3>2, RemoveAssignmentStep
    <3>3. CASE \E new \in OpenStates : CommitSecondary(s, new) \/ CommitStatus(s, new)
      BY <3>3, CommitSecondaryStep, CommitStatusStep
    <3>4. CASE \E u \in Users, c \in Names : CommitTransfer(s, u, c)
      BY <3>4, CommitTransferStep
    <3>5. CASE \E c \in Names : CommitType(s, c)
      BY <3>5, CommitTypeStep
    <3>6. CASE \E new \in TicketStates : CommitPatch(s, new)
      BY <3>6, CommitPatchStep
    <3>7. CASE CommitReply(s)
      BY <3>7, CommitReplyStep
    <3> QED BY <1>7, <3>1, <3>2, <3>3, <3>4, <3>5, <3>6, <3>7 DEF Commit
  <2>2. sess' = [sess EXCEPT ![s] = Idle]
    <3>1. \A u \in Users, w, named \in Users \cup {Nobody} : AddUsers(s, u, w, named) => Release(s)
      BY DEF AddUsers
    <3>2. \A r \in Rows, next \in Rows \cup {0} : RemoveAssignment(s, r, next) => Release(s)
      BY DEF RemoveAssignment
    <3>3. \A new \in OpenStates : CommitSecondary(s, new) \/ CommitStatus(s, new) => Release(s)
      BY DEF CommitSecondary, CommitStatus
    <3>4. \A u \in Users, c \in Names : CommitTransfer(s, u, c) => Release(s)
      BY DEF CommitTransfer
    <3>5. \A c \in Names : CommitType(s, c) => Release(s)
      BY DEF CommitType
    <3>6. \A new \in TicketStates : CommitPatch(s, new) => Release(s)
      BY DEF CommitPatch
    <3>7. CommitReply(s) => Release(s)
      BY DEF CommitReply
    <3>8. Release(s)
      BY <1>7, <3>1, <3>2, <3>3, <3>4, <3>5, <3>6, <3>7 DEF Commit
    <3> QED BY <3>8 DEF Release
  <2> QED BY <1>1, <1>2, <1>7, <2>1, <2>2
<1> QED BY <1>3, <1>4, <1>5, <1>6, <1>7 DEF TNext

\* The invariant holds in every reachable state.
THEOREM AssignmentInvariance == TSpec => []IInv
<1> QED BY InitInvariant, StepInvariant, PTL DEF TSpec

\* Every table, session and column has its type, whatever the bounds.
THEOREM AssignTypeCorrect == TSpec => []AssignTypeOK
<1>1. IInv => AssignTypeOK
  <2> SUFFICES ASSUME IInv PROVE AssignTypeOK
    OBVIOUS
  <2>1. \A r \in Rows : assignment[r] \in RowType /\ assignment[r].runs <= MaxRuns
                        /\ assignment[r].live <= MaxRuns
    BY Constants DEF IInv, Consistent, TableOK, Table, RowType, Counted, Numbered
  <2>2. assignment \in [Rows -> AssignmentType]
    <3> SUFFICES ASSUME NEW r \in Rows PROVE assignment[r] \in AssignmentType
      BY DEF IInv, Consistent, TableOK, Table
    <3> QED BY <2>1, Constants DEF RowType, AssignmentType
  <2> QED BY <2>2 DEF IInv, Consistent, SessionsOK, AssignTypeOK, TicketType, CategoryType
<1> QED BY <1>1, AssignmentInvariance, PTL

\* One person on the ticket is accountable, the one the ticket names, however
\* requests overlap, but for the two late writes.
THEOREM OwnerIsPrimaryHolds == TSpec => []OwnerIsPrimary
<1>1. IInv => OwnerIsPrimary
  BY DEF IInv, Consistent, TableOK, SinglePrimary, SingleRow, Owned, OwnerIsPrimary, RowsOf
<1> QED BY <1>1, AssignmentInvariance, PTL

\* Clocks and closing follow the work, but for late writes of a status.
THEOREM WorkFollowsTicketHolds == TSpec => []WorkFollowsTicket
<1>1. IInv => WorkFollowsTicket
  BY DEF IInv, Consistent, Worked, RowWorked, IsActive, WorkFollowsTicket, Active
<1> QED BY <1>1, AssignmentInvariance, PTL

\* Where ticket_type names a category it is the primary one, but for a late
\* PATCH; what else it says is a name no category has.
THEOREM TypeIsMainCategoryHolds == TSpec => []TypeIsMainCategory
<1>1. IInv => TypeIsMainCategory
  BY DEF IInv, Consistent, TypeIsMainCategory
<1> QED BY <1>1, AssignmentInvariance, PTL

\* No step restarts a clock or puts a second one beside it.
THEOREM TimersAreKeptHolds == TSpec => TimersAreKept
<1>1. KeptTable(assignment, assignment') =>
        \A r \in Rows :
          assignment[r].live # 0 =>
             \/ assignment'[r].live = assignment[r].live
             \/ /\ assignment'[r].live = 0
                /\ \/ assignment'[r].status \in {"RESOLVED", "CLOSED"}
                   \/ assignment'[r].removed
  BY DEF KeptTable, Kept
<1> QED BY <1>1, InitInvariant, StepInvariant, PTL DEF TSpec, TimersAreKept
=============================================================================
