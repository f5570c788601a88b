-------------------------- MODULE MailRemindersProofs --------------------------
(***************************************************************************)
(* Reminders for any number of rows, threads, requests, sweeping processes, *)
(* failures and dates: a date is notified once at most, and what has not     *)
(* been notified is ACTIVE, where the sweep finds it.                        *)
(***************************************************************************)
EXTENDS MailReminders, TLAPS

Rows == [thread : Threads \cup {NoThread},
         status : {"NONE", "ACTIVE", "FIRED", "CANCELED", "DISMISSED"},
         date : 0 .. MaxDates, ahead : BOOLEAN]

Loaded == [op : Operations, row : Reminders, seen : {"ACTIVE", "FIRED"}]

Ticks == [pc : {"idle", "looking", "claimed"}, claimed : SUBSET Reminders,
          failed : SUBSET Reminders, rounds : 0 .. PerTick]

\* Every variable has its type.
RemTypeOK ==
    /\ reminder \in [Reminders -> Rows]
    /\ reachable \in BOOLEAN
    /\ request \in [Requests -> Loaded \cup {NoRequest}]
    /\ sweeper \in [Processes -> Ticks]
    /\ notices \in [Reminders -> [Dates -> Nat]]
    /\ late \subseteq Reminders /\ failures \in 0 .. MaxFailures

\* A reminder that exists has a date, and no later date of it is notified yet; while
\* it is ACTIVE this one is not either.  FIRED, it is notified, but for the late.
RowOK(r) ==
    /\ reminder[r].status = "NONE" => reminder[r] = NoReminder
    /\ reminder[r].status # "NONE" => reminder[r].date \in Dates
    /\ \A d \in Dates : d > reminder[r].date => notices[r][d] = 0
    /\ reminder[r].status = "ACTIVE" => notices[r][reminder[r].date] = 0
    /\ \A d \in Dates : notices[r][d] \in {0, 1}
    /\ reminder[r].status = "FIRED" /\ r \notin late => notices[r][reminder[r].date] = 1

\* A request has loaded a row that exists, in a status in which it is accepted.
RequestOK(q) ==
    request[q] # NoRequest =>
      /\ reminder[request[q].row].status # "NONE"
      /\ request[q].seen \in Accepts(request[q].op)

\* A process has claimed one reminder or none; what it has claimed is due, and is
\* not claimed by another.
TickOK(p) ==
    /\ sweeper[p].pc # "claimed" => sweeper[p].claimed = {}
    /\ sweeper[p].pc = "claimed" => \E r \in Reminders : sweeper[p].claimed = {r}
    /\ \A r \in sweeper[p].claimed : Due(r)
    /\ \A o \in Processes : o # p => sweeper[p].claimed \cap sweeper[o].claimed = {}
    /\ sweeper[p].pc = "claimed" => sweeper[p].rounds < PerTick

RemInv ==
    /\ RemTypeOK
    /\ \A r \in Reminders : RowOK(r)
    /\ \A q \in Requests : RequestOK(q)
    /\ \A p \in Processes : TickOK(p)

\* What a user still waits for is ACTIVE: the sweep will find it.
OnlyTheSweepOwes == \A r \in Reminders : Awaited(r) => reminder[r].status = "ACTIVE"

---------------------------------------------------------------------------
LEMMA Constants ==
    /\ MaxDates \in Nat \ {0} /\ PerTick \in Nat \ {0} /\ MaxFailures \in Nat
    /\ 1 \in Dates /\ Dates \subseteq 0 .. MaxDates
BY ReminderAssumption DEF ReminderAssumption, Dates

THEOREM RemInitOK == RemInit => RemInv
<1>. SUFFICES ASSUME RemInit PROVE RemInv
  OBVIOUS
<1>1. RemTypeOK
  BY Constants DEF RemInit, RemTypeOK, Rows, Ticks, Loaded, NoReminder, NoRequest, NoTick
<1>2. \A r \in Reminders : RowOK(r)
  BY Constants DEF RemInit, RowOK, NoReminder
<1>3. \A q \in Requests : RequestOK(q)
  BY DEF RemInit, RequestOK
<1>4. \A p \in Processes : TickOK(p)
  BY DEF RemInit, TickOK, NoTick
<1>. QED BY <1>1, <1>2, <1>3, <1>4 DEF RemInv

LEMMA Typed ==
    ASSUME RemInv
    PROVE  /\ reminder \in [Reminders -> Rows]
           /\ notices \in [Reminders -> [Dates -> Nat]]
           /\ request \in [Requests -> Loaded \cup {NoRequest}]
           /\ sweeper \in [Processes -> Ticks]
           /\ failures \in 0 .. MaxFailures /\ late \subseteq Reminders
BY DEF RemInv, RemTypeOK

---------------------------------------------------------------------------
(* The sweep                                                               *)

\* A tick goes on, or claims a due reminder that no other process has.
LEMMA TickMoves ==
    ASSUME RemInv, NEW p \in Processes, NEW y \in Ticks,
           sweeper' = [sweeper EXCEPT ![p] = y],
           UNCHANGED <<reminder, reachable, request, notices, late>>,
           failures' \in 0 .. MaxFailures,
           y.pc # "claimed" => y.claimed = {},
           y.pc = "claimed" => \E r \in Reminders :
             y.claimed = {r} /\ Due(r) /\ ~Locked(r) /\ y.rounds < PerTick
    PROVE  RemInv'
<1>1. RemTypeOK'
  BY DEF RemInv, RemTypeOK
<1>2. /\ \A r \in Reminders : RowOK(r)'
      /\ \A q \in Requests : RequestOK(q)'
  BY DEF RemInv, RowOK, RequestOK
<1>3. /\ sweeper'[p] = y
      /\ \A o \in Processes : o # p => sweeper'[o] = sweeper[o]
  BY Typed
<1>4. ASSUME NEW o \in Processes PROVE TickOK(o)'
  <2>1. TickOK(o)
    BY DEF RemInv
  <2>2. CASE o = p
    BY <1>3, <2>2 DEF TickOK, Due, Locked
  <2>3. CASE o # p
    BY <1>3, <2>1, <2>3 DEF TickOK, Due, Locked
  <2>. QED BY <2>2, <2>3
<1>. QED BY <1>1, <1>2, <1>4 DEF RemInv

LEMMA TickKeeps ==
    ASSUME RemInv, NEW p \in Processes,
           StartTick(p) \/ Claim(p) \/ FireFails(p) \/ SweepDies(p) \/ FinishTick(p)
    PROVE  RemInv'
<1> DEFINE x == sweeper[p]
<1>1. x \in Ticks /\ TickOK(p) /\ failures \in 0 .. MaxFailures
  BY Typed DEF RemInv
<1>2. NoTick \in Ticks /\ NoTick.pc = "idle" /\ NoTick.claimed = {}
  BY Constants DEF NoTick, Ticks
<1>3. CASE StartTick(p)
  <2> DEFINE y == [x EXCEPT !.pc = "looking"]
  <2>1. y \in Ticks /\ y.pc = "looking" /\ y.claimed = {}
    BY <1>1, <1>3 DEF StartTick, Ticks, TickOK
  <2>2. sweeper' = [sweeper EXCEPT ![p] = y]
    BY <1>3, Typed DEF StartTick
  <2>. HIDE DEF y
  <2>. QED BY <1>1, <1>3, <2>1, <2>2, TickMoves DEF StartTick
<1>4. CASE Claim(p)
  <2>1. PICK r \in Claimable(p) :
          sweeper' = [sweeper EXCEPT ![p].pc = "claimed", ![p].claimed = {r}]
    BY <1>4 DEF Claim
  <2> DEFINE y == [x EXCEPT !.pc = "claimed", !.claimed = {r}]
  <2>2. r \in Reminders /\ Due(r) /\ ~Locked(r)
    BY DEF Claimable
  <2>3. y \in Ticks /\ y.pc = "claimed" /\ y.claimed = {r} /\ y.rounds < PerTick
    BY <1>1, <1>4, <2>2 DEF Claim, Looking, Ticks
  <2>4. sweeper' = [sweeper EXCEPT ![p] = y]
    BY <2>1, Typed
  <2>. HIDE DEF y
  <2>. QED BY <1>1, <1>4, <2>2, <2>3, <2>4, TickMoves DEF Claim
<1>5. CASE FireFails(p)
  <2> DEFINE y == [pc |-> "looking", claimed |-> {}, failed |-> x.failed \cup x.claimed,
                   rounds |-> x.rounds + 1]
  <2>1. x.rounds < PerTick
    BY <1>1, <1>5 DEF FireFails, TickOK
  <2>2. y \in Ticks /\ y.pc = "looking" /\ y.claimed = {}
    BY <1>1, <2>1, Constants DEF Ticks
  <2>3. sweeper' = [sweeper EXCEPT ![p] = y]
    BY <1>5 DEF FireFails, NextRound
  <2>4. failures' \in 0 .. MaxFailures
    BY <1>1, <1>5, Constants DEF FireFails
  <2>. HIDE DEF y
  <2>. QED BY <1>5, <2>2, <2>3, <2>4, TickMoves DEF FireFails
<1>6. CASE SweepDies(p)
  <2>1. failures' \in 0 .. MaxFailures
    BY <1>1, <1>6, Constants DEF SweepDies
  <2>. QED BY <1>2, <1>6, <2>1, TickMoves DEF SweepDies
<1>7. CASE FinishTick(p)
  BY <1>1, <1>2, <1>7, TickMoves DEF FinishTick
<1>. QED BY <1>3, <1>4, <1>5, <1>6, <1>7

\* Only one process has the claim, and the date it notifies was not notified.
LEMMA FireKeeps ==
    ASSUME RemInv, NEW p \in Processes, Fire(p)
    PROVE  RemInv'
<1> DEFINE x == sweeper[p]
           y == [pc |-> "looking", claimed |-> {}, failed |-> x.failed, rounds |-> x.rounds + 1]
<1>1. PICK r \in x.claimed :
        /\ reminder' = [reminder EXCEPT ![r].status = IF reachable THEN "FIRED" ELSE "CANCELED"]
        /\ notices' = IF reachable
                      THEN [notices EXCEPT ![r][reminder[r].date] = @ + 1]
                      ELSE notices
  BY DEF Fire
<1>2. /\ x \in Ticks /\ TickOK(p) /\ x.pc = "claimed" /\ x.rounds < PerTick
      /\ r \in Reminders /\ Due(r)
      /\ UNCHANGED <<reachable, request, late, failures>>
  BY Typed DEF RemInv, Fire, TickOK, Ticks
<1> DEFINE d == reminder[r].date
           status == IF reachable THEN "FIRED" ELSE "CANCELED"
<1>3. RowOK(r) /\ reminder[r] \in Rows /\ reminder[r].status = "ACTIVE" /\ d \in Dates
      /\ notices[r] \in [Dates -> Nat] /\ notices[r][d] = 0
  BY <1>2, Typed DEF RemInv, RowOK, Due
<1>4. /\ reminder'[r] \in Rows /\ reminder'[r].status = status /\ reminder'[r].date = d
      /\ \A o \in Reminders : o # r => reminder'[o] = reminder[o]
      /\ reminder' \in [Reminders -> Rows]
  <2> DEFINE row == [reminder[r] EXCEPT !.status = status]
  <2>1. row \in Rows /\ row.status = status /\ row.date = d
    BY <1>3 DEF Rows
  <2>2. reminder' = [reminder EXCEPT ![r] = row]
    BY <1>1, <1>2, Typed
  <2>. HIDE DEF row
  <2>. QED BY <1>2, <2>1, <2>2, Typed
<1>5. /\ \A o \in Reminders : o # r => notices'[o] = notices[o]
      /\ \A e \in Dates : notices'[r][e] = IF reachable /\ e = d THEN 1 ELSE notices[r][e]
      /\ notices' \in [Reminders -> [Dates -> Nat]]
  <2>1. CASE reachable
    <3> DEFINE row == [notices[r] EXCEPT ![d] = @ + 1]
    <3>1. row \in [Dates -> Nat] /\ \A e \in Dates : row[e] = IF e = d THEN 1 ELSE notices[r][e]
      BY <1>3
    <3>2. notices' = [notices EXCEPT ![r] = row]
      BY <1>1, <2>1
    <3>. HIDE DEF row
    <3>. QED BY <1>2, <2>1, <3>1, <3>2, Typed
  <2>2. CASE ~reachable
    BY <1>1, <2>2, Typed
  <2>. QED BY <2>1, <2>2
<1>6. /\ sweeper'[p] = y /\ \A o \in Processes : o # p => sweeper'[o] = sweeper[o]
      /\ y \in Ticks /\ sweeper' \in [Processes -> Ticks]
  <2>1. y \in Ticks
    BY <1>2, Constants DEF Ticks
  <2>2. sweeper' = [sweeper EXCEPT ![p] = y]
    BY DEF Fire, NextRound
  <2>. HIDE DEF y
  <2>. QED BY <2>1, <2>2, Typed
<1>7. RemTypeOK'
  BY <1>2, <1>4, <1>5, <1>6 DEF RemInv, RemTypeOK
<1>8. ASSUME NEW o \in Reminders PROVE RowOK(o)'
  <2>1. RowOK(o)
    BY DEF RemInv
  <2>2. CASE o = r
    <3>1. status # "NONE" /\ status # "ACTIVE" /\ (status = "FIRED" => reachable)
      OBVIOUS
    <3>2. ASSUME NEW e \in Dates, e > d PROVE notices'[r][e] = 0
      <4>1. notices[r][e] = 0 /\ e # d
        BY <1>3, <3>2, Constants DEF RowOK
      <4>. QED BY <1>5, <4>1
    <3>3. \A e \in Dates : notices'[r][e] \in {0, 1}
      BY <1>3, <1>5 DEF RowOK
    <3>4. status = "FIRED" => notices'[r][d] = 1
      BY <1>3, <1>5, <3>1
    <3>. HIDE DEF status, d
    <3>. QED BY <1>3, <1>4, <2>2, <3>1, <3>2, <3>3, <3>4 DEF RowOK
  <2>3. CASE o # r
    BY <1>2, <1>4, <1>5, <2>1, <2>3 DEF RowOK
  <2>. QED BY <2>2, <2>3
<1>9. ASSUME NEW q \in Requests PROVE RequestOK(q)'
  <2>1. RequestOK(q) /\ request'[q] = request[q]
    BY <1>2 DEF RemInv
  <2>2. request[q] # NoRequest => request[q].row \in Reminders
    BY Typed DEF Loaded
  <2>. QED BY <1>4, <2>1, <2>2 DEF RequestOK
<1>10. ASSUME NEW o \in Processes PROVE TickOK(o)'
  <2>1. TickOK(o)
    BY DEF RemInv
  <2>2. CASE o = p
    BY <1>6, <2>2 DEF TickOK
  <2>3. CASE o # p
    <3>1. r \notin sweeper[o].claimed
      BY <1>2, <2>3 DEF TickOK
    <3>2. sweeper[o] \in Ticks
      BY Typed
    <3>. QED BY <1>4, <1>6, <2>1, <2>3, <3>1, <3>2 DEF TickOK, Due, Ticks
  <2>. QED BY <2>2, <2>3
<1>. QED BY <1>7, <1>8, <1>9, <1>10 DEF RemInv

---------------------------------------------------------------------------
(* The user                                                                *)

\* A row is written that no sweep has claimed, and is in order.
LEMMA RowWritten ==
    ASSUME RemInv, NEW r \in Reminders, NEW row \in Rows,
           reminder' = [reminder EXCEPT ![r] = row],
           UNCHANGED <<sweeper, notices, failures>>, reachable' \in BOOLEAN,
           late' \subseteq Reminders, \A o \in Reminders : o # r => (o \in late' <=> o \in late),
           request' \in [Requests -> Loaded \cup {NoRequest}],
           \A q \in Requests : request'[q] \in {request[q], NoRequest},
           Locked(r) => row.status = "ACTIVE" /\ ~row.ahead,
           reminder[r].status # "NONE" => row.status # "NONE",
           RowOK(r)'
    PROVE  RemInv'
<1>1. /\ reminder' \in [Reminders -> Rows] /\ reminder'[r] = row
      /\ \A o \in Reminders : o # r => reminder'[o] = reminder[o]
  BY Typed
<1>2. RemTypeOK'
  BY <1>1 DEF RemInv, RemTypeOK
<1>3. ASSUME NEW o \in Reminders PROVE RowOK(o)'
  BY <1>1 DEF RemInv, RowOK
<1>4. ASSUME NEW q \in Requests PROVE RequestOK(q)'
  <2>1. RequestOK(q) /\ (request[q] # NoRequest => request[q].row \in Reminders)
    BY Typed DEF RemInv, Loaded
  <2>2. request'[q] = request[q] \/ request'[q] = NoRequest
    OBVIOUS
  <2>. QED BY <1>1, <2>1, <2>2 DEF RequestOK
<1>5. ASSUME NEW p \in Processes PROVE TickOK(p)'
  <2>1. TickOK(p) /\ sweeper[p] \in Ticks /\ sweeper' = sweeper
    BY Typed DEF RemInv
  <2>2. r \in sweeper[p].claimed => row.status = "ACTIVE" /\ ~row.ahead
    BY DEF Locked
  <2>. QED BY <1>1, <2>1, <2>2 DEF TickOK, Due, Ticks
<1>. QED BY <1>2, <1>3, <1>4, <1>5 DEF RemInv

LEMMA CreateKeeps ==
    ASSUME RemInv, NEW r \in Reminders, NEW t \in Threads, Create(r, t)
    PROVE  RemInv'
<1> DEFINE row == [thread |-> t, status |-> "ACTIVE", date |-> 1, ahead |-> TRUE]
<1>1. row \in Rows /\ row.status = "ACTIVE" /\ row.date = 1
  BY Constants DEF Rows
<1>2. RowOK(r) /\ reminder[r].status = "NONE" /\ reminder[r].date = 0
  BY DEF RemInv, Create, NoReminder
<1>3. /\ reminder' = [reminder EXCEPT ![r] = row]
      /\ UNCHANGED <<reachable, request, sweeper, notices, late, failures>>
  BY DEF Create
<1>. HIDE DEF row
<1>4. reminder'[r] = row
  BY <1>3, Typed
<1>5. \A d \in Dates : notices[r][d] = 0
  BY <1>2, Constants DEF RowOK, Dates
<1>6. RowOK(r)'
  BY <1>1, <1>3, <1>4, <1>5, Constants DEF RowOK
<1>7. ~Locked(r)
  BY <1>2 DEF RemInv, Locked, TickOK, Due
<1>8. \A q \in Requests : request'[q] = request[q]
  BY <1>3
<1>9. /\ late' \subseteq Reminders /\ \A o \in Reminders : (o \in late' <=> o \in late)
      /\ request' \in [Requests -> Loaded \cup {NoRequest}] /\ reachable' \in BOOLEAN
  BY <1>3, Typed DEF RemInv, RemTypeOK
<1>. QED BY <1>1, <1>2, <1>3, <1>6, <1>7, <1>8, <1>9, RowWritten

LEMMA DateArrivesKeeps ==
    ASSUME RemInv, NEW r \in Reminders, DateArrives(r)
    PROVE  RemInv'
<1> DEFINE row == [reminder[r] EXCEPT !.ahead = FALSE]
<1>1. RowOK(r) /\ reminder[r] \in Rows /\ reminder[r].ahead
  BY Typed DEF RemInv, DateArrives
<1>2. /\ row \in Rows /\ row.status = reminder[r].status /\ row.date = reminder[r].date
      /\ ~row.ahead
  BY <1>1 DEF Rows
<1>3. /\ reminder' = [reminder EXCEPT ![r] = row]
      /\ UNCHANGED <<reachable, request, sweeper, notices, late, failures>>
  BY Typed DEF DateArrives
<1>. HIDE DEF row
<1>4. reminder'[r] = row /\ reminder[r] # NoReminder
  BY <1>1, <1>3, Typed DEF NoReminder
<1>5. RowOK(r)'
  BY <1>1, <1>2, <1>3, <1>4 DEF RowOK
<1>6. Locked(r) => row.status = "ACTIVE"
  BY <1>2 DEF RemInv, Locked, TickOK, Due
<1>7. \A q \in Requests : request'[q] = request[q]
  BY <1>3
<1>8. /\ late' \subseteq Reminders /\ \A o \in Reminders : (o \in late' <=> o \in late)
      /\ request' \in [Requests -> Loaded \cup {NoRequest}] /\ reachable' \in BOOLEAN
  BY <1>3, Typed DEF RemInv, RemTypeOK
<1>. QED BY <1>2, <1>3, <1>5, <1>6, <1>7, <1>8, RowWritten

\* What a request writes: another date is a later one, and only a snooze of a
\* fired reminder, which sets one, makes it ACTIVE again.
LEMMA RequestWrites ==
    ASSUME NEW row \in Rows, NEW op \in Operations, NEW seen \in {"ACTIVE", "FIRED"},
           Requested(row, op, seen).date <= MaxDates, row.status # "NONE", row.date \in Dates
    PROVE  LET new == Requested(row, op, seen)
           IN  /\ new \in Rows /\ new.status # "NONE"
               /\ \/ new.date = row.date /\ new.status \in {"CANCELED", "DISMISSED"}
                  \/ /\ new.date = row.date + 1 /\ new.date \in Dates
                     /\ \/ new.status = row.status /\ (op = "update" \/ seen = "ACTIVE")
                        \/ new.status = "ACTIVE"
                     /\ op \in {"update", "snooze"}
<1>1. row.date \in Nat /\ row.date + 1 \in Nat /\ MaxDates \in Nat
  BY Constants DEF Dates
<1>2. CASE op = "update"
  <2> DEFINE new == [row EXCEPT !.date = @ + 1, !.ahead = TRUE]
  <2>1. Requested(row, op, seen) = new
    BY <1>2 DEF Requested
  <2>2. new.date = row.date + 1 /\ new.status = row.status
    BY DEF Rows
  <2>3. row.date + 1 \in Dates /\ row.date + 1 \in 0 .. MaxDates
    BY <1>1, <2>1, <2>2 DEF Dates
  <2>4. new \in Rows
    BY <2>3 DEF Rows
  <2>. HIDE DEF new
  <2>. QED BY <1>2, <2>1, <2>2, <2>3, <2>4
<1>3. CASE op = "snooze"
  <2> DEFINE status == IF seen = "ACTIVE" THEN row.status ELSE "ACTIVE"
             new == [row EXCEPT !.date = @ + 1, !.ahead = TRUE, !.status = status]
  <2>1. Requested(row, op, seen) = new
    BY <1>3 DEF Requested
  <2>2. new.date = row.date + 1 /\ new.status = status
    BY DEF Rows
  <2>3. row.date + 1 \in Dates /\ row.date + 1 \in 0 .. MaxDates
    BY <1>1, <2>1, <2>2 DEF Dates
  <2>4. new \in Rows
    BY <2>3 DEF Rows
  <2>5. (status = row.status /\ seen = "ACTIVE") \/ status = "ACTIVE"
    OBVIOUS
  <2>. HIDE DEF new, status
  <2>. QED BY <1>3, <2>1, <2>2, <2>3, <2>4, <2>5
<1>4. CASE op \in {"cancel", "dismiss"}
  <2> DEFINE status == IF op = "cancel" THEN "CANCELED" ELSE "DISMISSED"
             new == [row EXCEPT !.status = status]
  <2>1. Requested(row, op, seen) = new
    BY <1>4 DEF Requested
  <2>2. new \in Rows /\ new.date = row.date /\ new.status = status
    BY DEF Rows
  <2>. HIDE DEF new
  <2>. QED BY <2>1, <2>2
<1>. QED BY <1>2, <1>3, <1>4 DEF Operations

\* A request that makes a reminder ACTIVE sets a date that was not notified; one
\* that leaves it FIRED with another date is late.
LEMMA CommitKeeps ==
    ASSUME RemInv, NEW q \in Requests, CommitRequest(q)
    PROVE  RemInv'
<1>0. PICK r \in Reminders : r = request[q].row
  BY Typed DEF CommitRequest, Loaded
<1> DEFINE op == request[q].op
           seen == request[q].seen
           row == Requested(reminder[r], op, seen)
<1>1. /\ request[q] # NoRequest /\ ~Locked(r)
      /\ [reminder EXCEPT ![r] = row][r].date <= MaxDates
      /\ reminder' = [reminder EXCEPT ![r] = row]
      /\ late' = IF FiredMeanwhile(q) THEN late \cup {r} ELSE late \ {r}
      /\ request' = [request EXCEPT ![q] = NoRequest]
      /\ UNCHANGED <<reachable, sweeper, notices, failures>>
  BY <1>0 DEF CommitRequest
<1>2. /\ op \in Operations /\ seen \in {"ACTIVE", "FIRED"}
      /\ reminder[r] \in Rows /\ RowOK(r) /\ RequestOK(q)
  BY <1>1, Typed DEF RemInv, Loaded
<1>3. reminder[r].status # "NONE" /\ reminder[r].date \in Dates /\ seen \in Accepts(op)
  BY <1>0, <1>1, <1>2 DEF RequestOK, RowOK
<1>4. row.date <= MaxDates
  BY <1>1, <1>2, Typed
<1>5. /\ row \in Rows /\ row.status # "NONE"
      /\ \/ row.date = reminder[r].date /\ row.status \in {"CANCELED", "DISMISSED"}
         \/ /\ row.date = reminder[r].date + 1 /\ row.date \in Dates
            /\ \/ row.status = reminder[r].status /\ (op = "update" \/ seen = "ACTIVE")
               \/ row.status = "ACTIVE"
            /\ op \in {"update", "snooze"}
  BY <1>2, <1>3, <1>4, RequestWrites
<1>. HIDE DEF row
<1>6. reminder'[r] = row
  BY <1>1, <1>2, Typed
<1>7. op = "update" => seen = "ACTIVE"
  BY <1>3 DEF Accepts
<1>8. row.status = "FIRED" => r \in late'
  BY <1>0, <1>1, <1>5, <1>7 DEF FiredMeanwhile
<1>9. \A d \in Dates : d > row.date => notices[r][d] = 0
  <2>. SUFFICES ASSUME NEW d \in Dates, d > row.date PROVE notices[r][d] = 0
    OBVIOUS
  <2>1. d > reminder[r].date
    BY <1>3, <1>5, Constants DEF Dates
  <2>. QED BY <1>2, <2>1 DEF RowOK
<1>10. row.status = "ACTIVE" => row.date \in Dates /\ notices[r][row.date] = 0
  <2>. SUFFICES ASSUME row.status = "ACTIVE" PROVE row.date \in Dates /\ notices[r][row.date] = 0
    OBVIOUS
  <2>1. row.date \in Dates /\ row.date = reminder[r].date + 1
    BY <1>5
  <2>2. row.date > reminder[r].date
    BY <1>3, <2>1, Constants DEF Dates
  <2>. QED BY <1>2, <2>1, <2>2 DEF RowOK
<1>11. row.date \in Dates
  BY <1>3, <1>5
<1>12. RowOK(r)'
  BY <1>1, <1>2, <1>5, <1>6, <1>8, <1>9, <1>10, <1>11 DEF RowOK
<1>13. /\ late' \subseteq Reminders
       /\ \A o \in Reminders : o # r => (o \in late' <=> o \in late)
  BY <1>1, <1>2, Typed
<1>14. /\ request' \in [Requests -> Loaded \cup {NoRequest}] /\ reachable' \in BOOLEAN
       /\ \A o \in Requests : request'[o] \in {request[o], NoRequest}
  BY <1>1, Typed DEF RemInv, RemTypeOK
<1>. QED BY <1>1, <1>2, <1>5, <1>12, <1>13, <1>14, RowWritten

LEMMA RequestKeeps ==
    ASSUME RemInv, NEW q \in Requests,
           RequestFails(q) \/ \E op \in Operations, r \in Reminders : LoadReminder(q, op, r)
    PROVE  RemInv'
<1>1. UNCHANGED <<reminder, reachable, sweeper, notices, late, failures>>
  BY DEF RequestFails, LoadReminder
<1>2. PICK y \in Loaded \cup {NoRequest} :
        /\ request' = [request EXCEPT ![q] = y]
        /\ y # NoRequest => reminder[y.row].status # "NONE" /\ y.seen \in Accepts(y.op)
  <2>1. CASE RequestFails(q)
    BY <2>1 DEF RequestFails
  <2>2. ASSUME NEW op \in Operations, NEW r \in Reminders, LoadReminder(q, op, r)
        PROVE  \E y \in Loaded \cup {NoRequest} :
                 /\ request' = [request EXCEPT ![q] = y]
                 /\ y # NoRequest => reminder[y.row].status # "NONE" /\ y.seen \in Accepts(y.op)
    <3> DEFINE y == [op |-> op, row |-> r, seen |-> reminder[r].status]
    <3>1. reminder[r].status \in Accepts(op) /\ request' = [request EXCEPT ![q] = y]
      BY <2>2 DEF LoadReminder
    <3>2. reminder[r].status \in {"ACTIVE", "FIRED"}
      BY <3>1 DEF Accepts, Operations
    <3>3. y \in Loaded /\ y.row = r /\ y.op = op /\ y.seen = reminder[r].status
      BY <3>2 DEF Loaded
    <3>. HIDE DEF y
    <3>. QED BY <3>1, <3>2, <3>3
  <2>. QED BY <2>1, <2>2
<1>3. request'[q] = y /\ \A o \in Requests : o # q => request'[o] = request[o]
  BY <1>2, Typed
<1>4. RemTypeOK'
  BY <1>1, <1>2 DEF RemInv, RemTypeOK
<1>5. ASSUME NEW o \in Requests PROVE RequestOK(o)'
  <2>1. RequestOK(o)
    BY DEF RemInv
  <2>. QED BY <1>1, <1>2, <1>3, <2>1 DEF RequestOK
<1>6. /\ \A r \in Reminders : RowOK(r)'
      /\ \A p \in Processes : TickOK(p)'
  BY <1>1 DEF RemInv, RowOK, TickOK, Due
<1>. QED BY <1>4, <1>5, <1>6 DEF RemInv

LEMMA RestKeeps ==
    ASSUME RemInv, HideOrShow \/ UNCHANGED remVars
    PROVE  RemInv'
<1>1. UNCHANGED <<reminder, request, sweeper, notices, late, failures>>
  BY DEF HideOrShow, remVars
<1>2. reachable' \in BOOLEAN
  BY DEF HideOrShow, remVars, RemInv, RemTypeOK
<1>3. RemTypeOK'
  BY <1>1, <1>2 DEF RemInv, RemTypeOK
<1>4. /\ \A r \in Reminders : RowOK(r)'
      /\ \A q \in Requests : RequestOK(q)'
      /\ \A p \in Processes : TickOK(p)'
  BY <1>1 DEF RemInv, RowOK, RequestOK, TickOK, Due
<1>. QED BY <1>3, <1>4 DEF RemInv

---------------------------------------------------------------------------
LEMMA RemStep == RemInv /\ [RemNext]_remVars => RemInv'
<1>. SUFFICES ASSUME RemInv, [RemNext]_remVars PROVE RemInv'
  OBVIOUS
<1>1. ASSUME NEW p \in Processes, Sweep(p) \/ FireFails(p) \/ SweepDies(p) PROVE RemInv'
  BY <1>1, TickKeeps, FireKeeps DEF Sweep
<1>. QED
  BY <1>1, CreateKeeps, RequestKeeps, CommitKeeps, DateArrivesKeeps, RestKeeps DEF RemNext

\* RemInv holds in every reachable state of requests and sweeps.
THEOREM RemInvariance == RemSpec => []RemInv
BY RemInitOK, RemStep, PTL DEF RemSpec

\* Every variable keeps its type.
THEOREM RemTypeCorrect == RemSpec => []RemTypeOK
<1>1. RemInv => RemTypeOK
  BY DEF RemInv
<1>. QED BY <1>1, RemInvariance, PTL

\* No reminder is notified twice for one date, whatever the numbers of processes,
\* requests and reminders, and wherever sweeps fail or die.
THEOREM RemindedOnceHolds == RemSpec => []RemindedOnce
<1>1. RemInv => RemindedOnce
  BY DEF RemInv, RowOK, RemindedOnce
<1>. QED BY <1>1, RemInvariance, PTL

\* A reminder that its user still waits for is ACTIVE, so that a sweep will find
\* it: FIRED is never written without the notification of its date, but for the
\* requests that had loaded the reminder before it fired.
THEOREM OnlyTheSweepOwesHolds == RemSpec => []OnlyTheSweepOwes
<1>1. RemInv => OnlyTheSweepOwes
  BY DEF RemInv, RowOK, OnlyTheSweepOwes, Awaited
<1>. QED BY <1>1, RemInvariance, PTL
=============================================================================
