--------------------------- MODULE TicketAssignments ---------------------------
(***************************************************************************)
(* Who works on a ticket: the table of assignments, the clock of each      *)
(* assignee, the categories, and the columns of the ticket that repeat     *)
(* them (agent_id, ticket_type, current_status).  One ticket.              *)
(*                                                                         *)
(* The operations of TicketAssignmentService lock the ticket row and read  *)
(* what they decide on after that; each is one step.  The others load rows *)
(* without a lock, await, and write later (Begin..., Commit...).  So do    *)
(* the routes that add and remove an assignee: they load the primary       *)
(* assignment before the lock is taken, and the session keeps that object. *)
(* The columns a session writes are those it gives another value than the  *)
(* one it loaded.                                                          *)
(***************************************************************************)
EXTENDS Naturals

CONSTANTS
    Users, Nobody,
    Categories,      \* the categories there are, by name
    NoCategory,
    Names,           \* what a ticket_type may say; not every name is a category's
    Sessions,
    MaxAssignments,  \* bound: rows of the table, removed ones included
    MaxRuns          \* bound: clocks started for one assignment

ASSUME AssignmentsAssumption ==
    /\ Nobody \notin Users
    /\ Categories # {} /\ Categories \subseteq Names /\ NoCategory \notin Names
    /\ MaxAssignments \in Nat \ {0} /\ MaxRuns \in Nat \ {0}

VARIABLES
    ticket,      \* the columns of the ticket
    assignment,  \* the rows of ticket_assignments, and the clock of each
    category,    \* the rows of ticket_categories
    sess,        \* what each session loaded before it awaited
    slips        \* history: what late writes have put out of step

tvars == <<ticket, assignment, category, sess, slips>>

Rows == 1 .. MaxAssignments

\* PENDING, which every rule here treats as IN_PROGRESS, is left out.
OpenStates == {"OPEN", "IN_PROGRESS", "WAITING_FOR_CLIENT", "RESOLVED"}
TicketStates == OpenStates \cup {"CLOSED"}

\* live is the number of the run that is not COMPLETED, 0 when there is none.
Fresh(u, lead, status) ==
    [user |-> u, primary |-> u = lead, removed |-> FALSE, status |-> status,
     live |-> 0, paused |-> FALSE, runs |-> 0]

Blank == [user |-> Nobody, primary |-> FALSE, removed |-> FALSE, status |-> "OPEN",
          live |-> 0, paused |-> FALSE, runs |-> 0]

Active(rows) == {r \in Rows : rows[r].user # Nobody /\ ~rows[r].removed}
Primaries(rows) == {r \in Active(rows) : rows[r].primary}
RowsOf(rows, u) == {r \in Active(rows) : rows[r].user = u}
Unused(rows) == {r \in Rows : rows[r].user = Nobody}

---------------------------------------------------------------------------
(* The clock of an assignment                                              *)

Started(a, paused) ==
    IF a.live # 0 THEN a
    ELSE [a EXCEPT !.runs = a.runs + 1, !.live = a.runs + 1, !.paused = paused]

Completed(a) == [a EXCEPT !.live = 0, !.paused = FALSE]

Paused(a) == [a EXCEPT !.paused = a.live # 0]

\* Mutant: resuming takes the number of a new run.
Resumed_NewNumber(a) == [a EXCEPT !.paused = FALSE, !.live = a.live + 1]

Resumed(a) == [a EXCEPT !.paused = FALSE]

\* The assignment gets a status, and its clock follows the status it had
\* when it was loaded.
AfterStatus(a, old, new) ==
    LET b == [a EXCEPT !.status = new]
        c == IF new = "WAITING_FOR_CLIENT" THEN Paused(b)
             ELSE IF old = "WAITING_FOR_CLIENT" THEN Resumed(b) ELSE b
    IN  CASE old = new -> a
          [] old # new /\ new = "RESOLVED" -> Completed(c)
          [] old = "RESOLVED" /\ new # old -> Started(c, new = "WAITING_FOR_CLIENT")
          [] OTHER -> c

---------------------------------------------------------------------------
(* Rows                                                                    *)

\* A row for u, as the primary when u is the lead.
NewRow(u, lead, status) ==
    IF status \in {"RESOLVED", "CLOSED"} THEN Fresh(u, lead, status)
    ELSE Started(Fresh(u, lead, status), status = "WAITING_FOR_CLIENT")

FreeRow(rows) == CHOOSE r \in Rows : rows[r].user = Nobody

Added(rows, u, lead, status) ==
    [rows EXCEPT ![FreeRow(rows)] = NewRow(u, lead, status)]

SoftRemoved(a) == [Completed(a) EXCEPT !.primary = FALSE, !.removed = TRUE]

Promoted(rows, set) ==
    [r \in Rows |-> IF r \in set THEN [rows[r] EXCEPT !.primary = TRUE] ELSE rows[r]]
Demoted(rows, set) ==
    [r \in Rows |-> IF r \in set THEN [rows[r] EXCEPT !.primary = FALSE] ELSE rows[r]]

\* Mutant: a promoted secondary gets a new clock.
PrimarySet_Restarts(rows, u, status) ==
    LET old == Primaries(rows)
        left == [r \in Rows |-> IF r \in old THEN SoftRemoved(rows[r])
                                ELSE IF rows[r].live = 0 THEN rows[r]
                                ELSE Started(Completed(rows[r]), FALSE)]
        own == RowsOf(rows, u) \ old
    IN  CASE \E r \in old : rows[r].user = u -> rows
          [] (\A r \in old : rows[r].user # u) /\ own # {} -> Promoted(left, own)
          [] OTHER -> Added(left, u, u, status)

\* u becomes the primary: the previous one is removed, a secondary is
\* promoted as it is, and anybody else gets a row with the ticket's status.
PrimarySet(rows, u, status) ==
    LET old == Primaries(rows)
        left == [r \in Rows |-> IF r \in old THEN SoftRemoved(rows[r]) ELSE rows[r]]
        own == RowsOf(rows, u) \ old
    IN  CASE \E r \in old : rows[r].user = u -> rows
          [] (\A r \in old : rows[r].user # u) /\ own # {} -> Promoted(left, own)
          [] OTHER -> Added(left, u, u, status)

StatusAfterAssigning(status) == IF status = "OPEN" THEN "IN_PROGRESS" ELSE status

\* c becomes the primary category, in the place of the previous one.
MovedTo(cat, c) == [main |-> c, others |-> cat.others \ {c}]

\* The same for a name out of a request: one that no category has is skipped.
Synced(cat, name) ==
    IF name \in Categories \ {cat.main} THEN MovedTo(cat, name) ELSE cat

Attached(cat) == (cat.others \cup {cat.main}) \ {NoCategory}

---------------------------------------------------------------------------
(* Sessions                                                                *)

Idle == [op |-> "idle"]

Free(s) == sess[s] = Idle

Load(s, record) ==
    /\ Free(s)
    /\ sess' = [sess EXCEPT ![s] = record]
    /\ UNCHANGED <<ticket, assignment, category, slips>>

Release(s) == sess' = [sess EXCEPT ![s] = Idle]

Slip(happened, kind) == slips' = IF happened THEN slips \cup {kind} ELSE slips

---------------------------------------------------------------------------
(* Operations that hold the row lock from their first read to the commit   *)

\* A ticket is made from a mail, for nobody, for one person, or for two.  Its
\* ticket_type may be any name, the further categories are known ones.
Created(u, other, name, more) ==
    LET rows == [r \in Rows |-> Blank]
        one == IF u = Nobody THEN rows ELSE Added(rows, u, u, "IN_PROGRESS")
    IN  /\ ticket = [status |-> IF u = Nobody THEN "OPEN" ELSE "IN_PROGRESS",
                     agent |-> u, type |-> name]
        /\ assignment = IF other = Nobody THEN one ELSE Added(one, other, u, "OPEN")
        /\ category = Synced([main |-> NoCategory, others |-> more], name)

\* The UPDATE of claim() carries its own guard.
Claim(u) ==
    /\ ticket.agent = Nobody /\ ticket.status = "OPEN"
    /\ Unused(assignment) # {}
    /\ ticket' = [ticket EXCEPT !.agent = u, !.status = "IN_PROGRESS"]
    /\ assignment' = PrimarySet(assignment, u, "IN_PROGRESS")
    /\ UNCHANGED <<category, sess, slips>>

\* Promotes an assignee; the same request may then set the new primary's status.
ChangePrimary(r, status) ==
    /\ ticket.status # "CLOSED"
    /\ r \in Active(assignment) \ Primaries(assignment)
    /\ LET rows == Promoted(Demoted(assignment, Primaries(assignment)), {r})
       IN  IF status = "none"
           THEN /\ ticket' = [ticket EXCEPT !.agent = assignment[r].user]
                /\ assignment' = rows
           ELSE /\ ticket' = [ticket EXCEPT !.agent = assignment[r].user, !.status = status]
                /\ assignment' = [rows EXCEPT ![r] = AfterStatus(rows[r], rows[r].status, status)]
    /\ UNCHANGED <<category, sess, slips>>

\* Mutant: only the runs of active assignments that are RUNNING are completed.
CloseTicket_PausedGoOn ==
    /\ ticket.status # "CLOSED"
    /\ ticket' = [ticket EXCEPT !.status = "CLOSED"]
    /\ assignment' = [r \in Rows |->
          LET a == IF assignment[r].paused THEN assignment[r] ELSE Completed(assignment[r])
          IN  IF r \in Active(assignment) THEN [a EXCEPT !.status = "CLOSED"] ELSE a]
    /\ UNCHANGED <<category, sess, slips>>

\* Every active assignment is closed, every run of the ticket completed.
CloseTicket ==
    /\ ticket.status # "CLOSED"
    /\ ticket' = [ticket EXCEPT !.status = "CLOSED"]
    /\ LET active == Active(assignment) IN
       assignment' = [r \in Rows |-> IF r \in active
                        THEN [Completed(assignment[r]) EXCEPT !.status = "CLOSED"]
                        ELSE Completed(assignment[r])]
    /\ UNCHANGED <<category, sess, slips>>

Reopened(rows) ==
    LET active == Active(rows) IN
    [r \in Rows |-> IF r \in active THEN Started([rows[r] EXCEPT !.status = "OPEN"], FALSE)
                                    ELSE rows[r]]

ReopenTicket ==
    /\ ticket.status = "CLOSED"
    /\ ticket' = [ticket EXCEPT !.status = "OPEN"]
    /\ assignment' = Reopened(assignment)
    /\ UNCHANGED <<category, sess, slips>>

\* A mail is attached to a closed ticket by u: reopened, put IN_PROGRESS the
\* way u's own status change is, and given to somebody else when asked.
AttachToClosed(u, to) ==
    /\ ticket.status = "CLOSED"
    /\ to # Nobody => to # ticket.agent /\ Unused(assignment) # {}
    /\ LET rows == Reopened(assignment)
           own == RowsOf(assignment, u) \ Primaries(assignment)
           moved == IF own = {} THEN Primaries(assignment) ELSE own
           status == IF own = {} THEN "IN_PROGRESS" ELSE "OPEN"
           worked == [r \in Rows |-> IF r \in moved
                        THEN AfterStatus(rows[r], rows[r].status, "IN_PROGRESS") ELSE rows[r]]
           final == StatusAfterAssigning(status)
       IN  IF to = Nobody
           THEN /\ ticket' = [ticket EXCEPT !.status = status]
                /\ assignment' = worked
           ELSE /\ ticket' = [ticket EXCEPT !.status = final, !.agent = to]
                /\ assignment' = PrimarySet(worked, to, final)
    /\ UNCHANGED <<category, sess, slips>>

\* The first category of a ticket is its primary one.
AddCategory(c) ==
    /\ ticket.status # "CLOSED"
    /\ c \notin Attached(category)
    /\ IF Attached(category) = {}
       THEN /\ category' = MovedTo(category, c)
            /\ ticket' = [ticket EXCEPT !.type = c]
       ELSE /\ category' = [category EXCEPT !.others = category.others \cup {c}]
            /\ UNCHANGED ticket
    /\ UNCHANGED <<assignment, sess, slips>>

\* Mutant: ticket_type stays when the primary category goes.
RemoveCategory_TypeStays(c, next) ==
    /\ ticket.status # "CLOSED"
    /\ c \in Attached(category)
    /\ next \in Attached(category) \ {c}
    /\ category' = IF c = category.main THEN MovedTo(category, next)
                   ELSE [category EXCEPT !.others = category.others \ {c}]
    /\ UNCHANGED <<ticket, assignment, sess, slips>>

\* A ticket keeps at least one category.  The oldest one that remains follows a
\* primary one that is removed, and ticket_type follows with it.
RemoveCategory(c, next) ==
    /\ ticket.status # "CLOSED"
    /\ c \in Attached(category)
    /\ next \in Attached(category) \ {c}
    /\ IF c = category.main
       THEN /\ category' = MovedTo(category, next)
            /\ ticket' = [ticket EXCEPT !.type = next]
       ELSE /\ category' = [category EXCEPT !.others = category.others \ {c}]
            /\ UNCHANGED ticket
    /\ UNCHANGED <<assignment, sess, slips>>

---------------------------------------------------------------------------
(* Adding and removing assignees                                           *)

\* The route loads the primary assignment, for the comparison it makes later.
BeginAssign(s) ==
    IF Primaries(assignment) = {}
    THEN Load(s, [op |-> "assign", before |-> 0])
    ELSE \E p \in Primaries(assignment) : Load(s, [op |-> "assign", before |-> p])

\* The rows this session takes for primary: the object loaded before the lock
\* still says so.
TakenForPrimary(s) ==
    Primaries(assignment) \cup ({sess[s].before} \cap Active(assignment))

Outdated(s) == sess[s].before # 0 /\ sess[s].before \notin Primaries(assignment)

\* u, and with w a second user, are added; named is the primary of the request.
AddUsers(s, u, w, named) ==
    LET old == IF Primaries(assignment) # {} THEN Primaries(assignment) ELSE TakenForPrimary(s)
        lead == IF old = {} /\ named = Nobody THEN u ELSE named
        demoted == {r \in old : lead # Nobody /\ assignment[r].user # lead}
        fresh == lead \in {u, w} \ {Nobody}
        promoted == RowsOf(assignment, lead) \ TakenForPrimary(s)
        status == IF fresh THEN StatusAfterAssigning(ticket.status) ELSE ticket.status
        start(v) == IF v = lead THEN status ELSE "OPEN"
        rows == Demoted(assignment, demoted)
        one == Added(rows, u, lead, start(u))
        all == IF w = Nobody THEN one ELSE Added(one, w, lead, start(w))
    IN  /\ sess[s].op = "assign"
        /\ ticket.status # "CLOSED"
        /\ u # w /\ RowsOf(assignment, u) = {} /\ RowsOf(assignment, w) = {}
        /\ named \in {u, w, Nobody} \cup {assignment[r].user : r \in Active(assignment)}
        /\ Unused(assignment) # {} /\ (w # Nobody => Unused(one) # {})
        /\ assignment' = Promoted(all, promoted)
        /\ ticket' = IF fresh \/ promoted # {}
                     THEN [ticket EXCEPT !.agent = lead, !.status = status] ELSE ticket
        /\ Slip(Outdated(s) /\ sess[s].before \in RowsOf(assignment, lead), "owner")
        /\ Release(s) /\ UNCHANGED category

\* Mutant: the primary may leave without a successor.
RemoveAssignment_NoSuccessor(s, r, next) ==
    LET was == r \in TakenForPrimary(s) \cup {sess[s].before}
    IN  /\ sess[s].op = "assign"
        /\ ticket.status # "CLOSED"
        /\ r \in Active(assignment) \cup ({sess[s].before} \ {0})
        /\ next = 0
        /\ assignment' = [assignment EXCEPT ![r] = SoftRemoved(assignment[r])]
        /\ ticket' = IF was THEN [ticket EXCEPT !.agent = Nobody] ELSE ticket
        /\ UNCHANGED slips
        /\ Release(s) /\ UNCHANGED category

\* r is unassigned; a primary that leaves others behind names its successor.
\* An object already marked primary is not written again, and a second primary
\* violates the unique index, which rolls the request back.
RemoveAssignment(s, r, next) ==
    LET others == Active(assignment) \ {r}
        was == r \in TakenForPrimary(s) \cup {sess[s].before}
        left == [assignment EXCEPT ![r] = SoftRemoved(assignment[r])]
        rows == Promoted(left, {next} \ {0, sess[s].before})
        agent == IF next = 0 THEN Nobody ELSE assignment[next].user
    IN  /\ sess[s].op = "assign"
        /\ ticket.status # "CLOSED"
        /\ r \in Active(assignment) \cup ({sess[s].before} \ {0})
        /\ next \in IF was /\ others # {} THEN others ELSE {0}
        /\ IF \E p, q \in Primaries(rows) : p # q
           THEN UNCHANGED <<ticket, assignment, slips>>
           ELSE /\ assignment' = rows
                /\ ticket' = IF was THEN [ticket EXCEPT !.agent = agent] ELSE ticket
                /\ Slip(Outdated(s) /\ next # 0 /\ next = sess[s].before, "owner")
        /\ Release(s) /\ UNCHANGED category

---------------------------------------------------------------------------
(* Handlers that load without a lock                                       *)

\* r is the assignment meant, 0 when the user has none and means the ticket.
BeginStatus(s, r) ==
    /\ ticket.status # "CLOSED"
    /\ r \in Active(assignment) \cup {0}
    /\ Load(s, [op |-> IF r \in Active(assignment) \ Primaries(assignment)
                       THEN "secondary" ELSE "status",
                row |-> r, seen |-> IF r = 0 THEN "OPEN" ELSE assignment[r].status,
                ticket |-> ticket.status])

\* A secondary changes its own row and clock only.
CommitSecondary(s, new) ==
    LET t == sess[s] IN
    /\ t.op = "secondary"
    /\ assignment' = [assignment EXCEPT ![t.row] = AfterStatus(assignment[t.row], t.seen, new)]
    /\ Slip(/\ new # t.seen
            /\ assignment[t.row].removed \/ assignment[t.row].status # t.seen, "work")
    /\ Release(s) /\ UNCHANGED <<ticket, category>>

\* The ticket, and the assignment that is primary by then.
CommitStatus(s, new) ==
    LET t == sess[s]
        main == Primaries(assignment)
        known(r) == IF r = t.row THEN t.seen ELSE assignment[r].status
    IN  /\ t.op = "status"
        /\ ticket' = [ticket EXCEPT !.status = IF new = t.ticket THEN ticket.status ELSE new]
        /\ assignment' = [r \in Rows |-> IF r \in main THEN AfterStatus(assignment[r], known(r), new)
                                                     ELSE assignment[r]]
        /\ Slip(\/ ticket.status = "CLOSED"
                \/ \E r \in main : known(r) \notin {new, assignment[r].status}, "work")
        /\ Release(s) /\ UNCHANGED category

BeginTransfer(s) ==
    /\ ticket.status # "CLOSED"
    /\ Load(s, [op |-> "transfer", status |-> ticket.status, agent |-> ticket.agent,
                type |-> ticket.type])

\* To u and, when the name is another than the loaded one, into its category;
\* a name that no category has is refused.
CommitTransfer(s, u, name) ==
    LET t == sess[s]
        status == IF t.status = "OPEN" THEN "IN_PROGRESS" ELSE ticket.status
    IN  /\ t.op = "transfer"
        /\ name \in Categories \cup {t.type}
        /\ u # t.agent \/ name # t.type
        /\ Unused(assignment) # {}
        /\ ticket' = [status |-> status,
                      agent |-> IF u = t.agent THEN ticket.agent ELSE u,
                      type |-> IF name = t.type THEN ticket.type ELSE name]
        /\ assignment' = PrimarySet(assignment, u, status)
        /\ category' = IF name = t.type THEN category ELSE Synced(category, name)
        /\ slips' = slips \cup (IF u = t.agent /\ ticket.agent # u THEN {"owner"} ELSE {})
                          \cup (IF status # ticket.status /\ ticket.status = "CLOSED"
                                THEN {"work"} ELSE {})
        /\ Release(s)

BeginUpdate(s) ==
    /\ ticket.status # "CLOSED"
    /\ Load(s, [op |-> "update", status |-> ticket.status, type |-> ticket.type])

\* PATCH of the ticket: ticket_type, which takes any name...
CommitType(s, name) ==
    LET t == sess[s] IN
    /\ t.op = "update"
    /\ ticket' = [ticket EXCEPT !.type = IF name = t.type THEN ticket.type ELSE name]
    /\ category' = Synced(category, name)
    /\ Slip(name = t.type /\ ticket.type # name /\ {name, ticket.type} \subseteq Categories,
            "type")
    /\ Release(s) /\ UNCHANGED assignment

\* ...or the status, of the ticket alone.
CommitPatch(s, new) ==
    LET t == sess[s] IN
    /\ t.op = "update"
    /\ ticket' = [ticket EXCEPT !.status = IF new = t.status THEN ticket.status ELSE new]
    /\ Slip(new # t.status /\ ~(new = "CLOSED" <=> ticket.status = "CLOSED"), "work")
    /\ Release(s) /\ UNCHANGED <<assignment, category>>

\* The customer has answered: every paused clock of the ticket is loaded...
BeginReply(s) ==
    Load(s, [op |-> "reply",
             runs |-> {<<r, assignment[r].live>> : r \in {q \in Rows : assignment[q].paused}}])

\* ...and set RUNNING, also if it was completed meanwhile.  A second live run
\* violates the unique index.
CommitReply(s) ==
    LET runs == sess[s].runs
        number(r) == CHOOSE n \in 1 .. MaxRuns : <<r, n>> \in runs
        hit == {r \in Rows : \E n \in 1 .. MaxRuns : <<r, n>> \in runs}
    IN  /\ sess[s].op = "reply"
        /\ IF \E r \in hit : assignment[r].live \notin {0, number(r)}
           THEN UNCHANGED <<assignment, slips>>
           ELSE /\ assignment' = [r \in Rows |->
                      IF r \in hit THEN [assignment[r] EXCEPT !.live = number(r), !.paused = FALSE]
                                   ELSE assignment[r]]
                /\ Slip(\E r \in hit : assignment[r].live = 0, "work")
        /\ Release(s) /\ UNCHANGED <<ticket, category>>

---------------------------------------------------------------------------
TInit ==
    /\ \E u, other \in Users \cup {Nobody}, name \in Names, more \in SUBSET Categories :
          /\ other # Nobody => u # Nobody /\ u # other /\ MaxAssignments > 1
          /\ more # {} => other # Nobody /\ name \notin more
          /\ Created(u, other, name, more)
    /\ sess = [s \in Sessions |-> Idle]
    /\ slips = {}

Locked ==
    \/ \E u \in Users : Claim(u) \/ \E to \in Users \cup {Nobody} : AttachToClosed(u, to)
    \/ \E r \in Rows, status \in OpenStates \cup {"none"} : ChangePrimary(r, status)
    \/ CloseTicket \/ ReopenTicket

Categorize ==
    \E c \in Categories : AddCategory(c) \/ \E next \in Categories : RemoveCategory(c, next)

Begin(s) ==
    \/ BeginAssign(s) \/ BeginTransfer(s) \/ BeginUpdate(s) \/ BeginReply(s)
    \/ \E r \in Rows \cup {0} : BeginStatus(s, r)

Commit(s) ==
    \/ \E u \in Users, w, named \in Users \cup {Nobody} : AddUsers(s, u, w, named)
    \/ \E r \in Rows, next \in Rows \cup {0} : RemoveAssignment(s, r, next)
    \/ \E new \in OpenStates : CommitSecondary(s, new) \/ CommitStatus(s, new)
    \/ \E u \in Users, name \in Names : CommitTransfer(s, u, name)
    \/ \E name \in Names : CommitType(s, name)
    \/ \E new \in TicketStates : CommitPatch(s, new)
    \/ CommitReply(s)

TNext ==
    /\ Locked \/ Categorize \/ \E s \in Sessions : Begin(s) \/ Commit(s)
    /\ \A r \in Rows : assignment'[r].runs <= MaxRuns

TSpec == TInit /\ [][TNext]_tvars

---------------------------------------------------------------------------
(* Properties                                                              *)

AssignmentType ==
    [user : Users \cup {Nobody}, primary : BOOLEAN, removed : BOOLEAN, status : TicketStates,
     live : 0 .. MaxRuns, paused : BOOLEAN, runs : 0 .. MaxRuns]

InFlight ==
    [op : {"assign"}, before : Rows \cup {0}]
      \cup [op : {"secondary"}, row : Rows, seen : TicketStates, ticket : OpenStates]
      \cup [op : {"status"}, row : Rows \cup {0}, seen : TicketStates, ticket : OpenStates]
      \cup [op : {"transfer"}, status : OpenStates, agent : Users \cup {Nobody}, type : Names]
      \cup [op : {"update"}, status : OpenStates, type : Names]
      \cup [op : {"reply"}, runs : SUBSET (Rows \X (1 .. MaxRuns))]

AssignTypeOK ==
    /\ ticket \in [status : TicketStates, agent : Users \cup {Nobody}, type : Names]
    /\ assignment \in [Rows -> AssignmentType]
    /\ category \in [main : Categories \cup {NoCategory}, others : SUBSET Categories]
    /\ slips \subseteq {"owner", "work", "type"}
    /\ sess \in [Sessions -> InFlight \cup {Idle}]

\* The people on a ticket are each on it once and one of them is accountable,
\* the one the ticket names: escalation follows the column agent_id, the list
\* of assignees the rows.  It stays so however the requests of several users
\* overlap, except after two kinds of late write: a move to another category
\* that names the owner it loaded, when the owner has changed since, and a
\* request that names as primary the assignment it loaded as primary before the
\* lock, when another was promoted since.
OwnerIsPrimary ==
    /\ \A p, q \in Primaries(assignment) : p = q
    /\ \A u \in Users : \A p, q \in RowsOf(assignment, u) : p = q
    /\ "owner" \notin slips =>
          /\ Active(assignment) # {} => Primaries(assignment) # {}
          /\ ticket.agent \in IF Primaries(assignment) = {} THEN {Nobody}
                              ELSE {assignment[r].user : r \in Primaries(assignment)}

\* Everybody who still has work to do on the ticket has one clock, nobody else
\* has; and a closed ticket leaves no assignment open: "never a partial state
\* where the ticket is CLOSED and an assignment or timer is still active".
\* Only a status change, transfer, PATCH of the status or customer reply that
\* loaded its rows before such a step and writes after it breaks this.
WorkFollowsTicket ==
    "work" \notin slips =>
        \A r \in Rows :
            LET a == assignment[r]
                active == r \in Active(assignment)
            IN  /\ a.live # 0 <=> active /\ a.status \notin {"RESOLVED", "CLOSED"}
                /\ a.paused => a.status = "WAITING_FOR_CLIENT"
                /\ active => (a.status = "CLOSED" <=> ticket.status = "CLOSED")

\* A ticket_type that is the name of a category names the primary one: readers
\* of the one column and readers of the table are told the same.  A PATCH, or
\* the creation, with a name no category has parts the two, and the next known
\* name, or the removal of the primary category, brings them together; a PATCH
\* that names the category it loaded, after the ticket went to another, does not.
TypeIsMainCategory ==
    /\ category.main \notin category.others
    /\ "type" \notin slips /\ ticket.type \in Categories => ticket.type = category.main

\* "No restart, no duplicate timer": no promotion, transfer, reply or late
\* write puts another clock in the place of one that runs; a run ends because
\* its assignee resolved, was removed, or the ticket was closed.
TimersAreKept ==
    [][\A r \in Rows :
          assignment[r].live # 0 =>
             \/ assignment'[r].live = assignment[r].live
             \/ /\ assignment'[r].live = 0
                /\ \/ assignment'[r].status \in {"RESOLVED", "CLOSED"}
                   \/ assignment'[r].removed]_tvars
=============================================================================
