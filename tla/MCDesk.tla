-------------------------------- MODULE MCDesk --------------------------------
(***************************************************************************)
(* TicketAssignments in five settings: one request at a time; overlapping  *)
(* status changes; a customer reply that overlaps one; overlapping changes *)
(* of the people on the ticket; overlapping changes of its category.  The  *)
(* model ends at the first late write that puts something out of step.     *)
(***************************************************************************)
EXTENDS TicketAssignments, TLC

CONSTANTS u1, u2, u3, c1, c2, x1, s1, s2

MCSymmetry == Permutations({u1, u2}) \cup Permutations(Sessions)

VARIABLE setting

deskVars == <<tvars, setting>>

MCInit ==
    /\ TInit
    /\ setting \in {"serial", "statuses", "replies", "owner", "types"}
    /\ setting # "types" => category = [main |-> c1, others |-> {}] /\ ticket.type = c1

AllFree == \A s \in Sessions : Free(s)
Only(ops) == \A s \in Sessions : sess'[s].op \in ops \cup {"idle"}
OneCategory == ticket'.type = ticket.type /\ category' = category
TwoUsers == \A r \in Rows : assignment'[r].user # u3
TwoRows == assignment'[3].user = Nobody
OneRun == \A r \in Rows : assignment'[r].runs <= 1
AtWork == ticket'.status \in {"OPEN", "IN_PROGRESS"}

MCNext ==
    /\ TNext /\ UNCHANGED setting /\ slips = {}
    /\ CASE setting = "serial" ->
              /\ OneCategory /\ TwoUsers
              /\ Only({"assign", "transfer", "secondary", "status"})
              /\ AllFree \/ \E s \in Sessions : ~Free(s) /\ sess'[s] = Idle
         [] setting = "statuses" ->
              OneCategory /\ TwoUsers /\ TwoRows /\ OneRun /\ Only({"secondary", "status"})
         [] setting = "replies" ->
              /\ OneCategory /\ TwoUsers /\ TwoRows
              /\ Only({"status", "reply"})
              /\ \E s \in Sessions : sess'[s].op \in {"reply", "idle"}
         [] setting = "owner" ->
              OneCategory /\ AtWork /\ Only({"assign", "transfer"})
         [] setting = "types" ->
              AtWork /\ TwoUsers /\ TwoRows /\ Only({"transfer", "update"})

MCSpec == MCInit /\ [][MCNext]_deskVars
=============================================================================
