------------------------------ MODULE ForwardLedger ------------------------------
(***************************************************************************)
(* What the forwards of rule runs promise, without workers, pages and       *)
(* locks: each mail has one record for each run, a forward is on record     *)
(* before its e-mail leaves, one forward of a mail is under way at a time,   *)
(* and once it is over no e-mail leaves for that record again.               *)
(***************************************************************************)
EXTENDS Naturals

CONSTANTS Runs, Mails

VARIABLES
    record,    \* record[r][m]: none, sending, unknown, sent, unsent
    out,       \* out[r][m]: e-mails that left
    known,     \* mails of which it is known that they were forwarded
    open       \* the forwards under way, pairs of run and mail

ledger == <<record, out, known, open>>

Init ==
    /\ record = [r \in Runs |-> [m \in Mails |-> "none"]]
    /\ out = [r \in Runs |-> [m \in Mails |-> 0]]
    /\ known = {} /\ open = {}

\* The run decides not to forward the mail.
Decline(r, m) ==
    /\ record[r][m] = "none"
    /\ record' = [record EXCEPT ![r][m] = "unsent"]
    /\ UNCHANGED <<out, known, open>>

\* A forward begins, the first of its record and the only one of its mail.
Intend(r, m) ==
    /\ record[r][m] = "none" /\ m \notin known
    /\ \A q \in Runs : <<q, m>> \notin open
    /\ record' = [record EXCEPT ![r][m] = "sending"]
    /\ open' = open \cup {<<r, m>>}
    /\ UNCHANGED <<out, known>>

\* The e-mail leaves.
Leave(r, m) ==
    /\ <<r, m>> \in open /\ out[r][m] = 0 /\ m \notin known
    /\ out' = [out EXCEPT ![r][m] = 1]
    /\ UNCHANGED <<record, known, open>>

\* The forward ends and its record says what became of it.
Conclude(r, m) ==
    /\ <<r, m>> \in open
    /\ record' = [record EXCEPT ![r][m] = IF out[r][m] = 1 THEN "sent" ELSE "unsent"]
    /\ known' = IF out[r][m] = 1 THEN known \cup {m} ELSE known
    /\ open' = open \ {<<r, m>>}
    /\ UNCHANGED out

\* It ends and nobody is told.
Abandon(r, m) ==
    /\ <<r, m>> \in open
    /\ \/ UNCHANGED record
       \/ record' = [record EXCEPT ![r][m] = "unknown"]
    /\ open' = open \ {<<r, m>>}
    /\ UNCHANGED <<out, known>>

\* Somebody else who works on the run doubts its record.
Doubt(r, m) ==
    /\ record[r][m] # "none"
    /\ record' = [record EXCEPT ![r][m] = "unknown"]
    /\ UNCHANGED <<out, known, open>>

\* The mail is forwarded on arrival, which is before any run has a record of it.
ForwardedOnArrival(m) ==
    /\ \A r \in Runs : record[r][m] = "none"
    /\ known' = known \cup {m}
    /\ UNCHANGED <<record, out, open>>

Next ==
    \/ \E r \in Runs, m \in Mails :
         \/ Decline(r, m) \/ Intend(r, m) \/ Leave(r, m)
         \/ Conclude(r, m) \/ Abandon(r, m) \/ Doubt(r, m)
    \/ \E m \in Mails : ForwardedOnArrival(m)

Spec == Init /\ [][Next]_ledger
=============================================================================
