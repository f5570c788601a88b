----------------------------- MODULE MCSessions -----------------------------
(***************************************************************************)
(* EscalationSessions in two settings: one session at a time with every    *)
(* operation, and two that overlap with those of ShortOverlap, on a ticket *)
(* that has a clock.                                                       *)
(***************************************************************************)
EXTENDS EscalationSessions, TLC

CONSTANTS tl, am, s1, s2     \* people in a chain; sessions

ShortChains == {<<tl>>}
MCChains == {<<tl>>, <<tl, am>>}
Symmetry == Permutations(Sessions)

ShortOverlap == {"confirm", "escalate_new", "auto", "overdue"}

VARIABLE serial    \* the setting

MCInit == SInit /\ serial \in BOOLEAN /\ (serial \/ clock.status # "NONE")

MCNext ==
    /\ \/ serial /\ SerialNext
       \/ /\ ~serial /\ SNext /\ clock'.status # "NONE"
          /\ \A s \in Sessions : sess'[s].op \in ShortOverlap \cup {"idle"}
    /\ UNCHANGED serial

MCSpec == MCInit /\ [][MCNext]_<<svars, serial>>

\* Only overlapping sessions, of the operations of the configuration.
OverlapSpec ==
    SInit /\ serial = FALSE /\ [][SNext /\ UNCHANGED serial]_<<svars, serial>>

\* One session at a time is EscalationLadder: loading changes nothing, and a
\* commit is the handler.  (For two sessions this is false.)
SerialImplementsLadder ==
    (serial => Init) /\ [][serial => Next]_vars
=============================================================================
