------------------------------ MODULE MCLadder ------------------------------
(***************************************************************************)
(* EscalationLadder with two escalations per ticket and chains of one or   *)
(* two hops.                                                                *)
(***************************************************************************)
EXTENDS EscalationLadder

CONSTANTS tl, am     \* the people a chain may name

MCChains == {<<tl>>, <<tl, am>>}
=============================================================================
