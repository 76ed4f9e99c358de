---------------------------- MODULE MCApiAccess ----------------------------
(* A small API: one key, two plans, rows with and without an end *)
EXTENDS ApiAccess

MCPlans ==
    [p \in {"public_demo", "premium"} |->
        IF p = "premium" THEN [history |-> 2, premium |-> TRUE, stream |-> TRUE]
        ELSE [history |-> 1, premium |-> FALSE, stream |-> FALSE]]

\* In force from 1 to 2; and a row with an unreadable end, never in force.
MCEntitlements ==
    {[active |-> TRUE, starts |-> 1, ends |-> 2],
     [active |-> TRUE, starts |-> NoTime, ends |-> Unreadable]}
=============================================================================
