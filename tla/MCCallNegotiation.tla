---------------------------- MODULE MCCallNegotiation ----------------------------
(* CallNegotiation with a few offers and changes of muting. *)
EXTENDS CallNegotiation, TLC

Each(callers, callees) == [e \in Ends |-> IF e = "caller" THEN callers ELSE callees]

MCBudgets == {
    [offers |-> Each(1, 2), mutes |-> Each(0, 0)],
    [offers |-> Each(2, 1), mutes |-> Each(0, 0)],
    [offers |-> Each(1, 0), mutes |-> Each(1, 1)],
    [offers |-> Each(0, 1), mutes |-> Each(1, 1)] }
===============================================================================
