------------------------------ MODULE MCCallRecords ------------------------------
(* CallRecords with three calls, and candidates of two of them. *)
EXTENDS CallRecords, TLC

b1 == [call |-> 1, n |-> 1]
b2 == [call |-> 1, n |-> 2]
f1 == [call |-> 2, n |-> 1]

MCBatches == {b1, b2, f1}
MCForeign == {f1}
===============================================================================
