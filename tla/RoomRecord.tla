------------------------------- MODULE RoomRecord -------------------------------
(***************************************************************************)
(* What the record of the rooms promises: of every room it keeps a value   *)
(* the room had, and moves to a later one or not at all, whenever a crash  *)
(* may come.  Values are numbered in the order a room takes them.          *)
(***************************************************************************)
EXTENDS Integers

CONSTANT Rooms

VARIABLES
    current,  \* the value of each room
    kept,     \* the value the record has for it
    lost      \* whether the record could not be read when it was loaded

vars == <<current, kept, lost>>

Init ==
    /\ current \in [Rooms -> Nat]
    /\ kept = current
    /\ lost = FALSE

\* A room takes its next value.
Change(r) ==
    /\ current' = [current EXCEPT ![r] = @ + 1]
    /\ UNCHANGED <<kept, lost>>

\* The record is written: each room's entry stays or moves on.  After a record
\* that could not be read it may start over.
Save ==
    /\ kept' \in [Rooms -> Nat]
    /\ \A r \in Rooms : /\ kept'[r] <= current[r] \/ kept'[r] = kept[r]
                        /\ lost \/ kept'[r] >= kept[r]
    /\ UNCHANGED <<current, lost>>

\* The record cannot be read: the rooms start over from nothing.
Lose ==
    /\ lost' = TRUE
    /\ current' = [r \in Rooms |-> 0]
    /\ UNCHANGED kept

Next == Save \/ Lose \/ \E r \in Rooms : Change(r)

Spec == Init /\ [][Next]_vars
===============================================================================
