------------------------------ MODULE LossyLog ------------------------------
(***************************************************************************)
(* What an append-only log that may lose entries promises: an entry is kept  *)
(* at most once, entries are kept in the order in which they were made, and  *)
(* nothing is kept that was not made.                                        *)
(***************************************************************************)
EXTENDS Naturals

VARIABLES
  last,      \* number of the last entry that was made
  waiting,   \* entries that may still be kept
  kept       \* entries in the log

vars == <<last, waiting, kept>>

Init == last = 0 /\ waiting = {} /\ kept = {}

\* An entry is made, and lost at once or not.
Make ==
    /\ last' = last + 1
    /\ waiting' \in {waiting, waiting \cup {last + 1}}
    /\ UNCHANGED kept

\* The first of the entries that are waiting are kept, after all that are there.
Keep ==
    \E first \in SUBSET waiting :
        /\ \A e \in first, w \in waiting \ first : e < w
        /\ \A k \in kept, e \in first : k < e
        /\ kept' = kept \cup first
        /\ waiting' = waiting \ first
        /\ UNCHANGED last

Lose ==
    /\ waiting' \in SUBSET waiting
    /\ UNCHANGED <<last, kept>>

\* The log is deleted as a whole, with or without what is waiting.
Purge ==
    /\ kept' = {}
    /\ waiting' \in {waiting, {}}
    /\ UNCHANGED last

Next == Make \/ Keep \/ Lose \/ Purge

Spec == Init /\ [][Next]_vars
=============================================================================
