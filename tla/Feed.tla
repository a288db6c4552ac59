-------------------------------- MODULE Feed --------------------------------
(***************************************************************************)
(* What a feed of events promises its readers: who asks for the events after *)
(* number n is given n + 1, n + 2 and so on, each once and none left out, at  *)
(* most Size of them ahead of the reader; and a feed ends only when the       *)
(* reader has taken all that it was given.                                   *)
(***************************************************************************)
EXTENDS Naturals, Sequences

CONSTANTS
  Readers,
  Size      \* how many events may wait for a reader

VARIABLES
  last,    \* number of the last event that was published
  open,    \* the readers that are being served
  from,    \* the number each of them asked to start after
  given,   \* the events given to each, in order
  taken    \* how many of them it has taken

vars == <<last, open, from, given, taken>>

Init ==
    /\ last = 0
    /\ open = {}
    /\ from = [r \in Readers |-> 0]
    /\ given = [r \in Readers |-> <<>>]
    /\ taken = [r \in Readers |-> 0]

Publish ==
    /\ last' = last + 1
    /\ UNCHANGED <<open, from, given, taken>>

Join(r) ==
    /\ r \notin open
    /\ open' = open \cup {r}
    /\ from'[r] \in Nat /\ from' = [from EXCEPT ![r] = from'[r]]
    /\ UNCHANGED <<last, given, taken>>

Give(r) ==
    LET next == from[r] + Len(given[r]) + 1
    IN  /\ r \in open
        /\ next <= last
        /\ Len(given[r]) - taken[r] < Size
        /\ given' = [given EXCEPT ![r] = Append(@, next)]
        /\ UNCHANGED <<last, open, from, taken>>

Take(r) ==
    /\ taken[r] < Len(given[r])
    /\ taken' = [taken EXCEPT ![r] = @ + 1]
    /\ UNCHANGED <<last, open, from, given>>

Leave(r) ==
    /\ r \in open
    /\ taken[r] = Len(given[r])
    /\ open' = open \ {r}
    /\ from' = [from EXCEPT ![r] = 0]
    /\ given' = [given EXCEPT ![r] = <<>>]
    /\ taken' = [taken EXCEPT ![r] = 0]
    /\ UNCHANGED last

Next == Publish \/ \E r \in Readers : Join(r) \/ Give(r) \/ Take(r) \/ Leave(r)

Spec == Init /\ [][Next]_vars
=============================================================================
