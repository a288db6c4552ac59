------------------------------- MODULE Leases -------------------------------
(***************************************************************************)
(* What a service of claims promises when agents ask, look and take without  *)
(* a lock.  Who asks is shown every claim in force, and takes none that       *)
(* clashes with one of those that still is.  A claim may end at any time, and  *)
(* never comes back.                                                         *)
(*                                                                           *)
(* Two claims that clash can therefore be in force together only if the agent *)
(* of each looked before the other's began.                                   *)
(***************************************************************************)
CONSTANTS
  Agents,
  ClaimIds,
  NoClaim,         \* the terms of an identifier that is free
  Clashes(_, _)    \* whether new terms clash with the terms of a claim in force

VARIABLES
  terms,    \* what each claim is for
  open,     \* the claims in force
  over,     \* the claims that were, and are not any more
  asking,   \* the agents that have looked and not decided
  view,     \* the claims that each of them was shown
  saw       \* the claims that were shown to who took this one

vars == <<terms, open, over, asking, view, saw>>

\* Taken, and not in force yet.
Promised == {id \in ClaimIds : terms[id] # NoClaim} \ (open \cup over)

Init ==
    /\ terms = [id \in ClaimIds |-> NoClaim]
    /\ open = {} /\ over = {}
    /\ asking = {}
    /\ view = [a \in Agents |-> {}]
    /\ saw = [id \in ClaimIds |-> {}]

\* The agent is shown all claims in force, and perhaps some that are over.
Look(a) ==
    /\ a \notin asking
    /\ asking' = asking \cup {a}
    /\ open \subseteq view'[a] /\ view'[a] \subseteq open \cup over
    /\ view' = [view EXCEPT ![a] = view'[a]]
    /\ UNCHANGED <<terms, open, over, saw>>

\* Of the claims that the agent was shown, none that is still in force clashes.
Take(a, id) ==
    /\ a \in asking
    /\ terms[id] = NoClaim /\ terms'[id] # NoClaim
    /\ terms' = [terms EXCEPT ![id] = terms'[id]]
    /\ \A c \in view[a] \cap open : ~Clashes(terms'[id], terms[c])
    /\ saw' = [saw EXCEPT ![id] = view[a]]
    /\ asking' = asking \ {a}
    /\ view' = [view EXCEPT ![a] = {}]
    /\ UNCHANGED <<open, over>>

\* The claim begins; its time may have run out before it has.
Begin(id) ==
    /\ id \in Promised
    /\ \/ open' = open \cup {id} /\ UNCHANGED over
       \/ over' = over \cup {id} /\ UNCHANGED open
    /\ UNCHANGED <<terms, asking, view, saw>>

\* Agents stop asking; what was promised to them is free again.
GiveUp ==
    \E agents \in SUBSET asking, lost \in SUBSET Promised :
        /\ asking' = asking \ agents
        /\ view' = [a \in Agents |-> IF a \in agents THEN {} ELSE view[a]]
        /\ terms' = [id \in ClaimIds |-> IF id \in lost THEN NoClaim ELSE terms[id]]
        /\ saw' = [id \in ClaimIds |-> IF id \in lost THEN {} ELSE saw[id]]
        /\ UNCHANGED <<open, over>>

End ==
    \E ended \in SUBSET open :
        /\ open' = open \ ended
        /\ over' = over \cup ended
        /\ UNCHANGED <<terms, asking, view, saw>>

Next ==
    \/ \E a \in Agents : Look(a) \/ \E id \in ClaimIds : Take(a, id)
    \/ \E id \in ClaimIds : Begin(id)
    \/ GiveUp \/ End

Spec == Init /\ [][Next]_vars
=============================================================================
