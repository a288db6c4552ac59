-------------------------- MODULE ConflictQuestions --------------------------
(***************************************************************************)
(* The conflict rules against a reference definition, over every pair of    *)
(* URIs.  The state is one question put to CheckConflict: may asked be      *)
(* granted while held is active?                                            *)
(***************************************************************************)
EXTENDS Conflict

CONSTANTS
  Names,         \* the names a part of a URI can be
  MaxParts       \* bound: the parts of a URI

ASSUME NamesAssumption ==
    /\ Names \cap Wildcards = {}
    /\ MaxParts \in Nat

VARIABLES asked, held   \* the new claim and the active one

vars == <<asked, held>>

Parts == Names \cup Wildcards

URIs == UNION {[1..n -> Parts] : n \in 1..MaxParts}

Question(agent) == [agent : {agent}, resource : URIs, op : {"read"}]

Init == asked \in Question("a") /\ held \in Question("b")

Next == \E op \in Operations :
            \/ asked' = [asked EXCEPT !.op = op] /\ UNCHANGED held
            \/ held' = [held EXCEPT !.op = op] /\ UNCHANGED asked

Spec == Init /\ [][Next]_vars

----------------------------------------------------------------------------
\* Reference: the concrete resources a URI stands for, those among them that have
\* one part more than any URI included.
\* The prefix of a tree is text: with a wildcard in it, it stands for nothing.
Resources == UNION {[1..n -> Names] : n \in 1..(MaxParts + 1)}

Agree(uri, r, i) == uri[i] \in {r[i]} \cup Wildcards

Denotes ==
    [uri \in URIs |->
        IF IsTree(uri)
        THEN {r \in Resources : Len(r) >= Len(uri) /\ \A i \in 1..(Len(uri) - 1) : uri[i] = r[i]}
        ELSE {r \in Resources : Len(r) = Len(uri) /\ \A i \in DOMAIN uri : Agree(uri, r, i)}]

Concrete(uri) == ~HasWildcard(uri)

Overlap == Denotes[asked.resource] \cap Denotes[held.resource] # {}

Refused == CheckConflict(asked, {held}) # {}

Mutating == Operations \ {"read"}

\* A claim on a concrete resource meets a held claim, and a pattern meets a
\* held concrete resource, exactly when the pattern stands for the resource:
\* resourceMatches neither misses nor invents an overlap (claims.go:99-121).
ConcreteDecidedExactly ==
    Concrete(asked.resource) \/ Concrete(held.resource)
        => (ResourceMatches(asked.resource, held.resource) <=> Overlap)

\* Two patterns that resourceMatches lets meet do share a resource: nobody is
\* refused over a claim that cannot touch what was asked for.
NoPhantomConflict ==
    Refused /\ Denotes[asked.resource] # {} /\ Denotes[held.resource] # {} => Overlap

\* Among operations that change a resource, the order in which two claims come
\* does not matter: what is refused one way round is refused the other way
\* round, as long as one of the two names a concrete resource.
MutatorsExcludeBothWays ==
    ( /\ {asked.op, held.op} \subseteq Mutating
      /\ Concrete(asked.resource) \/ Concrete(held.resource) )
        => (Refused <=> CheckConflict(held, {asked}) # {})

\* claims.go:108 says "Check if b is a prefix pattern that covers a": a held
\* tree that covers what is asked for stops a second writer.
CoveringTreeStopsWriter ==
    ( /\ IsTree(held.resource) /\ Covers(held.resource, asked.resource)
      /\ asked.op = "write" /\ held.op = "write" )
        => Refused
=============================================================================
