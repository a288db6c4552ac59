--------------------------- MODULE Conflict_proofs ---------------------------
(***************************************************************************)
(* Theorems about the conflict rules, for any names and resource URIs of any *)
(* length: the rules compare URIs part by part, and so do the proofs.        *)
(***************************************************************************)
EXTENDS ConflictQuestions, SequenceTheorems, TLAPS

\* A name with no wildcard in it is no tree pattern.
LEMMA ConcreteIsNoTree ==
    ASSUME NEW Part, NEW uri \in Seq(Part), ~HasWildcard(uri)
    PROVE  ~IsTree(uri)
  BY DEF HasWildcard, IsTree, Wildcards

\* If one of the two names a resource, it does not matter which is asked about.
LEMMA ConcreteMatchBothWays ==
    ASSUME NEW Part, NEW a \in Seq(Part), NEW b \in Seq(Part),
           ~HasWildcard(a) \/ ~HasWildcard(b)
    PROVE  ResourceMatches(a, b) <=> ResourceMatches(b, a)
  <1>1. CASE ~HasWildcard(a)
    BY <1>1, ConcreteIsNoTree DEF ResourceMatches
  <1>2. CASE ~HasWildcard(b)
    BY <1>2, ConcreteIsNoTree DEF ResourceMatches
  <1> QED
    BY <1>1, <1>2

\* Whether one mutating operation is refused over another is symmetric.
LEMMA RefusalBothWays ==
    ASSUME NEW op \in Mutating, NEW other \in Mutating
    PROVE  other \in RefusedOver(op) <=> op \in RefusedOver(other)
  BY DEF Mutating, Operations, RefusedOver

\* Two claims of different agents that change a resource, one of them naming it,
\* exclude each other in whichever order they come (claims.go:77-123).  With two
\* patterns this is not so: a tree asked for against a wider tree is let through.
THEOREM MutatorsExclude ==
    ASSUME NEW Part, NEW c, NEW d, c.agent # d.agent,
           c.resource \in Seq(Part), d.resource \in Seq(Part),
           ~HasWildcard(c.resource) \/ ~HasWildcard(d.resource),
           c.op \in Mutating, d.op \in Mutating
    PROVE  CheckConflict(c, {d}) # {} <=> CheckConflict(d, {c}) # {}
  <1>1. IsConflicting(c, d) <=> IsConflicting(d, c)
    BY ConcreteMatchBothWays, RefusalBothWays DEF IsConflicting
  <1> QED
    BY <1>1 DEF CheckConflict
----------------------------------------------------------------------------
\* A URI, and a resource, as a sequence.
LEMMA UriShape ==
    ASSUME NEW uri \in URIs
    PROVE  /\ uri \in Seq(Parts)
           /\ Len(uri) \in 1..MaxParts
           /\ DOMAIN uri = 1..Len(uri)
           /\ \A i \in 1..Len(uri) : uri[i] \in Parts
  <1>1. PICK n \in 1..MaxParts : uri \in [1..n -> Parts]
    BY DEF URIs
  <1>2. n \in Nat
    BY NamesAssumption
  <1>3. uri \in Seq(Parts)
    BY <1>1, <1>2, SeqDef
  <1>4. Len(uri) = n
    BY <1>1, <1>2, <1>3, LenProperties
  <1> QED
    BY <1>1, <1>3, <1>4

LEMMA ResourceShape ==
    ASSUME NEW r \in Resources
    PROVE  /\ r \in Seq(Names)
           /\ Len(r) \in 1..(MaxParts + 1)
           /\ DOMAIN r = 1..Len(r)
           /\ \A i \in 1..Len(r) : r[i] \in Names /\ r[i] \notin Wildcards
  <1>1. PICK n \in 1..(MaxParts + 1) : r \in [1..n -> Names]
    BY DEF Resources
  <1>2. n \in Nat
    BY NamesAssumption
  <1>3. r \in Seq(Names)
    BY <1>1, <1>2, SeqDef
  <1>4. Len(r) = n
    BY <1>1, <1>2, <1>3, LenProperties
  <1>5. \A i \in 1..n : r[i] \in Names /\ r[i] \notin Wildcards
    BY <1>1, NamesAssumption
  <1> QED
    BY <1>1, <1>3, <1>4, <1>5

\* A URI without a wildcard is a resource.
LEMMA ConcreteIsResource ==
    ASSUME NEW uri \in URIs, Concrete(uri)
    PROVE  uri \in Resources
  <1>1. \A i \in 1..Len(uri) : uri[i] \in Names
    BY UriShape DEF Concrete, HasWildcard, Parts
  <1>2. Len(uri) \in 1..(MaxParts + 1)
    BY UriShape, NamesAssumption
  <1>3. uri \in [1..Len(uri) -> Parts]
    BY UriShape, LenProperties
  <1>4. uri \in [1..Len(uri) -> Names]
    BY <1>1, <1>3
  <1> QED
    BY <1>2, <1>4 DEF Resources

\* Two sequences of URI parts or of names are equal if they agree everywhere.
LEMMA SameParts ==
    ASSUME NEW a \in URIs, NEW b \in URIs \cup Resources,
           Len(a) = Len(b), \A i \in 1..Len(a) : a[i] = b[i]
    PROVE  a = b
  <1>1. a \in Seq(Parts)
    BY UriShape
  <1>2. b \in Seq(Parts)
    BY UriShape, ResourceShape, SeqMonotonic DEF Parts
  <1> QED
    BY <1>1, <1>2, SeqEqual

\* A tree covers what has its prefix and at least one part more.
LEMMA CoversIsPrefix ==
    ASSUME NEW tree \in URIs, NEW uri \in URIs
    PROVE  Covers(tree, uri) <=>
               Len(uri) >= Len(tree) /\ \A i \in 1..(Len(tree) - 1) : uri[i] = tree[i]
  <1> DEFINE n == Len(tree) - 1
  <1>1. n \in Nat /\ Len(uri) \in Nat /\ Len(tree) \in Nat
    BY UriShape, NamesAssumption
  <1>2. SUFFICES ASSUME Len(uri) > n
                 PROVE  SubSeq(uri, 1, n) = SubSeq(tree, 1, n) <=> \A i \in 1..n : uri[i] = tree[i]
    BY <1>1, <1>2 DEF Covers
  <1>3. ASSUME NEW s \in {uri, tree}
        PROVE  /\ SubSeq(s, 1, n) \in Seq(Parts) /\ Len(SubSeq(s, 1, n)) = n
               /\ \A i \in 1..n : SubSeq(s, 1, n)[i] = s[i]
    <2>1. \A i \in 1..n : s[i] \in Parts
      BY <1>1, <1>2, <1>3, UriShape
    <2> HIDE DEF n
    <2>2. /\ SubSeq(s, 1, n) \in Seq(Parts)
          /\ Len(SubSeq(s, 1, n)) = IF 1 <= n THEN n - 1 + 1 ELSE 0
          /\ \A i \in 1..(n - 1 + 1) : SubSeq(s, 1, n)[i] = s[1 + i - 1]
      BY <1>1, <2>1, SubSeqProperties
    <2> QED
      BY <1>1, <2>2
  <1> HIDE DEF n
  <1>4. (\A i \in 1..n : uri[i] = tree[i]) => SubSeq(uri, 1, n) = SubSeq(tree, 1, n)
    BY <1>3, SeqEqual
  <1> QED
    BY <1>3, <1>4
----------------------------------------------------------------------------
\* What a URI stands for, in the words of the rules.
LEMMA DenotesTree ==
    ASSUME NEW uri \in URIs, IsTree(uri), NEW r \in Resources
    PROVE  r \in Denotes[uri] <=>
               Len(r) >= Len(uri) /\ \A i \in 1..(Len(uri) - 1) : uri[i] = r[i]
  BY DEF Denotes

LEMMA DenotesOther ==
    ASSUME NEW uri \in URIs, ~IsTree(uri), NEW r \in Resources
    PROVE  r \in Denotes[uri] <=>
               Len(r) = Len(uri) /\ \A i \in 1..Len(uri) : Agree(uri, r, i)
  BY UriShape DEF Denotes

LEMMA DenotesResources == \A uri \in URIs : Denotes[uri] \subseteq Resources
  BY DEF Denotes

\* A concrete URI stands for itself.
LEMMA ConcreteDenotesItself ==
    ASSUME NEW uri \in URIs, Concrete(uri)
    PROVE  Denotes[uri] = {uri}
  <1>1. ~IsTree(uri) /\ uri \in Resources
    BY ConcreteIsNoTree, ConcreteIsResource, UriShape DEF Concrete
  <1>2. \A i \in 1..Len(uri) : uri[i] \notin Wildcards
    BY UriShape DEF Concrete, HasWildcard
  <1>3. uri \in Denotes[uri]
    BY <1>1, DenotesOther DEF Agree
  <1>4. ASSUME NEW r \in Denotes[uri] PROVE r = uri
    <2>1. r \in Resources
      BY DenotesResources
    <2>2. Len(r) = Len(uri) /\ \A i \in 1..Len(uri) : uri[i] = r[i]
      BY <1>1, <1>2, <2>1, DenotesOther DEF Agree
    <2> QED
      BY <2>1, <2>2, SameParts
  <1> QED
    BY <1>3, <1>4

\* A URI matches a concrete one exactly if it stands for it.
LEMMA MatchIsMembership ==
    ASSUME NEW uri \in URIs, NEW c \in URIs, Concrete(c)
    PROVE  ResourceMatches(uri, c) <=> c \in Denotes[uri]
  <1>1. c \in Resources /\ ~IsTree(c) /\ ~HasWildcard(c)
    BY ConcreteIsNoTree, ConcreteIsResource, UriShape DEF Concrete
  <1>2. CASE IsTree(uri)
    <2>1. c \in Denotes[uri] <=> Covers(uri, c)
      BY <1>1, <1>2, DenotesTree, CoversIsPrefix
    <2> QED
      BY <1>1, <1>2, <2>1 DEF ResourceMatches
  <1>3. CASE ~IsTree(uri) /\ HasWildcard(uri)
    <2>1. c \in Denotes[uri] <=> PathMatch(uri, c)
      BY <1>1, <1>3, DenotesOther, UriShape DEF Agree, PathMatch
    <2>2. uri # c
      BY <1>1, <1>3
    <2> QED
      BY <1>1, <1>3, <2>1, <2>2 DEF ResourceMatches
  <1>4. CASE Concrete(uri)
    <2>1. ~IsTree(uri) /\ ~HasWildcard(uri)
      BY <1>4, ConcreteIsNoTree, UriShape DEF Concrete
    <2> QED
      BY <1>1, <1>4, <2>1, ConcreteDenotesItself DEF ResourceMatches
  <1> QED
    BY <1>2, <1>3, <1>4 DEF Concrete

\* Two URIs that match, and stand for something each, share a resource.
LEMMA CoveredShares ==
    ASSUME NEW a \in URIs, NEW b \in URIs, IsTree(a), Covers(a, b),
           NEW r \in Denotes[a], NEW s \in Denotes[b]
    PROVE  s \in Denotes[a]
  <1>1. r \in Resources /\ s \in Resources
    BY DenotesResources
  <1>2. Len(b) >= Len(a) /\ \A i \in 1..(Len(a) - 1) : b[i] = a[i]
    BY CoversIsPrefix
  <1>3. \A i \in 1..(Len(a) - 1) : a[i] = r[i] /\ i \in 1..Len(r)
    BY <1>1, DenotesTree, UriShape, ResourceShape, NamesAssumption
  <1>4. \A i \in 1..(Len(a) - 1) : a[i] \notin Wildcards
    BY <1>1, <1>3, ResourceShape
  <1>5. Len(a) \in Nat /\ Len(b) \in Nat
    BY UriShape, NamesAssumption
  <1>6. CASE IsTree(b)
    <2>1. Len(s) >= Len(b) /\ \A i \in 1..(Len(b) - 1) : b[i] = s[i]
      BY <1>1, <1>6, DenotesTree
    <2>2. Len(s) \in Nat
      BY <1>1, ResourceShape, NamesAssumption
    <2>3. Len(s) >= Len(a) /\ \A i \in 1..(Len(a) - 1) : a[i] = s[i]
      BY <1>2, <1>5, <2>1, <2>2
    <2> QED
      BY <1>1, <2>3, DenotesTree
  <1>7. CASE ~IsTree(b)
    <2>1. Len(s) = Len(b) /\ \A i \in 1..Len(b) : b[i] \in {s[i]} \cup Wildcards
      BY <1>1, <1>7, DenotesOther DEF Agree
    <2>2. \A i \in 1..(Len(a) - 1) : a[i] = s[i]
      BY <1>2, <1>4, <1>5, <2>1
    <2> QED
      BY <1>1, <1>2, <2>1, <2>2, DenotesTree
  <1> QED
    BY <1>6, <1>7

LEMMA PathMatchShares ==
    ASSUME NEW a \in URIs, NEW b \in URIs, ~IsTree(a), ~IsTree(b), PathMatch(a, b),
           NEW s \in Denotes[b]
    PROVE  s \in Denotes[a]
  <1>1. s \in Resources
    BY DenotesResources
  <1>2. Len(s) = Len(b) /\ \A i \in 1..Len(b) : b[i] \in {s[i]} \cup Wildcards
    BY <1>1, DenotesOther DEF Agree
  <1>3. Len(a) = Len(b) /\ \A i \in 1..Len(a) : a[i] \in Wildcards \cup {b[i]}
    BY UriShape DEF PathMatch
  <1>4. \A i \in 1..Len(a) : Agree(a, s, i)
    BY <1>2, <1>3 DEF Agree
  <1> QED
    BY <1>1, <1>2, <1>3, <1>4, DenotesOther

LEMMA MatchesShare ==
    ASSUME NEW a \in URIs, NEW b \in URIs, ResourceMatches(a, b),
           Denotes[a] # {}, Denotes[b] # {}
    PROVE  Denotes[a] \cap Denotes[b] # {}
  <1>1. CASE a = b
    BY <1>1
  <1>2. CASE IsTree(a) /\ Covers(a, b)
    BY <1>2, CoveredShares
  <1>3. CASE IsTree(b) /\ Covers(b, a)
    BY <1>3, CoveredShares
  <1>4. CASE ~IsTree(a) /\ ~IsTree(b) /\ (PathMatch(a, b) \/ PathMatch(b, a))
    BY <1>4, PathMatchShares
  <1> QED
    BY <1>1, <1>2, <1>3, <1>4 DEF ResourceMatches

----------------------------------------------------------------------------
\* The question is about two URIs, asked by one agent and held by another.
TypeInv ==
    /\ asked \in [agent : {"a"}, resource : URIs, op : Operations]
    /\ held \in [agent : {"b"}, resource : URIs, op : Operations]

LEMMA TypeInvariant == Spec => []TypeInv
  <1>1. Init => TypeInv
    BY DEF Init, TypeInv, Question, Operations
  <1>2. TypeInv /\ [Next]_vars => TypeInv'
    BY DEF TypeInv, Next, vars
  <1> QED
    BY <1>1, <1>2, PTL DEF Spec

\* A claim on a concrete resource meets a held claim, and a pattern a held concrete
\* resource, exactly if the pattern stands for the resource (claims.go:99-121).
THEOREM MatchingExact == Spec => []ConcreteDecidedExactly
  <1>1. TypeInv => ConcreteDecidedExactly
    <2> SUFFICES ASSUME TypeInv,
                        Concrete(asked.resource) \/ Concrete(held.resource)
                 PROVE  ResourceMatches(asked.resource, held.resource) <=> Overlap
      BY DEF ConcreteDecidedExactly
    <2> DEFINE a == asked.resource
               b == held.resource
    <2>1. a \in URIs /\ b \in URIs
      BY DEF TypeInv
    <2>2. ResourceMatches(a, b) <=> ResourceMatches(b, a)
      BY <2>1, UriShape, ConcreteMatchBothWays DEF Concrete
    <2>3. CASE Concrete(b)
      BY <2>1, <2>3, MatchIsMembership, ConcreteDenotesItself DEF Overlap
    <2>4. CASE Concrete(a)
      BY <2>1, <2>2, <2>4, MatchIsMembership, ConcreteDenotesItself DEF Overlap
    <2> QED
      BY <2>3, <2>4
  <1> QED
    BY <1>1, TypeInvariant, PTL

\* Nobody is refused over a claim that cannot touch what was asked for, also if both
\* are patterns (claims.go:77-121).
THEOREM NoFalseRefusal == Spec => []NoPhantomConflict
  <1>1. TypeInv => NoPhantomConflict
    <2> SUFFICES ASSUME TypeInv, Refused,
                        Denotes[asked.resource] # {}, Denotes[held.resource] # {}
                 PROVE  Overlap
      BY DEF NoPhantomConflict
    <2>1. ResourceMatches(asked.resource, held.resource)
      BY DEF Refused, CheckConflict, IsConflicting
    <2> QED
      BY <2>1, MatchesShare DEF TypeInv, Overlap
  <1> QED
    BY <1>1, TypeInvariant, PTL

\* Two agents that change a resource, one of them naming it, are refused over each
\* other in both orders or in neither (claims.go:77-123).
THEOREM OrderIndifferent == Spec => []MutatorsExcludeBothWays
  <1>1. TypeInv => MutatorsExcludeBothWays
    <2> SUFFICES ASSUME TypeInv, {asked.op, held.op} \subseteq Mutating,
                        Concrete(asked.resource) \/ Concrete(held.resource)
                 PROVE  Refused <=> CheckConflict(held, {asked}) # {}
      BY DEF MutatorsExcludeBothWays
    <2>1. asked.resource \in Seq(Parts) /\ held.resource \in Seq(Parts)
      BY UriShape DEF TypeInv
    <2>2. asked.agent # held.agent
      BY DEF TypeInv
    <2> QED
      BY <2>1, <2>2, MutatorsExclude DEF Concrete, Refused
  <1> QED
    BY <1>1, TypeInvariant, PTL
=============================================================================
