------------------------------ MODULE Conflict ------------------------------
(***************************************************************************)
(* The conflict rules of hearsay (pkg/hearsay/claims.go): which held claims *)
(* stop a new one.  Pure operators, no state.                               *)
(*                                                                          *)
(* A resource URI is the sequence of the parts of its text between slashes. *)
(* A part is a name or one of the wildcards "*" and "**"; a wildcard that   *)
(* is only a piece of a part ("*.go") is not represented.                   *)
(*                                                                          *)
(* A definition whose name ends in an underscored word is a faulty variant  *)
(* of the one it precedes, used only to check that a property notices it.   *)
(***************************************************************************)
EXTENDS Naturals, Sequences

Operations == {"read", "write", "delete", "rename", "refactor"}

Wildcards == {"*", "**"}

HasWildcard(uri) == \E i \in DOMAIN uri : uri[i] \in Wildcards

\* strings.HasSuffix(uri, "/**"): a pattern for everything below its prefix.
IsTree(uri) == Len(uri) > 1 /\ uri[Len(uri)] = "**"

\* strings.HasPrefix(uri, prefix + "/") for the prefix of a tree pattern; the
\* prefix is compared as text, its own wildcards have no meaning.
Covers_noSlash(tree, uri) ==
    LET n == Len(tree) - 1
    IN  Len(uri) >= n /\ SubSeq(uri, 1, n) = SubSeq(tree, 1, n)

Covers(tree, uri) ==
    LET n == Len(tree) - 1
    IN  Len(uri) > n /\ SubSeq(uri, 1, n) = SubSeq(tree, 1, n)

\* path.Match(pattern, uri): a wildcard stands for one part, never for a slash;
\* uri is text, so a wildcard in it is matched only by itself or a wildcard.
PathMatch_open(pattern, uri) ==
    /\ Len(pattern) <= Len(uri)
    /\ \A i \in DOMAIN pattern : pattern[i] \in Wildcards \cup {uri[i]}

PathMatch(pattern, uri) ==
    /\ Len(pattern) = Len(uri)
    /\ \A i \in DOMAIN pattern : pattern[i] \in Wildcards \cup {uri[i]}

\* The first kind of pattern found decides, a's before b's.
ResourceMatches(a, b) ==
    \/ a = b
    \/ IsTree(a) /\ Covers(a, b)
    \/ ~IsTree(a) /\ IsTree(b) /\ Covers(b, a)
    \/ ~IsTree(a) /\ ~IsTree(b) /\ HasWildcard(a) /\ PathMatch(a, b)
    \/ ~IsTree(a) /\ ~IsTree(b) /\ ~HasWildcard(a) /\ HasWildcard(b) /\ PathMatch(b, a)

\* The filter ActiveClaims applies to the claims it returns.
MatchAll == {<<>>, <<"*">>}

ResourceMatchesPattern(pattern, uri) ==
    pattern \in MatchAll \/ uri \in MatchAll \/ ResourceMatches(pattern, uri)

\* The operations of held claims that a new claim for op is refused over.
RefusedOver_noRefactor(op) ==
    CASE op = "read"                   -> {"delete", "rename"}
      [] op = "write"                  -> {"write", "delete", "rename"}
      [] op \in {"delete", "rename", "refactor"} -> Operations

RefusedOver(op) ==
    CASE op = "read"                   -> {"delete", "rename"}
      [] op = "write"                  -> {"write", "delete", "rename", "refactor"}
      [] op \in {"delete", "rename", "refactor"} -> Operations

\* claim and other are records with at least the fields resource and op.
IsConflicting(claim, other) ==
    /\ ResourceMatches(claim.resource, other.resource)
    /\ other.op \in RefusedOver(claim.op)

\* The active claims a new claim runs into; an agent never conflicts with itself.
CheckConflict(claim, active) ==
    {c \in active : c.agent # claim.agent /\ IsConflicting(claim, c)}
=============================================================================
