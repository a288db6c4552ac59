----------------------------- MODULE MCClaimLog -----------------------------
(***************************************************************************)
(* Small instances of ClaimLog for TLC: the requests, and the symmetry of    *)
(* agents and claim identifiers.                                            *)
(***************************************************************************)
EXTENDS ClaimLog, TLC

Request(resource, op, ttl) == [resource |-> resource, op |-> op, ttl |-> ttl]

\* Everybody writes the same file, for as long as the default says.
OneFile == {Request(<<"x", "a">>, "write", 0)}

\* A file for one tick, or the directory it is in for the default time.
FileAndTree == {Request(<<"x", "a">>, "write", 1), Request(<<"x", "**">>, "refactor", 0)}

AgentsAndIds == Permutations(Agents) \cup Permutations(ClaimIds)
=============================================================================
