----------------------------- MODULE MCFetchPool -----------------------------
(* TLC instances of FetchPool.                                             *)
EXTENDS FetchPool, TLC

CONSTANTS r1, r2

\* Two requests of the same route, two hashes each.
TwoEach == [r \in Request |-> 2]

\* One request of two hashes and one of a single hash (GET /eth?hash).
TwoAndOne == r1 :> 2 @@ r2 :> 1
=============================================================================
