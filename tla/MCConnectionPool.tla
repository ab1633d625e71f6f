------------------------- MODULE MCConnectionPool -------------------------
(***************************************************************************)
(* Instances of ConnectionPool for TLC.                                    *)
(***************************************************************************)
EXTENDS ConnectionPool, TLC

\* Identities are interchangeable (used by the runs without liveness).
Symmetry == Permutations(Requests) \cup Permutations(Conns) \cup Permutations(Origins)

=============================================================================
