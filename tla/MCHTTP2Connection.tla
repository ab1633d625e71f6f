------------------------ MODULE MCHTTP2Connection ------------------------
(***************************************************************************)
(* Instances of HTTP2Connection for TLC.                                   *)
(***************************************************************************)
EXTENDS HTTP2Connection, TLC

\* Requests with a body are interchangeable, and so are the others (used by
\* the runs without liveness).
Symmetry == Permutations(Uploads) \cup Permutations(Requests \ Uploads)

==========================================================================
