-------------------------- MODULE MCResponseBody --------------------------
(***************************************************************************)
(* Instances of ResponseBody for TLC.                                      *)
(***************************************************************************)
EXTENDS ResponseBody

\* Every short body, and longer ones with two events, ids that persist and CRLF.
TheBodies ==
  BoundedSeq({"cr", "lf", "d", ":"}, 4)
  \cup {<<"d", "d", "cr", "lf", "cr", "lf">>,
        <<"d", "lf", "lf", "d", "d", "lf", "lf">>,
        <<"i", "d", "lf", "lf", "d", "lf", "cr">>,
        <<":", "d", "d", "lf", "d", "lf", "lf">>}

=============================================================================
