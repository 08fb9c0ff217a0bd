-------------------------- MODULE MCSessionControl --------------------------
(***************************************************************************)
(* Instances of SessionControl for TLC.                                    *)
(***************************************************************************)
EXTENDS SessionControl, TLC

\* Runs are interchangeable, and so are clients when all of them, or none of
\* them, are tabs.  Used by the runs that check safety only.
Symmetry == Permutations(Clients) \cup Permutations(Runs)
=============================================================================
