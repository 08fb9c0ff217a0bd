----------------------------- MODULE MCPlatform -----------------------------
(* Small instances of the parts; see the README for why they are enough.   *)
EXTENDS Platform

CONSTANTS ann, ben

\* One role; and two, one of them twice, with a blank in between.
MCAsks == {<<ben>>, <<ann, NoRole, ben, ann>>}

\* Two criteria; three experts, two of whom share a name.
MCWeight == [cost |-> 60, risk |-> 40]
MCExpertNames == <<"engineer", "lawyer", "engineer">>
=============================================================================
