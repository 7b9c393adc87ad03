----------------------------- MODULE MCRingRebuild -----------------------------
\* Instances of RingRebuild: rings of four nodes.
EXTENDS RingRebuild

MCNode == 1 .. 4
MCRight == <<2, 3, 4, 1>>
MCComp == {"a", "b", "c"}
MCcurrentID == <<"a", "a", "a", "b">>
=============================================================================
