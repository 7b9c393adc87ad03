---------------------------- MODULE MCWorkRecovery ----------------------------
\* Instances of WorkRecovery: rings of three nodes.
EXTENDS WorkRecovery

MCNode == 1 .. 3
MCRight == <<2, 3, 1>>
=============================================================================
