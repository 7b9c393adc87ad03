----------------------------- MODULE MCMembership -----------------------------
\* Instances of Membership.
EXTENDS Membership

MCNode == 1 .. 3
MCNode4 == 1 .. 4
=============================================================================
