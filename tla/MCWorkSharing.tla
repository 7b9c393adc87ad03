---------------------------- MODULE MCWorkSharing ----------------------------
(***************************************************************************)
(* Instances of WorkSharing for TLC: rings of three nodes.                 *)
(***************************************************************************)
EXTENDS WorkSharing, TLC

CONSTANTS u1, u2, u3   \* branches of the search space

\* Along the ring the identifiers may ascend or descend: of two leaders the one
\* with the smaller identifier is passed first, or last, by the other's token.
MCAscending3 == 1 :> 2 @@ 2 :> 3 @@ 3 :> 1
MCDescending3 == 1 :> 3 @@ 3 :> 2 @@ 2 :> 1

\* Nothing tells one branch from another.
UnitSymmetry == Permutations(Units)

=============================================================================
