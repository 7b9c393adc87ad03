---------------------------- MODULE MCResultSharing ----------------------------
(***************************************************************************)
(* Instances of ResultSharing for TLC: rings of two and three nodes.       *)
(***************************************************************************)
EXTENDS ResultSharing, TLC

MCRing2 == 1 :> 2 @@ 2 :> 1

MCRing3 == 1 :> 2 @@ 2 :> 3 @@ 3 :> 1

=============================================================================
