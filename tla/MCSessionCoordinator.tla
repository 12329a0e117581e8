------------------------ MODULE MCSessionCoordinator ------------------------
(***************************************************************************)
(* SessionCoordinator for TLC: symmetry and the sets of actions a run      *)
(* issues.                                                                 *)
(***************************************************************************)
EXTENDS SessionCoordinator, TLC

Symmetry == Permutations(Sessions) \cup Permutations(Clients)

=============================================================================
