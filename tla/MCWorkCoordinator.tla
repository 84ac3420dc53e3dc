-------------------------- MODULE MCWorkCoordinator --------------------------
(* Small instances of WorkCoordinator.                                     *)
EXTENDS WorkCoordinator, TLC

\* Sessions and spaces are interchangeable; so are the keys.
Symmetry ==
  Permutations(Sessions) \union Permutations(Keys) \union Permutations(Space)
=============================================================================
