----------------------------- MODULE MC_Worktrees -----------------------------
(* Worktrees for TLC: the Agents, the paths, and the contents other than the *)
(* first are interchangeable.                                                *)
EXTENDS Worktrees, TLC

Symmetry ==
  Permutations(Owners) \union Permutations(Paths) \union Permutations(Contents \ {First})
=============================================================================
