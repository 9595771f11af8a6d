------------------------------- MODULE MCForge -------------------------------
(***************************************************************************)
(* Forge on a small repository: two changes that clash.                    *)
(***************************************************************************)
EXTENDS Forge, TLC

CONSTANTS x, y, feature

ChangesDef == {x, y}
ClashingDef == {<<x, y>>, <<y, x>>}
ProposalsDef == {<<feature, main>>}
Symmetry == Permutations(ChangesDef) \cup Permutations(Threads)
=============================================================================
