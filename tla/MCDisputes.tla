----------------------------- MODULE MCDisputes -----------------------------
(***************************************************************************)
(* Model values and symmetry for checking Disputes.                        *)
(***************************************************************************)
EXTENDS Disputes, TLC

Symmetry == Permutations(Keys) \cup Permutations(Texts) \cup Permutations(Messages)
=============================================================================
