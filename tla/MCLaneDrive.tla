---------------------------- MODULE MCLaneDrive ----------------------------
(* Model values and symmetry for model-checking LaneDrive. *)
EXTENDS LaneDrive, TLC

\* Operation ids are opaque: no definition orders or distinguishes them.
Symmetry == Permutations(Ops)

=============================================================================
