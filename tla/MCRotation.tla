----------------------------- MODULE MCRotation -----------------------------
(* One rotation over a canary and a second principal, two workers.         *)
EXTENDS Rotation, TLC

RotationSymmetry == Permutations(Workers) \cup Permutations(Successors)

=============================================================================
