---------------------------- MODULE MCBackground ----------------------------
(* Two instances, a policy of each kind.                                   *)
EXTENDS Background, TLC

BackgroundSymmetry == Permutations(Instances) \cup Permutations(Principals)

\* What goes wrong and what operators do share one budget: two faults, or one
\* and a request.
Disturbances == faults + requests <= MaxFaults

=============================================================================
