---------------------------- MODULE MCDeployment ----------------------------
(* One account on any platform, two workers.                               *)
EXTENDS Deployment, TLC

CONSTANTS k1, k2

OneKey  == <<k1>>
TwoKeys == <<k2, k1>>

\* Two edits, or one and a fault: a sweep heals beside either without counting.
Disturbances == edits + faults <= 2

DeploymentSymmetry == Permutations(Workers)

=============================================================================
