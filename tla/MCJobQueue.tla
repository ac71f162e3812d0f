----------------------------- MODULE MCJobQueue -----------------------------
(* Two server processes with one worker each: one can crash while the      *)
(* other goes on.                                                          *)
EXTENDS JobQueue, TLC

CONSTANTS w1, w2, r1, r2

MCWorkers  == {w1, w2}
MCRunners  == {r1, r2}
MCRunnerOf == (w1 :> r1) @@ (w2 :> r2)

=============================================================================
