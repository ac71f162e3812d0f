----------------------------- MODULE MCKeyVault -----------------------------
(* Three keypairs and pages of two, one archive, two requests at a time.   *)
EXTENDS KeyVault, TLC

KeyVaultSymmetry == Permutations(Workers) \cup Permutations(Prints)

\* A fault takes the place of the third request; a third key is there for the
\* page it does not fit on, and for what makes and removes keys meanwhile.
Budget ==
  /\ ops + faults <= MaxOps
  /\ inserted > 2 => /\ latest = 1
                     /\ \A w \in Workers :
                          run[w].op \in {"none", "backup", "generate", "import", "delete"}

=============================================================================
