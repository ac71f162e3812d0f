--------------------------- MODULE AddBeforeRemove ---------------------------
(***************************************************************************)
(* The order of events a rotation promises for a principal that can hold   *)
(* two keys (service/rotation.go, README "Rotating a key"): the successor  *)
(* is added beside the old key, it is proved to authenticate, both stay    *)
(* valid for a soak window, and only then is the old key removed.          *)
(* It knows nothing of jobs, waves, workers or states of a rotation.       *)
(***************************************************************************)
CONSTANT Principals

VARIABLES
  keys,    \* what each principal accepts: "old", "both", "new"
  proved,  \* where a login with the successor has succeeded
  soaked   \* the window has run its length

vars == <<keys, proved, soaked>>

Init ==
  /\ keys = [p \in Principals |-> "old"]
  /\ proved = {}
  /\ soaked = FALSE

Add(p) ==
  /\ keys[p] = "old"
  /\ keys' = [keys EXCEPT ![p] = "both"]
  /\ UNCHANGED <<proved, soaked>>

Prove(p) ==
  /\ keys[p] # "old"
  /\ proved' = proved \cup {p}
  /\ UNCHANGED <<keys, soaked>>

\* The window opens only when every principal still accepts the old key.
Soak ==
  /\ \A p \in Principals : keys[p] # "new"
  /\ soaked' = TRUE
  /\ UNCHANGED <<keys, proved>>

Remove(p) ==
  /\ keys[p] = "both" /\ p \in proved /\ soaked
  /\ keys' = [keys EXCEPT ![p] = "new"]
  /\ UNCHANGED <<proved, soaked>>

Next == Soak \/ \E p \in Principals : Add(p) \/ Prove(p) \/ Remove(p)

Spec == Init /\ [][Next]_vars

=============================================================================
