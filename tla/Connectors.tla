----------------------------- MODULE Connectors -----------------------------
(***************************************************************************)
(* What Apply of each connector decides before it changes a machine: the   *)
(* keys to add, the keys to remove, and whether it refuses.                *)
(*                                                                         *)
(* A machine's account is the set of fingerprints it accepts, an Apply is  *)
(* given what it listed (saw), the desired keys (goal), the fingerprints   *)
(* SKM knows (known) and whether to prune. A platform is                   *)
(*   "file"    connectors/linux: one authorized_keys file, replaced whole  *)
(*   "api"     connectors/git: keys added and removed call by call         *)
(*   "device"  connectors/netdev: one batch of commands                    *)
(*   "login"   connectors/netdev with a RemoveKey that names the user, not *)
(*             the key (cisco_iosxe, cisco_nxos): it clears the login      *)
(*   "blind"   connectors/netdev without ShowKeys: a generic device given  *)
(*             commands to add keys and to capture its configuration only  *)
(*   "single"  connectors/netdev with Profile.SingleKey: an add overwrites *)
(*   "script"  connectors/execc: an operator's script does all of it       *)
(***************************************************************************)
EXTENDS Integers, FiniteSets

AllPlatforms == {"file", "api", "device", "login", "blind", "single", "script"}

\* One batch of commands for the whole change.
Devices == {"device", "login", "blind", "single"}

\* Platforms whose removal command takes every key of the login.
LoginWide == {"login", "single"}

\* Capabilities().CanRestore, which DeployService.Rollback asks for.
CanRestore == {"file", "api", "script"}

AtMostOne(S) == \A f, g \in S : f = g

\* Mutant: prunes every key that is not desired.
PrunesStrangers(saw, goal, known) == saw \ goal

\* What Apply lists before it plans; "blind" plans as if nothing were there.
Listed(platform, host) == IF platform = "blind" THEN {} ELSE host

\* Only a fingerprint SKM knows is pruned (PreserveUnmanaged).
Prunable(saw, goal, known) == (saw \ goal) \cap known

ToAdd(saw, goal) == goal \ saw

\* An add on a single-key platform replaces what was there, and nothing is
\* pruned beside it: the vendor's remove command names the user, not the key.
ToRemove(platform, saw, goal, known, prune) ==
  IF platform = "single" /\ ToAdd(saw, goal) # {} THEN saw \ goal
  ELSE IF prune THEN Prunable(saw, goal, known) ELSE {}

\* The lockout guards, and ErrUnsupported for a second key on a single-key
\* platform. The script's is judged after the fact.

\* Mutant: an empty file is written.
WritesEmptyFile(saw, add, remove) == FALSE

FileRefuses(saw, add, remove) == (saw \cup add) \ remove = {}

ApiRefuses(saw, add, remove) ==
  remove # {} /\ Cardinality(saw) + Cardinality(add) - Cardinality(remove) <= 0

DeviceRefuses(platform, goal, remove) ==
  \/ goal = {} /\ remove # {}
  \/ platform = "single" /\ ~AtMostOne(goal)

Refuses(platform, goal, saw, add, remove) ==
  \/ platform = "file" /\ FileRefuses(saw, add, remove)
  \/ platform = "api" /\ ApiRefuses(saw, add, remove)
  \/ platform \in Devices /\ DeviceRefuses(platform, goal, remove)

\* What a batch of commands leaves on a device that holds `host` by then: the
\* additions come first, so a removal that names the login takes them too. An
\* addition on a single-key platform is the only command of its batch.
AfterBatch(platform, host, add, remove) ==
  IF platform = "single" /\ add # {} THEN add
  ELSE IF platform \in LoginWide /\ remove # {} THEN {}
  ELSE (host \cup add) \ remove

\* What a script may leave: it is given the goal and the prune option, but
\* never the set of managed keys, and its word is not checked key by key.
AfterScript(host, goal, prune) ==
  {(host \cup A) \ R : A \in SUBSET goal,
                       R \in SUBSET (IF prune THEN host \ goal ELSE {})}

\* The read-back each connector ends with; "blind" has none.
Confirmed(platform, host, goal, expected) ==
  CASE platform = "file"   -> host = expected
    [] platform = "script" -> host # {}
    [] OTHER               -> goal \subseteq host
=============================================================================
