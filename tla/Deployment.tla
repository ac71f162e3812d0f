----------------------------- MODULE Deployment -----------------------------
(***************************************************************************)
(* Deployment and reconciliation: service/deploy.go and service/           *)
(* reconcile.go over the rows of store/assignments.go and store/           *)
(* discovery.go, reaching machines through the connectors.                 *)
(*                                                                         *)
(* A worker is a request handler, a rotation step or the sweep. Nothing    *)
(* locks a principal, so every read and every write of a machine or of a   *)
(* row that another worker can fall between is an action of its own.       *)
(* A target holds one principal; both go by the principal's name.          *)
(***************************************************************************)
EXTENDS Connectors, Sequences

CONSTANTS
  Keys,        \* keys generated in SKM, with a private key in the vault
  Created,     \* the same, in a sequence, the newest first
  PageLimit,   \* keys the sweep is given when it asks for all of them: 100
  Strangers,   \* keys on machines that SKM did not put there
  Principals,
  AutoHeal,    \* principals whose target has ReconcileMode "auto_heal"
  Platforms,   \* the connectors a principal may be on
  Workers,
  Edits,       \* what operators and rotations do: "deploy", "dry", "rollback",
               \* "assign", "absent", "unassign", "revoke", "adopt", "hand"
  MaxEdits,    \* how often in one behaviour
  Faults,      \* "crash", "error" (a call fails), "partial" (a batch stops),
               \* "lost" (a write reports success and does not land)
  MaxFaults,
  NoKey, Nobody

ASSUME DeploymentAssumption ==
  /\ IsFiniteSet(Keys \cup Strangers) /\ Keys \cap Strangers = {}
  /\ Created \in Seq(Keys) /\ PageLimit \in Nat
  /\ NoKey \notin Keys \cup Strangers
  /\ AutoHeal \subseteq Principals /\ Nobody \notin Principals \cup Workers
  /\ Platforms \subseteq AllPlatforms
  /\ MaxEdits \in Nat /\ MaxFaults \in Nat

VARIABLES
  platform,   \* the connector of each principal's target
  host,       \* the fingerprints the machine accepts
  status,     \* keys.status; "none" when SKM has no such key
  newest,     \* the keys by created_at, the newest first
  want,       \* assignments.desired_state; "none" without a row
  actual,     \* assignments.actual_state
  drift,      \* targets.drift_state
  found,      \* discovered_keys.state; "none" without a row
  snaps,      \* contents of the stored snapshots
  run,        \* what each worker is doing
  edits, faults

rows == <<status, newest, want, actual, drift, found, snaps>>
vars == <<platform, host, rows, run, edits, faults>>

Fingerprints == Keys \cup Strangers
Steps == {"idle", "desired", "plan", "write", "readback", "failed", "record",
          "prove", "promote", "insync", "compare", "judge", "restore", "reset",
          "assign", "mark"}

Runs == [pc: Steps, op: {"none", "deploy", "sweep", "rollback", "adopt"},
         p: Principals \cup {Nobody},
         prune: BOOLEAN, prove: BOOLEAN, dry: BOOLEAN,
         goal: SUBSET Fingerprints,  \* desiredKeys, or what to restore
         saw: SUBSET Fingerprints,   \* what the machine listed
         known: SUBSET Fingerprints, \* managedByFingerprint
         add: SUBSET Fingerprints, remove: SUBSET Fingerprints,
         todo: SUBSET Fingerprints,  \* assignments left to verify
         key: Fingerprints \cup {NoKey},
         drifted: BOOLEAN,
         stale: BOOLEAN]  \* history: the machine changed since it was read

Free == [pc |-> "idle", op |-> "none", p |-> Nobody,
         prune |-> FALSE, prove |-> FALSE, dry |-> FALSE,
         goal |-> {}, saw |-> {}, known |-> {}, add |-> {}, remove |-> {},
         todo |-> {}, key |-> NoKey, drifted |-> FALSE, stale |-> FALSE]

Managed == {f \in Fingerprints : status[f] # "none"}

\* managedByFingerprint asks for 1000 keys, and Keys.List answers a limit
\* above 500 with the newest 100.
Page    == {newest[i] : i \in {j \in DOMAIN newest : j <= PageLimit}}
Dead    == {"revoked"}        \* revoked, compromised, destroyed

\* desiredKeys: assignments wanted present whose key may still be deployed.
Desired(p) == {f \in Fingerprints : want[p][f] = "present" /\ status[f] \notin Dead}

\* Whatever earlier deployments left in step with the assignments.
Init ==
  /\ platform \in [Principals -> Platforms]
  /\ \E left \in [Principals -> SUBSET Keys] :
       /\ host \in {h \in [Principals -> SUBSET Fingerprints] :
                      \A p \in Principals : h[p] \cap Keys = left[p]}
       /\ want   = [p \in Principals |-> [f \in Fingerprints |->
                      IF f \in left[p] THEN "present" ELSE "none"]]
       /\ actual = [p \in Principals |-> [f \in Fingerprints |->
                      IF f \in left[p] THEN "present" ELSE "unknown"]]
  /\ \A p \in Principals : platform[p] = "single" => AtMostOne(host[p])
  /\ status = [f \in Fingerprints |-> IF f \in Keys THEN "pending" ELSE "none"]
  /\ newest = Created
  /\ drift  = [p \in Principals |-> "unknown"]
  /\ found  = [p \in Principals |-> [f \in Fingerprints |-> "none"]]
  /\ snaps  = [p \in Principals |-> {}]
  /\ run    = [w \in Workers |-> Free]
  /\ edits = 0 /\ faults = 0

-----------------------------------------------------------------------------
\* Worker w goes on as r; whoever holds a reading of p's machine has a stale
\* one if the machine changes from here.
Moves(w, r) == run' = [run EXCEPT ![w] = r]

Holding == {"write", "readback", "record"}

Changes(w, r, p, content) ==
  /\ host' = [host EXCEPT ![p] = content]
  /\ run' = [v \in Workers |->
       IF v = w THEN r
       ELSE IF run[v].p = p /\ run[v].pc \in Holding /\ content # host[p]
            THEN [run[v] EXCEPT !.stale = TRUE] ELSE run[v]]

\* The end of a Deploy: the caller returns, or the sweep goes on to judge.
Ended(r, failed) ==
  IF r.op = "sweep"
  THEN [Free EXCEPT !.pc = "judge", !.op = "sweep", !.p = r.p, !.drifted = TRUE]
  ELSE Free

Edit(kind) ==
  /\ kind \in Edits /\ edits < MaxEdits
  /\ edits' = edits + 1

Fault(kind) ==
  /\ kind \in Faults /\ faults < MaxFaults
  /\ faults' = faults + 1

-----------------------------------------------------------------------------
\* Requests.

\* resolve, desiredKeys and the snapshot, which a dry run does not take.
Prepares(w, r) ==
  /\ Moves(w, [r EXCEPT !.goal = Desired(r.p), !.pc = "plan"])
  /\ snaps' = IF r.dry THEN snaps ELSE [snaps EXCEPT ![r.p] = @ \cup {host[r.p]}]

\* POST /deploy; a rotation step calls Deploy in the same way.
RequestDeploy(w, p, dry) ==
  /\ run[w].pc = "idle"
  /\ Edit(IF dry THEN "dry" ELSE "deploy")
  /\ \E prune, prove \in BOOLEAN :
       Prepares(w, [Free EXCEPT !.op = "deploy", !.p = p,
                                !.prune = prune, !.prove = prove, !.dry = dry])
  /\ UNCHANGED <<platform, host, status, newest, want, actual, drift, found, faults>>

\* The sweep, or POST /reconcile, reads a page of the keys SKM knows and lists
\* the machine; a listing that fails is reported as drift, which is all that
\* becomes of a blind device. Nothing bounds how often.
StartSweep(w, p) ==
  LET r == [Free EXCEPT !.op = "sweep", !.p = p] IN
  /\ run[w].pc = "idle"
  /\ \/ /\ platform[p] # "blind" /\ UNCHANGED faults
        /\ Moves(w, [r EXCEPT !.pc = "compare", !.saw = host[p], !.known = Page])
     \/ /\ IF platform[p] = "blind" THEN UNCHANGED faults ELSE Fault("error")
        /\ Moves(w, [r EXCEPT !.pc = "judge", !.drifted = TRUE])
  /\ UNCHANGED <<platform, host, rows, edits>>

\* ReconcileAll when Reconcile fails before it reaches the machine.
SweepFails(p) ==
  /\ Fault("error")
  /\ drift' = [drift EXCEPT ![p] = "error"]
  /\ UNCHANGED <<platform, host, status, newest, want, actual, found, snaps, run, edits>>

\* Rollback captures the current state first, then restores.
RequestRollback(w, p) ==
  /\ run[w].pc = "idle" /\ platform[p] \in CanRestore
  /\ Edit("rollback")
  /\ \E content \in snaps[p] :
       Moves(w, [Free EXCEPT !.pc = "restore", !.op = "rollback", !.p = p,
                             !.goal = content])
  /\ snaps' = [snaps EXCEPT ![p] = @ \cup {host[p]}]
  /\ UNCHANGED <<platform, host, status, newest, want, actual, drift, found, faults>>

\* Adopt creates the key; a fingerprint SKM has is a conflict.
Adopt(w, p, f) ==
  /\ run[w].pc = "idle"
  /\ found[p][f] \in {"unmanaged", "removed", "ignored"} /\ status[f] = "none"
  /\ Edit("adopt")
  /\ status' = [status EXCEPT ![f] = "active"]
  /\ newest' = <<f>> \o newest
  /\ Moves(w, [Free EXCEPT !.pc = "assign", !.op = "adopt", !.p = p, !.key = f])
  /\ UNCHANGED <<platform, host, want, actual, drift, found, snaps, faults>>

AdoptAssigns(w) ==
  LET r == run[w] IN
  /\ r.pc = "assign"
  /\ want' = [want EXCEPT ![r.p][r.key] = "present"]
  /\ Moves(w, [r EXCEPT !.pc = "mark"])
  /\ UNCHANGED <<platform, host, status, newest, actual, drift, found, snaps, edits, faults>>

AdoptMarks(w) ==
  LET r == run[w] IN
  /\ r.pc = "mark"
  /\ found' = [found EXCEPT ![r.p][r.key] = "adopted"]
  /\ Moves(w, Free)
  /\ UNCHANGED <<platform, host, status, newest, want, actual, drift, snaps, edits, faults>>

-----------------------------------------------------------------------------
\* Deploy, for a request or to heal.

HealPrepares(w) ==
  /\ run[w].pc = "desired"
  /\ Prepares(w, run[w])
  /\ UNCHANGED <<platform, host, status, newest, want, actual, drift, found, edits, faults>>

\* Apply up to its first write: list, merge, prune, guard. A dry run that is
\* not refused returns here; nothing to change skips the write.
PlanApply(w) ==
  LET r      == run[w]
      kind   == platform[r.p]
      saw    == Listed(kind, host[r.p])
      add    == ToAdd(saw, r.goal)
      remove == ToRemove(kind, saw, r.goal, Managed, r.prune)
      plan   == [r EXCEPT !.saw = saw]
  IN
  /\ r.pc = "plan"
  /\ \/ /\ kind = "script"
        /\ Moves(w, IF r.dry THEN Free ELSE [plan EXCEPT !.pc = "write"])
     \/ /\ kind # "script" /\ Refuses(kind, r.goal, saw, add, remove)
        /\ Moves(w, [r EXCEPT !.pc = "failed"])
     \/ /\ kind # "script" /\ ~Refuses(kind, r.goal, saw, add, remove)
        /\ Moves(w, IF r.dry THEN Free
                    ELSE IF add = {} /\ remove = {} THEN [plan EXCEPT !.pc = "record"]
                    ELSE [plan EXCEPT !.pc = "write", !.add = add, !.remove = remove])
  /\ UNCHANGED <<platform, host, rows, edits, faults>>

\* linux: the file is replaced by what was planned from what was read.
WriteFile(w) ==
  LET r == run[w] IN
  /\ r.pc = "write" /\ platform[r.p] = "file"
  /\ Changes(w, [r EXCEPT !.pc = "readback"], r.p, (r.saw \cup r.add) \ r.remove)
  /\ UNCHANGED <<platform, rows, edits, faults>>

\* git: every addition before the first removal, one call each.
Called(r) ==
  IF r.add \cup r.remove = {}
  THEN [r EXCEPT !.pc = IF r.op = "rollback" THEN "reset" ELSE "readback"] ELSE r

AddOne(w) ==
  LET r == run[w] IN
  /\ r.pc = "write" /\ platform[r.p] = "api"
  /\ \E f \in r.add :
       Changes(w, Called([r EXCEPT !.add = @ \ {f}]), r.p, host[r.p] \cup {f})
  /\ UNCHANGED <<platform, rows, edits, faults>>

RemoveOne(w) ==
  LET r == run[w] IN
  /\ r.pc = "write" /\ platform[r.p] = "api" /\ r.add = {}
  /\ \E f \in r.remove :
       Changes(w, Called([r EXCEPT !.remove = @ \ {f}]), r.p, host[r.p] \ {f})
  /\ UNCHANGED <<platform, rows, edits, faults>>

\* netdev: one script; the device may stop anywhere in it. What cannot be
\* listed is not read back: the deployment succeeds with a warning.
Sent(r) == [r EXCEPT !.pc = IF platform[r.p] = "blind" THEN "record" ELSE "readback"]

RunBatch(w) ==
  LET r == run[w] IN
  /\ r.pc = "write" /\ platform[r.p] \in Devices
  /\ Changes(w, Sent(r), r.p, AfterBatch(platform[r.p], host[r.p], r.add, r.remove))
  /\ UNCHANGED <<platform, rows, edits, faults>>

BatchStops(w) ==
  LET r == run[w] IN
  /\ r.pc = "write" /\ platform[r.p] \in Devices \ {"single"}
  /\ Fault("partial")
  /\ \/ \E A \in SUBSET r.add :
          Changes(w, [r EXCEPT !.pc = "failed"], r.p, host[r.p] \cup A)
     \/ \E R \in SUBSET r.remove :
          Changes(w, [r EXCEPT !.pc = "failed"], r.p,
                  AfterBatch(platform[r.p], host[r.p], r.add, R))
  /\ UNCHANGED <<platform, rows, edits>>

\* A full disk, a read-only mount, a device that echoes what it ignores: the
\* write reports success and the machine is as it was.
WriteIsLost(w) ==
  LET r == run[w] IN
  /\ r.pc = "write" /\ platform[r.p] \in Devices \cup {"file"}
  /\ Fault("lost")
  /\ Moves(w, Sent(r))
  /\ UNCHANGED <<platform, host, rows, edits>>

CallScript(w) ==
  LET r == run[w] IN
  /\ r.pc = "write" /\ platform[r.p] = "script"
  /\ \E content \in AfterScript(host[r.p], r.goal, r.prune) :
       Changes(w, [r EXCEPT !.pc = "readback"], r.p, content)
  /\ UNCHANGED <<platform, rows, edits, faults>>

\* Mutant: a write that reports success is taken to have landed.
TrustsTheWrite(w) ==
  LET r == run[w] IN
  /\ r.pc = "readback"
  /\ Moves(w, [r EXCEPT !.pc = "record", !.stale = FALSE])
  /\ UNCHANGED <<platform, host, rows, edits, faults>>

ReadBack(w) ==
  LET r == run[w] IN
  /\ r.pc = "readback"
  /\ Moves(w, [r EXCEPT !.stale = FALSE, !.pc =
       IF Confirmed(platform[r.p], host[r.p], r.goal, (r.saw \cup r.add) \ r.remove)
       THEN "record" ELSE "failed"])
  /\ UNCHANGED <<platform, host, rows, edits, faults>>

\* recordFailure: the rows of this deployment, refused dry runs included.
RecordFailure(w) ==
  LET r == run[w] IN
  /\ r.pc = "failed"
  /\ actual' = [actual EXCEPT ![r.p] = [f \in Fingerprints |->
       IF f \in r.goal /\ want[r.p][f] # "none" THEN "error" ELSE @[f]]]
  /\ Moves(w, Ended(r, TRUE))
  /\ UNCHANGED <<platform, host, status, newest, want, drift, found, snaps, edits, faults>>

Record(w) ==
  LET r == run[w] IN
  /\ r.pc = "record"
  /\ actual' = [actual EXCEPT ![r.p] = [f \in Fingerprints |->
       IF f \in r.goal /\ want[r.p][f] # "none" THEN "present" ELSE @[f]]]
  /\ Moves(w, [r EXCEPT !.pc = IF r.prove /\ r.goal # {} THEN "prove" ELSE "insync",
                        !.todo = r.goal, !.saw = {}, !.add = {},
                        !.remove = {}, !.stale = FALSE])
  /\ UNCHANGED <<platform, host, status, newest, want, drift, found, snaps, edits, faults>>

-----------------------------------------------------------------------------
\* verifyAssignments: read the key, log in with it, then promote it.

VerifyNext(r, f) ==      \* on to the next assignment
  [r EXCEPT !.todo = @ \ {f}, !.key = NoKey,
            !.pc = IF r.todo = {f} THEN "insync" ELSE "prove"]

\* An adopted key has no private half to verify with.
SkipsVerify(w) ==
  LET r == run[w] IN
  /\ r.pc = "prove"
  /\ \E f \in r.todo \cap Strangers : Moves(w, VerifyNext(r, f))
  /\ UNCHANGED <<platform, host, rows, edits, faults>>

Authenticates(w) ==
  LET r == run[w] IN
  /\ r.pc = "prove"
  /\ \E f \in r.todo \cap Keys \cap host[r.p] :
       Moves(w, IF status[f] = "pending" THEN [r EXCEPT !.pc = "promote", !.key = f]
                ELSE VerifyNext(r, f))
  /\ UNCHANGED <<platform, host, rows, edits, faults>>

\* The login fails: the key is not there, or the call fails.
FailsToAuthenticate(w) ==
  LET r == run[w] IN
  /\ r.pc = "prove"
  /\ \E f \in r.todo \cap Keys :
       /\ \/ f \notin host[r.p] /\ UNCHANGED faults
          \/ f \in host[r.p] /\ Fault("error")
       /\ actual' = [actual EXCEPT ![r.p][f] = IF want[r.p][f] = "none" THEN @ ELSE "error"]
       /\ Moves(w, VerifyNext(r, f))
  /\ UNCHANGED <<platform, host, status, newest, want, drift, found, snaps, edits>>

\* SetStatus has no condition on the status it overwrites.
Promote(w) ==
  LET r == run[w] IN
  /\ r.pc = "promote"
  /\ status' = [status EXCEPT ![r.key] = "active"]
  /\ Moves(w, VerifyNext(r, r.key))
  /\ UNCHANGED <<platform, host, newest, want, actual, drift, found, snaps, edits, faults>>

SetInSync(w) ==
  LET r == run[w] IN
  /\ r.pc = "insync"
  /\ drift' = [drift EXCEPT ![r.p] = "in_sync"]
  /\ Moves(w, Ended(r, FALSE))
  /\ UNCHANGED <<platform, host, status, newest, want, actual, found, snaps, edits, faults>>

-----------------------------------------------------------------------------
\* Rollback.

\* linux writes the snapshot verbatim, git adds what is missing, a script is
\* handed the content.
Restore(w) ==
  LET r == run[w]
      missing == r.goal \ host[r.p]
  IN
  /\ r.pc = "restore"
  /\ \/ /\ platform[r.p] \in {"file", "script"}
        /\ Changes(w, [r EXCEPT !.pc = "reset"], r.p, r.goal)
     \/ /\ platform[r.p] = "api"
        /\ Moves(w, [r EXCEPT !.pc = IF missing = {} THEN "reset" ELSE "write",
                              !.add = missing])
        /\ UNCHANGED host
  /\ UNCHANGED <<platform, rows, edits, faults>>

\* Mutant: writes a state of assignments to targets.drift_state.
ResetsToAbsent(w) ==
  LET r == run[w] IN
  /\ r.pc = "reset"
  /\ drift' = [drift EXCEPT ![r.p] = "absent"]
  /\ Moves(w, Free)
  /\ UNCHANGED <<platform, host, status, newest, want, actual, found, snaps, edits, faults>>

\* A rollback touches no assignment: the reconciler will re-derive them.
ResetDrift(w) ==
  LET r == run[w] IN
  /\ r.pc = "reset"
  /\ drift' = [drift EXCEPT ![r.p] = "unknown"]
  /\ Moves(w, Free)
  /\ UNCHANGED <<platform, host, status, newest, want, actual, found, snaps, edits, faults>>

-----------------------------------------------------------------------------
\* reconcilePrincipal.

\* A revoked key whose assignment is wanted present is expected all the same.
Expected(p)        == {f \in Fingerprints : want[p][f] = "present"}
\* Mutant: only keys recorded as present can be missing.
MissesRecorded(p, saw) == {f \in Fingerprints : want[p][f] = "present" /\ actual[p][f] = "present"} \ saw
\* Mutant: a managed key without an assignment row is nobody's concern.
OnlyAbsentRows(p, saw, known) == {f \in saw : want[p][f] = "absent"}

Missing(p, saw)    == Expected(p) \ saw
Unexpected(p, saw, known) == {f \in saw \ Expected(p) : want[p][f] = "absent" \/ f \in known}

\* Observe and MarkAbsent on one row of the inventory.
Observed(row, stranger, seen) ==
  IF stranger /\ row \in {"none", "removed"} THEN "unmanaged"
  ELSE IF row = "unmanaged" /\ ~seen THEN "removed" ELSE row

\* ForPrincipal and what follows from it: missing rows become absent, strangers
\* enter the inventory, rows of strangers not seen leave it.
Compare(w) ==
  LET r    == run[w]
      miss == Missing(r.p, r.saw)
      more == Unexpected(r.p, r.saw, r.known)
      strange == (r.saw \ Expected(r.p)) \ r.known
      drifted == miss \cup more # {}
      out == [Free EXCEPT !.op = "sweep", !.p = r.p, !.drifted = drifted]
  IN
  /\ r.pc = "compare"
  /\ actual' = [actual EXCEPT ![r.p] = [f \in Fingerprints |->
                  IF f \in miss THEN "absent" ELSE @[f]]]
  /\ found' = [found EXCEPT ![r.p] = [f \in Fingerprints |->
                  Observed(@[f], f \in strange, f \in r.saw)]]
  /\ Moves(w, IF r.p \in AutoHeal /\ drifted
              THEN [out EXCEPT !.pc = "desired", !.prune = (more # {}), !.prove = TRUE]
              ELSE [out EXCEPT !.pc = "judge"])
  /\ UNCHANGED <<platform, host, status, newest, want, drift, snaps, edits, faults>>

\* Mutant: a clean comparison does not clear the state.
JudgesDriftOnly(w) ==
  LET r == run[w] IN
  /\ r.pc = "judge"
  /\ drift' = [drift EXCEPT ![r.p] = IF r.drifted THEN "drifted" ELSE @]
  /\ Moves(w, Free)
  /\ UNCHANGED <<platform, host, status, newest, want, actual, found, snaps, edits, faults>>

\* Reconcile records what it found, healed or not.
Judge(w) ==
  LET r == run[w] IN
  /\ r.pc = "judge"
  /\ drift' = [drift EXCEPT ![r.p] = IF r.drifted THEN "drifted" ELSE "in_sync"]
  /\ Moves(w, Free)
  /\ UNCHANGED <<platform, host, status, newest, want, actual, found, snaps, edits, faults>>

-----------------------------------------------------------------------------
\* Failures.

\* A call to the machine fails. Before Apply the deployment just returns; in
\* Apply it is recorded.
CallFails(w) ==
  LET r == run[w] IN
  /\ r.pc \in {"desired", "plan", "write", "readback", "restore"}
  /\ Fault("error")
  /\ Moves(w, IF r.pc = "desired" THEN Ended(r, TRUE)
              ELSE IF r.op = "rollback" THEN Free
              ELSE [r EXCEPT !.pc = "failed"])
  /\ UNCHANGED <<platform, host, rows, edits>>

Crash(w) ==
  /\ run[w].pc # "idle"
  /\ Fault("crash")
  /\ Moves(w, Free)
  /\ UNCHANGED <<platform, host, rows, edits>>

-----------------------------------------------------------------------------
\* Operators, and rotations that change an assignment.

Assign(p, f) ==          \* Assignments.Upsert: actual_state is kept
  /\ status[f] # "none" /\ want[p][f] # "present"
  /\ Edit("assign")
  /\ want' = [want EXCEPT ![p][f] = "present"]
  /\ UNCHANGED <<platform, host, status, newest, actual, drift, found, snaps, run, faults>>

AssignAbsent(p, f) ==    \* setAssignmentAbsent of a rotation
  /\ status[f] # "none" /\ want[p][f] # "absent"
  /\ Edit("absent")
  /\ want' = [want EXCEPT ![p][f] = "absent"]
  /\ UNCHANGED <<platform, host, status, newest, actual, drift, found, snaps, run, faults>>

Unassign(p, f) ==
  /\ want[p][f] # "none"
  /\ Edit("unassign")
  /\ want'   = [want EXCEPT ![p][f] = "none"]
  /\ actual' = [actual EXCEPT ![p][f] = "unknown"]
  /\ UNCHANGED <<platform, host, status, newest, drift, found, snaps, run, faults>>

Revoke(f) ==
  /\ status[f] \notin {"none", "revoked"}
  /\ Edit("revoke")
  /\ status' = [status EXCEPT ![f] = "revoked"]
  /\ UNCHANGED <<platform, host, newest, want, actual, drift, found, snaps, run, faults>>

Ignore(p, f) ==
  /\ found[p][f] \notin {"none", "ignored"}
  /\ Edit("ignore")
  /\ found' = [found EXCEPT ![p][f] = "ignored"]
  /\ UNCHANGED <<platform, host, status, newest, want, actual, drift, snaps, run, faults>>

\* Someone edits the machine.
HandEdit(p, f) ==
  /\ Edit("hand")
  /\ \E content \in {host[p] \cup {f}, host[p] \ {f}} \ {host[p]} :
       /\ platform[p] = "single" => AtMostOne(content)
       /\ Changes(Nobody, Free, p, content)
  /\ UNCHANGED <<platform, rows, faults>>

Step(w) ==
  \/ HealPrepares(w) \/ PlanApply(w)
  \/ WriteFile(w) \/ AddOne(w) \/ RemoveOne(w) \/ RunBatch(w) \/ CallScript(w)
  \/ ReadBack(w) \/ RecordFailure(w) \/ Record(w)
  \/ SkipsVerify(w) \/ Authenticates(w) \/ FailsToAuthenticate(w) \/ Promote(w)
  \/ SetInSync(w) \/ Restore(w) \/ ResetDrift(w)
  \/ Compare(w) \/ Judge(w)
  \/ AdoptAssigns(w) \/ AdoptMarks(w)

Next ==
  \/ \E w \in Workers :
       \/ Step(w) \/ BatchStops(w) \/ WriteIsLost(w) \/ CallFails(w) \/ Crash(w)
       \/ \E p \in Principals :
            \/ StartSweep(w, p) \/ RequestRollback(w, p)
            \/ \E dry \in BOOLEAN : RequestDeploy(w, p, dry)
            \/ \E f \in Strangers : Adopt(w, p, f)
  \/ \E p \in Principals, f \in Fingerprints :
       Assign(p, f) \/ AssignAbsent(p, f) \/ Unassign(p, f)
       \/ Ignore(p, f) \/ HandEdit(p, f)
  \/ \E f \in Fingerprints : Revoke(f)
  \/ \E p \in Principals : SweepFails(p)

Spec == Init /\ [][Next]_vars

\* Every call has a timeout, so a worker goes on; the sweep is on a ticker and
\* ReconcileAll walks every enabled target, whatever becomes of the others.
Fairness ==
  /\ \A w \in Workers : WF_vars(Step(w))
  /\ \A p \in Principals : SF_vars(\E w \in Workers : StartSweep(w, p))

LiveSpec == Spec /\ Fairness

-----------------------------------------------------------------------------
TypeOK ==
  /\ platform \in [Principals -> Platforms]
  /\ host \in [Principals -> SUBSET Fingerprints]
  /\ status \in [Fingerprints -> {"none", "pending", "active", "revoked"}]
  /\ newest \in Seq(Fingerprints)
  /\ want \in [Principals -> [Fingerprints -> {"none", "present", "absent"}]]
  /\ actual \in [Principals ->
       [Fingerprints -> {"unknown", "present", "absent", "error"}]]
  /\ drift \in [Principals -> {"unknown", "in_sync", "drifted", "error"}]
  /\ found \in [Principals ->
       [Fingerprints -> {"none", "unmanaged", "removed", "adopted", "ignored"}]]
  /\ snaps \in [Principals -> SUBSET SUBSET Fingerprints]
  /\ run \in [Workers -> Runs]
  /\ edits \in 0 .. MaxEdits /\ faults \in 0 .. MaxFaults

\* A step of worker w, on p, that acts on a reading which no longer holds.
Outdated(w, p) == run[w].p = p /\ run[w].pc = "write" /\ run[w].stale

Restoring(p) == \E w \in Workers : run[w].p = p /\ run[w].pc = "restore"

\* A prune about to run the removal command of a profile that names the login.
ClearsLogin(w, p) ==
  /\ run[w].p = p /\ run[w].pc = "write"
  /\ platform[p] = "login" /\ run[w].remove # {}

\* No deployment and no healing empties an account, whatever the connector:
\* only a person or a rollback does, and, where keys are removed one by one,
\* two deployments of one principal that overlap; a file is replaced whole, so
\* there not even those can (the lockout guards of the connectors). The guard
\* does not know a removal command that names the login: there a prune that
\* finds one key to remove takes them all.
NeverEmptied ==
  [][\A p \in Principals : host[p] # {} /\ host'[p] = {} =>
       \/ edits' # edits \/ Restoring(p) \/ platform[p] = "script"
       \/ \E w \in Workers : ClearsLogin(w, p)
       \/ platform[p] # "file" /\ \E w \in Workers : Outdated(w, p)]_vars

\* A key SKM does not know leaves a machine by a person's hand, by a rollback,
\* on a platform that holds one key, with a prune where removing one key takes
\* the login's, or when it arrived while a deployment was between reading the
\* file and replacing it (ApplyOptions.PreserveUnmanaged).
StrangersSurvive ==
  [][\A p \in Principals, f \in Fingerprints :
       status[f] = "none" /\ f \in host[p] /\ f \notin host'[p] =>
         \/ edits' # edits \/ Restoring(p) \/ platform[p] \in {"single", "script"}
         \/ \E w \in Workers : ClearsLogin(w, p)
         \/ platform[p] = "file" /\ \E w \in Workers : Outdated(w, p)]_vars

\* An assignment becomes "present" only while the machine accepts the key, or
\* when the machine changed after the read-back: a write that did not land, or
\* that an overlapping deployment overwrote before it was read back, is never
\* recorded. A script is taken at its word, and a blind device at the write's.
RecordsWhatLanded ==
  [][\A p \in Principals, f \in Fingerprints :
       actual[p][f] # "present" /\ actual'[p][f] = "present" =>
         \/ f \in host[p] \/ platform[p] \in {"script", "blind"}
         \/ \E w \in Workers : run[w].p = p /\ run[w].pc = "record" /\ run[w].stale]_vars

Reachable(p) == p \in AutoHeal /\ platform[p] \notin {"single", "script", "blind"}

\* Under auto-heal every key wanted and not revoked ends up on the machine,
\* whatever was edited by hand, rolled back, overtaken or failed on the way.
WantedKeysArrive ==
  \A p \in Principals : Reachable(p) => <>[](Desired(p) \subseteq host[p])

\* And a managed key nobody wants there leaves it, unless no wanted key is left
\* to keep the account open. (A revoked key still assigned counts as wanted:
\* reconcilePrincipal expects it.) The sweep takes a managed key without an
\* assignment row, and outside the newest page of keys, for a stranger's: that
\* one stays.
UnwantedKeysLeave ==
  \A p \in Principals : Reachable(p) =>
    <>[](\/ Desired(p) = {}
         \/ \A f \in host[p] \cap Managed :
              \/ want[p][f] = "present"
              \/ want[p][f] = "none" /\ f \notin Page)

\* The sweep reports a healed target as in sync for good, unless it keeps
\* missing a key that is assigned and revoked.
DriftClears ==
  \A p \in Principals : Reachable(p) =>
    <>[](drift[p] = "in_sync" \/ Desired(p) = {} \/ Expected(p) # Desired(p))

\* What KeyService.Revoke says of a revoked key: the reconciler removes it as
\* targets become reachable. It does not while the key is assigned: the sweep
\* expects it, finds it, and reports the target in sync.
RevokedKeysLeave ==
  \A p \in Principals, f \in Keys :
    Reachable(p) /\ status[f] = "revoked" ~>
      f \notin host[p] \/ status[f] # "revoked" \/ Desired(p) = {}

=============================================================================
