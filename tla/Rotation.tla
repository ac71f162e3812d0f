------------------------------ MODULE Rotation ------------------------------
(***************************************************************************)
(* The rotation engine: service/rotation.go driven by the handler of       *)
(* service/worker.go, over the rows of store/rotations.go.                 *)
(*                                                                         *)
(* One rotation of one key. Every durable write of a step - a row, an      *)
(* authorized_keys file, a consumer - is an action of its own, so a worker *)
(* can die, fail or be overtaken between any two of them. A Deploy of one  *)
(* principal is one action with all the outcomes it can have. Targets      *)
(* whose profile removes a key by removing the login (Connectors, "login") *)
(* are outside: there the prune of a rotation takes the new key as well.   *)
(*                                                                         *)
(* Jobs are delivered as JobQueue promises while leases are kept: a live   *)
(* job has one worker, and one live job exists per idempotency key. Steps  *)
(* are keyed by (state, wave), so two jobs with different keys can drive   *)
(* the same rotation at once.                                              *)
(***************************************************************************)
EXTENDS Integers, FiniteSets

CONSTANTS
  Targets,      \* the (target, principal) rows of rotation_targets
  Canary,       \* those AddRotationTarget put in wave 0
  SingleKey,    \* those on a platform with Capabilities.SingleKey
  Outsiders,    \* principals that are not part of the plan
  Consumers,    \* enabled holders of the old private key
  OldKey, Successors, NoKey,
  Workers, NoTarget, NoJob,
  Thresholds,   \* failure_threshold, a percentage: the one asked for and,
                \* in a process that never saw the request, the policy's
  MaxAttempts,  \* attempts of a step job: 3 in enqueueStep
  MaxFaults,    \* how many faults one behaviour contains
  FaultKinds,   \* which: "crash", "error", "denied", "unpruned", "stale"
  Requests      \* what operators do beyond Start: ask for a "dry" run,
                \* "approve", "abort", "assign" the old key elsewhere

ASSUME RotationAssumption ==
  /\ Canary \subseteq Targets /\ SingleKey \subseteq Targets
  /\ IsFiniteSet(Targets) /\ Targets # {}
  /\ Targets \cap Outsiders = {} /\ Targets \cap Consumers = {}
  /\ NoTarget \notin Targets \cup Consumers
  /\ OldKey \notin Successors /\ NoKey \notin Successors /\ OldKey # NoKey
  /\ Thresholds \subseteq Nat /\ MaxAttempts \in Nat \ {0} /\ MaxFaults \in Nat

VARIABLES
  rstate,     \* rotations.state
  wave,       \* rotations.wave
  newKey,     \* rotations.new_key_id
  soak,       \* rotations.soak_until: not set, in the future, passed
  dryRun,     \* rotations.dry_run
  tstate,     \* rotation_targets.state
  assigned,   \* key_assignments wanted present, per principal
  host,       \* SKM's keys in the principal's authorized_keys
  status,     \* keys.status
  bound,      \* the key a consumer holds
  q,          \* the live step job of each idempotency key
  tries,      \* its attempts
  run,        \* what each worker is doing
  faults,     \* faults so far
  proved,     \* history: principals where the new key authenticated
  judged,     \* history: principals marked verified or failed
  soaked      \* history: a soak window has run its full length

rotVars  == <<rstate, wave, newKey, soak, dryRun>>
keyVars  == <<status, bound>>
hostVars == <<assigned, host>>
jobVars  == <<q, tries>>
history  == <<proved, judged, soaked>>
vars == <<rotVars, tstate, hostVars, keyVars, jobVars, run, faults, history>>

Principals == Targets \cup Outsiders
Keys       == {OldKey} \cup Successors

Finished == {"completed", "aborted", "failed"}            \* RotationFinished
Active   == {"planned", "staging", "verifying", "verified",
             "promoting", "soaking", "retiring"}
RotationStates == {"awaiting_approval"} \cup Active \cup Finished

Waves   == {0, 1}
JobKeys == Active \X Waves             \* "rotation:<id>:<state>:<wave>"

\* Plan: canaries go first; with none selected collapseWaves renumbers.
Wave(t)  == IF t \in Canary \/ Canary = {} THEN 0 ELSE 1
MaxWave  == IF \E t \in Targets : Wave(t) = 1 THEN 1 ELSE 0

\* Mutants of WaveTargets: without "wave = $2", and without "state = $3".
AnyWave(n, s)  == {t \in Targets : tstate[t] = s}
AnyState(n, s) == {t \in Targets : Wave(t) = n}

WaveTargets(n, s) == {t \in Targets : Wave(t) = n /\ tstate[t] = s}

\* A worker between two actions. `key` and `wave` are what Step read when it
\* started; todo, at, ok belong to the loop over targets or consumers; `left`
\* is stepRetire's "failed > 0".
Idle == [pc |-> "idle", job |-> NoJob, key |-> NoKey, wave |-> 0,
         todo |-> {}, at |-> NoTarget, ok |-> FALSE, left |-> FALSE]

Labels == {"idle", "step", "generate", "record", "dryrun", "advance", "stage",
           "staged", "toVerifying", "verify", "verified", "setWave",
           "nextWave", "toVerified", "promote", "activate", "demote", "rebind",
           "openSoak", "toSoaking", "toRetiring", "retire", "retired",
           "complete", "next", "nextDelayed", "succeed"}

WorkerState ==
  [pc : Labels, job : JobKeys \cup {NoJob}, key : Successors \cup {NoKey},
   wave : Waves, todo : SUBSET (Targets \cup Consumers),
   at : Targets \cup {NoTarget}, ok : BOOLEAN, left : BOOLEAN]

TypeOK ==
  /\ rstate \in RotationStates
  /\ wave \in Waves
  /\ newKey \in Successors \cup {NoKey}
  /\ soak \in {"none", "open", "over"}
  /\ dryRun \in BOOLEAN
  /\ tstate \in [Targets -> {"pending", "staged", "verified", "retired", "failed"}]
  /\ assigned \in [Principals -> SUBSET Keys]
  /\ host \in [Principals -> SUBSET Keys]
  /\ status \in [Keys -> {"absent", "pending", "active", "retiring", "retired"}]
  /\ bound \in [Consumers -> Keys]
  /\ q \in [JobKeys -> {"none", "delayed", "queued", "running"}]
  /\ tries \in [JobKeys -> 0 .. MaxAttempts]
  /\ run \in [Workers -> WorkerState]
  /\ faults \in 0 .. MaxFaults
  /\ proved \subseteq Targets /\ judged \subseteq Targets
  /\ soaked \in BOOLEAN

\* Plan has run: the old key is active and deployed on every target.
Init ==
  /\ rstate \in {"planned"} \cup (IF "approve" \in Requests
                                  THEN {"awaiting_approval"} ELSE {})
  /\ wave = 0 /\ newKey = NoKey /\ soak = "none"
  /\ dryRun \in {FALSE} \cup (IF "dry" \in Requests THEN {TRUE} ELSE {})
  /\ tstate   = [t \in Targets |-> "pending"]
  /\ assigned = [p \in Principals |-> IF p \in Targets THEN {OldKey} ELSE {}]
  /\ host     = assigned
  /\ status   = [k \in Keys |-> IF k = OldKey THEN "active" ELSE "absent"]
  /\ bound    = [c \in Consumers |-> OldKey]
  /\ q        = [k \in JobKeys |-> "none"]
  /\ tries    = [k \in JobKeys |-> 0]
  /\ run      = [w \in Workers |-> Idle]
  /\ faults = 0
  /\ proved = {} /\ judged = {} /\ soaked = FALSE

-----------------------------------------------------------------------------
(* Step jobs                                                               *)

\* enqueueStep. A live job with the same key absorbs the new one.
EnqueueStep(k, how) ==
  /\ q' = IF q[k] = "none" THEN [q EXCEPT ![k] = how] ELSE q
  /\ UNCHANGED tries

At(w, label)   == run[w].pc = label
Goto(w, label) == run' = [run EXCEPT ![w].pc = label]
Stop(w)        == run' = [run EXCEPT ![w] = Idle]

\* Mutant of Requeue: a failed or reaped job is not tried again.
RequeueNever(k) == q' = [q EXCEPT ![k] = "none"] /\ tries' = [tries EXCEPT ![k] = 0]

\* The job is finished, or goes back in the queue with its attempts.
Finish(k)  == q' = [q EXCEPT ![k] = "none"] /\ tries' = [tries EXCEPT ![k] = 0]
Requeue(k) == IF tries[k] >= MaxAttempts
              THEN Finish(k)
              ELSE q' = [q EXCEPT ![k] = "queued"] /\ UNCHANGED tries

\* The handler returns an error: store.Jobs.Fail.
JobFails(w) == Requeue(run[w].job) /\ Stop(w)

\* The handler returns a permanent error or succeeds: the row is finished.
JobEnds(w) == Finish(run[w].job) /\ Stop(w)

\* run_after arrives. It is set from the worker's clock and compared with the
\* database's, so a delayed step can come due before the soak has closed.
JobDue(k) ==
  /\ q[k] = "delayed"
  /\ q' = [q EXCEPT ![k] = "queued"]
  /\ UNCHANGED <<rotVars, tstate, hostVars, keyVars, tries, run, faults, history>>

\* Mutant: the row is handed out without being locked.
DequeueUnlocked(w, k) ==
  /\ At(w, "idle")
  /\ q[k] = "queued"
  /\ run' = [run EXCEPT ![w] = [Idle EXCEPT !.pc = "step", !.job = k]]
  /\ UNCHANGED <<rotVars, tstate, hostVars, keyVars, jobVars, faults, history>>

Dequeue(w, k) ==
  /\ At(w, "idle")
  /\ q[k] = "queued"
  /\ q' = [q EXCEPT ![k] = "running"]
  /\ tries' = [tries EXCEPT ![k] = @ + 1]
  /\ run' = [run EXCEPT ![w] = [Idle EXCEPT !.pc = "step", !.job = k]]
  /\ UNCHANGED <<rotVars, tstate, hostVars, keyVars, faults, history>>

\* ReapStalled, for a job whose worker died.
Reap(k) ==
  /\ q[k] = "running"
  /\ \A w \in Workers : run[w].job # k
  /\ Requeue(k)
  /\ UNCHANGED <<rotVars, tstate, hostVars, keyVars, run, faults, history>>

-----------------------------------------------------------------------------
(* Step: read the rotation and dispatch on its state                       *)

Dispatch(w, label, todo) ==
  run' = [run EXCEPT ![w].pc = label, ![w].todo = todo,
                     ![w].key = newKey, ![w].wave = wave]

Step(w) ==
  /\ At(w, "step")
  /\ \/ /\ rstate \in Finished \cup {"awaiting_approval"}
        /\ Goto(w, "succeed")
     \/ /\ rstate = "planned"
        /\ Dispatch(w, IF newKey = NoKey THEN "generate" ELSE "advance", {})
     \/ /\ rstate = "staging"
        /\ Dispatch(w, "stage", WaveTargets(wave, "pending"))
     \/ /\ rstate = "verifying"
        /\ Dispatch(w, "verify", WaveTargets(wave, "staged"))
     \/ /\ rstate = "verified"
        /\ Dispatch(w, "promote", {})
     \/ /\ rstate = "promoting"
        /\ Dispatch(w, "openSoak", {})
     \/ /\ rstate = "soaking"
        /\ Dispatch(w, IF soak = "open" THEN "nextDelayed" ELSE "toRetiring", {})
     \/ /\ rstate = "retiring"
        /\ run' = [run EXCEPT
             ![w].pc   = "retire",
             ![w].todo = {t \in Targets : tstate[t] = "verified"},
             ![w].left = \E t \in Targets : tstate[t] = "failed",
             ![w].key  = newKey, ![w].wave = wave]
  /\ UNCHANGED <<rotVars, tstate, hostVars, keyVars, jobVars, faults, history>>

\* SetRotationState with a `from` list: ErrConflict when the state has moved on,
\* which the handler returns as a retryable error.
Transition(w, label, from, to, next) ==
  /\ At(w, label)
  /\ IF rstate = from
     THEN rstate' = to /\ Goto(w, next) /\ UNCHANGED jobVars
     ELSE JobFails(w) /\ UNCHANGED rstate
  /\ UNCHANGED <<wave, newKey, soak, dryRun, tstate, hostVars, keyVars, faults, history>>

\* SetRotationState with from = nil writes whatever the state is.
Overwrite(to) == rstate' = to /\ UNCHANGED <<wave, newKey, soak, dryRun>>


-----------------------------------------------------------------------------
(* stepPlanned                                                             *)

\* keySvc.Generate: the successor exists before the rotation names it.
Generate(w) ==
  /\ At(w, "generate")
  /\ \E k \in Successors :
       /\ status[k] = "absent"
       /\ status' = [status EXCEPT ![k] = "pending"]
       /\ run' = [run EXCEPT ![w].pc = "record", ![w].key = k]
  /\ UNCHANGED <<rotVars, tstate, hostVars, bound, jobVars, faults, history>>

RecordKey(w) ==
  /\ At(w, "record")
  /\ newKey' = run[w].key
  /\ Goto(w, IF dryRun THEN "dryrun" ELSE "advance")
  /\ UNCHANGED <<rstate, wave, soak, dryRun, tstate, hostVars, keyVars, jobVars,
                 faults, history>>

EndDryRun(w) ==
  /\ At(w, "dryrun")
  /\ Overwrite("completed")
  /\ Goto(w, "succeed")
  /\ UNCHANGED <<tstate, hostVars, keyVars, jobVars, faults, history>>

Advance(w) == Transition(w, "advance", "planned", "staging", "next")

-----------------------------------------------------------------------------
(* stepStaging                                                             *)

\* Deploy: without pruning the file keeps what it has; with it, SKM's keys
\* are exactly the assigned ones. An error may come before or after the write.
\* Pruning needs the list of managed fingerprints; when that cannot be read
\* nothing is pruned and Deploy still succeeds.
Written(p, wanted, prune) == IF prune THEN wanted ELSE host[p] \cup wanted

MayFault(kind) == kind \in FaultKinds /\ faults < MaxFaults
Fault          == faults' = faults + 1

\* Mutant: every platform treated as one that holds a single key.
StageByReplacing(w, t) ==
  LET want == (assigned[t] \ {OldKey}) \cup {run[w].key} IN
  /\ assigned' = [assigned EXCEPT ![t] = want]
  /\ host'     = [host EXCEPT ![t] = want]
  /\ run' = [run EXCEPT ![w].pc = "staged", ![w].at = t, ![w].ok = TRUE]
  /\ UNCHANGED <<status, history>>

\* How far a target's turn gets before an error ends it: nothing written, the
\* assignment written, the file written too, or the end.
Reached == {"none", "row", "file", "end"}

\* stageOne: assign the successor beside the old key and deploy unpruned.
StageBeside(w, t) ==
  LET want == assigned[t] \cup {run[w].key} IN
  /\ t \notin SingleKey
  /\ \E last \in Reached :
       /\ assigned' = IF last = "none" THEN assigned ELSE [assigned EXCEPT ![t] = want]
       /\ host' = IF last \in {"file", "end"}
                  THEN [host EXCEPT ![t] = Written(t, want, FALSE)] ELSE host
       /\ run' = [run EXCEPT ![w].pc = "staged", ![w].at = t, ![w].ok = last = "end"]
  /\ UNCHANGED <<status, history>>

\* replaceOne: swap the assignment, then deploy with VerifyAuth. A Deploy error
\* runs restorePrevious, which can stop short of the end; a key that merely
\* fails to authenticate comes back in FailedKeys, at which nobody looks.
Replace(w, t) ==
  LET k    == run[w].key
      want == (assigned[t] \ {OldKey}) \cup {k}
      back == (want \ {k}) \cup {OldKey}
  IN
  /\ t \in SingleKey
  /\ \/ \E works \in BOOLEAN :
          /\ assigned' = [assigned EXCEPT ![t] = want]
          /\ host'     = [host EXCEPT ![t] = want]
          /\ proved'   = IF works THEN proved \cup {t} ELSE proved
          /\ status'   = IF works /\ status[k] = "pending"
                         THEN [status EXCEPT ![k] = "active"] ELSE status
          /\ run' = [run EXCEPT ![w].pc = "staged", ![w].at = t, ![w].ok = TRUE]
     \/ /\ \E now \in {want, want \cup {OldKey}, back}, left \in {host[t], want, back} :
             /\ left = back => now = back \/ host[t] = back
             /\ assigned' = [assigned EXCEPT ![t] = now]
             /\ host'     = [host EXCEPT ![t] = left]
        /\ run' = [run EXCEPT ![w].pc = "staged", ![w].at = t, ![w].ok = FALSE]
        /\ UNCHANGED <<status, proved>>
  /\ UNCHANGED <<judged, soaked>>

StageOne(w) ==
  /\ At(w, "stage")
  /\ \E t \in run[w].todo : StageBeside(w, t) \/ Replace(w, t)
  /\ UNCHANGED <<rotVars, tstate, bound, jobVars, faults>>

\* SetRotationTargetState: no condition on the state the row is in. The
\* counters it refreshes are counts of these rows.
Mark(w, label, good, loop) ==
  LET t == run[w].at IN
  /\ At(w, label)
  /\ tstate' = [tstate EXCEPT ![t] = IF run[w].ok THEN good ELSE "failed"]
  /\ judged' = IF good = "verified" \/ ~run[w].ok THEN judged \cup {t} ELSE judged
  /\ run' = [run EXCEPT ![w].pc = loop, ![w].todo = @ \ {t},
                        ![w].at = NoTarget, ![w].ok = FALSE,
                        ![w].left = @ \/ (good = "retired" /\ ~run[w].ok)]
  /\ UNCHANGED <<rotVars, hostVars, keyVars, jobVars, faults, proved, soaked>>

MarkStaged(w) == Mark(w, "staged", "staged", "stage")

\* abortOnThreshold, over targets_failed and targets_total as they are now.
Failed        == {t \in Targets : tstate[t] = "failed"}
Over(threshold) ==
  /\ Failed # {}
  /\ (Cardinality(Failed) * 100) \div Cardinality(Targets) > threshold

\* The end of a wave's loop.
LoopDone(w, label, next) ==
  /\ At(w, label)
  /\ run[w].todo = {}
  /\ \E threshold \in Thresholds :
       IF Over(threshold)
       THEN Overwrite("aborted") /\ Goto(w, "succeed")
       ELSE Goto(w, next) /\ UNCHANGED rotVars
  /\ UNCHANGED <<tstate, hostVars, keyVars, jobVars, faults, history>>

StagingDone(w) == LoopDone(w, "stage", "toVerifying")
ToVerifying(w) == Transition(w, "toVerifying", "staging", "verifying", "next")

-----------------------------------------------------------------------------
(* stepVerifying                                                           *)

\* Mutant: a login that was not tried counts as a success.
VerifyNothing(w) ==
  /\ At(w, "verify")
  /\ \E t \in run[w].todo :
       run' = [run EXCEPT ![w].pc = "verified", ![w].at = t, ![w].ok = TRUE]
  /\ UNCHANGED <<rotVars, tstate, hostVars, keyVars, jobVars, faults, history>>

\* verifyOne: a fresh connection with the new private key. It can fail for
\* any reason; it can only succeed where the key is installed. Every connector
\* registered declares CanVerify, so the branch for one that does not, which is
\* content with any key it can list, is left out.
VerifyOne(w) ==
  /\ At(w, "verify")
  /\ \E t \in run[w].todo, ok \in BOOLEAN :
       /\ ok => run[w].key \in host[t]
       /\ proved' = IF ok THEN proved \cup {t} ELSE proved
       /\ run' = [run EXCEPT ![w].pc = "verified", ![w].at = t, ![w].ok = ok]
  /\ UNCHANGED <<rotVars, tstate, hostVars, keyVars, jobVars, faults,
                 judged, soaked>>

MarkVerified(w) == Mark(w, "verified", "verified", "verify")

\* Mutant: the last wave is compared with <=.
VerifyingDoneLate(w) ==
  LoopDone(w, "verify", IF run[w].wave <= MaxWave THEN "setWave" ELSE "toVerified")

VerifyingDone(w) ==
  LoopDone(w, "verify", IF run[w].wave < MaxWave THEN "setWave" ELSE "toVerified")

\* SetWave and the state change are two statements.
SetWave(w) ==
  /\ At(w, "setWave")
  /\ wave' = run[w].wave + 1
  /\ Goto(w, "nextWave")
  /\ UNCHANGED <<rstate, newKey, soak, dryRun, tstate, hostVars, keyVars, jobVars,
                 faults, history>>

NextWave(w)   == Transition(w, "nextWave", "verifying", "staging", "next")
ToVerified(w) == Transition(w, "toVerified", "verifying", "verified", "next")

-----------------------------------------------------------------------------
(* stepPromote, stepSoak, stepSoakWait                                     *)

Promote(w) == Transition(w, "promote", "verified", "promoting", "activate")

SetStatus(w, label, k, s) ==
  /\ At(w, label)
  /\ status' = [status EXCEPT ![k] = s]
  /\ UNCHANGED <<rotVars, tstate, hostVars, bound, jobVars, faults, history>>

Activate(w) == SetStatus(w, "activate", run[w].key, "active") /\ Goto(w, "demote")

\* The consumers of the old key are listed once, after it is marked retiring.
Demote(w) ==
  /\ SetStatus(w, "demote", OldKey, "retiring")
  /\ run' = [run EXCEPT ![w].pc = "rebind",
                        ![w].todo = {c \in Consumers : bound[c] = OldKey}]

\* Rebind delivers and then records; an error of either fails the rotation.
Rebind(w) ==
  /\ At(w, "rebind")
  /\ \E c \in run[w].todo :
       \/ /\ bound' = [bound EXCEPT ![c] = run[w].key]
          /\ run' = [run EXCEPT ![w].todo = @ \ {c}]
          /\ UNCHANGED rotVars
       \/ /\ bound' \in {bound, [bound EXCEPT ![c] = run[w].key]}
          /\ Overwrite("failed")
          /\ Goto(w, "succeed")
  /\ UNCHANGED <<tstate, hostVars, status, jobVars, faults, history>>

\* Mutant: the loop over consumers may stop before its end.
ReboundSome(w) ==
  /\ At(w, "rebind")
  /\ Goto(w, "next")
  /\ UNCHANGED <<rotVars, tstate, hostVars, keyVars, jobVars, faults, history>>

ReboundAll(w) ==
  /\ At(w, "rebind")
  /\ run[w].todo = {}
  /\ Goto(w, "next")
  /\ UNCHANGED <<rotVars, tstate, hostVars, keyVars, jobVars, faults, history>>

\* Mutant: a soak period of zero.
OpenSoakZero(w) ==
  /\ At(w, "openSoak")
  /\ soak' = "over"
  /\ Goto(w, "toSoaking")
  /\ UNCHANGED <<rstate, wave, newKey, dryRun, tstate, hostVars, keyVars, jobVars,
                 faults, history>>

\* SetSoakUntil, unconditionally, before the state change.
OpenSoak(w) ==
  /\ At(w, "openSoak")
  /\ soak' = "open"
  /\ Goto(w, "toSoaking")
  /\ UNCHANGED <<rstate, wave, newKey, dryRun, tstate, hostVars, keyVars, jobVars,
                 faults, history>>

ToSoaking(w)  == Transition(w, "toSoaking", "promoting", "soaking", "nextDelayed")
ToRetiring(w) == Transition(w, "toRetiring", "soaking", "retiring", "next")

SoakCloses ==
  /\ soak = "open"
  /\ soak' = "over"
  /\ soaked' = TRUE
  /\ UNCHANGED <<rstate, wave, newKey, dryRun, tstate, hostVars, keyVars, jobVars, run,
                 faults, proved, judged>>

-----------------------------------------------------------------------------
(* stepRetire                                                              *)

\* retireOne: delete the old assignment, deploy with pruning, authenticate
\* with what is left. An error can end it anywhere, or come from a key that no
\* longer authenticates. An empty file is refused.
RetireOne(w) ==
  /\ At(w, "retire")
  /\ \E t \in run[w].todo :
       LET want == assigned[t] \ {OldKey} IN
       /\ \/ \E last \in Reached :
               /\ last \in {"file", "end"} => want # {}
               /\ assigned' = IF last = "none" THEN assigned
                              ELSE [assigned EXCEPT ![t] = want]
               /\ host' = IF last \in {"file", "end"}
                          THEN [host EXCEPT ![t] = Written(t, want, TRUE)] ELSE host
               /\ run' = [run EXCEPT ![w].pc = "retired", ![w].at = t,
                                     ![w].ok = last = "end"]
               /\ UNCHANGED faults
          \/ /\ MayFault("unpruned") /\ Fault
             /\ assigned' = [assigned EXCEPT ![t] = want]
             /\ host' = [host EXCEPT ![t] = Written(t, want, FALSE)]
             /\ run' = [run EXCEPT ![w].pc = "retired", ![w].at = t, ![w].ok = TRUE]
  /\ UNCHANGED <<rotVars, tstate, keyVars, jobVars, history>>

MarkRetired(w) == Mark(w, "retired", "retired", "retire")

\* Mutant: the old key is retired although a target failed.
RetiringDoneAnyway(w) ==
  /\ At(w, "retire")
  /\ run[w].todo = {}
  /\ status' = [status EXCEPT ![OldKey] = "retired"]
  /\ Goto(w, "complete")
  /\ UNCHANGED <<rotVars, tstate, hostVars, bound, jobVars, faults, history>>

\* The old key is retired before the rotation is completed, and only when no
\* target this worker looked at failed.
RetiringDone(w) ==
  /\ At(w, "retire")
  /\ run[w].todo = {}
  /\ status' = IF run[w].left THEN status ELSE [status EXCEPT ![OldKey] = "retired"]
  /\ Goto(w, "complete")
  /\ UNCHANGED <<rotVars, tstate, hostVars, bound, jobVars, faults, history>>

Complete(w) == Transition(w, "complete", "retiring", "completed", "succeed")

-----------------------------------------------------------------------------
(* The end of a job                                                        *)

\* EnqueueNext: re-reads the rotation and queues the step for its state now.
EnqueueNext(w, label, how) ==
  /\ At(w, label)
  /\ IF rstate \in Active THEN EnqueueStep(<<rstate, wave>>, how) ELSE UNCHANGED jobVars
  /\ Goto(w, "succeed")
  /\ UNCHANGED <<rotVars, tstate, hostVars, keyVars, faults, history>>

Succeed(w) ==
  /\ At(w, "succeed")
  /\ JobEnds(w)
  /\ UNCHANGED <<rotVars, tstate, hostVars, keyVars, faults, history>>

Busy(w) == ~At(w, "idle")

\* A retryable error anywhere in the handler.
Error(w) ==
  /\ Busy(w) /\ ~At(w, "succeed")
  /\ MayFault("error") /\ Fault
  /\ JobFails(w)
  /\ UNCHANGED <<rotVars, tstate, hostVars, keyVars, history>>

\* The process dies; the row stays "running" until it is reaped.
Crash(w) ==
  /\ Busy(w)
  /\ MayFault("crash") /\ Fault
  /\ Stop(w)
  /\ UNCHANGED <<rotVars, tstate, hostVars, keyVars, jobVars, history>>

\* systemSubject or Generate is refused: the user who started the rotation is
\* gone or has lost the permission. failRotation forces "failed".
Denied(w) ==
  /\ At(w, "step") \/ At(w, "generate")
  /\ MayFault("denied") /\ Fault
  /\ Overwrite("failed")
  /\ JobEnds(w)
  /\ UNCHANGED <<tstate, hostVars, keyVars, history>>

-----------------------------------------------------------------------------
(* Operators, the scheduler, other deployments                             *)

\* Start.
Start ==
  /\ rstate = "planned"
  /\ EnqueueStep(<<"planned", 0>>, "queued")
  /\ UNCHANGED <<rotVars, tstate, hostVars, keyVars, run, faults, history>>

\* Mutant: Approve without "AND state = 'awaiting_approval'".
ApproveAnything ==
  /\ "approve" \in Requests
  /\ Overwrite("planned")
  /\ EnqueueStep(<<"planned", 0>>, "queued")
  /\ UNCHANGED <<tstate, hostVars, keyVars, run, faults, history>>

\* Approve guards its UPDATE, then queues the first step; the API process can
\* die in between, and the rotation is left planned for a Start.
Approve ==
  /\ "approve" \in Requests
  /\ rstate = "awaiting_approval"
  /\ Overwrite("planned")
  /\ \/ EnqueueStep(<<"planned", 0>>, "queued") /\ UNCHANGED faults
     \/ MayFault("crash") /\ Fault /\ UNCHANGED jobVars
  /\ UNCHANGED <<tstate, hostVars, keyVars, run, history>>

\* Abort reads the rotation, then writes whatever the state has become: one
\* that read before the end can write after it.
Abort ==
  /\ "abort" \in Requests
  /\ \/ rstate \notin Finished /\ UNCHANGED faults
     \/ rstate \in Finished /\ MayFault("stale") /\ Fault
  /\ Overwrite("aborted")
  /\ UNCHANGED <<tstate, hostVars, keyVars, jobVars, run, history>>

\* Mutant: the scheduler has no such tick.
NoTickSoak == FALSE /\ UNCHANGED vars

\* tickSoak.
TickSoak ==
  /\ rstate = "soaking" /\ soak = "over"
  /\ q[<<rstate, wave>>] = "none"
  /\ EnqueueStep(<<rstate, wave>>, "queued")
  /\ UNCHANGED <<rotVars, tstate, hostVars, keyVars, run, faults, history>>

\* A Start or a tickSoak that read the rotation before it moved on queues its
\* step after: the rotation can have two drivers.
StaleEnqueue ==
  /\ MayFault("stale") /\ Fault
  /\ \/ /\ rstate \in Active \ {"planned"}
        /\ EnqueueStep(<<"planned", 0>>, "queued")
     \/ /\ rstate = "retiring"
        /\ EnqueueStep(<<"soaking", wave>>, "queued")
  /\ UNCHANGED <<rotVars, tstate, hostVars, keyVars, run, history>>

\* An auto-healing reconcile, or an operator's deploy with pruning.
Converge(p) ==
  /\ assigned[p] # {} /\ host[p] # assigned[p]
  /\ p \in SingleKey => Cardinality(assigned[p]) = 1
  /\ host' = [host EXCEPT ![p] = assigned[p]]
  /\ UNCHANGED <<rotVars, tstate, assigned, keyVars, jobVars, run, faults, history>>

\* The old key is given to a principal that is not in the plan.
AssignOld(p) ==
  /\ "assign" \in Requests
  /\ OldKey \notin assigned[p]
  /\ assigned' = [assigned EXCEPT ![p] = @ \cup {OldKey}]
  /\ host' = [host EXCEPT ![p] = @ \cup {OldKey}]
  /\ UNCHANGED <<rotVars, tstate, keyVars, jobVars, run, faults, history>>

-----------------------------------------------------------------------------
Planned(w)   == Generate(w) \/ RecordKey(w) \/ EndDryRun(w) \/ Advance(w)
Staging(w)   == StageOne(w) \/ MarkStaged(w) \/ StagingDone(w) \/ ToVerifying(w)
Verifying(w) == \/ VerifyOne(w) \/ MarkVerified(w) \/ VerifyingDone(w)
                \/ SetWave(w) \/ NextWave(w) \/ ToVerified(w)
Promoting(w) == Promote(w) \/ Activate(w) \/ Demote(w) \/ Rebind(w) \/ ReboundAll(w)
Soaking(w)   == OpenSoak(w) \/ ToSoaking(w) \/ ToRetiring(w)
Retiring(w)  == RetireOne(w) \/ MarkRetired(w) \/ RetiringDone(w) \/ Complete(w)
Ending(w)    == \/ EnqueueNext(w, "next", "queued")
                \/ EnqueueNext(w, "nextDelayed", "delayed")
                \/ Succeed(w)

\* What a worker does when nothing goes wrong around it.
Work(w) == \/ Step(w) \/ Planned(w) \/ Staging(w) \/ Verifying(w)
           \/ Promoting(w) \/ Soaking(w) \/ Retiring(w) \/ Ending(w)

Next ==
  \/ \E w \in Workers : Work(w)
  \/ \E w \in Workers : Error(w) \/ Crash(w) \/ Denied(w)
  \/ \E w \in Workers, k \in JobKeys : Dequeue(w, k)
  \/ \E k \in JobKeys : JobDue(k) \/ Reap(k)
  \/ SoakCloses \/ TickSoak
  \/ Start \/ Approve \/ Abort \/ StaleEnqueue
  \/ \E p \in Targets : Converge(p)
  \/ \E p \in Outsiders : AssignOld(p)

Spec == Init /\ [][Next]_vars

-----------------------------------------------------------------------------
\* Workers poll, handlers return, and the reaper, the scheduler and the clocks
\* run: DefaultOptions' tickers and tickSoak. Nothing is assumed of operators,
\* of deployments' outcomes, or of which job is taken first.
Fairness ==
  /\ \A w \in Workers : WF_vars(Work(w))
  /\ WF_vars(\E w \in Workers, k \in JobKeys : Dequeue(w, k))
  /\ WF_vars(\E k \in JobKeys : JobDue(k))
  /\ WF_vars(\E k \in JobKeys : Reap(k))
  /\ WF_vars(SoakCloses)
  /\ WF_vars(TickSoak)

FairSpec == Spec /\ Fairness

-----------------------------------------------------------------------------
(* What the engine promises where a principal can hold both keys           *)

Shared == Targets \ SingleKey

Installed(t) ==
  CASE host[t] = {}                                          -> "none"
    [] OldKey \in host[t] /\ host[t] \cap Successors = {}    -> "old"
    [] OldKey \in host[t] /\ host[t] \cap Successors # {}    -> "both"
    [] OldKey \notin host[t] /\ host[t] # {}                 -> "new"

Promise == INSTANCE AddBeforeRemove WITH
  Principals <- Shared,
  keys       <- [t \in Shared |-> Installed(t)],
  proved     <- proved \cap Shared

\* Rotation implements add-before-remove: whatever the workers, faults and
\* requests do, each host goes from the old key to both to the new one, in
\* that order, and past each gate only through it.
ImplementsPromise == Promise!Spec

-----------------------------------------------------------------------------
(* Properties                                                              *)

\* "Nothing is removed until its replacement is proven": where both keys fit,
\* the old key leaves a host only after the new one authenticated there - with
\* any number of workers, after any crash, retry, abort or reconcile.
ProofBeforeRemoval ==
  \A t \in Shared : OldKey \notin host[t] => t \in proved

\* "Both keys remain valid until then": no shared host loses the old key
\* before a soak window has run its length, though soak_until is written apart
\* from the state, can be written twice, and jobs can come due early.
SoakBeforeRemoval ==
  \A t \in Shared : OldKey \notin host[t] => soaked

\* Wave 1 is not touched before every canary was verified or given up.
CanaryFirst ==
  \A t \in Targets : Wave(t) = 1 /\ host[t] \cap Successors # {}
    => \A c \in Targets : Wave(c) = 0 => c \in judged

\* Whatever fails, every principal keeps the old key or the rotation's
\* recorded successor: no orphan successor is ever a host's only key.
NeverKeyless ==
  \A t \in Targets : host[t] \cap {OldKey, newKey} # {}

\* A consumer's key opens every principal on which the rotation has proved the
\* successor: consumers move while both keys work.
ConsumersKeepAccess ==
  \A c \in Consumers, t \in proved \cap Shared : bound[c] \in host[t]

\* "The old key is only retired when it is gone everywhere."
RetiredMeansGone ==
  status[OldKey] = "retired" => \A p \in Principals : OldKey \notin host[p]

\* RotationFinished: a finished rotation "will make no further progress".
FinishedIsFinal == [][(rstate \in Finished) => rstate' = rstate]_vars

\* A target's progress is never undone: what is verified stays verified until
\* it is retired, or found broken.
TargetsOnlyAdvance ==
  [][\A t \in Targets :
       /\ tstate[t] = "verified" => tstate'[t] \in {"verified", "retired", "failed"}
       /\ tstate[t] \in {"retired", "failed"} => tstate'[t] = tstate[t]]_vars

\* A rotation that was started ends, whatever crashes on the way.
RotationFinishes == q[<<"planned", 0>>] # "none" ~> rstate \in Finished

=============================================================================
