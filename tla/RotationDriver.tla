--------------------------- MODULE RotationDriver ---------------------------
(***************************************************************************)
(* Theorems about a rotation that one driver takes through its states, for *)
(* any number of principals, consumers and workers: no process dies, no    *)
(* call fails before it is made, and nobody aborts the rotation or gives   *)
(* the old key to a new principal. Deployments, logins, deliveries to      *)
(* consumers and thresholds come out as they will, and the user who        *)
(* started the rotation may lose the permission to.                        *)
(***************************************************************************)
EXTENDS RotationProofs

Steady == FaultKinds \subseteq {"denied"} /\ Requests \subseteq {"dry", "approve"}

\* The states in which only the end of a step queues the next one. From
\* "soaking" on the scheduler does too, and may do so first.
Front == {"planned", "staging", "verifying", "verified", "promoting"}

\* A worker whose job is still to queue its successor, and one that may write.
Holds(w)  == run[w].pc \notin {"idle", "succeed"}
Drives(w) == run[w].pc \notin {"idle", "succeed", "next", "nextDelayed"}

Waiting(k) == q[k] \in {"queued", "delayed"}

\* The rotation has one token: a worker or a waiting job.
TokenInv ==
  /\ \A k \in JobKeys : Waiting(k) => k = <<rstate, wave>>
  /\ \A k \in JobKeys : q[k] = "running" =>
       \E w \in Workers : run[w].pc # "idle" /\ run[w].job = k
  /\ rstate \in Front => \A v \in Workers : Holds(v) =>
       /\ \A w \in Workers : Holds(w) => v = w
       /\ \A k \in JobKeys : ~Waiting(k)
  /\ rstate = "awaiting_approval" => \A k \in JobKeys : q[k] = "none"

\* A worker that drives the rotation is where the rotation is. Inside a step
\* the wave, or the state, is ahead of the job for a moment.
Inside == {"nextWave", "activate", "demote", "rebind"}

DriverAt(w) ==
  /\ run[w].pc = "step" => rstate \in Active
  /\ run[w].pc \in {"generate", "record", "dryrun", "advance"} => rstate = "planned"
  /\ run[w].pc \in {"stage", "staged", "toVerifying"} => rstate = "staging"
  /\ run[w].pc \in {"verify", "verified", "setWave", "nextWave", "toVerified"} =>
       rstate = "verifying"
  /\ run[w].pc = "promote" => rstate = "verified"
  /\ run[w].pc \in {"activate", "demote", "rebind", "openSoak", "toSoaking"} =>
       rstate = "promoting"
  /\ run[w].pc = "toRetiring" => rstate = "soaking"
  /\ run[w].pc \in {"retire", "retired", "complete"} => rstate = "retiring"
  /\ Drives(w) /\ run[w].pc \notin Inside => run[w].job = <<rstate, wave>>
  /\ run[w].pc \in {"stage", "staged", "toVerifying", "verify", "verified", "setWave",
                    "toVerified"} => run[w].wave = wave
  /\ run[w].pc \in {"promote", "activate", "demote", "rebind"} => run[w].key = newKey

OneDriver == TokenInv /\ \A w \in Workers : DriverAt(w)

Settled(t) == tstate[t] \notin {"pending", "staged"}
Gone(t)    == OldKey \notin assigned[t] \cup host[t]
Rebound    == \A c \in Consumers : bound[c] = newKey

\* The driver's list is what the rows say is left to do.
ListAt(w) ==
  /\ run[w].pc \in {"stage", "staged"} => run[w].todo = WaveTargets(wave, "pending")
  /\ run[w].pc = "toVerifying" => WaveTargets(wave, "pending") = {}
  /\ run[w].pc \in {"verify", "verified"} => run[w].todo = WaveTargets(wave, "staged")
  /\ run[w].pc \in {"setWave", "toVerified"} => WaveTargets(wave, "staged") = {}
  /\ run[w].pc = "toVerified" => MaxWave <= wave
  /\ run[w].pc \in {"retire", "retired"} =>
       /\ run[w].todo = {t \in Targets : tstate[t] = "verified"}
       /\ run[w].left <=> \E t \in Targets : tstate[t] = "failed"
  /\ run[w].pc = "retired" /\ run[w].ok => Gone(run[w].at)
  /\ run[w].pc = "rebind" => \A c \in Consumers : bound[c] = OldKey => c \in run[w].todo

ProgressInv ==
  /\ wave = 1 => \A t \in WaveZero : Settled(t)
  /\ rstate = "verifying" /\ (\A w \in Workers : run[w].pc # "nextWave") =>
       WaveTargets(wave, "pending") = {}
  /\ rstate \in {"verified", "promoting", "soaking", "retiring"} =>
       \A t \in Targets : Settled(t)

RetiredInv ==
  /\ \A t \in Targets : tstate[t] = "retired" => Gone(t)
  /\ status[OldKey] = "retired" => \A t \in Targets : tstate[t] = "retired"
  /\ \A p \in Outsiders : Gone(p)

ConsumerInv ==
  /\ \A c \in Consumers : bound[c] \in {OldKey, newKey}
  /\ \/ rstate \in {"soaking", "retiring"}
     \/ rstate = "promoting" /\ \A w \in Workers : run[w].pc \notin Inside
     \/ \E t \in Shared : OldKey \notin assigned[t] \cap host[t]
     => Rebound

SteadyInv == /\ OneDriver /\ ProgressInv /\ RetiredInv /\ ConsumerInv
             /\ \A w \in Workers : ListAt(w)
-----------------------------------------------------------------------------
(* What the driver of a rotation does.                                     *)

\* A step between two reads and writes of one worker that keeps its job.
Hand(w) == /\ Drives(w)
           /\ \A v \in Workers \ {w} : run'[v] = run[v]
           /\ run'[w].job = run[w].job /\ run'[w].pc # "idle"
           /\ UNCHANGED jobVars

\* With one driver no transition finds that the state has moved on.
Moves(w, label, from, to, next) ==
  /\ run[w].pc = label /\ rstate = from /\ rstate' = to /\ Goto(w, next)
  /\ UNCHANGED <<wave, newKey, soak, dryRun, tstate, hostVars, keyVars, jobVars, faults,
                 history>>

LEMMA Moved ==
  ASSUME NEW w \in Workers, DriverAt(w)
  PROVE  /\ Advance(w) => Moves(w, "advance", "planned", "staging", "next")
         /\ ToVerifying(w) => Moves(w, "toVerifying", "staging", "verifying", "next")
         /\ NextWave(w) => Moves(w, "nextWave", "verifying", "staging", "next")
         /\ ToVerified(w) => Moves(w, "toVerified", "verifying", "verified", "next")
         /\ Promote(w) => Moves(w, "promote", "verified", "promoting", "activate")
         /\ ToSoaking(w) => Moves(w, "toSoaking", "promoting", "soaking", "nextDelayed")
         /\ ToRetiring(w) => Moves(w, "toRetiring", "soaking", "retiring", "next")
         /\ Complete(w) => Moves(w, "complete", "retiring", "completed", "succeed")
<1> USE DEF DriverAt, Moves, Transition, At
<1>1. Advance(w) => Moves(w, "advance", "planned", "staging", "next")
  BY DEF Advance
<1>2. ToVerifying(w) => Moves(w, "toVerifying", "staging", "verifying", "next")
  BY DEF ToVerifying
<1>3. NextWave(w) => Moves(w, "nextWave", "verifying", "staging", "next")
  BY DEF NextWave
<1>4. ToVerified(w) => Moves(w, "toVerified", "verifying", "verified", "next")
  BY DEF ToVerified
<1>5. Promote(w) => Moves(w, "promote", "verified", "promoting", "activate")
  BY DEF Promote
<1>6. ToSoaking(w) => Moves(w, "toSoaking", "promoting", "soaking", "nextDelayed")
  BY DEF ToSoaking
<1>7. ToRetiring(w) => Moves(w, "toRetiring", "soaking", "retiring", "next")
  BY DEF ToRetiring
<1>8. Complete(w) => Moves(w, "complete", "retiring", "completed", "succeed")
  BY DEF Complete
<1> QED
  BY <1>1, <1>2, <1>3, <1>4, <1>5, <1>6, <1>7, <1>8

\* The actions of a driver.
Act(w) == \/ Step(w) \/ Planned(w) \/ Staging(w) \/ Verifying(w)
          \/ Promoting(w) \/ Soaking(w) \/ Retiring(w)

LEMMA ActHand ==
  ASSUME RunType, NEW w \in Workers, DriverAt(w), Act(w)
  PROVE  Hand(w)
<1> USE DEF Hand, Drives, RunType, WorkerState
<1>1. CASE Step(w)
  BY <1>1, StepEffect DEF rotVars, jobVars
<1>2. CASE Generate(w) \/ RecordKey(w) \/ EndDryRun(w)
  BY <1>2 DEF Generate, RecordKey, EndDryRun, At, Goto, jobVars
<1>3. CASE \/ Advance(w) \/ ToVerifying(w) \/ NextWave(w) \/ ToVerified(w) \/ Promote(w)
           \/ ToSoaking(w) \/ ToRetiring(w) \/ Complete(w)
  <2>1. /\ run[w].pc \in {"advance", "toVerifying", "nextWave", "toVerified", "promote",
                          "toSoaking", "toRetiring", "complete"}
        /\ \E next \in {"next", "nextDelayed", "activate", "succeed"} : Goto(w, next)
        /\ UNCHANGED jobVars
    BY <1>3, Moved DEF Moves
  <2>2. QED
    BY <2>1 DEF Goto
<1>4. CASE StageOne(w) \/ VerifyOne(w) \/ RetireOne(w)
  BY <1>4, TurnEffect
<1>5. CASE MarkStaged(w) \/ MarkVerified(w) \/ MarkRetired(w)
  BY <1>5 DEF MarkStaged, MarkVerified, MarkRetired, Mark, At
<1>6. CASE StagingDone(w) \/ VerifyingDone(w)
  BY <1>6 DEF StagingDone, VerifyingDone, LoopDone, At, Goto
<1>7. CASE SetWave(w) \/ Activate(w) \/ Demote(w) \/ ReboundAll(w) \/ OpenSoak(w) \/
           RetiringDone(w)
  BY <1>7 DEF SetWave, Activate, Demote, SetStatus, ReboundAll, OpenSoak, RetiringDone,
     At, Goto
<1>8. CASE Rebind(w)
  BY <1>8 DEF Rebind, At, Goto
<1> QED
  BY <1>1, <1>2, <1>3, <1>4, <1>5, <1>6, <1>7, <1>8
     DEF Act, Planned, Staging, Verifying, Promoting, Soaking, Retiring

\* While a worker drives, no job waits, nobody else drives, and before the soak
\* nobody else holds a job that would queue one.
LEMMA Alone ==
  ASSUME RunType, JobTypes, LeaseInv, OneDriver, NEW w \in Workers, Drives(w),
         run[w].job \in JobKeys
  PROVE  /\ rstate \in Active
         /\ \A k \in JobKeys : ~Waiting(k)
         /\ \A v \in Workers : Drives(v) => v = w
         /\ rstate \in Front => \A v \in Workers : Holds(v) => v = w
<1>a. DriverAt(w) /\ \A v \in Workers : DriverAt(v)
  BY DEF OneDriver
<1>b. TokenInv /\ Holds(w) /\ \A v \in Workers : Drives(v) => Holds(v)
  BY DEF OneDriver, Holds, Drives
<1>1. rstate \in Active
  <2>1. run[w].pc \in Labels
    BY DEF RunType, WorkerState
  <2>2. QED
    BY <1>a, <2>1 DEF DriverAt, Drives, Inside, Active, Labels
<1>2. CASE rstate \in Front
  BY <1>1, <1>2, <1>b DEF TokenInv
<1>3. CASE rstate \notin Front
  <2>1. \A v \in Workers : Drives(v) => run[v].pc \notin Inside
    BY <1>a, <1>3 DEF DriverAt, Inside, Front
  <2>2. \A v \in Workers : Drives(v) => run[v].job = <<rstate, wave>>
    BY <1>a, <2>1 DEF DriverAt
  <2>3. q[<<rstate, wave>>] = "running"
    BY <2>2 DEF LeaseInv, Drives
  <2>4. \A k \in JobKeys : ~Waiting(k)
    BY <1>b, <2>3 DEF TokenInv, Waiting
  <2>5. \A v \in Workers : Drives(v) => v = w
    BY <2>2 DEF LeaseInv, Drives
  <2>6. QED
    BY <1>1, <1>3, <2>4, <2>5
<1> QED
  BY <1>2, <1>3

\* So the token stays with the driver, and the others stay out of it.
LEMMA HandStep ==
  ASSUME RunType, JobTypes, LeaseInv, OneDriver, NEW w \in Workers, Hand(w),
         run[w].job \in JobKeys, DriverAt(w)',
         rstate' # "awaiting_approval", rstate' \in Front => rstate \in Front
  PROVE  OneDriver'
<1>a. /\ \A k \in JobKeys : ~Waiting(k)
      /\ \A v \in Workers : Drives(v) => v = w
      /\ rstate \in Front => \A v \in Workers : Holds(v) => v = w
  BY Alone DEF Hand
<1>b. q' = q /\ \A v \in Workers \ {w} : run'[v] = run[v]
  BY DEF Hand, jobVars
<1>1. \A k \in JobKeys : ~Waiting(k)'
  BY <1>a, <1>b DEF Waiting
<1>2. \A k \in JobKeys : q'[k] = "running" =>
        \E v \in Workers : run'[v].pc # "idle" /\ run'[v].job = k
  BY <1>b DEF OneDriver, TokenInv, Hand
<1>3. rstate' \in Front => \A v \in Workers : Holds(v)' => v = w
  BY <1>a, <1>b DEF Holds
<1>4. \A v \in Workers \ {w} : DriverAt(v)'
  BY <1>a, <1>b DEF DriverAt, Drives, Inside
<1> QED
  BY <1>1, <1>2, <1>3, <1>4 DEF OneDriver, TokenInv
LEMMA Passive ==
  ASSUME \A v \in Workers : DriverAt(v), UNCHANGED <<rstate, wave, newKey>>,
         \A v \in Workers : run'[v] = run[v] \/ run'[v].pc \in {"idle", "succeed"}
  PROVE  \A v \in Workers : DriverAt(v)'
BY DEF DriverAt, Drives, Inside

\* The rotation keeps its one driver.
LEMMA DriverStep == Steady /\ IInv /\ GateInv /\ OneDriver /\ [Next]_vars => OneDriver'
<1> SUFFICES ASSUME Steady, IInv, GateInv, OneDriver, [Next]_vars PROVE OneDriver'
  OBVIOUS
<1> USE RotationAssumption DEF rotVars, keyVars, hostVars, jobVars, history
<1>a. /\ RunType /\ JobTypes /\ LeaseInv /\ TokenInv
      /\ \A w \in Workers : DriverAt(w) /\ WorkerInv(w) /\ run[w] \in WorkerState
      /\ \A w \in Workers : run[w].pc # "idle" => run[w].job \in JobKeys
  BY DEF IInv, TypeOK, RunType, JobTypes, WorkerInv, OneDriver, GateInv
<1>b. /\ rstate \in Unborn => wave = 0 /\ \A k \in JobKeys \ {First} : q[k] = "none"
      /\ rstate \in RotationStates /\ wave \in Waves
  BY DEF GateInv, EarlyInv, IInv, TypeOK
<1>c. ASSUME NEW w \in Workers, Act(w),
             rstate' # "awaiting_approval", rstate' \in Front => rstate \in Front,
             DriverAt(w)'
      PROVE  OneDriver'
  <2>1. Hand(w) /\ run[w].job \in JobKeys
    BY <1>a, <1>c, ActHand DEF Hand, Drives
  <2>2. QED
    BY <1>a, <1>c, <2>1, HandStep
<1>d. \A w \in Workers : /\ DriverAt(w)
                         /\ run[w].pc = "setWave" => run[w].wave = 0
                         /\ run[w].pc \in {"stage", "staged"} => run[w].key = newKey
  BY <1>a DEF WorkerInv, GateInv, EarlyInv
<1>1. ASSUME NEW w \in Workers, Step(w) PROVE OneDriver'
  <2>1. DriverAt(w)'
    <3>1. rstate \in Active /\ run[w].job = <<rstate, wave>>
      BY <1>1, <1>a DEF Step, At, DriverAt, Drives, Inside
    <3>2. run'[w].job = run[w].job /\ UNCHANGED <<rstate, wave, newKey>>
      BY <1>1, <1>a, StepEffect
    <3>3. rstate \in Finished \cup {"awaiting_approval"} => FALSE
      BY <3>1 DEF Active, Finished
    <3>4. CASE /\ rstate = "planned"
               /\ Dispatch(w, IF newKey = NoKey THEN "generate" ELSE "advance", {})
      BY <1>a, <3>1, <3>2, <3>4 DEF Dispatch, RunType, WorkerState, DriverAt, Drives, Inside
    <3>5. CASE rstate = "staging" /\ Dispatch(w, "stage", WaveTargets(wave, "pending"))
      BY <1>a, <3>1, <3>2, <3>5 DEF Dispatch, RunType, WorkerState, DriverAt, Drives, Inside
    <3>6. CASE rstate = "verifying" /\ Dispatch(w, "verify", WaveTargets(wave, "staged"))
      BY <1>a, <3>1, <3>2, <3>6 DEF Dispatch, RunType, WorkerState, DriverAt, Drives, Inside
    <3>7. CASE \/ rstate = "verified" /\ Dispatch(w, "promote", {})
               \/ rstate = "promoting" /\ Dispatch(w, "openSoak", {})
               \/ /\ rstate = "soaking"
                  /\ Dispatch(w, IF soak = "open" THEN "nextDelayed" ELSE "toRetiring", {})
      BY <1>a, <3>1, <3>2, <3>7 DEF Dispatch, RunType, WorkerState, DriverAt, Drives, Inside
    <3>8. CASE /\ rstate = "retiring"
               /\ run' = [run EXCEPT
                    ![w].pc   = "retire",
                    ![w].todo = {t \in Targets : tstate[t] = "verified"},
                    ![w].left = \E t \in Targets : tstate[t] = "failed",
                    ![w].key  = newKey, ![w].wave = wave]
      <4>1. run'[w].pc = "retire"
        BY <1>a, <3>8 DEF RunType, WorkerState
      <4>2. QED
        BY <3>1, <3>2, <3>8, <4>1 DEF DriverAt, Drives, Inside
    <3>9. QED
      BY <1>1, <3>3, <3>4, <3>5, <3>6, <3>7, <3>8 DEF Step
  <2>2. rstate' = rstate /\ rstate # "awaiting_approval"
    BY <1>1, <1>a DEF Step, At, DriverAt, Active
  <2>3. QED
    BY <1>1, <1>c, <2>1, <2>2 DEF Act, Planned, Staging, Verifying, Promoting, Soaking, Retiring
<1>2. ASSUME NEW w \in Workers, Generate(w) PROVE OneDriver'
  <2>1. DriverAt(w)'
    BY <1>2, <1>a, <1>d DEF Generate, At, DriverAt, Drives, Inside, RunType, WorkerState
  <2>2. rstate' # "awaiting_approval" /\ (rstate' \in Front => rstate \in Front)
    BY <1>2, <1>a DEF Generate, At, DriverAt, Front
  <2>3. QED
    BY <1>2, <1>c, <2>1, <2>2 DEF Act, Planned, Staging, Verifying, Promoting, Soaking, Retiring
<1>3. ASSUME NEW w \in Workers, RecordKey(w) PROVE OneDriver'
  <2>1. DriverAt(w)'
    BY <1>3, <1>a, <1>d DEF RecordKey, Goto, At, DriverAt, Drives, Inside, RunType, WorkerState
  <2>2. rstate' # "awaiting_approval" /\ (rstate' \in Front => rstate \in Front)
    BY <1>3, <1>a DEF RecordKey, Goto, At, DriverAt, Front
  <2>3. QED
    BY <1>3, <1>c, <2>1, <2>2 DEF Act, Planned, Staging, Verifying, Promoting, Soaking, Retiring
<1>4. ASSUME NEW w \in Workers, EndDryRun(w) PROVE OneDriver'
  <2>1. DriverAt(w)'
    BY <1>4, <1>a, <1>d DEF EndDryRun, Goto, Overwrite, At, DriverAt, Drives, Inside, RunType, WorkerState
  <2>2. rstate' # "awaiting_approval" /\ (rstate' \in Front => rstate \in Front)
    BY <1>4, <1>a DEF EndDryRun, Goto, Overwrite, At, DriverAt, Front
  <2>3. QED
    BY <1>4, <1>c, <2>1, <2>2 DEF Act, Planned, Staging, Verifying, Promoting, Soaking, Retiring
<1>5. ASSUME NEW w \in Workers, Advance(w) PROVE OneDriver'
  <2>1. DriverAt(w)' /\ rstate' # "awaiting_approval" /\ (rstate' \in Front => rstate \in Front)
    BY <1>5, <1>a, <1>d, Moved DEF Moves, Goto, RunType, WorkerState, DriverAt, Drives, Inside, Front
  <2>2. TRUE
    OBVIOUS
  <2>3. QED
    BY <1>5, <1>c, <2>1, <2>2 DEF Act, Planned, Staging, Verifying, Promoting, Soaking, Retiring
<1>6. ASSUME NEW w \in Workers, StageOne(w) PROVE OneDriver'
  <2>1. DriverAt(w)'
    BY <1>6, <1>a, <1>d, TurnEffect DEF DriverAt, Drives, Inside
  <2>2. rstate' = rstate /\ rstate # "awaiting_approval"
    BY <1>6, <1>a DEF StageOne, At, DriverAt
  <2>3. QED
    BY <1>6, <1>c, <2>1, <2>2 DEF Act, Planned, Staging, Verifying, Promoting, Soaking, Retiring
<1>7. ASSUME NEW w \in Workers, MarkStaged(w) PROVE OneDriver'
  <2>1. DriverAt(w)'
    BY <1>7, <1>a, <1>d DEF MarkStaged, Mark, At, DriverAt, Drives, Inside, RunType, WorkerState
  <2>2. rstate' # "awaiting_approval" /\ (rstate' \in Front => rstate \in Front)
    BY <1>7, <1>a DEF MarkStaged, Mark, At, DriverAt, Front
  <2>3. QED
    BY <1>7, <1>c, <2>1, <2>2 DEF Act, Planned, Staging, Verifying, Promoting, Soaking, Retiring
<1>8. ASSUME NEW w \in Workers, StagingDone(w) PROVE OneDriver'
  <2>1. DriverAt(w)'
    BY <1>8, <1>a, <1>d DEF StagingDone, LoopDone, Overwrite, Goto, At, DriverAt, Drives, Inside, RunType, WorkerState
  <2>2. rstate' # "awaiting_approval" /\ (rstate' \in Front => rstate \in Front)
    BY <1>8, <1>a DEF StagingDone, LoopDone, Overwrite, Goto, At, DriverAt, Front
  <2>3. QED
    BY <1>8, <1>c, <2>1, <2>2 DEF Act, Planned, Staging, Verifying, Promoting, Soaking, Retiring
<1>9. ASSUME NEW w \in Workers, ToVerifying(w) PROVE OneDriver'
  <2>1. DriverAt(w)' /\ rstate' # "awaiting_approval" /\ (rstate' \in Front => rstate \in Front)
    BY <1>9, <1>a, <1>d, Moved DEF Moves, Goto, RunType, WorkerState, DriverAt, Drives, Inside, Front
  <2>2. TRUE
    OBVIOUS
  <2>3. QED
    BY <1>9, <1>c, <2>1, <2>2 DEF Act, Planned, Staging, Verifying, Promoting, Soaking, Retiring
<1>10. ASSUME NEW w \in Workers, VerifyOne(w) PROVE OneDriver'
  <2>1. DriverAt(w)'
    BY <1>10, <1>a, <1>d, TurnEffect DEF DriverAt, Drives, Inside
  <2>2. rstate' = rstate /\ rstate # "awaiting_approval"
    BY <1>10, <1>a DEF VerifyOne, At, DriverAt
  <2>3. QED
    BY <1>10, <1>c, <2>1, <2>2 DEF Act, Planned, Staging, Verifying, Promoting, Soaking, Retiring
<1>11. ASSUME NEW w \in Workers, MarkVerified(w) PROVE OneDriver'
  <2>1. DriverAt(w)'
    BY <1>11, <1>a, <1>d DEF MarkVerified, Mark, At, DriverAt, Drives, Inside, RunType, WorkerState
  <2>2. rstate' # "awaiting_approval" /\ (rstate' \in Front => rstate \in Front)
    BY <1>11, <1>a DEF MarkVerified, Mark, At, DriverAt, Front
  <2>3. QED
    BY <1>11, <1>c, <2>1, <2>2 DEF Act, Planned, Staging, Verifying, Promoting, Soaking, Retiring
<1>12. ASSUME NEW w \in Workers, VerifyingDone(w) PROVE OneDriver'
  <2>1. DriverAt(w)'
    BY <1>12, <1>a, <1>d DEF VerifyingDone, LoopDone, Overwrite, Goto, At, DriverAt, Drives, Inside, RunType, WorkerState
  <2>2. rstate' # "awaiting_approval" /\ (rstate' \in Front => rstate \in Front)
    BY <1>12, <1>a DEF VerifyingDone, LoopDone, Overwrite, Goto, At, DriverAt, Front
  <2>3. QED
    BY <1>12, <1>c, <2>1, <2>2 DEF Act, Planned, Staging, Verifying, Promoting, Soaking, Retiring
<1>13. ASSUME NEW w \in Workers, SetWave(w) PROVE OneDriver'
  <2>1. DriverAt(w)'
    BY <1>13, <1>a, <1>d DEF SetWave, Goto, At, DriverAt, Drives, Inside, RunType, WorkerState
  <2>2. rstate' # "awaiting_approval" /\ (rstate' \in Front => rstate \in Front)
    BY <1>13, <1>a DEF SetWave, Goto, At, DriverAt, Front
  <2>3. QED
    BY <1>13, <1>c, <2>1, <2>2 DEF Act, Planned, Staging, Verifying, Promoting, Soaking, Retiring
<1>14. ASSUME NEW w \in Workers, NextWave(w) PROVE OneDriver'
  <2>1. DriverAt(w)' /\ rstate' # "awaiting_approval" /\ (rstate' \in Front => rstate \in Front)
    BY <1>14, <1>a, <1>d, Moved DEF Moves, Goto, RunType, WorkerState, DriverAt, Drives, Inside, Front
  <2>2. TRUE
    OBVIOUS
  <2>3. QED
    BY <1>14, <1>c, <2>1, <2>2 DEF Act, Planned, Staging, Verifying, Promoting, Soaking, Retiring
<1>15. ASSUME NEW w \in Workers, ToVerified(w) PROVE OneDriver'
  <2>1. DriverAt(w)' /\ rstate' # "awaiting_approval" /\ (rstate' \in Front => rstate \in Front)
    BY <1>15, <1>a, <1>d, Moved DEF Moves, Goto, RunType, WorkerState, DriverAt, Drives, Inside, Front
  <2>2. TRUE
    OBVIOUS
  <2>3. QED
    BY <1>15, <1>c, <2>1, <2>2 DEF Act, Planned, Staging, Verifying, Promoting, Soaking, Retiring
<1>16. ASSUME NEW w \in Workers, Promote(w) PROVE OneDriver'
  <2>1. DriverAt(w)' /\ rstate' # "awaiting_approval" /\ (rstate' \in Front => rstate \in Front)
    BY <1>16, <1>a, <1>d, Moved DEF Moves, Goto, RunType, WorkerState, DriverAt, Drives, Inside, Front
  <2>2. TRUE
    OBVIOUS
  <2>3. QED
    BY <1>16, <1>c, <2>1, <2>2 DEF Act, Planned, Staging, Verifying, Promoting, Soaking, Retiring
<1>17. ASSUME NEW w \in Workers, Activate(w) PROVE OneDriver'
  <2>1. DriverAt(w)'
    BY <1>17, <1>a, <1>d DEF Activate, SetStatus, Goto, At, DriverAt, Drives, Inside, RunType, WorkerState
  <2>2. rstate' # "awaiting_approval" /\ (rstate' \in Front => rstate \in Front)
    BY <1>17, <1>a DEF Activate, SetStatus, Goto, At, DriverAt, Front
  <2>3. QED
    BY <1>17, <1>c, <2>1, <2>2 DEF Act, Planned, Staging, Verifying, Promoting, Soaking, Retiring
<1>18. ASSUME NEW w \in Workers, Demote(w) PROVE OneDriver'
  <2>1. DriverAt(w)'
    BY <1>18, <1>a, <1>d DEF Demote, SetStatus, At, DriverAt, Drives, Inside, RunType, WorkerState
  <2>2. rstate' # "awaiting_approval" /\ (rstate' \in Front => rstate \in Front)
    BY <1>18, <1>a DEF Demote, SetStatus, At, DriverAt, Front
  <2>3. QED
    BY <1>18, <1>c, <2>1, <2>2 DEF Act, Planned, Staging, Verifying, Promoting, Soaking, Retiring
<1>19. ASSUME NEW w \in Workers, Rebind(w) PROVE OneDriver'
  <2>1. DriverAt(w)'
    BY <1>19, <1>a, <1>d DEF Rebind, Overwrite, Goto, At, DriverAt, Drives, Inside, RunType, WorkerState
  <2>2. rstate' # "awaiting_approval" /\ (rstate' \in Front => rstate \in Front)
    BY <1>19, <1>a DEF Rebind, Overwrite, Goto, At, DriverAt, Front
  <2>3. QED
    BY <1>19, <1>c, <2>1, <2>2 DEF Act, Planned, Staging, Verifying, Promoting, Soaking, Retiring
<1>20. ASSUME NEW w \in Workers, ReboundAll(w) PROVE OneDriver'
  <2>1. DriverAt(w)'
    BY <1>20, <1>a, <1>d DEF ReboundAll, Goto, At, DriverAt, Drives, Inside, RunType, WorkerState
  <2>2. rstate' # "awaiting_approval" /\ (rstate' \in Front => rstate \in Front)
    BY <1>20, <1>a DEF ReboundAll, Goto, At, DriverAt, Front
  <2>3. QED
    BY <1>20, <1>c, <2>1, <2>2 DEF Act, Planned, Staging, Verifying, Promoting, Soaking, Retiring
<1>21. ASSUME NEW w \in Workers, OpenSoak(w) PROVE OneDriver'
  <2>1. DriverAt(w)'
    BY <1>21, <1>a, <1>d DEF OpenSoak, Goto, At, DriverAt, Drives, Inside, RunType, WorkerState
  <2>2. rstate' # "awaiting_approval" /\ (rstate' \in Front => rstate \in Front)
    BY <1>21, <1>a DEF OpenSoak, Goto, At, DriverAt, Front
  <2>3. QED
    BY <1>21, <1>c, <2>1, <2>2 DEF Act, Planned, Staging, Verifying, Promoting, Soaking, Retiring
<1>22. ASSUME NEW w \in Workers, ToSoaking(w) PROVE OneDriver'
  <2>1. DriverAt(w)' /\ rstate' # "awaiting_approval" /\ (rstate' \in Front => rstate \in Front)
    BY <1>22, <1>a, <1>d, Moved DEF Moves, Goto, RunType, WorkerState, DriverAt, Drives, Inside, Front
  <2>2. TRUE
    OBVIOUS
  <2>3. QED
    BY <1>22, <1>c, <2>1, <2>2 DEF Act, Planned, Staging, Verifying, Promoting, Soaking, Retiring
<1>23. ASSUME NEW w \in Workers, ToRetiring(w) PROVE OneDriver'
  <2>1. DriverAt(w)' /\ rstate' # "awaiting_approval" /\ (rstate' \in Front => rstate \in Front)
    BY <1>23, <1>a, <1>d, Moved DEF Moves, Goto, RunType, WorkerState, DriverAt, Drives, Inside, Front
  <2>2. TRUE
    OBVIOUS
  <2>3. QED
    BY <1>23, <1>c, <2>1, <2>2 DEF Act, Planned, Staging, Verifying, Promoting, Soaking, Retiring
<1>24. ASSUME NEW w \in Workers, RetireOne(w) PROVE OneDriver'
  <2>1. DriverAt(w)'
    BY <1>24, <1>a, <1>d, TurnEffect DEF DriverAt, Drives, Inside
  <2>2. rstate' = rstate /\ rstate # "awaiting_approval"
    BY <1>24, <1>a DEF RetireOne, At, DriverAt
  <2>3. QED
    BY <1>24, <1>c, <2>1, <2>2 DEF Act, Planned, Staging, Verifying, Promoting, Soaking, Retiring
<1>25. ASSUME NEW w \in Workers, MarkRetired(w) PROVE OneDriver'
  <2>1. DriverAt(w)'
    BY <1>25, <1>a, <1>d DEF MarkRetired, Mark, At, DriverAt, Drives, Inside, RunType, WorkerState
  <2>2. rstate' # "awaiting_approval" /\ (rstate' \in Front => rstate \in Front)
    BY <1>25, <1>a DEF MarkRetired, Mark, At, DriverAt, Front
  <2>3. QED
    BY <1>25, <1>c, <2>1, <2>2 DEF Act, Planned, Staging, Verifying, Promoting, Soaking, Retiring
<1>26. ASSUME NEW w \in Workers, RetiringDone(w) PROVE OneDriver'
  <2>1. DriverAt(w)'
    BY <1>26, <1>a, <1>d DEF RetiringDone, Goto, At, DriverAt, Drives, Inside, RunType, WorkerState
  <2>2. rstate' # "awaiting_approval" /\ (rstate' \in Front => rstate \in Front)
    BY <1>26, <1>a DEF RetiringDone, Goto, At, DriverAt, Front
  <2>3. QED
    BY <1>26, <1>c, <2>1, <2>2 DEF Act, Planned, Staging, Verifying, Promoting, Soaking, Retiring
<1>27. ASSUME NEW w \in Workers, Complete(w) PROVE OneDriver'
  <2>1. DriverAt(w)' /\ rstate' # "awaiting_approval" /\ (rstate' \in Front => rstate \in Front)
    BY <1>27, <1>a, <1>d, Moved DEF Moves, Goto, RunType, WorkerState, DriverAt, Drives, Inside, Front
  <2>2. TRUE
    OBVIOUS
  <2>3. QED
    BY <1>27, <1>c, <2>1, <2>2 DEF Act, Planned, Staging, Verifying, Promoting, Soaking, Retiring
<1>28. ASSUME NEW w \in Workers, EnqueueNext(w, "next", "queued") PROVE OneDriver'
  <2> DEFINE k0 == <<rstate, wave>>
  <2>1. /\ UNCHANGED <<rstate, wave, newKey>> /\ Holds(w)
        /\ \A v \in Workers \ {w} : run'[v] = run[v]
        /\ run'[w].pc = "succeed" /\ run'[w].job = run[w].job
        /\ q[run[w].job] = "running" /\ run[w].job \in JobKeys
    BY <1>28, <1>a DEF EnqueueNext, EnqueueStep, At, Goto, RunType, WorkerState, Holds, LeaseInv
  <2>2. \A k \in JobKeys : \/ q'[k] = q[k]
                           \/ k = k0 /\ q'[k] = "queued"
    BY <1>28, <1>a DEF EnqueueNext, EnqueueStep, JobTypes
  <2>3. \A v \in Workers : DriverAt(v)'
    BY <1>a, <2>1, Passive
  <2>4. \A v \in Workers : Holds(v)' => Holds(v) /\ v # w
    BY <2>1 DEF Holds
  <2> HIDE DEF k0
  <2>5. rstate # "awaiting_approval"
    BY <1>a, <2>1 DEF TokenInv
  <2>6. \A k \in JobKeys : Waiting(k)' => Waiting(k) \/ k = k0
    BY <2>2 DEF Waiting
  <2>7. \A k \in JobKeys : q'[k] = "running" =>
          \E v \in Workers : run'[v].pc # "idle" /\ run'[v].job = k
    <3>1. ASSUME NEW k \in JobKeys, q'[k] = "running"
          PROVE  \E v \in Workers : run'[v].pc # "idle" /\ run'[v].job = k
      <4>1. PICK v \in Workers : run[v].pc # "idle" /\ run[v].job = k
        BY <1>a, <2>2, <3>1 DEF TokenInv
      <4>2. QED
        BY <2>1, <4>1
    <3>2. QED
      BY <3>1
  <2>8. rstate \in Front => \A v \in Workers : ~Holds(v)'
    BY <1>a, <2>1, <2>4 DEF TokenInv
  <2>9. QED
    BY <1>a, <2>1, <2>3, <2>5, <2>6, <2>7, <2>8 DEF OneDriver, TokenInv, k0
<1>29. ASSUME NEW w \in Workers, EnqueueNext(w, "nextDelayed", "delayed") PROVE OneDriver'
  <2> DEFINE k0 == <<rstate, wave>>
  <2>1. /\ UNCHANGED <<rstate, wave, newKey>> /\ Holds(w)
        /\ \A v \in Workers \ {w} : run'[v] = run[v]
        /\ run'[w].pc = "succeed" /\ run'[w].job = run[w].job
        /\ q[run[w].job] = "running" /\ run[w].job \in JobKeys
    BY <1>29, <1>a DEF EnqueueNext, EnqueueStep, At, Goto, RunType, WorkerState, Holds, LeaseInv
  <2>2. \A k \in JobKeys : \/ q'[k] = q[k]
                           \/ k = k0 /\ q'[k] = "delayed"
    BY <1>29, <1>a DEF EnqueueNext, EnqueueStep, JobTypes
  <2>3. \A v \in Workers : DriverAt(v)'
    BY <1>a, <2>1, Passive
  <2>4. \A v \in Workers : Holds(v)' => Holds(v) /\ v # w
    BY <2>1 DEF Holds
  <2> HIDE DEF k0
  <2>5. rstate # "awaiting_approval"
    BY <1>a, <2>1 DEF TokenInv
  <2>6. \A k \in JobKeys : Waiting(k)' => Waiting(k) \/ k = k0
    BY <2>2 DEF Waiting
  <2>7. \A k \in JobKeys : q'[k] = "running" =>
          \E v \in Workers : run'[v].pc # "idle" /\ run'[v].job = k
    <3>1. ASSUME NEW k \in JobKeys, q'[k] = "running"
          PROVE  \E v \in Workers : run'[v].pc # "idle" /\ run'[v].job = k
      <4>1. PICK v \in Workers : run[v].pc # "idle" /\ run[v].job = k
        BY <1>a, <2>2, <3>1 DEF TokenInv
      <4>2. QED
        BY <2>1, <4>1
    <3>2. QED
      BY <3>1
  <2>8. rstate \in Front => \A v \in Workers : ~Holds(v)'
    BY <1>a, <2>1, <2>4 DEF TokenInv
  <2>9. QED
    BY <1>a, <2>1, <2>3, <2>5, <2>6, <2>7, <2>8 DEF OneDriver, TokenInv, k0
<1>30. ASSUME NEW w \in Workers, Succeed(w) PROVE OneDriver'
  <2>1. /\ UNCHANGED <<rstate, wave, newKey>>
        /\ \A v \in Workers \ {w} : run'[v] = run[v]
        /\ run'[w].pc = "idle" /\ run[w].pc # "idle"
        /\ q[run[w].job] = "running" /\ run[w].job \in JobKeys
        /\ q' = [q EXCEPT ![run[w].job] = "none"]
    BY <1>30, <1>a DEF Succeed, At, Finish, JobEnds, Stop, Idle, RunType, LeaseInv
  <2>2. \A v \in Workers : DriverAt(v)'
    BY <1>a, <2>1, Passive
  <2>3. \A v \in Workers : Holds(v)' => Holds(v) /\ v # w
    BY <2>1 DEF Holds
  <2>4. \A k \in JobKeys : q'[k] = IF k = run[w].job THEN "none" ELSE q[k]
    BY <1>a, <2>1 DEF JobTypes
  <2>5. \A k \in JobKeys : Waiting(k)' => Waiting(k)
    BY <2>4 DEF Waiting
  <2>6. \A k \in JobKeys : q'[k] = "running" =>
          \E v \in Workers : run'[v].pc # "idle" /\ run'[v].job = k
    <3>1. ASSUME NEW k \in JobKeys, q'[k] = "running"
          PROVE  \E v \in Workers : run'[v].pc # "idle" /\ run'[v].job = k
      <4>1. PICK v \in Workers : run[v].pc # "idle" /\ run[v].job = k
        BY <1>a, <2>4, <3>1 DEF TokenInv
      <4>2. v # w
        BY <2>4, <3>1, <4>1
      <4>3. QED
        BY <2>1, <4>1, <4>2
    <3>2. QED
      BY <3>1
  <2>7. QED
    BY <1>a, <2>1, <2>2, <2>3, <2>4, <2>5, <2>6 DEF OneDriver, TokenInv
<1>31. ASSUME NEW w \in Workers, Error(w) PROVE OneDriver'
  BY <1>31 DEF Error, MayFault, Steady
<1>32. ASSUME NEW w \in Workers, Crash(w) PROVE OneDriver'
  BY <1>32 DEF Crash, MayFault, Steady
<1>33. ASSUME NEW w \in Workers, Denied(w) PROVE OneDriver'
  <2>1. /\ rstate' = "failed" /\ Drives(w)
        /\ \A v \in Workers \ {w} : run'[v] = run[v]
        /\ run'[w].pc = "idle" /\ run[w].pc # "idle"
        /\ q[run[w].job] = "running" /\ run[w].job \in JobKeys
        /\ q' = [q EXCEPT ![run[w].job] = "none"]
    BY <1>33, <1>a DEF Denied, Overwrite, Drives, At, Finish, JobEnds, Stop, Idle, RunType, LeaseInv
  <2>2. \A v \in Workers : DriverAt(v)'
    <3>1. \A v \in Workers : v # w => ~Drives(v)
      BY <1>a, <2>1, Alone
    <3>2. QED
      BY <2>1, <3>1 DEF DriverAt, Drives, Inside
  <2>3. \A v \in Workers : Holds(v)' => Holds(v) /\ v # w
    BY <2>1 DEF Holds
  <2>4. \A k \in JobKeys : q'[k] = IF k = run[w].job THEN "none" ELSE q[k]
    BY <1>a, <2>1 DEF JobTypes
  <2>5. \A k \in JobKeys : Waiting(k)' => Waiting(k)
    BY <2>4 DEF Waiting
  <2>6. \A k \in JobKeys : q'[k] = "running" =>
          \E v \in Workers : run'[v].pc # "idle" /\ run'[v].job = k
    <3>1. ASSUME NEW k \in JobKeys, q'[k] = "running"
          PROVE  \E v \in Workers : run'[v].pc # "idle" /\ run'[v].job = k
      <4>1. PICK v \in Workers : run[v].pc # "idle" /\ run[v].job = k
        BY <1>a, <2>4, <3>1 DEF TokenInv
      <4>2. v # w
        BY <2>4, <3>1, <4>1
      <4>3. QED
        BY <2>1, <4>1, <4>2
    <3>2. QED
      BY <3>1
  <2>7. \A k \in JobKeys : ~Waiting(k)
    BY <1>a, <2>1, Alone
  <2>8. QED
    BY <2>1, <2>2, <2>5, <2>6, <2>7 DEF OneDriver, TokenInv, Front
<1>34. ASSUME NEW w \in Workers, NEW k \in JobKeys, Dequeue(w, k) PROVE OneDriver'
  <2>1. /\ UNCHANGED <<rstate, wave, newKey>> /\ Waiting(k)
        /\ \A v \in Workers \ {w} : run'[v] = run[v]
        /\ run'[w].pc = "step" /\ run'[w].job = k /\ run[w].pc = "idle"
        /\ \A j \in JobKeys : q'[j] = IF j = k THEN "running" ELSE q[j]
    BY <1>34, <1>a DEF Dequeue, At, Idle, RunType, Waiting, JobTypes
  <2>2. k = <<rstate, wave>> /\ rstate \in Active /\ rstate # "awaiting_approval"
    BY <1>a, <2>1 DEF TokenInv, JobKeys, Active
  <2>3. DriverAt(w)'
    BY <2>1, <2>2 DEF DriverAt, Drives, Inside
  <2>4. \A v \in Workers \ {w} : DriverAt(v)'
    BY <1>a, <2>1 DEF DriverAt, Drives, Inside
  <2>5. \A j \in JobKeys : ~Waiting(j)'
    BY <1>a, <2>1, <2>2 DEF TokenInv, Waiting
  <2>6. rstate \in Front => \A v \in Workers : Holds(v)' => v = w
    BY <1>a, <2>1 DEF TokenInv, Holds
  <2>7. \A j \in JobKeys : q'[j] = "running" =>
          \E v \in Workers : run'[v].pc # "idle" /\ run'[v].job = j
    <3>1. ASSUME NEW j \in JobKeys, q'[j] = "running", j # k
          PROVE  \E v \in Workers : run'[v].pc # "idle" /\ run'[v].job = j
      <4>1. PICK v \in Workers : run[v].pc # "idle" /\ run[v].job = j
        BY <1>a, <2>1, <3>1 DEF TokenInv
      <4>2. QED
        BY <2>1, <4>1
    <3>2. QED
      BY <2>1, <3>1
  <2>8. QED
    BY <2>1, <2>2, <2>3, <2>4, <2>5, <2>6, <2>7 DEF OneDriver, TokenInv
<1>35. ASSUME NEW k0 \in JobKeys, JobDue(k0) PROVE OneDriver'
  <2>1. /\ UNCHANGED <<rstate, wave, newKey, run>>
        /\ \A k \in JobKeys : q'[k] = q[k] \/ (Waiting(k) /\ q'[k] = "queued")
    BY <1>35, <1>a DEF JobDue, Waiting, JobTypes
  <2>2. \A v \in Workers : DriverAt(v)' /\ (Holds(v)' <=> Holds(v))
    BY <1>a, <2>1, Passive DEF Holds
  <2>5. QED
    BY <1>a, <2>1, <2>2 DEF OneDriver, TokenInv, Waiting
<1>36. ASSUME NEW k \in JobKeys, Reap(k) PROVE OneDriver'
  BY <1>36, <1>a DEF Reap, TokenInv
<1>37. ASSUME SoakCloses PROVE OneDriver'
  <2>1. /\ UNCHANGED <<rstate, wave, newKey, run>>
        /\ \A k \in JobKeys : q'[k] = q[k] \/ FALSE
    BY <1>37 DEF SoakCloses
  <2>2. \A v \in Workers : DriverAt(v)' /\ (Holds(v)' <=> Holds(v))
    BY <1>a, <2>1, Passive DEF Holds
  <2>5. QED
    BY <1>a, <2>1, <2>2 DEF OneDriver, TokenInv, Waiting
<1>38. ASSUME TickSoak PROVE OneDriver'
  <2>1. /\ UNCHANGED <<rstate, wave, newKey, run>>
        /\ \A k \in JobKeys : q'[k] = q[k] \/ (k = <<rstate, wave>> /\ q'[k] = "queued")
    BY <1>38, <1>a DEF TickSoak, EnqueueStep, JobTypes
  <2>2. \A v \in Workers : DriverAt(v)' /\ (Holds(v)' <=> Holds(v))
    BY <1>a, <2>1, Passive DEF Holds
  <2>3. rstate \notin Front /\ rstate # "awaiting_approval"
    BY <1>38 DEF TickSoak, Front
  <2>5. QED
    BY <1>a, <2>1, <2>2, <2>3 DEF OneDriver, TokenInv, Waiting
<1>39. ASSUME Start PROVE OneDriver'
  <2>1. /\ UNCHANGED <<rstate, wave, newKey, run>>
        /\ \A k \in JobKeys : q'[k] = q[k] \/ (k = First /\ q[k] = "none" /\ q'[k] = "queued")
    BY <1>39, <1>a DEF Start, EnqueueStep, JobTypes, First
  <2>2. \A v \in Workers : DriverAt(v)' /\ (Holds(v)' <=> Holds(v))
    BY <1>a, <2>1, Passive DEF Holds
  <2>3. rstate = "planned" /\ wave = 0 /\ First = <<rstate, wave>>
    BY <1>39, <1>b DEF Start, Unborn, First
  <2>4. q[First] = "none" => \A v \in Workers : ~Holds(v)
    <3>1. ASSUME q[First] = "none", NEW v \in Workers, Holds(v) PROVE FALSE
      <4>1. q[run[v].job] = "running" /\ run[v].job \in JobKeys
        BY <1>a, <3>1 DEF LeaseInv, Holds
      <4>2. QED
        BY <1>b, <2>3, <3>1, <4>1 DEF Unborn
    <3>2. QED
      BY <3>1
  <2>5. QED
    BY <1>a, <2>1, <2>2, <2>3, <2>4 DEF OneDriver, TokenInv, Waiting
<1>40. ASSUME Approve PROVE OneDriver'
  <2>1. /\ rstate = "awaiting_approval" /\ rstate' = "planned" /\ UNCHANGED <<wave, newKey, run>>
        /\ \A k \in JobKeys : q'[k] = q[k] \/ (k = First /\ q'[k] = "queued")
    BY <1>40, <1>a DEF Approve, Overwrite, EnqueueStep, JobTypes, First
  <2>2. wave = 0 /\ \A k \in JobKeys : q[k] = "none"
    BY <1>a, <1>b, <2>1 DEF TokenInv, Unborn
  <2>3. \A v \in Workers : run[v].pc = "idle"
    BY <1>a, <2>2 DEF LeaseInv
  <2>4. \A v \in Workers : DriverAt(v)' /\ ~Holds(v)'
    BY <2>1, <2>3 DEF DriverAt, Drives, Holds, Inside
  <2>5. QED
    BY <2>1, <2>2, <2>4 DEF OneDriver, TokenInv, Waiting, First
<1>41. ASSUME Abort PROVE OneDriver'
  BY <1>41 DEF Abort, Steady
<1>42. ASSUME StaleEnqueue PROVE OneDriver'
  BY <1>42 DEF StaleEnqueue, MayFault, Steady
<1>43. ASSUME NEW t \in Targets, Converge(t) PROVE OneDriver'
  <2>1. /\ UNCHANGED <<rstate, wave, newKey, run>>
        /\ \A k \in JobKeys : q'[k] = q[k] \/ FALSE
    BY <1>43 DEF Converge
  <2>2. \A v \in Workers : DriverAt(v)' /\ (Holds(v)' <=> Holds(v))
    BY <1>a, <2>1, Passive DEF Holds
  <2>5. QED
    BY <1>a, <2>1, <2>2 DEF OneDriver, TokenInv, Waiting
<1>44. ASSUME NEW p \in Outsiders, AssignOld(p) PROVE OneDriver'
  BY <1>44 DEF AssignOld, Steady
<1>45. CASE UNCHANGED vars
  BY <1>45 DEF vars, OneDriver, TokenInv, DriverAt, Drives, Holds, Waiting
<1> QED
  BY <1>1, <1>2, <1>3, <1>4, <1>5, <1>6, <1>7, <1>8, <1>9, <1>10, <1>11, <1>12,
     <1>13, <1>14, <1>15, <1>16, <1>17, <1>18, <1>19, <1>20, <1>21, <1>22,
     <1>23, <1>24, <1>25, <1>26, <1>27, <1>28, <1>29, <1>30, <1>31, <1>32,
     <1>33, <1>34, <1>35, <1>36, <1>37, <1>38, <1>39, <1>40, <1>41, <1>42,
     <1>43, <1>44, <1>45
     DEF Next, Work, Planned, Staging, Verifying, Promoting, Soaking, Retiring, Ending
-----------------------------------------------------------------------------
(* What happens beside the driver.                                         *)

\* Jobs come and go, reconciles write what is assigned, a rotation is approved
\* or refused: no list and no row of a target changes.
Quiet ==
  /\ UNCHANGED <<wave, newKey, tstate, assigned, keyVars>>
  /\ \A p \in Principals : host'[p] \in {host[p], assigned[p]}
  /\ \/ rstate' = rstate
     \/ rstate = "awaiting_approval" /\ rstate' = "planned"
     \/ (\E w \in Workers : Drives(w)) /\ rstate' = "failed"
  /\ \A v \in Workers : \/ run'[v] = run[v]
                        \/ /\ run[v].pc \notin Inside
                           /\ run'[v].pc \in {"idle", "succeed", "step"}

LEMMA QuietStep ==
  ASSUME Steady, RunType, HostTypes, [Next]_vars
  PROVE  Quiet \/ \E w \in Workers : Act(w)
<1> USE DEF rotVars, keyVars, hostVars, jobVars, history
<1>1. ASSUME NEW w \in Workers,
             EnqueueNext(w, "next", "queued") \/ EnqueueNext(w, "nextDelayed", "delayed")
      PROVE  Quiet
  BY <1>1 DEF EnqueueNext, Quiet, At, Goto, RunType, WorkerState, Inside
<1>2. ASSUME NEW w \in Workers, Succeed(w) PROVE Quiet
  BY <1>2 DEF Succeed, JobEnds, Stop, Idle, Quiet, At, RunType, Inside
<1>3. ASSUME NEW w \in Workers, Error(w) \/ Crash(w) PROVE FALSE
  BY <1>3 DEF Error, Crash, MayFault, Steady
<1>4. ASSUME NEW w \in Workers, Denied(w) PROVE Quiet
  BY <1>4 DEF Denied, Overwrite, JobEnds, Stop, Idle, Quiet, At, RunType, Inside, Drives
<1>5. ASSUME NEW w \in Workers, NEW k \in JobKeys, Dequeue(w, k) PROVE Quiet
  BY <1>5 DEF Dequeue, Idle, Quiet, At, RunType, Inside
<1>6. ASSUME NEW k \in JobKeys, JobDue(k) \/ Reap(k) PROVE Quiet
  BY <1>6 DEF JobDue, Reap, Quiet
<1>7. CASE SoakCloses \/ TickSoak \/ Start \/ Approve
  BY <1>7 DEF SoakCloses, TickSoak, Start, Approve, Overwrite, Quiet
<1>8. CASE Abort \/ StaleEnqueue
  BY <1>8 DEF Abort, StaleEnqueue, MayFault, Steady
<1>9. ASSUME NEW p \in Targets, Converge(p) PROVE Quiet
  BY <1>9 DEF Converge, Quiet, HostTypes
<1>10. ASSUME NEW p \in Outsiders, AssignOld(p) PROVE FALSE
  BY <1>10 DEF AssignOld, Steady
<1>11. CASE UNCHANGED vars
  BY <1>11 DEF vars, Quiet
<1> QED
  BY <1>1, <1>2, <1>3, <1>4, <1>5, <1>6, <1>7, <1>8, <1>9, <1>10, <1>11
     DEF Next, Work, Act, Ending

LEMMA QuietSteady ==
  ASSUME Quiet, ProgressInv, RetiredInv, ConsumerInv,
         \A w \in Workers : ListAt(w) /\ WorkerInv(w)
  PROVE  /\ ProgressInv' /\ RetiredInv' /\ ConsumerInv'
         /\ \A w \in Workers : ListAt(w)'
<1>a. Targets \subseteq Principals /\ Outsiders \subseteq Principals /\ Shared \subseteq Principals
  BY DEF Principals, Shared
<1>b. \A v \in Workers : run[v].pc \in Inside => run'[v] = run[v]
  BY DEF Quiet
<1>1. ProgressInv'
  BY <1>b DEF Quiet, ProgressInv, Settled, WaveZero, Wave, WaveTargets, Inside
<1>2. RetiredInv'
  BY <1>a DEF Quiet, RetiredInv, Gone, keyVars
<1>3. ConsumerInv'
  BY <1>a, <1>b DEF Quiet, ConsumerInv, Rebound, keyVars, Inside
<1>4. \A w \in Workers : ListAt(w)'
  <2>1. ASSUME NEW w \in Workers, run'[w].pc \in {"idle", "succeed", "step"} PROVE ListAt(w)'
    BY <2>1 DEF ListAt
  <2>2. ASSUME NEW w \in Workers, run'[w] = run[w] PROVE ListAt(w)'
    <3>1. \A t \in Principals : Gone(t) => Gone(t)'
      BY DEF Quiet, Gone
    <3>2. UNCHANGED <<wave, tstate, bound>>
      BY DEF Quiet, keyVars
    <3>3. \A s \in {"pending", "staged"} : WaveTargets(wave, s)' = WaveTargets(wave, s)
      BY <3>2 DEF WaveTargets, Wave
    <3>4. ListAt(w) /\ (run[w].pc = "retired" => run[w].at \in Targets)
      BY DEF WorkerInv
    <3>5. /\ WaveTargets(wave, "pending")' = WaveTargets(wave, "pending")
          /\ WaveTargets(wave, "staged")' = WaveTargets(wave, "staged")
          /\ MaxWave' = MaxWave
      BY <3>3 DEF MaxWave, Wave
    <3>6. run[w].pc = "retired" /\ run[w].ok =>
            OldKey \notin assigned'[run[w].at] \cup host'[run[w].at]
      BY <1>a, <3>1, <3>4 DEF ListAt, Gone
    <3>7. QED
      BY <2>2, <3>2, <3>4, <3>5, <3>6 DEF ListAt, Gone
  <2>3. QED
    BY <2>1, <2>2 DEF Quiet
<1> QED
  BY <1>1, <1>2, <1>3, <1>4
-----------------------------------------------------------------------------
(* What the driver's own steps keep.                                       *)

\* What is known when a driver acts.
Ready(w) ==
  /\ RunType /\ RowTypes /\ HostTypes /\ KeyTypes
  /\ Hand(w) /\ WorkerInv(w) /\ WaveAt(w) /\ DriverAt(w) /\ ListAt(w)
  /\ rstate \in Active /\ \A v \in Workers \ {w} : ~Drives(v)
  /\ ProgressInv /\ RetiredInv /\ ConsumerInv
  /\ HostInv /\ OneSuccessor /\ EarlyInv

LEMMA ActReady ==
  ASSUME IInv, GateInv, SteadyInv, NEW w \in Workers, Act(w)
  PROVE  Ready(w)
<1>a. /\ RunType /\ RowTypes /\ HostTypes /\ KeyTypes /\ JobTypes /\ WorkerInv(w) /\ HostInv
  BY DEF IInv, TypeOK, RunType, RowTypes, HostTypes, KeyTypes, JobTypes
<1>b. LeaseInv /\ OneSuccessor /\ EarlyInv /\ WaveAt(w)
  BY DEF GateInv
<1>c. /\ OneDriver /\ DriverAt(w) /\ ListAt(w)
      /\ ProgressInv /\ RetiredInv /\ ConsumerInv
  BY DEF SteadyInv, OneDriver
<1>1. Hand(w) /\ run[w].job \in JobKeys
  BY <1>a, <1>c, ActHand DEF Hand, Drives, WorkerInv
<1>2. rstate \in Active /\ \A v \in Workers \ {w} : ~Drives(v)
  BY <1>a, <1>b, <1>c, <1>1, Alone DEF Hand
<1> QED
  BY <1>a, <1>b, <1>c, <1>1, <1>2 DEF Ready

LEMMA ActList ==
  ASSUME Steady, NEW w \in Workers, Ready(w), Act(w)
  PROVE  ListAt(w)'
<1> USE RotationAssumption DEF rotVars, keyVars, hostVars, jobVars, history
<1>a. /\ RunType /\ RowTypes /\ HostTypes /\ KeyTypes
      /\ WorkerInv(w) /\ WaveAt(w) /\ DriverAt(w) /\ ListAt(w)
  BY DEF Ready
<1>1. CASE Step(w)
  <2>1. UNCHANGED <<wave, tstate>>
    BY <1>1, <1>a, StepEffect
  <2>2. CASE run' = [run EXCEPT ![w].pc = "succeed"]
    BY <1>a, <2>2 DEF RunType, WorkerState, ListAt
  <2>3. CASE run'[w].pc \in {"generate", "advance", "promote", "openSoak", "nextDelayed",
                            "toRetiring"}
    BY <2>3 DEF ListAt
  <2>4. CASE \/ run'[w].pc = "stage" /\ run'[w].todo = WaveTargets(wave, "pending")
             \/ run'[w].pc = "verify" /\ run'[w].todo = WaveTargets(wave, "staged")
    BY <2>1, <2>4 DEF ListAt, WaveTargets, Wave
  <2>5. CASE rstate = "retiring"
    <3> DEFINE left == \E t \in Targets : tstate[t] = "failed"
    <3>1. run' = [run EXCEPT
             ![w].pc   = "retire",
             ![w].todo = {t \in Targets : tstate[t] = "verified"},
             ![w].left = left,
             ![w].key  = newKey, ![w].wave = wave]
      BY <1>1, <2>5 DEF Step, Finished
    <3> HIDE DEF left
    <3>2. /\ run'[w].pc = "retire" /\ run'[w].left = left
          /\ run'[w].todo = {t \in Targets : tstate[t] = "verified"}
      BY <1>a, <3>1 DEF RunType, WorkerState
    <3>3. QED
      BY <2>1, <3>2 DEF ListAt, left
  <2>6. QED
    BY <1>1, <1>a, <2>2, <2>3, <2>4, <2>5, StepEffect
<1>2. CASE Generate(w)
  BY <1>2, <1>a DEF Generate, At, ListAt, RunType, WorkerState
<1>3. CASE RecordKey(w)
  BY <1>3, <1>a DEF RecordKey, Goto, At, ListAt, RunType, WorkerState
<1>4. CASE EndDryRun(w)
  BY <1>4, <1>a DEF EndDryRun, Goto, Overwrite, At, ListAt, RunType, WorkerState
<1>5. CASE Advance(w)
  BY <1>5, <1>a, Moved DEF Moves, Goto, RunType, WorkerState, ListAt
<1>6. CASE StageOne(w)
  <2>1. /\ run'[w].todo = run[w].todo /\ UNCHANGED <<wave, tstate>>
        /\ run[w].pc = "stage" /\ run'[w].pc = "staged"
    BY <1>6, <1>a, TurnEffect DEF StageOne, At
  <2>2. QED
    BY <1>a, <2>1 DEF ListAt, WaveTargets, Wave
<1>7. CASE MarkStaged(w)
  <2>1. /\ UNCHANGED wave /\ run[w].pc = "staged" /\ run'[w].pc = "stage"
        /\ run'[w].todo = run[w].todo \ {run[w].at} /\ run[w].at \in Targets
        /\ \A t \in Targets : tstate'[t] = IF t = run[w].at
             THEN IF run[w].ok THEN "staged" ELSE "failed" ELSE tstate[t]
    BY <1>7, <1>a DEF MarkStaged, Mark, At, RunType, WorkerState, RowTypes, WorkerInv
  <2>2. run[w].todo = WaveTargets(wave, "pending")
    BY <1>a, <2>1 DEF ListAt
  <2>3. run'[w].todo = WaveTargets(wave, "pending")'
    BY <2>1, <2>2 DEF WaveTargets, Wave
  <2>4. QED
    BY <2>1, <2>3 DEF ListAt
<1>8. CASE StagingDone(w)
  BY <1>8, <1>a DEF StagingDone, LoopDone, Goto, At, RunType, WorkerState, ListAt, WaveTargets, Wave, Overwrite
<1>9. CASE ToVerifying(w)
  BY <1>9, <1>a, Moved DEF Moves, Goto, RunType, WorkerState, ListAt
<1>10. CASE VerifyOne(w)
  <2>1. /\ run'[w].todo = run[w].todo /\ UNCHANGED <<wave, tstate>>
        /\ run[w].pc = "verify" /\ run'[w].pc = "verified"
    BY <1>10, <1>a, TurnEffect DEF VerifyOne, At
  <2>2. QED
    BY <1>a, <2>1 DEF ListAt, WaveTargets, Wave
<1>11. CASE MarkVerified(w)
  <2>1. /\ UNCHANGED wave /\ run[w].pc = "verified" /\ run'[w].pc = "verify"
        /\ run'[w].todo = run[w].todo \ {run[w].at} /\ run[w].at \in Targets
        /\ \A t \in Targets : tstate'[t] = IF t = run[w].at
             THEN IF run[w].ok THEN "verified" ELSE "failed" ELSE tstate[t]
    BY <1>11, <1>a DEF MarkVerified, Mark, At, RunType, WorkerState, RowTypes, WorkerInv
  <2>2. run[w].todo = WaveTargets(wave, "staged")
    BY <1>a, <2>1 DEF ListAt
  <2>3. run'[w].todo = WaveTargets(wave, "staged")'
    BY <2>1, <2>2 DEF WaveTargets, Wave
  <2>4. QED
    BY <2>1, <2>3 DEF ListAt
<1>12. CASE VerifyingDone(w)
  <2>1. /\ run[w].pc = "verify" /\ run[w].todo = {} /\ UNCHANGED <<wave, tstate>>
        /\ \/ run'[w].pc \in {"succeed", "setWave"}
           \/ run'[w].pc = "toVerified" /\ ~(run[w].wave < MaxWave)
    BY <1>12, <1>a DEF VerifyingDone, LoopDone, Goto, At, RunType, WorkerState, Overwrite
  <2>2. run[w].wave = wave /\ WaveTargets(wave, "staged") = {}
    BY <1>a, <2>1 DEF ListAt, DriverAt
  <2>3. run'[w].pc = "toVerified" => MaxWave <= wave
    BY <1>a, <2>1, <2>2 DEF MaxWave, RowTypes, Waves
  <2>4. QED
    BY <2>1, <2>2, <2>3 DEF ListAt, WaveTargets, MaxWave, Wave
<1>13. CASE SetWave(w)
  BY <1>13, <1>a DEF SetWave, Goto, At, ListAt, RunType, WorkerState
<1>14. CASE NextWave(w)
  BY <1>14, <1>a, Moved DEF Moves, Goto, RunType, WorkerState, ListAt
<1>15. CASE ToVerified(w)
  BY <1>15, <1>a, Moved DEF Moves, Goto, RunType, WorkerState, ListAt
<1>16. CASE Promote(w)
  BY <1>16, <1>a, Moved DEF Moves, Goto, RunType, WorkerState, ListAt
<1>17. CASE Activate(w)
  BY <1>17, <1>a DEF Activate, SetStatus, Goto, At, ListAt, RunType, WorkerState
<1>18. CASE Demote(w)
  <2>1. run'[w].pc = "rebind" /\ run'[w].todo = {c \in Consumers : bound[c] = OldKey}
        /\ bound' = bound
    BY <1>18, <1>a DEF Demote, SetStatus, RunType, WorkerState
  <2>2. QED
    BY <2>1 DEF ListAt
<1>19. CASE Rebind(w)
  <2>1. ASSUME NEW c \in run[w].todo, bound' = [bound EXCEPT ![c] = run[w].key],
               run' = [run EXCEPT ![w].todo = @ \ {c}]
        PROVE  ListAt(w)'
    <3>1. /\ run[w].pc = "rebind" /\ run'[w].pc = "rebind"
          /\ run'[w].todo = run[w].todo \ {c} /\ run[w].key # OldKey
      BY <1>19, <1>a, <2>1 DEF Rebind, At, RunType, WorkerState, WorkerInv, CarriesKey
    <3>2. \A x \in Consumers : bound'[x] = OldKey => bound[x] = OldKey /\ x # c
      BY <1>a, <2>1, <3>1 DEF KeyTypes
    <3>3. QED
      BY <1>a, <3>1, <3>2 DEF ListAt
  <2>2. CASE Goto(w, "succeed")
    BY <1>a, <2>2 DEF Goto, RunType, WorkerState, ListAt
  <2>3. QED
    BY <1>19, <2>1, <2>2 DEF Rebind
<1>20. CASE ReboundAll(w)
  BY <1>20, <1>a DEF ReboundAll, Goto, At, ListAt, RunType, WorkerState
<1>21. CASE OpenSoak(w)
  BY <1>21, <1>a DEF OpenSoak, Goto, At, ListAt, RunType, WorkerState
<1>22. CASE ToSoaking(w)
  BY <1>22, <1>a, Moved DEF Moves, Goto, RunType, WorkerState, ListAt
<1>23. CASE ToRetiring(w)
  BY <1>23, <1>a, Moved DEF Moves, Goto, RunType, WorkerState, ListAt
<1>24. CASE RetireOne(w)
  <2>1. /\ run'[w].todo = run[w].todo /\ UNCHANGED <<wave, tstate>>
        /\ run[w].pc = "retire" /\ run'[w].pc = "retired"
    BY <1>24, <1>a, TurnEffect DEF RetireOne, At
  <2>2. PICK t \in run[w].todo, last \in Reached :
          LET want == assigned[t] \ {OldKey} IN
          /\ assigned' = IF last = "none" THEN assigned ELSE [assigned EXCEPT ![t] = want]
          /\ host' = IF last \in {"file", "end"}
                     THEN [host EXCEPT ![t] = Written(t, want, TRUE)] ELSE host
          /\ run' = [run EXCEPT ![w].pc = "retired", ![w].at = t, ![w].ok = last = "end"]
    BY <1>24 DEF RetireOne, MayFault, Steady
  <2>3. t \in Principals
    BY <1>a, <2>1 DEF WorkerInv, OverTargets, Principals
  <2>4. CASE last = "end"
    <3>1. run'[w].at = t /\ Gone(t)'
      BY <1>a, <2>2, <2>3, <2>4 DEF RunType, WorkerState, HostTypes, Gone, Written
    <3>2. run'[w].left = run[w].left
      BY <1>a, <2>2, <2>4 DEF RunType, WorkerState
    <3>3. QED
      BY <1>a, <2>1, <3>1, <3>2 DEF ListAt, Gone
  <2>5. CASE last # "end"
    <3>1. (last = "end") = FALSE
      BY <2>5
    <3>2. run' = [run EXCEPT ![w].pc = "retired", ![w].at = t, ![w].ok = FALSE]
      BY <2>2, <3>1
    <3>3. run'[w].ok = FALSE /\ run'[w].left = run[w].left
      BY <1>a, <3>2 DEF RunType, WorkerState
    <3>4. QED
      BY <1>a, <2>1, <3>3 DEF ListAt
  <2>6. QED
    BY <2>4, <2>5
<1>25. CASE MarkRetired(w)
  <2>1. /\ run[w].pc = "retired" /\ run'[w].pc = "retire"
        /\ run'[w].todo = run[w].todo \ {run[w].at} /\ run[w].at \in Targets
        /\ run'[w].left = (run[w].left \/ ~run[w].ok)
        /\ \A t \in Targets : tstate'[t] = IF t = run[w].at
             THEN IF run[w].ok THEN "retired" ELSE "failed" ELSE tstate[t]
    BY <1>25, <1>a DEF MarkRetired, Mark, At, RunType, WorkerState, RowTypes, WorkerInv
  <2>2. /\ run[w].todo = {t \in Targets : tstate[t] = "verified"}
        /\ run[w].left <=> \E t \in Targets : tstate[t] = "failed"
        /\ run[w].at \in run[w].todo
    BY <1>a, <2>1 DEF ListAt, WaveAt
  <2>3. run'[w].todo = {t \in Targets : tstate'[t] = "verified"}
    BY <2>1, <2>2
  <2>4. run'[w].left <=> \E t \in Targets : tstate'[t] = "failed"
    <3>1. CASE run[w].ok
      <4>1. run'[w].left = run[w].left
        BY <1>a, <2>1, <3>1 DEF RunType, WorkerState
      <4>2. \A t \in Targets : tstate'[t] = "failed" <=> tstate[t] = "failed"
        BY <2>1, <2>2, <3>1
      <4>3. QED
        BY <2>2, <4>1, <4>2
    <3>2. CASE ~run[w].ok
      BY <2>1, <3>2
    <3>3. QED
      BY <3>1, <3>2
  <2>5. QED
    BY <2>1, <2>3, <2>4 DEF ListAt
<1>26. CASE RetiringDone(w)
  BY <1>26, <1>a DEF RetiringDone, Goto, At, ListAt, RunType, WorkerState
<1>27. CASE Complete(w)
  BY <1>27, <1>a, Moved DEF Moves, Goto, RunType, WorkerState, ListAt
<1> QED
  BY <1>1, <1>2, <1>3, <1>4, <1>5, <1>6, <1>7, <1>8, <1>9, <1>10, <1>11, <1>12,
     <1>13, <1>14, <1>15, <1>16, <1>17, <1>18, <1>19, <1>20, <1>21, <1>22,
     <1>23, <1>24, <1>25, <1>26, <1>27
     DEF Act, Planned, Staging, Verifying, Promoting, Soaking, Retiring
LEMMA ActProgress ==
  ASSUME Steady, NEW w \in Workers, Ready(w), Act(w)
  PROVE  ProgressInv'
<1> USE RotationAssumption DEF rotVars, keyVars, hostVars, jobVars, history
<1>a. /\ RunType /\ RowTypes /\ HostTypes /\ KeyTypes
      /\ WorkerInv(w) /\ WaveAt(w) /\ DriverAt(w) /\ ListAt(w)
  BY DEF Ready
<1>b. /\ ProgressInv
      /\ \A v \in Workers \ {w} : run[v].pc # "nextWave" /\ run'[v].pc # "nextWave"
  BY DEF Ready, Hand, Drives
<1> DEFINE Late == {"verified", "promoting", "soaking", "retiring"}
<1>c. ASSUME UNCHANGED <<wave, tstate>>, run[w].pc # "nextWave",
             \/ rstate' = rstate
             \/ rstate' \notin Late \cup {"verifying"}
             \/ rstate' \in Late /\ rstate \in Late
      PROVE  ProgressInv'
  BY <1>b, <1>c DEF ProgressInv, Settled, WaveZero, Wave, WaveTargets
<1>1. CASE Step(w)
  BY <1>1, <1>a, <1>c, StepEffect
<1>2. CASE Generate(w)
  BY <1>2, <1>a, <1>c DEF Generate, At
<1>3. CASE RecordKey(w)
  BY <1>3, <1>a, <1>c DEF RecordKey, Goto, At
<1>4. CASE EndDryRun(w)
  BY <1>4, <1>a, <1>c DEF EndDryRun, Goto, Overwrite, At
<1>5. CASE Advance(w)
  BY <1>5, <1>a, <1>c, Moved DEF Moves
<1>6. CASE StageOne(w)
  BY <1>6, <1>a, <1>c, TurnEffect
<1>7. CASE MarkStaged(w)
  <2>1. /\ UNCHANGED <<rstate, wave>> /\ run[w].pc = "staged" /\ run'[w].pc # "nextWave"
        /\ run[w].at \in Targets /\ run[w].at \in run[w].todo
        /\ \A t \in Targets : tstate'[t] = IF t = run[w].at
             THEN IF run[w].ok THEN "staged" ELSE "failed" ELSE tstate[t]
    BY <1>7, <1>a DEF MarkStaged, Mark, At, RunType, WorkerState, RowTypes, WorkerInv, WaveAt
  <2>2. rstate = "staging" /\ Wave(run[w].at) = wave
    BY <1>a, <2>1 DEF DriverAt, ListAt, WaveTargets
  <2>3. QED
    BY <1>b, <2>1, <2>2 DEF ProgressInv, Settled, WaveZero, Wave
<1>8. CASE StagingDone(w)
  BY <1>8, <1>a, <1>c DEF StagingDone, LoopDone, Overwrite, Goto, At
<1>9. CASE ToVerifying(w)
  <2>1. run[w].pc = "toVerifying" /\ rstate' = "verifying" /\ UNCHANGED <<wave, tstate>>
    BY <1>9, <1>a, Moved DEF Moves
  <2>2. QED
    BY <1>a, <1>b, <2>1 DEF ProgressInv, ListAt, Settled, WaveZero, Wave, WaveTargets
<1>10. CASE VerifyOne(w)
  BY <1>10, <1>a, <1>c, TurnEffect
<1>11. CASE MarkVerified(w)
  <2>1. /\ UNCHANGED <<rstate, wave>> /\ run[w].pc = "verified" /\ run'[w].pc # "nextWave"
        /\ run[w].at \in Targets /\ run[w].at \in run[w].todo
        /\ \A t \in Targets : tstate'[t] = IF t = run[w].at
             THEN IF run[w].ok THEN "verified" ELSE "failed" ELSE tstate[t]
    BY <1>11, <1>a DEF MarkVerified, Mark, At, RunType, WorkerState, RowTypes, WorkerInv, WaveAt
  <2>2. rstate = "verifying"
    BY <1>a, <2>1 DEF DriverAt
  <2>3. \A t \in Targets : tstate'[t] # "pending" \/ tstate'[t] = tstate[t]
    BY <2>1
  <2>4. \A t \in Targets : Settled(t) => Settled(t)'
    BY <2>1 DEF Settled
  <2>5. QED
    BY <1>b, <2>1, <2>2, <2>3, <2>4 DEF ProgressInv, WaveZero, Wave, WaveTargets
<1>12. CASE VerifyingDone(w)
  BY <1>12, <1>a, <1>c DEF VerifyingDone, LoopDone, Overwrite, Goto, At
<1>13. CASE SetWave(w)
  <2>1. /\ run[w].pc = "setWave" /\ run'[w].pc = "nextWave" /\ UNCHANGED <<rstate, tstate>>
        /\ rstate = "verifying"
    BY <1>13, <1>a DEF SetWave, At, Goto, RunType, WorkerState, DriverAt
  <2>2. /\ wave = 0
        /\ WaveTargets(wave, "staged") = {} /\ WaveTargets(wave, "pending") = {}
    BY <1>a, <1>b, <2>1 DEF ListAt, ProgressInv, WorkerInv, DriverAt
  <2>3. \A t \in WaveZero : Settled(t)
    BY <2>2 DEF WaveTargets, Settled, WaveZero
  <2>4. QED
    BY <2>1, <2>3 DEF ProgressInv, Settled, WaveZero, Wave
<1>14. CASE NextWave(w)
  <2>1. rstate' = "staging" /\ UNCHANGED <<wave, tstate>>
    BY <1>14, <1>a, Moved DEF Moves
  <2>2. QED
    BY <1>b, <2>1 DEF ProgressInv, Settled, WaveZero, Wave
<1>15. CASE ToVerified(w)
  <2>1. /\ run[w].pc = "toVerified" /\ rstate = "verifying" /\ rstate' = "verified"
        /\ UNCHANGED <<wave, tstate>>
    BY <1>15, <1>a, Moved DEF Moves
  <2>2. /\ WaveTargets(wave, "staged") = {} /\ WaveTargets(wave, "pending") = {}
        /\ MaxWave <= wave /\ wave \in {0, 1}
    BY <1>a, <1>b, <2>1 DEF ListAt, ProgressInv, RowTypes, Waves
  <2>3. \A t \in Targets : Wave(t) = wave => Settled(t)
    BY <2>2 DEF WaveTargets, Settled
  <2>4. \A t \in Targets : Wave(t) = wave \/ (wave = 1 /\ t \in WaveZero)
    BY <2>2 DEF MaxWave, Wave, WaveZero
  <2>5. \A t \in Targets : Settled(t)
    BY <1>b, <2>3, <2>4 DEF ProgressInv
  <2>6. QED
    BY <1>b, <2>1, <2>5 DEF ProgressInv, Settled, WaveZero, Wave
<1>16. CASE Promote(w)
  BY <1>16, <1>a, <1>c, Moved DEF Moves
<1>17. CASE Activate(w)
  BY <1>17, <1>a, <1>c DEF Activate, SetStatus, Goto, At
<1>18. CASE Demote(w)
  BY <1>18, <1>a, <1>c DEF Demote, SetStatus, At
<1>19. CASE Rebind(w)
  BY <1>19, <1>a, <1>c DEF Rebind, Overwrite, Goto, At
<1>20. CASE ReboundAll(w)
  BY <1>20, <1>a, <1>c DEF ReboundAll, Goto, At
<1>21. CASE OpenSoak(w)
  BY <1>21, <1>a, <1>c DEF OpenSoak, Goto, At
<1>22. CASE ToSoaking(w)
  BY <1>22, <1>a, <1>c, Moved DEF Moves
<1>23. CASE ToRetiring(w)
  BY <1>23, <1>a, <1>c, Moved DEF Moves
<1>24. CASE RetireOne(w)
  BY <1>24, <1>a, <1>c, TurnEffect
<1>25. CASE MarkRetired(w)
  <2>1. /\ UNCHANGED <<rstate, wave>> /\ run[w].pc = "retired" /\ run'[w].pc # "nextWave"
        /\ run[w].at \in Targets /\ run[w].at \in run[w].todo
        /\ \A t \in Targets : tstate'[t] = IF t = run[w].at
             THEN IF run[w].ok THEN "retired" ELSE "failed" ELSE tstate[t]
    BY <1>25, <1>a DEF MarkRetired, Mark, At, RunType, WorkerState, RowTypes, WorkerInv, WaveAt
  <2>2. rstate = "retiring"
    BY <1>a, <2>1 DEF DriverAt
  <2>3. \A t \in Targets : Settled(t) => Settled(t)'
    BY <2>1 DEF Settled
  <2>4. QED
    BY <1>b, <2>1, <2>2, <2>3 DEF ProgressInv, WaveZero, Wave
<1>26. CASE RetiringDone(w)
  BY <1>26, <1>a, <1>c DEF RetiringDone, Goto, At
<1>27. CASE Complete(w)
  BY <1>27, <1>a, <1>c, Moved DEF Moves
<1> QED
  BY <1>1, <1>2, <1>3, <1>4, <1>5, <1>6, <1>7, <1>8, <1>9, <1>10, <1>11, <1>12,
     <1>13, <1>14, <1>15, <1>16, <1>17, <1>18, <1>19, <1>20, <1>21, <1>22,
     <1>23, <1>24, <1>25, <1>26, <1>27
     DEF Act, Planned, Staging, Verifying, Promoting, Soaking, Retiring

LEMMA ActRetired ==
  ASSUME Steady, NEW w \in Workers, Ready(w), Act(w)
  PROVE  RetiredInv'
<1> USE RotationAssumption DEF rotVars, keyVars, hostVars, jobVars, history
<1>a. /\ RunType /\ RowTypes /\ HostTypes /\ KeyTypes
      /\ WorkerInv(w) /\ WaveAt(w) /\ DriverAt(w) /\ ListAt(w)
  BY DEF Ready
<1>b. RetiredInv
  BY DEF Ready
<1>c. ASSUME UNCHANGED <<tstate, hostVars>>,
             status'[OldKey] = status[OldKey] \/ status'[OldKey] # "retired"
      PROVE  RetiredInv'
  BY <1>b, <1>c DEF RetiredInv, Gone
<1>d. OldKey \in Keys /\ Successors \subseteq Keys /\ OldKey \notin Successors
  BY DEF Keys
<1>1. CASE Step(w)
  BY <1>1, <1>a, <1>c, StepEffect
<1>2. CASE Generate(w)
  BY <1>2, <1>a, <1>c, <1>d DEF Generate, KeyTypes
<1>3. CASE RecordKey(w)
  BY <1>3, <1>a, <1>c DEF RecordKey, Goto, At
<1>4. CASE EndDryRun(w)
  BY <1>4, <1>a, <1>c DEF EndDryRun, Goto, Overwrite, At
<1>5. CASE Advance(w)
  BY <1>5, <1>a, <1>c, Moved DEF Moves
<1>6. CASE StageOne(w)
  <2>1. /\ UNCHANGED tstate /\ run[w].pc = "stage" /\ run[w].key \in Successors
        /\ status'[OldKey] = status[OldKey]
    BY <1>6, <1>a, <1>d, StageOneEffect DEF KeyTypes
  <2>2. run[w].todo = WaveTargets(wave, "pending")
    BY <1>a, <2>1 DEF ListAt
  <2>3. PICK u \in run[w].todo : StageBeside(w, u) \/ Replace(w, u)
    BY <1>6 DEF StageOne
  <2>4. u \in Targets /\ tstate[u] = "pending"
    BY <2>2, <2>3 DEF WaveTargets
  <2>5. \A p \in Principals \ {u} : assigned'[p] = assigned[p] /\ host'[p] = host[p]
    <3>1. CASE StageBeside(w, u)
      BY <1>a, <3>1 DEF StageBeside, HostTypes
    <3>2. CASE Replace(w, u)
      <4>1. PICK a, h \in SUBSET Keys : /\ assigned' = [assigned EXCEPT ![u] = a]
                                       /\ host' = [host EXCEPT ![u] = h]
        BY <1>a, <2>1, <2>4, <3>2, ReplaceEffect
      <4>2. QED
        BY <1>a, <4>1 DEF HostTypes
    <3>3. QED
      BY <2>3, <3>1, <3>2
  <2>6. \A p \in Principals \ {u} : Gone(p) => Gone(p)'
    BY <2>5 DEF Gone
  <2>7. u \notin Outsiders
    BY <2>4
  <2>8. QED
    BY <1>b, <2>1, <2>4, <2>6, <2>7 DEF RetiredInv, Principals
<1>7. CASE MarkStaged(w)
  <2>1. /\ UNCHANGED <<hostVars, status>> /\ run[w].pc = "staged"
        /\ run[w].at \in Targets /\ run[w].at \in run[w].todo
        /\ \A t \in Targets : tstate'[t] = IF t = run[w].at
             THEN IF run[w].ok THEN "staged" ELSE "failed" ELSE tstate[t]
    BY <1>7, <1>a DEF MarkStaged, Mark, At, RunType, WorkerState, RowTypes, WorkerInv, WaveAt
  <2>2. tstate[run[w].at] = "pending"
    BY <1>a, <2>1 DEF ListAt, WaveTargets
  <2>3. status[OldKey] # "retired"
    BY <1>b, <2>1, <2>2 DEF RetiredInv
  <2>4. QED
    BY <1>a, <1>b, <2>1, <2>3 DEF RetiredInv, Gone, ListAt
<1>8. CASE StagingDone(w)
  BY <1>8, <1>a, <1>c DEF StagingDone, LoopDone, Overwrite, Goto, At
<1>9. CASE ToVerifying(w)
  BY <1>9, <1>a, <1>c, Moved DEF Moves
<1>10. CASE VerifyOne(w)
  BY <1>10, <1>a, <1>c DEF VerifyOne
<1>11. CASE MarkVerified(w)
  <2>1. /\ UNCHANGED <<hostVars, status>> /\ run[w].pc = "verified"
        /\ run[w].at \in Targets /\ run[w].at \in run[w].todo
        /\ \A t \in Targets : tstate'[t] = IF t = run[w].at
             THEN IF run[w].ok THEN "verified" ELSE "failed" ELSE tstate[t]
    BY <1>11, <1>a DEF MarkVerified, Mark, At, RunType, WorkerState, RowTypes, WorkerInv, WaveAt
  <2>2. tstate[run[w].at] = "staged"
    BY <1>a, <2>1 DEF ListAt, WaveTargets
  <2>3. status[OldKey] # "retired"
    BY <1>b, <2>1, <2>2 DEF RetiredInv
  <2>4. QED
    BY <1>a, <1>b, <2>1, <2>3 DEF RetiredInv, Gone, ListAt
<1>12. CASE VerifyingDone(w)
  BY <1>12, <1>a, <1>c DEF VerifyingDone, LoopDone, Overwrite, Goto, At
<1>13. CASE SetWave(w)
  BY <1>13, <1>a, <1>c DEF SetWave, Goto, At
<1>14. CASE NextWave(w)
  BY <1>14, <1>a, <1>c, Moved DEF Moves
<1>15. CASE ToVerified(w)
  BY <1>15, <1>a, <1>c, Moved DEF Moves
<1>16. CASE Promote(w)
  BY <1>16, <1>a, <1>c, Moved DEF Moves
<1>17. CASE Activate(w)
  BY <1>17, <1>a, <1>c, <1>d DEF Activate, SetStatus, KeyTypes, WorkerInv, CarriesKey, At
<1>18. CASE Demote(w)
  BY <1>18, <1>a, <1>c, <1>d DEF Demote, SetStatus, KeyTypes
<1>19. CASE Rebind(w)
  BY <1>19, <1>a, <1>c DEF Rebind, Overwrite, Goto, At
<1>20. CASE ReboundAll(w)
  BY <1>20, <1>a, <1>c DEF ReboundAll, Goto, At
<1>21. CASE OpenSoak(w)
  BY <1>21, <1>a, <1>c DEF OpenSoak, Goto, At
<1>22. CASE ToSoaking(w)
  BY <1>22, <1>a, <1>c, Moved DEF Moves
<1>23. CASE ToRetiring(w)
  BY <1>23, <1>a, <1>c, Moved DEF Moves
<1>24. CASE RetireOne(w)
  <2>1. UNCHANGED <<tstate, status>>
    BY <1>24 DEF RetireOne
  <2>2. ASSUME NEW p \in Principals, Gone(p) PROVE Gone(p)'
    BY <1>24, <1>a, <2>2 DEF RetireOne, Gone, Written, HostTypes, MayFault, Steady
  <2>3. QED
    BY <1>b, <2>1, <2>2 DEF RetiredInv, Principals
<1>25. CASE MarkRetired(w)
  <2>1. /\ UNCHANGED <<hostVars, status>> /\ run[w].pc = "retired"
        /\ run[w].at \in Targets /\ run[w].at \in run[w].todo
        /\ \A t \in Targets : tstate'[t] = IF t = run[w].at
             THEN IF run[w].ok THEN "retired" ELSE "failed" ELSE tstate[t]
    BY <1>25, <1>a DEF MarkRetired, Mark, At, RunType, WorkerState, RowTypes, WorkerInv, WaveAt
  <2>2. tstate[run[w].at] = "verified"
    BY <1>a, <2>1 DEF ListAt, WaveTargets
  <2>3. status[OldKey] # "retired"
    BY <1>b, <2>1, <2>2 DEF RetiredInv
  <2>4. QED
    BY <1>a, <1>b, <2>1, <2>3 DEF RetiredInv, Gone, ListAt
<1>26. CASE RetiringDone(w)
  <2>1. /\ run[w].pc = "retire" /\ run[w].todo = {} /\ UNCHANGED <<tstate, hostVars, rstate>>
        /\ run[w].left \/ status'[OldKey] = "retired"
        /\ run[w].left => status' = status
    BY <1>26, <1>a, <1>d DEF RetiringDone, At, KeyTypes
  <2>2. CASE run[w].left
    BY <1>c, <2>1, <2>2
  <2>3. CASE ~run[w].left
    <3>1. \A t \in Targets : Settled(t)
      BY <1>a, <2>1 DEF Ready, ProgressInv, DriverAt
    <3>2. \A t \in Targets : tstate[t] # "verified" /\ tstate[t] # "failed"
      BY <1>a, <2>1, <2>3 DEF ListAt
    <3>3. \A t \in Targets : tstate[t] = "retired"
      BY <1>a, <3>1, <3>2 DEF Settled, RowTypes
    <3>4. QED
      BY <1>b, <2>1, <3>3 DEF RetiredInv, Gone
  <2>4. QED
    BY <2>2, <2>3
<1>27. CASE Complete(w)
  BY <1>27, <1>a, <1>c, Moved DEF Moves
<1> QED
  BY <1>1, <1>2, <1>3, <1>4, <1>5, <1>6, <1>7, <1>8, <1>9, <1>10, <1>11, <1>12,
     <1>13, <1>14, <1>15, <1>16, <1>17, <1>18, <1>19, <1>20, <1>21, <1>22,
     <1>23, <1>24, <1>25, <1>26, <1>27
     DEF Act, Planned, Staging, Verifying, Promoting, Soaking, Retiring
LEMMA ActConsumer ==
  ASSUME Steady, NEW w \in Workers, Ready(w), Act(w)
  PROVE  ConsumerInv'
<1> USE RotationAssumption DEF rotVars, keyVars, hostVars, jobVars, history
<1>a. /\ RunType /\ RowTypes /\ HostTypes /\ KeyTypes
      /\ WorkerInv(w) /\ WaveAt(w) /\ DriverAt(w) /\ ListAt(w)
  BY DEF Ready
<1>b. /\ ConsumerInv /\ HostInv /\ EarlyInv /\ OneSuccessor
      /\ \A v \in Workers \ {w} : run[v].pc \notin Inside /\ run'[v].pc \notin Inside
  BY DEF Ready, Hand, Drives, Inside
<1>c. ASSUME UNCHANGED <<newKey, bound, hostVars>>,
             \/ rstate' = rstate
             \/ rstate' \notin {"promoting", "soaking", "retiring"},
             run[w].pc \notin Inside \/ run'[w].pc \in Inside
      PROVE  ConsumerInv'
  BY <1>b, <1>c DEF ConsumerInv, Rebound
<1> USE DEF Inside
<1>1. CASE Step(w)
  BY <1>1, <1>a, <1>c, StepEffect
<1>2. CASE Generate(w)
  BY <1>2, <1>a, <1>c DEF Generate, At, RunType, WorkerState
<1>3. CASE RecordKey(w)
  <2>1. newKey = NoKey /\ UNCHANGED <<rstate, bound, hostVars>>
    BY <1>3, <1>b DEF RecordKey, At, EarlyInv
  <2>2. NoKey \notin Keys /\ \A c \in Consumers : bound[c] \in Keys
    BY <1>a DEF KeyTypes, Keys
  <2>3. \A c \in Consumers : bound[c] = OldKey
    BY <1>b, <2>1, <2>2 DEF ConsumerInv
  <2>4. rstate = "planned"
    BY <1>3, <1>a DEF RecordKey, At, DriverAt
  <2>5. Rebound => Consumers = {}
    BY <2>1, <2>2 DEF Rebound
  <2>6. QED
    BY <1>b, <2>1, <2>3, <2>4, <2>5 DEF ConsumerInv, Rebound
<1>4. CASE EndDryRun(w)
  BY <1>4, <1>a, <1>c DEF EndDryRun, Goto, Overwrite, At, RunType, WorkerState
<1>5. CASE Advance(w)
  BY <1>5, <1>a, <1>c, Moved DEF Moves
<1>6. CASE StageOne(w)
  <2>1. /\ UNCHANGED <<rstate, newKey, bound>> /\ run[w].pc = "stage"
        /\ run[w].todo \subseteq Targets /\ run[w].key \in Successors
    BY <1>6, <1>a DEF StageOne, At, WorkerInv, OverTargets, CarriesKey
  <2>2. PICK u \in run[w].todo : StageBeside(w, u) \/ Replace(w, u)
    BY <1>6 DEF StageOne
  <2>3. \A t \in Shared : OldKey \in assigned[t] \cap host[t] => OldKey \in assigned'[t] \cap host'[t]
    <3>1. CASE StageBeside(w, u)
      BY <1>a, <2>1, <3>1 DEF StageBeside, HostTypes, Written, Shared, Principals
    <3>2. CASE Replace(w, u)
      <4>1. PICK a, h \in SUBSET Keys : /\ assigned' = [assigned EXCEPT ![u] = a]
                                       /\ host' = [host EXCEPT ![u] = h]
        BY <1>a, <2>1, <3>2, ReplaceEffect
      <4>2. u \in SingleKey
        BY <3>2 DEF Replace
      <4>3. QED
        BY <1>a, <4>1, <4>2 DEF HostTypes, Shared, Principals
    <3>3. QED
      BY <2>2, <3>1, <3>2
  <2>4. QED
    BY <1>b, <2>1, <2>3 DEF ConsumerInv, Rebound
<1>7. CASE MarkStaged(w)
  BY <1>7, <1>a, <1>c DEF MarkStaged, Mark, At, RunType, WorkerState
<1>8. CASE StagingDone(w)
  BY <1>8, <1>a, <1>c DEF StagingDone, LoopDone, Overwrite, Goto, At, RunType, WorkerState
<1>9. CASE ToVerifying(w)
  BY <1>9, <1>a, <1>c, Moved DEF Moves
<1>10. CASE VerifyOne(w)
  BY <1>10, <1>a, <1>c DEF VerifyOne, At
<1>11. CASE MarkVerified(w)
  BY <1>11, <1>a, <1>c DEF MarkVerified, Mark, At, RunType, WorkerState
<1>12. CASE VerifyingDone(w)
  BY <1>12, <1>a, <1>c DEF VerifyingDone, LoopDone, Overwrite, Goto, At, RunType, WorkerState
<1>13. CASE SetWave(w)
  BY <1>13, <1>a, <1>c DEF SetWave, Goto, At, RunType, WorkerState
<1>14. CASE NextWave(w)
  <2>1. rstate' = "staging" /\ UNCHANGED <<newKey, bound, hostVars>>
    BY <1>14, <1>a, Moved DEF Moves
  <2>2. QED
    BY <1>b, <2>1 DEF ConsumerInv, Rebound
<1>15. CASE ToVerified(w)
  BY <1>15, <1>a, <1>c, Moved DEF Moves
<1>16. CASE Promote(w)
  <2>1. /\ rstate' = "promoting" /\ UNCHANGED <<newKey, bound, hostVars>>
        /\ run'[w].pc = "activate"
    BY <1>16, <1>a, Moved DEF Moves, Goto, RunType, WorkerState
  <2>2. QED
    BY <1>b, <2>1 DEF ConsumerInv, Rebound
<1>17. CASE Activate(w)
  BY <1>17, <1>a, <1>c DEF Activate, SetStatus, Goto, At, RunType, WorkerState
<1>18. CASE Demote(w)
  BY <1>18, <1>a, <1>c DEF Demote, SetStatus, At, RunType, WorkerState
<1>19. CASE Rebind(w)
  <2>1. /\ UNCHANGED <<newKey, hostVars>> /\ rstate = "promoting"
        /\ run[w].pc = "rebind" /\ run[w].key = newKey
    BY <1>19, <1>a DEF Rebind, At, DriverAt, Overwrite
  <2>2. \A c \in Consumers : bound'[c] \in {bound[c], newKey}
    BY <1>19, <1>a, <2>1 DEF Rebind, KeyTypes
  <2>3. \/ rstate' = "failed"
        \/ rstate' = rstate /\ run'[w].pc = "rebind"
    BY <1>19, <1>a, <2>1 DEF Rebind, Overwrite, RunType, WorkerState
  <2>4. QED
    BY <1>b, <2>1, <2>2, <2>3 DEF ConsumerInv, Rebound
<1>20. CASE ReboundAll(w)
  <2>1. /\ run[w].pc = "rebind" /\ run[w].todo = {}
        /\ UNCHANGED <<rstate, newKey, bound, hostVars>>
    BY <1>20 DEF ReboundAll, At
  <2>2. Rebound
    BY <1>a, <1>b, <2>1 DEF ListAt, ConsumerInv, Rebound
  <2>3. QED
    BY <1>b, <2>1, <2>2 DEF ConsumerInv, Rebound
<1>21. CASE OpenSoak(w)
  BY <1>21, <1>a, <1>c DEF OpenSoak, Goto, At, RunType, WorkerState
<1>22. CASE ToSoaking(w)
  <2>1. /\ rstate = "promoting" /\ rstate' = "soaking"
        /\ UNCHANGED <<newKey, bound, hostVars>> /\ run[w].pc = "toSoaking"
    BY <1>22, <1>a, Moved DEF Moves
  <2>2. \A v \in Workers : run[v].pc \notin Inside
    BY <1>b, <2>1
  <2>3. QED
    BY <1>b, <2>1, <2>2 DEF ConsumerInv, Rebound
<1>23. CASE ToRetiring(w)
  <2>1. rstate = "soaking" /\ UNCHANGED <<newKey, bound, hostVars>>
    BY <1>23, <1>a, Moved DEF Moves
  <2>2. QED
    BY <1>b, <2>1 DEF ConsumerInv, Rebound
<1>24. CASE RetireOne(w)
  <2>1. UNCHANGED <<rstate, newKey, bound>> /\ rstate = "retiring"
    BY <1>24, <1>a DEF RetireOne, At, DriverAt
  <2>2. QED
    BY <1>b, <2>1 DEF ConsumerInv, Rebound
<1>25. CASE MarkRetired(w)
  BY <1>25, <1>a, <1>c DEF MarkRetired, Mark, At, RunType, WorkerState
<1>26. CASE RetiringDone(w)
  BY <1>26, <1>a, <1>c DEF RetiringDone, Goto, At, RunType, WorkerState
<1>27. CASE Complete(w)
  BY <1>27, <1>a, <1>c, Moved DEF Moves
<1> QED
  BY <1>1, <1>2, <1>3, <1>4, <1>5, <1>6, <1>7, <1>8, <1>9, <1>10, <1>11, <1>12,
     <1>13, <1>14, <1>15, <1>16, <1>17, <1>18, <1>19, <1>20, <1>21, <1>22,
     <1>23, <1>24, <1>25, <1>26, <1>27
     DEF Act, Planned, Staging, Verifying, Promoting, Soaking, Retiring

LEMMA SteadyStep == Steady /\ IInv /\ GateInv /\ SteadyInv /\ [Next]_vars => SteadyInv'
<1> SUFFICES ASSUME Steady, IInv, GateInv, SteadyInv, [Next]_vars PROVE SteadyInv'
  OBVIOUS
<1>a. RunType /\ HostTypes /\ \A w \in Workers : WorkerInv(w) /\ ListAt(w)
  BY DEF IInv, TypeOK, RunType, HostTypes, SteadyInv
<1>1. OneDriver'
  BY DriverStep DEF SteadyInv
<1>2. CASE Quiet
  BY <1>a, <1>1, <1>2, QuietSteady DEF SteadyInv
<1>3. ASSUME NEW w \in Workers, Act(w) PROVE SteadyInv'
  <2>1. Ready(w)
    BY <1>3, ActReady
  <2>2. ListAt(w)' /\ ProgressInv' /\ RetiredInv' /\ ConsumerInv'
    BY <1>3, <2>1, ActList, ActProgress, ActRetired, ActConsumer
  <2>3. ASSUME NEW v \in Workers, v # w PROVE ListAt(v)'
    <3>1. ~Drives(v) /\ run'[v] = run[v]
      BY <2>1, <2>3 DEF Ready, Hand
    <3>2. QED
      BY <3>1 DEF ListAt, Drives
  <2>4. QED
    BY <1>1, <2>2, <2>3 DEF SteadyInv
<1> QED
  BY <1>a, <1>2, <1>3, QuietStep

LEMMA SteadyInit == Init => SteadyInv
<1> SUFFICES ASSUME Init PROVE SteadyInv
  OBVIOUS
<1> USE RotationAssumption DEF Init
<1>1. OneDriver
  BY DEF OneDriver, TokenInv, DriverAt, Drives, Holds, Waiting, Idle, Inside
<1>2. ProgressInv /\ \A w \in Workers : ListAt(w)
  BY DEF ProgressInv, ListAt, Idle
<1>3. RetiredInv
  BY DEF RetiredInv, Gone, Principals, Keys
<1>4. ConsumerInv
  BY DEF ConsumerInv, Shared, Principals
<1> QED
  BY <1>1, <1>2, <1>3, <1>4 DEF SteadyInv

-----------------------------------------------------------------------------
(* The theorems.                                                           *)

LEMMA SteadyInvariant ==
  ASSUME Steady
  PROVE  Spec => [](IInv /\ GateInv /\ SteadyInv)
<1>1. Init => IInv /\ GateInv /\ SteadyInv
  BY RotationInit, GateInit, SteadyInit
<1>2. (IInv /\ GateInv /\ SteadyInv) /\ [Next]_vars => (IInv /\ GateInv /\ SteadyInv)'
  BY RotationStep, GateStep, SteadyStep
<1> QED
  BY <1>1, <1>2, PTL DEF Spec

\* The old key is marked retired only when no principal's file holds it: the
\* worker that retires it has itself taken it off every target, none failed,
\* and a target that was left out could not have been staged again.
THEOREM RotationRetiredMeansGone ==
  ASSUME Steady
  PROVE  Spec => []RetiredMeansGone
<1>1. SteadyInv => RetiredMeansGone
  BY DEF SteadyInv, RetiredInv, Gone, RetiredMeansGone, Principals
<1> QED
  BY <1>1, SteadyInvariant, PTL

\* Every consumer's key opens every principal where the successor was proved:
\* the last consumer has moved before the first file loses the old key.
THEOREM RotationConsumersKeepAccess ==
  ASSUME Steady
  PROVE  Spec => []ConsumersKeepAccess
<1>1. IInv /\ GateInv /\ SteadyInv => ConsumersKeepAccess
  <2> SUFFICES ASSUME IInv, GateInv, SteadyInv,
                      NEW c \in Consumers, NEW t \in proved \cap Shared
               PROVE  bound[c] \in host[t]
    BY DEF ConsumersKeepAccess
  <2>1. newKey \in host[t]
    BY RotationAssumption DEF IInv, HostInv, GateInv, OneSuccessor, Shared
  <2>2. bound[c] = newKey \/ (bound[c] = OldKey /\ (OldKey \in host[t] \/ Rebound))
    BY DEF SteadyInv, ConsumerInv
  <2>3. QED
    BY <2>1, <2>2 DEF Rebound
<1> QED
  BY <1>1, SteadyInvariant, PTL

\* A rotation that has finished stays as it finished: whoever could still write
\* its state is its driver, and a finished rotation has none.
THEOREM RotationFinishedIsFinal ==
  ASSUME Steady
  PROVE  Spec => FinishedIsFinal
<1>1. IInv /\ GateInv /\ SteadyInv /\ [Next]_vars
        => [(rstate \in Finished) => rstate' = rstate]_vars
  <2> SUFFICES ASSUME IInv, GateInv, SteadyInv, [Next]_vars, rstate \in Finished
               PROVE  rstate' = rstate
    OBVIOUS
  <2>1. /\ RunType /\ HostTypes /\ JobTypes /\ LeaseInv /\ OneDriver
        /\ \A w \in Workers : Drives(w) => run[w].job \in JobKeys
    BY DEF IInv, TypeOK, RunType, HostTypes, JobTypes, GateInv, SteadyInv, WorkerInv, Drives
  <2>2. \A w \in Workers : ~Drives(w)
    BY <2>1, Alone DEF Active, Finished
  <2>3. \A w \in Workers : ~Act(w)
    BY <2>2, ActReady DEF Ready, Hand
  <2>4. QED
    BY <2>1, <2>2, <2>3, QuietStep DEF Quiet, Finished
<1> QED
  BY <1>1, SteadyInvariant, PTL DEF Spec, FinishedIsFinal

\* No target goes back: a row is marked staged, verified or retired by the one
\* driver, whose list holds the rows one state before.
THEOREM RotationTargetsOnlyAdvance ==
  ASSUME Steady
  PROVE  Spec => TargetsOnlyAdvance
<1> DEFINE Forward == \A t \in Targets :
             /\ tstate[t] = "verified" => tstate'[t] \in {"verified", "retired", "failed"}
             /\ tstate[t] \in {"retired", "failed"} => tstate'[t] = tstate[t]
<1>1. IInv /\ GateInv /\ SteadyInv /\ [Next]_vars => Forward
  <2> SUFFICES ASSUME IInv, GateInv, SteadyInv, [Next]_vars PROVE Forward
    OBVIOUS
  <2>1. RunType /\ HostTypes
    BY DEF IInv, TypeOK, RunType, HostTypes
  <2>2. CASE tstate' = tstate
    BY <2>2
  <2>3. ASSUME NEW w \in Workers, MarkStaged(w) \/ MarkVerified(w) \/ MarkRetired(w)
        PROVE  Forward
    <3>1. Ready(w)
      BY <2>3, ActReady DEF Act, Staging, Verifying, Retiring
    <3>2. RowTypes /\ ListAt(w) /\ WaveAt(w) /\ WorkerInv(w)
      BY <3>1 DEF Ready
    <3>3. PICK good \in {"staged", "verified", "retired"} :
            /\ run[w].pc = good
            /\ tstate' = [tstate EXCEPT ![run[w].at] = IF run[w].ok THEN good ELSE "failed"]
      BY <2>3 DEF MarkStaged, MarkVerified, MarkRetired, Mark, At
    <3>4. /\ good = "staged" => tstate[run[w].at] = "pending"
          /\ good = "verified" => tstate[run[w].at] = "staged"
          /\ good = "retired" => tstate[run[w].at] = "verified"
      BY <3>2, <3>3 DEF ListAt, WaveAt, WaveTargets
    <3>5. QED
      BY <3>2, <3>3, <3>4 DEF RowTypes
  <2>4. tstate' = tstate \/ \E w \in Workers : MarkStaged(w) \/ MarkVerified(w) \/ MarkRetired(w)
    BY <2>1, RowsMarked
  <2>5. QED
    BY <2>2, <2>3, <2>4
<1> QED
  BY <1>1, SteadyInvariant, PTL DEF Spec, TargetsOnlyAdvance

=============================================================================
