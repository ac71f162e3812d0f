--------------------------- MODULE RotationProofs ---------------------------
(***************************************************************************)
(* Theorems about the rotation engine, for any number of principals,       *)
(* workers, consumers, faults and duplicate drivers.                       *)
(***************************************************************************)
EXTENDS Rotation, TLAPS

\* What a worker carries from one write to the next. The gates of a rotation
\* are passed by what is in here as much as by what is in the rows: a target
\* in the hands of a retiring worker was proved, because the worker took it
\* from rows marked verified, and is still proved however late it acts.
CarriesKey == {"record", "stage", "staged", "verify", "verified",
               "promote", "activate", "demote", "rebind"}
OverTargets == {"stage", "staged", "verify", "verified", "retire", "retired"}

WorkerInv(w) ==
  /\ run[w].pc # "idle" => run[w].job \in JobKeys
  /\ run[w].pc \in OverTargets => run[w].todo \subseteq Targets
  /\ run[w].pc \in {"staged", "verified", "retired"} => run[w].at \in Targets
  /\ run[w].pc \in CarriesKey => run[w].key \in Successors
  /\ run[w].pc = "advance" => newKey # NoKey
  /\ run[w].pc = "setWave" => run[w].wave = 0
  /\ run[w].pc = "verified" /\ run[w].ok => run[w].at \in proved
  /\ run[w].pc \in {"retire", "retired"} => run[w].todo \subseteq proved
  /\ run[w].pc \in {"retire", "retired", "toRetiring"} => soaked
  /\ run[w].pc = "toSoaking" => soak # "none"

RowInv ==
  /\ rstate \in Active \ {"planned"} => newKey # NoKey
  /\ \A t \in Targets : tstate[t] = "verified" => t \in proved
  /\ soak = "over" => soaked
  /\ rstate = "soaking" => soak # "none"
  /\ rstate = "retiring" => soaked

\* A queued job has attempts left.
JobInv == \A k \in JobKeys : q[k] # "running" => tries[k] < MaxAttempts

\* The assignments lead the files, because a reconcile writes what is assigned:
\* the old key leaves them first and the successor enters them first.
HostInv ==
  \A t \in Shared :
    /\ OldKey \notin host[t] \/ OldKey \notin assigned[t] => t \in proved /\ soaked
    /\ OldKey \in assigned[t] => OldKey \in host[t]
    /\ host[t] \ {OldKey} \subseteq assigned[t]
    /\ host[t] # {}
    /\ t \in proved => host[t] \cap Successors # {}

IInv == TypeOK /\ JobInv /\ RowInv /\ HostInv /\ \A w \in Workers : WorkerInv(w)
-----------------------------------------------------------------------------
(* Helpers: each way a step changes a worker keeps it well-typed.          *)

RunType == run \in [Workers -> WorkerState]

LEMMA IdleState == Idle \in WorkerState
  BY DEF Idle, WorkerState, Labels, Waves

\* Replacing one worker's record by a well-typed one.
LEMMA RunReplace ==
  ASSUME RunType, NEW w \in Workers, NEW r \in WorkerState,
         run' = [run EXCEPT ![w] = r]
  PROVE  RunType'
  BY DEF RunType

LEMMA RunGoto ==
  ASSUME RunType, NEW w \in Workers, NEW label \in Labels, Goto(w, label)
  PROVE  RunType'
<1>1. [run[w] EXCEPT !.pc = label] \in WorkerState
  BY DEF RunType, WorkerState
<1>2. run' = [run EXCEPT ![w] = [run[w] EXCEPT !.pc = label]]
  BY DEF Goto
<1> QED
  BY <1>1, <1>2, RunReplace

LEMMA RunStop ==
  ASSUME RunType, NEW w \in Workers, Stop(w)
  PROVE  RunType'
  BY IdleState, RunReplace DEF Stop

\* Taking a target in hand with an outcome.
LEMMA RunHold ==
  ASSUME RunType, NEW w \in Workers, NEW label \in Labels, NEW t \in Targets,
         NEW ok \in BOOLEAN,
         run' = [run EXCEPT ![w].pc = label, ![w].at = t, ![w].ok = ok]
  PROVE  RunType'
<1>1. [run[w] EXCEPT !.pc = label, !.at = t, !.ok = ok] \in WorkerState
  BY DEF RunType, WorkerState
<1>2. run' = [run EXCEPT ![w] = [run[w] EXCEPT !.pc = label, !.at = t, !.ok = ok]]
  OBVIOUS
<1> QED
  BY <1>1, <1>2, RunReplace

LEMMA RunDispatch ==
  ASSUME RunType, NEW w \in Workers, NEW label \in Labels, NEW todo \in SUBSET Targets,
         newKey \in Successors \cup {NoKey}, wave \in Waves, Dispatch(w, label, todo)
  PROVE  RunType'
<1> DEFINE r == [run[w] EXCEPT !.pc = label, !.todo = todo, !.key = newKey, !.wave = wave]
<1>1. r \in WorkerState
  BY DEF RunType, WorkerState
<1>2. run' = [run EXCEPT ![w] = r]
  BY DEF Dispatch
<1> QED
  BY <1>1, <1>2, RunReplace

\* Dispatching to a loop: what is found to do, and whether something failed.
LEMMA RunRetire ==
  ASSUME RunType, NEW w \in Workers, NEW todo \in SUBSET Targets, NEW left \in BOOLEAN,
         newKey \in Successors \cup {NoKey}, wave \in Waves,
         run' = [run EXCEPT ![w].pc = "retire", ![w].todo = todo, ![w].left = left,
                            ![w].key = newKey, ![w].wave = wave]
  PROVE  RunType'
<1> DEFINE r == [run[w] EXCEPT !.pc = "retire", !.todo = todo, !.left = left,
                               !.key = newKey, !.wave = wave]
<1>a. "retire" \in Labels
  BY DEF Labels
<1>1. r \in WorkerState
  BY <1>a DEF RunType, WorkerState
<1>2. run' = [run EXCEPT ![w] = r]
  OBVIOUS
<1> QED
  BY <1>1, <1>2, RunReplace

LEMMA RunTodo ==
  ASSUME RunType, NEW w \in Workers, NEW label \in Labels,
         NEW todo \in SUBSET (Targets \cup Consumers),
         run' = [run EXCEPT ![w].pc = label, ![w].todo = todo]
  PROVE  RunType'
<1>1. [run[w] EXCEPT !.pc = label, !.todo = todo] \in WorkerState
  BY DEF RunType, WorkerState
<1>2. run' = [run EXCEPT ![w] = [run[w] EXCEPT !.pc = label, !.todo = todo]]
  OBVIOUS
<1> QED
  BY <1>1, <1>2, RunReplace

LEMMA RunTransition ==
  ASSUME RunType, NEW w \in Workers, NEW label, NEW from, NEW to, NEW next \in Labels,
         Transition(w, label, from, to, next)
  PROVE  RunType'
  BY RunGoto, RunStop DEF Transition, JobFails

LEMMA RunLoopDone ==
  ASSUME RunType, NEW w \in Workers, NEW label, NEW next \in Labels,
         LoopDone(w, label, next)
  PROVE  RunType'
  BY RunGoto DEF LoopDone, Labels

LEMMA RunMark ==
  ASSUME RunType, NEW w \in Workers, NEW label, NEW good, NEW loop \in Labels,
         Mark(w, label, good, loop)
  PROVE  RunType'
<1> DEFINE r == [run[w] EXCEPT !.pc = loop, !.todo = @ \ {run[w].at},
                               !.at = NoTarget, !.ok = FALSE,
                               !.left = @ \/ (good = "retired" /\ ~run[w].ok)]
<1>a. run[w] \in WorkerState
  BY DEF RunType
<1>b. /\ run[w].todo \ {run[w].at} \in SUBSET (Targets \cup Consumers)
      /\ (run[w].left \/ (good = "retired" /\ ~run[w].ok)) \in BOOLEAN
  BY <1>a DEF WorkerState
<1>1. r \in WorkerState
  BY <1>a, <1>b DEF WorkerState
<1>2. run' = [run EXCEPT ![w] = r]
  BY DEF Mark
<1> QED
  BY <1>1, <1>2, RunReplace

\* Every step keeps the workers well-typed.
LEMMA RunTypeStep == IInv /\ [Next]_vars => RunType'
<1> SUFFICES ASSUME IInv, [Next]_vars PROVE RunType'
  OBVIOUS
<1> USE DEF rotVars, keyVars, hostVars, jobVars, history
<1>a. \A w \in Workers : WorkerInv(w)
  BY DEF IInv
<1>b. RunType /\ newKey \in Successors \cup {NoKey} /\ wave \in Waves
  BY DEF IInv, TypeOK, RunType
<1>1. ASSUME NEW w \in Workers, Step(w) PROVE RunType'
  <2>1. CASE rstate \in Finished \cup {"awaiting_approval"} /\ Goto(w, "succeed")
    BY <1>b, <2>1, RunGoto DEF Labels
  <2>2. CASE \E label \in Labels, todo \in SUBSET Targets : Dispatch(w, label, todo)
    BY <1>b, <2>2, RunDispatch
  <2>3. CASE run' = [run EXCEPT
                       ![w].pc   = "retire",
                       ![w].todo = {t \in Targets : tstate[t] = "verified"},
                       ![w].left = \E t \in Targets : tstate[t] = "failed",
                       ![w].key  = newKey, ![w].wave = wave]
    <3> DEFINE todo == {t \in Targets : tstate[t] = "verified"}
               left == \E t \in Targets : tstate[t] = "failed"
    <3>1. todo \in SUBSET Targets
      OBVIOUS
    <3>2. left \in BOOLEAN
      OBVIOUS
    <3>3. run' = [run EXCEPT ![w].pc = "retire", ![w].todo = todo, ![w].left = left,
                             ![w].key = newKey, ![w].wave = wave]
      BY <2>3
    <3> HIDE DEF todo, left
    <3>4. QED
      BY <1>b, <3>1, <3>2, <3>3, RunRetire
  <2>4. \A s : WaveTargets(wave, s) \in SUBSET Targets
    BY DEF WaveTargets
  <2>5. /\ {} \in SUBSET Targets
        /\ {"generate", "advance", "stage", "verify", "promote", "openSoak",
            "nextDelayed", "toRetiring"} \subseteq Labels
    BY DEF Labels
  <2>6. QED
    BY <1>1, <2>1, <2>2, <2>3, <2>4, <2>5 DEF Step
<1>2. ASSUME NEW w \in Workers, Generate(w) PROVE RunType'
  <2>1. PICK k \in Successors :
               run' = [run EXCEPT ![w].pc = "record", ![w].key = k]
    BY <1>2 DEF Generate
  <2> DEFINE r == [run[w] EXCEPT !.pc = "record", !.key = k]
  <2>2. run[w] \in WorkerState /\ "record" \in Labels
    BY <1>b DEF RunType, Labels
  <2>3. r \in WorkerState
    BY <2>2 DEF WorkerState
  <2>4. run' = [run EXCEPT ![w] = r]
    BY <2>1
  <2>5. QED
    BY <1>b, <2>3, <2>4, RunReplace
<1>3. ASSUME NEW w \in Workers, RecordKey(w) PROVE RunType'
  BY <1>3, <1>b, RunGoto, RunStop DEF RecordKey, Labels
<1>4. ASSUME NEW w \in Workers, EndDryRun(w) PROVE RunType'
  BY <1>4, <1>b, RunGoto, RunStop DEF EndDryRun, Labels
<1>5. ASSUME NEW w \in Workers, Advance(w) PROVE RunType'
  BY <1>5, <1>b, RunTransition DEF Advance, Labels
<1>6. ASSUME NEW w \in Workers, StageOne(w) PROVE RunType'
  <2>1. run[w].todo \subseteq Targets
    BY <1>6, <1>a DEF StageOne, At, WorkerInv, OverTargets
  <2>2. PICK t \in Targets, ok \in BOOLEAN :
               run' = [run EXCEPT ![w].pc = "staged", ![w].at = t, ![w].ok = ok]
    BY <1>6, <2>1 DEF StageOne, StageBeside, Replace
  <2>3. "staged" \in Labels
    BY DEF Labels
  <2>4. QED
    BY <1>b, <2>2, <2>3, RunHold
<1>7. ASSUME NEW w \in Workers, MarkStaged(w) PROVE RunType'
  BY <1>7, <1>b, RunMark DEF MarkStaged, Labels
<1>8. ASSUME NEW w \in Workers, StagingDone(w) PROVE RunType'
  BY <1>8, <1>b, RunLoopDone DEF StagingDone, Labels
<1>9. ASSUME NEW w \in Workers, ToVerifying(w) PROVE RunType'
  BY <1>9, <1>b, RunTransition DEF ToVerifying, Labels
<1>10. ASSUME NEW w \in Workers, VerifyOne(w) PROVE RunType'
  <2>1. run[w].todo \subseteq Targets
    BY <1>10, <1>a DEF VerifyOne, At, WorkerInv, OverTargets
  <2>2. PICK t \in Targets, ok \in BOOLEAN :
               run' = [run EXCEPT ![w].pc = "verified", ![w].at = t, ![w].ok = ok]
    BY <1>10, <2>1 DEF VerifyOne
  <2>3. "verified" \in Labels
    BY DEF Labels
  <2>4. QED
    BY <1>b, <2>2, <2>3, RunHold
<1>11. ASSUME NEW w \in Workers, MarkVerified(w) PROVE RunType'
  BY <1>11, <1>b, RunMark DEF MarkVerified, Labels
<1>12. ASSUME NEW w \in Workers, VerifyingDone(w) PROVE RunType'
  BY <1>12, <1>b, RunLoopDone DEF VerifyingDone, Labels
<1>13. ASSUME NEW w \in Workers, SetWave(w) PROVE RunType'
  BY <1>13, <1>b, RunGoto, RunStop DEF SetWave, Labels
<1>14. ASSUME NEW w \in Workers, NextWave(w) PROVE RunType'
  BY <1>14, <1>b, RunTransition DEF NextWave, Labels
<1>15. ASSUME NEW w \in Workers, ToVerified(w) PROVE RunType'
  BY <1>15, <1>b, RunTransition DEF ToVerified, Labels
<1>16. ASSUME NEW w \in Workers, Promote(w) PROVE RunType'
  BY <1>16, <1>b, RunTransition DEF Promote, Labels
<1>17. ASSUME NEW w \in Workers, Activate(w) PROVE RunType'
  BY <1>17, <1>b, RunGoto, RunStop DEF Activate, SetStatus, Labels
<1>18. ASSUME NEW w \in Workers, Demote(w) PROVE RunType'
  <2> DEFINE todo == {c \in Consumers : bound[c] = OldKey}
  <2>1. todo \in SUBSET (Targets \cup Consumers)
    OBVIOUS
  <2>2. run' = [run EXCEPT ![w].pc = "rebind", ![w].todo = todo]
    BY <1>18 DEF Demote
  <2>3. "rebind" \in Labels
    BY DEF Labels
  <2> HIDE DEF todo
  <2>4. QED
    BY <1>b, <2>1, <2>2, <2>3, RunTodo
<1>19. ASSUME NEW w \in Workers, Rebind(w) PROVE RunType'
  <2>1. ASSUME NEW c, run' = [run EXCEPT ![w].todo = @ \ {c}]
        PROVE  RunType'
    <3> DEFINE r == [run[w] EXCEPT !.todo = @ \ {c}]
    <3>1. r \in WorkerState
      BY <1>b DEF RunType, WorkerState
    <3>2. run' = [run EXCEPT ![w] = r]
      BY <2>1
    <3>3. QED
      BY <1>b, <3>1, <3>2, RunReplace
  <2>2. QED
    BY <1>19, <1>b, <2>1, RunGoto DEF Rebind, Labels
<1>20. ASSUME NEW w \in Workers, ReboundAll(w) PROVE RunType'
  BY <1>20, <1>b, RunGoto, RunStop DEF ReboundAll, Labels
<1>21. ASSUME NEW w \in Workers, OpenSoak(w) PROVE RunType'
  BY <1>21, <1>b, RunGoto, RunStop DEF OpenSoak, Labels
<1>22. ASSUME NEW w \in Workers, ToSoaking(w) PROVE RunType'
  BY <1>22, <1>b, RunTransition DEF ToSoaking, Labels
<1>23. ASSUME NEW w \in Workers, ToRetiring(w) PROVE RunType'
  BY <1>23, <1>b, RunTransition DEF ToRetiring, Labels
<1>24. ASSUME NEW w \in Workers, RetireOne(w) PROVE RunType'
  <2>1. run[w].todo \subseteq Targets
    BY <1>24, <1>a DEF RetireOne, At, WorkerInv, OverTargets
  <2>2. PICK t \in Targets, ok \in BOOLEAN :
               run' = [run EXCEPT ![w].pc = "retired", ![w].at = t, ![w].ok = ok]
    BY <1>24, <2>1 DEF RetireOne
  <2>3. "retired" \in Labels
    BY DEF Labels
  <2>4. QED
    BY <1>b, <2>2, <2>3, RunHold
<1>25. ASSUME NEW w \in Workers, MarkRetired(w) PROVE RunType'
  BY <1>25, <1>b, RunMark DEF MarkRetired, Labels
<1>26. ASSUME NEW w \in Workers, RetiringDone(w) PROVE RunType'
  BY <1>26, <1>b, RunGoto, RunStop DEF RetiringDone, Labels
<1>27. ASSUME NEW w \in Workers, Complete(w) PROVE RunType'
  BY <1>27, <1>b, RunTransition DEF Complete, Labels
<1>28. ASSUME NEW w \in Workers, EnqueueNext(w, "next", "queued") PROVE RunType'
  BY <1>28, <1>b, RunGoto, RunStop DEF EnqueueNext, Labels
<1>29. ASSUME NEW w \in Workers, EnqueueNext(w, "nextDelayed", "delayed") PROVE RunType'
  BY <1>29, <1>b, RunGoto, RunStop DEF EnqueueNext, Labels
<1>30. ASSUME NEW w \in Workers, Succeed(w) PROVE RunType'
  BY <1>30, <1>b, RunGoto, RunStop DEF Succeed, JobEnds, Labels
<1>31. ASSUME NEW w \in Workers, Error(w) PROVE RunType'
  BY <1>31, <1>b, RunGoto, RunStop DEF Error, JobFails, Labels
<1>32. ASSUME NEW w \in Workers, Crash(w) PROVE RunType'
  BY <1>32, <1>b, RunGoto, RunStop DEF Crash, Labels
<1>33. ASSUME NEW w \in Workers, Denied(w) PROVE RunType'
  BY <1>33, <1>b, RunGoto, RunStop DEF Denied, JobEnds, Labels
<1>34. ASSUME NEW w \in Workers, NEW k \in JobKeys, Dequeue(w, k) PROVE RunType'
  <2> DEFINE r == [Idle EXCEPT !.pc = "step", !.job = k]
  <2>1. r \in WorkerState
    BY IdleState DEF WorkerState, Labels
  <2>2. run' = [run EXCEPT ![w] = r]
    BY <1>34 DEF Dequeue
  <2>3. QED
    BY <1>b, <2>1, <2>2, RunReplace
<1>35. ASSUME NEW k \in JobKeys, JobDue(k) PROVE RunType'
  BY <1>35, <1>b DEF JobDue, RunType
<1>36. ASSUME NEW k \in JobKeys, Reap(k) PROVE RunType'
  BY <1>36, <1>b DEF Reap, Requeue, Finish, RunType
<1>37. ASSUME SoakCloses PROVE RunType'
  BY <1>37, <1>b DEF SoakCloses, RunType
<1>38. ASSUME TickSoak PROVE RunType'
  BY <1>38, <1>b DEF TickSoak, EnqueueStep, RunType
<1>39. ASSUME Start PROVE RunType'
  BY <1>39, <1>b DEF Start, EnqueueStep, RunType
<1>40. ASSUME Approve PROVE RunType'
  BY <1>40, <1>b DEF Approve, EnqueueStep, Overwrite, MayFault, Fault, RunType
<1>41. ASSUME Abort PROVE RunType'
  BY <1>41, <1>b DEF Abort, Overwrite, MayFault, Fault, RunType
<1>42. ASSUME StaleEnqueue PROVE RunType'
  BY <1>42, <1>b DEF StaleEnqueue, EnqueueStep, MayFault, Fault, RunType
<1>43. ASSUME NEW t \in Targets, Converge(t) PROVE RunType'
  BY <1>43, <1>b DEF Converge, RunType
<1>44. ASSUME NEW p \in Outsiders, AssignOld(p) PROVE RunType'
  BY <1>44, <1>b DEF AssignOld, RunType
<1>45. CASE UNCHANGED vars
  BY <1>45, <1>b DEF vars, RunType
<1> QED
  BY <1>1, <1>2, <1>3, <1>4, <1>5, <1>6, <1>7, <1>8, <1>9, <1>10, <1>11, <1>12,
     <1>13, <1>14, <1>15, <1>16, <1>17, <1>18, <1>19, <1>20, <1>21, <1>22, <1>23,
     <1>24, <1>25, <1>26, <1>27, <1>28, <1>29, <1>30, <1>31, <1>32, <1>33, <1>34,
     <1>35, <1>36, <1>37, <1>38, <1>39, <1>40, <1>41, <1>42, <1>43, <1>44, <1>45
     DEF Next, Work, Planned, Staging, Verifying, Promoting, Soaking, Retiring, Ending

-----------------------------------------------------------------------------
(* Frames: which actions can change what.                                  *)

\* The rotation, its targets and the history.
LEMMA RowFrame ==
  [Next]_vars =>
    \/ UNCHANGED <<rotVars, tstate, faults, history>>
    \/ \E w \in Workers : RecordKey(w) \/ EndDryRun(w) \/ Advance(w) \/
                          StageOne(w) \/ MarkStaged(w) \/ StagingDone(w) \/
                          ToVerifying(w) \/ VerifyOne(w) \/ MarkVerified(w) \/
                          VerifyingDone(w) \/ SetWave(w) \/ NextWave(w) \/
                          ToVerified(w) \/ Promote(w) \/ Rebind(w) \/ OpenSoak(w) \/
                          ToSoaking(w) \/ ToRetiring(w) \/ RetireOne(w) \/
                          MarkRetired(w) \/ Complete(w) \/ Error(w) \/ Crash(w) \/
                          Denied(w)
    \/ SoakCloses \/ Approve \/ Abort \/ StaleEnqueue
<1> USE DEF rotVars, keyVars, hostVars, jobVars, history
<1>1. ASSUME NEW w \in Workers, Generate(w)
      PROVE  UNCHANGED <<rotVars, tstate, faults, history>>
  BY <1>1 DEF Generate
<1>2. ASSUME NEW w \in Workers, Activate(w) \/ Demote(w) \/ ReboundAll(w)
      PROVE  UNCHANGED <<rotVars, tstate, faults, history>>
  BY <1>2 DEF Activate, SetStatus, Goto, Demote, ReboundAll
<1>3. ASSUME NEW w \in Workers, RetiringDone(w)
      PROVE  UNCHANGED <<rotVars, tstate, faults, history>>
  BY <1>3 DEF RetiringDone, Goto
<1>4. ASSUME NEW w \in Workers, Step(w) \/
             EnqueueNext(w, "next", "queued") \/ EnqueueNext(w, "nextDelayed", "delayed") \/
             Succeed(w)
      PROVE  UNCHANGED <<rotVars, tstate, faults, history>>
  BY <1>4 DEF Step, Dispatch, Goto, EnqueueNext, EnqueueStep, Succeed, JobEnds
<1>5. ASSUME NEW w \in Workers, NEW k \in JobKeys, Dequeue(w, k)
      PROVE  UNCHANGED <<rotVars, tstate, faults, history>>
  BY <1>5 DEF Dequeue
<1>6. ASSUME NEW k \in JobKeys, JobDue(k) \/ Reap(k)
      PROVE  UNCHANGED <<rotVars, tstate, faults, history>>
  BY <1>6 DEF JobDue, Reap, Requeue
<1>7. ASSUME TickSoak \/ Start
      PROVE  UNCHANGED <<rotVars, tstate, faults, history>>
  BY <1>7 DEF TickSoak, EnqueueStep, Start
<1>8. ASSUME NEW t \in Targets, Converge(t)
      PROVE  UNCHANGED <<rotVars, tstate, faults, history>>
  BY <1>8 DEF Converge
<1>9. ASSUME NEW p \in Outsiders, AssignOld(p)
      PROVE  UNCHANGED <<rotVars, tstate, faults, history>>
  BY <1>9 DEF AssignOld
<1>10. CASE UNCHANGED vars
  BY <1>10 DEF vars
<1> QED
  BY <1>1, <1>2, <1>3, <1>4, <1>5, <1>6, <1>7, <1>8, <1>9, <1>10
     DEF Next, Work, Planned, Staging, Verifying, Promoting, Soaking, Retiring, Ending

\* Assignments, files and the proofs.
LEMMA HostFrame ==
  [Next]_vars =>
    \/ UNCHANGED <<hostVars, proved, soaked>>
    \/ \E w \in Workers : StageOne(w) \/ VerifyOne(w) \/ RetireOne(w)
    \/ SoakCloses
    \/ \E t \in Targets : Converge(t)
    \/ \E p \in Outsiders : AssignOld(p)
<1> USE DEF rotVars, keyVars, hostVars, jobVars, history
<1>1. ASSUME NEW w \in Workers, Generate(w) \/ RecordKey(w) \/ EndDryRun(w) \/ Advance(w)
      PROVE  UNCHANGED <<hostVars, proved, soaked>>
  BY <1>1 DEF Generate, RecordKey, Goto, EndDryRun, Overwrite, Advance, Transition,
              JobFails, Requeue
<1>2. ASSUME NEW w \in Workers, MarkStaged(w) \/ StagingDone(w) \/ ToVerifying(w)
      PROVE  UNCHANGED <<hostVars, proved, soaked>>
  BY <1>2 DEF MarkStaged, Mark, StagingDone, LoopDone, Overwrite, Goto, ToVerifying,
              Transition, JobFails, Requeue
<1>3. ASSUME NEW w \in Workers, MarkVerified(w) \/ VerifyingDone(w) \/ SetWave(w) \/ NextWave(w) \/
             ToVerified(w)
      PROVE  UNCHANGED <<hostVars, proved, soaked>>
  BY <1>3 DEF MarkVerified, Mark, VerifyingDone, LoopDone, Overwrite, Goto, SetWave,
              NextWave, Transition, JobFails, Requeue, ToVerified
<1>4. ASSUME NEW w \in Workers, Promote(w) \/ Activate(w) \/ Demote(w) \/ Rebind(w) \/ ReboundAll(w)
      PROVE  UNCHANGED <<hostVars, proved, soaked>>
  BY <1>4 DEF Promote, Transition, Goto, JobFails, Requeue, Activate, SetStatus,
              Demote, Rebind, Overwrite, ReboundAll
<1>5. ASSUME NEW w \in Workers, OpenSoak(w) \/ ToSoaking(w) \/ ToRetiring(w)
      PROVE  UNCHANGED <<hostVars, proved, soaked>>
  BY <1>5 DEF OpenSoak, Goto, ToSoaking, Transition, JobFails, Requeue, ToRetiring
<1>6. ASSUME NEW w \in Workers, MarkRetired(w) \/ RetiringDone(w) \/ Complete(w)
      PROVE  UNCHANGED <<hostVars, proved, soaked>>
  BY <1>6 DEF MarkRetired, Mark, RetiringDone, Goto, Complete, Transition, JobFails,
              Requeue
<1>7. ASSUME NEW w \in Workers, Step(w) \/
             EnqueueNext(w, "next", "queued") \/ EnqueueNext(w, "nextDelayed", "delayed") \/
             Succeed(w)
      PROVE  UNCHANGED <<hostVars, proved, soaked>>
  BY <1>7 DEF Step, Dispatch, Goto, EnqueueNext, EnqueueStep, Succeed, JobEnds
<1>8. ASSUME NEW w \in Workers, Error(w) \/ Crash(w) \/ Denied(w)
      PROVE  UNCHANGED <<hostVars, proved, soaked>>
  BY <1>8 DEF Error, MayFault, Fault, JobFails, Requeue, Crash, Denied, Overwrite,
              JobEnds
<1>9. ASSUME NEW w \in Workers, NEW k \in JobKeys, Dequeue(w, k)
      PROVE  UNCHANGED <<hostVars, proved, soaked>>
  BY <1>9 DEF Dequeue
<1>10. ASSUME NEW k \in JobKeys, JobDue(k) \/ Reap(k)
      PROVE  UNCHANGED <<hostVars, proved, soaked>>
  BY <1>10 DEF JobDue, Reap, Requeue
<1>11. ASSUME TickSoak \/ Start \/ Approve \/ Abort \/ StaleEnqueue
      PROVE  UNCHANGED <<hostVars, proved, soaked>>
  BY <1>11 DEF TickSoak, EnqueueStep, Start, Approve, Overwrite, MayFault, Fault,
               Abort, StaleEnqueue
<1>12. CASE UNCHANGED vars
  BY <1>12 DEF vars
<1> QED
  BY <1>1, <1>2, <1>3, <1>4, <1>5, <1>6, <1>7, <1>8, <1>9, <1>10, <1>11, <1>12
     DEF Next, Work, Planned, Staging, Verifying, Promoting, Soaking, Retiring, Ending

\* Key states and consumers.
LEMMA KeyFrame ==
  [Next]_vars =>
    \/ UNCHANGED <<keyVars>>
    \/ \E w \in Workers : Generate(w) \/ StageOne(w) \/ Activate(w) \/ Demote(w) \/
                          Rebind(w) \/ RetiringDone(w)
<1> USE DEF rotVars, keyVars, hostVars, jobVars, history
<1>1. ASSUME NEW w \in Workers, RecordKey(w) \/ EndDryRun(w) \/ Advance(w)
      PROVE  UNCHANGED <<keyVars>>
  BY <1>1 DEF RecordKey, Goto, EndDryRun, Overwrite, Advance, Transition, JobFails,
              Requeue
<1>2. ASSUME NEW w \in Workers, MarkStaged(w) \/ StagingDone(w) \/ ToVerifying(w)
      PROVE  UNCHANGED <<keyVars>>
  BY <1>2 DEF MarkStaged, Mark, StagingDone, LoopDone, Overwrite, Goto, ToVerifying,
              Transition, JobFails, Requeue
<1>3. ASSUME NEW w \in Workers, VerifyOne(w) \/ MarkVerified(w) \/ VerifyingDone(w) \/ SetWave(w) \/
             NextWave(w) \/ ToVerified(w)
      PROVE  UNCHANGED <<keyVars>>
  BY <1>3 DEF VerifyOne, MarkVerified, Mark, VerifyingDone, LoopDone, Overwrite,
              Goto, SetWave, NextWave, Transition, JobFails, Requeue, ToVerified
<1>4. ASSUME NEW w \in Workers, Promote(w) \/ ReboundAll(w)
      PROVE  UNCHANGED <<keyVars>>
  BY <1>4 DEF Promote, Transition, Goto, JobFails, Requeue, ReboundAll
<1>5. ASSUME NEW w \in Workers, OpenSoak(w) \/ ToSoaking(w) \/ ToRetiring(w)
      PROVE  UNCHANGED <<keyVars>>
  BY <1>5 DEF OpenSoak, Goto, ToSoaking, Transition, JobFails, Requeue, ToRetiring
<1>6. ASSUME NEW w \in Workers, RetireOne(w) \/ MarkRetired(w) \/ Complete(w)
      PROVE  UNCHANGED <<keyVars>>
  BY <1>6 DEF RetireOne, MayFault, Fault, MarkRetired, Mark, Complete, Transition,
              Goto, JobFails, Requeue
<1>7. ASSUME NEW w \in Workers, Step(w) \/
             EnqueueNext(w, "next", "queued") \/ EnqueueNext(w, "nextDelayed", "delayed") \/
             Succeed(w)
      PROVE  UNCHANGED <<keyVars>>
  BY <1>7 DEF Step, Dispatch, Goto, EnqueueNext, EnqueueStep, Succeed, JobEnds
<1>8. ASSUME NEW w \in Workers, Error(w) \/ Crash(w) \/ Denied(w)
      PROVE  UNCHANGED <<keyVars>>
  BY <1>8 DEF Error, MayFault, Fault, JobFails, Requeue, Crash, Denied, Overwrite,
              JobEnds
<1>9. ASSUME NEW w \in Workers, NEW k \in JobKeys, Dequeue(w, k)
      PROVE  UNCHANGED <<keyVars>>
  BY <1>9 DEF Dequeue
<1>10. ASSUME NEW k \in JobKeys, JobDue(k) \/ Reap(k)
      PROVE  UNCHANGED <<keyVars>>
  BY <1>10 DEF JobDue, Reap, Requeue
<1>11. ASSUME SoakCloses \/ TickSoak \/ Start \/ Approve \/ Abort \/ StaleEnqueue
      PROVE  UNCHANGED <<keyVars>>
  BY <1>11 DEF SoakCloses, TickSoak, EnqueueStep, Start, Approve, Overwrite,
               MayFault, Fault, Abort, StaleEnqueue
<1>12. ASSUME NEW t \in Targets, Converge(t)
      PROVE  UNCHANGED <<keyVars>>
  BY <1>12 DEF Converge
<1>13. ASSUME NEW p \in Outsiders, AssignOld(p)
      PROVE  UNCHANGED <<keyVars>>
  BY <1>13 DEF AssignOld
<1>14. CASE UNCHANGED vars
  BY <1>14 DEF vars
<1> QED
  BY <1>1, <1>2, <1>3, <1>4, <1>5, <1>6, <1>7, <1>8, <1>9, <1>10, <1>11, <1>12,
     <1>13, <1>14
     DEF Next, Work, Planned, Staging, Verifying, Promoting, Soaking, Retiring, Ending

\* Step jobs.
LEMMA JobFrame ==
  [Next]_vars =>
    \/ UNCHANGED <<jobVars>>
    \/ \E w \in Workers : Advance(w) \/ ToVerifying(w) \/ NextWave(w) \/
                          ToVerified(w) \/ Promote(w) \/ ToSoaking(w) \/
                          ToRetiring(w) \/ Complete(w) \/
                          EnqueueNext(w, "next", "queued") \/
                          EnqueueNext(w, "nextDelayed", "delayed") \/ Succeed(w) \/
                          Error(w) \/ Denied(w)
    \/ \E w \in Workers, k \in JobKeys : Dequeue(w, k)
    \/ \E k \in JobKeys : JobDue(k) \/ Reap(k)
    \/ TickSoak \/ Start \/ Approve \/ StaleEnqueue
<1> USE DEF rotVars, keyVars, hostVars, jobVars, history
<1>1. ASSUME NEW w \in Workers, Generate(w) \/ RecordKey(w) \/ EndDryRun(w)
      PROVE  UNCHANGED <<jobVars>>
  BY <1>1 DEF Generate, RecordKey, Goto, EndDryRun, Overwrite
<1>2. ASSUME NEW w \in Workers, StageOne(w) \/ MarkStaged(w) \/ StagingDone(w)
      PROVE  UNCHANGED <<jobVars>>
  BY <1>2 DEF StageOne, StageBeside, Replace, MarkStaged, Mark, StagingDone,
              LoopDone, Overwrite, Goto
<1>3. ASSUME NEW w \in Workers, VerifyOne(w) \/ MarkVerified(w) \/ VerifyingDone(w) \/ SetWave(w)
      PROVE  UNCHANGED <<jobVars>>
  BY <1>3 DEF VerifyOne, MarkVerified, Mark, VerifyingDone, LoopDone, Overwrite,
              Goto, SetWave
<1>4. ASSUME NEW w \in Workers, Activate(w) \/ Demote(w) \/ Rebind(w) \/ ReboundAll(w)
      PROVE  UNCHANGED <<jobVars>>
  BY <1>4 DEF Activate, SetStatus, Goto, Demote, Rebind, Overwrite, ReboundAll
<1>5. ASSUME NEW w \in Workers, OpenSoak(w)
      PROVE  UNCHANGED <<jobVars>>
  BY <1>5 DEF OpenSoak, Goto
<1>6. ASSUME NEW w \in Workers, RetireOne(w) \/ MarkRetired(w) \/ RetiringDone(w)
      PROVE  UNCHANGED <<jobVars>>
  BY <1>6 DEF RetireOne, MayFault, Fault, MarkRetired, Mark, RetiringDone, Goto
<1>7. ASSUME NEW w \in Workers, Step(w)
      PROVE  UNCHANGED <<jobVars>>
  BY <1>7 DEF Step, Dispatch, Goto
<1>8. ASSUME NEW w \in Workers, Crash(w)
      PROVE  UNCHANGED <<jobVars>>
  BY <1>8 DEF Crash, MayFault, Fault
<1>9. ASSUME SoakCloses \/ Abort
      PROVE  UNCHANGED <<jobVars>>
  BY <1>9 DEF SoakCloses, Abort, Overwrite, MayFault, Fault
<1>10. ASSUME NEW t \in Targets, Converge(t)
      PROVE  UNCHANGED <<jobVars>>
  BY <1>10 DEF Converge
<1>11. ASSUME NEW p \in Outsiders, AssignOld(p)
      PROVE  UNCHANGED <<jobVars>>
  BY <1>11 DEF AssignOld
<1>12. CASE UNCHANGED vars
  BY <1>12 DEF vars
<1> QED
  BY <1>1, <1>2, <1>3, <1>4, <1>5, <1>6, <1>7, <1>8, <1>9, <1>10, <1>11, <1>12
     DEF Next, Work, Planned, Staging, Verifying, Promoting, Soaking, Retiring, Ending

-----------------------------------------------------------------------------
(* The types of everything else.                                           *)

RowTypes ==
  /\ rstate \in RotationStates /\ wave \in Waves
  /\ newKey \in Successors \cup {NoKey}
  /\ soak \in {"none", "open", "over"} /\ dryRun \in BOOLEAN
  /\ faults \in 0 .. MaxFaults
  /\ soaked \in BOOLEAN
  /\ tstate \in [Targets -> {"pending", "staged", "verified", "retired", "failed"}]
  /\ proved \subseteq Targets /\ judged \subseteq Targets
HostTypes ==
  /\ assigned \in [Principals -> SUBSET Keys]
  /\ host \in [Principals -> SUBSET Keys]
KeyTypes ==
  /\ status \in [Keys -> {"absent", "pending", "active", "retiring", "retired"}]
  /\ bound \in [Consumers -> Keys]
JobTypes ==
  /\ q \in [JobKeys -> {"none", "delayed", "queued", "running"}]
  /\ tries \in [JobKeys -> 0 .. MaxAttempts]

\* replaceOne only concerns its single-key target, whatever it comes to.
LEMMA ReplaceEffect ==
  ASSUME HostTypes, NEW w \in Workers, NEW t \in Targets, run[w].key \in Successors,
         Replace(w, t)
  PROVE  /\ t \in SingleKey
         /\ \E a, h \in SUBSET Keys : /\ assigned' = [assigned EXCEPT ![t] = a]
                                      /\ host' = [host EXCEPT ![t] = h]
         /\ proved' \in {proved, proved \cup {t}}
         /\ status' \in {status, [status EXCEPT ![run[w].key] = "active"]}
         /\ UNCHANGED <<judged, soaked>>
         /\ \E ok \in BOOLEAN :
              run' = [run EXCEPT ![w].pc = "staged", ![w].at = t, ![w].ok = ok]
<1> DEFINE k    == run[w].key
           want == (assigned[t] \ {OldKey}) \cup {k}
           back == (want \ {k}) \cup {OldKey}
<1>1. /\ want \in SUBSET Keys /\ back \in SUBSET Keys
      /\ (want \cup {OldKey}) \in SUBSET Keys /\ host[t] \in SUBSET Keys
  BY DEF HostTypes, Principals, Keys
<1>2. \/ \E works \in BOOLEAN :
           /\ assigned' = [assigned EXCEPT ![t] = want]
           /\ host'     = [host EXCEPT ![t] = want]
           /\ proved'   = IF works THEN proved \cup {t} ELSE proved
           /\ status'   = IF works /\ status[k] = "pending"
                          THEN [status EXCEPT ![k] = "active"] ELSE status
           /\ run' = [run EXCEPT ![w].pc = "staged", ![w].at = t, ![w].ok = TRUE]
      \/ /\ \E now \in {want, want \cup {OldKey}, back}, left \in {host[t], want, back} :
              /\ assigned' = [assigned EXCEPT ![t] = now]
              /\ host'     = [host EXCEPT ![t] = left]
         /\ run' = [run EXCEPT ![w].pc = "staged", ![w].at = t, ![w].ok = FALSE]
         /\ UNCHANGED <<status, proved>>
  BY DEF Replace
<1>3. t \in SingleKey /\ UNCHANGED <<judged, soaked>>
  BY DEF Replace
<1> HIDE DEF k, want, back
<1>4. \E a, h \in SUBSET Keys : /\ assigned' = [assigned EXCEPT ![t] = a]
                                /\ host' = [host EXCEPT ![t] = h]
  BY <1>1, <1>2
<1>5. /\ proved' \in {proved, proved \cup {t}}
      /\ status' \in {status, [status EXCEPT ![k] = "active"]}
  BY <1>2
<1>6. \E ok \in BOOLEAN : run' = [run EXCEPT ![w].pc = "staged", ![w].at = t, ![w].ok = ok]
  BY <1>2
<1> QED
  BY <1>3, <1>4, <1>5, <1>6 DEF k

\* What stepStaging's turn for a target does apart from assignment and file.
LEMMA StageOneEffect ==
  ASSUME HostTypes, NEW w \in Workers, WorkerInv(w), StageOne(w)
  PROVE  /\ UNCHANGED <<rotVars, tstate, bound, jobVars, faults, judged, soaked>>
         /\ run[w].pc = "stage"
         /\ run[w].key \in Successors
         /\ \E t \in Targets :
              /\ proved' \in {proved, proved \cup {t}}
              /\ \E ok \in BOOLEAN :
                   run' = [run EXCEPT ![w].pc = "staged", ![w].at = t, ![w].ok = ok]
         /\ status' \in {status, [status EXCEPT ![run[w].key] = "active"]}
<1>1. /\ UNCHANGED <<rotVars, tstate, bound, jobVars, faults>>
      /\ run[w].pc = "stage"
  BY DEF StageOne, At
<1>2. run[w].key \in Successors /\ run[w].todo \subseteq Targets
  BY <1>1 DEF WorkerInv, CarriesKey, OverTargets
<1>3. PICK t \in Targets : StageBeside(w, t) \/ Replace(w, t)
  BY <1>2 DEF StageOne
<1>4. CASE StageBeside(w, t)
  <2>1. UNCHANGED <<status, proved, judged, soaked>>
    BY <1>4 DEF StageBeside, history
  <2>2. \E ok \in BOOLEAN :
          run' = [run EXCEPT ![w].pc = "staged", ![w].at = t, ![w].ok = ok]
    BY <1>4 DEF StageBeside
  <2>3. QED
    BY <1>1, <1>2, <2>1, <2>2
<1>5. CASE Replace(w, t)
  BY <1>1, <1>2, <1>5, ReplaceEffect
<1> QED
  BY <1>3, <1>4, <1>5

\* What a worker's Mark of its target does to the rows and to the worker.
LEMMA MarkEffect ==
  ASSUME RunType, NEW w \in Workers, NEW label, NEW good, NEW loop,
         Mark(w, label, good, loop)
  PROVE  /\ run[w].pc = label
         /\ UNCHANGED <<rstate, wave, newKey, soak, proved, soaked>>
         /\ \A v \in Workers \ {w} : run'[v] = run[v]
         /\ run'[w].pc = loop
         /\ run'[w].job = run[w].job /\ run'[w].key = run[w].key
         /\ run'[w].todo \subseteq run[w].todo
  BY DEF Mark, At, RunType, WorkerState, rotVars

\* Every step keeps the rotation's and the targets' rows well-typed.
LEMMA RowTypeStep == IInv /\ [Next]_vars => RowTypes'
<1> SUFFICES ASSUME IInv, [Next]_vars PROVE RowTypes'
  OBVIOUS
<1> USE RotationAssumption DEF rotVars, keyVars, hostVars, jobVars, history
<1>a. RunType /\ RowTypes /\ HostTypes /\ KeyTypes /\ JobTypes /\ JobInv /\ RowInv /\ HostInv
      /\ \A w \in Workers : WorkerInv(w)
  BY DEF IInv, TypeOK, RunType, RowTypes, HostTypes, KeyTypes, JobTypes
<1> USE DEF RowTypes, RunType, WorkerState, WorkerInv, At, RotationStates, Active,
            Finished, Waves, CarriesKey, OverTargets
<1>1. ASSUME NEW w \in Workers, RecordKey(w) PROVE RowTypes'
  BY <1>1, <1>a DEF RecordKey, Goto
<1>2. ASSUME NEW w \in Workers, EndDryRun(w) PROVE RowTypes'
  BY <1>2, <1>a DEF EndDryRun, Goto, Overwrite
<1>3. ASSUME NEW w \in Workers, Advance(w) PROVE RowTypes'
  BY <1>3, <1>a DEF Advance, Transition, Goto, JobFails, Requeue, Finish, Stop, Idle
<1>4. ASSUME NEW w \in Workers, StageOne(w) PROVE RowTypes'
  <2>1. WorkerInv(w)
    BY <1>a
  <2> HIDE DEF WorkerInv, RunType, RowTypes
  <2>2. /\ UNCHANGED <<rstate, wave, newKey, soak, dryRun, tstate, faults, judged, soaked>>
        /\ \E t \in Targets : /\ proved' \in {proved, proved \cup {t}}
    BY <1>4, <1>a, <2>1, StageOneEffect
  <2>3. QED
    BY <1>a, <2>2 DEF RowTypes
<1>5. ASSUME NEW w \in Workers, MarkStaged(w) PROVE RowTypes'
  BY <1>5, <1>a DEF MarkStaged, Mark
<1>6. ASSUME NEW w \in Workers, StagingDone(w) PROVE RowTypes'
  BY <1>6, <1>a DEF StagingDone, LoopDone, Overwrite, Goto
<1>7. ASSUME NEW w \in Workers, ToVerifying(w) PROVE RowTypes'
  BY <1>7, <1>a DEF ToVerifying, Transition, Goto, JobFails, Requeue, Finish, Stop, Idle
<1>8. ASSUME NEW w \in Workers, VerifyOne(w) PROVE RowTypes'
  BY <1>8, <1>a DEF VerifyOne
<1>9. ASSUME NEW w \in Workers, MarkVerified(w) PROVE RowTypes'
  BY <1>9, <1>a DEF MarkVerified, Mark
<1>10. ASSUME NEW w \in Workers, VerifyingDone(w) PROVE RowTypes'
  BY <1>10, <1>a DEF VerifyingDone, LoopDone, Overwrite, Goto, MaxWave
<1>11. ASSUME NEW w \in Workers, SetWave(w) PROVE RowTypes'
  BY <1>11, <1>a DEF SetWave, Goto
<1>12. ASSUME NEW w \in Workers, NextWave(w) PROVE RowTypes'
  BY <1>12, <1>a DEF NextWave, Transition, Goto, JobFails, Requeue, Finish, Stop, Idle
<1>13. ASSUME NEW w \in Workers, ToVerified(w) PROVE RowTypes'
  BY <1>13, <1>a DEF ToVerified, Transition, Goto, JobFails, Requeue, Finish, Stop, Idle
<1>14. ASSUME NEW w \in Workers, Promote(w) PROVE RowTypes'
  BY <1>14, <1>a DEF Promote, Transition, Goto, JobFails, Requeue, Finish, Stop, Idle
<1>15. ASSUME NEW w \in Workers, Rebind(w) PROVE RowTypes'
  BY <1>15, <1>a DEF Rebind, Overwrite, Goto
<1>16. ASSUME NEW w \in Workers, OpenSoak(w) PROVE RowTypes'
  BY <1>16, <1>a DEF OpenSoak, Goto
<1>17. ASSUME NEW w \in Workers, ToSoaking(w) PROVE RowTypes'
  BY <1>17, <1>a DEF ToSoaking, Transition, Goto, JobFails, Requeue, Finish, Stop, Idle
<1>18. ASSUME NEW w \in Workers, ToRetiring(w) PROVE RowTypes'
  BY <1>18, <1>a DEF ToRetiring, Transition, Goto, JobFails, Requeue, Finish, Stop, Idle
<1>19. ASSUME NEW w \in Workers, RetireOne(w) PROVE RowTypes'
  BY <1>19, <1>a DEF RetireOne, Written, MayFault, Fault
<1>20. ASSUME NEW w \in Workers, MarkRetired(w) PROVE RowTypes'
  BY <1>20, <1>a DEF MarkRetired, Mark
<1>21. ASSUME NEW w \in Workers, Complete(w) PROVE RowTypes'
  BY <1>21, <1>a DEF Complete, Transition, Goto, JobFails, Requeue, Finish, Stop, Idle
<1>22. ASSUME NEW w \in Workers, Error(w) PROVE RowTypes'
  BY <1>22, <1>a DEF Error, MayFault, Fault, JobFails, Requeue, Finish, Stop, Idle, Busy
<1>23. ASSUME NEW w \in Workers, Crash(w) PROVE RowTypes'
  BY <1>23, <1>a DEF Crash, MayFault, Fault, Stop, Idle, Busy
<1>24. ASSUME NEW w \in Workers, Denied(w) PROVE RowTypes'
  BY <1>24, <1>a DEF Denied, MayFault, Fault, Overwrite, JobEnds, Finish, Stop, Idle
<1>25. ASSUME SoakCloses PROVE RowTypes'
  BY <1>25, <1>a DEF SoakCloses
<1>26. ASSUME Approve PROVE RowTypes'
  BY <1>26, <1>a DEF Approve, EnqueueStep, Overwrite, MayFault, Fault
<1>27. ASSUME Abort PROVE RowTypes'
  BY <1>27, <1>a DEF Abort, Overwrite, MayFault, Fault
<1>28. ASSUME StaleEnqueue PROVE RowTypes'
  BY <1>28, <1>a DEF StaleEnqueue, EnqueueStep, MayFault, Fault
<1>29. CASE UNCHANGED <<rotVars, tstate, faults, history>>
  BY <1>29, <1>a DEF RowTypes
<1> QED
  BY <1>1, <1>2, <1>3, <1>4, <1>5, <1>6, <1>7, <1>8, <1>9, <1>10, <1>11, <1>12,
     <1>13, <1>14, <1>15, <1>16, <1>17, <1>18, <1>19, <1>20, <1>21, <1>22, <1>23,
     <1>24, <1>25, <1>26, <1>27, <1>28, <1>29, RowFrame

\* Every step keeps key states and consumers well-typed.
LEMMA KeyTypeStep == IInv /\ [Next]_vars => KeyTypes'
<1> SUFFICES ASSUME IInv, [Next]_vars PROVE KeyTypes'
  OBVIOUS
<1> USE RotationAssumption DEF rotVars, keyVars, hostVars, jobVars, history
<1>a. RunType /\ RowTypes /\ HostTypes /\ KeyTypes /\ JobTypes /\ JobInv /\ RowInv /\ HostInv
      /\ \A w \in Workers : WorkerInv(w)
  BY DEF IInv, TypeOK, RunType, RowTypes, HostTypes, KeyTypes, JobTypes
<1> USE DEF KeyTypes, RowTypes, WorkerInv, At, Keys, CarriesKey, StageBeside,
            Replace
<1>1. ASSUME NEW w \in Workers, Generate(w) PROVE KeyTypes'
  BY <1>1, <1>a DEF Generate
<1>2. ASSUME NEW w \in Workers, StageOne(w) PROVE KeyTypes'
  <2>1. WorkerInv(w)
    BY <1>a
  <2> HIDE DEF WorkerInv
  <2>2. /\ run[w].key \in Successors /\ bound' = bound
        /\ status' \in {status, [status EXCEPT ![run[w].key] = "active"]}
    BY <1>2, <1>a, <2>1, StageOneEffect
  <2>3. QED
    BY <1>a, <2>2
<1>3. ASSUME NEW w \in Workers, Activate(w) PROVE KeyTypes'
  BY <1>3, <1>a DEF Activate, SetStatus, Goto
<1>4. ASSUME NEW w \in Workers, Demote(w) PROVE KeyTypes'
  BY <1>4, <1>a DEF Demote, SetStatus
<1>5. ASSUME NEW w \in Workers, Rebind(w) PROVE KeyTypes'
  BY <1>5, <1>a DEF Rebind, Overwrite, Goto
<1>6. ASSUME NEW w \in Workers, RetiringDone(w) PROVE KeyTypes'
  BY <1>6, <1>a DEF RetiringDone, Goto
<1>7. CASE UNCHANGED <<keyVars>>
  BY <1>7, <1>a DEF KeyTypes
<1> QED
  BY <1>1, <1>2, <1>3, <1>4, <1>5, <1>6, <1>7, KeyFrame

\* Every step keeps assignments and files well-typed.
LEMMA HostTypeStep == IInv /\ [Next]_vars => HostTypes'
<1> SUFFICES ASSUME IInv, [Next]_vars PROVE HostTypes'
  OBVIOUS
<1> USE RotationAssumption DEF rotVars, keyVars, hostVars, jobVars, history
<1>a. RunType /\ RowTypes /\ HostTypes /\ KeyTypes /\ JobTypes /\ JobInv /\ RowInv /\ HostInv
      /\ \A w \in Workers : WorkerInv(w)
  BY DEF IInv, TypeOK, RunType, RowTypes, HostTypes, KeyTypes, JobTypes
<1> USE DEF HostTypes, RowTypes, WorkerInv, At, Keys, Principals, CarriesKey,
            OverTargets
<1>1. ASSUME NEW w \in Workers, StageOne(w) PROVE HostTypes'
  <2>1. PICK t \in Targets : StageBeside(w, t) \/ Replace(w, t)
    BY <1>1, <1>a DEF StageOne, At, WorkerInv, OverTargets
  <2>2. run[w].key \in Successors /\ UNCHANGED <<bound, soak>>
    BY <1>1, <1>a DEF StageOne, At, WorkerInv, CarriesKey
  <2>3. CASE StageBeside(w, t)
    BY <1>a, <2>2, <2>3 DEF StageBeside, Written
  <2>4. CASE Replace(w, t)
    <3>1. \E a, h \in SUBSET Keys : /\ assigned' = [assigned EXCEPT ![t] = a]
                                    /\ host' = [host EXCEPT ![t] = h]
      BY <1>a, <2>2, <2>4, ReplaceEffect
    <3>2. QED
      BY <1>a, <3>1
  <2>5. QED
    BY <2>1, <2>3, <2>4
<1>2. ASSUME NEW w \in Workers, VerifyOne(w) PROVE HostTypes'
  BY <1>2, <1>a DEF VerifyOne
<1>3. ASSUME NEW w \in Workers, RetireOne(w) PROVE HostTypes'
  BY <1>3, <1>a DEF RetireOne, Written, MayFault, Fault
<1>4. ASSUME SoakCloses PROVE HostTypes'
  BY <1>4, <1>a DEF SoakCloses
<1>5. ASSUME NEW t \in Targets, Converge(t) PROVE HostTypes'
  BY <1>5, <1>a DEF Converge
<1>6. ASSUME NEW p \in Outsiders, AssignOld(p) PROVE HostTypes'
  BY <1>6, <1>a DEF AssignOld
<1>7. CASE UNCHANGED <<hostVars, proved, soaked>>
  BY <1>7, <1>a DEF HostTypes
<1> QED
  BY <1>1, <1>2, <1>3, <1>4, <1>5, <1>6, <1>7, HostFrame

\* Every step keeps the step jobs well-typed and queued jobs retryable.
LEMMA JobStep == IInv /\ [Next]_vars => (JobTypes /\ JobInv)'
<1> SUFFICES ASSUME IInv, [Next]_vars PROVE (JobTypes /\ JobInv)'
  OBVIOUS
<1> USE RotationAssumption DEF rotVars, keyVars, hostVars, jobVars, history
<1>a. RunType /\ RowTypes /\ HostTypes /\ KeyTypes /\ JobTypes /\ JobInv /\ RowInv /\ HostInv
      /\ \A w \in Workers : WorkerInv(w)
  BY DEF IInv, TypeOK, RunType, RowTypes, HostTypes, KeyTypes, JobTypes
<1> USE DEF JobTypes, JobInv, WorkerInv, At
<1>1. ASSUME NEW w \in Workers, Advance(w) PROVE (JobTypes /\ JobInv)'
  BY <1>1, <1>a DEF Advance, Transition, Goto, JobFails, Requeue, Finish, Stop, Idle
<1>2. ASSUME NEW w \in Workers, ToVerifying(w) PROVE (JobTypes /\ JobInv)'
  BY <1>2, <1>a DEF ToVerifying, Transition, Goto, JobFails, Requeue, Finish, Stop, Idle
<1>3. ASSUME NEW w \in Workers, NextWave(w) PROVE (JobTypes /\ JobInv)'
  BY <1>3, <1>a DEF NextWave, Transition, Goto, JobFails, Requeue, Finish, Stop, Idle
<1>4. ASSUME NEW w \in Workers, ToVerified(w) PROVE (JobTypes /\ JobInv)'
  BY <1>4, <1>a DEF ToVerified, Transition, Goto, JobFails, Requeue, Finish, Stop, Idle
<1>5. ASSUME NEW w \in Workers, Promote(w) PROVE (JobTypes /\ JobInv)'
  BY <1>5, <1>a DEF Promote, Transition, Goto, JobFails, Requeue, Finish, Stop, Idle
<1>6. ASSUME NEW w \in Workers, ToSoaking(w) PROVE (JobTypes /\ JobInv)'
  BY <1>6, <1>a DEF ToSoaking, Transition, Goto, JobFails, Requeue, Finish, Stop, Idle
<1>7. ASSUME NEW w \in Workers, ToRetiring(w) PROVE (JobTypes /\ JobInv)'
  BY <1>7, <1>a DEF ToRetiring, Transition, Goto, JobFails, Requeue, Finish, Stop, Idle
<1>8. ASSUME NEW w \in Workers, Complete(w) PROVE (JobTypes /\ JobInv)'
  BY <1>8, <1>a DEF Complete, Transition, Goto, JobFails, Requeue, Finish, Stop, Idle
<1>9. ASSUME NEW w \in Workers, EnqueueNext(w, "next", "queued") PROVE (JobTypes /\ JobInv)'
  BY <1>9, <1>a DEF EnqueueNext, EnqueueStep, Goto
<1>10. ASSUME NEW w \in Workers, EnqueueNext(w, "nextDelayed", "delayed") PROVE (JobTypes /\ JobInv)'
  BY <1>10, <1>a DEF EnqueueNext, EnqueueStep, Goto
<1>11. ASSUME NEW w \in Workers, Succeed(w) PROVE (JobTypes /\ JobInv)'
  BY <1>11, <1>a DEF Succeed, JobEnds, Finish, Stop, Idle
<1>12. ASSUME NEW w \in Workers, Error(w) PROVE (JobTypes /\ JobInv)'
  BY <1>12, <1>a DEF Error, MayFault, Fault, JobFails, Requeue, Finish, Stop, Idle, Busy
<1>13. ASSUME NEW w \in Workers, Denied(w) PROVE (JobTypes /\ JobInv)'
  BY <1>13, <1>a DEF Denied, MayFault, Fault, Overwrite, JobEnds, Finish, Stop, Idle
<1>14. ASSUME NEW w \in Workers, NEW k \in JobKeys, Dequeue(w, k) PROVE (JobTypes /\ JobInv)'
  BY <1>14, <1>a DEF Dequeue, Idle
<1>15. ASSUME NEW k \in JobKeys, JobDue(k) PROVE (JobTypes /\ JobInv)'
  BY <1>15, <1>a DEF JobDue
<1>16. ASSUME NEW k \in JobKeys, Reap(k) PROVE (JobTypes /\ JobInv)'
  BY <1>16, <1>a DEF Reap, Requeue, Finish
<1>17. ASSUME TickSoak PROVE (JobTypes /\ JobInv)'
  BY <1>17, <1>a DEF TickSoak, EnqueueStep
<1>18. ASSUME Start PROVE (JobTypes /\ JobInv)'
  BY <1>18, <1>a DEF Start, EnqueueStep
<1>19. ASSUME Approve PROVE (JobTypes /\ JobInv)'
  BY <1>19, <1>a DEF Approve, EnqueueStep, Overwrite, MayFault, Fault
<1>20. ASSUME StaleEnqueue PROVE (JobTypes /\ JobInv)'
  BY <1>20, <1>a DEF StaleEnqueue, EnqueueStep, MayFault, Fault
<1>21. CASE UNCHANGED <<jobVars>>
  BY <1>21, <1>a DEF JobTypes, JobInv
<1> QED
  BY <1>1, <1>2, <1>3, <1>4, <1>5, <1>6, <1>7, <1>8, <1>9, <1>10, <1>11, <1>12,
     <1>13, <1>14, <1>15, <1>16, <1>17, <1>18, <1>19, <1>20, <1>21, JobFrame

\* Every step keeps what the rows say about keys, proofs and the soak.
LEMMA RowStep == IInv /\ [Next]_vars => RowInv'
<1> SUFFICES ASSUME IInv, [Next]_vars PROVE RowInv'
  OBVIOUS
<1> USE RotationAssumption DEF rotVars, keyVars, hostVars, jobVars, history
<1>a. RunType /\ RowTypes /\ HostTypes /\ KeyTypes /\ JobTypes /\ JobInv /\ RowInv /\ HostInv
      /\ \A w \in Workers : WorkerInv(w)
  BY DEF IInv, TypeOK, RunType, RowTypes, HostTypes, KeyTypes, JobTypes
<1> USE DEF RowInv, RowTypes, RunType, WorkerState, WorkerInv, At, Active, Finished,
            CarriesKey, OverTargets
<1>1. ASSUME NEW w \in Workers, RecordKey(w) PROVE RowInv'
  BY <1>1, <1>a DEF RecordKey, Goto
<1>2. ASSUME NEW w \in Workers, EndDryRun(w) PROVE RowInv'
  BY <1>2, <1>a DEF EndDryRun, Goto, Overwrite
<1>3. ASSUME NEW w \in Workers, Advance(w) PROVE RowInv'
  BY <1>3, <1>a DEF Advance, Transition, Goto, JobFails, Requeue, Finish, Stop, Idle
<1>4. ASSUME NEW w \in Workers, StageOne(w) PROVE RowInv'
  <2>1. WorkerInv(w)
    BY <1>a
  <2> HIDE DEF WorkerInv
  <2>2. UNCHANGED <<rstate, newKey, soak, tstate, soaked>> /\ proved \subseteq proved'
    BY <1>4, <1>a, <2>1, StageOneEffect
  <2>3. QED
    BY <1>a, <2>2
<1>5. ASSUME NEW w \in Workers, MarkStaged(w) PROVE RowInv'
  BY <1>5, <1>a DEF MarkStaged, Mark
<1>6. ASSUME NEW w \in Workers, StagingDone(w) PROVE RowInv'
  BY <1>6, <1>a DEF StagingDone, LoopDone, Overwrite, Goto
<1>7. ASSUME NEW w \in Workers, ToVerifying(w) PROVE RowInv'
  BY <1>7, <1>a DEF ToVerifying, Transition, Goto, JobFails, Requeue, Finish, Stop, Idle
<1>8. ASSUME NEW w \in Workers, VerifyOne(w) PROVE RowInv'
  BY <1>8, <1>a DEF VerifyOne
<1>9. ASSUME NEW w \in Workers, MarkVerified(w) PROVE RowInv'
  BY <1>9, <1>a DEF MarkVerified, Mark
<1>10. ASSUME NEW w \in Workers, VerifyingDone(w) PROVE RowInv'
  BY <1>10, <1>a DEF VerifyingDone, LoopDone, Overwrite, Goto, MaxWave
<1>11. ASSUME NEW w \in Workers, SetWave(w) PROVE RowInv'
  BY <1>11, <1>a DEF SetWave, Goto
<1>12. ASSUME NEW w \in Workers, NextWave(w) PROVE RowInv'
  BY <1>12, <1>a DEF NextWave, Transition, Goto, JobFails, Requeue, Finish, Stop, Idle
<1>13. ASSUME NEW w \in Workers, ToVerified(w) PROVE RowInv'
  BY <1>13, <1>a DEF ToVerified, Transition, Goto, JobFails, Requeue, Finish, Stop, Idle
<1>14. ASSUME NEW w \in Workers, Promote(w) PROVE RowInv'
  BY <1>14, <1>a DEF Promote, Transition, Goto, JobFails, Requeue, Finish, Stop, Idle
<1>15. ASSUME NEW w \in Workers, Rebind(w) PROVE RowInv'
  BY <1>15, <1>a DEF Rebind, Overwrite, Goto
<1>16. ASSUME NEW w \in Workers, OpenSoak(w) PROVE RowInv'
  BY <1>16, <1>a DEF OpenSoak, Goto
<1>17. ASSUME NEW w \in Workers, ToSoaking(w) PROVE RowInv'
  BY <1>17, <1>a DEF ToSoaking, Transition, Goto, JobFails, Requeue, Finish, Stop, Idle
<1>18. ASSUME NEW w \in Workers, ToRetiring(w) PROVE RowInv'
  BY <1>18, <1>a DEF ToRetiring, Transition, Goto, JobFails, Requeue, Finish, Stop, Idle
<1>19. ASSUME NEW w \in Workers, RetireOne(w) PROVE RowInv'
  BY <1>19, <1>a DEF RetireOne, Written, MayFault, Fault
<1>20. ASSUME NEW w \in Workers, MarkRetired(w) PROVE RowInv'
  BY <1>20, <1>a DEF MarkRetired, Mark
<1>21. ASSUME NEW w \in Workers, Complete(w) PROVE RowInv'
  BY <1>21, <1>a DEF Complete, Transition, Goto, JobFails, Requeue, Finish, Stop, Idle
<1>22. ASSUME NEW w \in Workers, Error(w) PROVE RowInv'
  BY <1>22, <1>a DEF Error, MayFault, Fault, JobFails, Requeue, Finish, Stop, Idle, Busy
<1>23. ASSUME NEW w \in Workers, Crash(w) PROVE RowInv'
  BY <1>23, <1>a DEF Crash, MayFault, Fault, Stop, Idle, Busy
<1>24. ASSUME NEW w \in Workers, Denied(w) PROVE RowInv'
  BY <1>24, <1>a DEF Denied, MayFault, Fault, Overwrite, JobEnds, Finish, Stop, Idle
<1>25. ASSUME SoakCloses PROVE RowInv'
  BY <1>25, <1>a DEF SoakCloses
<1>26. ASSUME Approve PROVE RowInv'
  BY <1>26, <1>a DEF Approve, EnqueueStep, Overwrite, MayFault, Fault
<1>27. ASSUME Abort PROVE RowInv'
  BY <1>27, <1>a DEF Abort, Overwrite, MayFault, Fault
<1>28. ASSUME StaleEnqueue PROVE RowInv'
  BY <1>28, <1>a DEF StaleEnqueue, EnqueueStep, MayFault, Fault
<1>29. CASE UNCHANGED <<rotVars, tstate, faults, history>>
  BY <1>29, <1>a DEF RowInv
<1> QED
  BY <1>1, <1>2, <1>3, <1>4, <1>5, <1>6, <1>7, <1>8, <1>9, <1>10, <1>11, <1>12,
     <1>13, <1>14, <1>15, <1>16, <1>17, <1>18, <1>19, <1>20, <1>21, <1>22, <1>23,
     <1>24, <1>25, <1>26, <1>27, <1>28, <1>29, RowFrame

\* No step takes the old key from an unproved principal.
LEMMA HostStep == IInv /\ [Next]_vars => HostInv'
<1> SUFFICES ASSUME IInv, [Next]_vars PROVE HostInv'
  OBVIOUS
<1> USE RotationAssumption DEF rotVars, keyVars, hostVars, jobVars, history
<1>a. RunType /\ RowTypes /\ HostTypes /\ KeyTypes /\ JobTypes /\ JobInv /\ RowInv /\ HostInv
      /\ \A w \in Workers : WorkerInv(w)
  BY DEF IInv, TypeOK, RunType, RowTypes, HostTypes, KeyTypes, JobTypes
<1> USE DEF HostInv, HostTypes, RowInv, WorkerInv, At, OverTargets, Shared,
            Principals
<1>1. ASSUME NEW w \in Workers, StageOne(w) PROVE HostInv'
  <2>1. PICK t \in Targets : StageBeside(w, t) \/ Replace(w, t)
    BY <1>1, <1>a DEF StageOne, At, WorkerInv, OverTargets
  <2>2. run[w].key \in Successors /\ UNCHANGED <<bound, soak>>
    BY <1>1, <1>a DEF StageOne, At, WorkerInv, CarriesKey
  <2>3. CASE StageBeside(w, t)
    BY <1>a, <2>2, <2>3 DEF StageBeside, Written
  <2>4. CASE Replace(w, t)
    <3>1. /\ t \in SingleKey /\ soaked' = soaked
          /\ proved' \in {proved, proved \cup {t}}
          /\ \A p \in Principals \ {t} : assigned'[p] = assigned[p] /\ host'[p] = host[p]
      BY <1>a, <2>2, <2>4, ReplaceEffect
    <3>2. \A p \in Shared : p \in Principals \ {t} /\ (p \in proved' <=> p \in proved)
      BY <3>1
    <3>3. QED
      BY <1>a, <3>1, <3>2
  <2>5. QED
    BY <2>1, <2>3, <2>4
<1>2. ASSUME NEW w \in Workers, VerifyOne(w) PROVE HostInv'
  <2>1. run[w].key \in Successors
    BY <1>2, <1>a DEF VerifyOne, At, WorkerInv, CarriesKey
  <2>2. PICK t \in run[w].todo, ok \in BOOLEAN :
             /\ ok => run[w].key \in host[t]
             /\ proved' = IF ok THEN proved \cup {t} ELSE proved
    BY <1>2 DEF VerifyOne
  <2>3. UNCHANGED <<assigned, host, soaked>>
    BY <1>2 DEF VerifyOne
  <2>4. QED
    BY <1>a, <2>1, <2>2, <2>3 DEF HostInv, Shared
<1>3. ASSUME NEW w \in Workers, RetireOne(w) PROVE HostInv'
  BY <1>3, <1>a DEF RetireOne, Written, MayFault, Fault
<1>4. ASSUME SoakCloses PROVE HostInv'
  BY <1>4, <1>a DEF SoakCloses
<1>5. ASSUME NEW t \in Targets, Converge(t) PROVE HostInv'
  BY <1>5, <1>a DEF Converge
<1>6. ASSUME NEW p \in Outsiders, AssignOld(p) PROVE HostInv'
  BY <1>6, <1>a DEF AssignOld
<1>7. CASE UNCHANGED <<hostVars, proved, soaked>>
  BY <1>7, <1>a DEF HostInv, Shared
<1> QED
  BY <1>1, <1>2, <1>3, <1>4, <1>5, <1>6, <1>7, HostFrame

\* Step changes nobody's state but its worker's.
LEMMA StepOwn ==
  ASSUME RunType, NEW w \in Workers, NEW v \in Workers, v # w, Step(w)
  PROVE  run'[v] = run[v]
<1>1. \/ Goto(w, "succeed")
      \/ \E label, todo : Dispatch(w, label, todo)
      \/ \E todo, left :
           run' = [run EXCEPT ![w].pc = "retire", ![w].todo = todo, ![w].left = left,
                              ![w].key = newKey, ![w].wave = wave]
  BY DEF Step
<1> QED
  BY <1>1 DEF Goto, Dispatch, RunType

\* A marked target leaves its worker's list; the rest of the list is as it was.
LEMMA MarkedInv ==
  ASSUME \A v \in Workers : WorkerInv(v), NEW w \in Workers, NEW label, NEW loop,
         <<label, loop>> \in {<<"staged", "stage">>, <<"verified", "verify">>,
                              <<"retired", "retire">>},
         run[w].pc = label, run'[w].pc = loop,
         UNCHANGED <<rstate, wave, newKey, soak, proved, soaked>>,
         \A v \in Workers \ {w} : run'[v] = run[v],
         run'[w].job = run[w].job, run'[w].key = run[w].key,
         run'[w].todo \subseteq run[w].todo
  PROVE  \A v \in Workers : WorkerInv(v)'
<1> SUFFICES ASSUME NEW v \in Workers PROVE WorkerInv(v)'
  OBVIOUS
<1>1. WorkerInv(v) /\ WorkerInv(w)
  OBVIOUS
<1>2. CASE v # w
  BY <1>1, <1>2 DEF WorkerInv
<1>3. CASE v = w
  BY <1>1, <1>3 DEF WorkerInv, CarriesKey, OverTargets
<1> QED
  BY <1>2, <1>3

\* No step invalidates what a worker carries.
LEMMA WorkerStep == IInv /\ [Next]_vars => \A v \in Workers : WorkerInv(v)'
<1> SUFFICES ASSUME IInv, [Next]_vars PROVE \A v \in Workers : WorkerInv(v)'
  OBVIOUS
<1> USE RotationAssumption DEF rotVars, keyVars, hostVars, jobVars, history
<1>a. RunType /\ RowTypes /\ HostTypes /\ KeyTypes /\ JobTypes /\ JobInv /\ RowInv /\ HostInv
      /\ \A w \in Workers : WorkerInv(w)
  BY DEF IInv, TypeOK, RunType, RowTypes, HostTypes, KeyTypes, JobTypes
<1> USE DEF WorkerInv, RunType, WorkerState, RowInv, RowTypes, At, Active, Finished,
            CarriesKey, OverTargets, Waves, WaveTargets
<1>1. ASSUME NEW w \in Workers, Step(w) PROVE \A v \in Workers : WorkerInv(v)'
  <2> SUFFICES ASSUME NEW v \in Workers PROVE WorkerInv(v)'
    OBVIOUS
  <2>1. CASE v # w
    <3>1. run'[v] = run[v]
      BY <1>1, <1>a, <2>1, StepOwn
    <3>2. UNCHANGED <<newKey, wave, soak, proved, soaked>>
      BY <1>1 DEF Step
    <3>3. WorkerInv(v)
      BY <1>a
    <3>4. QED
      BY <3>1, <3>2, <3>3
  <2>2. CASE v = w
    <3>1. run[w] \in WorkerState /\ run[w].pc = "step" /\ run[w].job \in JobKeys
      BY <1>1, <1>a DEF Step, At, RunType, WorkerInv
    <3>2. CASE \/ Goto(w, "succeed") \/ Dispatch(w, "generate", {})
               \/ Dispatch(w, "openSoak", {}) \/ Dispatch(w, "nextDelayed", {})
      <4>1. /\ run'[w].job = run[w].job
            /\ run'[w].pc \in {"succeed", "generate", "openSoak", "nextDelayed"}
        BY <1>a, <3>1, <3>2 DEF Goto, Dispatch, RunType, WorkerState
      <4>2. QED
        BY <2>2, <3>1, <4>1 DEF WorkerInv, CarriesKey, OverTargets
    <3>3. CASE rstate = "planned" /\ newKey # NoKey /\ Dispatch(w, "advance", {})
      <4>1. run'[w].job = run[w].job /\ run'[w].pc = "advance" /\ newKey' = newKey
        BY <1>1, <1>a, <3>1, <3>3 DEF Step, Dispatch, RunType, WorkerState
      <4>2. QED
        BY <2>2, <3>1, <3>3, <4>1 DEF WorkerInv, CarriesKey, OverTargets
    <3>4. CASE \/ rstate = "staging" /\ Dispatch(w, "stage", WaveTargets(wave, "pending"))
               \/ rstate = "verifying" /\ Dispatch(w, "verify", WaveTargets(wave, "staged"))
               \/ rstate = "verified" /\ Dispatch(w, "promote", {})
      <4> PICK label \in {"stage", "verify", "promote"}, todo \in SUBSET Targets :
               Dispatch(w, label, todo)
        BY <3>4 DEF WaveTargets
      <4>1. /\ run'[w].job = run[w].job /\ run'[w].key = newKey
            /\ run'[w].pc \in {"stage", "verify", "promote"}
            /\ run'[w].todo \subseteq Targets
        BY <1>a, <3>1 DEF Dispatch, RunType, WorkerState
      <4>2. newKey \in Successors
        BY <1>a, <3>4 DEF RowInv, RowTypes, Active
      <4>3. QED
        BY <2>2, <3>1, <4>1, <4>2 DEF WorkerInv, CarriesKey, OverTargets
    <3>5. CASE rstate = "soaking" /\ soak # "open" /\ Dispatch(w, "toRetiring", {})
      <4>1. run'[w].job = run[w].job /\ run'[w].pc = "toRetiring" /\ soaked' = soaked
        BY <1>1, <1>a, <3>1, <3>5 DEF Step, Dispatch, RunType, WorkerState
      <4>2. soaked
        BY <1>a, <3>5 DEF RowInv, RowTypes
      <4>3. QED
        BY <2>2, <3>1, <4>1, <4>2 DEF WorkerInv, CarriesKey, OverTargets
    <3>6. CASE rstate = "retiring"
      <4>1. /\ run'[w].job = run[w].job /\ run'[w].pc = "retire"
            /\ run'[w].todo = {t \in Targets : tstate[t] = "verified"}
            /\ soaked' = soaked /\ proved' = proved
        <5>1. /\ run' = [run EXCEPT
                   ![w].pc   = "retire",
                   ![w].todo = {t \in Targets : tstate[t] = "verified"},
                   ![w].left = \E t \in Targets : tstate[t] = "failed",
                   ![w].key  = newKey, ![w].wave = wave]
              /\ soaked' = soaked /\ proved' = proved
          BY <1>1, <3>6 DEF Step, Finished
        <5>2. QED
          BY <1>a, <3>1, <5>1 DEF RunType, WorkerState
      <4>2. soaked /\ \A t \in Targets : tstate[t] = "verified" => t \in proved
        BY <1>a, <3>6 DEF RowInv
      <4>3. QED
        BY <2>2, <3>1, <4>1, <4>2 DEF WorkerInv, CarriesKey, OverTargets
    <3>7. QED
      BY <1>1, <3>2, <3>3, <3>4, <3>5, <3>6 DEF Step
  <2>3. QED
    BY <2>1, <2>2
<1>2. ASSUME NEW w \in Workers, Generate(w) PROVE \A v \in Workers : WorkerInv(v)'
  BY <1>2, <1>a DEF Generate
<1>3. ASSUME NEW w \in Workers, RecordKey(w) PROVE \A v \in Workers : WorkerInv(v)'
  BY <1>3, <1>a DEF RecordKey, Goto
<1>4. ASSUME NEW w \in Workers, EndDryRun(w) PROVE \A v \in Workers : WorkerInv(v)'
  BY <1>4, <1>a DEF EndDryRun, Goto, Overwrite
<1>5. ASSUME NEW w \in Workers, Advance(w) PROVE \A v \in Workers : WorkerInv(v)'
  <2>1. /\ At(w, "advance")
        /\ UNCHANGED <<wave, newKey, soak, tstate, proved, soaked>>
        /\ Goto(w, "next") \/ Stop(w)
    BY <1>5 DEF Advance, Transition, JobFails
  <2>2. QED
    BY <2>1, <1>a DEF Goto, Stop, Idle
<1>6. ASSUME NEW w \in Workers, StageOne(w) PROVE \A v \in Workers : WorkerInv(v)'
  <2>1. WorkerInv(w)
    BY <1>a
  <2> HIDE DEF WorkerInv
  <2>2. /\ UNCHANGED <<newKey, wave, soak, soaked>> /\ proved \subseteq proved'
        /\ run[w].pc = "stage"
    BY <1>6, <1>a, <2>1, StageOneEffect
  <2>3. PICK t \in Targets, ok \in BOOLEAN :
               run' = [run EXCEPT ![w].pc = "staged", ![w].at = t, ![w].ok = ok]
    BY <1>6, <1>a, <2>1, StageOneEffect
  <2>4. QED
    BY <1>a, <2>2, <2>3 DEF WorkerInv
<1>7. ASSUME NEW w \in Workers, MarkStaged(w) PROVE \A v \in Workers : WorkerInv(v)'
  <2>1. Mark(w, "staged", "staged", "stage")
    BY <1>7 DEF MarkStaged
  <2>2. QED
    BY <1>a, <2>1, MarkEffect, MarkedInv
<1>8. ASSUME NEW w \in Workers, StagingDone(w) PROVE \A v \in Workers : WorkerInv(v)'
  BY <1>8, <1>a DEF StagingDone, LoopDone, Overwrite, Goto
<1>9. ASSUME NEW w \in Workers, ToVerifying(w) PROVE \A v \in Workers : WorkerInv(v)'
  BY <1>9, <1>a DEF ToVerifying, Transition, Goto, JobFails, Requeue, Finish, Stop, Idle
<1>10. ASSUME NEW w \in Workers, VerifyOne(w) PROVE \A v \in Workers : WorkerInv(v)'
  BY <1>10, <1>a DEF VerifyOne
<1>11. ASSUME NEW w \in Workers, MarkVerified(w) PROVE \A v \in Workers : WorkerInv(v)'
  <2>1. Mark(w, "verified", "verified", "verify")
    BY <1>11 DEF MarkVerified
  <2>2. QED
    BY <1>a, <2>1, MarkEffect, MarkedInv
<1>12. ASSUME NEW w \in Workers, VerifyingDone(w) PROVE \A v \in Workers : WorkerInv(v)'
  BY <1>12, <1>a DEF VerifyingDone, LoopDone, Overwrite, Goto, MaxWave
<1>13. ASSUME NEW w \in Workers, SetWave(w) PROVE \A v \in Workers : WorkerInv(v)'
  BY <1>13, <1>a DEF SetWave, Goto
<1>14. ASSUME NEW w \in Workers, NextWave(w) PROVE \A v \in Workers : WorkerInv(v)'
  BY <1>14, <1>a DEF NextWave, Transition, Goto, JobFails, Requeue, Finish, Stop, Idle
<1>15. ASSUME NEW w \in Workers, ToVerified(w) PROVE \A v \in Workers : WorkerInv(v)'
  BY <1>15, <1>a DEF ToVerified, Transition, Goto, JobFails, Requeue, Finish, Stop, Idle
<1>16. ASSUME NEW w \in Workers, Promote(w) PROVE \A v \in Workers : WorkerInv(v)'
  BY <1>16, <1>a DEF Promote, Transition, Goto, JobFails, Requeue, Finish, Stop, Idle
<1>17. ASSUME NEW w \in Workers, Activate(w) PROVE \A v \in Workers : WorkerInv(v)'
  BY <1>17, <1>a DEF Activate, SetStatus, Goto
<1>18. ASSUME NEW w \in Workers, Demote(w) PROVE \A v \in Workers : WorkerInv(v)'
  BY <1>18, <1>a DEF Demote, SetStatus
<1>19. ASSUME NEW w \in Workers, Rebind(w) PROVE \A v \in Workers : WorkerInv(v)'
  BY <1>19, <1>a DEF Rebind, Overwrite, Goto
<1>20. ASSUME NEW w \in Workers, ReboundAll(w) PROVE \A v \in Workers : WorkerInv(v)'
  BY <1>20, <1>a DEF ReboundAll, Goto
<1>21. ASSUME NEW w \in Workers, OpenSoak(w) PROVE \A v \in Workers : WorkerInv(v)'
  BY <1>21, <1>a DEF OpenSoak, Goto
<1>22. ASSUME NEW w \in Workers, ToSoaking(w) PROVE \A v \in Workers : WorkerInv(v)'
  BY <1>22, <1>a DEF ToSoaking, Transition, Goto, JobFails, Requeue, Finish, Stop, Idle
<1>23. ASSUME NEW w \in Workers, ToRetiring(w) PROVE \A v \in Workers : WorkerInv(v)'
  <2>1. /\ At(w, "toRetiring")
        /\ UNCHANGED <<wave, newKey, soak, tstate, proved, soaked>>
        /\ Goto(w, "next") \/ Stop(w)
    BY <1>23 DEF ToRetiring, Transition, JobFails
  <2>2. QED
    BY <2>1, <1>a DEF Goto, Stop, Idle
<1>24. ASSUME NEW w \in Workers, RetireOne(w) PROVE \A v \in Workers : WorkerInv(v)'
  BY <1>24, <1>a DEF RetireOne, Written, MayFault, Fault
<1>25. ASSUME NEW w \in Workers, MarkRetired(w) PROVE \A v \in Workers : WorkerInv(v)'
  <2>1. Mark(w, "retired", "retired", "retire")
    BY <1>25 DEF MarkRetired
  <2>2. QED
    BY <1>a, <2>1, MarkEffect, MarkedInv
<1>26. ASSUME NEW w \in Workers, RetiringDone(w) PROVE \A v \in Workers : WorkerInv(v)'
  BY <1>26, <1>a DEF RetiringDone, Goto
<1>27. ASSUME NEW w \in Workers, Complete(w) PROVE \A v \in Workers : WorkerInv(v)'
  BY <1>27, <1>a DEF Complete, Transition, Goto, JobFails, Requeue, Finish, Stop, Idle
<1>28. ASSUME NEW w \in Workers, EnqueueNext(w, "next", "queued") PROVE \A v \in Workers : WorkerInv(v)'
  BY <1>28, <1>a DEF EnqueueNext, EnqueueStep, Goto
<1>29. ASSUME NEW w \in Workers, EnqueueNext(w, "nextDelayed", "delayed") PROVE \A v \in Workers : WorkerInv(v)'
  BY <1>29, <1>a DEF EnqueueNext, EnqueueStep, Goto
<1>30. ASSUME NEW w \in Workers, Succeed(w) PROVE \A v \in Workers : WorkerInv(v)'
  BY <1>30, <1>a DEF Succeed, JobEnds, Finish, Stop, Idle
<1>31. ASSUME NEW w \in Workers, Error(w) PROVE \A v \in Workers : WorkerInv(v)'
  BY <1>31, <1>a DEF Error, MayFault, Fault, JobFails, Requeue, Finish, Stop, Idle, Busy
<1>32. ASSUME NEW w \in Workers, Crash(w) PROVE \A v \in Workers : WorkerInv(v)'
  BY <1>32, <1>a DEF Crash, MayFault, Fault, Stop, Idle, Busy
<1>33. ASSUME NEW w \in Workers, Denied(w) PROVE \A v \in Workers : WorkerInv(v)'
  BY <1>33, <1>a DEF Denied, MayFault, Fault, Overwrite, JobEnds, Finish, Stop, Idle
<1>34. ASSUME NEW w \in Workers, NEW k \in JobKeys, Dequeue(w, k) PROVE \A v \in Workers : WorkerInv(v)'
  BY <1>34, <1>a DEF Dequeue, Idle
<1>35. ASSUME NEW k \in JobKeys, JobDue(k) PROVE \A v \in Workers : WorkerInv(v)'
  BY <1>35, <1>a DEF JobDue
<1>36. ASSUME NEW k \in JobKeys, Reap(k) PROVE \A v \in Workers : WorkerInv(v)'
  BY <1>36, <1>a DEF Reap, Requeue, Finish
<1>37. ASSUME SoakCloses PROVE \A v \in Workers : WorkerInv(v)'
  BY <1>37, <1>a DEF SoakCloses
<1>38. ASSUME TickSoak PROVE \A v \in Workers : WorkerInv(v)'
  BY <1>38, <1>a DEF TickSoak, EnqueueStep
<1>39. ASSUME Start PROVE \A v \in Workers : WorkerInv(v)'
  BY <1>39, <1>a DEF Start, EnqueueStep
<1>40. ASSUME Approve PROVE \A v \in Workers : WorkerInv(v)'
  BY <1>40, <1>a DEF Approve, EnqueueStep, Overwrite, MayFault, Fault
<1>41. ASSUME Abort PROVE \A v \in Workers : WorkerInv(v)'
  BY <1>41, <1>a DEF Abort, Overwrite, MayFault, Fault
<1>42. ASSUME StaleEnqueue PROVE \A v \in Workers : WorkerInv(v)'
  BY <1>42, <1>a DEF StaleEnqueue, EnqueueStep, MayFault, Fault
<1>43. ASSUME NEW t \in Targets, Converge(t) PROVE \A v \in Workers : WorkerInv(v)'
  BY <1>43, <1>a DEF Converge
<1>44. ASSUME NEW p \in Outsiders, AssignOld(p) PROVE \A v \in Workers : WorkerInv(v)'
  BY <1>44, <1>a DEF AssignOld
<1>45. CASE UNCHANGED vars
  BY <1>45, <1>a DEF vars, WorkerInv
<1> QED
  BY <1>1, <1>2, <1>3, <1>4, <1>5, <1>6, <1>7, <1>8, <1>9, <1>10, <1>11, <1>12,
     <1>13, <1>14, <1>15, <1>16, <1>17, <1>18, <1>19, <1>20, <1>21, <1>22, <1>23,
     <1>24, <1>25, <1>26, <1>27, <1>28, <1>29, <1>30, <1>31, <1>32, <1>33, <1>34,
     <1>35, <1>36, <1>37, <1>38, <1>39, <1>40, <1>41, <1>42, <1>43, <1>44, <1>45
     DEF Next, Work, Planned, Staging, Verifying, Promoting, Soaking, Retiring, Ending

-----------------------------------------------------------------------------
(* The theorems.                                                           *)

LEMMA RotationInit == Init => IInv
<1> SUFFICES ASSUME Init PROVE IInv
  OBVIOUS
<1> USE RotationAssumption DEF Init
<1>1. RowTypes
  <2>1. rstate \in {"planned", "awaiting_approval"}
    OBVIOUS
  <2>2. rstate \in RotationStates /\ wave \in Waves /\ faults \in 0 .. MaxFaults
    BY <2>1 DEF RotationStates, Active, Finished, Waves
  <2>3. tstate \in [Targets -> {"pending", "staged", "verified", "retired", "failed"}]
    OBVIOUS
  <2>4. QED
    BY <2>2, <2>3 DEF RowTypes
<1>2. HostTypes /\ KeyTypes
  BY DEF HostTypes, KeyTypes, Keys, Principals
<1>3. JobTypes /\ JobInv
  BY DEF JobTypes, JobInv
<1>4. RunType
  BY IdleState DEF RunType
<1>5. RowInv /\ HostInv
  BY DEF RowInv, HostInv, Active, Shared, Principals, Keys
<1>6. \A w \in Workers : WorkerInv(w)
  BY DEF WorkerInv, Idle, CarriesKey, OverTargets
<1> QED
  BY <1>1, <1>2, <1>3, <1>4, <1>5, <1>6
     DEF IInv, TypeOK, RunType, RowTypes, HostTypes, KeyTypes, JobTypes

LEMMA RotationStep == IInv /\ [Next]_vars => IInv'
<1> SUFFICES ASSUME IInv, [Next]_vars PROVE IInv'
  OBVIOUS
<1>1. TypeOK'
  BY RunTypeStep, RowTypeStep, HostTypeStep, KeyTypeStep, JobStep
     DEF TypeOK, RunType, RowTypes, HostTypes, KeyTypes, JobTypes
<1>2. JobInv' /\ RowInv' /\ HostInv' /\ \A w \in Workers : WorkerInv(w)'
  BY JobStep, RowStep, HostStep, WorkerStep
<1> QED
  BY <1>1, <1>2 DEF IInv

LEMMA RotationInvariant == Spec => []IInv
<1>1. Init => IInv
  BY RotationInit
<1>2. IInv /\ [Next]_vars => IInv'
  BY RotationStep
<1> QED
  BY <1>1, <1>2, PTL DEF Spec

\* Every state a rotation reaches is well-typed: in particular no job has more
\* attempts than MaxAttempts, and no wave number passes the last wave.
THEOREM RotationTypeOK == Spec => []TypeOK
<1>1. IInv => TypeOK
  BY DEF IInv
<1> QED
  BY <1>1, RotationInvariant, PTL

\* With any number of workers driving one rotation, dying, failing and
\* overtaking each other, no principal that can hold both keys loses the old
\* one before the new one authenticated there.
THEOREM RotationProofBeforeRemoval == Spec => []ProofBeforeRemoval
<1>1. IInv => ProofBeforeRemoval
  BY DEF IInv, HostInv, ProofBeforeRemoval
<1> QED
  BY <1>1, RotationInvariant, PTL

\* Nor before a soak window has run its length.
THEOREM RotationSoakBeforeRemoval == Spec => []SoakBeforeRemoval
<1>1. IInv => SoakBeforeRemoval
  BY DEF IInv, HostInv, SoakBeforeRemoval
<1> QED
  BY <1>1, RotationInvariant, PTL

-----------------------------------------------------------------------------
(* The refinement: each step of the engine is a step of AddBeforeRemove or *)
(* one that it does not see.                                               *)

LEMMA Still ==
  ASSUME \A t \in Shared : host'[t] = host[t],
         proved' \cap Shared = proved \cap Shared, soaked' = soaked
  PROVE  [Promise!Next]_Promise!vars
  BY DEF Promise!vars, Installed

\* A file that gains keys and does not regain the old one.
LEMMA Growing ==
  ASSUME HostInv, HostTypes, NEW t \in Shared,
         \A p \in Shared : p # t => host'[p] = host[p],
         host'[t] \subseteq Keys, host[t] \ {OldKey} \subseteq host'[t], host'[t] # {},
         OldKey \in host[t] <=> OldKey \in host'[t],
         UNCHANGED <<proved, soaked>>
  PROVE  [Promise!Next]_Promise!vars
<1>1. CASE Installed(t)' = Installed(t)
  BY <1>1 DEF Promise!vars, Installed
<1>2. CASE Installed(t)' # Installed(t)
  <2>1. Installed(t) = "old" /\ Installed(t)' = "both"
    BY <1>2, RotationAssumption DEF Installed, HostInv, Keys, HostTypes, Principals, Shared
  <2>2. Promise!Add(t)
    BY <2>1 DEF Promise!Add, Installed
  <2>3. QED
    BY <2>2 DEF Promise!Next
<1> QED
  BY <1>1, <1>2

\* A file that may lose the old key where the successor is proved.
LEMMA Shrinking ==
  ASSUME HostInv, HostTypes, NEW t \in Shared, t \in proved, soaked,
         \A p \in Shared : p # t => host'[p] = host[p],
         host[t] \ {OldKey} \subseteq host'[t], host'[t] # {},
         OldKey \in host'[t] => OldKey \in host[t],
         UNCHANGED <<proved, soaked>>
  PROVE  [Promise!Next]_Promise!vars
<1>1. host[t] \cap Successors # {} /\ host'[t] \cap Successors # {}
  BY RotationAssumption DEF HostInv
<1>2. CASE Installed(t)' = Installed(t)
  BY <1>2 DEF Promise!vars, Installed
<1>3. CASE Installed(t)' # Installed(t)
  <2>1. Installed(t) = "both" /\ Installed(t)' = "new"
    BY <1>1, <1>3 DEF Installed
  <2>2. Promise!Remove(t)
    BY <2>1 DEF Promise!Remove, Installed
  <2>3. QED
    BY <2>2 DEF Promise!Next
<1> QED
  BY <1>2, <1>3

\* Every step of the engine is a step of the promise or stutters.
LEMMA PromiseStep == IInv /\ [Next]_vars => [Promise!Next]_Promise!vars
<1> SUFFICES ASSUME IInv, [Next]_vars PROVE [Promise!Next]_Promise!vars
  OBVIOUS
<1> USE RotationAssumption DEF rotVars, keyVars, hostVars, jobVars, history
<1>a. RunType /\ RowTypes /\ HostTypes /\ KeyTypes /\ JobTypes /\ JobInv /\ RowInv /\ HostInv
      /\ \A w \in Workers : WorkerInv(w)
  BY DEF IInv, TypeOK, RunType, RowTypes, HostTypes, KeyTypes, JobTypes
<1>1. ASSUME NEW w \in Workers, StageOne(w) PROVE [Promise!Next]_Promise!vars
  <2>1. PICK t \in Targets : StageBeside(w, t) \/ Replace(w, t)
    BY <1>1, <1>a DEF StageOne, At, WorkerInv, OverTargets
  <2>2. run[w].key \in Successors
    BY <1>1, <1>a DEF StageOne, At, WorkerInv, CarriesKey
  <2>3. CASE StageBeside(w, t)
    <3>1. /\ t \in Shared /\ UNCHANGED <<proved, soaked>>
          /\ \A p \in Shared : p # t => host'[p] = host[p]
          /\ host'[t] \in {host[t], host[t] \cup assigned[t] \cup {run[w].key}}
      BY <1>a, <2>2, <2>3 DEF StageBeside, Written, Shared, HostTypes, Principals
    <3>2. /\ host'[t] \subseteq Keys /\ host[t] \ {OldKey} \subseteq host'[t] /\ host'[t] # {}
          /\ OldKey \in host[t] <=> OldKey \in host'[t]
      BY <1>a, <2>2, <3>1, RotationAssumption
         DEF HostInv, HostTypes, Principals, Shared, Keys
    <3>3. QED
      BY <1>a, <3>1, <3>2, Growing
  <2>4. CASE Replace(w, t)
    <3>a. /\ t \in SingleKey /\ soaked' = soaked
          /\ proved' \in {proved, proved \cup {t}}
          /\ \E h : host' = [host EXCEPT ![t] = h]
      BY <1>a, <2>2, <2>4, ReplaceEffect
    <3>1. /\ \A p \in Shared : host'[p] = host[p]
          /\ proved' \cap Shared = proved \cap Shared /\ soaked' = soaked
      BY <1>a, <3>a DEF Shared, HostTypes, Principals
    <3>2. QED
      BY <3>1, Still
  <2>5. QED
    BY <2>1, <2>3, <2>4
<1>2. ASSUME NEW w \in Workers, VerifyOne(w) PROVE [Promise!Next]_Promise!vars
  <2>1. run[w].key \in Successors /\ run[w].todo \subseteq Targets
    BY <1>2, <1>a DEF VerifyOne, At, WorkerInv, CarriesKey, OverTargets
  <2>2. PICK t \in Targets, ok \in BOOLEAN :
             /\ ok => run[w].key \in host[t]
             /\ proved' = IF ok THEN proved \cup {t} ELSE proved
    BY <1>2, <2>1 DEF VerifyOne
  <2>3. UNCHANGED <<host, soaked>>
    BY <1>2 DEF VerifyOne
  <2>4. CASE ~ok \/ t \notin Shared
    BY <2>2, <2>3, <2>4, Still
  <2>5. CASE ok /\ t \in Shared
    <3>1. Installed(t) # "old"
      BY <2>1, <2>2, <2>5, <1>a DEF Installed
    <3>2. Promise!Prove(t)
      BY <2>2, <2>3, <2>5, <3>1 DEF Promise!Prove, Installed, Shared
    <3>3. QED
      BY <2>5, <3>2 DEF Promise!Next
  <2>6. QED
    BY <2>4, <2>5
<1>3. ASSUME NEW w \in Workers, RetireOne(w) PROVE [Promise!Next]_Promise!vars
  <2>1. run[w].todo \subseteq Targets /\ run[w].todo \subseteq proved /\ soaked
    BY <1>3, <1>a DEF RetireOne, At, WorkerInv, OverTargets
  <2>2. PICK t \in Targets \cap proved :
             \/ UNCHANGED host
             \/ /\ host' = [host EXCEPT ![t] = assigned[t] \ {OldKey}]
                /\ assigned[t] \ {OldKey} # {}
             \/ host' = [host EXCEPT ![t] = host[t] \cup (assigned[t] \ {OldKey})]
    BY <1>3, <2>1 DEF RetireOne, Written
  <2>3. UNCHANGED <<proved, soaked>>
    BY <1>3 DEF RetireOne
  <2>4. CASE t \notin Shared \/ UNCHANGED host
    <3>1. \A p \in Shared : host'[p] = host[p]
      BY <1>a, <2>2, <2>4 DEF Shared, HostTypes, Principals
    <3>2. QED
      BY <2>3, <3>1, Still
  <2>5. CASE t \in Shared
    BY <1>a, <2>1, <2>2, <2>3, <2>5, Shrinking
       DEF HostInv, HostTypes, Principals, Shared
  <2>6. QED
    BY <2>4, <2>5
<1>4. ASSUME SoakCloses PROVE [Promise!Next]_Promise!vars
  <2>1. UNCHANGED <<host, proved>> /\ soaked' = TRUE
    BY <1>4 DEF SoakCloses
  <2>2. CASE soaked
    BY <2>1, <2>2, Still
  <2>3. CASE ~soaked
    <3>1. \A p \in Shared : Installed(p) # "new"
      BY <1>a, <2>3 DEF HostInv, Installed
    <3>2. Promise!Soak
      BY <2>1, <3>1 DEF Promise!Soak, Installed
    <3>3. QED
      BY <3>2 DEF Promise!Next
  <2>4. QED
    BY <2>2, <2>3
<1>5. ASSUME NEW t \in Targets, Converge(t) PROVE [Promise!Next]_Promise!vars
  <2>1. CASE t \notin Shared
    <3>1. \A p \in Shared : host'[p] = host[p]
      BY <1>5, <2>1 DEF Converge
    <3>2. QED
      BY <1>5, <3>1, Still DEF Converge
  <2>2. CASE t \in Shared
    <3>1. /\ \A p \in Shared : p # t => host'[p] = host[p]
          /\ host'[t] = assigned[t] /\ UNCHANGED <<proved, soaked>>
      BY <1>5, <1>a DEF Converge, HostTypes, Principals
    <3>2. host'[t] \subseteq Keys /\ host[t] \ {OldKey} \subseteq host'[t] /\ host'[t] # {}
          /\ (OldKey \in host'[t] => OldKey \in host[t])
      BY <1>5, <1>a, <2>2, <3>1 DEF Converge, HostInv, HostTypes, Principals, Shared
    <3>3. CASE OldKey \in assigned[t]
      BY <1>a, <2>2, <3>1, <3>2, <3>3, Growing
    <3>4. CASE OldKey \notin assigned[t]
      <4>1. t \in proved /\ soaked
        BY <1>a, <2>2, <3>4 DEF HostInv
      <4>2. QED
        BY <1>a, <2>2, <3>1, <3>2, <4>1, Shrinking
    <3>5. QED
      BY <3>3, <3>4
  <2>3. QED
    BY <2>1, <2>2
<1>6. ASSUME NEW p \in Outsiders, AssignOld(p) PROVE [Promise!Next]_Promise!vars
  <2>1. /\ \A t \in Shared : host'[t] = host[t]
        /\ UNCHANGED <<proved, soaked>>
    BY <1>6, <1>a DEF AssignOld, HostTypes, Shared, Principals
  <2>2. QED
    BY <2>1, Still
<1>7. CASE UNCHANGED <<hostVars, proved, soaked>>
  BY <1>7, Still
<1> QED
  BY <1>1, <1>2, <1>3, <1>4, <1>5, <1>6, <1>7, HostFrame

LEMMA PromiseInit == Init => Promise!Init
  BY RotationAssumption DEF Init, Promise!Init, Installed, Shared, Principals

\* The engine, with all its workers, faults and duplicate drivers, implements
\* add-before-remove on every principal that can hold both keys.
THEOREM RotationImplementsPromise == Spec => ImplementsPromise
<1>1. Init => Promise!Init
  BY PromiseInit
<1>2. IInv /\ [Next]_vars => [Promise!Next]_Promise!vars
  BY PromiseStep
<1> QED
  BY <1>1, <1>2, RotationInvariant, PTL DEF Spec, ImplementsPromise, Promise!Spec

-----------------------------------------------------------------------------
(***************************************************************************)
(* The order in which a rotation reaches its targets, and the one          *)
(* successor it installs.                                                  *)
(***************************************************************************)


\* The job of the first step, and the states in which there is no other.
First  == <<"planned", 0>>
Unborn == {"planned", "awaiting_approval"}

\* What a worker does on a rotation that has not been planned through yet, or
\* on one of which it no longer writes anything.
Early == {"idle", "step", "generate", "record", "dryrun", "advance", "succeed"}

\* A worker holds a running job, and nobody else holds it.
LeaseInv ==
  /\ \A w \in Workers : run[w].pc # "idle" => q[run[w].job] = "running"
  /\ \A v, w \in Workers :
       run[v].pc # "idle" /\ run[w].pc # "idle" /\ run[v].job = run[w].job => v = w

\* Before the first transition there is one job, so one worker drives it, and
\* only that worker can name the successor.
EarlyInv ==
  /\ rstate \in Unborn => wave = 0 /\ \A k \in JobKeys \ {First} : q[k] = "none"
  /\ \A w \in Workers :
       /\ run[w].pc \notin Early => rstate \notin Unborn
       /\ run[w].pc \in {"generate", "record"} => run[w].job = First /\ newKey = NoKey
       /\ run[w].pc \in {"stage", "staged"} => run[w].key = newKey

\* Whatever is assigned or installed on a target is the old key or the successor.
OneSuccessor ==
  \A t \in Targets :
    /\ assigned[t] \subseteq {OldKey, newKey}
    /\ host[t] \subseteq {OldKey, newKey} /\ host[t] # {}

WaveZero == {t \in Targets : Wave(t) = 0}
CanariesJudged == WaveZero \subseteq judged
Pending == {t \in WaveZero : tstate[t] = "pending"}

\* How far wave 0 has come: in the rows, and in the hands of each worker, who
\* may act on it long after.
WaveRows ==
  /\ wave = 1 => CanariesJudged
  /\ \A t \in Targets : tstate[t] \in {"verified", "retired", "failed"} => t \in judged
  /\ rstate = "verifying" /\ wave = 0 => Pending = {}

WaveAt(w) ==
  /\ run[w].wave = 1 => wave = 1
  /\ run[w].pc \in {"stage", "staged"} => \A t \in run[w].todo : Wave(t) = run[w].wave
  /\ run[w].pc \in {"staged", "verified", "retired"} => run[w].at \in run[w].todo
  /\ run[w].pc \in {"stage", "staged"} /\ run[w].wave = 0 => Pending \subseteq run[w].todo
  /\ run[w].pc = "toVerifying" /\ run[w].wave = 0 => Pending = {}
  /\ run[w].pc \in {"verify", "verified"} /\ run[w].wave = 0 =>
       WaveZero \subseteq judged \cup run[w].todo
  /\ run[w].pc = "setWave" => CanariesJudged
  /\ run[w].pc \in {"retire", "retired"} => run[w].todo \subseteq judged

WaveHosts ==
  \A t \in Targets :
    Wave(t) = 1 /\ (assigned[t] \cup host[t]) \cap Successors # {} => CanariesJudged

GateInv == /\ LeaseInv /\ EarlyInv /\ OneSuccessor
           /\ WaveRows /\ WaveHosts /\ \A w \in Workers : WaveAt(w)
-----------------------------------------------------------------------------
(* What a step does to the worker that takes it.                           *)

\* The effects of a Step on its worker: what it read of the rotation, and for
\* each state where it sends the worker and with which targets.
LEMMA StepEffect ==
  ASSUME RunType, NEW w \in Workers, Step(w)
  PROVE  /\ run[w].pc = "step" /\ run'[w].job = run[w].job
         /\ \A v \in Workers \ {w} : run'[v] = run[v]
         /\ UNCHANGED <<rotVars, tstate, hostVars, keyVars, jobVars, faults, history>>
         /\ \/ run' = [run EXCEPT ![w].pc = "succeed"]
            \/ /\ rstate \notin Unborn \/ run'[w].pc \in {"generate", "advance"}
               /\ run'[w].key = newKey /\ run'[w].wave = wave
               /\ \/ /\ run'[w].pc = "generate" /\ run'[w].todo = {}
                     /\ rstate = "planned" /\ newKey = NoKey
                  \/ /\ run'[w].pc \in {"advance", "promote", "openSoak", "nextDelayed",
                                        "toRetiring"}
                     /\ run'[w].todo = {}
                  \/ /\ run'[w].pc = "stage" /\ rstate = "staging"
                     /\ run'[w].todo = WaveTargets(wave, "pending")
                  \/ /\ run'[w].pc = "verify" /\ rstate = "verifying"
                     /\ run'[w].todo = WaveTargets(wave, "staged")
                  \/ /\ run'[w].pc = "retire" /\ rstate = "retiring"
                     /\ run'[w].todo = {t \in Targets : tstate[t] = "verified"}
<1> USE DEF RunType
<1>0. run[w] \in WorkerState /\ run[w].pc = "step"
  BY DEF Step, At
<1>a. UNCHANGED <<rotVars, tstate, hostVars, keyVars, jobVars, faults, history>>
  BY DEF Step
<1>b. ASSUME NEW label, NEW todo, Dispatch(w, label, todo)
      PROVE  /\ run'[w].job = run[w].job /\ \A v \in Workers \ {w} : run'[v] = run[v]
             /\ run'[w].key = newKey /\ run'[w].wave = wave
             /\ run'[w].pc = label /\ run'[w].todo = todo
  BY <1>0, <1>b DEF Dispatch, WorkerState
<1>1. CASE rstate \in Finished \cup {"awaiting_approval"} /\ Goto(w, "succeed")
  BY <1>0, <1>1, <1>a DEF Goto, WorkerState
<1>2. CASE /\ rstate = "planned"
           /\ Dispatch(w, IF newKey = NoKey THEN "generate" ELSE "advance", {})
  BY <1>0, <1>2, <1>a, <1>b
<1>3. CASE rstate = "staging" /\ Dispatch(w, "stage", WaveTargets(wave, "pending"))
  BY <1>0, <1>3, <1>a, <1>b DEF Unborn
<1>4. CASE rstate = "verifying" /\ Dispatch(w, "verify", WaveTargets(wave, "staged"))
  BY <1>0, <1>4, <1>a, <1>b DEF Unborn
<1>5. CASE \/ rstate = "verified" /\ Dispatch(w, "promote", {})
           \/ rstate = "promoting" /\ Dispatch(w, "openSoak", {})
           \/ /\ rstate = "soaking"
              /\ Dispatch(w, IF soak = "open" THEN "nextDelayed" ELSE "toRetiring", {})
  BY <1>0, <1>5, <1>a, <1>b DEF Unborn
<1>6. CASE /\ rstate = "retiring"
           /\ run' = [run EXCEPT
                ![w].pc   = "retire",
                ![w].todo = {t \in Targets : tstate[t] = "verified"},
                ![w].left = \E t \in Targets : tstate[t] = "failed",
                ![w].key  = newKey, ![w].wave = wave]
  <2>1. /\ run'[w].job = run[w].job /\ \A v \in Workers \ {w} : run'[v] = run[v]
        /\ run'[w].key = newKey /\ run'[w].wave = wave /\ run'[w].pc = "retire"
        /\ run'[w].todo = {t \in Targets : tstate[t] = "verified"}
    BY <1>0, <1>6 DEF WorkerState
  <2>2. QED
    BY <1>0, <1>6, <1>a, <2>1 DEF Unborn
<1> QED
  BY <1>1, <1>2, <1>3, <1>4, <1>5, <1>6 DEF Step

\* Those of a turn for a target.
LEMMA TurnEffect ==
  ASSUME RunType, NEW w \in Workers, StageOne(w) \/ VerifyOne(w) \/ RetireOne(w)
  PROVE  /\ UNCHANGED <<rotVars, tstate, jobVars, judged>>
         /\ \A v \in Workers \ {w} : run'[v] = run[v]
         /\ run'[w].job = run[w].job /\ run'[w].key = run[w].key
         /\ run'[w].wave = run[w].wave /\ run'[w].todo = run[w].todo
         /\ run'[w].at \in run[w].todo
         /\ \/ StageOne(w)  /\ run[w].pc = "stage"  /\ run'[w].pc = "staged"
            \/ VerifyOne(w) /\ run[w].pc = "verify" /\ run'[w].pc = "verified"
            \/ RetireOne(w) /\ run[w].pc = "retire" /\ run'[w].pc = "retired"
<1>1. CASE StageOne(w)
  <2>1. run[w].pc = "stage" /\ UNCHANGED <<rotVars, tstate, jobVars, judged>>
    BY <1>1 DEF StageOne, At, StageBeside, Replace, history
  <2>2. PICK t \in run[w].todo, ok \in BOOLEAN :
               run' = [run EXCEPT ![w].pc = "staged", ![w].at = t, ![w].ok = ok]
    BY <1>1 DEF StageOne, StageBeside, Replace
  <2>3. /\ \A v \in Workers \ {w} : run'[v] = run[v]
        /\ run'[w].job = run[w].job /\ run'[w].key = run[w].key
        /\ run'[w].wave = run[w].wave /\ run'[w].todo = run[w].todo
        /\ run'[w].at = t /\ run'[w].pc = "staged"
    BY <2>2 DEF RunType, WorkerState
  <2>4. QED
    BY <1>1, <2>1, <2>3
<1>2. CASE VerifyOne(w)
  <2>1. run[w].pc = "verify" /\ UNCHANGED <<rotVars, tstate, jobVars, judged>>
    BY <1>2 DEF VerifyOne, At
  <2>2. PICK t \in run[w].todo, ok \in BOOLEAN :
               run' = [run EXCEPT ![w].pc = "verified", ![w].at = t, ![w].ok = ok]
    BY <1>2 DEF VerifyOne
  <2>3. /\ \A v \in Workers \ {w} : run'[v] = run[v]
        /\ run'[w].job = run[w].job /\ run'[w].key = run[w].key
        /\ run'[w].wave = run[w].wave /\ run'[w].todo = run[w].todo
        /\ run'[w].at = t /\ run'[w].pc = "verified"
    BY <2>2 DEF RunType, WorkerState
  <2>4. QED
    BY <1>2, <2>1, <2>3
<1>3. CASE RetireOne(w)
  <2>1. run[w].pc = "retire" /\ UNCHANGED <<rotVars, tstate, jobVars, judged>>
    BY <1>3 DEF RetireOne, At, history
  <2>2. PICK t \in run[w].todo, ok \in BOOLEAN :
               run' = [run EXCEPT ![w].pc = "retired", ![w].at = t, ![w].ok = ok]
    BY <1>3 DEF RetireOne
  <2>3. /\ \A v \in Workers \ {w} : run'[v] = run[v]
        /\ run'[w].job = run[w].job /\ run'[w].key = run[w].key
        /\ run'[w].wave = run[w].wave /\ run'[w].todo = run[w].todo
        /\ run'[w].at = t /\ run'[w].pc = "retired"
    BY <2>2 DEF RunType, WorkerState
  <2>4. QED
    BY <1>3, <2>1, <2>3
<1> QED
  BY <1>1, <1>2, <1>3

-----------------------------------------------------------------------------
(* One worker for each job, one job before the first transition.           *)
LEMMA LeaseStep == IInv /\ LeaseInv /\ [Next]_vars => LeaseInv'
<1> SUFFICES ASSUME IInv, LeaseInv, [Next]_vars PROVE LeaseInv'
  OBVIOUS
<1> USE RotationAssumption DEF rotVars, keyVars, hostVars, jobVars, history
<1>a. /\ RunType /\ JobTypes /\ LeaseInv
      /\ \A w \in Workers : run[w].pc # "idle" => run[w].job \in JobKeys
      /\ \A w \in Workers : run[w] \in WorkerState
  BY DEF IInv, TypeOK, RunType, JobTypes, WorkerInv
<1> USE DEF RunType, WorkerState, JobTypes, At, LeaseInv
<1>1. ASSUME NEW w \in Workers, Step(w) PROVE LeaseInv'
  <2> HIDE DEF RunType
  <2>1. /\ \A v \in Workers \ {w} : run'[v] = run[v]
        /\ run'[w].job = run[w].job /\ run[w].pc # "idle"
        /\ UNCHANGED jobVars
    BY <1>1, <1>a, StepEffect
  <2>2. QED
    BY <1>a, <2>1 DEF LeaseInv
<1>2. ASSUME NEW w \in Workers, Generate(w) PROVE LeaseInv'
  BY <1>2, <1>a DEF Generate
<1>3. ASSUME NEW w \in Workers, RecordKey(w) PROVE LeaseInv'
  BY <1>3, <1>a DEF RecordKey, Goto
<1>4. ASSUME NEW w \in Workers, EndDryRun(w) PROVE LeaseInv'
  BY <1>4, <1>a DEF EndDryRun, Goto, Overwrite
<1>5. ASSUME NEW w \in Workers, Advance(w) PROVE LeaseInv'
  BY <1>5, <1>a DEF Advance, Transition, Goto, JobFails, Requeue, Finish, Stop, Idle
<1>6. ASSUME NEW w \in Workers, StageOne(w) PROVE LeaseInv'
  <2> HIDE DEF RunType
  <2>1. /\ \A v \in Workers \ {w} : run'[v] = run[v]
        /\ run'[w].job = run[w].job /\ run[w].pc # "idle"
        /\ UNCHANGED jobVars
    BY <1>6, <1>a, TurnEffect
  <2>2. QED
    BY <1>a, <2>1 DEF LeaseInv
<1>7. ASSUME NEW w \in Workers, MarkStaged(w) PROVE LeaseInv'
  BY <1>7, <1>a DEF MarkStaged, Mark
<1>8. ASSUME NEW w \in Workers, StagingDone(w) PROVE LeaseInv'
  BY <1>8, <1>a DEF StagingDone, LoopDone, Overwrite, Goto
<1>9. ASSUME NEW w \in Workers, ToVerifying(w) PROVE LeaseInv'
  BY <1>9, <1>a DEF ToVerifying, Transition, Goto, JobFails, Requeue, Finish, Stop, Idle
<1>10. ASSUME NEW w \in Workers, VerifyOne(w) PROVE LeaseInv'
  BY <1>10, <1>a DEF VerifyOne
<1>11. ASSUME NEW w \in Workers, MarkVerified(w) PROVE LeaseInv'
  BY <1>11, <1>a DEF MarkVerified, Mark
<1>12. ASSUME NEW w \in Workers, VerifyingDone(w) PROVE LeaseInv'
  BY <1>12, <1>a DEF VerifyingDone, LoopDone, Overwrite, Goto
<1>13. ASSUME NEW w \in Workers, SetWave(w) PROVE LeaseInv'
  BY <1>13, <1>a DEF SetWave, Goto
<1>14. ASSUME NEW w \in Workers, NextWave(w) PROVE LeaseInv'
  BY <1>14, <1>a DEF NextWave, Transition, Goto, JobFails, Requeue, Finish, Stop, Idle
<1>15. ASSUME NEW w \in Workers, ToVerified(w) PROVE LeaseInv'
  BY <1>15, <1>a DEF ToVerified, Transition, Goto, JobFails, Requeue, Finish, Stop, Idle
<1>16. ASSUME NEW w \in Workers, Promote(w) PROVE LeaseInv'
  BY <1>16, <1>a DEF Promote, Transition, Goto, JobFails, Requeue, Finish, Stop, Idle
<1>17. ASSUME NEW w \in Workers, Activate(w) PROVE LeaseInv'
  BY <1>17, <1>a DEF Activate, SetStatus, Goto
<1>18. ASSUME NEW w \in Workers, Demote(w) PROVE LeaseInv'
  BY <1>18, <1>a DEF Demote, SetStatus
<1>19. ASSUME NEW w \in Workers, Rebind(w) PROVE LeaseInv'
  BY <1>19, <1>a DEF Rebind, Overwrite, Goto
<1>20. ASSUME NEW w \in Workers, ReboundAll(w) PROVE LeaseInv'
  BY <1>20, <1>a DEF ReboundAll, Goto
<1>21. ASSUME NEW w \in Workers, OpenSoak(w) PROVE LeaseInv'
  BY <1>21, <1>a DEF OpenSoak, Goto
<1>22. ASSUME NEW w \in Workers, ToSoaking(w) PROVE LeaseInv'
  BY <1>22, <1>a DEF ToSoaking, Transition, Goto, JobFails, Requeue, Finish, Stop, Idle
<1>23. ASSUME NEW w \in Workers, ToRetiring(w) PROVE LeaseInv'
  BY <1>23, <1>a DEF ToRetiring, Transition, Goto, JobFails, Requeue, Finish, Stop, Idle
<1>24. ASSUME NEW w \in Workers, RetireOne(w) PROVE LeaseInv'
  <2> HIDE DEF RunType
  <2>1. /\ \A v \in Workers \ {w} : run'[v] = run[v]
        /\ run'[w].job = run[w].job /\ run[w].pc # "idle"
        /\ UNCHANGED jobVars
    BY <1>24, <1>a, TurnEffect
  <2>2. QED
    BY <1>a, <2>1 DEF LeaseInv
<1>25. ASSUME NEW w \in Workers, MarkRetired(w) PROVE LeaseInv'
  BY <1>25, <1>a DEF MarkRetired, Mark
<1>26. ASSUME NEW w \in Workers, RetiringDone(w) PROVE LeaseInv'
  BY <1>26, <1>a DEF RetiringDone, Goto
<1>27. ASSUME NEW w \in Workers, Complete(w) PROVE LeaseInv'
  BY <1>27, <1>a DEF Complete, Transition, Goto, JobFails, Requeue, Finish, Stop, Idle
<1>28. ASSUME NEW w \in Workers, EnqueueNext(w, "next", "queued") PROVE LeaseInv'
  BY <1>28, <1>a DEF EnqueueNext, EnqueueStep, Goto
<1>29. ASSUME NEW w \in Workers, EnqueueNext(w, "nextDelayed", "delayed") PROVE LeaseInv'
  BY <1>29, <1>a DEF EnqueueNext, EnqueueStep, Goto
<1>30. ASSUME NEW w \in Workers, Succeed(w) PROVE LeaseInv'
  BY <1>30, <1>a DEF Succeed, JobEnds, Finish, Stop, Idle
<1>31. ASSUME NEW w \in Workers, Error(w) PROVE LeaseInv'
  BY <1>31, <1>a DEF Error, Busy, JobFails, Requeue, Finish, Stop, Idle
<1>32. ASSUME NEW w \in Workers, Crash(w) PROVE LeaseInv'
  BY <1>32, <1>a DEF Crash, Stop, Idle, Busy
<1>33. ASSUME NEW w \in Workers, Denied(w) PROVE LeaseInv'
  BY <1>33, <1>a DEF Denied, Overwrite, JobEnds, Finish, Stop, Idle
<1>34. ASSUME NEW w \in Workers, NEW k \in JobKeys, Dequeue(w, k) PROVE LeaseInv'
  BY <1>34, <1>a DEF Dequeue, Idle
<1>35. ASSUME NEW k \in JobKeys, JobDue(k) PROVE LeaseInv'
  BY <1>35, <1>a DEF JobDue
<1>36. ASSUME NEW k \in JobKeys, Reap(k) PROVE LeaseInv'
  BY <1>36, <1>a DEF Reap, Requeue, Finish
<1>37. ASSUME SoakCloses PROVE LeaseInv'
  BY <1>37, <1>a DEF SoakCloses
<1>38. ASSUME TickSoak PROVE LeaseInv'
  BY <1>38, <1>a DEF TickSoak, EnqueueStep
<1>39. ASSUME Start PROVE LeaseInv'
  BY <1>39, <1>a DEF Start, EnqueueStep
<1>40. ASSUME Approve PROVE LeaseInv'
  BY <1>40, <1>a DEF Approve, EnqueueStep, Overwrite
<1>41. ASSUME Abort PROVE LeaseInv'
  BY <1>41, <1>a DEF Abort, Overwrite
<1>42. ASSUME StaleEnqueue PROVE LeaseInv'
  BY <1>42, <1>a DEF StaleEnqueue, EnqueueStep
<1>43. ASSUME NEW t \in Targets, Converge(t) PROVE LeaseInv'
  BY <1>43, <1>a DEF Converge
<1>44. ASSUME NEW p \in Outsiders, AssignOld(p) PROVE LeaseInv'
  BY <1>44, <1>a DEF AssignOld
<1>45. CASE UNCHANGED vars
  BY <1>45, <1>a DEF vars
<1> QED
  BY <1>1, <1>2, <1>3, <1>4, <1>5, <1>6, <1>7, <1>8, <1>9, <1>10, <1>11, <1>12,
     <1>13, <1>14, <1>15, <1>16, <1>17, <1>18, <1>19, <1>20, <1>21, <1>22,
     <1>23, <1>24, <1>25, <1>26, <1>27, <1>28, <1>29, <1>30, <1>31, <1>32,
     <1>33, <1>34, <1>35, <1>36, <1>37, <1>38, <1>39, <1>40, <1>41, <1>42,
     <1>43, <1>44, <1>45
     DEF Next, Work, Planned, Staging, Verifying, Promoting, Soaking, Retiring, Ending
LEMMA EarlyStep == IInv /\ LeaseInv /\ EarlyInv /\ [Next]_vars => EarlyInv'
<1> SUFFICES ASSUME IInv, LeaseInv, EarlyInv, [Next]_vars PROVE EarlyInv'
  OBVIOUS
<1> USE RotationAssumption DEF rotVars, keyVars, hostVars, jobVars, history
<1>a. /\ RunType /\ JobTypes /\ LeaseInv /\ EarlyInv
      /\ \A w \in Workers : run[w].pc # "idle" => run[w].job \in JobKeys
      /\ \A w \in Workers : run[w].pc \in {"stage", "staged"} => run[w].key \in Successors
      /\ \A w \in Workers : run[w] \in WorkerState
  BY DEF IInv, TypeOK, RunType, JobTypes, WorkerInv, CarriesKey
<1> USE DEF RunType, WorkerState, JobTypes, At, LeaseInv, EarlyInv, Unborn, Early
<1>1. ASSUME NEW w \in Workers, Step(w) PROVE EarlyInv'
  <2> HIDE DEF RunType, EarlyInv, Early
  <2>1. /\ run[w].pc = "step" /\ run'[w].job = run[w].job
        /\ \A v \in Workers \ {w} : run'[v] = run[v]
        /\ UNCHANGED <<rotVars, jobVars>>
    BY <1>1, <1>a, StepEffect
  <2>2. rstate \in Unborn => run[w].job = First
    BY <1>a, <2>1 DEF EarlyInv
  <2>3. \/ run' = [run EXCEPT ![w].pc = "succeed"]
        \/ /\ run'[w].pc = "generate" /\ rstate = "planned" /\ newKey = NoKey
        \/ /\ run'[w].pc \in {"advance", "promote", "openSoak", "nextDelayed",
                              "toRetiring", "verify", "retire"}
           /\ rstate \notin Unborn \/ run'[w].pc = "advance"
        \/ run'[w].pc = "stage" /\ run'[w].key = newKey /\ rstate = "staging"
    BY <1>1, <1>a, StepEffect
  <2>4. run' = [run EXCEPT ![w].pc = "succeed"] => run'[w].pc = "succeed"
    BY <1>a DEF RunType, WorkerState
  <2>5. QED
    BY <1>a, <2>1, <2>2, <2>3, <2>4 DEF EarlyInv, Early
<1>2. ASSUME NEW w \in Workers, Generate(w) PROVE EarlyInv'
  BY <1>2, <1>a DEF Generate
<1>3. ASSUME NEW w \in Workers, RecordKey(w) PROVE EarlyInv'
  BY <1>3, <1>a DEF RecordKey, Goto
<1>4. ASSUME NEW w \in Workers, EndDryRun(w) PROVE EarlyInv'
  BY <1>4, <1>a DEF EndDryRun, Goto, Overwrite
<1>5. ASSUME NEW w \in Workers, Advance(w) PROVE EarlyInv'
  BY <1>5, <1>a DEF Advance, Transition, Goto, JobFails, Requeue, Finish, Stop, Idle
<1>6. ASSUME NEW w \in Workers, StageOne(w) PROVE EarlyInv'
  <2> HIDE DEF RunType, EarlyInv
  <2>1. /\ \A v \in Workers \ {w} : run'[v] = run[v]
        /\ run'[w].job = run[w].job /\ run'[w].key = run[w].key
        /\ <<run[w].pc, run'[w].pc>> \in {<<"stage", "staged">>, <<"verify", "verified">>,
                                         <<"retire", "retired">>}
        /\ UNCHANGED <<rotVars, jobVars>>
    BY <1>6, <1>a, TurnEffect
  <2>2. QED
    BY <1>a, <2>1 DEF EarlyInv
<1>7. ASSUME NEW w \in Workers, MarkStaged(w) PROVE EarlyInv'
  BY <1>7, <1>a DEF MarkStaged, Mark
<1>8. ASSUME NEW w \in Workers, StagingDone(w) PROVE EarlyInv'
  BY <1>8, <1>a DEF StagingDone, LoopDone, Overwrite, Goto
<1>9. ASSUME NEW w \in Workers, ToVerifying(w) PROVE EarlyInv'
  BY <1>9, <1>a DEF ToVerifying, Transition, Goto, JobFails, Requeue, Finish, Stop, Idle
<1>10. ASSUME NEW w \in Workers, VerifyOne(w) PROVE EarlyInv'
  <2> HIDE DEF RunType, EarlyInv
  <2>1. /\ \A v \in Workers \ {w} : run'[v] = run[v]
        /\ run'[w].job = run[w].job /\ run'[w].key = run[w].key
        /\ <<run[w].pc, run'[w].pc>> \in {<<"stage", "staged">>, <<"verify", "verified">>,
                                         <<"retire", "retired">>}
        /\ UNCHANGED <<rotVars, jobVars>>
    BY <1>10, <1>a, TurnEffect
  <2>2. QED
    BY <1>a, <2>1 DEF EarlyInv
<1>11. ASSUME NEW w \in Workers, MarkVerified(w) PROVE EarlyInv'
  BY <1>11, <1>a DEF MarkVerified, Mark
<1>12. ASSUME NEW w \in Workers, VerifyingDone(w) PROVE EarlyInv'
  BY <1>12, <1>a DEF VerifyingDone, LoopDone, Overwrite, Goto
<1>13. ASSUME NEW w \in Workers, SetWave(w) PROVE EarlyInv'
  BY <1>13, <1>a DEF SetWave, Goto
<1>14. ASSUME NEW w \in Workers, NextWave(w) PROVE EarlyInv'
  BY <1>14, <1>a DEF NextWave, Transition, Goto, JobFails, Requeue, Finish, Stop, Idle
<1>15. ASSUME NEW w \in Workers, ToVerified(w) PROVE EarlyInv'
  BY <1>15, <1>a DEF ToVerified, Transition, Goto, JobFails, Requeue, Finish, Stop, Idle
<1>16. ASSUME NEW w \in Workers, Promote(w) PROVE EarlyInv'
  BY <1>16, <1>a DEF Promote, Transition, Goto, JobFails, Requeue, Finish, Stop, Idle
<1>17. ASSUME NEW w \in Workers, Activate(w) PROVE EarlyInv'
  BY <1>17, <1>a DEF Activate, SetStatus, Goto
<1>18. ASSUME NEW w \in Workers, Demote(w) PROVE EarlyInv'
  BY <1>18, <1>a DEF Demote, SetStatus
<1>19. ASSUME NEW w \in Workers, Rebind(w) PROVE EarlyInv'
  BY <1>19, <1>a DEF Rebind, Overwrite, Goto
<1>20. ASSUME NEW w \in Workers, ReboundAll(w) PROVE EarlyInv'
  BY <1>20, <1>a DEF ReboundAll, Goto
<1>21. ASSUME NEW w \in Workers, OpenSoak(w) PROVE EarlyInv'
  BY <1>21, <1>a DEF OpenSoak, Goto
<1>22. ASSUME NEW w \in Workers, ToSoaking(w) PROVE EarlyInv'
  BY <1>22, <1>a DEF ToSoaking, Transition, Goto, JobFails, Requeue, Finish, Stop, Idle
<1>23. ASSUME NEW w \in Workers, ToRetiring(w) PROVE EarlyInv'
  BY <1>23, <1>a DEF ToRetiring, Transition, Goto, JobFails, Requeue, Finish, Stop, Idle
<1>24. ASSUME NEW w \in Workers, RetireOne(w) PROVE EarlyInv'
  <2> HIDE DEF RunType, EarlyInv
  <2>1. /\ \A v \in Workers \ {w} : run'[v] = run[v]
        /\ run'[w].job = run[w].job /\ run'[w].key = run[w].key
        /\ <<run[w].pc, run'[w].pc>> \in {<<"stage", "staged">>, <<"verify", "verified">>,
                                         <<"retire", "retired">>}
        /\ UNCHANGED <<rotVars, jobVars>>
    BY <1>24, <1>a, TurnEffect
  <2>2. QED
    BY <1>a, <2>1 DEF EarlyInv
<1>25. ASSUME NEW w \in Workers, MarkRetired(w) PROVE EarlyInv'
  BY <1>25, <1>a DEF MarkRetired, Mark
<1>26. ASSUME NEW w \in Workers, RetiringDone(w) PROVE EarlyInv'
  BY <1>26, <1>a DEF RetiringDone, Goto
<1>27. ASSUME NEW w \in Workers, Complete(w) PROVE EarlyInv'
  BY <1>27, <1>a DEF Complete, Transition, Goto, JobFails, Requeue, Finish, Stop, Idle
<1>28. ASSUME NEW w \in Workers, EnqueueNext(w, "next", "queued") PROVE EarlyInv'
  BY <1>28, <1>a DEF EnqueueNext, EnqueueStep, Goto
<1>29. ASSUME NEW w \in Workers, EnqueueNext(w, "nextDelayed", "delayed") PROVE EarlyInv'
  BY <1>29, <1>a DEF EnqueueNext, EnqueueStep, Goto
<1>30. ASSUME NEW w \in Workers, Succeed(w) PROVE EarlyInv'
  BY <1>30, <1>a DEF Succeed, JobEnds, Finish, Stop, Idle
<1>31. ASSUME NEW w \in Workers, Error(w) PROVE EarlyInv'
  BY <1>31, <1>a DEF Error, Busy, JobFails, Requeue, Finish, Stop, Idle
<1>32. ASSUME NEW w \in Workers, Crash(w) PROVE EarlyInv'
  BY <1>32, <1>a DEF Crash, Stop, Idle, Busy
<1>33. ASSUME NEW w \in Workers, Denied(w) PROVE EarlyInv'
  BY <1>33, <1>a DEF Denied, Overwrite, JobEnds, Finish, Stop, Idle
<1>34. ASSUME NEW w \in Workers, NEW k \in JobKeys, Dequeue(w, k) PROVE EarlyInv'
  BY <1>34, <1>a DEF Dequeue, Idle
<1>35. ASSUME NEW k \in JobKeys, JobDue(k) PROVE EarlyInv'
  BY <1>35, <1>a DEF JobDue
<1>36. ASSUME NEW k \in JobKeys, Reap(k) PROVE EarlyInv'
  BY <1>36, <1>a DEF Reap, Requeue, Finish
<1>37. ASSUME SoakCloses PROVE EarlyInv'
  BY <1>37, <1>a DEF SoakCloses
<1>38. ASSUME TickSoak PROVE EarlyInv'
  BY <1>38, <1>a DEF TickSoak, EnqueueStep
<1>39. ASSUME Start PROVE EarlyInv'
  <2>1. \A k \in JobKeys \ {First} : q'[k] = q[k] \/ rstate \notin Unborn
    BY <1>39, <1>a DEF Start, EnqueueStep, First, Active
  <2>2. /\ UNCHANGED <<wave, newKey, run>>
        /\ rstate' # rstate => rstate \in Unborn /\ rstate' \in Unborn
    BY <1>39 DEF Start, EnqueueStep
  <2>3. QED
    BY <1>a, <2>1, <2>2
<1>40. ASSUME Approve PROVE EarlyInv'
  <2>1. \A k \in JobKeys \ {First} : q'[k] = q[k] \/ rstate \notin Unborn
    BY <1>40, <1>a DEF Approve, EnqueueStep, First, Active
  <2>2. /\ UNCHANGED <<wave, newKey, run>>
        /\ rstate' # rstate => rstate \in Unborn /\ rstate' \in Unborn
    BY <1>40 DEF Approve, Overwrite, EnqueueStep
  <2>3. QED
    BY <1>a, <2>1, <2>2
<1>41. ASSUME Abort PROVE EarlyInv'
  BY <1>41, <1>a DEF Abort, Overwrite
<1>42. ASSUME StaleEnqueue PROVE EarlyInv'
  <2>1. \A k \in JobKeys \ {First} : q'[k] = q[k] \/ rstate \notin Unborn
    BY <1>42, <1>a DEF StaleEnqueue, EnqueueStep, First, Active
  <2>2. /\ UNCHANGED <<wave, newKey, run>>
        /\ rstate' # rstate => rstate \in Unborn /\ rstate' \in Unborn
    BY <1>42 DEF StaleEnqueue, EnqueueStep
  <2>3. QED
    BY <1>a, <2>1, <2>2
<1>43. ASSUME NEW t \in Targets, Converge(t) PROVE EarlyInv'
  BY <1>43, <1>a DEF Converge
<1>44. ASSUME NEW p \in Outsiders, AssignOld(p) PROVE EarlyInv'
  BY <1>44, <1>a DEF AssignOld
<1>45. CASE UNCHANGED vars
  BY <1>45, <1>a DEF vars
<1> QED
  BY <1>1, <1>2, <1>3, <1>4, <1>5, <1>6, <1>7, <1>8, <1>9, <1>10, <1>11, <1>12,
     <1>13, <1>14, <1>15, <1>16, <1>17, <1>18, <1>19, <1>20, <1>21, <1>22,
     <1>23, <1>24, <1>25, <1>26, <1>27, <1>28, <1>29, <1>30, <1>31, <1>32,
     <1>33, <1>34, <1>35, <1>36, <1>37, <1>38, <1>39, <1>40, <1>41, <1>42,
     <1>43, <1>44, <1>45
     DEF Next, Work, Planned, Staging, Verifying, Promoting, Soaking, Retiring, Ending
-----------------------------------------------------------------------------
(* One successor on every target, and never an empty file.                 *)

\* The rotation records its successor once.
LEMMA NewKeyStep == IInv /\ EarlyInv /\ [Next]_vars => newKey' = newKey \/ newKey = NoKey
<1> SUFFICES ASSUME IInv, EarlyInv, [Next]_vars
             PROVE  newKey' = newKey \/ newKey = NoKey
  OBVIOUS
<1> USE DEF rotVars
<1>a. RunType /\ HostTypes /\ \A w \in Workers : WorkerInv(w)
  BY DEF IInv, TypeOK, RunType, HostTypes
<1>1. ASSUME NEW w \in Workers, RecordKey(w) PROVE newKey = NoKey
  BY <1>1 DEF RecordKey, At, EarlyInv
<1>2. ASSUME NEW w \in Workers, EndDryRun(w) \/ Advance(w) \/ ToVerifying(w) \/
             NextWave(w) \/ ToVerified(w) \/ Promote(w) \/ ToSoaking(w) \/
             ToRetiring(w) \/ Complete(w) \/ StagingDone(w) \/ VerifyingDone(w)
      PROVE  newKey' = newKey
  BY <1>2 DEF EndDryRun, Overwrite, Advance, Transition, ToVerifying, NextWave,
     ToVerified, Promote, ToSoaking, ToRetiring, Complete, StagingDone,
     VerifyingDone, LoopDone
<1>3. ASSUME NEW w \in Workers, MarkStaged(w) \/ MarkVerified(w) \/ MarkRetired(w) \/
             StageOne(w) \/ VerifyOne(w) \/ RetireOne(w)
      PROVE  newKey' = newKey
  BY <1>3 DEF MarkStaged, MarkVerified, MarkRetired, Mark, StageOne, VerifyOne, RetireOne
<1>4. ASSUME NEW w \in Workers, SetWave(w) \/ Rebind(w) \/ OpenSoak(w) \/
             Error(w) \/ Crash(w) \/ Denied(w)
      PROVE  newKey' = newKey
  BY <1>4 DEF SetWave, Rebind, Overwrite, OpenSoak, Error, Crash, Denied
<1>5. ASSUME SoakCloses \/ Approve \/ Abort \/ StaleEnqueue PROVE newKey' = newKey
  BY <1>5 DEF SoakCloses, Approve, Abort, StaleEnqueue, Overwrite
<1> QED
  BY <1>1, <1>2, <1>3, <1>4, <1>5, RowFrame

LEMMA SuccessorStep ==
  IInv /\ EarlyInv /\ OneSuccessor /\ [Next]_vars => OneSuccessor'
<1> SUFFICES ASSUME IInv, EarlyInv, OneSuccessor, [Next]_vars,
                    NEW t \in Targets
             PROVE  /\ assigned'[t] \subseteq {OldKey, newKey'}
                    /\ host'[t] \subseteq {OldKey, newKey'} /\ host'[t] # {}
  BY DEF OneSuccessor
<1> USE RotationAssumption DEF rotVars, hostVars
<1>a. /\ RunType /\ HostTypes /\ \A w \in Workers : WorkerInv(w)
      /\ t \in Principals
  BY DEF IInv, TypeOK, RunType, HostTypes, Principals
<1>b. /\ assigned[t] \subseteq {OldKey, newKey} /\ host[t] \subseteq {OldKey, newKey}
      /\ host[t] # {} /\ assigned[t] \subseteq Keys /\ host[t] \subseteq Keys
  BY <1>a DEF OneSuccessor, HostTypes
<1>1. CASE UNCHANGED hostVars
  <2>1. newKey = NoKey => assigned[t] \subseteq {OldKey} /\ host[t] \subseteq {OldKey}
    BY <1>b DEF Keys
  <2>2. QED
    BY <1>1, <1>b, <2>1, NewKeyStep
<1>2. ASSUME NEW w \in Workers, StageOne(w)
      PROVE  /\ assigned'[t] \subseteq {OldKey, newKey'}
             /\ host'[t] \subseteq {OldKey, newKey'} /\ host'[t] # {}
  <2>1. run[w].key = newKey /\ newKey' = newKey /\ run[w].todo \subseteq Targets
    BY <1>2, <1>a DEF StageOne, At, EarlyInv, WorkerInv, OverTargets
  <2>2. PICK u \in Targets : StageBeside(w, u) \/ Replace(w, u)
    BY <1>2, <2>1 DEF StageOne
  <2>3. CASE StageBeside(w, u)
    BY <1>a, <1>b, <2>1, <2>3 DEF StageBeside, Written, HostTypes
  <2>4. CASE Replace(w, u)
    <3> DEFINE want == (assigned[u] \ {OldKey}) \cup {run[w].key}
               back == (want \ {run[w].key}) \cup {OldKey}
               Fits(s) == s \subseteq {OldKey, newKey} /\ s # {}
    <3>1. Fits(want) /\ Fits(want \cup {OldKey}) /\ Fits(back) /\ Fits(host[u])
      BY <2>1 DEF OneSuccessor
    <3>2. \/ \E works \in BOOLEAN : /\ assigned' = [assigned EXCEPT ![u] = want]
                                   /\ host'     = [host EXCEPT ![u] = want]
          \/ \E now \in {want, want \cup {OldKey}, back}, left \in {host[u], want, back} :
               /\ assigned' = [assigned EXCEPT ![u] = now]
               /\ host'     = [host EXCEPT ![u] = left]
      BY <2>4 DEF Replace
    <3> HIDE DEF want, back
    <3>3. PICK a, h : /\ Fits(a) /\ Fits(h)
                      /\ assigned' = [assigned EXCEPT ![u] = a]
                      /\ host' = [host EXCEPT ![u] = h]
      BY <3>1, <3>2
    <3>4. QED
      BY <1>a, <1>b, <2>1, <3>3 DEF HostTypes
  <2>5. QED
    BY <2>2, <2>3, <2>4
<1>3. ASSUME NEW w \in Workers, VerifyOne(w) PROVE UNCHANGED hostVars
  BY <1>3 DEF VerifyOne
<1>4. ASSUME NEW w \in Workers, RetireOne(w)
      PROVE  /\ assigned'[t] \subseteq {OldKey, newKey'}
             /\ host'[t] \subseteq {OldKey, newKey'} /\ host'[t] # {}
  <2>1. newKey' = newKey
    BY <1>4 DEF RetireOne
  <2>2. QED
    BY <1>4, <1>a, <1>b, <2>1 DEF RetireOne, Written, HostTypes
<1>5. ASSUME SoakCloses PROVE UNCHANGED hostVars
  BY <1>5 DEF SoakCloses
<1>6. ASSUME NEW u \in Targets, Converge(u)
      PROVE  /\ assigned'[t] \subseteq {OldKey, newKey'}
             /\ host'[t] \subseteq {OldKey, newKey'} /\ host'[t] # {}
  BY <1>6, <1>a, <1>b DEF Converge, HostTypes
<1>7. ASSUME NEW p \in Outsiders, AssignOld(p)
      PROVE  /\ assigned'[t] \subseteq {OldKey, newKey'}
             /\ host'[t] \subseteq {OldKey, newKey'} /\ host'[t] # {}
  BY <1>7, <1>a, <1>b DEF AssignOld, HostTypes
<1> QED
  BY <1>1, <1>2, <1>3, <1>4, <1>5, <1>6, <1>7, HostFrame
-----------------------------------------------------------------------------
(* Wave 0 only gets further.                                               *)

Waved == WaveRows /\ WaveHosts /\ \A w \in Workers : WaveAt(w)

\* The wave number, the judged targets and the pending ones move one way.
Onward == /\ wave' = wave \/ (wave' = 1 /\ CanariesJudged)
          /\ judged \subseteq judged'
          /\ \A t \in Targets : tstate'[t] = "pending" => tstate[t] = "pending"

LEMMA OnwardStep == IInv /\ Waved /\ [Next]_vars => Onward
<1> SUFFICES ASSUME IInv, Waved, [Next]_vars PROVE Onward
  OBVIOUS
<1> USE DEF rotVars, history
<1>a. /\ RunType /\ RowTypes /\ \A w \in Workers : WorkerInv(w)
      /\ \A w \in Workers : WaveAt(w)
  BY DEF IInv, TypeOK, RunType, RowTypes, Waved
<1>b. SUFFICES \/ UNCHANGED <<wave, judged, tstate>>
               \/ /\ wave' = 1 /\ CanariesJudged /\ UNCHANGED <<judged, tstate>>
               \/ /\ UNCHANGED wave /\ judged \subseteq judged'
                  /\ \A t \in Targets : tstate'[t] = "pending" => tstate[t] = "pending"
  BY DEF Onward
<1>1. ASSUME NEW w \in Workers, EndDryRun(w) \/ Advance(w) \/ ToVerifying(w) \/
             NextWave(w) \/ ToVerified(w) \/ Promote(w) \/ ToSoaking(w) \/
             ToRetiring(w) \/ Complete(w) \/ StagingDone(w) \/ VerifyingDone(w)
      PROVE  UNCHANGED <<wave, judged, tstate>>
  BY <1>1 DEF EndDryRun, Overwrite, Advance, Transition, ToVerifying, NextWave,
     ToVerified, Promote, ToSoaking, ToRetiring, Complete, StagingDone,
     VerifyingDone, LoopDone
<1>2. ASSUME NEW w \in Workers, NEW label, NEW good, NEW loop,
             good \in {"staged", "verified", "retired"}, Mark(w, label, good, loop)
      PROVE  /\ UNCHANGED wave /\ judged \subseteq judged'
             /\ \A t \in Targets : tstate'[t] = "pending" => tstate[t] = "pending"
  BY <1>2, <1>a DEF Mark, RowTypes
<1>3. ASSUME NEW w \in Workers, MarkStaged(w) \/ MarkVerified(w) \/ MarkRetired(w)
      PROVE  /\ UNCHANGED wave /\ judged \subseteq judged'
             /\ \A t \in Targets : tstate'[t] = "pending" => tstate[t] = "pending"
  BY <1>2, <1>3 DEF MarkStaged, MarkVerified, MarkRetired
<1>4. ASSUME NEW w \in Workers, StageOne(w) \/ VerifyOne(w) \/ RetireOne(w)
      PROVE  UNCHANGED <<wave, judged, tstate>>
  BY <1>4, <1>a, TurnEffect
<1>5. ASSUME NEW w \in Workers, SetWave(w)
      PROVE  wave' = 1 /\ CanariesJudged /\ UNCHANGED <<judged, tstate>>
  BY <1>5, <1>a DEF SetWave, At, WorkerInv, WaveAt
<1>6. ASSUME NEW w \in Workers, RecordKey(w) \/ Rebind(w) \/ OpenSoak(w) \/
             Error(w) \/ Crash(w) \/ Denied(w)
      PROVE  UNCHANGED <<wave, judged, tstate>>
  BY <1>6 DEF RecordKey, Rebind, Overwrite, OpenSoak, Error, Crash, Denied
<1>7. ASSUME SoakCloses \/ Approve \/ Abort \/ StaleEnqueue
      PROVE  UNCHANGED <<wave, judged, tstate>>
  BY <1>7 DEF SoakCloses, Approve, Abort, StaleEnqueue, Overwrite
<1> QED
  BY <1>1, <1>3, <1>4, <1>5, <1>6, <1>7, RowFrame

\* A target's row is written when a worker marks it.
LEMMA RowsMarked ==
  ASSUME RunType, [Next]_vars
  PROVE  \/ tstate' = tstate
         \/ \E w \in Workers : MarkStaged(w) \/ MarkVerified(w) \/ MarkRetired(w)
<1>1. ASSUME NEW w \in Workers, EndDryRun(w) \/ Advance(w) \/ ToVerifying(w) \/
             NextWave(w) \/ ToVerified(w) \/ Promote(w) \/ ToSoaking(w) \/
             ToRetiring(w) \/ Complete(w) \/ StagingDone(w) \/ VerifyingDone(w)
      PROVE  tstate' = tstate
  BY <1>1 DEF EndDryRun, Advance, Transition, ToVerifying, NextWave, ToVerified,
     Promote, ToSoaking, ToRetiring, Complete, StagingDone, VerifyingDone, LoopDone
<1>2. ASSUME NEW w \in Workers, StageOne(w) \/ VerifyOne(w) \/ RetireOne(w)
      PROVE  tstate' = tstate
  BY <1>2, TurnEffect
<1>3. ASSUME NEW w \in Workers, RecordKey(w) \/ SetWave(w) \/ Rebind(w) \/
             OpenSoak(w) \/ Error(w) \/ Crash(w) \/ Denied(w)
      PROVE  tstate' = tstate
  BY <1>3 DEF RecordKey, SetWave, Rebind, OpenSoak, Error, Crash, Denied
<1>4. ASSUME SoakCloses \/ Approve \/ Abort \/ StaleEnqueue PROVE tstate' = tstate
  BY <1>4 DEF SoakCloses, Approve, Abort, StaleEnqueue
<1> QED
  BY <1>1, <1>2, <1>3, <1>4, RowFrame

LEMMA RowsStep == IInv /\ Waved /\ [Next]_vars => WaveRows'
<1> SUFFICES ASSUME IInv, Waved, [Next]_vars PROVE WaveRows'
  OBVIOUS
<1> USE DEF rotVars, history
<1>a. /\ RunType /\ RowTypes /\ \A w \in Workers : WorkerInv(w) /\ WaveAt(w)
      /\ WaveRows
  BY DEF IInv, TypeOK, RunType, RowTypes, Waved
<1>b. Onward
  BY OnwardStep
<1>1. wave' = 1 => CanariesJudged'
  BY <1>a, <1>b DEF Onward, CanariesJudged, WaveZero, WaveRows, Wave
<1>2. ASSUME NEW t \in Targets, tstate'[t] \in {"verified", "retired", "failed"}
      PROVE  t \in judged'
  <2>1. CASE tstate' = tstate
    BY <1>a, <1>b, <1>2, <2>1 DEF WaveRows, Onward
  <2>2. ASSUME NEW w \in Workers, MarkStaged(w) PROVE t \in judged'
    BY <1>a, <1>2, <2>2 DEF MarkStaged, Mark, WaveRows, RowTypes
  <2>3. ASSUME NEW w \in Workers, MarkVerified(w) PROVE t \in judged'
    BY <1>a, <1>2, <2>3 DEF MarkVerified, Mark, WaveRows, RowTypes
  <2>4. ASSUME NEW w \in Workers, MarkRetired(w) PROVE t \in judged'
    BY <1>a, <1>2, <2>4 DEF MarkRetired, Mark, At, WaveRows, RowTypes, WaveAt
  <2>5. QED
    BY <1>a, <2>1, <2>2, <2>3, <2>4, RowsMarked
<1>3. rstate' = "verifying" /\ wave' = 0 => Pending' = {}
  <2>1. CASE rstate = "verifying"
    BY <1>a, <1>b, <2>1 DEF Onward, WaveRows, Pending, WaveZero, Wave
  <2>2. ASSUME NEW w \in Workers, ToVerifying(w), wave' = 0 PROVE Pending = {}
    BY <1>a, <2>2 DEF ToVerifying, Transition, At, WaveAt, RunType, WorkerState, Waves
  <2>3. rstate' = "verifying" => rstate = "verifying" \/ \E w \in Workers : ToVerifying(w)
    <3>1. ASSUME NEW w \in Workers, EndDryRun(w) \/ Advance(w) \/ NextWave(w) \/
                 ToVerified(w) \/ Promote(w) \/ ToSoaking(w) \/ ToRetiring(w) \/
                 Complete(w) \/ StagingDone(w) \/ VerifyingDone(w)
          PROVE  rstate' = "verifying" => rstate = "verifying"
      BY <3>1 DEF EndDryRun, Overwrite, Advance, Transition, NextWave, ToVerified,
         Promote, ToSoaking, ToRetiring, Complete, StagingDone, VerifyingDone, LoopDone
    <3>2. ASSUME NEW w \in Workers, StageOne(w) \/ VerifyOne(w) \/ RetireOne(w) \/
                 MarkStaged(w) \/ MarkVerified(w) \/ MarkRetired(w)
          PROVE  rstate' = rstate
      BY <3>2 DEF StageOne, VerifyOne, RetireOne, MarkStaged, MarkVerified,
         MarkRetired, Mark
    <3>3. ASSUME NEW w \in Workers, RecordKey(w) \/ SetWave(w) \/ Rebind(w) \/
                 OpenSoak(w) \/ Error(w) \/ Crash(w) \/ Denied(w)
          PROVE  rstate' = "verifying" => rstate = "verifying"
      BY <3>3 DEF RecordKey, SetWave, Rebind, OpenSoak, Error, Crash, Denied, Overwrite
    <3>4. ASSUME SoakCloses \/ Approve \/ Abort \/ StaleEnqueue
          PROVE  rstate' = "verifying" => rstate = "verifying"
      BY <3>4 DEF SoakCloses, Approve, Abort, StaleEnqueue, Overwrite
    <3>5. QED
      BY <3>1, <3>2, <3>3, <3>4, RowFrame
  <2>4. Pending = {} => Pending' = {}
    BY <1>b DEF Onward, Pending, WaveZero, Wave
  <2>5. QED
    BY <2>1, <2>2, <2>3, <2>4
<1> QED
  BY <1>1, <1>2, <1>3 DEF WaveRows
\* A second-wave target is staged from a second-wave list.
LEMMA HostsStep == IInv /\ Waved /\ [Next]_vars => WaveHosts'
<1> SUFFICES ASSUME IInv, Waved, [Next]_vars, NEW t \in Targets, Wave(t) = 1,
                    (assigned'[t] \cup host'[t]) \cap Successors # {}
             PROVE  CanariesJudged'
  BY DEF WaveHosts, Wave
<1> USE RotationAssumption DEF rotVars, hostVars
<1>a. /\ RunType /\ HostTypes /\ t \in Principals
      /\ \A w \in Workers : WorkerInv(w) /\ WaveAt(w)
      /\ WaveHosts /\ WaveRows
  BY DEF IInv, TypeOK, RunType, HostTypes, Principals, Waved
<1>b. CanariesJudged => CanariesJudged'
  BY OnwardStep DEF Onward, CanariesJudged, WaveZero, Wave
<1>c. CASE (assigned[t] \cup host[t]) \cap Successors # {}
  BY <1>a, <1>b, <1>c DEF WaveHosts
<1>d. CASE (assigned[t] \cup host[t]) \cap Successors = {}
  <2>1. CASE UNCHANGED hostVars
    BY <1>d, <2>1
  <2>2. ASSUME NEW w \in Workers, StageOne(w) PROVE CanariesJudged
    <3>0. run[w].pc = "stage" /\ run[w].key \in Successors /\ run[w].todo \subseteq Targets
      BY <1>a, <2>2 DEF StageOne, At, WorkerInv, CarriesKey, OverTargets
    <3>1. PICK u \in run[w].todo : StageBeside(w, u) \/ Replace(w, u)
      BY <2>2 DEF StageOne
    <3>2. \A p \in Principals \ {u} : assigned'[p] = assigned[p] /\ host'[p] = host[p]
      <4>1. CASE StageBeside(w, u)
        BY <1>a, <4>1 DEF StageBeside, HostTypes
      <4>2. CASE Replace(w, u)
        <5>1. PICK a, h \in SUBSET Keys : /\ assigned' = [assigned EXCEPT ![u] = a]
                                         /\ host' = [host EXCEPT ![u] = h]
          BY <1>a, <3>0, <3>1, <4>2, ReplaceEffect
        <5>2. QED
          BY <1>a, <5>1 DEF HostTypes
      <4>3. QED
        BY <3>1, <4>1, <4>2
    <3>3. t = u
      BY <1>a, <1>d, <3>2
    <3>4. run[w].wave = 1
      BY <1>a, <3>0, <3>1, <3>3 DEF WaveAt
    <3>5. QED
      BY <1>a, <3>4 DEF WaveAt, WaveRows
  <2>3. ASSUME NEW w \in Workers, VerifyOne(w) PROVE UNCHANGED hostVars
    BY <2>3 DEF VerifyOne
  <2>4. ASSUME NEW w \in Workers, RetireOne(w) PROVE FALSE
    BY <1>a, <1>d, <2>4 DEF RetireOne, Written, HostTypes
  <2>5. ASSUME SoakCloses PROVE UNCHANGED hostVars
    BY <2>5 DEF SoakCloses
  <2>6. ASSUME NEW u \in Targets, Converge(u) PROVE FALSE
    BY <1>a, <1>d, <2>6 DEF Converge, HostTypes
  <2>7. ASSUME NEW p \in Outsiders, AssignOld(p) PROVE FALSE
    BY <1>a, <1>d, <2>7 DEF AssignOld, HostTypes
  <2>8. QED
    BY <1>b, <1>d, <2>1, <2>2, <2>3, <2>4, <2>5, <2>6, <2>7, HostFrame
<1> QED
  BY <1>c, <1>d

\* What a worker has in hand stays true while others act.
LEMMA WaveKept ==
  ASSUME NEW v \in Workers, WaveAt(v), Onward, run'[v] = run[v]
  PROVE  WaveAt(v)'
BY DEF WaveAt, Onward, CanariesJudged, Pending, WaveZero, Wave

\* A worker that has nothing to do with the targets any more, or not yet.
LEMMA WaveIdle ==
  ASSUME NEW w \in Workers, WaveAt(w), Onward,
         run'[w].wave = run[w].wave \/ run'[w].wave = wave \/ run'[w].wave = 0,
         run'[w].pc \notin {"stage", "staged", "toVerifying", "verify", "verified",
                            "setWave", "retire", "retired"}
  PROVE  WaveAt(w)'
BY DEF WaveAt, Onward
\* Each worker's part.
LEMMA AtStep == IInv /\ Waved /\ [Next]_vars => \A v \in Workers : WaveAt(v)'
<1> SUFFICES ASSUME IInv, Waved, [Next]_vars PROVE \A v \in Workers : WaveAt(v)'
  OBVIOUS
<1> SUFFICES ASSUME NEW v \in Workers PROVE WaveAt(v)'
  OBVIOUS
<1>a. /\ RunType /\ RowTypes /\ WaveRows /\ WaveAt(v) /\ WorkerInv(v) /\ Onward
      /\ \A w \in Workers : run[w] \in WorkerState
  BY OnwardStep DEF IInv, TypeOK, RunType, RowTypes, Waved
<1>b. ASSUME run'[v] = run[v] PROVE WaveAt(v)'
  BY <1>a, <1>b, WaveKept
<1>c. ASSUME run'[v].wave \in {run[v].wave, wave, 0},
             run'[v].pc \notin {"stage", "staged", "toVerifying", "verify", "verified",
                                "setWave", "retire", "retired"}
      PROVE  WaveAt(v)'
  BY <1>a, <1>c, WaveIdle
<1> USE DEF RunType, WorkerState, At
<1>1. ASSUME NEW w \in Workers, Step(w) PROVE WaveAt(v)'
  <2> HIDE DEF RunType
  <2>1. CASE v # w
    BY <1>1, <1>a, <1>b, <2>1, StepEffect
  <2>2. CASE v = w
    <3>1. UNCHANGED <<wave, tstate, judged>>
      BY <1>1, <1>a, StepEffect DEF rotVars, history
    <3>2. CASE run' = [run EXCEPT ![w].pc = "succeed"]
      BY <1>a, <1>c, <2>2, <3>2 DEF RunType
    <3>3. CASE /\ run'[w].wave = wave
               /\ run'[w].pc \in {"generate", "advance", "promote", "openSoak",
                                  "nextDelayed", "toRetiring"}
      BY <1>c, <2>2, <3>3
    <3>4. CASE /\ run'[w].wave = wave /\ run'[w].pc = "stage"
               /\ run'[w].todo = WaveTargets(wave, "pending")
      BY <1>a, <2>2, <3>1, <3>4 DEF WaveAt, WaveTargets, Pending, WaveZero, Wave
    <3>5. CASE /\ run'[w].wave = wave /\ run'[w].pc = "verify" /\ rstate = "verifying"
               /\ run'[w].todo = WaveTargets(wave, "staged")
      <4>1. wave = 0 => \A t \in WaveZero : tstate[t] # "pending"
        BY <1>a, <3>5 DEF WaveRows, Pending
      <4>2. \A t \in Targets : tstate[t] # "pending" /\ tstate[t] # "staged" => t \in judged
        BY <1>a DEF WaveRows, RowTypes
      <4>3. wave = 0 => WaveZero \subseteq judged \cup run'[w].todo
        BY <3>5, <4>1, <4>2 DEF WaveZero, WaveTargets
      <4>4. QED
        BY <2>2, <3>1, <3>5, <4>3 DEF WaveAt, WaveZero, Wave
    <3>6. CASE /\ run'[w].wave = wave /\ run'[w].pc = "retire"
               /\ run'[w].todo = {t \in Targets : tstate[t] = "verified"}
      BY <1>a, <2>2, <3>1, <3>6 DEF WaveAt, WaveRows
    <3>7. QED
      BY <1>1, <1>a, <3>2, <3>3, <3>4, <3>5, <3>6, StepEffect
  <2>3. QED
    BY <2>1, <2>2
<1>2. ASSUME NEW w \in Workers, Generate(w) PROVE WaveAt(v)'
  BY <1>2, <1>a, <1>b, <1>c DEF Generate
<1>3. ASSUME NEW w \in Workers, RecordKey(w) PROVE WaveAt(v)'
  BY <1>3, <1>a, <1>b, <1>c DEF RecordKey, Goto
<1>4. ASSUME NEW w \in Workers, EndDryRun(w) PROVE WaveAt(v)'
  BY <1>4, <1>a, <1>b, <1>c DEF EndDryRun, Goto
<1>5. ASSUME NEW w \in Workers, Advance(w) PROVE WaveAt(v)'
  BY <1>5, <1>a, <1>b, <1>c DEF Advance, Transition, Goto, JobFails, Stop, Idle
<1>6. ASSUME NEW w \in Workers, StageOne(w) PROVE WaveAt(v)'
  <2>1. CASE v # w
    BY <1>6, <1>a, <1>b, <2>1, TurnEffect
  <2>2. CASE v = w
    <3>1. /\ run'[v].todo = run[v].todo /\ run'[v].wave = run[v].wave
          /\ run'[v].at \in run[v].todo
          /\ UNCHANGED <<wave, tstate, judged>>
          /\ run[v].pc = "stage" /\ run'[v].pc = "staged"
      <4>1. StageOne(v)
        BY <1>6, <2>2
      <4>2. QED
        BY <1>6, <1>a, <2>2, <4>1, TurnEffect DEF rotVars, StageOne, At
    <3>2. QED
      BY <1>a, <3>1 DEF WaveAt, CanariesJudged, Pending, WaveZero, Wave
  <2>3. QED
    BY <2>1, <2>2
<1>7. ASSUME NEW w \in Workers, MarkStaged(w) PROVE WaveAt(v)'
  <2>1. CASE v # w
    BY <1>7, <1>a, <1>b, <2>1 DEF MarkStaged, Mark
  <2>2. CASE v = w
    BY <1>7, <1>a, <2>2 DEF MarkStaged, Mark, rotVars, RowTypes, WaveAt, CanariesJudged,
       Pending, WaveZero, Wave
  <2>3. QED
    BY <2>1, <2>2
<1>8. ASSUME NEW w \in Workers, StagingDone(w) PROVE WaveAt(v)'
  <2>1. CASE v # w
    BY <1>8, <1>a, <1>b, <2>1 DEF StagingDone, LoopDone, Goto
  <2>2. CASE v = w
    BY <1>8, <1>a, <2>2 DEF StagingDone, LoopDone, Goto, history, Overwrite, rotVars, WaveAt,
       WorkerInv, CanariesJudged, Pending, WaveZero, Wave, MaxWave, Waves
  <2>3. QED
    BY <2>1, <2>2
<1>9. ASSUME NEW w \in Workers, ToVerifying(w) PROVE WaveAt(v)'
  BY <1>9, <1>a, <1>b, <1>c DEF ToVerifying, Transition, Goto, JobFails, Stop, Idle
<1>10. ASSUME NEW w \in Workers, VerifyOne(w) PROVE WaveAt(v)'
  <2>1. CASE v # w
    BY <1>10, <1>a, <1>b, <2>1, TurnEffect
  <2>2. CASE v = w
    <3>1. /\ run'[v].todo = run[v].todo /\ run'[v].wave = run[v].wave
          /\ run'[v].at \in run[v].todo
          /\ UNCHANGED <<wave, tstate, judged>>
          /\ run[v].pc = "verify" /\ run'[v].pc = "verified"
      <4>1. VerifyOne(v)
        BY <1>10, <2>2
      <4>2. QED
        BY <1>10, <1>a, <2>2, <4>1, TurnEffect DEF rotVars, VerifyOne, At
    <3>2. QED
      BY <1>a, <3>1 DEF WaveAt, CanariesJudged, Pending, WaveZero, Wave
  <2>3. QED
    BY <2>1, <2>2
<1>11. ASSUME NEW w \in Workers, MarkVerified(w) PROVE WaveAt(v)'
  <2>1. CASE v # w
    BY <1>11, <1>a, <1>b, <2>1 DEF MarkVerified, Mark
  <2>2. CASE v = w
    BY <1>11, <1>a, <2>2 DEF MarkVerified, Mark, rotVars, RowTypes, WaveAt, CanariesJudged,
       Pending, WaveZero, Wave
  <2>3. QED
    BY <2>1, <2>2
<1>12. ASSUME NEW w \in Workers, VerifyingDone(w) PROVE WaveAt(v)'
  <2>1. CASE v # w
    BY <1>12, <1>a, <1>b, <2>1 DEF VerifyingDone, LoopDone, Goto
  <2>2. CASE v = w
    BY <1>12, <1>a, <2>2 DEF VerifyingDone, LoopDone, Goto, history, Overwrite, rotVars, WaveAt,
       WorkerInv, CanariesJudged, Pending, WaveZero, Wave, MaxWave, Waves
  <2>3. QED
    BY <2>1, <2>2
<1>13. ASSUME NEW w \in Workers, SetWave(w) PROVE WaveAt(v)'
  BY <1>13, <1>a, <1>b, <1>c DEF SetWave, Goto
<1>14. ASSUME NEW w \in Workers, NextWave(w) PROVE WaveAt(v)'
  BY <1>14, <1>a, <1>b, <1>c DEF NextWave, Transition, Goto, JobFails, Stop, Idle
<1>15. ASSUME NEW w \in Workers, ToVerified(w) PROVE WaveAt(v)'
  BY <1>15, <1>a, <1>b, <1>c DEF ToVerified, Transition, Goto, JobFails, Stop, Idle
<1>16. ASSUME NEW w \in Workers, Promote(w) PROVE WaveAt(v)'
  BY <1>16, <1>a, <1>b, <1>c DEF Promote, Transition, Goto, JobFails, Stop, Idle
<1>17. ASSUME NEW w \in Workers, Activate(w) PROVE WaveAt(v)'
  BY <1>17, <1>a, <1>b, <1>c DEF Activate, SetStatus, Goto
<1>18. ASSUME NEW w \in Workers, Demote(w) PROVE WaveAt(v)'
  BY <1>18, <1>a, <1>b, <1>c DEF Demote, SetStatus
<1>19. ASSUME NEW w \in Workers, Rebind(w) PROVE WaveAt(v)'
  BY <1>19, <1>a, <1>b, <1>c DEF Rebind, Goto
<1>20. ASSUME NEW w \in Workers, ReboundAll(w) PROVE WaveAt(v)'
  BY <1>20, <1>a, <1>b, <1>c DEF ReboundAll, Goto
<1>21. ASSUME NEW w \in Workers, OpenSoak(w) PROVE WaveAt(v)'
  BY <1>21, <1>a, <1>b, <1>c DEF OpenSoak, Goto
<1>22. ASSUME NEW w \in Workers, ToSoaking(w) PROVE WaveAt(v)'
  BY <1>22, <1>a, <1>b, <1>c DEF ToSoaking, Transition, Goto, JobFails, Stop, Idle
<1>23. ASSUME NEW w \in Workers, ToRetiring(w) PROVE WaveAt(v)'
  BY <1>23, <1>a, <1>b, <1>c DEF ToRetiring, Transition, Goto, JobFails, Stop, Idle
<1>24. ASSUME NEW w \in Workers, RetireOne(w) PROVE WaveAt(v)'
  <2>1. CASE v # w
    BY <1>24, <1>a, <1>b, <2>1, TurnEffect
  <2>2. CASE v = w
    <3>1. /\ run'[v].todo = run[v].todo /\ run'[v].wave = run[v].wave
          /\ run'[v].at \in run[v].todo
          /\ UNCHANGED <<wave, tstate, judged>>
          /\ run[v].pc = "retire" /\ run'[v].pc = "retired"
      <4>1. RetireOne(v)
        BY <1>24, <2>2
      <4>2. QED
        BY <1>24, <1>a, <2>2, <4>1, TurnEffect DEF rotVars, RetireOne, At
    <3>2. QED
      BY <1>a, <3>1 DEF WaveAt, CanariesJudged, Pending, WaveZero, Wave
  <2>3. QED
    BY <2>1, <2>2
<1>25. ASSUME NEW w \in Workers, MarkRetired(w) PROVE WaveAt(v)'
  <2>1. CASE v # w
    BY <1>25, <1>a, <1>b, <2>1 DEF MarkRetired, Mark
  <2>2. CASE v = w
    BY <1>25, <1>a, <2>2 DEF MarkRetired, Mark, rotVars, RowTypes, WaveAt, CanariesJudged,
       Pending, WaveZero, Wave
  <2>3. QED
    BY <2>1, <2>2
<1>26. ASSUME NEW w \in Workers, RetiringDone(w) PROVE WaveAt(v)'
  BY <1>26, <1>a, <1>b, <1>c DEF RetiringDone, Goto
<1>27. ASSUME NEW w \in Workers, Complete(w) PROVE WaveAt(v)'
  BY <1>27, <1>a, <1>b, <1>c DEF Complete, Transition, Goto, JobFails, Stop, Idle
<1>28. ASSUME NEW w \in Workers, EnqueueNext(w, "next", "queued") PROVE WaveAt(v)'
  BY <1>28, <1>a, <1>b, <1>c DEF EnqueueNext, EnqueueStep, Goto
<1>29. ASSUME NEW w \in Workers, EnqueueNext(w, "nextDelayed", "delayed") PROVE WaveAt(v)'
  BY <1>29, <1>a, <1>b, <1>c DEF EnqueueNext, EnqueueStep, Goto
<1>30. ASSUME NEW w \in Workers, Succeed(w) PROVE WaveAt(v)'
  BY <1>30, <1>a, <1>b, <1>c DEF Succeed, JobEnds, Finish, Stop, Idle
<1>31. ASSUME NEW w \in Workers, Error(w) PROVE WaveAt(v)'
  BY <1>31, <1>a, <1>b, <1>c DEF Error, Busy, JobFails, Stop, Idle
<1>32. ASSUME NEW w \in Workers, Crash(w) PROVE WaveAt(v)'
  BY <1>32, <1>a, <1>b, <1>c DEF Crash, Stop, Idle, Busy
<1>33. ASSUME NEW w \in Workers, Denied(w) PROVE WaveAt(v)'
  BY <1>33, <1>a, <1>b, <1>c DEF Denied, JobEnds, Finish, Stop, Idle
<1>34. ASSUME NEW w \in Workers, NEW k \in JobKeys, Dequeue(w, k) PROVE WaveAt(v)'
  BY <1>34, <1>a, <1>b, <1>c DEF Dequeue, Idle
<1>35. ASSUME NEW k \in JobKeys, JobDue(k) PROVE WaveAt(v)'
  BY <1>35, <1>a, <1>b, <1>c DEF JobDue
<1>36. ASSUME NEW k \in JobKeys, Reap(k) PROVE WaveAt(v)'
  BY <1>36, <1>a, <1>b, <1>c DEF Reap
<1>37. ASSUME SoakCloses PROVE WaveAt(v)'
  BY <1>37, <1>a, <1>b, <1>c DEF SoakCloses
<1>38. ASSUME TickSoak PROVE WaveAt(v)'
  BY <1>38, <1>a, <1>b, <1>c DEF TickSoak
<1>39. ASSUME Start PROVE WaveAt(v)'
  BY <1>39, <1>a, <1>b, <1>c DEF Start
<1>40. ASSUME Approve PROVE WaveAt(v)'
  BY <1>40, <1>a, <1>b, <1>c DEF Approve
<1>41. ASSUME Abort PROVE WaveAt(v)'
  BY <1>41, <1>a, <1>b, <1>c DEF Abort
<1>42. ASSUME StaleEnqueue PROVE WaveAt(v)'
  BY <1>42, <1>a, <1>b, <1>c DEF StaleEnqueue
<1>43. ASSUME NEW t \in Targets, Converge(t) PROVE WaveAt(v)'
  BY <1>43, <1>a, <1>b, <1>c DEF Converge
<1>44. ASSUME NEW p \in Outsiders, AssignOld(p) PROVE WaveAt(v)'
  BY <1>44, <1>a, <1>b, <1>c DEF AssignOld
<1>45. CASE UNCHANGED vars
  BY <1>45, <1>b DEF vars
<1> QED
  BY <1>1, <1>2, <1>3, <1>4, <1>5, <1>6, <1>7, <1>8, <1>9, <1>10, <1>11, <1>12,
     <1>13, <1>14, <1>15, <1>16, <1>17, <1>18, <1>19, <1>20, <1>21, <1>22,
     <1>23, <1>24, <1>25, <1>26, <1>27, <1>28, <1>29, <1>30, <1>31, <1>32,
     <1>33, <1>34, <1>35, <1>36, <1>37, <1>38, <1>39, <1>40, <1>41, <1>42,
     <1>43, <1>44, <1>45
     DEF Next, Work, Planned, Staging, Verifying, Promoting, Soaking, Retiring, Ending
-----------------------------------------------------------------------------
(* The theorems.                                                           *)

LEMMA GateInit == Init => GateInv
<1> SUFFICES ASSUME Init PROVE GateInv
  OBVIOUS
<1> USE RotationAssumption DEF Init
<1>1. LeaseInv /\ EarlyInv
  BY DEF LeaseInv, EarlyInv, Idle, Unborn, Early
<1>2. OneSuccessor
  BY DEF OneSuccessor, Principals
<1>3. WaveRows
  BY DEF WaveRows, Unborn
<1>4. WaveHosts
  BY DEF WaveHosts, Principals
<1>5. \A w \in Workers : WaveAt(w)
  BY DEF WaveAt, Idle
<1> QED
  BY <1>1, <1>2, <1>3, <1>4, <1>5 DEF GateInv

LEMMA GateStep == IInv /\ GateInv /\ [Next]_vars => GateInv'
  BY LeaseStep, EarlyStep, SuccessorStep, RowsStep, HostsStep, AtStep
     DEF GateInv, Waved

LEMMA GateInvariant == Spec => [](IInv /\ GateInv)
<1>1. Init => IInv /\ GateInv
  BY RotationInit, GateInit
<1>2. (IInv /\ GateInv) /\ [Next]_vars => (IInv /\ GateInv)'
  BY RotationStep, GateStep
<1> QED
  BY <1>1, <1>2, PTL DEF Spec

\* No second-wave target receives the successor before each canary was verified
\* or given up, whatever crashes, errors, retries and second drivers do: the
\* number of the wave is only raised by a worker that has been through all of
\* wave 0, and a worker that lags behind holds first-wave targets only.
THEOREM RotationCanaryFirst == Spec => []CanaryFirst
<1>1. GateInv => CanaryFirst
  BY DEF GateInv, WaveHosts, CanaryFirst, CanariesJudged, WaveZero
<1> QED
  BY <1>1, GateInvariant, PTL

\* No target is ever left with neither the old key nor the successor that the
\* rotation has recorded: only one worker generates, so a successor that was
\* made and not recorded is never installed.
THEOREM RotationNeverKeyless == Spec => []NeverKeyless
<1>1. GateInv => NeverKeyless
  BY DEF GateInv, OneSuccessor, NeverKeyless
<1> QED
  BY <1>1, GateInvariant, PTL

=============================================================================
