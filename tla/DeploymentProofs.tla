-------------------------- MODULE DeploymentProofs --------------------------
(***************************************************************************)
(* What holds of Deployment for any keys, principals, platforms, workers   *)
(* and faults.                                                             *)
(*                                                                         *)
(* Whether a write may empty an account is decided when it is planned, so  *)
(* the invariant carries the decision to the write: Sound says what a      *)
(* worker's plan and the machine have in common until somebody else        *)
(* changes the machine, from which point the worker is stale.              *)
(***************************************************************************)
EXTENDS Deployment, FiniteSetTheorems, TLAPS

Sound(r, content, kind, known) ==
  /\ r.pc # "idle" => r.p \in Principals
  /\ r.pc = "write" /\ kind = "file" =>
       /\ (r.saw \cup r.add) \ r.remove # {}
       /\ r.stale \/ r.saw = content
  /\ r.pc = "write" /\ kind \in {"api", "device"} =>
       \/ r.stale \/ r.remove = {}
       \/ (content \cup r.add) \ r.remove # {}
  /\ r.pc = "write" /\ kind = "blind" => r.remove = {}
  /\ r.pc = "write" /\ kind = "single" => r.add # {} /\ AtMostOne(r.add)
  /\ r.pc = "write" /\ kind \notin {"single", "script"} => r.remove \subseteq known
  /\ r.pc \in {"write", "readback"} /\ kind = "file" =>
       r.goal \subseteq (r.saw \cup r.add) \ r.remove
  /\ r.pc = "record" /\ kind \notin {"script", "blind"} => r.stale \/ r.goal \subseteq content
  /\ r.pc = "restore" => r.remove = {}

SingleHoldsOne ==
  \A p \in Principals : platform[p] = "single" => AtMostOne(host[p])

WorkersSound ==
  \A w \in Workers :
    Sound(run[w], host[run[w].p], platform[run[w].p], Managed)

DeploymentInv == TypeOK /\ SingleHoldsOne /\ WorkersSound

-----------------------------------------------------------------------------
\* A plan that is not refused leaves a key behind, where the guard looks.
LEMMA PlanKeepsOne ==
  ASSUME NEW kind, NEW saw \in SUBSET Fingerprints, NEW goal, NEW known, NEW prune,
         ~Refuses(kind, goal, saw, ToAdd(saw, goal),
                  ToRemove(kind, saw, goal, known, prune))
  PROVE  LET add    == ToAdd(saw, goal)
             remove == ToRemove(kind, saw, goal, known, prune)
         IN  /\ kind = "file" => (saw \cup add) \ remove # {}
             /\ kind \in {"api", "device"} =>
                  remove = {} \/ (saw \cup add) \ remove # {}
             /\ kind # "single" => remove \subseteq known
             /\ saw = {} => remove = {}
             /\ goal \subseteq (saw \cup add) \ remove
<1> DEFINE add == ToAdd(saw, goal)
           remove == ToRemove(kind, saw, goal, known, prune)
<1>1. remove \subseteq saw \ goal
  BY DEF ToRemove, Prunable
<1>2. goal \subseteq (saw \cup add) \ remove
  BY <1>1 DEF ToAdd
<1>3. ASSUME kind = "api", remove # {}, (saw \cup add) \ remove = {}
      PROVE  FALSE
  <2>1. add = {} /\ remove = saw
    BY <1>1, <1>3 DEF ToAdd
  <2>2. IsFiniteSet(saw)
    BY DeploymentAssumption, FS_Subset DEF DeploymentAssumption, Fingerprints
  <2>3. Cardinality(saw) \in Nat /\ Cardinality(add) = 0
    BY <2>1, <2>2, FS_CardinalityType, FS_EmptySet
  <2>4. Cardinality(saw) + Cardinality(add) - Cardinality(remove) <= 0
    BY <2>1, <2>3
  <2> QED BY <1>3, <2>4 DEF Refuses, FileRefuses, ApiRefuses, DeviceRefuses
<1>4. ASSUME kind = "device", remove # {}
      PROVE  (saw \cup add) \ remove # {}
  BY <1>2, <1>4 DEF Refuses, FileRefuses, ApiRefuses, DeviceRefuses, Devices
<1>5. kind # "single" => remove \subseteq known
  BY DEF ToRemove, Prunable
<1> QED BY <1>1, <1>2, <1>3, <1>4, <1>5 DEF Refuses, FileRefuses

\* A plan on a single-key platform that changes anything adds the one key.
LEMMA SinglePlanAdds ==
  ASSUME NEW saw \in SUBSET Fingerprints, AtMostOne(saw),
         NEW goal \in SUBSET Fingerprints, NEW known \in SUBSET Fingerprints,
         NEW prune \in BOOLEAN,
         NEW add, add = ToAdd(saw, goal),
         NEW remove, remove = ToRemove("single", saw, goal, known, prune),
         ~Refuses("single", goal, saw, add, remove),
         ~(add = {} /\ remove = {})
  PROVE  add # {} /\ AtMostOne(add)
<1>1. AtMostOne(goal) /\ (goal = {} => remove = {})
  BY DEF Refuses, FileRefuses, ApiRefuses, DeviceRefuses, Devices
<1>2. add \subseteq goal
  BY DEF ToAdd
<1>3. add # {}
  <2> SUFFICES ASSUME add = {} PROVE FALSE
    OBVIOUS
  <2>1. goal \subseteq saw /\ remove \subseteq saw \ goal
    BY DEF ToAdd, ToRemove, Prunable
  <2>2. goal # {} /\ remove # {}
    BY <1>1
  <2> QED BY <2>1, <2>2 DEF AtMostOne
<1> QED BY <1>1, <1>2, <1>3 DEF AtMostOne

\* Soundness of a plan survives whatever adds to what SKM knows, and whatever
\* changes the machine as long as the worker is marked stale.
LEMMA SoundKept ==
  ASSUME NEW r, NEW content, NEW kind, NEW known, NEW more,
         known \subseteq more, Sound(r, content, kind, known)
  PROVE  Sound(r, content, kind, more)
BY DEF Sound

-----------------------------------------------------------------------------
\* Type correctness, action by action.
LEMMA FreeIsRun == Free \in Runs
BY DEF Free, Runs, Steps

LEMMA TypeInit == Init => TypeOK
<1>1. Created \in Seq(Fingerprints)
  BY DeploymentAssumption DEF DeploymentAssumption, Fingerprints
<1> QED BY <1>1, FreeIsRun, DeploymentAssumption
        DEF Init, TypeOK, DeploymentAssumption, Fingerprints

LEMMA PageType == TypeOK => Page \in SUBSET Fingerprints
<1> SUFFICES ASSUME TypeOK, NEW i \in DOMAIN newest PROVE newest[i] \in Fingerprints
  BY DEF Page
<1>1. newest \in Seq(Fingerprints)
  BY DEF TypeOK
<1> QED BY <1>1

\* What Apply sees of the machine.
LEMMA ListedType ==
  ASSUME NEW kind, NEW content \in SUBSET Fingerprints
  PROVE  /\ Listed(kind, content) \in SUBSET Fingerprints
         /\ kind # "blind" => Listed(kind, content) = content
         /\ kind = "blind" => Listed(kind, content) = {}
BY DEF Listed

\* On the way from a write to its read-back.
LEMMA SentIs ==
  ASSUME NEW r \in Runs
  PROVE  /\ Sent(r) \in Runs /\ Sent(r).p = r.p
         /\ Sent(r).pc = IF platform[r.p] = "blind" THEN "record" ELSE "readback"
         /\ Sent(r).saw = r.saw /\ Sent(r).add = r.add /\ Sent(r).remove = r.remove
         /\ Sent(r).goal = r.goal /\ Sent(r).stale = r.stale
<1>1. [r EXCEPT !.pc = "record"] \in Runs /\ [r EXCEPT !.pc = "readback"] \in Runs
  BY DEF Runs, Steps
<1> QED BY <1>1 DEF Sent, Runs

LEMMA MovesType ==
  ASSUME TypeOK, NEW w \in Workers, NEW r \in Runs, Moves(w, r)
  PROVE  run' \in [Workers -> Runs]
BY DEF Moves, TypeOK

LEMMA ChangesType ==
  ASSUME TypeOK, NEW w, NEW r \in Runs, NEW p \in Principals,
         NEW content \in SUBSET Fingerprints, Changes(w, r, p, content)
  PROVE  /\ run' \in [Workers -> Runs]
         /\ host' \in [Principals -> SUBSET Fingerprints]
<1>1. ASSUME NEW v \in Workers
      PROVE  run[v] \in Runs /\ [run[v] EXCEPT !.stale = TRUE] \in Runs
  BY DEF TypeOK, Runs
<1> QED BY <1>1 DEF Changes, TypeOK

LEMMA EndedType ==
  ASSUME NEW r \in Runs, NEW failed
  PROVE  Ended(r, failed) \in Runs
BY DEF Ended, Free, Runs, Steps

LEMMA CountersType ==
  ASSUME TypeOK
  PROVE  /\ \A kind : Edit(kind) => edits' \in 0 .. MaxEdits
         /\ \A kind : Fault(kind) => faults' \in 0 .. MaxFaults
BY DeploymentAssumption DEF TypeOK, Edit, Fault, DeploymentAssumption

LEMMA VerifyNextType ==
  ASSUME NEW r \in Runs, NEW f
  PROVE  VerifyNext(r, f) \in Runs
BY DEF VerifyNext, Runs, Steps

LEMMA TypeStep ==
  ASSUME TypeOK, WorkersSound, [Next]_vars
  PROVE  TypeOK'
<1> USE DEF rows
<1>0. CASE UNCHANGED vars
  BY <1>0 DEF vars, TypeOK
<1>r. ASSUME NEW w \in Workers
      PROVE  run[w] \in Runs /\ (run[w].pc # "idle" => run[w].p \in Principals)
  BY DEF TypeOK, WorkersSound, Sound
<1>1. ASSUME NEW w \in Workers, Step(w)
      PROVE  TypeOK'
  <2>1. run[w] \in Runs /\ (run[w].pc # "idle" => run[w].p \in Principals)
    BY <1>r
  <2>2. CASE HealPrepares(w)
    <3>1. [run[w] EXCEPT !.goal = Desired(run[w].p), !.pc = "plan"] \in Runs
      BY <2>1 DEF Runs, Steps, Desired
    <3> QED BY <3>1, <2>1, <2>2, MovesType DEF HealPrepares, Prepares, TypeOK
  <2>3. CASE PlanApply(w)
    <3> DEFINE p == run[w].p
               saw == Listed(platform[p], host[p])
               add == ToAdd(saw, run[w].goal)
               remove == ToRemove(platform[p], saw, run[w].goal, Managed, run[w].prune)
               plan == [run[w] EXCEPT !.saw = saw]
    <3>0. p \in Principals /\ host[p] \in SUBSET Fingerprints
      BY <2>1, <2>3 DEF PlanApply, TypeOK
    <3>1. p \in Principals /\ saw \in SUBSET Fingerprints
      BY <3>0, ListedType
    <3>2. add \in SUBSET Fingerprints /\ remove \in SUBSET Fingerprints
      BY <3>1, <2>1 DEF Runs, ToAdd, ToRemove, Prunable
    <3>3. /\ [plan EXCEPT !.pc = "write"] \in Runs
          /\ [plan EXCEPT !.pc = "record"] \in Runs
          /\ [plan EXCEPT !.pc = "write", !.add = add, !.remove = remove] \in Runs
          /\ [run[w] EXCEPT !.pc = "failed"] \in Runs
      BY <3>1, <3>2, <2>1 DEF Runs, Steps
    <3>4. \E r \in Runs : Moves(w, r)
      BY <3>3, <2>3, FreeIsRun DEF PlanApply
    <3> QED BY <3>4, <2>3, MovesType DEF PlanApply, TypeOK
  <2>4. CASE WriteFile(w)
    <3>1. [run[w] EXCEPT !.pc = "readback"] \in Runs
      BY <2>1 DEF Runs, Steps
    <3>2. (run[w].saw \cup run[w].add) \ run[w].remove \in SUBSET Fingerprints
      BY <2>1 DEF Runs
    <3>3. run' \in [Workers -> Runs] /\ host' \in [Principals -> SUBSET Fingerprints]
      <4>1. run[w].p \in Principals
        BY <2>1, <2>4 DEF WriteFile
      <4> QED BY <3>1, <3>2, <4>1, <2>4, ChangesType DEF WriteFile
    <3> QED BY <3>3, <2>4 DEF WriteFile, TypeOK
  <2>5. CASE AddOne(w)
    <3> PICK f \in run[w].add :
          Changes(w, Called([run[w] EXCEPT !.add = @ \ {f}]), run[w].p,
                  host[run[w].p] \cup {f})
      BY <2>5 DEF AddOne
    <3>1. Called([run[w] EXCEPT !.add = @ \ {f}]) \in Runs
      BY <2>1 DEF Called, Runs, Steps
    <3>2. run[w].p \in Principals /\ host[run[w].p] \cup {f} \in SUBSET Fingerprints
      BY <2>1, <2>5 DEF AddOne, Runs, TypeOK
    <3> QED BY <3>1, <3>2, <2>5, ChangesType DEF AddOne, TypeOK
  <2>6. CASE RemoveOne(w)
    <3> PICK f \in run[w].remove :
          Changes(w, Called([run[w] EXCEPT !.remove = @ \ {f}]), run[w].p,
                  host[run[w].p] \ {f})
      BY <2>6 DEF RemoveOne
    <3>1. Called([run[w] EXCEPT !.remove = @ \ {f}]) \in Runs
      BY <2>1 DEF Called, Runs, Steps
    <3>2. run[w].p \in Principals /\ host[run[w].p] \ {f} \in SUBSET Fingerprints
      BY <2>1, <2>6 DEF RemoveOne, Runs, TypeOK
    <3> QED BY <3>1, <3>2, <2>6, ChangesType DEF RemoveOne, TypeOK
  <2>7. CASE RunBatch(w)
    <3>1. Sent(run[w]) \in Runs
      BY <2>1, SentIs
    <3>2. /\ run[w].p \in Principals
          /\ AfterBatch(platform[run[w].p], host[run[w].p], run[w].add, run[w].remove)
               \in SUBSET Fingerprints
      BY <2>1, <2>7 DEF RunBatch, AfterBatch, Runs, TypeOK
    <3>3. run' \in [Workers -> Runs] /\ host' \in [Principals -> SUBSET Fingerprints]
      BY <3>1, <3>2, <2>7, ChangesType DEF RunBatch
    <3> QED BY <3>3, <2>7 DEF RunBatch, TypeOK
  <2>8. CASE CallScript(w)
    <3> PICK content \in AfterScript(host[run[w].p], run[w].goal, run[w].prune) :
          Changes(w, [run[w] EXCEPT !.pc = "readback"], run[w].p, content)
      BY <2>8 DEF CallScript
    <3>1. [run[w] EXCEPT !.pc = "readback"] \in Runs
      BY <2>1 DEF Runs, Steps
    <3>2. run[w].p \in Principals /\ content \in SUBSET Fingerprints
      <4>1. host[run[w].p] \subseteq Fingerprints /\ run[w].goal \subseteq Fingerprints
        BY <2>1, <2>8 DEF CallScript, Runs, TypeOK
      <4> QED BY <4>1, <2>1, <2>8 DEF CallScript, AfterScript
    <3> QED BY <3>1, <3>2, <2>8, ChangesType DEF CallScript, TypeOK
  <2>9. CASE ReadBack(w)
    <3>1. \A pc \in Steps : [run[w] EXCEPT !.stale = FALSE, !.pc = pc] \in Runs
      BY <2>1 DEF Runs
    <3>2. \E r \in Runs : Moves(w, r)
      BY <3>1, <2>9 DEF ReadBack, Steps
    <3> QED BY <3>2, <2>9, MovesType DEF ReadBack, TypeOK
  <2>10. CASE RecordFailure(w)
    <3>1. run'[w] \in Runs /\ run' \in [Workers -> Runs]
      BY <2>1, <2>10, FreeIsRun, EndedType DEF RecordFailure, Moves, Runs, Steps, TypeOK
    <3> QED BY <3>1, <2>1, <2>10 DEF RecordFailure, TypeOK
  <2>11. CASE Record(w)
    <3>1. \A pc \in Steps : [run[w] EXCEPT !.pc = pc, !.todo = run[w].goal, !.saw = {},
            !.add = {}, !.remove = {}, !.stale = FALSE] \in Runs
      BY <2>1 DEF Runs
    <3>2. \E r \in Runs : Moves(w, r)
      BY <3>1, <2>11 DEF Record, Steps
    <3> QED BY <3>2, <2>11, MovesType DEF Record, TypeOK
  <2>12. CASE SkipsVerify(w)
    <3>1. \E r \in Runs : Moves(w, r)
      BY <2>1, <2>12, VerifyNextType DEF SkipsVerify, Fingerprints
    <3>2. run' \in [Workers -> Runs]
      BY <3>1, MovesType
    <3> QED BY <3>2, <2>1, <2>12 DEF SkipsVerify, TypeOK, Fault, Fingerprints, Runs
  <2>13. CASE Authenticates(w)
    <3>0. \A f \in Fingerprints : [run[w] EXCEPT !.pc = "promote", !.key = f] \in Runs
      BY <2>1 DEF Runs, Steps
    <3>1. \E r \in Runs : Moves(w, r)
      BY <3>0, <2>1, <2>13, VerifyNextType DEF Authenticates, Fingerprints
    <3>2. run' \in [Workers -> Runs]
      BY <3>1, MovesType
    <3> QED BY <3>2, <2>1, <2>13 DEF Authenticates, TypeOK, Fault, Fingerprints, Runs
  <2>14. CASE FailsToAuthenticate(w)
    <3>1. \E r \in Runs : Moves(w, r)
      BY <2>1, <2>14, VerifyNextType DEF FailsToAuthenticate, Fingerprints
    <3>2. run' \in [Workers -> Runs]
      BY <3>1, MovesType
    <3>3. faults' \in 0 .. MaxFaults
      BY <2>14, CountersType DEF FailsToAuthenticate, TypeOK
    <3>4. actual' \in [Principals ->
            [Fingerprints -> {"unknown", "present", "absent", "error"}]]
      <4>1. run[w].p \in Principals
        BY <2>1, <2>14 DEF FailsToAuthenticate
      <4>2. PICK f \in Fingerprints : actual' = [actual EXCEPT ![run[w].p][f] =
              IF want[run[w].p][f] = "none" THEN @ ELSE "error"]
        BY <2>14 DEF FailsToAuthenticate, Fingerprints
      <4> QED BY <4>1, <4>2 DEF TypeOK
    <3> QED BY <3>2, <3>3, <3>4, <2>14 DEF FailsToAuthenticate, TypeOK
  <2>15. CASE Promote(w)
    <3>1. \E r \in Runs : Moves(w, r)
      BY <2>1, <2>15, VerifyNextType DEF Promote, Fingerprints
    <3>2. run' \in [Workers -> Runs]
      BY <3>1, MovesType
    <3>3. status' \in [Fingerprints -> {"none", "pending", "active", "revoked"}]
      BY <2>15 DEF Promote, TypeOK
    <3> QED BY <3>2, <3>3, <2>15 DEF Promote, TypeOK
  <2>16. CASE SetInSync(w)
    <3>1. run'[w] \in Runs /\ run' \in [Workers -> Runs]
      BY <2>1, <2>16, FreeIsRun, EndedType DEF SetInSync, Moves, Runs, Steps, TypeOK
    <3> QED BY <3>1, <2>1, <2>16 DEF SetInSync, TypeOK
  <2>17. CASE ResetDrift(w)
    <3>1. run'[w] \in Runs /\ run' \in [Workers -> Runs]
      BY <2>1, <2>17, FreeIsRun, EndedType DEF ResetDrift, Moves, Runs, Steps, TypeOK
    <3> QED BY <3>1, <2>1, <2>17 DEF ResetDrift, TypeOK
  <2>18. CASE Compare(w)
    <3>1. \A pc \in Steps, drifted, prune, prove \in BOOLEAN :
            [Free EXCEPT !.op = "sweep", !.p = run[w].p, !.drifted = drifted,
                         !.pc = pc, !.prune = prune, !.prove = prove] \in Runs
      BY <2>1 DEF Runs, Free
    <3>2. \A pc \in Steps, drifted \in BOOLEAN :
            [Free EXCEPT !.op = "sweep", !.p = run[w].p, !.drifted = drifted,
                         !.pc = pc] \in Runs
      BY <2>1 DEF Runs, Free
    <3>3. \E r \in Runs : Moves(w, r)
      BY <3>1, <3>2, <2>18 DEF Compare, Steps
    <3>4. run' \in [Workers -> Runs]
      BY <3>3, MovesType
    <3> QED BY <3>4, <2>1, <2>18 DEF Compare, Observed, TypeOK
  <2>19. CASE Judge(w)
    <3>1. run'[w] \in Runs /\ run' \in [Workers -> Runs]
      BY <2>1, <2>19, FreeIsRun, EndedType DEF Judge, Moves, Runs, Steps, TypeOK
    <3> QED BY <3>1, <2>1, <2>19 DEF Judge, TypeOK
  <2>20. CASE AdoptAssigns(w)
    <3>1. run'[w] \in Runs /\ run' \in [Workers -> Runs]
      BY <2>1, <2>20, FreeIsRun, EndedType DEF AdoptAssigns, Moves, Runs, Steps, TypeOK
    <3> QED BY <3>1, <2>1, <2>20 DEF AdoptAssigns, TypeOK
  <2>21. CASE AdoptMarks(w)
    <3>1. run'[w] \in Runs /\ run' \in [Workers -> Runs]
      BY <2>1, <2>21, FreeIsRun, EndedType DEF AdoptMarks, Moves, Runs, Steps, TypeOK
    <3> QED BY <3>1, <2>1, <2>21 DEF AdoptMarks, TypeOK
  <2>22. CASE Restore(w)
    <3>1. run[w].p \in Principals /\ run[w].goal \in SUBSET Fingerprints
      BY <2>1, <2>22 DEF Restore, Runs
    <3>2. [run[w] EXCEPT !.pc = "reset"] \in Runs
      BY <2>1 DEF Runs, Steps
    <3>3. \A pc \in Steps : [run[w] EXCEPT !.pc = pc,
                               !.add = run[w].goal \ host[run[w].p]] \in Runs
      BY <2>1, <3>1 DEF Runs
    <3>4. CASE Changes(w, [run[w] EXCEPT !.pc = "reset"], run[w].p, run[w].goal)
      <4>1. run' \in [Workers -> Runs] /\ host' \in [Principals -> SUBSET Fingerprints]
        BY <3>1, <3>2, <3>4, ChangesType
      <4> QED BY <4>1, <2>22 DEF Restore, TypeOK
    <3>5. CASE /\ \E r \in Runs : Moves(w, r)
               /\ UNCHANGED host
      BY <3>5, <2>22, MovesType DEF Restore, TypeOK
    <3> QED BY <3>3, <3>4, <3>5, <2>22 DEF Restore, Steps
  <2> QED BY <1>1, <2>2, <2>3, <2>4, <2>5, <2>6, <2>7, <2>8, <2>9, <2>10, <2>11,
             <2>12, <2>13, <2>14, <2>15, <2>16, <2>17, <2>18, <2>19, <2>20,
             <2>21, <2>22 DEF Step
<1>2. ASSUME NEW w \in Workers, BatchStops(w)
      PROVE  TypeOK'
  <2>1. /\ run[w] \in Runs /\ run[w].p \in Principals
        /\ host[run[w].p] \in SUBSET Fingerprints
        /\ run[w].add \in SUBSET Fingerprints
    BY <1>2, <1>r DEF BatchStops, Runs, TypeOK
  <2>2. [run[w] EXCEPT !.pc = "failed"] \in Runs
    BY <2>1 DEF Runs, Steps
  <2>3. \E content \in SUBSET Fingerprints :
          Changes(w, [run[w] EXCEPT !.pc = "failed"], run[w].p, content)
    <3>1. ASSUME NEW A \in SUBSET run[w].add
          PROVE  host[run[w].p] \cup A \in SUBSET Fingerprints
      BY <2>1
    <3>2. ASSUME NEW R \in SUBSET run[w].remove
          PROVE  AfterBatch(platform[run[w].p], host[run[w].p], run[w].add, R)
                   \in SUBSET Fingerprints
      BY <2>1 DEF AfterBatch
    <3> QED BY <1>2, <3>1, <3>2 DEF BatchStops
  <2>4. run' \in [Workers -> Runs] /\ host' \in [Principals -> SUBSET Fingerprints]
    BY <2>1, <2>2, <2>3, ChangesType
  <2> QED BY <2>4, <1>2, CountersType DEF BatchStops, TypeOK
<1>3. ASSUME NEW w \in Workers, CallFails(w) \/ Crash(w) \/ WriteIsLost(w)
      PROVE  TypeOK'
  <2>1. /\ run[w] \in Runs /\ [run[w] EXCEPT !.pc = "failed"] \in Runs
        /\ Sent(run[w]) \in Runs
    BY <1>r, SentIs DEF Runs, Steps
  <2>2. \E r \in Runs : Moves(w, r)
    BY <2>1, <1>3, FreeIsRun, EndedType DEF CallFails, Crash, WriteIsLost
  <2>3. run' \in [Workers -> Runs] /\ faults' \in 0 .. MaxFaults
    BY <2>2, <1>3, MovesType, CountersType DEF CallFails, Crash, WriteIsLost
  <2> QED BY <2>3, <1>3 DEF CallFails, Crash, WriteIsLost, TypeOK
<1>4. ASSUME NEW w \in Workers, NEW p \in Principals, StartSweep(w, p)
      PROVE  TypeOK'
  <2> DEFINE r == [Free EXCEPT !.op = "sweep", !.p = p]
  <2>1. /\ [r EXCEPT !.pc = "compare", !.saw = host[p], !.known = Page] \in Runs
        /\ [r EXCEPT !.pc = "judge", !.drifted = TRUE] \in Runs
    BY PageType DEF Free, Runs, Steps, TypeOK
  <2>2. \E s \in Runs : Moves(w, s)
    BY <2>1, <1>4 DEF StartSweep
  <2>3. run' \in [Workers -> Runs] /\ faults' \in 0 .. MaxFaults
    BY <2>2, <1>4, MovesType, CountersType DEF StartSweep, TypeOK
  <2> QED BY <2>3, <1>4 DEF StartSweep, TypeOK
<1>5. ASSUME NEW w \in Workers, NEW p \in Principals, RequestRollback(w, p)
      PROVE  TypeOK'
  <2>1. \A content \in SUBSET Fingerprints :
          [Free EXCEPT !.pc = "restore", !.op = "rollback", !.p = p,
                       !.goal = content] \in Runs
    BY DEF Free, Runs, Steps
  <2>2. \E r \in Runs : Moves(w, r)
    BY <2>1, <1>5 DEF RequestRollback, TypeOK
  <2>3. snaps' \in [Principals -> SUBSET SUBSET Fingerprints]
    BY <1>5 DEF RequestRollback, TypeOK
  <2> QED BY <2>2, <2>3, <1>5, MovesType, CountersType DEF RequestRollback, TypeOK
<1>6. ASSUME NEW w \in Workers, NEW p \in Principals, NEW dry \in BOOLEAN,
             RequestDeploy(w, p, dry)
      PROVE  TypeOK'
  <2>1. \A prune, prove \in BOOLEAN :
          [[Free EXCEPT !.op = "deploy", !.p = p, !.prune = prune, !.prove = prove,
                        !.dry = dry]
             EXCEPT !.goal = Desired(p), !.pc = "plan"] \in Runs
    BY DEF Free, Runs, Steps, Desired
  <2>2. PICK prune \in BOOLEAN, prove \in BOOLEAN :
          Prepares(w, [Free EXCEPT !.op = "deploy", !.p = p, !.prune = prune,
                                   !.prove = prove, !.dry = dry])
    BY <1>6 DEF RequestDeploy
  <2>3. \E r \in Runs : Moves(w, r)
    BY <2>1, <2>2 DEF Prepares, Free
  <2>4. snaps' \in [Principals -> SUBSET SUBSET Fingerprints]
    BY <2>2 DEF Prepares, Free, TypeOK
  <2> QED BY <2>3, <2>4, <1>6, MovesType, CountersType DEF RequestDeploy, TypeOK
<1>7. ASSUME NEW w \in Workers, NEW p \in Principals, NEW f \in Strangers,
             Adopt(w, p, f)
      PROVE  TypeOK'
  <2>1. [Free EXCEPT !.pc = "assign", !.op = "adopt", !.p = p, !.key = f] \in Runs
    BY DEF Free, Runs, Steps, Fingerprints
  <2>2. run' \in [Workers -> Runs] /\ edits' \in 0 .. MaxEdits
    BY <2>1, <1>7, MovesType, CountersType DEF Adopt
  <2>3. status' \in [Fingerprints -> {"none", "pending", "active", "revoked"}]
    BY <1>7 DEF Adopt, TypeOK
  <2>4. newest' \in Seq(Fingerprints)
    BY <1>7 DEF Adopt, TypeOK, Fingerprints
  <2> QED BY <2>2, <2>3, <2>4, <1>7 DEF Adopt, TypeOK
<1>8. ASSUME NEW p \in Principals, NEW f \in Fingerprints,
             Assign(p, f) \/ AssignAbsent(p, f) \/ Unassign(p, f) \/ Ignore(p, f)
      PROVE  TypeOK'
  <2>1. edits' \in 0 .. MaxEdits
    BY <1>8, CountersType DEF Assign, AssignAbsent, Unassign, Ignore
  <2>2. CASE Assign(p, f) \/ AssignAbsent(p, f)
    <3>1. want' \in [Principals -> [Fingerprints -> {"none", "present", "absent"}]]
      <4>1. PICK d \in {"present", "absent"} : want' = [want EXCEPT ![p][f] = d]
        BY <2>2 DEF Assign, AssignAbsent
      <4> QED BY <4>1 DEF TypeOK
    <3>2. UNCHANGED <<platform, host, status, newest, actual, drift, found, snaps, run, faults>>
      BY <2>2 DEF Assign, AssignAbsent
    <3> QED BY <2>1, <3>1, <3>2 DEF TypeOK
  <2>3. CASE Unassign(p, f)
    BY <2>1, <2>3 DEF Unassign, TypeOK
  <2>4. CASE Ignore(p, f)
    BY <2>1, <2>4 DEF Ignore, TypeOK
  <2> QED BY <1>8, <2>2, <2>3, <2>4
<1>9. ASSUME NEW p \in Principals, NEW f \in Fingerprints, HandEdit(p, f)
      PROVE  TypeOK'
  <2>1. \E content \in SUBSET Fingerprints : Changes(Nobody, Free, p, content)
    <3>1. host[p] \cup {f} \in SUBSET Fingerprints /\ host[p] \ {f} \in SUBSET Fingerprints
      BY DEF TypeOK
    <3> QED BY <3>1, <1>9 DEF HandEdit
  <2>2. run' \in [Workers -> Runs] /\ host' \in [Principals -> SUBSET Fingerprints]
    BY <2>1, ChangesType, FreeIsRun
  <2> QED BY <2>2, <1>9, CountersType DEF HandEdit, TypeOK
<1>10. ASSUME NEW f \in Fingerprints, Revoke(f)
       PROVE  TypeOK'
  BY <1>10, CountersType DEF Revoke, TypeOK
<1>11. ASSUME NEW p \in Principals, SweepFails(p)
       PROVE  TypeOK'
  BY <1>11, CountersType DEF SweepFails, TypeOK
<1> QED BY <1>0, <1>1, <1>2, <1>3, <1>4, <1>5, <1>6, <1>7, <1>8, <1>9, <1>10, <1>11 DEF Next

-----------------------------------------------------------------------------
\* Soundness of the workers.
LEMMA SoundInit == Init => SingleHoldsOne /\ WorkersSound
BY DEF Init, SingleHoldsOne, WorkersSound, Sound, Free

\* A step that leaves the machines alone.
LEMMA QuietKeeps ==
  ASSUME DeploymentInv, NEW w \in Workers, NEW r, Moves(w, r),
         UNCHANGED <<platform, host>>, Managed \subseteq Managed',
         Sound(r, host[r.p], platform[r.p], Managed')
  PROVE  SingleHoldsOne' /\ WorkersSound'
<1>1. SingleHoldsOne'
  BY DEF DeploymentInv, SingleHoldsOne
<1>2. ASSUME NEW v \in Workers, v # w
      PROVE  Sound(run'[v], host'[run'[v].p], platform'[run'[v].p], Managed')
  <2>1. run'[v] = run[v]
    BY <1>2 DEF Moves, DeploymentInv, TypeOK
  <2> QED BY <2>1, <1>2, SoundKept DEF DeploymentInv, WorkersSound
<1>3. run'[w] = r
  BY DEF Moves, DeploymentInv, TypeOK
<1> QED BY <1>1, <1>2, <1>3 DEF WorkersSound

\* A step that also leaves w holding no reading of a machine.
LEMMA LetsGoKeeps ==
  ASSUME DeploymentInv, NEW w \in Workers, NEW r, Moves(w, r),
         UNCHANGED <<platform, host>>, Managed \subseteq Managed',
         r.pc \notin Holding \cup {"restore"}, r.pc # "idle" => r.p \in Principals
  PROVE  SingleHoldsOne' /\ WorkersSound'
<1>1. Sound(r, host[r.p], platform[r.p], Managed')
  BY DEF Sound, Holding
<1> QED BY <1>1, QuietKeeps

\* A step that changes a machine: the other workers on it turn stale.
LEMMA ChangesKeeps ==
  ASSUME DeploymentInv, NEW w, NEW r, NEW p \in Principals, NEW content,
         Changes(w, r, p, content), UNCHANGED <<platform, status>>,
         w \in Workers => Sound(r, host'[r.p], platform[r.p], Managed),
         platform[p] = "single" => AtMostOne(content)
  PROVE  SingleHoldsOne' /\ WorkersSound'
<1>1. SingleHoldsOne'
  BY DEF DeploymentInv, SingleHoldsOne, Changes, TypeOK
<1>2. Managed' = Managed
  BY DEF Managed
<1>3. ASSUME NEW v \in Workers, v # w
      PROVE  Sound(run'[v], host'[run'[v].p], platform'[run'[v].p], Managed')
  <2>1. /\ run[v] \in Runs
        /\ Sound(run[v], host[run[v].p], platform[run[v].p], Managed)
    BY DEF DeploymentInv, TypeOK, WorkersSound
  <2>2. CASE run[v].p = p /\ run[v].pc \in Holding /\ content # host[p]
    <3>1. run'[v] = [run[v] EXCEPT !.stale = TRUE]
      BY <1>3, <2>2 DEF Changes
    <3> QED BY <1>2, <2>1, <3>1 DEF Sound, Runs
  <2>3. CASE ~(run[v].p = p /\ run[v].pc \in Holding /\ content # host[p])
    <3>1. run'[v] = run[v]
      BY <1>3, <2>3 DEF Changes
    <3>2. CASE run[v].pc \in Holding
      <4>1. run[v].p \in Principals
        BY <2>1, <3>2 DEF Sound, Holding
      <4>2. host'[run[v].p] = host[run[v].p]
        BY <2>3, <3>2, <4>1 DEF Changes, DeploymentInv, TypeOK
      <4> QED BY <1>2, <2>1, <3>1, <4>2
    <3>3. CASE run[v].pc \notin Holding
      BY <2>1, <3>1, <3>3 DEF Sound, Holding
    <3> QED BY <3>2, <3>3
  <2> QED BY <2>2, <2>3
<1>4. w \in Workers => run'[w] = r
  BY DEF Changes
<1> QED BY <1>1, <1>2, <1>3, <1>4 DEF WorkersSound

\* The plan hands its decision to the write.
LEMMA PlanSound ==
  ASSUME DeploymentInv, NEW w \in Workers, PlanApply(w)
  PROVE  SingleHoldsOne' /\ WorkersSound'
<1> DEFINE r == run[w]
           p == run[w].p
           saw == Listed(platform[p], host[p])
           add == ToAdd(saw, r.goal)
           remove == ToRemove(platform[p], saw, r.goal, Managed, r.prune)
           plan == [r EXCEPT !.saw = saw]
           writes == [plan EXCEPT !.pc = "write", !.add = add, !.remove = remove]
<1>1. /\ r \in Runs /\ p \in Principals /\ platform[p] \in AllPlatforms
      /\ saw \in SUBSET Fingerprints /\ Managed \in SUBSET Fingerprints
      /\ r.goal \in SUBSET Fingerprints /\ r.prune \in BOOLEAN
      /\ platform[p] # "blind" => saw = host[p]
      /\ platform[p] = "blind" => saw = {}
  <2>1. r \in Runs /\ Sound(r, host[p], platform[p], Managed) /\ r.pc = "plan"
    BY DEF DeploymentInv, TypeOK, WorkersSound, PlanApply
  <2>2. p \in Principals
    BY <2>1 DEF Sound
  <2>3. host[p] \in SUBSET Fingerprints
    BY <2>2 DEF DeploymentInv, TypeOK
  <2> QED BY <2>1, <2>2, <2>3, ListedType, DeploymentAssumption
          DEF DeploymentInv, TypeOK, Runs, Managed, DeploymentAssumption
<1> HIDE DEF saw
<1>2. UNCHANGED <<platform, host>> /\ Managed' = Managed
  BY DEF PlanApply, rows, Managed
<1>3. CASE platform[p] = "script"
  <2>1. Sound([plan EXCEPT !.pc = "write"], host[p], platform[p], Managed)
    BY <1>1, <1>3 DEF Sound, Runs
  <2>2. Moves(w, Free) \/ Moves(w, [plan EXCEPT !.pc = "write"])
    BY <1>3 DEF PlanApply, saw
  <2>3. [plan EXCEPT !.pc = "write"].p = p
    BY <1>1 DEF Runs
  <2> QED BY <1>2, <2>1, <2>2, <2>3, QuietKeeps, LetsGoKeeps DEF Free, Holding
<1>4. CASE platform[p] # "script" /\ Refuses(platform[p], r.goal, saw, add, remove)
  <2>1. Moves(w, [r EXCEPT !.pc = "failed"])
    BY <1>4 DEF PlanApply, saw
  <2>2. [r EXCEPT !.pc = "failed"].pc = "failed" /\ [r EXCEPT !.pc = "failed"].p = p
    BY <1>1 DEF Runs
  <2> QED BY <1>1, <1>2, <2>1, <2>2, LetsGoKeeps DEF Holding
<1>5. CASE platform[p] # "script" /\ ~Refuses(platform[p], r.goal, saw, add, remove)
  <2>1. \/ Moves(w, Free)
        \/ add = {} /\ remove = {} /\ Moves(w, [plan EXCEPT !.pc = "record"])
        \/ ~(add = {} /\ remove = {}) /\ Moves(w, writes)
    BY <1>5 DEF PlanApply, saw
  <2>2. CASE Moves(w, Free)
    BY <1>2, <2>2, LetsGoKeeps DEF Free, Holding
  <2>3. CASE add = {} /\ remove = {} /\ Moves(w, [plan EXCEPT !.pc = "record"])
    <3>1. r.goal \subseteq saw
      BY <2>3 DEF ToAdd
    <3>2. Sound([plan EXCEPT !.pc = "record"], host[p], platform[p], Managed)
      BY <1>1, <3>1 DEF Sound, Runs
    <3>3. [plan EXCEPT !.pc = "record"].p = p
      BY <1>1 DEF Runs
    <3> QED BY <1>2, <2>3, <3>2, <3>3, QuietKeeps
  <2>4. CASE ~(add = {} /\ remove = {}) /\ Moves(w, writes)
    <3>1. /\ platform[p] = "file" => (saw \cup add) \ remove # {}
          /\ platform[p] \in {"api", "device"} =>
               remove = {} \/ (saw \cup add) \ remove # {}
          /\ platform[p] # "single" => remove \subseteq Managed
          /\ saw = {} => remove = {}
          /\ r.goal \subseteq (saw \cup add) \ remove
      <4> DEFINE kind == platform[p]
                 goal == r.goal
      <4>1. /\ kind \in AllPlatforms /\ saw \in SUBSET Fingerprints
            /\ goal \in SUBSET Fingerprints /\ Managed \in SUBSET Fingerprints
            /\ r.prune \in BOOLEAN
        BY <1>1
      <4>2. /\ add = ToAdd(saw, goal)
            /\ remove = ToRemove(kind, saw, goal, Managed, r.prune)
            /\ ~Refuses(kind, goal, saw, add, remove)
        BY <1>5
      <4> HIDE DEF kind, goal, add, remove
      <4>3. /\ kind = "file" => (saw \cup add) \ remove # {}
            /\ kind \in {"api", "device"} => remove = {} \/ (saw \cup add) \ remove # {}
            /\ kind # "single" => remove \subseteq Managed
            /\ saw = {} => remove = {}
            /\ goal \subseteq (saw \cup add) \ remove
        BY <4>1, <4>2, PlanKeepsOne
      <4> QED BY <4>3 DEF kind, goal
    <3>2. platform[p] = "single" => add # {} /\ AtMostOne(add)
      <4> SUFFICES ASSUME platform[p] = "single" PROVE add # {} /\ AtMostOne(add)
        OBVIOUS
      <4>1. AtMostOne(saw)
        BY <1>1 DEF DeploymentInv, SingleHoldsOne
      <4> QED BY <1>1, <1>5, <2>4, <4>1, SinglePlanAdds
    <3>3. /\ writes.pc = "write" /\ writes.p = p /\ writes.saw = saw
          /\ writes.add = add /\ writes.remove = remove /\ writes.goal = r.goal
      BY <1>1 DEF Runs
    <3>4. Sound(writes, host[p], platform[p], Managed)
      BY <1>1, <3>1, <3>2, <3>3 DEF Sound
    <3> HIDE DEF writes
    <3> QED BY <1>2, <2>4, <3>3, <3>4, QuietKeeps
  <2> QED BY <2>1, <2>2, <2>3, <2>4
<1> QED BY <1>3, <1>4, <1>5

\* A write and what follows it, connector by connector.
LEMMA WriteSound ==
  ASSUME DeploymentInv, NEW w \in Workers,
         \/ WriteFile(w) \/ AddOne(w) \/ RemoveOne(w) \/ RunBatch(w)
         \/ BatchStops(w) \/ CallScript(w) \/ Restore(w)
  PROVE  SingleHoldsOne' /\ WorkersSound'
<1> DEFINE r == run[w]
           p == run[w].p
<1> USE DEF rows
<1>1. /\ r \in Runs /\ p \in Principals
      /\ Sound(r, host[p], platform[p], Managed)
      /\ host \in [Principals -> SUBSET Fingerprints]
  <2>1. r \in Runs /\ Sound(r, host[p], platform[p], Managed) /\ r.pc # "idle"
    BY DEF DeploymentInv, TypeOK, WorkersSound, WriteFile, AddOne, RemoveOne,
           RunBatch, BatchStops, CallScript, Restore
  <2> QED BY <2>1 DEF DeploymentInv, TypeOK, Sound
<1>2. UNCHANGED <<platform, status>>
  BY DEF WriteFile, AddOne, RemoveOne, RunBatch, BatchStops, CallScript, Restore
<1>3. ASSUME NEW content, platform[p] # "single", NEW pc \in Steps \ (Holding \cup {"restore"}),
             Changes(w, [r EXCEPT !.pc = pc], p, content)
      PROVE  SingleHoldsOne' /\ WorkersSound'
  <2>1. Sound([r EXCEPT !.pc = pc], host'[p], platform[p], Managed)
    BY <1>1, <1>3 DEF Sound, Runs, Holding
  <2>2. [r EXCEPT !.pc = pc].p = p
    BY <1>1 DEF Runs
  <2> QED BY <1>1, <1>2, <1>3, <2>1, <2>2, ChangesKeeps
<1>4. ASSUME NEW content, r.pc = "write",
             platform[p] = "single" => AtMostOne(content),
             Changes(w, [r EXCEPT !.pc = "readback"], p, content)
      PROVE  SingleHoldsOne' /\ WorkersSound'
  <2>1. Sound([r EXCEPT !.pc = "readback"], host'[p], platform[p], Managed)
    BY <1>1, <1>4 DEF Sound, Runs
  <2>2. [r EXCEPT !.pc = "readback"].p = p
    BY <1>1 DEF Runs
  <2> QED BY <1>1, <1>2, <1>4, <2>1, <2>2, ChangesKeeps
<1>5. CASE WriteFile(w)
  BY <1>4, <1>5 DEF WriteFile
<1>6. CASE AddOne(w)
  <2>1. PICK f \in r.add :
          Changes(w, Called([r EXCEPT !.add = @ \ {f}]), p, host[p] \cup {f})
    BY <1>6 DEF AddOne
  <2> DEFINE s == Called([r EXCEPT !.add = @ \ {f}])
  <2>2. /\ s.p = p /\ s.add = r.add \ {f} /\ s.remove = r.remove
        /\ s.stale = r.stale /\ s.pc \in {"write", "readback", "reset"}
    BY <1>1, <1>6 DEF AddOne, Called, Runs
  <2>3. host'[p] = host[p] \cup {f}
    BY <1>1, <2>1 DEF Changes
  <2>4. (host'[p] \cup s.add) \ s.remove = (host[p] \cup r.add) \ r.remove
    BY <2>1, <2>2, <2>3
  <2>5. Sound(s, host'[p], platform[p], Managed)
    BY <1>1, <1>6, <2>2, <2>4 DEF Sound, AddOne
  <2> HIDE DEF s
  <2>6. Changes(w, s, p, host[p] \cup {f})
    BY <2>1 DEF s
  <2> QED BY <1>1, <1>2, <1>6, <2>2, <2>5, <2>6, ChangesKeeps DEF AddOne
<1>7. CASE RemoveOne(w)
  <2>1. PICK f \in r.remove :
          Changes(w, Called([r EXCEPT !.remove = @ \ {f}]), p, host[p] \ {f})
    BY <1>7 DEF RemoveOne
  <2> DEFINE s == Called([r EXCEPT !.remove = @ \ {f}])
  <2>2. /\ s.p = p /\ s.add = {} /\ s.remove = r.remove \ {f}
        /\ s.stale = r.stale /\ s.pc \in {"write", "readback", "reset"}
    BY <1>1, <1>7 DEF RemoveOne, Called, Runs
  <2>3. host'[p] = host[p] \ {f}
    BY <1>1, <2>1 DEF Changes
  <2>4. (host'[p] \cup s.add) \ s.remove = (host[p] \cup r.add) \ r.remove
    BY <1>7, <2>1, <2>2, <2>3 DEF RemoveOne
  <2>5. Sound(s, host'[p], platform[p], Managed)
    BY <1>1, <1>7, <2>2, <2>4 DEF Sound, RemoveOne
  <2> HIDE DEF s
  <2>6. Changes(w, s, p, host[p] \ {f})
    BY <2>1 DEF s
  <2> QED BY <1>1, <1>2, <1>7, <2>2, <2>5, <2>6, ChangesKeeps DEF RemoveOne
<1>8. CASE RunBatch(w)
  <2>1. platform[p] = "single" =>
          AtMostOne(AfterBatch(platform[p], host[p], r.add, r.remove))
    BY <1>1, <1>8 DEF RunBatch, Sound, AfterBatch
  <2> DEFINE content == AfterBatch(platform[p], host[p], r.add, r.remove)
             s == Sent(r)
  <2>2. /\ s.p = p /\ s.pc = IF platform[p] = "blind" THEN "record" ELSE "readback"
        /\ s.saw = r.saw /\ s.add = r.add /\ s.remove = r.remove /\ s.goal = r.goal
    BY <1>1, SentIs
  <2>3. Changes(w, s, p, content) /\ platform[p] # "file"
    BY <1>8 DEF RunBatch, Devices
  <2> HIDE DEF s, content
  <2>4. Sound(s, host'[p], platform[p], Managed)
    BY <1>1, <2>2, <2>3 DEF Sound
  <2>5. platform[p] = "single" => AtMostOne(content)
    BY <2>1 DEF content
  <2> QED BY <1>1, <1>2, <2>2, <2>3, <2>4, <2>5, ChangesKeeps
<1>9. CASE BatchStops(w)
  BY <1>3, <1>9 DEF BatchStops, Steps, Holding
<1>10. CASE CallScript(w)
  BY <1>4, <1>10 DEF CallScript
<1>11. CASE Restore(w)
  <2> DEFINE missing == r.goal \ host[p]
  <2>1. CASE /\ platform[p] \in {"file", "script"}
             /\ Changes(w, [r EXCEPT !.pc = "reset"], p, r.goal)
    BY <1>3, <2>1 DEF Steps, Holding
  <2>2. CASE /\ platform[p] = "api" /\ UNCHANGED host
             /\ Moves(w, [r EXCEPT !.pc = IF missing = {} THEN "reset" ELSE "write",
                                   !.add = missing])
    <3> DEFINE s == [r EXCEPT !.pc = IF missing = {} THEN "reset" ELSE "write",
                              !.add = missing]
    <3>1. s.p = p /\ s.remove = r.remove /\ s.pc \in {"reset", "write"}
      BY <1>1 DEF Runs
    <3>2. r.remove = {}
      BY <1>1, <1>11 DEF Restore, Sound
    <3>3. Sound(s, host[p], platform[p], Managed)
      BY <1>1, <2>2, <3>1, <3>2 DEF Sound
    <3> HIDE DEF s
    <3>4. Moves(w, s)
      BY <2>2 DEF s
    <3> QED BY <1>2, <2>2, <3>1, <3>3, <3>4, QuietKeeps DEF Managed
  <2> QED BY <1>11, <2>1, <2>2 DEF Restore
<1> QED BY <1>5, <1>6, <1>7, <1>8, <1>9, <1>10, <1>11

LEMMA MovesIs ==
  ASSUME DeploymentInv, NEW w \in Workers, NEW r, Moves(w, r)
  PROVE  run'[w] = r /\ Moves(w, run'[w])
BY DEF DeploymentInv, TypeOK, Moves

LEMMA EndsWithout ==
  ASSUME NEW r \in Runs, NEW failed
  PROVE  /\ Ended(r, failed).pc \in {"idle", "judge"}
         /\ Ended(r, failed).pc # "idle" => Ended(r, failed).p = r.p
BY DEF Ended, Free

LEMMA VerifyNextWithout ==
  ASSUME NEW r \in Runs, NEW f
  PROVE  VerifyNext(r, f).pc \in {"insync", "prove"} /\ VerifyNext(r, f).p = r.p
BY DEF VerifyNext, Runs

LEMMA SoundStep ==
  ASSUME DeploymentInv, [Next]_vars
  PROVE  SingleHoldsOne' /\ WorkersSound'
<1> USE DEF rows
<1>r. ASSUME NEW w \in Workers
      PROVE  run[w] \in Runs /\ (run[w].pc # "idle" => run[w].p \in Principals)
  BY DEF DeploymentInv, TypeOK, WorkersSound, Sound
<1>q. ASSUME UNCHANGED <<platform, host, run>>, Managed \subseteq Managed'
      PROVE  SingleHoldsOne' /\ WorkersSound'
  BY <1>q, SoundKept DEF DeploymentInv, SingleHoldsOne, WorkersSound
<1>0. CASE UNCHANGED vars
  BY <1>0, <1>q DEF vars, Managed
<1>1. ASSUME NEW w \in Workers, PlanApply(w)
      PROVE  SingleHoldsOne' /\ WorkersSound'
  BY <1>1, PlanSound
<1>2. ASSUME NEW w \in Workers,
             \/ WriteFile(w) \/ AddOne(w) \/ RemoveOne(w) \/ RunBatch(w)
             \/ BatchStops(w) \/ CallScript(w) \/ Restore(w)
      PROVE  SingleHoldsOne' /\ WorkersSound'
  BY <1>2, WriteSound
<1>3. ASSUME NEW w \in Workers, ReadBack(w)
      PROVE  SingleHoldsOne' /\ WorkersSound'
  <2> DEFINE r == run[w]
             p == run[w].p
  <2>1. r \in Runs /\ p \in Principals /\ Sound(r, host[p], platform[p], Managed)
    BY <1>3, <1>r DEF DeploymentInv, WorkersSound, ReadBack
  <2>2. UNCHANGED <<platform, host>> /\ Managed' = Managed
    BY <1>3 DEF ReadBack, Managed
  <2>3. CASE Confirmed(platform[p], host[p], r.goal, (r.saw \cup r.add) \ r.remove)
    <3> DEFINE s == [r EXCEPT !.stale = FALSE, !.pc = "record"]
    <3>1. Moves(w, s)
      BY <1>3, <2>3 DEF ReadBack
    <3>2. platform[p] # "script" => r.goal \subseteq host[p]
      BY <1>3, <2>1, <2>3 DEF Confirmed, Sound, ReadBack
    <3>3. s.p = p /\ Sound(s, host[p], platform[p], Managed)
      BY <2>1, <3>2 DEF Sound, Runs
    <3> QED BY <2>2, <3>1, <3>3, QuietKeeps
  <2>4. CASE ~Confirmed(platform[p], host[p], r.goal, (r.saw \cup r.add) \ r.remove)
    <3> DEFINE s == [r EXCEPT !.stale = FALSE, !.pc = "failed"]
    <3>1. Moves(w, s)
      BY <1>3, <2>4 DEF ReadBack
    <3>2. s.pc = "failed" /\ s.p = p
      BY <2>1 DEF Runs
    <3> HIDE DEF s
    <3> QED BY <2>1, <2>2, <3>1, <3>2, LetsGoKeeps DEF Holding
  <2> QED BY <2>3, <2>4
<1>4. ASSUME NEW w \in Workers,
             \/ HealPrepares(w) \/ RecordFailure(w) \/ Record(w) \/ SkipsVerify(w)
             \/ Authenticates(w) \/ FailsToAuthenticate(w) \/ Promote(w)
             \/ SetInSync(w) \/ ResetDrift(w) \/ Compare(w) \/ Judge(w)
             \/ AdoptAssigns(w) \/ AdoptMarks(w) \/ CallFails(w) \/ Crash(w)
      PROVE  SingleHoldsOne' /\ WorkersSound'
  <2>1. run[w] \in Runs /\ (run[w].pc # "idle" => run[w].p \in Principals)
    BY <1>r
  <2>2. UNCHANGED <<platform, host>>
    BY <1>4 DEF HealPrepares, RecordFailure, Record, SkipsVerify, Authenticates,
       FailsToAuthenticate, Promote, SetInSync, ResetDrift, Compare, Judge,
       AdoptAssigns, AdoptMarks, CallFails, Crash
  <2>3. Managed \subseteq Managed'
    <3>1. status' = status \/ \E f : status' = [status EXCEPT ![f] = "active"]
      BY <1>4 DEF HealPrepares, RecordFailure, Record, SkipsVerify, Authenticates,
         FailsToAuthenticate, Promote, SetInSync, ResetDrift, Compare, Judge,
         AdoptAssigns, AdoptMarks, CallFails, Crash
    <3> QED BY <3>1 DEF Managed, DeploymentInv, TypeOK
  <2>4. /\ Moves(w, run'[w]) /\ run'[w].pc \notin Holding \cup {"restore"}
        /\ run'[w].pc # "idle" => run'[w].p \in Principals
    <3>1. CASE HealPrepares(w)
      <4> DEFINE s == [run[w] EXCEPT !.goal = Desired(run[w].p), !.pc = "plan"]
      <4>1. s.pc = "plan" /\ s.p = run[w].p /\ run[w].p \in Principals
        BY <2>1, <3>1 DEF Runs, HealPrepares
      <4>2. Moves(w, s)
        BY <3>1 DEF HealPrepares, Prepares
      <4> HIDE DEF s
      <4> QED BY <4>1, <4>2, MovesIs DEF Holding
    <3>2. CASE RecordFailure(w) \/ SetInSync(w)
      <4>1. PICK failed \in BOOLEAN : Moves(w, Ended(run[w], failed))
        BY <3>2 DEF RecordFailure, SetInSync
      <4>2. run[w].p \in Principals
        BY <2>1, <3>2 DEF RecordFailure, SetInSync
      <4> QED BY <2>1, <4>1, <4>2, MovesIs, EndsWithout DEF Holding
    <3>3. CASE Record(w)
      <4> DEFINE s == [run[w] EXCEPT
                         !.pc = IF run[w].prove /\ run[w].goal # {} THEN "prove" ELSE "insync",
                         !.todo = run[w].goal, !.saw = {}, !.add = {},
                         !.remove = {}, !.stale = FALSE]
      <4>1. s.pc \in {"prove", "insync"} /\ s.p = run[w].p /\ run[w].p \in Principals
        BY <2>1, <3>3 DEF Runs, Record
      <4>2. Moves(w, s)
        BY <3>3 DEF Record
      <4> HIDE DEF s
      <4> QED BY <4>1, <4>2, MovesIs DEF Holding
    <3>4. CASE SkipsVerify(w) \/ FailsToAuthenticate(w) \/ Promote(w)
      <4>1. PICK f : Moves(w, VerifyNext(run[w], f))
        BY <3>4 DEF SkipsVerify, FailsToAuthenticate, Promote
      <4>2. run[w].p \in Principals
        BY <2>1, <3>4 DEF SkipsVerify, FailsToAuthenticate, Promote
      <4> QED BY <2>1, <4>1, <4>2, MovesIs, VerifyNextWithout DEF Holding
    <3>5. CASE Authenticates(w)
      <4>1. PICK f : \/ Moves(w, [run[w] EXCEPT !.pc = "promote", !.key = f])
                     \/ Moves(w, VerifyNext(run[w], f))
        BY <3>5 DEF Authenticates
      <4>2. run[w].p \in Principals
        BY <2>1, <3>5 DEF Authenticates
      <4> DEFINE s == [run[w] EXCEPT !.pc = "promote", !.key = f]
      <4>3. s.pc = "promote" /\ s.p = run[w].p
        BY <2>1 DEF Runs
      <4> HIDE DEF s
      <4>4. CASE Moves(w, s)
        BY <4>2, <4>3, <4>4, MovesIs DEF Holding
      <4>5. CASE Moves(w, VerifyNext(run[w], f))
        BY <2>1, <4>2, <4>5, MovesIs, VerifyNextWithout DEF Holding
      <4> QED BY <4>1, <4>4, <4>5 DEF s
    <3>6. CASE Moves(w, Free)
      BY <3>6, MovesIs DEF Free, Holding
    <3>7. CASE ResetDrift(w) \/ Judge(w) \/ AdoptMarks(w) \/ Crash(w)
      BY <3>6, <3>7 DEF ResetDrift, Judge, AdoptMarks, Crash
    <3>8. CASE Compare(w)
      <4>1. PICK drifted, prune :
              \/ Moves(w, [[Free EXCEPT !.op = "sweep", !.p = run[w].p, !.drifted = drifted]
                             EXCEPT !.pc = "desired", !.prune = prune, !.prove = TRUE])
              \/ Moves(w, [[Free EXCEPT !.op = "sweep", !.p = run[w].p, !.drifted = drifted]
                             EXCEPT !.pc = "judge"])
        BY <3>8 DEF Compare
      <4> DEFINE a == [Free EXCEPT !.op = "sweep", !.p = run[w].p, !.drifted = drifted]
                 s == [a EXCEPT !.pc = "desired", !.prune = prune, !.prove = TRUE]
                 u == [a EXCEPT !.pc = "judge"]
      <4>2. s.pc = "desired" /\ s.p = run[w].p /\ u.pc = "judge" /\ u.p = run[w].p
        BY DEF Free
      <4>3. run[w].p \in Principals
        BY <2>1, <3>8 DEF Compare
      <4>4. Moves(w, s) \/ Moves(w, u)
        BY <4>1
      <4> HIDE DEF s, u
      <4> QED BY <4>2, <4>3, <4>4, MovesIs DEF Holding
    <3>9. CASE AdoptAssigns(w)
      <4> DEFINE s == [run[w] EXCEPT !.pc = "mark"]
      <4>1. s.pc = "mark" /\ s.p = run[w].p /\ run[w].p \in Principals
        BY <2>1, <3>9 DEF Runs, AdoptAssigns
      <4>2. Moves(w, s)
        BY <3>9 DEF AdoptAssigns
      <4> HIDE DEF s
      <4> QED BY <4>1, <4>2, MovesIs DEF Holding
    <3>10. CASE CallFails(w)
      <4> DEFINE s == [run[w] EXCEPT !.pc = "failed"]
      <4>1. s.pc = "failed" /\ s.p = run[w].p /\ run[w].p \in Principals
        BY <2>1, <3>10 DEF Runs, CallFails
      <4>2. (\E failed \in BOOLEAN : Moves(w, Ended(run[w], failed)))
            \/ Moves(w, Free) \/ Moves(w, s)
        BY <3>10 DEF CallFails
      <4> HIDE DEF s
      <4>3. CASE \E failed \in BOOLEAN : Moves(w, Ended(run[w], failed))
        BY <2>1, <4>1, <4>3, MovesIs, EndsWithout DEF Holding
      <4>4. CASE Moves(w, s)
        BY <4>1, <4>4, MovesIs DEF Holding
      <4> QED BY <3>6, <4>2, <4>3, <4>4
    <3> QED BY <1>4, <3>1, <3>2, <3>3, <3>4, <3>5, <3>7, <3>8, <3>9, <3>10
  <2> QED BY <2>2, <2>3, <2>4, LetsGoKeeps
<1>5. ASSUME NEW w \in Workers, NEW p \in Principals,
             \/ StartSweep(w, p) \/ \E dry \in BOOLEAN : RequestDeploy(w, p, dry)
             \/ \E f \in Strangers : Adopt(w, p, f)
      PROVE  SingleHoldsOne' /\ WorkersSound'
  <2>1. UNCHANGED <<platform, host>> /\ Managed \subseteq Managed'
    BY <1>5 DEF StartSweep, RequestDeploy, Adopt, Managed, DeploymentInv, TypeOK
  <2>2. \E s : Moves(w, s) /\ s.pc \in {"compare", "judge", "plan", "assign"} /\ s.p = p
    <3>1. CASE StartSweep(w, p)
      <4> DEFINE s == [[Free EXCEPT !.op = "sweep", !.p = p]
                         EXCEPT !.pc = "compare", !.saw = host[p], !.known = Page]
                 u == [[Free EXCEPT !.op = "sweep", !.p = p]
                         EXCEPT !.pc = "judge", !.drifted = TRUE]
      <4>1. s.pc = "compare" /\ s.p = p /\ u.pc = "judge" /\ u.p = p
        BY DEF Free
      <4>2. Moves(w, s) \/ Moves(w, u)
        BY <3>1 DEF StartSweep
      <4> HIDE DEF s, u
      <4> QED BY <4>1, <4>2
    <3>2. CASE \E dry \in BOOLEAN : RequestDeploy(w, p, dry)
      <4>1. PICK dry, prune, prove :
              Prepares(w, [Free EXCEPT !.op = "deploy", !.p = p, !.prune = prune,
                                       !.prove = prove, !.dry = dry])
        BY <3>2 DEF RequestDeploy
      <4> DEFINE a == [Free EXCEPT !.op = "deploy", !.p = p, !.prune = prune,
                                   !.prove = prove, !.dry = dry]
                 s == [a EXCEPT !.goal = Desired(a.p), !.pc = "plan"]
      <4>2. s.pc = "plan" /\ s.p = p
        BY DEF Free
      <4>3. Moves(w, s)
        BY <4>1 DEF Prepares
      <4> HIDE DEF s
      <4> QED BY <4>2, <4>3
    <3>3. CASE \E f \in Strangers : Adopt(w, p, f)
      <4>1. PICK f : Moves(w, [Free EXCEPT !.pc = "assign", !.op = "adopt", !.p = p,
                                           !.key = f])
        BY <3>3 DEF Adopt
      <4> DEFINE s == [Free EXCEPT !.pc = "assign", !.op = "adopt", !.p = p, !.key = f]
      <4>2. s.pc = "assign" /\ s.p = p
        BY DEF Free
      <4>3. Moves(w, s)
        BY <4>1
      <4> HIDE DEF s
      <4> QED BY <4>2, <4>3
    <3> QED BY <1>5, <3>1, <3>2, <3>3
  <2>3. PICK s : Moves(w, s) /\ s.pc \in {"compare", "judge", "plan", "assign"} /\ s.p = p
    BY <2>2
  <2>4. s.pc \notin Holding \cup {"restore"}
    BY <2>3 DEF Holding
  <2> QED BY <2>1, <2>3, <2>4, LetsGoKeeps
<1>6. ASSUME NEW w \in Workers, NEW p \in Principals, RequestRollback(w, p)
      PROVE  SingleHoldsOne' /\ WorkersSound'
  <2>1. UNCHANGED <<platform, host>> /\ Managed' = Managed
    BY <1>6 DEF RequestRollback, Managed
  <2>2. PICK content :
          Moves(w, [Free EXCEPT !.pc = "restore", !.op = "rollback", !.p = p,
                                !.goal = content])
    BY <1>6 DEF RequestRollback
  <2> DEFINE r == [Free EXCEPT !.pc = "restore", !.op = "rollback", !.p = p,
                               !.goal = content]
  <2>3. Sound(r, host[r.p], platform[r.p], Managed')
    BY DEF Sound, Free
  <2> HIDE DEF r
  <2>4. Moves(w, r)
    BY <2>2 DEF r
  <2> QED BY <2>1, <2>3, <2>4, QuietKeeps
<1>7. ASSUME NEW p \in Principals, NEW f \in Fingerprints,
             Assign(p, f) \/ AssignAbsent(p, f) \/ Unassign(p, f) \/ Ignore(p, f)
      PROVE  SingleHoldsOne' /\ WorkersSound'
  BY <1>7, <1>q DEF Assign, AssignAbsent, Unassign, Ignore, Managed
<1>8. ASSUME NEW p \in Principals, NEW f \in Fingerprints, HandEdit(p, f)
      PROVE  SingleHoldsOne' /\ WorkersSound'
  <2>1. PICK content : /\ Changes(Nobody, Free, p, content)
                       /\ platform[p] = "single" => AtMostOne(content)
    BY <1>8 DEF HandEdit
  <2> QED BY <1>8, <2>1, ChangesKeeps, DeploymentAssumption
          DEF HandEdit, DeploymentAssumption
<1>9. ASSUME NEW f \in Fingerprints, Revoke(f)
      PROVE  SingleHoldsOne' /\ WorkersSound'
  <2>1. UNCHANGED <<platform, host, run>> /\ Managed \subseteq Managed'
    BY <1>9 DEF Revoke, Managed, DeploymentInv, TypeOK
  <2> QED BY <2>1, <1>q
<1>10. ASSUME NEW p \in Principals, SweepFails(p)
       PROVE  SingleHoldsOne' /\ WorkersSound'
  BY <1>10, <1>q DEF SweepFails, Managed
<1>11. ASSUME NEW w \in Workers, WriteIsLost(w)
       PROVE  SingleHoldsOne' /\ WorkersSound'
  <2> DEFINE r == run[w]
             s == Sent(run[w])
  <2>1. /\ r \in Runs /\ r.pc = "write" /\ r.p \in Principals
        /\ Sound(r, host[r.p], platform[r.p], Managed)
    BY <1>11, <1>r DEF DeploymentInv, WorkersSound, WriteIsLost
  <2>2. /\ s.p = r.p /\ s.pc = IF platform[r.p] = "blind" THEN "record" ELSE "readback"
        /\ s.saw = r.saw /\ s.add = r.add /\ s.remove = r.remove /\ s.goal = r.goal
    BY <2>1, SentIs
  <2>3. Moves(w, s) /\ UNCHANGED <<platform, host>> /\ Managed' = Managed
    BY <1>11 DEF WriteIsLost, Managed
  <2> HIDE DEF s
  <2>4. Sound(s, host[s.p], platform[s.p], Managed')
    BY <2>1, <2>2, <2>3 DEF Sound
  <2> QED BY <2>3, <2>4, QuietKeeps
<1> QED BY <1>0, <1>1, <1>2, <1>3, <1>4, <1>5, <1>6, <1>7, <1>8, <1>9, <1>10, <1>11
        DEF Next, Step

-----------------------------------------------------------------------------
\* What a step may do to a machine and to the record of it.

Writes(w) ==
  \/ WriteFile(w) \/ AddOne(w) \/ RemoveOne(w) \/ RunBatch(w)
  \/ BatchStops(w) \/ CallScript(w) \/ Restore(w)

\* A machine changes by an edit or by a worker that writes to it.
LEMMA OnlyWritesChange ==
  ASSUME DeploymentInv, [Next]_vars, NEW p \in Principals, host'[p] # host[p]
  PROVE  edits' # edits \/ \E w \in Workers : Writes(w) /\ run[w].p = p
<1> USE DEF rows
<1>1. CASE \E q \in Principals, f \in Fingerprints : HandEdit(q, f)
  BY <1>1, DeploymentAssumption
  DEF HandEdit, Edit, DeploymentInv, TypeOK, DeploymentAssumption
<1>2. CASE \E w \in Workers : Writes(w)
  <2> PICK w \in Workers : Writes(w)
    BY <1>2
  <2>1. \/ UNCHANGED host
        \/ \E r, content : Changes(w, r, run[w].p, content)
    BY DEF Writes, WriteFile, AddOne, RemoveOne, RunBatch, BatchStops, CallScript, Restore
  <2>2. run[w].p = p
    BY <2>1 DEF Changes, DeploymentInv, TypeOK
  <2> QED BY <2>2
<1>3. CASE /\ ~\E q \in Principals, f \in Fingerprints : HandEdit(q, f)
           /\ ~\E w \in Workers : Writes(w)
  <2>1. ASSUME NEW w \in Workers,
               \/ HealPrepares(w) \/ PlanApply(w) \/ ReadBack(w) \/ RecordFailure(w)
               \/ Record(w) \/ SkipsVerify(w) \/ Authenticates(w)
               \/ FailsToAuthenticate(w) \/ Promote(w) \/ SetInSync(w)
               \/ ResetDrift(w) \/ Compare(w) \/ Judge(w) \/ AdoptAssigns(w)
               \/ AdoptMarks(w) \/ CallFails(w) \/ Crash(w) \/ WriteIsLost(w)
        PROVE  UNCHANGED host
    BY <2>1 DEF HealPrepares, PlanApply, ReadBack, RecordFailure, Record, SkipsVerify,
       Authenticates, FailsToAuthenticate, Promote, SetInSync, ResetDrift, Compare,
       Judge, AdoptAssigns, AdoptMarks, CallFails, Crash, WriteIsLost
  <2>2. ASSUME NEW w \in Workers, NEW q \in Principals,
               \/ StartSweep(w, q) \/ RequestRollback(w, q)
               \/ \E dry \in BOOLEAN : RequestDeploy(w, q, dry)
               \/ \E f \in Strangers : Adopt(w, q, f)
        PROVE  UNCHANGED host
    BY <2>2 DEF StartSweep, RequestRollback, RequestDeploy, Adopt
  <2>3. ASSUME NEW q, NEW f,
               \/ Assign(q, f) \/ AssignAbsent(q, f) \/ Unassign(q, f)
               \/ Ignore(q, f) \/ Revoke(f) \/ SweepFails(q)
        PROVE  UNCHANGED host
    BY <2>3 DEF Assign, AssignAbsent, Unassign, Ignore, Revoke, SweepFails
  <2>4. CASE UNCHANGED vars
    BY <2>4 DEF vars
  <2> QED BY <1>3, <2>1, <2>2, <2>3, <2>4 DEF Next, Step, Writes
<1> QED BY <1>1, <1>2, <1>3

\* What a write leaves on the machine, connector by connector.
LEMMA WhatWritesLeave ==
  ASSUME DeploymentInv, NEW w \in Workers, Writes(w), NEW p, p = run[w].p
  PROVE  /\ p \in Principals
         /\ Sound(run[w], host[p], platform[p], Managed)
         /\ \/ UNCHANGED host
            \/ platform[p] = "script" \/ Restoring(p)
            \/ /\ run[w].pc = "write" /\ platform[p] = "file"
               /\ host'[p] = (run[w].saw \cup run[w].add) \ run[w].remove
            \/ host[p] \subseteq host'[p] \/ ClearsLogin(w, p)
            \/ /\ run[w].pc = "write" /\ platform[p] \in {"api", "device"}
               /\ \E R \in SUBSET run[w].remove :
                    R # {} /\ host'[p] = (host[p] \cup run[w].add) \ R
            \/ /\ run[w].pc = "write" /\ platform[p] = "single"
               /\ host'[p] = run[w].add
<1> USE DEF rows
<1>1. p \in Principals /\ Sound(run[w], host[p], platform[p], Managed)
  <2>1. run[w].pc # "idle"
    BY DEF Writes, WriteFile, AddOne, RemoveOne, RunBatch, BatchStops, CallScript, Restore
  <2> QED BY <2>1 DEF DeploymentInv, WorkersSound, Sound
<1>2. \A r, content : Changes(w, r, p, content) => host'[p] = content
  BY <1>1 DEF Changes, DeploymentInv, TypeOK
<1>3. CASE WriteFile(w)
  BY <1>1, <1>2, <1>3 DEF WriteFile
<1>4. CASE AddOne(w)
  BY <1>1, <1>2, <1>4 DEF AddOne
<1>5. CASE RemoveOne(w)
  <2> PICK f \in run[w].remove :
        Changes(w, Called([run[w] EXCEPT !.remove = @ \ {f}]), p, host[p] \ {f})
    BY <1>5 DEF RemoveOne
  <2>1. host'[p] = (host[p] \cup run[w].add) \ {f}
    BY <1>2, <1>5 DEF RemoveOne
  <2>2. {f} \in SUBSET run[w].remove /\ {f} # {}
    OBVIOUS
  <2> QED BY <1>1, <1>5, <2>1, <2>2 DEF RemoveOne
<1>6. CASE RunBatch(w)
  <2>1. host'[p] = AfterBatch(platform[p], host[p], run[w].add, run[w].remove)
    BY <1>2, <1>6 DEF RunBatch
  <2>2. CASE platform[p] = "single"
    BY <1>1, <1>6, <2>1, <2>2 DEF RunBatch, AfterBatch, Sound
  <2>3. CASE platform[p] = "device"
    BY <1>1, <1>6, <2>1, <2>3 DEF RunBatch, AfterBatch, LoginWide
  <2>4. CASE platform[p] = "login"
    BY <1>1, <1>6, <2>1, <2>4 DEF RunBatch, AfterBatch, LoginWide, ClearsLogin
  <2>5. CASE platform[p] = "blind"
    BY <1>1, <1>6, <2>1, <2>5 DEF RunBatch, AfterBatch, LoginWide, Sound
  <2> QED BY <1>6, <2>2, <2>3, <2>4, <2>5 DEF RunBatch, Devices
<1>7. CASE BatchStops(w)
  <2>1. CASE \E A \in SUBSET run[w].add :
               Changes(w, [run[w] EXCEPT !.pc = "failed"], p, host[p] \cup A)
    BY <1>1, <1>2, <1>7, <2>1 DEF BatchStops
  <2>2. CASE \E R \in SUBSET run[w].remove :
               Changes(w, [run[w] EXCEPT !.pc = "failed"], p,
                       AfterBatch(platform[p], host[p], run[w].add, R))
    <3> PICK R \in SUBSET run[w].remove :
          host'[p] = AfterBatch(platform[p], host[p], run[w].add, R)
      BY <1>2, <2>2
    <3>1. platform[p] \in {"device", "login", "blind"} /\ run[w].pc = "write"
      BY <1>7 DEF BatchStops, Devices
    <3>2. CASE R = {}
      BY <1>1, <3>1, <3>2 DEF AfterBatch
    <3>3. CASE R # {} /\ platform[p] = "device"
      BY <1>1, <3>1, <3>3 DEF AfterBatch, LoginWide
    <3>4. CASE R # {} /\ platform[p] = "login"
      BY <1>1, <3>1, <3>4 DEF ClearsLogin
    <3>5. CASE R # {} /\ platform[p] = "blind"
      BY <1>1, <3>1, <3>5 DEF Sound
    <3> QED BY <3>1, <3>2, <3>3, <3>4, <3>5
  <2> QED BY <1>7, <2>1, <2>2 DEF BatchStops
<1>8. CASE CallScript(w)
  BY <1>1, <1>8 DEF CallScript
<1>9. CASE Restore(w)
  BY <1>1, <1>9 DEF Restore, Restoring
<1> QED BY <1>3, <1>4, <1>5, <1>6, <1>7, <1>8, <1>9 DEF Writes

LEMMA NeverEmptiedStep ==
  ASSUME DeploymentInv, [Next]_vars, NEW p \in Principals,
         host[p] # {}, host'[p] = {}
  PROVE  \/ edits' # edits \/ Restoring(p) \/ platform[p] = "script"
         \/ \E w \in Workers : ClearsLogin(w, p)
         \/ platform[p] # "file" /\ \E w \in Workers : Outdated(w, p)
<1> SUFFICES ASSUME edits' = edits, ~Restoring(p), platform[p] # "script",
                    \A w \in Workers : ~ClearsLogin(w, p)
             PROVE  platform[p] # "file" /\ \E w \in Workers : Outdated(w, p)
  OBVIOUS
<1> PICK w \in Workers : Writes(w) /\ run[w].p = p
  BY OnlyWritesChange
<1>1. /\ Sound(run[w], host[p], platform[p], Managed)
      /\ \/ /\ run[w].pc = "write" /\ platform[p] = "file"
            /\ host'[p] = (run[w].saw \cup run[w].add) \ run[w].remove
         \/ /\ run[w].pc = "write" /\ platform[p] \in {"api", "device"}
            /\ \E R \in SUBSET run[w].remove :
                 R # {} /\ host'[p] = (host[p] \cup run[w].add) \ R
         \/ /\ run[w].pc = "write" /\ platform[p] = "single"
            /\ host'[p] = run[w].add
  BY WhatWritesLeave
<1>2. platform[p] # "file" /\ platform[p] # "single"
  BY <1>1 DEF Sound
<1>3. run[w].pc = "write" /\ platform[p] \in {"api", "device"}
  BY <1>1, <1>2
<1>4. PICK R \in SUBSET run[w].remove : R # {} /\ {} = (host[p] \cup run[w].add) \ R
  BY <1>1, <1>2
<1>5. run[w].remove # {} /\ (host[p] \cup run[w].add) \ run[w].remove = {}
  BY <1>4
<1>6. run[w].stale = TRUE
  <2>1. run[w].stale \in BOOLEAN
    BY DEF DeploymentInv, TypeOK, Runs
  <2> QED BY <1>1, <1>3, <1>5, <2>1 DEF Sound
<1> QED BY <1>2, <1>3, <1>6 DEF Outdated

LEMMA StrangersSurviveStep ==
  ASSUME DeploymentInv, [Next]_vars, NEW p \in Principals, NEW f \in Fingerprints,
         status[f] = "none", f \in host[p], f \notin host'[p]
  PROVE  \/ edits' # edits \/ Restoring(p) \/ platform[p] \in {"single", "script"}
         \/ \E w \in Workers : ClearsLogin(w, p)
         \/ platform[p] = "file" /\ \E w \in Workers : Outdated(w, p)
<1> SUFFICES ASSUME edits' = edits, ~Restoring(p), platform[p] \notin {"single", "script"},
                    \A w \in Workers : ~ClearsLogin(w, p)
             PROVE  platform[p] = "file" /\ \E w \in Workers : Outdated(w, p)
  OBVIOUS
<1> PICK w \in Workers : Writes(w) /\ run[w].p = p
  BY OnlyWritesChange
<1>1. /\ Sound(run[w], host[p], platform[p], Managed)
      /\ \/ /\ run[w].pc = "write" /\ platform[p] = "file"
            /\ host'[p] = (run[w].saw \cup run[w].add) \ run[w].remove
         \/ /\ run[w].pc = "write" /\ platform[p] \in {"api", "device"}
            /\ \E R \in SUBSET run[w].remove :
                 R # {} /\ host'[p] = (host[p] \cup run[w].add) \ R
  BY WhatWritesLeave
<1>2. f \notin run[w].remove
  BY <1>1 DEF Sound, Managed
<1>3. platform[p] = "file" /\ run[w].pc = "write" /\ f \notin run[w].saw
  BY <1>1, <1>2
<1>4. run[w].stale = TRUE
  <2>1. run[w].stale \in BOOLEAN
    BY DEF DeploymentInv, TypeOK, Runs
  <2> QED BY <1>1, <1>3, <2>1 DEF Sound
<1> QED BY <1>3, <1>4 DEF Outdated

LEMMA RecordsWhatLandedStep ==
  ASSUME DeploymentInv, [Next]_vars, NEW p \in Principals, NEW f \in Fingerprints,
         actual[p][f] # "present", actual'[p][f] = "present"
  PROVE  \/ f \in host[p] \/ platform[p] \in {"script", "blind"}
         \/ \E w \in Workers : run[w].p = p /\ run[w].pc = "record" /\ run[w].stale
<1> USE DEF rows
<1>1. CASE \E w \in Workers : Record(w)
  <2> PICK w \in Workers : Record(w)
    BY <1>1
  <2>1. run[w].p = p /\ f \in run[w].goal /\ run[w].pc = "record"
    BY DEF Record, DeploymentInv, TypeOK
  <2>2. Sound(run[w], host[p], platform[p], Managed)
    BY <2>1 DEF DeploymentInv, WorkersSound
  <2>3. run[w].stale \in BOOLEAN
    BY DEF DeploymentInv, TypeOK, Runs
  <2> QED BY <2>1, <2>2, <2>3 DEF Sound
<1>2. CASE ~\E w \in Workers : Record(w)
  <2>1. \/ UNCHANGED actual
        \/ \E w \in Workers :
             RecordFailure(w) \/ FailsToAuthenticate(w) \/ Compare(w)
        \/ \E q \in Principals, g \in Fingerprints : Unassign(q, g)
    <3>1. ASSUME NEW w \in Workers,
                 \/ HealPrepares(w) \/ PlanApply(w) \/ WriteFile(w) \/ AddOne(w)
                 \/ RemoveOne(w) \/ RunBatch(w) \/ BatchStops(w) \/ CallScript(w)
                 \/ ReadBack(w) \/ SkipsVerify(w) \/ Authenticates(w) \/ Promote(w)
                 \/ SetInSync(w) \/ Restore(w) \/ ResetDrift(w) \/ Judge(w)
                 \/ AdoptAssigns(w) \/ AdoptMarks(w) \/ CallFails(w) \/ Crash(w)
                 \/ WriteIsLost(w)
          PROVE  UNCHANGED actual
      BY <3>1 DEF HealPrepares, PlanApply, WriteFile, AddOne, RemoveOne, RunBatch,
         BatchStops, CallScript, ReadBack, SkipsVerify, Authenticates, Promote,
         SetInSync, Restore, ResetDrift, Judge, AdoptAssigns, AdoptMarks, CallFails, Crash,
         WriteIsLost
    <3>2. ASSUME NEW w \in Workers, NEW q \in Principals,
                 \/ StartSweep(w, q) \/ RequestRollback(w, q)
                 \/ \E dry \in BOOLEAN : RequestDeploy(w, q, dry)
                 \/ \E g \in Strangers : Adopt(w, q, g)
          PROVE  UNCHANGED actual
      BY <3>2 DEF StartSweep, RequestRollback, RequestDeploy, Adopt
    <3>3. ASSUME NEW q, NEW g,
                 \/ Assign(q, g) \/ AssignAbsent(q, g) \/ Ignore(q, g)
                 \/ HandEdit(q, g) \/ Revoke(g) \/ SweepFails(q)
          PROVE  UNCHANGED actual
      BY <3>3 DEF Assign, AssignAbsent, Ignore, HandEdit, Revoke, SweepFails
    <3>4. CASE UNCHANGED vars
      BY <3>4 DEF vars
    <3> QED BY <1>2, <3>1, <3>2, <3>3, <3>4 DEF Next, Step
  <2>2. actual \in [Principals -> [Fingerprints -> {"unknown", "present", "absent", "error"}]]
    BY DEF DeploymentInv, TypeOK
  <2>3. ASSUME NEW w \in Workers,
               RecordFailure(w) \/ FailsToAuthenticate(w) \/ Compare(w)
        PROVE  FALSE
    <3>1. CASE RecordFailure(w)
      BY <2>2, <3>1 DEF RecordFailure
    <3>2. CASE FailsToAuthenticate(w)
      BY <2>2, <3>2 DEF FailsToAuthenticate
    <3>3. CASE Compare(w)
      BY <2>2, <3>3 DEF Compare
    <3> QED BY <2>3, <3>1, <3>2, <3>3
  <2>4. ASSUME NEW q \in Principals, NEW g \in Fingerprints, Unassign(q, g)
        PROVE  FALSE
    BY <2>2, <2>4 DEF Unassign
  <2> QED BY <2>1, <2>3, <2>4
<1> QED BY <1>1, <1>2

-----------------------------------------------------------------------------
\* Every behaviour keeps its variables in their types and its workers' plans
\* sound (service/deploy.go and the connectors' Apply).
THEOREM DeploymentInvariant == Spec => []DeploymentInv
<1>1. Init => DeploymentInv
  BY TypeInit, SoundInit DEF DeploymentInv
<1>2. DeploymentInv /\ [Next]_vars => DeploymentInv'
  BY TypeStep, SoundStep DEF DeploymentInv
<1> QED BY <1>1, <1>2, PTL DEF Spec

\* The variables of deployment and reconciliation keep their types.
THEOREM DeploymentTyped == Spec => []TypeOK
<1>1. DeploymentInv => TypeOK
  BY DEF DeploymentInv
<1> QED BY <1>1, DeploymentInvariant, PTL

\* No deployment or healing empties an account, for any connectors and any
\* number of workers (the lockout guards of the connectors' Apply), but a prune
\* where the removal command names the login.
THEOREM AccountsNeverEmptied == Spec => NeverEmptied
<1>1. DeploymentInv /\ [Next]_vars =>
        [\A p \in Principals : host[p] # {} /\ host'[p] = {} =>
           \/ edits' # edits \/ Restoring(p) \/ platform[p] = "script"
           \/ \E w \in Workers : ClearsLogin(w, p)
           \/ platform[p] # "file" /\ \E w \in Workers : Outdated(w, p)]_vars
  BY NeverEmptiedStep
<1> QED BY <1>1, DeploymentInvariant, PTL DEF Spec, NeverEmptied

\* A key SKM does not know is not taken off a machine (PreserveUnmanaged),
\* unless a file is replaced by a worker whose reading of it is out of date, or
\* a prune runs a removal command that names the login.
THEOREM UnmanagedKeysSurvive == Spec => StrangersSurvive
<1>1. DeploymentInv /\ [Next]_vars =>
        [\A p \in Principals, f \in Fingerprints :
           status[f] = "none" /\ f \in host[p] /\ f \notin host'[p] =>
             \/ edits' # edits \/ Restoring(p) \/ platform[p] \in {"single", "script"}
             \/ \E w \in Workers : ClearsLogin(w, p)
             \/ platform[p] = "file" /\ \E w \in Workers : Outdated(w, p)]_vars
  BY StrangersSurviveStep
<1> QED BY <1>1, DeploymentInvariant, PTL DEF Spec, StrangersSurvive

\* An assignment is recorded as present only when the machine accepted the key
\* at the read-back and nothing changed it since, whatever writes are lost and
\* whichever deployments overlap (Apply of linux, git and netdev).
THEOREM PresentMeansLanded == Spec => RecordsWhatLanded
<1>1. DeploymentInv /\ [Next]_vars =>
        [\A p \in Principals, f \in Fingerprints :
           actual[p][f] # "present" /\ actual'[p][f] = "present" =>
             \/ f \in host[p] \/ platform[p] \in {"script", "blind"}
             \/ \E w \in Workers : run[w].p = p /\ run[w].pc = "record" /\ run[w].stale]_vars
  BY RecordsWhatLandedStep
<1> QED BY <1>1, DeploymentInvariant, PTL DEF Spec, RecordsWhatLanded

=============================================================================
