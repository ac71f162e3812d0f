-------------------------- MODULE BackgroundProofs --------------------------
(***************************************************************************)
(* Theorems about the work nobody asks for, for any number of instances,   *)
(* leaders, policies, keys, deliveries, attempts and faults.               *)
(***************************************************************************)
EXTENDS Background, FiniteSetTheorems, TLAPS

Labels == {"contend", "due", "policies", "select", "keys", "await",
           "target", "send", "answer"}

Runs == [pc : Labels, tasks : SUBSET {"policies", "webhooks"},
         policies : SUBSET Policies, policy : Policies \cup {"none"},
         keys : SUBSET Keys, rot : Nat, todo : SUBSET Principals,
         held : SUBSET Deliveries]

RotationRows ==
  [state : {"none", "planned", "awaiting_approval", "started", "completed", "aborted"},
   key : Keys \cup {"none"}, listed : SUBSET Principals, targets : SUBSET Principals,
   hasty : BOOLEAN]

DeliveryRows ==
  [state : {"none", "pending", "delivered", "dead"}, attempts : 0 .. MaxAttempts,
   retry : Times]

Typed ==
  /\ lock \in Instances \cup {Nobody}
  /\ run \in [Instances -> Runs]
  /\ next \in [Policies -> Times]
  /\ active \in SUBSET Keys /\ assigned \in [Keys -> SUBSET Principals]
  /\ rotation \in [Rotations -> RotationRows]
  /\ delivery \in [Deliveries -> DeliveryRows]
  /\ faults \in 0 .. MaxFaults /\ ticks \in 0 .. MaxTicks /\ requests \in 0 .. MaxRequests
  /\ replays \in [Deliveries -> Nat] /\ posts \in [Deliveries -> Nat]

\* What an instance is in the middle of. A plan is being listed: the principals
\* its row was found on are those with a row already and those still to do.
Planning(i) ==
  run[i].pc \in {"await", "target"} =>
    /\ run[i].rot \in Rotations
    /\ rotation[run[i].rot].state # "none"
    /\ rotation[run[i].rot].listed = rotation[run[i].rot].targets \cup run[i].todo

RunInv(i) ==
  /\ run[i].pc = "contend" => run[i] = Contending
  /\ run[i].pc = "answer" => run[i].rot \in run[i].held

RotationInv(r) ==
  /\ rotation[r].targets \subseteq rotation[r].listed
  /\ rotation[r].state \in {"started", "completed"} /\ ~rotation[r].hasty =>
       rotation[r].targets = rotation[r].listed

\* A row in the schedule is pending, with attempts left.
DeliveryInv(d) ==
  /\ delivery[d].state = "none" => delivery[d] = NoDelivery
  /\ delivery[d].retry # "none" =>
       delivery[d].state = "pending" /\ delivery[d].attempts < MaxAttempts

Holders(d) == {i \in Instances : d \in run[i].held}
Unsent(d)  == {i \in Holders(d) : ~(run[i].pc = "answer" /\ run[i].rot = d)}

\* A delivery in the schedule is a lease waiting to be taken, and each attempt
\* not yet counted a request waiting to be sent; a replay adds one of the first
\* and MaxAttempts of the second.
OnSchedule(d) == IF delivery[d].retry = "none" THEN 0 ELSE 1
Left(d) == IF delivery[d].state = "none" THEN 0 ELSE MaxAttempts - delivery[d].attempts

LeaseInv(d) ==
  /\ Cardinality(Holders(d)) + OnSchedule(d) <= 1 + replays[d]
  /\ posts[d] + Cardinality(Unsent(d)) + Left(d) <= MaxAttempts * (1 + replays[d])

IInv ==
  /\ Typed
  /\ \A i \in Instances : RunInv(i) /\ Planning(i)
  /\ \A r \in Rotations : RotationInv(r)
  /\ \A d \in Deliveries : DeliveryInv(d) /\ LeaseInv(d)

-----------------------------------------------------------------------------
(* Types.                                                                  *)

LEMMA ContendingIsRun == Contending \in Runs
  BY DEF Contending, Runs, Labels

LEMMA MovesType ==
  ASSUME Typed, NEW i \in Instances, NEW r \in Runs, Moves(i, r)
  PROVE  run' \in [Instances -> Runs]
  BY DEF Typed, Moves

\* What a step may do to the record of an instance and keep it a record.
LEMMA RunTypes ==
  ASSUME Typed, NEW i \in Instances
  PROVE  /\ run[i] \in Runs
         /\ \A pc \in Labels : [run[i] EXCEPT !.pc = pc] \in Runs
         /\ Abandoned(i) \in Runs
  BY DEF Typed, Runs, Abandoned, Labels

LEMMA RotationsAreNat == \A id \in Rotations : id \in Nat
  BY BackgroundAssumption DEF Rotations, BackgroundAssumption

LEMMA RotationsReflexive == \A id \in Rotations : id >= id
  BY RotationsAreNat

LEMMA FaultType ==
  ASSUME Typed, NEW kind, Fault(kind)
  PROVE  faults' \in 0 .. MaxFaults
  BY BackgroundAssumption DEF Typed, Fault, BackgroundAssumption

LEMMA PassType ==
  ASSUME Typed, NEW i \in Instances, Pass(i)
  PROVE  run' \in [Instances -> Runs]
<1> PICK tasks \in SUBSET {"policies", "webhooks"} :
      Moves(i, [Contending EXCEPT !.pc = "due", !.tasks = tasks])
  BY DEF Pass
<1>1. [Contending EXCEPT !.pc = "due", !.tasks = tasks] \in Runs
  BY DEF Contending, Runs, Labels
<1> QED BY <1>1, MovesType

LEMMA LeadingType ==
  ASSUME Typed, NEW i \in Instances, Leading(i)
  PROVE  Typed'
<1> USE DEF planVars, sendVars
<1>1. CASE Acquire(i)
  <2>1. run' \in [Instances -> Runs]
    BY <1>1, PassType DEF Acquire
  <2>2. lock' \in Instances \cup {Nobody} /\ ticks' \in 0 .. MaxTicks
    BY <1>1, BackgroundAssumption DEF Acquire, Typed, BackgroundAssumption
  <2> QED BY <1>1, <2>1, <2>2 DEF Acquire, Typed
<1>2. CASE Tick(i)
  <2>1. run' \in [Instances -> Runs]
    BY <1>2, PassType DEF Tick
  <2>2. ticks' \in 0 .. MaxTicks
    BY <1>2, BackgroundAssumption DEF Tick, Typed, BackgroundAssumption
  <2> QED BY <1>2, <2>1, <2>2 DEF Tick, Typed
<1>3. CASE Resign(i)
  <2>1. run' \in [Instances -> Runs]
    BY <1>3, MovesType, ContendingIsRun DEF Resign
  <2> QED BY <1>3, <2>1 DEF Resign, Typed
<1>4. CASE LoseConnection(i)
  <2>1. faults' \in 0 .. MaxFaults
    BY <1>4, FaultType DEF LoseConnection
  <2> QED BY <1>4, <2>1 DEF LoseConnection, Typed
<1>5. CASE Crash(i)
  <2>1. run' \in [Instances -> Runs] /\ faults' \in 0 .. MaxFaults
    BY <1>5, MovesType, ContendingIsRun, FaultType DEF Crash
  <2> QED BY <1>5, <2>1 DEF Crash, Typed
<1> QED BY <1>1, <1>2, <1>3, <1>4, <1>5 DEF Leading

LEMMA RotatingType ==
  ASSUME Typed, NEW i \in Instances, Rotating(i), Planning(i)
  PROVE  Typed'
<1> USE DEF schedVars, planVars, sendVars
<1>0. run[i] \in Runs
  BY RunTypes
<1>1. CASE TickPolicies(i)
  <2>1. /\ [run[i] EXCEPT !.pc = "policies", !.tasks = @ \ {"policies"},
                          !.policies = {p \in Policies : next[p] = "due"}] \in Runs
        /\ [run[i] EXCEPT !.tasks = @ \ {"policies"}] \in Runs
    BY <1>0 DEF Runs, Labels
  <2>2. run' \in [Instances -> Runs] /\ faults' \in 0 .. MaxFaults
    BY <1>1, <2>1, MovesType, FaultType DEF TickPolicies, Typed
  <2> QED BY <1>1, <2>2 DEF TickPolicies, Typed
<1>2. CASE NoMorePolicies(i)
  <2>1. run' \in [Instances -> Runs]
    BY <1>2, RunTypes, MovesType DEF NoMorePolicies, Goto, Labels
  <2> QED BY <1>2, <2>1 DEF NoMorePolicies, Typed
<1>3. CASE MarkPolicyRun(i)
  <2> PICK p \in run[i].policies :
        /\ Moves(i, [run[i] EXCEPT !.pc = "select", !.policies = @ \ {p}, !.policy = p])
        /\ \/ \E t \in {"later"} \cup (IF p \in Cron THEN {"none"} ELSE {}) :
                next' = [next EXCEPT ![p] = t] /\ UNCHANGED faults
           \/ Fault("query") /\ UNCHANGED next
    BY <1>3 DEF MarkPolicyRun
  <2>0. p \in Policies
    BY <1>0 DEF Runs
  <2>1. [run[i] EXCEPT !.pc = "select", !.policies = @ \ {p}, !.policy = p] \in Runs
    BY <1>0, <2>0 DEF Runs, Labels
  <2>2. run' \in [Instances -> Runs]
    BY <2>1, MovesType
  <2>3. next' \in [Policies -> Times] /\ faults' \in 0 .. MaxFaults
    BY <2>0, FaultType DEF Typed, Times
  <2> QED BY <1>3, <2>2, <2>3 DEF MarkPolicyRun, Typed
<1>4. CASE SelectKeys(i)
  <2>1. [run[i] EXCEPT !.pc = "keys", !.keys = active] \in Runs
    BY <1>0 DEF Runs, Labels, Typed
  <2>2. run' \in [Instances -> Runs]
    BY <1>4, <2>1, MovesType DEF SelectKeys
  <2> QED BY <1>4, <2>2 DEF SelectKeys, Typed
<1>5. CASE NextPolicy(i)
  <2>1. [run[i] EXCEPT !.pc = "policies", !.policy = "none"] \in Runs
    BY <1>0 DEF Runs, Labels
  <2>2. run' \in [Instances -> Runs]
    BY <1>5, <2>1, MovesType DEF NextPolicy
  <2> QED BY <1>5, <2>2 DEF NextPolicy, Typed
<1>6. CASE Plan(i)
  <2> PICK k \in run[i].keys :
        LET r == [run[i] EXCEPT !.keys = @ \ {k}] IN
        IF k \in active
        THEN \E id \in Rotations :
               /\ \A n \in Rotations : rotation[n] = NoRotation <=> n >= id
               /\ rotation' = [rotation EXCEPT ![id] = Planned(k)]
               /\ Moves(i, [r EXCEPT !.pc = IF run[i].policy \in Approval
                                            THEN "await" ELSE "target",
                                     !.rot = id, !.todo = assigned[k]])
        ELSE Moves(i, r) /\ UNCHANGED rotation
    BY <1>6 DEF Plan
  <2>0. k \in Keys
    BY <1>0 DEF Runs
  <2>1. CASE k \in active
    <3> PICK id \in Rotations :
          /\ rotation' = [rotation EXCEPT ![id] = Planned(k)]
          /\ Moves(i, [run[i] EXCEPT !.keys = @ \ {k},
                        !.pc = IF run[i].policy \in Approval THEN "await" ELSE "target",
                        !.rot = id, !.todo = assigned[k]])
      BY <2>1
    <3>1. [run[i] EXCEPT !.keys = @ \ {k},
             !.pc = IF run[i].policy \in Approval THEN "await" ELSE "target",
             !.rot = id, !.todo = assigned[k]] \in Runs
      <4>1. id \in Nat
        BY RotationsAreNat
      <4>2. assigned[k] \in SUBSET Principals
        BY <2>0 DEF Typed
      <4> QED BY <1>0, <4>1, <4>2 DEF Runs, Labels
    <3>2. Planned(k) \in RotationRows
      BY <2>0 DEF RotationRows, Typed, Planned
    <3>3. run' \in [Instances -> Runs] /\ rotation' \in [Rotations -> RotationRows]
      BY <3>1, <3>2, MovesType DEF Typed
    <3> QED BY <1>6, <3>3 DEF Plan, Typed
  <2>2. CASE k \notin active
    <3>1. [run[i] EXCEPT !.keys = @ \ {k}] \in Runs
      BY <1>0 DEF Runs
    <3>2. run' \in [Instances -> Runs] /\ UNCHANGED rotation
      BY <2>2, <3>1, MovesType
    <3> QED BY <1>6, <3>2 DEF Plan, Typed
  <2> QED BY <2>1, <2>2
<1>7. CASE Await(i)
  <2>1. run' \in [Instances -> Runs]
    BY <1>7, RunTypes, MovesType DEF Await, Goto, Labels
  <2>2. rotation' \in [Rotations -> RotationRows]
    BY <1>7 DEF Await, Typed, RotationRows
  <2> QED BY <1>7, <2>1, <2>2 DEF Await, Typed
<1>8. CASE AddRotationTarget(i)
  <2> PICK p \in run[i].todo :
       \/ /\ rotation' = [rotation EXCEPT ![run[i].rot].targets = @ \cup {p}]
          /\ Moves(i, [run[i] EXCEPT !.todo = @ \ {p}])
          /\ UNCHANGED faults
       \/ /\ Fault("query")
          /\ Moves(i, Abandoned(i))
          /\ UNCHANGED rotation
    BY <1>8 DEF AddRotationTarget
  <2>1. p \in Principals /\ [run[i] EXCEPT !.todo = @ \ {p}] \in Runs
    BY <1>0 DEF Runs
  <2>2. run' \in [Instances -> Runs] /\ faults' \in 0 .. MaxFaults
    BY <2>1, RunTypes, MovesType, FaultType DEF Typed
  <2>3. rotation' \in [Rotations -> RotationRows]
    BY <2>1 DEF Typed, RotationRows
  <2> QED BY <1>8, <2>2, <2>3 DEF AddRotationTarget, Typed
<1>9. CASE Start(i)
  <2>1. run' \in [Instances -> Runs] /\ faults' \in 0 .. MaxFaults
    BY <1>9, RunTypes, MovesType, FaultType DEF Start, Typed
  <2>2. \/ rotation' = [rotation EXCEPT ![run[i].rot].state = "started"]
        \/ UNCHANGED rotation
    BY <1>9 DEF Start
  <2>3. \A r \in Rotations : [rotation[r] EXCEPT !.state = "started"] \in RotationRows
    BY DEF Typed, RotationRows
  <2>4. rotation' \in [Rotations -> RotationRows]
    BY <2>2, <2>3 DEF Typed
  <2> QED BY <1>9, <2>1, <2>4 DEF Start, Typed
<1> QED BY <1>1, <1>2, <1>3, <1>4, <1>5, <1>6, <1>7, <1>8, <1>9 DEF Rotating

LEMMA DeliveryRowTypes ==
  ASSUME Typed, NEW d \in Deliveries
  PROVE  /\ NoDelivery \in DeliveryRows /\ Queued \in DeliveryRows
         /\ \A state \in {"delivered", "dead"} : Settled(d, state) \in DeliveryRows
         /\ Retried(d) \in DeliveryRows
<1>1. NoDelivery \in DeliveryRows /\ Queued \in DeliveryRows
  BY BackgroundAssumption
  DEF DeliveryRows, NoDelivery, Queued, Times, BackgroundAssumption
<1>2. delivery[d] \in DeliveryRows
  BY DEF Typed
<1>3. \A state \in {"delivered", "dead"} : Settled(d, state) \in DeliveryRows
  BY <1>2 DEF DeliveryRows, Settled, Times
<1>4. [delivery[d] EXCEPT !.state = "pending", !.retry = "later"] \in DeliveryRows
  BY <1>2 DEF DeliveryRows, Times
<1> QED BY <1>1, <1>3, <1>4 DEF Retried

\* A row found due has an attempt left, which the lease counts.
LEMMA LeaseType ==
  ASSUME Typed, \A d \in Deliveries : DeliveryInv(d), NEW set \in SUBSET Due
  PROVE  LeaseOf(set) \in [Deliveries -> DeliveryRows]
<1> SUFFICES ASSUME NEW d \in set
             PROVE  [delivery[d] EXCEPT !.attempts = @ + 1, !.retry = "none"] \in DeliveryRows
  BY DEF LeaseOf, Typed
<1>1. d \in Deliveries /\ delivery[d].attempts < MaxAttempts
  BY DEF Due, DeliveryInv
<1>2. delivery[d] \in DeliveryRows
  BY <1>1 DEF Typed
<1>3. delivery[d].attempts + 1 \in 0 .. MaxAttempts
  BY <1>1, <1>2, BackgroundAssumption DEF DeliveryRows, BackgroundAssumption
<1> QED BY <1>2, <1>3 DEF DeliveryRows, Times

LEMMA DrainingType ==
  ASSUME Typed, NEW i \in Instances, Draining(i), RunInv(i),
         \A d \in Deliveries : DeliveryInv(d)
  PROVE  Typed'
<1> USE DEF schedVars, planVars, sendVars
<1>0. run[i] \in Runs
  BY RunTypes
<1>1. CASE DueDeliveries(i)
  <2> PICK set \in SUBSET Due :
        /\ delivery' = LeaseOf(set)
        /\ Moves(i, [run[i] EXCEPT !.pc = "send", !.tasks = {}, !.held = set])
    BY <1>1 DEF DueDeliveries
  <2>1. [run[i] EXCEPT !.pc = "send", !.tasks = {}, !.held = set] \in Runs
    BY <1>0 DEF Runs, Labels, Due
  <2>2. run' \in [Instances -> Runs] /\ delivery' \in [Deliveries -> DeliveryRows]
    BY <2>1, MovesType, LeaseType
  <2> QED BY <1>1, <2>2 DEF DueDeliveries, Typed
<1>2. CASE Post(i)
  <2> PICK d \in run[i].held :
       IF delivery[d] # NoDelivery
       THEN /\ posts' = [posts EXCEPT ![d] = @ + 1]
            /\ Moves(i, [run[i] EXCEPT !.pc = "answer", !.rot = d])
       ELSE Moves(i, [run[i] EXCEPT !.held = @ \ {d}]) /\ UNCHANGED posts
    BY <1>2 DEF Post
  <2>1. d \in Deliveries /\ d \in Nat
    BY <1>0 DEF Runs, Deliveries
  <2>2. /\ [run[i] EXCEPT !.pc = "answer", !.rot = d] \in Runs
        /\ [run[i] EXCEPT !.held = @ \ {d}] \in Runs
    BY <1>0, <2>1 DEF Runs, Labels
  <2>3. run' \in [Instances -> Runs] /\ posts' \in [Deliveries -> Nat]
    BY <2>1, <2>2, MovesType DEF Typed
  <2> QED BY <1>2, <2>3 DEF Post, Typed
<1>3. CASE RecordDeliveryResult(i)
  <2> DEFINE d == run[i].rot
  <2>1. d \in Deliveries
    BY <1>0, <1>3 DEF RecordDeliveryResult, At, RunInv, Runs
  <2>2. [run[i] EXCEPT !.pc = "send", !.rot = 0, !.held = @ \ {d}] \in Runs
    BY <1>0 DEF Runs, Labels
  <2>3. run' \in [Instances -> Runs]
    BY <1>3, <2>2, MovesType DEF RecordDeliveryResult
  <2>4. delivery' \in [Deliveries -> DeliveryRows] /\ faults' \in 0 .. MaxFaults
    BY <1>3, <2>1, DeliveryRowTypes, FaultType DEF RecordDeliveryResult, Typed
  <2> QED BY <1>3, <2>3, <2>4 DEF RecordDeliveryResult, Typed
<1>4. CASE Drained(i)
  <2>1. run' \in [Instances -> Runs]
    BY <1>4, RunTypes, MovesType DEF Drained, Goto, Labels
  <2> QED BY <1>4, <2>1 DEF Drained, Typed
<1> QED BY <1>1, <1>2, <1>3, <1>4 DEF Draining

LEMMA RequestType ==
  ASSUME Typed, Requested
  PROVE  requests' \in 0 .. MaxRequests
  BY BackgroundAssumption DEF Typed, Requested, BackgroundAssumption

LEMMA OperatorsType ==
  ASSUME Typed, Operators
  PROVE  Typed'
<1> USE DEF schedVars, planVars, sendVars
<1>1. CASE QueueDelivery
  <2>1. delivery' \in [Deliveries -> DeliveryRows]
    BY <1>1, DeliveryRowTypes DEF QueueDelivery, Typed
  <2> QED BY <1>1, <2>1, RequestType DEF QueueDelivery, Typed
<1>2. CASE DeleteWebhook
  <2>1. NoDelivery \in DeliveryRows
    BY BackgroundAssumption DEF NoDelivery, DeliveryRows, Times, BackgroundAssumption
  <2>2. delivery' \in [Deliveries -> DeliveryRows]
    BY <1>2, <2>1 DEF DeleteWebhook
  <2> QED BY <1>2, <2>2, RequestType DEF DeleteWebhook, Typed
<1>3. ASSUME NEW d \in Deliveries, ReplayDelivery(d)
      PROVE  Typed'
  <2>1. delivery' \in [Deliveries -> DeliveryRows] /\ replays' \in [Deliveries -> Nat]
    BY <1>3, DeliveryRowTypes DEF ReplayDelivery, Typed
  <2> QED BY <1>3, <2>1, RequestType DEF ReplayDelivery, Typed
<1>4. ASSUME NEW k \in Keys, NEW p \in Principals, Reassign(k, p)
      PROVE  Typed'
  <2>1. assigned' \in [Keys -> SUBSET Principals]
    BY <1>4 DEF Reassign, Typed
  <2> QED BY <1>4, <2>1, RequestType DEF Reassign, Typed
<1>5. ASSUME NEW r \in Rotations, Approve(r)
      PROVE  Typed'
  <2>1. faults' \in 0 .. MaxFaults
    BY <1>5, FaultType DEF Approve, Typed
  <2>2. /\ [rotation[r] EXCEPT !.state = "planned"] \in RotationRows
        /\ \A h \in BOOLEAN :
             [rotation[r] EXCEPT !.state = "started", !.hasty = h] \in RotationRows
    BY DEF Typed, RotationRows
  <2>3. rotation' \in [Rotations -> RotationRows]
    BY <1>5, <2>2 DEF Approve, Typed
  <2> QED BY <1>5, <2>1, <2>3, RequestType DEF Approve, Typed
<1>6. ASSUME NEW r \in Rotations, Abort(r)
      PROVE  Typed'
  <2>1. rotation' \in [Rotations -> RotationRows]
    BY <1>6 DEF Abort, Typed, RotationRows
  <2> QED BY <1>6, <2>1, RequestType DEF Abort, Typed
<1> QED BY <1>1, <1>2, <1>3, <1>4, <1>5, <1>6 DEF Operators

LEMMA ClockType ==
  ASSUME Typed, Clock
  PROVE  Typed'
<1> USE DEF schedVars, planVars, sendVars
<1>1. ASSUME NEW p \in Policies, PolicyDue(p)
      PROVE  Typed'
  <2>1. next' \in [Policies -> Times]
    BY <1>1 DEF PolicyDue, Typed, Times
  <2> QED BY <1>1, <2>1 DEF PolicyDue, Typed
<1>2. ASSUME NEW d \in Deliveries, RetryDue(d)
      PROVE  Typed'
  <2>1. delivery' \in [Deliveries -> DeliveryRows]
    BY <1>2 DEF RetryDue, Typed, DeliveryRows, Times
  <2> QED BY <1>2, <2>1 DEF RetryDue, Typed
<1>3. ASSUME NEW r \in Rotations, Replaced(r)
      PROVE  Typed'
  <2>1. rotation' \in [Rotations -> RotationRows] /\ active' \in SUBSET Keys
    BY <1>3 DEF Replaced, Typed, RotationRows
  <2> QED BY <1>3, <2>1 DEF Replaced, Typed
<1> QED BY <1>1, <1>2, <1>3 DEF Clock

LEMMA TypeStep == IInv /\ [Next]_vars => Typed'
<1> SUFFICES ASSUME IInv, [Next]_vars
             PROVE  Typed'
  OBVIOUS
<1>1. CASE UNCHANGED vars
  BY <1>1 DEF IInv, Typed, vars, schedVars, planVars, sendVars
<1>2. ASSUME NEW i \in Instances, Leading(i) \/ Rotating(i) \/ Draining(i)
      PROVE  Typed'
  BY <1>2, LeadingType, RotatingType, DrainingType DEF IInv
<1>3. CASE Operators \/ Clock
  BY <1>3, OperatorsType, ClockType DEF IInv
<1> QED BY <1>1, <1>2, <1>3 DEF Next

-----------------------------------------------------------------------------
(* Rows of rotations.                                                      *)

\* A row is never deleted and keeps the list it was planned with; its targets
\* grow within that list, so a plan under way is not disturbed by others.
RowGrows(r) ==
  rotation[r].state # "none" =>
    /\ rotation'[r].state # "none"
    /\ rotation'[r].listed = rotation[r].listed
    /\ rotation[r].targets \subseteq rotation'[r].targets
    /\ rotation'[r].targets \subseteq rotation'[r].listed

RowKept(r) == RowGrows(r) /\ RotationInv(r)'

LEMMA RotationUnchanged ==
  ASSUME IInv, UNCHANGED rotation
  PROVE  \A r \in Rotations : RowKept(r)
  BY DEF IInv, RowKept, RowGrows, RotationInv

\* A row that changes its state, and into "started" only when it is whole or was
\* approved half written.
LEMMA RowMoves ==
  ASSUME IInv, NEW r \in Rotations, NEW state,
         rotation' = [rotation EXCEPT ![r].state = state], state # "none",
         state \in {"started", "completed"} /\ ~rotation[r].hasty =>
           rotation[r].targets = rotation[r].listed
  PROVE  \A n \in Rotations : RowKept(n)
<1> SUFFICES ASSUME NEW n \in Rotations
             PROVE  RowKept(n)
  OBVIOUS
<1>1. RotationInv(n) /\ rotation[n] \in RotationRows /\ rotation[r] \in RotationRows
  BY DEF IInv, Typed
<1>2. CASE n = r
  <2>1. rotation'[n] = [rotation[n] EXCEPT !.state = state]
    BY <1>2 DEF IInv, Typed
  <2>2. /\ rotation'[n].state = state
        /\ rotation'[n].listed = rotation[n].listed
        /\ rotation'[n].targets = rotation[n].targets
        /\ rotation'[n].hasty = rotation[n].hasty
    BY <1>1, <2>1 DEF RotationRows
  <2> QED BY <1>1, <1>2, <2>2 DEF RowKept, RowGrows, RotationInv
<1>3. CASE n # r
  <2>1. rotation'[n] = rotation[n]
    BY <1>3 DEF IInv, Typed
  <2> QED BY <1>1, <2>1 DEF RowKept, RowGrows, RotationInv
<1> QED BY <1>2, <1>3

\* Approval: the row starts, and remembers whether it was whole.
LEMMA RowApproved ==
  ASSUME IInv, NEW r \in Rotations, NEW h \in BOOLEAN,
         h = (rotation[r].targets # rotation[r].listed),
         rotation' = [rotation EXCEPT ![r].state = "started", ![r].hasty = h]
  PROVE  \A n \in Rotations : RowKept(n)
<1> SUFFICES ASSUME NEW n \in Rotations
             PROVE  RowKept(n)
  OBVIOUS
<1>1. RotationInv(n) /\ rotation[n] \in RotationRows /\ rotation[r] \in RotationRows
  BY DEF IInv, Typed
<1>2. CASE n = r
  <2>1. rotation'[n] = [rotation[n] EXCEPT !.state = "started", !.hasty = h]
    BY <1>2 DEF IInv, Typed
  <2>2. ASSUME NEW g \in {TRUE, FALSE},
               rotation'[n] = [rotation[n] EXCEPT !.state = "started", !.hasty = g]
        PROVE  /\ rotation'[n].state = "started"
               /\ rotation'[n].listed = rotation[n].listed
               /\ rotation'[n].targets = rotation[n].targets
    <3> DEFINE row == rotation[n]
               moved == [row EXCEPT !.state = "started"]
    <3>1. row \in RotationRows
      BY <1>1
    <3>2. rotation'[n] = [moved EXCEPT !.hasty = g]
      BY <2>2
    <3> HIDE DEF row
    <3>3. /\ moved \in RotationRows /\ moved.state = "started"
          /\ moved.listed = row.listed /\ moved.targets = row.targets
      BY <3>1 DEF RotationRows
    <3> HIDE DEF moved
    <3>4. /\ [moved EXCEPT !.hasty = g].state = moved.state
          /\ [moved EXCEPT !.hasty = g].listed = moved.listed
          /\ [moved EXCEPT !.hasty = g].targets = moved.targets
      BY <3>3 DEF RotationRows
    <3> QED BY <3>2, <3>3, <3>4 DEF row
  <2>3. rotation'[n].hasty <=> h
    BY <1>1, <2>1, Zenon DEF RotationRows
  <2>4. /\ rotation'[n].state = "started"
        /\ rotation'[n].listed = rotation[n].listed
        /\ rotation'[n].targets = rotation[n].targets
    BY <2>1, <2>2
  <2>5. ~rotation'[n].hasty => rotation'[n].targets = rotation'[n].listed
    BY <1>2, <2>3, <2>4
  <2> QED BY <1>1, <1>2, <2>4, <2>5 DEF RowKept, RowGrows, RotationInv
<1>3. CASE n # r
  <2>1. rotation'[n] = rotation[n]
    BY <1>3 DEF IInv, Typed
  <2> QED BY <1>1, <2>1 DEF RowKept, RowGrows, RotationInv
<1> QED BY <1>2, <1>3

\* What Plan does to a row: a fresh one gets the list, or nothing changes.
LEMMA PlanEffect ==
  ASSUME IInv, NEW i \in Instances, Plan(i)
  PROVE  \/ \E k \in Keys, id \in Rotations, pc \in {"await", "target"} :
              /\ rotation[id] = NoRotation
              /\ rotation' = [rotation EXCEPT ![id] = Planned(k)]
              /\ run' = [run EXCEPT ![i] = [run[i] EXCEPT
                   !.keys = @ \ {k}, !.pc = pc, !.rot = id, !.todo = assigned[k]]]
         \/ /\ \E k \in Keys : run' = [run EXCEPT ![i] = [run[i] EXCEPT !.keys = @ \ {k}]]
            /\ UNCHANGED rotation
<1> PICK k \in run[i].keys :
      LET r == [run[i] EXCEPT !.keys = @ \ {k}] IN
      IF k \in active
      THEN \E id \in Rotations :
             /\ \A n \in Rotations : rotation[n] = NoRotation <=> n >= id
             /\ rotation' = [rotation EXCEPT ![id] = Planned(k)]
             /\ Moves(i, [r EXCEPT !.pc = IF run[i].policy \in Approval
                                          THEN "await" ELSE "target",
                                   !.rot = id, !.todo = assigned[k]])
      ELSE Moves(i, r) /\ UNCHANGED rotation
  BY DEF Plan
<1>1. k \in Keys
  BY RunTypes DEF IInv, Runs
<1>2. CASE k \in active
  <2> DEFINE pc == IF run[i].policy \in Approval THEN "await" ELSE "target"
  <2> PICK id \in Rotations :
        /\ \A n \in Rotations : rotation[n] = NoRotation <=> n >= id
        /\ rotation' = [rotation EXCEPT ![id] = Planned(k)]
        /\ run' = [run EXCEPT ![i] = [run[i] EXCEPT
              !.keys = @ \ {k}, !.pc = pc, !.rot = id, !.todo = assigned[k]]]
    BY <1>2 DEF Moves
  <2>1. id >= id
    BY RotationsReflexive
  <2>2. rotation[id] = NoRotation
    BY <2>1
  <2>3. pc \in {"await", "target"}
    OBVIOUS
  <2> HIDE DEF pc
  <2> QED BY <1>1, <2>2, <2>3
<1>3. CASE k \notin active
  BY <1>1, <1>3 DEF Moves
<1> QED BY <1>2, <1>3

LEMMA PlanRows ==
  ASSUME IInv, NEW i \in Instances, Plan(i)
  PROVE  /\ \A r \in Rotations : RowKept(r)
         /\ Planning(i)'
<1>0. /\ run \in [Instances -> Runs] /\ run[i] \in Runs /\ run[i].pc = "keys"
      /\ rotation \in [Rotations -> RotationRows]
  BY DEF IInv, Typed, Plan, At
<1>1. ASSUME NEW k \in Keys, NEW id \in Rotations, NEW pc \in {"await", "target"},
             rotation[id] = NoRotation,
             rotation' = [rotation EXCEPT ![id] = Planned(k)],
             run' = [run EXCEPT ![i] = [run[i] EXCEPT
               !.keys = @ \ {k}, !.pc = pc, !.rot = id, !.todo = assigned[k]]]
      PROVE  (\A r \in Rotations : RowKept(r)) /\ Planning(i)'
  <2>2. rotation[id].state = "none"
    BY <1>1 DEF NoRotation
  <2>3. rotation'[id] = Planned(k)
    BY <1>0, <1>1
  <2>4. /\ rotation'[id].state = "planned" /\ rotation'[id].listed = assigned[k]
        /\ rotation'[id].targets = {}
    BY <2>3 DEF Planned
  <2>5. ASSUME NEW n \in Rotations
        PROVE  RowKept(n)
    <3>1. CASE n = id
      BY <2>2, <2>4, <3>1 DEF RowKept, RowGrows, RotationInv
    <3>2. CASE n # id
      <4>1. rotation'[n] = rotation[n]
        BY <1>0, <1>1, <3>2
      <4> QED BY <4>1 DEF RowKept, RowGrows, RotationInv, IInv
    <3> QED BY <3>1, <3>2
  <2>6. run'[i].rot = id /\ run'[i].todo = assigned[k]
    BY <1>0, <1>1 DEF Runs
  <2> QED BY <2>4, <2>5, <2>6 DEF Planning
<1>2. ASSUME NEW k \in Keys, UNCHANGED rotation,
             run' = [run EXCEPT ![i] = [run[i] EXCEPT !.keys = @ \ {k}]]
      PROVE  (\A r \in Rotations : RowKept(r)) /\ Planning(i)'
  <2>1. run'[i].pc = "keys"
    BY <1>0, <1>2 DEF Runs
  <2> QED BY <1>2, <2>1, RotationUnchanged DEF Planning
<1>3. CASE /\ \E k \in Keys : run' = [run EXCEPT ![i] = [run[i] EXCEPT !.keys = @ \ {k}]]
           /\ UNCHANGED rotation
  BY <1>2, <1>3
<1>4. CASE \E k \in Keys, id \in Rotations, pc \in {"await", "target"} :
             /\ rotation[id] = NoRotation
             /\ rotation' = [rotation EXCEPT ![id] = Planned(k)]
             /\ run' = [run EXCEPT ![i] = [run[i] EXCEPT
                  !.keys = @ \ {k}, !.pc = pc, !.rot = id, !.todo = assigned[k]]]
  BY <1>1, <1>4
<1> QED BY <1>3, <1>4, PlanEffect

LEMMA AwaitRows ==
  ASSUME IInv, NEW i \in Instances, Await(i)
  PROVE  /\ \A r \in Rotations : RowKept(r)
         /\ Planning(i)'
<1> DEFINE r == run[i].rot
<1>0. /\ run \in [Instances -> Runs] /\ run[i] \in Runs /\ run[i].pc = "await"
      /\ rotation \in [Rotations -> RotationRows]
  BY DEF IInv, Typed, Await, At
<1>1. /\ r \in Rotations
      /\ rotation[r].listed = rotation[r].targets \cup run[i].todo
  BY <1>0 DEF IInv, Planning
<1>2. CASE rotation[r].state = "planned"
  <2>1. /\ rotation' = [rotation EXCEPT ![r].state = "awaiting_approval"]
        /\ Goto(i, "target")
    BY <1>2 DEF Await
  <2>2. \A n \in Rotations : RowKept(n)
    BY <1>1, <2>1, RowMoves
  <2>3. run'[i].rot = r /\ run'[i].todo = run[i].todo
    BY <1>0, <2>1 DEF Goto, Moves, Runs
  <2>4. /\ rotation'[r].state = "awaiting_approval"
        /\ rotation'[r].listed = rotation[r].listed
        /\ rotation'[r].targets = rotation[r].targets
    BY <1>0, <1>1, <2>1 DEF RotationRows
  <2> QED BY <1>1, <2>2, <2>3, <2>4 DEF Planning
<1>3. CASE rotation[r].state # "planned"
  <2>1. Moves(i, Abandoned(i)) /\ UNCHANGED rotation
    BY <1>3 DEF Await
  <2>2. run'[i].pc = "keys"
    BY <1>0, <2>1 DEF Moves, Abandoned, Runs
  <2> QED BY <2>1, <2>2, RotationUnchanged DEF Planning
<1> QED BY <1>2, <1>3

LEMMA TargetRows ==
  ASSUME IInv, NEW i \in Instances, AddRotationTarget(i)
  PROVE  /\ \A r \in Rotations : RowKept(r)
         /\ Planning(i)'
<1> DEFINE r == run[i].rot
<1>0. /\ run \in [Instances -> Runs] /\ run[i] \in Runs /\ run[i].pc = "target"
      /\ rotation \in [Rotations -> RotationRows]
  BY DEF IInv, Typed, AddRotationTarget, At
<1>1. /\ r \in Rotations /\ rotation[r].state # "none"
      /\ rotation[r].listed = rotation[r].targets \cup run[i].todo
  BY <1>0 DEF IInv, Planning
<1> PICK p \in run[i].todo :
      \/ /\ rotation' = [rotation EXCEPT ![r].targets = @ \cup {p}]
         /\ Moves(i, [run[i] EXCEPT !.todo = @ \ {p}])
      \/ /\ Moves(i, Abandoned(i))
         /\ UNCHANGED rotation
  BY DEF AddRotationTarget
<1>2. CASE /\ rotation' = [rotation EXCEPT ![r].targets = @ \cup {p}]
           /\ Moves(i, [run[i] EXCEPT !.todo = @ \ {p}])
  <2>1. /\ rotation'[r].state = rotation[r].state
        /\ rotation'[r].listed = rotation[r].listed
        /\ rotation'[r].targets = rotation[r].targets \cup {p}
        /\ rotation'[r].hasty = rotation[r].hasty
    BY <1>0, <1>1, <1>2 DEF RotationRows
  <2>2. run'[i].rot = r /\ run'[i].todo = run[i].todo \ {p}
    BY <1>0, <1>2 DEF Moves, Runs
  <2>3. ASSUME NEW n \in Rotations
        PROVE  RowKept(n)
    <3>1. CASE n = r
      <4>1. RotationInv(r)
        BY <1>1 DEF IInv
      <4> QED BY <1>1, <2>1, <3>1, <4>1 DEF RowKept, RowGrows, RotationInv
    <3>2. CASE n # r
      <4>1. rotation'[n] = rotation[n]
        BY <1>0, <1>2, <3>2
      <4> QED BY <4>1 DEF RowKept, RowGrows, RotationInv, IInv
    <3> QED BY <3>1, <3>2
  <2> QED BY <1>1, <2>1, <2>2, <2>3 DEF Planning
<1>3. CASE Moves(i, Abandoned(i)) /\ UNCHANGED rotation
  <2>1. run'[i].pc = "keys"
    BY <1>0, <1>3 DEF Moves, Abandoned, Runs
  <2> QED BY <1>3, <2>1, RotationUnchanged DEF Planning
<1> QED BY <1>2, <1>3

LEMMA StartRows ==
  ASSUME IInv, NEW i \in Instances, Start(i)
  PROVE  /\ \A r \in Rotations : RowKept(r)
         /\ Planning(i)'
<1> DEFINE r == run[i].rot
<1>0. /\ run \in [Instances -> Runs] /\ run[i] \in Runs /\ run[i].pc = "target"
      /\ run[i].todo = {} /\ Moves(i, Abandoned(i))
  BY DEF IInv, Typed, Start, At
<1>1. r \in Rotations /\ rotation[r].targets = rotation[r].listed
  BY <1>0 DEF IInv, Planning
<1>2. \/ rotation' = [rotation EXCEPT ![r].state = "started"]
      \/ UNCHANGED rotation
  BY DEF Start
<1>3. run'[i].pc = "keys"
  BY <1>0 DEF Moves, Abandoned, Runs
<1> QED BY <1>1, <1>2, <1>3, RowMoves, RotationUnchanged DEF Planning

LEMMA OthersRows ==
  ASSUME IInv, Operators \/ Clock
  PROVE  \A r \in Rotations : RowKept(r)
<1>1. ASSUME NEW r \in Rotations, Approve(r)
      PROVE  \A n \in Rotations : RowKept(n)
  <2>1. CASE rotation' = [rotation EXCEPT ![r].state = "started",
                            ![r].hasty = rotation[r].targets # rotation[r].listed]
    BY <2>1, RowApproved
  <2>2. CASE rotation' = [rotation EXCEPT ![r].state = "planned"]
    BY <2>2, RowMoves
  <2> QED BY <1>1, <2>1, <2>2 DEF Approve
<1>2. ASSUME NEW r \in Rotations, Replaced(r)
      PROVE  \A n \in Rotations : RowKept(n)
  <2>1. ~rotation[r].hasty => rotation[r].targets = rotation[r].listed
    BY <1>2 DEF Replaced, IInv, RotationInv
  <2> QED BY <1>2, <2>1, RowMoves DEF Replaced
<1>3. CASE UNCHANGED rotation
  BY <1>3, RotationUnchanged
<1>5. ASSUME NEW r \in Rotations, Abort(r)
      PROVE  \A n \in Rotations : RowKept(n)
  BY <1>5, RowMoves DEF Abort
<1>4. \/ \E r \in Rotations : Approve(r) \/ Abort(r)
      \/ \E r \in Rotations : Replaced(r)
      \/ UNCHANGED rotation
  BY DEF Operators, Clock, QueueDelivery, DeleteWebhook, ReplayDelivery, Reassign,
         PolicyDue, RetryDue, planVars
<1> QED BY <1>1, <1>2, <1>3, <1>4, <1>5

-----------------------------------------------------------------------------
(* What an instance is in the middle of.                                   *)

LEMMA PlanningKept ==
  ASSUME IInv, NEW j \in Instances, run'[j] = run[j], \A r \in Rotations : RowKept(r)
  PROVE  Planning(j)'
<1> SUFFICES ASSUME run[j].pc \in {"await", "target"}
             PROVE  /\ run[j].rot \in Rotations
                    /\ rotation'[run[j].rot].state # "none"
                    /\ rotation'[run[j].rot].listed
                         = rotation'[run[j].rot].targets \cup run[j].todo
  BY DEF Planning
<1> DEFINE r == run[j].rot
<1>1. /\ r \in Rotations /\ rotation[r].state # "none"
      /\ rotation[r].listed = rotation[r].targets \cup run[j].todo
  BY DEF IInv, Planning
<1>2. RowGrows(r)
  BY <1>1 DEF RowKept
<1> HIDE DEF r
<1> QED BY <1>1, <1>2 DEF RowGrows, r

\* A step of one instance leaves the others where they are.
OthersStay(i) == \A j \in Instances \ {i} : run'[j] = run[j]

LEMMA MovesStay ==
  ASSUME Typed, NEW i \in Instances, NEW r, Moves(i, r)
  PROVE  run'[i] = r /\ OthersStay(i)
  BY DEF Typed, Moves, OthersStay

LEMMA LeadingMoves ==
  ASSUME IInv, NEW i \in Instances, Leading(i)
  PROVE  /\ OthersStay(i) /\ RunInv(i)' /\ Planning(i)' /\ UNCHANGED rotation
         /\ run'[i].held = {} \/ UNCHANGED run
<1> USE DEF planVars
<1>0. Typed /\ run[i] \in Runs /\ RunInv(i) /\ Planning(i)
  BY RunTypes DEF IInv
<1>1. ASSUME Pass(i), UNCHANGED rotation
      PROVE  /\ OthersStay(i) /\ RunInv(i)' /\ Planning(i)'
             /\ run'[i].held = {} \/ UNCHANGED run
  <2> PICK tasks \in SUBSET {"policies", "webhooks"} :
        Moves(i, [Contending EXCEPT !.pc = "due", !.tasks = tasks])
    BY <1>1 DEF Pass
  <2>1. run'[i] = [Contending EXCEPT !.pc = "due", !.tasks = tasks] /\ OthersStay(i)
    BY <1>0, MovesStay
  <2>2. run'[i].pc = "due" /\ run'[i].held = {}
    BY <2>1 DEF Contending
  <2> QED BY <2>1, <2>2 DEF RunInv, Planning
<1>2. ASSUME Moves(i, Contending), UNCHANGED rotation
      PROVE  /\ OthersStay(i) /\ RunInv(i)' /\ Planning(i)'
             /\ run'[i].held = {} \/ UNCHANGED run
  <2>1. run'[i] = Contending /\ OthersStay(i)
    BY <1>0, <1>2, MovesStay
  <2> QED BY <2>1 DEF RunInv, Planning, Contending
<1>3. ASSUME UNCHANGED <<run, rotation>>
      PROVE  /\ OthersStay(i) /\ RunInv(i)' /\ Planning(i)'
             /\ run'[i].held = {} \/ UNCHANGED run
  BY <1>0, <1>3 DEF OthersStay, RunInv, Planning
<1>4. UNCHANGED rotation
  BY DEF Leading, Acquire, Tick, Resign, LoseConnection, Crash
<1>5. Pass(i) \/ Moves(i, Contending) \/ UNCHANGED run
  BY DEF Leading, Acquire, Tick, Resign, LoseConnection, Crash
<1> QED BY <1>1, <1>2, <1>3, <1>4, <1>5

LEMMA DrainingMoves ==
  ASSUME IInv, NEW i \in Instances, Draining(i)
  PROVE  /\ OthersStay(i) /\ RunInv(i)' /\ Planning(i)' /\ UNCHANGED rotation
<1> USE DEF planVars
<1>0. Typed /\ run[i] \in Runs /\ RunInv(i) /\ Planning(i)
  BY RunTypes DEF IInv
<1>1. ASSUME NEW r \in Runs, r.pc \in {"send", "due"}, Moves(i, r)
      PROVE  OthersStay(i) /\ RunInv(i)' /\ Planning(i)'
  <2>1. run'[i] = r /\ OthersStay(i)
    BY <1>0, <1>1, MovesStay
  <2> QED BY <1>1, <2>1 DEF RunInv, Planning
<1>2. CASE DueDeliveries(i)
  <2> PICK set \in SUBSET Due :
        Moves(i, [run[i] EXCEPT !.pc = "send", !.tasks = {}, !.held = set])
    BY <1>2 DEF DueDeliveries
  <2>1. /\ [run[i] EXCEPT !.pc = "send", !.tasks = {}, !.held = set] \in Runs
        /\ [run[i] EXCEPT !.pc = "send", !.tasks = {}, !.held = set].pc = "send"
    BY <1>0 DEF Runs, Labels, Due
  <2> QED BY <1>1, <1>2, <2>1 DEF DueDeliveries
<1>3. CASE Post(i)
  <2> PICK d \in run[i].held :
        \/ Moves(i, [run[i] EXCEPT !.pc = "answer", !.rot = d])
        \/ Moves(i, [run[i] EXCEPT !.held = @ \ {d}])
    BY <1>3 DEF Post
  <2>0. run[i].pc = "send"
    BY <1>3 DEF Post, At
  <2>1. CASE Moves(i, [run[i] EXCEPT !.pc = "answer", !.rot = d])
    <3>1. run'[i] = [run[i] EXCEPT !.pc = "answer", !.rot = d] /\ OthersStay(i)
      BY <1>0, <2>1, MovesStay
    <3>2. run'[i].pc = "answer" /\ run'[i].rot = d /\ run'[i].held = run[i].held
      BY <1>0, <3>1 DEF Runs
    <3> QED BY <1>3, <3>1, <3>2 DEF Post, RunInv, Planning
  <2>2. CASE Moves(i, [run[i] EXCEPT !.held = @ \ {d}])
    <3>1. /\ [run[i] EXCEPT !.held = @ \ {d}] \in Runs
          /\ [run[i] EXCEPT !.held = @ \ {d}].pc = "send"
      BY <1>0, <2>0 DEF Runs
    <3> QED BY <1>1, <1>3, <2>2, <3>1 DEF Post
  <2> QED BY <2>1, <2>2
<1>4. CASE RecordDeliveryResult(i)
  <2> DEFINE d == run[i].rot
  <2>1. /\ [run[i] EXCEPT !.pc = "send", !.rot = 0, !.held = @ \ {d}] \in Runs
        /\ [run[i] EXCEPT !.pc = "send", !.rot = 0, !.held = @ \ {d}].pc = "send"
    BY <1>0 DEF Runs, Labels
  <2> QED BY <1>1, <1>4, <2>1 DEF RecordDeliveryResult
<1>5. CASE Drained(i)
  <2>1. [run[i] EXCEPT !.pc = "due"] \in Runs /\ [run[i] EXCEPT !.pc = "due"].pc = "due"
    BY <1>0 DEF Runs, Labels
  <2> QED BY <1>1, <1>5, <2>1 DEF Drained, Goto
<1> QED BY <1>2, <1>3, <1>4, <1>5 DEF Draining

\* The steps of a pass that touch no row of a rotation.
LEMMA RotatingElsewhere ==
  ASSUME IInv, NEW i \in Instances,
         TickPolicies(i) \/ NoMorePolicies(i) \/ MarkPolicyRun(i)
           \/ SelectKeys(i) \/ NextPolicy(i)
  PROVE  /\ OthersStay(i) /\ RunInv(i)' /\ Planning(i)' /\ UNCHANGED rotation
         /\ run'[i].held = run[i].held
<1> USE DEF planVars
<1>0. Typed /\ run[i] \in Runs
  BY RunTypes DEF IInv
<1>1. UNCHANGED rotation
  BY DEF TickPolicies, NoMorePolicies, MarkPolicyRun, SelectKeys, NextPolicy
<1>2. /\ OthersStay(i) /\ run'[i].pc \in {"due", "policies", "select", "keys"}
      /\ run'[i].held = run[i].held
  <2> USE DEF Moves, Goto, At, OthersStay
  <2>0. run \in [Instances -> Runs]
    BY <1>0 DEF Typed
  <2>1. CASE TickPolicies(i)
    <3>1. \/ run' = [run EXCEPT ![i] =
               [run[i] EXCEPT !.pc = "policies", !.tasks = @ \ {"policies"},
                              !.policies = {p \in Policies : next[p] = "due"}]]
          \/ run' = [run EXCEPT ![i] = [run[i] EXCEPT !.tasks = @ \ {"policies"}]]
      BY <2>1 DEF TickPolicies
    <3>2. run[i].pc = "due"
      BY <2>1 DEF TickPolicies
    <3>3. CASE run' = [run EXCEPT ![i] =
                 [run[i] EXCEPT !.pc = "policies", !.tasks = @ \ {"policies"},
                                !.policies = {p \in Policies : next[p] = "due"}]]
      BY <1>0, <2>0, <3>3 DEF Runs
    <3>4. CASE run' = [run EXCEPT ![i] = [run[i] EXCEPT !.tasks = @ \ {"policies"}]]
      BY <1>0, <2>0, <3>2, <3>4 DEF Runs
    <3> QED BY <3>1, <3>3, <3>4
  <2>2. CASE NoMorePolicies(i)
    BY <1>0, <2>0, <2>2 DEF NoMorePolicies, Runs
  <2>3. CASE MarkPolicyRun(i)
    <3> PICK p \in run[i].policies :
          run' = [run EXCEPT ![i] =
            [run[i] EXCEPT !.pc = "select", !.policies = @ \ {p}, !.policy = p]]
      BY <2>3 DEF MarkPolicyRun
    <3> QED BY <1>0, <2>0 DEF Runs
  <2>4. CASE SelectKeys(i)
    BY <1>0, <2>0, <2>4 DEF SelectKeys, Runs
  <2>5. CASE NextPolicy(i)
    BY <1>0, <2>0, <2>5 DEF NextPolicy, Runs
  <2> QED BY <2>1, <2>2, <2>3, <2>4, <2>5
<1> QED BY <1>1, <1>2 DEF RunInv, Planning

\* And those that do.
LEMMA RotatingStays ==
  ASSUME IInv, NEW i \in Instances,
         Plan(i) \/ Await(i) \/ AddRotationTarget(i) \/ Start(i)
  PROVE  OthersStay(i) /\ RunInv(i)' /\ run'[i].held = run[i].held
<1>0. Typed /\ run[i] \in Runs
  BY RunTypes DEF IInv
<1>1. /\ OthersStay(i) /\ run'[i].pc \in {"keys", "await", "target"}
      /\ run'[i].held = run[i].held
  <2> USE DEF Moves, Goto, At, OthersStay
  <2>0. run \in [Instances -> Runs]
    BY <1>0 DEF Typed
  <2>a. Abandoned(i).pc = "keys" /\ Abandoned(i).held = run[i].held
    BY <1>0 DEF Abandoned, Runs
  <2>1. CASE Plan(i)
    <3>1. ASSUME NEW k \in Keys, NEW id \in Rotations, NEW pc \in {"await", "target"},
                 run' = [run EXCEPT ![i] = [run[i] EXCEPT
                   !.keys = @ \ {k}, !.pc = pc, !.rot = id, !.todo = assigned[k]]]
          PROVE  /\ OthersStay(i) /\ run'[i].pc \in {"keys", "await", "target"}
                 /\ run'[i].held = run[i].held
      BY <1>0, <2>0, <3>1 DEF Runs
    <3>2. ASSUME NEW k \in Keys,
                 run' = [run EXCEPT ![i] = [run[i] EXCEPT !.keys = @ \ {k}]]
          PROVE  /\ OthersStay(i) /\ run'[i].pc \in {"keys", "await", "target"}
                 /\ run'[i].held = run[i].held
      BY <1>0, <2>0, <2>1, <3>2 DEF Runs, Plan
    <3>3. CASE \E k \in Keys, id \in Rotations, pc \in {"await", "target"} :
                 /\ rotation[id] = NoRotation
                 /\ rotation' = [rotation EXCEPT ![id] = Planned(k)]
                 /\ run' = [run EXCEPT ![i] = [run[i] EXCEPT
                      !.keys = @ \ {k}, !.pc = pc, !.rot = id, !.todo = assigned[k]]]
      BY <3>1, <3>3
    <3>4. CASE /\ \E k \in Keys : run' = [run EXCEPT ![i] = [run[i] EXCEPT !.keys = @ \ {k}]]
               /\ UNCHANGED rotation
      BY <3>2, <3>4
    <3> QED BY <2>1, <3>3, <3>4, PlanEffect
  <2>2. CASE Await(i)
    <3>1. \/ run' = [run EXCEPT ![i] = [run[i] EXCEPT !.pc = "target"]]
          \/ run' = [run EXCEPT ![i] = Abandoned(i)]
      BY <2>2 DEF Await
    <3>2. CASE run' = [run EXCEPT ![i] = [run[i] EXCEPT !.pc = "target"]]
      BY <1>0, <2>0, <3>2 DEF Runs
    <3>3. CASE run' = [run EXCEPT ![i] = Abandoned(i)]
      BY <2>0, <3>3, <2>a
    <3> QED BY <3>1, <3>2, <3>3
  <2>3. CASE AddRotationTarget(i)
    <3>1. PICK p \in run[i].todo :
            \/ run' = [run EXCEPT ![i] = [run[i] EXCEPT !.todo = @ \ {p}]]
            \/ run' = [run EXCEPT ![i] = Abandoned(i)]
      BY <2>3 DEF AddRotationTarget
    <3>2. run[i].pc = "target"
      BY <2>3 DEF AddRotationTarget
    <3>3. CASE run' = [run EXCEPT ![i] = [run[i] EXCEPT !.todo = @ \ {p}]]
      BY <1>0, <2>0, <3>2, <3>3 DEF Runs
    <3>4. CASE run' = [run EXCEPT ![i] = Abandoned(i)]
      BY <2>0, <3>4, <2>a
    <3> QED BY <3>1, <3>3, <3>4
  <2>4. CASE Start(i)
    BY <1>0, <2>0, <2>4 DEF Start, Abandoned, Runs
  <2> QED BY <2>1, <2>2, <2>3, <2>4
<1> QED BY <1>1 DEF RunInv

LEMMA RunStep ==
  IInv /\ [Next]_vars =>
    /\ \A i \in Instances : RunInv(i)' /\ Planning(i)'
    /\ \A r \in Rotations : RotationInv(r)'
<1> SUFFICES ASSUME IInv, [Next]_vars
             PROVE  /\ \A i \in Instances : RunInv(i)' /\ Planning(i)'
                    /\ \A r \in Rotations : RowKept(r)
  BY DEF RowKept
<1>1. ASSUME NEW i \in Instances, OthersStay(i), RunInv(i)', Planning(i)',
             \A r \in Rotations : RowKept(r)
      PROVE  \A j \in Instances : RunInv(j)' /\ Planning(j)'
  <2> SUFFICES ASSUME NEW j \in Instances, j # i
               PROVE  RunInv(j)' /\ Planning(j)'
    BY <1>1
  <2>1. run'[j] = run[j]
    BY <1>1 DEF OthersStay
  <2>2. RunInv(j)'
    BY <2>1 DEF IInv, RunInv
  <2> QED BY <1>1, <2>1, <2>2, PlanningKept
<1>2. ASSUME UNCHANGED run, \A r \in Rotations : RowKept(r)
      PROVE  \A j \in Instances : RunInv(j)' /\ Planning(j)'
  <2> SUFFICES ASSUME NEW j \in Instances
               PROVE  RunInv(j)' /\ Planning(j)'
    OBVIOUS
  <2>1. RunInv(j)'
    BY <1>2 DEF IInv, RunInv
  <2> QED BY <1>2, <2>1, PlanningKept
<1>3. ASSUME NEW i \in Instances, Leading(i) \/ Draining(i)
      PROVE  /\ \A j \in Instances : RunInv(j)' /\ Planning(j)'
             /\ \A r \in Rotations : RowKept(r)
  <2>1. OthersStay(i) /\ RunInv(i)' /\ Planning(i)' /\ UNCHANGED rotation
    BY <1>3, LeadingMoves, DrainingMoves
  <2> QED BY <1>1, <2>1, RotationUnchanged
<1>4. ASSUME NEW i \in Instances, Rotating(i)
      PROVE  /\ \A j \in Instances : RunInv(j)' /\ Planning(j)'
             /\ \A r \in Rotations : RowKept(r)
  <2>1. CASE TickPolicies(i) \/ NoMorePolicies(i) \/ MarkPolicyRun(i)
               \/ SelectKeys(i) \/ NextPolicy(i)
    <3>1. OthersStay(i) /\ RunInv(i)' /\ Planning(i)' /\ UNCHANGED rotation
      BY <2>1, RotatingElsewhere
    <3> QED BY <1>1, <3>1, RotationUnchanged
  <2>2. CASE Plan(i) \/ Await(i) \/ AddRotationTarget(i) \/ Start(i)
    <3>1. OthersStay(i) /\ RunInv(i)'
      BY <2>2, RotatingStays
    <3>2. (\A r \in Rotations : RowKept(r)) /\ Planning(i)'
      BY <2>2, PlanRows, AwaitRows, TargetRows, StartRows
    <3> QED BY <1>1, <3>1, <3>2
  <2> QED BY <1>4, <2>1, <2>2 DEF Rotating
<1>5. CASE Operators \/ Clock
  <2>1. UNCHANGED run
    BY <1>5 DEF Operators, Clock, QueueDelivery, DeleteWebhook, ReplayDelivery, Reassign,
                Approve, Abort, PolicyDue, RetryDue, Replaced
  <2> QED BY <1>2, <1>5, <2>1, OthersRows
<1>6. CASE UNCHANGED vars
  BY <1>2, <1>6, RotationUnchanged DEF vars, planVars
<1> QED BY <1>3, <1>4, <1>5, <1>6 DEF Next

-----------------------------------------------------------------------------
(* Leases of deliveries.                                                   *)

\* Counting instances: a set that gains at most one, and one that loses one.
LEMMA Counting ==
  ASSUME NEW S \in SUBSET Instances, NEW T \in SUBSET Instances, NEW i \in Instances
  PROVE  /\ Cardinality(S) \in Nat /\ Cardinality(T) \in Nat
         /\ T \subseteq S => Cardinality(T) <= Cardinality(S)
         /\ T \subseteq S \cup {i} => Cardinality(T) <= Cardinality(S) + 1
         /\ i \in S /\ T \subseteq S \ {i} => Cardinality(T) <= Cardinality(S) - 1
<1>1. IsFiniteSet(S) /\ IsFiniteSet(T)
  BY BackgroundAssumption, FS_Subset DEF BackgroundAssumption
<1>2. Cardinality(S) \in Nat /\ Cardinality(T) \in Nat
  BY <1>1, FS_CardinalityType
<1>3. T \subseteq S => Cardinality(T) <= Cardinality(S)
  BY <1>1, FS_Subset
<1>4. ASSUME T \subseteq S \cup {i}
      PROVE  Cardinality(T) <= Cardinality(S) + 1
  <2>1. /\ IsFiniteSet(S \cup {i})
        /\ Cardinality(S \cup {i}) = IF i \in S THEN Cardinality(S) ELSE Cardinality(S) + 1
    BY <1>1, FS_AddElement
  <2>2. Cardinality(T) <= Cardinality(S \cup {i})
    BY <1>4, <2>1, FS_Subset
  <2> QED BY <1>2, <2>1, <2>2
<1>5. ASSUME i \in S, T \subseteq S \ {i}
      PROVE  Cardinality(T) <= Cardinality(S) - 1
  <2>1. /\ IsFiniteSet(S \ {i})
        /\ Cardinality(S \ {i}) = IF i \in S THEN Cardinality(S) - 1 ELSE Cardinality(S)
    BY <1>1, FS_RemoveElement
  <2>2. Cardinality(T) <= Cardinality(S \ {i})
    BY <1>5, <2>1, FS_Subset
  <2> QED BY <1>2, <1>5, <2>1, <2>2
<1> QED BY <1>2, <1>3, <1>4, <1>5

\* A replay is worth MaxAttempts requests more.
LEMMA Budgets ==
  ASSUME NEW r \in Nat
  PROVE  /\ MaxAttempts * (1 + r) \in Nat
         /\ MaxAttempts <= MaxAttempts * (1 + r)
         /\ MaxAttempts * (1 + (r + 1)) = MaxAttempts * (1 + r) + MaxAttempts
<1>1. \A m \in Nat : /\ m * (1 + r) \in Nat
                     /\ m * r \in Nat
                     /\ m * (1 + r) = m + m * r
                     /\ m * (1 + (r + 1)) = m * (1 + r) + m
  OBVIOUS
<1> QED BY <1>1, BackgroundAssumption DEF BackgroundAssumption

\* The row of a delivery and what is counted of it, as numbers.
LEMMA LeaseTypes ==
  ASSUME Typed, NEW d \in Deliveries
  PROVE  /\ delivery[d] \in DeliveryRows
         /\ OnSchedule(d) \in {0, 1} /\ Left(d) \in 0 .. MaxAttempts
         /\ posts[d] \in Nat /\ replays[d] \in Nat
         /\ Holders(d) \in SUBSET Instances /\ Unsent(d) \in SUBSET Instances
         /\ Cardinality(Holders(d)) \in Nat /\ Cardinality(Unsent(d)) \in Nat
<1>1. delivery[d] \in DeliveryRows /\ posts[d] \in Nat /\ replays[d] \in Nat
  BY DEF Typed
<1>2. OnSchedule(d) \in {0, 1} /\ Left(d) \in 0 .. MaxAttempts
  BY <1>1, BackgroundAssumption DEF OnSchedule, Left, DeliveryRows, BackgroundAssumption
<1>3. Holders(d) \in SUBSET Instances /\ Unsent(d) \in SUBSET Instances
  BY DEF Holders, Unsent
<1>4. IsFiniteSet(Holders(d)) /\ IsFiniteSet(Unsent(d))
  BY <1>3, BackgroundAssumption, FS_Subset DEF BackgroundAssumption
<1> QED BY <1>1, <1>2, <1>3, <1>4, FS_CardinalityType

LeaseKept(d) == DeliveryInv(d)' /\ LeaseInv(d)'

\* Nobody takes the delivery up and its row does not change.
LEMMA LeaseQuiet ==
  ASSUME IInv, Typed', NEW d \in Deliveries,
         Holders(d)' \subseteq Holders(d), Unsent(d)' \subseteq Unsent(d),
         delivery'[d] = delivery[d], posts'[d] = posts[d], replays'[d] = replays[d]
  PROVE  LeaseKept(d)
<1>1. DeliveryInv(d) /\ LeaseInv(d) /\ Typed
  BY DEF IInv
<1>2. /\ Holders(d)' \in SUBSET Instances /\ Unsent(d)' \in SUBSET Instances
  BY DEF Holders, Unsent
<1>3. /\ Cardinality(Holders(d)') <= Cardinality(Holders(d))
      /\ Cardinality(Unsent(d)') <= Cardinality(Unsent(d))
      /\ Cardinality(Holders(d)') \in Nat /\ Cardinality(Unsent(d)') \in Nat
  <2>1. IsFiniteSet(Holders(d)) /\ IsFiniteSet(Unsent(d))
    BY <1>1, LeaseTypes, BackgroundAssumption, FS_Subset DEF BackgroundAssumption
  <2>2. IsFiniteSet(Holders(d)') /\ IsFiniteSet(Unsent(d)')
    BY <1>2, BackgroundAssumption, FS_Subset DEF BackgroundAssumption
  <2> QED BY <2>1, <2>2, FS_Subset, FS_CardinalityType
<1>4. OnSchedule(d)' = OnSchedule(d) /\ Left(d)' = Left(d)
  BY DEF OnSchedule, Left
<1>5. DeliveryInv(d)'
  BY <1>1 DEF DeliveryInv
<1>6. LeaseInv(d)'
  BY <1>1, <1>3, <1>4, LeaseTypes, Budgets DEF LeaseInv
<1> QED BY <1>5, <1>6 DEF LeaseKept

\* What one instance gives up, whatever else it does.
LEMMA HeldShrinks ==
  ASSUME NEW i \in Instances, NEW d \in Deliveries, OthersStay(i),
         run'[i].held \subseteq run[i].held, run[i].pc # "answer" \/ run'[i].held = {}
  PROVE  Holders(d)' \subseteq Holders(d) /\ Unsent(d)' \subseteq Unsent(d)
<1>1. \A j \in Instances : j # i => run'[j] = run[j]
  BY DEF OthersStay
<1>2. Holders(d)' \subseteq Holders(d)
  BY <1>1 DEF Holders
<1>3. Unsent(d)' \subseteq Unsent(d)
  BY <1>1, <1>2 DEF Holders, Unsent
<1> QED BY <1>2, <1>3

LEMMA LeadingLeases ==
  ASSUME IInv, Typed', NEW i \in Instances, Leading(i) \/ Rotating(i)
  PROVE  \A d \in Deliveries : LeaseKept(d)
<1>1. UNCHANGED <<delivery, posts, replays>>
  BY DEF Leading, Rotating, Acquire, Tick, Resign, LoseConnection, Crash, TickPolicies,
         NoMorePolicies, MarkPolicyRun, SelectKeys, NextPolicy, Plan, Await,
         AddRotationTarget, Start, sendVars
<1>2. CASE UNCHANGED run
  <2>1. \A d \in Deliveries : Holders(d)' = Holders(d) /\ Unsent(d)' = Unsent(d)
    BY <1>2 DEF Holders, Unsent
  <2> QED BY <1>1, <2>1, LeaseQuiet
<1>3. CASE /\ OthersStay(i) /\ run'[i].held \subseteq run[i].held
           /\ run[i].pc # "answer" \/ run'[i].held = {}
  BY <1>1, <1>3, HeldShrinks, LeaseQuiet
<1>4. Rotating(i) => run[i].pc # "answer"
  BY DEF Rotating, TickPolicies, NoMorePolicies, MarkPolicyRun, SelectKeys, NextPolicy,
         Plan, Await, AddRotationTarget, Start, At
<1>5. Rotating(i) => OthersStay(i) /\ run'[i].held = run[i].held
  BY RotatingElsewhere, RotatingStays DEF Rotating
<1>6. Leading(i) => OthersStay(i) /\ (run'[i].held = {} \/ UNCHANGED run)
  BY LeadingMoves
<1> QED BY <1>2, <1>3, <1>4, <1>5, <1>6

\* A lease: one more holder and one more request for one place in the schedule
\* and one attempt.
LEMMA LeaseTaken ==
  ASSUME IInv, Typed', NEW i \in Instances, DueDeliveries(i)
  PROVE  \A d \in Deliveries : LeaseKept(d)
<1> PICK set \in SUBSET Due :
      /\ delivery' = LeaseOf(set)
      /\ Moves(i, [run[i] EXCEPT !.pc = "send", !.tasks = {}, !.held = set])
  BY DEF DueDeliveries
<1>0. /\ Typed /\ run[i] \in Runs
      /\ run[i].pc = "due" /\ UNCHANGED <<posts, replays>>
  BY RunTypes DEF IInv, DueDeliveries, At
<1>1. /\ run'[i] = [run[i] EXCEPT !.pc = "send", !.tasks = {}, !.held = set]
      /\ OthersStay(i)
  BY <1>0, MovesStay
<1>2. run'[i].held = set /\ run'[i].pc = "send"
  BY <1>0, <1>1 DEF Runs
<1>3. \A j \in Instances : j # i => run'[j] = run[j]
  BY <1>1 DEF OthersStay
<1> SUFFICES ASSUME NEW d \in Deliveries
             PROVE  LeaseKept(d)
  OBVIOUS
<1>4. CASE d \notin set
  <2>1. delivery'[d] = delivery[d]
    BY <1>4 DEF LeaseOf
  <2>2. Holders(d)' \subseteq Holders(d)
    BY <1>2, <1>3, <1>4 DEF Holders
  <2>3. Unsent(d)' \subseteq Unsent(d)
    BY <1>2, <1>3, <1>4 DEF Holders, Unsent
  <2> QED BY <1>0, <2>1, <2>2, <2>3, LeaseQuiet
<1>5. CASE d \in set
  <2>0. /\ DeliveryInv(d) /\ LeaseInv(d) /\ delivery[d] \in DeliveryRows
        /\ delivery[d].state = "pending" /\ delivery[d].retry = "due"
    BY <1>0, <1>5, LeaseTypes DEF IInv, Due
  <2>1. delivery'[d] = [delivery[d] EXCEPT !.attempts = @ + 1, !.retry = "none"]
    BY <1>5 DEF LeaseOf
  <2>2. /\ delivery'[d].state = "pending" /\ delivery'[d].retry = "none"
        /\ delivery'[d].attempts = delivery[d].attempts + 1
    BY <2>0, <2>1 DEF DeliveryRows
  <2>3. Holders(d)' \in SUBSET Instances /\ Unsent(d)' \in SUBSET Instances
    BY DEF Holders, Unsent
  <2>4. Holders(d)' \subseteq Holders(d) \cup {i}
    BY <1>3 DEF Holders
  <2>5. Unsent(d)' \subseteq Unsent(d) \cup {i}
    BY <1>3 DEF Holders, Unsent
  <2>6. /\ Cardinality(Holders(d)') <= Cardinality(Holders(d)) + 1
        /\ Cardinality(Unsent(d)') <= Cardinality(Unsent(d)) + 1
        /\ Cardinality(Holders(d)') \in Nat /\ Cardinality(Unsent(d)') \in Nat
    BY <1>0, <2>3, <2>4, <2>5, Counting, LeaseTypes
  <2>7. /\ OnSchedule(d) = 1 /\ OnSchedule(d)' = 0
        /\ Left(d) = MaxAttempts - delivery[d].attempts
        /\ Left(d)' = MaxAttempts - (delivery[d].attempts + 1)
    BY <2>0, <2>2 DEF OnSchedule, Left
  <2>8. delivery[d].attempts \in Nat
    BY <2>0, BackgroundAssumption DEF DeliveryRows, BackgroundAssumption
  <2>9. Left(d)' = Left(d) - 1
    BY <2>7, <2>8, BackgroundAssumption DEF BackgroundAssumption
  <2>10. DeliveryInv(d)'
    BY <2>2 DEF DeliveryInv
  <2>11. LeaseInv(d)'
    <3>1. posts'[d] = posts[d] /\ replays'[d] = replays[d]
      BY <1>0
    <3> HIDE DEF OnSchedule, Left
    <3>2. Cardinality(Holders(d)') + OnSchedule(d)' <= 1 + replays'[d]
      BY <1>0, <2>0, <2>6, <2>7, <3>1, LeaseTypes DEF LeaseInv
    <3>3. posts'[d] + Cardinality(Unsent(d)') + Left(d)' <= MaxAttempts * (1 + replays'[d])
      BY <1>0, <2>0, <2>6, <2>9, <3>1, LeaseTypes, Budgets DEF LeaseInv
    <3> QED BY <3>2, <3>3 DEF LeaseInv
  <2> QED BY <2>10, <2>11 DEF LeaseKept
<1> QED BY <1>4, <1>5

\* A request sent is one fewer to send.
LEMMA LeasePosted ==
  ASSUME IInv, Typed', NEW i \in Instances, Post(i)
  PROVE  \A d \in Deliveries : LeaseKept(d)
<1>0. /\ Typed /\ run[i] \in Runs /\ run[i].pc = "send" /\ UNCHANGED <<delivery, replays>>
  BY RunTypes DEF IInv, Post, At
<1> PICK s \in run[i].held :
      IF delivery[s] # NoDelivery
      THEN /\ posts' = [posts EXCEPT ![s] = @ + 1]
           /\ Moves(i, [run[i] EXCEPT !.pc = "answer", !.rot = s])
      ELSE Moves(i, [run[i] EXCEPT !.held = @ \ {s}]) /\ UNCHANGED posts
  BY DEF Post
<1>1. s \in Deliveries
  BY <1>0 DEF Runs
<1>2. CASE delivery[s] = NoDelivery
  <2>1. Moves(i, [run[i] EXCEPT !.held = @ \ {s}]) /\ UNCHANGED posts
    BY <1>2
  <2>2. run'[i] = [run[i] EXCEPT !.held = @ \ {s}] /\ OthersStay(i)
    BY <1>0, <2>1, MovesStay
  <2>3. run'[i].held = run[i].held \ {s}
    BY <1>0, <2>2 DEF Runs
  <2> QED BY <1>0, <2>1, <2>2, <2>3, HeldShrinks, LeaseQuiet
<1>3. CASE delivery[s] # NoDelivery
  <2>1. /\ posts' = [posts EXCEPT ![s] = @ + 1]
        /\ Moves(i, [run[i] EXCEPT !.pc = "answer", !.rot = s])
    BY <1>3
  <2>2. run'[i] = [run[i] EXCEPT !.pc = "answer", !.rot = s] /\ OthersStay(i)
    BY <1>0, <2>1, MovesStay
  <2>3. run'[i].pc = "answer" /\ run'[i].rot = s /\ run'[i].held = run[i].held
    BY <1>0, <2>2 DEF Runs
  <2>4. \A d \in Deliveries : Holders(d)' \subseteq Holders(d) /\ Unsent(d)' \subseteq Unsent(d)
    BY <1>0, <2>2, <2>3, HeldShrinks
  <2> SUFFICES ASSUME NEW d \in Deliveries
               PROVE  LeaseKept(d)
    OBVIOUS
  <2>5. CASE d # s
    <3>1. posts'[d] = posts[d]
      BY <1>0, <2>1, <2>5 DEF Typed
    <3> QED BY <1>0, <2>4, <3>1, LeaseQuiet
  <2>6. CASE d = s
    <3>0. DeliveryInv(d) /\ LeaseInv(d)
      BY DEF IInv
    <3>1. posts'[d] = posts[d] + 1 /\ replays'[d] = replays[d]
      BY <1>0, <2>1, <2>6 DEF Typed
    <3>2. /\ Holders(d)' \in SUBSET Instances /\ Unsent(d)' \in SUBSET Instances
      BY DEF Holders, Unsent
    <3>3. i \in Unsent(d) /\ Unsent(d)' \subseteq Unsent(d) \ {i}
      <4>1. i \in Unsent(d)
        BY <1>0, <2>6 DEF Unsent, Holders
      <4>2. i \notin Unsent(d)'
        BY <2>3, <2>6 DEF Unsent
      <4> QED BY <2>4, <4>1, <4>2
    <3>4. /\ Cardinality(Holders(d)') <= Cardinality(Holders(d))
          /\ Cardinality(Unsent(d)') <= Cardinality(Unsent(d)) - 1
          /\ Cardinality(Holders(d)') \in Nat /\ Cardinality(Unsent(d)') \in Nat
      BY <1>0, <2>4, <3>2, <3>3, Counting, LeaseTypes
    <3>5. OnSchedule(d)' = OnSchedule(d) /\ Left(d)' = Left(d)
      BY <1>0 DEF OnSchedule, Left
    <3>6. DeliveryInv(d)'
      BY <1>0, <3>0 DEF DeliveryInv
    <3>7. LeaseInv(d)'
      BY <1>0, <3>0, <3>1, <3>4, <3>5, LeaseTypes, Budgets DEF LeaseInv
    <3> QED BY <3>6, <3>7 DEF LeaseKept
  <2> QED BY <2>5, <2>6
<1> QED BY <1>2, <1>3

\* What a row may become when its answer is recorded: it may be back in the
\* schedule, and whoever put it there has let it go.
LEMMA Recorded ==
  ASSUME Typed, NEW d \in Deliveries, DeliveryInv(d), delivery[d] # NoDelivery,
         NEW row \in {Settled(d, "delivered"), Retried(d)}
  PROVE  /\ row.attempts = delivery[d].attempts
         /\ delivery[d].state # "none" /\ row.state # "none"
         /\ row.retry # "none" => row.state = "pending" /\ row.attempts < MaxAttempts
<1>1. delivery[d] \in DeliveryRows /\ delivery[d].state # "none"
  BY DEF Typed, DeliveryInv
<1>2. delivery[d].attempts \in Nat
  BY <1>1, BackgroundAssumption DEF DeliveryRows, BackgroundAssumption
<1>3. \A state \in {"delivered", "dead"} :
        /\ Settled(d, state).attempts = delivery[d].attempts
        /\ Settled(d, state).state = state /\ Settled(d, state).retry = "none"
  BY <1>1 DEF Settled, DeliveryRows
<1>4. /\ [delivery[d] EXCEPT !.state = "pending", !.retry = "later"].attempts
            = delivery[d].attempts
      /\ [delivery[d] EXCEPT !.state = "pending", !.retry = "later"].state = "pending"
      /\ [delivery[d] EXCEPT !.state = "pending", !.retry = "later"].retry = "later"
  BY <1>1 DEF DeliveryRows
<1>5. CASE row = Settled(d, "delivered")
  BY <1>1, <1>3, <1>5
<1>6. CASE row = Retried(d) /\ delivery[d].attempts >= MaxAttempts
  <2>1. row = Settled(d, "dead")
    BY <1>6 DEF Retried
  <2> QED BY <1>1, <1>3, <2>1
<1>7. CASE row = Retried(d) /\ ~(delivery[d].attempts >= MaxAttempts)
  <2>1. row = [delivery[d] EXCEPT !.state = "pending", !.retry = "later"]
    BY <1>7 DEF Retried
  <2>2. delivery[d].attempts < MaxAttempts
    BY <1>2, <1>7, BackgroundAssumption DEF BackgroundAssumption
  <2> QED BY <1>1, <1>4, <2>1, <2>2
<1> QED BY <1>5, <1>6, <1>7

LEMMA LeaseRecorded ==
  ASSUME IInv, Typed', NEW i \in Instances, RecordDeliveryResult(i)
  PROVE  \A d \in Deliveries : LeaseKept(d)
<1> DEFINE s == run[i].rot
<1>0. /\ Typed /\ run[i] \in Runs /\ run[i].pc = "answer" /\ UNCHANGED <<posts, replays>>
      /\ RunInv(i)
  BY RunTypes DEF IInv, RecordDeliveryResult, At
<1>1. s \in run[i].held /\ s \in Deliveries
  BY <1>0 DEF RunInv, Runs
<1>2. /\ run'[i] = [run[i] EXCEPT !.pc = "send", !.rot = 0, !.held = @ \ {s}]
      /\ OthersStay(i)
  BY <1>0, MovesStay DEF RecordDeliveryResult
<1>3. run'[i].pc = "send" /\ run'[i].held = run[i].held \ {s}
  BY <1>0, <1>2 DEF Runs
<1>4. \A j \in Instances : j # i => run'[j] = run[j]
  BY <1>2 DEF OthersStay
<1>5. \/ UNCHANGED delivery
      \/ /\ delivery[s] # NoDelivery
         /\ \/ delivery' = [delivery EXCEPT ![s] = Settled(s, "delivered")]
            \/ delivery' = [delivery EXCEPT ![s] = Retried(s)]
  BY DEF RecordDeliveryResult
<1> HIDE DEF s
<1> SUFFICES ASSUME NEW d \in Deliveries
             PROVE  LeaseKept(d)
  OBVIOUS
<1>6. Holders(d)' \subseteq Holders(d)
  BY <1>3, <1>4 DEF Holders
<1>7. Unsent(d)' \subseteq Unsent(d)
  <2>1. d \in run'[i].held => i \in Unsent(d)
    BY <1>3 DEF Unsent, Holders, s
  <2> QED BY <1>4, <1>6, <2>1 DEF Unsent, Holders
<1>8. CASE delivery'[d] = delivery[d]
  BY <1>0, <1>6, <1>7, <1>8, LeaseQuiet
<1>9. CASE delivery'[d] # delivery[d]
  <2>1. /\ d = s /\ delivery[d] # NoDelivery
        /\ delivery'[d] \in {Settled(d, "delivered"), Retried(d)}
    BY <1>0, <1>1, <1>5, <1>9 DEF Typed
  <2>2. DeliveryInv(d) /\ LeaseInv(d)
    BY DEF IInv
  <2>3. /\ delivery'[d].attempts = delivery[d].attempts
        /\ delivery[d].state # "none" /\ delivery'[d].state # "none"
        /\ delivery'[d].retry # "none" =>
             delivery'[d].state = "pending" /\ delivery'[d].attempts < MaxAttempts
    BY <1>0, <2>1, <2>2, Recorded
  <2>4. Left(d)' = Left(d)
    BY <2>3 DEF Left
  <2>5. OnSchedule(d)' \in {0, 1} /\ OnSchedule(d) \in {0, 1}
    BY DEF OnSchedule
  <2>6. i \in Holders(d) /\ i \notin Holders(d)'
    BY <1>1, <1>3, <2>1 DEF Holders
  <2>7. Holders(d)' \in SUBSET Instances /\ Unsent(d)' \in SUBSET Instances
    BY DEF Holders, Unsent
  <2>8. /\ Cardinality(Holders(d)') <= Cardinality(Holders(d)) - 1
        /\ Cardinality(Unsent(d)') <= Cardinality(Unsent(d))
        /\ Cardinality(Holders(d)') \in Nat /\ Cardinality(Unsent(d)') \in Nat
    BY <1>0, <1>6, <1>7, <2>6, <2>7, Counting, LeaseTypes
  <2>9. DeliveryInv(d)'
    BY <2>3 DEF DeliveryInv
  <2>10. LeaseInv(d)'
    <3>1. posts'[d] = posts[d] /\ replays'[d] = replays[d]
      BY <1>0
    <3>2. Cardinality(Holders(d)') + OnSchedule(d)' <= 1 + replays'[d]
      BY <1>0, <2>2, <2>5, <2>8, <3>1, LeaseTypes DEF LeaseInv
    <3>3. posts'[d] + Cardinality(Unsent(d)') + Left(d)' <= MaxAttempts * (1 + replays'[d])
      BY <1>0, <2>2, <2>4, <2>8, <3>1, LeaseTypes, Budgets DEF LeaseInv
    <3> QED BY <3>2, <3>3 DEF LeaseInv
  <2> QED BY <2>9, <2>10 DEF LeaseKept
<1> QED BY <1>8, <1>9

LEMMA LeaseDrained ==
  ASSUME IInv, Typed', NEW i \in Instances, Drained(i)
  PROVE  \A d \in Deliveries : LeaseKept(d)
<1>0. /\ Typed /\ run[i] \in Runs /\ run[i].pc = "send"
      /\ UNCHANGED <<delivery, posts, replays>>
  BY RunTypes DEF IInv, Drained, At, sendVars
<1>1. run'[i] = [run[i] EXCEPT !.pc = "due"] /\ OthersStay(i)
  BY <1>0, MovesStay DEF Drained, Goto
<1>2. run'[i].held = run[i].held
  BY <1>0, <1>1 DEF Runs
<1> QED BY <1>0, <1>1, <1>2, HeldShrinks, LeaseQuiet

\* Steps of others leave what every instance holds alone.
LEMMA HeldByOthers ==
  ASSUME UNCHANGED run, NEW d \in Deliveries
  PROVE  Holders(d)' = Holders(d) /\ Unsent(d)' = Unsent(d)
  BY DEF Holders, Unsent

LEMMA LeaseUntouched ==
  ASSUME IInv, Typed', UNCHANGED run, NEW d \in Deliveries,
         delivery'[d] = delivery[d], posts'[d] = posts[d], replays'[d] = replays[d]
  PROVE  LeaseKept(d)
  BY HeldByOthers, LeaseQuiet

\* A new delivery, which nobody holds.
LEMMA LeaseQueued ==
  ASSUME IInv, Typed', QueueDelivery
  PROVE  \A d \in Deliveries : LeaseKept(d)
<1>0. Typed /\ UNCHANGED <<run, replays, posts>>
  BY DEF IInv, QueueDelivery
<1> PICK s \in Deliveries :
      /\ delivery[s] = NoDelivery /\ posts[s] = 0
      /\ \A i \in Instances : s \notin run[i].held
      /\ delivery' = [delivery EXCEPT ![s] = Queued]
  BY DEF QueueDelivery
<1> SUFFICES ASSUME NEW d \in Deliveries
             PROVE  LeaseKept(d)
  OBVIOUS
<1>1. CASE d # s
  <2>1. delivery'[d] = delivery[d]
    BY <1>0, <1>1 DEF Typed
  <2> QED BY <1>0, <2>1, LeaseUntouched
<1>2. CASE d = s
  <2>1. delivery'[d] = Queued /\ posts'[d] = 0 /\ replays'[d] = replays[d]
    BY <1>0, <1>2 DEF Typed
  <2>2. Holders(d)' = {} /\ Unsent(d)' = {}
    BY <1>0, <1>2 DEF Holders, Unsent
  <2>3. Cardinality(Holders(d)') = 0 /\ Cardinality(Unsent(d)') = 0
    BY <2>2, FS_EmptySet
  <2>4. OnSchedule(d)' = 1 /\ Left(d)' = MaxAttempts
    BY <2>1, BackgroundAssumption DEF OnSchedule, Left, Queued, BackgroundAssumption
  <2>5. DeliveryInv(d)'
    BY <2>1, BackgroundAssumption DEF DeliveryInv, Queued, BackgroundAssumption
  <2>6. replays[d] \in Nat
    BY <1>0, LeaseTypes
  <2>7. LeaseInv(d)'
    BY <2>1, <2>3, <2>4, <2>6, Budgets, BackgroundAssumption
    DEF LeaseInv, BackgroundAssumption
  <2> QED BY <2>5, <2>7 DEF LeaseKept
<1> QED BY <1>1, <1>2

\* A replay: one lease and MaxAttempts requests more.
LEMMA LeaseReplayed ==
  ASSUME IInv, Typed', NEW s \in Deliveries, ReplayDelivery(s)
  PROVE  \A d \in Deliveries : LeaseKept(d)
<1>0. /\ Typed /\ UNCHANGED <<run, posts>>
      /\ delivery' = [delivery EXCEPT ![s] = Queued]
      /\ replays' = [replays EXCEPT ![s] = @ + 1]
  BY DEF IInv, ReplayDelivery
<1> SUFFICES ASSUME NEW d \in Deliveries
             PROVE  LeaseKept(d)
  OBVIOUS
<1>1. CASE d # s
  <2>1. delivery'[d] = delivery[d] /\ replays'[d] = replays[d]
    BY <1>0, <1>1 DEF Typed
  <2> QED BY <1>0, <2>1, LeaseUntouched
<1>2. CASE d = s
  <2>1. delivery'[d] = Queued /\ posts'[d] = posts[d] /\ replays'[d] = replays[d] + 1
    BY <1>0, <1>2 DEF Typed
  <2>2. Holders(d)' = Holders(d) /\ Unsent(d)' = Unsent(d)
    BY <1>0, HeldByOthers
  <2>3. OnSchedule(d)' = 1 /\ Left(d)' = MaxAttempts
    BY <2>1, BackgroundAssumption DEF OnSchedule, Left, Queued, BackgroundAssumption
  <2>4. DeliveryInv(d)'
    BY <2>1, BackgroundAssumption DEF DeliveryInv, Queued, BackgroundAssumption
  <2>5. LeaseInv(d)
    BY DEF IInv
  <2>6. Cardinality(Holders(d)') + OnSchedule(d)' <= 1 + replays'[d]
    BY <1>0, <2>1, <2>2, <2>3, <2>5, LeaseTypes DEF LeaseInv
  <2>7. posts[d] + Cardinality(Unsent(d)) <= MaxAttempts * (1 + replays[d])
    BY <1>0, <2>5, LeaseTypes, Budgets, BackgroundAssumption
    DEF LeaseInv, BackgroundAssumption
  <2>8. posts'[d] + Cardinality(Unsent(d)') + Left(d)' <= MaxAttempts * (1 + replays'[d])
    BY <1>0, <2>1, <2>2, <2>3, <2>7, LeaseTypes, Budgets, BackgroundAssumption
    DEF BackgroundAssumption
  <2> QED BY <2>4, <2>6, <2>8 DEF LeaseKept, LeaseInv
<1> QED BY <1>1, <1>2

\* A webhook deleted takes its rows off the schedule.
LEMMA LeaseDropped ==
  ASSUME IInv, Typed', DeleteWebhook
  PROVE  \A d \in Deliveries : LeaseKept(d)
<1>0. /\ Typed /\ UNCHANGED <<run, posts, replays>>
      /\ delivery' = [d \in Deliveries |-> NoDelivery]
  BY DEF IInv, DeleteWebhook
<1> SUFFICES ASSUME NEW d \in Deliveries
             PROVE  LeaseKept(d)
  OBVIOUS
<1>1. delivery'[d] = NoDelivery /\ posts'[d] = posts[d] /\ replays'[d] = replays[d]
  BY <1>0
<1>2. Holders(d)' = Holders(d) /\ Unsent(d)' = Unsent(d)
  BY <1>0, HeldByOthers
<1>3. OnSchedule(d)' = 0 /\ Left(d)' = 0 /\ DeliveryInv(d)'
  BY <1>1 DEF OnSchedule, Left, DeliveryInv, NoDelivery
<1>4. LeaseInv(d)
  BY DEF IInv
<1>5. Cardinality(Holders(d)') + OnSchedule(d)' <= 1 + replays'[d]
  BY <1>0, <1>1, <1>2, <1>3, <1>4, LeaseTypes DEF LeaseInv
<1>6. posts'[d] + Cardinality(Unsent(d)') + Left(d)' <= MaxAttempts * (1 + replays'[d])
  BY <1>0, <1>1, <1>2, <1>3, <1>4, LeaseTypes, Budgets, BackgroundAssumption
  DEF LeaseInv, BackgroundAssumption
<1> QED BY <1>3, <1>5, <1>6 DEF LeaseKept, LeaseInv

\* The time of a retry comes: the row was in the schedule already.
LEMMA LeaseDue ==
  ASSUME IInv, Typed', NEW s \in Deliveries, RetryDue(s)
  PROVE  \A d \in Deliveries : LeaseKept(d)
<1>0. /\ Typed /\ UNCHANGED <<run, posts, replays>> /\ delivery[s].retry = "later"
      /\ delivery' = [delivery EXCEPT ![s].retry = "due"]
  BY DEF IInv, RetryDue
<1> SUFFICES ASSUME NEW d \in Deliveries
             PROVE  LeaseKept(d)
  OBVIOUS
<1>1. CASE d # s
  <2>1. delivery'[d] = delivery[d]
    BY <1>0, <1>1 DEF Typed
  <2> QED BY <1>0, <2>1, LeaseUntouched
<1>2. CASE d = s
  <2>0. DeliveryInv(d) /\ LeaseInv(d) /\ delivery[d] \in DeliveryRows
    BY <1>0, LeaseTypes DEF IInv
  <2>1. delivery'[d] = [delivery[d] EXCEPT !.retry = "due"]
    BY <1>0, <1>2 DEF Typed
  <2>2. /\ delivery'[d].state = delivery[d].state /\ delivery'[d].retry = "due"
        /\ delivery'[d].attempts = delivery[d].attempts
    BY <2>0, <2>1 DEF DeliveryRows
  <2>3. delivery[d].state = "pending" /\ delivery[d].attempts < MaxAttempts
    BY <1>0, <1>2, <2>0 DEF DeliveryInv
  <2>4. Holders(d)' = Holders(d) /\ Unsent(d)' = Unsent(d)
    BY <1>0, HeldByOthers
  <2>5. OnSchedule(d)' = OnSchedule(d) /\ Left(d)' = Left(d)
    BY <1>0, <1>2, <2>2 DEF OnSchedule, Left
  <2>6. DeliveryInv(d)'
    BY <2>2, <2>3 DEF DeliveryInv
  <2>7. LeaseInv(d)'
    BY <1>0, <2>0, <2>4, <2>5 DEF LeaseInv
  <2> QED BY <2>6, <2>7 DEF LeaseKept
<1> QED BY <1>1, <1>2

LEMMA LeaseStep == IInv /\ [Next]_vars => \A d \in Deliveries : LeaseKept(d)
<1> SUFFICES ASSUME IInv, [Next]_vars
             PROVE  \A d \in Deliveries : LeaseKept(d)
  OBVIOUS
<1>0. Typed'
  BY TypeStep
<1>1. ASSUME UNCHANGED <<run, delivery, posts, replays>>
      PROVE  \A d \in Deliveries : LeaseKept(d)
  BY <1>0, <1>1, LeaseUntouched
<1>2. CASE UNCHANGED vars
  BY <1>1, <1>2 DEF vars, sendVars
<1>3. ASSUME NEW i \in Instances, Leading(i) \/ Rotating(i)
      PROVE  \A d \in Deliveries : LeaseKept(d)
  BY <1>0, <1>3, LeadingLeases
<1>4. ASSUME NEW i \in Instances, Draining(i)
      PROVE  \A d \in Deliveries : LeaseKept(d)
  BY <1>0, <1>4, LeaseTaken, LeasePosted, LeaseRecorded, LeaseDrained DEF Draining
<1>5. CASE Operators
  <2>1. CASE QueueDelivery
    BY <1>0, <2>1, LeaseQueued
  <2>2. CASE DeleteWebhook
    BY <1>0, <2>2, LeaseDropped
  <2>3. CASE \E d \in Deliveries : ReplayDelivery(d)
    BY <1>0, <2>3, LeaseReplayed
  <2>4. CASE \E k \in Keys, p \in Principals : Reassign(k, p)
    BY <1>1, <2>4 DEF Reassign, sendVars
  <2>5. CASE \E r \in Rotations : Approve(r) \/ Abort(r)
    BY <1>1, <2>5 DEF Approve, Abort, sendVars
  <2> QED BY <1>5, <2>1, <2>2, <2>3, <2>4, <2>5 DEF Operators
<1>6. CASE Clock
  <2>1. CASE \E p \in Policies : PolicyDue(p)
    BY <1>1, <2>1 DEF PolicyDue, sendVars
  <2>2. CASE \E d \in Deliveries : RetryDue(d)
    BY <1>0, <2>2, LeaseDue
  <2>3. CASE \E r \in Rotations : Replaced(r)
    BY <1>1, <2>3 DEF Replaced, sendVars
  <2> QED BY <1>6, <2>1, <2>2, <2>3 DEF Clock
<1> QED BY <1>2, <1>3, <1>4, <1>5, <1>6 DEF Next

-----------------------------------------------------------------------------
(* The invariant and the theorems.                                         *)

LEMMA BackgroundInit == Init => IInv
<1> SUFFICES ASSUME Init
             PROVE  IInv
  OBVIOUS
<1>1. Typed
  <2>1. NoDelivery \in DeliveryRows /\ Queued \in DeliveryRows
    BY BackgroundAssumption
    DEF DeliveryRows, NoDelivery, Queued, Times, BackgroundAssumption
  <2>2. delivery \in [Deliveries -> DeliveryRows]
    BY <2>1 DEF Init
  <2>3. NoRotation \in RotationRows
    BY DEF NoRotation, RotationRows
  <2>4. faults \in 0 .. MaxFaults /\ ticks \in 0 .. MaxTicks /\ requests \in 0 .. MaxRequests
    BY BackgroundAssumption DEF Init, BackgroundAssumption
  <2> QED BY <2>2, <2>3, <2>4, ContendingIsRun DEF Init, Typed, Times
<1>2. ASSUME NEW i \in Instances
      PROVE  RunInv(i) /\ Planning(i) /\ run[i].held = {}
  BY <1>2 DEF Init, RunInv, Planning, Contending
<1>3. ASSUME NEW r \in Rotations
      PROVE  RotationInv(r)
  BY <1>3 DEF Init, RotationInv, NoRotation
<1>4. ASSUME NEW d \in Deliveries
      PROVE  DeliveryInv(d) /\ LeaseInv(d)
  <2>1. Cardinality(Holders(d)) = 0 /\ Cardinality(Unsent(d)) = 0
    <3>1. Holders(d) = {} /\ Unsent(d) = {}
      BY <1>2 DEF Holders, Unsent
    <3> QED BY <3>1, FS_EmptySet
  <2>2. delivery[d] \in {NoDelivery, Queued} /\ posts[d] = 0 /\ replays[d] = 0
    BY DEF Init
  <2>3. DeliveryInv(d)
    BY <2>2, BackgroundAssumption DEF DeliveryInv, NoDelivery, Queued, BackgroundAssumption
  <2>4. OnSchedule(d) <= 1 /\ OnSchedule(d) \in Nat /\ Left(d) \in 0 .. MaxAttempts
    BY <1>1, LeaseTypes
  <2>5. LeaseInv(d)
    BY <2>1, <2>2, <2>4, BackgroundAssumption DEF LeaseInv, BackgroundAssumption
  <2> QED BY <2>3, <2>5
<1> QED BY <1>1, <1>2, <1>3, <1>4 DEF IInv

LEMMA BackgroundInvariant == Spec => []IInv
<1>1. IInv /\ [Next]_vars => IInv'
  BY TypeStep, RunStep, LeaseStep DEF IInv, LeaseKept
<1> QED BY BackgroundInit, <1>1, PTL DEF Spec

\* The types of Background, whatever the constants: in particular a retry is
\* scheduled only while its delivery is pending with attempts left, and a row of
\* a rotation never has a target its key was not found on.
THEOREM BackgroundTyped == Spec => []TypeOK
<1>1. IInv => TypeOK
  <2> SUFFICES ASSUME IInv
               PROVE  TypeOK
    OBVIOUS
  <2>0. Typed
    BY DEF IInv
  <2>1. ASSUME NEW i \in Instances
        PROVE  /\ run[i].pc \in Labels
               /\ run[i].pc = "contend" => run[i] = Contending
               /\ run[i].todo \subseteq Principals /\ run[i].held \subseteq Deliveries
    BY <2>0, <2>1, RunTypes DEF IInv, RunInv, Runs
  <2>2. ASSUME NEW r \in Rotations
        PROVE  /\ rotation[r].targets \subseteq rotation[r].listed
               /\ rotation[r].listed \subseteq Principals
    BY <2>0, <2>2 DEF IInv, RotationInv, Typed, RotationRows
  <2>3. ASSUME NEW d \in Deliveries
        PROVE  /\ delivery[d].attempts \in 0 .. MaxAttempts
               /\ delivery[d].retry = "later" => delivery[d].state = "pending"
                                                /\ delivery[d].attempts < MaxAttempts
    BY <2>0, <2>3 DEF IInv, DeliveryInv, Typed, DeliveryRows
  <2> QED BY <2>0, <2>1, <2>2, <2>3 DEF TypeOK, Labels, Typed
<1> QED BY BackgroundInvariant, <1>1, PTL

\* A delivery is in the hands of one instance at a time, whoever thinks it
\* leads, and sent at most MaxAttempts times, but for what operators replay.
THEOREM DeliveriesAreLeased == Spec => []DeliveryIsLeased
<1>1. IInv => DeliveryIsLeased
  <2> SUFFICES ASSUME IInv, NEW d \in Deliveries
               PROVE  /\ Cardinality(Holders(d)) <= 1 + replays[d]
                      /\ posts[d] <= MaxAttempts * (1 + replays[d])
    BY DEF DeliveryIsLeased, Holders
  <2>1. Typed /\ LeaseInv(d)
    BY DEF IInv
  <2> QED BY <2>1, LeaseTypes, Budgets, BackgroundAssumption
      DEF LeaseInv, BackgroundAssumption
<1> QED BY BackgroundInvariant, <1>1, PTL

\* A rotation that runs has a row for every principal its key was found on,
\* through whatever failed insert, crash or second leader, unless somebody
\* approved it half written.
THEOREM StartsAreWhole == Spec => []StartedIsWhole
<1>1. IInv => StartedIsWhole
  BY DEF IInv, RotationInv, StartedIsWhole
<1> QED BY BackgroundInvariant, <1>1, PTL

=============================================================================
