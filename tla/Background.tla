----------------------------- MODULE Background -----------------------------
(***************************************************************************)
(* Work nobody asks for: the scheduler every instance runs and one leads   *)
(* (jobs/scheduler.go), the rotation policies it fires (service/worker.go, *)
(* store/rotations.go, and Plan and Start of service/rotation.go) and the  *)
(* webhook deliveries it drains (events/webhooks.go, store/webhooks.go).   *)
(*                                                                         *)
(* Each statement that writes is an action, and so is a request sent to a  *)
(* receiver. A leader whose connection drops keeps running the tasks of    *)
(* its tick beside the leader that follows it, until it pings. The other   *)
(* tasks belong to the modules of what they touch: TickSoak to Rotation,   *)
(* the purge of jobs to JobQueue, the prune of backups to KeyVault.        *)
(***************************************************************************)
EXTENDS Naturals, FiniteSets

CONSTANTS
  Instances,     \* server processes
  Nobody,        \* no process
  Policies,
  Cron,          \* policies with a cron expression; the others go by age
  Approval,      \* policies whose rotations wait for sign-off
  Keys,          \* keys the policies select
  Principals,
  MaxRotations,  \* rows ever inserted into rotations
  MaxDeliveries, \* rows ever inserted into webhook_deliveries
  MaxAttempts,   \* of a delivery
  DrainLimit,    \* deliveries leased at a time
  Faults,        \* "drop" (a connection), "crash", "query", "receiver"
  MaxFaults,
  MaxTicks,      \* passes of the scheduler
  MaxRequests    \* what operators do meanwhile

ASSUME BackgroundAssumption ==
  /\ Cron \subseteq Policies /\ Approval \subseteq Policies
  /\ Nobody \notin Instances /\ IsFiniteSet(Instances)
  /\ MaxRotations \in Nat /\ MaxDeliveries \in Nat /\ MaxAttempts \in Nat \ {0}
  /\ DrainLimit \in Nat \ {0}
  /\ MaxFaults \in Nat /\ MaxTicks \in Nat /\ MaxRequests \in Nat

VARIABLES
  lock,       \* the instance whose connection holds the advisory lock
  run,        \* what each instance is doing
  next,       \* rotation_policies.next_run_at
  active,     \* keys that are active and old enough
  assigned,   \* the principals each key is wanted on
  rotation,   \* rotations
  delivery,   \* webhook_deliveries
  faults, ticks, requests,
  replays,    \* history: replays of each delivery
  posts       \* history: requests sent for it

schedVars == <<lock, ticks>>
planVars  == <<next, active, assigned, rotation>>
sendVars  == <<delivery, replays, posts>>
vars == <<schedVars, run, planVars, sendVars, faults, requests>>

Rotations == 1 .. MaxRotations
Deliveries == 1 .. MaxDeliveries
Times == {"due", "later", "none"}

\* `listed` is what the key was found on, `targets` the rows written so far;
\* `hasty` is history: approved before its planner had written them all.
NoRotation == [state |-> "none", key |-> "none", listed |-> {}, targets |-> {},
               hasty |-> FALSE]
NoDelivery == [state |-> "none", attempts |-> 0, retry |-> "none"]
Queued     == [state |-> "pending", attempts |-> 0, retry |-> "due"]

\* An instance contending for the lock. `tasks` is what the pass has yet to
\* run; `policies`, `keys` and `todo` belong to tickPolicies and Plan, `held`
\* to Drain.
Contending == [pc |-> "contend", tasks |-> {}, policies |-> {}, policy |-> "none",
               keys |-> {}, rot |-> 0, todo |-> {}, held |-> {}]

Init ==
  /\ lock = Nobody /\ ticks = 0
  /\ run = [i \in Instances |-> Contending]
  /\ next = [p \in Policies |-> "due"]
  /\ active = Keys
  /\ assigned = [k \in Keys |-> Principals]
  /\ rotation = [r \in Rotations |-> NoRotation]
  /\ delivery \in [Deliveries -> {NoDelivery, Queued}]
  /\ faults = 0 /\ requests = 0
  /\ replays = [d \in Deliveries |-> 0]
  /\ posts = [d \in Deliveries |-> 0]

-----------------------------------------------------------------------------
At(i, pc) == run[i].pc = pc
Moves(i, r) == run' = [run EXCEPT ![i] = r]
Goto(i, pc) == Moves(i, [run[i] EXCEPT !.pc = pc])

Fault(kind) == kind \in Faults /\ faults < MaxFaults /\ faults' = faults + 1

\* holdLeadership: runDue finds any of the tasks due, and runs the policies first.
Pass(i) == \E tasks \in SUBSET {"policies", "webhooks"} :
  Moves(i, [Contending EXCEPT !.pc = "due", !.tasks = tasks])

Acquire(i) ==
  /\ At(i, "contend")
  /\ lock = Nobody /\ ticks < MaxTicks
  /\ lock' = i /\ ticks' = ticks + 1
  /\ Pass(i)
  /\ UNCHANGED <<planVars, sendVars, faults, requests>>

\* The ticker, and a ping that answers.
Tick(i) ==
  /\ At(i, "due") /\ run[i].tasks = {}
  /\ lock = i /\ ticks < MaxTicks
  /\ ticks' = ticks + 1
  /\ Pass(i)
  /\ UNCHANGED <<lock, planVars, sendVars, faults, requests>>

\* A ping that does not, or the context of a process told to stop; the lock is
\* given up where it is still held.
Resign(i) ==
  /\ At(i, "due") /\ run[i].tasks = {}
  /\ Moves(i, Contending)
  /\ lock' = IF lock = i THEN Nobody ELSE lock
  /\ UNCHANGED <<ticks, planVars, sendVars, faults, requests>>

\* The dedicated connection drops; the instance does not know.
LoseConnection(i) ==
  /\ lock = i
  /\ Fault("drop")
  /\ lock' = Nobody
  /\ UNCHANGED <<ticks, run, planVars, sendVars, requests>>

Crash(i) ==
  /\ ~At(i, "contend")
  /\ Fault("crash")
  /\ Moves(i, Contending)
  /\ lock' = IF lock = i THEN Nobody ELSE lock
  /\ UNCHANGED <<ticks, planVars, sendVars, requests>>

-----------------------------------------------------------------------------
\* tickPolicies.

\* DuePolicies, if the query answers.
TickPolicies(i) ==
  /\ At(i, "due") /\ "policies" \in run[i].tasks
  /\ \/ /\ Moves(i, [run[i] EXCEPT !.pc = "policies", !.tasks = @ \ {"policies"},
                       !.policies = {p \in Policies : next[p] = "due"}])
        /\ UNCHANGED faults
     \/ /\ Fault("query")
        /\ Moves(i, [run[i] EXCEPT !.tasks = @ \ {"policies"}])
  /\ UNCHANGED <<schedVars, planVars, sendVars, requests>>

NoMorePolicies(i) ==
  /\ At(i, "policies") /\ run[i].policies = {}
  /\ Goto(i, "due")
  /\ UNCHANGED <<schedVars, planVars, sendVars, faults, requests>>

\* MarkPolicyRun moves the policy on before it runs; a failure is logged and the
\* policy runs all the same. A cron expression that never matches has no next run.
MarkPolicyRun(i) ==
  /\ At(i, "policies")
  /\ \E p \in run[i].policies :
       /\ Moves(i, [run[i] EXCEPT !.pc = "select", !.policies = @ \ {p}, !.policy = p])
       /\ \/ \E t \in {"later"} \cup (IF p \in Cron THEN {"none"} ELSE {}) :
               next' = [next EXCEPT ![p] = t] /\ UNCHANGED faults
          \/ Fault("query") /\ UNCHANGED next
  /\ UNCHANGED <<schedVars, active, assigned, rotation, sendVars, requests>>

\* selectKeys: age decides, whatever rotation the key is already in.
SelectKeys(i) ==
  /\ At(i, "select")
  /\ Moves(i, [run[i] EXCEPT !.pc = "keys", !.keys = active])
  /\ UNCHANGED <<schedVars, planVars, sendVars, faults, requests>>

NextPolicy(i) ==
  /\ At(i, "keys") /\ run[i].keys = {}
  /\ Moves(i, [run[i] EXCEPT !.pc = "policies", !.policy = "none"])
  /\ UNCHANGED <<schedVars, planVars, sendVars, faults, requests>>

Abandoned(i) == [run[i] EXCEPT !.pc = "keys", !.rot = 0, !.todo = {}]

Planned(k) == [state |-> "planned", key |-> k, listed |-> assigned[k],
               targets |-> {}, hasty |-> FALSE]

\* Plan: the principals the key is on, and a row for the rotation. A key retired
\* meanwhile is refused and the next one follows.
Plan(i) ==
  /\ At(i, "keys")
  /\ \E k \in run[i].keys :
       LET r == [run[i] EXCEPT !.keys = @ \ {k}] IN
       IF k \in active
       THEN \E id \in Rotations :
              /\ \A n \in Rotations : rotation[n] = NoRotation <=> n >= id
              /\ rotation' = [rotation EXCEPT ![id] = Planned(k)]
              /\ Moves(i, [r EXCEPT !.pc = IF run[i].policy \in Approval
                                           THEN "await" ELSE "target",
                                    !.rot = id, !.todo = assigned[k]])
       ELSE Moves(i, r) /\ UNCHANGED rotation
  /\ UNCHANGED <<schedVars, next, active, assigned, sendVars, faults, requests>>

\* SetRotationState to awaiting_approval, from planned only.
Await(i) ==
  LET r == run[i].rot IN
  /\ At(i, "await")
  /\ IF rotation[r].state = "planned"
     THEN /\ rotation' = [rotation EXCEPT ![r].state = "awaiting_approval"]
          /\ Goto(i, "target")
     ELSE Moves(i, Abandoned(i)) /\ UNCHANGED rotation
  /\ UNCHANGED <<schedVars, next, active, assigned, sendVars, faults, requests>>

\* Mutant: a target that cannot be added is left out of the plan.
SkipsTarget(i) ==
  LET r == run[i].rot IN
  /\ At(i, "target")
  /\ \E p \in run[i].todo :
       /\ Moves(i, [run[i] EXCEPT !.todo = @ \ {p}])
       /\ \/ rotation' = [rotation EXCEPT ![r].targets = @ \cup {p}] /\ UNCHANGED faults
          \/ Fault("query") /\ UNCHANGED rotation
  /\ UNCHANGED <<schedVars, next, active, assigned, sendVars, requests>>

\* AddRotationTarget, one row at a time: when one fails Plan does, and the
\* rotation stays behind with the rows it has.
AddRotationTarget(i) ==
  LET r == run[i].rot IN
  /\ At(i, "target")
  /\ \E p \in run[i].todo :
       \/ /\ rotation' = [rotation EXCEPT ![r].targets = @ \cup {p}]
          /\ Moves(i, [run[i] EXCEPT !.todo = @ \ {p}])
          /\ UNCHANGED faults
       \/ /\ Fault("query")
          /\ Moves(i, Abandoned(i))
          /\ UNCHANGED rotation
  /\ UNCHANGED <<schedVars, next, active, assigned, sendVars, requests>>

\* runPolicy starts what it planned, unless it waits for approval; Start refuses
\* a rotation that is not in state planned, and a query of what is left of Plan,
\* or of Start, may fail.
Start(i) ==
  LET r == run[i].rot IN
  /\ At(i, "target") /\ run[i].todo = {}
  /\ \/ /\ rotation' = IF run[i].policy \notin Approval /\ rotation[r].state = "planned"
                       THEN [rotation EXCEPT ![r].state = "started"] ELSE rotation
        /\ UNCHANGED faults
     \/ Fault("query") /\ UNCHANGED rotation
  /\ Moves(i, Abandoned(i))
  /\ UNCHANGED <<schedVars, next, active, assigned, sendVars, requests>>

\* The time of a policy's next run comes.
PolicyDue(p) ==
  /\ next[p] = "later"
  /\ next' = [next EXCEPT ![p] = "due"]
  /\ UNCHANGED <<schedVars, run, active, assigned, rotation, sendVars, faults, requests>>

-----------------------------------------------------------------------------
\* Drain.

Due == {d \in Deliveries : delivery[d].state = "pending" /\ delivery[d].retry = "due"}

LeaseOf(set) == [d \in Deliveries |->
  IF d \in set THEN [delivery[d] EXCEPT !.attempts = @ + 1, !.retry = "none"]
  ELSE delivery[d]]

\* Mutant: a lease leaves next_retry_at as it is.
LeavesDue(i) ==
  /\ At(i, "due") /\ run[i].tasks = {"webhooks"}
  /\ \E set \in SUBSET Due :
       /\ Cardinality(set) <= DrainLimit
       /\ delivery' = [d \in Deliveries |->
            [delivery[d] EXCEPT !.attempts = IF d \in set THEN @ + 1 ELSE @]]
       /\ Moves(i, [run[i] EXCEPT !.pc = "send", !.tasks = {}, !.held = set])
  /\ UNCHANGED <<schedVars, planVars, replays, posts, faults, requests>>

\* DueDeliveries: the attempt is counted and the row taken off the schedule in
\* the UPDATE that finds it.
DueDeliveries(i) ==
  /\ At(i, "due") /\ run[i].tasks = {"webhooks"}
  /\ \E set \in SUBSET Due :
       /\ Cardinality(set) <= DrainLimit
       /\ set # Due => Cardinality(set) = DrainLimit
       /\ delivery' = LeaseOf(set)
       /\ Moves(i, [run[i] EXCEPT !.pc = "send", !.tasks = {}, !.held = set])
  /\ UNCHANGED <<schedVars, planVars, replays, posts, faults, requests>>

\* attempt: one request; `rot` keeps which delivery its answer belongs to. A
\* webhook deleted meanwhile took its deliveries along and nothing is sent.
Post(i) ==
  /\ At(i, "send")
  /\ \E d \in run[i].held :
       IF delivery[d] # NoDelivery
       THEN /\ posts' = [posts EXCEPT ![d] = @ + 1]
            /\ Moves(i, [run[i] EXCEPT !.pc = "answer", !.rot = d])
       ELSE Moves(i, [run[i] EXCEPT !.held = @ \ {d}]) /\ UNCHANGED posts
  /\ UNCHANGED <<schedVars, planVars, delivery, replays, faults, requests>>

Settled(d, state) == [delivery[d] EXCEPT !.state = state, !.retry = "none"]

\* Mutant: the budget is compared one attempt late.
RetriedOnceMore(d) == IF delivery[d].attempts > MaxAttempts THEN Settled(d, "dead")
                      ELSE [delivery[d] EXCEPT !.state = "pending", !.retry = "later"]

Retried(d) == IF delivery[d].attempts >= MaxAttempts THEN Settled(d, "dead")
              ELSE [delivery[d] EXCEPT !.state = "pending", !.retry = "later"]

\* RecordDeliveryResult; a failed write is logged and the delivery is let go.
RecordDeliveryResult(i) ==
  LET d == run[i].rot IN
  /\ At(i, "answer")
  /\ Moves(i, [run[i] EXCEPT !.pc = "send", !.rot = 0, !.held = @ \ {d}])
  /\ IF delivery[d] = NoDelivery
     THEN UNCHANGED <<delivery, faults>>
     ELSE \/ /\ delivery' = [delivery EXCEPT ![d] = Settled(d, "delivered")]
             /\ UNCHANGED faults
          \/ /\ Fault("receiver")
             /\ delivery' = [delivery EXCEPT ![d] = Retried(d)]
          \/ Fault("query") /\ UNCHANGED delivery
  /\ UNCHANGED <<schedVars, planVars, replays, posts, requests>>

Drained(i) ==
  /\ At(i, "send") /\ run[i].held = {}
  /\ Goto(i, "due")
  /\ UNCHANGED <<schedVars, planVars, sendVars, faults, requests>>

RetryDue(d) ==
  /\ delivery[d].retry = "later"
  /\ delivery' = [delivery EXCEPT ![d].retry = "due"]
  /\ UNCHANGED <<schedVars, run, planVars, replays, posts, faults, requests>>

-----------------------------------------------------------------------------
\* What others do meanwhile.

Requested == requests < MaxRequests /\ requests' = requests + 1

\* An event is published: QueueDelivery for a webhook that matches it. An id is
\* not used again.
QueueDelivery ==
  /\ Requested
  /\ \E d \in Deliveries :
       /\ delivery[d] = NoDelivery /\ posts[d] = 0
       /\ \A i \in Instances : d \notin run[i].held
       /\ delivery' = [delivery EXCEPT ![d] = Queued]
  /\ UNCHANGED <<schedVars, run, planVars, replays, posts, faults>>

ReplayDelivery(d) ==
  /\ Requested
  /\ delivery[d] # NoDelivery
  /\ delivery' = [delivery EXCEPT ![d] = Queued]
  /\ replays' = [replays EXCEPT ![d] = @ + 1]
  /\ UNCHANGED <<schedVars, run, planVars, posts, faults>>

\* Webhooks.Delete: every delivery goes with its webhook.
DeleteWebhook ==
  /\ Requested
  /\ delivery' = [d \in Deliveries |-> NoDelivery]
  /\ UNCHANGED <<schedVars, run, planVars, replays, posts, faults>>

\* CreateAssignment, or its end.
Reassign(k, p) ==
  /\ Requested
  /\ assigned' = [assigned EXCEPT ![k] = IF p \in @ THEN @ \ {p} ELSE @ \cup {p}]
  /\ UNCHANGED <<schedVars, run, next, active, rotation, sendVars, faults>>

\* A rotation that runs retires the key it replaces (module Rotation).
Replaced(r) ==
  /\ rotation[r].state = "started"
  /\ active' = active \ {rotation[r].key}
  /\ rotation' = [rotation EXCEPT ![r].state = "completed"]
  /\ UNCHANGED <<schedVars, run, next, assigned, sendVars, faults, requests>>

\* Approve hands an awaiting rotation back to planned and queues its first step,
\* whatever its planner, which set awaiting_approval before the first target, has
\* still to write; when the second statement fails it is left planned.
Approve(r) ==
  /\ Requested
  /\ rotation[r].state = "awaiting_approval"
  /\ \/ /\ rotation' = [rotation EXCEPT ![r].state = "started",
                         ![r].hasty = rotation[r].targets # rotation[r].listed]
        /\ UNCHANGED faults
     \/ /\ Fault("query")
        /\ rotation' = [rotation EXCEPT ![r].state = "planned"]
  /\ UNCHANGED <<schedVars, run, next, active, assigned, sendVars>>

\* SetRotationState from any state that is not final; a step that is under way
\* writes the states of its own after it (module Rotation).
Abort(r) ==
  /\ Requested
  /\ rotation[r].state \in {"planned", "awaiting_approval", "started"}
  /\ rotation' = [rotation EXCEPT ![r].state = "aborted"]
  /\ UNCHANGED <<schedVars, run, next, active, assigned, sendVars, faults>>

-----------------------------------------------------------------------------
Leading(i) == Acquire(i) \/ Tick(i) \/ Resign(i) \/ LoseConnection(i) \/ Crash(i)

Rotating(i) ==
  \/ TickPolicies(i) \/ NoMorePolicies(i) \/ MarkPolicyRun(i) \/ SelectKeys(i)
  \/ NextPolicy(i) \/ Plan(i) \/ Await(i) \/ AddRotationTarget(i) \/ Start(i)

Draining(i) == DueDeliveries(i) \/ Post(i) \/ RecordDeliveryResult(i) \/ Drained(i)

Operators ==
  \/ QueueDelivery \/ DeleteWebhook
  \/ \E d \in Deliveries : ReplayDelivery(d)
  \/ \E k \in Keys, p \in Principals : Reassign(k, p)
  \/ \E r \in Rotations : Approve(r) \/ Abort(r)

Clock ==
  \/ \E p \in Policies : PolicyDue(p)
  \/ \E d \in Deliveries : RetryDue(d)
  \/ \E r \in Rotations : Replaced(r)

Next ==
  \/ \E i \in Instances : Leading(i) \/ Rotating(i) \/ Draining(i)
  \/ Operators \/ Clock

Spec == Init /\ [][Next]_vars

-----------------------------------------------------------------------------
\* Every variable has its type, and a row holds what its table allows: a
\* retry is scheduled only while the delivery is pending, with attempts left.
TypeOK ==
  /\ lock \in Instances \cup {Nobody}
  /\ \A i \in Instances :
       /\ run[i].pc \in {"contend", "due", "policies", "select", "keys", "await",
                         "target", "send", "answer"}
       /\ run[i].pc = "contend" => run[i] = Contending
       /\ run[i].todo \subseteq Principals /\ run[i].held \subseteq Deliveries
  /\ next \in [Policies -> Times]
  /\ active \subseteq Keys /\ assigned \in [Keys -> SUBSET Principals]
  /\ \A r \in Rotations :
       rotation[r].targets \subseteq rotation[r].listed /\ rotation[r].listed \subseteq Principals
  /\ \A d \in Deliveries :
       /\ delivery[d].attempts \in 0 .. MaxAttempts
       /\ delivery[d].retry = "later" => delivery[d].state = "pending"
                                         /\ delivery[d].attempts < MaxAttempts
  /\ faults \in 0 .. MaxFaults /\ ticks \in 0 .. MaxTicks /\ requests \in 0 .. MaxRequests

\* Whoever thinks it leads, a delivery is in the hands of one instance at a
\* time and sent at most MaxAttempts times, but for what an operator replays:
\* the lease is in the row, where a leader that lost the lock sees it too.
DeliveryIsLeased ==
  \A d \in Deliveries :
    /\ Cardinality({i \in Instances : d \in run[i].held}) <= 1 + replays[d]
    /\ posts[d] <= MaxAttempts * (1 + replays[d])

\* A rotation that runs has a row for every principal its key was found on - one
\* started on half its targets would retire a key still in use on the others -
\* unless somebody approved it while it was half written: a plan cut short by a
\* failed insert, a lost lock or a dying process is never started by the
\* scheduler, and an approval that finds the plan whole starts a whole one,
\* whatever its planner or a second leader does afterwards.  (Approve asks
\* nothing of the targets, rotation.go:373, and Plan offers the rotation for
\* approval before it writes the first, rotation.go:174.)
StartedIsWhole ==
  \A r \in Rotations :
    rotation[r].state \in {"started", "completed"} /\ ~rotation[r].hasty =>
      rotation[r].targets = rotation[r].listed

=============================================================================
