------------------------------ MODULE JobQueue ------------------------------
(***************************************************************************)
(* The PostgreSQL work queue (store/jobs.go) and the worker pool that      *)
(* drains it (jobs/runner.go).                                             *)
(*                                                                         *)
(* Every query of store/jobs.go is one UPDATE or INSERT and is one action  *)
(* here; what happens between two queries - a handler running, a process   *)
(* dying, a lease going stale, an operator cancelling - interleaves.       *)
(* A job's payload and type are abstracted away: what the queue promises   *)
(* does not depend on them.                                                *)
(***************************************************************************)
EXTENDS Naturals, FiniteSets

CONSTANTS
  Jobs,          \* row ids of the jobs table
  Keys,          \* idempotency keys
  NoKey,         \* a job enqueued without one (SQL NULL)
  Workers,       \* worker goroutines, over all server processes
  Runners,       \* worker_id values: one per process, see jobs.NewRunner
  RunnerOf,      \* the process a worker goroutine belongs to
  NoRunner,      \* locked_by = ''
  NoJob,         \* an idle worker
  MaxAttempts    \* max_attempts of every job

ASSUME QueueAssumption ==
  /\ MaxAttempts \in Nat \ {0}
  /\ RunnerOf \in [Workers -> Runners]
  /\ NoRunner \notin Runners
  /\ NoJob \notin Jobs
  /\ NoKey \notin Keys

VARIABLES
  state,      \* jobs.state, or "absent" when the row does not exist
  key,        \* jobs.idempotency_key
  attempts,   \* jobs.attempts
  lockedBy,   \* jobs.locked_by
  stale,      \* locked_at < now() - LeaseTTL
  due,        \* run_after <= now()
  holds,      \* the job each worker's execute() was called with
  outcome,    \* what that worker's handler returned, once it returned
  lost        \* history: jobs whose lease ran out under a live worker

vars == <<state, key, attempts, lockedBy, stale, due, holds, outcome, lost>>

rowVars    == <<state, key, attempts, lockedBy, stale, due>>
workerVars == <<holds, outcome, lost>>

Live     == {"queued", "running"}
Terminal == {"succeeded", "cancelled", "dead"}      \* JobTerminal
States   == {"absent"} \cup Live \cup Terminal
Outcomes == {"none", "ok", "error", "permanent"}

TypeOK ==
  /\ state \in [Jobs -> States]
  /\ key \in [Jobs -> Keys \cup {NoKey}]
  /\ attempts \in [Jobs -> 0 .. MaxAttempts]
  /\ lockedBy \in [Jobs -> Runners \cup {NoRunner}]
  /\ stale \in [Jobs -> BOOLEAN]
  /\ due \in [Jobs -> BOOLEAN]
  /\ holds \in [Workers -> Jobs \cup {NoJob}]
  /\ outcome \in [Workers -> Outcomes]
  /\ lost \subseteq Jobs

Init ==
  /\ state    = [j \in Jobs |-> "absent"]
  /\ key      = [j \in Jobs |-> NoKey]
  /\ attempts = [j \in Jobs |-> 0]
  /\ lockedBy = [j \in Jobs |-> NoRunner]
  /\ stale    = [j \in Jobs |-> FALSE]
  /\ due      = [j \in Jobs |-> FALSE]
  /\ holds    = [w \in Workers |-> NoJob]
  /\ outcome  = [w \in Workers |-> "none"]
  /\ lost     = {}

-----------------------------------------------------------------------------
(* Submission                                                              *)

\* Mutant: the index covers queued rows only.
TakenByQueued(k, except) ==
  k # NoKey /\ \E j \in Jobs \ {except} : state[j] = "queued" /\ key[j] = k

\* The partial unique index jobs_idempotency_idx: it covers live rows only.
Taken(k, except) ==
  /\ k # NoKey
  /\ \E j \in Jobs \ {except} : state[j] \in Live /\ key[j] = k

\* Enqueue inserts a row; when the index refuses it, byIdempotencyKey returns
\* the live row instead and nothing changes, so only the insert is a step.
\* `delayed` is a RunAfter in the future.
Enqueue(j, k, delayed) ==
  /\ state[j] = "absent"
  /\ ~Taken(k, j)
  /\ state'    = [state EXCEPT ![j] = "queued"]
  /\ key'      = [key EXCEPT ![j] = k]
  /\ attempts' = [attempts EXCEPT ![j] = 0]
  /\ lockedBy' = [lockedBy EXCEPT ![j] = NoRunner]
  /\ stale'    = [stale EXCEPT ![j] = FALSE]
  /\ due'      = [due EXCEPT ![j] = ~delayed]
  /\ UNCHANGED workerVars

\* Mutant: Cancel without its condition on the state.
CancelAnything(j) ==
  /\ state[j] # "absent"
  /\ state' = [state EXCEPT ![j] = "cancelled"]
  /\ UNCHANGED <<key, attempts, lockedBy, stale, due, holds, outcome, lost>>

\* Cancel leaves locked_by and the worker alone.
Cancel(j) ==
  /\ state[j] \in Live
  /\ state' = [state EXCEPT ![j] = "cancelled"]
  /\ UNCHANGED <<key, attempts, lockedBy, stale, due, holds, outcome, lost>>

-----------------------------------------------------------------------------
(* A worker's loop: step() dequeues, execute() runs and records            *)

Dequeue(w, j) ==
  /\ holds[w] = NoJob
  /\ state[j] = "queued"
  /\ due[j]
  /\ state'    = [state EXCEPT ![j] = "running"]
  /\ attempts' = [attempts EXCEPT ![j] = @ + 1]
  /\ lockedBy' = [lockedBy EXCEPT ![j] = RunnerOf[w]]
  /\ stale'    = [stale EXCEPT ![j] = FALSE]
  /\ holds'    = [holds EXCEPT ![w] = j]
  /\ UNCHANGED <<key, due, outcome, lost>>

\* safely(): the handler returns; a panic comes back as a permanent error.
HandlerReturns(w) ==
  /\ holds[w] # NoJob
  /\ outcome[w] = "none"
  /\ \E o \in Outcomes \ {"none"} : outcome' = [outcome EXCEPT ![w] = o]
  /\ UNCHANGED <<rowVars, holds, lost>>

\* execute() goes back to the polling loop whether or not the outcome could
\* be written: a failed write is only logged.
Release(w) ==
  /\ holds'   = [holds EXCEPT ![w] = NoJob]
  /\ outcome' = [outcome EXCEPT ![w] = "none"]
  /\ UNCHANGED lost

\* UPDATE ... WHERE id = $1: no condition on the state the row is in.
Succeed(w) ==
  LET j == holds[w] IN
  /\ outcome[w] = "ok"
  /\ state[j] # "absent"
  /\ state'    = [state EXCEPT ![j] = "succeeded"]
  /\ lockedBy' = [lockedBy EXCEPT ![j] = NoRunner]
  /\ stale'    = [stale EXCEPT ![j] = FALSE]
  /\ Release(w)
  /\ UNCHANGED <<key, attempts, due>>

\* Mutant: the budget compared with > instead of >=.
FailOffByOne(w) ==
  LET j     == holds[w]
      spent == attempts[j] > MaxAttempts
  IN
  /\ outcome[w] = "error"
  /\ state[j] # "absent"
  /\ spent \/ ~Taken(key[j], j)
  /\ state'    = [state EXCEPT ![j] = IF spent THEN "dead" ELSE "queued"]
  /\ due'      = [due EXCEPT ![j] = FALSE]
  /\ lockedBy' = [lockedBy EXCEPT ![j] = NoRunner]
  /\ stale'    = [stale EXCEPT ![j] = FALSE]
  /\ Release(w)
  /\ UNCHANGED <<key, attempts>>

\* UPDATE ... WHERE id = $1: requeues with backoff, or dead once the budget is
\* spent. Requeueing a row whose key another live row has taken meanwhile is
\* refused by the unique index; then nothing is recorded.
Fail(w) ==
  LET j     == holds[w]
      spent == attempts[j] >= MaxAttempts
  IN
  /\ outcome[w] = "error"
  /\ state[j] # "absent"
  /\ spent \/ ~Taken(key[j], j)
  /\ state'    = [state EXCEPT ![j] = IF spent THEN "dead" ELSE "queued"]
  /\ due'      = [due EXCEPT ![j] = FALSE]
  /\ lockedBy' = [lockedBy EXCEPT ![j] = NoRunner]
  /\ stale'    = [stale EXCEPT ![j] = FALSE]
  /\ Release(w)
  /\ UNCHANGED <<key, attempts>>

\* UPDATE ... WHERE state NOT IN ('succeeded','cancelled').
Kill(w) ==
  LET j == holds[w] IN
  /\ outcome[w] = "permanent"
  /\ state[j] \notin {"absent", "succeeded", "cancelled"}
  /\ state'    = [state EXCEPT ![j] = "dead"]
  /\ due'      = [due EXCEPT ![j] = TRUE]
  /\ lockedBy' = [lockedBy EXCEPT ![j] = NoRunner]
  /\ stale'    = [stale EXCEPT ![j] = FALSE]
  /\ Release(w)
  /\ UNCHANGED <<key, attempts>>

\* The write of the outcome is refused (no such row, the unique index) or
\* the database cannot be reached. The row keeps whatever it says.
RecordingFails(w) ==
  /\ outcome[w] # "none"
  /\ Release(w)
  /\ UNCHANGED rowVars

\* A server process dies: all its workers stop where they are. The process
\* that replaces it polls under the same model id.
Crash(r) ==
  /\ \E w \in Workers : RunnerOf[w] = r /\ holds[w] # NoJob
  /\ holds'   = [w \in Workers |-> IF RunnerOf[w] = r THEN NoJob ELSE holds[w]]
  /\ outcome' = [w \in Workers |-> IF RunnerOf[w] = r THEN "none" ELSE outcome[w]]
  /\ UNCHANGED <<rowVars, lost>>

-----------------------------------------------------------------------------
(* Leases and clocks                                                       *)

\* Mutant: execute() starts no heartbeat.
NeverBeating(j) == FALSE

\* Some worker is inside execute() for j, under the process that locked it:
\* its heartbeat goroutine refreshes locked_at WHERE locked_by is its process.
Beating(j) == \E w \in Workers : holds[w] = j /\ RunnerOf[w] = lockedBy[j]

Heartbeat(j) ==
  /\ state[j] = "running"
  /\ stale[j]
  /\ Beating(j)
  /\ stale' = [stale EXCEPT ![j] = FALSE]
  /\ UNCHANGED <<state, key, attempts, lockedBy, due, holds, outcome, lost>>

\* LeaseTTL goes by without a heartbeat: nobody holds the job any more, or its
\* heartbeats fail all that time, which the worker only logs.
LeaseExpires(j) ==
  /\ state[j] = "running"
  /\ ~stale[j]
  /\ stale' = [stale EXCEPT ![j] = TRUE]
  /\ lost'  = IF Beating(j) THEN lost \cup {j} ELSE lost
  /\ UNCHANGED <<state, key, attempts, lockedBy, due, holds, outcome>>

\* Mutant: only rows with an attempt left are reaped, the others are forgotten.
StalledWithBudget(j) == state[j] = "running" /\ stale[j] /\ attempts[j] < MaxAttempts

\* ReapStalled is one UPDATE over every stalled row.
Stalled(j) == state[j] = "running" /\ stale[j]

\* Mutant: reaping requeues whatever the budget.
ReapForever ==
  /\ \E j \in Jobs : Stalled(j)
  /\ state'    = [j \in Jobs |-> IF Stalled(j) THEN "queued" ELSE state[j]]
  /\ lockedBy' = [j \in Jobs |-> IF Stalled(j) THEN NoRunner ELSE lockedBy[j]]
  /\ stale'    = [j \in Jobs |-> stale[j] /\ ~Stalled(j)]
  /\ UNCHANGED <<key, attempts, due, holds, outcome, lost>>

ReapStalled ==
  /\ \E j \in Jobs : Stalled(j)
  /\ state' = [j \in Jobs |->
                 IF ~Stalled(j) THEN state[j]
                 ELSE IF attempts[j] >= MaxAttempts THEN "dead" ELSE "queued"]
  /\ lockedBy' = [j \in Jobs |-> IF Stalled(j) THEN NoRunner ELSE lockedBy[j]]
  /\ stale'    = [j \in Jobs |-> stale[j] /\ ~Stalled(j)]
  /\ UNCHANGED <<key, attempts, due, holds, outcome, lost>>

\* run_after arrives.
ComesDue(j) ==
  /\ state[j] = "queued"
  /\ ~due[j]
  /\ due' = [due EXCEPT ![j] = TRUE]
  /\ UNCHANGED <<state, key, attempts, lockedBy, stale, holds, outcome, lost>>

\* PurgeFinished deletes old succeeded and cancelled rows; dead ones stay.
\* The retention is days and a handler has minutes, so no worker still holds it.
PurgeFinished(j) ==
  /\ state[j] \in {"succeeded", "cancelled"}
  /\ \A w \in Workers : holds[w] # j
  /\ state'    = [state EXCEPT ![j] = "absent"]
  /\ key'      = [key EXCEPT ![j] = NoKey]
  /\ attempts' = [attempts EXCEPT ![j] = 0]
  /\ lockedBy' = [lockedBy EXCEPT ![j] = NoRunner]
  /\ stale'    = [stale EXCEPT ![j] = FALSE]
  /\ due'      = [due EXCEPT ![j] = FALSE]
  /\ lost'     = lost \ {j}
  /\ UNCHANGED <<holds, outcome>>

-----------------------------------------------------------------------------
Record(w) == Succeed(w) \/ Fail(w) \/ Kill(w) \/ RecordingFails(w)

Next ==
  \/ \E j \in Jobs, k \in Keys \cup {NoKey}, d \in BOOLEAN : Enqueue(j, k, d)
  \/ \E j \in Jobs : Cancel(j)
  \/ \E w \in Workers, j \in Jobs : Dequeue(w, j)
  \/ \E w \in Workers : HandlerReturns(w)
  \/ \E w \in Workers : Record(w)
  \/ \E r \in Runners : Crash(r)
  \/ \E j \in Jobs : Heartbeat(j)
  \/ \E j \in Jobs : LeaseExpires(j)
  \/ ReapStalled
  \/ \E j \in Jobs : ComesDue(j)
  \/ \E j \in Jobs : PurgeFinished(j)

Spec == Init /\ [][Next]_vars

\* Handlers honour the JobTimeout of their context, workers keep polling, the
\* reaper's ticker keeps firing, clocks advance. Dequeue orders by priority and
\* run_after, so at equal priority no due job is passed over for ever: strong
\* fairness per job. Crashes, cancellations and submissions owe nothing.
Fairness ==
  /\ \A w \in Workers : WF_vars(HandlerReturns(w)) /\ WF_vars(Record(w))
  /\ \A j \in Jobs :
       /\ SF_vars(\E w \in Workers : Dequeue(w, j))
       /\ WF_vars(ComesDue(j))
       /\ WF_vars(LeaseExpires(j) /\ ~Beating(j))
  /\ WF_vars(ReapStalled)

FairSpec == Spec /\ Fairness

-----------------------------------------------------------------------------
(* Properties                                                              *)

\* Two workers are never inside execute() for the same job, unless heartbeats
\* failed for a whole LeaseTTL: "exactly-once-at-a-time delivery". Broken by a
\* reaper, a cancel or a late result that lets a row be leased while its worker
\* is alive.
OneWorkerPerJob ==
  \A w1, w2 \in Workers :
    w1 # w2 /\ holds[w1] = holds[w2] => holds[w1] \in lost \cup {NoJob}

\* Retries, reaping and late failures together never hand a job out more often
\* than max_attempts: whatever is queued still has an attempt left.
AttemptsRemain ==
  \A j \in Jobs : state[j] = "queued" => attempts[j] < MaxAttempts

\* No two live jobs share an idempotency key, however they became live again:
\* a retried call and a re-fired tick collapse onto one job.
OneLiveJobPerKey ==
  \A i, j \in Jobs :
    /\ i # j
    /\ state[i] \in Live /\ state[j] \in Live
    /\ key[i] = key[j]
    => key[i] = NoKey

\* A job that succeeded or died is settled: no worker or reaper moves it,
\* unless its lease was lost. A cancelled job is not: Succeed and Fail overwrite it.
SettledIsFinal ==
  [][\A j \in Jobs \ lost : state[j] \in {"succeeded", "dead"}
       => state'[j] \in {state[j], "absent"}]_vars

\* Every submitted job reaches a final state, whatever crashes: a dead
\* worker's lease is reaped, a backoff ends, the attempt budget runs out.
JobsSettle ==
  \A j \in Jobs : state[j] \in Live ~> state[j] \notin Live

=============================================================================
