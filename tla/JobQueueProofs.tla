--------------------------- MODULE JobQueueProofs ---------------------------
(***************************************************************************)
(* Theorems about the work queue, for any number of jobs, keys, workers    *)
(* and processes.                                                          *)
(***************************************************************************)
EXTENDS JobQueue, TLAPS

\* A row is only leased out under a process name, so that a heartbeat can find
\* it, and a queued row carries no lease left over from an earlier attempt.
LeaseHasOwner ==
  \A j \in Jobs :
    /\ state[j] = "running" => lockedBy[j] # NoRunner
    /\ state[j] = "queued" => lockedBy[j] = NoRunner /\ ~stale[j]

\* What holds whether or not leases are kept.
QueueInv ==
  /\ TypeOK
  /\ AttemptsRemain
  /\ OneLiveJobPerKey
  /\ LeaseHasOwner

\* A worker's job, unless its lease was lost, is running under that worker's
\* process with a fresh lease, or was cancelled under it. In particular nobody
\* holds a queued job, which is why a requeue never produces a second holder.
HolderKeepsLease ==
  \A w \in Workers :
    LET j == holds[w] IN
    /\ j \notin lost \cup {NoJob} =>
         /\ state[j] \in {"running", "cancelled"}
         /\ state[j] = "running" => lockedBy[j] = RunnerOf[w] /\ ~stale[j]
    /\ j = NoJob => outcome[w] = "none"

Exclusive == HolderKeepsLease /\ OneWorkerPerJob

-----------------------------------------------------------------------------

LEMMA QueueInit == Init => QueueInv /\ Exclusive
  BY QueueAssumption DEF Init, QueueInv, TypeOK, AttemptsRemain,
     OneLiveJobPerKey, LeaseHasOwner, Exclusive, HolderKeepsLease,
     OneWorkerPerJob, States, Live, Terminal, Outcomes

\* Every step keeps the type, the attempt budget, key uniqueness and lease
\* ownership, whether or not leases are lost.
LEMMA QueueStep == QueueInv /\ [Next]_vars => QueueInv'
<1> SUFFICES ASSUME QueueInv, [Next]_vars PROVE QueueInv'
  OBVIOUS
<1> USE QueueAssumption DEF QueueInv, TypeOK, AttemptsRemain, OneLiveJobPerKey,
        LeaseHasOwner, States, Live, Terminal, Outcomes, rowVars, workerVars
<1>1. ASSUME NEW j \in Jobs, NEW k \in Keys \cup {NoKey}, NEW d \in BOOLEAN,
             Enqueue(j, k, d)
      PROVE  QueueInv'
  BY <1>1 DEF Enqueue, Taken
<1>2. ASSUME NEW j \in Jobs, Cancel(j) PROVE QueueInv'
  BY <1>2 DEF Cancel
<1>3. ASSUME NEW w \in Workers, NEW j \in Jobs, Dequeue(w, j) PROVE QueueInv'
  BY <1>3 DEF Dequeue
<1>4. ASSUME NEW w \in Workers, HandlerReturns(w) PROVE QueueInv'
  BY <1>4 DEF HandlerReturns
<1>5. ASSUME NEW w \in Workers, Succeed(w) PROVE QueueInv'
  BY <1>5 DEF Succeed, Release
<1>6. ASSUME NEW w \in Workers, Fail(w) PROVE QueueInv'
  <2> DEFINE job == holds[w]
  <2> USE <1>6 DEF Fail, Release
  <2>1. TypeOK'
    OBVIOUS
  <2>2. AttemptsRemain'
    OBVIOUS
  <2>3. OneLiveJobPerKey'
    <3> SUFFICES ASSUME NEW i \in Jobs, NEW j \in Jobs, i # j,
                        state'[i] \in Live, state'[j] \in Live, key[i] = key[j],
                        key[i] # NoKey
                 PROVE  FALSE
      OBVIOUS
    <3>1. \A x \in Jobs : x # job => state'[x] = state[x]
      OBVIOUS
    <3>2. state'[job] \in Live => ~Taken(key[job], job)
      OBVIOUS
    <3>3. QED
      BY <3>1, <3>2 DEF Taken
  <2>4. LeaseHasOwner'
    OBVIOUS
  <2>5. QED
    BY <2>1, <2>2, <2>3, <2>4
<1>7. ASSUME NEW w \in Workers, Kill(w) PROVE QueueInv'
  BY <1>7 DEF Kill, Release
<1>8. ASSUME NEW w \in Workers, RecordingFails(w) PROVE QueueInv'
  BY <1>8 DEF RecordingFails, Release
<1>9. ASSUME NEW r \in Runners, Crash(r) PROVE QueueInv'
  BY <1>9 DEF Crash
<1>10. ASSUME NEW j \in Jobs, Heartbeat(j) PROVE QueueInv'
  BY <1>10 DEF Heartbeat
<1>11. ASSUME NEW j \in Jobs, LeaseExpires(j) PROVE QueueInv'
  BY <1>11 DEF LeaseExpires
<1>12. ASSUME ReapStalled PROVE QueueInv'
  <2> USE <1>12 DEF ReapStalled, Stalled
  <2>1. TypeOK'
    OBVIOUS
  <2>2. AttemptsRemain'
    OBVIOUS
  <2>3. OneLiveJobPerKey'
    <3>1. \A j \in Jobs : state'[j] \in Live => state[j] \in Live
      OBVIOUS
    <3>2. QED
      BY <3>1
  <2>4. LeaseHasOwner'
    OBVIOUS
  <2>5. QED
    BY <2>1, <2>2, <2>3, <2>4
<1>13. ASSUME NEW j \in Jobs, ComesDue(j) PROVE QueueInv'
  BY <1>13 DEF ComesDue
<1>14. ASSUME NEW j \in Jobs, PurgeFinished(j) PROVE QueueInv'
  BY <1>14 DEF PurgeFinished
<1>15. CASE UNCHANGED vars
  BY <1>15 DEF vars
<1>16. QED
  BY <1>1, <1>2, <1>3, <1>4, <1>5, <1>6, <1>7, <1>8, <1>9, <1>10, <1>11,
     <1>12, <1>13, <1>14, <1>15 DEF Next, Record

\* A job whose lease was never lost has at most one holder.
LEMMA ExclusiveStep == QueueInv /\ Exclusive /\ [Next]_vars => Exclusive'
<1> SUFFICES ASSUME QueueInv, HolderKeepsLease, OneWorkerPerJob, [Next]_vars
             PROVE  HolderKeepsLease' /\ OneWorkerPerJob'
  BY DEF Exclusive
<1> USE QueueAssumption DEF QueueInv, TypeOK, HolderKeepsLease, OneWorkerPerJob,
        rowVars, workerVars
<1> DEFINE Goal == HolderKeepsLease' /\ OneWorkerPerJob'
<1>1. ASSUME NEW j \in Jobs, NEW k \in Keys \cup {NoKey}, NEW d \in BOOLEAN,
             Enqueue(j, k, d)
      PROVE  Goal
  BY <1>1 DEF Enqueue
<1>2. ASSUME NEW j \in Jobs, Cancel(j) PROVE Goal
  BY <1>2 DEF Cancel
<1>3. ASSUME NEW w \in Workers, NEW j \in Jobs, Dequeue(w, j) PROVE Goal
  BY <1>3 DEF Dequeue
<1>4. ASSUME NEW w \in Workers, HandlerReturns(w) PROVE Goal
  BY <1>4 DEF HandlerReturns
<1>5. ASSUME NEW w \in Workers, Succeed(w) PROVE Goal
  BY <1>5 DEF Succeed, Release
<1>6. ASSUME NEW w \in Workers, Fail(w) PROVE Goal
  BY <1>6 DEF Fail, Release
<1>7. ASSUME NEW w \in Workers, Kill(w) PROVE Goal
  BY <1>7 DEF Kill, Release
<1>8. ASSUME NEW w \in Workers, RecordingFails(w) PROVE Goal
  BY <1>8 DEF RecordingFails, Release
<1>9. ASSUME NEW r \in Runners, Crash(r) PROVE Goal
  BY <1>9 DEF Crash
<1>10. ASSUME NEW j \in Jobs, Heartbeat(j) PROVE Goal
  BY <1>10 DEF Heartbeat
<1>11. ASSUME NEW j \in Jobs, LeaseExpires(j) PROVE Goal
  BY <1>11 DEF LeaseExpires, Beating
<1>12. ASSUME ReapStalled PROVE Goal
  BY <1>12 DEF ReapStalled, Stalled
<1>13. ASSUME NEW j \in Jobs, ComesDue(j) PROVE Goal
  BY <1>13 DEF ComesDue
<1>14. ASSUME NEW j \in Jobs, PurgeFinished(j) PROVE Goal
  BY <1>14 DEF PurgeFinished
<1>15. CASE UNCHANGED vars
  BY <1>15 DEF vars
<1>16. QED
  BY <1>1, <1>2, <1>3, <1>4, <1>5, <1>6, <1>7, <1>8, <1>9, <1>10, <1>11,
     <1>12, <1>13, <1>14, <1>15 DEF Next, Record

-----------------------------------------------------------------------------

\* The variables keep their types: in particular attempts stays within
\* max_attempts although Dequeue increments it without looking.
THEOREM QueueTypeOK == Spec => []TypeOK
<1>1. QueueInv => TypeOK
  BY DEF QueueInv
<1>2. QED
  BY <1>1, QueueInit, QueueStep, PTL DEF Spec

\* Dequeue, Fail and ReapStalled together keep the attempt budget.
THEOREM QueueAttemptsRemain == Spec => []AttemptsRemain
<1>1. QueueInv => AttemptsRemain
  BY DEF QueueInv
<1>2. QED
  BY <1>1, QueueInit, QueueStep, PTL DEF Spec

\* Enqueue's use of the partial unique index keeps live keys distinct, through
\* every requeue.
THEOREM QueueOneLiveJobPerKey == Spec => []OneLiveJobPerKey
<1>1. QueueInv => OneLiveJobPerKey
  BY DEF QueueInv
<1>2. QED
  BY <1>1, QueueInit, QueueStep, PTL DEF Spec

\* As long as live workers keep their leases, the queue never has one job in
\* two workers' hands.
THEOREM QueueOneWorkerPerJob == Spec => []OneWorkerPerJob
<1>1. Exclusive => OneWorkerPerJob
  BY DEF Exclusive
<1>2. QED
  BY <1>1, QueueInit, QueueStep, ExclusiveStep, PTL DEF Spec

\* Under the same condition a succeeded or dead job never moves again.
THEOREM QueueSettledIsFinal == Spec => SettledIsFinal
<1> DEFINE Settled == \A j \in Jobs \ lost : state[j] \in {"succeeded", "dead"}
                        => state'[j] \in {state[j], "absent"}
<1>1. QueueInv /\ Exclusive /\ [Next]_vars => [Settled]_vars
  <2> SUFFICES ASSUME QueueInv, Exclusive, [Next]_vars PROVE Settled \/ UNCHANGED vars
    OBVIOUS
  <2> USE QueueAssumption DEF QueueInv, TypeOK, Exclusive, HolderKeepsLease
  <2>1. ASSUME NEW w \in Workers, Record(w) PROVE Settled
    BY <2>1 DEF Record, Succeed, Fail, Kill, RecordingFails, rowVars, Outcomes
  <2>2. CASE UNCHANGED vars
    BY <2>2
  <2>3. CASE Next
    BY <2>1, <2>3 DEF Next, Enqueue, Cancel, Dequeue, HandlerReturns, Crash,
       Heartbeat, LeaseExpires, ReapStalled, Stalled, ComesDue, PurgeFinished,
       rowVars, Live
  <2>4. QED
    BY <2>2, <2>3
<1>2. QED
  BY <1>1, QueueInit, QueueStep, ExclusiveStep, PTL DEF Spec, SettledIsFinal

=============================================================================
