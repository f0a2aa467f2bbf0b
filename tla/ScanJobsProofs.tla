----------------------------- MODULE ScanJobsProofs -----------------------------
(*****************************************************************************)
(* Theorems about ScanJobs, for any jobs, workers, priorities, quotas and    *)
(* attempt limit, and any heartbeat interval below the lease.                *)
(*****************************************************************************)
EXTENDS ScanJobs, FiniteSetTheorems, TLAPS

(* A row without a lease has no owner and no time left; a lease is an attempt*)
RowShape ==
    \A j \in Job :
        /\ job[j].state = "leased" => job[j].owner \in Worker /\ job[j].attempts # 0
        /\ job[j].state # "leased" => job[j].owner = None /\ job[j].ttl = 0
        /\ job[j].state = "absent" => job[j].attempts = 0

(* A worker between lease and report works on a job.                         *)
BusyHasJob == \A w \in Worker : Busy(w) => wk[w].job \in Job

(* What fail_scan_job read is still the attempt of a row the worker owns.    *)
SeenIsCurrent ==
    \A w \in Worker :
        wk[w].pc = "failwrite" /\ Owns(w, wk[w].job) => wk[w].seen = job[wk[w].job].attempts

(* The lease outlives the time to the next heartbeat.                        *)
LeaseAhead ==
    \A w \in Worker :
        /\ wk[w].pc \in {"running", "completing"}
        /\ ~wk[w].lost /\ ~wk[w].late
        /\ wk[w].job \notin clobbered
        => Owns(w, wk[w].job) /\ job[wk[w].job].ttl > wk[w].due

(* Only attempts that were made are audited as completed.                    *)
AuditIsPast ==
    \A j \in Job, k \in Nat :
        <<j, k, "completed">> \in audit => k # 0 /\ k <= job[j].attempts

IInv ==
    /\ TypeOK
    /\ RowShape
    /\ BusyHasJob
    /\ OwnerMatchesRun
    /\ SeenIsCurrent
    /\ LeaseAhead
    /\ AuditIsPast
    /\ CompletedOnce
    /\ QueuedIsLeasable

(* No row, every worker idle: the invariant holds at the start.              *)
LEMMA InitInv == Init => IInv
  BY ConstantsAssumption, HeartbeatAssumption
  DEF Init, Idle, IInv, TypeOK, JobRow, JobState, WorkerState, WorkerPc, Busy, RowShape,
      BusyHasJob, OwnerMatchesRun, SeenIsCurrent, LeaseAhead, AuditIsPast, CompletedOnce,
      QueuedIsLeasable

(* A step of one worker that changes no row and completes nothing keeps the  *)
(* invariant, when what the worker becomes suits its job.                    *)
LEMMA WorkerStep ==
    ASSUME IInv, NEW w \in Worker, NEW new \in WorkerState,
           wk' = [wk EXCEPT ![w] = new],
           UNCHANGED <<job, created, recent, spent, clobbered>>,
           audit' = audit \/ \E j \in Job, k \in Nat : audit' = audit \cup {<<j, k, "failed">>},
           new.pc \in {"running", "completing", "failing", "failwrite"} =>
               Busy(w) /\ new.job = wk[w].job /\ new.attempt = wk[w].attempt,
           new.pc = "failwrite" /\ Owns(w, new.job) => new.seen = job[new.job].attempts,
           new.pc \in {"running", "completing"} /\ ~new.lost =>
               wk[w].pc \in {"running", "completing"} /\ ~wk[w].lost
               /\ new.late = wk[w].late /\ new.due = wk[w].due
    PROVE  IInv'
  <1> USE DEF IInv
  <1>1. wk'[w] = new /\ \A v \in Worker \ {w} : wk'[v] = wk[v]
    BY DEF TypeOK
  <1>2. \A j \in Job, k \in Nat : <<j, k, "completed">> \in audit' <=> <<j, k, "completed">> \in audit
    OBVIOUS
  <1>3. TypeOK'
    BY DEF TypeOK
  <1>4. RowShape'
    BY DEF RowShape
  <1>5. BusyHasJob'
    BY <1>1 DEF BusyHasJob, Busy
  <1>6. OwnerMatchesRun'
    BY <1>1 DEF OwnerMatchesRun, Busy, Owns
  <1>7. SeenIsCurrent'
    BY <1>1 DEF SeenIsCurrent, Owns
  <1>8. LeaseAhead'
    BY <1>1 DEF LeaseAhead, Owns
  <1>9. AuditIsPast'
    BY <1>2 DEF AuditIsPast
  <1>10. CompletedOnce'
    BY <1>2, ConstantsAssumption DEF CompletedOnce, TypeOK, JobRow
  <1>11. QueuedIsLeasable'
    BY DEF QueuedIsLeasable
  <1>12. QED
    BY <1>3, <1>4, <1>5, <1>6, <1>7, <1>8, <1>9, <1>10, <1>11

(* A worker without a job has the shape of a worker.                         *)
LEMMA IdleShape == Idle \in WorkerState /\ [Idle EXCEPT !.pc = "down"] \in WorkerState
  <1>1. Heartbeat \in 0..Heartbeat
    BY ConstantsAssumption
  <1>2. Idle \in WorkerState
    BY <1>1 DEF Idle, WorkerState, WorkerPc
  <1>3. QED
    BY <1>2 DEF WorkerState, WorkerPc

(* The steps in which a worker changes only its own state.                   *)
LEMMA WorkerOnly ==
    ASSUME IInv, NEW w \in Worker,
           \/ HeartbeatRaises(w) \/ ExecutorReturns(w) \/ ExecutorRaises(w) \/ CompleteFails(w)
           \/ FailReads(w) \/ FailErrs(w) \/ Crash(w) \/ Restart(w)
    PROVE  IInv'
  <1> USE DEF IInv, TypeOK, WorkerState, WorkerPc, Busy, WorkerGoes
  <1>1. wk[w] \in WorkerState /\ (Busy(w) => wk[w].job \in Job)
    BY DEF BusyHasJob
  <1>2. Idle \in WorkerState /\ [Idle EXCEPT !.pc = "down"] \in WorkerState
    BY IdleShape
  <1>3. CASE HeartbeatRaises(w)
    <2>1. DEFINE new == [wk[w] EXCEPT !.lost = TRUE]
    <2>2. new \in WorkerState /\ wk' = [wk EXCEPT ![w] = new]
      BY <1>1, <1>3 DEF HeartbeatRaises
    <2>3. new.pc = "failwrite" /\ Owns(w, new.job) => new.seen = job[new.job].attempts
      BY <1>1 DEF SeenIsCurrent
    <2>4. QED  BY <1>1, <1>3, <2>2, <2>3, WorkerStep DEF HeartbeatRaises
  <1>4. CASE ExecutorReturns(w) \/ ExecutorRaises(w) \/ CompleteFails(w)
    <2>1. PICK next \in {"completing", "failing"} :
             /\ WorkerGoes(w, next)
             /\ next = "completing" => wk[w].pc = "running"
      BY <1>4 DEF ExecutorReturns, ExecutorRaises, CompleteFails
    <2>2. DEFINE new == [wk[w] EXCEPT !.pc = next]
    <2>3. new \in WorkerState /\ wk' = [wk EXCEPT ![w] = new]
      BY <1>1, <2>1
    <2>4. Busy(w) /\ UNCHANGED <<job, created, recent, spent, audit, clobbered>>
      BY <1>4 DEF ExecutorReturns, ExecutorRaises, CompleteFails
    <2>5. QED  BY <1>1, <2>1, <2>3, <2>4, WorkerStep
  <1>5. CASE FailReads(w)
    <2>1. CASE Owns(w, wk[w].job)
      <3>1. DEFINE new == [wk[w] EXCEPT !.pc = "failwrite", !.seen = job[wk[w].job].attempts]
      <3>2. new \in WorkerState /\ wk' = [wk EXCEPT ![w] = new] /\ audit' = audit
        BY <1>1, <1>5, <2>1 DEF FailReads, JobRow
      <3>3. Busy(w) /\ UNCHANGED <<job, created, recent, spent, clobbered>>
        BY <1>5 DEF FailReads
      <3>4. QED  BY <1>1, <3>2, <3>3, WorkerStep
    <2>2. CASE ~Owns(w, wk[w].job)
      <3>1. Busy(w) /\ wk' = [wk EXCEPT ![w] = Idle] /\ UNCHANGED <<job, created, recent, spent, clobbered>>
        BY <1>5, <2>2 DEF FailReads
      <3>2. \E j \in Job, k \in Nat : audit' = audit \cup {<<j, k, "failed">>}
        BY <1>1, <1>5, <2>2, <3>1 DEF FailReads, Event
      <3>3. Idle.pc = "idle"
        BY DEF Idle
      <3>4. QED  BY <1>2, <3>1, <3>2, <3>3, WorkerStep
    <2>3. QED  BY <2>1, <2>2
  <1>6. CASE FailErrs(w) \/ Crash(w) \/ Restart(w)
    <2>1. PICK new \in {Idle, [Idle EXCEPT !.pc = "down"]} : wk' = [wk EXCEPT ![w] = new]
      BY <1>6 DEF FailErrs, Crash, Restart
    <2>2. new \in WorkerState /\ new.pc \in {"idle", "down"}
      BY <1>2 DEF Idle
    <2>3. QED  BY <1>6, <2>1, <2>2, WorkerStep DEF FailErrs, Crash, Restart
  <1>7. QED
    BY <1>3, <1>4, <1>5, <1>6

(* The row of an accepted job enters the queue.                              *)
LEMMA EnqueueInv ==
    ASSUME IInv, NEW j \in Job, Enqueue(j)
    PROVE  IInv'
  <1> USE DEF IInv, Enqueue
  <1>1. /\ job' = [job EXCEPT ![j].state = "queued"]
        /\ job[j].state = "absent" /\ job[j].attempts = 0 /\ job[j].owner = None /\ job[j].ttl = 0
        /\ UNCHANGED <<wk, audit, clobbered>>
    BY DEF RowShape
  <1>2. 1 + Cardinality({k \in Job : created[k] # 0}) \in Nat
    BY FS_Subset, FS_CardinalityType, ConstantsAssumption
  <1>3. TypeOK'
    BY <1>1, <1>2 DEF TypeOK, JobRow, JobState
  <1>4. RowShape'
    BY <1>1 DEF RowShape, TypeOK, JobRow
  <1>5. BusyHasJob'
    BY <1>1 DEF BusyHasJob, Busy
  <1>6. OwnerMatchesRun'
    BY <1>1 DEF OwnerMatchesRun, BusyHasJob, Busy, Owns, TypeOK, JobRow
  <1>7. SeenIsCurrent'
    BY <1>1 DEF SeenIsCurrent, BusyHasJob, Busy, Owns, TypeOK, JobRow
  <1>8. LeaseAhead'
    BY <1>1 DEF LeaseAhead, BusyHasJob, Busy, Owns, TypeOK, JobRow
  <1>9. AuditIsPast'
    BY <1>1 DEF AuditIsPast, TypeOK, JobRow
  <1>10. CompletedOnce'
    BY <1>1, ConstantsAssumption DEF CompletedOnce, TypeOK, JobRow
  <1>11. QueuedIsLeasable'
    BY <1>1, ConstantsAssumption DEF QueuedIsLeasable, TypeOK, JobRow
  <1>12. QED
    BY <1>3, <1>4, <1>5, <1>6, <1>7, <1>8, <1>9, <1>10, <1>11

(* What the sweep does to a row: nothing, or a lease that ran out fails.     *)
SweepLeaves(j) == Swept[j] = job[j]

SweepFails(j) ==
    /\ job[j].state = "leased" /\ job[j].ttl = 0
    /\ Swept[j].state = "failed" /\ Swept[j].owner = None /\ Swept[j].ttl = 0
    /\ Swept[j].attempts = job[j].attempts

(* The sweep of lease_next_scan_job touches nothing else.                    *)
LEMMA SweptRows ==
    ASSUME TypeOK
    PROVE  /\ Swept \in [Job -> JobRow]
           /\ \A j \in Job : SweepLeaves(j) \/ SweepFails(j)
  <1>1. ASSUME NEW j \in Job  PROVE Swept[j] \in JobRow /\ (SweepLeaves(j) \/ SweepFails(j))
    <2>1. job[j] \in JobRow
      BY DEF TypeOK
    <2>2. CASE j \notin Exhausted
      BY <2>1, <2>2 DEF Swept, SweepLeaves
    <2>3. CASE j \in Exhausted
      <3>1. Swept[j] = [[[job[j] EXCEPT !.state = "failed"] EXCEPT !.owner = None] EXCEPT !.ttl = 0]
        BY <2>3 DEF Swept, Released
      <3>2. job[j].state = "leased" /\ job[j].ttl = 0
        BY <2>3 DEF Exhausted
      <3>3. 0 \in 0..Lease
        BY ConstantsAssumption
      <3>4. QED  BY <2>1, <3>1, <3>2, <3>3 DEF SweepFails, JobRow, JobState
    <2>4. QED  BY <2>2, <2>3
  <1>2. Swept \in [Job -> JobRow]
    BY <1>1 DEF Swept
  <1>3. QED
    BY <1>1, <1>2

(* A poll that leases nothing fails the jobs whose final attempt died.       *)
LEMMA SweepInv ==
    ASSUME IInv, NEW w \in Worker, PollSweeps(w)
    PROVE  IInv'
  <1> USE DEF IInv
  <1>1. job' = Swept /\ UNCHANGED <<created, recent, spent, wk, audit, clobbered>>
    BY DEF PollSweeps
  <1>2. job' \in [Job -> JobRow] /\ \A j \in Job : SweepLeaves(j) \/ SweepFails(j)
    BY <1>1, SweptRows
  <1>3. TypeOK'
    BY <1>1, <1>2 DEF TypeOK
  <1>4. RowShape'
    BY <1>1, <1>2 DEF SweepLeaves, SweepFails, RowShape
  <1>5. BusyHasJob'
    BY <1>1 DEF BusyHasJob, Busy
  <1>6. OwnerMatchesRun'
    BY <1>1, <1>2 DEF SweepLeaves, SweepFails, OwnerMatchesRun, BusyHasJob, Busy, Owns
  <1>7. SeenIsCurrent'
    BY <1>1, <1>2 DEF SweepLeaves, SweepFails, SeenIsCurrent, BusyHasJob, Busy, Owns
  <1>8. LeaseAhead'
    BY <1>1, <1>2 DEF SweepLeaves, SweepFails, LeaseAhead, BusyHasJob, Busy, Owns, TypeOK, WorkerState
  <1>9. AuditIsPast'
    BY <1>1, <1>2 DEF SweepLeaves, SweepFails, AuditIsPast
  <1>10. CompletedOnce'
    BY <1>1, <1>2, ConstantsAssumption DEF SweepLeaves, SweepFails, CompletedOnce
  <1>11. QueuedIsLeasable'
    BY <1>1, <1>2 DEF SweepLeaves, SweepFails, QueuedIsLeasable
  <1>12. QED
    BY <1>3, <1>4, <1>5, <1>6, <1>7, <1>8, <1>9, <1>10, <1>11

(* A poll that leases a job: a new attempt, whose worker may not know it.    *)
LEMMA TakeInv ==
    ASSUME IInv, NEW w \in Worker, PollTakes(w)
    PROVE  IInv'
  <1> USE DEF IInv
  <1>1. PICK j \in Job :
           /\ Candidate(j)
           /\ job' = [Swept EXCEPT ![j] = LeasedTo(w, j)]
           /\ wk' = [wk EXCEPT ![w] = Started(w, j)] \/ UNCHANGED wk
    BY DEF PollTakes
  <1>2. wk[w].pc = "idle" /\ UNCHANGED <<created, recent, spent, audit, clobbered>>
    BY DEF PollTakes
  <1>3. /\ job[j].state \in {"queued", "leased"} /\ job[j].ttl = 0
        /\ job[j].attempts \in Nat /\ job[j].attempts < MaxAttempts
    BY <1>1 DEF Candidate, Eligible, TypeOK, JobRow
  <1>4. /\ job'[j] = [state |-> "leased", owner |-> w, ttl |-> Lease,
                      attempts |-> job[j].attempts + 1]
        /\ \A k \in Job \ {j} : job'[k] = Swept[k] /\ (SweepLeaves(k) \/ SweepFails(k))
        /\ DOMAIN job' = Job
    <2>1. Swept \in [Job -> JobRow] /\ \A k \in Job : SweepLeaves(k) \/ SweepFails(k)
      BY SweptRows
    <2>2. QED  BY <1>1, <2>1 DEF LeasedTo
  <1>5. /\ Started(w, j).pc = "running" /\ Started(w, j).job = j
        /\ Started(w, j).attempt = job[j].attempts + 1
        /\ Started(w, j).due = Heartbeat
        /\ Started(w, j) \in WorkerState
    <2>1. Started(w, j) = [[[Idle EXCEPT !.pc = "running"] EXCEPT !.job = j]
                                 EXCEPT !.attempt = job[j].attempts + 1]
      BY DEF Started
    <2>2. Idle \in WorkerState /\ Idle.due = Heartbeat /\ job[j].attempts + 1 \in Nat
      BY <1>3, IdleShape DEF Idle
    <2>3. QED  BY <2>1, <2>2 DEF WorkerState, WorkerPc
  <1>6. /\ \A v \in Worker \ {w} : wk'[v] = wk[v]
        /\ wk'[w] = wk[w] \/ wk'[w] = Started(w, j)
    BY <1>1 DEF TypeOK
  <1>7. \A k \in Job : job'[k] \in JobRow
    <2>1. \A k \in Job \ {j} : job'[k] \in JobRow
      BY <1>4, SweptRows
    <2>2. job'[j] \in JobRow
      BY <1>3, <1>4, ConstantsAssumption DEF JobRow, JobState
    <2>3. QED  BY <2>1, <2>2
  <1>9. TypeOK'
    <2>1. job' \in [Job -> JobRow]
      BY <1>1, <1>7, SweptRows
    <2>2. wk' \in [Worker -> WorkerState]
      BY <1>1, <1>5 DEF TypeOK
    <2>3. QED  BY <1>2, <2>1, <2>2 DEF TypeOK
  <1>10. RowShape'
    BY <1>3, <1>4 DEF SweepLeaves, SweepFails, RowShape
  <1>11. BusyHasJob'
    BY <1>2, <1>5, <1>6 DEF SweepLeaves, SweepFails, BusyHasJob, Busy
  <1>12. OwnerMatchesRun'
    BY <1>2, <1>4, <1>5, <1>6, ConstantsAssumption DEF SweepLeaves, SweepFails, OwnerMatchesRun, BusyHasJob, Busy, Owns
  <1>13. SeenIsCurrent'
    BY <1>2, <1>4, <1>5, <1>6, ConstantsAssumption DEF SweepLeaves, SweepFails, SeenIsCurrent, BusyHasJob, Busy, Owns
  <1>14. LeaseAhead'
    <2>1. ASSUME NEW v \in Worker \ {w}, wk'[v].pc \in {"running", "completing"},
                 ~wk'[v].lost, ~wk'[v].late, wk'[v].job \notin clobbered'
          PROVE  Owns(v, wk[v].job)' /\ job'[wk'[v].job].ttl > wk'[v].due
      <3>1. /\ wk'[v] = wk[v] /\ wk[v].job \in Job /\ Owns(v, wk[v].job)
            /\ job[wk[v].job].ttl > wk[v].due /\ wk[v].due \in 0..Heartbeat
        BY <1>2, <1>6, <2>1 DEF LeaseAhead, BusyHasJob, Busy, TypeOK, WorkerState
      <3>2. job[wk[v].job].ttl # 0
        BY <3>1, ConstantsAssumption
      <3>3. job'[wk[v].job] = job[wk[v].job]
        BY <1>3, <1>4, <3>1, <3>2 DEF SweepLeaves, SweepFails
      <3>4. QED  BY <3>1, <3>3 DEF Owns
    <2>2. wk'[w].pc \in {"running", "completing"} =>
             Owns(w, wk[w].job)' /\ job'[wk'[w].job].ttl > wk'[w].due
      BY <1>2, <1>4, <1>5, <1>6, ConstantsAssumption, HeartbeatAssumption DEF Owns
    <2>3. QED  BY <2>1, <2>2 DEF LeaseAhead, Owns
  <1>15. AuditIsPast'
    BY <1>2, <1>3, <1>4 DEF SweepLeaves, SweepFails, AuditIsPast
  <1>16. CompletedOnce'
    <2>1. ASSUME NEW k \in Job \ clobbered, job'[k] = job[k]
          PROVE  /\ \A n \in 1..MaxAttempts : <<k, n, "completed">> \in audit' =>
                       job'[k].state = "completed" /\ job'[k].attempts = n
                 /\ job'[k].state = "completed" => <<k, job'[k].attempts, "completed">> \in audit'
      BY <1>2, <2>1 DEF CompletedOnce
    <2>2. ASSUME NEW k \in Job \ clobbered, job'[k].state # "completed",
                 job[k].state # "completed"
          PROVE  /\ \A n \in 1..MaxAttempts : <<k, n, "completed">> \in audit' =>
                       job'[k].state = "completed" /\ job'[k].attempts = n
                 /\ job'[k].state = "completed" => <<k, job'[k].attempts, "completed">> \in audit'
      BY <1>2, <2>2 DEF CompletedOnce
    <2>3. \A k \in Job : \/ job'[k] = job[k]
                         \/ job'[k].state # "completed" /\ job[k].state # "completed"
      BY <1>3, <1>4 DEF SweepLeaves, SweepFails
    <2>4. QED  BY <1>2, <2>1, <2>2, <2>3 DEF CompletedOnce
  <1>17. QueuedIsLeasable'
    BY <1>2, <1>4 DEF SweepLeaves, SweepFails, QueuedIsLeasable
  <1>18. QED
    BY <1>9, <1>10, <1>11, <1>12, <1>13, <1>14, <1>15, <1>16, <1>17

(* A heartbeat extends an unexpired lease of its own worker, or gives up.    *)
LEMMA RenewInv ==
    ASSUME IInv, NEW w \in Worker, Renew(w)
    PROVE  IInv'
  <1> USE DEF IInv
  <1>1. /\ Busy(w) /\ ~wk[w].lost /\ wk[w].job \in Job /\ wk[w] \in WorkerState
        /\ UNCHANGED <<created, recent, spent, audit, clobbered>>
    BY DEF Renew, BusyHasJob, TypeOK
  <1>2. CASE Owns(w, wk[w].job) /\ job[wk[w].job].ttl > 0
    <2>1. /\ job' = [job EXCEPT ![wk[w].job].ttl = Lease]
          /\ wk' = [wk EXCEPT ![w].due = Heartbeat, ![w].late = FALSE]
      BY <1>2 DEF Renew
    <2>2. Lease \in 0..Lease /\ Heartbeat \in 0..Heartbeat /\ Lease > Heartbeat
      BY ConstantsAssumption, HeartbeatAssumption
    <2>3. TypeOK'
      BY <1>1, <2>1, <2>2 DEF TypeOK, JobRow, WorkerState
    <2>4. RowShape'
      BY <1>1, <1>2, <2>1 DEF RowShape, TypeOK, JobRow, Owns
    <2>5. BusyHasJob'
      BY <2>1 DEF BusyHasJob, Busy, TypeOK, WorkerState
    <2>6. OwnerMatchesRun'
      BY <1>1, <2>1 DEF OwnerMatchesRun, BusyHasJob, Busy, Owns, TypeOK, JobRow, WorkerState
    <2>7. SeenIsCurrent'
      BY <1>1, <2>1 DEF SeenIsCurrent, BusyHasJob, Busy, Owns, TypeOK, JobRow, WorkerState
    <2>8. LeaseAhead'
      BY <1>1, <1>2, <2>1, <2>2 DEF LeaseAhead, BusyHasJob, Busy, Owns, TypeOK, JobRow, WorkerState
    <2>9. AuditIsPast'
      BY <1>1, <2>1 DEF AuditIsPast, TypeOK, JobRow
    <2>10. CompletedOnce'
      BY <1>1, <2>1 DEF CompletedOnce, TypeOK, JobRow
    <2>11. QueuedIsLeasable'
      BY <1>1, <2>1 DEF QueuedIsLeasable, TypeOK, JobRow
    <2>12. QED
      BY <2>3, <2>4, <2>5, <2>6, <2>7, <2>8, <2>9, <2>10, <2>11
  <1>3. CASE ~(Owns(w, wk[w].job) /\ job[wk[w].job].ttl > 0)
    <2>1. DEFINE new == [wk[w] EXCEPT !.lost = TRUE]
    <2>2. wk' = [wk EXCEPT ![w] = new] /\ job' = job
      BY <1>3 DEF Renew, TypeOK, WorkerState
    <2>3. new \in WorkerState /\ new.lost
      BY <1>1 DEF WorkerState
    <2>4. new.pc = "failwrite" /\ Owns(w, new.job) => new.seen = job[new.job].attempts
      BY <1>1 DEF SeenIsCurrent, WorkerState
    <2>5. /\ new.pc = wk[w].pc /\ new.job = wk[w].job /\ new.attempt = wk[w].attempt
      BY <1>1 DEF WorkerState
    <2>6. QED  BY <1>1, <2>2, <2>3, <2>4, <2>5, WorkerStep
  <1>4. QED
    BY <1>2, <1>3

(* A worker that completes its job owns it, so its attempt is the newest.    *)
LEMMA CompleteInv ==
    ASSUME IInv, NEW w \in Worker, Complete(w)
    PROVE  IInv'
  <1> USE DEF IInv
  <1> DEFINE j == wk[w].job
  <1>1. /\ wk[w].pc = "completing" /\ j \in Job /\ Owns(w, j)
        /\ job' = [job EXCEPT ![j] = Released(@, "completed")]
        /\ audit' = audit \cup {<<j, wk[w].attempt, "completed">>}
        /\ UNCHANGED <<created, recent, spent, clobbered>>
    BY DEF Complete, Event, BusyHasJob, Busy
  <1>2. /\ wk[w].attempt = job[j].attempts /\ job[j].attempts \in Nat /\ job[j].attempts # 0
        /\ wk[w] \in WorkerState
    BY <1>1 DEF OwnerMatchesRun, Busy, Owns, RowShape, TypeOK, JobRow
  <1>3. /\ \A k \in Job \ {j} : job'[k] = job[k]
        /\ job'[j] \in JobRow
        /\ job'[j].state = "completed" /\ job'[j].owner = None /\ job'[j].ttl = 0
        /\ job'[j].attempts = job[j].attempts
    <2>1. job'[j] = [[[job[j] EXCEPT !.state = "completed"] EXCEPT !.owner = None] EXCEPT !.ttl = 0]
      BY <1>1 DEF Released, TypeOK
    <2>2. 0 \in 0..Lease /\ job[j] \in JobRow
      BY <1>1, ConstantsAssumption DEF TypeOK
    <2>3. QED  BY <1>1, <2>1, <2>2 DEF JobRow, JobState, TypeOK
  <1>4. /\ \A v \in Worker \ {w} : wk'[v] = wk[v]
        /\ wk'[w].pc \in {"idle", "failing"}
        /\ wk'[w].pc = "failing" => wk'[w].job = j /\ wk'[w].attempt = wk[w].attempt
        /\ wk' \in [Worker -> WorkerState]
    <2>1. CASE wk' = [wk EXCEPT ![w] = Idle]
      BY <2>1, IdleShape DEF TypeOK, Idle
    <2>2. CASE WorkerGoes(w, "failing")
      BY <1>2, <2>2 DEF WorkerGoes, TypeOK, WorkerState, WorkerPc
    <2>3. QED  BY <2>1, <2>2 DEF Complete
  <1>5. TypeOK'
    <2>1. job' \in [Job -> JobRow]
      BY <1>1, <1>3 DEF TypeOK
    <2>2. QED  BY <1>1, <1>2, <1>4, <2>1 DEF TypeOK
  <1>6. RowShape'
    BY <1>2, <1>3 DEF RowShape
  <1>7. BusyHasJob'
    BY <1>1, <1>4 DEF BusyHasJob, Busy
  <1>8. OwnerMatchesRun'
    BY <1>1, <1>3, <1>4 DEF OwnerMatchesRun, BusyHasJob, Busy, Owns
  <1>9. SeenIsCurrent'
    BY <1>1, <1>3, <1>4 DEF SeenIsCurrent, BusyHasJob, Busy, Owns
  <1>10. LeaseAhead'
    BY <1>1, <1>3, <1>4 DEF LeaseAhead, BusyHasJob, Busy, Owns
  <1>11. AuditIsPast'
    BY <1>1, <1>2, <1>3 DEF AuditIsPast
  <1>12. CompletedOnce'
    <2>1. ASSUME NEW k \in Job \ clobbered, NEW n \in 1..MaxAttempts,
                 <<k, n, "completed">> \in audit'
          PROVE  job'[k].state = "completed" /\ job'[k].attempts = n
      <3>1. CASE k = j
        <4>1. <<k, n, "completed">> \notin audit
          BY <1>1, <3>1 DEF CompletedOnce, Owns
        <4>2. QED  BY <1>1, <1>2, <1>3, <2>1, <3>1, <4>1
      <3>2. CASE k # j
        <4>1. <<k, n, "completed">> \in audit
          BY <1>1, <2>1, <3>2
        <4>2. job[k].state = "completed" /\ job[k].attempts = n
          BY <4>1 DEF CompletedOnce
        <4>3. QED  BY <1>3, <3>2, <4>2
      <3>3. QED  BY <3>1, <3>2
    <2>2. ASSUME NEW k \in Job \ clobbered, job'[k].state = "completed"
          PROVE  <<k, job'[k].attempts, "completed">> \in audit'
      BY <1>1, <1>2, <1>3, <2>2 DEF CompletedOnce
    <2>3. QED  BY <1>1, <2>1, <2>2 DEF CompletedOnce
  <1>13. QueuedIsLeasable'
    BY <1>1, <1>3 DEF QueuedIsLeasable
  <1>14. QED
    BY <1>5, <1>6, <1>7, <1>8, <1>9, <1>10, <1>11, <1>12, <1>13

(* The write of fail_scan_job: of a leased row, or of one it clobbers.       *)
LEMMA FailWritesInv ==
    ASSUME IInv, NEW w \in Worker, FailWrites(w)
    PROVE  IInv'
  <1> USE DEF IInv
  <1> DEFINE j == wk[w].job
             state == AfterFailure(wk[w].seen)
  <1>1. /\ wk[w].pc = "failwrite" /\ j \in Job /\ wk[w] \in WorkerState /\ job[j] \in JobRow
        /\ job' = [job EXCEPT ![j] = Released(@, state)]
        /\ audit' = audit \cup {<<j, wk[w].attempt, "failed">>}
        /\ clobbered' = IF Owns(w, j) THEN clobbered ELSE clobbered \cup {j}
        /\ wk' = [wk EXCEPT ![w] = Idle]
        /\ UNCHANGED <<created, recent, spent>>
    BY DEF FailWrites, Event, BusyHasJob, Busy, TypeOK
  <1>2. j \notin clobbered' => Owns(w, j) /\ wk[w].seen = job[j].attempts
    BY <1>1 DEF SeenIsCurrent
  <1>3. state \in {"queued", "failed"} /\ (state = "queued" => ~(wk[w].seen >= MaxAttempts))
    BY DEF AfterFailure
  <1> HIDE DEF state
  <1>4. /\ \A k \in Job \ {j} : job'[k] = job[k]
        /\ job'[j] \in JobRow
        /\ job'[j].state = state /\ job'[j].owner = None /\ job'[j].ttl = 0
        /\ job'[j].attempts = job[j].attempts
    <2>1. job'[j] = [[[job[j] EXCEPT !.state = state] EXCEPT !.owner = None] EXCEPT !.ttl = 0]
      BY <1>1 DEF Released, TypeOK
    <2>2. 0 \in 0..Lease
      BY ConstantsAssumption
    <2>3. QED  BY <1>1, <1>3, <2>1, <2>2 DEF JobRow, JobState, TypeOK
  <1>5. /\ \A v \in Worker \ {w} : wk'[v] = wk[v]
        /\ wk'[w].pc = "idle"
        /\ wk' \in [Worker -> WorkerState]
    BY <1>1, IdleShape DEF TypeOK, Idle
  <1>6. \A k \in Job, n \in Nat : <<k, n, "completed">> \in audit' <=> <<k, n, "completed">> \in audit
    BY <1>1
  <1>7. TypeOK'
    <2>1. job' \in [Job -> JobRow]
      BY <1>1, <1>4 DEF TypeOK
    <2>2. audit' \subseteq Job \X Nat \X {"completed", "failed"}
      BY <1>1 DEF TypeOK, WorkerState
    <2>3. QED  BY <1>1, <1>5, <2>1, <2>2 DEF TypeOK
  <1>8. RowShape'
    BY <1>3, <1>4 DEF RowShape
  <1>9. BusyHasJob'
    BY <1>5 DEF BusyHasJob, Busy
  <1>10. OwnerMatchesRun'
    BY <1>3, <1>4, <1>5 DEF OwnerMatchesRun, BusyHasJob, Busy, Owns
  <1>11. SeenIsCurrent'
    BY <1>3, <1>4, <1>5 DEF SeenIsCurrent, BusyHasJob, Busy, Owns
  <1>12. LeaseAhead'
    <2>1. ASSUME NEW v \in Worker \ {w}, wk[v].pc \in {"running", "completing"},
                 ~wk[v].lost, ~wk[v].late, wk[v].job \notin clobbered'
          PROVE  Owns(v, wk[v].job)' /\ job'[wk[v].job].ttl > wk[v].due
      <3>1. wk[v].job \in Job /\ Owns(v, wk[v].job) /\ job[wk[v].job].ttl > wk[v].due
        BY <1>1, <2>1 DEF LeaseAhead, BusyHasJob, Busy
      <3>2. wk[v].job # j
        BY <1>2, <2>1, <3>1 DEF Owns
      <3>3. QED  BY <1>4, <1>5, <3>1, <3>2 DEF Owns
    <2>2. QED  BY <1>5, <2>1 DEF LeaseAhead, Owns
  <1>13. AuditIsPast'
    BY <1>4, <1>6 DEF AuditIsPast
  <1>14. CompletedOnce'
    <2>1. ASSUME NEW k \in Job \ clobbered'
          PROVE  k \in Job \ clobbered /\ (\/ job'[k] = job[k]
                                           \/ job'[k].state # "completed" /\ job[k].state # "completed")
      BY <1>1, <1>2, <1>3, <1>4 DEF Owns
    <2>2. \A k \in Job \ clobbered, n \in 1..MaxAttempts : <<k, n, "completed">> \in audit' =>
             job[k].state = "completed" /\ job[k].attempts = n
      <3>1. ASSUME NEW k \in Job \ clobbered, NEW n \in 1..MaxAttempts, <<k, n, "completed">> \in audit'
            PROVE  job[k].state = "completed" /\ job[k].attempts = n
        <4>1. n \in Nat
          BY ConstantsAssumption
        <4>2. <<k, n, "completed">> \in audit
          BY <1>6, <3>1, <4>1
        <4>3. QED  BY <4>2 DEF CompletedOnce
      <3>2. QED  BY <3>1
    <2>3. ASSUME NEW k \in Job \ clobbered', job'[k].state = "completed"
          PROVE  <<k, job'[k].attempts, "completed">> \in audit'
      BY <1>1, <2>1, <2>3 DEF CompletedOnce
    <2>4. QED  BY <2>1, <2>2, <2>3 DEF CompletedOnce
  <1>15. QueuedIsLeasable'
    BY <1>1, <1>2, <1>3, <1>4, ConstantsAssumption DEF QueuedIsLeasable, JobRow
  <1>16. QED
    BY <1>7, <1>8, <1>9, <1>10, <1>11, <1>12, <1>13, <1>14, <1>15

(* A tick takes from a lease no more than from its next heartbeat.           *)
LEMMA TickInv ==
    ASSUME IInv, Tick
    PROVE  IInv'
  <1> USE DEF IInv
  <1>1. /\ job' = [j \in Job |-> [job[j] EXCEPT !.ttl = Down(@)]]
        /\ UNCHANGED <<created, recent, spent, audit, clobbered>>
    BY DEF Tick
  <1>2. ASSUME NEW j \in Job
        PROVE  /\ job'[j] \in JobRow
               /\ job'[j].state = job[j].state /\ job'[j].owner = job[j].owner
               /\ job'[j].attempts = job[j].attempts /\ job'[j].ttl = Down(job[j].ttl)
    <2>1. job[j] \in JobRow /\ job'[j] = [job[j] EXCEPT !.ttl = Down(job[j].ttl)]
      BY <1>1 DEF TypeOK
    <2>2. Down(job[j].ttl) \in 0..Lease
      BY <2>1, ConstantsAssumption DEF Down, JobRow
    <2>3. QED  BY <2>1, <2>2 DEF JobRow
  <1>3. ASSUME NEW w \in Worker
        PROVE  /\ wk'[w] \in WorkerState
               /\ wk'[w].pc = wk[w].pc /\ wk'[w].job = wk[w].job /\ wk'[w].attempt = wk[w].attempt
               /\ wk'[w].seen = wk[w].seen /\ wk'[w].lost = wk[w].lost
               /\ Busy(w) /\ ~wk'[w].late => /\ ~wk[w].late /\ wk[w].due # 0
                                             /\ wk'[w].due = wk[w].due - 1
    <2>1. CASE Busy(w)
      <3>1. /\ wk[w] \in WorkerState
            /\ wk'[w] = [[wk[w] EXCEPT !.due = Down(wk[w].due)]
                                EXCEPT !.late = wk[w].late \/ wk[w].due = 0]
        BY <2>1 DEF Tick, TypeOK
      <3>2. Down(wk[w].due) \in 0..Heartbeat /\ (wk[w].due # 0 => Down(wk[w].due) = wk[w].due - 1)
        BY <3>1, ConstantsAssumption DEF Down, WorkerState
      <3>3. QED  BY <3>1, <3>2 DEF WorkerState
    <2>2. CASE ~Busy(w)
      BY <2>2 DEF Tick, TypeOK
    <2>3. QED  BY <2>1, <2>2
  <1>4. TypeOK'
    <2>1. job' \in [Job -> JobRow]
      BY <1>1, <1>2
    <2>2. wk' \in [Worker -> WorkerState]
      <3>1. wk' = [w \in Worker |-> wk'[w]]
        BY DEF Tick
      <3>2. QED  BY <1>3, <3>1
    <2>3. QED  BY <1>1, <2>1, <2>2 DEF TypeOK
  <1>5. RowShape'
    BY <1>2, ConstantsAssumption DEF RowShape, Down
  <1>6. BusyHasJob'
    BY <1>3 DEF BusyHasJob, Busy
  <1>7. OwnerMatchesRun'
    BY <1>2, <1>3 DEF OwnerMatchesRun, BusyHasJob, Busy, Owns
  <1>8. SeenIsCurrent'
    BY <1>2, <1>3 DEF SeenIsCurrent, BusyHasJob, Busy, Owns
  <1>9. LeaseAhead'
    <2>1. ASSUME NEW w \in Worker, wk[w].pc \in {"running", "completing"},
                 ~wk[w].lost, ~wk'[w].late, wk[w].job \notin clobbered
          PROVE  Owns(w, wk[w].job)' /\ job'[wk[w].job].ttl > wk'[w].due
      <3>1. /\ Busy(w) /\ wk[w].job \in Job
            /\ ~wk[w].late /\ wk'[w].due = wk[w].due - 1 /\ wk[w].due \in 0..Heartbeat
        BY <1>3, <2>1 DEF Busy, BusyHasJob, TypeOK, WorkerState
      <3>2. Owns(w, wk[w].job) /\ job[wk[w].job].ttl > wk[w].due /\ job[wk[w].job].ttl \in 0..Lease
        BY <2>1, <3>1 DEF LeaseAhead, TypeOK, JobRow
      <3>3. Down(job[wk[w].job].ttl) > wk[w].due - 1
        BY <3>1, <3>2, ConstantsAssumption DEF Down
      <3>4. QED  BY <1>2, <1>3, <3>1, <3>2, <3>3 DEF Owns
    <2>2. QED  BY <1>1, <1>3, <2>1 DEF LeaseAhead, Owns
  <1>10. AuditIsPast'
    BY <1>1, <1>2 DEF AuditIsPast
  <1>11. CompletedOnce'
    BY <1>1, <1>2 DEF CompletedOnce
  <1>12. QueuedIsLeasable'
    BY <1>1, <1>2 DEF QueuedIsLeasable
  <1>13. QED
    BY <1>4, <1>5, <1>6, <1>7, <1>8, <1>9, <1>10, <1>11, <1>12

(* Every action keeps the invariant.                                         *)
LEMMA StepInv ==
    ASSUME IInv, [Next]_vars
    PROVE  IInv'
  <1>1. ASSUME NEW w \in Worker, Run(w) \/ Beat(w) \/ Crash(w)
        PROVE  IInv'
    BY <1>1, WorkerOnly, CompleteInv, FailWritesInv, RenewInv DEF Run, Beat
  <1>2. ASSUME /\ spent' \in 0..CostLimit /\ recent' \subseteq recent
               /\ UNCHANGED <<job, created, wk, audit, clobbered>>
        PROVE  IInv'
    BY <1>2 DEF IInv, TypeOK, RowShape, BusyHasJob, OwnerMatchesRun, SeenIsCurrent, LeaseAhead,
                AuditIsPast, CompletedOnce, QueuedIsLeasable, Busy, Owns
  <1>3. ASSUME NEW w \in Worker, RecordUsage(w)  PROVE IInv'
    <2>1. spent' \in 0..CostLimit
      BY <1>3, ConstantsAssumption DEF RecordUsage, IInv, TypeOK
    <2>2. QED  BY <1>2, <1>3, <2>1 DEF RecordUsage
  <1>4. CASE DayPasses
    BY <1>2, <1>4 DEF DayPasses, IInv, TypeOK
  <1>5. CASE MonthBegins
    BY <1>2, <1>5, ConstantsAssumption DEF MonthBegins
  <1>6. CASE UNCHANGED vars
    BY <1>2, <1>6 DEF vars, IInv, TypeOK
  <1>7. QED
    BY <1>1, <1>3, <1>4, <1>5, <1>6, EnqueueInv, TakeInv, SweepInv, TickInv DEF Next, Poll

(* IInv is an invariant of the specification.                                *)
LEMMA Invariance == Spec => []IInv
  BY InitInv, StepInv, PTL DEF Spec

(* Rows and workers keep their shape.                                        *)
THEOREM TypeCorrect == Spec => []TypeOK
  BY Invariance, PTL DEF IInv

(* A reused worker identity never reports for an older attempt: complete,    *)
(* fail and renew need not compare attempt_count.                            *)
THEOREM OwnerIsNewest == Spec => []OwnerMatchesRun
  BY Invariance, PTL DEF IInv

(* A heartbeat interval below lease_seconds suffices for a punctual worker.  *)
THEOREM HeartbeatSuffices == Spec => []PunctualKeepsLease
  <1>1. IInv => PunctualKeepsLease
    <2> SUFFICES ASSUME IInv, NEW w \in Worker, wk[w].pc \in {"running", "completing"},
                        ~wk[w].lost, ~wk[w].late, wk[w].job \notin clobbered
                 PROVE  Owns(w, wk[w].job) /\ job[wk[w].job].ttl > 0
      BY DEF PunctualKeepsLease
    <2>1. wk[w].job \in Job /\ wk[w].due \in 0..Heartbeat
      BY DEF IInv, BusyHasJob, Busy, TypeOK, WorkerState
    <2>2. job[wk[w].job].ttl \in 0..Lease
      BY <2>1 DEF IInv, TypeOK, JobRow
    <2>3. Owns(w, wk[w].job) /\ job[wk[w].job].ttl > wk[w].due
      BY DEF IInv, LeaseAhead
    <2>4. QED  BY <2>1, <2>2, <2>3, ConstantsAssumption
  <1>2. QED
    BY <1>1, Invariance, PTL

(* A job is completed once, with its audit event, and stays completed.       *)
THEOREM CompletesOnce == Spec => []CompletedOnce
  BY Invariance, PTL DEF IInv

(* A job in the queue has attempts left.                                     *)
THEOREM NothingStranded == Spec => []QueuedIsLeasable
  BY Invariance, PTL DEF IInv

--------------------------------------------------------------------------------
(* What a step does to one row: the cases that the step properties need.     *)
RowLeased(j) ==
    /\ job[j].state \in {"queued", "leased"} /\ job[j].ttl = 0
    /\ job'[j].state = "leased" /\ job'[j].owner \in Worker
    /\ job'[j].attempts = job[j].attempts + 1
    /\ audit' = audit /\ clobbered' = clobbered

RowCompleted(j) ==
    /\ job[j].state = "leased"
    /\ job'[j].owner = None
    /\ job'[j].attempts = job[j].attempts
    /\ audit' = audit \cup {<<j, job[j].attempts, "completed">>}

RowReleased(j) ==
    /\ job[j].state = "leased" \/ j \in clobbered'
    /\ job'[j].owner = None
    /\ job'[j].attempts = job[j].attempts

RowKept(j) ==
    /\ job'[j].state = job[j].state \/ job[j].state = "absent"
    /\ job'[j].owner = job[j].owner
    /\ job'[j].attempts = job[j].attempts

(* No event about the completion of j is written.                            *)
NotAudited(j) ==
    \A k \in Nat : <<j, k, "completed">> \in audit' <=> <<j, k, "completed">> \in audit

(* Each step leases, completes, releases or keeps the row of j.              *)
LEMMA RowSteps ==
    ASSUME IInv, [Next]_vars, NEW j \in Job
    PROVE  \/ RowLeased(j)
           \/ RowCompleted(j)
           \/ NotAudited(j) /\ (RowReleased(j) \/ RowKept(j))
  <1> USE DEF IInv, NotAudited
  <1>1. ASSUME NEW k \in Job, Enqueue(k)  PROVE RowKept(j) /\ audit' = audit
    BY <1>1 DEF Enqueue, RowKept, TypeOK, JobRow
  <1>2. ASSUME NEW w \in Worker, PollTakes(w)
        PROVE  RowLeased(j) \/ (audit' = audit /\ (RowReleased(j) \/ RowKept(j)))
    <2>1. PICK k \in Job : Candidate(k) /\ job' = [Swept EXCEPT ![k] = LeasedTo(w, k)]
      BY <1>2 DEF PollTakes
    <2>2. Swept \in [Job -> JobRow] /\ (SweepLeaves(j) \/ SweepFails(j))
      BY SweptRows
    <2>3. audit' = audit /\ clobbered' = clobbered
      BY <1>2 DEF PollTakes
    <2>4. CASE j = k
      BY <2>1, <2>2, <2>3, <2>4 DEF LeasedTo, Candidate, Eligible, RowLeased
    <2>5. CASE j # k
      BY <2>1, <2>2, <2>3, <2>5 DEF SweepLeaves, SweepFails, RowReleased, RowKept
    <2>6. QED  BY <2>4, <2>5
  <1>3. ASSUME NEW w \in Worker, PollSweeps(w)
        PROVE  audit' = audit /\ (RowReleased(j) \/ RowKept(j))
    BY <1>3, SweptRows DEF PollSweeps, SweepLeaves, SweepFails, RowReleased, RowKept
  <1>4. ASSUME NEW w \in Worker, Renew(w)  PROVE RowKept(j) /\ audit' = audit
    BY <1>4 DEF Renew, RowKept, TypeOK, JobRow
  <1>5. ASSUME NEW w \in Worker, Complete(w)  PROVE RowCompleted(j) \/ (NotAudited(j) /\ RowKept(j))
    <2>1. /\ wk[w].job \in Job /\ Owns(w, wk[w].job)
          /\ wk[w].attempt = job[wk[w].job].attempts
          /\ job' = [job EXCEPT ![wk[w].job] = Released(@, "completed")]
          /\ audit' = audit \cup {<<wk[w].job, wk[w].attempt, "completed">>}
      BY <1>5 DEF Complete, Event, BusyHasJob, Busy, OwnerMatchesRun
    <2>2. CASE j = wk[w].job
      BY <2>1, <2>2 DEF Released, RowCompleted, Owns, TypeOK, JobRow
    <2>3. CASE j # wk[w].job
      BY <2>1, <2>3 DEF RowKept, TypeOK
    <2>4. QED  BY <2>2, <2>3
  <1>6. ASSUME NEW w \in Worker, FailWrites(w)  PROVE NotAudited(j) /\ (RowReleased(j) \/ RowKept(j))
    <2>1. /\ wk[w].job \in Job
          /\ job' = [job EXCEPT ![wk[w].job] = Released(@, AfterFailure(wk[w].seen))]
          /\ audit' = audit \cup {<<wk[w].job, wk[w].attempt, "failed">>}
          /\ Owns(w, wk[w].job) \/ wk[w].job \in clobbered'
      BY <1>6 DEF FailWrites, Event, BusyHasJob, Busy
    <2>2. CASE j = wk[w].job
      BY <2>1, <2>2 DEF Released, RowReleased, Owns, TypeOK, JobRow
    <2>3. CASE j # wk[w].job
      BY <2>1, <2>3 DEF RowKept, TypeOK
    <2>4. QED  BY <2>1, <2>2, <2>3
  <1>7. ASSUME NEW w \in Worker, FailReads(w)  PROVE NotAudited(j) /\ job' = job
    BY <1>7 DEF FailReads, Event
  <1>8. CASE Tick
    BY <1>8 DEF Tick, RowKept, TypeOK, JobRow
  <1>9. ASSUME UNCHANGED <<job, audit>>  PROVE NotAudited(j) /\ RowKept(j)
    BY <1>9 DEF RowKept
  <1>10. ASSUME NEW w \in Worker,
                \/ HeartbeatRaises(w) \/ ExecutorReturns(w) \/ ExecutorRaises(w) \/ CompleteFails(w)
                \/ FailErrs(w) \/ Crash(w) \/ Restart(w) \/ RecordUsage(w)
         PROVE  UNCHANGED <<job, audit>>
    BY <1>10 DEF HeartbeatRaises, ExecutorReturns, ExecutorRaises, CompleteFails, FailErrs, Crash,
                 Restart, RecordUsage
  <1>11. DayPasses \/ MonthBegins \/ UNCHANGED vars => UNCHANGED <<job, audit>>
    BY DEF DayPasses, MonthBegins, vars
  <1>12. QED
    BY <1>1, <1>2, <1>3, <1>4, <1>5, <1>6, <1>7, <1>8, <1>9, <1>10, <1>11
    DEF Next, Poll, Run, Beat, RowKept

(* A completed or failed job changes only by a stale fail_scan_job.          *)
THEOREM EndedIsFinal == Spec => TerminalIsFinal
  <1>1. ASSUME IInv, [Next]_vars, NEW j \in Job, Terminal(j), job'[j].state # job[j].state
        PROVE  j \in clobbered'
    BY <1>1, RowSteps DEF Terminal, RowLeased, RowCompleted, RowReleased, RowKept
  <1>2. IInv /\ [Next]_vars =>
           [\A j \in Job : Terminal(j) /\ job'[j].state # job[j].state => j \in clobbered']_vars
    BY <1>1
  <1>3. QED
    BY <1>2, Invariance, PTL DEF Spec, TerminalIsFinal

(* Every job implements the fenced lease: each lease is a new epoch, and     *)
(* only the newest one is ever published, by the worker that holds it.       *)
THEOREM Refinement == Spec => JobsAreFencedLeases
  <1>1. Init => \A j \in Job : Fenced(j)!Init
    BY DEF Init, Fenced!Init
  <1>2. ASSUME IInv, [Next]_vars, NEW j \in Job
        PROVE  [Fenced(j)!Next]_(Fenced(j)!vars)
    <2> DEFINE Published(log, n) == {k \in 1..n : <<j, k, "completed">> \in log}
    <2>1. /\ job[j].attempts \in Nat
          /\ \A k \in Nat : <<j, k, "completed">> \in audit => k # 0 /\ k <= job[j].attempts
      BY <1>2 DEF IInv, AuditIsPast, TypeOK, JobRow
    <2>2. CASE RowLeased(j)
      <3>1. Published(audit', job'[j].attempts) = Published(audit, job[j].attempts)
        BY <2>1, <2>2 DEF RowLeased
      <3>2. PICK w \in Worker : job'[j].owner = w
        BY <2>2 DEF RowLeased
      <3>3. Fenced(j)!Grant(w)
        BY <2>2, <3>1, <3>2 DEF RowLeased, Fenced!Grant
      <3>4. QED  BY <3>3 DEF Fenced!Next
    <2>3. CASE RowCompleted(j)
      <3>1. job[j].owner \in Worker /\ job[j].attempts # 0
        BY <1>2, <2>3 DEF RowCompleted, IInv, RowShape
      <3>2. Published(audit', job'[j].attempts) = Published(audit, job[j].attempts) \cup {job[j].attempts}
        BY <2>1, <2>3, <3>1 DEF RowCompleted
      <3>3. Fenced(j)!Publish
        BY <2>3, <3>1, <3>2 DEF RowCompleted, Fenced!Publish
      <3>4. QED  BY <3>3 DEF Fenced!Next
    <2>4. CASE NotAudited(j) /\ RowReleased(j)
      <3>1. Published(audit', job'[j].attempts) = Published(audit, job[j].attempts)
        BY <2>1, <2>4 DEF NotAudited, RowReleased
      <3>2. Fenced(j)!Revoke
        BY <2>4, <3>1 DEF RowReleased, Fenced!Revoke
      <3>3. QED  BY <3>2 DEF Fenced!Next
    <2>5. CASE NotAudited(j) /\ RowKept(j)
      <3>1. Published(audit', job'[j].attempts) = Published(audit, job[j].attempts)
        BY <2>1, <2>5 DEF NotAudited, RowKept
      <3>2. QED  BY <2>5, <3>1 DEF RowKept, Fenced!vars
    <2>6. QED
      BY <1>2, <2>2, <2>3, <2>4, <2>5, RowSteps
  <1>3. IInv /\ [Next]_vars => [\A j \in Job : [Fenced(j)!Next]_(Fenced(j)!vars)]_vars
    BY <1>2
  <1>4. QED
    BY <1>1, <1>3, Invariance, PTL DEF Spec, JobsAreFencedLeases

--------------------------------------------------------------------------------
(* A lease becomes active only when a poll grants it; a renewal needs one    *)
(* that still is.                                                            *)
LEMMA ActiveStep ==
    ASSUME IInv, [Next]_vars
    PROVE  \/ Active' \subseteq Active
           \/ /\ Cardinality(Active) < MaxConcurrent
              /\ \E j \in Job : Active' \subseteq Active \cup {j}
  <1> USE DEF IInv, Active
  <1>1. ASSUME NEW k \in Job, Enqueue(k)  PROVE Active' \subseteq Active
    BY <1>1 DEF Enqueue, TypeOK, JobRow
  <1>2. ASSUME NEW w \in Worker, PollTakes(w)
        PROVE  /\ Cardinality(Active) < MaxConcurrent
               /\ \E j \in Job : Active' \subseteq Active \cup {j}
    <2>1. PICK k \in Job : job' = [Swept EXCEPT ![k] = LeasedTo(w, k)]
      BY <1>2 DEF PollTakes
    <2>2. Swept \in [Job -> JobRow] /\ \A j \in Job : SweepLeaves(j) \/ SweepFails(j)
      BY SweptRows
    <2>3. \A j \in Job \ {k} : job'[j] = job[j] \/ job'[j].state = "failed"
      BY <2>1, <2>2 DEF SweepLeaves, SweepFails
    <2>4. QED  BY <1>2, <2>3 DEF PollTakes, QuotaAllows
  <1>3. ASSUME NEW w \in Worker, PollSweeps(w)  PROVE Active' \subseteq Active
    BY <1>3, SweptRows DEF PollSweeps, SweepLeaves, SweepFails
  <1>4. ASSUME NEW w \in Worker, Renew(w)  PROVE Active' \subseteq Active
    <2>1. CASE Owns(w, wk[w].job) /\ job[wk[w].job].ttl > 0
      BY <1>4, <2>1 DEF Renew, Owns, BusyHasJob, Busy, TypeOK, JobRow
    <2>2. CASE ~(Owns(w, wk[w].job) /\ job[wk[w].job].ttl > 0)
      BY <1>4, <2>2 DEF Renew
    <2>3. QED  BY <2>1, <2>2
  <1>5. ASSUME NEW w \in Worker, NEW r \in {"completed", "queued", "failed"}, NEW k \in Job,
               job' = [job EXCEPT ![k] = Released(@, r)]
        PROVE  Active' \subseteq Active
    BY <1>5 DEF Released, TypeOK, JobRow
  <1>6. ASSUME NEW w \in Worker, Complete(w) \/ FailWrites(w)  PROVE Active' \subseteq Active
    BY <1>5, <1>6 DEF Complete, FailWrites, AfterFailure, BusyHasJob, Busy
  <1>7. CASE Tick
    <2>1. ASSUME NEW j \in Job  PROVE job'[j].state = job[j].state /\ job'[j].ttl = Down(job[j].ttl)
      BY <1>7 DEF Tick, TypeOK, JobRow
    <2>2. ASSUME NEW j \in Job, Down(job[j].ttl) > 0  PROVE job[j].ttl > 0
      BY <2>2 DEF Down
    <2>3. QED  BY <2>1, <2>2
  <1>8. ASSUME NEW w \in Worker,
               \/ HeartbeatRaises(w) \/ ExecutorReturns(w) \/ ExecutorRaises(w) \/ CompleteFails(w)
               \/ FailReads(w) \/ FailErrs(w) \/ Crash(w) \/ Restart(w) \/ RecordUsage(w)
        PROVE  Active' \subseteq Active
    BY <1>8 DEF HeartbeatRaises, ExecutorReturns, ExecutorRaises, CompleteFails, FailReads, FailErrs,
                Crash, Restart, RecordUsage
  <1>9. DayPasses \/ MonthBegins \/ UNCHANGED vars => Active' \subseteq Active
    BY DEF DayPasses, MonthBegins, vars
  <1>10. QED
    BY <1>1, <1>2, <1>3, <1>4, <1>6, <1>7, <1>8, <1>9 DEF Next, Poll, Run, Beat

(* maximum_concurrent_jobs caps the unexpired leases of a tenant.            *)
THEOREM LeasesCapped == Spec => []ActiveLeasesCapped
  <1>1. Init => ActiveLeasesCapped
    <2> SUFFICES ASSUME Init  PROVE ActiveLeasesCapped
      OBVIOUS
    <2>1. Active = {}
      BY DEF Init, Active
    <2>2. QED  BY <2>1, FS_EmptySet, ConstantsAssumption DEF ActiveLeasesCapped
  <1>2. ASSUME IInv, [Next]_vars, ActiveLeasesCapped  PROVE ActiveLeasesCapped'
    <2>1. IsFiniteSet(Active) /\ Cardinality(Active) \in Nat
      BY FS_Subset, FS_CardinalityType, ConstantsAssumption DEF Active
    <2>2. CASE Active' \subseteq Active
      BY <1>2, <2>1, <2>2, FS_Subset, FS_CardinalityType, ConstantsAssumption DEF ActiveLeasesCapped
    <2>3. ASSUME Cardinality(Active) < MaxConcurrent,
                 NEW j \in Job, Active' \subseteq Active \cup {j}
          PROVE  ActiveLeasesCapped'
      <3>1. IsFiniteSet(Active \cup {j}) /\ Cardinality(Active \cup {j}) <= Cardinality(Active) + 1
        <4>1. IsFiniteSet(Active \cup {j}) /\ (j \in Active => Active \cup {j} = Active)
          BY <2>1, FS_AddElement
        <4>2. QED  BY <2>1, <4>1, FS_AddElement
      <3>2. Cardinality(Active') <= Cardinality(Active \cup {j}) /\ IsFiniteSet(Active')
        BY <2>3, <3>1, FS_Subset
      <3>3. Cardinality(Active') \in Nat /\ Cardinality(Active \cup {j}) \in Nat
        BY <3>1, <3>2, FS_CardinalityType
      <3>4. QED  BY <2>1, <2>3, <3>1, <3>2, <3>3, ConstantsAssumption DEF ActiveLeasesCapped
    <2>4. QED
      BY <1>2, <2>2, <2>3, ActiveStep
  <1>3. QED
    BY <1>1, <1>2, Invariance, PTL DEF Spec

================================================================================
