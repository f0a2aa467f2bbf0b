-------------------------------- MODULE ScanJobs --------------------------------
(*****************************************************************************)
(* The scan-job queue of one tenant (plaidnox_sast/persistence/repositories) *)
(* and the workers that lease from it (plaidnox_sast/worker.py, cli.py).     *)
(*                                                                           *)
(* A worker polls (lease_next_scan_job), runs the scanner while a heartbeat  *)
(* thread renews the lease, and completes or fails the job; the audit event  *)
(* is written in the same transaction.  A worker's identity is stable across *)
(* restarts, so a lease owner names a worker, not a run of it.               *)
(*                                                                           *)
(* A transaction is one step, with one exception: fail_scan_job reads the row*)
(* with a plain SELECT and writes it by primary key, so under READ COMMITTED *)
(* other transactions commit between the two; they are two actions.          *)
(*                                                                           *)
(* Time is kept in countdowns, in ticks: the rest of a lease and the time to *)
(* a worker's next heartbeat.  A countdown at 0 has run out.                 *)
(*****************************************************************************)
EXTENDS Integers, FiniteSets

CONSTANTS
    Job,            \* request keys: enqueueing one twice returns the same job
    Worker,         \* worker identities (PLAIDNOX_WORKER_ID)
    None,           \* no lease owner, no job
    Priority,       \* the priority of each job, lower first
    MaxAttempts,    \* maximum_attempts
    MaxConcurrent,  \* maximum_concurrent_jobs
    MaxDaily,       \* maximum_daily_jobs
    CostLimit,      \* maximum_monthly_model_cost_usd, in units of one scan's cost
    Lease,          \* lease_seconds, in ticks
    Heartbeat       \* heartbeat_seconds, in ticks

ASSUME ConstantsAssumption ==
    /\ IsFiniteSet(Job)
    /\ None \notin Worker \cup Job
    /\ Priority \in [Job -> Nat]
    /\ MaxAttempts \in Nat \ {0}
    /\ MaxConcurrent \in Nat \ {0}
    /\ MaxDaily \in Nat \ {0}
    /\ CostLimit \in Nat \ {0}
    /\ Lease \in Nat \ {0}
    /\ Heartbeat \in Nat \ {0}

(* ScanWorker.__init__ refuses any other configuration.                      *)
ASSUME HeartbeatAssumption == Heartbeat < Lease

VARIABLES
    job,        \* the scan_jobs rows
    created,    \* their created_at order; 0 before the INSERT
    recent,     \* the jobs created within the last day
    spent,      \* this month's recorded model cost, saturated at the limit
    wk,         \* the worker processes
    audit,      \* audit events: job, attempt and outcome
    clobbered   \* history: jobs whose row a stale fail_scan_job overwrote

vars == <<job, created, recent, spent, wk, audit, clobbered>>

--------------------------------------------------------------------------------
JobState == {"absent", "queued", "leased", "completed", "failed"}
JobRow == [state: JobState, owner: Worker \cup {None}, ttl: 0..Lease, attempts: Nat]

WorkerPc == {"idle", "running", "completing", "failing", "failwrite", "down"}
WorkerState ==
    [pc: WorkerPc, job: Job \cup {None}, attempt: Nat, seen: Nat,
     lost: BOOLEAN, due: 0..Heartbeat, late: BOOLEAN]

Idle == [pc |-> "idle", job |-> None, attempt |-> 0, seen |-> 0,
         lost |-> FALSE, due |-> Heartbeat, late |-> FALSE]

Init ==
    /\ job = [j \in Job |-> [state |-> "absent", owner |-> None, ttl |-> 0, attempts |-> 0]]
    /\ created = [j \in Job |-> 0]
    /\ recent = {}
    /\ spent = 0
    /\ wk = [w \in Worker |-> Idle]
    /\ audit = {}
    /\ clobbered = {}

(* A row whose lease ends in the given state.                                *)
Released(r, state) == [r EXCEPT !.state = state, !.owner = None, !.ttl = 0]

Terminal(j) == job[j].state \in {"completed", "failed"}

(* Mutant: the lease owner is not compared.                                  *)
OwnsWithoutOwner(w, j) == job[j].state = "leased"

(* The WHERE clause of complete_scan_job and fail_scan_job.                  *)
Owns(w, j) == job[j].state = "leased" /\ job[j].owner = w

Active == {j \in Job : job[j].state = "leased" /\ job[j].ttl > 0}

--------------------------------------------------------------------------------
(* enqueue_scan_job; a known request key returns its job and changes nothing.*)
Enqueue(j) ==
    /\ job[j].state = "absent"
    /\ spent < CostLimit
    /\ Cardinality(recent) < MaxDaily
    /\ job' = [job EXCEPT ![j].state = "queued"]
    /\ created' = [created EXCEPT ![j] = 1 + Cardinality({k \in Job : created[k] # 0})]
    /\ recent' = recent \cup {j}
    /\ UNCHANGED <<spent, wk, audit, clobbered>>

--------------------------------------------------------------------------------
(* lease_next_scan_job                                                       *)

(* Mutant: the sweep is missing.                                             *)
NothingExhausted == {}

(* Died on the final attempt: swept to failed by the next poll, even when the*)
(* quota then refuses the lease.                                             *)
Exhausted ==
    {j \in Job : job[j].state = "leased" /\ job[j].ttl = 0 /\ job[j].attempts >= MaxAttempts}

Swept == [j \in Job |-> IF j \in Exhausted THEN Released(job[j], "failed") ELSE job[j]]

Eligible ==
    {j \in Job : /\ job[j].state \in {"queued", "leased"}
                 /\ job[j].attempts < MaxAttempts
                 /\ job[j].ttl = 0}

Before(j, k) ==
    \/ Priority[j] < Priority[k]
    \/ Priority[j] = Priority[k] /\ created[j] <= created[k]

(* Mutant: the concurrency limit is off by one.                              *)
QuotaAllowsOneMore == spent < CostLimit /\ Cardinality(Active) <= MaxConcurrent

QuotaAllows == spent < CostLimit /\ Cardinality(Active) < MaxConcurrent

Candidate(j) == j \in Eligible /\ \A k \in Eligible : Before(j, k)

(* Mutants: a lease as short as the heartbeat; a reclaimed lease that is not *)
(* a new attempt.                                                            *)
LeasedTooShort(w, j) ==
    [state |-> "leased", owner |-> w, ttl |-> Heartbeat, attempts |-> job[j].attempts + 1]
LeasedSameAttempt(w, j) ==
    [state |-> "leased", owner |-> w, ttl |-> Lease,
     attempts |-> IF job[j].attempts = 0 THEN 1 ELSE job[j].attempts]

LeasedTo(w, j) ==
    [state |-> "leased", owner |-> w, ttl |-> Lease, attempts |-> job[j].attempts + 1]

Started(w, j) ==
    [Idle EXCEPT !.pc = "running", !.job = j, !.attempt = job[j].attempts + 1]

(* The lease is committed; if its acknowledgement is lost, run_once raises   *)
(* and the worker does not know that it holds the job.                       *)
PollTakes(w) ==
    /\ wk[w].pc = "idle"
    /\ QuotaAllows
    /\ \E j \in Job :
          /\ Candidate(j)
          /\ job' = [Swept EXCEPT ![j] = LeasedTo(w, j)]
          /\ wk' = [wk EXCEPT ![w] = Started(w, j)] \/ UNCHANGED wk
    /\ UNCHANGED <<created, recent, spent, audit, clobbered>>

PollSweeps(w) ==
    /\ wk[w].pc = "idle"
    /\ ~QuotaAllows \/ Eligible = {}
    /\ Exhausted # {}
    /\ job' = Swept
    /\ UNCHANGED <<created, recent, spent, wk, audit, clobbered>>

--------------------------------------------------------------------------------
(* ScanWorker.run_once and _LeaseHeartbeat                                   *)

Busy(w) == wk[w].pc \in {"running", "completing", "failing", "failwrite"}

WorkerGoes(w, next) == wk' = [wk EXCEPT ![w].pc = next]

(* renew_scan_job_lease succeeds only on an unexpired lease of this owner.   *)
Renew(w) ==
    /\ Busy(w) /\ ~wk[w].lost
    /\ LET j == wk[w].job IN
          IF Owns(w, j) /\ job[j].ttl > 0
          THEN /\ job' = [job EXCEPT ![j].ttl = Lease]
               /\ wk' = [wk EXCEPT ![w].due = Heartbeat, ![w].late = FALSE]
          ELSE /\ wk' = [wk EXCEPT ![w].lost = TRUE]
               /\ UNCHANGED job
    /\ UNCHANGED <<created, recent, spent, audit, clobbered>>

(* Any exception in the heartbeat thread gives the lease up for lost.        *)
HeartbeatRaises(w) ==
    /\ Busy(w) /\ ~wk[w].lost
    /\ wk' = [wk EXCEPT ![w].lost = TRUE]
    /\ UNCHANGED <<job, created, recent, spent, audit, clobbered>>

(* The scanner records what its model calls cost.                            *)
RecordUsage(w) ==
    /\ wk[w].pc = "running"
    /\ spent < CostLimit
    /\ spent' = spent + 1
    /\ UNCHANGED <<job, created, recent, wk, audit, clobbered>>

ExecutorReturns(w) ==
    /\ wk[w].pc = "running"
    /\ WorkerGoes(w, IF wk[w].lost THEN "failing" ELSE "completing")
    /\ UNCHANGED <<job, created, recent, spent, audit, clobbered>>

ExecutorRaises(w) ==
    /\ wk[w].pc = "running"
    /\ WorkerGoes(w, "failing")
    /\ UNCHANGED <<job, created, recent, spent, audit, clobbered>>

Event(w, outcome) == <<wk[w].job, wk[w].attempt, outcome>>

(* complete_scan_job and its audit event; the acknowledgement of the commit  *)
(* may be lost, and then the worker takes the failure path.                  *)
Complete(w) ==
    /\ wk[w].pc = "completing"
    /\ LET j == wk[w].job IN
          /\ Owns(w, j)
          /\ job' = [job EXCEPT ![j] = Released(@, "completed")]
    /\ audit' = audit \cup {Event(w, "completed")}
    /\ wk' = [wk EXCEPT ![w] = Idle] \/ WorkerGoes(w, "failing")
    /\ UNCHANGED <<created, recent, spent, clobbered>>

(* Rejected because the lease is gone, or rolled back by an error.           *)
CompleteFails(w) ==
    /\ wk[w].pc = "completing"
    /\ WorkerGoes(w, "failing")
    /\ UNCHANGED <<job, created, recent, spent, audit, clobbered>>

(* fail_scan_job, the SELECT: a row this worker does not own is left alone,  *)
(* but the failure is audited all the same.                                  *)
FailReads(w) ==
    /\ wk[w].pc = "failing"
    /\ LET j == wk[w].job IN
          IF Owns(w, j)
          THEN /\ wk' = [wk EXCEPT ![w].pc = "failwrite", ![w].seen = job[j].attempts]
               /\ UNCHANGED audit
          ELSE /\ wk' = [wk EXCEPT ![w] = Idle]
               /\ audit' = audit \cup {Event(w, "failed")}
    /\ UNCHANGED <<job, created, recent, spent, clobbered>>

AfterFailure(attempts) == IF attempts >= MaxAttempts THEN "failed" ELSE "queued"

(* fail_scan_job, the flush: UPDATE by primary key, whatever the row is now. *)
FailWrites(w) ==
    /\ wk[w].pc = "failwrite"
    /\ LET j == wk[w].job IN
          /\ job' = [job EXCEPT ![j] =
                        Released(@, AfterFailure(wk[w].seen))]
          /\ clobbered' = IF Owns(w, j) THEN clobbered ELSE clobbered \cup {j}
    /\ audit' = audit \cup {Event(w, "failed")}
    /\ wk' = [wk EXCEPT ![w] = Idle]
    /\ UNCHANGED <<created, recent, spent>>

(* The failure transaction itself fails; the job waits for its lease to end. *)
FailErrs(w) ==
    /\ wk[w].pc \in {"failing", "failwrite"}
    /\ wk' = [wk EXCEPT ![w] = Idle]
    /\ UNCHANGED <<job, created, recent, spent, audit, clobbered>>

(* A killed worker takes its scanner with it (PR_SET_PDEATHSIG).             *)
Crash(w) ==
    /\ Busy(w)
    /\ wk' = [wk EXCEPT ![w] = [Idle EXCEPT !.pc = "down"]]
    /\ UNCHANGED <<job, created, recent, spent, audit, clobbered>>

Restart(w) ==
    /\ wk[w].pc = "down"
    /\ wk' = [wk EXCEPT ![w] = Idle]
    /\ UNCHANGED <<job, created, recent, spent, audit, clobbered>>

--------------------------------------------------------------------------------
(* Time                                                                      *)

Down(n) == IF n > 0 THEN n - 1 ELSE 0

(* One tick.  A heartbeat that was due and did not come makes its worker late*)
Tick ==
    /\ job' = [j \in Job |-> [job[j] EXCEPT !.ttl = Down(@)]]
    /\ wk' = [w \in Worker |->
                IF Busy(w)
                THEN [wk[w] EXCEPT !.due = Down(@), !.late = @ \/ wk[w].due = 0]
                ELSE wk[w]]
    /\ UNCHANGED <<created, recent, spent, audit, clobbered>>

(* The oldest job of the last day leaves the daily window.                   *)
DayPasses ==
    /\ \E j \in recent :
          /\ \A k \in recent : created[j] <= created[k]
          /\ recent' = recent \ {j}
    /\ UNCHANGED <<job, created, spent, wk, audit, clobbered>>

MonthBegins ==
    /\ spent' = 0
    /\ UNCHANGED <<job, created, recent, wk, audit, clobbered>>

--------------------------------------------------------------------------------
Poll(w) == PollTakes(w) \/ PollSweeps(w)

Run(w) ==
    \/ ExecutorReturns(w)
    \/ ExecutorRaises(w)
    \/ Complete(w)
    \/ CompleteFails(w)
    \/ FailReads(w)
    \/ FailWrites(w)
    \/ FailErrs(w)
    \/ Restart(w)

Beat(w) == Renew(w) \/ HeartbeatRaises(w)

Next ==
    \/ \E j \in Job : Enqueue(j)
    \/ \E w \in Worker : Poll(w) \/ Run(w) \/ Beat(w) \/ RecordUsage(w) \/ Crash(w)
    \/ Tick
    \/ DayPasses
    \/ MonthBegins

Spec == Init /\ [][Next]_vars

(* The worker loop polls again after every run, a scanner ends by its time   *)
(* limit, a dead worker is restarted, and time passes.  Neither a heartbeat  *)
(* nor an enqueue is promised.                                               *)
Fairness ==
    /\ \A w \in Worker : WF_vars(Poll(w)) /\ WF_vars(Run(w))
    /\ WF_vars(Tick)
    /\ WF_vars(MonthBegins)

FairSpec == Spec /\ Fairness

--------------------------------------------------------------------------------
(* Properties                                                                *)

(* Shape of the rows and of the worker processes.                            *)
TypeOK ==
    /\ job \in [Job -> JobRow]
    /\ created \in [Job -> Nat]
    /\ recent \subseteq Job
    /\ spent \in 0..CostLimit
    /\ wk \in [Worker -> WorkerState]
    /\ audit \subseteq Job \X Nat \X {"completed", "failed"}
    /\ clobbered \subseteq Job

(* maximum_concurrent_jobs caps the unexpired leases, although expired ones  *)
(* do not count and renewals, reclaims and lost acknowledgements interleave. *)
ActiveLeasesCapped == Cardinality(Active) <= MaxConcurrent

(* The owner column fences although worker identities are reused: a worker   *)
(* that works on a job it owns works on the newest attempt of it.            *)
OwnerMatchesRun ==
    \A w \in Worker :
        Busy(w) /\ Owns(w, wk[w].job) => wk[w].attempt = job[wk[w].job].attempts

(* A heartbeat interval below the lease is enough: as long as its heartbeats *)
(* come in time, a worker that scans holds an unexpired lease, unless a stale*)
(* fail_scan_job took the job away.                                          *)
PunctualKeepsLease ==
    \A w \in Worker :
        /\ wk[w].pc \in {"running", "completing"}
        /\ ~wk[w].lost /\ ~wk[w].late
        /\ wk[w].job \notin clobbered
        => Owns(w, wk[w].job) /\ job[wk[w].job].ttl > 0

(* A job is completed at most once, and then it stays completed: completion  *)
(* and audit event commit together, for the attempt that was completed.      *)
CompletedOnce ==
    \A j \in Job \ clobbered :
        /\ \A k \in 1..MaxAttempts : <<j, k, "completed">> \in audit =>
              job[j].state = "completed" /\ job[j].attempts = k
        /\ job[j].state = "completed" => <<j, job[j].attempts, "completed">> \in audit

(* A job no attempt is left for reaches "failed" or is still leased; only a  *)
(* stale fail_scan_job puts it back in the queue, where nothing finds it.    *)
QueuedIsLeasable ==
    \A j \in Job \ clobbered : job[j].state = "queued" => job[j].attempts < MaxAttempts

(* Completed and failed are final, up to the same stale write.               *)
TerminalIsFinal ==
    [][\A j \in Job : Terminal(j) /\ job'[j].state # job[j].state => j \in clobbered']_vars

(* Each row is a fenced lease: one epoch per lease, completed (that is,      *)
(* audited as completed) at most once and only while it is the newest.       *)
Fenced(j) == INSTANCE FencedLease WITH
    Client <- Worker,
    NoClient <- None,
    epoch <- job[j].attempts,
    holder <- job[j].owner,
    published <- {k \in 1..job[j].attempts : <<j, k, "completed">> \in audit}

JobsAreFencedLeases ==
    /\ \A j \in Job : Fenced(j)!Init
    /\ [][\A j \in Job : [Fenced(j)!Next]_(Fenced(j)!vars)]_vars

(* Every accepted job ends: retries are bounded, a dead worker's lease runs  *)
(* out, and a final attempt that died is swept.                              *)
EveryJobEnds ==
    \A j \in Job : job[j].state \in {"queued", "leased"} ~> Terminal(j) \/ j \in clobbered

(* repositories.py says of a job without attempts left that without the sweep*)
(* it "would stay leased forever instead of reaching failed"; a stale        *)
(* fail_scan_job leaves one queued forever, so this fails.                   *)
NoStrandedJob ==
    \A j \in Job : job[j].state = "queued" => job[j].attempts < MaxAttempts

================================================================================
