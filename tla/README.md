# A specification of PlaidNox

PlaidNox is two Python packages over one PostgreSQL database. `plaidnox_sast` scans an
immutable snapshot of a repository in jobs that workers lease from a queue. `plaidnox_scm`
reviews pull requests that a GitHub bot posts to an HTTP API, and keeps track of every finding
from the first review that verified it to the merge that removed it. This directory specifies
their state machines in TLA+, checks them with TLC, and proves the main invariants with TLAPS.

    tlc -config ReviewAttempts_safety.cfg MCReviewAttempts
    tlapm ReviewAttemptsProofs.tla

Paths below are relative to `src/` of the repository unless they begin with `docs/`.

## Inventory

| Part | State | Operations | What is hard |
|---|---|---|---|
| Review attempts (`plaidnox_scm/attempts.py`) | one row per review: state, lease owner and expiry, attempt counter, stored result | claim, renew, complete, fail, update_policy | several deliveries of one review; SELECT and UPDATE are separate statements; leases run out under a live worker |
| Review service (`plaidnox_scm/api_service.py`) | webhook deliveries, installations, activity log; a heartbeat thread per review | run, webhook claim and queueing, close/merge/reopen, triage commands, promotion of baselines | minutes pass between reading the known findings and writing the result; commit acknowledgements are lost; webhooks arrive late, twice or never |
| Finding occurrences (`plaidnox_scm/occurrences.py`) | one row per finding and scope (a pull request, or the default branch), one state per pull request | record_run, close, merge, reopen | runs finish out of order and race the webhooks |
| Finding triage (`plaidnox_scm/triage.py`) | one state per finding and tenant, and its history | four commands; fix rejection, confirmation, regression | humans and runs of several pull requests write one row |
| Review (`review.py`, `lifecycle.py`, `baseline.py`, `dedupe.py`, `policy.py`, `change_relevance.py`, `diffing.py`) | none; a function of commits, known findings and model answers | plan, resolve and hold known findings; classify against the baseline; merge policy | incomplete runs; files changed since the finding was seen |
| Review models (`l1_review.py`, `verification.py`, `context_broker.py`, `application_context.py`, `context_store.py`) | cached application contexts, baselines | bounded model calls, get-or-compute | retries and budgets; concurrent computation |
| Scan jobs (`plaidnox_sast/persistence/repositories.py`) | one row per job, tenant limits, usage and audit events | enqueue, lease, renew, complete, fail | quotas checked against changing sets; leases; a stale read in `fail_scan_job` |
| Scan worker (`plaidnox_sast/worker.py`, `cli.py`) | a process with a scanner child and a heartbeat thread | run_once, the polling loop | death at any point; a stable identity across restarts |
| Scan pipeline (`pipeline.py`, `saist.py`) | a scan run and its snapshot | the stages of a scan, tolerated failures, resume | one stage fails and the scan must not count as complete |
| Deep hunt (`ai.py`, `optimized_ai.py`, `worksets.py`, `coverage.py`) | segments and candidates in thread pools, coverage obligations | discovery, review, variants | partial failure; resume from checkpoints |
| Investigations, surface planning, reuse (`repositories.py`, `investigations.py`, `graph_surface_planning.py`) | state per investigation; a planning ledger per scan; findings and what they depend on | plan, record, complete, hunt, revalidate, carry forward | results outlive the scan that made them, and the code they speak of |
| Checkpoint (`checkpoint.py`) | SQLite store of units of work | begin, complete, fail, resume | crash between two writes; a store of another snapshot |
| Model budget (`controls.py`, `llm.py`) | counters shared by threads | reserve, complete, cancel | limits passed by calls in flight |
| Context fabric, knowledge (`context_fabric.py`, `knowledge.py`, `fingerprint.py`) | content-addressed bases and overlays, research cache | open, overlay, record | staleness of derived facts |
| Code graph (`graph*.py`, `graphify_adapter.py`) | none shared | bounded traversals | bounds |
| Policy, reports, redaction, assets, configuration, migrations | none shared | pure functions and loading | - |

How the parts interact: the bot posts a delivery; `ReviewService` records it and, for a
review, claims the attempt, reads the findings known in the pull request and on the branch,
runs `review_pull_request`, and commits the completed attempt, the triage changes and the
occurrence rows in one transaction. Close, merge and reopen webhooks change the occurrence
rows directly; both sides lock the pull request's state row. Triage commands write the triage
table in their own transactions. Workers and the scan queue meet the reviews only in the
library code they share.

What makes each part correct: a leased row has one owner at a time and its result comes from
the newest grant (attempts, jobs, hunt tasks); quotas hold through expiry and crashes (jobs,
model budget); whatever is accepted ends (jobs, checkpointed units, investigations); a finding
is neither lost nor declared fixed without proof (occurrences, triage, review); and a status
agrees with the events that caused it (occurrences, webhooks).

## Modules

| Module | Models | Checked by |
|---|---|---|
| `FencedLease` | abstract: grants open epochs, an epoch is published at most once and only by its holder while it is the newest | refined by the next two |
| `ReviewAttempts` | `ReviewAttemptRepository` and the path of `ReviewService.run` around it, for one review | `MCReviewAttempts`, `ReviewAttemptsProofs` |
| `ScanJobs` | the scan queue of one tenant with its workers | `MCScanJobs`, `ScanJobsProofs` |
| `PrLifecycle` | occurrence rows, triage states, review runs, webhooks and commands, for several pull requests | `MCPrLifecycle`, `PrLifecycleProofs` |
| `PullReview` | one review of a pull request, from the diff to the policy decision | `MCPullReview`, `PullReviewProofs` |
| `ResumableWork` | abstract: what was recorded is never paid for again | refined by `ModelCalls` |
| `ScanCheckpoint` | the resume store, as operators from a store to a store | through `ModelCalls` |
| `ModelCalls` | `_structured_response` in the threads of a scan, between the store and the usage budget | `MCModelCalls`, `ModelCallsProofs` |
| `ScanPipeline` | `scan_snapshot`: stages, rounds, sweeps, decision, final transaction; crash and resume | `MCScanPipeline`, `ScanPipelineProofs` |
| `SearchScope` | which source the review units of discovery show, and to which task | `MCSearchScope`, `DiscoveryProofs` |
| `Discovery` | the parallel analysis of these units and the reconciliation of obligations | `MCDiscovery`, `DiscoveryProofs` |
| `CodeGraph` | the code graph of a revision and what a change can affect, as operators | through `GraphReuse` |
| `GraphReuse` | investigations, their planning ledger and findings over a chain of scans | `MCGraphReuse`, `GraphReuseProofs` |

How they fit together. `ScanJobs` starts a scan; `ScanPipeline` is that scan with each model
stage as one action; `ModelCalls` opens such a stage up into the calls of its threads,
`SearchScope` and `Discovery` open up its first stage, and `GraphReuse` is the part of a scan
that earlier scans have a say in. `ReviewAttempts` decides who runs a review; `PullReview` is
the run; `PrLifecycle` is what many runs do to the findings, with the outcome of a run as an
input that `PullReview` justifies.

### ReviewAttempts

`row` is the database row, `pc[c]` the statement delivery `c` has reached, `ordinal[c]` the
`attempt_count` its claim returned; `done` is a history variable. A lease owner is a fresh
uuid per delivery, so the delivery stands for its owner. `claim` is five actions:
`ClaimRead` (the first SELECT and its branches), `ClaimInsert` (INSERT in a savepoint, or the
IntegrityError and the second read), `ClaimUpdate` (the compare-and-swap), `ClaimReread` and
`ClaimRetry` (the second turn of the loop). READ COMMITTED lets other transactions commit
between any two of them. An UPDATE and its commit are one step, since the row lock keeps
others from the uncommitted row. `Complete` includes the lost acknowledgement, which sends
`run` to its failure path although the row is completed, and the activity record that raises
after the commit. `Abort` is an exception outside both `try` blocks. `Crash` is the death of
the process or a database that no longer answers. Time is the bit `row.live`; `Expire` may
clear it at any moment, so the results hold for every lease length and heartbeat.

What the model also shows, and no property promises: the attempt limit and the replay of a
completed review are decided on a stale read, so the limit may be passed by the calls in
flight, and the reclaiming UPDATE (`attempts.py:211`) accepts a row that was completed since
it was read. A completed review can therefore be run once more.

### ScanJobs

`job` is the table, `wk` the workers (with the heartbeat thread's `lost`), `spent` the month's
model cost, `recent` the jobs inside the daily window, `audit` the audit events, and
`clobbered` a history of the rows a stale `fail_scan_job` overwrote. Each transaction is one
step because `enqueue` and `lease` serialize on the tenant's controls row, and the others are
single statements, except `fail_scan_job`, whose SELECT and UPDATE are `FailReads` and
`FailWrites`. A lease is a countdown in ticks and so is the time to the next heartbeat, which
is what `PunctualKeepsLease` is about. A worker's identity outlives its process, as in the
deployment; `Crash` takes the scanner along (`PR_SET_PDEATHSIG`).

The quota of concurrent scans counts leases. A scanner whose lease was lost is not stopped, so
more scans than the limit may run; the property is about the leases.

### PrLifecycle

`tree[p][h][f]` is the content of finding `f`'s root-cause file at head `h` of pull request
`p`, chosen once in `Init`; the code compares commits, so nothing else of them matters. `run`
is the review of each head: `Start` is the claim that fixes `started_at`, `ReadKnown` the
snapshot of the known findings, `Complete` the review and `_complete_review`'s single
transaction, `Fail` any failure before it. `Plan` is `_plan_known`, `Outcome` is
`_resolve_known` with `_hold_fixes`, `Recorded` is the branch structure of `record_run`,
`Triaged` the triage changes of the same transaction. The answers of the models (`Answers`)
are arbitrary: which findings are reported, what each re-check says, whether the run covered
the change. `verified`, `evidence`, `seeded` and `newest` are histories; the properties use
them to say on what a status rests.

Two behaviours of the code stay outside what the properties promise. A carried finding counts
as verified (`review.py:767`), so a run that re-checked nothing rejects a claimed fix. And a row
without a last seen head, as the backfill makes them, is taken as unchanged since the run at
hand, so its last seen head may be one at which nobody verified it.

### PullReview

Inputs are the source of each place at the base, at the head reviewed last and now, the
tracked findings of the pull request and of the branch, a stored baseline and what people
dismissed. `Begin` plans the re-checks (`PlanKnown`, with its limit), `SkipFile`, `FileFails`
and `FileAnswered` are the answers for the files of the diff, `VerifyNext` takes one verdict
for one candidate, `Conclude` merges reports (`Consolidation`), finds their identities
(`KnownIdentities`, `Classified`), resolves the tracked findings and applies `Policy`. Mapping
these operators to the code is most of the module: `_plan_known`, `dedupe.py`, `baseline.py`,
`lifecycle.py` and `policies/default.json` line by line, without the texts.

The loops of the code are folds with one named step each: `Keep`, `PlanStep`, `Merge`,
`SeenAgain` and `Classify`.

Candidate ids are chosen by the model, file by file, and are keys over all files. `IdOf` is a
constant, so instances may let ids collide. `UniqueIds` says that they do not, nor with the ids
of re-checks; the run and the theorems take it as their hypothesis (`UniqueAssumption`), because
with equal ids the second verdict stands at the place of the first candidate, and
`VerifiedIsReported` fails.

### ModelCalls and ScanCheckpoint

`ScanCheckpoint` has one operator for each statement of the store (`Begin`, `Fail`, `Complete`,
`Reopen`). In `ModelCalls` a call is its checkpoint key. `Request` looks it up, `BeginUnit`
opens it, `Reserve` takes a slot of the budget or `ReserveRefused`, `RequestAnswered` books the
price and may raise after it did, `Settle`, `RecordTruncation`, `RetryMisshapen` and
`GiveUpMisshapen` are what becomes of the answer, `StoreRaises` any of the writes that fails.
`Start` and `Stop` are the scan process; what it kept in memory is lost.

`delivered` is a history of what was used. `MaxLive` is how many processes share a store: the
worker gives every attempt at a job the same directory and does not stop the scanner of a lost
lease. With two, both pay for the same unit, so `ImplementsResumableWork` needs `MaxLive = 1`;
everything else is proved for any number.

### ScanPipeline

A candidate is a report; `FpOf` and `IssueOf` say which share a fingerprint or an issue.
`stage`, `found`, `answer`, `asking` and `reviews` are on disk and survive `Crash`. A stage is
replayed from the store (`Replay`) or asked for (`Ask`), and an answer that fits the schema and is
rejected afterwards stays on file, as in the code. `LookUp`, `HuntFails` and `Hunted` are one
candidate in `_review_candidates`, `RoundDone`, `SweepVariants`, `ChainPivots` and
`StartRound` the loop around them, `Conclude` the decision, `Persist`, `PersistRaises` and
`RecordFailure` the final transaction and its correction. `trouble` is a history: something
failed in this run.

A scan that is resumed and meets no failure may still end `UNSUCCESSFUL`: units of the run
before it that nobody asks for again are counted as pending.

### SearchScope

The file has lines, symbols, routes and registrations. `PlanSearches`, `Search` and
`SearchFails` give each line its tasks; `MakeRegions` makes windows of them, widens and merges
them; `FocusSegment` adds the files of tasks without a hit; `AddRoute` and `AddRegistrations`
add what the index knows and no region shows; `MakeUnits` sorts regions into worksets and cuts
these in batches. `Asks` is what a unit is asked. Regions, registrations and slices are taken in
the order the code sorts them in (`LastRegion`, `LastPiece`, `LastSlice`). A file (`IsSource`) is
what the parser can give: symbols and calls begin within it, and a route has the lines of its
node, so that it has an end (`graph.py:577`); other symbols may lack one.

Observations on the code that the properties respect, each visible in the model:

* `HitsReviewed` promises that each line that was hit is reviewed, not that the task that
  hit it is asked there. A task whose hits all lie in routes it does not name, or that has no
  hit and whose focus is empty or only a position (`path:line`), is asked of no unit, and
  nothing counts it. `IMPLEMENTATION_PLAN.md:539` asks for coverage accounting per task.
* A hit of one task inside a route keeps the route from getting a region of its own, so tasks
  that name the route are not asked there.
* `_tasks_relevant_to_region` looks for routes of a plain range among its related symbols,
  which never contain routes.
* A region that is larger than a batch raises, and with it the whole discovery.
* `maximum_hits_per_query` cuts the hits of a query without a trace in the coverage.

### Discovery

Each region goes from waiting to asking, admitting (one candidate at a time, under the lock of
the index, `Admit`), judging and finishing, on at most `Workers` threads. `file` is the answers
on file under their prompts, `unit` the units of finished regions; both survive `Crash`.
`Finish` writes the unit only if the region has no error; `FinishRaises` fails to. The last
part, from `Alone` to `CleanDiscovery`, is `coverage.py`.

The properties speak of one process. A candidate that another region entered first is kept
there and not in the unit of the region that repeats it. If the process dies between the two
units, the resumed run reuses the unit that was written, with a disposition that links to the
candidate, and the other region may answer differently: the candidate is lost
(`optimized_ai.py:1984`).

### CodeGraph and GraphReuse

`CodeGraph` derives nodes, edges, neighbourhoods and the reverse dependencies of a change
(`FanOut` with its hop and node limits) from a function from nodes to content. In `GraphReuse`
each `scan` has a code; `Begin` indexes it, `LoadPrevious` compares it with the scan before
and marks investigations as invalid, `Revalidate` flags findings and reads those to carry
forward, `OpenLedger`, `StartPlanning`, `Plan`, `Rebase`, `RecordGroup`, `PlanFails`,
`PlanConflicts` and `CompleteLedger` plan the surfaces, `Skip`, `StartHunt`, `EndHunt` and
`HuntFails` run or leave out the hunts, `Review` and `Persist` end the scan. `Crash` leaves the
tables as they are.

A negative result is taken over from any earlier successful scan with the same evidence, also
when the surface was affected by a change that was later reverted; the property asks for the
evidence, not for an unbroken chain.

## Runs

| Run | Bounds | Shows |
|---|---|---|
| `ReviewAttempts_safety` | 4 deliveries, 2 in flight, limit 2 | the row implements `FencedLease`; the newest grant owns the row and wrote what is stored; an orphaned review is reclaimed |
| `ScanJobs_safety` | 2 jobs of different priority, 2 workers, 2 attempts, concurrency 1, daily 1, lease 2 ticks, heartbeat 1 | leases, quota, audit; every accepted job ends |
| `ScanJobs_stranded` | the same, daily 2 | violation: a stale failure report strands a job |
| `PrLifecycle_safety` | 2 pull requests of 2 heads, 1 finding that also stands in a baseline, 3 contents, 2 runs | statuses follow webhooks; fixes rest on proof; older runs yield; verdicts survive |
| `PullReview_safety` | 3 places in 2 files, 2 kinds of report, 2 tracked findings, 1 new candidate, 1 re-check | what is confirmed is reported; a serious finding does not pass; a pass is covered; no tracked finding is forgotten |
| `PullReview_carried` | the same, 2 candidates | violation: a carried finding no longer counts for the policy |
| `ModelCalls_safety` | 1 process started twice, 2 threads, 3 prompts of which 2 are one work, 4 calls, 1 slot, cost 1, 1 retry of each kind | slots, what is on record, refinement of `ResumableWork` |
| `ScanPipeline_safety` | 3 candidates, 2 fingerprints, 2 runs, 2 faults | clean means judged, successful means stored; the scan ends |
| `SearchScope_safety` | 3 tasks, 3 search plans, 5 files of 8 lines, every outcome of the searches | nothing that was hit, indexed or in focus is lost on the way to the units |
| `Discovery_safety` | 2 regions, 2 threads, 2 obligations, 2 candidates, 7 answers, 2 runs, 2 faults | each grounded candidate is handed on once; complete means answered in each batch |
| `GraphReuse_safety` | 3 nodes, 3 codes, 3 scans, 1 fault | a successful scan answers every surface; the ledger agrees with the investigations; stale findings |
| `GraphReuse_carried` | the same | violation: a demoted finding is carried forward |

Why the bounds are enough. An attempt limit above one and two calls in flight let a stale
read survive a whole grant-and-complete of another call, and four deliveries let it happen
after the limit was reached. Two attempts, two workers and a lease of two ticks give expiry,
reclaim, final attempt and a late heartbeat; concurrency one makes the second job wait for the
first. Two overlapping runs in each of two pull requests cover out-of-order completion, a
merge that fixes what another merge brought, and every order of webhooks; three contents
distinguish base, deleted and modified. Three places give a pair in one file and a pair across
files, which is what the identity rules tell apart; one re-check puts the second finding over
the limit. One slot makes threads wait for it and a limit of four calls is reached with both
retries. Three candidates are a pair with one fingerprint and one that only a sweep finds. The
files of `SearchScope` are chosen by hand for what its comment lists: overlap, nesting, a
missing end, a line and a function above the limits. Two regions are two threads, two batches,
or two of three batches, one of which was never planned. Three scans are the fewest in which
code is changed and changed back. The invariants of all modules are proved for
all sizes besides, so their runs only have to show that the cases happen. `CHECK_DEADLOCK FALSE`
appears where calls, jobs, scans or runs are bounded, or where one review or discovery is over,
and the system may stop.

Fairness. `ReviewAttempts`: a call that is not killed keeps executing (WF of its steps) and
its scan ends; a heartbeat is not promised, nor is a crash. `ScanJobs`: the worker loop polls
again after each run (`cli.py`, `_run_worker`), the scanner has a time limit
(`LocalScanExecutor`), a dead worker is restarted by its supervisor, time passes, and a month
ends. WF is enough: a poll is either possible from some point on or something else moved.
`ScanPipeline`: WF of the steps of a running scan (`Work`), whose model calls have time limits;
neither crashes nor another start are promised. The other modules state safety only.

The violation runs. Each checks what a document or comment of the repository says and the
code does not do; `PROJECT.json` quotes the line.

## Proofs

All theorems hold for every value of the constants that satisfies the named assumptions
(`ConstantsAssumption`, `ScopeAssumption`, `GraphAssumption`, `HeartbeatAssumption`,
`NoneAssumption`: no row is the mark of a missing one), hence for any number of deliveries, jobs,
workers, pull requests, heads, places, findings, threads, calls, files, tasks, regions, surfaces
and scans.

`ReviewAttemptsProofs`. The invariant `IInv` joins the shape of the row (an owner exactly while
running), the fact that grants carry distinct ordinals up to the counter and that a call has
one exactly once it was granted, the position of the owner, and that committed ordinals were granted.
It is needed because `LatestGrantOwns` alone does not say that a caller that is about to write
has not been given an ordinal yet. `AttemptsBounded` has its own invariant: the counter plus
the calls that read it below the limit and have not written is below `MaxAttempts + InFlight`
(cardinality of a finite set). `Refinement` maps every step to a grant, a publication, a
revocation or a stutter of `FencedLease`.

`ScanJobsProofs`. The invariant adds to the shape of rows and workers that what
`fail_scan_job` read is still the row's attempt count as long as the worker owns the row
(`SeenIsCurrent`), that a punctual worker's lease
outlasts its next heartbeat (`LeaseAhead`, the step where `Heartbeat < Lease` is used), and
that audited attempts lie in the past (`AuditIsPast`). `LeasesCapped` argues by the
cardinality of the active leases: only `PollTakes` adds one, below the limit.

`PrLifecycleProofs`. `IInv` adds that a row which names a last seen head was verified there
or is seeded (`RowSeen`), that the snapshot a run took was true when taken and stays true
because commits do not change and histories only grow (`SnapshotVerified`), and that the
newest deciding run is not newer than the row's own date (`NewestDated`), from which
`OlderRunYields` follows.

`ModelCallsProofs`. `SlotsHold` needs where each thread is and counts threads by the
cardinality of a set that one step changes by one element. `DeliveredHolds` needs that a
thread which settles a unit began it, so its row is there. `Refinement` assumes `MaxLive <= 1`
and uses that a thread which is about to pay found the unit unrecorded and that nobody else of the
process works on it (`asked`).

`DiscoveryProofs`. The invariant says where each answer is: what it grounds is in the index,
or its region is still admitting it (`GroundedIsSeen`); the regions that were analyzed divide
the index among them (`IndexIsKept`), which gives both that nothing is lost and that nothing is
kept twice; and every disposition was said in an answer, and links to what an answer grounds
(`SaidAndGrounded`). `CompleteHolds` adds the arithmetic of batches: as many resolved batches as were
planned are all of them.

The second part of `DiscoveryProofs` is about `SearchScope`, whose names are none of `Discovery`'s.
Almost all of it is what one step computes, stated as lemmas:

* `RegionFact`: a clipped region lies in the file and shows the lines it was made for.
* `WindowsFact`, `MergedRegionsFact`: each line that was hit is in a window with its tasks, and
  each window within a merged region that has its tasks.
* `UncoveredFact`, `PiecesFact`: what regions leave of a range makes up the range together with
  them, and the pieces of a range have all its lines. The latter needs division (`Quotient`,
  `NothingLeft`): below each number there is a multiple of the slice size less than one slice away.
* `RegistrationsFact`: a registration that is nested in another is covered by what was added for
  the other, or gets its own; in no case is it shown as a route, because a region that begins
  apart from every route does not get a route as its anchor (`PlainRegion`). This is where it
  matters that a route has an end.
* `BatchesFact`, `OneUnit`, `Siblings`: the batches of a surface hold each of its regions once and
  within the limits; a region joins one workset of the index at most (`GraphFact`), and a workset
  is no surface of a region (`SurfacesApart`), so the units of a surface count each other.

Each of these is a fold over a set. `FoldExists` shows that the function which such a fold is
chosen from exists, and `SetInduction` adds one element at a time. The invariant `ScopeInv` then
says how far each promise is kept at each stage: hits from the first regions on (`HitsShown`), the
focus up to the line that is looked at (`FocusShown`), routes up to the next one (`RoutesShown`),
registrations at the end (`RegistrationsShown`). Later steps do not take back what earlier ones
showed, because a region is only ever given more tasks (`Kept`). `HitsHold` adds that a region which has a line of the task's focus is in the focus itself, so
that the unit is asked what the task asks. `PlansAreCounted` joins the two parts: what
`Discovery` assumes of a plan, that a workset has no more batches than it counts, holds of the
units of `SearchScope`.

`GraphReuseProofs`. What a hunt is left out for must still be what it was when it was chosen:
the negative row stays as it is because its scan succeeded, and a step of a hunt moves rows of
the running scan only (`BasisHolds` with `RunningScan`). A plan is stored before the ledger
names it (`PlansStored`), and a scan whose failure flag is clear passed the end of its hunts
(`Answered`). That the newest of the stored investigations exists rests on `BoundedMax`: a set
of numbers with a bound has a greatest one, by the well-foundedness of <.

`CarriedHeldBefore` needs an invariant of its own, `Carrying`, which follows a valid finding from
scan to scan. What a scan that succeeded leaves valid holds in its code, and goes on to hold until
another scan saves a graph (`SuccessHeld`): a scan that dies before that may verify findings, but
none of a hunt (`Ungraphed`). For the others, which are only taken over when the code is that of
the earlier scan, the index transaction has just demoted every one whose source differs
(`SourceHolds`); this rests on `StartIsReached`, that a bounded walk over callers reaches what it
starts from. After the revalidation whatever is still valid holds in the current code
(`Revalidated`), and what was verified since refers to nodes that are there (`PlansRefer`).

`ScanPipelineProofs`. A clean result is about candidates that no variable names any more, so the
invariant says where they went: what the index knows waits for the next round or was under
review (`SeenPlaced`), a review that failed is counted (`ReviewsPlaced`), and unless something is
counted as failed the plan and the answers of discovery and of both sweeps are on file
(`StagesFiled`). A review on file equals the answer of the candidate it names
(`ReviewsAnswered`), which carries `FindingsSupported` over a crash. `ReportAgrees` ties the
report to the failures and the row to the report through the three ways the final transaction
ends. It assumes of `None` that it is neither an answer nor a review (`NoneAssumption`).

`PullReviewProofs`. The state machine is small and its operators are not: most of the proof is
about what the folds compute. A fold is first turned into its accumulators, a function on `0..n`
whose value at k is the step applied to its value at k - 1 (`FoldExists`, `FoldRuns`), and what
holds of every accumulator is shown by induction up to n. On this rest `PlanFact` (what is
decided of a tracked finding before a model is asked), `KeptFact` (a finding that is not kept
has another of its issue that is), `SortedFact` (each verified report once, the strongest first),
`ConsolidationFact` (each verified report is kept or joins one of its issue, as strong, of the
same file) and `ClassificationsFact` (each verification has a row, in a changed file never as old debt).
The invariant has two parts. `Reviewing` says what a review knows and that verdicts are about the
candidates asked so far. `Asked` says that each file is asked about once, so no two candidates
are at one place and, with `UniqueIds`, none share an id. Without it a verdict may stand for a
candidate it was not given for. The four properties are about states in which the review is over, so each is
shown at the steps that end it, `Conclude`, `FastExit` and `GiveUp`, and no step changes it after.

Proved and no longer checked by a run: the type invariants of `ReviewAttempts`, `ScanJobs`,
`PrLifecycle` and `ModelCalls`, `AttemptsBounded`, `FixesAreProved`, `SupersededHasSuccessor` and
the last seen head.

Induction over data. The induction theorems of the library take an operator as a parameter,
which the provers cannot instantiate. Where a proof needs induction over numbers (the folds of
`PullReview`, the rounds of `CallersWithin`), `UpTo` states it with a set in place of the
operator, and rests on the well-foundedness of <; `SetInduction` does so for finite sets.

Only model-checked: `OrphanReclaimed`, `EveryJobEnds` and `EveryScanEnds` (liveness, out of the
prover's reach, as is ENABLED), and the violations. Every invariant and every action property
that a run checks is a theorem.

## Abstractions

* Clocks of API processes and workers agree; `moment` is read at the statement that uses it.
* The tenant's limits do not change; one tenant, one codebase, one default branch.
* `PrLifecycle` reads the known findings in one step (two transactions in the code), runs one
  run at a time per review, and lets every head exist from the start.
* A triage row is read and written in one step. `VerdictSurvives` therefore does not cover a
  write that is based on a triage state another transaction has changed meanwhile.
* Two reports of one bug carry one finding id in `PrLifecycle`: the `duplicate` outcome, which
  exists for ids minted before identities were stable, is in `PullReview` only.
* `PullReview`: no renamed files, and no earlier findings that are not open any more; equal
  reports are ordered by position and not by id.
* The model's cost of a scan is one unit in `ScanJobs`, and the monthly total saturates.
* `ModelCalls`: the call limit stands for the limits of characters and output tokens.
* `SearchScope`: one file; sizes are counted in lines; the obligations of a task are one; the
  index matches the file.
* `GraphReuse`: one node to a file; plans with security summaries, which are never reused, and
  overlapping scans of one codebase are left out.

## Not modelled

* Webhook delivery records and the activity log: that a delivery which was queued and whose
  marking was lost is queued again (`api_service.py:388`), and that marking twice raises (424).
* The re-evaluation of the policy after a triage command (`api_service.py:573`): of two
  commands the later write may publish the policy without the other's verdict.
* A merge that arrives after a close whose reopen was lost (`occurrences.py:165`) finds closed
  rows only, and nothing moves to the branch. `BranchFollowsMerges` speaks of the merges
  that find open rows.
* Model costs are recorded by the final transaction of a scan; what a scan that died has spent
  is not in the month's total.
* Two reviews at the same base revision may both compute the application context; the second
  INSERT fails on the key (`context_store.py`, `upsert_context`).
* Hunt plans and tasks: nothing but the tests leases tasks. A scan stores its plan under its
  own id and reads it back.
* Context fabric, knowledge, prompts, parsing, rendering, repair of text, reports, configuration,
  assets, migrations: data and I/O without state that the properties depend on.

## Plan

Done: all modules above, and the proofs of all their safety properties.

Next, in this order: the triage policy with separate reads and writes, against the property that
the published policy catches up with the verdicts; delivery rows and the bot's retries, with the
liveness of an accepted delivery.
