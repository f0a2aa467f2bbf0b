------------------------------- MODULE PrLifecycle -------------------------------
(*****************************************************************************)
(* What becomes of a finding across the reviews of several pull requests and *)
(* their merges: one status row per finding in every pull request and on the *)
(* default branch (plaidnox_scm/occurrences.py), one triage state per finding*)
(* for the whole tenant (triage.py), and the review runs that write both     *)
(* (api_service.py, review.py, lifecycle.py).                                *)
(*                                                                           *)
(* A run claims its attempt, which fixes its started_at, then reads which    *)
(* findings are known, reviews for a long time, and commits everything it    *)
(* decided in one transaction.  Runs of one pull request overlap, finish in  *)
(* any order, and race the close, merge and reopen webhooks.                 *)
(*                                                                           *)
(* One run at a time works on one review: ReviewAttempts shows how the lease *)
(* sees to that.  What the model and the verifier say of the code is an      *)
(* input.  Of a commit only the content of each finding's root-cause file is *)
(* kept.  Two reports of the same bug are taken to carry the same finding_id.*)
(* A transaction is one step: the pull request's rows are locked in the code,*)
(* a triage row is only read and then written, which is not modelled here.   *)
(*****************************************************************************)
EXTENDS Naturals, FiniteSets

CONSTANTS
    PR,             \* pull requests
    HeadSha,        \* names of the commits pushed to a pull request
    Finding,        \* finding_id
    File,           \* contents of a root-cause file
    Base,           \* its content on the default branch
    Deleted,        \* the file does not exist
    NoHead,         \* last_seen_head is NULL
    NotKnown,       \* not among the known findings of a run
    Baseline,       \* findings in the stored baseline of the base commit
    MaxRuns         \* bound on the number of runs started

ASSUME ConstantsAssumption ==
    /\ {Base, Deleted} \subseteq File
    /\ Base # Deleted
    /\ NoHead \notin HeadSha
    /\ NotKnown \notin HeadSha \cup {NoHead}
    /\ Baseline \subseteq Finding
    /\ MaxRuns \in Nat

VARIABLES
    tree,       \* the commits: the content of each finding's file at each head
    pull,       \* scm_pull_request_states
    row,        \* scm_finding_occurrences, scope pr:<number>
    branch,     \* scm_finding_occurrences, scope branch
    triage,     \* scm_finding_triage
    run,        \* the review of each head
    clock,      \* number of runs started so far
    verified,   \* history: findings verified at a file content
    evidence,   \* history: complete runs that proved a finding gone at a head
    seeded,     \* history: pull requests whose runs were told of stored findings
    newest      \* history: the newest run that decided on a row

state == <<pull, row, branch, triage>>
history == <<verified, evidence, seeded, newest>>
vars == <<tree, state, run, clock, history>>

--------------------------------------------------------------------------------
PullState == {"open", "closed", "merged"}
RowStatus == {"none", "open", "fixed", "closed", "merged"}
BranchStatus == {"none", "open", "fixed"}
TriageState ==
    {"open", "confirmed", "accepted_risk", "false_positive", "fix_pending", "resolved"}

Row == [status: RowStatus, seen: HeadSha \cup {NoHead}, fixed: HeadSha \cup {NoHead}, run: Nat]
NoRow == [status |-> "none", seen |-> NoHead, fixed |-> NoHead, run |-> 0]

Run == [pc: {"idle", "claimed", "reviewing", "completed"},
        start: Nat,
        pr: [Finding -> HeadSha \cup {NoHead, NotKnown}],
        branch: SUBSET Finding,
        stored: SUBSET Finding]
NoRun == [pc |-> "idle", start |-> 0, pr |-> [f \in Finding |-> NotKnown],
          branch |-> {}, stored |-> {}]

Verdict == {"verified", "rejected", "unresolved"}

Init ==
    /\ tree \in [PR -> [HeadSha -> [Finding -> File]]]
    /\ pull = [p \in PR |-> "open"]
    /\ row = [p \in PR |-> [f \in Finding |-> NoRow]]
    /\ branch = [f \in Finding |-> "none"]
    /\ triage = [f \in Finding |-> "open"]
    /\ run = [p \in PR |-> [h \in HeadSha |-> NoRun]]
    /\ clock = 0
    /\ verified = {}
    /\ evidence = {}
    /\ seeded = {}
    /\ newest = [p \in PR |-> [f \in Finding |-> 0]]

--------------------------------------------------------------------------------
(* A run starts and reads what is known                                      *)

(* claim(): a review that failed is claimed again, with a new started_at.    *)
Start(p, h) ==
    /\ run[p][h].pc = "idle"
    /\ clock < MaxRuns
    /\ clock' = clock + 1
    /\ run' = [run EXCEPT ![p][h] = [@ EXCEPT !.pc = "claimed", !.start = clock + 1]]
    /\ UNCHANGED <<tree, state, history>>

HasScope(p) == \E f \in Finding : row[p][f].status # "none"

(* previous_runs: the newest completed run of another head that stored f.    *)
Earlier(p, h, f) ==
    {k \in HeadSha \ {h} : run[p][k].pc = "completed" /\ f \in run[p][k].stored}

LastStored(p, h, f) ==
    CHOOSE k \in Earlier(p, h, f) : \A m \in Earlier(p, h, f) : run[p][m].start <= run[p][k].start

(* A pull request without any row is seeded from its earlier runs.           *)
KnownInPr(p, h, f) ==
    IF HasScope(p)
    THEN IF row[p][f].status = "open" THEN row[p][f].seen ELSE NotKnown
    ELSE IF Earlier(p, h, f) # {} THEN LastStored(p, h, f) ELSE NotKnown

ReadKnown(p, h) ==
    /\ run[p][h].pc = "claimed"
    /\ run' = [run EXCEPT ![p][h] =
                  [@ EXCEPT !.pc = "reviewing",
                            !.pr = [f \in Finding |-> KnownInPr(p, h, f)],
                            !.branch = {f \in Finding : branch[f] = "open"}]]
    /\ seeded' = IF ~HasScope(p) /\ \E f \in Finding : Earlier(p, h, f) # {}
                 THEN seeded \cup {p} ELSE seeded
    /\ UNCHANGED <<tree, state, clock, verified, evidence, newest>>

--------------------------------------------------------------------------------
(* What a run makes of its known findings (review.py)                        *)

(* file_change; without an old commit nothing is compared.                   *)
Change(p, old, h, f) ==
    IF old = NoHead \/ tree[p][old][f] = tree[p][h][f] THEN "unchanged"
    ELSE IF tree[p][h][f] = Deleted THEN "deleted"
    ELSE "modified"

InDiff(p, h, f) == tree[p][h][f] # Base

(* _plan_known: carry a finding whose file is unchanged, take a deleted file *)
(* for a fix, re-check everything else.  A finding known in both scopes is   *)
(* re-checked once, and then counts as the branch's.                         *)
Plan(p, h, f) ==
    LET since == run[p][h].pr[f]
        inPr == since # NotKnown
        onBranch == f \in run[p][h].branch /\ InDiff(p, h, f)
        change == Change(p, since, h, f)
    IN  IF inPr /\ change = "unchanged" THEN <<"carry", "pr">>
        ELSE IF inPr /\ change = "deleted" THEN <<"gone", "pr">>
        ELSE IF onBranch THEN <<IF tree[p][h][f] = Deleted THEN "gone" ELSE "recheck", "branch">>
        ELSE IF inPr THEN <<"recheck", "pr">>
        ELSE <<"none", "branch">>

(* The changed files are reviewed; a deleted one has nothing to report.      *)
Reportable(p, h) == {f \in Finding : InDiff(p, h, f) /\ tree[p][h][f] # Deleted}

(* The answers of the models: which findings are reported and verified again,*)
(* the verdict of each re-check or rejected candidate, and whether the run   *)
(* covered the changed surface.  A spent re-check budget, an AI error and a  *)
(* documentation-only change leave verdicts unresolved.                      *)
Answers(p, h) ==
    [reported: SUBSET Reportable(p, h), verdict: [Finding -> Verdict], complete: BOOLEAN]

(* classify_against_baseline, RESOLVED: a stored baseline finding that is not*)
(* among the known ones, rejected at a changed root cause.                   *)
ClassicFix(p, h, f, a) ==
    /\ f \in Baseline /\ f \in Reportable(p, h)
    /\ a.verdict[f] = "rejected"

SeenAgain(p, h, f, a) ==
    f \in a.reported \/ (Plan(p, h, f)[1] = "recheck" /\ a.verdict[f] = "verified")

(* _hold_fixes: an incomplete run records no fix.                            *)
MayFix(a) == a.complete

ProvedGone(p, h, f, a) ==
    /\ ~SeenAgain(p, h, f, a)
    /\ \/ Plan(p, h, f)[1] = "gone"
       \/ Plan(p, h, f)[1] = "recheck" /\ a.verdict[f] = "rejected"
       \/ Plan(p, h, f)[1] = "none" /\ ClassicFix(p, h, f, a) /\ a.complete

(* _resolve_known and _hold_fixes: one outcome per finding, with its scope.  *)
Outcome(p, h, f, a) ==
    LET plan == Plan(p, h, f) IN
    IF SeenAgain(p, h, f, a) THEN "observed"
    ELSE IF ProvedGone(p, h, f, a) /\ MayFix(a) THEN "fixed"
    ELSE IF plan[1] = "carry" THEN "carried_unchanged"
    ELSE IF plan[1] = "none" THEN "nothing"
    ELSE "carried"

InPrScope(p, h, f) == Plan(p, h, f)[2] = "pr"

CarriedInPr(p, h, f, a) ==
    Outcome(p, h, f, a) \in {"carried", "carried_unchanged"} /\ InPrScope(p, h, f)

Observed(p, h, a) == {f \in Finding : Outcome(p, h, f, a) = "observed"}

(* What the response lists, and the attempt stores.                          *)
Response(p, h, a) == Observed(p, h, a) \cup {f \in Finding : CarriedInPr(p, h, f, a)}

--------------------------------------------------------------------------------
(* What a completed run writes                                               *)

(* Mutant: an older run may overwrite a newer one.                           *)
CurrentAlways(r, t) == TRUE

(* record_run, current(): no newer run has decided on the row.               *)
Current(r, t) == r.run <= t

(* record_run on the row of one finding: a carried finding without a row gets*)
(* one that names neither head nor run; a finding known from the branch does *)
(* not.                                                                      *)
Recorded(r, outcome, inPr, h, t) ==
    IF r.status = "none" /\ outcome = "carried" /\ inPr THEN [NoRow EXCEPT !.status = "open"]
    ELSE IF ~Current(r, t) THEN r
    ELSE CASE outcome = "observed" ->
                 [status |-> "open", seen |-> h, fixed |-> NoHead, run |-> t]
           [] outcome = "fixed" ->
                 [r EXCEPT !.status = "fixed", !.fixed = h, !.run = t]
           [] outcome \in {"carried", "carried_unchanged"} /\ r.status # "none" ->
                 [r EXCEPT !.run = t,
                           !.seen = IF outcome = "carried_unchanged" /\ inPr /\ r.status = "open"
                                    THEN h ELSE @]
           [] OTHER -> r

(* record_fix_validation: a finding classified as verified rejects a claimed *)
(* fix.  A carried finding is classified as verified too, unless it already  *)
(* stands in the baseline.                                                   *)
RejectsFix(p, h, f, a) ==
    \/ Outcome(p, h, f, a) = "observed"
    \/ CarriedInPr(p, h, f, a) /\ f \notin run[p][h].branch \cup Baseline

(* confirm_claimed_fix                                                       *)
Confirmed(s) == IF s = "fix_pending" THEN "resolved" ELSE s

(* Mutant: a finding that is not seen again is taken for fixed.              *)
SettlesUnlessSeen(p, h, f, a) == ~SeenAgain(p, h, f, a)

(* A fix in the pull request that introduced the finding settles the claim.  *)
SettlesClaim(p, h, f, a) == Outcome(p, h, f, a) = "fixed" /\ InPrScope(p, h, f)

(* Mutant: an accepted risk is reopened like a claimed fix.                  *)
ReopenableWithRisk == {"fix_pending", "accepted_risk"}

(* _REOPENABLE_STATES; nothing ever sets fix_validating.                     *)
Reopenable == {"fix_pending"}

(* Fix validation, then regression, then confirmation.                       *)
Triaged(p, h, f, a) ==
    IF triage[f] \in Reopenable /\ RejectsFix(p, h, f, a) THEN "open"
    ELSE IF triage[f] = "resolved" /\ SeenAgain(p, h, f, a) THEN "open"
    ELSE IF SettlesClaim(p, h, f, a) THEN Confirmed(triage[f])
    ELSE triage[f]

ReviewIsOpen(p) == pull[p] = "open"

RowAfter(p, h, f, a) ==
    Recorded(row[p][f], Outcome(p, h, f, a), InPrScope(p, h, f), h, run[p][h].start)

NewestAfter(p, h, f, a) ==
    IF /\ Outcome(p, h, f, a) # "nothing" /\ RowAfter(p, h, f, a).run # 0
       /\ newest[p][f] < run[p][h].start
    THEN run[p][h].start ELSE newest[p][f]

(* _complete_review: completion, triage and rows in one transaction.  On a   *)
(* closed pull request only the completion is written.                       *)
Commit(p, h, a) ==
    /\ run' = [run EXCEPT ![p][h] = [@ EXCEPT !.pc = "completed", !.stored = Response(p, h, a)]]
    /\ verified' = verified \cup {<<f, tree[p][h][f]>> : f \in Observed(p, h, a)}
    /\ evidence' = evidence \cup
          {<<p, h, f>> : f \in {g \in Finding : a.complete /\ ProvedGone(p, h, g, a)}}
    /\ IF ReviewIsOpen(p)
       THEN /\ row' = [row EXCEPT ![p] = [f \in Finding |-> RowAfter(p, h, f, a)]]
            /\ triage' = [f \in Finding |-> Triaged(p, h, f, a)]
            /\ newest' = [newest EXCEPT ![p] = [f \in Finding |-> NewestAfter(p, h, f, a)]]
       ELSE UNCHANGED <<row, triage, newest>>
    /\ UNCHANGED <<tree, pull, branch, clock, seeded>>

Complete(p, h) ==
    /\ run[p][h].pc = "reviewing"
    /\ \E a \in Answers(p, h) : Commit(p, h, a)

(* The run raised, died, or its transaction rolled back.                     *)
Fail(p, h) ==
    /\ run[p][h].pc \in {"claimed", "reviewing"}
    /\ run' = [run EXCEPT ![p][h] = NoRun]
    /\ UNCHANGED <<tree, state, clock, history>>

--------------------------------------------------------------------------------
(* Webhooks: a delivery is applied once, but late, early or never            *)

With(p, status) == {f \in Finding : row[p][f].status = status}

Restated(p, from, to) ==
    [row EXCEPT ![p] =
        [f \in Finding |-> IF row[p][f].status = from THEN [row[p][f] EXCEPT !.status = to]
                           ELSE row[p][f]]]

(* close_pull_request, not merged                                            *)
Close(p) ==
    /\ pull[p] = "open"
    /\ pull' = [pull EXCEPT ![p] = "closed"]
    /\ row' = Restated(p, "open", "closed")
    /\ UNCHANGED <<tree, branch, triage, run, clock, history>>

(* Mutant: a fix is recorded on the branch whether it knows the finding or   *)
(* not.                                                                      *)
BranchAfterMergeAnyFix(p) ==
    [f \in Finding |-> IF f \in With(p, "open") THEN "open"
                      ELSE IF f \in With(p, "fixed") THEN "fixed"
                      ELSE branch[f]]

BranchAfterMerge(p) ==
    [f \in Finding |-> IF f \in With(p, "open") THEN "open"
                      ELSE IF f \in With(p, "fixed") /\ branch[f] = "open" THEN "fixed"
                      ELSE branch[f]]

(* close_pull_request, merged: open findings move to the branch, fixed ones  *)
(* close the branch's and settle a claimed fix.                              *)
Merge(p) ==
    /\ pull[p] # "merged"
    /\ pull' = [pull EXCEPT ![p] = "merged"]
    /\ row' = Restated(p, "open", "merged")
    /\ branch' = BranchAfterMerge(p)
    /\ triage' = [f \in Finding |-> IF f \in With(p, "fixed") THEN Confirmed(triage[f])
                                     ELSE triage[f]]
    /\ UNCHANGED <<tree, run, clock, history>>

(* reopen_pull_request                                                       *)
Reopen(p) ==
    /\ pull[p] = "closed"
    /\ pull' = [pull EXCEPT ![p] = "open"]
    /\ row' = Restated(p, "closed", "open")
    /\ UNCHANGED <<tree, branch, triage, run, clock, history>>

--------------------------------------------------------------------------------
(* Triage commands (triage.py, _TRANSITIONS); any other state is refused, or *)
(* the command already applied.                                              *)
Transition(command) ==
    CASE command = "valid"         -> [from |-> {"open"}, to |-> "confirmed"]
      [] command = "fp"            -> [from |-> {"open", "confirmed"}, to |-> "false_positive"]
      [] command = "accepted_risk" -> [from |-> {"open", "confirmed"}, to |-> "accepted_risk"]
      [] command = "fixed"         -> [from |-> {"open", "confirmed", "accepted_risk"},
                                       to |-> "fix_pending"]

Commands == {"valid", "fp", "accepted_risk", "fixed"}

Apply(f, command) ==
    /\ triage[f] \in Transition(command).from
    /\ triage' = [triage EXCEPT ![f] = Transition(command).to]
    /\ UNCHANGED <<tree, pull, row, branch, run, clock, history>>

--------------------------------------------------------------------------------
Next ==
    \/ \E p \in PR, h \in HeadSha : Start(p, h) \/ ReadKnown(p, h) \/ Complete(p, h) \/ Fail(p, h)
    \/ \E p \in PR : Close(p) \/ Merge(p) \/ Reopen(p)
    \/ \E f \in Finding, command \in Commands : Apply(f, command)

Spec == Init /\ [][Next]_vars

--------------------------------------------------------------------------------
(* Properties                                                                *)

(* Shape of the rows, the runs and the histories.                            *)
TypeOK ==
    /\ tree \in [PR -> [HeadSha -> [Finding -> File]]]
    /\ pull \in [PR -> PullState]
    /\ row \in [PR -> [Finding -> Row]]
    /\ branch \in [Finding -> BranchStatus]
    /\ triage \in [Finding -> TriageState]
    /\ run \in [PR -> [HeadSha -> Run]]
    /\ clock \in 0..MaxRuns
    /\ verified \subseteq Finding \X File
    /\ evidence \subseteq PR \X HeadSha \X Finding
    /\ seeded \subseteq PR
    /\ newest \in [PR -> [Finding -> Nat]]

(* However runs race the webhooks, the rows agree with the pull request:     *)
(* nothing is open in one that is closed or merged, a reopened one has all   *)
(* its findings back, and nothing moves to the branch before the merge.      *)
StatusMatchesState ==
    \A p \in PR :
        /\ pull[p] = "open" => With(p, "closed") = {}
        /\ pull[p] # "open" => With(p, "open") = {}
        /\ pull[p] # "merged" => With(p, "merged") = {}

(* lifecycle.py: a finding is only marked fixed with evidence.  The head of a*)
(* fixed row is one where a complete run saw the file deleted or the finding *)
(* rejected, and did not see it again.                                       *)
FixedHasEvidence ==
    \A p \in PR : \A f \in With(p, "fixed") : <<p, row[p][f].fixed, f>> \in evidence

(* Triage says resolved only when some run proved the fix; a claim alone, an *)
(* incomplete run or a merge of something unfixed is not enough.             *)
ResolvedHasEvidence ==
    \A f \in Finding :
        triage[f] = "resolved" => \E p \in PR, h \in HeadSha : <<p, h, f>> \in evidence

(* The default branch changes only by merges: an open finding there came with*)
(* a merged pull request, and one fixed there was fixed by another one.      *)
BranchFollowsMerges ==
    \A f \in Finding :
        /\ branch[f] # "none" => \E p \in PR : pull[p] = "merged" /\ row[p][f].status = "merged"
        /\ branch[f] = "fixed" => \E p \in PR : pull[p] = "merged" /\ row[p][f].status = "fixed"

(* A finding that is open was verified in the very file content of the head  *)
(* its row says it was last seen at, through any chain of carried runs and   *)
(* any reordering of them, unless the pull request was seeded from findings  *)
(* stored before it had rows.                                                *)
SeenWhereVerified ==
    \A p \in PR \ seeded : \A f \in With(p, "open") :
        row[p][f].seen \in HeadSha /\ <<f, tree[p][row[p][f].seen][f]>> \in verified

Completes(p, h) == run[p][h].pc # "completed" /\ run'[p][h].pc = "completed"

(* Runs may finish out of order, but an older one never changes the status of*)
(* a row a newer one decided on.  A run that only seeded the row has not.    *)
NewerRunWins ==
    [][\A p \in PR, h \in HeadSha, f \in Finding :
          /\ Completes(p, h)
          /\ row[p][f].status \notin {"none", row'[p][f].status}
          => newest[p][f] <= run[p][h].start]_vars

(* A human verdict survives scans, merges and races between them: only a     *)
(* later command changes it.                                                 *)
VerdictSurvives ==
    [][\A f \in Finding :
          triage[f] \in {"false_positive", "accepted_risk", "confirmed"} /\ triage'[f] # triage[f]
          => UNCHANGED <<pull, row, branch, run>>]_vars

================================================================================
