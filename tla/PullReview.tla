------------------------------- MODULE PullReview -------------------------------
(*****************************************************************************)
(* One review of a pull request (plaidnox_scm/review.py): every changed file *)
(* is put to the model (l1_review.py), findings that are already tracked are *)
(* planned for (lifecycle.py), every candidate is verified on its own        *)
(* (verification.py, context_broker.py), reports of the same issue are merged*)
(* (dedupe.py), compared with the baseline (baseline.py), and the merge      *)
(* policy decides (policy.py).  What the response shows is in api_service.py.*)
(*                                                                           *)
(* The answers of the models are inputs.  A place is a root cause: a path, a *)
(* symbol and its lines.  A kind is what a report says of it: class, title,  *)
(* remediation and invariant.  The source of a place is a version, and a     *)
(* file changes when the source of one of its places does.  A fingerprint is *)
(* what it is a digest of: place, kind and version; root cause and finding   *)
(* have the same.  Equal severity and confidence are ordered by candidate_id *)
(* in the code and by position here.                                         *)
(*                                                                           *)
(* Left out: renamed files; earlier findings that are not open (they only    *)
(* lend their identity); an exception outside the verifier, which fails the  *)
(* attempt as one inside it does.  PrLifecycle has what becomes of the       *)
(* outcomes, over many reviews.                                              *)
(*****************************************************************************)
EXTENDS Naturals, SequencesExt

CONSTANTS
    File,
    Skippable,      \* files with documentation or generated code only
    Place,
    FileOf,         \* the file of each place
    Kind,
    Same,           \* the pairs of reports that dedupe.py takes for one issue
    CandidateId,
    IdOf,           \* candidate_id the model gives to a candidate at a place
    Rating,         \* severity and confidence of a verified report
    Control,        \* places that are security controls of the baseline
    RecheckLimit,   \* known_finding_recheck_limit
    TrackedReports, \* bound: the reports that tracked findings have
    StoredReports,  \* bound: the reports that stored baselines have
    TrackedRating,  \* bound: the rating that both have
    MaxKnown,       \* bound: tracked findings
    MaxCandidates,  \* bound: candidates of one review, re-checks aside
    NoId

Version == {"base", "seen", "head"}

(* A tracked finding, root cause and finding of the baseline is named by it. *)
Fingerprint == Place \X Kind \X (Version \cup {"none"})

ASSUME ConstantsAssumption ==
    /\ Skippable \subseteq File
    /\ FileOf \in [Place -> File]
    /\ \A s \in Same :
           /\ s \in (Place \X Kind) \X (Place \X Kind)
           /\ FileOf[s[1][1]] = FileOf[s[2][1]]
           /\ <<s[2], s[1]>> \in Same
    /\ IdOf \in [Place -> CandidateId]
    /\ Rating \subseteq {"critical", "high", "medium", "unknown"} \X {"sure", "doubtful"}
    /\ Control \subseteq Place
    /\ TrackedReports \cup StoredReports \subseteq Place \X Kind
    /\ TrackedRating \in Rating
    /\ IsFiniteSet(Place) /\ IsFiniteSet(TrackedReports)
    /\ RecheckLimit \in Nat /\ MaxKnown \in Nat /\ MaxCandidates \in Nat
    /\ NoId \notin Fingerprint \cup CandidateId

VARIABLES
    pc,
    seen,           \* the source of each place at the head reviewed last
    head,           \* its source now
    reachable,      \* that commit still exists
    known,          \* known_findings
    stored,         \* the findings of the baseline at the base commit
    dismissed,      \* findings a person called false positive or accepted risk
    todo,           \* files of the diff that are not reviewed yet
    answer,         \* what came of the files that are
    candidates,     \* all_candidates
    verdicts,       \* all_verifications
    result

inputs == <<seen, head, reachable, known, stored, dismissed>>
vars == <<pc, inputs, todo, answer, candidates, verdicts, result>>

--------------------------------------------------------------------------------
(* What is given: commits, tracked findings, the baseline                    *)

Scope == {"pr", "branch"}
Relationship == {"INTRODUCED", "REGRESSED", "MODIFIED_EXISTING", "EXISTING", "RESOLVED"}

KnownFinding ==
    [scope : Scope, id : Fingerprint, place : Place, kind : Kind, rating : Rating,
     rel : {"INTRODUCED", "MODIFIED_EXISTING"}]

BaselineFinding ==
    [id : Fingerprint, place : Place, kind : Kind, rating : Rating, state : {"open", "resolved"}]

Tracked(scope, id, rel) ==
    [scope |-> scope, id |-> id, place |-> id[1], kind |-> id[2], rating |-> TrackedRating, rel |-> rel]

(* A pull request tracks what it introduced, at a place it changed, and what *)
(* it changed of the default branch, with the identity it has there.         *)
OnBranch == {Tracked("branch", <<t[1], t[2], "base">>, "INTRODUCED") : t \in TrackedReports}
OnPull(s) ==
    {Tracked("pr", <<t[1], t[2], s[t[1]]>>, "INTRODUCED") :
        t \in {t \in TrackedReports : s[t[1]] # "base"}}
Inherited(s, branch) ==
    {[b EXCEPT !.scope = "pr", !.rel = "MODIFIED_EXISTING"] :
        b \in {b \in branch : \E x \in Place : FileOf[x] = FileOf[b.place] /\ s[x] # "base"}}

(* Only files with a tracked finding need a commit reviewed before.          *)
Commits ==
    {c \in [Place -> {"base", "seen"}] \X [Place -> Version \cup {"gone"}] :
        /\ \A x \in Place : c[1][x] = "base" \/ \E t \in TrackedReports : t[1] = x
        /\ \A x \in Place : c[2][x] \in {c[1][x], "head", "gone"}
        /\ \A x, y \in Place : FileOf[x] = FileOf[y] => (c[2][x] = "gone" <=> c[2][y] = "gone")}


(* What is not read is fixed: the commit reviewed last, when the pull        *)
(* request tracks nothing.                                                   *)
Init ==
    /\ pc = "start"
    /\ reachable \in BOOLEAN
    /\ \E c \in Commits : seen = c[1] /\ head = c[2]
    /\ \E branch \in SUBSET OnBranch : \E pr \in SUBSET (OnPull(seen) \cup Inherited(seen, branch)) :
           /\ Cardinality(branch) + Cardinality(pr) <= MaxKnown
           /\ \A a, b \in pr : a.id = b.id => a = b
           /\ pr = {} => reachable /\ \A x \in Place : seen[x] = "base"
           /\ known = SetToSeq(pr) \o SetToSeq(branch)
           /\ dismissed \in {{}, {k.id : k \in pr \cup branch}}
    /\ stored \in {{}} \cup
           {{[id |-> <<t[1], t[2], "base">>, place |-> t[1], kind |-> t[2],
              rating |-> TrackedRating, state |-> s]} : t \in StoredReports, s \in {"open", "resolved"}}
    /\ todo = {}
    /\ answer = [f \in File |-> "none"]
    /\ candidates = <<>>
    /\ verdicts = <<>>
    /\ result = NoId

(* compute_diff of base and head, of which no place is new.                  *)
Changed(f) == \E x \in Place : FileOf[x] = f /\ head[x] # "base"
Diff == {f \in File : Changed(f)}

(* file_change: what happened to the finding's file since it was verified.   *)
Change(k) ==
    LET old(x) == IF k.scope = "pr" THEN seen[x] ELSE "base"
        same == \A x \in Place : FileOf[x] = FileOf[k.place] => old(x) = head[x]
    IN  IF k.scope = "pr" /\ ~reachable THEN "unknown"
        ELSE IF same THEN "unchanged"
        ELSE IF head[k.place] = "gone" THEN "deleted"
        ELSE "modified"

(* Mutant: reports about one file are taken for one issue.                   *)
SameFile(a, b) == FileOf[a[1]] = FileOf[b[1]]

--------------------------------------------------------------------------------
(* What to do with the tracked findings (_plan_known)                        *)

SameIssue(a, b) == <<a, b>> \in Same

Signature(k) == <<k.place, k.kind>>

(* The items of a list that are in S, in their order.                        *)
Only(list, S) ==
    FoldLeft(LAMBDA some, x : IF x \in S THEN Append(some, x) ELSE some, <<>>, list)

KnownIn(scope) == Only(known, {k \in ToSet(known) : k.scope = scope})

(* Findings of the default branch first; a later one that is the same issue  *)
(* under another id is not kept.                                             *)
Keep(kept, k) ==
    IF \E i \in DOMAIN kept : kept[i].id # k.id /\ SameIssue(Signature(kept[i]), Signature(k))
    THEN kept ELSE Append(kept, k)

KeptKnown == ToSet(FoldLeft(Keep, <<>>, KnownIn("branch") \o KnownIn("pr")))

Relevant(k) == k.scope = "pr" \/ Changed(FileOf[k.place])

Outcome(k, what) == [id |-> k.id, scope |-> k.scope, outcome |-> what]

Duplicates ==
    LET kept == KeptKnown
    IN  {Outcome(k, "duplicate") : k \in {k \in ToSet(known) : k.scope = "pr" /\ k \notin kept}}

Decides(outcomes, id) == \E o \in outcomes : o.id = id

(* The findings to verify again, one for each finding_id: the last of them.  *)
Again(list, k) ==
    IF \E i \in DOMAIN list : list[i].id = k.id
    THEN [i \in DOMAIN list |-> IF list[i].id = k.id THEN k ELSE list[i]]
    ELSE Append(list, k)

Deciding(plan, k, what) ==
    [decided |-> plan.decided \cup {Outcome(k, what)}, rechecks |-> plan.rechecks]

(* What is decided of one finding without a model, else it is verified again.*)
PlanStep(limit, plan, k) ==
    IF ~Relevant(k) \/ Decides(plan.decided, k.id) THEN plan
    ELSE IF Change(k) = "deleted" THEN Deciding(plan, k, "fixed_removed")
    ELSE IF Change(k) = "unchanged" /\ k.scope = "pr" THEN Deciding(plan, k, "carried_unchanged")
    ELSE IF Len(plan.rechecks) < limit
         THEN [decided |-> plan.decided, rechecks |-> Again(plan.rechecks, k)]
    ELSE Deciding(plan, k, "carried_incomplete")

PlanKnown(limit) ==
    FoldLeft(LAMBDA plan, k : PlanStep(limit, plan, k),
             [decided |-> Duplicates, rechecks |-> <<>>], known)

RecheckId(id) == <<"recheck", id>>
RecheckCandidate(k) == [id |-> RecheckId(k.id), place |-> k.place]

Rechecks == PlanKnown(RecheckLimit).rechecks
IsRecheck(id) == \E i \in DOMAIN known : id = RecheckId(known[i].id)

FixedOutcomes == {"fixed_removed", "fixed_verified"}
CarriedOutcomes == {"carried_unchanged", "carried_incomplete", "recheck_unresolved"}

(* Mutant: a deleted file is a fix in an incomplete run, too.                *)
HoldNothing(outcomes) == outcomes

(* An incomplete run records no fix.                                         *)
HoldFixes(outcomes) ==
    {IF o.outcome \in FixedOutcomes
     THEN [id |-> o.id, scope |-> o.scope, outcome |-> "carried_incomplete"] ELSE o : o \in outcomes}

(* A run that verifies nothing.                                              *)
PassiveOutcomes ==
    LET plan == PlanKnown(MaxKnown)
    IN  plan.decided \cup {Outcome(k, "carried_incomplete") : k \in ToSet(plan.rechecks)}

--------------------------------------------------------------------------------
(* Merging reports of one issue (consolidate_verified).  Candidates and      *)
(* verifications are looked up by candidate_id: the last one has it.         *)

At(list, id) == list[SelectLastInSeq(list, LAMBDA item : item.id = id)]

PlaceOf(v) == At(candidates, v.id).place
Report(v) == <<PlaceOf(v), v.kind>>

Severity == [critical |-> 0, high |-> 1, medium |-> 2, unknown |-> 3]

(* Mutant: the order of severities is reversed.                              *)
Weaker(a, b) ==
    \/ Severity[a[1]] > Severity[b[1]]
    \/ (Severity[a[1]] = Severity[b[1]] /\ a[2] = "doubtful" /\ b[2] = "sure")

Stronger(a, b) ==
    \/ Severity[a[1]] < Severity[b[1]]
    \/ (Severity[a[1]] = Severity[b[1]] /\ a[2] = "sure" /\ b[2] = "doubtful")

(* A re-check joins the list when it found the issue again, only.            *)
Listed == Only(verdicts, {v \in ToSet(verdicts) : IsRecheck(v.id) => v.state = "verified"})

VerifiedAt(list) == {i \in DOMAIN list : list[i].state = "verified"}

Before(list, i, j) ==
    LET a == list[i].rating  b == list[j].rating
    IN  Stronger(a, b) \/ (~Stronger(b, a) /\ i < j)

(* The positions of the verified reports, the strongest first: a position is *)
(* where there are as many before it as it says.                             *)
Sorted(list) ==
    LET all == VerifiedAt(list)
    IN  [r \in 1..Cardinality(all) |->
            CHOOSE i \in all : Cardinality({j \in all : Before(list, j, i)}) = r - 1]

(* The strongest report of an issue is kept; ids of the others point to it.  *)
Merge(list, acc, i) ==
    LET v == list[i]
        twin == SelectInSeq(acc.kept, LAMBDA k : SameIssue(Report(k), Report(v)))
    IN  IF twin = 0 THEN [kept |-> Append(acc.kept, v), into |-> acc.into]
        ELSE [kept |-> acc.kept,
              into |-> Append(acc.into, [id |-> v.id, kept |-> acc.kept[twin].id])]

Consolidation(list) ==
    FoldLeft(LAMBDA acc, i : Merge(list, acc, i), [kept |-> <<>>, into |-> <<>>], Sorted(list))

Has(list, id) == \E i \in DOMAIN list : list[i].id = id

Consolidated(list, done) ==
    LET left == Only(list, {v \in ToSet(list) : ~Has(done.into, v.id)})
    IN  [i \in DOMAIN left |-> IF Has(done.kept, left[i].id) THEN At(done.kept, left[i].id) ELSE left[i]]

MergedInto(done, id) == IF Has(done.into, id) THEN At(done.into, id).kept ELSE id

--------------------------------------------------------------------------------
(* Identity and relation to the baseline                                     *)

Claims(list, id) == \E i \in DOMAIN list : list[i].finding.id = id

(* _known_identities: candidates that are a tracked finding seen again.  A   *)
(* re-check is, or the report that it is merged into.                        *)
Reseen(done, forced, k) ==
    LET kept == MergedInto(done, RecheckId(k.id))
    IN  IF Has(forced, kept) \/ Claims(forced, k.id) THEN forced
        ELSE Append(forced, [id |-> kept, finding |-> k])

(* A new report is one that is carried, where its file did not change.       *)
SeenAgain(unchanged, forced, v) ==
    LET match == SelectInSeq(unchanged, LAMBDA k :
                    ~Claims(forced, k.id) /\ SameIssue(Signature(k), Report(v)))
    IN  IF v.state # "verified" \/ Has(forced, v.id) \/ match = 0 THEN forced
        ELSE Append(forced, [id |-> v.id, finding |-> unchanged[match]])

KnownIdentities(list, done, plan) ==
    LET unchanged ==
            Only(known, {k \in ToSet(known) :
                k.scope = "pr" /\ Outcome(k, "carried_unchanged") \in plan.decided})
        again == FoldLeft(LAMBDA forced, k : Reseen(done, forced, k), <<>>, plan.rechecks)
    IN  FoldLeft(LAMBDA forced, v : SeenAgain(unchanged, forced, v), again, list)

(* _with_branch_baselines: open findings of the default branch are baseline. *)
Baselines ==
    stored \cup
    {[id |-> k.id, place |-> k.place, kind |-> k.kind, rating |-> k.rating, state |-> "open"] :
        k \in {k \in ToSet(known) : k.scope = "branch" /\ \A b \in stored : b.id # k.id}}

TheOne(S) == IF Cardinality(S) = 1 THEN S ELSE {}

IdAt(list, i) == IF i = 0 THEN NoId ELSE list[i].id

ById(id) == {b \in Baselines : b.id = id}

(* The finding of the baseline a verification is: the one with its identity, *)
(* else, unless it is a tracked one seen again, the same issue on the branch,*)
(* else the only one at its place.                                           *)
Matches(v, root, free) ==
    LET branches == KnownIn("branch")
        twin == IdAt(branches, SelectInSeq(branches, LAMBDA k : SameIssue(Signature(k), Report(v))))
        located(place) == {b \in TheOne({b \in Baselines : b.place = place}) : b.kind = v.kind}
        Found(exact, moved) ==
            IF exact # {} \/ ~free THEN [by |-> "id", of |-> exact]
            ELSE IF moved # {} THEN [by |-> "twin", of |-> moved]
            ELSE [by |-> "place", of |-> located(PlaceOf(v))]
    IN  Found(ById(root), IF v.state = "verified" THEN ById(twin) ELSE {})

(* A finding of the pull request with the same source, not claimed yet.      *)
PriorOf(v, claimed) ==
    LET own == KnownIn("pr")
    IN  IdAt(own, SelectInSeq(own, LAMBDA k :
            /\ v.state = "verified"
            /\ k.id \notin claimed
            /\ k.place = PlaceOf(v) /\ seen[k.place] = head[k.place]
            /\ SameIssue(Signature(k), Report(v))))

RelationOf(v, place, debt, matched, covered) ==
    IF v.state = "verified"
    THEN IF ~matched
         THEN IF place \in Control /\ Changed(FileOf[place]) THEN "REGRESSED" ELSE "INTRODUCED"
         ELSE IF ~debt THEN "REGRESSED"
         ELSE IF Changed(FileOf[place]) THEN "MODIFIED_EXISTING" ELSE "EXISTING"
    ELSE IF v.state = "rejected" /\ debt /\ covered /\ Changed(FileOf[place]) THEN "RESOLVED"
    ELSE IF debt THEN "EXISTING" ELSE "none"

Root(v, forced) ==
    IF Has(forced, v.id) THEN At(forced, v.id).finding.id
    ELSE <<PlaceOf(v), v.kind, IF v.state = "verified" THEN head[PlaceOf(v)] ELSE "none">>

Identity(v, forced, match, prior) ==
    LET kept == {b.id : b \in {b \in match.of : ~Changed(FileOf[PlaceOf(v)])}}
    IN  IF Has(forced, v.id) THEN Root(v, forced)
        ELSE IF match.by = "twin" THEN CHOOSE i \in {b.id : b \in match.of} : TRUE
        ELSE IF prior # NoId THEN prior
        ELSE IF kept # {} THEN CHOOSE i \in kept : TRUE
        ELSE Root(v, forced)

Row(v, rel, id) ==
    [rel |-> rel, id |-> id, candidate |-> v.id, state |-> v.state,
     place |-> PlaceOf(v), kind |-> v.kind, rating |-> v.rating]

(* One verification against the baseline.  claimed are the tracked findings  *)
(* whose identity is taken.                                                  *)
ClassifiedAs(v, forced, covered, match, prior) ==
    LET rel == RelationOf(v, PlaceOf(v), \E b \in match.of : b.state # "resolved",
                          match.of # {}, covered)
    IN  [rows |-> IF rel = "none" THEN {} ELSE {Row(v, rel, Identity(v, forced, match, prior))},
         matched |-> IF rel = "none" THEN {} ELSE {b.id : b \in match.of},
         claimed |-> IF Has(forced, v.id) \/ match.by = "twin" \/ prior = NoId THEN {} ELSE {prior}]

Classified(v, forced, covered, claimed) ==
    ClassifiedAs(v, forced, covered, Matches(v, Root(v, forced), ~Has(forced, v.id)),
                 PriorOf(v, claimed))

(* The next verification takes its identity from what is not claimed yet.    *)
Classify(forced, covered, acc, v) ==
    LET one == Classified(v, forced, covered, acc.claimed)
    IN  [rows |-> acc.rows \cup one.rows, matched |-> acc.matched \cup one.matched,
         claimed |-> acc.claimed \cup one.claimed]

BaselineRow(b) ==
    [rel |-> "EXISTING", id |-> b.id, candidate |-> NoId, state |-> "baseline",
     place |-> b.place, kind |-> b.kind, rating |-> b.rating]

(* classify_against_baseline                                                 *)
Classifications(list, forced, covered) ==
    LET all == FoldLeft(LAMBDA acc, v : Classify(forced, covered, acc, v),
                        [rows |-> {}, matched |-> {}, claimed |-> {}], list)
    IN  all.rows \cup
        {BaselineRow(b) : b \in {b \in Baselines : b.id \notin all.matched /\ b.state # "resolved"}}

--------------------------------------------------------------------------------
(* What became of the tracked findings (_resolve_known, _apply_lifecycle)    *)

Says(id, state) == \E i \in DOMAIN verdicts : verdicts[i].id = id /\ verdicts[i].state = state

FirstOf(id) == known[SelectInSeq(known, LAMBDA k : k.id = id)]

(* What a re-check came to.                                                  *)
Rechecked(done, id) ==
    IF Has(done.into, id) \/ Says(id, "verified") THEN "reobserved"
    ELSE IF Says(id, "rejected") THEN "fixed_verified"
    ELSE "recheck_unresolved"

(* A finding that is reported is reobserved; of the others, what was decided *)
(* counts before what its re-check came to.                                  *)
Settled(done, plan, again) ==
    {Outcome(FirstOf(id), "reobserved") : id \in {k.id : k \in ToSet(known)} \cap again}
    \cup {o \in plan.decided : o.id \notin again}
    \cup {Outcome(k, Rechecked(done, RecheckId(k.id))) :
            k \in {k \in ToSet(plan.rechecks) : k.id \notin again /\ ~Decides(plan.decided, k.id)}}

(* One that is carried and is the same issue as a reported one joins it.     *)
Folded(reported, o) ==
    IF /\ o.scope = "pr" /\ o.outcome \in CarriedOutcomes
       /\ \E r \in reported : r.id # o.id /\ SameIssue(r.report, Signature(FirstOf(o.id)))
    THEN [id |-> o.id, scope |-> o.scope, outcome |-> "duplicate"] ELSE o

Resolved(list, done, plan, classes) ==
    LET verified == {c \in classes : c.state = "verified"}
        reported == {[id |-> c.id, report |-> <<c.place, c.kind>>] :
                        c \in {c \in verified : \E v \in ToSet(list) : c.candidate = v.id}}
    IN  {Folded(reported, o) : o \in Settled(done, plan, {c.id : c \in verified})}

(* A finding of the default branch that is fixed here becomes RESOLVED, and  *)
(* carried findings of the pull request are counted as they were.            *)
Fixed(outcomes, id) ==
    /\ Decides(outcomes, id)
    /\ \A o \in outcomes : o.id = id => o.scope = "branch" /\ o.outcome \in FixedOutcomes

Carried(o) == o.scope = "pr" /\ o.outcome \in CarriedOutcomes

CarriedRow(k) ==
    [rel |-> k.rel, id |-> k.id, candidate |-> NoId, state |-> "verified",
     place |-> k.place, kind |-> k.kind, rating |-> k.rating]

Lifecycle(classes, outcomes) ==
    LET present == {c.id : c \in classes}
    IN  {IF Fixed(outcomes, c.id) THEN [c EXCEPT !.rel = "RESOLVED", !.state = "rejected"] ELSE c :
            c \in classes}
        \cup {CarriedRow(FirstOf(o.id)) : o \in {o \in outcomes : Carried(o) /\ o.id \notin present}}

--------------------------------------------------------------------------------
(* The merge policy (evaluate_merge_policy, policies/default.json)           *)

Disposition(c) ==
    IF c.rel \in {"EXISTING", "RESOLVED"} \/ c.state # "verified" \/ c.id \in dismissed THEN "PASS"
    ELSE IF c.rating[2] = "doubtful" \/ c.rating[1] = "unknown" THEN "REQUIRE_SECURITY_APPROVAL"
    ELSE IF c.rating[1] \in {"critical", "high"} THEN "BLOCK"
    ELSE "WARN"

Precedence == <<"BLOCK", "INCOMPLETE", "REQUIRE_SECURITY_APPROVAL", "WARN", "PASS">>

Policy(classes, complete) ==
    LET wanted == {Disposition(c) : c \in classes}
                  \cup (IF complete THEN {} ELSE {"INCOMPLETE"})
    IN  IF wanted = {} THEN "PASS"
        ELSE Precedence[SelectInSeq(Precedence, LAMBDA d : d \in wanted)]

(* _response: one finding for each finding_id, verified now or carried.      *)
Response(classes, outcomes, list) ==
    {c.id : c \in {c \in classes : c.state = "verified" /\ c.candidate # NoId /\ Has(list, c.candidate)}}
    \cup {o.id : o \in {o \in outcomes : Carried(o)}}

Finish(outcome, classes, known_outcomes, list, complete) ==
    LET final == Lifecycle(classes, known_outcomes)
    IN  /\ result' = [outcome |-> outcome, classes |-> final, known |-> known_outcomes,
                      complete |-> complete, decision |-> Policy(final, complete),
                      response |-> Response(final, known_outcomes, list)]
        /\ pc' = "done"

--------------------------------------------------------------------------------
(* The review                                                                *)

(* Documentation and generated code only: nothing is asked, unless a path or *)
(* a line looks security-relevant.                                           *)
FastExit ==
    /\ pc = "start"
    /\ Diff \subseteq Skippable
    /\ Finish("pass_fast_exit", Classifications(<<>>, <<>>, TRUE), PassiveOutcomes, <<>>, TRUE)
    /\ UNCHANGED <<inputs, todo, answer, candidates, verdicts>>

(* Mutant: unchanged files are reviewed as well.                             *)
BeginWithAll ==
    /\ pc = "start"
    /\ pc' = "review"
    /\ todo' = File
    /\ UNCHANGED <<inputs, answer, candidates, verdicts, result>>

(* No model is configured, or the application context could not be made.     *)
GiveUp(outcome) ==
    /\ pc = "start"
    /\ Finish(outcome, Classifications(<<>>, <<>>, FALSE), HoldFixes(PassiveOutcomes), <<>>, FALSE)
    /\ UNCHANGED <<inputs, todo, answer, candidates, verdicts>>

Begin ==
    /\ pc = "start"
    /\ pc' = "review"
    /\ todo' = Diff
    /\ UNCHANGED <<inputs, answer, candidates, verdicts, result>>

(* The order of the diff.                                                    *)
NextFile == CHOOSE f \in todo : TRUE

Answered(f, what) ==
    /\ answer' = [answer EXCEPT ![f] = what]
    /\ todo' = todo \ {f}

SkipFile(f) ==
    /\ pc = "review" /\ f \in todo /\ f = NextFile
    /\ f \in Skippable
    /\ Answered(f, "skipped")
    /\ UNCHANGED <<pc, inputs, candidates, verdicts, result>>

(* The request fails, or ends without being completed: one that ran out of   *)
(* output tokens is sent once more with a larger limit.                      *)
FileFails(f) ==
    /\ pc = "review" /\ f \in todo /\ f = NextFile
    /\ f \notin Skippable
    /\ \/ Answered(f, "failed")
       \/ (answer[f] = "none" /\ answer' = [answer EXCEPT ![f] = "retry"] /\ UNCHANGED todo)
    /\ UNCHANGED <<pc, inputs, candidates, verdicts, result>>

(* _parse_response: candidates must be on changed lines of the file; one that*)
(* is not, or cannot be read, is dropped and leaves the file incomplete.     *)
FileAnswered(f) ==
    /\ pc = "review" /\ f \in todo /\ f = NextFile
    /\ f \notin Skippable
    /\ \E places \in SUBSET {x \in Place : FileOf[x] = f /\ head[x] # "base"} :
        /\ Len(candidates) + Cardinality(places) <= MaxCandidates
        /\ candidates' = candidates \o SetToSeq({[id |-> IdOf[x], place |-> x] : x \in places})
    /\ \E what \in {"complete", "partial"} : Answered(f, what)
    /\ UNCHANGED <<pc, inputs, verdicts, result>>

PlanRechecks ==
    /\ pc = "review" /\ todo = {}
    /\ pc' = "verify"
    /\ candidates' = candidates \o [i \in DOMAIN Rechecks |-> RecheckCandidate(Rechecks[i])]
    /\ UNCHANGED <<inputs, todo, answer, verdicts, result>>

(* A verdict needs the file, a finding and an answer that fits the schema;   *)
(* it is final when nothing more was asked for and every context request of  *)
(* the candidate was resolved, none being over the limit.                    *)
VerifyNext ==
    LET c == candidates[Len(verdicts) + 1]
        say(state, kind, rating) ==
            verdicts' = Append(verdicts, [id |-> c.id, state |-> state, kind |-> kind, rating |-> rating])
    IN  /\ pc = "verify" /\ Len(verdicts) < Len(candidates)
        /\ \/ say("unresolved", NoId, NoId)
           \/ /\ head[c.place] # "gone"
              /\ \E k \in Kind : say("rejected", k, NoId) \/ \E r \in Rating : say("verified", k, r)
        /\ UNCHANGED <<pc, inputs, todo, answer, candidates, result>>

(* Mutant: a request that failed is no gap.                                  *)
NothingPartial == \A f \in Diff : answer[f] # "partial"

(* Any other exception ends the attempt.                                     *)
VerifierRaises ==
    /\ pc = "verify" /\ Len(verdicts) < Len(candidates)
    /\ pc' = "failed"
    /\ UNCHANGED <<inputs, todo, answer, candidates, verdicts, result>>

BatchComplete == \A f \in Diff : answer[f] \in {"complete", "skipped"}

NoneUnresolved(list) == \A i \in DOMAIN list : list[i].state # "unresolved"

Conclude ==
    LET plan == PlanKnown(RecheckLimit)
        done == Consolidation(Listed)
        list == Consolidated(Listed, done)
        complete == BatchComplete /\ NoneUnresolved(list)
        classes == Classifications(list, KnownIdentities(list, done, plan), complete)
        outcomes == Resolved(list, done, plan, classes)
        outcome == IF \E i \in DOMAIN list : list[i].state = "verified" THEN "findings_verified"
                   ELSE IF complete THEN "pass_no_verified_finding" ELSE "review_incomplete"
    IN  /\ pc = "verify" /\ Len(verdicts) = Len(candidates)
        /\ Finish(outcome, classes, IF complete THEN outcomes ELSE HoldFixes(outcomes), list, complete)
        /\ UNCHANGED <<inputs, todo, answer, candidates, verdicts>>

Next ==
    \/ FastExit
    \/ \E outcome \in {"configuration_required", "review_incomplete"} : GiveUp(outcome)
    \/ Begin
    \/ \E f \in File : SkipFile(f) \/ FileFails(f) \/ FileAnswered(f)
    \/ PlanRechecks \/ VerifyNext \/ VerifierRaises \/ Conclude

Spec == Init /\ [][Next]_vars

--------------------------------------------------------------------------------
TypeOK ==
    /\ pc \in {"start", "review", "verify", "done", "failed"}
    /\ <<seen, head>> \in Commits
    /\ reachable \in BOOLEAN
    /\ known \in Seq(KnownFinding)
    /\ stored \subseteq BaselineFinding
    /\ dismissed \subseteq Fingerprint
    /\ todo \subseteq Diff
    /\ answer \in [File -> {"none", "retry", "failed", "partial", "complete", "skipped"}]
    /\ \A i \in DOMAIN candidates : candidates[i].place \in Place
    /\ \A i \in DOMAIN verdicts : verdicts[i].id = candidates[i].id
    /\ pc = "done" => result.decision \in ToSet(Precedence)

(* What the code takes from the model on trust: a candidate_id for each      *)
(* candidate, none of which is that of a re-check.                           *)
UniqueIds ==
    /\ \A x, y \in Place : IdOf[x] = IdOf[y] => x = y
    /\ \A id \in Fingerprint : RecheckId(id) \notin CandidateId \cup {NoId}

Reviewed == pc = "done" /\ verdicts # <<>>

(* A reported finding speaks for a verdict: it says it, or the same issue.   *)
SpeaksFor(c, i) ==
    LET there == <<c.place, c.kind>>
        here == <<candidates[i].place, verdicts[i].kind>>
    IN  c.state = "verified" /\ (here = there \/ <<there, here>> \in Same)

(* Every vulnerability the verifier confirms is in the response under the    *)
(* place it was confirmed at, or merged into a report of the same issue:     *)
(* dedupe.py promises "Prefer two visible findings over silently combining   *)
(* different bugs."                                                          *)
VerifiedIsReported ==
    Reviewed =>
        \A i \in DOMAIN verdicts : verdicts[i].state = "verified" =>
            \E c \in result.classes : SpeaksFor(c, i) /\ c.id \in result.response

(* A confirmed critical or high finding in a changed file never lets the     *)
(* merge through on its own: merging reports, identities, the baseline and   *)
(* triage may only lift it when a person dismissed the finding it is.        *)
SeriousNeverPasses ==
    Reviewed =>
        \A i \in DOMAIN verdicts :
            /\ verdicts[i].state = "verified"
            /\ verdicts[i].rating[1] \in {"critical", "high"}
            /\ Changed(FileOf[candidates[i].place])
            => \/ result.decision \in {"BLOCK", "INCOMPLETE", "REQUIRE_SECURITY_APPROVAL"}
               \/ \E c \in result.classes : SpeaksFor(c, i) /\ c.id \in dismissed

(* A review passes only when every relevant file was answered completely and *)
(* every hypothesis rejected.                                                *)
PassIsCovered ==
    pc = "done" /\ result.outcome = "pass_no_verified_finding" =>
        /\ \A f \in Diff \ Skippable : answer[f] = "complete"
        /\ \A i \in DOMAIN verdicts : ~IsRecheck(candidates[i].id) => verdicts[i].state = "rejected"

(* No finding of the pull request is forgotten, in whatever way the review   *)
(* ends: it is reported, on its own or as the same issue (that of its        *)
(* re-check is merged into a report of it) or is the same as another that is *)
(* tracked, it is gone for good reasons, or it is counted as it was.         *)
KnownIsAccounted ==
    pc = "done" =>
        \A k \in {k \in ToSet(known) : k.scope = "pr"} :
            \/ \E c \in result.classes :
                  /\ c.state = "verified"
                  /\ \/ c.id = k.id
                     \/ <<<<c.place, c.kind>>, Signature(k)>> \in Same
                     \/ \E i \in DOMAIN verdicts :
                           /\ verdicts[i].id = RecheckId(k.id) /\ verdicts[i].state = "verified"
                           /\ SpeaksFor(c, i)
            \/ \E o \in ToSet(known) : o.id # k.id /\ <<Signature(o), Signature(k)>> \in Same
            \/ /\ result.complete
               /\ \/ head[k.place] = "gone"
                  \/ \E i \in DOMAIN verdicts :
                        verdicts[i].id = RecheckId(k.id) /\ verdicts[i].state = "rejected"
            \/ \E b \in ToSet(known) : b.scope = "branch" /\ b.id = k.id

(* "Carried PR findings still count for policy" (_apply_lifecycle): one that *)
(* is carried forward in a file the pull request still changes is counted as *)
(* verified.                                                                 *)
CarriedStillCounts ==
    pc = "done" /\ result.complete =>
        \A o \in result.known :
            Carried(o) /\ Changed(FileOf[o.id[1]]) =>
                \E c \in result.classes : c.id = o.id /\ c.state = "verified"
================================================================================
