---------------------------- MODULE PrLifecycleProofs ----------------------------
(*****************************************************************************)
(* Theorems about PrLifecycle, for any pull requests, heads, findings and    *)
(* file contents, and any number of runs.                                    *)
(*****************************************************************************)
EXTENDS PrLifecycle, WellFoundedInduction, TLAPS

(* The bound on the runs bounds their start times.                           *)
StartsBounded == \A p \in PR, h \in HeadSha : run[p][h].start <= MaxRuns

(* A finding without a row has nothing recorded, and no run decided on it.   *)
NoneIsBlank == \A p \in PR : \A f \in With(p, "none") : row[p][f].run = 0

(* The row carries the date of the newest run that decided on it.            *)
NewestDated == \A p \in PR, f \in Finding : newest[p][f] <= row[p][f].run

(* SeenWhereVerified also holds of the rows a reopening turns open.          *)
RowSeen ==
    \A p \in PR \ seeded : \A f \in With(p, "open") \cup With(p, "closed") :
        row[p][f].seen \in HeadSha /\ <<f, tree[p][row[p][f].seen][f]>> \in verified

(* What a run read still holds when it commits: its known findings have rows,*)
(* and were verified at the heads it read.                                   *)
SnapshotVerified ==
    \A p \in PR \ seeded : \A h \in HeadSha, f \in Finding :
        run[p][h].pc = "reviewing" /\ run[p][h].pr[f] # NotKnown
        => /\ row[p][f].status # "none"
           /\ run[p][h].pr[f] \in HeadSha
           /\ <<f, tree[p][run[p][h].pr[f]][f]>> \in verified

IInv ==
    /\ TypeOK
    /\ StartsBounded
    /\ NoneIsBlank
    /\ NewestDated
    /\ StatusMatchesState
    /\ FixedHasEvidence
    /\ ResolvedHasEvidence
    /\ BranchFollowsMerges
    /\ RowSeen
    /\ SnapshotVerified

--------------------------------------------------------------------------------
(* The operators the steps are built from                                    *)

LEMMA LeastNatural ==
    ASSUME NEW T, T \subseteq Nat, T # {}
    PROVE  \E n \in T : \A m \in T : n <= m
<1>1. IsWellFoundedOn({ss \in Nat \X Nat : ss[1] < ss[2]}, Nat)
  BY NatLessThanWellFounded DEF OpToRel
<1>2. PICK x \in T : \A y \in T : <<y, x>> \notin {ss \in Nat \X Nat : ss[1] < ss[2]}
  BY <1>1, WFMin
<1>3. ASSUME NEW m \in T PROVE x <= m
  <2>1. m \in Nat /\ x \in Nat
    OBVIOUS
  <2>2. ~ (<<m, x>>[1] < <<m, x>>[2])
    BY <1>2, <2>1, <<m, x>> \in Nat \X Nat
  <2> QED
    BY <2>1, <2>2
<1> QED
  BY <1>3

(* previous_runs finds a newest run whenever any run stored the finding.     *)
LEMMA NewestStored ==
    ASSUME TypeOK, StartsBounded, NEW p \in PR, NEW h \in HeadSha, NEW f \in Finding,
           Earlier(p, h, f) # {}
    PROVE  LastStored(p, h, f) \in Earlier(p, h, f)
<1> DEFINE T == {MaxRuns - run[p][k].start : k \in Earlier(p, h, f)}
<1>1. \A k \in Earlier(p, h, f) :
          /\ run[p][k].start \in Nat
          /\ MaxRuns - run[p][k].start \in Nat
  BY ConstantsAssumption DEF Earlier, StartsBounded, TypeOK, Run
<1>2. PICK n \in T : \A m \in T : n <= m
  <2>1. T \subseteq Nat /\ T # {}
    BY <1>1
  <2> QED
    BY <2>1, LeastNatural
<1>3. PICK k \in Earlier(p, h, f) : n = MaxRuns - run[p][k].start
  BY <1>2
<1>4. \A m \in Earlier(p, h, f) : run[p][m].start <= run[p][k].start
  <2> SUFFICES ASSUME NEW m \in Earlier(p, h, f)
               PROVE  run[p][m].start <= run[p][k].start
    OBVIOUS
  <2>1. MaxRuns - run[p][k].start <= MaxRuns - run[p][m].start
    BY <1>2, <1>3
  <2> QED
    BY <1>1, <2>1, ConstantsAssumption
<1> QED
  BY <1>4 DEF LastStored

LEMMA KnownType ==
    ASSUME TypeOK, StartsBounded, NEW p \in PR, NEW h \in HeadSha, NEW f \in Finding
    PROVE  KnownInPr(p, h, f) \in HeadSha \cup {NoHead, NotKnown}
<1>1. Earlier(p, h, f) # {} => LastStored(p, h, f) \in HeadSha
  BY NewestStored DEF Earlier
<1> QED
  BY <1>1 DEF KnownInPr, TypeOK, Row

(* record_run: a row only becomes open, fixed, or stays what it was; it is   *)
(* fixed at the head of the run that proved it, and dated by the newest run. *)
LEMMA RecordedRow ==
    ASSUME NEW r \in Row, r.status = "none" => r.run = 0,
           NEW outcome, NEW inPr \in BOOLEAN, NEW h \in HeadSha, NEW t \in Nat,
           NEW new, new = Recorded(r, outcome, inPr, h, t)
    PROVE  /\ new \in Row
           /\ new.status \in {r.status, "open", "fixed"}
           /\ r.status # "none" => new.status # "none"
           /\ new.status = "none" => new.run = 0
           /\ new.status = "fixed" =>
                 \/ outcome = "fixed" /\ new.fixed = h
                 \/ r.status = "fixed" /\ new.fixed = r.fixed
           /\ r.run <= new.run
           /\ outcome \in {"observed", "fixed", "carried", "carried_unchanged"} /\ new.run # 0
              => t <= new.run
           /\ new.status # r.status => r.run <= t \/ r.status = "none"
           /\ new.status = "open" =>
                 \/ outcome = "observed" /\ new.seen = h
                 \/ outcome = "carried_unchanged" /\ inPr /\ new.seen = h /\ r.status = "open"
                 \/ outcome = "carried" /\ inPr /\ r.status = "none"
                 \/ r.status = "open" /\ new.seen = r.seen
<1>1. CASE r.status = "none" /\ outcome = "carried" /\ inPr
  BY <1>1 DEF Recorded, Row, NoRow, RowStatus
<1>2. CASE ~(r.status = "none" /\ outcome = "carried" /\ inPr) /\ ~Current(r, t)
  <2>1. new = r
    BY <1>2 DEF Recorded
  <2> QED
    BY <2>1, <1>2 DEF Current, Row
<1>3. CASE ~(r.status = "none" /\ outcome = "carried" /\ inPr) /\ Current(r, t)
  <2>1. r.run <= t
    BY <1>3 DEF Current
  <2>2. CASE outcome = "observed"
    <3>1. new = [status |-> "open", seen |-> h, fixed |-> NoHead, run |-> t]
      BY <1>3, <2>2 DEF Recorded
    <3> QED
      BY <3>1, <2>1, <2>2 DEF Row, RowStatus
  <2>3. CASE outcome = "fixed"
    <3>1. new = [r EXCEPT !.status = "fixed", !.fixed = h, !.run = t]
      BY <1>3, <2>3 DEF Recorded
    <3>2. /\ new \in Row
          /\ new.status = "fixed" /\ new.fixed = h /\ new.run = t
      BY <3>1 DEF Row, RowStatus
    <3> QED
      BY <3>2, <2>1, <2>3
  <2>4. CASE outcome \in {"carried", "carried_unchanged"} /\ r.status # "none"
    <3>1. new = [r EXCEPT !.run = t,
                          !.seen = IF outcome = "carried_unchanged" /\ inPr /\ r.status = "open"
                                   THEN h ELSE @]
      BY <1>3, <2>4 DEF Recorded
    <3>2. /\ new.status = r.status /\ new.fixed = r.fixed /\ new.run = t
          /\ new.seen = IF outcome = "carried_unchanged" /\ inPr /\ r.status = "open"
                        THEN h ELSE r.seen
      BY <3>1 DEF Row
    <3>3. new \in Row
      BY <3>1 DEF Row
    <3> QED
      BY <3>2, <3>3, <2>1, <2>4
  <2>5. CASE /\ outcome \notin {"observed", "fixed"}
             /\ ~(outcome \in {"carried", "carried_unchanged"} /\ r.status # "none")
    <3>1. new = r
      BY <1>3, <2>5 DEF Recorded
    <3> QED
      BY <3>1, <2>1, <2>5 DEF Row
  <2> QED
    BY <2>2, <2>3, <2>4, <2>5
<1> QED
  BY <1>1, <1>2, <1>3

(* review.py: only a complete run records a fix, of a finding it proved gone, *)
(* and what it carries in the pull request it knew from there.               *)
LEMMA Outcomes ==
    ASSUME NEW p \in PR, NEW h \in HeadSha, NEW f \in Finding, NEW a
    PROVE  /\ Outcome(p, h, f, a) \in
                  {"observed", "fixed", "carried", "carried_unchanged", "nothing"}
           /\ Outcome(p, h, f, a) = "observed" <=> SeenAgain(p, h, f, a)
           /\ Outcome(p, h, f, a) = "fixed" => a.complete /\ ProvedGone(p, h, f, a)
           /\ InPrScope(p, h, f) => run[p][h].pr[f] # NotKnown
           /\ Outcome(p, h, f, a) = "carried_unchanged"
              => Change(p, run[p][h].pr[f], h, f) = "unchanged"
  BY DEF Outcome, MayFix, InPrScope, Plan, ProvedGone

(* A review reopens or resolves; it touches no other verdict.                *)
LEMMA TriagedVerdict ==
    ASSUME TypeOK, NEW p \in PR, NEW h \in HeadSha, NEW f \in Finding, NEW a
    PROVE  /\ Triaged(p, h, f, a) \in TriageState
           /\ Triaged(p, h, f, a) = "resolved"
              => triage[f] = "resolved" \/ Outcome(p, h, f, a) = "fixed"
           /\ Triaged(p, h, f, a) # triage[f] => triage[f] \in {"fix_pending", "resolved"}
  BY DEF Triaged, Reopenable, SettlesClaim, Confirmed, TypeOK, TriageState

(* The row a completing run writes.                                          *)
LEMMA RowAfterCommit ==
    ASSUME TypeOK, NoneIsBlank, NEW p \in PR, NEW h \in HeadSha, NEW f \in Finding, NEW a,
           NEW r, r = row[p][f], NEW new, new = RowAfter(p, h, f, a)
    PROVE  /\ new \in Row
           /\ new.status \in {r.status, "open", "fixed"}
           /\ r.status # "none" => new.status # "none"
           /\ new.status = "none" => new.run = 0
           /\ new.status = "fixed" =>
                 \/ a.complete /\ ProvedGone(p, h, f, a) /\ new.fixed = h
                 \/ r.status = "fixed" /\ new.fixed = r.fixed
           /\ NewestAfter(p, h, f, a) \in Nat
           /\ newest[p][f] <= r.run => NewestAfter(p, h, f, a) <= new.run
           /\ new.status # r.status /\ r.status # "none" => r.run <= run[p][h].start
           /\ new.status = "open" =>
                 \/ SeenAgain(p, h, f, a) /\ new.seen = h
                 \/ /\ run[p][h].pr[f] # NotKnown
                    /\ Change(p, run[p][h].pr[f], h, f) = "unchanged"
                    /\ new.seen = h
                 \/ run[p][h].pr[f] # NotKnown /\ r.status = "none"
                 \/ r.status = "open" /\ new.seen = r.seen
<1> DEFINE outcome == Outcome(p, h, f, a)
           inPr == InPrScope(p, h, f)
           t == run[p][h].start
<1>1. r \in Row /\ (r.status = "none" => r.run = 0) /\ t \in Nat /\ newest[p][f] \in Nat
  BY DEF TypeOK, NoneIsBlank, With, Run
<1>2. inPr \in BOOLEAN
  BY DEF InPrScope
<1>3. new = Recorded(r, outcome, inPr, h, t)
  BY DEF RowAfter
<1>4. /\ NewestAfter(p, h, f, a) \in {t, newest[p][f]}
      /\ NewestAfter(p, h, f, a) # newest[p][f]
         => /\ NewestAfter(p, h, f, a) = t
            /\ outcome # "nothing"
            /\ new.run # 0
  BY DEF NewestAfter
<1>5. /\ outcome \in {"observed", "fixed", "carried", "carried_unchanged", "nothing"}
      /\ outcome = "observed" <=> SeenAgain(p, h, f, a)
      /\ outcome = "fixed" => a.complete /\ ProvedGone(p, h, f, a)
      /\ inPr => run[p][h].pr[f] # NotKnown
      /\ outcome = "carried_unchanged" => Change(p, run[p][h].pr[f], h, f) = "unchanged"
  BY Outcomes
<1> HIDE DEF outcome, inPr, t
<1>6. /\ new \in Row
      /\ new.status \in {r.status, "open", "fixed"}
      /\ r.status # "none" => new.status # "none"
      /\ new.status = "none" => new.run = 0
      /\ new.status = "fixed" =>
            \/ outcome = "fixed" /\ new.fixed = h
            \/ r.status = "fixed" /\ new.fixed = r.fixed
      /\ r.run <= new.run
      /\ outcome \in {"observed", "fixed", "carried", "carried_unchanged"} /\ new.run # 0
         => t <= new.run
      /\ new.status # r.status => r.run <= t \/ r.status = "none"
      /\ new.status = "open" =>
            \/ outcome = "observed" /\ new.seen = h
            \/ outcome = "carried_unchanged" /\ inPr /\ new.seen = h /\ r.status = "open"
            \/ outcome = "carried" /\ inPr /\ r.status = "none"
            \/ r.status = "open" /\ new.seen = r.seen
  BY <1>1, <1>2, <1>3, RecordedRow
<1>7. new.run \in Nat /\ r.run \in Nat
  BY <1>1, <1>6 DEF Row
<1>8. newest[p][f] <= r.run => NewestAfter(p, h, f, a) <= new.run
  BY <1>1, <1>4, <1>5, <1>6, <1>7
<1>9. NewestAfter(p, h, f, a) \in Nat
  BY <1>1, <1>4
<1>10. new.status # r.status /\ r.status # "none" => r.run <= run[p][h].start
  BY <1>6 DEF t
<1> QED
  BY <1>5, <1>6, <1>8, <1>9, <1>10

--------------------------------------------------------------------------------
(* Initial states and steps                                                  *)

LEMMA InitInv == Init => IInv
  BY ConstantsAssumption
  DEF Init, IInv, TypeOK, PullState, Row, RowStatus, NoRow, BranchStatus, TriageState, Run,
      NoRun, StartsBounded, NoneIsBlank, NewestDated, StatusMatchesState, FixedHasEvidence,
      ResolvedHasEvidence, BranchFollowsMerges, RowSeen, SnapshotVerified, With

(* A step that changes no pull request, row, branch, triage or history keeps *)
(* the invariant, when the runs it leaves are runs with sound snapshots.     *)
LEMMA RunStep ==
    ASSUME IInv, UNCHANGED <<tree, state, verified, evidence, newest>>,
           clock' \in 0..MaxRuns, seeded \subseteq seeded', seeded' \subseteq PR,
           run' \in [PR -> [HeadSha -> Run]], StartsBounded', SnapshotVerified'
    PROVE  IInv'
<1>1. TypeOK'
  BY DEF IInv, TypeOK, state
<1>2. /\ NoneIsBlank'
      /\ NewestDated'
      /\ StatusMatchesState'
      /\ FixedHasEvidence'
      /\ ResolvedHasEvidence'
      /\ BranchFollowsMerges'
      /\ RowSeen'
  BY DEF IInv, NoneIsBlank, NewestDated, StatusMatchesState, FixedHasEvidence,
         ResolvedHasEvidence, BranchFollowsMerges, RowSeen, With, state
<1> QED
  BY <1>1, <1>2 DEF IInv

OnlyRun(p, h, new) ==
    /\ run' \in [PR -> [HeadSha -> Run]]
    /\ run'[p][h] = new
    /\ \A q \in PR, k \in HeadSha : <<q, k>> # <<p, h>> => run'[q][k] = run[q][k]

(* Only one run of one review changes.                                       *)
LEMMA OneRun ==
    ASSUME TypeOK, NEW p \in PR, NEW h \in HeadSha, NEW new \in Run,
           run' = [run EXCEPT ![p][h] = new]
    PROVE  OnlyRun(p, h, new)
  BY DEF TypeOK, OnlyRun

LEMMA StartStep ==
    ASSUME IInv, NEW p \in PR, NEW h \in HeadSha, Start(p, h)
    PROVE  IInv'
<1> DEFINE new == [run[p][h] EXCEPT !.pc = "claimed", !.start = clock + 1]
<1>1. clock' \in 0..MaxRuns /\ clock + 1 \in Nat /\ clock + 1 <= MaxRuns
  BY ConstantsAssumption DEF IInv, TypeOK, Start
<1>2. new \in Run /\ new.pc = "claimed" /\ new.start = clock + 1
  <2>1. run[p][h] \in Run
    BY DEF IInv, TypeOK
  <2> QED
    BY <1>1, <2>1 DEF Run
<1>3. run' = [run EXCEPT ![p][h] = new]
  BY DEF Start, IInv, TypeOK
<1> HIDE DEF new
<1>4. /\ run' \in [PR -> [HeadSha -> Run]]
      /\ run'[p][h] = new
      /\ \A q \in PR, k \in HeadSha : <<q, k>> # <<p, h>> => run'[q][k] = run[q][k]
  <2>1. OnlyRun(p, h, new)
    BY <1>2, <1>3, OneRun DEF IInv
  <2> QED
    BY <2>1 DEF OnlyRun
<1>5. StartsBounded'
  BY <1>1, <1>2, <1>4 DEF IInv, StartsBounded
<1>6. SnapshotVerified'
  <2>1. \A q \in PR, k \in HeadSha : run'[q][k].pc = "reviewing" => run'[q][k] = run[q][k]
    BY <1>2, <1>4
  <2>2. UNCHANGED <<tree, row, verified, seeded>>
    BY DEF Start, history, state
  <2> QED
    BY <2>1, <2>2 DEF IInv, SnapshotVerified
<1> QED
  BY <1>1, <1>4, <1>5, <1>6, RunStep DEF Start, history, IInv, TypeOK

LEMMA FailStep ==
    ASSUME IInv, NEW p \in PR, NEW h \in HeadSha, Fail(p, h)
    PROVE  IInv'
<1>1. NoRun \in Run
  BY DEF Run, NoRun
<1>2. /\ run' \in [PR -> [HeadSha -> Run]]
      /\ run'[p][h] = NoRun
      /\ \A q \in PR, k \in HeadSha : <<q, k>> # <<p, h>> => run'[q][k] = run[q][k]
  <2>1. OnlyRun(p, h, NoRun)
    BY <1>1, OneRun DEF IInv, Fail
  <2> QED
    BY <2>1 DEF OnlyRun
<1>3. StartsBounded'
  BY <1>2, ConstantsAssumption DEF IInv, StartsBounded, NoRun
<1>4. SnapshotVerified'
  <2>1. \A q \in PR, k \in HeadSha : run'[q][k].pc = "reviewing" => run'[q][k] = run[q][k]
    BY <1>2 DEF NoRun
  <2>2. UNCHANGED <<tree, row, verified, seeded>>
    BY DEF Fail, history, state
  <2> QED
    BY <2>1, <2>2 DEF IInv, SnapshotVerified
<1> QED
  BY <1>2, <1>3, <1>4, RunStep DEF Fail, history, IInv, TypeOK

(* A run is told of the rows that are open, each verified where last seen;   *)
(* without any row it is told of stored findings, and the request is seeded. *)
LEMMA ReadKnownStep ==
    ASSUME IInv, NEW p \in PR, NEW h \in HeadSha, ReadKnown(p, h)
    PROVE  IInv'
<1> DEFINE known == [f \in Finding |-> KnownInPr(p, h, f)]
           open == {f \in Finding : branch[f] = "open"}
           new == [run[p][h] EXCEPT !.pc = "reviewing", !.pr = known, !.branch = open]
<1>1. known \in [Finding -> HeadSha \cup {NoHead, NotKnown}]
  BY KnownType DEF IInv
<1>2. run' = [run EXCEPT ![p][h] = new]
  BY DEF ReadKnown, IInv, TypeOK
<1> HIDE DEF known
<1>3. new \in Run /\ new.pr = known /\ new.start = run[p][h].start
  <2>1. run[p][h] \in Run
    BY DEF IInv, TypeOK
  <2> QED
    BY <1>1, <2>1 DEF Run
<1> HIDE DEF new
<1>4. /\ run' \in [PR -> [HeadSha -> Run]]
      /\ run'[p][h] = new
      /\ \A q \in PR, k \in HeadSha : <<q, k>> # <<p, h>> => run'[q][k] = run[q][k]
  <2>1. OnlyRun(p, h, new)
    BY <1>2, <1>3, OneRun DEF IInv
  <2> QED
    BY <2>1 DEF OnlyRun
<1>5. StartsBounded'
  BY <1>3, <1>4 DEF IInv, StartsBounded
<1>6. SnapshotVerified'
  <2> SUFFICES ASSUME NEW q \in PR \ seeded', NEW k \in HeadSha, NEW f \in Finding,
                      run'[q][k].pc = "reviewing", run'[q][k].pr[f] # NotKnown
               PROVE  /\ row[q][f].status # "none"
                      /\ run'[q][k].pr[f] \in HeadSha
                      /\ <<f, tree[q][run'[q][k].pr[f]][f]>> \in verified
    BY DEF SnapshotVerified, ReadKnown, state
  <2>1. q \notin seeded
    BY DEF ReadKnown
  <2>2. CASE <<q, k>> # <<p, h>>
    BY <1>4, <2>1, <2>2 DEF IInv, SnapshotVerified
  <2>3. CASE <<q, k>> = <<p, h>>
    <3>1. KnownInPr(p, h, f) # NotKnown /\ run'[q][k].pr[f] = KnownInPr(p, h, f)
      BY <1>3, <1>4, <2>3 DEF known
    <3>2. HasScope(p)
      BY <2>3, <3>1 DEF ReadKnown, KnownInPr
    <3>3. row[p][f].status = "open" /\ KnownInPr(p, h, f) = row[p][f].seen
      BY <3>1, <3>2 DEF KnownInPr
    <3> QED
      BY <2>1, <2>3, <3>1, <3>3 DEF IInv, RowSeen, With
  <2> QED
    BY <2>2, <2>3
<1> QED
  BY <1>4, <1>5, <1>6, RunStep DEF ReadKnown, IInv, TypeOK

(* A step that leaves merged pull requests alone leaves the branch justified.*)
LEMMA BranchKept ==
    ASSUME BranchFollowsMerges, branch' = branch,
           \A p \in PR : pull[p] = "merged" => pull'[p] = "merged" /\ row'[p] = row[p]
    PROVE  BranchFollowsMerges'
  BY DEF BranchFollowsMerges

(* _complete_review                                                          *)
LEMMA CommitStep ==
    ASSUME IInv, NEW p \in PR, NEW h \in HeadSha, NEW a, Commit(p, h, a),
           run[p][h].pc = "reviewing"
    PROVE  IInv'
<1> DEFINE new == [run[p][h] EXCEPT !.pc = "completed", !.stored = Response(p, h, a)]
<1> USE DEF IInv
<1>1. new \in Run /\ new.pc = "completed" /\ new.start = run[p][h].start
  <2>1. run[p][h] \in Run /\ Response(p, h, a) \subseteq Finding
    BY DEF TypeOK, Response, Observed
  <2> QED
    BY <2>1 DEF Run
<1>2. run' = [run EXCEPT ![p][h] = new]
  BY DEF Commit, TypeOK
<1> HIDE DEF new
<1>3. /\ run' \in [PR -> [HeadSha -> Run]]
      /\ run'[p][h] = new
      /\ \A q \in PR, k \in HeadSha : <<q, k>> # <<p, h>> => run'[q][k] = run[q][k]
  <2>1. OnlyRun(p, h, new)
    BY <1>1, <1>2, OneRun
  <2> QED
    BY <2>1 DEF OnlyRun
<1>4. UNCHANGED <<tree, pull, branch, clock, seeded>>
  BY DEF Commit
<1>5. /\ verified \subseteq verified'
      /\ verified' \subseteq Finding \X File
      /\ \A f \in Finding : SeenAgain(p, h, f, a) => <<f, tree[p][h][f]>> \in verified'
  BY Outcomes DEF Commit, Observed, TypeOK
<1>6. /\ evidence \subseteq evidence'
      /\ evidence' \subseteq PR \X HeadSha \X Finding
      /\ \A f \in Finding : a.complete /\ ProvedGone(p, h, f, a) => <<p, h, f>> \in evidence'
  BY DEF Commit, TypeOK
<1>7. \A q \in PR, f \in Finding :
          /\ q # p \/ ~ReviewIsOpen(p) => row'[q][f] = row[q][f] /\ newest'[q][f] = newest[q][f]
          /\ ReviewIsOpen(p) => /\ row'[p][f] = RowAfter(p, h, f, a)
                                /\ newest'[p][f] = NewestAfter(p, h, f, a)
                                /\ triage'[f] = Triaged(p, h, f, a)
          /\ ~ReviewIsOpen(p) => triage'[f] = triage[f]
  BY DEF Commit, TypeOK
<1>8. \A f \in Finding :
          /\ ReviewIsOpen(p) => row[p][f].status \in {"none", "open", "fixed"}
          /\ ~ReviewIsOpen(p) => row[p][f].status # "open"
  BY DEF StatusMatchesState, With, ReviewIsOpen, TypeOK, Row, RowStatus
<1>9. TypeOK'
  <2>1. CASE ReviewIsOpen(p)
    <3>1. \A f \in Finding : RowAfter(p, h, f, a) \in Row /\ NewestAfter(p, h, f, a) \in Nat
      BY RowAfterCommit
    <3>2. row' \in [PR -> [Finding -> Row]] /\ newest' \in [PR -> [Finding -> Nat]]
      <4> DEFINE rows == [f \in Finding |-> RowAfter(p, h, f, a)]
                 dates == [f \in Finding |-> NewestAfter(p, h, f, a)]
      <4>1. row' = [row EXCEPT ![p] = rows] /\ newest' = [newest EXCEPT ![p] = dates]
        BY <2>1 DEF Commit
      <4>2. rows \in [Finding -> Row] /\ dates \in [Finding -> Nat]
        BY <3>1
      <4> HIDE DEF rows, dates
      <4> QED
        BY <4>1, <4>2 DEF TypeOK
    <3>3. triage' \in [Finding -> TriageState]
      BY <2>1, TriagedVerdict DEF Commit
    <3> QED
      BY <1>3, <1>4, <1>5, <1>6, <3>2, <3>3 DEF TypeOK
  <2>2. CASE ~ReviewIsOpen(p)
    BY <1>3, <1>4, <1>5, <1>6, <2>2 DEF Commit, TypeOK
  <2> QED
    BY <2>1, <2>2
<1>10. StartsBounded'
  BY <1>1, <1>3 DEF StartsBounded
<1>11. NoneIsBlank' /\ NewestDated'
  <2> SUFFICES ASSUME NEW q \in PR, NEW f \in Finding
               PROVE  /\ row'[q][f].status = "none" => row'[q][f].run = 0
                      /\ newest'[q][f] <= row'[q][f].run
    BY DEF NoneIsBlank, NewestDated, With
  <2>1. CASE q # p \/ ~ReviewIsOpen(p)
    BY <1>7, <2>1 DEF NoneIsBlank, NewestDated, With
  <2>2. CASE q = p /\ ReviewIsOpen(p)
    <3>1. newest[p][f] <= row[p][f].run
      BY DEF NewestDated
    <3>2. /\ RowAfter(p, h, f, a).status = "none" => RowAfter(p, h, f, a).run = 0
          /\ NewestAfter(p, h, f, a) <= RowAfter(p, h, f, a).run
      BY <3>1, RowAfterCommit
    <3> QED
      BY <1>7, <2>2, <3>2
  <2> QED
    BY <2>1, <2>2
<1>12. StatusMatchesState'
  <2> SUFFICES ASSUME NEW q \in PR, NEW f \in Finding
               PROVE  /\ pull[q] = "open" => row'[q][f].status # "closed"
                      /\ pull[q] # "open" => row'[q][f].status # "open"
                      /\ pull[q] # "merged" => row'[q][f].status # "merged"
    BY <1>4 DEF StatusMatchesState, With
  <2>1. CASE q # p \/ ~ReviewIsOpen(p)
    BY <1>7, <2>1 DEF StatusMatchesState, With
  <2>2. CASE q = p /\ ReviewIsOpen(p)
    <3>1. RowAfter(p, h, f, a).status \in {row[p][f].status, "open", "fixed"}
      BY RowAfterCommit
    <3> QED
      BY <1>7, <1>8, <2>2, <3>1 DEF ReviewIsOpen
  <2> QED
    BY <2>1, <2>2
<1>13. FixedHasEvidence'
  <2> SUFFICES ASSUME NEW q \in PR, NEW f \in Finding, row'[q][f].status = "fixed"
               PROVE  <<q, row'[q][f].fixed, f>> \in evidence'
    BY DEF FixedHasEvidence, With
  <2>1. CASE q # p \/ ~ReviewIsOpen(p)
    BY <1>6, <1>7, <2>1 DEF FixedHasEvidence, With
  <2>2. CASE q = p /\ ReviewIsOpen(p)
    <3>1. \/ a.complete /\ ProvedGone(p, h, f, a) /\ RowAfter(p, h, f, a).fixed = h
          \/ row[p][f].status = "fixed" /\ RowAfter(p, h, f, a).fixed = row[p][f].fixed
      BY <1>7, <2>2, RowAfterCommit
    <3> QED
      BY <1>6, <1>7, <2>2, <3>1 DEF FixedHasEvidence, With
  <2> QED
    BY <2>1, <2>2
<1>14. ResolvedHasEvidence'
  <2> SUFFICES ASSUME NEW f \in Finding, triage'[f] = "resolved"
               PROVE  \E q \in PR, k \in HeadSha : <<q, k, f>> \in evidence'
    BY DEF ResolvedHasEvidence
  <2>1. CASE triage[f] = "resolved"
    BY <1>6, <2>1 DEF ResolvedHasEvidence
  <2>2. CASE triage[f] # "resolved"
    <3>1. ReviewIsOpen(p) /\ Outcome(p, h, f, a) = "fixed"
      BY <1>7, <2>2, TriagedVerdict
    <3> QED
      BY <1>6, <3>1, Outcomes
  <2> QED
    BY <2>1, <2>2
<1>15. BranchFollowsMerges'
  <2>1. \A q \in PR : pull[q] = "merged" => row'[q] = row[q]
    BY DEF Commit, ReviewIsOpen, TypeOK
  <2> QED
    BY <1>4, <2>1, BranchKept
<1>16. RowSeen'
  <2> SUFFICES ASSUME NEW q \in PR \ seeded, NEW f \in Finding,
                      row'[q][f].status \in {"open", "closed"}
               PROVE  /\ row'[q][f].seen \in HeadSha
                      /\ <<f, tree[q][row'[q][f].seen][f]>> \in verified'
    BY <1>4 DEF RowSeen, With
  <2>1. row[q][f].status \in {"open", "closed"}
        => row[q][f].seen \in HeadSha /\ <<f, tree[q][row[q][f].seen][f]>> \in verified'
    BY <1>5 DEF RowSeen, With
  <2>2. CASE q # p \/ ~ReviewIsOpen(p)
    BY <1>7, <2>1, <2>2
  <2>3. CASE q = p /\ ReviewIsOpen(p)
    <3> DEFINE old == run[p][h].pr[f]
               after == RowAfter(p, h, f, a)
    <3>1. after.status = "open" /\ row'[q][f] = after
      <4>1. after.status \in {row[p][f].status, "open", "fixed"}
        BY RowAfterCommit
      <4> QED
        BY <1>7, <1>8, <2>3, <4>1
    <3>2. \/ SeenAgain(p, h, f, a) /\ after.seen = h
          \/ old # NotKnown /\ Change(p, old, h, f) = "unchanged" /\ after.seen = h
          \/ old # NotKnown /\ row[p][f].status = "none"
          \/ row[p][f].status = "open" /\ after.seen = row[p][f].seen
      BY <3>1, RowAfterCommit
    <3>3. old # NotKnown
          => row[p][f].status # "none" /\ old \in HeadSha /\ <<f, tree[p][old][f]>> \in verified
      BY <2>3 DEF SnapshotVerified
    <3> HIDE DEF old, after
    <3>4. CASE SeenAgain(p, h, f, a) /\ after.seen = h
      BY <1>5, <2>3, <3>1, <3>4
    <3>5. CASE old # NotKnown /\ Change(p, old, h, f) = "unchanged" /\ after.seen = h
      <4>1. tree[p][old][f] = tree[p][h][f]
        BY <3>3, <3>5, ConstantsAssumption DEF Change
      <4> QED
        BY <1>5, <2>3, <3>1, <3>3, <3>5, <4>1
    <3>6. CASE row[p][f].status = "open" /\ after.seen = row[p][f].seen
      BY <2>1, <2>3, <3>1, <3>6
    <3> QED
      BY <3>2, <3>3, <3>4, <3>5, <3>6
  <2> QED
    BY <2>2, <2>3
<1>17. SnapshotVerified'
  <2>1. \A f \in Finding :
            row[p][f].status # "none" => RowAfter(p, h, f, a).status # "none"
    BY RowAfterCommit
  <2> SUFFICES ASSUME NEW q \in PR \ seeded, NEW k \in HeadSha, NEW f \in Finding,
                      run'[q][k].pc = "reviewing", run'[q][k].pr[f] # NotKnown
               PROVE  /\ row'[q][f].status # "none"
                      /\ run'[q][k].pr[f] \in HeadSha
                      /\ <<f, tree[q][run'[q][k].pr[f]][f]>> \in verified'
    BY <1>4 DEF SnapshotVerified
  <2>2. run'[q][k] = run[q][k]
    BY <1>1, <1>3
  <2>3. /\ row[q][f].status # "none"
        /\ run[q][k].pr[f] \in HeadSha
        /\ <<f, tree[q][run[q][k].pr[f]][f]>> \in verified
    BY <2>2 DEF SnapshotVerified
  <2>4. row'[q][f].status # "none"
    BY <1>7, <2>1, <2>3
  <2> QED
    BY <1>5, <2>2, <2>3, <2>4
<1> QED
  BY <1>9, <1>10, <1>11, <1>12, <1>13, <1>14, <1>15, <1>16, <1>17

--------------------------------------------------------------------------------
(* Webhooks and commands                                                     *)

(* A webhook restates the rows of one pull request that have one status.     *)
LEMMA RestatedRows ==
    ASSUME TypeOK, NEW p \in PR, NEW from \in RowStatus, NEW to \in RowStatus,
           row' = Restated(p, from, to)
    PROVE  /\ row' \in [PR -> [Finding -> Row]]
           /\ \A q \in PR \ {p} : row'[q] = row[q]
           /\ \A f \in Finding :
                 /\ row'[p][f].seen = row[p][f].seen
                 /\ row'[p][f].fixed = row[p][f].fixed
                 /\ row'[p][f].run = row[p][f].run
                 /\ row[p][f].status = from => row'[p][f].status = to
                 /\ row[p][f].status # from => row'[p][f].status = row[p][f].status
<1> DEFINE rows == [f \in Finding |-> IF row[p][f].status = from
                                     THEN [row[p][f] EXCEPT !.status = to] ELSE row[p][f]]
<1>1. \A f \in Finding : row[p][f] \in Row
  BY DEF TypeOK
<1>2. \A f \in Finding :
          /\ rows[f] \in Row
          /\ rows[f].seen = row[p][f].seen
          /\ rows[f].fixed = row[p][f].fixed
          /\ rows[f].run = row[p][f].run
          /\ row[p][f].status = from => rows[f].status = to
          /\ row[p][f].status # from => rows[f].status = row[p][f].status
  BY <1>1 DEF Row
<1>3. rows \in [Finding -> Row]
  BY <1>2
<1>4. row' = [row EXCEPT ![p] = rows]
  BY DEF Restated
<1> HIDE DEF rows
<1> QED
  BY <1>2, <1>3, <1>4 DEF TypeOK

(* A webhook changes one pull request, its rows and what follows from them;  *)
(* "none", "fixed" and, for what is open again, what was seen stay.          *)
LEMMA WebhookStep ==
    ASSUME IInv, NEW p \in PR, NEW from \in RowStatus, NEW to \in RowStatus,
           row' = Restated(p, from, to),
           UNCHANGED <<tree, run, clock, history>>,
           pull' \in [PR -> PullState], \A q \in PR \ {p} : pull'[q] = pull[q],
           triage' \in [Finding -> TriageState], branch' \in [Finding -> BranchStatus],
           {from, to} \cap {"none", "fixed"} = {},
           to = "open" => from = "closed", to = "closed" => from = "open",
           \A f \in Finding : triage'[f] = "resolved"
               => triage[f] = "resolved" \/ row[p][f].status = "fixed",
           StatusMatchesState', BranchFollowsMerges'
    PROVE  IInv'
<1>1. /\ row' \in [PR -> [Finding -> Row]]
      /\ \A q \in PR \ {p} : row'[q] = row[q]
      /\ \A f \in Finding :
            /\ row'[p][f].seen = row[p][f].seen
            /\ row'[p][f].fixed = row[p][f].fixed
            /\ row'[p][f].run = row[p][f].run
            /\ row[p][f].status = from => row'[p][f].status = to
            /\ row[p][f].status # from => row'[p][f].status = row[p][f].status
  <2>1. TypeOK
    BY DEF IInv
  <2> QED
    BY <2>1, RestatedRows
<1>2. \A q \in PR, f \in Finding :
          /\ row'[q][f].seen = row[q][f].seen
          /\ row'[q][f].fixed = row[q][f].fixed
          /\ row'[q][f].run = row[q][f].run
          /\ row'[q][f].status = "none" <=> row[q][f].status = "none"
          /\ row'[q][f].status = "fixed" <=> row[q][f].status = "fixed"
          /\ row'[q][f].status \in {"open", "closed"} => row[q][f].status \in {"open", "closed"}
  <2>1. from \notin {"none", "fixed"} /\ to \notin {"none", "fixed"}
    OBVIOUS
  <2> SUFFICES ASSUME NEW f \in Finding
               PROVE  /\ row'[p][f].status = "none" <=> row[p][f].status = "none"
                      /\ row'[p][f].status = "fixed" <=> row[p][f].status = "fixed"
                      /\ row'[p][f].status \in {"open", "closed"}
                         => row[p][f].status \in {"open", "closed"}
    BY <1>1
  <2>2. CASE row[p][f].status = from
    BY <1>1, <2>1, <2>2
  <2>3. CASE row[p][f].status # from
    BY <1>1, <2>3
  <2> QED
    BY <2>2, <2>3
<1>3. UNCHANGED <<tree, run, clock, verified, evidence, seeded, newest>>
  BY DEF history
<1>4. TypeOK'
  BY <1>1, <1>3 DEF IInv, TypeOK
<1>5. StartsBounded' /\ NoneIsBlank' /\ NewestDated'
  BY <1>2, <1>3 DEF IInv, StartsBounded, NoneIsBlank, NewestDated, With
<1>6. FixedHasEvidence'
  BY <1>2, <1>3 DEF IInv, FixedHasEvidence, With
<1>7. ResolvedHasEvidence'
  <2> SUFFICES ASSUME NEW f \in Finding, triage'[f] = "resolved"
               PROVE  \E q \in PR, k \in HeadSha : <<q, k, f>> \in evidence
    BY <1>3 DEF ResolvedHasEvidence
  <2>1. CASE triage[f] = "resolved"
    BY <2>1 DEF IInv, ResolvedHasEvidence
  <2>2. CASE row[p][f].status = "fixed"
    <3>1. <<p, row[p][f].fixed, f>> \in evidence
      BY <2>2 DEF IInv, FixedHasEvidence, With
    <3>2. row[p][f].fixed \in HeadSha
      BY <3>1 DEF IInv, TypeOK
    <3> QED
      BY <3>1, <3>2
  <2> QED
    BY <2>1, <2>2
<1>8. RowSeen'
  BY <1>2, <1>3 DEF IInv, RowSeen, With
<1>9. SnapshotVerified'
  BY <1>2, <1>3 DEF IInv, SnapshotVerified
<1> QED
  BY <1>4, <1>5, <1>6, <1>7, <1>8, <1>9 DEF IInv

LEMMA CloseStep ==
    ASSUME IInv, NEW p \in PR, Close(p)
    PROVE  IInv'
<1>1. /\ row' = Restated(p, "open", "closed")
      /\ UNCHANGED <<tree, run, clock, history, branch, triage>>
      /\ {"open", "closed"} \subseteq RowStatus
  BY DEF Close, RowStatus
<1>2. /\ pull' \in [PR -> PullState] /\ pull'[p] = "closed" /\ pull[p] = "open"
      /\ \A q \in PR \ {p} : pull'[q] = pull[q]
  BY DEF Close, IInv, TypeOK, PullState
<1>3. /\ \A q \in PR \ {p} : row'[q] = row[q]
      /\ \A f \in Finding :
            /\ row[p][f].status = "open" => row'[p][f].status = "closed"
            /\ row[p][f].status # "open" => row'[p][f].status = row[p][f].status
  <2>1. TypeOK
    BY DEF IInv
  <2> QED
    BY <1>1, <2>1, RestatedRows
<1>4. StatusMatchesState'
  BY <1>2, <1>3 DEF IInv, StatusMatchesState, With
<1>5. BranchFollowsMerges'
  BY <1>1, <1>2, <1>3, BranchKept DEF IInv
<1>6. triage' \in [Finding -> TriageState] /\ branch' \in [Finding -> BranchStatus]
  BY <1>1 DEF IInv, TypeOK
<1> QED
  BY <1>1, <1>2, <1>4, <1>5, <1>6, WebhookStep

LEMMA ReopenStep ==
    ASSUME IInv, NEW p \in PR, Reopen(p)
    PROVE  IInv'
<1>1. /\ row' = Restated(p, "closed", "open")
      /\ UNCHANGED <<tree, run, clock, history, branch, triage>>
      /\ {"open", "closed"} \subseteq RowStatus
  BY DEF Reopen, RowStatus
<1>2. /\ pull' \in [PR -> PullState] /\ pull'[p] = "open" /\ pull[p] = "closed"
      /\ \A q \in PR \ {p} : pull'[q] = pull[q]
  BY DEF Reopen, IInv, TypeOK, PullState
<1>3. /\ \A q \in PR \ {p} : row'[q] = row[q]
      /\ \A f \in Finding :
            /\ row[p][f].status = "closed" => row'[p][f].status = "open"
            /\ row[p][f].status # "closed" => row'[p][f].status = row[p][f].status
  <2>1. TypeOK
    BY DEF IInv
  <2> QED
    BY <1>1, <2>1, RestatedRows
<1>4. StatusMatchesState'
  BY <1>2, <1>3 DEF IInv, StatusMatchesState, With
<1>5. BranchFollowsMerges'
  BY <1>1, <1>2, <1>3, BranchKept DEF IInv
<1>6. triage' \in [Finding -> TriageState] /\ branch' \in [Finding -> BranchStatus]
  BY <1>1 DEF IInv, TypeOK
<1> QED
  BY <1>1, <1>2, <1>4, <1>5, <1>6, WebhookStep

LEMMA MergeStep ==
    ASSUME IInv, NEW p \in PR, Merge(p)
    PROVE  IInv'
<1>1. /\ row' = Restated(p, "open", "merged")
      /\ UNCHANGED <<tree, run, clock, history>>
      /\ {"open", "merged"} \subseteq RowStatus
  BY DEF Merge, RowStatus
<1>2. /\ pull' \in [PR -> PullState] /\ pull'[p] = "merged" /\ pull[p] # "merged"
      /\ \A q \in PR \ {p} : pull'[q] = pull[q]
  BY DEF Merge, IInv, TypeOK, PullState
<1>3. /\ \A q \in PR \ {p} : row'[q] = row[q]
      /\ \A f \in Finding :
            /\ row[p][f].status = "open" => row'[p][f].status = "merged"
            /\ row[p][f].status # "open" => row'[p][f].status = row[p][f].status
  <2>1. TypeOK
    BY DEF IInv
  <2> QED
    BY <1>1, <2>1, RestatedRows
<1>4. StatusMatchesState'
  BY <1>2, <1>3 DEF IInv, StatusMatchesState, With
<1>5. \A f \in Finding :
          branch'[f] = IF row[p][f].status = "open" THEN "open"
                       ELSE IF row[p][f].status = "fixed" /\ branch[f] = "open" THEN "fixed"
                       ELSE branch[f]
  BY DEF Merge, BranchAfterMerge, With
<1>6. BranchFollowsMerges'
  <2> SUFFICES ASSUME NEW f \in Finding
               PROVE  /\ branch'[f] # "none"
                         => \E q \in PR : pull'[q] = "merged" /\ row'[q][f].status = "merged"
                      /\ branch'[f] = "fixed"
                         => \E q \in PR : pull'[q] = "merged" /\ row'[q][f].status = "fixed"
    BY DEF BranchFollowsMerges
  <2>1. \A q \in PR : pull[q] = "merged" => pull'[q] = "merged" /\ row'[q] = row[q]
    BY <1>2, <1>3
  <2>2. CASE row[p][f].status = "open"
    BY <1>2, <1>3, <1>5, <2>2
  <2>3. CASE row[p][f].status = "fixed" /\ branch[f] = "open"
    BY <1>2, <1>3, <1>5, <2>1, <2>3 DEF IInv, BranchFollowsMerges
  <2>4. CASE row[p][f].status # "open" /\ ~(row[p][f].status = "fixed" /\ branch[f] = "open")
    BY <1>5, <2>1, <2>4 DEF IInv, BranchFollowsMerges
  <2> QED
    BY <2>2, <2>3, <2>4
<1>7. branch' \in [Finding -> BranchStatus]
  BY DEF Merge, BranchAfterMerge, IInv, TypeOK, BranchStatus
<1>8. /\ triage' \in [Finding -> TriageState]
      /\ \A f \in Finding : triage'[f] = "resolved"
             => triage[f] = "resolved" \/ row[p][f].status = "fixed"
  BY DEF Merge, Confirmed, With, IInv, TypeOK, TriageState
<1> QED
  BY <1>1, <1>2, <1>4, <1>6, <1>7, <1>8, WebhookStep

(* A command names a verdict; it resolves nothing by itself.                 *)
LEMMA ApplyStep ==
    ASSUME IInv, NEW f \in Finding, NEW command \in Commands, Apply(f, command)
    PROVE  IInv'
<1>1. Transition(command).to \in TriageState \ {"resolved"}
  BY DEF Commands, Transition, TriageState
<1>2. /\ triage' \in [Finding -> TriageState]
      /\ \A g \in Finding : triage'[g] = "resolved" => triage[g] = "resolved"
  BY <1>1 DEF Apply, IInv, TypeOK
<1>3. UNCHANGED <<tree, pull, row, branch, run, clock, verified, evidence, seeded, newest>>
  BY DEF Apply, history
<1>4. TypeOK'
  BY <1>2, <1>3 DEF IInv, TypeOK
<1>5. /\ StartsBounded'
      /\ NoneIsBlank'
      /\ NewestDated'
      /\ StatusMatchesState'
      /\ FixedHasEvidence'
      /\ BranchFollowsMerges'
      /\ RowSeen'
      /\ SnapshotVerified'
  BY <1>3 DEF IInv, StartsBounded, NoneIsBlank, NewestDated, StatusMatchesState,
              FixedHasEvidence, BranchFollowsMerges, RowSeen, SnapshotVerified, With
<1>6. ResolvedHasEvidence'
  BY <1>2, <1>3 DEF IInv, ResolvedHasEvidence
<1> QED
  BY <1>4, <1>5, <1>6 DEF IInv

--------------------------------------------------------------------------------
(* Theorems                                                                  *)

LEMMA StutterInv == IInv /\ UNCHANGED vars => IInv'
<1> SUFFICES ASSUME IInv, UNCHANGED vars PROVE IInv'
  OBVIOUS
<1>1. UNCHANGED <<tree, pull, row, branch, triage, run, clock, verified, evidence, seeded,
                  newest>>
  BY DEF vars, state, history
<1>2. TypeOK'
  BY <1>1 DEF IInv, TypeOK
<1>3. StartsBounded' /\ NoneIsBlank' /\ NewestDated' /\ StatusMatchesState'
  BY <1>1 DEF IInv, StartsBounded, NoneIsBlank, NewestDated, StatusMatchesState, With
<1>4. FixedHasEvidence' /\ ResolvedHasEvidence' /\ BranchFollowsMerges'
  BY <1>1 DEF IInv, FixedHasEvidence, ResolvedHasEvidence, BranchFollowsMerges, With
<1>5. RowSeen' /\ SnapshotVerified'
  BY <1>1 DEF IInv, RowSeen, SnapshotVerified, With
<1> QED
  BY <1>2, <1>3, <1>4, <1>5 DEF IInv

LEMMA NextInv == IInv /\ [Next]_vars => IInv'
<1> SUFFICES ASSUME IInv, [Next]_vars PROVE IInv'
  OBVIOUS
<1>1. ASSUME NEW p \in PR, NEW h \in HeadSha, Start(p, h) PROVE IInv'
  BY <1>1, StartStep
<1>2. ASSUME NEW p \in PR, NEW h \in HeadSha, ReadKnown(p, h) PROVE IInv'
  BY <1>2, ReadKnownStep
<1>3. ASSUME NEW p \in PR, NEW h \in HeadSha, Complete(p, h) PROVE IInv'
  BY <1>3, CommitStep DEF Complete
<1>4. ASSUME NEW p \in PR, NEW h \in HeadSha, Fail(p, h) PROVE IInv'
  BY <1>4, FailStep
<1>5. ASSUME NEW p \in PR, Close(p) PROVE IInv'
  BY <1>5, CloseStep
<1>6. ASSUME NEW p \in PR, Merge(p) PROVE IInv'
  BY <1>6, MergeStep
<1>7. ASSUME NEW p \in PR, Reopen(p) PROVE IInv'
  BY <1>7, ReopenStep
<1>8. ASSUME NEW f \in Finding, NEW command \in Commands, Apply(f, command) PROVE IInv'
  BY <1>8, ApplyStep
<1>9. CASE UNCHANGED vars
  BY <1>9, StutterInv
<1> QED
  BY <1>1, <1>2, <1>3, <1>4, <1>5, <1>6, <1>7, <1>8, <1>9 DEF Next

LEMMA Invariance == Spec => []IInv
  BY InitInv, NextInv, PTL DEF Spec

(* Every row, run and triage state stays in its type.                        *)
THEOREM TypeCorrect == Spec => []TypeOK
  BY Invariance, PTL DEF IInv

(* The rows agree with the pull request, however the webhooks and the commits*)
(* of late runs interleave.                                                  *)
THEOREM RowsFollowPullRequest == Spec => []StatusMatchesState
  BY Invariance, PTL DEF IInv

(* No finding is marked fixed in a pull request without a complete run that  *)
(* proved it gone at that head.                                              *)
THEOREM FixesAreProved == Spec => []FixedHasEvidence
  BY Invariance, PTL DEF IInv

(* No claim of a fix is settled without such a run.                          *)
THEOREM ResolutionsAreProved == Spec => []ResolvedHasEvidence
  BY Invariance, PTL DEF IInv

(* What is known of the default branch came with merges.                     *)
THEOREM BranchIsMerged == Spec => []BranchFollowsMerges
  BY Invariance, PTL DEF IInv

(* An open finding was verified in the file as it is at its last seen head,  *)
(* in a pull request that was never seeded from stored findings.             *)
THEOREM LastSeenHolds == Spec => []SeenWhereVerified
<1>1. IInv => SeenWhereVerified
  BY DEF IInv, RowSeen, SeenWhereVerified, With
<1> QED
  BY <1>1, Invariance, PTL

(* An older run that finishes late never undoes what a newer one decided.    *)
THEOREM OlderRunYields == Spec => NewerRunWins
<1> DEFINE Step ==
      \A p \in PR, h \in HeadSha, f \in Finding :
          /\ Completes(p, h)
          /\ row[p][f].status \notin {"none", row'[p][f].status}
          => newest[p][f] <= run[p][h].start
<1>1. IInv /\ Next => Step
  <2> SUFFICES ASSUME IInv, Next, NEW p \in PR, NEW h \in HeadSha, NEW f \in Finding,
                      Completes(p, h), row[p][f].status \notin {"none", row'[p][f].status}
               PROVE  newest[p][f] <= run[p][h].start
    OBVIOUS
  <2>1. PICK a : run[p][h].pc = "reviewing" /\ Commit(p, h, a)
    <3>1. ASSUME NEW q \in PR, NEW k \in HeadSha, Start(q, k) PROVE FALSE
      BY <3>1 DEF Start, Completes, IInv, TypeOK, Run
    <3>2. ASSUME NEW q \in PR, NEW k \in HeadSha, ReadKnown(q, k) PROVE FALSE
      BY <3>2 DEF ReadKnown, Completes, IInv, TypeOK, Run
    <3>3. ASSUME NEW q \in PR, NEW k \in HeadSha, Fail(q, k) PROVE FALSE
      BY <3>3 DEF Fail, NoRun, Completes, IInv, TypeOK
    <3>4. run' # run
      BY DEF Completes
    <3>5. ASSUME NEW q \in PR, NEW k \in HeadSha, NEW a, Commit(q, k, a)
          PROVE  q = p /\ k = h
      BY <3>5 DEF Commit, Completes, IInv, TypeOK
    <3> QED
      BY <3>1, <3>2, <3>3, <3>4, <3>5 DEF Next, Complete, Close, Merge, Reopen, Apply
  <2>2. row'[p][f] = RowAfter(p, h, f, a)
    BY <2>1 DEF Commit, IInv, TypeOK
  <2>3. row[p][f].run <= run[p][h].start
    BY <2>2, RowAfterCommit DEF IInv
  <2>4. newest[p][f] <= row[p][f].run
    BY DEF IInv, NewestDated
  <2>5. /\ newest[p][f] \in Nat
        /\ row[p][f].run \in Nat
        /\ run[p][h].start \in Nat
    BY DEF IInv, TypeOK, Row, Run
  <2> QED
    BY <2>3, <2>4, <2>5
<1>2. IInv /\ [Next]_vars => [Step]_vars
  BY <1>1
<1>3. Spec => [][Step]_vars
  BY <1>2, Invariance, PTL DEF Spec
<1> QED
  BY <1>3, PTL DEF NewerRunWins

(* Only a command changes what a human decided.                              *)
THEOREM VerdictsAreHuman == Spec => VerdictSurvives
<1> DEFINE Step ==
      \A f \in Finding :
          triage[f] \in {"false_positive", "accepted_risk", "confirmed"} /\ triage'[f] # triage[f]
          => UNCHANGED <<pull, row, branch, run>>
<1>1. IInv /\ Next => Step
  <2> SUFFICES ASSUME IInv, Next, NEW f \in Finding,
                      triage[f] \in {"false_positive", "accepted_risk", "confirmed"},
                      triage'[f] # triage[f]
               PROVE  UNCHANGED <<pull, row, branch, run>>
    OBVIOUS
  <2>1. ASSUME NEW p \in PR, NEW h \in HeadSha, NEW a, Commit(p, h, a) PROVE FALSE
    <3>1. triage'[f] = Triaged(p, h, f, a)
      BY <2>1 DEF Commit
    <3> QED
      BY <3>1, TriagedVerdict DEF IInv
  <2>2. ASSUME NEW p \in PR, Merge(p) PROVE FALSE
    BY <2>2 DEF Merge, Confirmed
  <2>3. triage' # triage
    OBVIOUS
  <2> QED
    BY <2>1, <2>2, <2>3
    DEF Next, Start, ReadKnown, Complete, Fail, Close, Reopen, Apply, state
<1>2. IInv /\ [Next]_vars => [Step]_vars
  BY <1>1
<1>3. Spec => [][Step]_vars
  BY <1>2, Invariance, PTL DEF Spec
<1> QED
  BY <1>3, PTL DEF VerdictSurvives


================================================================================
