------------------------------ MODULE ScanPipeline ------------------------------
(*****************************************************************************)
(* One scan after another of the same codebase (SastPipeline.scan_snapshot): *)
(* discovery, rounds of independent review, variant and capability sweeps of *)
(* what was verified, consolidation, the policy decision, and the final      *)
(* transaction; with a resume store on disk, crashes, and runs that resume.  *)
(*                                                                           *)
(* A candidate is one report of one place in the code.  Two candidates may   *)
(* have one fingerprint (their lines differ, all the rest is the same) or be *)
(* one issue (is_same_issue); neither implies the other.                     *)
(*                                                                           *)
(* A model stage is one call of the agent.  Its answers are kept in the      *)
(* store (module ModelCalls says how), so a stage that is repeated gets the  *)
(* same answers and asks the provider only for what is missing.  An answer   *)
(* may fit the schema and be rejected by the checks that follow: it is kept. *)
(*                                                                           *)
(* Left out: findings carried forward from an earlier scan (GraphReuse),     *)
(* patches and telemetry, which no later decision reads.                     *)
(*****************************************************************************)
EXTENDS Naturals, FiniteSets

CONSTANTS
    Cand,           \* what discovery and the sweeps may report
    Fingerprint,
    FpOf,           \* candidate_fingerprint
    Issue,
    IssueOf,        \* candidates of one issue are the same to CandidateIndex
    Deep,           \* the candidates CandidateRouter gives the deep tier
    Gravity,        \* severity against the policy: "block", "warn", "none"
    DeepMax,        \* deep_hunt_budget_max
    Workers,        \* discovery_max_workers
    Reportable,     \* bound: the candidates each kind of stage can report
    MaxRuns,        \* bound: scans
    MaxFaults,      \* bound: failures and kills, of all scans together
    None

ASSUME ConstantsAssumption ==
    /\ FpOf \in [Cand -> Fingerprint]
    /\ IssueOf \in [Cand -> Issue]
    /\ Deep \subseteq Cand
    /\ Gravity \in [Cand -> {"block", "warn", "none"}]
    /\ DeepMax \in Nat /\ MaxRuns \in Nat /\ MaxFaults \in Nat
    /\ Workers \in Nat \ {0}
    /\ Reportable \in [{"discovery", "variants", "chain"} -> SUBSET Cand]
    /\ None \notin Cand
    /\ IsFiniteSet(Cand)

ReviewRecord == [of : Cand, outcome : {"supported", "unsupported"}]

ASSUME NoneAssumption == None \notin {"supported", "unsupported", "rejected"} \cup ReviewRecord

(* A model stage by what its prompts are made from: the verified candidates  *)
(* of a round for a sweep, all verified candidates for the consolidation.    *)
Stage ==
    ({"variants", "chain", "consolidation"} \X (SUBSET Cand)) \cup {<<"discovery", {}>>}

VARIABLES
    \* on disk
    stage,      \* of each stage: "new", "pending", "rejected" or "done"
    found,      \* the candidates in the answers to each stage
    answer,     \* the answer on file to the review calls of each candidate
    asking,     \* the candidates one of whose review calls is pending
    reviews,    \* checkpoint stage "review": fingerprint to a review or None
    row,        \* the scan_runs row of this run and the findings saved with it
    \* the running scan
    run,
    pc,
    planned,    \* context and plan were built
    indexed,    \* persistence_indexed
    queue,      \* work_queue, the candidates of this round
    todo,       \* next_round
    at,         \* where the review of each candidate is
    seen,       \* seen_candidates
    tier,       \* the tier each candidate is reviewed with in this run
    deepUsed,   \* deep_budget_used
    findings,   \* pairs: the candidate, and the one whose review it carries
    verified,   \* verified_round
    failed,     \* the failure counters that are not zero
    trouble,    \* history: the provider or the database failed this run
    faults,     \* how often something failed, in all runs
    report      \* the ScanResult of this run

disk == <<stage, found, answer, asking, reviews>>
process == <<planned, queue, todo, at, seen, tier, deepUsed, findings, verified, failed>>
vars == <<disk, process, row, run, pc, indexed, trouble, faults, report>>

(* Something fails or is killed. *)
Fault ==
    /\ faults < MaxFaults
    /\ faults' = faults + 1
    /\ trouble' = TRUE

--------------------------------------------------------------------------------
NoRow == [status |-> "none", findings |-> {}]
NoReport == [status |-> "none", decision |-> "none", findings |-> {}, gaps |-> {}]

Running == pc \notin {"idle", "over"}

(* Where a candidate's review can be: not admitted, waiting, looked up and   *)
(* under way, judged and not yet on file, or disposed of.                    *)
Disposed == {"supported", "unsupported", "failed"}
ReviewStep == {"out", "waiting", "hunting", "judged"} \cup Disposed

FingerprintsOf(S) == {FpOf[c] : c \in S}

OnePer(key, picked, S) ==
    /\ picked \subseteq S
    /\ \A c \in S : Cardinality({d \in picked : key[d] = key[c]}) = 1

NewRun ==
    /\ planned' = FALSE
    /\ queue' = {}
    /\ todo' = {}
    /\ at' = [c \in Cand |-> "out"]
    /\ seen' = {}
    /\ tier' = [c \in Cand |-> "none"]
    /\ deepUsed' = 0
    /\ findings' = {}
    /\ verified' = {}
    /\ failed' = {}
    /\ report' = NoReport

Init ==
    /\ stage = [s \in Stage |-> "new"]
    /\ found = [s \in Stage |-> {}]
    /\ answer = [c \in Cand |-> None]
    /\ asking = {}
    /\ reviews = [f \in Fingerprint |-> None]
    /\ row = NoRow
    /\ run = 0
    /\ pc = "idle"
    /\ planned = FALSE
    /\ indexed = FALSE
    /\ queue = {}
    /\ todo = {}
    /\ at = [c \in Cand |-> "out"]
    /\ seen = {}
    /\ tier = [c \in Cand |-> "none"]
    /\ deepUsed = 0
    /\ findings = {}
    /\ verified = {}
    /\ failed = {}
    /\ trouble = FALSE
    /\ faults = 0
    /\ report = NoReport

--------------------------------------------------------------------------------
(* Beginning and end of a process                                            *)

(* The store is opened, emptied when the scope of the scan changed, and the  *)
(* scan is entered in the database, which may fail without ending the scan.  *)
Start(sameScope, stored) ==
    /\ pc = "idle"
    /\ run < MaxRuns
    /\ run' = run + 1
    /\ IF sameScope
       THEN UNCHANGED disk
       ELSE /\ stage' = [s \in Stage |-> "new"]
            /\ found' = [s \in Stage |-> {}]
            /\ answer' = [c \in Cand |-> None]
            /\ asking' = {}
            /\ reviews' = [f \in Fingerprint |-> None]
    /\ row' = IF stored THEN [NoRow EXCEPT !.status = "RUNNING"] ELSE NoRow
    /\ indexed' = stored
    /\ trouble' = ~stored
    /\ faults' = IF stored THEN faults ELSE faults + 1
    /\ faults' <= MaxFaults
    /\ pc' = "discovery"
    /\ NewRun

(* The process dies, or a stage whose errors are not tolerated raises.       *)
Crash ==
    /\ Running
    /\ Fault
    /\ pc' = "idle"
    /\ NewRun
    /\ UNCHANGED <<disk, row, run, indexed>>

Exit ==
    /\ pc = "over"
    /\ pc' = "idle"
    /\ NewRun
    /\ UNCHANGED <<disk, row, run, indexed, trouble, faults>>

--------------------------------------------------------------------------------
(* One model stage.  It succeeds, or it fails and is counted in failed.      *)

(* Whether a sweep of a round with these fingerprints is on file.            *)
OnFile(kind, S) ==
    {s \in Stage : /\ s[1] = kind
                   /\ stage[s] = "done"
                   /\ FingerprintsOf(s[2]) = FingerprintsOf(S)}

(* The stage is repeated from the store without a request.                   *)
Replay(s, S, counter) ==
    /\ stage[s] \in {"done", "rejected"}
    /\ S = found[s]
    /\ failed' = IF stage[s] = "done" THEN failed ELSE failed \cup {counter}
    /\ UNCHANGED <<stage, found, trouble, faults>>

(* The provider is asked.  What it answered before is part of the result.    *)
Ask(s, S, counter) ==
    /\ stage[s] \in {"new", "pending"}
    /\ found[s] \subseteq S
    /\ found' = [found EXCEPT ![s] = S]
    /\ \E status \in {"done", "pending", "rejected"} :
          /\ stage' = [stage EXCEPT ![s] = status]
          /\ failed' = IF status = "done" THEN failed ELSE failed \cup {counter}
          /\ IF status = "done" THEN UNCHANGED <<trouble, faults>> ELSE Fault

Stages(s, S, counter) == Replay(s, S, counter) \/ Ask(s, S, counter)

--------------------------------------------------------------------------------
(* Discovery                                                                 *)

(* deduplicate: one candidate per fingerprint, of these one per issue.       *)
Deduplicated(kept, S) ==
    \E unique \in SUBSET S : /\ OnePer(FpOf, unique, S)
                             /\ OnePer(IssueOf, kept, unique)

Admit(kept) ==
    /\ todo' = todo \cup kept
    /\ seen' = seen \cup kept

Discover(S, kept) ==
    /\ pc = "discovery"
    /\ Stages(<<"discovery", {}>>, S, "discovery")
    /\ Deduplicated(kept, S)
    /\ Admit(kept)
    /\ planned' = TRUE
    /\ pc' = "route"
    /\ UNCHANGED <<answer, asking, reviews, queue, at, tier, deepUsed, findings,
                   verified, row, run, indexed, report>>

(* The context, the plan or the whole discovery raises: tolerated, counted.  *)
DiscoveryRaises ==
    /\ pc = "discovery"
    /\ planned' \in BOOLEAN
    /\ failed' = failed \cup {"context", "planning"}
    /\ Fault
    /\ stage' \in {stage, [stage EXCEPT ![<<"discovery", {}>>] = "pending"]}
    /\ stage[<<"discovery", {}>>] # "new" => stage' = stage
    /\ pc' = "route"
    /\ UNCHANGED <<found, answer, asking, reviews, queue, todo, at, seen, tier,
                   deepUsed, findings, verified, row, run, indexed, report>>

--------------------------------------------------------------------------------
(* A round of reviews                                                        *)

Remaining == IF deepUsed < DeepMax THEN DeepMax - deepUsed ELSE 0

(* Candidates beyond the budget of deep reviews are demoted by priority.     *)
StartRound(chosen) ==
    /\ pc = "route"
    /\ todo # {}
    /\ LET deep == todo \cap Deep IN
       /\ IF Cardinality(deep) > Remaining
          THEN chosen \subseteq deep /\ Cardinality(chosen) = Remaining
          ELSE chosen = deep
       /\ tier' = [c \in Cand |-> IF c \notin todo THEN tier[c]
                                  ELSE IF c \in chosen THEN "deep" ELSE "standard"]
       /\ deepUsed' = deepUsed + Cardinality(chosen)
    /\ at' = [c \in Cand |-> IF c \in todo THEN "waiting" ELSE at[c]]
    /\ queue' = todo
    /\ todo' = {}
    /\ verified' = {}
    /\ pc' = "review"
    /\ UNCHANGED <<disk, planned, seen, findings, failed, row, run, indexed, trouble, faults, report>>

AllRoundsDone ==
    /\ pc = "route"
    /\ todo = {}
    /\ pc' = "consolidate"
    /\ UNCHANGED <<disk, process, row, run, indexed, trouble, faults, report>>

Step(c, place) == at' = [at EXCEPT ![c] = place]

(* Mutant: a rejected candidate is reported as well.                         *)
DisposeAll(c, outcome, of) ==
    /\ Step(c, outcome)
    /\ findings' = findings \cup {<<c, of>>}
    /\ UNCHANGED verified

Dispose(c, outcome, of) ==
    /\ Step(c, outcome)
    /\ IF outcome = "supported"
       THEN /\ findings' = findings \cup {<<c, of>>}
            /\ verified' = verified \cup {c}
       ELSE UNCHANGED <<findings, verified>>

reviewUnchanged == <<stage, found, planned, queue, todo, seen, tier, deepUsed,
                     row, run, pc, indexed, report>>

(* verify looks the fingerprint up; what is on file is used as it is.        *)
LookUp(c) ==
    /\ at[c] = "waiting"
    /\ Cardinality({d \in Cand : at[d] \in {"hunting", "judged"}}) < Workers
    /\ LET saved == reviews[FpOf[c]] IN
       IF saved = None
       THEN Step(c, "hunting") /\ UNCHANGED <<findings, verified>>
       ELSE Dispose(c, saved.outcome, saved.of)
    /\ UNCHANGED <<answer, asking, reviews, failed, trouble, faults, reviewUnchanged>>

(* Mutant: it is counted under a name that the result does not read.         *)
Miscounts == failed \cup {"hunt"}

Counts == failed \cup {"review"}

(* A review call fails, or is answered with a review the checks reject.      *)
HuntFails(c) ==
    /\ at[c] = "hunting"
    /\ \/ answer[c] = None /\ asking' = asking \cup {c} /\ Fault
          /\ UNCHANGED answer
       \/ answer[c] = None /\ answer' = [answer EXCEPT ![c] = "rejected"]
          /\ Fault /\ UNCHANGED asking
       \/ answer[c] = "rejected" /\ UNCHANGED <<answer, asking, trouble, faults>>
    /\ Step(c, "failed")
    /\ failed' = Counts
    /\ UNCHANGED <<reviews, findings, verified, reviewUnchanged>>

(* The attempts at the same work that are pending are settled with it, those  *)
(* that failed for good excepted: work is the candidate's identity, which    *)
(* has no line either.                                                       *)
Settles(c) == {d \in asking : FpOf[d] = FpOf[c]}

Hunted(c, outcome, final) ==
    /\ at[c] = "hunting"
    /\ answer[c] \in {None, outcome}
    /\ answer' = [answer EXCEPT ![c] = outcome]
    /\ final \subseteq Settles(c) \ {c}
    /\ asking' = IF answer[c] = None THEN (asking \ Settles(c)) \cup final ELSE asking
    /\ Step(c, "judged")
    /\ UNCHANGED <<reviews, findings, verified, failed, trouble, faults, reviewUnchanged>>

File(c) ==
    /\ at[c] = "judged"
    /\ reviews' = [reviews EXCEPT ![FpOf[c]] = [of |-> c, outcome |-> answer[c]]]
    /\ Dispose(c, answer[c], c)
    /\ UNCHANGED <<answer, asking, failed, trouble, faults, reviewUnchanged>>

RoundDone ==
    /\ pc = "review"
    /\ \A c \in queue : at[c] \in Disposed
    /\ pc' = IF planned /\ verified # {} THEN "variants" ELSE "route"
    /\ UNCHANGED <<disk, process, row, run, indexed, trouble, faults, report>>

--------------------------------------------------------------------------------
(* What the verified candidates of the round lead to                         *)

(* Mutant: what the sweep found is not entered in the index.                 *)
AdmitUnseen(kept) ==
    /\ todo' = todo \cup kept
    /\ UNCHANGED seen

Admitted(kept) == Admit(kept)

Sweep(kind, next, S, kept) ==
    /\ pc = kind
    /\ IF OnFile(kind, verified) # {}
       THEN /\ \E s \in OnFile(kind, verified) : S = found[s]
            /\ UNCHANGED <<stage, found, failed, trouble, faults>>
       ELSE Stages(<<kind, verified>>, S, kind)
    /\ OnePer(IssueOf, kept, {c \in S : \A d \in seen : IssueOf[c] # IssueOf[d]})
    /\ Admitted(kept)
    /\ pc' = next
    /\ UNCHANGED <<answer, asking, reviews, planned, queue, at, tier, deepUsed,
                   findings, verified, row, run, indexed, report>>

SweepVariants(S, kept) == Sweep("variants", "chain", S, kept)

ChainPivots(S, kept) == Sweep("chain", "route", S, kept)

--------------------------------------------------------------------------------
(* The result                                                                *)

(* consolidate_findings: groups of findings become their primary; findings   *)
(* of one fingerprint cannot be told apart.  Without an answer all stay.     *)
Consolidate(primary) ==
    LET S == {f[1] : f \in findings}
        s == <<"consolidation", S>>
    IN
    /\ pc = "consolidate"
    /\ IF findings = {}
       THEN UNCHANGED <<stage, found, failed, trouble, faults, findings>>
       ELSE /\ primary \subseteq S
            /\ Stages(s, primary, "consolidation")
            /\ IF stage'[s] = "done"
               THEN /\ primary # {}
                    /\ \A c, d \in primary : c # d => FpOf[c] # FpOf[d]
                    /\ findings' = {f \in findings : f[1] \in primary}
               ELSE primary = {} /\ UNCHANGED findings
    /\ pc' = "conclude"
    /\ UNCHANGED <<answer, asking, reviews, planned, queue, todo, at, seen, tier,
                   deepUsed, verified, row, run, indexed, report>>

(* Mutant: the capability sweep is forgotten.                                *)
AllButChain == {"context", "planning", "discovery", "review", "variants", "consolidation"}

(* The counters that make a scan incomplete.                                 *)
Required == {"context", "planning", "discovery", "review", "variants", "chain",
             "consolidation"}

ScanIncomplete == failed \cap Required # {}

PendingUnits == {s \in Stage : stage[s] = "pending"} \cup asking

Evaluated(fs) ==
    IF \E f \in fs : Gravity[f[1]] = "block" THEN "BLOCK"
    ELSE IF \E f \in fs : Gravity[f[1]] = "warn" THEN "WARN"
    ELSE "PASS"

(* The policy decision and the status of the scan before it is stored.       *)
Conclude ==
    /\ pc = "conclude"
    /\ report' =
         [status |-> IF ScanIncomplete \/ PendingUnits # {} \/ ~indexed
                     THEN "UNSUCCESSFUL" ELSE "SUCCESSFUL",
          decision |-> IF ScanIncomplete /\ Evaluated(findings) = "PASS"
                       THEN "INCOMPLETE" ELSE Evaluated(findings),
          findings |-> findings,
          gaps |-> failed]
    /\ pc' = IF indexed THEN "persist" ELSE "over"
    /\ UNCHANGED <<disk, process, row, run, indexed, trouble, faults>>

Saved == [status |-> report.status,
          findings |-> FingerprintsOf({f[1] : f \in findings})]

(* The final transaction: the findings and the state of the scan together.   *)
Persist ==
    /\ pc = "persist"
    /\ row' = Saved
    /\ pc' = "over"
    /\ UNCHANGED <<disk, process, run, indexed, trouble, faults, report>>

(* It raises; it may have been committed before.                             *)
PersistRaises(committed) ==
    /\ pc = "persist"
    /\ row' = IF committed THEN Saved ELSE row
    /\ Fault
    /\ pc' = "record"
    /\ UNCHANGED <<disk, process, run, indexed, report>>

(* Mutant: the report of a scan that was not stored stays as it was.         *)
AsConcluded == report

Demoted == [report EXCEPT !.status = "UNSUCCESSFUL"]

(* The failure to store is itself stored, if the database lets it.           *)
RecordFailure(stored) ==
    /\ pc = "record"
    /\ row' = IF stored THEN [row EXCEPT !.status = "UNSUCCESSFUL"] ELSE row
    /\ report' = Demoted
    /\ pc' = "over"
    /\ UNCHANGED <<disk, process, run, indexed, trouble, faults>>

--------------------------------------------------------------------------------
Work ==
    \/ \E S \in SUBSET Reportable["discovery"] :
       \E kept \in SUBSET S : Discover(S, kept)
    \/ DiscoveryRaises
    \/ \E chosen \in SUBSET Deep : StartRound(chosen)
    \/ AllRoundsDone
    \/ \E c \in Cand : \/ LookUp(c)
                       \/ HuntFails(c)
                       \/ \E outcome \in {"supported", "unsupported"},
                             final \in SUBSET asking : Hunted(c, outcome, final)
                       \/ File(c)
    \/ RoundDone
    \/ \E S \in SUBSET Reportable["variants"] :
       \E kept \in SUBSET S : SweepVariants(S, kept)
    \/ \E S \in SUBSET Reportable["chain"] :
       \E kept \in SUBSET S : ChainPivots(S, kept)
    \/ \E primary \in SUBSET Cand : Consolidate(primary)
    \/ Conclude
    \/ Persist
    \/ \E committed \in BOOLEAN : PersistRaises(committed)
    \/ \E stored \in BOOLEAN : RecordFailure(stored)

Next ==
    \/ \E sameScope, stored \in BOOLEAN : Start(sameScope, stored)
    \/ Work
    \/ Crash
    \/ Exit

Spec == Init /\ [][Next]_vars

(* A scan that is not killed runs on: every model call returns (ModelCalls). *)
FairSpec == Spec /\ WF_vars(Work)

--------------------------------------------------------------------------------
(* Properties                                                                *)

TypeOK ==
    /\ stage \in [Stage -> {"new", "pending", "rejected", "done"}]
    /\ found \in [Stage -> SUBSET Cand]
    /\ answer \in [Cand -> {None, "supported", "unsupported", "rejected"}]
    /\ asking \subseteq Cand
    /\ reviews \in [Fingerprint -> ReviewRecord \cup {None}]
    /\ row \in [status : {"none", "RUNNING", "SUCCESSFUL", "UNSUCCESSFUL"},
                    findings : SUBSET Fingerprint]
    /\ run \in 0..MaxRuns
    /\ pc \in {"idle", "discovery", "route", "review", "variants", "chain",
               "consolidate", "conclude", "persist", "record", "over"}
    /\ planned \in BOOLEAN /\ indexed \in BOOLEAN /\ trouble \in BOOLEAN
    /\ faults \in 0..MaxFaults
    /\ queue \subseteq Cand /\ todo \subseteq Cand /\ seen \subseteq Cand
    /\ at \in [Cand -> ReviewStep]
    /\ tier \in [Cand -> {"none", "standard", "deep"}]
    /\ deepUsed \in Nat
    /\ findings \subseteq Cand \X Cand
    /\ verified \subseteq Cand
    /\ failed \subseteq Required
    /\ report \in [status : {"none", "SUCCESSFUL", "UNSUCCESSFUL"},
                   decision : {"none", "PASS", "WARN", "BLOCK", "INCOMPLETE"},
                   findings : SUBSET (Cand \X Cand),
                   gaps : SUBSET Required]

Settled(c) == at[c] \in {"supported", "unsupported"}

(* A scan that comes out clean or successful has judged every candidate it   *)
(* knows of, in this run or before, and nothing it needed is missing.        *)
NoFalseClean ==
    pc = "over" /\ (report.decision = "PASS" \/ "SUCCESSFUL" \in {report.status, row.status}) =>
        /\ planned
        /\ stage[<<"discovery", {}>>] = "done"
        /\ \A c \in seen : Settled(c)
        /\ \A kind \in {"variants", "chain"} : verified # {} => OnFile(kind, verified) # {}

(* Nothing is reported that no review supported: behind every finding is the *)
(* answer to a review of a candidate with its fingerprint.                   *)
FindingsSupported ==
    \A f \in findings : /\ answer[f[2]] = "supported"
                        /\ FpOf[f[2]] = FpOf[f[1]]

(* A row that says SUCCESSFUL has all the findings of its scan; a report     *)
(* that says SUCCESSFUL has such a row.  Only the other way round may a      *)
(* commit be lost: the row says more than the report.                        *)
SuccessIsStored ==
    /\ report.status = "SUCCESSFUL" /\ pc = "over" => row.status = "SUCCESSFUL"
    /\ row.status = "SUCCESSFUL" /\ pc # "idle" =>
           row.findings = FingerprintsOf({f[1] : f \in findings})

(* Every scan ends or dies: the rounds cannot go on finding work for ever.   *)
EveryScanEnds == Running ~> ~Running

================================================================================
