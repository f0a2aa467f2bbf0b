------------------------------- MODULE Discovery --------------------------------
(*****************************************************************************)
(* Candidate discovery (OptimizedPlaidNoxDeepHuntAgent.discover_candidates): *)
(* worker threads analyze the regions of the search plan in parallel, share  *)
(* one index of the candidates seen so far, answer security obligations      *)
(* region by region, and reconcile them when all are done (coverage.py).     *)
(* A finished region is a unit of the resume store; a scan that dies is run  *)
(* again on the same store.                                                  *)
(*                                                                           *)
(* A candidate stands for all the reports that CandidateIndex takes for the  *)
(* same issue.  An answer of the provider is on file under its prompt, which *)
(* follows from the region, the answers it had before, and the candidates it *)
(* kept of them (root_cause_summary).                                        *)
(*                                                                           *)
(* Left out: telemetry, and the search plan, which is the constant Plans.    *)
(*****************************************************************************)
EXTENDS Naturals, FiniteSets, Sequences

CONSTANTS
    Region,
    Obligation,     \* canonical obligations
    Asked,          \* the obligations of each region
    Required,       \* those of importance REQUIRED
    Workset,
    NoWorkset,
    Cand,
    Answers,        \* bound: what the provider may answer
    Plans,          \* bound: how regions are batches of worksets
    MaxContinuations,   \* of each region: more for one that is exceptional
    Workers,        \* discovery_max_workers
    MaxRuns,        \* bound: discoveries on one store
    MaxFaults,      \* bound: failures and kills, of all runs together
    None

(* What an answer says of an obligation: nothing to report, more context is  *)
(* needed, no usable disposition, or the candidate it links to.              *)
Verdict == {"clean", "context", "omitted"} \cup Cand

(* grounded: the candidates whose evidence is in the windows shown.  fresh:  *)
(* the context it asks for has new evidence.  flaw: it cites evidence that   *)
(* is not in the code, or obligations it was not asked about.                *)
Answer == [cands : SUBSET Cand, grounded : SUBSET Cand, says : [Obligation -> Verdict],
           fresh : BOOLEAN, flaw : {"none", "evidence", "unknown"}]

(* scope: the workset a region is a batch of; batches: their batch_count,    *)
(* which is never less than the batches there are (SearchScope).             *)
Plan == [scope : [Region -> Workset \cup {NoWorkset}], batches : [Workset -> Nat]]

ASSUME ConstantsAssumption ==
    /\ IsFiniteSet(Region) /\ IsFiniteSet(Cand) /\ IsFiniteSet(Obligation)
    /\ Asked \in [Region -> SUBSET Obligation]
    /\ Required \subseteq Obligation
    /\ NoWorkset \notin Workset
    /\ Answers \subseteq Answer
    /\ \A a \in Answers : a.grounded \subseteq a.cands
    /\ MaxContinuations \in [Region -> Nat]
    /\ Plans \subseteq Plan
    /\ \A p \in Plans : \A w \in Workset :
          Cardinality({r \in Region : p.scope[r] = w}) <= p.batches[w]
    /\ {MaxRuns, MaxFaults} \subseteq Nat
    /\ Workers \in Nat \ {0}
    /\ Cand \cap {"none", "clean", "context", "unresolved", "omitted"} = {}
    /\ None \notin Answer

VARIABLES
    unit,       \* checkpoint stage "discovery": what each region came to
    file,       \* the answers on file: pairs of a prompt and an answer
    plan,       \* the batches of worksets, fixed by the code that is scanned
    runs,
    faults,
    pc,
    index,      \* candidate_index
    at,         \* where the analysis of each region is
    heard,      \* the answers of each region: round_index is their number
    left,       \* the candidates of the last one that were not looked at yet
    kept,       \* segment_candidates
    rejected,   \* rejected_candidate_ids
    disp,       \* dispositions, by obligation
    issues,     \* contract_issues is not empty
    errors,     \* errors is not empty
    reused,     \* the regions answered from their unit
    raised

disk == <<unit, file, plan>>
analysis == <<at, heard, left, kept, rejected, disp, issues, errors, reused>>
vars == <<disk, analysis, runs, faults, pc, index, raised>>

--------------------------------------------------------------------------------
NoDisposition == [o \in Obligation |-> "none"]

Fresh ==
    /\ index' = {}
    /\ at' = [r \in Region |-> "waiting"]
    /\ heard' = [r \in Region |-> <<>>]
    /\ left' = [r \in Region |-> {}]
    /\ kept' = [r \in Region |-> {}]
    /\ rejected' = [r \in Region |-> {}]
    /\ disp' = [r \in Region |-> NoDisposition]
    /\ issues' = [r \in Region |-> FALSE]
    /\ errors' = [r \in Region |-> FALSE]
    /\ reused' = {}
    /\ raised' = FALSE

Init ==
    /\ unit = [r \in Region |-> None]
    /\ file = {}
    /\ plan \in Plans
    /\ runs = 0
    /\ faults = 0
    /\ pc = "idle"
    /\ index = {}
    /\ at = [r \in Region |-> "waiting"]
    /\ heard = [r \in Region |-> <<>>]
    /\ left = [r \in Region |-> {}]
    /\ kept = [r \in Region |-> {}]
    /\ rejected = [r \in Region |-> {}]
    /\ disp = [r \in Region |-> NoDisposition]
    /\ issues = [r \in Region |-> FALSE]
    /\ errors = [r \in Region |-> FALSE]
    /\ reused = {}
    /\ raised = FALSE

Fault == faults < MaxFaults /\ faults' = faults + 1

Start ==
    /\ pc # "discovering"
    /\ runs < MaxRuns
    /\ runs' = runs + 1
    /\ pc' = "discovering"
    /\ Fresh
    /\ UNCHANGED <<disk, faults>>

Crash ==
    /\ pc = "discovering"
    /\ Fault
    /\ pc' = "idle"
    /\ Fresh
    /\ UNCHANGED <<disk, runs>>

--------------------------------------------------------------------------------
(* One region (analyze)                                                      *)

Goto(r, label) == at' = [at EXCEPT ![r] = label]

Busy == {r \in Region : at[r] \notin {"waiting", "over"}}

(* The region's unit is on file, or its first round begins.  What is reused  *)
(* is not entered in the index.                                              *)
Take(r) ==
    /\ pc = "discovering"
    /\ at[r] = "waiting"
    /\ Cardinality(Busy) < Workers
    /\ IF unit[r] = None
       THEN Goto(r, "asking") /\ UNCHANGED <<kept, disp, issues, reused>>
       ELSE /\ Goto(r, "over")
            /\ kept' = [kept EXCEPT ![r] = unit[r].kept]
            /\ disp' = [disp EXCEPT ![r] = unit[r].disp]
            /\ issues' = [issues EXCEPT ![r] = unit[r].issues]
            /\ reused' = reused \cup {r}
    /\ UNCHANGED <<disk, runs, faults, pc, index, heard, left, rejected, errors, raised>>

Prompt(r) == <<r, heard[r], kept[r]>>
OnFile(p) == {a \in Answers : <<p, a>> \in file}

(* The answer is on file, or the provider is asked.  An answer that does not *)
(* match the schema is used if it can be, but it is not put on file.         *)
Ask(r) ==
    /\ at[r] = "asking"
    /\ \E a \in IF OnFile(Prompt(r)) # {} THEN OnFile(Prompt(r)) ELSE Answers :
          /\ heard' = [heard EXCEPT ![r] = Append(@, a)]
          /\ left' = [left EXCEPT ![r] = a.cands]
          /\ \/ file' = file \cup {<<Prompt(r), a>>} /\ UNCHANGED faults
             \/ OnFile(Prompt(r)) = {} /\ Fault /\ UNCHANGED file
    /\ Goto(r, "admitting")
    /\ UNCHANGED <<unit, plan, runs, pc, index, kept, rejected, disp, issues, errors,
                   reused, raised>>

Errs(r) == errors' = [errors EXCEPT ![r] = TRUE] /\ Goto(r, "finishing")

AskFails(r) ==
    /\ at[r] = "asking"
    /\ OnFile(Prompt(r)) = {}
    /\ Fault
    /\ Errs(r)
    /\ UNCHANGED <<disk, runs, pc, index, heard, left, kept, rejected, disp, issues,
                   reused, raised>>

answer(r) == heard[r][Len(heard[r])]

(* The candidates whose evidence is in the windows of the region, or of the  *)
(* context that was looked up for it (_source_windows_from_context).         *)
Grounded(r) == answer(r).grounded

(* Mutant: a region looks for repeats among its own candidates only.         *)
RepeatsOwn(r, c) == c \in kept[r]

Repeats(r, c) == c \in index

(* One candidate, under the lock of the index.  A candidate that is in it    *)
(* already is merged there and not kept here.                                *)
Admit(r, c) ==
    /\ at[r] = "admitting"
    /\ c \in left[r]
    /\ left' = [left EXCEPT ![r] = @ \ {c}]
    /\ IF c \notin Grounded(r)
       THEN rejected' = [rejected EXCEPT ![r] = @ \cup {c}] /\ UNCHANGED <<index, kept>>
       ELSE /\ index' = index \cup {c}
            /\ kept' = [kept EXCEPT ![r] = IF Repeats(r, c) THEN @ ELSE @ \cup {c}]
            /\ UNCHANGED rejected
    /\ UNCHANGED <<disk, runs, faults, pc, at, heard, disp, issues, errors, reused, raised>>

--------------------------------------------------------------------------------
(* What an answer says of the obligations (DiscoveryCoverageState.apply)     *)

Open(r) == {o \in Asked[r] : disp[r][o] \in {"none", "context"}}

(* Candidates a disposition may link to: those of this answer and those that *)
(* were linked before.                                                       *)
Linkable(r) == Grounded(r) \cup ({disp[r][o] : o \in Obligation} \cap Cand)

Accepted(r, verdict) ==
    IF verdict = "omitted" \/ verdict \in Cand \ Linkable(r) THEN "unresolved"
    ELSE verdict

(* A link to a candidate whose evidence was rejected is no breach of the     *)
(* contract.                                                                 *)
BreaksContract(r) ==
    \/ answer(r).flaw = "unknown"
    \/ \E o \in Open(r) :
          answer(r).says[o] \in {"omitted"} \cup (Cand \ (Linkable(r) \cup rejected[r]))

Applied(r) ==
    [o \in Obligation |-> IF o \in Open(r) THEN Accepted(r, answer(r).says[o])
                          ELSE disp[r][o]]

(* mark_unresolved                                                           *)
Abandoned(d) == [o \in Obligation |-> IF d[o] = "context" THEN "unresolved" ELSE d[o]]

(* Mutant: as many rounds as the answers ask for.                            *)
NeverExhausted(r) == FALSE

Exhausted(r) == Len(heard[r]) > MaxContinuations[r]

(* A path that may not be read, or lines the file does not have.             *)
CitesBadEvidence(r) == answer(r).flaw = "evidence"

(* Of what is asked for, one request was not made before and resolves, in    *)
(* the index or by a search, to evidence that was not seen before.           *)
ResolvesNewContext(r) == answer(r).fresh

(* The evidence is validated, the dispositions are applied, and the context  *)
(* that was asked for is looked up.                                          *)
Judge(r) ==
    /\ at[r] = "admitting"
    /\ left[r] = {}
    /\ IF CitesBadEvidence(r)
       THEN Errs(r) /\ UNCHANGED <<disp, issues>>
       ELSE LET d == Applied(r)
                more == /\ \E o \in Obligation : d[o] = "context"
                        /\ ~Exhausted(r)
                        /\ ResolvesNewContext(r)
            IN
            /\ issues' = [issues EXCEPT ![r] = @ \/ BreaksContract(r)]
            /\ disp' = [disp EXCEPT ![r] = IF more THEN d ELSE Abandoned(d)]
            /\ Goto(r, IF more THEN "asking" ELSE "finishing")
            /\ UNCHANGED errors
    /\ UNCHANGED <<disk, runs, faults, pc, index, heard, left, kept, rejected, reused, raised>>

processing_complete(r) == Asked[r] # {} /\ Open(r) = {}

(* Mutant: the candidates of a region that failed are dropped.               *)
KeptWithoutErrors(r, failed) == IF failed THEN {} ELSE kept[r]

Handed(r, failed) == kept[r]

(* A region without errors becomes a unit, with the candidates it kept.      *)
Finish(r) ==
    LET failed == errors[r] \/ ~processing_complete(r) IN
    /\ at[r] = "finishing"
    /\ errors' = [errors EXCEPT ![r] = failed]
    /\ kept' = [kept EXCEPT ![r] = Handed(r, failed)]
    /\ unit' = IF failed THEN unit
               ELSE [unit EXCEPT ![r] = [kept |-> kept[r], disp |-> disp[r],
                                         issues |-> issues[r]]]
    /\ Goto(r, "over")
    /\ UNCHANGED <<file, plan, runs, faults, pc, index, heard, left, rejected, disp,
                   issues, reused, raised>>

(* The unit cannot be written: the thread raises, and with it the discovery. *)
FinishRaises(r) ==
    /\ at[r] = "finishing"
    /\ ~errors[r] /\ processing_complete(r)
    /\ Fault
    /\ raised' = TRUE
    /\ Goto(r, "over")
    /\ UNCHANGED <<disk, runs, pc, index, heard, left, kept, rejected, disp, issues,
                   errors, reused>>

(* The executor cancels what has not begun.                                  *)
Cancel(r) ==
    /\ pc = "discovering"
    /\ raised
    /\ at[r] = "waiting"
    /\ Goto(r, "over")
    /\ UNCHANGED <<disk, runs, faults, pc, index, heard, left, kept, rejected, disp,
                   issues, errors, reused, raised>>

Return ==
    /\ pc = "discovering"
    /\ \A r \in Region : at[r] = "over"
    /\ pc' = IF raised THEN "raised" ELSE "returned"
    /\ UNCHANGED <<disk, analysis, runs, faults, index, raised>>

Next ==
    \/ Start
    \/ Crash
    \/ \E r \in Region :
          \/ Take(r)
          \/ Ask(r)
          \/ AskFails(r)
          \/ \E c \in Cand : Admit(r, c)
          \/ Judge(r)
          \/ Finish(r)
          \/ FinishRaises(r)
          \/ Cancel(r)
    \/ Return

Spec == Init /\ [][Next]_vars

--------------------------------------------------------------------------------
(* The result                                                                *)

Returned == UNION {kept[r] : r \in Region}

Resolves(status) == status = "clean" \/ status \in Cand

IsBatch(r) == plan.scope[r] # NoWorkset /\ plan.batches[plan.scope[r]] > 1

Alone(o) == {r \in Region : o \in Asked[r] /\ ~IsBatch(r)}
BatchesOf(w) == {r \in Region : IsBatch(r) /\ plan.scope[r] = w}

(* Mutant: batches are reconciled like regions that stand alone.             *)
AnyBatchDone(R, o) == \E r \in R : Resolves(disp[r][o])

(* reconcile_workset_batches: every planned batch must have its answer.      *)
BatchesDone(R, o) == \A r \in R : Resolves(disp[r][o])

(* reconcile_obligations: of regions that stand alone one is enough.         *)
SiblingDone(R, o) == \E r \in R : Resolves(disp[r][o])

(* discovery_required_coverage_unresolved is not zero.                       *)
RequiredUnresolved ==
    \/ \E o \in Required : Alone(o) # {} /\ ~SiblingDone(Alone(o), o)
    \/ \E w \in Workset :
          \/ BatchesOf(w) # {} /\ Cardinality(BatchesOf(w)) < plan.batches[w]
          \/ \E o \in Required : LET R == {r \in BatchesOf(w) : o \in Asked[r]} IN
                R # {} /\ ~BatchesDone(R, o)

(* What makes the scan incomplete: failures, contract failures, coverage.    *)
CleanDiscovery ==
    /\ pc = "returned"
    /\ \A r \in Region : ~errors[r] /\ ~issues[r]
    /\ ~RequiredUnresolved

--------------------------------------------------------------------------------
(* Properties                                                                *)

Status == {"none", "unresolved"} \cup (Verdict \ {"omitted"})

(* Every variable stays in its type; no region is asked more often than its  *)
(* continuations allow, in whatever runs.                                    *)
TypeOK ==
    /\ unit \in [Region -> [kept : SUBSET Cand, disp : [Obligation -> Status],
                            issues : BOOLEAN] \cup {None}]
    /\ plan \in Plans
    /\ runs \in 0..MaxRuns
    /\ faults \in 0..MaxFaults
    /\ pc \in {"idle", "discovering", "returned", "raised"}
    /\ index \subseteq Cand
    /\ at \in [Region -> {"waiting", "asking", "admitting", "finishing", "over"}]
    /\ heard \in [Region -> Seq(Answers)]
    /\ \A r \in Region : Len(heard[r]) <= MaxContinuations[r] + 1
    /\ left \in [Region -> SUBSET Cand]
    /\ kept \in [Region -> SUBSET Cand]
    /\ rejected \in [Region -> SUBSET Cand]
    /\ disp \in [Region -> [Obligation -> Status]]
    /\ issues \in [Region -> BOOLEAN]
    /\ errors \in [Region -> BOOLEAN]
    /\ reused \subseteq Region
    /\ raised \in BOOLEAN

Told(r) == {heard[r][i] : i \in DOMAIN heard[r]}

(* A grounded candidate that any answer of this run reported is handed to    *)
(* the hunt: not one is lost because another thread entered the same issue   *)
(* first, or because its region failed afterwards.                           *)
NothingFoundIsLost ==
    pc = "returned" =>
        \A r \in Region : \A a \in Told(r) : a.cands \cap a.grounded \subseteq Returned

(* An issue that regions report side by side is kept once: every candidate   *)
(* of the index has one region, of those that were analyzed, that keeps it.  *)
KeptOnce ==
    \A c \in index : Cardinality({r \in Region \ reused : c \in kept[r]}) = 1

(* An answer bears out what the obligation came to: nothing to report, or a  *)
(* candidate some answer of the region grounded.  What was reused stands.    *)
BorneOut(r, o) ==
    \/ r \in reused /\ Resolves(disp[r][o])
    \/ \E a \in Told(r) :
          \/ a.says[o] = "clean"
          \/ \E b \in Told(r) : a.says[o] \in b.grounded

(* A discovery that leaves the scan complete has an answer to every required *)
(* obligation: from one of the regions that stand alone, and from every      *)
(* batch of a workset, none of which is missing from the plan.               *)
CompleteMeansAnswered ==
    CleanDiscovery =>
        \A o \in Required :
            /\ Alone(o) # {} => \E r \in Alone(o) : BorneOut(r, o)
            /\ \A r \in Region : IsBatch(r) =>
                  /\ o \in Asked[r] => BorneOut(r, o)
                  /\ Cardinality(BatchesOf(plan.scope[r])) = plan.batches[plan.scope[r]]

================================================================================
