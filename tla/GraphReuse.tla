------------------------------- MODULE GraphReuse -------------------------------
(*****************************************************************************)
(* What one scan takes over from the scans before it, when graph             *)
(* investigations are on (SastPipeline.scan_snapshot, graph_surface_         *)
(* planning.py, investigations.py and their tables): plans of investigations *)
(* and negative results, and findings that were verified before.             *)
(*                                                                           *)
(* A scan of a codebase follows another; each has a code, and a code that    *)
(* was scanned before is the same revision.  A surface group is one node.    *)
(* What the model wrote into a plan is the set of nodes it refers to.        *)
(*                                                                           *)
(* Left out: scans of one codebase that overlap; a scan that could not be    *)
(* indexed (it neither reads nor writes any of this); groups above the       *)
(* planner's limit, which stay gaps; changes of the prompts, the scope or    *)
(* the planning context, which only forbid reuse.                            *)
(*****************************************************************************)
EXTENDS CodeGraph, Sequences

CONSTANTS
    Surface,        \* the nodes that are surface groups of the planner
    Finding,
    Place,          \* the node each finding is in
    GraphFound,     \* the findings that investigations report
    Codes,          \* bound: the revisions that are scanned
    Support,        \* bound: the sets of nodes a plan may add to its target
    MaxScans,       \* bound
    MaxFaults,      \* bound: failures and kills, of all scans together
    None

ASSUME ConstantsAssumption ==
    /\ Surface \subseteq Node
    /\ Place \in [Finding -> Node]
    /\ GraphFound \subseteq Finding
    /\ \A f \in GraphFound : Place[f] \in Surface
    /\ Codes \subseteq Code
    /\ Support \subseteq SUBSET Node
    /\ MaxScans \in Nat /\ MaxFaults \in Nat

(* An investigation is named by its content; the row has its state and the   *)
(* scan that saved it first.                                                 *)
Investigation == [at : Surface, code : Codes, refs : SUBSET Node]

InvestigationState ==
    {"planned", "running", "candidate", "no_candidate", "unresolved", "failed", "skipped"}

VARIABLES
    scan,       \* the scan_runs rows, with their graph snapshots and reports
    row,        \* graph_investigations: a function on the saved ones
    finding,    \* findings with their dependencies
    faults,
    pc,
    invalid,    \* invalidated_prior_investigation_ids
    prior,      \* the scan whose graph is previous_graph, or 0
    saved,      \* graphify_prior_scan_findings
    ledger,     \* the surface planning of this scan
    plan,       \* graph_result.investigations, by surface
    basis,      \* of a surface whose hunt is left out: the negative result used
    result,     \* graphify_hunt_results, by surface
    failed,     \* a failure counter of this scan is not zero
    fresh,      \* the findings verified in this scan
    carried     \* those carried forward

tables == <<scan, row, finding>>
stagevars == <<invalid, prior, saved, ledger, plan, basis, result>>
vars == <<tables, stagevars, faults, pc, failed, fresh, carried>>

Now == Len(scan)
Current == scan[Now].code
Surfaces == Surface \cap Nodes(Current)

(* graph_node, graph_node_neighborhood and source_file dependencies.         *)
FindingRow ==
    [state : {"validated", "discovered"},
     code : Codes,                              \* what the hashes were taken of
     nodes : SUBSET Node,                       \* graph references
     files : SUBSET Node,                       \* evidence locations
     inv : Investigation \cup {None}]

ASSUME NoneAssumption == None \notin FindingRow

--------------------------------------------------------------------------------
(* Mutant: the plans of the last scan are not forgotten.                     *)
PlansKept ==
    /\ invalid' = {}
    /\ prior' = 0
    /\ saved' = {}
    /\ ledger' = [s \in Surface |-> "none"]
    /\ basis' = [s \in Surface |-> None]
    /\ result' = [s \in Surface |-> "none"]
    /\ UNCHANGED plan

NoStage ==
    /\ invalid' = {}
    /\ prior' = 0
    /\ saved' = {}
    /\ ledger' = [s \in Surface |-> "none"]
    /\ plan' = [s \in Surface |-> None]
    /\ basis' = [s \in Surface |-> None]
    /\ result' = [s \in Surface |-> "none"]

Init ==
    /\ scan = <<>>
    /\ row = [i \in {} |-> None]
    /\ finding = [f \in Finding |-> None]
    /\ faults = 0
    /\ pc = "idle"
    /\ invalid = {}
    /\ prior = 0
    /\ saved = {}
    /\ ledger = [s \in Surface |-> "none"]
    /\ plan = [s \in Surface |-> None]
    /\ basis = [s \in Surface |-> None]
    /\ result = [s \in Surface |-> "none"]
    /\ failed = FALSE
    /\ fresh = {}
    /\ carried = {}

Fault ==
    /\ faults < MaxFaults
    /\ faults' = faults + 1

Known == {f \in Finding : finding[f] # None}

(* findings_requiring_revalidation: a symbol is looked at if a finding       *)
(* depends on it, then its callers, and then whatever depends on these.      *)
ChangedSymbols(c) ==
    {n \in Nodes(c) : \E f \in Known : n \in finding[f].files /\ c[n] # finding[f].code[n]}

SymbolStale(c) ==
    {f \in Known :
        \/ finding[f].files \cap CallersWithin(c, ChangedSymbols(c)) # {}
        \/ ~(finding[f].files \subseteq Nodes(c))}

(* findings_requiring_graph_revalidation                                     *)
Stale(f, c) ==
    \/ \E n \in finding[f].files : c[n] # finding[f].code[n]
    \/ ~SameEvidence(finding[f].nodes, finding[f].code, c)

(* flag_findings_for_revalidation                                            *)
Demoted(F) ==
    [f \in Finding |-> IF f \in F THEN [finding[f] EXCEPT !.state = "discovered"]
                                  ELSE finding[f]]

(* The index transaction of a scan of the code c.                            *)
Begin(c) ==
    /\ pc = "idle"
    /\ Now < MaxScans
    /\ scan' = Append(scan, [code |-> c, status |-> "RUNNING", graph |-> FALSE, report |-> {}])
    /\ finding' = Demoted(SymbolStale(c))
    /\ pc' = "load"
    /\ NoStage
    /\ failed' = FALSE
    /\ fresh' = {}
    /\ carried' = {}
    /\ UNCHANGED <<row, faults>>

(* Mutant: negative results of scans that did not succeed count as well.     *)
OfAnyScan == {i \in DOMAIN row : row[i].state = "no_candidate"}

(* list_reusable_no_candidate_investigations                                 *)
Reusable ==
    {i \in DOMAIN row : row[i].state = "no_candidate" /\ scan[row[i].scan].status = "SUCCESSFUL"}

(* latest_graphify_snapshot, of another scan than this one.                  *)
Latest ==
    LET graphs == {k \in 1..(Now - 1) : scan[k].graph}
    IN  IF graphs = {} THEN 0 ELSE CHOOSE k \in graphs : \A l \in graphs : l <= k

(* The invalidated investigations are looked for among those of the previous *)
(* snapshot; then the graph of this scan is saved.                           *)
LoadPrevious ==
    /\ pc = "load"
    /\ prior' = Latest
    /\ invalid' = IF Latest = 0 THEN {}
                  ELSE LET old == scan[Latest].code
                       IN {i \in DOMAIN row : i.code = old /\ Affected(i.refs, old, Current)}
    /\ scan' = [scan EXCEPT ![Now].graph = TRUE]
    /\ pc' = "revalidate"
    /\ UNCHANGED <<row, finding, faults, saved, ledger, plan, basis, result,
                   failed, fresh, carried>>

(* Mutant: the previous report is taken whatever became of its findings.     *)
WholeReport ==
    IF prior # 0 /\ scan[prior].status = "SUCCESSFUL" THEN scan[prior].report ELSE {}

(* reusable_scan_findings of the previous scan.  Across a delta it takes     *)
(* findings with complete graph dependencies only, as those of               *)
(* investigations are.                                                       *)
ReusableFindings ==
    {f \in IF prior = 0 THEN {} ELSE scan[prior].report :
        /\ scan[prior].status = "SUCCESSFUL"
        /\ finding[f].state = "validated"
        /\ \/ f \in GraphFound
           \/ scan[prior].code = Current}

ToRevalidate ==
    {f \in Known : Stale(f, Current) \/ finding[f].inv \in invalid}

(* The findings to revalidate are flagged in a transaction; the ones to      *)
(* carry forward are read in another one inside of it, which does not see    *)
(* the flags.                                                                *)
Revalidate ==
    /\ pc = "revalidate"
    /\ saved' = ReusableFindings
    /\ finding' = Demoted(ToRevalidate)
    /\ pc' = "ledger"
    /\ UNCHANGED <<scan, row, faults, invalid, prior, ledger, plan, basis, result,
                   failed, fresh, carried>>

(* It is rolled back, before or after the inner read.                        *)
RevalidateFails(read) ==
    /\ pc = "revalidate"
    /\ saved' = IF read THEN ReusableFindings ELSE {}
    /\ Fault
    /\ failed' = TRUE
    /\ pc' = "review"
    /\ UNCHANGED <<tables, invalid, prior, ledger, plan, basis, result, fresh, carried>>

--------------------------------------------------------------------------------
(* GraphSurfacePlanningCoordinator.plan                                      *)

(* save_surface_planning                                                     *)
OpenLedger ==
    /\ pc = "ledger"
    /\ ledger' = [s \in Surface |-> IF s \in Surfaces THEN "pending" ELSE "none"]
    /\ pc' = "plan"
    /\ UNCHANGED <<tables, faults, invalid, prior, saved, plan, basis, result,
                   failed, fresh, carried>>

(* A group whose plan is saved and not recorded, or that is being planned.   *)
Open(s) ==
    \/ ledger[s] = "planning"
    \/ ledger[s] = "pending" /\ plan[s] # None
NoneOpen == \A s \in Surface : ~Open(s)

Newest(I) == CHOOSE i \in I : \A j \in I : row[j].scan <= row[i].scan

(* The investigation to take over for a surface: a negative one before       *)
(* others, then the newest.                                                  *)
PriorOf(s) ==
    LET of(I) == {i \in I : i.at = s}
        older == {i \in of(DOMAIN row) : row[i].scan # Now}
    IN  IF of(Reusable) # {} THEN Newest(of(Reusable))
        ELSE IF older # {} THEN Newest(older) ELSE None

Compatible(i) ==
    /\ i # None
    /\ i \notin invalid
    /\ SameEvidence(i.refs, i.code, Current)

(* save_investigation: an identity that is stored is shared.                 *)
Stored(i) ==
    [j \in DOMAIN row \cup {i} |->
        IF j \in DOMAIN row THEN row[j] ELSE [scan |-> Now, state |-> "planned"]]

(* rebase_investigation, and its row.                                        *)
Rebase(s) ==
    /\ pc = "plan" /\ NoneOpen
    /\ ledger[s] = "pending"
    /\ LET i == PriorOf(s)
           rebased == [i EXCEPT !.code = Current]
       IN  /\ Compatible(i)
           /\ plan' = [plan EXCEPT ![s] = rebased]
           /\ row' = Stored(rebased)
           /\ basis' = [basis EXCEPT ![s] = IF i \in Reusable THEN i ELSE None]
    /\ UNCHANGED <<scan, finding, faults, pc, invalid, prior, saved, ledger, result,
                   failed, fresh, carried>>

StartPlanning(s) ==
    /\ pc = "plan" /\ NoneOpen
    /\ ledger[s] = "pending"
    /\ ~Compatible(PriorOf(s))
    /\ ledger' = [ledger EXCEPT ![s] = "planning"]
    /\ UNCHANGED <<tables, faults, pc, invalid, prior, saved, plan, basis, result,
                   failed, fresh, carried>>

Neighbors(s) == UNION {{e.from, e.to} : e \in Neighborhood(Current, s)}

(* What plan_targets makes of the answer of the model.                       *)
Planned(s, support) == [at |-> s, code |-> Current, refs |-> {s} \cup support]

(* plan_group answers, from the store or the model.                          *)
Plan(s, support) ==
    /\ pc = "plan"
    /\ ledger[s] = "planning" /\ plan[s] = None
    /\ support \subseteq Neighbors(s)
    /\ LET i == Planned(s, support)
       IN  /\ plan' = [plan EXCEPT ![s] = i]
           /\ row' = Stored(i)
           /\ basis' = [basis EXCEPT ![s] = IF i \in Reusable THEN i ELSE None]
    /\ UNCHANGED <<scan, finding, faults, pc, invalid, prior, saved, ledger, result,
                   failed, fresh, carried>>

(* record_surface_planning_group with the investigation that was saved.      *)
RecordGroup(s) ==
    /\ pc = "plan"
    /\ Open(s) /\ plan[s] # None
    /\ ledger' = [ledger EXCEPT ![s] = IF @ = "planning" THEN "planned" ELSE "reused"]
    /\ UNCHANGED <<tables, faults, pc, invalid, prior, saved, plan, basis, result,
                   failed, fresh, carried>>

(* plan_group raises.                                                        *)
PlanFails(s) ==
    /\ pc = "plan"
    /\ ledger[s] = "planning" /\ plan[s] = None
    /\ ledger' = [ledger EXCEPT ![s] = "failed"]
    /\ Fault
    /\ failed' = TRUE
    /\ pc' = "review"
    /\ UNCHANGED <<tables, invalid, prior, saved, plan, basis, result, fresh, carried>>

(* The planned identity is stored with other words of the model.             *)
PlanConflicts(s, support) ==
    /\ pc = "plan"
    /\ ledger[s] = "planning" /\ plan[s] = None
    /\ support \subseteq Neighbors(s)
    /\ Planned(s, support) \in DOMAIN row
    /\ failed' = TRUE
    /\ pc' = "review"
    /\ UNCHANGED <<tables, stagevars, faults, fresh, carried>>

Resolved(s) == ledger[s] \in {"planned", "reused"}

(* complete_surface_planning                                                 *)
CompleteLedger ==
    /\ pc = "plan"
    /\ \A s \in Surfaces : Resolved(s)
    /\ pc' = "hunt"
    /\ UNCHANGED <<tables, stagevars, faults, failed, fresh, carried>>

--------------------------------------------------------------------------------
(* The hunts.  Only rows that this scan saved take part in the lifecycle.    *)

Hunting == {s \in Surface : result[s] = "hunting"}

Moved(s, state) ==
    IF row[plan[s]].scan = Now THEN [row EXCEPT ![plan[s]].state = state] ELSE row

Skip(s) ==
    /\ pc = "hunt" /\ Hunting = {}
    /\ s \in Surfaces /\ result[s] = "none"
    /\ basis[s] # None
    /\ row' = Moved(s, "skipped")
    /\ result' = [result EXCEPT ![s] = "skipped"]
    /\ UNCHANGED <<scan, finding, faults, pc, invalid, prior, saved, ledger, plan, basis,
                   failed, fresh, carried>>

StartHunt(s) ==
    /\ pc = "hunt" /\ Hunting = {}
    /\ s \in Surfaces /\ result[s] = "none"
    /\ basis[s] = None
    /\ row' = Moved(s, "running")
    /\ result' = [result EXCEPT ![s] = "hunting"]
    /\ UNCHANGED <<scan, finding, faults, pc, invalid, prior, saved, ledger, plan, basis,
                   failed, fresh, carried>>

EndHunt(s, state) ==
    /\ pc = "hunt"
    /\ result[s] = "hunting"
    /\ row' = Moved(s, state)
    /\ result' = [result EXCEPT ![s] = state]
    /\ failed' = (failed \/ state = "unresolved")
    /\ UNCHANGED <<scan, finding, faults, pc, invalid, prior, saved, ledger, plan, basis,
                   fresh, carried>>

(* The hunt raises, or a transition does; the row may not be told.           *)
HuntFails(s, told) ==
    /\ pc = "hunt"
    /\ result[s] = "hunting"
    /\ row' = IF told THEN Moved(s, "failed") ELSE row
    /\ result' = [result EXCEPT ![s] = "failed"]
    /\ Fault
    /\ failed' = TRUE
    /\ UNCHANGED <<scan, finding, pc, invalid, prior, saved, ledger, plan, basis,
                   fresh, carried>>

(* Groups whose plan came from the resume store are recorded as reused.      *)
HuntsDone(fromStore) ==
    /\ pc = "hunt"
    /\ \A s \in Surfaces : result[s] \notin {"none", "hunting"}
    /\ fromStore \subseteq {s \in Surface : Resolved(s)}
    /\ ledger' = [s \in Surface |-> IF s \in fromStore THEN "reused" ELSE ledger[s]]
    /\ pc' = "review"
    /\ UNCHANGED <<tables, faults, invalid, prior, saved, plan, basis, result,
                   failed, fresh, carried>>

(* Anything else in the stage raises: the scan goes on without it.           *)
StageRaises ==
    /\ pc \in {"load", "ledger", "plan", "hunt"}
    /\ Fault
    /\ failed' = TRUE
    /\ pc' = "review"
    /\ UNCHANGED <<tables, stagevars, fresh, carried>>

--------------------------------------------------------------------------------
(* The findings of the scan.                                                 *)

Found(f) ==
    IF f \in GraphFound THEN result[Place[f]] \in {"candidate", "unresolved"}
                        ELSE Place[f] \in Nodes(Current)

(* _saved_report_matches_graph: the files are there and the lines fit; they  *)
(* do in a file that did not change.                                         *)
InPlace(f) == finding[f].files \subseteq Nodes(Current)
Fits(f) == \A n \in finding[f].files : Current[n] = finding[f].code[n]

(* Which findings are verified, and which of the saved ones the consolidated *)
(* report has in addition.                                                   *)
Review(verified, fit) ==
    /\ pc = "review"
    /\ \A f \in verified : Found(f)
    /\ fresh' = verified
    /\ {f \in saved : Fits(f)} \subseteq fit
    /\ \A f \in fit : InPlace(f)
    /\ carried' = fit \ verified
    /\ pc' = "persist"
    /\ UNCHANGED <<tables, stagevars, faults, failed>>

(* Another stage fails.                                                      *)
OtherFailure ==
    /\ pc = "review" /\ ~failed
    /\ Fault
    /\ failed' = TRUE
    /\ UNCHANGED <<tables, stagevars, pc, fresh, carried>>

Verified(f) ==
    LET i == IF f \in GraphFound THEN plan[Place[f]] ELSE None
    IN  [state |-> "validated", code |-> Current,
         nodes |-> IF i = None THEN {} ELSE i.refs,
         files |-> {Place[f]}, inv |-> i]

(* The final transaction.  A carried finding keeps its row.                  *)
Persist ==
    /\ pc = "persist"
    /\ finding' = [f \in Finding |-> IF f \in fresh THEN Verified(f) ELSE finding[f]]
    /\ scan' = [scan EXCEPT ![Now].status = IF failed THEN "UNSUCCESSFUL" ELSE "SUCCESSFUL",
                            ![Now].report = fresh \cup carried]
    /\ pc' = "idle"
    /\ UNCHANGED <<row, stagevars, faults, failed, fresh, carried>>

(* Mutant: the report is committed ahead of the findings.                    *)
ReportFirst(recorded) ==
    /\ pc = "persist"
    /\ scan' = [scan EXCEPT ![Now].status = IF recorded THEN "UNSUCCESSFUL" ELSE "RUNNING",
                            ![Now].report = fresh \cup carried]
    /\ Fault
    /\ pc' = "idle"
    /\ UNCHANGED <<row, finding, stagevars, failed, fresh, carried>>

(* It is rolled back; this too is recorded, if it can be.                    *)
PersistFails(recorded) ==
    /\ pc = "persist"
    /\ scan' = IF recorded THEN [scan EXCEPT ![Now].status = "UNSUCCESSFUL"] ELSE scan
    /\ Fault
    /\ pc' = "idle"
    /\ UNCHANGED <<row, finding, stagevars, failed, fresh, carried>>

Crash ==
    /\ pc # "idle"
    /\ Fault
    /\ pc' = "idle"
    /\ UNCHANGED <<tables, stagevars, failed, fresh, carried>>

--------------------------------------------------------------------------------
Next ==
    \/ \E c \in Codes : Begin(c)
    \/ LoadPrevious
    \/ Revalidate
    \/ \E read \in BOOLEAN : RevalidateFails(read)
    \/ OpenLedger
    \/ \E s \in Surface :
        \/ Rebase(s)
        \/ StartPlanning(s)
        \/ \E support \in Support : Plan(s, support) \/ PlanConflicts(s, support)
        \/ RecordGroup(s)
        \/ PlanFails(s)
        \/ Skip(s)
        \/ StartHunt(s)
        \/ \E state \in {"candidate", "no_candidate", "unresolved"} : EndHunt(s, state)
        \/ \E told \in BOOLEAN : HuntFails(s, told)
    \/ CompleteLedger
    \/ \E fromStore \in SUBSET Surface : HuntsDone(fromStore)
    \/ StageRaises
    \/ \E verified \in SUBSET Finding, fit \in SUBSET saved : Review(verified, fit)
    \/ OtherFailure
    \/ Persist
    \/ \E recorded \in BOOLEAN : PersistFails(recorded)
    \/ Crash

Spec == Init /\ [][Next]_vars

--------------------------------------------------------------------------------
(* Properties                                                                *)

TypeOK ==
    /\ scan \in Seq([code : Codes, status : {"RUNNING", "SUCCESSFUL", "UNSUCCESSFUL"},
                     graph : BOOLEAN, report : SUBSET Finding])
    /\ Now <= MaxScans
    /\ \A n \in 1..Now : scan[n].report \subseteq Known
    /\ DOMAIN row \subseteq Investigation
    /\ \A i \in DOMAIN row : row[i] \in [scan : 1..Now, state : InvestigationState]
    /\ finding \in [Finding -> FindingRow \cup {None}]
    /\ faults \in 0..MaxFaults
    /\ pc \in {"idle", "load", "revalidate", "ledger", "plan", "hunt", "review", "persist"}
    /\ invalid \subseteq DOMAIN row
    /\ prior \in 0..Now
    /\ saved \subseteq Known
    /\ ledger \in [Surface -> {"none", "pending", "planning", "planned", "reused", "failed"}]
    /\ plan \in [Surface -> Investigation \cup {None}]
    /\ basis \in [Surface -> Investigation \cup {None}]
    /\ result \in [Surface -> {"none", "hunting", "skipped", "candidate", "no_candidate",
                               "unresolved", "failed"}]
    /\ failed \in BOOLEAN
    /\ fresh \subseteq Finding /\ carried \subseteq saved

(* A scan that succeeded has an answer for each of its surfaces: a hunt of   *)
(* its own that ended, or a negative one of a scan that succeeded, hunted on *)
(* the same evidence; a chain of skipped hunts starts at a real one.         *)
SuccessAnswersEverySurface ==
    pc = "idle" /\ scan # <<>> /\ scan[Now].status = "SUCCESSFUL" =>
        \A s \in Surfaces :
            \/ result[s] \in {"candidate", "no_candidate"}
            \/ /\ result[s] = "skipped"
               /\ row[basis[s]].state = "no_candidate"
               /\ scan[row[basis[s]].scan].status = "SUCCESSFUL"
               /\ SameEvidence(basis[s].refs, basis[s].code, Current)

(* The ledger never says of a group that it is planned or reused before its  *)
(* investigation is stored for the snapshot, whatever dies in between.       *)
LedgerAgrees ==
    \A s \in Surface : Resolved(s) =>
        /\ plan[s] \in DOMAIN row
        /\ plan[s].at = s
        /\ plan[s].code = Current

(* A finding that is carried forward held in the code of the scan it is      *)
(* taken from: what changed before that has demoted it.                      *)
StaleForOneScanOnly ==
    \A f \in carried : ~Stale(f, scan[prior].code)

(* PLAN.md says a report is carried "after graph-based revalidation demotes  *)
(* findings whose recorded source, node, neighborhood, edge, or              *)
(* investigation dependencies changed": a carried finding holds in the code  *)
(* that is scanned, at least if no stage of the scan failed.                 *)
CarriedFindingsHold ==
    pc = "persist" /\ ~failed => \A f \in carried : ~Stale(f, Current)

================================================================================
