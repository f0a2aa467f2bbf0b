------------------------------- MODULE SearchScope ------------------------------
(*****************************************************************************)
(* What candidate discovery looks at: from the tasks of the hunt plan to the *)
(* review units that Discovery analyzes (optimized_ai.py, worksets.py).  The *)
(* model plans searches, their hits become regions of source, compatible     *)
(* regions are merged, tasks without a hit get the whole of their files, and *)
(* indexed routes and registrations that no region shows get regions of      *)
(* their own.  Regions of one surface are then the slices of a workset,      *)
(* which is cut in batches: the units.                                       *)
(*                                                                           *)
(* One file is modelled: regions of two files meet only as slices of graph   *)
(* worksets, where code of another file is a number of lines (more).  Sizes  *)
(* in characters are numbers of lines, but for the lines that alone exceed   *)
(* the budget of a region (wide).  The obligations of a task are one.        *)
(*                                                                           *)
(* Its names are none of Discovery: DiscoveryProofs extends both.            *)
(*****************************************************************************)
EXTENDS Integers, FiniteSets, SequencesExt

CONSTANTS
    Task,
    Names,          \* the routes among a task's entry_points
    FocusLines,     \* lines a task's focus_paths name with a line range
    FocusFile,      \* tasks with the whole file as a focus path
    Unfocused,      \* tasks without a focus path
    SearchPlans,    \* bound: sets of queries the model may plan
    Sources,        \* bound: files
    MaxHits,        \* bound: hits of one search
    Margin,         \* context_lines_before, context_lines_after
    MaxGap,         \* region_max_gap_lines
    MaxRegion,      \* region_max_characters
    SegmentSize,    \* source_segment_characters
    SliceSize,      \* maximum_source_lines_per_slice
    BatchSlices,    \* maximum_slices_per_batch
    BatchSize,      \* maximum_batch_characters
    NoSymbol

Query == [terms : STRING, tasks : SUBSET Task]

(* last is 0 when the parser gave no end.                                    *)
Symbol == [name : STRING, kind : {"symbol", "route"}, first : Nat, last : Nat]

(* A call at the top level, with the lines of the symbols it refers to       *)
(* without ambiguity.                                                        *)
Call == [first : Nat, last : Nat, refers : Seq(Nat)]

(* symbols: those of the index, routes last.  more: the lines of the symbols *)
(* a route refers to.  admitted: the routes and calls whose sources may all  *)
(* be shown.                                                                 *)
Source == [length : Nat, symbols : Seq(Symbol), calls : SUBSET Call,
           more : [STRING -> Seq(Nat)], admitted : SUBSET (Symbol \cup Call), wide : SUBSET Nat]

(* The parser gives a route the lines of its node, so that it has an end.    *)
IsSource(f) ==
    /\ f.length \in Nat \ {0}
    /\ f.symbols \in Seq(Symbol)
    /\ \A i \in DOMAIN f.symbols :
          LET s == f.symbols[i] IN
          /\ s.first \in 1..f.length
          /\ s.kind = "route" => s.last >= s.first /\ f.more[s.name] \in Seq(Nat)
    /\ f.calls \subseteq Call /\ IsFiniteSet(f.calls)
    /\ \A c \in f.calls : c.first \in 1..c.last /\ c.last <= f.length

ASSUME ScopeAssumption ==
    /\ IsFiniteSet(Task)
    /\ Names \in [Task -> SUBSET STRING]
    /\ FocusLines \in [Task -> SUBSET Nat]
    /\ FocusFile \cup Unfocused \subseteq Task
    /\ SearchPlans \subseteq SUBSET Query
    /\ {Margin, MaxGap, MaxHits} \subseteq Nat
    /\ {MaxRegion, SegmentSize, SliceSize, BatchSlices, BatchSize} \subseteq Nat \ {0}
    /\ \A f \in Sources : IsSource(f)
    /\ NoSymbol \notin Symbol

VARIABLES
    source,     \* the file
    queries,    \* the search plan
    pending,    \* queries, by their terms, that have not run
    hits,       \* hits_by_location: the tasks of each line that was hit
    failed,     \* a query could not execute
    regions,
    next,       \* the line, or the number of the route, that is looked at next
    units,
    stage

scopeVars == <<source, queries, pending, hits, failed, regions, next, units, stage>>

Lines == 1..source.length

ScopeInit ==
    /\ source \in Sources
    /\ queries = {}
    /\ pending = {}
    /\ hits = [l \in 1..source.length |-> {}]
    /\ failed = FALSE
    /\ regions = {}
    /\ next = 1
    /\ units = {}
    /\ stage = "planning"

--------------------------------------------------------------------------------
(* The searches                                                              *)

(* Queries with the same terms are run once, for the tasks of all of them    *)
(* (_canonical_queries).                                                     *)
TasksOf(terms) == UNION {q.tasks : q \in {x \in queries : x.terms = terms}}

(* A plan that does not cover every task is refused (_create_search_plan).   *)
PlanSearches ==
    /\ stage = "planning"
    /\ queries' \in SearchPlans
    /\ pending' = {q.terms : q \in queries'}
    /\ stage' = IF UNION {q.tasks : q \in queries'} = Task THEN "searching" ELSE "raised"
    /\ UNCHANGED <<source, hits, failed, regions, next, units>>

Search(terms) ==
    /\ stage = "searching"
    /\ terms \in pending
    /\ pending' = pending \ {terms}
    /\ \E found \in SUBSET Lines :
          /\ Cardinality(found) <= MaxHits
          /\ hits' = [l \in Lines |-> IF l \in found THEN hits[l] \cup TasksOf(terms)
                                      ELSE hits[l]]
    /\ UNCHANGED <<source, queries, failed, regions, next, units, stage>>

SearchFails(terms) ==
    /\ stage = "searching"
    /\ terms \in pending
    /\ pending' = pending \ {terms}
    /\ failed' = TRUE
    /\ UNCHANGED <<source, queries, hits, regions, next, units, stage>>

HitLines == {l \in Lines : hits[l] # {}}
TasksWithHits == UNION {hits[l] : l \in Lines}

--------------------------------------------------------------------------------
(* Regions                                                                   *)

Covers(r, l) == r.first <= l /\ l <= r.last
Overlap(r, a, b) == {l \in a..b : Covers(r, l)}
Size(r) == r.last - r.first + 1

Routes == {s \in Range(source.symbols) : s.kind = "route"}
RouteEnd(s) == Max({s.first, s.last})

(* The smallest symbol around a line, the first of several; what has no end  *)
(* is as small as can be.                                                    *)
Span(s) == Max({1, s.last - s.first})
EnclosingSymbol(l) ==
    LET around == {i \in DOMAIN source.symbols :
                      /\ source.symbols[i].first <= l
                      /\ source.symbols[i].last = 0 \/ l <= source.symbols[i].last}
        least == {i \in around : \A j \in around : Span(source.symbols[i]) <= Span(source.symbols[j])}
    IN IF around = {} THEN NoSymbol ELSE source.symbols[Min(least)]

(* Mutant: the end of a region is not clipped.                               *)
RegionUnclipped(a, b, found, tasks) ==
    LET anchor == IF found = NoSymbol THEN EnclosingSymbol(Max({1, a})) ELSE found
    IN [first |-> Max({1, a}), last |-> b,
        kind |-> IF anchor = NoSymbol THEN "line_range" ELSE anchor.kind,
        anchor |-> IF anchor = NoSymbol THEN "" ELSE anchor.name,
        tasks |-> tasks]

(* The lines of a region are clipped to the file.  Its anchor is the symbol  *)
(* that was found or the one around its first line; a line range has none.   *)
RegionFromRange(a, b, found, tasks) ==
    LET start == Max({1, a})
        anchor == IF found = NoSymbol THEN EnclosingSymbol(start) ELSE found
    IN [first |-> start,
        last |-> Min({source.length, Max({start, b})}),
        kind |-> IF anchor = NoSymbol THEN "line_range" ELSE anchor.kind,
        anchor |-> IF anchor = NoSymbol THEN "" ELSE anchor.name,
        tasks |-> tasks]

(* The code around a hit: its symbol, or its line, and the margins.          *)
Window(l, tasks) ==
    LET s == EnclosingSymbol(l) IN
    IF s = NoSymbol THEN RegionFromRange(l - Margin, l + Margin, NoSymbol, tasks)
    ELSE RegionFromRange(s.first - Margin, (IF s.last >= s.first THEN s.last ELSE l) + Margin,
                         s, tasks)

(* One region for the hits with the same window (regions_by_key).            *)
Windows ==
    {Window(l, UNION {hits[m] : m \in {k \in HitLines : Window(k, {}) = Window(l, {})}}) :
        l \in HitLines}

SameAnchor(r, s) == r.kind # "line_range" /\ r.kind = s.kind /\ r.anchor = s.anchor

(* region_overlap_ratio is one half, of the second region.                   *)
MayMerge(r, s) ==
    LET ample == 2 * Cardinality(Overlap(r, s.first, s.last)) >= Size(s) IN
    \/ SameAnchor(r, s) /\ (ample \/ s.first - r.last <= MaxGap)
    \/ r.kind = "line_range" /\ s.kind = "line_range" /\ ample

(* Mutant: a merged region has the tasks of the first one.                   *)
MergedWithFirst(r, s) ==
    [RegionFromRange(Min({r.first, s.first}), Max({r.last, s.last}), NoSymbol, r.tasks)
        EXCEPT !.kind = r.kind, !.anchor = r.anchor]

Merged(r, s) ==
    LET both == RegionFromRange(Min({r.first, s.first}), Max({r.last, s.last}), NoSymbol,
                                r.tasks \cup s.tasks)
    IN IF SameAnchor(r, s) THEN [both EXCEPT !.kind = r.kind, !.anchor = r.anchor] ELSE both

(* One region after the other is merged with what came before it, or begins  *)
(* anew: when it may not be merged, or what would come of it is too long.    *)
MergeNext(sofar, s) ==
    IF /\ sofar.current # {}
       /\ \A r \in sofar.current : MayMerge(r, s) /\ Size(Merged(r, s)) <= MaxRegion
    THEN [sofar EXCEPT !.current = {Merged(r, s) : r \in @}]
    ELSE [closed |-> sofar.closed \cup sofar.current, current |-> {s}]

(* They are taken by their first line, then by their last.                   *)
LastRegion(R) ==
    CHOOSE r \in R : \A s \in R : \/ s.first < r.first
                                  \/ s.first = r.first /\ s.last <= r.last

MergedRegions(R) ==
    LET end == MapThenFoldSet(LAMBDA r, sofar : MergeNext(sofar, r), [closed |-> {}, current |-> {}],
                              LAMBDA r : r, LastRegion, R)
    IN end.closed \cup end.current

MakeRegions ==
    /\ stage = "searching"
    /\ pending = {}
    /\ regions' = MergedRegions(Windows)
    /\ stage' = "focusing"
    /\ UNCHANGED <<source, queries, pending, hits, failed, next, units>>

--------------------------------------------------------------------------------
(* What no region shows yet                                                  *)

(* Mutant: a region that ends within another one takes all of it.            *)
CutShort(remaining, r) ==
    {p \in remaining : r.last < p[1] \/ r.first > p[2]}
    \cup {<<p[1], r.first - 1>> : p \in {x \in remaining : x[1] < r.first /\ r.first <= x[2]}}

(* The parts of ranges that are left before and after a region.              *)
Cut(remaining, r) ==
    {p \in remaining : r.last < p[1] \/ r.first > p[2]}
    \cup UNION {{<<p[1], r.first - 1>>, <<r.last + 1, p[2]>>} :
                   p \in {x \in remaining : r.last >= x[1] /\ r.first <= x[2]}}

(* _subtract_covered_ranges                                                  *)
Uncovered(a, b, R) ==
    {p \in FoldSet(LAMBDA r, remaining : Cut(remaining, r), {<<a, b>>}, R) : p[1] <= p[2]}

(* A whole file is what _focus_paths_for_missing_tasks finds: a focus with a *)
(* line range is no path of a file.                                          *)
FocusTasks == FocusFile \ TasksWithHits

(* One segment of the file: the regions in it get the tasks, and what they   *)
(* leave is a region of its own.                                             *)
FocusSegment ==
    LET end == Min({source.length, next + SegmentSize - 1})
        touched == {r \in regions : Overlap(r, next, end) # {}}
    IN
    /\ stage = "focusing"
    /\ FocusTasks # {}
    /\ next <= source.length
    /\ next' = end + 1
    /\ regions' = (regions \ touched)
                  \cup {[r EXCEPT !.tasks = @ \cup FocusTasks] : r \in touched}
                  \cup {RegionFromRange(p[1], p[2], NoSymbol, FocusTasks) :
                           p \in Uncovered(next, end, touched)}
    /\ UNCHANGED <<source, queries, pending, hits, failed, units, stage>>

FocusDone ==
    /\ stage = "focusing"
    /\ FocusTasks = {} \/ next > source.length
    /\ next' = 1
    /\ stage' = "indexing"
    /\ UNCHANGED <<source, queries, pending, hits, failed, regions, units>>

(* Pieces of a range, no longer than a slice.                                *)
Pieces(a, b) ==
    {<<l, Min({b, l + SliceSize - 1})>> : l \in {m \in a..b : (m - a) % SliceSize = 0}}

(* Mutant: any region that shows the lines of a route covers it.             *)
ShowsLines(r, s) == TRUE

ShowsRoute(r, s) == r.kind = "route" /\ r.anchor = s.name

(* One route: what regions anchored at it leave of it is cut in pieces.  A   *)
(* line beyond the budget is an error.                                       *)
AddRoute ==
    /\ stage = "indexing"
    /\ next \in DOMAIN source.symbols
    /\ LET s == source.symbols[next]
           left == IF s.kind # "route" THEN {}
                   ELSE Uncovered(s.first, Min({source.length, RouteEnd(s)}),
                                  {r \in regions : ShowsRoute(r, s)})
       IN IF \E p \in left : p[1]..p[2] \cap source.wide # {}
          THEN stage' = "raised" /\ UNCHANGED <<regions, next>>
          ELSE /\ regions' = regions \cup
                     {RegionFromRange(q[1], q[2], s, {}) :
                         q \in UNION {Pieces(p[1], p[2]) : p \in left}}
               /\ next' = next + 1
               /\ UNCHANGED stage
    /\ UNCHANGED <<source, queries, pending, hits, failed, units>>

(* Top-level calls that refer to symbols and are not part of a route.        *)
Registrations ==
    {c \in source.calls :
        c.refers # <<>> /\ \A s \in Routes : c.first..c.last \cap s.first..RouteEnd(s) = {}}

ShowsRegistration(r) == r.kind # "route"

(* What regions of other anchors than routes leave of a piece of a           *)
(* registration, those included that were added for one before it:           *)
(* registrations may be nested.                                              *)
AddPiece(p, R) ==
    R \cup {RegionFromRange(q[1], q[2], NoSymbol, {}) :
               q \in Uncovered(p[1], p[2], {r \in R : ShowsRegistration(r)})}

(* They are taken one after the other, piece by piece.                       *)
LastPiece(S) ==
    CHOOSE x \in S : \A y \in S : \/ y[1].first < x[1].first
                                  \/ y[1].first = x[1].first /\ y[2][1] <= x[2][1]

AddRegistrations ==
    /\ stage = "indexing"
    /\ next \notin DOMAIN source.symbols
    /\ regions' = MapThenFoldSet(AddPiece, regions, LAMBDA x : x[2], LastPiece,
                                 UNION {{c} \X Pieces(c.first, c.last) : c \in Registrations})
    /\ stage' = "grouping"
    /\ UNCHANGED <<source, queries, pending, hits, failed, next, units>>

--------------------------------------------------------------------------------
(* What a region is asked (_tasks_relevant_to_region)                        *)

InFocus(t, r) ==
    t \in Unfocused \cup FocusFile \/ FocusLines[t] \cap r.first..r.last # {}

(* A region anchored at a route is asked what the tasks that name the route  *)
(* ask, and no other task.  A line range would be, too, for the routes it    *)
(* shows, but it knows them from the symbols of the index, where routes are  *)
(* not (_related_ir).                                                        *)
RelevantTasks(r) ==
    LET selected == IF r.tasks = {} THEN Task ELSE r.tasks IN
    IF r.kind = "route" THEN {t \in selected : r.anchor \in Names[t]}
    ELSE {t \in selected : InFocus(t, r)}

(* A region that no task has anything to ask of is asked for a local review  *)
(* (_enrich_region_requirements).                                            *)
Requirements(r) == IF RelevantTasks(r) = {} THEN {"local_review"} ELSE RelevantTasks(r)

--------------------------------------------------------------------------------
(* Review units (_discovery_workset_units)                                   *)

(* A workset of the index: a route or a registration with the symbols it     *)
(* refers to (security_worksets_from_graph).                                 *)
GraphWorksets == Routes \cup Registrations
IsRoute(w) == w \in Routes

PrimaryPieces(w) ==
    Pieces(w.first, IF IsRoute(w) THEN Min({source.length, RouteEnd(w)}) ELSE w.last)
ReferredTo(w) == IF IsRoute(w) THEN source.more[w.name] ELSE w.refers

(* _workset_primary_matches_region                                           *)
Matches(w, r) ==
    /\ IF IsRoute(w) THEN r.kind = "route" /\ r.anchor = w.name ELSE r.kind # "route"
    /\ \E p \in PrimaryPieces(w) : Overlap(r, p[1], p[2]) # {}

(* The workset that a region joins, if it is the only one and all its code   *)
(* may be shown.                                                             *)
Chosen(r) ==
    LET matches == {w \in GraphWorksets : Matches(w, r)} IN
    IF Cardinality(matches) = 1 THEN matches \cap source.admitted ELSE {}

MembersOf(w) == {r \in regions : w \in Chosen(r)}

Length(p) == p[2] - p[1] + 1
SizeOf(R) == SumFunction([r \in R |-> Size(r)])

(* The members are slices beside those of the index, whose text is left out  *)
(* where a member shows it; all must fit one batch.                          *)
FitsOneBatch(w) ==
    LET shown == {p \in PrimaryPieces(w) : \E r \in MembersOf(w) : Covers(r, p[1]) /\ Covers(r, p[2])}
    IN
    /\ Cardinality(PrimaryPieces(w)) + Len(ReferredTo(w)) + Cardinality(MembersOf(w)) <= BatchSlices
    /\ SumFunction([p \in PrimaryPieces(w) \ shown |-> Length(p)])
         + SumFunction(ReferredTo(w))
         + SizeOf(MembersOf(w)) <= BatchSize

Unit(surface, members, index, count) ==
    [surface |-> surface, members |-> members, index |-> index, count |-> count]

GraphUnits ==
    {Unit(w, MembersOf(w), 1, 1) :
        w \in {x \in GraphWorksets : MembersOf(x) # {} /\ FitsOneBatch(x)}}

Unmatched == regions \ UNION {u.members : u \in GraphUnits}

(* The surface of a region: its anchor, or for a line range its lines.       *)
Surface(r) ==
    IF r.kind = "line_range" THEN [r EXCEPT !.tasks = {}]
    ELSE [r EXCEPT !.tasks = {}, !.first = 0, !.last = 0]

(* Mutant: a slice that does not fit what a batch has left is dropped.       *)
FirstBatchOnly(batches, r) == IF batches = <<>> THEN <<{r}>> ELSE batches

(* SecurityWorkset.batches                                                   *)
AddToBatches(batches, r) ==
    LET n == Len(batches) IN
    IF n > 0 /\ Cardinality(batches[n]) < BatchSlices /\ SizeOf(batches[n] \cup {r}) <= BatchSize
    THEN [batches EXCEPT ![n] = @ \cup {r}]
    ELSE Append(batches, {r})

LastSlice(R) == CHOOSE r \in R : \A s \in R : s.first <= r.first

Batches(R) == MapThenFoldSet(LAMBDA r, batches : AddToBatches(batches, r), <<>>,
                             LAMBDA r : r, LastSlice, R)

RegionUnits ==
    LET surfaces == {Surface(r) : r \in Unmatched}
        batches == [s \in surfaces |-> Batches({r \in Unmatched : Surface(r) = s})]
    IN UNION {{Unit(s, batches[s][i], i, Len(batches[s])) : i \in DOMAIN batches[s]} :
                 s \in surfaces}

(* No region at all is an error, and so is one that no batch can hold.       *)
MakeUnits ==
    /\ stage = "grouping"
    /\ IF regions = {} \/ \E r \in Unmatched : Size(r) > BatchSize
       THEN stage' = "raised" /\ UNCHANGED units
       ELSE stage' = "ready" /\ units' = GraphUnits \cup RegionUnits
    /\ UNCHANGED <<source, queries, pending, hits, failed, regions, next>>

(* What a unit is asked: what its members are, and for the surface itself.   *)
Asks(u) == {"surface_review"} \cup UNION {Requirements(r) : r \in u.members}

ScopeNext ==
    \/ PlanSearches
    \/ \E terms \in pending : Search(terms) \/ SearchFails(terms)
    \/ MakeRegions
    \/ FocusSegment
    \/ FocusDone
    \/ AddRoute
    \/ AddRegistrations
    \/ MakeUnits

ScopeSpec == ScopeInit /\ [][ScopeNext]_scopeVars

--------------------------------------------------------------------------------
(* Properties                                                                *)

SourceRegion ==
    [first : Lines, last : Lines, kind : {"route", "symbol", "line_range"},
     anchor : {""} \cup {s.name : s \in Range(source.symbols)}, tasks : SUBSET Task]

(* Every variable stays in its type; regions have their lines in order.      *)
ScopeTypeOK ==
    /\ source \in Sources
    /\ queries \in SearchPlans \cup {{}}
    /\ pending \subseteq {q.terms : q \in queries}
    /\ hits \in [Lines -> SUBSET Task]
    /\ failed \in BOOLEAN
    /\ regions \subseteq SourceRegion /\ \A r \in regions : r.first <= r.last
    /\ next \in 1..Max({source.length, Len(source.symbols)}) + 1
    /\ \A u \in units : u.members \subseteq regions /\ u.index \in 1..u.count
    /\ stage \in {"planning", "searching", "focusing", "indexing", "grouping", "ready", "raised"}

Reviewed(l, Wanted(_)) ==
    \E u \in units : \E r \in u.members : Covers(r, l) /\ Wanted(r)

(* A line that a search of a task hit is reviewed in a unit that knows the   *)
(* task: windows that are clipped, merged, joined to a workset of the index  *)
(* or cut in batches lose neither.  If the line is in the task's focus, the  *)
(* unit is asked what the task asks, but for what is reviewed as a route     *)
(* that the task does not name.                                              *)
HitsReviewed ==
    stage = "ready" =>
        \A l \in Lines : \A t \in hits[l] :
            \E u \in units : \E r \in u.members :
                /\ Covers(r, l) /\ t \in r.tasks
                /\ \/ ~InFocus(t, [first |-> l, last |-> l])
                   \/ t \in Asks(u)
                   \/ r.kind = "route" /\ r.anchor \notin Names[t]

(* Whatever the searches found or failed to find, every line of an indexed   *)
(* route is reviewed as that route, and every line of a registration is      *)
(* reviewed, other than as a part of a route.                                *)
SurfacesReviewed ==
    stage = "ready" =>
        /\ \A s \in Routes : \A l \in s.first..Min({source.length, RouteEnd(s)}) :
              Reviewed(l, LAMBDA r : r.kind = "route" /\ r.anchor = s.name)
        /\ \A c \in Registrations : \A l \in c.first..c.last :
              Reviewed(l, LAMBDA r : r.kind # "route")

(* A task without a hit, as of a query that failed, has every line of the    *)
(* file it focuses on reviewed in a unit that knows the task.                *)
FocusReviewed ==
    stage = "ready" =>
        \A t \in FocusFile \ TasksWithHits : \A l \in Lines :
            Reviewed(l, LAMBDA r : t \in r.tasks)

(* Every region is in one unit, no unit is beyond what a batch holds, and of *)
(* every surface all the batches that its units count are there, once.       *)
UnitsPartition ==
    /\ stage = "ready" => \A r \in regions : Cardinality({u \in units : r \in u.members}) = 1
    /\ \A u \in units :
          /\ Cardinality(u.members) <= BatchSlices /\ SizeOf(u.members) <= BatchSize
          /\ LET siblings == {v \in units : v.surface = u.surface} IN
                /\ Cardinality(siblings) = u.count
                /\ \A v \in siblings : v.count = u.count /\ (v.index = u.index => v = u)

================================================================================
