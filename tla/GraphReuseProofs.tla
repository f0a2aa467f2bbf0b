---------------------------- MODULE GraphReuseProofs ----------------------------
(*****************************************************************************)
(* Theorems about GraphReuse, for any number of nodes, surfaces, findings,   *)
(* revisions, scans and failures.                                            *)
(*****************************************************************************)
EXTENDS GraphReuse, SequenceTheorems, WellFoundedInduction, TLAPS

ScanRow ==
    [code : Codes, status : {"RUNNING", "SUCCESSFUL", "UNSUCCESSFUL"}, graph : BOOLEAN,
     report : SUBSET Finding]

Early == {"load", "revalidate", "ledger", "plan"}

(* A scan that goes on is the last one, and nothing is known of its end.     *)
RunningScan == pc # "idle" => scan # <<>> /\ scan[Now].status = "RUNNING"

(* A plan is stored, and is one of its surface in the code of this scan.     *)
PlansStored ==
    \A s \in Surface : plan[s] # None =>
        plan[s] \in DOMAIN row /\ plan[s].at = s /\ plan[s].code = Current

LedgerFits ==
    \A s \in Surface : /\ ledger[s] # "none" => s \in Surfaces
                       /\ Resolved(s) => plan[s] # None

(* What a hunt is left out for is still what it was when it was chosen.      *)
BasisHolds ==
    \A s \in Surface : basis[s] # None =>
        /\ basis[s] \in DOMAIN row
        /\ row[basis[s]].state = "no_candidate"
        /\ scan[row[basis[s]].scan].status = "SUCCESSFUL"
        /\ SameEvidence(basis[s].refs, basis[s].code, Current)

(* A result says how the hunt of its surface went, and a bad one is counted. *)
ResultsFit ==
    /\ pc \in Early => carried = {} /\ \A s \in Surface : result[s] = "none"
    /\ \A s \in Surface : /\ result[s] = "skipped" => basis[s] # None
                          /\ result[s] \in {"unresolved", "failed"} => failed

(* A scan without a failure passed the end of the hunts.                     *)
Answers == \A s \in Surfaces : result[s] \in {"candidate", "no_candidate", "skipped"}

Answered ==
    /\ pc \in {"review", "persist"} /\ ~failed => Answers
    /\ pc = "idle" /\ scan # <<>> /\ scan[Now].status = "SUCCESSFUL" => Answers

IInv ==
    /\ TypeOK
    /\ RunningScan
    /\ PlansStored
    /\ LedgerFits
    /\ BasisHolds
    /\ ResultsFit
    /\ Answered

--------------------------------------------------------------------------------
(* A set of numbers with a bound has a greatest one.                         *)
LEMMA BoundedMax ==
    ASSUME NEW b \in Nat, NEW S, S \subseteq 0..b, S # {}
    PROVE  \E m \in S : \A k \in S : k <= m
  <1> DEFINE T == {b - k : k \in S}
  <1>1. T \subseteq Nat /\ T # {}
    <2>1. \A k \in S : b - k \in Nat
      BY SMT
    <2>2. PICK k \in S : TRUE
      OBVIOUS
    <2>3. b - k \in T
      OBVIOUS
    <2>4. QED
      BY <2>1, <2>3
  <1>2. \E x \in T : \A y \in T : ~ (<<y, x>> \in OpToRel(<, Nat))
    <2> HIDE DEF T
    <2>1. IsWellFoundedOn(OpToRel(<, Nat), Nat)
      BY NatLessThanWellFounded
    <2>2. QED
      BY <1>1, <2>1, WFMin
  <1>3. PICK x \in T : \A y \in T : ~ (<<y, x>> \in OpToRel(<, Nat))
    BY <1>2
  <1>4. \A y \in T : ~(y < x)
    BY <1>1, <1>3 DEF OpToRel
  <1>5. PICK m \in S : x = b - m
    OBVIOUS
  <1>6. \A k \in S : k <= m
    <2> TAKE k \in S
    <2>1. b - k \in T
      OBVIOUS
    <2>2. ~(b - k < b - m)
      BY <2>1, <1>4, <1>5
    <2>3. QED
      BY <2>2
  <1>7. QED
    BY <1>6

(* Induction up to a bound, with a set in place of the formula: the numbers  *)
(* up to which T has no gap have a greatest one.                             *)
LEMMA UpTo ==
    ASSUME NEW n \in Nat, NEW T, 0 \in T, \A k \in 1..n : k - 1 \in T => k \in T
    PROVE  \A k \in 0..n : k \in T
  <1> DEFINE S == {k \in 0..n : \A j \in 0..k : j \in T}
  <1>1. S \subseteq 0..n /\ 0 \in S
    OBVIOUS
  <1>2. PICK m \in S : \A k \in S : k <= m
    <2> HIDE DEF S
    <2>1. QED
      BY <1>1, BoundedMax
  <1>3. m = n
    <2> SUFFICES ASSUME m # n  PROVE FALSE
      OBVIOUS
    <2>1. m \in 0..n /\ m + 1 \in 1..n /\ (m + 1) - 1 = m /\ m \in T
      BY <1>2
    <2>2. m + 1 \in T
      BY <2>1
    <2>3. \A j \in 0..(m + 1) : j \in 0..m \/ j = m + 1
      BY <2>1
    <2>4. m + 1 \in S
      BY <1>2, <2>1, <2>2, <2>3
    <2>5. QED
      BY <1>2, <2>1, <2>4
  <1>4. QED
    BY <1>2, <1>3

(* The nodes a walk over callers reaches include those it starts from.       *)
LEMMA StartIsReached ==
    ASSUME NEW c, NEW S
    PROVE  S \subseteq CallersWithin(c, S)
  <1> DEFINE D == SUBSET (S \cup Nodes(c))
             Walk(g, n) == \A k \in 0..n :
                g[k] = IF k = 0 THEN S ELSE g[k - 1] \cup Callers(c, g[k - 1])
             T == {n \in 0..Hops : \E g \in [0..n -> D] : Walk(g, n)}
             Eq(g) == g = [k \in 0..Hops |-> IF k = 0 THEN S
                                             ELSE g[k - 1] \cup Callers(c, g[k - 1])]
             round == CHOOSE g : Eq(g)
  <1>h. Hops \in Nat
    BY GraphAssumption
  <1>0. S \in D /\ \A B \in D : B \cup Callers(c, B) \in D
    BY DEF Callers, Edges
  <1> HIDE DEF D
  <1>1. 0 \in T
    <2> DEFINE g == [k \in 0..0 |-> S]
    <2>1. g \in [0..0 -> D] /\ Walk(g, 0) /\ 0 \in 0..Hops
      BY <1>0, <1>h
    <2> HIDE DEF g, Walk
    <2>2. QED
      BY <2>1
  <1>2. ASSUME NEW n \in 1..Hops, n - 1 \in T  PROVE n \in T
    <2>1. PICK h \in [0..(n - 1) -> D] : Walk(h, n - 1)
      BY <1>2
    <2>2. n \in Nat \ {0} /\ n - 1 \in 0..(n - 1) /\ n \in 0..Hops
      BY <1>h
    <2> DEFINE last == h[n - 1] \cup Callers(c, h[n - 1])
               g == [k \in 0..n |-> IF k = n THEN last ELSE h[k]]
    <2>3. last \in D
      BY <1>0, <2>1, <2>2
    <2>4. g[n] = last /\ \A k \in 0..(n - 1) : g[k] = h[k] /\ h[k] \in D
      BY <2>1, <2>2
    <2>5. g \in [0..n -> D]
      BY <2>1, <2>2, <2>3
    <2>6. Walk(g, n)
      <3> SUFFICES ASSUME NEW k \in 0..n
                   PROVE  g[k] = IF k = 0 THEN S ELSE g[k - 1] \cup Callers(c, g[k - 1])
        OBVIOUS
      <3> HIDE DEF g
      <3>1. CASE k = n
        <4>1. g[k - 1] = h[n - 1] /\ k # 0
          BY <2>2, <2>4, <3>1
        <4>2. QED
          BY <2>4, <3>1, <4>1
      <3>2. CASE k # n
        <4>1. k \in 0..(n - 1) /\ (k # 0 => k - 1 \in 0..(n - 1))
          BY <2>2, <3>2
        <4>2. h[k] = IF k = 0 THEN S ELSE h[k - 1] \cup Callers(c, h[k - 1])
          BY <2>1, <4>1
        <4>3. QED
          BY <2>4, <4>1, <4>2
      <3>3. QED
        BY <3>1, <3>2
    <2> HIDE DEF g, Walk
    <2>7. QED
      BY <2>2, <2>5, <2>6
  <1>3. Hops \in T
    <2> HIDE DEF T
    <2>1. \A n \in 0..Hops : n \in T
      BY <1>1, <1>2, <1>h, UpTo
    <2>2. QED
      BY <1>h, <2>1
  <1>4. PICK h \in [0..Hops -> D] : Walk(h, Hops)
    BY <1>3
  <1>5. Eq(h)
    BY <1>4
  <1>6. Eq(round)
    <2> HIDE DEF Eq
    <2>1. QED
      BY <1>5
  <1>7. CallersWithin(c, S) = round[Hops]
    BY DEF CallersWithin
  <1> HIDE DEF round
  <1>8. \A k \in 0..Hops : round[k] = IF k = 0 THEN S
                                      ELSE round[k - 1] \cup Callers(c, round[k - 1])
    BY <1>6
  <1> DEFINE U == {k \in 0..Hops : S \subseteq round[k]}
  <1>9. 0 \in U
    <2>1. 0 \in 0..Hops
      BY <1>h
    <2>2. round[0] = S
      BY ONLY <1>8, <2>1
    <2>3. QED
      BY ONLY <2>1, <2>2
  <1>10. ASSUME NEW k \in 1..Hops, k - 1 \in U  PROVE k \in U
    <2>1. k \in 0..Hops /\ k # 0
      BY <1>h
    <2>2. round[k] = round[k - 1] \cup Callers(c, round[k - 1])
      BY ONLY <1>8, <2>1
    <2>3. S \subseteq round[k - 1]
      BY ONLY <1>10
    <2>4. QED
      BY ONLY <2>1, <2>2, <2>3
  <1>11. Hops \in U
    <2> HIDE DEF U
    <2>1. \A k \in 0..Hops : k \in U
      BY <1>9, <1>10, <1>h, UpTo
    <2>2. QED
      BY <1>h, <2>1
  <1>12. QED
    BY <1>7, <1>11

(* Of stored investigations there is a newest.                               *)
LEMMA NewestIsOne ==
    ASSUME TypeOK, NEW I \in SUBSET DOMAIN row, I # {}
    PROVE  Newest(I) \in I
  <1> DEFINE S == {row[i].scan : i \in I}
  <1>1. Now \in Nat /\ \A i \in DOMAIN row : row[i].scan \in 1..Now
    BY LenProperties DEF TypeOK, Now
  <1>2. S \subseteq 0..Now /\ S # {}
    BY <1>1
  <1>3. PICK m \in S : \A k \in S : k <= m
    <2> HIDE DEF S
    <2>1. QED
      BY <1>1, <1>2, BoundedMax
  <1>4. \E i \in I : \A j \in I : row[j].scan <= row[i].scan
    BY <1>3
  <1>5. QED
    BY <1>4 DEF Newest

(* The scan whose graph is compared is an earlier one.                       *)
LEMMA LatestType ==
    ASSUME TypeOK, scan # <<>>
    PROVE  Latest \in 0..(Now - 1)
  <1> DEFINE graphs == {k \in 1..(Now - 1) : scan[k].graph}
  <1>1. Now \in Nat \ {0}
    BY LenProperties, EmptySeq DEF TypeOK, Now
  <1>2. CASE graphs = {}
    BY <1>1, <1>2 DEF Latest
  <1>3. CASE graphs # {}
    <2>1. \E m \in graphs : \A k \in graphs : k <= m
      <3>1. graphs \subseteq 0..Now
        BY <1>1
      <3> HIDE DEF graphs
      <3>2. QED
        BY <1>1, <1>3, <3>1, BoundedMax
    <2>2. Latest \in graphs
      BY <1>3, <2>1 DEF Latest
    <2>3. QED
      BY <1>1, <2>2
  <1>4. QED
    BY <1>2, <1>3

(* The scan at hand is a row of the table.                                   *)
LEMMA CurrentType ==
    ASSUME TypeOK, scan # <<>>
    PROVE  /\ Now \in Nat \ {0} /\ Now \in 1..Now
           /\ scan \in Seq(ScanRow) /\ scan[Now] \in ScanRow
           /\ Current \in Codes
  <1>1. scan \in Seq(ScanRow)
    BY DEF TypeOK, ScanRow
  <1>2. Now \in Nat \ {0}
    BY <1>1, LenProperties, EmptySeq DEF Now
  <1>3. scan[Now] \in ScanRow
    BY <1>1, <1>2, ElementOfSeq DEF Now
  <1>4. QED
    BY <1>1, <1>2, <1>3 DEF Current, ScanRow

(* Changes of the scan at hand leave the others alone.                       *)
LEMMA LastChanges ==
    ASSUME TypeOK, scan # <<>>,
           NEW status \in {"RUNNING", "SUCCESSFUL", "UNSUCCESSFUL"}, NEW graph \in BOOLEAN,
           NEW report \in SUBSET Finding,
           scan' = [scan EXCEPT ![Now] = [code |-> @.code, status |-> status, graph |-> graph,
                                          report |-> report]]
    PROVE  /\ scan' \in Seq(ScanRow) /\ Now' = Now /\ Current' = Current /\ scan' # <<>>
           /\ Surfaces' = Surfaces
           /\ \A k \in 1..Now : k # Now => scan'[k] = scan[k]
           /\ scan'[Now].status = status /\ scan'[Now].report = report
  <1> DEFINE new == [code |-> scan[Now].code, status |-> status, graph |-> graph, report |-> report]
  <1>1. scan \in Seq(ScanRow) /\ Now \in 1..Now /\ scan[Now] \in ScanRow /\ Now \in Nat \ {0}
    BY CurrentType
  <1>2. new \in ScanRow
    BY <1>1 DEF ScanRow
  <1>3. scan' = [scan EXCEPT ![Now] = new]
    OBVIOUS
  <1> HIDE DEF new
  <1>4. scan' \in Seq(ScanRow) /\ Len(scan') = Len(scan) /\ scan'[Now] = new
        /\ \A k \in 1..Now : k # Now => scan'[k] = scan[k]
    BY <1>1, <1>2, <1>3, ExceptSeq DEF Now
  <1>5. Now' = Now /\ scan' # <<>>
    BY <1>1, <1>4, EmptySeq DEF Now
  <1>6. Current' = Current
    BY <1>4, <1>5 DEF Current, new
  <1>7. Surfaces' = Surfaces
    BY <1>6 DEF Surfaces
  <1>8. QED
    BY <1>4, <1>5, <1>6, <1>7 DEF new

--------------------------------------------------------------------------------
(* The steps                                                                 *)

LEMMA InitInv == Init => IInv
  <1> SUFFICES ASSUME Init  PROVE IInv
    OBVIOUS
  <1>1. scan = <<>> /\ Now = 0
    BY EmptySeq DEF Init, Now
  <1>2. TypeOK
    <2>1. scan \in Seq([code : Codes, status : {"RUNNING", "SUCCESSFUL", "UNSUCCESSFUL"},
                        graph : BOOLEAN, report : SUBSET Finding])
      BY <1>1, EmptySeq
    <2>2. Now <= MaxScans /\ 0 \in 0..MaxFaults /\ 0 \in 0..Now
      BY <1>1, ConstantsAssumption
    <2>3. DOMAIN row = {} /\ Known = {} /\ \A n \in 1..Now : scan[n].report \subseteq Known
      BY <1>1 DEF Init, Known
    <2>4. QED
      BY <2>1, <2>2, <2>3 DEF Init, TypeOK
  <1>3. RunningScan /\ PlansStored /\ LedgerFits /\ BasisHolds /\ ResultsFit /\ Answered
    BY <1>1 DEF Init, RunningScan, PlansStored, LedgerFits, BasisHolds, ResultsFit, Answered,
                Resolved, Early
  <1>4. QED
    BY <1>2, <1>3 DEF IInv

(* Steps that leave the tables and the plans alone.                          *)
LEMMA FlowInv ==
    ASSUME IInv,
           UNCHANGED <<scan, row, invalid, prior, plan, basis, result>>,
           finding' \in [Finding -> FindingRow \cup {None}], Known \subseteq Known',
           ledger' \in [Surface -> {"none", "pending", "planning", "planned", "reused", "failed"}],
           \A s \in Surface : /\ ledger'[s] # "none" => s \in Surfaces
                              /\ ledger'[s] \in {"planned", "reused"} => plan[s] # None,
           faults' \in 0..MaxFaults, failed' \in BOOLEAN, failed => failed',
           saved' \subseteq Known', fresh' \subseteq Finding, carried' \subseteq saved',
           pc' \in {"idle", "revalidate", "ledger", "plan", "hunt", "review", "persist"},
           pc' # "idle" => pc # "idle",
           pc' = "idle" => pc # "idle" \/ failed' = failed,
           pc' \in Early => pc \in Early /\ carried' = carried,
           pc' \in {"review", "persist"} /\ ~failed' =>
               Answers \/ (pc \in {"review", "persist"} /\ ~failed)
    PROVE  IInv'
  <1>1. /\ Now' = Now /\ Current' = Current /\ Surfaces' = Surfaces
        /\ scan' = scan /\ row' = row /\ basis' = basis /\ plan' = plan /\ result' = result
    BY DEF Now, Current, Surfaces
  <1>2. TypeOK'
    BY <1>1 DEF IInv, TypeOK
  <1>3. RunningScan'
    BY <1>1 DEF IInv, RunningScan
  <1>4. PlansStored' /\ BasisHolds'
    BY <1>1 DEF IInv, PlansStored, BasisHolds
  <1>5. LedgerFits'
    BY <1>1 DEF LedgerFits, Resolved
  <1>6. ResultsFit'
    BY <1>1 DEF IInv, ResultsFit
  <1>7. Answered'
    <2>1. Answers' = Answers
      BY <1>1 DEF Answers
    <2>2. pc' = "idle" => pc = "idle" \/ (pc # "idle" /\ scan[Now].status # "SUCCESSFUL")
      BY DEF IInv, RunningScan
    <2>3. QED
      BY <1>1, <2>1, <2>2 DEF IInv, Answered
  <1>8. QED
    BY <1>2, <1>3, <1>4, <1>5, <1>6, <1>7 DEF IInv

(* Steps that store a plan for a surface.                                    *)
LEMMA StoreInv ==
    ASSUME IInv, pc = "plan", NEW s \in Surface, NEW i \in Investigation,
           i.at = s, i.code = Current, ~Resolved(s), row' = Stored(i),
           NEW j, j # None => j \in Reusable /\ SameEvidence(j.refs, j.code, Current),
           plan' = [plan EXCEPT ![s] = i], basis' = [basis EXCEPT ![s] = j],
           UNCHANGED <<scan, finding, faults, pc, invalid, prior, saved, ledger, result,
                       failed, fresh, carried>>
    PROVE  IInv'
  <1>1. /\ Now' = Now /\ Current' = Current /\ Surfaces' = Surfaces /\ Known' = Known
        /\ scan' = scan /\ ledger' = ledger /\ result' = result /\ pc' = pc /\ failed' = failed
    BY DEF Now, Current, Surfaces, Known
  <1>2. scan # <<>>
    BY DEF IInv, RunningScan
  <1>3. /\ DOMAIN row' = DOMAIN row \cup {i}
        /\ \A k \in DOMAIN row : row'[k] = row[k]
        /\ \A k \in DOMAIN row' : row'[k] \in [scan : 1..Now, state : InvestigationState]
    <2>1. [scan |-> Now, state |-> "planned"] \in [scan : 1..Now, state : InvestigationState]
      BY <1>2, CurrentType DEF IInv, InvestigationState
    <2>2. \A k \in DOMAIN row : row[k] \in [scan : 1..Now, state : InvestigationState]
      BY DEF IInv, TypeOK
    <2>3. QED
      BY <2>1, <2>2 DEF Stored
  <1>4. /\ plan \in [Surface -> Investigation \cup {None}]
        /\ basis \in [Surface -> Investigation \cup {None}]
        /\ DOMAIN row \subseteq Investigation
    BY DEF IInv, TypeOK
  <1>5. j = None \/ j \in DOMAIN row
    BY DEF Reusable
  <1>6. TypeOK'
    <2>1. plan' \in [Surface -> Investigation \cup {None}]
      BY <1>4
    <2>2. basis' \in [Surface -> Investigation \cup {None}]
      BY <1>4, <1>5
    <2>3. DOMAIN row' \subseteq Investigation /\ invalid \subseteq DOMAIN row'
      BY <1>3, <1>4 DEF IInv, TypeOK
    <2>4. QED
      BY <1>1, <1>3, <2>1, <2>2, <2>3 DEF IInv, TypeOK
  <1>7. PlansStored'
    BY <1>1, <1>3, <1>4 DEF IInv, PlansStored
  <1>8. LedgerFits'
    BY <1>1, <1>4 DEF IInv, LedgerFits, Resolved
  <1>9. BasisHolds'
    <2> SUFFICES ASSUME NEW t \in Surface, basis'[t] # None
                 PROVE  /\ basis'[t] \in DOMAIN row'
                        /\ row'[basis'[t]].state = "no_candidate"
                        /\ scan[row'[basis'[t]].scan].status = "SUCCESSFUL"
                        /\ SameEvidence(basis'[t].refs, basis'[t].code, Current)
      BY <1>1 DEF BasisHolds
    <2>1. CASE t = s
      <3>1. basis'[t] = j
        BY <1>4, <2>1
      <3>2. QED
        BY <3>1, <1>3 DEF Reusable
    <2>2. CASE t # s
      <3>1. basis'[t] = basis[t]
        BY <1>4, <2>2
      <3>2. QED
        BY <3>1, <1>3 DEF IInv, BasisHolds
    <2>3. QED
      BY <2>1, <2>2
  <1>10. ResultsFit' /\ RunningScan' /\ Answered'
    <2>1. ResultsFit'
      BY <1>1 DEF IInv, ResultsFit, Early
    <2>2. RunningScan' /\ Answered'
      BY <1>1 DEF IInv, RunningScan, Answered, Answers
    <2>3. QED  BY <2>1, <2>2
  <1>11. QED
    BY <1>6, <1>7, <1>8, <1>9, <1>10 DEF IInv

(* Steps of the hunts: one surface gets a result, one row may move.          *)
LEMMA HuntInv ==
    ASSUME IInv, pc = "hunt", NEW s \in Surface,
           NEW state \in InvestigationState, row' = row \/ row' = Moved(s, state),
           NEW x \in {"hunting", "skipped", "candidate", "no_candidate", "unresolved", "failed"},
           result' = [result EXCEPT ![s] = x],
           x = "skipped" => basis[s] # None,
           x \in {"unresolved", "failed"} => failed',
           failed' \in BOOLEAN, failed => failed', faults' \in 0..MaxFaults,
           UNCHANGED <<scan, finding, pc, invalid, prior, saved, ledger, plan, basis, fresh, carried>>
    PROVE  IInv'
  <1>1. /\ Now' = Now /\ Current' = Current /\ Surfaces' = Surfaces /\ Known' = Known
        /\ scan' = scan /\ ledger' = ledger /\ basis' = basis /\ plan' = plan /\ pc' = pc
    BY DEF Now, Current, Surfaces, Known
  <1>2. /\ DOMAIN row' = DOMAIN row
        /\ \A i \in DOMAIN row :
              /\ row'[i] \in [scan : 1..Now, state : InvestigationState]
              /\ row'[i] = row[i] \/ (row[i].scan = Now /\ row'[i].scan = Now)
    <2>1. \A i \in DOMAIN row : row[i] \in [scan : 1..Now, state : InvestigationState]
      BY DEF IInv, TypeOK
    <2>2. CASE row' = row
      <3>1. \A i \in DOMAIN row : row'[i] = row[i]
        BY <2>2
      <3>2. QED
        BY ONLY <2>1, <2>2, <3>1
    <2>3. CASE row' = Moved(s, state) /\ row' # row
      <3>1. row' = [row EXCEPT ![plan[s]].state = state] /\ row[plan[s]].scan = Now
        BY <2>3 DEF Moved
      <3>2. DOMAIN row' = DOMAIN row
        BY <3>1
      <3>3. ASSUME NEW i \in DOMAIN row
            PROVE  /\ row'[i] \in [scan : 1..Now, state : InvestigationState]
                   /\ row'[i] = row[i] \/ (row[i].scan = Now /\ row'[i].scan = Now)
        <4>1. CASE i = plan[s]
          <5>1. row'[i] = [row[i] EXCEPT !.state = state]
            BY <3>1, <4>1
          <5>2. row[i] \in [scan : 1..Now, state : InvestigationState] /\ row[i].scan = Now
            BY <2>1, <3>1, <4>1
          <5>3. /\ [row[i] EXCEPT !.state = state] \in [scan : 1..Now, state : InvestigationState]
                /\ [row[i] EXCEPT !.state = state].scan = row[i].scan
            BY ONLY <5>2, state \in InvestigationState
          <5>4. QED
            BY ONLY <5>1, <5>2, <5>3
        <4>2. CASE i # plan[s]
          BY <3>1, <4>2, <2>1
        <4>3. QED
          BY <4>1, <4>2
      <3>4. QED
        BY <3>2, <3>3
    <2>4. QED
      BY <2>2, <2>3
  <1>3. /\ result' \in [Surface -> {"none", "hunting", "skipped", "candidate", "no_candidate",
                                    "unresolved", "failed"}]
        /\ \A t \in Surface : result'[t] = IF t = s THEN x ELSE result[t]
    BY DEF IInv, TypeOK
  <1>4. TypeOK'
    BY <1>1, <1>2, <1>3 DEF IInv, TypeOK
  <1>5. RunningScan' /\ PlansStored' /\ LedgerFits'
    BY <1>1, <1>2 DEF IInv, RunningScan, PlansStored, LedgerFits, Resolved
  <1>6. BasisHolds'
    <2> SUFFICES ASSUME NEW t \in Surface, basis[t] # None
                 PROVE  /\ basis[t] \in DOMAIN row'
                        /\ row'[basis[t]].state = "no_candidate"
                        /\ scan[row'[basis[t]].scan].status = "SUCCESSFUL"
                        /\ SameEvidence(basis[t].refs, basis[t].code, Current)
      BY <1>1 DEF BasisHolds
    <2>1. /\ basis[t] \in DOMAIN row /\ row[basis[t]].state = "no_candidate"
          /\ scan[row[basis[t]].scan].status = "SUCCESSFUL"
          /\ SameEvidence(basis[t].refs, basis[t].code, Current)
      BY DEF IInv, BasisHolds
    <2>2. row[basis[t]].scan # Now
      BY <2>1 DEF IInv, RunningScan
    <2>3. QED
      BY <1>2, <2>1, <2>2
  <1>7. ResultsFit'
    BY <1>1, <1>3 DEF IInv, ResultsFit, Early
  <1>8. Answered'
    BY <1>1 DEF Answered
  <1>9. QED
    BY <1>4, <1>5, <1>6, <1>7, <1>8 DEF IInv

(* Steps that change the row of the scan at hand, and findings.              *)
LEMMA ScanInv ==
    ASSUME IInv, pc # "idle",
           NEW status \in {"RUNNING", "SUCCESSFUL", "UNSUCCESSFUL"}, NEW graph \in BOOLEAN,
           NEW report \in SUBSET Finding,
           scan' = [scan EXCEPT ![Now] = [code |-> @.code, status |-> status, graph |-> graph,
                                          report |-> report]],
           finding' \in [Finding -> FindingRow \cup {None}], Known \subseteq Known',
           report \subseteq Known',
           prior' \in 0..Now, invalid' \subseteq DOMAIN row, faults' \in 0..MaxFaults,
           \/ pc = "load" /\ pc' = "revalidate" /\ status = "RUNNING"
           \/ pc = "persist" /\ pc' = "idle" /\ (status = "SUCCESSFUL" => ~failed),
           UNCHANGED <<row, saved, ledger, plan, basis, result, failed, fresh, carried>>
    PROVE  IInv'
  <1>1. scan # <<>>
    BY DEF IInv, RunningScan
  <1>2. /\ scan' \in Seq(ScanRow) /\ Now' = Now /\ Current' = Current /\ scan' # <<>>
        /\ Surfaces' = Surfaces
        /\ \A k \in 1..Now : k # Now => scan'[k] = scan[k]
        /\ scan'[Now].status = status /\ scan'[Now].report = report
    BY <1>1, LastChanges DEF IInv
  <1>3. TypeOK'
    <2>1. \A n \in 1..Now : scan'[n].report \subseteq Known'
      BY <1>2 DEF IInv, TypeOK
    <2>2. QED
      BY <1>2, <2>1 DEF IInv, TypeOK, ScanRow
  <1>4. RunningScan'
    BY <1>2 DEF RunningScan
  <1>5. PlansStored' /\ LedgerFits'
    BY <1>2 DEF IInv, PlansStored, LedgerFits, Resolved
  <1>6. BasisHolds'
    <2> SUFFICES ASSUME NEW t \in Surface, basis[t] # None
                 PROVE  /\ basis[t] \in DOMAIN row
                        /\ row[basis[t]].state = "no_candidate"
                        /\ scan'[row[basis[t]].scan].status = "SUCCESSFUL"
                        /\ SameEvidence(basis[t].refs, basis[t].code, Current)
      BY <1>2 DEF BasisHolds
    <2>1. /\ basis[t] \in DOMAIN row /\ row[basis[t]].state = "no_candidate"
          /\ scan[row[basis[t]].scan].status = "SUCCESSFUL"
          /\ SameEvidence(basis[t].refs, basis[t].code, Current)
      BY DEF IInv, BasisHolds
    <2>2. row[basis[t]].scan # Now /\ row[basis[t]].scan \in 1..Now
      BY <2>1 DEF IInv, RunningScan, TypeOK
    <2>3. QED
      BY <1>2, <2>1, <2>2
  <1>7. ResultsFit'
    BY DEF IInv, ResultsFit, Early
  <1>8. Answered'
    BY <1>2 DEF IInv, Answered, Answers
  <1>9. QED
    BY <1>3, <1>4, <1>5, <1>6, <1>7, <1>8 DEF IInv

(* Demoting known findings keeps them known.                                 *)
LEMMA DemotedType ==
    ASSUME TypeOK, NEW F \in SUBSET Known, finding' = Demoted(F)
    PROVE  finding' \in [Finding -> FindingRow \cup {None}] /\ Known' = Known
  <1>1. \A f \in Finding : finding'[f] = IF f \in F THEN [finding[f] EXCEPT !.state = "discovered"]
                                                   ELSE finding[f]
    BY DEF Demoted
  <1>2. finding \in [Finding -> FindingRow \cup {None}]
    BY DEF TypeOK
  <1>3. \A f \in Finding : /\ finding'[f] \in FindingRow \cup {None}
                           /\ finding'[f] # None <=> finding[f] # None
    <2> TAKE f \in Finding
    <2>1. CASE f \in F
      <3>1. finding[f] \in FindingRow
        BY <1>2, <2>1 DEF Known
      <3>2. [finding[f] EXCEPT !.state = "discovered"] \in FindingRow
        BY <3>1 DEF FindingRow
      <3>3. QED
        BY <1>1, <2>1, <3>1, <3>2, NoneAssumption
    <2>2. CASE f \notin F
      BY <1>1, <1>2, <2>2
    <2>3. QED
      BY <2>1, <2>2
  <1>4. finding' \in [Finding -> FindingRow \cup {None}]
    BY <1>3 DEF Demoted
  <1>5. QED
    BY <1>3, <1>4 DEF Known

(* A scan begins: nothing is taken over from the stages of the last one.     *)
LEMMA BeginInv ==
    ASSUME IInv, NEW c \in Codes, Begin(c)
    PROVE  IInv'
  <1> DEFINE r == [code |-> c, status |-> "RUNNING", graph |-> FALSE, report |-> {}]
  <1>1. /\ scan' = Append(scan, r) /\ pc' = "load"
        /\ row' = row /\ faults' = faults /\ failed' = FALSE /\ fresh' = {} /\ carried' = {}
        /\ invalid' = {} /\ prior' = 0 /\ saved' = {}
        /\ ledger' = [s \in Surface |-> "none"] /\ plan' = [s \in Surface |-> None]
        /\ basis' = [s \in Surface |-> None] /\ result' = [s \in Surface |-> "none"]
        /\ Now < MaxScans /\ finding' = Demoted(SymbolStale(c))
    BY DEF Begin, NoStage
  <1>2. scan \in Seq(ScanRow) /\ r \in ScanRow
    BY DEF IInv, TypeOK, ScanRow
  <1> HIDE DEF r
  <1>3. /\ scan' \in Seq(ScanRow) /\ scan' # <<>> /\ Now' = Now + 1 /\ Now \in Nat
        /\ \A k \in 1..Now : scan'[k] = scan[k]
        /\ scan'[Now'] = r
    BY <1>1, <1>2, AppendProperties, LenProperties DEF Now
  <1>4. finding' \in [Finding -> FindingRow \cup {None}] /\ Known' = Known
    <2>1. SymbolStale(c) \in SUBSET Known
      BY DEF SymbolStale
    <2>2. QED
      BY <1>1, <2>1, DemotedType DEF IInv
  <1>5. TypeOK'
    <2>1. \A n \in 1..Now' : scan'[n].report \subseteq Known'
      <3> TAKE n \in 1..Now'
      <3>1. CASE n = Now'
        BY <1>3, <3>1 DEF r
      <3>2. CASE n \in 1..Now
        BY <1>3, <1>4, <3>2 DEF IInv, TypeOK
      <3>3. QED
        BY <1>3, <3>1, <3>2
    <2>2. Now' <= MaxScans
      BY <1>1, <1>3, ConstantsAssumption
    <2>3. \A i \in DOMAIN row : row[i] \in [scan : 1..Now', state : InvestigationState]
      <3> TAKE i \in DOMAIN row
      <3>1. row[i] \in [scan : 1..Now, state : InvestigationState]
        BY DEF IInv, TypeOK
      <3>2. 1..Now \subseteq 1..Now'
        BY <1>3
      <3>3. QED
        BY <3>1, <3>2
    <2>4. 0 \in 0..Now' /\ faults \in 0..MaxFaults /\ DOMAIN row \subseteq Investigation
      BY <1>3 DEF IInv, TypeOK
    <2>5. QED
      BY <1>1, <1>3, <1>4, <2>1, <2>2, <2>3, <2>4 DEF TypeOK, ScanRow
  <1>6. RunningScan'
    <2>1. scan'[Now'].status = "RUNNING"
      BY <1>3 DEF r
    <2>2. QED
      BY <1>3, <2>1 DEF RunningScan
  <1>7. PlansStored' /\ LedgerFits' /\ BasisHolds' /\ ResultsFit' /\ Answered'
    BY <1>1 DEF PlansStored, LedgerFits, BasisHolds, ResultsFit, Answered, Resolved
  <1>8. QED
    BY <1>5, <1>6, <1>7 DEF IInv

(* What a row is with another value of graph.                                *)
LEMMA GraphSet ==
    ASSUME NEW r \in ScanRow, NEW g
    PROVE  [r EXCEPT !.graph = g]
             = [code |-> r.code, status |-> r.status, graph |-> g, report |-> r.report]
  BY DEF ScanRow

(* The comparison with the previous graph.                                   *)
LEMMA LoadInv ==
    ASSUME IInv, LoadPrevious
    PROVE  IInv'
  <1>1. scan # <<>> /\ scan[Now].status = "RUNNING"
    BY DEF LoadPrevious, IInv, RunningScan
  <1>2. scan[Now] \in ScanRow /\ Now \in 1..Now /\ Now \in Nat \ {0}
    BY <1>1, CurrentType DEF IInv
  <1>3. scan' = [scan EXCEPT ![Now] = [code |-> @.code, status |-> "RUNNING", graph |-> TRUE,
                                       report |-> scan[Now].report]]
    <2>1. [scan[Now] EXCEPT !.graph = TRUE]
             = [code |-> scan[Now].code, status |-> "RUNNING", graph |-> TRUE,
                report |-> scan[Now].report]
      BY <1>1, <1>2, GraphSet
    <2>2. scan' = [scan EXCEPT ![Now].graph = TRUE]
      BY DEF LoadPrevious
    <2>3. QED
      BY ONLY <2>1, <2>2
  <1>4. scan[Now].report \in SUBSET Finding /\ scan[Now].report \subseteq Known
    BY <1>2 DEF ScanRow, IInv, TypeOK
  <1>5. prior' \in 0..Now
    BY <1>1, <1>2, LatestType DEF LoadPrevious, IInv
  <1>6. invalid' \subseteq DOMAIN row
    BY DEF LoadPrevious
  <1>7. /\ finding' \in [Finding -> FindingRow \cup {None}] /\ Known' = Known
        /\ faults' \in 0..MaxFaults
    BY DEF LoadPrevious, IInv, TypeOK, Known
  <1>8. QED
    BY <1>3, <1>4, <1>5, <1>6, <1>7, ScanInv DEF LoadPrevious

(* The end of a scan that is stored.                                         *)
LEMMA PersistInv ==
    ASSUME IInv, Persist
    PROVE  IInv'
  <1> DEFINE status == IF failed THEN "UNSUCCESSFUL" ELSE "SUCCESSFUL"
  <1>1. scan # <<>> /\ pc = "persist"
    BY DEF Persist, IInv, RunningScan
  <1>2. /\ scan[Now] \in ScanRow /\ Now \in 1..Now /\ Now \in Nat \ {0} /\ Current \in Codes
        /\ scan \in Seq(ScanRow)
    BY <1>1, CurrentType DEF IInv
  <1>3. scan' = [scan EXCEPT ![Now] = [code |-> @.code, status |-> status,
                                       graph |-> scan[Now].graph, report |-> fresh \cup carried]]
    <2> DEFINE one == [code |-> scan[Now].code, status |-> status, graph |-> scan[Now].graph,
                       report |-> scan[Now].report]
               two == [code |-> scan[Now].code, status |-> status, graph |-> scan[Now].graph,
                       report |-> fresh \cup carried]
               mid == [scan EXCEPT ![Now] = one]
    <2> HIDE DEF status
    <2>1. [scan[Now] EXCEPT !.status = status] = one
      BY <1>2 DEF ScanRow
    <2>2. [one EXCEPT !.report = fresh \cup carried] = two
      OBVIOUS
    <2>3. scan' = [[scan EXCEPT ![Now].status = status] EXCEPT ![Now].report = fresh \cup carried]
      BY DEF Persist, status
    <2>4. [scan EXCEPT ![Now].status = status] = mid
      BY ONLY <2>1
    <2>5. Now \in DOMAIN scan
      BY <1>2, LenProperties DEF Now
    <2> HIDE DEF one, two
    <2>6. mid[Now] = one
      BY ONLY <2>5
    <2>7. scan' = [mid EXCEPT ![Now] = two]
      BY ONLY <2>2, <2>3, <2>4, <2>6
    <2>8. [mid EXCEPT ![Now] = two] = [scan EXCEPT ![Now] = two]
      BY ONLY <2>5
    <2>9. QED
      BY ONLY <2>7, <2>8 DEF two
  <1>4. \A f \in Finding : Verified(f) \in FindingRow
    <2> TAKE f \in Finding
    <2> DEFINE i == IF f \in GraphFound THEN plan[Place[f]] ELSE None
    <2>1. i \in Investigation \cup {None}
      BY ConstantsAssumption DEF IInv, TypeOK
    <2>2. Place[f] \in Node
      BY ConstantsAssumption
    <2>3. (IF i = None THEN {} ELSE i.refs) \subseteq Node
      BY <2>1 DEF Investigation
    <2> HIDE DEF i
    <2>4. [state |-> "validated", code |-> Current,
           nodes |-> IF i = None THEN {} ELSE i.refs, files |-> {Place[f]}, inv |-> i] \in FindingRow
      BY <1>2, <2>1, <2>2, <2>3 DEF FindingRow
    <2>5. QED
      BY <2>4 DEF Verified, i
  <1>5. /\ finding' = [f \in Finding |-> IF f \in fresh THEN Verified(f) ELSE finding[f]]
        /\ finding \in [Finding -> FindingRow \cup {None}]
    BY DEF Persist, IInv, TypeOK
  <1>6. finding' \in [Finding -> FindingRow \cup {None}]
    BY <1>4, <1>5
  <1>7. Known \subseteq Known' /\ fresh \cup carried \subseteq Known' /\ fresh \cup carried \in SUBSET Finding
    <2>1. \A f \in Finding : Verified(f) # None
      BY <1>4, NoneAssumption
    <2>2. carried \subseteq Known /\ fresh \subseteq Finding
      BY DEF IInv, TypeOK
    <2>3. QED
      BY <1>5, <2>1, <2>2 DEF Known
  <1>8. status \in {"RUNNING", "SUCCESSFUL", "UNSUCCESSFUL"} /\ (status = "SUCCESSFUL" => ~failed)
    OBVIOUS
  <1>9. scan[Now].graph \in BOOLEAN
    BY <1>2 DEF ScanRow
  <1>10. prior' \in 0..Now /\ invalid' \subseteq DOMAIN row /\ faults' \in 0..MaxFaults
    BY DEF Persist, IInv, TypeOK, stagevars
  <1>11. /\ pc' = "idle"
         /\ UNCHANGED <<row, saved, ledger, plan, basis, result, failed, fresh, carried>>
    BY DEF Persist, stagevars
  <1> HIDE DEF status
  <1>12. QED
    BY <1>1, <1>3, <1>6, <1>7, <1>8, <1>9, <1>10, <1>11, ScanInv

(* The end of a scan whose final transaction is rolled back.                 *)
LEMMA PersistFailsInv ==
    ASSUME IInv, NEW recorded \in BOOLEAN, PersistFails(recorded)
    PROVE  IInv'
  <1> DEFINE status == IF recorded THEN "UNSUCCESSFUL" ELSE "RUNNING"
  <1>1. scan # <<>> /\ pc = "persist" /\ scan[Now].status = "RUNNING"
    BY DEF PersistFails, IInv, RunningScan
  <1>2. /\ scan[Now] \in ScanRow /\ Now \in 1..Now /\ Now \in Nat \ {0}
        /\ scan \in Seq(ScanRow) /\ Now \in DOMAIN scan
    BY <1>1, CurrentType, LenProperties DEF IInv, Now
  <1>3. scan' = [scan EXCEPT ![Now] = [code |-> @.code, status |-> status,
                                       graph |-> scan[Now].graph, report |-> scan[Now].report]]
    <2>1. [scan[Now] EXCEPT !.status = "UNSUCCESSFUL"]
             = [code |-> scan[Now].code, status |-> "UNSUCCESSFUL", graph |-> scan[Now].graph,
                report |-> scan[Now].report]
      BY <1>2 DEF ScanRow
    <2>2. scan[Now] = [code |-> scan[Now].code, status |-> "RUNNING", graph |-> scan[Now].graph,
                       report |-> scan[Now].report]
      BY <1>1, <1>2 DEF ScanRow
    <2>3. CASE recorded
      BY <2>1, <2>3 DEF PersistFails
    <2>4. CASE ~recorded
      <3>1. scan' = scan
        BY <2>4 DEF PersistFails
      <3>2. scan = [scan EXCEPT ![Now] = scan[Now]]
        BY <1>2, LenProperties
      <3>3. QED
        BY <2>2, <2>4, <3>1, <3>2
    <2>5. QED
      BY <2>3, <2>4
  <1>4. /\ scan[Now].report \in SUBSET Finding /\ scan[Now].report \subseteq Known
        /\ scan[Now].graph \in BOOLEAN
    BY <1>2 DEF ScanRow, IInv, TypeOK
  <1>5. /\ finding' \in [Finding -> FindingRow \cup {None}] /\ Known' = Known
        /\ faults' \in 0..MaxFaults /\ prior' \in 0..Now /\ invalid' \subseteq DOMAIN row
    BY ConstantsAssumption DEF PersistFails, IInv, TypeOK, Known, Fault, stagevars
  <1>6. status \in {"RUNNING", "SUCCESSFUL", "UNSUCCESSFUL"} /\ status # "SUCCESSFUL"
    OBVIOUS
  <1>7. /\ pc' = "idle"
        /\ UNCHANGED <<row, saved, ledger, plan, basis, result, failed, fresh, carried>>
    BY DEF PersistFails, stagevars
  <1> HIDE DEF status
  <1>8. QED
    BY <1>1, <1>3, <1>4, <1>5, <1>6, <1>7, ScanInv

(* What the invariant says of a scan that goes on.                           *)
LEMMA InProgress ==
    ASSUME IInv, pc # "idle"
    PROVE  /\ Now \in Nat \ {0} /\ scan # <<>> /\ Current \in Codes
           /\ DOMAIN row \subseteq Investigation
           /\ finding \in [Finding -> FindingRow \cup {None}]
           /\ faults \in 0..MaxFaults /\ failed \in BOOLEAN
           /\ saved \subseteq Known /\ fresh \subseteq Finding /\ carried \subseteq saved
           /\ pc \in Early => carried = {}
           /\ ledger \in [Surface -> {"none", "pending", "planning", "planned", "reused", "failed"}]
           /\ \A s \in Surface : /\ ledger[s] # "none" => s \in Surfaces
                                 /\ ledger[s] \in {"planned", "reused"} => plan[s] # None
  <1>1. scan # <<>>
    BY DEF IInv, RunningScan
  <1>2. Now \in Nat \ {0} /\ Current \in Codes
    BY <1>1, CurrentType DEF IInv
  <1>3. QED
    BY <1>1, <1>2 DEF IInv, TypeOK, ResultsFit, LedgerFits, Resolved

LEMMA FaultCount ==
    ASSUME faults \in 0..MaxFaults, Fault
    PROVE  faults' \in 0..MaxFaults
  BY ConstantsAssumption DEF Fault

(* The findings to carry forward are known ones.                             *)
LEMMA ReusableKnown ==
    ASSUME IInv
    PROVE  ReusableFindings \subseteq Known
  <1>1. CASE prior = 0
    BY <1>1 DEF ReusableFindings
  <1>2. CASE prior # 0
    <2>1. Now \in Nat
      BY LenProperties DEF IInv, TypeOK, Now
    <2>2. prior \in 1..Now
      BY <1>2, <2>1 DEF IInv, TypeOK
    <2>3. scan[prior].report \subseteq Known
      BY <2>2 DEF IInv, TypeOK
    <2>4. QED
      BY <1>2, <2>3 DEF ReusableFindings
  <1>3. QED
    BY <1>1, <1>2

(* The revalidation, and its failure.                                        *)
LEMMA RevalidateInv ==
    ASSUME IInv, Revalidate \/ \E read \in BOOLEAN : RevalidateFails(read)
    PROVE  IInv'
  <1>1. pc = "revalidate"
    BY DEF Revalidate, RevalidateFails
  <1>2. ReusableFindings \subseteq Known /\ carried = {}
    BY <1>1, ReusableKnown, InProgress DEF Early
  <1>3. CASE Revalidate
    <2>1. ToRevalidate \subseteq Known
      BY DEF ToRevalidate
    <2>2. finding' \in [Finding -> FindingRow \cup {None}] /\ Known' = Known
      BY <1>3, <2>1, DemotedType DEF Revalidate, IInv
    <2>3. saved' \subseteq Known'
      BY <1>2, <1>3, <2>2 DEF Revalidate
    <2>4. /\ UNCHANGED <<scan, row, faults, invalid, prior, ledger, plan, basis, result, failed,
                         fresh, carried>>
          /\ pc' = "ledger"
      BY <1>3 DEF Revalidate
    <2>5. QED
      BY <1>1, <1>2, <2>2, <2>3, <2>4, InProgress, FlowInv DEF Early
  <1>4. ASSUME NEW read \in BOOLEAN, RevalidateFails(read)
        PROVE  IInv'
    <2>1. /\ UNCHANGED <<scan, row, finding, invalid, prior, ledger, plan, basis, result, fresh,
                         carried>>
          /\ pc' = "review" /\ failed' = TRUE
      BY <1>4 DEF RevalidateFails, tables
    <2>2. Known' = Known
      BY <2>1 DEF Known
    <2>3. saved' \subseteq Known'
      BY <1>2, <1>4, <2>2 DEF RevalidateFails
    <2>4. faults' \in 0..MaxFaults
      BY <1>1, <1>4, InProgress, FaultCount DEF RevalidateFails
    <2>5. QED
      BY <1>1, <1>2, <2>1, <2>2, <2>3, <2>4, InProgress, FlowInv DEF Early
  <1>5. QED
    BY <1>3, <1>4

(* Steps of the planning that store nothing.                                 *)
LEMMA LedgerInv ==
    ASSUME IInv, NEW s \in Surface,
           \/ OpenLedger \/ StartPlanning(s) \/ RecordGroup(s) \/ PlanFails(s)
           \/ \E support \in Support : PlanConflicts(s, support)
           \/ CompleteLedger
    PROVE  IInv'
  <1>1. /\ pc \in {"ledger", "plan"}
        /\ UNCHANGED <<scan, row, finding, invalid, prior, saved, plan, basis, result, fresh,
                       carried>>
    BY DEF OpenLedger, StartPlanning, RecordGroup, PlanFails, PlanConflicts, CompleteLedger,
           tables, stagevars
  <1>2. Known' = Known
    BY <1>1 DEF Known
  <1>3. pc # "idle" /\ pc \in Early
    BY <1>1 DEF Early
  <1>4. /\ faults \in 0..MaxFaults /\ failed \in BOOLEAN
        /\ finding \in [Finding -> FindingRow \cup {None}]
        /\ saved \subseteq Known /\ fresh \subseteq Finding /\ carried \subseteq saved
        /\ ledger \in [Surface -> {"none", "pending", "planning", "planned", "reused", "failed"}]
        /\ \A t \in Surface : /\ ledger[t] # "none" => t \in Surfaces
                              /\ ledger[t] \in {"planned", "reused"} => plan[t] # None
    BY <1>3, InProgress
  <1> DEFINE Goes(p) ==
        /\ faults' \in 0..MaxFaults /\ failed' \in BOOLEAN /\ (failed => failed')
        /\ ledger' \in [Surface -> {"none", "pending", "planning", "planned", "reused", "failed"}]
        /\ \A t \in Surface : /\ ledger'[t] # "none" => t \in Surfaces
                              /\ ledger'[t] \in {"planned", "reused"} => plan[t] # None
        /\ pc' = p
        /\ p = "review" => failed'
  <1>5. \E p \in {"plan", "hunt", "review"} : Goes(p)
    <2>1. CASE OpenLedger
      BY <1>4, <2>1 DEF OpenLedger
    <2>2. CASE StartPlanning(s)
      BY <1>4, <2>2 DEF StartPlanning
    <2>3. CASE RecordGroup(s)
      <3>1. s \in Surfaces
        BY <1>4, <2>3 DEF RecordGroup, Open
      <3>2. QED
        BY <1>4, <2>3, <3>1 DEF RecordGroup
    <2>4. CASE PlanFails(s)
      <3>1. faults' \in 0..MaxFaults
        BY <1>4, <2>4, FaultCount DEF PlanFails
      <3>2. QED
        BY <1>4, <2>4, <3>1 DEF PlanFails
    <2>5. CASE \E support \in Support : PlanConflicts(s, support)
      BY <1>4, <2>5 DEF PlanConflicts, stagevars
    <2>6. CASE CompleteLedger
      BY <1>4, <2>6 DEF CompleteLedger, stagevars
    <2>7. QED
      BY <2>1, <2>2, <2>3, <2>4, <2>5, <2>6
  <1>6. QED
    BY <1>1, <1>2, <1>3, <1>4, <1>5, FlowInv DEF Early

(* The end of the hunts: without a failure every surface has an answer.      *)
LEMMA HuntsDoneInv ==
    ASSUME IInv, NEW fromStore \in SUBSET Surface, HuntsDone(fromStore)
    PROVE  IInv'
  <1>1. /\ pc = "hunt" /\ pc' = "review" /\ failed' = failed
        /\ UNCHANGED <<scan, row, finding, faults, invalid, prior, saved, plan, basis, result,
                       fresh, carried>>
        /\ \A s \in Surfaces : result[s] \notin {"none", "hunting"}
        /\ \A s \in fromStore : Resolved(s)
        /\ ledger' = [s \in Surface |-> IF s \in fromStore THEN "reused" ELSE ledger[s]]
    BY DEF HuntsDone, tables
  <1>2. Known' = Known
    BY <1>1 DEF Known
  <1>3. ~failed' => Answers
    <2>1. \A s \in Surfaces : s \in Surface
      BY DEF Surfaces
    <2>2. result \in [Surface -> {"none", "hunting", "skipped", "candidate", "no_candidate",
                                  "unresolved", "failed"}]
      BY DEF IInv, TypeOK
    <2>3. QED
      BY <1>1, <2>1, <2>2 DEF IInv, ResultsFit, Answers
  <1>4. /\ ledger' \in [Surface -> {"none", "pending", "planning", "planned", "reused", "failed"}]
        /\ \A s \in Surface : /\ ledger'[s] # "none" => s \in Surfaces
                              /\ ledger'[s] \in {"planned", "reused"} => plan[s] # None
    BY <1>1, InProgress DEF Resolved
  <1>5. QED
    BY <1>1, <1>2, <1>3, <1>4, InProgress, FlowInv DEF Early

(* What ends the stage or the scan early, and the review of the findings.    *)
LEMMA OutcomeInv ==
    ASSUME IInv,
           \/ StageRaises \/ OtherFailure \/ Crash
           \/ \E verified \in SUBSET Finding, fit \in SUBSET saved : Review(verified, fit)
    PROVE  IInv'
  <1>1. /\ pc # "idle"
        /\ UNCHANGED <<scan, row, finding, invalid, prior, saved, ledger, plan, basis, result>>
    BY DEF StageRaises, OtherFailure, Crash, Review, tables, stagevars
  <1>2. Known' = Known
    BY <1>1 DEF Known
  <1>3. faults' \in 0..MaxFaults
    BY <1>1, InProgress, FaultCount DEF StageRaises, OtherFailure, Crash, Review
  <1>4. CASE StageRaises \/ OtherFailure
    <2>1. failed' = TRUE /\ pc' = "review" /\ UNCHANGED <<fresh, carried>>
      BY <1>4 DEF StageRaises, OtherFailure
    <2>2. QED
      BY <1>1, <1>2, <1>3, <2>1, InProgress, FlowInv DEF Early
  <1>5. CASE Crash
    <2>1. failed' = failed /\ pc' = "idle" /\ UNCHANGED <<fresh, carried>>
      BY <1>5 DEF Crash
    <2>2. QED
      BY <1>1, <1>2, <1>3, <2>1, InProgress, FlowInv DEF Early
  <1>6. ASSUME NEW verified \in SUBSET Finding, NEW fit \in SUBSET saved, Review(verified, fit)
        PROVE  IInv'
    <2>1. /\ failed' = failed /\ pc = "review" /\ pc' = "persist" /\ fresh' = verified
          /\ carried' = fit \ verified
      BY <1>6 DEF Review
    <2>2. QED
      BY <1>1, <1>2, <1>3, <2>1, InProgress, FlowInv DEF Early
  <1>7. QED
    BY <1>4, <1>5, <1>6

(* What is taken over for a surface is stored and is a plan of it.           *)
LEMMA PriorStored ==
    ASSUME IInv, NEW s \in Surface, PriorOf(s) # None
    PROVE  /\ PriorOf(s) \in DOMAIN row
           /\ PriorOf(s) \in Investigation
           /\ PriorOf(s).at = s
  <1> DEFINE negative == {i \in Reusable : i.at = s}
             older == {i \in {j \in DOMAIN row : j.at = s} : row[i].scan # Now}
  <1>1. /\ negative \in SUBSET DOMAIN row /\ older \in SUBSET DOMAIN row
        /\ \A i \in negative \cup older : i.at = s
    BY DEF Reusable
  <1>2. PriorOf(s) = IF negative # {} THEN Newest(negative)
                     ELSE IF older # {} THEN Newest(older) ELSE None
    BY DEF PriorOf
  <1>3. TypeOK /\ DOMAIN row \subseteq Investigation
    BY DEF IInv, TypeOK
  <1> HIDE DEF negative, older
  <1>4. PriorOf(s) \in negative \cup older
    <2>1. CASE negative # {}
      BY <1>1, <1>2, <1>3, <2>1, NewestIsOne
    <2>2. CASE negative = {} /\ older # {}
      BY <1>1, <1>2, <1>3, <2>2, NewestIsOne
    <2>3. QED
      BY <1>2, <2>1, <2>2
  <1>5. QED
    BY <1>1, <1>3, <1>4

(* A plan taken over from an older scan.                                     *)
LEMMA RebaseInv ==
    ASSUME IInv, NEW s \in Surface, Rebase(s)
    PROVE  IInv'
  <1> DEFINE i == PriorOf(s)
             rebased == [i EXCEPT !.code = Current]
             j == IF i \in Reusable THEN i ELSE None
  <1>1. /\ pc = "plan" /\ ledger[s] = "pending"
        /\ i # None /\ SameEvidence(i.refs, i.code, Current)
        /\ plan' = [plan EXCEPT ![s] = rebased] /\ row' = Stored(rebased)
        /\ basis' = [basis EXCEPT ![s] = j]
        /\ UNCHANGED <<scan, finding, faults, pc, invalid, prior, saved, ledger, result,
                       failed, fresh, carried>>
    BY DEF Rebase, Compatible
  <1>2. i \in Investigation /\ i.at = s
    BY <1>1, PriorStored
  <1>3. Current \in Codes
    BY <1>1, InProgress
  <1> HIDE DEF i
  <1>4. rebased \in Investigation /\ rebased.at = s /\ rebased.code = Current
    BY <1>2, <1>3 DEF Investigation
  <1>5. j # None => j \in Reusable /\ SameEvidence(j.refs, j.code, Current)
    BY <1>1
  <1>6. ~Resolved(s)
    BY <1>1 DEF Resolved
  <1> HIDE DEF rebased, j
  <1>7. QED
    BY <1>1, <1>4, <1>5, <1>6, StoreInv

(* A plan of this scan.                                                      *)
LEMMA PlanInv ==
    ASSUME IInv, NEW s \in Surface, NEW support \in Support, Plan(s, support)
    PROVE  IInv'
  <1> DEFINE i == Planned(s, support)
             j == IF i \in Reusable THEN i ELSE None
  <1>1. /\ pc = "plan" /\ ledger[s] = "planning" /\ support \subseteq Neighbors(s)
        /\ plan' = [plan EXCEPT ![s] = i] /\ row' = Stored(i)
        /\ basis' = [basis EXCEPT ![s] = j]
        /\ UNCHANGED <<scan, finding, faults, pc, invalid, prior, saved, ledger, result,
                       failed, fresh, carried>>
    BY DEF Plan
  <1>2. Current \in Codes /\ s \in Nodes(Current)
    BY <1>1, InProgress DEF Surfaces
  <1>3. i \in Investigation /\ i.at = s /\ i.code = Current /\ i.refs = {s} \cup support
    BY <1>2, ConstantsAssumption DEF Planned, Investigation
  <1>4. Neighbors(s) \subseteq Nodes(Current)
    BY DEF Neighbors, Neighborhood, Edges
  <1>5. SameEvidence(i.refs, i.code, Current)
    BY <1>1, <1>2, <1>3, <1>4 DEF SameEvidence
  <1>6. j # None => j \in Reusable /\ SameEvidence(j.refs, j.code, Current)
    BY <1>5
  <1>7. ~Resolved(s)
    BY <1>1 DEF Resolved
  <1> HIDE DEF i, j
  <1>8. QED
    BY <1>1, <1>3, <1>6, <1>7, StoreInv

(* The hunts.                                                                *)
LEMMA HuntsInv ==
    ASSUME IInv, NEW s \in Surface,
           \/ Skip(s) \/ StartHunt(s)
           \/ \E state \in {"candidate", "no_candidate", "unresolved"} : EndHunt(s, state)
           \/ \E told \in BOOLEAN : HuntFails(s, told)
    PROVE  IInv'
  <1>1. /\ pc = "hunt"
        /\ UNCHANGED <<scan, finding, pc, invalid, prior, saved, ledger, plan, basis, fresh, carried>>
    BY DEF Skip, StartHunt, EndHunt, HuntFails
  <1>2. faults \in 0..MaxFaults /\ failed \in BOOLEAN
    BY <1>1, InProgress
  <1>3. /\ "skipped" \in InvestigationState /\ "running" \in InvestigationState
        /\ "failed" \in InvestigationState
    BY DEF InvestigationState
  <1>4. CASE Skip(s)
    <2>1. /\ row' = Moved(s, "skipped") /\ result' = [result EXCEPT ![s] = "skipped"]
          /\ basis[s] # None /\ failed' = failed /\ faults' = faults
      BY <1>4 DEF Skip
    <2>2. QED
      BY <1>1, <1>2, <1>3, <2>1, HuntInv
  <1>5. CASE StartHunt(s)
    <2>1. /\ row' = Moved(s, "running") /\ result' = [result EXCEPT ![s] = "hunting"]
          /\ failed' = failed /\ faults' = faults
      BY <1>5 DEF StartHunt
    <2>2. QED
      BY <1>1, <1>2, <1>3, <2>1, HuntInv
  <1>6. ASSUME NEW state \in {"candidate", "no_candidate", "unresolved"}, EndHunt(s, state)
        PROVE  IInv'
    <2>1. /\ row' = Moved(s, state) /\ result' = [result EXCEPT ![s] = state]
          /\ failed' = (failed \/ state = "unresolved") /\ faults' = faults
      BY <1>6 DEF EndHunt
    <2>2. failed' \in BOOLEAN /\ (failed => failed') /\ (state = "unresolved" => failed')
      BY <2>1
    <2>3. state \in InvestigationState /\ state \notin {"skipped", "failed"}
      BY DEF InvestigationState
    <2>4. QED
      BY <1>1, <1>2, <2>1, <2>2, <2>3, HuntInv
  <1>7. ASSUME NEW told \in BOOLEAN, HuntFails(s, told)
        PROVE  IInv'
    <2>1. /\ row' = row \/ row' = Moved(s, "failed")
          /\ result' = [result EXCEPT ![s] = "failed"] /\ failed' = TRUE
      BY <1>7 DEF HuntFails
    <2>2. faults' \in 0..MaxFaults
      BY <1>2, <1>7, FaultCount DEF HuntFails
    <2>3. QED
      BY <1>1, <1>3, <2>1, <2>2, HuntInv
  <1>8. QED
    BY <1>4, <1>5, <1>6, <1>7

LEMMA NextInv == IInv /\ [Next]_vars => IInv'
  <1> SUFFICES ASSUME IInv, [Next]_vars  PROVE IInv'
    OBVIOUS
  <1>1. ASSUME NEW c \in Codes, Begin(c)  PROVE IInv'
    BY <1>1, BeginInv
  <1>2. CASE LoadPrevious
    BY <1>2, LoadInv
  <1>3. CASE Revalidate \/ \E read \in BOOLEAN : RevalidateFails(read)
    BY <1>3, RevalidateInv
  <1>4. CASE OpenLedger \/ CompleteLedger
    <2>1. ASSUME NEW s \in Surface  PROVE IInv'
      BY <1>4, LedgerInv
    <2>2. CASE Surface = {}
      <3>1. /\ UNCHANGED <<scan, row, finding, faults, invalid, prior, saved, plan, basis, result,
                           failed, fresh, carried>>
            /\ pc \in {"ledger", "plan"} /\ pc' \in {"plan", "hunt"}
            /\ ledger' \in [Surface -> {"none", "pending", "planning", "planned", "reused", "failed"}]
        BY <1>4, <2>2, InProgress DEF OpenLedger, CompleteLedger, tables, stagevars
      <3>2. Known' = Known
        BY <3>1 DEF Known
      <3>3. QED
        BY <2>2, <3>1, <3>2, InProgress, FlowInv DEF Early
    <2>3. QED
      BY <2>1, <2>2
  <1>5. ASSUME NEW s \in Surface,
               StartPlanning(s) \/ RecordGroup(s) \/ PlanFails(s)
                   \/ \E support \in Support : PlanConflicts(s, support)
        PROVE  IInv'
    BY <1>5, LedgerInv
  <1>6. ASSUME NEW s \in Surface, Rebase(s)  PROVE IInv'
    BY <1>6, RebaseInv
  <1>7. ASSUME NEW s \in Surface, NEW support \in Support, Plan(s, support)  PROVE IInv'
    BY <1>7, PlanInv
  <1>8. ASSUME NEW s \in Surface,
               Skip(s) \/ StartHunt(s)
                   \/ (\E state \in {"candidate", "no_candidate", "unresolved"} : EndHunt(s, state))
                   \/ (\E told \in BOOLEAN : HuntFails(s, told))
        PROVE  IInv'
    BY <1>8, HuntsInv
  <1>9. ASSUME NEW fromStore \in SUBSET Surface, HuntsDone(fromStore)  PROVE IInv'
    BY <1>9, HuntsDoneInv
  <1>10. CASE StageRaises \/ OtherFailure \/ Crash
              \/ \E verified \in SUBSET Finding, fit \in SUBSET saved : Review(verified, fit)
    BY <1>10, OutcomeInv
  <1>11. CASE Persist
    BY <1>11, PersistInv
  <1>12. ASSUME NEW recorded \in BOOLEAN, PersistFails(recorded)  PROVE IInv'
    BY <1>12, PersistFailsInv
  <1>13. CASE UNCHANGED vars
    <2>1. UNCHANGED <<scan, row, finding, faults, pc, invalid, prior, saved, ledger, plan, basis,
                      result, failed, fresh, carried>>
      BY <1>13 DEF vars, tables, stagevars
    <2>2. TypeOK'
      BY <2>1 DEF IInv, TypeOK, Now, Known
    <2>3. RunningScan' /\ PlansStored' /\ LedgerFits' /\ BasisHolds'
      BY <2>1 DEF IInv, RunningScan, PlansStored, LedgerFits, BasisHolds, Resolved, Surfaces,
                  Current, Now
    <2>4. ResultsFit' /\ Answered'
      BY <2>1 DEF IInv, ResultsFit, Answered, Answers, Surfaces, Current, Now
    <2>5. QED
      BY <2>2, <2>3, <2>4 DEF IInv
  <1>14. QED
    BY <1>1, <1>2, <1>3, <1>4, <1>5, <1>6, <1>7, <1>8, <1>9, <1>10, <1>11, <1>12, <1>13 DEF Next

LEMMA Inductive == Spec => []IInv
  BY InitInv, NextInv, PTL DEF Spec

--------------------------------------------------------------------------------
(* What carries a finding over scans: a validated one holds in the code of   *)
(* the scan that was last to look, until the next one looks.                 *)

(* That what a finding depends on is in c what it was.                       *)
Holds(r, c) ==
    /\ \A n \in r.files : c[n] = r.code[n]
    /\ SameEvidence(r.nodes, r.code, c)

Valid(f) == finding[f] # None /\ finding[f].state = "validated"

(* A plan refers to nodes that are there.                                    *)
PlansRefer ==
    \A s \in Surface : plan[s] # None => plan[s].refs \subseteq Nodes(Current)

OnlyGraphNodes ==
    \A f \in Finding : finding[f] # None /\ f \notin GraphFound => finding[f].nodes = {}

(* A scan whose graph is not saved has no hunt and no finding of one.        *)
Ungraphed ==
    /\ pc = "load" => ~scan[Now].graph
    /\ pc # "idle" /\ ~scan[Now].graph =>
          /\ pc \in {"load", "review", "persist"}
          /\ \A s \in Surface : result[s] = "none"
          /\ fresh \cap GraphFound = {}

(* After the index transaction, the source of a valid finding is current.    *)
SourceHolds ==
    pc \in {"load", "revalidate"} =>
        \A f \in Finding : Valid(f) => \A n \in finding[f].files : Current[n] = finding[f].code[n]

(* After the revalidation, all of it is.                                     *)
Revalidated ==
    pc \in {"ledger", "plan", "hunt", "review", "persist"} /\ ~failed =>
        \A f \in Finding : Valid(f) => Holds(finding[f], Current)

(* What a scan that succeeded left valid holds in its code, until another    *)
(* scan saves a graph: before that no hunt reports a finding.                *)
SuccessHeld ==
    \A k \in 1..Now :
        scan[k].status = "SUCCESSFUL" /\ (\A l \in (k + 1)..Now : ~scan[l].graph) =>
            \A f \in GraphFound : Valid(f) => Holds(finding[f], scan[k].code)

PriorHeld ==
    pc = "revalidate" /\ prior # 0 /\ scan[prior].status = "SUCCESSFUL" =>
        \A f \in GraphFound : Valid(f) => Holds(finding[f], scan[prior].code)

SavedHold ==
    /\ pc = "load" => saved = {}
    /\ pc # "idle" => \A f \in saved : prior # 0 /\ Holds(finding[f], scan[prior].code)

CarriedHold ==
    \A f \in carried : prior # 0 /\ f \notin fresh /\ Holds(finding[f], scan[prior].code)

Carrying ==
    /\ PlansRefer
    /\ OnlyGraphNodes
    /\ Ungraphed
    /\ SourceHolds
    /\ Revalidated
    /\ SuccessHeld
    /\ PriorHeld
    /\ SavedHold
    /\ CarriedHold

LEMMA StaleIsNot ==
    ASSUME NEW f, NEW c
    PROVE  Stale(f, c) <=> ~Holds(finding[f], c)
  BY DEF Stale, Holds

(* What flagging findings does to one of them.                               *)
LEMMA DemotedKeeps ==
    ASSUME TypeOK, NEW F \in SUBSET Known, finding' = Demoted(F), NEW f \in Finding
    PROVE  /\ finding[f] # None <=> finding'[f] # None
           /\ finding[f] # None => /\ finding'[f].files = finding[f].files
                                   /\ finding'[f].code = finding[f].code
                                   /\ finding'[f].nodes = finding[f].nodes
           /\ Valid(f)' => Valid(f) /\ f \notin F
           /\ \A c : finding[f] # None => (Holds(finding'[f], c) <=> Holds(finding[f], c))
  <1>1. finding'[f] = IF f \in F THEN [finding[f] EXCEPT !.state = "discovered"] ELSE finding[f]
    BY DEF Demoted
  <1>2. CASE f \in F
    <2>1. finding[f] \in FindingRow
      BY <1>2 DEF TypeOK, Known
    <2>2. finding'[f] = [finding[f] EXCEPT !.state = "discovered"]
      BY <1>1, <1>2
    <2>3. /\ finding'[f] \in FindingRow /\ finding'[f].state = "discovered"
          /\ finding'[f].files = finding[f].files /\ finding'[f].code = finding[f].code
          /\ finding'[f].nodes = finding[f].nodes
      BY <2>1, <2>2 DEF FindingRow
    <2>4. QED
      BY <2>1, <2>3, NoneAssumption DEF Valid, Holds
  <1>3. CASE f \notin F
    <2>1. finding'[f] = finding[f]
      BY <1>1, <1>3
    <2>2. QED
      BY <2>1, <1>3 DEF Valid
  <1>4. QED
    BY <1>2, <1>3

(* Steps that leave the scans, the findings and what is saved alone.         *)
LEMMA CarryFlow ==
    ASSUME IInv, Carrying,
           UNCHANGED <<scan, finding, prior, saved>>,
           pc # "idle", pc' \notin {"load", "revalidate"}, failed => failed',
           pc' # "idle" /\ ~failed' => pc \in {"ledger", "plan", "hunt", "review", "persist"},
           \A s \in Surface : plan'[s] = plan[s] \/ plan'[s].refs \subseteq Nodes(Current),
           \/ scan[Now].graph
           \/ /\ pc' \in {"review", "persist", "idle"} /\ result' = result
              /\ fresh' \cap GraphFound = {},
           carried' \subseteq saved, carried' \cap fresh' = {}
    PROVE  Carrying'
  <1>1. /\ Now' = Now /\ Current' = Current /\ scan' = scan /\ finding' = finding
        /\ prior' = prior /\ saved' = saved /\ \A f : Valid(f)' <=> Valid(f)
    BY DEF Now, Current, Valid
  <1>2. PlansRefer' /\ OnlyGraphNodes'
    BY <1>1 DEF Carrying, PlansRefer, OnlyGraphNodes
  <1>3. Ungraphed'
    BY <1>1 DEF Carrying, Ungraphed
  <1>4. SourceHolds' /\ PriorHeld'
    BY DEF SourceHolds, PriorHeld
  <1>5. Revalidated'
    BY <1>1 DEF Carrying, Revalidated
  <1>6. SuccessHeld'
    BY <1>1 DEF Carrying, SuccessHeld
  <1>7. SavedHold' /\ CarriedHold'
    BY <1>1 DEF Carrying, SavedHold, CarriedHold
  <1>8. QED
    BY <1>2, <1>3, <1>4, <1>5, <1>6, <1>7 DEF Carrying

(* The steps of the planning, the hunts and what ends the stage.             *)
LEMMA CarryStage ==
    ASSUME IInv, Carrying,
           \/ OpenLedger \/ CompleteLedger \/ StageRaises \/ OtherFailure \/ Crash
           \/ \E s \in Surface :
                 \/ Rebase(s) \/ StartPlanning(s) \/ RecordGroup(s) \/ PlanFails(s)
                 \/ \E support \in Support : Plan(s, support) \/ PlanConflicts(s, support)
                 \/ Skip(s) \/ StartHunt(s)
                 \/ \E state \in {"candidate", "no_candidate", "unresolved"} : EndHunt(s, state)
                 \/ \E told \in BOOLEAN : HuntFails(s, told)
           \/ \E fromStore \in SUBSET Surface : HuntsDone(fromStore)
    PROVE  Carrying'
  <1>1. /\ pc # "idle" /\ pc' \notin {"load", "revalidate"}
        /\ UNCHANGED <<scan, finding, prior, saved, fresh, carried>>
    BY DEF OpenLedger, CompleteLedger, StageRaises, OtherFailure, Crash, Rebase, StartPlanning,
           RecordGroup, PlanFails, Plan, PlanConflicts, Skip, StartHunt, EndHunt, HuntFails,
           HuntsDone, tables, stagevars
  <1>2. carried \subseteq saved /\ carried \cap fresh = {}
    BY DEF IInv, TypeOK, Carrying, CarriedHold
  <1>3. failed \in BOOLEAN
    BY DEF IInv, TypeOK
  <1>4. CASE StageRaises \/ OtherFailure \/ Crash
    <2>1. /\ plan' = plan /\ result' = result /\ (failed => failed')
          /\ pc' \in {"review", "idle"} /\ (pc' # "idle" => failed')
      BY <1>4 DEF StageRaises, OtherFailure, Crash, stagevars
    <2>2. scan[Now].graph \/ fresh \cap GraphFound = {}
      BY <1>1 DEF Carrying, Ungraphed
    <2>3. QED
      BY <1>1, <1>2, <2>1, <2>2, CarryFlow
  <1> DEFINE InStage == pc \in {"ledger", "plan", "hunt"} /\ (failed => failed')
  <1>5. CASE InStage /\ \A s \in Surface : plan'[s] = plan[s] \/ plan'[s].refs \subseteq Nodes(Current)
    <2>1. scan[Now].graph
      BY <1>5 DEF Carrying, Ungraphed
    <2>2. QED
      BY <1>1, <1>2, <1>5, <2>1, CarryFlow
  <1>6. ASSUME NEW s \in Surface, Rebase(s)
        PROVE  InStage /\ \A t \in Surface : plan'[t] = plan[t] \/ plan'[t].refs \subseteq Nodes(Current)
    <2> DEFINE i == PriorOf(s)
               rebased == [i EXCEPT !.code = Current]
    <2>1. /\ InStage /\ i # None /\ SameEvidence(i.refs, i.code, Current)
          /\ plan' = [plan EXCEPT ![s] = rebased]
      BY <1>6 DEF Rebase, Compatible
    <2>2. i \in Investigation
      BY <2>1, PriorStored
    <2>3. i.refs \subseteq Nodes(Current)
      BY <2>1 DEF SameEvidence
    <2> HIDE DEF i
    <2>4. rebased.refs = i.refs
      BY <2>2 DEF Investigation
    <2> HIDE DEF rebased, InStage
    <2>5. plan \in [Surface -> Investigation \cup {None}]
      BY DEF IInv, TypeOK
    <2>6. QED
      BY <2>1, <2>3, <2>4, <2>5
  <1>7. ASSUME NEW s \in Surface, NEW support \in Support, Plan(s, support)
        PROVE  InStage /\ \A t \in Surface : plan'[t] = plan[t] \/ plan'[t].refs \subseteq Nodes(Current)
    <2>1. /\ InStage /\ ledger[s] = "planning" /\ support \subseteq Neighbors(s)
          /\ plan' = [plan EXCEPT ![s] = Planned(s, support)]
      BY <1>7 DEF Plan
    <2>2. s \in Nodes(Current)
      BY <1>1, <2>1, InProgress DEF Surfaces
    <2>3. Neighbors(s) \subseteq Nodes(Current)
      BY DEF Neighbors, Neighborhood, Edges
    <2>4. Planned(s, support).refs \subseteq Nodes(Current)
      BY <2>1, <2>2, <2>3 DEF Planned
    <2> HIDE DEF InStage
    <2>5. plan \in [Surface -> Investigation \cup {None}]
      BY DEF IInv, TypeOK
    <2>6. QED
      BY <2>1, <2>4, <2>5
  <1>8. CASE OpenLedger \/ CompleteLedger
    BY <1>5, <1>8 DEF OpenLedger, CompleteLedger, stagevars
  <1>9. ASSUME NEW s \in Surface,
               \/ StartPlanning(s) \/ RecordGroup(s) \/ PlanFails(s)
               \/ \E support \in Support : PlanConflicts(s, support)
               \/ Skip(s) \/ StartHunt(s)
               \/ \E state \in {"candidate", "no_candidate", "unresolved"} : EndHunt(s, state)
               \/ \E told \in BOOLEAN : HuntFails(s, told)
        PROVE  InStage /\ plan' = plan
    BY <1>3, <1>9 DEF StartPlanning, RecordGroup, PlanFails, PlanConflicts, Skip, StartHunt,
                      EndHunt, HuntFails, stagevars
  <1>10. ASSUME NEW fromStore \in SUBSET Surface, HuntsDone(fromStore)
         PROVE  InStage /\ plan' = plan
    BY <1>10 DEF HuntsDone
  <1> HIDE DEF InStage
  <1>11. QED
    BY <1>4, <1>5, <1>6, <1>7, <1>8, <1>9, <1>10

(* The review of the findings: what it carries is saved and not verified.    *)
LEMMA CarryReview ==
    ASSUME IInv, Carrying, NEW verified \in SUBSET Finding, NEW fit \in SUBSET saved,
           Review(verified, fit)
    PROVE  Carrying'
  <1>1. /\ pc = "review" /\ pc' = "persist" /\ failed' = failed
        /\ UNCHANGED <<scan, finding, prior, saved, plan, result>>
        /\ fresh' = verified /\ carried' = fit \ verified
        /\ \A f \in verified : Found(f)
    BY DEF Review, tables, stagevars
  <1>2. scan[Now].graph \/ verified \cap GraphFound = {}
    <2>1. ASSUME ~scan[Now].graph, NEW f \in verified, f \in GraphFound  PROVE FALSE
      <3>1. Place[f] \in Surface /\ Found(f)
        BY <1>1, <2>1, ConstantsAssumption
      <3>2. result[Place[f]] = "none"
        BY <1>1, <2>1, <3>1 DEF Carrying, Ungraphed
      <3>3. QED
        BY <2>1, <3>1, <3>2 DEF Found
    <2>2. QED
      BY <2>1
  <1>3. QED
    BY <1>1, <1>2, CarryFlow

(* What is taken from the previous report holds in its code: it was found    *)
(* through the graph, or this scan is of that code again.                    *)
LEMMA ReusableHold ==
    ASSUME IInv, Carrying, pc = "revalidate"
    PROVE  \A f \in ReusableFindings :
               f \in Finding /\ finding[f] # None /\ prior # 0 /\ Holds(finding[f], scan[prior].code)
  <1> SUFFICES ASSUME NEW f \in ReusableFindings
               PROVE  /\ f \in Finding /\ finding[f] # None /\ prior # 0
                      /\ Holds(finding[f], scan[prior].code)
    OBVIOUS
  <1>1. /\ prior # 0 /\ scan[prior].status = "SUCCESSFUL" /\ finding[f].state = "validated"
        /\ f \in GraphFound \/ scan[prior].code = Current
    BY DEF ReusableFindings
  <1>2. f \in Finding /\ finding[f] # None
    BY ReusableKnown DEF Known
  <1>3. Valid(f)
    BY <1>1, <1>2 DEF Valid
  <1>4. CASE f \in GraphFound
    BY <1>1, <1>2, <1>3, <1>4 DEF Carrying, PriorHeld
  <1>5. CASE f \notin GraphFound
    <2>1. finding[f].nodes = {}
      BY <1>2, <1>5 DEF Carrying, OnlyGraphNodes
    <2>2. \A n \in finding[f].files : Current[n] = finding[f].code[n]
      BY <1>2, <1>3 DEF Carrying, SourceHolds
    <2>3. QED
      BY <1>1, <1>2, <1>5, <2>1, <2>2 DEF Holds, SameEvidence
  <1>6. QED
    BY <1>1, <1>2, <1>4, <1>5

(* The revalidation, and its failure.                                        *)
LEMMA CarryRevalidate ==
    ASSUME IInv, Carrying, Revalidate \/ \E read \in BOOLEAN : RevalidateFails(read)
    PROVE  Carrying'
  <1>1. /\ pc = "revalidate" /\ saved' \in {{}, ReusableFindings}
        /\ UNCHANGED <<scan, prior, plan, result, fresh, carried>>
    BY DEF Revalidate, RevalidateFails, tables
  <1>2. /\ Now' = Now /\ Current' = Current /\ scan' = scan /\ prior' = prior /\ plan' = plan
        /\ carried = {} /\ carried' = {}
    BY <1>1, InProgress DEF Now, Current, Early
  <1>3. scan[Now].graph
    BY <1>1 DEF Carrying, Ungraphed
  <1>4. \/ Revalidate /\ pc' = "ledger" /\ finding' = Demoted(ToRevalidate)
        \/ pc' = "review" /\ failed' /\ finding' = finding
    BY DEF Revalidate, RevalidateFails, tables
  <1>5. ASSUME NEW f \in Finding
        PROVE  /\ finding[f] # None <=> finding'[f] # None
               /\ finding[f] # None => finding'[f].nodes = finding[f].nodes
               /\ Valid(f)' => Valid(f)
               /\ Valid(f)' /\ pc' = "ledger" => f \notin ToRevalidate
               /\ \A c : finding[f] # None => (Holds(finding'[f], c) <=> Holds(finding[f], c))
    <2>1. ToRevalidate \in SUBSET Known
      BY DEF ToRevalidate
    <2>2. CASE finding' = Demoted(ToRevalidate)
      BY <2>1, <2>2, DemotedKeeps DEF IInv
    <2>3. CASE finding' = finding /\ pc' = "review"
      BY <2>3 DEF Valid
    <2>4. QED
      BY <1>4, <2>2, <2>3
  <1>6. PlansRefer' /\ Ungraphed' /\ CarriedHold'
    BY <1>1, <1>2, <1>3, <1>4 DEF Carrying, PlansRefer, Ungraphed, CarriedHold
  <1>7. OnlyGraphNodes'
    BY <1>5 DEF Carrying, OnlyGraphNodes
  <1>8. SourceHolds' /\ PriorHeld'
    BY <1>4 DEF SourceHolds, PriorHeld
  <1>9. Revalidated'
    <2> SUFFICES ASSUME pc' = "ledger", NEW f \in Finding, Valid(f)'
                 PROVE  Holds(finding'[f], Current)
      BY <1>2, <1>4 DEF Revalidated
    <2>1. Valid(f) /\ f \in Known /\ f \notin ToRevalidate
      BY <1>5 DEF Valid, Known
    <2>2. Holds(finding[f], Current)
      BY <2>1, StaleIsNot DEF ToRevalidate
    <2>3. QED
      BY <1>5, <2>1, <2>2 DEF Valid
  <1>10. SuccessHeld'
    <2> SUFFICES ASSUME NEW k \in 1..Now, scan[k].status = "SUCCESSFUL",
                        \A l \in (k + 1)..Now : ~scan[l].graph, NEW f \in GraphFound, Valid(f)'
                 PROVE  Holds(finding'[f], scan[k].code)
      BY <1>2 DEF SuccessHeld
    <2>1. f \in Finding
      BY ConstantsAssumption
    <2>2. Valid(f)
      BY <1>5, <2>1
    <2>3. Holds(finding[f], scan[k].code)
      BY <2>2 DEF Carrying, SuccessHeld
    <2>4. QED
      BY <1>5, <2>1, <2>2, <2>3 DEF Valid
  <1>11. SavedHold'
    <2> SUFFICES ASSUME NEW f \in ReusableFindings
                 PROVE  prior # 0 /\ Holds(finding'[f], scan[prior].code)
      BY <1>1, <1>2, <1>4 DEF SavedHold
    <2>1. /\ f \in Finding /\ finding[f] # None /\ prior # 0
          /\ Holds(finding[f], scan[prior].code)
      BY <1>1, ReusableHold
    <2>2. QED
      BY <1>5, <2>1
  <1>12. QED
    BY <1>6, <1>7, <1>8, <1>9, <1>10, <1>11 DEF Carrying

(* A scan begins: what its index transaction does not demote has the source  *)
(* it had, since the walk over callers reaches what it starts from.          *)
LEMMA CarryBegin ==
    ASSUME IInv, Carrying, NEW c \in Codes, Begin(c)
    PROVE  Carrying'
  <1> DEFINE r == [code |-> c, status |-> "RUNNING", graph |-> FALSE, report |-> {}]
  <1>1. /\ scan' = Append(scan, r) /\ pc' = "load" /\ finding' = Demoted(SymbolStale(c))
        /\ carried' = {} /\ fresh' = {} /\ saved' = {}
        /\ plan' = [s \in Surface |-> None] /\ result' = [s \in Surface |-> "none"]
    BY DEF Begin, NoStage
  <1>2. scan \in Seq(ScanRow) /\ r \in ScanRow
    BY DEF IInv, TypeOK, ScanRow
  <1>3. r.code = c /\ r.status = "RUNNING" /\ ~r.graph
    OBVIOUS
  <1> HIDE DEF r
  <1>4. /\ Now' = Now + 1 /\ Now \in Nat /\ scan'[Now'] = r
        /\ \A k \in 1..Now : scan'[k] = scan[k]
    BY <1>1, <1>2, AppendProperties, LenProperties DEF Now
  <1>5. Current' = c
    BY <1>3, <1>4 DEF Current
  <1>6. SymbolStale(c) \in SUBSET Known
    BY DEF SymbolStale
  <1>7. ASSUME NEW f \in Finding
        PROVE  /\ finding[f] # None <=> finding'[f] # None
               /\ finding[f] # None => /\ finding'[f].files = finding[f].files
                                       /\ finding'[f].code = finding[f].code
                                       /\ finding'[f].nodes = finding[f].nodes
               /\ Valid(f)' => Valid(f) /\ f \notin SymbolStale(c)
               /\ \A d : finding[f] # None => (Holds(finding'[f], d) <=> Holds(finding[f], d))
    BY <1>1, <1>6, DemotedKeeps DEF IInv
  <1>8. PlansRefer' /\ CarriedHold' /\ SavedHold' /\ PriorHeld' /\ Revalidated'
    BY <1>1 DEF PlansRefer, CarriedHold, SavedHold, PriorHeld, Revalidated
  <1>9. OnlyGraphNodes'
    BY <1>7 DEF Carrying, OnlyGraphNodes
  <1>10. Ungraphed'
    BY <1>1, <1>3, <1>4 DEF Ungraphed
  <1>11. SourceHolds'
    <2> SUFFICES ASSUME NEW f \in Finding, Valid(f)', NEW n \in finding'[f].files
                 PROVE  c[n] = finding'[f].code[n]
      BY <1>5 DEF SourceHolds
    <2>1. /\ f \in Known /\ f \notin SymbolStale(c)
          /\ finding'[f].files = finding[f].files /\ finding'[f].code = finding[f].code
      BY <1>7 DEF Known, Valid
    <2>2. /\ finding[f].files \cap CallersWithin(c, ChangedSymbols(c)) = {}
          /\ finding[f].files \subseteq Nodes(c)
      BY <2>1 DEF SymbolStale
    <2>3. n \notin ChangedSymbols(c) /\ n \in Nodes(c)
      BY <2>1, <2>2, StartIsReached
    <2>4. QED
      BY <2>1, <2>3 DEF ChangedSymbols
  <1>12. SuccessHeld'
    <2> SUFFICES ASSUME NEW k \in 1..Now', scan'[k].status = "SUCCESSFUL",
                        \A l \in (k + 1)..Now' : ~scan'[l].graph, NEW f \in GraphFound, Valid(f)'
                 PROVE  Holds(finding'[f], scan'[k].code)
      BY DEF SuccessHeld
    <2>1. k # Now'
      BY <1>3, <1>4
    <2>2. k \in 1..Now /\ scan'[k] = scan[k]
      BY <1>4, <2>1
    <2>3. \A l \in (k + 1)..Now : ~scan[l].graph
      <3> TAKE l \in (k + 1)..Now
      <3>1. l \in (k + 1)..Now' /\ l \in 1..Now
        BY <1>4, <2>2
      <3>2. QED
        BY <1>4, <3>1
    <2>4. f \in Finding
      BY ConstantsAssumption
    <2>5. Valid(f)
      BY <1>7, <2>4
    <2>6. Holds(finding[f], scan[k].code)
      BY <2>2, <2>3, <2>5 DEF Carrying, SuccessHeld
    <2>7. QED
      BY <1>7, <2>2, <2>4, <2>5, <2>6 DEF Valid
  <1>13. QED
    BY <1>8, <1>9, <1>10, <1>11, <1>12 DEF Carrying

(* The previous graph is the newest one, so its scan held.                   *)
LEMMA LatestHeld ==
    ASSUME IInv, Carrying, pc = "load", Latest # 0, scan[Latest].status = "SUCCESSFUL"
    PROVE  \A f \in GraphFound : Valid(f) => Holds(finding[f], scan[Latest].code)
  <1> DEFINE graphs == {k \in 1..(Now - 1) : scan[k].graph}
  <1>1. Now \in Nat \ {0}
    BY InProgress
  <1>2. graphs # {}
    BY DEF Latest
  <1>3. \E m \in graphs : \A k \in graphs : k <= m
    <2>1. graphs \subseteq 0..Now
      BY <1>1
    <2> HIDE DEF graphs
    <2>2. QED
      BY <1>1, <1>2, <2>1, BoundedMax
  <1>4. Latest \in graphs /\ \A k \in graphs : k <= Latest
    BY <1>2, <1>3 DEF Latest
  <1>5. Latest \in 1..Now /\ \A l \in (Latest + 1)..Now : ~scan[l].graph
    <2>1. Latest \in 1..(Now - 1)
      BY <1>4
    <2>2. ASSUME NEW l \in (Latest + 1)..Now, scan[l].graph  PROVE FALSE
      <3>1. l # Now
        BY <2>2 DEF Carrying, Ungraphed
      <3>2. l \in 1..(Now - 1) /\ l > Latest
        BY <1>1, <2>1, <3>1
      <3>3. l \in graphs
        BY <2>2, <3>2
      <3>4. QED
        BY <1>1, <1>4, <2>1, <3>2, <3>3
    <2>3. QED
      BY <1>1, <2>1, <2>2
  <1>6. QED
    BY <1>5 DEF Carrying, SuccessHeld

(* The comparison with the previous graph.                                   *)
LEMMA CarryLoad ==
    ASSUME IInv, Carrying, LoadPrevious
    PROVE  Carrying'
  <1>1. /\ pc = "load" /\ pc' = "revalidate" /\ prior' = Latest
        /\ scan' = [scan EXCEPT ![Now].graph = TRUE]
        /\ UNCHANGED <<finding, saved, plan, result, fresh, carried>>
    BY DEF LoadPrevious
  <1>2. /\ scan # <<>> /\ Now \in Nat \ {0} /\ scan \in Seq(ScanRow) /\ Now \in 1..Now
        /\ scan[Now] \in ScanRow /\ DOMAIN scan = 1..Now /\ carried = {}
    BY <1>1, InProgress, CurrentType, LenProperties DEF IInv, Early, Now
  <1>3. /\ DOMAIN scan' = 1..Now /\ scan'[Now].graph
        /\ \A k \in 1..Now : scan'[k].code = scan[k].code /\ scan'[k].status = scan[k].status
        /\ \A k \in 1..Now : k # Now => scan'[k] = scan[k]
    BY <1>1, <1>2 DEF ScanRow
  <1>4. Now' = Now
    <2>1. Len(scan') = Len(scan)
      BY <1>1, <1>2, ExceptSeq, GraphSet DEF ScanRow, Now
    <2>2. QED
      BY <2>1 DEF Now
  <1>5. Current' = Current
    BY <1>2, <1>3, <1>4 DEF Current
  <1>6. \A f : Valid(f)' <=> Valid(f)
    BY <1>1 DEF Valid
  <1>7. PlansRefer' /\ OnlyGraphNodes' /\ Ungraphed'
    BY <1>1, <1>3, <1>4, <1>5 DEF Carrying, PlansRefer, OnlyGraphNodes, Ungraphed
  <1>8. SourceHolds' /\ Revalidated'
    BY <1>1, <1>5, <1>6 DEF Carrying, SourceHolds, Revalidated
  <1>9. SuccessHeld'
    <2> SUFFICES ASSUME NEW k \in 1..Now, scan'[k].status = "SUCCESSFUL",
                        \A l \in (k + 1)..Now : ~scan'[l].graph, NEW f \in GraphFound, Valid(f)
                 PROVE  Holds(finding[f], scan'[k].code)
      BY <1>1, <1>4, <1>6 DEF SuccessHeld
    <2>1. k = Now
      BY <1>2, <1>3
    <2>2. scan[Now].status = "SUCCESSFUL"
      BY <1>3, <2>1
    <2>3. QED
      BY <1>1, <2>2 DEF IInv, RunningScan
  <1>10. PriorHeld'
    <2>1. Latest \in 0..Now
      BY <1>2, LatestType DEF IInv
    <2> SUFFICES ASSUME Latest # 0, scan'[Latest].status = "SUCCESSFUL", NEW f \in GraphFound, Valid(f)
                 PROVE  Holds(finding[f], scan'[Latest].code)
      BY <1>1, <1>6 DEF PriorHeld
    <2>2. Latest \in 1..Now
      BY <1>2, <2>1
    <2>3. scan[Latest].status = "SUCCESSFUL" /\ scan'[Latest].code = scan[Latest].code
      BY <1>3, <2>2
    <2>4. QED
      BY <1>1, <2>3, LatestHeld
  <1>11. SavedHold' /\ CarriedHold'
    <2>1. saved = {}
      BY <1>1 DEF Carrying, SavedHold
    <2>2. QED
      BY <1>1, <1>2, <2>1 DEF SavedHold, CarriedHold
  <1>12. QED
    BY <1>7, <1>8, <1>9, <1>10, <1>11 DEF Carrying

(* The end of a scan: what it verified holds in its code by construction,    *)
(* what it carried was revalidated.                                          *)
LEMMA CarryPersist ==
    ASSUME IInv, Carrying, Persist
    PROVE  Carrying'
  <1> DEFINE status == IF failed THEN "UNSUCCESSFUL" ELSE "SUCCESSFUL"
  <1>1. /\ pc = "persist" /\ pc' = "idle"
        /\ scan' = [scan EXCEPT ![Now].status = status, ![Now].report = fresh \cup carried]
        /\ finding' = [f \in Finding |-> IF f \in fresh THEN Verified(f) ELSE finding[f]]
        /\ UNCHANGED <<prior, saved, plan, result, failed, fresh, carried>>
    BY DEF Persist, stagevars
  <1>2. /\ scan # <<>> /\ Now \in Nat \ {0} /\ scan \in Seq(ScanRow) /\ Now \in 1..Now
        /\ scan[Now] \in ScanRow /\ DOMAIN scan = 1..Now /\ carried \subseteq saved
        /\ fresh \subseteq Finding /\ saved \subseteq Known /\ prior \in 0..Now
    BY <1>1, InProgress, CurrentType, LenProperties DEF IInv, TypeOK, Now
  <1>3. /\ DOMAIN scan' = 1..Now /\ Len(scan') = Len(scan)
        /\ \A k \in 1..Now : scan'[k].code = scan[k].code /\ scan'[k].graph = scan[k].graph
        /\ \A k \in 1..Now : k # Now => scan'[k] = scan[k]
        /\ scan'[Now].status = status
    <2> HIDE DEF status
    <2>1. /\ DOMAIN scan' = 1..Now
          /\ \A k \in 1..Now : scan'[k].code = scan[k].code /\ scan'[k].graph = scan[k].graph
          /\ \A k \in 1..Now : k # Now => scan'[k] = scan[k]
          /\ scan'[Now].status = status
      BY <1>1, <1>2 DEF ScanRow
    <2>2. Len(scan') = Len(scan)
      <3>1. \E report : scan' = [scan EXCEPT ![Now] = [@ EXCEPT !.status = status, !.report = report]]
        BY <1>1
      <3>2. QED
        BY <1>2, <3>1, LenProperties DEF Now
    <2>3. QED
      BY <2>1, <2>2
  <1> HIDE DEF status
  <1>4. Now' = Now /\ Current' = Current
    BY <1>2, <1>3 DEF Now, Current
  <1>5. ASSUME NEW f \in fresh
        PROVE  Holds(Verified(f), Current) /\ (f \notin GraphFound => Verified(f).nodes = {})
    <2> DEFINE i == IF f \in GraphFound THEN plan[Place[f]] ELSE None
    <2>1. i = None \/ i.refs \subseteq Nodes(Current)
      BY ConstantsAssumption DEF Carrying, PlansRefer
    <2>2. /\ Verified(f).code = Current
          /\ Verified(f).nodes = IF i = None THEN {} ELSE i.refs
      BY DEF Verified
    <2>3. f \notin GraphFound => i = None
      OBVIOUS
    <2> HIDE DEF i
    <2>4. QED
      BY <2>1, <2>2, <2>3 DEF Holds, SameEvidence
  <1>6. PlansRefer'
    BY <1>1, <1>4 DEF Carrying, PlansRefer
  <1>7. OnlyGraphNodes'
    BY <1>1, <1>5 DEF Carrying, OnlyGraphNodes
  <1>8. Ungraphed' /\ SourceHolds' /\ Revalidated' /\ PriorHeld' /\ SavedHold'
    BY <1>1 DEF Ungraphed, SourceHolds, Revalidated, PriorHeld, SavedHold
  <1>9. SuccessHeld'
    <2> SUFFICES ASSUME NEW k \in 1..Now, scan'[k].status = "SUCCESSFUL",
                        \A l \in (k + 1)..Now : ~scan'[l].graph, NEW f \in GraphFound, Valid(f)'
                 PROVE  Holds(finding'[f], scan'[k].code)
      BY <1>4 DEF SuccessHeld
    <2>1. f \in Finding
      BY ConstantsAssumption
    <2>2. CASE k = Now
      <3>1. ~failed /\ scan'[k].code = Current
        BY <1>3, <2>2 DEF status, Current
      <3>2. CASE f \in fresh
        BY <1>1, <1>5, <2>1, <3>1, <3>2
      <3>3. CASE f \notin fresh
        <4>1. finding'[f] = finding[f]
          BY <1>1, <2>1, <3>3
        <4>2. Valid(f)
          BY <4>1 DEF Valid
        <4>3. QED
          BY <1>1, <2>1, <3>1, <4>1, <4>2 DEF Carrying, Revalidated
      <3>4. QED
        BY <3>2, <3>3
    <2>3. CASE k # Now
      <3>1. \A l \in (k + 1)..Now : l \in 1..Now /\ ~scan[l].graph
        BY <1>2, <1>3
      <3>2. Now \in (k + 1)..Now
        BY <1>2, <2>3
      <3>3. f \notin fresh
        BY <1>1, <3>1, <3>2 DEF Carrying, Ungraphed
      <3>4. finding'[f] = finding[f] /\ scan'[k] = scan[k]
        BY <1>1, <1>3, <2>1, <2>3, <3>3
      <3>5. Valid(f)
        BY <3>4 DEF Valid
      <3>6. QED
        BY <3>1, <3>4, <3>5 DEF Carrying, SuccessHeld
    <2>4. QED
      BY <2>2, <2>3
  <1>10. CarriedHold'
    <2> SUFFICES ASSUME NEW f \in carried
                 PROVE  prior # 0 /\ f \notin fresh /\ Holds(finding'[f], scan'[prior].code)
      BY <1>1 DEF CarriedHold
    <2>1. prior # 0 /\ f \notin fresh /\ Holds(finding[f], scan[prior].code)
      BY DEF Carrying, CarriedHold
    <2>2. finding'[f] = finding[f]
      BY <1>1, <1>2, <2>1 DEF Known
    <2>3. scan'[prior].code = scan[prior].code
      BY <1>2, <1>3, <2>1
    <2>4. QED
      BY <2>1, <2>2, <2>3
  <1>11. QED
    BY <1>6, <1>7, <1>8, <1>9, <1>10 DEF Carrying

(* A final transaction that is rolled back.                                  *)
LEMMA CarryPersistFails ==
    ASSUME IInv, Carrying, NEW recorded \in BOOLEAN, PersistFails(recorded)
    PROVE  Carrying'
  <1>1. /\ pc = "persist" /\ pc' = "idle"
        /\ scan' = IF recorded THEN [scan EXCEPT ![Now].status = "UNSUCCESSFUL"] ELSE scan
        /\ UNCHANGED <<finding, prior, saved, plan, result, failed, fresh, carried>>
    BY DEF PersistFails, stagevars
  <1>2. /\ scan # <<>> /\ Now \in Nat \ {0} /\ scan \in Seq(ScanRow) /\ Now \in 1..Now
        /\ scan[Now] \in ScanRow /\ DOMAIN scan = 1..Now /\ prior \in 0..Now
        /\ scan[Now].status # "SUCCESSFUL"
    BY <1>1, InProgress, CurrentType, LenProperties DEF IInv, RunningScan, TypeOK, Now
  <1>3. /\ DOMAIN scan' = 1..Now /\ Len(scan') = Len(scan)
        /\ \A k \in 1..Now : scan'[k].code = scan[k].code /\ scan'[k].graph = scan[k].graph
        /\ \A k \in 1..Now : scan'[k].status = "SUCCESSFUL" => scan[k].status = "SUCCESSFUL"
    <2>1. CASE recorded
      <3>1. scan' = [scan EXCEPT ![Now].status = "UNSUCCESSFUL"]
        BY <1>1, <2>1
      <3>2. Len(scan') = Len(scan)
        BY <1>2, <3>1, LenProperties DEF Now
      <3>3. QED
        BY <1>2, <3>1, <3>2 DEF ScanRow
    <2>2. CASE ~recorded
      BY <1>1, <1>2, <2>2
    <2>3. QED
      BY <2>1, <2>2
  <1>4. Now' = Now /\ Current' = Current /\ \A f : Valid(f)' <=> Valid(f)
    BY <1>1, <1>2, <1>3 DEF Now, Current, Valid
  <1>5. PlansRefer' /\ OnlyGraphNodes' /\ Ungraphed' /\ SourceHolds' /\ Revalidated' /\ PriorHeld'
        /\ SavedHold'
    BY <1>1, <1>4 DEF Carrying, PlansRefer, OnlyGraphNodes, Ungraphed, SourceHolds, Revalidated,
                      PriorHeld, SavedHold
  <1>6. SuccessHeld'
    <2> SUFFICES ASSUME NEW k \in 1..Now, scan'[k].status = "SUCCESSFUL",
                        \A l \in (k + 1)..Now : ~scan'[l].graph, NEW f \in GraphFound, Valid(f)
                 PROVE  Holds(finding[f], scan'[k].code)
      BY <1>1, <1>4 DEF SuccessHeld
    <2>1. \A l \in (k + 1)..Now : ~scan[l].graph
      BY <1>2, <1>3
    <2>2. QED
      BY <1>3, <2>1 DEF Carrying, SuccessHeld
  <1>7. CarriedHold'
    <2> SUFFICES ASSUME NEW f \in carried
                 PROVE  prior # 0 /\ f \notin fresh /\ Holds(finding[f], scan'[prior].code)
      BY <1>1 DEF CarriedHold
    <2>1. prior # 0 /\ f \notin fresh /\ Holds(finding[f], scan[prior].code)
      BY DEF Carrying, CarriedHold
    <2>2. QED
      BY <1>2, <1>3, <2>1
  <1>8. QED
    BY <1>5, <1>6, <1>7 DEF Carrying

LEMMA CarryInit == Init => Carrying
  <1> SUFFICES ASSUME Init  PROVE Carrying
    OBVIOUS
  <1>1. Now = 0
    BY EmptySeq DEF Init, Now
  <1>2. QED
    BY <1>1 DEF Init, Carrying, PlansRefer, OnlyGraphNodes, Ungraphed, SourceHolds, Revalidated,
                SuccessHeld, PriorHeld, SavedHold, CarriedHold

LEMMA CarryNext == IInv /\ Carrying /\ [Next]_vars => Carrying'
  <1> SUFFICES ASSUME IInv, Carrying, [Next]_vars  PROVE Carrying'
    OBVIOUS
  <1>1. ASSUME NEW c \in Codes, Begin(c)  PROVE Carrying'
    BY <1>1, CarryBegin
  <1>2. CASE LoadPrevious
    BY <1>2, CarryLoad
  <1>3. CASE Revalidate \/ \E read \in BOOLEAN : RevalidateFails(read)
    BY <1>3, CarryRevalidate
  <1>4. CASE \/ OpenLedger \/ CompleteLedger \/ StageRaises \/ OtherFailure \/ Crash
             \/ \E s \in Surface :
                   \/ Rebase(s) \/ StartPlanning(s) \/ RecordGroup(s) \/ PlanFails(s)
                   \/ \E support \in Support : Plan(s, support) \/ PlanConflicts(s, support)
                   \/ Skip(s) \/ StartHunt(s)
                   \/ \E state \in {"candidate", "no_candidate", "unresolved"} : EndHunt(s, state)
                   \/ \E told \in BOOLEAN : HuntFails(s, told)
             \/ \E fromStore \in SUBSET Surface : HuntsDone(fromStore)
    BY <1>4, CarryStage
  <1>5. ASSUME NEW verified \in SUBSET Finding, NEW fit \in SUBSET saved, Review(verified, fit)
        PROVE  Carrying'
    BY <1>5, CarryReview
  <1>6. CASE Persist
    BY <1>6, CarryPersist
  <1>7. ASSUME NEW recorded \in BOOLEAN, PersistFails(recorded)  PROVE Carrying'
    BY <1>7, CarryPersistFails
  <1>8. CASE UNCHANGED vars
    <2>1. UNCHANGED <<scan, finding, pc, prior, saved, plan, result, failed, fresh, carried>>
      BY <1>8 DEF vars, tables, stagevars
    <2>2. Now' = Now /\ Current' = Current /\ \A f : Valid(f)' <=> Valid(f)
      BY <2>1 DEF Now, Current, Valid
    <2>3. QED
      BY <2>1, <2>2 DEF Carrying, PlansRefer, OnlyGraphNodes, Ungraphed, SourceHolds, Revalidated,
                        SuccessHeld, PriorHeld, SavedHold, CarriedHold
  <1>9. QED
    BY <1>1, <1>2, <1>3, <1>4, <1>5, <1>6, <1>7, <1>8 DEF Next

LEMMA AlwaysCarrying == Spec => []Carrying
  BY CarryInit, CarryNext, Inductive, PTL DEF Spec

--------------------------------------------------------------------------------
(* The theorems                                                              *)

(* The tables, the ledger and what a scan takes over have their types; what  *)
(* is carried forward and what a report lists are findings that are stored   *)
(* (SastPipeline.scan_snapshot, InvestigationRepository).                    *)
THEOREM TypeCorrect == Spec => []TypeOK
  <1>1. IInv => TypeOK
    BY DEF IInv
  <1>2. QED
    BY <1>1, Inductive, PTL

(* A group that the ledger calls planned or reused has its investigation     *)
(* stored for the snapshot, wherever a failure or a kill falls               *)
(* (GraphSurfacePlanningCoordinator.plan, record_surface_planning_group).    *)
THEOREM LedgerHolds == Spec => []LedgerAgrees
  <1>1. IInv => LedgerAgrees
    BY DEF IInv, PlansStored, LedgerFits, LedgerAgrees
  <1>2. QED
    BY <1>1, Inductive, PTL

(* A scan that is stored as successful has an answer for each of its         *)
(* surfaces, its own or a negative one of a successful scan on the same      *)
(* evidence (list_reusable_no_candidate_investigations, _hunt_graphify).     *)
THEOREM SuccessHolds == Spec => []SuccessAnswersEverySurface
  <1>1. IInv => SuccessAnswersEverySurface
    <2> SUFFICES ASSUME IInv, pc = "idle", scan # <<>>, scan[Now].status = "SUCCESSFUL",
                        NEW s \in Surfaces
                 PROVE  \/ result[s] \in {"candidate", "no_candidate"}
                        \/ /\ result[s] = "skipped"
                           /\ row[basis[s]].state = "no_candidate"
                           /\ scan[row[basis[s]].scan].status = "SUCCESSFUL"
                           /\ SameEvidence(basis[s].refs, basis[s].code, Current)
      BY DEF SuccessAnswersEverySurface
    <2>1. result[s] \in {"candidate", "no_candidate", "skipped"} /\ s \in Surface
      BY DEF IInv, Answered, Answers, Surfaces
    <2>2. result[s] = "skipped" => basis[s] # None
      BY <2>1 DEF IInv, ResultsFit
    <2>3. QED
      BY <2>1, <2>2 DEF IInv, BasisHolds
  <1>2. QED
    BY <1>1, Inductive, PTL

(* A finding that is carried forward held in the code of the scan it is      *)
(* taken from, whatever failed or changed between that scan and this one     *)
(* (findings_requiring_revalidation, reusable_scan_findings).                *)
THEOREM CarriedHeldBefore == Spec => []StaleForOneScanOnly
  <1>1. Carrying => StaleForOneScanOnly
    BY StaleIsNot DEF Carrying, CarriedHold, StaleForOneScanOnly
  <1>2. QED
    BY <1>1, AlwaysCarrying, PTL

================================================================================
