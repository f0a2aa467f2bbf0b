-------------------------- MODULE ReviewAttemptsProofs --------------------------
(*****************************************************************************)
(* Theorems about ReviewAttempts, for any number of deliveries, any attempt  *)
(* limit and any number of calls in flight.                                  *)
(*****************************************************************************)
EXTENDS ReviewAttempts, FiniteSetTheorems, TLAPS

(* A row nobody runs has no lease; before the INSERT nobody can be past it.  *)
RowShape ==
    /\ row.state # "running" => row.owner = NoCall /\ ~row.live
    /\ row.state = "absent" =>
          /\ row.attempts = 0
          /\ \A c \in Call : pc[c] \notin {"update", "recheck", "retry"}

(* A call has an attempt number exactly from its grant on.                   *)
GrantedOrdinals ==
    \A c \in Call :
        /\ pc[c] \in {"check"} \cup Claiming => ordinal[c] = 0
        /\ pc[c] \in Working => ordinal[c] # 0

IInv ==
    /\ TypeOK
    /\ RowShape
    /\ GrantedOrdinals
    /\ LatestGrantOwns
    /\ RunningHasWorkerOrCasualty
    /\ CompletedIsNewest

(* The two things a claim action can do: grant c the next attempt, or leave  *)
(* the row alone and move c to a label.                                      *)
GrantCase(c) ==
    /\ Grant(c)
    /\ pc[c] \in {"insert", "update", "retry"}
    /\ pc[c] = "insert" => row.state = "absent"
    /\ Reclaimable

LabelCase(c) ==
    /\ UNCHANGED <<row, ordinal>>
    /\ \E label \in {"insert", "update", "recheck", "retry", "replayed", "exhausted", "conflict"} :
          /\ Goto(c, label)
          /\ label = "update" => row.state # "absent"
          /\ label = "recheck" => pc[c] = "update"
          /\ label = "retry" => pc[c] = "recheck"
          /\ label \in {"update", "retry"} => row.attempts < MaxAttempts
          /\ label \in Claiming /\ pc[c] = "check" => Cardinality(Busy) < InFlight

(* Each of the five claim actions is one of these two cases.                 *)
LEMMA ClaimSteps ==
    ASSUME NEW c \in Call, Claim(c)
    PROVE  /\ pc[c] \in {"check"} \cup Claiming
           /\ done' = done
           /\ GrantCase(c) \/ LabelCase(c)
  <1>1. CASE ClaimRead(c)
    BY <1>1 DEF ClaimRead, Decide, LabelCase, Claiming
  <1>2. CASE ClaimInsert(c)
    BY <1>2 DEF ClaimInsert, Decide, GrantCase, LabelCase, Claiming, Reclaimable
  <1>3. CASE ClaimUpdate(c)
    BY <1>3 DEF ClaimUpdate, GrantCase, LabelCase, Claiming
  <1>4. CASE ClaimReread(c)
    BY <1>4 DEF ClaimReread, Decide, LabelCase, Claiming
  <1>5. CASE ClaimRetry(c)
    BY <1>5 DEF ClaimRetry, GrantCase, LabelCase, Claiming
  <1>6. QED
    BY <1>1, <1>2, <1>3, <1>4, <1>5 DEF Claim

(* No row and no call at work: the invariant holds at the start.             *)
LEMMA InitInv == Init => IInv
  BY ConstantsAssumption
  DEF Init, IInv, TypeOK, Row, RowState, RowShape, GrantedOrdinals, LatestGrantOwns,
      RunningHasWorkerOrCasualty, CompletedIsNewest, Claiming, Working

(* A step that only moves c to another label keeps the invariant when the    *)
(* label suits the row and c's attempt number.                               *)
LEMMA LabelStep ==
    ASSUME IInv, NEW c \in Call, NEW label \in {"check"} \cup Claiming \cup Working \cup Ended,
           Goto(c, label), UNCHANGED <<row, ordinal, done>>,
           label \in {"check"} \cup Claiming => ordinal[c] = 0,
           label \in Working => ordinal[c] # 0,
           label \in {"update", "recheck", "retry"} => row.state # "absent",
           label = "responded" => ordinal[c] \in done,
           Owns(c) => label \in Working \cup Dead
    PROVE  IInv'
  <1> USE DEF IInv, TypeOK
  <1>1. pc' = [pc EXCEPT ![c] = label] /\ row' = row /\ ordinal' = ordinal /\ done' = done
    BY DEF Goto
  <1>2. TypeOK'
    BY <1>1
  <1>3. RowShape'
    BY <1>1 DEF RowShape
  <1>4. GrantedOrdinals'
    BY <1>1 DEF GrantedOrdinals
  <1>5. LatestGrantOwns'
    BY <1>1 DEF LatestGrantOwns
  <1>6. RunningHasWorkerOrCasualty'
    BY <1>1 DEF RunningHasWorkerOrCasualty, LatestGrantOwns, Owns
  <1>7. CompletedIsNewest'
    BY <1>1 DEF CompletedIsNewest
  <1>8. QED
    BY <1>2, <1>3, <1>4, <1>5, <1>6, <1>7

(* A grant opens a new attempt and gives it to c alone.                      *)
LEMMA GrantStep ==
    ASSUME IInv, NEW c \in Call, pc[c] \in Claiming, Grant(c), done' = done
    PROVE  IInv'
  <1> USE DEF IInv, TypeOK, Row
  <1>1. /\ pc' = [pc EXCEPT ![c] = "claimed"]
        /\ ordinal' = [ordinal EXCEPT ![c] = row.attempts + 1]
        /\ row' = [state |-> "running", owner |-> c, live |-> TRUE, attempts |-> row.attempts + 1]
    BY DEF Grant, Granted, Goto
  <1>2. ordinal[c] = 0 /\ row.attempts \in Nat
    BY DEF GrantedOrdinals
  <1>3. TypeOK'
    BY <1>1, <1>2 DEF RowState, Working
  <1>4. RowShape'
    BY <1>1 DEF RowShape
  <1>5. GrantedOrdinals'
    BY <1>1, <1>2 DEF GrantedOrdinals, Claiming, Working
  <1>6. LatestGrantOwns'
    BY <1>1, <1>2 DEF LatestGrantOwns
  <1>7. RunningHasWorkerOrCasualty'
    BY <1>1 DEF RunningHasWorkerOrCasualty, Working
  <1>8. CompletedIsNewest'
    <2>1. row'.state # "completed"
      BY <1>1
    <2>2. ASSUME NEW d \in Call, pc'[d] = "responded"  PROVE ordinal'[d] \in done'
      BY <1>1, <2>2 DEF CompletedIsNewest
    <2>3. QED  BY <2>1, <2>2 DEF CompletedIsNewest
  <1>9. QED
    BY <1>3, <1>4, <1>5, <1>6, <1>7, <1>8

(* A step that ends the running row of c: the row has no owner any more, and *)
(* c moves to a label that needs no attempt number or keeps the one it has.  *)
LEMMA EndStep ==
    ASSUME IInv, NEW c \in Call, Owns(c), NEW state \in {"completed", "failed"},
           NEW label \in {"responded", "undoing", "error"}, Goto(c, label),
           pc[c] \in Working,
           row' = [row EXCEPT !.state = state, !.owner = NoCall, !.live = FALSE],
           ordinal' = ordinal, done \subseteq done', done' \subseteq done \cup {ordinal[c]},
           state = "completed" \/ label = "responded" => ordinal[c] \in done'
    PROVE  IInv'
  <1> USE DEF IInv, TypeOK
  <1>1. /\ pc' = [pc EXCEPT ![c] = label]
        /\ row' \in Row
        /\ row'.state = state /\ row'.owner = NoCall /\ row'.live = FALSE
        /\ row'.attempts = row.attempts
    BY DEF Goto, Row, RowState
  <1>2. row.state = "running" /\ row.owner = c
    BY DEF Owns
  <1>3. TypeOK'
    BY <1>1 DEF Ended, Working
  <1>4. RowShape'
    BY <1>1, <1>2 DEF RowShape
  <1>5. GrantedOrdinals'
    BY <1>1 DEF GrantedOrdinals, Claiming, Working
  <1>6. LatestGrantOwns'
    BY <1>1 DEF LatestGrantOwns
  <1>7. RunningHasWorkerOrCasualty'
    BY <1>1 DEF RunningHasWorkerOrCasualty
  <1>8. CompletedIsNewest'
    <2>1. ordinal[c] = row.attempts
      BY <1>2 DEF LatestGrantOwns
    <2>2. ASSUME NEW d \in Call, pc'[d] = "responded"  PROVE ordinal'[d] \in done'
      BY <1>1, <2>2 DEF CompletedIsNewest
    <2>3. QED  BY <1>1, <2>1, <2>2 DEF CompletedIsNewest
  <1>9. QED
    BY <1>3, <1>4, <1>5, <1>6, <1>7, <1>8

(* The completion transaction, whatever becomes of its acknowledgement.      *)
LEMMA CompleteStep ==
    ASSUME IInv, NEW c \in Call, Complete(c)
    PROVE  IInv'
  <1>1. PICK label \in {"responded", "undoing", "error"} : Goto(c, label)
    BY DEF Complete
  <1>2. pc[c] \in Working /\ Owns(c) /\ ordinal' = ordinal /\ done' = done \cup {ordinal[c]}
    BY DEF Complete, Working
  <1>3. row' = [row EXCEPT !.state = "completed", !.owner = NoCall, !.live = FALSE]
    BY DEF Complete, CompletedRow
  <1>4. QED
    BY <1>1, <1>2, <1>3, EndStep

(* fail(), which writes the row of its owner only.                           *)
LEMMA FailStep ==
    ASSUME IInv, NEW c \in Call, Fail(c)
    PROVE  IInv'
  <1>1. pc[c] \in Working /\ Goto(c, "error") /\ UNCHANGED <<ordinal, done>>
    BY DEF Fail, Working
  <1>2. CASE Owns(c)
    <2>1. row' = [row EXCEPT !.state = "failed", !.owner = NoCall, !.live = FALSE]
      BY <1>2 DEF Fail, FailedRow
    <2>2. QED  BY <1>1, <1>2, <2>1, EndStep
  <1>3. CASE ~Owns(c)
    BY <1>1, <1>3, LabelStep DEF Fail, Claiming, Working, Ended
  <1>4. QED
    BY <1>2, <1>3

(* Every action keeps the invariant.                                         *)
LEMMA StepInv ==
    ASSUME IInv, [Next]_vars
    PROVE  IInv'
  <1> USE ConstantsAssumption
  <1>1. ASSUME NEW c \in Call, Claim(c)  PROVE IInv'
    <2>1. CASE GrantCase(c)
      BY <1>1, <2>1, ClaimSteps, GrantStep DEF GrantCase, Claiming
    <2>2. CASE LabelCase(c)
      <3>1. pc[c] \in {"check"} \cup Claiming /\ ordinal[c] = 0 /\ done' = done
        BY <1>1, ClaimSteps DEF IInv, GrantedOrdinals
      <3>2. ~Owns(c)
        BY <3>1 DEF IInv, TypeOK, RunningHasWorkerOrCasualty, Owns, Claiming, Working, Dead
      <3>3. PICK label \in {"insert", "update", "recheck", "retry", "replayed", "exhausted", "conflict"} :
               /\ Goto(c, label)
               /\ label \in {"update", "recheck", "retry"} => row.state # "absent"
        BY <2>2 DEF LabelCase, IInv, RowShape
      <3>4. QED
        BY <2>2, <3>1, <3>2, <3>3, LabelStep DEF LabelCase, Claiming, Working, Ended, Dead
    <2>3. QED  BY <1>1, <2>1, <2>2, ClaimSteps
  <1>2. ASSUME NEW c \in Call, StartReview(c) \/ Abort(c) \/ ReviewReturns(c) \/ ReviewRaises(c)
        PROVE  IInv'
    <2>1. PICK label \in {"reviewing", "aborted", "completing", "failing"} :
             Goto(c, label) /\ UNCHANGED <<row, ordinal, done>>
      BY <1>2 DEF StartReview, Abort, ReviewReturns, ReviewRaises
    <2>2. ordinal[c] # 0
      BY <1>2 DEF StartReview, Abort, ReviewReturns, ReviewRaises, IInv, GrantedOrdinals, Working
    <2>3. QED
      BY <2>1, <2>2, LabelStep DEF Claiming, Working, Ended, Dead
  <1>3. ASSUME NEW c \in Call, Complete(c)  PROVE IInv'
    BY <1>3, CompleteStep
  <1>4. ASSUME NEW c \in Call, CompleteRejected(c) \/ CompleteRaises(c)  PROVE IInv'
    <2>1. PICK label \in {"conflict", "undoing"} :
             /\ Goto(c, label)
             /\ UNCHANGED <<row, ordinal, done>>
             /\ label = "conflict" => ~Owns(c)
      BY <1>4 DEF CompleteRejected, CompleteRaises
    <2>2. ordinal[c] # 0
      BY <1>4 DEF CompleteRejected, CompleteRaises, IInv, GrantedOrdinals, Working
    <2>3. QED
      BY <2>1, <2>2, LabelStep DEF Claiming, Working, Ended, Dead
  <1>5. ASSUME NEW c \in Call, Fail(c)  PROVE IInv'
    BY <1>5, FailStep
  <1>6. ASSUME NEW c \in Call, Renew(c)  PROVE IInv'
    BY <1>6 DEF Renew, IInv, TypeOK, Row, RowState, RowShape, GrantedOrdinals,
                LatestGrantOwns, RunningHasWorkerOrCasualty, CompletedIsNewest, Owns
  <1>7. ASSUME NEW c \in Call, Crash(c)  PROVE IInv'
    BY <1>7, LabelStep DEF Crash, Claiming, Working, Ended, Dead
  <1>8. CASE Expire
    BY <1>8 DEF Expire, IInv, TypeOK, Row, RowState, RowShape, GrantedOrdinals,
                LatestGrantOwns, RunningHasWorkerOrCasualty, CompletedIsNewest
  <1>9. CASE UNCHANGED vars
    BY <1>9 DEF vars, IInv, TypeOK, RowShape, GrantedOrdinals,
                LatestGrantOwns, RunningHasWorkerOrCasualty, CompletedIsNewest
  <1>10. QED
    BY <1>1, <1>2, <1>3, <1>4, <1>5, <1>6, <1>7, <1>8, <1>9 DEF Next, Step, Conclude

(* IInv is an invariant of the specification.                                *)
LEMMA Invariance == Spec => []IInv
  BY InitInv, StepInv, PTL DEF Spec

(* The row and the calls keep their shape.                                   *)
THEOREM TypeCorrect == Spec => []TypeOK
  BY Invariance, PTL DEF IInv

(* Attempt numbers fence the calls of plaidnox_scm/attempts.py: the owner of *)
(* a running row is always the call given the newest attempt_count.          *)
THEOREM OwnerIsNewest == Spec => []LatestGrantOwns
  BY Invariance, PTL DEF IInv

(* ReviewService.run leaves no row running behind an answered call.          *)
THEOREM NoAnsweredOwner == Spec => []RunningHasWorkerOrCasualty
  BY Invariance, PTL DEF IInv

(* A replayed review is the outcome of the newest attempt.                   *)
THEOREM ReplayIsNewest == Spec => []CompletedIsNewest
  BY Invariance, PTL DEF IInv

--------------------------------------------------------------------------------
(* Which actions touch the row, and how: the cases both step properties need.*)
LEMMA RowChanges ==
    ASSUME IInv, [Next]_vars
    PROVE  \/ UNCHANGED <<row, done>>
           \/ \E c \in Call : GrantCase(c) /\ done' = done
           \/ \E c \in Call : Complete(c)
           \/ \E c \in Call : Fail(c) /\ Owns(c)
           \/ /\ done' = done
              /\ \E bit \in BOOLEAN : row' = [row EXCEPT !.live = bit]
  <1>1. ASSUME NEW c \in Call, Claim(c)
        PROVE  UNCHANGED <<row, done>> \/ (GrantCase(c) /\ done' = done)
    BY <1>1, ClaimSteps DEF LabelCase
  <1>2. ASSUME NEW c \in Call,
               \/ StartReview(c) \/ Abort(c) \/ ReviewReturns(c) \/ ReviewRaises(c)
               \/ CompleteRejected(c) \/ CompleteRaises(c) \/ Crash(c)
        PROVE  UNCHANGED <<row, done>>
    BY <1>2 DEF StartReview, Abort, ReviewReturns, ReviewRaises,
                CompleteRejected, CompleteRaises, Crash
  <1>3. ASSUME NEW c \in Call, Fail(c)
        PROVE  UNCHANGED <<row, done>> \/ (Fail(c) /\ Owns(c))
    BY <1>3 DEF Fail
  <1>4. ASSUME NEW c \in Call, Renew(c)
        PROVE  done' = done /\ row' = [row EXCEPT !.live = TRUE]
    BY <1>4 DEF Renew
  <1>5. CASE Expire
    BY <1>5 DEF Expire
  <1>6. CASE UNCHANGED vars
    BY <1>6 DEF vars
  <1>7. QED
    BY <1>1, <1>2, <1>3, <1>4, <1>5, <1>6 DEF Next, Step, Conclude

(* An unexpired lease is ended only by its holder's own step: a stale fail() *)
(* or complete() of another call, and a reclaim, leave it alone.             *)
THEOREM LeaseSafe == Spec => LeaseEndsByOwner
  <1>1. ASSUME IInv, [Next]_vars, NEW c \in Call, Owns(c), row.live, ~Owns(c)'
        PROVE  pc'[c] # pc[c]
    <2>1. CASE UNCHANGED <<row, done>>
      BY <1>1, <2>1 DEF Owns
    <2>2. CASE \E d \in Call : GrantCase(d) /\ done' = done
      BY <1>1, <2>2 DEF GrantCase, Reclaimable, Owns
    <2>3. CASE \E d \in Call : Complete(d)
      BY <1>1, <2>3 DEF Complete, Owns, Goto, IInv, TypeOK
    <2>4. CASE \E d \in Call : Fail(d) /\ Owns(d)
      BY <1>1, <2>4 DEF Fail, Owns, Goto, IInv, TypeOK
    <2>5. CASE \E bit \in BOOLEAN : row' = [row EXCEPT !.live = bit]
      BY <1>1, <2>5 DEF Owns, IInv, TypeOK, Row
    <2>6. QED
      BY <1>1, <2>1, <2>2, <2>3, <2>4, <2>5, RowChanges
  <1>2. IInv /\ [Next]_vars =>
           [\A c \in Call : Owns(c) /\ row.live /\ ~Owns(c)' => pc'[c] # pc[c]]_vars
    BY <1>1
  <1>3. QED
    BY <1>2, Invariance, PTL DEF Spec, LeaseEndsByOwner

(* The row implements the fenced lease: one epoch per grant, published at    *)
(* most once, by its holder, while it is the newest.                         *)
THEOREM Refinement == Spec => ImplementsFencedLease
  <1>1. Init => Fenced!Init
    BY DEF Init, Fenced!Init
  <1>2. ASSUME IInv, [Next]_vars  PROVE [Fenced!Next]_Fenced!vars
    <2>1. CASE UNCHANGED <<row, done>>
      BY <2>1 DEF Fenced!vars
    <2>2. ASSUME NEW c \in Call, GrantCase(c), done' = done  PROVE Fenced!Grant(c)
      BY <2>2 DEF GrantCase, Grant, Granted, Fenced!Grant
    <2>3. ASSUME NEW c \in Call, Complete(c)  PROVE Fenced!Publish
      <3>1. row.owner = c /\ ordinal[c] = row.attempts
        BY <1>2, <2>3 DEF Complete, Owns, IInv, LatestGrantOwns
      <3>2. row'.owner = NoCall /\ row'.attempts = row.attempts /\ done' = done \cup {ordinal[c]}
        BY <1>2, <2>3 DEF Complete, CompletedRow, IInv, TypeOK, Row
      <3>3. QED  BY <3>1, <3>2 DEF Fenced!Publish
    <2>4. ASSUME NEW c \in Call, Fail(c), Owns(c)  PROVE Fenced!Revoke
      BY <1>2, <2>4 DEF Fail, FailedRow, IInv, TypeOK, Row, Fenced!Revoke
    <2>5. CASE done' = done /\ \E bit \in BOOLEAN : row' = [row EXCEPT !.live = bit]
      BY <1>2, <2>5 DEF IInv, TypeOK, Row, Fenced!vars
    <2>6. QED
      BY <1>2, <2>1, <2>2, <2>3, <2>4, <2>5, RowChanges DEF Fenced!Next
  <1>3. QED
    BY <1>1, <1>2, Invariance, PTL DEF Spec, ImplementsFencedLease, Fenced!Spec

--------------------------------------------------------------------------------
(* The bound on attempts.  Every call that has read a counter below the limit*)
(* and not yet written may add one, so the counter and the pending calls are *)
(* bounded together.                                                         *)
CountInv ==
    /\ Cardinality(Busy) <= InFlight
    /\ row.attempts + Cardinality(Pending) < MaxAttempts + InFlight

(* Sets of calls are finite, so they can be counted.                         *)
LEMMA CallSets ==
    ASSUME NEW S \in SUBSET Call
    PROVE  IsFiniteSet(S) /\ Cardinality(S) \in Nat
  BY ConstantsAssumption, FS_Subset, FS_CardinalityType

(* A set of calls is at least as large as any part of it.                    *)
LEMMA SmallerSet ==
    ASSUME NEW S \in SUBSET Call, NEW T \in SUBSET S
    PROVE  Cardinality(T) <= Cardinality(S)
  BY CallSets, FS_Subset

(* One step makes at most one call busy, so a count grows by at most one.    *)
LEMMA OneMore ==
    ASSUME NEW S \in SUBSET Call, NEW T \in SUBSET Call, NEW c \in Call, T \subseteq S \cup {c}
    PROVE  Cardinality(T) <= Cardinality(S) + 1
  <1>1. S \cup {c} \in SUBSET Call
    OBVIOUS
  <1>2. Cardinality(S \cup {c}) <= Cardinality(S) + 1
    BY <1>1, CallSets, FS_AddElement
  <1>3. Cardinality(T) <= Cardinality(S \cup {c})
    BY <1>1, SmallerSet
  <1>4. QED  BY <1>1, <1>2, <1>3, CallSets

(* A call that leaves a set makes its count smaller.                         *)
LEMMA OneLess ==
    ASSUME NEW S \in SUBSET Call, NEW c \in S, NEW T \in SUBSET (S \ {c})
    PROVE  Cardinality(T) + 1 <= Cardinality(S)
  <1>1. Cardinality(S \ {c}) = Cardinality(S) - 1
    BY CallSets, FS_RemoveElement
  <1>2. Cardinality(T) <= Cardinality(S \ {c})
    BY SmallerSet
  <1>3. QED  BY <1>1, <1>2, CallSets

(* Only a claim step can make a call busy or pending.                        *)
LEMMA OthersShrink ==
    ASSUME IInv, [Next]_vars, ~\E c \in Call : Claim(c)
    PROVE  Busy' \subseteq Busy /\ Pending' \subseteq Pending /\ row'.attempts = row.attempts
  <1> USE DEF IInv, TypeOK, Row, Busy, Pending, Claiming, Working, Goto
  <1>1. ASSUME NEW c \in Call,
               \/ StartReview(c) \/ Abort(c) \/ ReviewReturns(c) \/ ReviewRaises(c)
               \/ CompleteRejected(c) \/ CompleteRaises(c)
        PROVE  Busy' \subseteq Busy /\ Pending' \subseteq Pending /\ row'.attempts = row.attempts
    BY <1>1 DEF StartReview, Abort, ReviewReturns, ReviewRaises, CompleteRejected, CompleteRaises
  <1>2. ASSUME NEW c \in Call, Complete(c) \/ Fail(c)
        PROVE  Busy' \subseteq Busy /\ Pending' \subseteq Pending /\ row'.attempts = row.attempts
    BY <1>2 DEF Complete, CompletedRow, Fail, FailedRow
  <1>3. ASSUME NEW c \in Call, Renew(c) \/ Crash(c)
        PROVE  Busy' \subseteq Busy /\ Pending' \subseteq Pending /\ row'.attempts = row.attempts
    BY <1>3 DEF Renew, Crash
  <1>4. CASE Expire
    BY <1>4 DEF Expire
  <1>5. CASE UNCHANGED vars
    BY <1>5 DEF vars
  <1>6. QED
    BY <1>1, <1>2, <1>3, <1>4, <1>5 DEF Next, Step, Conclude

(* Every action keeps the count: a grant trades one pending call for one     *)
(* attempt, a read below the limit adds one pending call within InFlight.    *)
LEMMA CountStep ==
    ASSUME IInv, CountInv, [Next]_vars
    PROVE  CountInv'
  <1> USE ConstantsAssumption
  <1>1. /\ Busy \in SUBSET Call /\ Busy' \in SUBSET Call
        /\ Pending \in SUBSET Busy /\ Pending' \in SUBSET Busy'
        /\ row.attempts \in Nat
    BY DEF Busy, Pending, Claiming, IInv, TypeOK, Row
  <1>2. /\ Cardinality(Busy) \in Nat /\ Cardinality(Busy') \in Nat
        /\ Cardinality(Pending) \in Nat /\ Cardinality(Pending') \in Nat
    BY <1>1, CallSets
  <1>3. CASE ~\E c \in Call : Claim(c)
    BY <1>1, <1>2, <1>3, OthersShrink, SmallerSet DEF CountInv
  <1>4. ASSUME NEW c \in Call, Claim(c), GrantCase(c)  PROVE CountInv'
    <2>1. /\ pc' = [pc EXCEPT ![c] = "claimed"] /\ row'.attempts = row.attempts + 1
          /\ c \in Busy /\ DOMAIN pc = Call
      BY <1>4 DEF GrantCase, Grant, Granted, Goto, Busy, Claiming, IInv, TypeOK
    <2>2. Busy' \subseteq Busy
      BY <2>1 DEF Busy, Claiming, Working
    <2>3. Pending' \subseteq Pending \ {c}
      BY <2>1 DEF Pending
    <2>4. CASE pc[c] = "insert"
      <3>1. row.attempts = 0 /\ Pending = {}
        BY <1>4, <2>4 DEF GrantCase, IInv, RowShape, Pending
      <3>2. Cardinality(Pending') = 0
        BY <2>3, <3>1, FS_EmptySet
      <3>3. QED  BY <1>1, <1>2, <2>1, <2>2, <3>1, <3>2, SmallerSet DEF CountInv
    <2>5. CASE pc[c] # "insert"
      <3>1. c \in Pending
        BY <1>4, <2>5 DEF GrantCase, Pending
      <3>2. Cardinality(Pending') + 1 <= Cardinality(Pending)
        BY <1>1, <2>3, <3>1, OneLess
      <3>3. QED  BY <1>1, <1>2, <2>1, <2>2, <3>2, SmallerSet DEF CountInv
    <2>6. QED  BY <2>4, <2>5
  <1>5. ASSUME NEW c \in Call, Claim(c), LabelCase(c)  PROVE CountInv'
    <2>1. PICK label \in {"insert", "update", "recheck", "retry", "replayed", "exhausted", "conflict"} :
             /\ Goto(c, label)
             /\ label \in {"update", "retry"} => row.attempts < MaxAttempts
             /\ label \in Claiming /\ pc[c] = "check" => Cardinality(Busy) < InFlight
      BY <1>5 DEF LabelCase
    <2>2. /\ pc' = [pc EXCEPT ![c] = label] /\ row'.attempts = row.attempts
          /\ pc[c] \in {"check"} \cup Claiming /\ DOMAIN pc = Call
      BY <1>5, <2>1, ClaimSteps DEF LabelCase, Goto, IInv, TypeOK
    <2>3. Cardinality(Busy') <= InFlight
      <3>1. CASE pc[c] = "check" /\ label \in Claiming
        <4>1. Busy' \subseteq Busy \cup {c}
          BY <2>2 DEF Busy, Claiming, Working
        <4>2. QED  BY <1>1, <1>2, <2>1, <3>1, <4>1, OneMore
      <3>2. CASE ~(pc[c] = "check" /\ label \in Claiming)
        <4>1. Busy' \subseteq Busy
          BY <2>1, <2>2, <3>2 DEF Busy, Claiming, Working
        <4>2. QED  BY <1>1, <1>2, <4>1, SmallerSet DEF CountInv
      <3>3. QED  BY <3>1, <3>2
    <2>4. CASE label \in {"update", "retry"}
      BY <1>1, <1>2, <2>1, <2>2, <2>3, <2>4, SmallerSet DEF CountInv
    <2>5. CASE label \notin {"update", "retry"}
      <3>1. Pending' \subseteq Pending
        BY <2>2, <2>5 DEF Pending
      <3>2. QED  BY <1>1, <1>2, <2>2, <2>3, <3>1, SmallerSet DEF CountInv
    <2>6. QED  BY <2>4, <2>5
  <1>6. QED
    BY <1>3, <1>4, <1>5, ClaimSteps

(* Nothing is counted at the start.                                          *)
LEMMA CountInit == Init => CountInv
  <1> SUFFICES ASSUME Init  PROVE CountInv
    OBVIOUS
  <1>1. Busy = {} /\ Pending = {} /\ row.attempts = 0
    BY DEF Init, Busy, Pending, Claiming, Working
  <1>2. QED  BY <1>1, FS_EmptySet, ConstantsAssumption DEF CountInv

(* claim() keeps attempt_count below the limit plus the calls in flight; the *)
(* limit alone is not kept, as the run ReviewAttempts_overrun shows.         *)
THEOREM BoundedAttempts == Spec => []AttemptsBounded
  <1>1. IInv /\ CountInv => AttemptsBounded
    <2> SUFFICES ASSUME IInv, CountInv  PROVE AttemptsBounded
      OBVIOUS
    <2>1. Pending \in SUBSET Call /\ row.attempts \in Nat
      BY DEF Pending, IInv, TypeOK, Row
    <2>2. Cardinality(Pending) \in Nat
      BY <2>1, CallSets
    <2>3. QED  BY <2>1, <2>2, ConstantsAssumption DEF CountInv, AttemptsBounded
  <1>2. QED
    BY <1>1, CountInit, CountStep, Invariance, PTL DEF Spec

================================================================================
