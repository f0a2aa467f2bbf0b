----------------------------- MODULE ReviewAttempts -----------------------------
(*****************************************************************************)
(* The durable record of one pull-request review, scm_review_attempts, and   *)
(* the POST /v1/reviews calls that compete for it.                           *)
(*                                                                           *)
(* A call claims the row (plaidnox_scm/attempts.py, claim), reviews while a  *)
(* heartbeat thread renews the lease, and then completes or fails the row    *)
(* (plaidnox_scm/api_service.py, ReviewService.run).  Every call has a fresh *)
(* lease owner (uuid4), so a call IS its owner here.                         *)
(*                                                                           *)
(* The claim is not one step.  Its SELECT and its UPDATE ... WHERE are       *)
(* separate statements of a READ COMMITTED transaction, so other calls can   *)
(* commit in between; each statement is an action.  An UPDATE and its commit *)
(* are one step, because the row lock hides the uncommitted row.             *)
(*                                                                           *)
(* Time is one bit: `live` says that lease_expires_at lies in the future.    *)
(* Expire clears it whenever no heartbeat came in time.                      *)
(*****************************************************************************)
EXTENDS Naturals, FiniteSets

CONSTANTS
    Call,           \* the deliveries of one review, each processed once
    NoCall,         \* no lease owner
    MaxAttempts,    \* review_attempt_max_attempts
    InFlight        \* how many calls the API processes at the same time

ASSUME ConstantsAssumption ==
    /\ NoCall \notin Call
    /\ IsFiniteSet(Call)
    /\ MaxAttempts \in Nat \ {0}
    /\ InFlight \in Nat \ {0}

VARIABLES
    row,        \* the scm_review_attempts row
    pc,         \* where each call is
    ordinal,    \* the attempt_count the claim returned to each call
    done        \* history: the attempts whose completion was committed

vars == <<row, pc, ordinal, done>>

--------------------------------------------------------------------------------
RowState == {"absent", "running", "completed", "failed"}

Row == [state: RowState, owner: Call \cup {NoCall}, live: BOOLEAN, attempts: Nat]

Claiming == {"insert", "update", "recheck", "retry"}
Working == {"claimed", "reviewing", "completing", "failing", "undoing"}
Dead == {"aborted", "crashed"}
Ended == {"responded", "replayed", "exhausted", "conflict", "error"} \cup Dead

Busy == {c \in Call : pc[c] \in Claiming \cup Working}

(* Calls that read attempt_count below the limit and have not yet written.   *)
Pending == {c \in Call : pc[c] \in {"update", "retry"}}

Goto(c, label) == pc' = [pc EXCEPT ![c] = label]

Init ==
    /\ row = [state |-> "absent", owner |-> NoCall, live |-> FALSE, attempts |-> 0]
    /\ pc = [c \in Call |-> "check"]
    /\ ordinal = [c \in Call |-> 0]
    /\ done = {}

--------------------------------------------------------------------------------
(* claim                                                                     *)

(* The branch taken on a row that exists: replay, give up, or try to update. *)
Decide(c, next) ==
    \/ /\ row.state = "completed"
       /\ Goto(c, "replayed")
    \/ /\ row.state # "completed"
       /\ row.attempts >= MaxAttempts
       /\ Goto(c, "exhausted")
    \/ /\ row.state # "completed"
       /\ row.attempts < MaxAttempts
       /\ Goto(c, next)

(* Mutant: the UPDATE forgets expired leases.                               *)
ReclaimableIfNotRunning == row.state # "running"

(* The WHERE clause of the reclaiming UPDATE.                                *)
Reclaimable == row.state # "running" \/ ~row.live

(* Mutant: the UPDATE keeps the owner it finds.                              *)
GrantedToOldOwner(c) ==
    [row EXCEPT !.state = "running", !.live = TRUE, !.attempts = @ + 1,
                !.owner = IF @ = NoCall THEN c ELSE @]

(* The row after c's INSERT or its winning UPDATE.                           *)
Granted(c) ==
    [state |-> "running", owner |-> c, live |-> TRUE, attempts |-> row.attempts + 1]

Grant(c) ==
    /\ row' = Granted(c)
    /\ ordinal' = [ordinal EXCEPT ![c] = row.attempts + 1]
    /\ Goto(c, "claimed")

ClaimRead(c) ==
    /\ pc[c] = "check"
    /\ Cardinality(Busy) < InFlight
    /\ IF row.state = "absent" THEN Goto(c, "insert") ELSE Decide(c, "update")
    /\ UNCHANGED <<row, ordinal, done>>

(* Losing the insert race raises IntegrityError in the savepoint; the call   *)
(* then reads the row of the winner.                                         *)
ClaimInsert(c) ==
    /\ pc[c] = "insert"
    /\ \/ /\ row.state = "absent"
          /\ Grant(c)
       \/ /\ row.state # "absent"
          /\ Decide(c, "update")
          /\ UNCHANGED <<row, ordinal>>
    /\ UNCHANGED done

ClaimUpdate(c) ==
    /\ pc[c] = "update"
    /\ \/ Reclaimable /\ Grant(c)
       \/ ~Reclaimable /\ Goto(c, "recheck") /\ UNCHANGED <<row, ordinal>>
    /\ UNCHANGED done

ClaimReread(c) ==
    /\ pc[c] = "recheck"
    /\ Decide(c, "retry")
    /\ UNCHANGED <<row, ordinal, done>>

ClaimRetry(c) ==
    /\ pc[c] = "retry"
    /\ \/ Reclaimable /\ Grant(c)
       \/ ~Reclaimable /\ Goto(c, "conflict") /\ UNCHANGED <<row, ordinal>>
    /\ UNCHANGED done

--------------------------------------------------------------------------------
(* ReviewService.run after the claim                                         *)

(* Mutant: the owner is not part of the WHERE clause.                        *)
OwnsWithoutOwner(c) == row.state = "running"

(* The WHERE clause of renew, complete and fail: none looks at the expiry.   *)
Owns(c) == row.state = "running" /\ row.owner = c

(* The prior and known findings were read; the heartbeat starts.             *)
StartReview(c) ==
    /\ pc[c] = "claimed"
    /\ Goto(c, "reviewing")
    /\ UNCHANGED <<row, ordinal, done>>

(* An exception outside the two try blocks, before the heartbeat starts or   *)
(* while the response is built after it stopped, leaves the row running.     *)
Abort(c) ==
    /\ pc[c] \in {"claimed", "completing"}
    /\ Goto(c, "aborted")
    /\ UNCHANGED <<row, ordinal, done>>

(* One beat.  The thread ignores the result of renew and dies silently on an *)
(* exception, which here is a Renew that never happens.                      *)
Renew(c) ==
    /\ pc[c] \in {"reviewing", "failing"}
    /\ Owns(c)
    /\ row' = [row EXCEPT !.live = TRUE]
    /\ UNCHANGED <<pc, ordinal, done>>

ReviewReturns(c) ==
    /\ pc[c] = "reviewing"
    /\ Goto(c, "completing")
    /\ UNCHANGED <<row, ordinal, done>>

ReviewRaises(c) ==
    /\ pc[c] = "reviewing"
    /\ Goto(c, "failing")
    /\ UNCHANGED <<row, ordinal, done>>

(* Mutant: the completed row keeps its lease owner.                          *)
CompletedRowKeepsOwner == [row EXCEPT !.state = "completed", !.live = FALSE]

CompletedRow == [row EXCEPT !.state = "completed", !.owner = NoCall, !.live = FALSE]

(* The completion transaction commits.  Its acknowledgement may still be     *)
(* lost, and then the call takes the failure path although the row is        *)
(* completed; or the activity entry written next raises.                     *)
Complete(c) ==
    /\ pc[c] = "completing"
    /\ Owns(c)
    /\ row' = CompletedRow
    /\ done' = done \cup {ordinal[c]}
    /\ Goto(c, "responded") \/ Goto(c, "undoing") \/ Goto(c, "error")
    /\ UNCHANGED ordinal

(* complete() returned False: the lease went to another call.                *)
CompleteRejected(c) ==
    /\ pc[c] = "completing"
    /\ ~Owns(c)
    /\ Goto(c, "conflict")
    /\ UNCHANGED <<row, ordinal, done>>

(* The transaction rolled back: neither completion nor statuses are written. *)
CompleteRaises(c) ==
    /\ pc[c] = "completing"
    /\ Goto(c, "undoing")
    /\ UNCHANGED <<row, ordinal, done>>

FailedRow == [row EXCEPT !.state = "failed", !.owner = NoCall, !.live = FALSE]

(* fail() is a no-op when the lease was lost; the exception is raised again. *)
Fail(c) ==
    /\ pc[c] \in {"failing", "undoing"}
    /\ row' = IF Owns(c) THEN FailedRow ELSE row
    /\ Goto(c, "error")
    /\ UNCHANGED <<ordinal, done>>

--------------------------------------------------------------------------------
(* The environment                                                           *)

(* The process of c dies, or its database does not answer any more.          *)
Crash(c) ==
    /\ pc[c] \in Claiming \cup Working
    /\ Goto(c, "crashed")
    /\ UNCHANGED <<row, ordinal, done>>

Expire ==
    /\ row.state = "running"
    /\ row.live
    /\ row' = [row EXCEPT !.live = FALSE]
    /\ UNCHANGED <<pc, ordinal, done>>

Claim(c) ==
    \/ ClaimRead(c)
    \/ ClaimInsert(c)
    \/ ClaimUpdate(c)
    \/ ClaimReread(c)
    \/ ClaimRetry(c)

Conclude(c) ==
    \/ Complete(c)
    \/ CompleteRejected(c)
    \/ CompleteRaises(c)
    \/ Fail(c)

Step(c) ==
    \/ Claim(c)
    \/ StartReview(c)
    \/ Abort(c)
    \/ ReviewReturns(c)
    \/ ReviewRaises(c)
    \/ Conclude(c)

Next ==
    \/ \E c \in Call : Step(c) \/ Renew(c) \/ Crash(c)
    \/ Expire

Spec == Init /\ [][Next]_vars

(* A call that is not killed keeps executing, and the scan it runs returns or*)
(* raises.  Neither a heartbeat nor a crash is promised.                     *)
FairSpec == Spec /\ \A c \in Call : WF_vars(Step(c))

--------------------------------------------------------------------------------
(* Properties                                                                *)

(* Shape of the row and of the calls' local state.                           *)
TypeOK ==
    /\ row \in Row
    /\ pc \in [Call -> {"check"} \cup Claiming \cup Working \cup Ended]
    /\ ordinal \in [Call -> Nat]
    /\ done \subseteq Nat

(* Attempt numbers fence the calls: the owner of a running row is the call   *)
(* that was given the newest attempt, no two calls were given the same one,  *)
(* and no call holds a number the row has not reached.                       *)
LatestGrantOwns ==
    /\ row.state = "running" => /\ row.owner \in Call
                                /\ ordinal[row.owner] = row.attempts
    /\ \A c \in Call : ordinal[c] <= row.attempts
    /\ \A c, d \in Call : ordinal[c] = ordinal[d] /\ ordinal[c] # 0 => c = d

(* A row is left running only by a call that still works on it, that died,   *)
(* or that raised outside the try blocks; never by a call that answered or   *)
(* recorded its failure.                                                     *)
RunningHasWorkerOrCasualty ==
    row.state = "running" => pc[row.owner] \in Working \cup Dead

(* What a completed row replays is the outcome of the newest attempt, and    *)
(* every fresh answer a caller received was committed under its own attempt. *)
CompletedIsNewest ==
    /\ row.state = "completed" => row.attempts \in done
    /\ \A c \in Call : pc[c] = "responded" => ordinal[c] \in done

(* The limit on attempts as the code keeps it: every call that read the      *)
(* counter before the last one wrote it can exceed the limit by one, so the  *)
(* excess is bounded by the calls in flight.                                 *)
AttemptsBounded == row.attempts < MaxAttempts + InFlight

(* An unexpired lease is ended only by a step of the call that holds it.     *)
LeaseEndsByOwner ==
    [][\A c \in Call : Owns(c) /\ row.live /\ ~Owns(c)' => pc'[c] # pc[c]]_vars

(* Attempts are granted one at a time, and only the newest one is published: *)
(* the row implements a fenced lease.                                        *)
Fenced == INSTANCE FencedLease WITH
    Client <- Call,
    NoClient <- NoCall,
    epoch <- row.attempts,
    holder <- row.owner,
    published <- done

ImplementsFencedLease == Fenced!Spec

(* A worker that died does not block the review: with attempts left, a       *)
(* delivery that arrives after the lease ran out moves the row on, unless it *)
(* is killed itself.                                                         *)
Orphaned == row.state = "running" /\ ~row.live /\ pc[row.owner] \in Dead

OrphanReclaimed ==
    \A c \in Call :
        Orphaned /\ row.attempts < MaxAttempts /\ pc[c] = "check"
            ~> ~Orphaned \/ pc[c] = "crashed"

================================================================================
