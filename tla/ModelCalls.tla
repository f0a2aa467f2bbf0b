------------------------------- MODULE ModelCalls -------------------------------
(*****************************************************************************)
(* The model calls of a scan: PlaidNoxDeepHuntAgent._structured_response,    *)
(* run by the worker threads of a scan process, between the resume store     *)
(* (checkpoint.py) and the usage budget of the process (controls.py).        *)
(*                                                                           *)
(* A call is its checkpoint key, the hash of the rendered prompts.  Each     *)
(* operation of the store and of the budget holds a lock and is one action;  *)
(* other threads, and a crash, come in between.                              *)
(*                                                                           *)
(* Processes share the store file.  The worker (worker.py) passes the same   *)
(* output directory to every attempt at a job and does not stop the scanner  *)
(* of a lost lease, so two attempts may run at once: MaxLive says how many.  *)
(*                                                                           *)
(* The character and output-token limits of the budget are counted and       *)
(* tested like the call limit, which stands for them.                        *)
(*****************************************************************************)
EXTENDS Naturals, FiniteSets

CONSTANTS
    Process,        \* attempts at one scan, each run at most MaxStarts times
    Slot,           \* the worker threads of a process
    Call,           \* prompts
    NoCall,
    Work,           \* work identities; several prompts may be about one
    NoWork,
    WorkOf,         \* _checkpoint_work_identity of each prompt
    Price,          \* what one answer may cost
    MaxCalls,       \* maximum_calls_per_scan
    MaxInflight,    \* maximum_inflight_calls
    MaxCost,        \* maximum_cost_usd_per_scan
    ShapeRetries,   \* structured_shape_retries
    OutputRetries,  \* output_truncation_retry_by_operation
    MaxLive,        \* bound: processes running at the same time
    MaxStarts       \* bound: starts of each process

Thread == Process \X Slot

ASSUME ConstantsAssumption ==
    /\ IsFiniteSet(Process) /\ IsFiniteSet(Slot)
    /\ NoCall \notin Call
    /\ NoWork \notin Work
    /\ WorkOf \in [Call -> Work \cup {NoWork}]
    /\ Price \subseteq Nat
    /\ {MaxCalls, MaxInflight, MaxCost, ShapeRetries, OutputRetries} \subseteq Nat
    /\ {MaxLive, MaxStarts} \subseteq Nat

VARIABLES
    store,      \* the checkpoint units of the stage llm_response
    up,         \* the processes that are running
    starts,     \* how often each process was started
    budget,     \* the ModelUsageBudget of each process
    pc,         \* where each thread is
    call,       \* the prompt each thread works on
    retries,    \* shape and output retries each thread has used for it
    asked,      \* the prompts each process has asked for
    delivered   \* history: the prompts whose answer a scan of this scope used

vars == <<store, up, starts, budget, pc, call, retries, asked, delivered>>

Store == INSTANCE ScanCheckpoint

--------------------------------------------------------------------------------
Settling == {"settle", "retryable", "final", "truncated", "rebegin", "misshapen"}
Active == {"begin", "reserve", "calling"} \cup Settling

NoBudget == [calls |-> 0, inflight |-> 0, cost |-> 0]
NoRetries == [shape |-> 0, output |-> 0]

Goto(t, label) == pc' = [pc EXCEPT ![t] = label]
Leave(t) ==
    /\ Goto(t, "idle")
    /\ call' = [call EXCEPT ![t] = NoCall]

Init ==
    /\ store = [u \in Call |-> Store!NoUnit]
    /\ up = {}
    /\ starts = [p \in Process |-> 0]
    /\ budget = [p \in Process |-> NoBudget]
    /\ pc = [t \in Thread |-> "idle"]
    /\ call = [t \in Thread |-> NoCall]
    /\ retries = [t \in Thread |-> NoRetries]
    /\ asked = [p \in Process |-> {}]
    /\ delivered = {}

--------------------------------------------------------------------------------
(* The process: scan_snapshot opens the store, then resets the budget.       *)

Start(p, sameScope) ==
    /\ p \notin up
    /\ Cardinality(up) < MaxLive
    /\ starts[p] < MaxStarts
    /\ starts' = [starts EXCEPT ![p] = @ + 1]
    /\ up' = up \cup {p}
    /\ store' = Store!Reopen(store, sameScope)
    /\ budget' = [budget EXCEPT ![p] = NoBudget]
    /\ asked' = [asked EXCEPT ![p] = {}]
    /\ delivered' = IF sameScope THEN delivered ELSE {}
    /\ UNCHANGED <<pc, call, retries>>

(* The process ends, or dies with all its threads.                           *)
Stop(p) ==
    /\ p \in up
    /\ up' = up \ {p}
    /\ pc' = [t \in Thread |-> IF t[1] = p THEN "idle" ELSE pc[t]]
    /\ call' = [t \in Thread |-> IF t[1] = p THEN NoCall ELSE call[t]]
    /\ retries' = [t \in Thread |-> IF t[1] = p THEN NoRetries ELSE retries[t]]
    /\ UNCHANGED <<store, starts, budget, asked, delivered>>

--------------------------------------------------------------------------------
(* _structured_response up to the request                                    *)

(* Mutant: every call goes to the provider.                                  *)
NeverReplayed(u) == FALSE

Replayed(u) == Store!Has(store, u)

(* get_record: a completed call is answered from the store.  A process asks  *)
(* each prompt once; two of its threads never ask the same one at a time.    *)
Request(t, u) ==
    /\ t[1] \in up
    /\ pc[t] = "idle"
    /\ u \notin asked[t[1]]
    /\ asked' = [asked EXCEPT ![t[1]] = @ \cup {u}]
    /\ IF Replayed(u)
       THEN /\ delivered' = delivered \cup {u}
            /\ UNCHANGED <<pc, call, retries>>
       ELSE /\ Goto(t, "begin")
            /\ call' = [call EXCEPT ![t] = u]
            /\ retries' = [retries EXCEPT ![t] = NoRetries]
            /\ UNCHANGED delivered
    /\ UNCHANGED <<store, up, starts, budget>>

(* begin, before the first request and before a retry with a larger output.  *)
BeginUnit(t) ==
    /\ pc[t] \in {"begin", "rebegin"}
    /\ store' = Store!Begin(store, call[t], WorkOf[call[t]])
    /\ Goto(t, "reserve")
    /\ UNCHANGED <<up, starts, budget, call, retries, asked, delivered>>

(* The checks of reserve.  The cost is not among them.                       *)
Fits(b) == b.calls < MaxCalls /\ b.inflight < MaxInflight

Reserved(b) == [calls |-> b.calls + 1, inflight |-> b.inflight + 1, cost |-> b.cost]

Reserve(t) ==
    /\ pc[t] = "reserve"
    /\ Fits(budget[t[1]])
    /\ budget' = [budget EXCEPT ![t[1]] = Reserved(@)]
    /\ Goto(t, "calling")
    /\ UNCHANGED <<store, up, starts, call, retries, asked, delivered>>

(* ModelBudgetExceeded: raised outside the try block, the unit stays running.*)
ReserveRefused(t) ==
    /\ pc[t] = "reserve"
    /\ ~Fits(budget[t[1]])
    /\ Leave(t)
    /\ UNCHANGED <<store, up, starts, budget, retries, asked, delivered>>

--------------------------------------------------------------------------------
(* The answer of the provider                                                *)

(* Mutant: a failed request keeps its slot.                                  *)
Kept(b) == b

(* cancel gives back the slot and nothing else.                              *)
Cancelled(b) == [b EXCEPT !.inflight = IF @ = 0 THEN 0 ELSE @ - 1]

(* The request raises, after rate-limit waits, a timeout or an interrupt.    *)
RequestRaises(t, final) ==
    /\ pc[t] = "calling"
    /\ budget' = [budget EXCEPT ![t[1]] = Cancelled(@)]
    /\ Goto(t, IF final THEN "final" ELSE "retryable")
    /\ UNCHANGED <<store, up, starts, call, retries, asked, delivered>>

OverCost(b) == b.cost > MaxCost

Charged(b, price) ==
    [Cancelled(b) EXCEPT !.cost = @ + price]

(* complete books the price first and raises afterwards, outside the try     *)
(* block: the paid answer is dropped and the unit stays running.             *)
RequestAnswered(t, price, kind) ==
    /\ pc[t] = "calling"
    /\ LET b == Charged(budget[t[1]], price) IN
       /\ budget' = [budget EXCEPT ![t[1]] = b]
       /\ IF OverCost(b)
          THEN Leave(t)
          ELSE Goto(t, kind) /\ UNCHANGED call
    /\ UNCHANGED <<store, up, starts, retries, asked, delivered>>

--------------------------------------------------------------------------------
(* What is done with the answer                                              *)

(* Mutant: the call returns before the answer is stored.                     *)
NotStored(t) == store

Stored(t) == Store!Complete(store, call[t])

(* The answer matches the schema: stored, then returned.                     *)
Settle(t) ==
    /\ pc[t] = "settle"
    /\ store' = Stored(t)
    /\ delivered' = delivered \cup {call[t]}
    /\ Leave(t)
    /\ UNCHANGED <<up, starts, budget, retries, asked>>

(* The failure is stored and the exception goes on to the caller.            *)
RecordFailure(t) ==
    /\ pc[t] \in {"retryable", "final"}
    /\ store' = Store!Fail(store, call[t], pc[t] = "final")
    /\ Leave(t)
    /\ UNCHANGED <<up, starts, budget, retries, asked, delivered>>

MayRetryOutput(t) == retries[t].output < OutputRetries

(* The output limit cut the answer off: retry with a larger one, or give up. *)
RecordTruncation(t) ==
    /\ pc[t] = "truncated"
    /\ store' = Store!Fail(store, call[t], FALSE)
    /\ IF MayRetryOutput(t)
       THEN /\ retries' = [retries EXCEPT ![t].output = @ + 1]
            /\ Goto(t, "rebegin")
            /\ UNCHANGED call
       ELSE Leave(t) /\ UNCHANGED retries
    /\ UNCHANGED <<up, starts, budget, asked, delivered>>

RetryMisshapen(t) ==
    /\ pc[t] = "misshapen"
    /\ retries[t].shape < ShapeRetries
    /\ retries' = [retries EXCEPT ![t].shape = @ + 1]
    /\ Goto(t, "reserve")
    /\ UNCHANGED <<store, up, starts, budget, call, asked, delivered>>

(* Mutant: the best answer so far is kept for the next run.                  *)
BestStored(t) == Store!Complete(store, call[t])

GivenUp(t) == Store!Fail(store, call[t], FALSE)

(* Out of retries: the caller gets an answer it will reject.                 *)
GiveUpMisshapen(t) ==
    /\ pc[t] = "misshapen"
    /\ retries[t].shape = ShapeRetries
    /\ store' = GivenUp(t)
    /\ Leave(t)
    /\ UNCHANGED <<up, starts, budget, retries, asked, delivered>>

(* SQLite refuses the first statement of the write: CheckpointError, and the *)
(* row stays as it was.                                                      *)
StoreRaises(t) ==
    /\ pc[t] \in {"begin"} \cup Settling
    /\ pc[t] = "misshapen" => retries[t].shape = ShapeRetries
    /\ Leave(t)
    /\ UNCHANGED <<store, up, starts, budget, retries, asked, delivered>>

--------------------------------------------------------------------------------
Step(t) ==
    \/ BeginUnit(t)
    \/ Reserve(t)
    \/ ReserveRefused(t)
    \/ \E final \in BOOLEAN : RequestRaises(t, final)
    \/ \E price \in Price, kind \in {"settle", "truncated", "misshapen", "retryable"} :
           RequestAnswered(t, price, kind)
    \/ Settle(t)
    \/ RecordFailure(t)
    \/ RecordTruncation(t)
    \/ RetryMisshapen(t)
    \/ GiveUpMisshapen(t)
    \/ StoreRaises(t)

Next ==
    \/ \E p \in Process : Stop(p) \/ \E sameScope \in BOOLEAN : Start(p, sameScope)
    \/ \E t \in Thread : Step(t) \/ \E u \in Call : Request(t, u)

Spec == Init /\ [][Next]_vars

--------------------------------------------------------------------------------
(* Properties                                                                *)

TypeOK ==
    /\ store \in Store!StoreOf(Call, Work)
    /\ up \subseteq Process
    /\ starts \in [Process -> 0..MaxStarts]
    /\ budget \in [Process -> [calls : Nat, inflight : Nat, cost : Nat]]
    /\ pc \in [Thread -> {"idle"} \cup Active]
    /\ call \in [Thread -> Call \cup {NoCall}]
    /\ retries \in [Thread -> [shape : 0..ShapeRetries, output : 0..OutputRetries]]
    /\ asked \in [Process -> SUBSET Call]
    /\ delivered \subseteq Call

(* Every way out of a request gives its slot back exactly once: the slots    *)
(* counted are the requests under way, and never more than the limit.        *)
Requesting(p) == {s \in Slot : pc[<<p, s>>] = "calling"}

SlotsMatchRequests ==
    \A p \in up : /\ budget[p].inflight = Cardinality(Requesting(p))
                  /\ budget[p].inflight <= MaxInflight
                  /\ budget[p].calls <= MaxCalls

(* A result that some run of this scope used is on record, so a later run    *)
(* replays it.                                                               *)
DeliveredIsRecorded == \A u \in delivered : Store!Has(store, u)

(* An attempt is written off only when the same work was completed under     *)
(* another prompt: no pending work disappears from the resume metrics.       *)
SupersededHasSuccessor ==
    \A u \in Call : store[u].status = "superseded" =>
        \E v \in Call : /\ Store!Has(store, v)
                        /\ store[v].work = store[u].work

(* A failed or unfinished unit never turns into a replayable one except by   *)
(* an accepted answer; in particular not by a restart.                       *)
OnlyAnswersComplete ==
    [][\A u \in Call : ~Store!Has(store, u) /\ Store!Has(store, u)' =>
          \E t \in Thread : pc[t] = "settle" /\ call[t] = u]_vars

(* With one process at a time the store keeps its promise: what was recorded *)
(* is never requested again in its scope (docs/CODE_SCANNING_OPERATIONS.md:  *)
(* "completed calls ... are replayed without provider requests").            *)
Resumable == INSTANCE ResumableWork WITH
    Unit <- Call,
    recorded <- {u \in Call : Store!Has(store, u)},
    paying <- {call[t] : t \in {s \in Thread : pc[s] = "calling"}}

ImplementsResumableWork == Resumable!Spec

================================================================================
