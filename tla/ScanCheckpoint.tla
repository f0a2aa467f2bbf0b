----------------------------- MODULE ScanCheckpoint -----------------------------
(*****************************************************************************)
(* The resume store of a local scan (plaidnox_sast/checkpoint.py and the     *)
(* statements under assets/sql/checkpoint): one row per unit of work.        *)
(*                                                                           *)
(* A store is a function from units to rows.  Every operation runs under the *)
(* store's lock and commits before it returns, so each is an operator from a *)
(* store to a store.  A row's work is the pair of operation and work         *)
(* identity it was begun with, which survives a change of the prompt, and    *)
(* NoWork when the caller gives none.  Payloads are left out.                *)
(*****************************************************************************)

CONSTANT NoWork

Pending == {"running", "failed_retryable", "failed_final"}
UnitStatus == Pending \cup {"absent", "completed", "superseded"}

NoUnit == [status |-> "absent", work |-> NoWork]

StoreOf(Units, Works) ==
    [Units -> [status : UnitStatus, work : Works \cup {NoWork}]]

(* Replayable: get_record answers for completed units only.                  *)
Has(store, u) == store[u].status = "completed"

Begin(store, u, work) ==
    IF Has(store, u) THEN store
    ELSE [store EXCEPT ![u] = [status |-> "running", work |-> work]]

(* A failure is final when its error type is one that repeating the request  *)
(* cannot cure.                                                              *)
Fail(store, u, final) ==
    IF store[u].status \in {"absent", "completed"} THEN store
    ELSE [store EXCEPT ![u].status =
              IF final THEN "failed_final" ELSE "failed_retryable"]

(* The unit is completed, and with it every retryable attempt at the same    *)
(* work is settled.  Attempts that failed for good are not.                  *)
Complete(store, u) ==
    [v \in DOMAIN store |->
        IF v = u THEN [store[v] EXCEPT !.status = "completed"]
        ELSE IF /\ store[u].work # NoWork
                /\ store[v].work = store[u].work
                /\ store[v].status = "failed_retryable"
             THEN [store[v] EXCEPT !.status = "superseded"]
             ELSE store[v]]

(* A new process opens the store: a different scope empties it, and what is  *)
(* still running belongs to a process that is gone.                          *)
Reopen(store, sameScope) ==
    [v \in DOMAIN store |->
        IF ~sameScope THEN NoUnit
        ELSE IF store[v].status = "running"
             THEN [store[v] EXCEPT !.status = "failed_retryable"]
             ELSE store[v]]

(* The metric checkpoint_units_pending.                                      *)
PendingUnits(store) == {v \in DOMAIN store : store[v].status \in Pending}

================================================================================
