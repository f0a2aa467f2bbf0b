----------------------------- MODULE ResumableWork ------------------------------
(*****************************************************************************)
(* What a resume store promises to whoever pays for the work: a unit of work *)
(* whose result was recorded is never paid for again, in this process or in  *)
(* a later one, until the subject of the work changes and everything         *)
(* recorded is dropped.                                                      *)
(*****************************************************************************)
CONSTANT Unit

VARIABLES
    recorded,   \* the units whose result is on record
    paying      \* the units somebody is paying for right now

vars == <<recorded, paying>>

Init ==
    /\ recorded = {}
    /\ paying = {}

Pay(u) ==
    /\ u \notin recorded
    /\ paying' = paying \cup {u}
    /\ UNCHANGED recorded

(* The payment was in vain: an error, an unusable answer, a dead process.    *)
Stop ==
    /\ paying' \subseteq paying
    /\ UNCHANGED recorded

Record(u) ==
    /\ recorded' = recorded \cup {u}
    /\ paying' = paying \ {u}

ChangeSubject ==
    /\ recorded' = {}
    /\ paying' = {}

Next == Stop \/ ChangeSubject \/ \E u \in Unit : Pay(u) \/ Record(u)

Spec == Init /\ [][Next]_vars

================================================================================
