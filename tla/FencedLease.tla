------------------------------ MODULE FencedLease ------------------------------
(*****************************************************************************)
(* What a leased row promises, whatever table it lives in: the work is       *)
(* granted to one client at a time, every grant opens a new epoch, and an    *)
(* epoch is published at most once, by the client that holds it, while it is *)
(* the newest one.  Losing the lease (expiry, failure, an administrator) is  *)
(* a Revoke; it never publishes anything.                                    *)
(*****************************************************************************)
EXTENDS Naturals

CONSTANTS
    Client,     \* whoever can hold the lease
    NoClient    \* nobody holds it

VARIABLES
    epoch,      \* number of grants so far
    holder,     \* the client of the newest grant, while it still holds
    published   \* the epochs whose result was published

vars == <<epoch, holder, published>>

Init ==
    /\ epoch = 0
    /\ holder = NoClient
    /\ published = {}

(* A new grant opens a new epoch; it may take the lease from a client whose  *)
(* lease ran out.                                                            *)
Grant(c) ==
    /\ epoch' = epoch + 1
    /\ holder' = c
    /\ UNCHANGED published

(* The holder publishes the result of the newest epoch and gives up the      *)
(* lease in the same step.                                                   *)
Publish ==
    /\ holder \in Client
    /\ published' = published \cup {epoch}
    /\ holder' = NoClient
    /\ UNCHANGED epoch

Revoke ==
    /\ holder' = NoClient
    /\ UNCHANGED <<epoch, published>>

Next == Publish \/ Revoke \/ \E c \in Client : Grant(c)

Spec == Init /\ [][Next]_vars

================================================================================
