---------------------------- MODULE ModelCallsProofs ----------------------------
(*****************************************************************************)
(* Theorems about ModelCalls, for any number of processes, threads, prompts  *)
(* and starts, and any limits and prices.                                    *)
(*****************************************************************************)
EXTENDS ModelCalls, FiniteSetTheorems, TLAPS

(* A thread at work belongs to a running process, which asked its prompt.    *)
ActiveCalls ==
    \A t \in Thread : pc[t] # "idle" =>
        t[1] \in up /\ call[t] \in Call /\ call[t] \in asked[t[1]]

(* No two threads of a process work on the same prompt.                      *)
OwnPrompts ==
    \A s, t \in Thread :
        pc[s] # "idle" /\ pc[t] # "idle" /\ s[1] = t[1] /\ call[s] = call[t] => s = t

LiveBounded == IsFiniteSet(up) /\ Cardinality(up) <= MaxLive

IInv ==
    /\ TypeOK
    /\ ActiveCalls
    /\ OwnPrompts
    /\ LiveBounded
    /\ SlotsMatchRequests
    /\ DeliveredIsRecorded
    /\ SupersededHasSuccessor

(* What a thread works on is not on record: as long as one process runs.     *)
Unrecorded ==
    \A t \in Thread : pc[t] # "idle" => ~Store!Has(store, call[t])

--------------------------------------------------------------------------------
(* The store                                                                 *)

(* Every operation of the store returns a store.                             *)
LEMMA StoreType ==
    ASSUME NEW st \in Store!StoreOf(Call, Work), NEW u \in Call,
           NEW work \in Work \cup {NoWork}, NEW b \in BOOLEAN
    PROVE  /\ Store!Begin(st, u, work) \in Store!StoreOf(Call, Work)
           /\ Store!Fail(st, u, b) \in Store!StoreOf(Call, Work)
           /\ Store!Complete(st, u) \in Store!StoreOf(Call, Work)
           /\ Store!Reopen(st, b) \in Store!StoreOf(Call, Work)
  <1> USE DEF Store!StoreOf, Store!UnitStatus, Store!Pending, Store!NoUnit
  <1>1. Store!Begin(st, u, work) \in Store!StoreOf(Call, Work)
    BY DEF Store!Begin
  <1>2. Store!Fail(st, u, b) \in Store!StoreOf(Call, Work)
    BY DEF Store!Fail
  <1>3. Store!Complete(st, u) \in Store!StoreOf(Call, Work)
    BY DEF Store!Complete
  <1>4. Store!Reopen(st, b) \in Store!StoreOf(Call, Work)
    BY DEF Store!Reopen
  <1>5. QED
    BY <1>1, <1>2, <1>3, <1>4

(* What is on record stays on record, with its work, under every operation   *)
(* but a change of the scope; and only complete puts something on record.    *)
LEMMA RecordsKept ==
    ASSUME NEW st \in Store!StoreOf(Call, Work), NEW u \in Call,
           NEW work \in Work \cup {NoWork}, NEW b \in BOOLEAN, NEW v \in Call
    PROVE  /\ Store!Has(Store!Begin(st, u, work), v) <=> Store!Has(st, v)
           /\ Store!Has(Store!Fail(st, u, b), v) <=> Store!Has(st, v)
           /\ Store!Has(Store!Complete(st, u), v) <=> Store!Has(st, v) \/ v = u
           /\ Store!Has(Store!Reopen(st, TRUE), v) <=> Store!Has(st, v)
           /\ ~Store!Has(Store!Reopen(st, FALSE), v)
  <1> USE DEF Store!StoreOf, Store!UnitStatus, Store!Pending, Store!NoUnit, Store!Has
  <1>1. Store!Has(Store!Begin(st, u, work), v) <=> Store!Has(st, v)
    BY DEF Store!Begin
  <1>2. Store!Has(Store!Fail(st, u, b), v) <=> Store!Has(st, v)
    BY DEF Store!Fail
  <1>3. Store!Has(Store!Complete(st, u), v) <=> Store!Has(st, v) \/ v = u
    BY DEF Store!Complete
  <1>4. /\ Store!Has(Store!Reopen(st, TRUE), v) <=> Store!Has(st, v)
        /\ ~Store!Has(Store!Reopen(st, FALSE), v)
    BY DEF Store!Reopen
  <1>5. QED
    BY <1>1, <1>2, <1>3, <1>4

(* SupersededHasSuccessor, of any store.                                     *)
Settled(st) ==
    \A u \in Call : st[u].status = "superseded" =>
        \E v \in Call : Store!Has(st, v) /\ st[v].work = st[u].work

(* Every operation of the store leaves superseded attempts a successor.      *)
LEMMA SettledKept ==
    ASSUME NEW st \in Store!StoreOf(Call, Work), Settled(st), NEW u \in Call,
           NEW work \in Work \cup {NoWork}, NEW b \in BOOLEAN
    PROVE  /\ Settled(Store!Begin(st, u, work))
           /\ Settled(Store!Fail(st, u, b))
           /\ Settled(Store!Complete(st, u))
           /\ Settled(Store!Reopen(st, b))
  <1> USE DEF Store!StoreOf, Store!UnitStatus, Store!Pending, Store!NoUnit, Store!Has, Settled
  <1>1. Settled(Store!Begin(st, u, work))
    BY DEF Store!Begin
  <1>2. Settled(Store!Fail(st, u, b))
    BY DEF Store!Fail
  <1>3. Settled(Store!Complete(st, u))
    <2> DEFINE after == Store!Complete(st, u)
    <2>1. SUFFICES ASSUME NEW x \in Call, after[x].status = "superseded"
                   PROVE  \E v \in Call : Store!Has(after, v) /\ after[v].work = after[x].work
      BY DEF Settled
    <2>2. \A v \in Call : after[v].work = st[v].work
      BY DEF Store!Complete
    <2>3. \A v \in Call : Store!Has(st, v) \/ v = u => Store!Has(after, v)
      BY DEF Store!Complete
    <2>4. CASE st[x].status = "superseded"
      BY <2>2, <2>3, <2>4
    <2>5. CASE st[x].status # "superseded"
      <3>1. st[u].work = st[x].work
        BY <2>1, <2>5 DEF Store!Complete
      <3>2. QED  BY <3>1, <2>2, <2>3
    <2>6. QED  BY <2>4, <2>5
  <1>4. Settled(Store!Reopen(st, b))
    <2>1. CASE b
      BY <2>1 DEF Store!Reopen
    <2>2. CASE ~b
      BY <2>2 DEF Store!Reopen
    <2>3. QED  BY <2>1, <2>2
  <1>5. QED
    BY <1>1, <1>2, <1>3, <1>4

--------------------------------------------------------------------------------
(* What the step of a thread may do                                          *)

Budgets == [calls : Nat, inflight : Nat, cost : Nat]

(* The thread moves to a label, or leaves and works on nothing.              *)
MovesTo(t, label) ==
    /\ label \in {"idle"} \cup Active
    /\ pc' = [pc EXCEPT ![t] = label]
    /\ call' = IF label = "idle" THEN [call EXCEPT ![t] = NoCall] ELSE call

(* One operation of the store, about the prompt of the thread.               *)
UsesStore(t) ==
    \/ store' = store /\ delivered' = delivered
    \/ store' = Store!Begin(store, call[t], WorkOf[call[t]]) /\ delivered' = delivered
    \/ \E final \in BOOLEAN :
          store' = Store!Fail(store, call[t], final) /\ delivered' = delivered
    \/ /\ pc[t] = "settle"
       /\ pc'[t] = "idle"
       /\ store' = Store!Complete(store, call[t])
       /\ delivered' = delivered \cup {call[t]}

(* A slot is taken on the way to the request and given back on the way out.  *)
UsesBudget(t, label) ==
    \/ pc[t] # "calling" /\ label # "calling" /\ budget' = budget
    \/ \E b \in Budgets :
          /\ budget' = [budget EXCEPT ![t[1]] = b]
          /\ \/ /\ pc[t] # "calling" /\ label = "calling"
                /\ Fits(budget[t[1]])
                /\ b.calls = budget[t[1]].calls + 1
                /\ b.inflight = budget[t[1]].inflight + 1
             \/ /\ pc[t] = "calling" /\ label # "calling"
                /\ b.calls = budget[t[1]].calls
                /\ b.inflight = IF budget[t[1]].inflight = 0 THEN 0
                                 ELSE budget[t[1]].inflight - 1

StepEffect(t) ==
    /\ pc[t] # "idle"
    /\ UNCHANGED <<up, starts, asked>>
    /\ \E label \in {"idle"} \cup Active : MovesTo(t, label) /\ UsesBudget(t, label)
    /\ UsesStore(t)
    /\ retries' \in [Thread -> [shape : 0..ShapeRetries, output : 0..OutputRetries]]

(* What the operations of a budget do to its counters.                       *)
LEMMA BudgetOperations ==
    ASSUME NEW b \in Budgets, NEW price \in Nat
    PROVE  /\ Reserved(b) \in Budgets
           /\ Reserved(b).calls = b.calls + 1
           /\ Reserved(b).inflight = b.inflight + 1
           /\ \A c \in {Cancelled(b), Charged(b, price)} :
                /\ c \in Budgets /\ c.calls = b.calls
                /\ c.inflight = IF b.inflight = 0 THEN 0 ELSE b.inflight - 1
  <1> USE DEF Budgets
  <1> DEFINE rest == IF b.inflight = 0 THEN 0 ELSE b.inflight - 1
  <1>1. Reserved(b) = [calls |-> b.calls + 1, inflight |-> b.inflight + 1, cost |-> b.cost]
    BY DEF Reserved
  <1>2. rest \in Nat
    OBVIOUS
  <1>3. Cancelled(b) = [calls |-> b.calls, inflight |-> rest, cost |-> b.cost]
    BY DEF Cancelled
  <1>4. Charged(b, price) = [calls |-> b.calls, inflight |-> rest, cost |-> b.cost + price]
    BY <1>3 DEF Charged
  <1> HIDE DEF rest
  <1>5. \A c \in {Cancelled(b), Charged(b, price)} :
          c \in Budgets /\ c.calls = b.calls /\ c.inflight = rest
    BY <1>2, <1>3, <1>4
  <1>6. /\ Reserved(b) \in Budgets
        /\ Reserved(b).calls = b.calls + 1
        /\ Reserved(b).inflight = b.inflight + 1
    BY <1>1
  <1>7. QED
    BY <1>5, <1>6 DEF rest

(* Every step of a thread has an effect of this form.                        *)
LEMMA ThreadSteps ==
    ASSUME TypeOK, NEW t \in Thread, Step(t)
    PROVE  StepEffect(t)
  <1> USE DEF Goto, Leave, MovesTo, Active, Settling
  <1>1. t[1] \in Process /\ budget[t[1]] \in Budgets /\ budget \in [Process -> Budgets]
    BY DEF Thread, TypeOK, Budgets
  <1>2. retries \in [Thread -> [shape : 0..ShapeRetries, output : 0..OutputRetries]]
    BY DEF TypeOK
  <1>3. pc \in [Thread -> {"idle"} \cup Active]
    BY DEF TypeOK
  <1>4. {ShapeRetries, OutputRetries} \subseteq Nat /\ Price \subseteq Nat
    BY ConstantsAssumption
  <1>5. CASE BeginUnit(t)
    BY <1>2, <1>3, <1>5 DEF BeginUnit, StepEffect, UsesStore, UsesBudget
  <1>6. CASE Reserve(t)
    <2> DEFINE b == Reserved(budget[t[1]])
    <2>1. /\ b \in Budgets
          /\ b.calls = budget[t[1]].calls + 1 /\ b.inflight = budget[t[1]].inflight + 1
      BY <1>1, BudgetOperations
    <2>2. budget' = [budget EXCEPT ![t[1]] = b]
      BY <1>6 DEF Reserve
    <2>3. UsesBudget(t, "calling")
      BY <2>1, <2>2, <1>6 DEF UsesBudget, Reserve
    <2>4. QED
      BY <2>3, <1>2, <1>3, <1>6 DEF Reserve, StepEffect, UsesStore
  <1>7. CASE ReserveRefused(t)
    BY <1>2, <1>3, <1>7 DEF ReserveRefused, StepEffect, UsesStore, UsesBudget
  <1>8. ASSUME NEW final \in BOOLEAN, RequestRaises(t, final)  PROVE StepEffect(t)
    <2> DEFINE b == Cancelled(budget[t[1]])
    <2>1. /\ b \in Budgets /\ b.calls = budget[t[1]].calls
          /\ b.inflight = IF budget[t[1]].inflight = 0 THEN 0 ELSE budget[t[1]].inflight - 1
      BY <1>1, BudgetOperations
    <2>2. budget' = [budget EXCEPT ![t[1]] = b]
      BY <1>8 DEF RequestRaises
    <2>3. UsesBudget(t, "final") /\ UsesBudget(t, "retryable")
      BY <2>1, <2>2, <1>8 DEF UsesBudget, RequestRaises
    <2>4. QED
      BY <2>3, <1>2, <1>3, <1>8 DEF RequestRaises, StepEffect, UsesStore
  <1>9. ASSUME NEW price \in Price, NEW kind \in {"settle", "truncated", "misshapen", "retryable"},
               RequestAnswered(t, price, kind)
        PROVE  StepEffect(t)
    <2> DEFINE b == Charged(budget[t[1]], price)
    <2>1. /\ b \in Budgets /\ b.calls = budget[t[1]].calls
          /\ b.inflight = IF budget[t[1]].inflight = 0 THEN 0 ELSE budget[t[1]].inflight - 1
      BY <1>1, <1>4, BudgetOperations
    <2>2. budget' = [budget EXCEPT ![t[1]] = b]
      BY <1>9 DEF RequestAnswered
    <2>3. UsesBudget(t, "idle") /\ UsesBudget(t, kind)
      BY <2>1, <2>2, <1>9 DEF UsesBudget, RequestAnswered
    <2>4. \/ MovesTo(t, "idle") /\ UsesBudget(t, "idle")
          \/ MovesTo(t, kind) /\ UsesBudget(t, kind)
      BY <2>3, <1>9 DEF RequestAnswered
    <2>5. QED
      BY <2>4, <1>2, <1>9 DEF RequestAnswered, StepEffect, UsesStore
  <1>10. CASE Settle(t)
    BY <1>2, <1>3, <1>10 DEF Settle, Stored, StepEffect, UsesStore, UsesBudget
  <1>11. CASE RecordFailure(t)
    <2>1. MovesTo(t, "idle") /\ UsesBudget(t, "idle")
      BY <1>11 DEF RecordFailure, UsesBudget
    <2>2. UsesStore(t)
      BY <1>11 DEF RecordFailure, UsesStore
    <2>3. QED
      BY <2>1, <2>2, <1>2, <1>11 DEF RecordFailure, StepEffect
  <1>12. CASE RecordTruncation(t)
    <2>1. retries' \in [Thread -> [shape : 0..ShapeRetries, output : 0..OutputRetries]]
      BY <1>2, <1>4, <1>12 DEF RecordTruncation, MayRetryOutput
    <2>2. QED
      BY <2>1, <1>3, <1>12 DEF RecordTruncation, StepEffect, UsesStore, UsesBudget
  <1>13. CASE RetryMisshapen(t)
    <2>1. retries' \in [Thread -> [shape : 0..ShapeRetries, output : 0..OutputRetries]]
      BY <1>2, <1>4, <1>13 DEF RetryMisshapen
    <2>2. QED
      BY <2>1, <1>3, <1>13 DEF RetryMisshapen, StepEffect, UsesStore, UsesBudget
  <1>14. CASE GiveUpMisshapen(t)
    <2>1. MovesTo(t, "idle") /\ UsesBudget(t, "idle")
      BY <1>14 DEF GiveUpMisshapen, UsesBudget
    <2>2. UsesStore(t)
      BY <1>14 DEF GiveUpMisshapen, GivenUp, UsesStore
    <2>3. QED
      BY <2>1, <2>2, <1>2, <1>14 DEF GiveUpMisshapen, StepEffect
  <1>15. CASE StoreRaises(t)
    <2>1. pc[t] # "calling" /\ pc[t] # "idle"
      BY <1>15 DEF StoreRaises
    <2>2. MovesTo(t, "idle") /\ UsesBudget(t, "idle")
      BY <2>1, <1>15 DEF StoreRaises, UsesBudget
    <2>3. QED
      BY <2>1, <2>2, <1>2, <1>15 DEF StoreRaises, StepEffect, UsesStore
  <1>16. QED
    BY <1>5, <1>6, <1>7, <1>8, <1>9, <1>10, <1>11, <1>12, <1>13, <1>14, <1>15 DEF Step

--------------------------------------------------------------------------------
(* The invariant                                                             *)

(* No process runs: the invariant holds at the start.                        *)
LEMMA InitInv == Init => IInv
  <1> SUFFICES ASSUME Init  PROVE IInv
    OBVIOUS
  <1>1. {MaxCalls, MaxInflight, ShapeRetries, OutputRetries, MaxLive, MaxStarts} \subseteq Nat
    BY ConstantsAssumption
  <1>2. TypeOK
    BY <1>1 DEF Init, TypeOK, NoBudget, NoRetries, Store!StoreOf, Store!NoUnit, Store!UnitStatus
  <1>3. LiveBounded
    BY <1>1, FS_EmptySet DEF Init, LiveBounded
  <1>4. ActiveCalls /\ OwnPrompts
    BY DEF Init, ActiveCalls, OwnPrompts
  <1>5. SlotsMatchRequests /\ DeliveredIsRecorded
    BY DEF Init, SlotsMatchRequests, DeliveredIsRecorded
  <1>6. SupersededHasSuccessor
    BY DEF Init, SupersededHasSuccessor, Store!NoUnit
  <1>7. QED
    BY <1>2, <1>3, <1>4, <1>5, <1>6 DEF IInv

(* What a thread does to the store: it stays well formed, nothing on record  *)
(* is lost, and only an accepted answer is put there.                        *)
LEMMA StoreStep ==
    ASSUME IInv, NEW t \in Thread, pc[t] # "idle", UsesStore(t)
    PROVE  /\ store' \in Store!StoreOf(Call, Work)
           /\ delivered' \subseteq Call
           /\ DeliveredIsRecorded'
           /\ SupersededHasSuccessor'
           /\ \A u \in Call :
                /\ Store!Has(store, u) => Store!Has(store', u)
                /\ Store!Has(store', u) => Store!Has(store, u) \/ (pc[t] = "settle" /\ call[t] = u)
           /\ store' = Store!Complete(store, call[t]) \/ \A u \in Call :
                Store!Has(store', u) <=> Store!Has(store, u)
  <1> DEFINE u0 == call[t]
             w0 == WorkOf[u0]
  <1>1. /\ store \in Store!StoreOf(Call, Work) /\ delivered \subseteq Call
        /\ u0 \in Call /\ w0 \in Work \cup {NoWork}
        /\ Settled(store)
    BY ConstantsAssumption DEF IInv, TypeOK, ActiveCalls, SupersededHasSuccessor, Settled
  <1> HIDE DEF u0, w0
  <1>2. \A u \in delivered : Store!Has(store, u)
    BY DEF IInv, DeliveredIsRecorded
  <1>3. SUFFICES /\ store' \in Store!StoreOf(Call, Work)
                 /\ delivered' \subseteq Call
                 /\ \A u \in delivered' : Store!Has(store', u)
                 /\ Settled(store')
                 /\ \A u \in Call :
                      /\ Store!Has(store, u) => Store!Has(store', u)
                      /\ Store!Has(store', u) =>
                            Store!Has(store, u) \/ (pc[t] = "settle" /\ u0 = u)
                 /\ store' = Store!Complete(store, u0) \/ \A u \in Call :
                      Store!Has(store', u) <=> Store!Has(store, u)
    BY DEF DeliveredIsRecorded, SupersededHasSuccessor, Settled, u0, Store!Has
  <1>4. CASE store' = store /\ delivered' = delivered
    BY <1>1, <1>2, <1>4
  <1>5. CASE store' = Store!Begin(store, u0, w0) /\ delivered' = delivered
    BY <1>1, <1>2, <1>5, StoreType, RecordsKept, SettledKept
  <1>6. ASSUME NEW final \in BOOLEAN,
               store' = Store!Fail(store, u0, final) /\ delivered' = delivered
        PROVE  /\ store' \in Store!StoreOf(Call, Work)
               /\ delivered' \subseteq Call
               /\ \A u \in delivered' : Store!Has(store', u)
               /\ Settled(store')
               /\ \A u \in Call : Store!Has(store', u) <=> Store!Has(store, u)
    BY <1>1, <1>2, <1>6, StoreType, RecordsKept, SettledKept
  <1>7. CASE /\ pc[t] = "settle"
             /\ store' = Store!Complete(store, u0)
             /\ delivered' = delivered \cup {u0}
    <2>1. \A u \in Call : Store!Has(store', u) <=> Store!Has(store, u) \/ u = u0
      BY <1>1, <1>7, RecordsKept
    <2>2. store' \in Store!StoreOf(Call, Work) /\ Settled(store')
      BY <1>1, <1>7, StoreType, SettledKept
    <2>3. QED
      BY <1>1, <1>2, <1>7, <2>1, <2>2
  <1>8. QED
    BY <1>4, <1>5, <1>6, <1>7 DEF UsesStore, u0, w0

(* A set without one of its elements is smaller by one.                      *)
LEMMA WithoutElement ==
    ASSUME NEW S, IsFiniteSet(S), NEW x \in S, NEW T,
           \A y : y \in T <=> y \in S /\ y # x
    PROVE  Cardinality(T) = Cardinality(S) - 1
  <1>1. Cardinality(S \ {x}) = IF x \in S THEN Cardinality(S) - 1 ELSE Cardinality(S)
    BY FS_RemoveElement, Zenon
  <1>2. Cardinality(S \ {x}) = Cardinality(S) - 1
    BY <1>1, Zenon
  <1>3. T = S \ {x}
    OBVIOUS
  <1>4. QED  BY <1>2, <1>3, Zenon

(* The threads of a process that are waiting for the provider are those they *)
(* were, with or without the one that moves.                                 *)
LEMMA RequestingAfter ==
    ASSUME TypeOK, NEW t \in Thread, NEW label \in {"idle"} \cup Active,
           pc' = [pc EXCEPT ![t] = label], NEW p \in Process
    PROVE  /\ IsFiniteSet(Requesting(p))
           /\ p # t[1] \/ (label # "calling" /\ pc[t] # "calling") =>
                Requesting(p)' = Requesting(p)
           /\ p = t[1] /\ label = "calling" /\ pc[t] # "calling" =>
                Cardinality(Requesting(p)') = Cardinality(Requesting(p)) + 1
           /\ p = t[1] /\ label # "calling" /\ pc[t] = "calling" =>
                /\ Cardinality(Requesting(p)') = Cardinality(Requesting(p)) - 1
                /\ Cardinality(Requesting(p)) # 0
  <1>1. /\ t[1] \in Process /\ t[2] \in Slot /\ t = <<t[1], t[2]>>
        /\ \A s \in Slot : <<p, s>> \in Thread
        /\ \A s \in Slot : <<p, s>> = t <=> p = t[1] /\ s = t[2]
    BY DEF Thread
  <1>2. \A s \in Slot : pc'[<<p, s>>] = IF p = t[1] /\ s = t[2] THEN label ELSE pc[<<p, s>>]
    BY <1>1 DEF TypeOK
  <1>3. IsFiniteSet(Requesting(p))
    <2>1. Requesting(p) \subseteq Slot
      BY DEF Requesting
    <2>2. QED
      BY <2>1, ConstantsAssumption, FS_Subset
  <1>4. p # t[1] \/ (label # "calling" /\ pc[t] # "calling") => Requesting(p)' = Requesting(p)
    BY <1>1, <1>2 DEF Requesting
  <1>5. ASSUME p = t[1], label = "calling", pc[t] # "calling"
        PROVE  Cardinality(Requesting(p)') = Cardinality(Requesting(p)) + 1
    <2>1. Requesting(p)' = Requesting(p) \cup {t[2]} /\ t[2] \notin Requesting(p)
      BY <1>1, <1>2, <1>5 DEF Requesting
    <2>2. QED
      BY <2>1, <1>3, FS_AddElement
  <1>6. ASSUME p = t[1], label # "calling", pc[t] = "calling"
        PROVE  /\ Cardinality(Requesting(p)') = Cardinality(Requesting(p)) - 1
               /\ Cardinality(Requesting(p)) # 0
    <2>1. t[2] \in Requesting(p)
      BY <1>1, <1>6 DEF Requesting
    <2>2. \A s : s \in Requesting(p)' <=> s \in Requesting(p) /\ s # t[2]
      BY <1>1, <1>2, <1>6 DEF Requesting
    <2>3. Cardinality(Requesting(p)') = Cardinality(Requesting(p)) - 1
      BY <2>1, <2>2, <1>3, WithoutElement, Zenon
    <2>4. Cardinality(Requesting(p)) # 0
      BY <2>1, <1>3, FS_EmptySet
    <2>5. QED  BY <2>3, <2>4
  <1>7. QED
    BY <1>3, <1>4, <1>5, <1>6

(* One thread moves: the slots counted are still the requests under way.     *)
LEMMA SlotsStep ==
    ASSUME IInv, NEW t \in Thread, NEW label \in {"idle"} \cup Active,
           MovesTo(t, label), UsesBudget(t, label), up' = up
    PROVE  SlotsMatchRequests'
  <1>1. pc' = [pc EXCEPT ![t] = label]
    BY DEF MovesTo
  <1>2. SUFFICES ASSUME NEW p \in up
                 PROVE  /\ budget'[p].inflight = Cardinality(Requesting(p)')
                        /\ budget'[p].inflight <= MaxInflight
                        /\ budget'[p].calls <= MaxCalls
    BY DEF SlotsMatchRequests
  <1>3. p \in Process /\ budget[p] \in Budgets /\ budget \in [Process -> Budgets]
    BY DEF IInv, TypeOK, Budgets
  <1>4. /\ budget[p].inflight = Cardinality(Requesting(p))
        /\ budget[p].inflight <= MaxInflight
        /\ budget[p].calls <= MaxCalls
    BY DEF IInv, SlotsMatchRequests
  <1>5. TypeOK /\ MaxInflight \in Nat /\ MaxCalls \in Nat
    BY ConstantsAssumption DEF IInv
  <1>6. IsFiniteSet(Requesting(p)) /\ Cardinality(Requesting(p)) \in Nat
    BY <1>1, <1>3, <1>5, RequestingAfter, FS_CardinalityType
  <1>7. CASE p # t[1]
    <2>1. Requesting(p)' = Requesting(p)
      BY <1>1, <1>3, <1>5, <1>7, RequestingAfter
    <2>2. budget' = budget \/ \E b \in Budgets : budget' = [budget EXCEPT ![t[1]] = b]
      BY DEF UsesBudget
    <2>3. budget'[p] = budget[p]
      BY <2>2, <1>3, <1>7
    <2>4. QED
      BY <2>1, <2>3, <1>4
  <1>8. CASE p = t[1]
    <2>1. CASE pc[t] # "calling" /\ label # "calling" /\ budget' = budget
      <3>1. Requesting(p)' = Requesting(p)
        BY <1>1, <1>3, <1>5, <2>1, RequestingAfter
      <3>2. QED  BY <3>1, <2>1, <1>4
    <2>2. ASSUME NEW b \in Budgets, budget' = [budget EXCEPT ![t[1]] = b],
                 pc[t] # "calling", label = "calling", Fits(budget[t[1]]),
                 b.calls = budget[t[1]].calls + 1, b.inflight = budget[t[1]].inflight + 1
          PROVE  /\ budget'[p].inflight = Cardinality(Requesting(p)')
                 /\ budget'[p].inflight <= MaxInflight
                 /\ budget'[p].calls <= MaxCalls
      <3>1. Cardinality(Requesting(p)') = Cardinality(Requesting(p)) + 1
        BY <1>1, <1>3, <1>5, <1>8, <2>2, RequestingAfter
      <3>2. budget'[p] = b /\ budget[t[1]] = budget[p]
        BY <2>2, <1>3, <1>8
      <3>3. budget[p].calls \in Nat /\ budget[p].inflight \in Nat
        BY <1>3 DEF Budgets
      <3>4. budget[p].calls < MaxCalls /\ budget[p].inflight < MaxInflight
        BY <3>2, <2>2 DEF Fits
      <3>5. b.calls = budget[p].calls + 1 /\ b.inflight = budget[p].inflight + 1
        BY <3>2, <2>2
      <3>6. b.inflight = Cardinality(Requesting(p)')
        BY <3>1, <3>5, <1>4
      <3>7. b.inflight <= MaxInflight /\ b.calls <= MaxCalls
        BY <3>3, <3>4, <3>5, <1>5
      <3>8. QED
        BY <3>2, <3>6, <3>7
    <2>3. ASSUME NEW b \in Budgets, budget' = [budget EXCEPT ![t[1]] = b],
                 pc[t] = "calling", label # "calling",
                 b.calls = budget[t[1]].calls,
                 b.inflight = IF budget[t[1]].inflight = 0 THEN 0
                              ELSE budget[t[1]].inflight - 1
          PROVE  /\ budget'[p].inflight = Cardinality(Requesting(p)')
                 /\ budget'[p].inflight <= MaxInflight
                 /\ budget'[p].calls <= MaxCalls
      <3>1. /\ Cardinality(Requesting(p)') = Cardinality(Requesting(p)) - 1
            /\ Cardinality(Requesting(p)) # 0
        BY <1>1, <1>3, <1>5, <1>8, <2>3, RequestingAfter
      <3>2. budget'[p] = b /\ budget[t[1]] = budget[p]
        BY <2>3, <1>3, <1>8
      <3>3. budget[p].calls \in Nat /\ budget[p].inflight \in Nat
        BY <1>3 DEF Budgets
      <3>4. QED
        BY <3>1, <3>2, <3>3, <2>3, <1>4, <1>5
    <2>4. QED
      BY <2>1, <2>2, <2>3 DEF UsesBudget
  <1>9. QED
    BY <1>7, <1>8

(* A thread moves: who runs stays as it is, and a thread that goes on keeps  *)
(* its prompt.                                                               *)
LEMMA ThreadKeepsInv ==
    ASSUME IInv, NEW t \in Thread, Step(t)
    PROVE  IInv'
  <1>1. TypeOK /\ pc[t] # "idle" /\ StepEffect(t)
    BY ThreadSteps DEF IInv, StepEffect
  <1>2. PICK label \in {"idle"} \cup Active : MovesTo(t, label) /\ UsesBudget(t, label)
    BY <1>1 DEF StepEffect
  <1>3. /\ up' = up /\ starts' = starts /\ asked' = asked /\ UsesStore(t)
        /\ retries' \in [Thread -> [shape : 0..ShapeRetries, output : 0..OutputRetries]]
    BY <1>1 DEF StepEffect
  <1>4. /\ pc' = [pc EXCEPT ![t] = label]
        /\ call' = IF label = "idle" THEN [call EXCEPT ![t] = NoCall] ELSE call
    BY <1>2 DEF MovesTo
  <1>5. /\ pc \in [Thread -> {"idle"} \cup Active]
        /\ call \in [Thread -> Call \cup {NoCall}]
        /\ budget \in [Process -> Budgets]
        /\ t[1] \in Process
    BY <1>1 DEF TypeOK, Budgets, Thread
  <1>6. /\ store' \in Store!StoreOf(Call, Work) /\ delivered' \subseteq Call
        /\ DeliveredIsRecorded' /\ SupersededHasSuccessor'
    BY <1>1, <1>3, StoreStep
  <1>7. budget' \in [Process -> Budgets]
    BY <1>2, <1>5 DEF UsesBudget
  <1>8. pc' \in [Thread -> {"idle"} \cup Active] /\ call' \in [Thread -> Call \cup {NoCall}]
    BY <1>4, <1>5
  <1>9. TypeOK'
    BY <1>1, <1>3, <1>6, <1>7, <1>8 DEF TypeOK, Budgets
  <1>10. \A s \in Thread : pc'[s] # "idle" => pc[s] # "idle" /\ call'[s] = call[s]
    BY <1>1, <1>4, <1>5
  <1>11. ActiveCalls'
    BY <1>3, <1>10 DEF IInv, ActiveCalls
  <1>12. OwnPrompts'
    BY <1>10 DEF IInv, OwnPrompts
  <1>13. LiveBounded'
    BY <1>3 DEF IInv, LiveBounded
  <1>14. SlotsMatchRequests'
    BY <1>2, <1>3, SlotsStep
  <1>15. QED
    BY <1>6, <1>9, <1>11, <1>12, <1>13, <1>14 DEF IInv

(* A thread asks for a prompt that its process has not asked for yet.        *)
LEMMA RequestKeepsInv ==
    ASSUME IInv, NEW t \in Thread, NEW u \in Call, Request(t, u)
    PROVE  IInv'
  <1>1. /\ t[1] \in up /\ t[1] \in Process /\ pc[t] = "idle" /\ u \notin asked[t[1]]
        /\ asked' = [asked EXCEPT ![t[1]] = @ \cup {u}]
        /\ UNCHANGED <<store, up, starts, budget>>
    BY DEF Request, Thread
  <1>2. /\ pc \in [Thread -> {"idle"} \cup Active]
        /\ call \in [Thread -> Call \cup {NoCall}]
        /\ retries \in [Thread -> [shape : 0..ShapeRetries, output : 0..OutputRetries]]
        /\ asked \in [Process -> SUBSET Call] /\ delivered \subseteq Call
    BY DEF IInv, TypeOK
  <1>3. /\ \/ UNCHANGED <<pc, call, retries>>
           \/ /\ pc' = [pc EXCEPT ![t] = "begin"]
              /\ call' = [call EXCEPT ![t] = u]
              /\ retries' = [retries EXCEPT ![t] = NoRetries]
        /\ \/ delivered' = delivered
           \/ delivered' = delivered \cup {u} /\ Store!Has(store, u)
    BY DEF Request, Goto, Replayed
  <1>4. asked' \in [Process -> SUBSET Call] /\ \A p \in Process : asked[p] \subseteq asked'[p]
    BY <1>1, <1>2
  <1>5. NoRetries \in [shape : 0..ShapeRetries, output : 0..OutputRetries]
    BY ConstantsAssumption DEF NoRetries
  <1>6. /\ pc' \in [Thread -> {"idle"} \cup Active]
        /\ call' \in [Thread -> Call \cup {NoCall}]
        /\ retries' \in [Thread -> [shape : 0..ShapeRetries, output : 0..OutputRetries]]
    BY <1>2, <1>3, <1>5 DEF Active
  <1>7. TypeOK'
    BY <1>1, <1>2, <1>3, <1>4, <1>6 DEF IInv, TypeOK
  <1>8. u \in asked'[t[1]]
    BY <1>1, <1>2
  <1>9. \A s \in Thread :
          /\ s # t => pc'[s] = pc[s] /\ call'[s] = call[s]
          /\ pc'[t] # "idle" => call'[t] = u
    BY <1>1, <1>2, <1>3
  <1>10. \A s \in Thread : s[1] \in Process
    BY DEF Thread
  <1>11. ActiveCalls'
    BY <1>1, <1>4, <1>8, <1>9, <1>10 DEF IInv, ActiveCalls
  <1>12. OwnPrompts'
    BY <1>1, <1>9 DEF IInv, OwnPrompts, ActiveCalls
  <1>13. LiveBounded'
    BY <1>1 DEF IInv, LiveBounded
  <1>14. SlotsMatchRequests'
    <2>1. \A s \in Thread : pc'[s] = "calling" <=> pc[s] = "calling"
      BY <1>1, <1>2, <1>3
    <2>2. \A p \in Process : Requesting(p)' = Requesting(p)
      BY <2>1 DEF Requesting, Thread
    <2>3. QED
      BY <1>1, <2>2 DEF IInv, TypeOK, SlotsMatchRequests
  <1>15. DeliveredIsRecorded'
    BY <1>1, <1>3 DEF IInv, DeliveredIsRecorded, Store!Has
  <1>16. SupersededHasSuccessor'
    BY <1>1 DEF IInv, SupersededHasSuccessor, Store!Has
  <1>17. QED
    BY <1>7, <1>11, <1>12, <1>13, <1>14, <1>15, <1>16 DEF IInv

(* A process starts: it has no thread at work, and nothing was lost from the *)
(* store unless the scope is another one.                                    *)
LEMMA StartKeepsInv ==
    ASSUME IInv, NEW p \in Process, NEW sameScope \in BOOLEAN, Start(p, sameScope)
    PROVE  IInv'
  <1>1. /\ p \notin up /\ Cardinality(up) < MaxLive /\ up' = up \cup {p}
        /\ starts[p] < MaxStarts /\ starts' = [starts EXCEPT ![p] = @ + 1]
        /\ store' = Store!Reopen(store, sameScope)
        /\ budget' = [budget EXCEPT ![p] = NoBudget]
        /\ asked' = [asked EXCEPT ![p] = {}]
        /\ delivered' = IF sameScope THEN delivered ELSE {}
        /\ UNCHANGED <<pc, call, retries>>
    BY DEF Start
  <1>2. store \in Store!StoreOf(Call, Work) /\ Settled(store)
    BY DEF IInv, TypeOK, SupersededHasSuccessor, Settled
  <1>3. \A u \in Call : /\ Store!Has(Store!Reopen(store, TRUE), u) <=> Store!Has(store, u)
                       /\ Settled(Store!Reopen(store, sameScope))
    BY <1>2, RecordsKept, SettledKept
  <1>4. store' \in Store!StoreOf(Call, Work)
    BY <1>1, <1>2 DEF Store!Reopen, Store!StoreOf, Store!UnitStatus, Store!Pending, Store!NoUnit
  <1>5. TypeOK'
    <2>1. starts' \in [Process -> 0..MaxStarts]
      BY <1>1, ConstantsAssumption DEF IInv, TypeOK
    <2>2. budget' \in [Process -> [calls : Nat, inflight : Nat, cost : Nat]]
      BY <1>1 DEF IInv, TypeOK, NoBudget
    <2>3. asked' \in [Process -> SUBSET Call] /\ up' \subseteq Process /\ delivered' \subseteq Call
      BY <1>1 DEF IInv, TypeOK
    <2>4. QED
      BY <1>1, <1>4, <2>1, <2>2, <2>3 DEF IInv, TypeOK
  <1>6. ActiveCalls'
    BY <1>1 DEF IInv, TypeOK, ActiveCalls
  <1>7. OwnPrompts'
    BY <1>1 DEF IInv, OwnPrompts
  <1>8. LiveBounded'
    <2>1. IsFiniteSet(up') /\ Cardinality(up') = Cardinality(up) + 1
      BY <1>1, FS_AddElement DEF IInv, LiveBounded
    <2>2. Cardinality(up) \in Nat /\ MaxLive \in Nat
      BY ConstantsAssumption, FS_CardinalityType DEF IInv, LiveBounded
    <2>3. QED
      BY <1>1, <2>1, <2>2 DEF LiveBounded
  <1>9. SlotsMatchRequests'
    <2>1. SUFFICES ASSUME NEW q \in up'
                   PROVE  /\ budget'[q].inflight = Cardinality(Requesting(q)')
                          /\ budget'[q].inflight <= MaxInflight
                          /\ budget'[q].calls <= MaxCalls
      BY DEF SlotsMatchRequests
    <2>2. Requesting(q)' = Requesting(q)
      BY <1>1 DEF Requesting
    <2>3. CASE q # p
      <3>1. q \in up /\ budget'[q] = budget[q]
        BY <1>1, <2>3 DEF IInv, TypeOK
      <3>2. QED
        BY <2>2, <3>1 DEF IInv, SlotsMatchRequests
    <2>4. CASE q = p
      <3>1. Requesting(p) = {}
        BY <1>1 DEF IInv, ActiveCalls, Requesting, Thread
      <3>2. Cardinality(Requesting(q)') = 0
        BY <2>2, <2>4, <3>1, FS_EmptySet
      <3>3. budget'[q] = NoBudget
        BY <1>1, <2>4 DEF IInv, TypeOK
      <3>4. QED
        BY <3>2, <3>3, ConstantsAssumption DEF NoBudget
    <2>5. QED
      BY <2>3, <2>4
  <1>10. DeliveredIsRecorded'
    <2>1. CASE sameScope
      <3>1. \A u \in delivered : Store!Has(store, u) /\ u \in Call
        BY DEF IInv, TypeOK, DeliveredIsRecorded
      <3>2. store' = Store!Reopen(store, TRUE) /\ delivered' = delivered
        BY <1>1, <2>1
      <3>3. \A u \in delivered' : Store!Has(store', u)
        BY <1>3, <3>1, <3>2
      <3>4. QED
        BY <3>3 DEF DeliveredIsRecorded, Store!Has
    <2>2. CASE ~sameScope
      BY <1>1, <2>2 DEF DeliveredIsRecorded
    <2>3. QED
      BY <2>1, <2>2
  <1>11. SupersededHasSuccessor'
    <2>1. Call # {} => Settled(store')
      BY <1>1, <1>3
    <2>2. QED
      BY <2>1 DEF SupersededHasSuccessor, Settled, Store!Has
  <1>12. QED
    BY <1>5, <1>6, <1>7, <1>8, <1>9, <1>10, <1>11 DEF IInv

(* A process stops, and none of its threads is at work any more.             *)
LEMMA StopKeepsInv ==
    ASSUME IInv, NEW p \in Process, Stop(p)
    PROVE  IInv'
  <1>1. /\ up' = up \ {p}
        /\ pc' = [t \in Thread |-> IF t[1] = p THEN "idle" ELSE pc[t]]
        /\ call' = [t \in Thread |-> IF t[1] = p THEN NoCall ELSE call[t]]
        /\ retries' = [t \in Thread |-> IF t[1] = p THEN NoRetries ELSE retries[t]]
        /\ UNCHANGED <<store, starts, budget, asked, delivered>>
    BY DEF Stop
  <1>2. TypeOK'
    <2>1. NoRetries \in [shape : 0..ShapeRetries, output : 0..OutputRetries]
      BY ConstantsAssumption DEF NoRetries
    <2>2. QED
      BY <1>1, <2>1 DEF IInv, TypeOK
  <1>3. ActiveCalls' /\ OwnPrompts'
    BY <1>1 DEF IInv, ActiveCalls, OwnPrompts
  <1>4. LiveBounded'
    <2>1. IsFiniteSet(up') /\ Cardinality(up') <= Cardinality(up)
      BY <1>1, FS_Subset DEF IInv, LiveBounded
    <2>2. /\ Cardinality(up) \in Nat /\ Cardinality(up') \in Nat /\ MaxLive \in Nat
          /\ Cardinality(up) <= MaxLive
      BY <2>1, ConstantsAssumption, FS_CardinalityType DEF IInv, LiveBounded
    <2>3. QED
      BY <2>1, <2>2 DEF LiveBounded
  <1>5. SlotsMatchRequests'
    <2>1. \A q \in up' : q \in up /\ Requesting(q)' = Requesting(q)
      BY <1>1 DEF Requesting, Thread, IInv, TypeOK
    <2>2. QED
      BY <1>1, <2>1 DEF IInv, SlotsMatchRequests
  <1>6. DeliveredIsRecorded' /\ SupersededHasSuccessor'
    BY <1>1 DEF IInv, DeliveredIsRecorded, SupersededHasSuccessor, Store!Has
  <1>7. QED
    BY <1>2, <1>3, <1>4, <1>5, <1>6 DEF IInv

(* No step of the system breaks the invariant.                               *)
LEMMA NextInv == IInv /\ [Next]_vars => IInv'
  <1> SUFFICES ASSUME IInv, [Next]_vars  PROVE IInv'
    OBVIOUS
  <1>1. CASE UNCHANGED vars
    BY <1>1 DEF vars, IInv, TypeOK, ActiveCalls, OwnPrompts, LiveBounded, SlotsMatchRequests,
                Requesting, DeliveredIsRecorded, SupersededHasSuccessor, Store!Has
  <1>2. CASE Next
    BY <1>2, ThreadKeepsInv, RequestKeepsInv, StartKeepsInv, StopKeepsInv DEF Next
  <1>3. QED
    BY <1>1, <1>2

LEMMA Invariance == Spec => []IInv
  BY InitInv, NextInv, PTL DEF Spec

--------------------------------------------------------------------------------
(* Theorems                                                                  *)

(* Every variable stays in its type.                                         *)
THEOREM TypeCorrect == Spec => []TypeOK
  BY Invariance, PTL DEF IInv

(* _structured_response: the slots of the budget are given back exactly once *)
(* on every way out of a request, and the limits on calls in all and in      *)
(* flight hold.                                                              *)
THEOREM SlotsHold == Spec => []SlotsMatchRequests
  BY Invariance, PTL DEF IInv

(* What some run of a scope used is in the store for the next.               *)
THEOREM DeliveredHolds == Spec => []DeliveredIsRecorded
  BY Invariance, PTL DEF IInv

(* CheckpointStore.complete: no attempt is written off but for a completed   *)
(* one at the same work.                                                     *)
THEOREM SupersededHolds == Spec => []SupersededHasSuccessor
  BY Invariance, PTL DEF IInv

(* What a step may put on record, and what it leaves there.                  *)
LEMMA RecordStep ==
    ASSUME IInv, [Next]_vars
    PROVE  \A u \in Call : ~Store!Has(store, u) /\ Store!Has(store, u)' =>
               \E t \in Thread : pc[t] = "settle" /\ call[t] = u
  <1>1. CASE UNCHANGED vars
    BY <1>1 DEF vars, Store!Has
  <1>2. ASSUME NEW p \in Process, NEW sameScope \in BOOLEAN, Start(p, sameScope)
        PROVE  \A u \in Call : Store!Has(store, u)' => Store!Has(store, u)
    <2>1. store' = Store!Reopen(store, sameScope) /\ store \in Store!StoreOf(Call, Work)
      BY <1>2 DEF Start, IInv, TypeOK
    <2>2. \A u \in Call : Store!Has(store', u) => Store!Has(store, u)
      BY <2>1, RecordsKept
    <2>3. QED
      BY <2>2 DEF Store!Has
  <1>3. ASSUME NEW p \in Process, Stop(p)
        PROVE  \A u \in Call : Store!Has(store, u)' => Store!Has(store, u)
    BY <1>3 DEF Stop, Store!Has
  <1>4. ASSUME NEW t \in Thread, NEW u \in Call, Request(t, u)
        PROVE  \A v \in Call : Store!Has(store, v)' => Store!Has(store, v)
    BY <1>4 DEF Request, Store!Has
  <1>5. ASSUME NEW t \in Thread, Step(t)
        PROVE  \A u \in Call : ~Store!Has(store, u) /\ Store!Has(store, u)' =>
                   pc[t] = "settle" /\ call[t] = u
    <2>1. pc[t] # "idle" /\ UsesStore(t)
      BY <1>5, ThreadSteps DEF IInv, StepEffect
    <2>2. \A u \in Call : Store!Has(store', u) =>
              Store!Has(store, u) \/ (pc[t] = "settle" /\ call[t] = u)
      BY <2>1, StoreStep
    <2>3. QED
      BY <2>2 DEF Store!Has
  <1>6. QED
    BY <1>1, <1>2, <1>3, <1>4, <1>5 DEF Next

(* A unit becomes replayable by an accepted answer to it and by nothing else,*)
(* restarts and failures included.                                           *)
THEOREM OnlyAnswersHolds == Spec => OnlyAnswersComplete
  <1>1. ASSUME IInv, [Next]_vars
        PROVE  [\A u \in Call : ~Store!Has(store, u) /\ Store!Has(store, u)' =>
                  \E t \in Thread : pc[t] = "settle" /\ call[t] = u]_vars
    BY <1>1, RecordStep
  <1>2. QED
    BY <1>1, Invariance, PTL DEF Spec, OnlyAnswersComplete

--------------------------------------------------------------------------------
(* One process at a time                                                     *)

(* With one process at a time, all threads at work belong to it.             *)
LEMMA OneProcess ==
    ASSUME IInv, MaxLive <= 1
    PROVE  \A p, q \in up : p = q
  <1>1. SUFFICES ASSUME NEW p \in up, NEW q \in up, p # q  PROVE FALSE
    OBVIOUS
  <1>2. IsFiniteSet(up) /\ Cardinality(up) \in Nat /\ Cardinality(up) <= MaxLive
    BY FS_CardinalityType DEF IInv, LiveBounded
  <1>3. IsFiniteSet({p}) /\ Cardinality({p}) = 1
    BY FS_Singleton
  <1>4. Cardinality({p} \cup {q}) = 2
    BY <1>1, <1>3, FS_AddElement
  <1>5. Cardinality({p} \cup {q}) <= Cardinality(up)
    BY <1>2, FS_Subset
  <1>6. QED
    BY <1>2, <1>4, <1>5, ConstantsAssumption

(* No thread at work asks for what is on record.                             *)
LEMMA UnrecordedStep ==
    ASSUME IInv, Unrecorded, [Next]_vars, MaxLive <= 1
    PROVE  Unrecorded'
  <1>1. CASE UNCHANGED vars
    BY <1>1 DEF vars, Unrecorded, Store!Has
  <1>2. ASSUME NEW p \in Process, NEW sameScope \in BOOLEAN, Start(p, sameScope)
        PROVE  Unrecorded'
    <2>1. /\ store' = Store!Reopen(store, sameScope) /\ store \in Store!StoreOf(Call, Work)
          /\ pc' = pc /\ call' = call
      BY <1>2 DEF Start, IInv, TypeOK
    <2>2. \A u \in Call : Store!Has(store', u) => Store!Has(store, u)
      BY <2>1, RecordsKept
    <2>3. \A t \in Thread : pc'[t] # "idle" => ~Store!Has(store', call'[t])
      BY <2>1, <2>2 DEF IInv, ActiveCalls, Unrecorded
    <2>4. QED
      BY <2>3 DEF Unrecorded, Store!Has
  <1>3. ASSUME NEW p \in Process, Stop(p)  PROVE Unrecorded'
    BY <1>3 DEF Stop, Unrecorded, Store!Has
  <1>4. ASSUME NEW t \in Thread, NEW u \in Call, Request(t, u)  PROVE Unrecorded'
    BY <1>4 DEF Request, Goto, Replayed, IInv, TypeOK, Unrecorded, Store!Has
  <1>5. ASSUME NEW t \in Thread, Step(t)  PROVE Unrecorded'
    <2>1. TypeOK /\ pc[t] # "idle" /\ UsesStore(t)
      BY <1>5, ThreadSteps DEF IInv, StepEffect
    <2>2. PICK label \in {"idle"} \cup Active : MovesTo(t, label)
      BY <2>1, <1>5, ThreadSteps DEF StepEffect
    <2>3. \A s \in Thread : pc'[s] # "idle" => pc[s] # "idle" /\ call'[s] = call[s]
      BY <2>1, <2>2 DEF MovesTo, TypeOK
    <2>4. \A s \in Thread : pc[s] # "idle" /\ call[s] = call[t] => s = t
      BY <2>1, OneProcess DEF IInv, ActiveCalls, OwnPrompts
    <2>5. \A u \in Call : Store!Has(store', u) => Store!Has(store, u) \/ (pc[t] = "settle" /\ call[t] = u)
      BY <2>1, StoreStep
    <2>6. pc[t] = "settle" => pc'[t] = "idle"
      BY <2>1, <1>5 DEF Step, BeginUnit, Reserve, ReserveRefused, RequestRaises, RequestAnswered,
                        Settle, RecordFailure, RecordTruncation, RetryMisshapen, GiveUpMisshapen,
                        StoreRaises, Leave, Goto, TypeOK
    <2>7. \A s \in Thread : pc'[s] # "idle" => ~Store!Has(store', call'[s])
      BY <2>3, <2>4, <2>5, <2>6 DEF IInv, ActiveCalls, Unrecorded
    <2>8. QED
      BY <2>7 DEF Unrecorded, Store!Has
  <1>6. QED
    BY <1>1, <1>2, <1>3, <1>4, <1>5 DEF Next

(* Every step of the system is one of the abstract store, or none.           *)
LEMMA ResumableStep ==
    ASSUME IInv, Unrecorded, [Next]_vars, MaxLive <= 1
    PROVE  [Resumable!Next]_(Resumable!vars)
  <1> DEFINE recorded == {u \in Call : Store!Has(store, u)}
             paying == {call[t] : t \in {s \in Thread : pc[s] = "calling"}}
  <1> SUFFICES \/ recorded' = recorded /\ paying' \subseteq paying
               \/ recorded' = {} /\ paying' = {}
               \/ \E u \in Call : /\ u \notin recorded /\ recorded' = recorded
                                 /\ paying' = paying \cup {u}
               \/ \E u \in Call : recorded' = recorded \cup {u} /\ paying' = paying \ {u}
    BY DEF Resumable!Next, Resumable!Stop, Resumable!ChangeSubject, Resumable!Pay,
           Resumable!Record, Resumable!vars
  <1>1. CASE UNCHANGED vars
    BY <1>1 DEF vars, Store!Has
  <1>2. ASSUME NEW p \in Process, NEW sameScope \in BOOLEAN, Start(p, sameScope)
        PROVE  \/ recorded' = recorded /\ paying' \subseteq paying
               \/ recorded' = {} /\ paying' = {}
    <2>1. /\ store' = Store!Reopen(store, sameScope) /\ store \in Store!StoreOf(Call, Work)
          /\ pc' = pc /\ call' = call /\ Cardinality(up) < MaxLive
      BY <1>2 DEF Start, IInv, TypeOK
    <2>2. CASE sameScope
      <3>1. \A u \in Call : Store!Has(store', u) <=> Store!Has(store, u)
        BY <2>1, <2>2, RecordsKept
      <3>2. QED
        BY <2>1, <3>1 DEF Store!Has
    <2>3. CASE ~sameScope
      <3>1. \A u \in Call : ~Store!Has(store', u)
        BY <2>1, <2>3, RecordsKept
      <3>2. up = {}
        <4>1. Cardinality(up) \in Nat /\ MaxLive \in Nat /\ IsFiniteSet(up)
          BY ConstantsAssumption, FS_CardinalityType DEF IInv, LiveBounded
        <4>2. Cardinality(up) = 0
          BY <2>1, <4>1
        <4>3. QED  BY <4>1, <4>2, FS_EmptySet
      <3>3. \A t \in Thread : pc'[t] = "idle"
        BY <2>1, <3>2 DEF IInv, ActiveCalls
      <3>4. recorded' = {} /\ paying' = {}
        BY <3>1, <3>3 DEF Store!Has
      <3>5. QED  BY <3>4
    <2>4. QED  BY <2>2, <2>3
  <1>3. ASSUME NEW p \in Process, Stop(p)
        PROVE  recorded' = recorded /\ paying' \subseteq paying
    BY <1>3 DEF Stop, Store!Has
  <1>4. ASSUME NEW t \in Thread, NEW u \in Call, Request(t, u)
        PROVE  recorded' = recorded /\ paying' \subseteq paying
    <2>1. \A s \in Thread : pc'[s] = "calling" => pc[s] = "calling" /\ call'[s] = call[s]
      BY <1>4 DEF Request, Goto, IInv, TypeOK
    <2>2. store' = store
      BY <1>4 DEF Request
    <2>3. QED
      BY <2>1, <2>2 DEF Store!Has
  <1>5. ASSUME NEW t \in Thread, Step(t)
        PROVE  \/ recorded' = recorded /\ paying' \subseteq paying
               \/ \E u \in Call : /\ u \notin recorded /\ recorded' = recorded
                                 /\ paying' = paying \cup {u}
               \/ \E u \in Call : recorded' = recorded \cup {u} /\ paying' = paying \ {u}
    <2>1. /\ TypeOK /\ pc[t] # "idle" /\ UsesStore(t)
          /\ call[t] \in Call /\ store \in Store!StoreOf(Call, Work)
          /\ WorkOf[call[t]] \in Work \cup {NoWork}
      BY <1>5, ThreadSteps, ConstantsAssumption DEF IInv, StepEffect, ActiveCalls, TypeOK
    <2>2. PICK label \in {"idle"} \cup Active : MovesTo(t, label)
      BY <2>1, <1>5, ThreadSteps DEF StepEffect
    <2>3. \A s \in Thread \ {t} : pc'[s] = pc[s] /\ call'[s] = call[s]
      BY <2>2 DEF MovesTo, IInv, TypeOK
    <2>4. \A s \in Thread : pc[s] # "idle" /\ call[s] = call[t] => s = t
      BY <2>1, OneProcess DEF IInv, ActiveCalls, OwnPrompts
    <2>5. CASE Settle(t)
      <3>1. store' = Store!Complete(store, call[t])
        BY <2>5 DEF Settle, Stored
      <3>2. \A u \in Call : Store!Has(store', u) <=> Store!Has(store, u) \/ u = call[t]
        BY <2>1, <3>1, RecordsKept
      <3>3. recorded' = recorded \cup {call[t]}
        BY <2>1, <3>2 DEF Store!Has
      <3>4. pc[t] = "settle" /\ pc'[t] = "idle"
        BY <2>5 DEF Settle, Leave, Goto, IInv, TypeOK
      <3>5. call[t] \notin paying
        BY <2>4, <3>4
      <3>6. paying' = paying
        BY <2>3, <3>4
      <3>7. paying' = paying \ {call[t]}
        BY <3>5, <3>6
      <3>8. QED  BY <2>1, <3>3, <3>7
    <2>6. CASE Reserve(t)
      <3>1. pc'[t] = "calling" /\ call' = call /\ store' = store /\ pc[t] = "reserve"
        BY <2>6 DEF Reserve, Goto, IInv, TypeOK
      <3>2. recorded' = recorded /\ call[t] \notin recorded
        BY <2>1, <3>1 DEF Unrecorded, Store!Has
      <3>3. paying' = paying \cup {call[t]}
        BY <2>3, <3>1
      <3>4. QED  BY <2>1, <3>2, <3>3
    <2>7. CASE ~Settle(t) /\ ~Reserve(t)
      <3>1. /\ pc'[t] # "calling"
            /\ \/ store' = store
               \/ store' = Store!Begin(store, call[t], WorkOf[call[t]])
               \/ \E final \in BOOLEAN : store' = Store!Fail(store, call[t], final)
        BY <2>1, <2>7, <1>5
        DEF Step, BeginUnit, ReserveRefused, RequestRaises, RequestAnswered, RecordFailure,
            RecordTruncation, RetryMisshapen, GiveUpMisshapen, GivenUp, StoreRaises, Leave, Goto,
            TypeOK
      <3>2. \A u \in Call : Store!Has(store', u) <=> Store!Has(store, u)
        <4>1. CASE store' = store
          BY <4>1
        <4>2. CASE store' = Store!Begin(store, call[t], WorkOf[call[t]])
          BY <2>1, <4>2, RecordsKept
        <4>3. ASSUME NEW final \in BOOLEAN, store' = Store!Fail(store, call[t], final)
              PROVE  \A u \in Call : Store!Has(store', u) <=> Store!Has(store, u)
          BY <2>1, <4>3, RecordsKept
        <4>4. QED  BY <3>1, <4>1, <4>2, <4>3
      <3>3. recorded' = recorded
        BY <3>2 DEF Store!Has
      <3>4. paying' \subseteq paying
        BY <2>3, <3>1
      <3>5. QED  BY <3>3, <3>4
    <2>8. QED  BY <2>5, <2>6, <2>7
  <1>6. QED
    BY <1>1, <1>2, <1>3, <1>4, <1>5 DEF Next

(* With one process at a time nothing that was recorded is paid for again:   *)
(* the model calls implement ResumableWork.                                  *)
THEOREM Refinement ==
    ASSUME MaxLive <= 1
    PROVE  Spec => ImplementsResumableWork
  <1>1. Init => Unrecorded /\ Resumable!Init
    BY DEF Init, Unrecorded, Resumable!Init, Store!Has, Store!NoUnit
  <1>2. IInv /\ Unrecorded /\ [Next]_vars => Unrecorded'
    BY UnrecordedStep
  <1>3. IInv /\ Unrecorded /\ [Next]_vars => [Resumable!Next]_(Resumable!vars)
    BY ResumableStep
  <1>4. QED
    BY <1>1, <1>2, <1>3, Invariance, PTL DEF Spec, ImplementsResumableWork, Resumable!Spec

================================================================================
