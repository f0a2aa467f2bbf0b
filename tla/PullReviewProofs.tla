--------------------------- MODULE PullReviewProofs ---------------------------
(*****************************************************************************)
(* Theorems about PullReview, for any number of files, places, reports,      *)
(* tracked findings and candidates, whose ids are unique.                    *)
(*                                                                           *)
(* The first parts are about the operators: what a fold comes to, then what  *)
(* is planned, sorted, merged, identified and classified, one part each.     *)
(* The last ones are about the steps: how a review starts, what is asked,    *)
(* and what holds when it is over.                                           *)
(*****************************************************************************)
EXTENDS PullReview, FiniteSetTheorems, SequenceTheorems, WellFoundedInduction, TLAPS

--------------------------------------------------------------------------------
(* Numbers, and what FoldLeft comes to                                       *)

(* A set of numbers has a least one.                                         *)
LEMMA LeastNat ==
    ASSUME NEW S, S \subseteq Nat, S # {}
    PROVE  \E m \in S : \A k \in S : m <= k
  <1>1. IsWellFoundedOn(OpToRel(<, Nat), Nat)
    BY NatLessThanWellFounded
  <1>2. PICK m \in S : \A k \in S : ~ (<<k, m>> \in OpToRel(<, Nat))
    BY <1>1, WFMin
  <1>3. \A k \in S : ~(k < m)
    BY <1>2 DEF OpToRel
  <1>4. \A k \in S : m <= k
    <2> TAKE k \in S
    <2>1. k \in Nat /\ m \in Nat /\ ~(k < m)
      BY <1>2, <1>3
    <2>2. QED
      BY <2>1
  <1>5. QED
    BY <1>2, <1>4

(* Induction up to a bound, with a set in place of the formula.              *)
LEMMA UpTo ==
    ASSUME NEW n \in Nat, NEW T, 0 \in T, \A k \in 1..n : k - 1 \in T => k \in T
    PROVE  \A k \in 0..n : k \in T
  <1> DEFINE S == {k \in 0..n : k \notin T}
  <1> SUFFICES ASSUME S # {}  PROVE FALSE
    OBVIOUS
  <1>1. S \subseteq Nat
    OBVIOUS
  <1>2. PICK m \in S : \A k \in S : m <= k
    <2> HIDE DEF S
    <2> QED BY <1>1, LeastNat
  <1>3. m \in 1..n /\ m - 1 \notin S /\ m - 1 \in 0..n
    BY <1>2
  <1>4. QED
    BY <1>2, <1>3

LEMMA MinFact ==
    ASSUME NEW S, S \subseteq Nat, S # {}
    PROVE  Min(S) \in S /\ \A k \in S : Min(S) <= k
  BY LeastNat DEF Min

LEMMA MaxFact ==
    ASSUME NEW n \in Nat, NEW S, S \subseteq 1..n, S # {}
    PROVE  Max(S) \in S /\ \A k \in S : k <= Max(S)
  <1> DEFINE U == {m \in Nat : \A k \in S : k <= m}
  <1>1. U \subseteq Nat /\ n \in U
    OBVIOUS
  <1>2. PICK m \in U : \A k \in U : m <= k
    <2> HIDE DEF U
    <2> QED BY <1>1, LeastNat
  <1>3. m \in S
    <2> SUFFICES ASSUME m \notin S  PROVE FALSE
      OBVIOUS
    <2>1. \A k \in S : k \in Nat /\ k < m
      BY <1>2
    <2>2. m # 0
      <3>1. PICK x \in S : TRUE
        OBVIOUS
      <3>2. x \in Nat /\ x < m
        BY <2>1, <3>1
      <3>3. QED
        BY <3>2, <1>2
    <2>3. m - 1 \in U
      BY <1>2, <2>1, <2>2
    <2>4. QED
      BY <1>2, <2>3
  <1>4. \E x \in S : \A y \in S : x >= y
    BY <1>2, <1>3
  <1>5. Max(S) \in S /\ \A y \in S : Max(S) >= y
    BY <1>4 DEF Max
  <1>6. QED
    BY <1>5

(* Sets of numbers up to n, with n and without it.                            *)
LEMMA WithTop ==
    ASSUME NEW n \in Nat, NEW t \in SUBSET (1..n), n \in t
    PROVE  Max(t) = n /\ t \ {n} \in SUBSET (1..(n-1))
  <1>1. t \subseteq 1..n /\ t # {}
    OBVIOUS
  <1>2. Max(t) \in t /\ \A j \in t : j <= Max(t)
    BY <1>1, MaxFact
  <1>3. Max(t) \in 1..n /\ n <= Max(t)
    BY <1>2, <1>1
  <1>4. Max(t) = n
    BY <1>3
  <1>5. ASSUME NEW x \in t \ {n}  PROVE x \in 1..(n-1)
    BY <1>1
  <1>6. QED
    BY <1>4, <1>5

LEMMA WithoutTop ==
    ASSUME NEW n \in Nat, NEW t \in SUBSET (1..n), n \notin t
    PROVE  t \in SUBSET (1..(n-1))
  <1>1. ASSUME NEW x \in t  PROVE x \in 1..(n-1)
    <2>1. x \in 1..n /\ x # n
      OBVIOUS
    <2>2. QED
      BY <2>1
  <1>2. QED
    BY <1>1

(* The functions that FoldLeft takes its value from exist.                   *)
Folds(h, op, base, n, s) ==
    \A t \in SUBSET (1..n) :
        /\ h[t] = IF t = {} THEN base ELSE op[<<h[t \ {Max(t)}], s[Max(t)]>>]
        /\ t # {} => <<h[t \ {Max(t)}], s[Max(t)]>> \in DOMAIN op

LEMMA FoldExists ==
    ASSUME NEW A, NEW X, NEW op \in [A \X X -> A], NEW base \in A,
           NEW n \in Nat, NEW s \in [1..n -> X]
    PROVE  \E h \in [SUBSET (1..n) -> A] : Folds(h, op, base, n, s)
  <1> DEFINE Good(k, h) == \A t \in SUBSET (1..k) :
                h[t] = IF t = {} THEN base ELSE op[<<h[t \ {Max(t)}], s[Max(t)]>>]
             T == {k \in 0..n : \E h \in [SUBSET (1..k) -> A] : Good(k, h)}
  <1>1. 0 \in T
    <2> DEFINE h == [t \in SUBSET (1..0) |-> base]
    <2>1. \A t \in SUBSET (1..0) : t = {}
      OBVIOUS
    <2>2. h \in [SUBSET (1..0) -> A]
      OBVIOUS
    <2>3. Good(0, h)
      BY <2>1
    <2> HIDE DEF h, Good
    <2>4. \E h1 \in [SUBSET (1..0) -> A] : Good(0, h1)
      BY <2>2, <2>3
    <2>5. 0 \in 0..n
      OBVIOUS
    <2>6. QED
      BY <2>4, <2>5
  <1>2. ASSUME NEW k \in 1..n, k - 1 \in T  PROVE k \in T
    <2>k. k \in Nat /\ k - 1 \in Nat /\ k \in 0..n /\ s[k] \in X
      OBVIOUS
    <2>1. PICK h \in [SUBSET (1..(k-1)) -> A] : Good(k - 1, h)
      BY <1>2
    <2> DEFINE g == [t \in SUBSET (1..k) |-> IF k \in t THEN op[<<h[t \ {k}], s[k]>>] ELSE h[t]]
    <2>2. ASSUME NEW t \in SUBSET (1..k), k \in t
          PROVE  /\ Max(t) = k /\ t \ {k} \in SUBSET (1..(k-1))
                 /\ t \ {k} \in SUBSET (1..k) /\ t # {}
                 /\ g[t] = op[<<h[t \ {k}], s[k]>>] /\ g[t \ {k}] = h[t \ {k}]
                 /\ g[t] \in A
      <3>1. Max(t) = k /\ t \ {k} \in SUBSET (1..(k-1))
        BY <2>2, <2>k, WithTop
      <3>2. t \ {k} \in SUBSET (1..k) /\ k \notin t \ {k} /\ t # {}
        BY <2>2
      <3>3. g[t] = op[<<h[t \ {k}], s[k]>>]
        BY <2>2
      <3>4. g[t \ {k}] = h[t \ {k}]
        BY <3>2
      <3>5. h[t \ {k}] \in A
        BY <3>1, <2>1
      <3>6. <<h[t \ {k}], s[k]>> \in A \X X
        BY <3>5, <2>k
      <3> HIDE DEF g
      <3>7. g[t] \in A
        BY <3>6, <3>3
      <3>8. QED
        BY <3>1, <3>2, <3>3, <3>4, <3>7
    <2>3. ASSUME NEW t \in SUBSET (1..k), k \notin t
          PROVE  /\ t \in SUBSET (1..(k-1)) /\ t \ {Max(t)} \in SUBSET (1..(k-1))
                 /\ g[t] = h[t] /\ g[t \ {Max(t)}] = h[t \ {Max(t)}]
                 /\ g[t] \in A
      <3>1. t \in SUBSET (1..(k-1))
        BY <2>3, <2>k, WithoutTop
      <3>2. t \ {Max(t)} \in SUBSET (1..(k-1)) /\ t \ {Max(t)} \in SUBSET (1..k) /\ k \notin t \ {Max(t)}
        BY <3>1, <2>3
      <3>3. g[t] = h[t]
        BY <2>3
      <3>4. g[t \ {Max(t)}] = h[t \ {Max(t)}]
        BY <3>2
      <3> HIDE DEF g
      <3>5. h[t] \in A
        BY <3>1, <2>1
      <3>6. QED
        BY <3>1, <3>2, <3>3, <3>4, <3>5
    <2>4. g \in [SUBSET (1..k) -> A]
      <3>1. DOMAIN g = SUBSET (1..k) /\ g = [t \in SUBSET (1..k) |-> g[t]]
        OBVIOUS
      <3> HIDE DEF g
      <3>2. \A t \in SUBSET (1..k) : g[t] \in A
        BY <2>2, <2>3
      <3>3. QED
        BY <3>1, <3>2
    <2>5. Good(k, g)
      <3> SUFFICES ASSUME NEW t \in SUBSET (1..k)
                   PROVE  g[t] = IF t = {} THEN base ELSE op[<<g[t \ {Max(t)}], s[Max(t)]>>]
        OBVIOUS
      <3> HIDE DEF g
      <3>1. CASE k \in t
        BY <3>1, <2>2
      <3>2. CASE k \notin t
        <4>1. h[t] = IF t = {} THEN base ELSE op[<<h[t \ {Max(t)}], s[Max(t)]>>]
          BY <3>2, <2>3, <2>1
        <4>2. QED
          BY <3>2, <2>3, <4>1
      <3>3. QED
        BY <3>1, <3>2
    <2> HIDE DEF g, Good
    <2>6. QED
      BY <2>4, <2>5, <2>k
  <1>3. n \in T
    <2> HIDE DEF T
    <2>1. \A k \in 1..n : k - 1 \in T => k \in T
      BY <1>2
    <2>2. \A k \in 0..n : k \in T
      BY <1>1, <2>1, UpTo
    <2>3. n \in 0..n
      OBVIOUS
    <2>4. QED
      BY <2>2, <2>3
  <1>4. PICK h \in [SUBSET (1..n) -> A] : Good(n, h)
    <2> HIDE DEF Good
    <2> QED BY <1>3
  <1>5. ASSUME NEW t \in SUBSET (1..n), t # {}
        PROVE  <<h[t \ {Max(t)}], s[Max(t)]>> \in DOMAIN op
    <2>1. t \subseteq 1..n
      OBVIOUS
    <2>2. Max(t) \in t
      BY <1>5, <2>1, MaxFact
    <2>3. h[t \ {Max(t)}] \in A /\ s[Max(t)] \in X
      BY <2>1, <2>2
    <2>4. QED
      BY <2>3
  <1>6. QED
    BY <1>4, <1>5 DEF Folds

(* What FoldLeft goes through: the sets that it takes the greatest number    *)
(* from are the intervals.                                                   *)
LEMMA Interval ==
    ASSUME NEW n \in Nat, NEW k \in 1..n
    PROVE  /\ Max(1..k) = k /\ (1..k) \ {k} = 1..(k-1) /\ 1..k # {}
           /\ 1..k \in SUBSET (1..n) /\ 1..(k-1) \in SUBSET (1..n)
  <1>1. k \in Nat /\ 1..k \in SUBSET (1..k) /\ k \in 1..k
    OBVIOUS
  <1>2. Max(1..k) = k
    BY <1>1, WithTop
  <1>3. QED
    BY <1>2

(* The accumulators of a fold, one after the other.                          *)
Runs(g, op, base, n, s, last) ==
    /\ g[0] = base /\ g[n] = last
    /\ \A k \in 1..n : g[k] = op[<<g[k - 1], s[k]>>] /\ <<g[k - 1], s[k]>> \in DOMAIN op

Unfolds(it, op, base, n, s) ==
    /\ it[{}] = base
    /\ \A t \in SUBSET (1..n) :
          t # {} /\ <<it[t \ {Max(t)}], s[Max(t)]>> \in DOMAIN op
          => it[t] = op[<<it[t \ {Max(t)}], s[Max(t)]>>]

LEMMA FoldRuns ==
    ASSUME NEW A, NEW X, NEW op \in [A \X X -> A], NEW base \in A,
           NEW n \in Nat, NEW s \in [1..n -> X],
           NEW it, Unfolds(it, op, base, n, s)
    PROVE  \E g \in [0..n -> A] : Runs(g, op, base, n, s, it[1..n])
  <1> DEFINE g == [k \in 0..n |-> it[1..k]]
             T == {k \in 0..n : it[1..k] \in A}
  <1>1. ASSUME NEW k \in 1..n, it[1..(k-1)] \in A
        PROVE  it[1..k] = op[<<it[1..(k-1)], s[k]>>] /\ it[1..k] \in A
    <2>1. /\ Max(1..k) = k /\ (1..k) \ {k} = 1..(k-1) /\ 1..k # {}
          /\ 1..k \in SUBSET (1..n)
      BY Interval
    <2>2. <<it[1..(k-1)], s[k]>> \in A \X X
      BY <1>1
    <2>3. it[1..k] = op[<<it[1..(k-1)], s[k]>>]
      BY <2>1, <2>2 DEF Unfolds
    <2>4. QED
      BY <2>2, <2>3
  <1>2. \A k \in 0..n : k \in T
    <2>1. 0 \in T
      <3>1. 1..0 = {} /\ 0 \in 0..n
        OBVIOUS
      <3>2. QED
        BY <3>1 DEF Unfolds
    <2>2. ASSUME NEW k \in 1..n, k - 1 \in T  PROVE k \in T
      <3>1. k \in 0..n /\ it[1..(k-1)] \in A
        BY <2>2
      <3>2. QED
        BY <3>1, <1>1
    <2> HIDE DEF T
    <2>3. QED
      BY <2>1, <2>2, UpTo
  <1>3. g \in [0..n -> A]
    BY <1>2
  <1>4. Runs(g, op, base, n, s, it[1..n])
    <2>1. g[0] = base
      <3>1. 1..0 = {} /\ 0 \in 0..n
        OBVIOUS
      <3>2. QED
        BY <3>1 DEF Unfolds
    <2>2. ASSUME NEW k \in 1..n
          PROVE  g[k] = op[<<g[k-1], s[k]>>] /\ <<g[k - 1], s[k]>> \in DOMAIN op
      <3>1. k \in 0..n /\ k - 1 \in 0..n /\ it[1..(k-1)] \in A /\ s[k] \in X
        BY <1>2
      <3>2. g[k] = it[1..k] /\ g[k-1] = it[1..(k-1)]
        BY <3>1
      <3> HIDE DEF g
      <3>3. g[k] = op[<<g[k-1], s[k]>>]
        BY <3>1, <3>2, <1>1
      <3>4. <<g[k - 1], s[k]>> \in DOMAIN op
        BY <3>1, <3>2
      <3>5. QED
        BY <3>3, <3>4
    <2>3. g[n] = it[1..n]
      OBVIOUS
    <2> HIDE DEF g
    <2>4. QED
      BY <2>1, <2>2, <2>3 DEF Runs
  <1>5. QED
    <2> HIDE DEF g
    <2> QED BY <1>3, <1>4

OnlyRun(g, list, S) ==
    /\ g[0] = <<>> /\ g[Len(list)] = Only(list, S)
    /\ \A k \in 1..Len(list) :
          g[k] = IF list[k] \in S THEN Append(g[k-1], list[k]) ELSE g[k-1]

LEMMA OnlyRuns ==
    ASSUME NEW X, NEW list \in Seq(X), NEW S
    PROVE  \E g \in [0..Len(list) -> Seq(X)] : OnlyRun(g, list, S)
  <1> DEFINE n == Len(list)
             A == Seq(X)
             op == [p \in A \X X |-> IF p[2] \in S THEN Append(p[1], p[2]) ELSE p[1]]
             Eq(h) == h = [t \in SUBSET DOMAIN list |-> IF t = {} THEN <<>>
                             ELSE IF list[Max(t)] \in S THEN Append(h[t \ {Max(t)}], list[Max(t)])
                                  ELSE h[t \ {Max(t)}]]
             it == CHOOSE h : Eq(h)
  <1>1. /\ op \in [A \X X -> A] /\ <<>> \in A /\ n \in Nat /\ list \in [1..n -> X]
        /\ DOMAIN list = 1..n
    OBVIOUS
  <1>2. PICK h \in [SUBSET (1..n) -> A] : Folds(h, op, <<>>, n, list)
    <2> HIDE DEF op, A, n
    <2> QED BY <1>1, FoldExists
  <1>3. Eq(h)
    BY <1>1, <1>2 DEF Folds
  <1>4. Eq(it)
    <2> HIDE DEF Eq
    <2> QED BY <1>3
  <1>5. Only(list, S) = it[1..n]
    BY <1>1 DEF Only, FoldLeft, MapThenFoldSet
  <1> HIDE DEF it
  <1>6. Unfolds(it, op, <<>>, n, list)
    BY <1>1, <1>4 DEF Unfolds
  <1>7. PICK g \in [0..n -> A] : Runs(g, op, <<>>, n, list, it[1..n])
    <2> HIDE DEF op, A, n, Eq
    <2> QED BY <1>1, <1>6, FoldRuns
  <1>8. QED
    BY <1>5, <1>7 DEF Runs, OnlyRun

--------------------------------------------------------------------------------
(* Lists                                                                     *)

LEMMA Appended ==
    ASSUME NEW X, NEW list \in Seq(X), NEW x \in X
    PROVE  /\ Append(list, x) \in Seq(X)
           /\ Len(Append(list, x)) = Len(list) + 1
           /\ DOMAIN Append(list, x) = 1..(Len(list) + 1)
           /\ \A i \in DOMAIN list : Append(list, x)[i] = list[i]
           /\ Append(list, x)[Len(list) + 1] = x
           /\ ToSet(Append(list, x)) = ToSet(list) \cup {x}
           /\ IsInjective(list) /\ x \notin ToSet(list) => IsInjective(Append(list, x))
  <1> DEFINE more == Append(list, x)
  <1>1. /\ Len(list) \in Nat /\ DOMAIN list = 1..Len(list)
        /\ more \in Seq(X) /\ Len(more) = Len(list) + 1 /\ DOMAIN more = 1..(Len(list) + 1)
        /\ \A i \in 1..Len(list) : more[i] = list[i]
        /\ more[Len(list) + 1] = x
    OBVIOUS
  <1> HIDE DEF more
  <1>2. ToSet(more) = ToSet(list) \cup {x}
    <2>1. ASSUME NEW y \in ToSet(more)  PROVE y \in ToSet(list) \cup {x}
      <3>1. PICK i \in 1..(Len(list) + 1) : more[i] = y
        BY <1>1 DEF ToSet
      <3>2. CASE i = Len(list) + 1
        BY <3>1, <3>2, <1>1
      <3>3. CASE i # Len(list) + 1
        <4>1. i \in 1..Len(list)
          BY <3>3, <1>1
        <4>2. QED
          BY <4>1, <3>1, <1>1 DEF ToSet
      <3>4. QED
        BY <3>2, <3>3
    <2>2. ASSUME NEW y \in ToSet(list)  PROVE y \in ToSet(more)
      <3>1. PICK i \in 1..Len(list) : list[i] = y
        BY <1>1 DEF ToSet
      <3>2. i \in 1..(Len(list) + 1) /\ more[i] = y
        BY <3>1, <1>1
      <3>3. QED
        BY <3>2, <1>1 DEF ToSet
    <2>3. x \in ToSet(more)
      <3>1. Len(list) + 1 \in 1..(Len(list) + 1)
        BY <1>1
      <3>2. QED
        BY <3>1, <1>1 DEF ToSet
    <2>4. QED
      BY <2>1, <2>2, <2>3
  <1>3. ASSUME IsInjective(list), x \notin ToSet(list)  PROVE IsInjective(more)
    <2> SUFFICES ASSUME NEW i \in 1..(Len(list) + 1), NEW j \in 1..(Len(list) + 1), more[i] = more[j]
                 PROVE  i = j
      BY <1>1 DEF IsInjective
    <2>1. ASSUME NEW a \in 1..Len(list)  PROVE more[a] = list[a] /\ list[a] # x /\ a \in DOMAIN list
      BY <1>1, <1>3 DEF ToSet
    <2>2. \A a \in 1..(Len(list) + 1) : a = Len(list) + 1 \/ a \in 1..Len(list)
      BY <1>1
    <2>3. CASE i = Len(list) + 1 \/ j = Len(list) + 1
      BY <2>1, <2>2, <2>3, <1>1
    <2>4. CASE i \in 1..Len(list) /\ j \in 1..Len(list)
      BY <2>1, <2>4, <1>3 DEF IsInjective
    <2>5. QED
      BY <2>2, <2>3, <2>4
  <1>4. QED
    BY <1>1, <1>2, <1>3 DEF more

(* Items of a list up to a place.                                            *)
Upto(list, k) == {list[i] : i \in 1..k}

LEMMA UptoFact ==
    ASSUME NEW X, NEW list \in Seq(X)
    PROVE  /\ Upto(list, 0) = {}
           /\ Upto(list, Len(list)) = ToSet(list)
           /\ \A k \in 1..Len(list) :
                 /\ Upto(list, k) = Upto(list, k - 1) \cup {list[k]}
                 /\ IsInjective(list) => list[k] \notin Upto(list, k - 1)
  <1>1. Len(list) \in Nat /\ DOMAIN list = 1..Len(list)
    OBVIOUS
  <1>2. Upto(list, 0) = {}
    <2>1. 1..0 = {}
      OBVIOUS
    <2>2. QED
      BY <2>1 DEF Upto
  <1>3. Upto(list, Len(list)) = ToSet(list)
    BY <1>1 DEF Upto, ToSet
  <1>4. ASSUME NEW k \in 1..Len(list)
        PROVE  /\ Upto(list, k) = Upto(list, k - 1) \cup {list[k]}
               /\ IsInjective(list) => list[k] \notin Upto(list, k - 1)
    <2>1. /\ 1..k = (1..(k-1)) \cup {k}
          /\ \A i \in 1..(k-1) : i # k /\ i \in 1..Len(list)
      BY <1>1
    <2>2. Upto(list, k) = Upto(list, k - 1) \cup {list[k]}
      BY <2>1 DEF Upto
    <2>3. IsInjective(list) => list[k] \notin Upto(list, k - 1)
      BY <2>1, <1>1 DEF Upto, IsInjective
    <2>4. QED
      BY <2>2, <2>3
  <1>5. QED
    BY <1>2, <1>3, <1>4

(* What Only keeps of a list.                                                *)
LEMMA OnlyFact ==
    ASSUME NEW X, NEW list \in Seq(X), NEW S
    PROVE  /\ Only(list, S) \in Seq(X)
           /\ ToSet(Only(list, S)) = ToSet(list) \cap S
           /\ IsInjective(list) => IsInjective(Only(list, S))
  <1>0. PICK g \in [0..Len(list) -> Seq(X)] : OnlyRun(g, list, S)
    BY OnlyRuns
  <1>1. /\ g[0] = <<>> /\ g[Len(list)] = Only(list, S)
        /\ \A k \in 1..Len(list) :
              g[k] = IF list[k] \in S THEN Append(g[k-1], list[k]) ELSE g[k-1]
    BY <1>0 DEF OnlyRun
  <1>2. Len(list) \in Nat /\ DOMAIN list = 1..Len(list) /\ 0 \in 0..Len(list) /\ Len(list) \in 0..Len(list)
    OBVIOUS
  <1> DEFINE T == {k \in 0..Len(list) :
                     /\ ToSet(g[k]) = Upto(list, k) \cap S
                     /\ IsInjective(list) => IsInjective(g[k])}
  <1>3. 0 \in T
    <2>1. ToSet(<<>>) = {} /\ IsInjective(<<>>)
      BY DEF ToSet, IsInjective
    <2>2. Upto(list, 0) = {}
      BY UptoFact
    <2>3. QED
      BY <2>1, <2>2, <1>1, <1>2
  <1>4. ASSUME NEW k \in 1..Len(list), k - 1 \in T  PROVE k \in T
    <2>0. k - 1 \in 0..Len(list) /\ k \in 0..Len(list)
      <3> HIDE DEF T
      <3> QED BY <1>2
    <2>1. /\ k - 1 \in 0..Len(list) /\ k \in 0..Len(list) /\ list[k] \in X
          /\ g[k-1] \in Seq(X)
      <3> HIDE DEF T
      <3>1. list[k] \in X
        BY <1>2
      <3>2. g[k-1] \in Seq(X)
        BY <2>0
      <3> QED BY <2>0, <3>1, <3>2
    <2>2. /\ Upto(list, k) = Upto(list, k - 1) \cup {list[k]}
          /\ IsInjective(list) => list[k] \notin Upto(list, k - 1)
      BY UptoFact
    <2>3. g[k] = IF list[k] \in S THEN Append(g[k-1], list[k]) ELSE g[k-1]
      BY <1>1
    <2>4. /\ ToSet(Append(g[k-1], list[k])) = ToSet(g[k-1]) \cup {list[k]}
          /\ IsInjective(g[k-1]) /\ list[k] \notin ToSet(g[k-1]) => IsInjective(Append(g[k-1], list[k]))
      BY <2>1, Appended
    <2>5. /\ ToSet(g[k-1]) = Upto(list, k - 1) \cap S
          /\ IsInjective(list) => IsInjective(g[k-1])
      BY <1>4
    <2>6. CASE list[k] \in S
      BY <2>1, <2>2, <2>3, <2>4, <2>5, <2>6
    <2>7. CASE list[k] \notin S
      BY <2>1, <2>2, <2>3, <2>5, <2>7
    <2>8. QED
      BY <2>6, <2>7
  <1>5. Len(list) \in T
    <2> HIDE DEF T
    <2>1. \A k \in 0..Len(list) : k \in T
      BY <1>2, <1>3, <1>4, UpTo
    <2>2. QED
      BY <2>1, <1>2
  <1>6. QED
    BY <1>1, <1>2, <1>5, UptoFact

LEMMA Joined ==
    ASSUME NEW X, NEW a \in Seq(X), NEW b \in Seq(X)
    PROVE  a \o b \in Seq(X) /\ ToSet(a \o b) = ToSet(a) \cup ToSet(b)
  <1> DEFINE c == a \o b
  <1>1. /\ Len(a) \in Nat /\ Len(b) \in Nat
        /\ DOMAIN a = 1..Len(a) /\ DOMAIN b = 1..Len(b)
        /\ c \in Seq(X) /\ DOMAIN c = 1..(Len(a) + Len(b))
        /\ \A i \in 1..(Len(a) + Len(b)) :
              c[i] = IF i <= Len(a) THEN a[i] ELSE b[i - Len(a)]
    OBVIOUS
  <1> HIDE DEF c
  <1>2. ASSUME NEW x \in ToSet(c)  PROVE x \in ToSet(a) \cup ToSet(b)
    <2>1. PICK i \in 1..(Len(a) + Len(b)) : c[i] = x
      BY <1>1 DEF ToSet
    <2>2. CASE i <= Len(a)
      <3>1. i \in 1..Len(a) /\ a[i] = x
        BY <1>1, <2>1, <2>2
      <3>2. QED
        BY <3>1, <1>1 DEF ToSet
    <2>3. CASE ~(i <= Len(a))
      <3>1. i - Len(a) \in 1..Len(b) /\ b[i - Len(a)] = x
        BY <1>1, <2>1, <2>3
      <3>2. QED
        BY <3>1, <1>1 DEF ToSet
    <2>4. QED
      BY <2>2, <2>3
  <1>3. ASSUME NEW x \in ToSet(a)  PROVE x \in ToSet(c)
    <2>1. PICK i \in 1..Len(a) : a[i] = x
      BY <1>1 DEF ToSet
    <2>2. i \in 1..(Len(a) + Len(b)) /\ c[i] = x
      BY <1>1, <2>1
    <2>3. QED
      BY <2>2, <1>1 DEF ToSet
  <1>4. ASSUME NEW x \in ToSet(b)  PROVE x \in ToSet(c)
    <2>1. PICK i \in 1..Len(b) : b[i] = x
      BY <1>1 DEF ToSet
    <2>2. i + Len(a) \in 1..(Len(a) + Len(b)) /\ ~(i + Len(a) <= Len(a)) /\ i + Len(a) - Len(a) = i
      BY <1>1
    <2>3. c[i + Len(a)] = x
      BY <1>1, <2>1, <2>2
    <2>4. QED
      BY <2>2, <2>3, <1>1 DEF ToSet
  <1>5. QED
    BY <1>1, <1>2, <1>3, <1>4 DEF c

LEMMA OwnItems ==
    ASSUME NEW X, NEW list \in Seq(X)
    PROVE  list \in Seq(ToSet(list)) /\ ToSet(list) \subseteq X
  BY DEF ToSet

--------------------------------------------------------------------------------
(* What is decided of the tracked findings                                   *)

KeepRun(g, list) ==
    /\ g[0] = <<>> /\ g[Len(list)] = FoldLeft(Keep, <<>>, list)
    /\ \A k \in 1..Len(list) : g[k] = Keep(g[k-1], list[k])

LEMMA KeepRuns ==
    ASSUME NEW X, NEW list \in Seq(X)
    PROVE  \E g \in [0..Len(list) -> Seq(X)] : KeepRun(g, list)
  <1> DEFINE n == Len(list)
             A == Seq(X)
             op == [p \in A \X X |-> Keep(p[1], p[2])]
             Eq(h) == h = [t \in SUBSET DOMAIN list |-> IF t = {} THEN <<>>
                             ELSE Keep(h[t \ {Max(t)}], list[Max(t)])]
             it == CHOOSE h : Eq(h)
  <1>1. /\ op \in [A \X X -> A] /\ <<>> \in A /\ n \in Nat /\ list \in [1..n -> X]
        /\ DOMAIN list = 1..n
    BY DEF Keep
  <1>2. PICK h \in [SUBSET (1..n) -> A] : Folds(h, op, <<>>, n, list)
    <2> HIDE DEF op, A, n
    <2> QED BY <1>1, FoldExists
  <1>3. Eq(h)
    BY <1>1, <1>2 DEF Folds
  <1>4. Eq(it)
    <2> HIDE DEF Eq
    <2> QED BY <1>3
  <1>5. FoldLeft(Keep, <<>>, list) = it[1..n]
    BY <1>1 DEF FoldLeft, MapThenFoldSet
  <1> HIDE DEF it
  <1>6. Unfolds(it, op, <<>>, n, list)
    BY <1>1, <1>4 DEF Unfolds
  <1>7. PICK g \in [0..n -> A] : Runs(g, op, <<>>, n, list, it[1..n])
    <2> HIDE DEF op, A, n, Eq
    <2> QED BY <1>1, <1>6, FoldRuns
  <1>8. QED
    BY <1>5, <1>7 DEF Runs, KeepRun

(* A finding that is not kept is the same issue as another that is.          *)
LEMMA KeptFact ==
    ASSUME known \in Seq(KnownFinding)
    PROVE  /\ KeptKnown \subseteq ToSet(known)
           /\ \A k \in ToSet(known) \ KeptKnown :
                 \E o \in ToSet(known) : o.id # k.id /\ SameIssue(Signature(o), Signature(k))
  <1> DEFINE K == ToSet(known)
             list == KnownIn("branch") \o KnownIn("pr")
  <1>1. known \in Seq(K) /\ K \subseteq KnownFinding
    BY OwnItems
  <1>2. /\ KnownIn("branch") \in Seq(K) /\ KnownIn("pr") \in Seq(K)
        /\ ToSet(KnownIn("branch")) = {k \in K : k.scope = "branch"}
        /\ ToSet(KnownIn("pr")) = {k \in K : k.scope = "pr"}
    <2> HIDE DEF K
    <2>1. ASSUME NEW scope
          PROVE  KnownIn(scope) \in Seq(K) /\ ToSet(KnownIn(scope)) = {k \in K : k.scope = scope}
      <3>1. /\ Only(known, {k \in K : k.scope = scope}) \in Seq(K)
            /\ ToSet(Only(known, {k \in K : k.scope = scope})) = ToSet(known) \cap {k \in K : k.scope = scope}
        BY <1>1, OnlyFact
      <3>2. QED
        BY <3>1 DEF KnownIn, K
    <2>2. QED
      BY <2>1
  <1>3. list \in Seq(K) /\ ToSet(list) = K
    <2> HIDE DEF K
    <2>1. list \in Seq(K) /\ ToSet(list) = ToSet(KnownIn("branch")) \cup ToSet(KnownIn("pr"))
      BY <1>2, Joined
    <2>2. \A k \in K : k.scope \in {"pr", "branch"}
      BY <1>1 DEF KnownFinding, Scope
    <2>3. QED
      BY <1>2, <2>1, <2>2
  <1> HIDE DEF list, K
  <1>4. PICK g \in [0..Len(list) -> Seq(K)] : KeepRun(g, list)
    BY <1>3, KeepRuns
  <1>5. Len(list) \in Nat /\ 0 \in 0..Len(list) /\ Len(list) \in 0..Len(list) /\ DOMAIN list = 1..Len(list)
    BY <1>3
  <1> DEFINE Done(some, k) ==
                 k \in ToSet(some) \/ \E o \in ToSet(some) : o.id # k.id /\ SameIssue(Signature(o), Signature(k))
             T == {m \in 0..Len(list) : \A k \in Upto(list, m) : Done(g[m], k)}
  <1>6. 0 \in T
    BY <1>3, <1>5, UptoFact
  <1>7. ASSUME NEW m \in 1..Len(list), m - 1 \in T  PROVE m \in T
    <2>1. m \in 0..Len(list) /\ m - 1 \in 0..Len(list) /\ list[m] \in K /\ g[m-1] \in Seq(K)
      BY <1>3, <1>5
    <2>2. Upto(list, m) = Upto(list, m - 1) \cup {list[m]}
      BY <1>3, UptoFact
    <2>3. g[m] = Keep(g[m-1], list[m])
      BY <1>4 DEF KeepRun
    <2>4. ToSet(Append(g[m-1], list[m])) = ToSet(g[m-1]) \cup {list[m]}
      BY <2>1, Appended
    <2>5. ToSet(g[m-1]) \subseteq ToSet(g[m])
      BY <2>3, <2>4 DEF Keep
    <2>6. Done(g[m], list[m])
      <3>1. CASE \E i \in DOMAIN g[m-1] : g[m-1][i].id # list[m].id
                                         /\ SameIssue(Signature(g[m-1][i]), Signature(list[m]))
        <4>1. PICK o \in ToSet(g[m-1]) : o.id # list[m].id /\ SameIssue(Signature(o), Signature(list[m]))
          BY <3>1 DEF ToSet
        <4>2. QED
          BY <4>1, <2>5
      <3>2. CASE ~\E i \in DOMAIN g[m-1] : g[m-1][i].id # list[m].id
                                          /\ SameIssue(Signature(g[m-1][i]), Signature(list[m]))
        BY <3>2, <2>3, <2>4 DEF Keep
      <3>3. QED
        BY <3>1, <3>2
    <2>7. ASSUME NEW k \in Upto(list, m - 1)  PROVE Done(g[m], k)
      <3>1. Done(g[m-1], k)
        BY <1>7
      <3>2. QED
        BY <3>1, <2>5
    <2> HIDE DEF Done
    <2>8. QED
      BY <2>1, <2>2, <2>6, <2>7
  <1>8. Len(list) \in T
    <2> HIDE DEF T
    <2>1. \A m \in 0..Len(list) : m \in T
      BY <1>5, <1>6, <1>7, UpTo
    <2>2. QED
      BY <2>1, <1>5
  <1>9. KeptKnown = ToSet(g[Len(list)]) /\ ToSet(g[Len(list)]) \subseteq K
    <2>1. KeptKnown = ToSet(g[Len(list)])
      BY <1>4 DEF KeptKnown, KeepRun, list
    <2>2. g[Len(list)] \in Seq(K)
      BY <1>5
    <2>3. QED
      BY <2>1, <2>2, OwnItems
  <1>10. \A k \in K : Done(g[Len(list)], k)
    BY <1>3, <1>8, UptoFact
  <1>11. QED
    BY <1>9, <1>10 DEF K

DistinctIds(list) == \A i, j \in DOMAIN list : list[i].id = list[j].id => i = j

LEMMA AgainFact ==
    ASSUME NEW X, NEW list \in Seq(X), NEW k \in X
    PROVE  /\ Again(list, k) \in Seq(X)
           /\ DistinctIds(list) => DistinctIds(Again(list, k))
           /\ Has(Again(list, k), k.id)
           /\ \A id : Has(list, id) => Has(Again(list, k), id)
  <1>1. Len(list) \in Nat /\ DOMAIN list = 1..Len(list) /\ \A i \in DOMAIN list : list[i] \in X
    OBVIOUS
  <1>2. CASE \E i \in DOMAIN list : list[i].id = k.id
    <2> DEFINE new == [i \in DOMAIN list |-> IF list[i].id = k.id THEN k ELSE list[i]]
    <2>1. Again(list, k) = new
      BY <1>2 DEF Again
    <2>2. new \in Seq(X)
      <3>1. new \in [1..Len(list) -> X]
        BY <1>1
      <3> HIDE DEF new
      <3>2. QED
        BY <3>1, <1>1
    <2>3. DOMAIN new = DOMAIN list /\ \A i \in DOMAIN list : new[i].id = list[i].id
      OBVIOUS
    <2> HIDE DEF new
    <2>4. Has(new, k.id) /\ \A id : Has(list, id) => Has(new, id)
      BY <1>2, <2>3 DEF Has
    <2>5. QED
      BY <2>1, <2>2, <2>3, <2>4 DEF DistinctIds
  <1>3. CASE ~\E i \in DOMAIN list : list[i].id = k.id
    <2> DEFINE new == Append(list, k)
    <2>1. Again(list, k) = new
      BY <1>3 DEF Again
    <2>2. /\ new \in Seq(X) /\ DOMAIN new = 1..(Len(list) + 1)
          /\ \A i \in DOMAIN list : new[i] = list[i]
          /\ new[Len(list) + 1] = k
      BY Appended
    <2> HIDE DEF new
    <2>3. \A i \in DOMAIN new : i \in DOMAIN list \/ i = Len(list) + 1
      BY <1>1, <2>2
    <2>4. \A i \in DOMAIN list : i \in DOMAIN new
      BY <1>1, <2>2
    <2>5. Len(list) + 1 \in DOMAIN new
      BY <1>1, <2>2
    <2>6. Has(new, k.id) /\ \A id : Has(list, id) => Has(new, id)
      BY <2>2, <2>4, <2>5 DEF Has
    <2>7. ASSUME DistinctIds(list), NEW i \in DOMAIN new, NEW j \in DOMAIN new, new[i].id = new[j].id
          PROVE  i = j
      <3>1. CASE i \in DOMAIN list /\ j \in DOMAIN list
        BY <3>1, <2>2, <2>7 DEF DistinctIds
      <3>2. CASE i = Len(list) + 1 \/ j = Len(list) + 1
        BY <3>2, <1>3, <2>2, <2>3, <2>7
      <3>3. QED
        BY <3>1, <3>2, <2>3
    <2>8. QED
      BY <2>1, <2>2, <2>6, <2>7 DEF DistinctIds
  <1>4. QED
    BY <1>2, <1>3

(* What can be decided of a finding before a model is asked.                 *)
Decisions ==
    Duplicates
    \cup {Outcome(k, "fixed_removed") : k \in {k \in ToSet(known) : Change(k) = "deleted"}}
    \cup {Outcome(k, "carried_unchanged") : k \in ToSet(known)}
    \cup {Outcome(k, "carried_incomplete") : k \in ToSet(known)}

Plan == [decided : SUBSET Decisions, rechecks : {list \in Seq(ToSet(known)) : DistinctIds(list)}]

PlanRun(g, limit) ==
    /\ g[0] = [decided |-> Duplicates, rechecks |-> <<>>]
    /\ g[Len(known)] = PlanKnown(limit)
    /\ \A k \in 1..Len(known) : g[k] = PlanStep(limit, g[k-1], known[k])

LEMMA PlanStepType ==
    ASSUME NEW limit, NEW plan \in Plan, NEW k \in ToSet(known)
    PROVE  /\ PlanStep(limit, plan, k) \in Plan
           /\ plan.decided \subseteq PlanStep(limit, plan, k).decided
           /\ \A id : Has(plan.rechecks, id) => Has(PlanStep(limit, plan, k).rechecks, id)
           /\ Relevant(k) => \/ Decides(PlanStep(limit, plan, k).decided, k.id)
                             \/ Has(PlanStep(limit, plan, k).rechecks, k.id)
  <1> DEFINE next == PlanStep(limit, plan, k)
  <1>1. /\ plan.decided \subseteq Decisions /\ plan.rechecks \in Seq(ToSet(known))
        /\ DistinctIds(plan.rechecks)
    BY DEF Plan
  <1>3. CASE ~Relevant(k) \/ Decides(plan.decided, k.id)
    <2>1. next = plan
      BY <1>3 DEF PlanStep
    <2>2. QED
      BY <1>3, <2>1
  <1>4. ASSUME NEW what, Outcome(k, what) \in Decisions, next = Deciding(plan, k, what)
        PROVE  /\ next \in Plan
               /\ plan.decided \subseteq next.decided /\ next.rechecks = plan.rechecks
               /\ Decides(next.decided, k.id)
    <2>1. next.decided = plan.decided \cup {Outcome(k, what)} /\ next.rechecks = plan.rechecks
      BY <1>4 DEF Deciding
    <2>2. next \in Plan
      BY <1>1, <1>4 DEF Deciding, Plan
    <2>3. Outcome(k, what).id = k.id
      BY DEF Outcome
    <2>4. QED
      BY <2>1, <2>2, <2>3 DEF Decides
  <1>5. CASE ~(~Relevant(k) \/ Decides(plan.decided, k.id))
    <2>1. CASE Change(k) = "deleted"
      <3>1. next = Deciding(plan, k, "fixed_removed")
        BY <1>5, <2>1 DEF PlanStep
      <3>2. Outcome(k, "fixed_removed") \in Decisions
        BY <2>1 DEF Decisions
      <3>3. QED
        BY <3>1, <3>2, <1>4
    <2>2. CASE Change(k) # "deleted" /\ Change(k) = "unchanged" /\ k.scope = "pr"
      <3>1. next = Deciding(plan, k, "carried_unchanged")
        BY <1>5, <2>2 DEF PlanStep
      <3>2. Outcome(k, "carried_unchanged") \in Decisions
        BY DEF Decisions
      <3>3. QED
        BY <3>1, <3>2, <1>4
    <2>3. CASE Change(k) # "deleted" /\ ~(Change(k) = "unchanged" /\ k.scope = "pr") /\ Len(plan.rechecks) < limit
      <3>1. next = [decided |-> plan.decided, rechecks |-> Again(plan.rechecks, k)]
        BY <1>5, <2>3 DEF PlanStep
      <3> DEFINE more == Again(plan.rechecks, k)
      <3>2. /\ more \in Seq(ToSet(known)) /\ DistinctIds(more)
            /\ Has(more, k.id) /\ \A id : Has(plan.rechecks, id) => Has(more, id)
        BY <1>1, AgainFact
      <3> HIDE DEF more
      <3>3. next = [decided |-> plan.decided, rechecks |-> more]
        BY <3>1 DEF more
      <3>4. next.decided = plan.decided /\ next.rechecks = more
        BY <3>3
      <3>5. next \in Plan
        BY <3>2, <3>3, <1>1 DEF Plan
      <3> HIDE DEF next
      <3>6. QED
        BY <3>2, <3>4, <3>5 DEF next
    <2>4. CASE Change(k) # "deleted" /\ ~(Change(k) = "unchanged" /\ k.scope = "pr") /\ ~(Len(plan.rechecks) < limit)
      <3>1. next = Deciding(plan, k, "carried_incomplete")
        BY <1>5, <2>4 DEF PlanStep
      <3>2. Outcome(k, "carried_incomplete") \in Decisions
        BY DEF Decisions
      <3>3. QED
        BY <3>1, <3>2, <1>4
    <2>5. QED
      BY <2>1, <2>2, <2>3, <2>4
  <1>6. QED
    BY <1>3, <1>5

LEMMA PlanRuns ==
    ASSUME NEW limit, known \in Seq(KnownFinding)
    PROVE  \E g \in [0..Len(known) -> Plan] : PlanRun(g, limit)
  <1> DEFINE n == Len(known)
             X == ToSet(known)
             base == [decided |-> Duplicates, rechecks |-> <<>>]
             op == [p \in Plan \X X |-> PlanStep(limit, p[1], p[2])]
             Eq(h) == h = [t \in SUBSET DOMAIN known |-> IF t = {} THEN base
                             ELSE PlanStep(limit, h[t \ {Max(t)}], known[Max(t)])]
             it == CHOOSE h : Eq(h)
  <1>1. op \in [Plan \X X -> Plan]
    BY PlanStepType
  <1>2. base \in Plan
    <2>1. <<>> \in Seq(X) /\ DistinctIds(<<>>)
      BY DEF DistinctIds
    <2>2. Duplicates \subseteq Decisions
      BY DEF Decisions
    <2>3. QED
      BY <2>1, <2>2 DEF Plan
  <1>3. n \in Nat /\ known \in [1..n -> X] /\ DOMAIN known = 1..n
    BY OwnItems
  <1>4. PICK h \in [SUBSET (1..n) -> Plan] : Folds(h, op, base, n, known)
    <2> HIDE DEF op, n, X, base
    <2> QED BY <1>1, <1>2, <1>3, FoldExists
  <1> HIDE DEF X, base
  <1>5. Eq(h)
    BY <1>1, <1>3, <1>4 DEF Folds
  <1>6. Eq(it)
    <2> HIDE DEF Eq
    <2> QED BY <1>5
  <1>7. PlanKnown(limit) = it[1..n]
    BY <1>3 DEF PlanKnown, FoldLeft, MapThenFoldSet, base
  <1> HIDE DEF it
  <1>8. Unfolds(it, op, base, n, known)
    BY <1>3, <1>6 DEF Unfolds
  <1>9. PICK g \in [0..n -> Plan] : Runs(g, op, base, n, known, it[1..n])
    <2> HIDE DEF op, n, Eq
    <2> QED BY <1>1, <1>2, <1>3, <1>8, FoldRuns
  <1>10. QED
    BY <1>7, <1>9 DEF Runs, PlanRun, base

(* Every finding that the change touches is decided or verified again.       *)
LEMMA PlanFact ==
    ASSUME NEW limit, known \in Seq(KnownFinding)
    PROVE  /\ PlanKnown(limit) \in Plan
           /\ \A k \in ToSet(known) : Relevant(k) =>
                 \/ Decides(PlanKnown(limit).decided, k.id)
                 \/ \E r \in ToSet(PlanKnown(limit).rechecks) : r.id = k.id
  <1>1. PICK g \in [0..Len(known) -> Plan] : PlanRun(g, limit)
    BY PlanRuns
  <1>2. /\ Len(known) \in Nat /\ 0 \in 0..Len(known) /\ Len(known) \in 0..Len(known)
        /\ DOMAIN known = 1..Len(known)
    OBVIOUS
  <1> DEFINE Done(plan, k) ==
                 Relevant(k) => Decides(plan.decided, k.id) \/ Has(plan.rechecks, k.id)
             T == {m \in 0..Len(known) : \A k \in Upto(known, m) : Done(g[m], k)}
  <1>3. 0 \in T
    BY <1>2, UptoFact
  <1>4. ASSUME NEW m \in 1..Len(known), m - 1 \in T  PROVE m \in T
    <2>1. m \in 0..Len(known) /\ m - 1 \in 0..Len(known) /\ known[m] \in ToSet(known) /\ g[m-1] \in Plan
      BY <1>2 DEF ToSet
    <2>2. Upto(known, m) = Upto(known, m - 1) \cup {known[m]}
      BY UptoFact
    <2>3. g[m] = PlanStep(limit, g[m-1], known[m])
      BY <1>1 DEF PlanRun
    <2>4. /\ g[m-1].decided \subseteq g[m].decided
          /\ \A id : Has(g[m-1].rechecks, id) => Has(g[m].rechecks, id)
          /\ Done(g[m], known[m])
      BY <2>1, <2>3, PlanStepType
    <2>5. ASSUME NEW k \in Upto(known, m - 1)  PROVE Done(g[m], k)
      <3>1. Done(g[m-1], k)
        BY <1>4
      <3>2. QED
        BY <3>1, <2>4 DEF Decides, ToSet
    <2> HIDE DEF Done
    <2>6. QED
      BY <2>1, <2>2, <2>4, <2>5
  <1>5. Len(known) \in T
    <2> HIDE DEF T
    <2>1. \A m \in 0..Len(known) : m \in T
      BY <1>2, <1>3, <1>4, UpTo
    <2>2. QED
      BY <2>1, <1>2
  <1>6. \A k \in ToSet(known) : Done(g[Len(known)], k)
    BY <1>5, UptoFact
  <1>7. g[Len(known)] = PlanKnown(limit) /\ g[Len(known)] \in Plan
    BY <1>1, <1>2 DEF PlanRun
  <1>8. QED
    BY <1>6, <1>7 DEF Has, ToSet

--------------------------------------------------------------------------------
(* The order of the verified reports                                         *)

Verdict ==
    {v \in [id : CandidateId \cup {RecheckId(f) : f \in Fingerprint},
            state : {"unresolved", "rejected", "verified"},
            kind : Kind \cup {NoId}, rating : Rating \cup {NoId}] :
        v.state = "verified" => v.kind \in Kind /\ v.rating \in Rating}

Weight(rating) == 2 * Severity[rating[1]] + (IF rating[2] = "doubtful" THEN 1 ELSE 0)

LEMMA WeightFact ==
    ASSUME NEW a \in Rating, NEW b \in Rating
    PROVE  Weight(a) \in Nat /\ (Stronger(a, b) <=> Weight(a) < Weight(b))
  <1>1. /\ a[1] \in {"critical", "high", "medium", "unknown"} /\ a[2] \in {"sure", "doubtful"}
        /\ b[1] \in {"critical", "high", "medium", "unknown"} /\ b[2] \in {"sure", "doubtful"}
    BY ConstantsAssumption
  <1>2. Severity["critical"] = 0 /\ Severity["high"] = 1 /\ Severity["medium"] = 2 /\ Severity["unknown"] = 3
    BY DEF Severity
  <1>3. Severity[a[1]] \in 0..3 /\ Severity[b[1]] \in 0..3
    BY <1>1, <1>2
  <1> HIDE DEF Severity
  <1>4. QED
    BY <1>1, <1>3 DEF Weight, Stronger

LEMMA BeforeFact ==
    ASSUME NEW list \in Seq(Verdict)
    PROVE  /\ VerifiedAt(list) \subseteq 1..Len(list)
           /\ \A i \in VerifiedAt(list) :
                 list[i].rating \in Rating /\ list[i].kind \in Kind /\ ~Before(list, i, i)
           /\ \A i, j \in VerifiedAt(list) :
                 /\ i # j => Before(list, i, j) \/ Before(list, j, i)
                 /\ Before(list, i, j) => ~Stronger(list[j].rating, list[i].rating)
           /\ \A i, j, k \in VerifiedAt(list) :
                 Before(list, i, j) /\ Before(list, j, k) => Before(list, i, k)
  <1>1. VerifiedAt(list) \subseteq 1..Len(list) /\ VerifiedAt(list) \subseteq Nat
    BY DEF VerifiedAt
  <1>2. \A i \in VerifiedAt(list) : list[i].rating \in Rating /\ list[i].kind \in Kind
    BY DEF VerifiedAt, Verdict
  <1> DEFINE w(i) == Weight(list[i].rating)
  <1>3. ASSUME NEW i \in VerifiedAt(list), NEW j \in VerifiedAt(list)
        PROVE  /\ w(i) \in Nat /\ w(j) \in Nat
               /\ Stronger(list[i].rating, list[j].rating) <=> w(i) < w(j)
               /\ Before(list, i, j) <=> w(i) < w(j) \/ (~(w(j) < w(i)) /\ i < j)
    <2>1. list[i].rating \in Rating /\ list[j].rating \in Rating
      BY <1>2
    <2>2. /\ w(i) \in Nat /\ w(j) \in Nat
          /\ Stronger(list[i].rating, list[j].rating) <=> w(i) < w(j)
          /\ Stronger(list[j].rating, list[i].rating) <=> w(j) < w(i)
      BY <2>1, WeightFact
    <2>3. QED
      BY <2>2 DEF Before
  <1> HIDE DEF w
  <1>4. ASSUME NEW i \in VerifiedAt(list), NEW j \in VerifiedAt(list)
        PROVE  /\ i # j => Before(list, i, j) \/ Before(list, j, i)
               /\ Before(list, i, j) => ~Stronger(list[j].rating, list[i].rating)
    BY <1>1, <1>3
  <1>5. ASSUME NEW i \in VerifiedAt(list)  PROVE ~Before(list, i, i)
    BY <1>1, <1>3
  <1>6. ASSUME NEW i \in VerifiedAt(list), NEW j \in VerifiedAt(list), NEW k \in VerifiedAt(list),
               Before(list, i, j), Before(list, j, k)
        PROVE  Before(list, i, k)
    <2>1. i \in Nat /\ j \in Nat /\ k \in Nat
      BY <1>1
    <2>2. w(i) < w(j) \/ (~(w(j) < w(i)) /\ i < j)
      BY <1>3, <1>6
    <2>3. w(j) < w(k) \/ (~(w(k) < w(j)) /\ j < k)
      BY <1>3, <1>6
    <2>4. w(i) < w(k) \/ (~(w(k) < w(i)) /\ i < k)
      BY <1>3, <2>1, <2>2, <2>3
    <2>5. QED
      BY <1>3, <2>4
  <1>7. QED
    BY <1>1, <1>2, <1>4, <1>5, <1>6

(* How many reports are before the one at i.                                 *)
Rank(list, i) == Cardinality({j \in VerifiedAt(list) : Before(list, j, i)})

LEMMA RankFact ==
    ASSUME NEW list \in Seq(Verdict)
    PROVE  /\ IsFiniteSet(VerifiedAt(list)) /\ Cardinality(VerifiedAt(list)) \in Nat
           /\ \A i \in VerifiedAt(list) : Rank(list, i) \in 0..(Cardinality(VerifiedAt(list)) - 1)
           /\ \A i, j \in VerifiedAt(list) :
                 /\ Before(list, i, j) => Rank(list, i) < Rank(list, j)
                 /\ Rank(list, i) = Rank(list, j) => i = j
  <1> DEFINE all == VerifiedAt(list)
             B(i) == {j \in all : Before(list, j, i)}
  <1>1. IsFiniteSet(all)
    <2>1. IsFiniteSet(1..Len(list))
      BY FS_Interval
    <2>2. QED
      BY <2>1, BeforeFact, FS_Subset
  <1>2. Cardinality(all) \in Nat
    BY <1>1, FS_CardinalityType
  <1> HIDE DEF all
  <1>3. \A S, U : IsFiniteSet(U) /\ S \subseteq U /\ S # U =>
              /\ Cardinality(S) \in Nat /\ Cardinality(U) \in Nat
              /\ Cardinality(S) < Cardinality(U)
    <2> SUFFICES ASSUME NEW S, NEW U, IsFiniteSet(U), S \subseteq U, S # U
                 PROVE  /\ Cardinality(S) \in Nat /\ Cardinality(U) \in Nat
                        /\ Cardinality(S) < Cardinality(U)
      OBVIOUS
    <2>1. /\ IsFiniteSet(S) /\ Cardinality(S) <= Cardinality(U)
          /\ Cardinality(S) # Cardinality(U)
      BY FS_Subset
    <2>2. Cardinality(S) \in Nat /\ Cardinality(U) \in Nat
      BY <2>1, FS_CardinalityType
    <2>3. QED
      BY <2>1, <2>2
  <1>4. ASSUME NEW i \in all  PROVE Rank(list, i) \in 0..(Cardinality(all) - 1)
    <2>1. B(i) \subseteq all /\ i \notin B(i)
      BY BeforeFact DEF all
    <2>2. B(i) # all
      BY <2>1
    <2>3. Rank(list, i) = Cardinality(B(i))
      BY DEF Rank, all
    <2>4. /\ Cardinality(B(i)) \in Nat /\ Cardinality(B(i)) < Cardinality(all)
      <3> HIDE DEF B
      <3> QED BY <1>1, <1>3, <2>1, <2>2
    <2> HIDE DEF B
    <2>5. QED
      BY <2>3, <2>4, <1>2
  <1>5. ASSUME NEW i \in all, NEW j \in all, Before(list, i, j)
        PROVE  Rank(list, i) < Rank(list, j)
    <2>1. B(i) \subseteq B(j)
      BY <1>5, BeforeFact DEF all
    <2>2. i \in B(j) /\ i \notin B(i)
      BY <1>5, BeforeFact DEF all
    <2>3. IsFiniteSet(B(j))
      <3>1. B(j) \subseteq all
        OBVIOUS
      <3>2. QED
        BY <3>1, <1>1, FS_Subset
    <2>4. Rank(list, i) = Cardinality(B(i)) /\ Rank(list, j) = Cardinality(B(j))
      BY DEF Rank, all
    <2> HIDE DEF B
    <2>5. QED
      BY <1>3, <2>1, <2>2, <2>3, <2>4
  <1>6. ASSUME NEW i \in all, NEW j \in all, Rank(list, i) = Rank(list, j)
        PROVE  i = j
    <2> SUFFICES ASSUME i # j  PROVE FALSE
      OBVIOUS
    <2>1. Before(list, i, j) \/ Before(list, j, i)
      BY BeforeFact DEF all
    <2>2. Rank(list, i) \in Nat /\ Rank(list, j) \in Nat
      BY <1>4, <1>2
    <2>3. QED
      BY <1>5, <1>6, <2>1, <2>2
  <1>7. QED
    BY <1>1, <1>2, <1>4, <1>5, <1>6 DEF all

(* Sorted lists every verified report once, none before a stronger one.      *)
LEMMA SortedFact ==
    ASSUME NEW list \in Seq(Verdict)
    PROVE  /\ Sorted(list) \in Seq(VerifiedAt(list))
           /\ IsInjective(Sorted(list))
           /\ \A i \in VerifiedAt(list) : \E r \in DOMAIN Sorted(list) : Sorted(list)[r] = i
           /\ \A q, r \in DOMAIN Sorted(list) : q < r =>
                 ~Stronger(list[Sorted(list)[r]].rating, list[Sorted(list)[q]].rating)
  <1> DEFINE all == VerifiedAt(list)
             n == Cardinality(all)
             rank == [i \in all |-> Rank(list, i)]
             to == Sorted(list)
  <1>1. /\ IsFiniteSet(all) /\ n \in Nat
        /\ \A i \in all : Rank(list, i) \in 0..(n - 1)
        /\ \A i, j \in all :
              /\ Before(list, i, j) => Rank(list, i) < Rank(list, j)
              /\ Rank(list, i) = Rank(list, j) => i = j
    BY RankFact
  <1>2. /\ to = [r \in 1..n |-> CHOOSE i \in all : Rank(list, i) = r - 1]
        /\ DOMAIN to = 1..n
    BY DEF Sorted, Rank
  <1> HIDE DEF all, n, to
  <1>3. rank \in Injection(all, 0..(n - 1))
    BY <1>1 DEF Injection, IsInjective
  <1>4. rank \in Surjection(all, 0..(n - 1))
    <2>1. IsFiniteSet(0..(n - 1)) /\ Cardinality(0..(n - 1)) = n
      BY <1>1, FS_Interval
    <2>2. Cardinality(all) = Cardinality(0..(n - 1))
      BY <2>1 DEF n
    <2> HIDE DEF rank
    <2>3. QED
      BY <1>3, <2>1, <2>2, FS_Injection
  <1>5. ASSUME NEW r \in 1..n  PROVE \E i \in all : Rank(list, i) = r - 1
    <2>1. r - 1 \in 0..(n - 1)
      BY <1>1
    <2>2. \E i \in all : rank[i] = r - 1
      BY <1>4, <2>1 DEF Surjection
    <2>3. QED
      BY <2>2
  <1>6. ASSUME NEW r \in 1..n  PROVE to[r] \in all /\ Rank(list, to[r]) = r - 1
    BY <1>2, <1>5
  <1>7. to \in Seq(all)
    <2>1. to \in [1..n -> all]
      <3>1. to = [r \in 1..n |-> to[r]]
        BY <1>2
      <3>2. QED
        BY <3>1, <1>6
    <2>2. QED
      BY <2>1, <1>1
  <1>8. IsInjective(to)
    <2>1. ASSUME NEW q \in 1..n, NEW r \in 1..n, to[q] = to[r]  PROVE q = r
      <3>1. q - 1 = r - 1
        BY <1>6, <2>1
      <3>2. QED
        BY <3>1, <1>1
    <2>2. QED
      BY <2>1, <1>2 DEF IsInjective
  <1>9. ASSUME NEW i \in all  PROVE \E r \in 1..n : to[r] = i
    <2>1. PICK r \in 1..n : r - 1 = Rank(list, i)
      <3>1. \A x \in 0..(n - 1) : x + 1 \in 1..n /\ x + 1 - 1 = x
        BY <1>1
      <3>2. \A x \in 0..(n - 1) : \E r \in 1..n : r - 1 = x
        BY <3>1
      <3>3. QED
        BY <3>2, <1>1
    <2>2. to[r] \in all /\ Rank(list, to[r]) = Rank(list, i)
      BY <2>1, <1>6
    <2>3. QED
      BY <2>1, <2>2, <1>1
  <1>10. ASSUME NEW q \in 1..n, NEW r \in 1..n, q < r
         PROVE  ~Stronger(list[to[r]].rating, list[to[q]].rating)
    <2>1. to[q] \in all /\ to[r] \in all /\ Rank(list, to[q]) = q - 1 /\ Rank(list, to[r]) = r - 1
      BY <1>6
    <2>2. ~Before(list, to[r], to[q]) /\ to[q] # to[r]
      BY <2>1, <1>1, <1>10
    <2>3. QED
      BY <2>1, <2>2, BeforeFact DEF all
  <1>11. QED
    BY <1>2, <1>7, <1>8, <1>9, <1>10 DEF all, to

--------------------------------------------------------------------------------
(* What merging keeps                                                        *)

LEMMA TwinFact ==
    ASSUME NEW X, NEW kept \in Seq(X), NEW v
    PROVE  LET twin == SelectInSeq(kept, LAMBDA k : SameIssue(Report(k), Report(v)))
           IN  twin = 0 \/ (twin \in DOMAIN kept /\ SameIssue(Report(kept[twin]), Report(v)))
  <1> DEFINE I == {i \in 1..Len(kept) : SameIssue(Report(kept[i]), Report(v))}
             twin == SelectInSeq(kept, LAMBDA k : SameIssue(Report(k), Report(v)))
  <1>1. twin = IF I # {} THEN Min(I) ELSE 0
    BY DEF SelectInSeq
  <1>2. I \subseteq Nat
    OBVIOUS
  <1>3. I # {} => Min(I) \in I
    <2> HIDE DEF I
    <2> QED BY <1>2, MinFact
  <1> HIDE DEF twin
  <1>4. twin = 0 \/ (twin \in DOMAIN kept /\ SameIssue(Report(kept[twin]), Report(v)))
    BY <1>1, <1>3
  <1>5. QED
    BY <1>4 DEF twin

Entry(list) == [id : {v.id : v \in ToSet(list)}, kept : {v.id : v \in ToSet(list)}]

Merging(list) == [kept : Seq(ToSet(list)), into : Seq(Entry(list))]

MergeRun(g, list) ==
    /\ g[0] = [kept |-> <<>>, into |-> <<>>]
    /\ g[Len(Sorted(list))] = Consolidation(list)
    /\ \A k \in 1..Len(Sorted(list)) : g[k] = Merge(list, g[k-1], Sorted(list)[k])

(* One report either is kept or joins one that is.                           *)
LEMMA MergeStep ==
    ASSUME NEW list \in Seq(Verdict), NEW acc \in Merging(list), NEW i \in VerifiedAt(list)
    PROVE  /\ Merge(list, acc, i) \in Merging(list)
           /\ \/ Merge(list, acc, i) = [kept |-> Append(acc.kept, list[i]), into |-> acc.into]
              \/ \E u \in ToSet(acc.kept) :
                    /\ SameIssue(Report(u), Report(list[i]))
                    /\ Merge(list, acc, i) =
                           [kept |-> acc.kept, into |-> Append(acc.into, [id |-> list[i].id, kept |-> u.id])]
  <1> DEFINE v == list[i]
             twin == SelectInSeq(acc.kept, LAMBDA k : SameIssue(Report(k), Report(v)))
  <1>1. acc.kept \in Seq(ToSet(list)) /\ v \in ToSet(list)
    BY DEF Merging, VerifiedAt, ToSet
  <1>2. acc.into \in Seq(Entry(list))
    BY DEF Merging
  <1>3. twin = 0 \/ (twin \in DOMAIN acc.kept /\ SameIssue(Report(acc.kept[twin]), Report(v)))
    BY <1>1, TwinFact
  <1>4. Merge(list, acc, i) =
           IF twin = 0 THEN [kept |-> Append(acc.kept, v), into |-> acc.into]
           ELSE [kept |-> acc.kept, into |-> Append(acc.into, [id |-> v.id, kept |-> acc.kept[twin].id])]
    BY DEF Merge
  <1> HIDE DEF twin, v
  <1>5. CASE twin = 0
    <2>1. Append(acc.kept, v) \in Seq(ToSet(list))
      BY <1>1, Appended
    <2>2. Merge(list, acc, i) = [kept |-> Append(acc.kept, v), into |-> acc.into]
      BY <1>4, <1>5
    <2>3. Merge(list, acc, i) \in Merging(list)
      BY <1>2, <2>1, <2>2 DEF Merging
    <2>4. QED
      BY <2>2, <2>3 DEF v
  <1>6. CASE twin # 0
    <2>1. PICK u \in ToSet(acc.kept) : u = acc.kept[twin]
      BY <1>3, <1>6 DEF ToSet
    <2>2. u \in ToSet(list)
      BY <1>1, OwnItems
    <2> DEFINE e == [id |-> v.id, kept |-> u.id]
    <2>3. Append(acc.into, e) \in Seq(Entry(list))
      <3>1. e \in Entry(list)
        BY <1>1, <2>2 DEF Entry
      <3> HIDE DEF e
      <3>2. QED
        BY <1>2, <3>1, Appended
    <2>4. Merge(list, acc, i) = [kept |-> acc.kept, into |-> Append(acc.into, e)]
      BY <1>4, <1>6, <2>1
    <2>5. Merge(list, acc, i) \in Merging(list)
      <3> HIDE DEF e
      <3> QED BY <1>1, <2>3, <2>4 DEF Merging
    <2>6. SameIssue(Report(u), Report(v))
      BY <1>3, <1>6, <2>1
    <2>7. QED
      BY <2>1, <2>4, <2>5, <2>6 DEF v
  <1>7. QED
    BY <1>5, <1>6

LEMMA MergeRuns ==
    ASSUME NEW list \in Seq(Verdict)
    PROVE  \E g \in [0..Len(Sorted(list)) -> Merging(list)] : MergeRun(g, list)
  <1> DEFINE to == Sorted(list)
             n == Len(to)
             X == VerifiedAt(list)
             A == Merging(list)
             base == [kept |-> <<>>, into |-> <<>>]
             op == [p \in A \X X |-> Merge(list, p[1], p[2])]
             Eq(h) == h = [t \in SUBSET DOMAIN to |-> IF t = {} THEN base
                             ELSE Merge(list, h[t \ {Max(t)}], to[Max(t)])]
             it == CHOOSE h : Eq(h)
  <1>1. op \in [A \X X -> A]
    BY MergeStep
  <1>2. base \in A
    BY DEF Merging
  <1>3. to \in Seq(X)
    BY SortedFact
  <1> HIDE DEF to
  <1>4. n \in Nat /\ to \in [1..n -> X] /\ DOMAIN to = 1..n
    BY <1>3
  <1>5. PICK h \in [SUBSET (1..n) -> A] : Folds(h, op, base, n, to)
    <2> HIDE DEF op, n, X, A, base
    <2> QED BY <1>1, <1>2, <1>4, FoldExists
  <1> HIDE DEF X, A, base
  <1>6. Eq(h)
    BY <1>1, <1>4, <1>5 DEF Folds
  <1>7. Eq(it)
    <2> HIDE DEF Eq
    <2> QED BY <1>6
  <1>8. Consolidation(list) = it[1..n]
    BY <1>4 DEF Consolidation, FoldLeft, MapThenFoldSet, base, to
  <1> HIDE DEF it
  <1>9. Unfolds(it, op, base, n, to)
    BY <1>4, <1>7 DEF Unfolds
  <1>10. PICK g \in [0..n -> A] : Runs(g, op, base, n, to, it[1..n])
    <2> HIDE DEF op, n, Eq
    <2> QED BY <1>1, <1>2, <1>4, <1>9, FoldRuns
  <1>11. MergeRun(g, list)
    BY <1>8, <1>10 DEF Runs, MergeRun, base, to
  <1>12. g \in [0..Len(Sorted(list)) -> Merging(list)]
    BY <1>10 DEF to, A
  <1>13. QED
    BY <1>11, <1>12

(* Where the merging is after the first m reports.                           *)
Merged(list, m, acc) ==
    /\ ToSet(acc.kept) \subseteq {list[Sorted(list)[r]] : r \in 1..m}
    /\ \A e \in ToSet(acc.into) : \E r \in 1..m : \E q \in 1..(r-1) :
          /\ e.id = list[Sorted(list)[r]].id
          /\ e.kept = list[Sorted(list)[q]].id
          /\ list[Sorted(list)[q]] \in ToSet(acc.kept)
          /\ SameIssue(Report(list[Sorted(list)[q]]), Report(list[Sorted(list)[r]]))
    /\ \A r \in 1..m :
          list[Sorted(list)[r]] \in ToSet(acc.kept) <=> ~Has(acc.into, list[Sorted(list)[r]].id)

LEMMA HasItem ==
    ASSUME NEW list, NEW id
    PROVE  Has(list, id) <=> \E x \in ToSet(list) : x.id = id
  BY DEF Has, ToSet

LEMMA MergedStep ==
    ASSUME NEW list \in Seq(Verdict), DistinctIds(list),
           NEW m \in 1..Len(Sorted(list)), NEW acc \in Merging(list), Merged(list, m - 1, acc)
    PROVE  Merged(list, m, Merge(list, acc, Sorted(list)[m]))
  <1> DEFINE to == Sorted(list)
             v(r) == list[to[r]]
             next == Merge(list, acc, to[m])
  <1>1. /\ to \in Seq(VerifiedAt(list)) /\ DOMAIN to = 1..Len(to) /\ m \in Nat
        /\ \A r \in 1..m : r \in DOMAIN to /\ to[r] \in VerifiedAt(list) /\ to[r] \in DOMAIN list
        /\ 1..m = (1..(m-1)) \cup {m}
    <2>1. to \in Seq(VerifiedAt(list))
      BY SortedFact
    <2> HIDE DEF to
    <2>2. DOMAIN to = 1..Len(to) /\ m \in Nat /\ 1..m = (1..(m-1)) \cup {m}
      BY <2>1
    <2>3. m \in 1..Len(to)
      BY DEF to
    <2>4. ASSUME NEW r \in 1..m  PROVE r \in DOMAIN to /\ to[r] \in VerifiedAt(list) /\ to[r] \in DOMAIN list
      <3>1. r \in 1..Len(to)
        BY <2>1, <2>3
      <3>2. QED
        BY <2>1, <3>1 DEF VerifiedAt
    <2>5. QED
      BY <2>1, <2>2, <2>4
  <1>2. ASSUME NEW r \in 1..(m-1)  PROVE v(r) # v(m) /\ v(r).id # v(m).id
    <2>1. r # m /\ r \in 1..m /\ m \in 1..m
      BY <1>1
    <2>2. to[r] # to[m]
      BY <1>1, <2>1, SortedFact DEF IsInjective
    <2>3. v(r).id # v(m).id
      BY <1>1, <2>1, <2>2 DEF DistinctIds
    <2>4. QED
      BY <2>3
  <1>3. /\ ToSet(acc.kept) \subseteq {v(r) : r \in 1..(m-1)}
        /\ \A e \in ToSet(acc.into) : \E r \in 1..(m-1) : \E q \in 1..(r-1) :
              /\ e.id = v(r).id /\ e.kept = v(q).id
              /\ v(q) \in ToSet(acc.kept) /\ SameIssue(Report(v(q)), Report(v(r)))
        /\ \A r \in 1..(m-1) : v(r) \in ToSet(acc.kept) <=> ~Has(acc.into, v(r).id)
    BY DEF Merged
  <1>4. v(m) \notin ToSet(acc.kept) /\ ~Has(acc.into, v(m).id)
    <2>1. v(m) \notin ToSet(acc.kept)
      BY <1>2, <1>3
    <2>2. \A e \in ToSet(acc.into) : e.id # v(m).id
      BY <1>2, <1>3
    <2>3. QED
      BY <2>1, <2>2, HasItem
  <1>5. /\ acc.kept \in Seq(ToSet(list)) /\ v(m) \in ToSet(list)
        /\ acc.into \in Seq(Entry(list))
    BY <1>1 DEF Merging, ToSet
  <1>6. \/ next = [kept |-> Append(acc.kept, v(m)), into |-> acc.into]
        \/ \E u \in ToSet(acc.kept) :
              /\ SameIssue(Report(u), Report(v(m)))
              /\ next = [kept |-> acc.kept, into |-> Append(acc.into, [id |-> v(m).id, kept |-> u.id])]
    BY <1>1, MergeStep
  <1> SUFFICES
        /\ ToSet(next.kept) \subseteq {v(r) : r \in 1..m}
        /\ \A e \in ToSet(next.into) : \E r \in 1..m : \E q \in 1..(r-1) :
              /\ e.id = v(r).id /\ e.kept = v(q).id
              /\ v(q) \in ToSet(next.kept) /\ SameIssue(Report(v(q)), Report(v(r)))
        /\ \A r \in 1..m : v(r) \in ToSet(next.kept) <=> ~Has(next.into, v(r).id)
    BY DEF Merged
  <1> HIDE DEF v, next, to
  <1>7. CASE next = [kept |-> Append(acc.kept, v(m)), into |-> acc.into]
    <2>1. next.into = acc.into /\ ToSet(next.kept) = ToSet(acc.kept) \cup {v(m)}
      BY <1>5, <1>7, Appended
    <2>2. ToSet(next.kept) \subseteq {v(r) : r \in 1..m}
      BY <1>1, <1>3, <2>1
    <2>3. ASSUME NEW e \in ToSet(next.into)
          PROVE  \E r \in 1..m : \E q \in 1..(r-1) :
              /\ e.id = v(r).id /\ e.kept = v(q).id
              /\ v(q) \in ToSet(next.kept) /\ SameIssue(Report(v(q)), Report(v(r)))
      <3>1. PICK r \in 1..(m-1) : \E q \in 1..(r-1) :
              /\ e.id = v(r).id /\ e.kept = v(q).id
              /\ v(q) \in ToSet(acc.kept) /\ SameIssue(Report(v(q)), Report(v(r)))
        BY <1>3, <2>1
      <3>2. r \in 1..m
        BY <1>1
      <3>3. QED
        BY <2>1, <3>1, <3>2
    <2>4. ASSUME NEW r \in 1..m  PROVE v(r) \in ToSet(next.kept) <=> ~Has(next.into, v(r).id)
      <3>1. CASE r = m
        BY <3>1, <2>1, <1>4
      <3>2. CASE r \in 1..(m-1)
        BY <3>2, <2>1, <1>2, <1>3
      <3>3. QED
        BY <1>1, <3>1, <3>2
    <2>5. QED
      BY <2>2, <2>3, <2>4
  <1>8. ASSUME NEW u \in ToSet(acc.kept), SameIssue(Report(u), Report(v(m))),
               next = [kept |-> acc.kept, into |-> Append(acc.into, [id |-> v(m).id, kept |-> u.id])]
        PROVE  /\ ToSet(next.kept) \subseteq {v(r) : r \in 1..m}
               /\ \A e \in ToSet(next.into) : \E r \in 1..m : \E q \in 1..(r-1) :
                     /\ e.id = v(r).id /\ e.kept = v(q).id
                     /\ v(q) \in ToSet(next.kept) /\ SameIssue(Report(v(q)), Report(v(r)))
               /\ \A r \in 1..m : v(r) \in ToSet(next.kept) <=> ~Has(next.into, v(r).id)
    <2> DEFINE new == [id |-> v(m).id, kept |-> u.id]
    <2>1. new \in Entry(list)
      <3>1. u \in ToSet(list)
        BY <1>5, OwnItems
      <3>2. QED
        BY <1>5, <3>1 DEF Entry
    <2>2. new.id = v(m).id /\ new.kept = u.id
      OBVIOUS
    <2> HIDE DEF new
    <2>3. next.kept = acc.kept /\ ToSet(next.into) = ToSet(acc.into) \cup {new}
      <3>1. next = [kept |-> acc.kept, into |-> Append(acc.into, new)]
        BY <1>8 DEF new
      <3>2. ToSet(Append(acc.into, new)) = ToSet(acc.into) \cup {new}
        BY <1>5, <2>1, Appended
      <3>3. QED
        BY <3>1, <3>2
    <2>4. ToSet(next.kept) \subseteq {v(r) : r \in 1..m}
      BY <1>1, <1>3, <2>3
    <2>5. ASSUME NEW e \in ToSet(next.into)
          PROVE  \E r \in 1..m : \E q \in 1..(r-1) :
              /\ e.id = v(r).id /\ e.kept = v(q).id
              /\ v(q) \in ToSet(next.kept) /\ SameIssue(Report(v(q)), Report(v(r)))
      <3>1. CASE e \in ToSet(acc.into)
        <4>1. PICK r \in 1..(m-1) : \E q \in 1..(r-1) :
              /\ e.id = v(r).id /\ e.kept = v(q).id
              /\ v(q) \in ToSet(acc.kept) /\ SameIssue(Report(v(q)), Report(v(r)))
          BY <1>3, <3>1
        <4>2. r \in 1..m
          BY <1>1
        <4>3. QED
          BY <2>3, <4>1, <4>2
      <3>2. CASE e = new
        <4>1. PICK q \in 1..(m-1) : u = v(q)
          BY <1>3
        <4>2. m \in 1..m
          BY <1>1
        <4>3. QED
          BY <1>8, <2>2, <2>3, <3>2, <4>1, <4>2
      <3>3. QED
        BY <2>3, <3>1, <3>2
    <2>6. \A id : Has(next.into, id) <=> Has(acc.into, id) \/ id = v(m).id
      BY <2>2, <2>3, HasItem
    <2>7. ASSUME NEW r \in 1..m  PROVE v(r) \in ToSet(next.kept) <=> ~Has(next.into, v(r).id)
      <3>1. CASE r = m
        BY <3>1, <2>3, <2>6, <1>4
      <3>2. CASE r \in 1..(m-1)
        BY <3>2, <2>3, <2>6, <1>2, <1>3
      <3>3. QED
        BY <1>1, <3>1, <3>2
    <2>8. QED
      BY <2>4, <2>5, <2>7
  <1>9. QED
    BY <1>6, <1>7, <1>8

LEMMA ConsolidationFact ==
    ASSUME NEW list \in Seq(Verdict), DistinctIds(list)
    PROVE  /\ Consolidation(list) \in Merging(list)
           /\ \A e \in ToSet(Consolidation(list).into) : \E u, w \in ToSet(list) :
                 u.state = "verified" /\ u.id = e.id /\ w.state = "verified" /\ w.id = e.kept
           /\ \A v \in ToSet(list) : v.state = "verified" /\ Has(Consolidation(list).into, v.id) =>
                 \E u \in ToSet(list) :
                    /\ u.state = "verified" /\ ~Has(Consolidation(list).into, u.id)
                    /\ SameIssue(Report(u), Report(v)) /\ ~Stronger(v.rating, u.rating)
  <1> DEFINE to == Sorted(list)
             n == Len(to)
             done == Consolidation(list)
  <1>1. /\ to \in Seq(VerifiedAt(list)) /\ n \in Nat /\ DOMAIN to = 1..n
        /\ \A r \in 1..n : to[r] \in VerifiedAt(list)
        /\ \A i \in VerifiedAt(list) : list[i] \in ToSet(list) /\ list[i].state = "verified" /\ i \in DOMAIN list
    <2>1. to \in Seq(VerifiedAt(list))
      BY SortedFact
    <2> HIDE DEF to
    <2>2. QED
      BY <2>1 DEF VerifiedAt, ToSet
  <1>2. PICK g \in [0..n -> Merging(list)] : MergeRun(g, list)
    BY MergeRuns
  <1>3. \A k \in 1..n : g[k] = Merge(list, g[k-1], to[k])
    BY <1>2 DEF MergeRun
  <1> DEFINE T == {m \in 0..n : Merged(list, m, g[m])}
  <1>4. 0 \in T
    <2>1. g[0] = [kept |-> <<>>, into |-> <<>>] /\ 0 \in 0..n /\ 1..0 = {}
      BY <1>1, <1>2 DEF MergeRun
    <2>2. g[0].kept = <<>> /\ g[0].into = <<>> /\ ToSet(<<>>) = {}
      BY <2>1 DEF ToSet
    <2>3. QED
      BY <2>1, <2>2 DEF Merged
  <1>5. ASSUME NEW m \in 1..n, m - 1 \in T  PROVE m \in T
    <2>1. m \in 0..n /\ m - 1 \in 0..n
      BY <1>1
    <2>2. g[m-1] \in Merging(list) /\ Merged(list, m - 1, g[m-1]) /\ m \in 1..Len(Sorted(list))
      BY <2>1, <1>2, <1>5
    <2>3. Merged(list, m, Merge(list, g[m-1], Sorted(list)[m]))
      BY <2>2, MergedStep
    <2>4. QED
      BY <2>1, <2>3, <1>3
  <1>6. n \in T
    <2> HIDE DEF T, n
    <2>1. \A m \in 0..n : m \in T
      BY <1>1, <1>4, <1>5, UpTo
    <2>2. QED
      BY <2>1, <1>1
  <1>7. done = g[n] /\ done \in Merging(list) /\ Merged(list, n, done)
    BY <1>1, <1>2, <1>6 DEF MergeRun
  <1> HIDE DEF done, to, n
  <1>8. /\ ToSet(done.kept) \subseteq {list[to[r]] : r \in 1..n}
        /\ \A e \in ToSet(done.into) : \E r \in 1..n : \E q \in 1..(r-1) :
              /\ e.id = list[to[r]].id /\ e.kept = list[to[q]].id
              /\ list[to[q]] \in ToSet(done.kept) /\ SameIssue(Report(list[to[q]]), Report(list[to[r]]))
        /\ \A r \in 1..n : list[to[r]] \in ToSet(done.kept) <=> ~Has(done.into, list[to[r]].id)
    BY <1>7 DEF Merged, to
  <1>9. ASSUME NEW e \in ToSet(done.into)
        PROVE  \E r \in 1..n : \E q \in 1..n :
                 /\ q < r
                 /\ e.id = list[to[r]].id /\ e.kept = list[to[q]].id
                 /\ list[to[q]] \in ToSet(done.kept) /\ SameIssue(Report(list[to[q]]), Report(list[to[r]]))
    <2>1. PICK r \in 1..n : \E q \in 1..(r-1) :
              /\ e.id = list[to[r]].id /\ e.kept = list[to[q]].id
              /\ list[to[q]] \in ToSet(done.kept) /\ SameIssue(Report(list[to[q]]), Report(list[to[r]]))
      BY <1>8
    <2>2. \A q \in 1..(r-1) : q \in 1..n /\ q < r
      BY <1>1
    <2>3. QED
      BY <2>1, <2>2
  <1>10. ASSUME NEW e \in ToSet(done.into)
         PROVE  \E u, w \in ToSet(list) :
                   u.state = "verified" /\ u.id = e.id /\ w.state = "verified" /\ w.id = e.kept
    BY <1>1, <1>9
  <1>11. ASSUME NEW v \in ToSet(list), v.state = "verified", Has(done.into, v.id)
         PROVE  \E u \in ToSet(list) :
                    /\ u.state = "verified" /\ ~Has(done.into, u.id)
                    /\ SameIssue(Report(u), Report(v)) /\ ~Stronger(v.rating, u.rating)
    <2>1. PICK e \in ToSet(done.into) : e.id = v.id
      BY <1>11, HasItem
    <2>2. PICK r \in 1..n, q \in 1..n :
                 /\ q < r
                 /\ e.id = list[to[r]].id /\ e.kept = list[to[q]].id
                 /\ list[to[q]] \in ToSet(done.kept) /\ SameIssue(Report(list[to[q]]), Report(list[to[r]]))
      BY <1>9
    <2>3. PICK i \in DOMAIN list : list[i] = v
      BY DEF ToSet
    <2>4. to[r] \in DOMAIN list /\ to[r] = i
      BY <1>1, <2>1, <2>2, <2>3 DEF DistinctIds
    <2>5. ~Stronger(v.rating, list[to[q]].rating)
      <3>1. ~Stronger(list[to[r]].rating, list[to[q]].rating)
        BY <1>1, <2>2, SortedFact DEF to
      <3>2. QED
        BY <3>1, <2>3, <2>4
    <2>6. list[to[q]] \in ToSet(list) /\ list[to[q]].state = "verified" /\ ~Has(done.into, list[to[q]].id)
      BY <1>1, <1>8, <2>2
    <2>7. QED
      BY <2>2, <2>3, <2>4, <2>5, <2>6
  <1>12. QED
    BY <1>7, <1>10, <1>11 DEF done

LEMMA AtFact ==
    ASSUME NEW X, NEW list \in Seq(X), NEW id, Has(list, id)
    PROVE  At(list, id) \in ToSet(list) /\ At(list, id).id = id
  <1> DEFINE I == {i \in 1..Len(list) : list[i].id = id}
  <1>1. I # {} /\ I \subseteq 1..Len(list) /\ Len(list) \in Nat
    BY DEF Has
  <1>2. At(list, id) = list[Max(I)]
    BY <1>1 DEF At, SelectLastInSeq
  <1>3. Max(I) \in I
    <2> HIDE DEF I
    <2> QED BY <1>1, MaxFact
  <1>4. Max(I) \in DOMAIN list /\ list[Max(I)].id = id
    BY <1>3
  <1>5. QED
    BY <1>2, <1>4 DEF ToSet

LEMMA ConsolidatedFact ==
    ASSUME NEW list \in Seq(Verdict), DistinctIds(list)
    PROVE  /\ Consolidated(list, Consolidation(list)) \in Seq(Verdict)
           /\ ToSet(Consolidated(list, Consolidation(list)))
                 = {v \in ToSet(list) : ~Has(Consolidation(list).into, v.id)}
  <1> DEFINE done == Consolidation(list)
             S == {v \in ToSet(list) : ~Has(done.into, v.id)}
             left == Only(list, S)
  <1>1. done.kept \in Seq(ToSet(list))
    BY ConsolidationFact DEF Merging
  <1> HIDE DEF done
  <1>2. left \in Seq(Verdict) /\ ToSet(left) = S
    <2>1. left \in Seq(Verdict) /\ ToSet(left) = ToSet(list) \cap S
      BY OnlyFact
    <2>2. QED
      BY <2>1
  <1> HIDE DEF left
  <1>3. ASSUME NEW i \in DOMAIN left, Has(done.kept, left[i].id)  PROVE At(done.kept, left[i].id) = left[i]
    <2> DEFINE x == At(done.kept, left[i].id)
    <2>1. x \in ToSet(done.kept) /\ x.id = left[i].id
      BY <1>1, <1>3, AtFact
    <2>2. x \in ToSet(list) /\ left[i] \in ToSet(list)
      <3> HIDE DEF x
      <3>1. x \in ToSet(list)
        BY <1>1, <2>1, OwnItems
      <3>2. left[i] \in ToSet(list)
        BY <1>2 DEF ToSet
      <3>3. QED
        BY <3>1, <3>2
    <2> HIDE DEF x
    <2>3. x = left[i]
      <3>1. PICK a \in DOMAIN list : list[a] = x
        BY <2>2 DEF ToSet
      <3>2. PICK b \in DOMAIN list : list[b] = left[i]
        BY <2>2 DEF ToSet
      <3>3. a = b
        BY <2>1, <3>1, <3>2 DEF DistinctIds
      <3>4. QED
        BY <3>1, <3>2, <3>3
    <2>4. QED
      BY <2>3 DEF x
  <1>4. Consolidated(list, done) = left
    <2>1. Consolidated(list, done) =
            [i \in DOMAIN left |-> IF Has(done.kept, left[i].id) THEN At(done.kept, left[i].id) ELSE left[i]]
      BY DEF Consolidated, left
    <2>2. left = [i \in DOMAIN left |-> left[i]]
      BY <1>2
    <2>3. \A i \in DOMAIN left :
             (IF Has(done.kept, left[i].id) THEN At(done.kept, left[i].id) ELSE left[i]) = left[i]
      BY <1>3
    <2>4. QED
      BY <2>1, <2>2, <2>3
  <1>5. QED
    BY <1>2, <1>4 DEF done

--------------------------------------------------------------------------------
(* Which candidates are taken for tracked findings                           *)

ForcedIds(list, done, plan) ==
    {MergedInto(done, RecheckId(k.id)) : k \in ToSet(plan.rechecks)}
    \cup {v.id : v \in {v \in ToSet(list) : v.state = "verified"}}

Forced(list, done, plan) == [id : ForcedIds(list, done, plan), finding : ToSet(known)]

LEMMA ReseenType ==
    ASSUME NEW list, NEW done, NEW plan \in Plan,
           NEW forced \in Seq(Forced(list, done, plan)), NEW k \in ToSet(plan.rechecks)
    PROVE  Reseen(done, forced, k) \in Seq(Forced(list, done, plan))
  <1> DEFINE new == [id |-> MergedInto(done, RecheckId(k.id)), finding |-> k]
  <1>1. new \in Forced(list, done, plan)
    <2>1. k \in ToSet(known)
      BY OwnItems DEF Plan
    <2>2. MergedInto(done, RecheckId(k.id)) \in ForcedIds(list, done, plan)
      BY DEF ForcedIds
    <2>3. QED
      BY <2>1, <2>2 DEF Forced
  <1>2. Reseen(done, forced, k) = forced \/ Reseen(done, forced, k) = Append(forced, new)
    BY DEF Reseen
  <1> HIDE DEF new
  <1>3. QED
    BY <1>1, <1>2, Appended

LEMMA SeenAgainType ==
    ASSUME NEW list, NEW done, NEW plan, NEW unchanged \in Seq(ToSet(known)),
           NEW forced \in Seq(Forced(list, done, plan)), NEW v \in ToSet(list)
    PROVE  SeenAgain(unchanged, forced, v) \in Seq(Forced(list, done, plan))
  <1> DEFINE I == {i \in 1..Len(unchanged) :
                     ~Claims(forced, unchanged[i].id) /\ SameIssue(Signature(unchanged[i]), Report(v))}
             match == SelectInSeq(unchanged, LAMBDA k :
                         ~Claims(forced, k.id) /\ SameIssue(Signature(k), Report(v)))
             new == [id |-> v.id, finding |-> unchanged[match]]
  <1>1. match = IF I # {} THEN Min(I) ELSE 0
    BY DEF SelectInSeq
  <1>2. I \subseteq Nat /\ I \subseteq DOMAIN unchanged
    OBVIOUS
  <1>3. I # {} => Min(I) \in I
    <2> HIDE DEF I
    <2> QED BY <1>2, MinFact
  <1>4. match # 0 => unchanged[match] \in ToSet(known)
    BY <1>1, <1>2, <1>3
  <1>5. \/ SeenAgain(unchanged, forced, v) = forced
        \/ /\ v.state = "verified" /\ match # 0
           /\ SeenAgain(unchanged, forced, v) = Append(forced, new)
    BY DEF SeenAgain
  <1>6. v.state = "verified" /\ match # 0 => new \in Forced(list, done, plan)
    <2> HIDE DEF match
    <2>1. v.state = "verified" => v.id \in ForcedIds(list, done, plan)
      BY DEF ForcedIds
    <2>2. QED
      BY <2>1, <1>4 DEF Forced
  <1> HIDE DEF new
  <1>7. QED
    BY <1>5, <1>6, Appended

LEMMA ForcedType ==
    ASSUME NEW list \in Seq(Verdict), NEW done, NEW plan \in Plan, known \in Seq(KnownFinding)
    PROVE  KnownIdentities(list, done, plan) \in Seq(Forced(list, done, plan))
  <1> DEFINE A == Seq(Forced(list, done, plan))
             S == {k \in ToSet(known) : k.scope = "pr" /\ Outcome(k, "carried_unchanged") \in plan.decided}
             unchanged == Only(known, S)
             again == FoldLeft(LAMBDA forced, k : Reseen(done, forced, k), <<>>, plan.rechecks)
  <1>1. again \in A
    <2> DEFINE s == plan.rechecks
               n == Len(s)
               X == ToSet(s)
               op == [p \in A \X X |-> Reseen(done, p[1], p[2])]
               Eq(h) == h = [t \in SUBSET DOMAIN s |-> IF t = {} THEN <<>>
                               ELSE Reseen(done, h[t \ {Max(t)}], s[Max(t)])]
               it == CHOOSE h : Eq(h)
    <2>1. op \in [A \X X -> A] /\ <<>> \in A
      BY ReseenType
    <2>2. n \in Nat /\ s \in [1..n -> X] /\ DOMAIN s = 1..n
      BY OwnItems DEF Plan
    <2>3. PICK h \in [SUBSET (1..n) -> A] : Folds(h, op, <<>>, n, s)
      <3> HIDE DEF op, n, X, A, s
      <3> QED BY <2>1, <2>2, FoldExists
    <2> HIDE DEF X, A
    <2>4. Eq(h)
      BY <2>2, <2>3 DEF Folds
    <2>5. Eq(it)
      <3> HIDE DEF Eq
      <3> QED BY <2>4
    <2>6. again = it[1..n]
      BY <2>2 DEF FoldLeft, MapThenFoldSet
    <2> HIDE DEF it, again
    <2>7. Unfolds(it, op, <<>>, n, s)
      BY <2>2, <2>5 DEF Unfolds
    <2>8. PICK g \in [0..n -> A] : Runs(g, op, <<>>, n, s, it[1..n])
      <3> HIDE DEF op, n, Eq, s
      <3> QED BY <2>1, <2>2, <2>7, FoldRuns
    <2>9. g[n] \in A
      <3>1. n \in 0..n
        BY <2>2
      <3>2. QED
        BY <2>8, <3>1
    <2>10. g[n] = it[1..n]
      BY <2>8 DEF Runs
    <2>11. QED
      BY <2>6, <2>9, <2>10
  <1>2. unchanged \in Seq(ToSet(known))
    <2> HIDE DEF S
    <2> QED BY OnlyFact, OwnItems
  <1>3. KnownIdentities(list, done, plan)
          = FoldLeft(LAMBDA forced, v : SeenAgain(unchanged, forced, v), again, list)
    BY DEF KnownIdentities
  <1> HIDE DEF unchanged, again
  <1>4. FoldLeft(LAMBDA forced, v : SeenAgain(unchanged, forced, v), again, list) \in A
    <2> DEFINE n == Len(list)
               X == ToSet(list)
               op == [p \in A \X X |-> SeenAgain(unchanged, p[1], p[2])]
               Eq(h) == h = [t \in SUBSET DOMAIN list |-> IF t = {} THEN again
                               ELSE SeenAgain(unchanged, h[t \ {Max(t)}], list[Max(t)])]
               it == CHOOSE h : Eq(h)
    <2>1. op \in [A \X X -> A]
      BY <1>2, SeenAgainType
    <2>2. n \in Nat /\ list \in [1..n -> X] /\ DOMAIN list = 1..n
      BY OwnItems
    <2>3. PICK h \in [SUBSET (1..n) -> A] : Folds(h, op, again, n, list)
      <3> HIDE DEF op, n, X, A
      <3> QED BY <1>1, <2>1, <2>2, FoldExists
    <2> HIDE DEF X, A
    <2>4. Eq(h)
      BY <2>2, <2>3 DEF Folds
    <2>5. Eq(it)
      <3> HIDE DEF Eq
      <3> QED BY <2>4
    <2>6. FoldLeft(LAMBDA forced, v : SeenAgain(unchanged, forced, v), again, list) = it[1..n]
      BY <2>2 DEF FoldLeft, MapThenFoldSet
    <2> HIDE DEF it
    <2>7. Unfolds(it, op, again, n, list)
      BY <2>2, <2>5 DEF Unfolds
    <2>8. PICK g \in [0..n -> A] : Runs(g, op, again, n, list, it[1..n])
      <3> HIDE DEF op, n, Eq
      <3> QED BY <1>1, <2>1, <2>2, <2>7, FoldRuns
    <2>9. g[n] \in A
      <3>1. n \in 0..n
        BY <2>2
      <3>2. QED
        BY <2>8, <3>1
    <2>10. g[n] = it[1..n]
      BY <2>8 DEF Runs
    <2>11. QED
      BY <2>6, <2>9, <2>10
  <1>5. QED
    BY <1>3, <1>4

--------------------------------------------------------------------------------
(* What is classified                                                        *)

Priors == {k.id : k \in ToSet(known)} \cup {NoId}

(* What one verification is classified as, whatever was claimed before it.   *)
RowsOf(v, forced, covered) ==
    {Classified(v, forced, covered, claimed).rows : claimed \in SUBSET Priors}

Accumulated(list, forced, covered) ==
    [rows : SUBSET UNION (UNION {RowsOf(v, forced, covered) : v \in ToSet(list)}),
     matched : SUBSET {b.id : b \in Baselines}, claimed : SUBSET Priors]

ClassifyRun(g, list, forced, covered) ==
    /\ g[0] = [rows |-> {}, matched |-> {}, claimed |-> {}]
    /\ Classifications(list, forced, covered) =
          g[Len(list)].rows \cup
          {BaselineRow(b) : b \in {b \in Baselines : b.id \notin g[Len(list)].matched /\ b.state # "resolved"}}
    /\ \A k \in 1..Len(list) : g[k] = Classify(forced, covered, g[k-1], list[k])

LEMMA KnownInFact ==
    ASSUME NEW scope
    PROVE  known \in Seq(KnownFinding) =>
              /\ KnownIn(scope) \in Seq(ToSet(known))
              /\ ToSet(KnownIn(scope)) = {k \in ToSet(known) : k.scope = scope}
  <1> DEFINE K == ToSet(known)
             S == {k \in K : k.scope = scope}
  <1> SUFFICES ASSUME known \in Seq(KnownFinding)
               PROVE  KnownIn(scope) \in Seq(K) /\ ToSet(KnownIn(scope)) = S
    OBVIOUS
  <1>1. known \in Seq(K)
    BY OwnItems
  <1>2. KnownIn(scope) = Only(known, S) /\ S \subseteq K
    BY DEF KnownIn
  <1>3. K = ToSet(known)
    OBVIOUS
  <1> HIDE DEF S, K
  <1>4. Only(known, S) \in Seq(K) /\ ToSet(Only(known, S)) = ToSet(known) \cap S
    BY <1>1, OnlyFact
  <1>5. QED
    BY <1>2, <1>3, <1>4

LEMMA PriorFact ==
    ASSUME known \in Seq(KnownFinding), NEW v, NEW claimed
    PROVE  PriorOf(v, claimed) \in Priors /\ (v.state # "verified" => PriorOf(v, claimed) = NoId)
  <1> DEFINE own == KnownIn("pr")
             I == {i \in 1..Len(own) :
                     /\ v.state = "verified"
                     /\ own[i].id \notin claimed
                     /\ own[i].place = PlaceOf(v) /\ seen[own[i].place] = head[own[i].place]
                     /\ SameIssue(Signature(own[i]), Report(v))}
             m == IF I # {} THEN Min(I) ELSE 0
  <1>1. PriorOf(v, claimed) = IF m = 0 THEN NoId ELSE own[m].id
    BY DEF PriorOf, IdAt, SelectInSeq
  <1>2. own \in Seq(ToSet(known))
    BY KnownInFact
  <1> HIDE DEF own
  <1>3. I \subseteq Nat /\ I \subseteq DOMAIN own /\ (v.state # "verified" => I = {})
    BY <1>2
  <1>4. I # {} => Min(I) \in I
    <2> HIDE DEF I
    <2> QED BY <1>3, MinFact
  <1> HIDE DEF I
  <1>5. m = 0 \/ (m \in DOMAIN own /\ I # {})
    BY <1>3, <1>4
  <1>6. v.state # "verified" => m = 0
    BY <1>3
  <1> HIDE DEF m
  <1>7. m \in DOMAIN own => own[m] \in ToSet(known)
    BY <1>2
  <1>8. QED
    BY <1>1, <1>5, <1>6, <1>7 DEF Priors

LEMMA MatchesFact ==
    ASSUME NEW v, NEW root, NEW free
    PROVE  /\ Matches(v, root, free).of \subseteq Baselines
           /\ Matches(v, root, free).by = "twin" => Matches(v, root, free).of # {}
           /\ v.state # "verified" => Matches(v, root, free).by # "twin"
  <1>1. \A id : ById(id) \subseteq Baselines
    BY DEF ById
  <1>2. \A S : TheOne(S) \subseteq S
    BY DEF TheOne
  <1>3. QED
    BY <1>1, <1>2 DEF Matches

LEMMA ClassifyType ==
    ASSUME known \in Seq(KnownFinding), NEW list, NEW forced, NEW covered,
           NEW acc \in Accumulated(list, forced, covered), NEW v \in ToSet(list)
    PROVE  /\ Classify(forced, covered, acc, v) \in Accumulated(list, forced, covered)
           /\ acc.rows \subseteq Classify(forced, covered, acc, v).rows
           /\ \E rows \in RowsOf(v, forced, covered) : rows \subseteq Classify(forced, covered, acc, v).rows
  <1> DEFINE one == Classified(v, forced, covered, acc.claimed)
             match == Matches(v, Root(v, forced), ~Has(forced, v.id))
             prior == PriorOf(v, acc.claimed)
             next == Classify(forced, covered, acc, v)
  <1>1. /\ acc.claimed \in SUBSET Priors /\ acc.matched \in SUBSET {b.id : b \in Baselines}
        /\ acc.rows \in SUBSET UNION (UNION {RowsOf(u, forced, covered) : u \in ToSet(list)})
    BY DEF Accumulated
  <1>2. one.rows \in RowsOf(v, forced, covered)
    BY <1>1 DEF RowsOf
  <1>3. match.of \subseteq Baselines /\ prior \in Priors
    BY MatchesFact, PriorFact
  <1>4. one = ClassifiedAs(v, forced, covered, match, prior)
    BY DEF Classified
  <1>5. next = [rows |-> acc.rows \cup one.rows, matched |-> acc.matched \cup one.matched,
                claimed |-> acc.claimed \cup one.claimed]
    BY DEF Classify
  <1> HIDE DEF one, match, prior, next
  <1>6. one.matched \subseteq {b.id : b \in Baselines} /\ one.claimed \subseteq Priors
    BY <1>3, <1>4 DEF ClassifiedAs
  <1>7. one.rows \subseteq UNION (UNION {RowsOf(u, forced, covered) : u \in ToSet(list)})
    BY <1>2
  <1>8. next \in Accumulated(list, forced, covered)
    BY <1>1, <1>5, <1>6, <1>7 DEF Accumulated
  <1>9. acc.rows \subseteq next.rows /\ one.rows \subseteq next.rows
    BY <1>5
  <1>10. QED
    BY <1>2, <1>8, <1>9 DEF next

LEMMA ClassifyRuns ==
    ASSUME known \in Seq(KnownFinding), NEW list \in Seq(Verdict), NEW forced, NEW covered
    PROVE  \E g \in [0..Len(list) -> Accumulated(list, forced, covered)] :
              ClassifyRun(g, list, forced, covered)
  <1> DEFINE n == Len(list)
             X == ToSet(list)
             A == Accumulated(list, forced, covered)
             base == [rows |-> {}, matched |-> {}, claimed |-> {}]
             op == [p \in A \X X |-> Classify(forced, covered, p[1], p[2])]
             Eq(h) == h = [t \in SUBSET DOMAIN list |-> IF t = {} THEN base
                             ELSE Classify(forced, covered, h[t \ {Max(t)}], list[Max(t)])]
             it == CHOOSE h : Eq(h)
  <1>1. op \in [A \X X -> A]
    BY ClassifyType
  <1>2. base \in A
    BY DEF Accumulated
  <1>3. n \in Nat /\ list \in [1..n -> X] /\ DOMAIN list = 1..n
    BY OwnItems
  <1>4. PICK h \in [SUBSET (1..n) -> A] : Folds(h, op, base, n, list)
    <2> HIDE DEF op, n, X, A, base
    <2> QED BY <1>1, <1>2, <1>3, FoldExists
  <1> HIDE DEF X, A, base
  <1>5. Eq(h)
    BY <1>3, <1>4 DEF Folds
  <1>6. Eq(it)
    <2> HIDE DEF Eq
    <2> QED BY <1>5
  <1>7. Classifications(list, forced, covered) =
          it[1..n].rows \cup
          {BaselineRow(b) : b \in {b \in Baselines : b.id \notin it[1..n].matched /\ b.state # "resolved"}}
    BY <1>3 DEF Classifications, FoldLeft, MapThenFoldSet, base
  <1> HIDE DEF it
  <1>8. Unfolds(it, op, base, n, list)
    BY <1>3, <1>6 DEF Unfolds
  <1>9. PICK g \in [0..n -> A] : Runs(g, op, base, n, list, it[1..n])
    <2> HIDE DEF op, n, Eq
    <2> QED BY <1>1, <1>2, <1>3, <1>8, FoldRuns
  <1>10. ClassifyRun(g, list, forced, covered)
    <2>1. g[n] = it[1..n] /\ g[0] = base
      BY <1>9 DEF Runs
    <2>2. \A k \in 1..n : g[k] = Classify(forced, covered, g[k-1], list[k])
      BY <1>9 DEF Runs
    <2> HIDE DEF op, Eq
    <2>3. QED
      BY <1>7, <2>1, <2>2 DEF ClassifyRun, base
  <1>11. g \in [0..Len(list) -> Accumulated(list, forced, covered)]
    BY <1>9 DEF A
  <1>12. QED
    BY <1>10, <1>11

(* Every verification has its rows, and every other row is of the baseline.  *)
LEMMA ClassificationsFact ==
    ASSUME known \in Seq(KnownFinding), NEW list \in Seq(Verdict), NEW forced, NEW covered
    PROVE  /\ \A v \in ToSet(list) :
                 \E rows \in RowsOf(v, forced, covered) : rows \subseteq Classifications(list, forced, covered)
           /\ \A c \in Classifications(list, forced, covered) :
                 \/ \E b \in Baselines : c = BaselineRow(b)
                 \/ \E v \in ToSet(list) : \E rows \in RowsOf(v, forced, covered) : c \in rows
  <1> DEFINE n == Len(list)
             all == Classifications(list, forced, covered)
  <1>1. PICK g \in [0..n -> Accumulated(list, forced, covered)] : ClassifyRun(g, list, forced, covered)
    BY ClassifyRuns
  <1>2. /\ \A k \in 1..n : g[k] = Classify(forced, covered, g[k-1], list[k])
        /\ all = g[n].rows \cup
              {BaselineRow(b) : b \in {b \in Baselines : b.id \notin g[n].matched /\ b.state # "resolved"}}
    BY <1>1 DEF ClassifyRun
  <1>3. n \in Nat /\ 0 \in 0..n /\ n \in 0..n /\ DOMAIN list = 1..n
    OBVIOUS
  <1> HIDE DEF n, all
  <1> DEFINE Done(acc, v) == \E rows \in RowsOf(v, forced, covered) : rows \subseteq acc.rows
             T == {m \in 0..n : \A v \in Upto(list, m) : Done(g[m], v)}
  <1>4. 0 \in T
    BY <1>3, UptoFact
  <1>5. ASSUME NEW m \in 1..n, m - 1 \in T  PROVE m \in T
    <2>1. /\ m \in 0..n /\ m - 1 \in 0..n /\ list[m] \in ToSet(list)
          /\ g[m-1] \in Accumulated(list, forced, covered)
      BY <1>3 DEF ToSet
    <2>2. Upto(list, m) = Upto(list, m - 1) \cup {list[m]}
      BY UptoFact DEF n
    <2>3. g[m] = Classify(forced, covered, g[m-1], list[m])
      BY <1>2
    <2>4. Done(g[m], list[m]) /\ g[m-1].rows \subseteq g[m].rows
      BY <2>1, <2>3, ClassifyType
    <2>5. ASSUME NEW v \in Upto(list, m - 1)  PROVE Done(g[m], v)
      <3>1. Done(g[m-1], v)
        BY <1>5
      <3>2. QED
        BY <3>1, <2>4
    <2> HIDE DEF Done
    <2>6. QED
      BY <2>1, <2>2, <2>4, <2>5
  <1>6. n \in T
    <2> HIDE DEF T
    <2>1. \A m \in 0..n : m \in T
      BY <1>3, <1>4, <1>5, UpTo
    <2>2. QED
      BY <2>1, <1>3
  <1>7. \A v \in ToSet(list) : Done(g[n], v)
    BY <1>6, UptoFact DEF n
  <1>8. ASSUME NEW v \in ToSet(list)
        PROVE  \E rows \in RowsOf(v, forced, covered) : rows \subseteq all
    BY <1>2, <1>7
  <1>9. g[n] \in Accumulated(list, forced, covered)
    BY <1>3
  <1>10. ASSUME NEW c \in all
         PROVE  \/ \E b \in Baselines : c = BaselineRow(b)
                \/ \E v \in ToSet(list) : \E rows \in RowsOf(v, forced, covered) : c \in rows
    <2>1. g[n].rows \subseteq UNION (UNION {RowsOf(v, forced, covered) : v \in ToSet(list)})
      BY <1>9 DEF Accumulated
    <2>2. CASE c \in g[n].rows
      BY <2>1, <2>2
    <2>3. CASE c \notin g[n].rows
      BY <1>2, <2>3
    <2>4. QED
      BY <2>2, <2>3
  <1>11. QED
    BY <1>8, <1>10 DEF all

(* What a verification is reported as.                                       *)
Tells(c, v) ==
    /\ c.candidate = v.id /\ c.state = "verified"
    /\ <<c.place, c.kind>> = Report(v) /\ c.rating = v.rating
    /\ Changed(FileOf[PlaceOf(v)]) => c.rel \notin {"EXISTING", "RESOLVED"}

(* One that is verified always is, in a changed file never as old debt.      *)
LEMMA VerifiedRow ==
    ASSUME NEW v, v.state = "verified", NEW forced, NEW covered, NEW rows \in RowsOf(v, forced, covered)
    PROVE  \E c \in rows : Tells(c, v)
  <1>1. PICK claimed \in SUBSET Priors : rows = Classified(v, forced, covered, claimed).rows
    BY DEF RowsOf
  <1> DEFINE match == Matches(v, Root(v, forced), ~Has(forced, v.id))
             prior == PriorOf(v, claimed)
             rel == RelationOf(v, PlaceOf(v), \E b \in match.of : b.state # "resolved",
                               match.of # {}, covered)
             c == Row(v, rel, Identity(v, forced, match, prior))
  <1>2. rows = IF rel = "none" THEN {} ELSE {c}
    BY <1>1 DEF Classified, ClassifiedAs
  <1>3. rel # "none" /\ (Changed(FileOf[PlaceOf(v)]) => rel \notin {"EXISTING", "RESOLVED"})
    BY DEF RelationOf
  <1>4. Tells(c, v)
    <2> HIDE DEF rel, match, prior
    <2> QED BY <1>3 DEF Tells, Row, Report
  <1> HIDE DEF c, rel
  <1>5. QED
    BY <1>2, <1>3, <1>4

(* Of the others, one that is no tracked finding seen again takes no identity*)
(* of a finding that is tracked for the pull request alone.                  *)
LEMMA OtherRow ==
    ASSUME known \in Seq(KnownFinding), NEW v, v.state # "verified",
           NEW forced, ~Has(forced, v.id), NEW covered,
           NEW rows \in RowsOf(v, forced, covered), NEW c \in rows
    PROVE  /\ c.state = v.state
           /\ c.id = <<PlaceOf(v), v.kind, "none">> \/ \E b \in Baselines : c.id = b.id
  <1>1. PICK claimed \in SUBSET Priors : rows = Classified(v, forced, covered, claimed).rows
    BY DEF RowsOf
  <1> DEFINE match == Matches(v, Root(v, forced), ~Has(forced, v.id))
             prior == PriorOf(v, claimed)
             rel == RelationOf(v, PlaceOf(v), \E b \in match.of : b.state # "resolved",
                               match.of # {}, covered)
             kept == {b.id : b \in {b \in match.of : ~Changed(FileOf[PlaceOf(v)])}}
             id == Identity(v, forced, match, prior)
  <1>2. rows = IF rel = "none" THEN {} ELSE {Row(v, rel, id)}
    BY <1>1 DEF Classified, ClassifiedAs
  <1>3. prior = NoId /\ match.by # "twin" /\ match.of \subseteq Baselines
    BY PriorFact, MatchesFact
  <1>4. Root(v, forced) = <<PlaceOf(v), v.kind, "none">>
    BY DEF Root
  <1> HIDE DEF match, prior
  <1>5. id = IF kept # {} THEN CHOOSE i \in kept : TRUE ELSE Root(v, forced)
    BY <1>3 DEF Identity
  <1>6. kept # {} => \E b \in Baselines : id = b.id
    <2>1. kept # {} => id \in kept
      <3> HIDE DEF kept
      <3> QED BY <1>5
    <2>2. QED
      BY <2>1, <1>3
  <1> HIDE DEF rel, id, kept
  <1>7. c = Row(v, rel, id)
    BY <1>2
  <1>8. c.state = v.state /\ c.id = id
    BY <1>7 DEF Row
  <1>9. QED
    BY <1>4, <1>5, <1>6, <1>8

--------------------------------------------------------------------------------
(* What a review knows when it concludes                                     *)

Candidate == [id : CandidateId \cup {RecheckId(f) : f \in Fingerprint}, place : Place]

Verdicts ==
    /\ candidates \in Seq(Candidate)
    /\ verdicts \in Seq(Verdict)
    /\ Len(verdicts) <= Len(candidates)
    /\ \A i \in DOMAIN verdicts : verdicts[i].id = candidates[i].id

(* The tracked findings: those of the pull request have an identity each, and*)
(* one of these that no finding of the branch has is no identity of it.      *)
Knowing ==
    /\ known \in Seq(KnownFinding)
    /\ \A a, b \in ToSet(known) : a.scope = "pr" /\ b.scope = "pr" /\ a.id = b.id => a = b
    /\ \A k \in ToSet(known) : k.scope = "branch" => k.id[3] = "base"
    /\ \A k \in ToSet(known) : k.scope = "pr" =>
          k.id[3] = "seen" \/ \E b \in ToSet(known) : b.scope = "branch" /\ b.id = k.id
    /\ \A b \in stored : b.id[3] = "base"

Merges == Consolidation(Listed)
Reports == Consolidated(Listed, Merges)

LEMMA VerdictFact ==
    ASSUME Verdicts, DistinctIds(candidates)
    PROVE  /\ DistinctIds(verdicts) /\ IsInjective(verdicts)
           /\ \A v, w \in ToSet(verdicts) : v.id = w.id => v = w
           /\ \A i \in DOMAIN verdicts :
                 /\ verdicts[i] \in ToSet(verdicts)
                 /\ Report(verdicts[i]) = <<candidates[i].place, verdicts[i].kind>>
                 /\ candidates[i].place \in Place
  <1>1. /\ DOMAIN verdicts = 1..Len(verdicts) /\ DOMAIN candidates = 1..Len(candidates)
        /\ \A i \in DOMAIN verdicts : i \in DOMAIN candidates /\ verdicts[i].id = candidates[i].id
    BY DEF Verdicts
  <1>2. DistinctIds(verdicts)
    BY <1>1 DEF DistinctIds
  <1>3. IsInjective(verdicts)
    BY <1>2 DEF DistinctIds, IsInjective
  <1>4. ASSUME NEW v \in ToSet(verdicts), NEW w \in ToSet(verdicts), v.id = w.id  PROVE v = w
    <2>1. PICK i \in DOMAIN verdicts : verdicts[i] = v
      BY DEF ToSet
    <2>2. PICK j \in DOMAIN verdicts : verdicts[j] = w
      BY DEF ToSet
    <2>3. QED
      BY <1>2, <1>4, <2>1, <2>2 DEF DistinctIds
  <1>5. ASSUME NEW i \in DOMAIN verdicts
        PROVE  /\ verdicts[i] \in ToSet(verdicts)
               /\ Report(verdicts[i]) = <<candidates[i].place, verdicts[i].kind>>
               /\ candidates[i].place \in Place
    <2>1. Has(candidates, verdicts[i].id)
      BY <1>1 DEF Has
    <2>2. /\ At(candidates, verdicts[i].id) \in ToSet(candidates)
          /\ At(candidates, verdicts[i].id).id = verdicts[i].id
      BY <2>1, AtFact DEF Verdicts
    <2>3. PICK j \in DOMAIN candidates : candidates[j] = At(candidates, verdicts[i].id)
      BY <2>2 DEF ToSet
    <2>4. j = i
      BY <1>1, <2>2, <2>3 DEF DistinctIds
    <2>5. candidates[i] \in Candidate
      BY <1>1 DEF Verdicts
    <2>6. QED
      BY <2>3, <2>4, <2>5 DEF ToSet, Report, PlaceOf, Candidate
  <1>6. QED
    BY <1>2, <1>3, <1>4, <1>5

LEMMA ListedFact ==
    ASSUME Verdicts, DistinctIds(candidates)
    PROVE  /\ Listed \in Seq(Verdict) /\ DistinctIds(Listed)
           /\ ToSet(Listed) = {v \in ToSet(verdicts) : IsRecheck(v.id) => v.state = "verified"}
  <1> DEFINE S == {v \in ToSet(verdicts) : IsRecheck(v.id) => v.state = "verified"}
  <1>1. Listed = Only(verdicts, S) /\ verdicts \in Seq(Verdict)
    BY DEF Listed, Verdicts
  <1>2. S \subseteq ToSet(verdicts)
    OBVIOUS
  <1>3. Listed \in Seq(Verdict) /\ ToSet(Listed) = S /\ IsInjective(Listed)
    <2> HIDE DEF S
    <2>1. /\ Only(verdicts, S) \in Seq(Verdict)
          /\ ToSet(Only(verdicts, S)) = ToSet(verdicts) \cap S
          /\ IsInjective(verdicts) => IsInjective(Only(verdicts, S))
      BY <1>1, OnlyFact
    <2>2. QED
      BY <1>1, <1>2, <2>1, VerdictFact
  <1>4. ASSUME NEW i \in DOMAIN Listed, NEW j \in DOMAIN Listed, Listed[i].id = Listed[j].id  PROVE i = j
    <2>1. Listed[i] \in ToSet(verdicts) /\ Listed[j] \in ToSet(verdicts)
      BY <1>2, <1>3 DEF ToSet
    <2>2. Listed[i] = Listed[j]
      BY <1>4, <2>1, VerdictFact
    <2>3. QED
      BY <1>3, <2>2 DEF IsInjective
  <1>5. QED
    BY <1>3, <1>4 DEF DistinctIds

(* What is left after merging: for each verified report one of the issue, as *)
(* strong; and all that are not verified, re-checks aside.                   *)
LEMMA ReportsFact ==
    ASSUME Verdicts, DistinctIds(candidates)
    PROVE  /\ Reports \in Seq(Verdict) /\ ToSet(Reports) \subseteq ToSet(Listed)
           /\ \A v \in ToSet(verdicts) : v.state = "verified" =>
                 \E u \in ToSet(Reports) :
                    /\ u.state = "verified" /\ ~Stronger(v.rating, u.rating)
                    /\ u = v \/ SameIssue(Report(u), Report(v))
           /\ \A v \in ToSet(verdicts) : ~IsRecheck(v.id) /\ v.state # "verified" => v \in ToSet(Reports)
           /\ \A id : Has(Merges.into, id) =>
                 \E u, w \in ToSet(Listed) :
                    /\ u.state = "verified" /\ u.id = id
                    /\ w.state = "verified" /\ w.id = MergedInto(Merges, id)
  <1>1. /\ Listed \in Seq(Verdict) /\ DistinctIds(Listed)
        /\ ToSet(Listed) = {v \in ToSet(verdicts) : IsRecheck(v.id) => v.state = "verified"}
    BY ListedFact
  <1>2. /\ Merges \in Merging(Listed)
        /\ \A e \in ToSet(Merges.into) : \E u, w \in ToSet(Listed) :
              u.state = "verified" /\ u.id = e.id /\ w.state = "verified" /\ w.id = e.kept
        /\ \A v \in ToSet(Listed) : v.state = "verified" /\ Has(Merges.into, v.id) =>
              \E u \in ToSet(Listed) :
                 /\ u.state = "verified" /\ ~Has(Merges.into, u.id)
                 /\ SameIssue(Report(u), Report(v)) /\ ~Stronger(v.rating, u.rating)
    BY <1>1, ConsolidationFact DEF Merges
  <1>3. Reports \in Seq(Verdict) /\ ToSet(Reports) = {v \in ToSet(Listed) : ~Has(Merges.into, v.id)}
    BY <1>1, ConsolidatedFact DEF Reports, Merges
  <1>4. ASSUME NEW id, Has(Merges.into, id)
        PROVE  \E u, w \in ToSet(Listed) :
                  /\ u.state = "verified" /\ u.id = id
                  /\ w.state = "verified" /\ w.id = MergedInto(Merges, id)
    <2>1. Merges.into \in Seq(Entry(Listed))
      BY <1>2 DEF Merging
    <2>2. At(Merges.into, id) \in ToSet(Merges.into) /\ At(Merges.into, id).id = id
      BY <1>4, <2>1, AtFact
    <2>3. QED
      BY <1>2, <1>4, <2>2 DEF MergedInto
  <1>5. ASSUME NEW v \in ToSet(verdicts), v.state = "verified"
        PROVE  \E u \in ToSet(Reports) :
                  /\ u.state = "verified" /\ ~Stronger(v.rating, u.rating)
                  /\ u = v \/ SameIssue(Report(u), Report(v))
    <2>1. v \in ToSet(Listed) /\ v \in Verdict
      <3>1. v \in Verdict
        BY DEF ToSet, Verdicts
      <3>2. QED
        BY <1>1, <1>5, <3>1
    <2>2. ~Stronger(v.rating, v.rating)
      <3>1. v.rating \in Rating
        BY <2>1, <1>5 DEF Verdict
      <3>2. QED
        BY <3>1, WeightFact
    <2>3. QED
      BY <1>2, <1>3, <1>5, <2>1, <2>2
  <1>6. ASSUME NEW v \in ToSet(verdicts), ~IsRecheck(v.id), v.state # "verified"  PROVE v \in ToSet(Reports)
    <2>1. v \in ToSet(Listed)
      BY <1>1, <1>6
    <2>2. ASSUME Has(Merges.into, v.id)  PROVE FALSE
      <3>1. PICK u \in ToSet(Listed) : u.state = "verified" /\ u.id = v.id
        BY <2>2, <1>4
      <3>2. u = v
        BY <1>1, <3>1, VerdictFact
      <3>3. QED
        BY <3>1, <3>2, <1>6
    <2>3. QED
      BY <1>3, <2>1, <2>2
  <1>7. QED
    BY <1>3, <1>4, <1>5, <1>6

Identified == KnownIdentities(Reports, Merges, PlanKnown(RecheckLimit))
Classes(covered) == Classifications(Reports, Identified, covered)

(* Only a verified report is a tracked finding seen again.                   *)
LEMMA IdentifiedFact ==
    ASSUME Verdicts, DistinctIds(candidates), Knowing,
           NEW v \in ToSet(Reports), v.state # "verified"
    PROVE  ~Has(Identified, v.id)
  <1> DEFINE plan == PlanKnown(RecheckLimit)
  <1>1. plan \in Plan
    BY PlanFact DEF Knowing
  <1> HIDE DEF plan
  <1>2. /\ Reports \in Seq(Verdict) /\ ToSet(Reports) \subseteq ToSet(Listed)
        /\ \A id : Has(Merges.into, id) =>
              \E u, w \in ToSet(Listed) :
                 /\ u.state = "verified" /\ u.id = id
                 /\ w.state = "verified" /\ w.id = MergedInto(Merges, id)
    BY ReportsFact
  <1>3. ToSet(Listed) = {w \in ToSet(verdicts) : IsRecheck(w.id) => w.state = "verified"}
    BY ListedFact
  <1>4. \A w \in ToSet(Listed) : w.state = "verified" => w.id # v.id
    BY <1>2, <1>3, VerdictFact
  <1>5. v.id \notin ForcedIds(Reports, Merges, plan)
    <2>1. ASSUME NEW k \in ToSet(plan.rechecks), v.id = MergedInto(Merges, RecheckId(k.id))  PROVE FALSE
      <3>1. CASE Has(Merges.into, RecheckId(k.id))
        BY <1>2, <1>4, <2>1, <3>1
      <3>2. CASE ~Has(Merges.into, RecheckId(k.id))
        <4>1. v.id = RecheckId(k.id)
          BY <2>1, <3>2 DEF MergedInto
        <4>2. k \in ToSet(known)
          BY <1>1, OwnItems DEF Plan
        <4>3. IsRecheck(v.id)
          BY <4>1, <4>2 DEF IsRecheck, ToSet
        <4>4. QED
          BY <1>2, <1>3, <4>3
      <3>3. QED
        BY <3>1, <3>2
    <2>2. QED
      BY <1>2, <1>4, <2>1 DEF ForcedIds
  <1>6. Identified \in Seq(Forced(Reports, Merges, plan))
    BY <1>1, <1>2, ForcedType DEF Identified, Knowing, plan
  <1>7. ASSUME NEW i \in DOMAIN Identified  PROVE Identified[i].id # v.id
    <2>1. Identified[i] \in Forced(Reports, Merges, plan)
      BY <1>6
    <2>2. QED
      BY <2>1, <1>5 DEF Forced
  <1>8. QED
    BY <1>7 DEF Has

(* Every verified verdict has a finding that says it or the same issue, one  *)
(* as strong.                                                                *)
Reported(c, i) ==
    /\ c.state = "verified"
    /\ \E u \in ToSet(Reports) :
          /\ u.state = "verified" /\ ~Stronger(verdicts[i].rating, u.rating) /\ Tells(c, u)
          /\ u = verdicts[i] \/ SameIssue(Report(u), Report(verdicts[i]))

LEMMA ClassesFact ==
    ASSUME Verdicts, DistinctIds(candidates), Knowing, NEW covered, NEW i \in DOMAIN verdicts,
           verdicts[i].state = "verified"
    PROVE  \E c \in Classes(covered) : Reported(c, i)
  <1>1. verdicts[i] \in ToSet(verdicts)
    BY DEF ToSet
  <1>2. PICK u \in ToSet(Reports) :
          /\ u.state = "verified" /\ ~Stronger(verdicts[i].rating, u.rating)
          /\ u = verdicts[i] \/ SameIssue(Report(u), Report(verdicts[i]))
    BY <1>1, ReportsFact
  <1>3. Reports \in Seq(Verdict) /\ known \in Seq(KnownFinding)
    BY ReportsFact DEF Knowing
  <1>4. PICK rows \in RowsOf(u, Identified, covered) : rows \subseteq Classes(covered)
    BY <1>3, ClassificationsFact DEF Classes
  <1>5. PICK c \in rows : Tells(c, u)
    BY <1>2, VerifiedRow
  <1>6. QED
    BY <1>2, <1>4, <1>5 DEF Reported, Tells

(* Nothing but a verified report has the identity of a finding that is       *)
(* tracked for the pull request alone.                                       *)
LEMMA OwnIdentity ==
    ASSUME Knowing, NEW k \in ToSet(known), k.scope = "pr",
           ~\E b \in ToSet(known) : b.scope = "branch" /\ b.id = k.id
    PROVE  /\ \A b \in Baselines : b.id # k.id
           /\ \A x, y : k.id # <<x, y, "none">>
  <1>1. k.id[3] = "seen"
    BY DEF Knowing
  <1>2. ASSUME NEW b \in Baselines  PROVE b.id[3] = "base"
    <2>1. \/ b \in stored
          \/ \E o \in ToSet(known) : o.scope = "branch" /\ b.id = o.id
      BY DEF Baselines
    <2>2. QED
      BY <2>1 DEF Knowing
  <1>3. QED
    BY <1>1, <1>2

LEMMA OwnClass ==
    ASSUME Verdicts, DistinctIds(candidates), Knowing, NEW covered,
           NEW k \in ToSet(known), k.scope = "pr",
           ~\E b \in ToSet(known) : b.scope = "branch" /\ b.id = k.id,
           NEW c \in Classes(covered), c.id = k.id
    PROVE  c.state = "verified"
  <1>1. Reports \in Seq(Verdict) /\ known \in Seq(KnownFinding)
    BY ReportsFact DEF Knowing
  <1>2. CASE \E b \in Baselines : c = BaselineRow(b)
    BY <1>2, OwnIdentity DEF BaselineRow
  <1>3. ASSUME NEW v \in ToSet(Reports), NEW rows \in RowsOf(v, Identified, covered), c \in rows
        PROVE  c.state = "verified"
    <2>1. CASE v.state # "verified"
      <3>1. ~Has(Identified, v.id)
        BY <2>1, IdentifiedFact
      <3>2. c.id = <<PlaceOf(v), v.kind, "none">> \/ \E b \in Baselines : c.id = b.id
        BY <1>1, <1>3, <2>1, <3>1, OtherRow
      <3>3. (\A b \in Baselines : b.id # k.id) /\ k.id # <<PlaceOf(v), v.kind, "none">>
        BY OwnIdentity
      <3>4. QED
        BY <3>2, <3>3
    <2>2. CASE v.state = "verified"
      <3>1. PICK claimed \in SUBSET Priors : rows = Classified(v, Identified, covered, claimed).rows
        BY DEF RowsOf
      <3>2. PICK rel, id : c = Row(v, rel, id)
        BY <1>3, <3>1 DEF Classified, ClassifiedAs
      <3>3. QED
        BY <2>2, <3>2 DEF Row
    <2>3. QED
      BY <2>1, <2>2
  <1>4. QED
    BY <1>1, <1>2, <1>3, ClassificationsFact DEF Classes

--------------------------------------------------------------------------------
(* What becomes of the tracked findings                                      *)

LEMMA FirstOfFact ==
    ASSUME known \in Seq(KnownFinding), NEW k \in ToSet(known)
    PROVE  FirstOf(k.id) \in ToSet(known) /\ FirstOf(k.id).id = k.id
  <1> DEFINE I == {i \in 1..Len(known) : known[i].id = k.id}
  <1>1. I # {} /\ I \subseteq Nat
    BY DEF ToSet
  <1>2. FirstOf(k.id) = known[Min(I)]
    BY <1>1 DEF FirstOf, SelectInSeq
  <1>3. Min(I) \in I
    <2> HIDE DEF I
    <2> QED BY <1>1, MinFact
  <1>4. Min(I) \in DOMAIN known /\ known[Min(I)].id = k.id
    BY <1>3
  <1>5. known[Min(I)] \in ToSet(known)
    <2> HIDE DEF I
    <2> QED BY <1>4 DEF ToSet
  <1>6. QED
    BY <1>2, <1>4, <1>5

(* A finding that is reported is not fixed.                                  *)
ReportedStay(classes, outcomes) ==
    \A c \in classes : c.state = "verified" =>
        \A o \in outcomes : o.id = c.id => o.outcome \notin FixedOutcomes

LEMMA HeldFact ==
    ASSUME NEW classes, NEW outcomes, ReportedStay(classes, outcomes)
    PROVE  ReportedStay(classes, HoldFixes(outcomes))
  BY DEF ReportedStay, HoldFixes, FixedOutcomes

LEMMA StayFact ==
    ASSUME known \in Seq(KnownFinding), NEW list, NEW done, NEW plan, NEW classes
    PROVE  ReportedStay(classes, Resolved(list, done, plan, classes))
  <1> DEFINE again == {c.id : c \in {c \in classes : c.state = "verified"}}
             reported == {[id |-> c.id, report |-> <<c.place, c.kind>>] :
                             c \in {c \in {c \in classes : c.state = "verified"} :
                                       \E v \in ToSet(list) : c.candidate = v.id}}
  <1>1. Resolved(list, done, plan, classes) = {Folded(reported, o) : o \in Settled(done, plan, again)}
    BY DEF Resolved
  <1> HIDE DEF reported
  <1>2. ASSUME NEW o \in Settled(done, plan, again), o.id \in again  PROVE o.outcome = "reobserved"
    <2>1. CASE \E id \in {k.id : k \in ToSet(known)} \cap again : o = Outcome(FirstOf(id), "reobserved")
      BY <2>1 DEF Outcome
    <2>2. CASE o \in {x \in plan.decided : x.id \notin again}
      BY <1>2, <2>2
    <2>3. CASE \E k \in {k \in ToSet(plan.rechecks) : k.id \notin again /\ ~Decides(plan.decided, k.id)} :
                  o = Outcome(k, Rechecked(done, RecheckId(k.id)))
      BY <1>2, <2>3 DEF Outcome
    <2> HIDE DEF again
    <2>4. QED
      BY <1>2, <2>1, <2>2, <2>3 DEF Settled
  <1>3. ASSUME NEW o \in Settled(done, plan, again), Folded(reported, o).id \in again
        PROVE  Folded(reported, o).outcome \notin FixedOutcomes
    <2>1. Folded(reported, o).id = o.id
      BY DEF Folded
    <2>2. o.outcome = "reobserved"
      <3> HIDE DEF again
      <3> QED BY <1>2, <1>3, <2>1
    <2>3. Folded(reported, o) = o
      BY <2>2 DEF Folded, CarriedOutcomes
    <2>4. QED
      BY <2>2, <2>3 DEF FixedOutcomes
  <1>4. QED
    BY <1>1, <1>3 DEF ReportedStay

LEMMA LifecycleFact ==
    ASSUME NEW classes, NEW outcomes, ReportedStay(classes, outcomes),
           NEW c \in classes, c.state = "verified"
    PROVE  c \in Lifecycle(classes, outcomes)
  <1>1. ~Fixed(outcomes, c.id)
    BY DEF Fixed, Decides, ReportedStay
  <1>2. QED
    BY <1>1 DEF Lifecycle

(* One that is carried is counted, unless something else has its identity.   *)
LEMMA CarriedFact ==
    ASSUME known \in Seq(KnownFinding), NEW k \in ToSet(known), NEW classes, NEW outcomes,
           NEW o \in outcomes, o.id = k.id, o.scope = "pr", o.outcome \in CarriedOutcomes,
           \A c \in classes : c.id # k.id
    PROVE  \E c \in Lifecycle(classes, outcomes) : c.state = "verified" /\ c.id = k.id
  <1>1. CarriedRow(FirstOf(o.id)) \in Lifecycle(classes, outcomes)
    BY DEF Lifecycle, Carried
  <1>2. FirstOf(o.id).id = k.id
    BY FirstOfFact
  <1>3. CarriedRow(FirstOf(o.id)).state = "verified" /\ CarriedRow(FirstOf(o.id)).id = k.id
    BY <1>2 DEF CarriedRow
  <1>4. QED
    BY <1>1, <1>3

--------------------------------------------------------------------------------
(* What the policy decides                                                   *)

LEMMA PolicyFact ==
    ASSUME NEW classes, NEW complete \in BOOLEAN
    PROVE  /\ Policy(classes, complete) \in ToSet(Precedence)
           /\ (\E c \in classes : Disposition(c) \in {"BLOCK", "REQUIRE_SECURITY_APPROVAL"}) =>
                 Policy(classes, complete) \in {"BLOCK", "INCOMPLETE", "REQUIRE_SECURITY_APPROVAL"}
  <1> DEFINE wanted == {Disposition(c) : c \in classes} \cup (IF complete THEN {} ELSE {"INCOMPLETE"})
             I == {i \in 1..Len(Precedence) : Precedence[i] \in wanted}
  <1>1. /\ Len(Precedence) = 5 /\ DOMAIN Precedence = 1..5
        /\ Precedence[1] = "BLOCK" /\ Precedence[2] = "INCOMPLETE"
        /\ Precedence[3] = "REQUIRE_SECURITY_APPROVAL" /\ Precedence[4] = "WARN" /\ Precedence[5] = "PASS"
    BY DEF Precedence
  <1>2. ToSet(Precedence) = {"BLOCK", "INCOMPLETE", "REQUIRE_SECURITY_APPROVAL", "WARN", "PASS"}
    BY DEF Precedence, ToSet
  <1>3. \A d \in wanted : d \in ToSet(Precedence)
    BY <1>2 DEF Disposition
  <1>4. Policy(classes, complete) =
          IF wanted = {} THEN "PASS" ELSE Precedence[IF I # {} THEN Min(I) ELSE 0]
    BY DEF Policy, SelectInSeq
  <1> HIDE DEF wanted
  <1>5. I # {} => Min(I) \in I /\ \A k \in I : Min(I) <= k
    <2>1. I \subseteq Nat
      OBVIOUS
    <2> HIDE DEF I
    <2>2. QED
      BY <2>1, MinFact
  <1>6. ASSUME NEW d \in wanted  PROVE I # {} /\ (d = "BLOCK" => 1 \in I) /\ (d = "REQUIRE_SECURITY_APPROVAL" => 3 \in I)
    <2>1. PICK i \in 1..5 : Precedence[i] = d
      BY <1>1, <1>3 DEF ToSet
    <2>2. QED
      BY <1>1, <2>1
  <1>7. I \subseteq 1..5 /\ 1..5 = {1, 2, 3, 4, 5}
    BY <1>1
  <1> HIDE DEF I
  <1>8. Policy(classes, complete) \in ToSet(Precedence)
    BY <1>1, <1>2, <1>4, <1>5, <1>6, <1>7
  <1>9. ASSUME NEW c \in classes, Disposition(c) \in {"BLOCK", "REQUIRE_SECURITY_APPROVAL"}
        PROVE  Policy(classes, complete) \in {"BLOCK", "INCOMPLETE", "REQUIRE_SECURITY_APPROVAL"}
    <2>1. Disposition(c) \in wanted
      BY DEF wanted
    <2> DEFINE m == Min(I)
    <2>2. I # {} /\ (1 \in I \/ 3 \in I)
      BY <1>6, <1>9, <2>1
    <2>3. m \in 1..5 /\ (m <= 1 \/ m <= 3)
      BY <1>5, <1>7, <2>2
    <2>4. Policy(classes, complete) = Precedence[m]
      BY <1>4, <2>1, <2>2
    <2> HIDE DEF m
    <2>5. m = 1 \/ m = 2 \/ m = 3
      BY <2>3
    <2>6. QED
      BY <1>1, <2>4, <2>5
  <1>10. QED
    BY <1>8, <1>9

(* A tracked finding of the pull request is accounted for, as the property   *)
(* has it.                                                                   *)
Shared(k) == \E b \in ToSet(known) : b.scope = "branch" /\ b.id = k.id

Accounted(k, final, complete) ==
    \/ \E c \in final :
          /\ c.state = "verified"
          /\ \/ c.id = k.id
             \/ <<<<c.place, c.kind>>, Signature(k)>> \in Same
             \/ \E i \in DOMAIN verdicts :
                   /\ verdicts[i].id = RecheckId(k.id) /\ verdicts[i].state = "verified"
                   /\ SpeaksFor(c, i)
    \/ \E o \in ToSet(known) : o.id # k.id /\ <<Signature(o), Signature(k)>> \in Same
    \/ /\ complete
       /\ \/ head[k.place] = "gone"
          \/ \E i \in DOMAIN verdicts :
                verdicts[i].id = RecheckId(k.id) /\ verdicts[i].state = "rejected"
    \/ Shared(k)

LEMMA OwnFact ==
    ASSUME Knowing, NEW k \in ToSet(known), k.scope = "pr", ~Shared(k)
    PROVE  /\ FirstOf(k.id) = k
           /\ \A o \in ToSet(known) : o.id = k.id => o = k
  <1>1. ToSet(known) \subseteq KnownFinding
    BY OwnItems DEF Knowing
  <1>2. ASSUME NEW o \in ToSet(known), o.id = k.id  PROVE o = k
    <2>1. o.scope = "pr" \/ o.scope = "branch"
      BY <1>1 DEF KnownFinding, Scope
    <2>2. QED
      BY <1>2, <2>1 DEF Knowing, Shared
  <1>3. QED
    BY <1>2, FirstOfFact DEF Knowing

(* What is decided of one before anything is verified.                       *)
LEMMA DecidedFact ==
    ASSUME Knowing, NEW k \in ToSet(known), k.scope = "pr", ~Shared(k),
           NEW plan \in Plan, NEW o \in plan.decided, o.id = k.id
    PROVE  /\ o.scope = "pr"
           /\ \/ \E other \in ToSet(known) : other.id # k.id /\ <<Signature(other), Signature(k)>> \in Same
              \/ o.outcome = "fixed_removed" /\ head[k.place] = "gone"
              \/ o.outcome \in CarriedOutcomes
  <1>1. o \in Decisions
    BY DEF Plan
  <1>2. CASE o \in Duplicates
    <2>1. PICK d \in ToSet(known) : d \notin KeptKnown /\ o = Outcome(d, "duplicate")
      BY <1>2 DEF Duplicates
    <2>2. d = k /\ o.scope = "pr"
      BY <2>1, OwnFact DEF Outcome
    <2>3. QED
      BY <2>1, <2>2, KeptFact DEF Knowing, SameIssue
  <1>3. CASE o \in {Outcome(d, "fixed_removed") : d \in {d \in ToSet(known) : Change(d) = "deleted"}}
    <2>1. PICK d \in ToSet(known) : Change(d) = "deleted" /\ o = Outcome(d, "fixed_removed")
      BY <1>3
    <2>2. d = k /\ o.scope = "pr" /\ o.outcome = "fixed_removed"
      BY <2>1, OwnFact DEF Outcome
    <2>3. head[k.place] = "gone"
      BY <2>1, <2>2 DEF Change
    <2>4. QED
      BY <2>2, <2>3
  <1>4. ASSUME NEW what \in {"carried_unchanged", "carried_incomplete"},
               o \in {Outcome(d, what) : d \in ToSet(known)}
        PROVE  o.scope = "pr" /\ o.outcome \in CarriedOutcomes
    <2>1. PICK d \in ToSet(known) : o = Outcome(d, what)
      BY <1>4
    <2>2. d = k
      BY <2>1, OwnFact DEF Outcome
    <2>3. QED
      BY <2>1, <2>2 DEF Outcome, CarriedOutcomes
  <1>5. QED
    BY <1>1, <1>2, <1>3, <1>4 DEF Decisions

(* A fix of an incomplete run, and what is carried, is counted.              *)
LEMMA HeldAccount ==
    ASSUME Knowing, NEW k \in ToSet(known), k.scope = "pr", NEW complete \in BOOLEAN,
           NEW classes, \A c \in classes : c.id # k.id, NEW outcomes,
           NEW o \in outcomes, o.id = k.id, o.scope = "pr",
           o.outcome \in CarriedOutcomes \/ (o.outcome \in FixedOutcomes /\ ~complete)
    PROVE  Accounted(k, Lifecycle(classes, IF complete THEN outcomes ELSE HoldFixes(outcomes)), complete)
  <1> DEFINE held == IF complete THEN outcomes ELSE HoldFixes(outcomes)
  <1>1. PICK h \in held : h.id = k.id /\ h.scope = "pr" /\ h.outcome \in CarriedOutcomes
    <2>1. CASE o.outcome \in CarriedOutcomes
      <3>1. o.outcome \notin FixedOutcomes
        BY <2>1 DEF CarriedOutcomes, FixedOutcomes
      <3>2. o \in held
        BY <3>1 DEF HoldFixes
      <3>3. QED
        BY <2>1, <3>2
    <2>2. CASE o.outcome \in FixedOutcomes /\ ~complete
      <3> DEFINE h == [id |-> o.id, scope |-> o.scope, outcome |-> "carried_incomplete"]
      <3>1. h \in held
        BY <2>2 DEF HoldFixes
      <3>2. QED
        BY <3>1 DEF CarriedOutcomes
    <2>3. QED
      BY <2>1, <2>2
  <1> HIDE DEF held
  <1>2. \E c \in Lifecycle(classes, held) : c.state = "verified" /\ c.id = k.id
    BY <1>1, CarriedFact DEF Knowing
  <1>3. QED
    BY <1>2 DEF Accounted, held

(* The same after what is carried may join a report of its issue.            *)
LEMMA FoldedAccount ==
    ASSUME Knowing, NEW k \in ToSet(known), k.scope = "pr", ~Shared(k), NEW complete \in BOOLEAN,
           NEW classes, \A c \in classes : c.id # k.id,
           NEW list, NEW done, NEW plan,
           NEW o \in Settled(done, plan, {c.id : c \in {c \in classes : c.state = "verified"}}),
           o.id = k.id, o.scope = "pr",
           o.outcome \in CarriedOutcomes \/ (o.outcome \in FixedOutcomes /\ ~complete),
           NEW outcomes, outcomes = Resolved(list, done, plan, classes)
    PROVE  Accounted(k, Lifecycle(classes, IF complete THEN outcomes ELSE HoldFixes(outcomes)), complete)
  <1> DEFINE again == {c.id : c \in {c \in classes : c.state = "verified"}}
             reported == {[id |-> c.id, report |-> <<c.place, c.kind>>] :
                             c \in {c \in {c \in classes : c.state = "verified"} :
                                       \E v \in ToSet(list) : c.candidate = v.id}}
             held == IF complete THEN outcomes ELSE HoldFixes(outcomes)
  <1>1. Folded(reported, o) \in outcomes
    BY DEF Resolved
  <1>2. CASE Folded(reported, o) = o
    BY <1>1, <1>2, HeldAccount
  <1>3. CASE Folded(reported, o) # o
    <2>1. PICK r \in reported : SameIssue(r.report, Signature(FirstOf(o.id)))
      <3> HIDE DEF reported
      <3> QED BY <1>3 DEF Folded
    <2>2. PICK c \in classes : c.state = "verified" /\ r.report = <<c.place, c.kind>>
      BY <2>1
    <2>3. <<<<c.place, c.kind>>, Signature(k)>> \in Same
      BY <2>1, <2>2, OwnFact DEF SameIssue
    <2>4. ReportedStay(classes, held)
      BY StayFact, HeldFact DEF Knowing
    <2>5. c \in Lifecycle(classes, held)
      BY <2>2, <2>4, LifecycleFact
    <2>6. QED
      BY <2>2, <2>3, <2>5 DEF Accounted
  <1>4. QED
    BY <1>2, <1>3

Outcomes(covered) == Resolved(Reports, Merges, PlanKnown(RecheckLimit), Classes(covered))

HeldOutcomes(covered) == IF covered THEN Outcomes(covered) ELSE HoldFixes(Outcomes(covered))

Final(covered) == Lifecycle(Classes(covered), HeldOutcomes(covered))

LEMMA StayingFact ==
    ASSUME Knowing, NEW covered
    PROVE  ReportedStay(Classes(covered), HeldOutcomes(covered))
  <1>1. ReportedStay(Classes(covered), Outcomes(covered))
    BY StayFact DEF Knowing, Outcomes
  <1>2. QED
    BY <1>1, HeldFact DEF HeldOutcomes

LEMMA SpeaksFact ==
    ASSUME Verdicts, DistinctIds(candidates), Knowing, NEW covered, NEW i \in DOMAIN verdicts,
           verdicts[i].state = "verified"
    PROVE  \E c \in Final(covered) : Reported(c, i) /\ SpeaksFor(c, i)
  <1>1. PICK c \in Classes(covered) : Reported(c, i)
    BY ClassesFact
  <1>2. c.state = "verified" /\ c \in Final(covered)
    BY <1>1, StayingFact, LifecycleFact DEF Reported, Final
  <1>3. PICK u \in ToSet(Reports) :
          /\ <<c.place, c.kind>> = Report(u)
          /\ u = verdicts[i] \/ SameIssue(Report(u), Report(verdicts[i]))
    BY <1>1 DEF Reported, Tells
  <1>4. Report(verdicts[i]) = <<candidates[i].place, verdicts[i].kind>>
    BY VerdictFact
  <1>5. SpeaksFor(c, i)
    <2>1. CASE u = verdicts[i]
      BY <1>2, <1>3, <1>4, <2>1 DEF SpeaksFor
    <2>2. CASE u # verdicts[i]
      BY <1>2, <1>3, <1>4, <2>2 DEF SpeaksFor, SameIssue
    <2>3. QED
      BY <2>1, <2>2
  <1>6. QED
    BY <1>1, <1>2, <1>5

(* Whatever a review comes to, it accounts for what is tracked.              *)
LEMMA AccountedFact ==
    ASSUME Verdicts, DistinctIds(candidates), Knowing, NEW covered \in BOOLEAN,
           NEW k \in ToSet(known), k.scope = "pr"
    PROVE  Accounted(k, Final(covered), covered)
  <1> DEFINE plan == PlanKnown(RecheckLimit)
             again == {c.id : c \in {c \in Classes(covered) : c.state = "verified"}}
  <1>1. CASE Shared(k)
    BY <1>1 DEF Accounted
  <1>2. CASE k.id \in again
    <2>1. PICK c \in Classes(covered) : c.state = "verified" /\ c.id = k.id
      BY <1>2
    <2>2. c \in Final(covered)
      BY <2>1, StayingFact, LifecycleFact DEF Final
    <2>3. QED
      BY <2>1, <2>2 DEF Accounted
  <1>3. CASE ~Shared(k) /\ k.id \notin again
    <2>1. \A c \in Classes(covered) : c.id # k.id
      BY <1>3, OwnClass DEF Shared
    <2>2. /\ plan \in Plan
          /\ Decides(plan.decided, k.id) \/ \E r \in ToSet(plan.rechecks) : r.id = k.id
      BY PlanFact DEF Knowing, Relevant
    <2>3. ASSUME NEW o \in Settled(Merges, plan, again), o.id = k.id, o.scope = "pr",
                 o.outcome \in CarriedOutcomes \/ (o.outcome \in FixedOutcomes /\ ~covered)
          PROVE  Accounted(k, Final(covered), covered)
      BY <1>3, <2>1, <2>3, FoldedAccount DEF Final, HeldOutcomes, Outcomes
    <2>4. CASE Decides(plan.decided, k.id)
      <3>1. PICK o \in plan.decided : o.id = k.id
        BY <2>4 DEF Decides
      <3>2. o \in Settled(Merges, plan, again)
        BY <1>3, <3>1 DEF Settled
      <3> HIDE DEF plan, again
      <3>3. CASE \E other \in ToSet(known) : other.id # k.id /\ <<Signature(other), Signature(k)>> \in Same
        BY <3>3 DEF Accounted
      <3>4. CASE o.outcome = "fixed_removed" /\ head[k.place] = "gone" /\ covered
        BY <3>4 DEF Accounted
      <3>5. CASE o.outcome = "fixed_removed" /\ ~covered /\ o.scope = "pr"
        BY <2>3, <3>1, <3>2, <3>5 DEF FixedOutcomes
      <3>6. CASE o.outcome \in CarriedOutcomes /\ o.scope = "pr"
        BY <2>3, <3>1, <3>2, <3>6
      <3>7. QED
        BY <1>3, <2>2, <3>1, <3>3, <3>4, <3>5, <3>6, DecidedFact
    <2>5. CASE ~Decides(plan.decided, k.id)
      <3>1. PICK r \in ToSet(plan.rechecks) : r.id = k.id
        BY <2>2, <2>5
      <3>2. r \in ToSet(known)
        BY <2>2, OwnItems DEF Plan
      <3>3. r = k
        BY <1>3, <3>1, <3>2, OwnFact
      <3> DEFINE o == Outcome(k, Rechecked(Merges, RecheckId(k.id)))
      <3>4. o \in Settled(Merges, plan, again) /\ o.id = k.id /\ o.scope = "pr"
        BY <1>3, <2>5, <3>1, <3>3 DEF Settled, Outcome
      <3>5. o.outcome = Rechecked(Merges, RecheckId(k.id))
        BY DEF Outcome
      <3> HIDE DEF o, plan, again
      <3>6. CASE \E i \in DOMAIN verdicts : verdicts[i].id = RecheckId(k.id) /\ verdicts[i].state = "verified"
        <4>1. PICK i \in DOMAIN verdicts : verdicts[i].id = RecheckId(k.id) /\ verdicts[i].state = "verified"
          BY <3>6
        <4>2. PICK c \in Final(covered) : SpeaksFor(c, i)
          BY <4>1, SpeaksFact
        <4>3. c.state = "verified"
          BY <4>2 DEF SpeaksFor
        <4>4. QED
          BY <4>1, <4>2, <4>3 DEF Accounted
      <3>7. CASE Has(Merges.into, RecheckId(k.id))
        <4>1. PICK u \in ToSet(Listed) : u.state = "verified" /\ u.id = RecheckId(k.id)
          BY <3>7, ReportsFact
        <4>2. u \in ToSet(verdicts)
          BY <4>1, ListedFact
        <4>3. QED
          BY <3>6, <4>1, <4>2 DEF ToSet
      <3>8. CASE Says(RecheckId(k.id), "rejected") /\ o.outcome = "fixed_verified" /\ covered
        BY <3>8 DEF Accounted, Says
      <3>9. CASE o.outcome = "fixed_verified" /\ ~covered
        BY <2>3, <3>4, <3>9 DEF FixedOutcomes
      <3>10. CASE o.outcome = "recheck_unresolved"
        BY <2>3, <3>4, <3>10 DEF CarriedOutcomes
      <3>11. QED
        BY <3>5, <3>6, <3>7, <3>8, <3>9, <3>10 DEF Rechecked, Says
    <2>6. QED
      BY <2>4, <2>5
  <1>4. QED
    BY <1>1, <1>2, <1>3

(* A run that verifies nothing: every other row is of the baseline.          *)
Passive(covered) == Classifications(<<>>, <<>>, covered)

LEMMA PassiveFact ==
    ASSUME Knowing, NEW covered \in BOOLEAN, NEW k \in ToSet(known), k.scope = "pr"
    PROVE  Accounted(k, Lifecycle(Passive(covered),
                            IF covered THEN PassiveOutcomes ELSE HoldFixes(PassiveOutcomes)), covered)
  <1> DEFINE plan == PlanKnown(MaxKnown)
  <1>1. CASE Shared(k)
    BY <1>1 DEF Accounted
  <1>2. CASE ~Shared(k)
    <2>1. /\ plan \in Plan
          /\ Decides(plan.decided, k.id) \/ \E r \in ToSet(plan.rechecks) : r.id = k.id
      BY PlanFact DEF Knowing, Relevant
    <2>2. \A c \in Passive(covered) : c.id # k.id
      <3>1. <<>> \in Seq(Verdict) /\ ToSet(<<>>) = {}
        BY DEF ToSet
      <3>2. \A c \in Passive(covered) : \E b \in Baselines : c = BaselineRow(b)
        BY <3>1, ClassificationsFact DEF Knowing, Passive
      <3>3. QED
        BY <1>2, <3>2, OwnIdentity DEF Shared, BaselineRow
    <2>3. /\ plan.decided \subseteq PassiveOutcomes
          /\ \A r \in ToSet(plan.rechecks) : Outcome(r, "carried_incomplete") \in PassiveOutcomes
      BY DEF PassiveOutcomes
    <2> HIDE DEF plan
    <2>4. CASE Decides(plan.decided, k.id)
      <3>1. PICK o \in plan.decided : o.id = k.id
        BY <2>4 DEF Decides
      <3>2. o \in PassiveOutcomes /\ o.scope = "pr"
        BY <1>2, <2>1, <2>3, <3>1, DecidedFact
      <3>3. CASE \E other \in ToSet(known) : other.id # k.id /\ <<Signature(other), Signature(k)>> \in Same
        BY <3>3 DEF Accounted
      <3>4. CASE o.outcome = "fixed_removed" /\ head[k.place] = "gone" /\ covered
        BY <3>4 DEF Accounted
      <3>5. CASE o.outcome = "fixed_removed" /\ ~covered
        BY <2>2, <3>1, <3>2, <3>5, HeldAccount DEF FixedOutcomes
      <3>6. CASE o.outcome \in CarriedOutcomes
        BY <2>2, <3>1, <3>2, <3>6, HeldAccount
      <3>7. QED
        BY <1>2, <2>1, <3>1, <3>3, <3>4, <3>5, <3>6, DecidedFact
    <2>5. CASE \E r \in ToSet(plan.rechecks) : r.id = k.id
      <3>1. PICK r \in ToSet(plan.rechecks) : r.id = k.id
        BY <2>5
      <3>2. r = k
        <4>1. r \in ToSet(known)
          BY <2>1, <3>1, OwnItems DEF Plan
        <4>2. QED
          BY <1>2, <3>1, <4>1, OwnFact
      <3> DEFINE o == Outcome(k, "carried_incomplete")
      <3>3. o \in PassiveOutcomes
        BY <2>3, <3>1, <3>2
      <3>4. o.id = k.id /\ o.scope = "pr" /\ o.outcome \in CarriedOutcomes
        BY DEF Outcome, CarriedOutcomes
      <3> HIDE DEF o
      <3>5. QED
        BY <2>2, <3>3, <3>4, HeldAccount
    <2>6. QED
      BY <2>1, <2>4, <2>5
  <1>3. QED
    BY <1>1, <1>2

--------------------------------------------------------------------------------
(* What the conclusion says                                                  *)

Covered == BatchComplete /\ NoneUnresolved(Reports)

Decided(outcome, classes, outcomes, list, complete) ==
    [outcome |-> outcome, classes |-> Lifecycle(classes, outcomes), known |-> outcomes,
     complete |-> complete, decision |-> Policy(Lifecycle(classes, outcomes), complete),
     response |-> Response(Lifecycle(classes, outcomes), outcomes, list)]

LEMMA ConcludeFact ==
    ASSUME Conclude
    PROVE  \E outcome :
              /\ result' = Decided(outcome, Classes(Covered), HeldOutcomes(Covered), Reports, Covered)
              /\ outcome = "pass_no_verified_finding" =>
                    Covered /\ \A i \in DOMAIN Reports : Reports[i].state # "verified"
              /\ pc = "verify" /\ pc' = "done" /\ Len(verdicts) = Len(candidates)
              /\ UNCHANGED <<inputs, todo, answer, candidates, verdicts>>
  <1> DEFINE outcome ==
                 IF \E i \in DOMAIN Reports : Reports[i].state = "verified" THEN "findings_verified"
                 ELSE IF Covered THEN "pass_no_verified_finding" ELSE "review_incomplete"
  <1>1. /\ Finish(outcome, Classes(Covered), HeldOutcomes(Covered), Reports, Covered)
        /\ pc = "verify" /\ Len(verdicts) = Len(candidates)
        /\ UNCHANGED <<inputs, todo, answer, candidates, verdicts>>
    BY DEF Conclude, Covered, Classes, HeldOutcomes, Outcomes, Reports, Merges, Identified
  <1>2. /\ result' = Decided(outcome, Classes(Covered), HeldOutcomes(Covered), Reports, Covered)
        /\ pc' = "done"
    BY <1>1 DEF Finish, Decided
  <1>3. outcome = "pass_no_verified_finding" =>
           Covered /\ \A i \in DOMAIN Reports : Reports[i].state # "verified"
    OBVIOUS
  <1> HIDE DEF outcome
  <1>4. QED
    BY <1>1, <1>2, <1>3

LEMMA PassiveStep ==
    ASSUME FastExit \/ \E outcome \in {"configuration_required", "review_incomplete"} : GiveUp(outcome)
    PROVE  \E outcome : \E covered \in BOOLEAN :
              /\ result' = Decided(outcome, Passive(covered),
                              IF covered THEN PassiveOutcomes ELSE HoldFixes(PassiveOutcomes), <<>>, covered)
              /\ outcome # "pass_no_verified_finding"
              /\ pc = "start" /\ pc' = "done"
              /\ UNCHANGED <<inputs, todo, answer, candidates, verdicts>>
  BY DEF FastExit, GiveUp, Finish, Decided, Passive

LEMMA RespondFact ==
    ASSUME Verdicts, DistinctIds(candidates), Knowing, UniqueIds, NEW covered, NEW i \in DOMAIN verdicts,
           NEW c \in Final(covered), Reported(c, i), NEW outcomes
    PROVE  c.id \in Response(Final(covered), outcomes, Reports)
  <1>1. PICK u \in ToSet(Reports) : c.candidate = u.id
    BY DEF Reported, Tells
  <1>2. u \in Verdict
    BY <1>1, ReportsFact DEF ToSet
  <1>3. u.id # NoId
    <2>1. u.id \in CandidateId \/ \E f \in Fingerprint : u.id = RecheckId(f)
      BY <1>2 DEF Verdict
    <2>2. QED
      BY <2>1, ConstantsAssumption DEF UniqueIds
  <1>4. Has(Reports, c.candidate)
    BY <1>1 DEF Has, ToSet
  <1>5. QED
    BY <1>1, <1>3, <1>4 DEF Response, Reported

(* Merging only ever keeps a report that is as severe, of the same file.     *)
LEMMA SeriousFact ==
    ASSUME Verdicts, DistinctIds(candidates), Knowing, NEW covered \in BOOLEAN, NEW i \in DOMAIN verdicts,
           verdicts[i].state = "verified", verdicts[i].rating[1] \in {"critical", "high"},
           Changed(FileOf[candidates[i].place]),
           NEW c \in Final(covered), Reported(c, i), c.id \notin dismissed
    PROVE  Policy(Final(covered), covered) \in {"BLOCK", "INCOMPLETE", "REQUIRE_SECURITY_APPROVAL"}
  <1>1. PICK u \in ToSet(Reports) :
          /\ u.state = "verified" /\ ~Stronger(verdicts[i].rating, u.rating) /\ Tells(c, u)
          /\ u = verdicts[i] \/ SameIssue(Report(u), Report(verdicts[i]))
    BY DEF Reported
  <1>2. u \in Verdict /\ verdicts[i] \in Verdict
    BY <1>1, ReportsFact DEF ToSet, Verdicts
  <1>3. u.rating \in Rating /\ verdicts[i].rating \in Rating
    BY <1>1, <1>2 DEF Verdict
  <1>4. /\ u.rating[1] \in {"critical", "high", "medium", "unknown"}
        /\ u.rating[1] \in {"critical", "high"}
    <2>1. u.rating[1] \in {"critical", "high", "medium", "unknown"}
      BY <1>3, ConstantsAssumption
    <2>2. ~(Severity[verdicts[i].rating[1]] < Severity[u.rating[1]])
      BY <1>1 DEF Stronger
    <2>3. Severity["critical"] = 0 /\ Severity["high"] = 1 /\ Severity["medium"] = 2 /\ Severity["unknown"] = 3
      BY DEF Severity
    <2>4. QED
      BY <2>1, <2>2, <2>3
  <1>5. Report(verdicts[i]) = <<candidates[i].place, verdicts[i].kind>> /\ candidates[i].place \in Place
    BY VerdictFact
  <1>6. FileOf[PlaceOf(u)] = FileOf[candidates[i].place]
    <2>1. CASE u = verdicts[i]
      BY <1>5, <2>1 DEF Report
    <2>2. CASE <<Report(u), Report(verdicts[i])>> \in Same
      <3> DEFINE s == <<Report(u), Report(verdicts[i])>>
      <3>1. FileOf[s[1][1]] = FileOf[s[2][1]]
        BY <2>2, ConstantsAssumption
      <3>2. s[1][1] = PlaceOf(u) /\ s[2][1] = candidates[i].place
        BY <1>5 DEF Report
      <3>3. QED
        BY <3>1, <3>2
    <2>3. QED
      BY <1>1, <2>1, <2>2 DEF SameIssue
  <1>7. c.rel \notin {"EXISTING", "RESOLVED"} /\ c.state = "verified" /\ c.rating = u.rating
    BY <1>1, <1>6 DEF Tells
  <1>8. Disposition(c) \in {"BLOCK", "REQUIRE_SECURITY_APPROVAL"}
    BY <1>4, <1>7 DEF Disposition
  <1>9. QED
    BY <1>8, PolicyFact

(* Nothing unresolved is left out of what must be resolved.                  *)
LEMMA CoveredFact ==
    ASSUME Verdicts, DistinctIds(candidates), Covered,
           \A i \in DOMAIN Reports : Reports[i].state # "verified",
           NEW i \in DOMAIN verdicts, ~IsRecheck(candidates[i].id)
    PROVE  verdicts[i].state = "rejected"
  <1>1. verdicts[i] \in ToSet(verdicts) /\ verdicts[i] \in Verdict /\ ~IsRecheck(verdicts[i].id)
    BY DEF ToSet, Verdicts
  <1>2. \A v \in ToSet(Reports) : v.state # "verified" /\ v.state # "unresolved"
    BY DEF Covered, NoneUnresolved, ToSet
  <1>3. verdicts[i].state # "verified"
    BY <1>1, <1>2, ReportsFact
  <1>4. verdicts[i].state # "unresolved"
    BY <1>1, <1>2, <1>3, ReportsFact
  <1>5. QED
    BY <1>1, <1>3, <1>4 DEF Verdict

--------------------------------------------------------------------------------
(* How a review starts                                                       *)

LEMMA SetToSeqFact ==
    ASSUME NEW S, IsFiniteSet(S)
    PROVE  SetToSeq(S) \in Seq(S) /\ ToSet(SetToSeq(S)) = S /\ IsInjective(SetToSeq(S))
  <1> DEFINE n == Cardinality(S)
             list == SetToSeq(S)
  <1>1. n \in Nat /\ ExistsBijection(1..n, S)
    BY FS_CardinalityType
  <1>2. \E f \in [1..n -> S] : IsInjective(f)
    BY <1>1 DEF ExistsBijection, Bijection, Injection
  <1>3. list = CHOOSE f \in [1..n -> S] : IsInjective(f)
    BY DEF SetToSeq
  <1> HIDE DEF list
  <1>4. list \in [1..n -> S] /\ IsInjective(list)
    BY <1>2, <1>3
  <1>5. list \in Surjection(1..n, S)
    <2>1. IsFiniteSet(1..n) /\ Cardinality(1..n) = n
      BY <1>1, FS_Interval
    <2>2. list \in Injection(1..n, S)
      BY <1>4 DEF Injection
    <2>3. Cardinality(1..n) = Cardinality(S)
      BY <2>1
    <2> HIDE DEF n
    <2>4. QED
      BY <2>1, <2>2, <2>3, FS_Injection
  <1>6. list \in Seq(S)
    BY <1>1, <1>4
  <1>7. ToSet(list) = S
    BY <1>4, <1>5 DEF ToSet, Surjection
  <1>8. QED
    BY <1>4, <1>6, <1>7 DEF list

LEMMA ImageFinite ==
    ASSUME NEW S, IsFiniteSet(S), NEW f
    PROVE  IsFiniteSet({f[x] : x \in S})
  <1> DEFINE T == {f[x] : x \in S}
             g == [x \in S |-> f[x]]
  <1>1. g \in Surjection(S, T)
    BY DEF Surjection
  <1> HIDE DEF T, g
  <1>2. IsFiniteSet(T)
    BY <1>1, FS_Surjection
  <1>3. QED
    BY <1>2 DEF T

(* The tracked findings of an initial state.                                 *)
Given(branch, pr) ==
    /\ IsFiniteSet(branch) /\ IsFiniteSet(pr)
    /\ \A b \in branch : b \in KnownFinding /\ b.scope = "branch" /\ b.id[3] = "base"
    /\ \A k \in pr : /\ k \in KnownFinding /\ k.scope = "pr"
                     /\ k.id[3] = "seen" \/ \E b \in branch : b.id = k.id

LEMMA GivenFact ==
    ASSUME NEW s \in [Place -> {"base", "seen"}],
           NEW branch \in SUBSET OnBranch, NEW pr \in SUBSET (OnPull(s) \cup Inherited(s, branch))
    PROVE  Given(branch, pr)
  <1> DEFINE b(t) == Tracked("branch", <<t[1], t[2], "base">>, "INTRODUCED")
             p(t) == Tracked("pr", <<t[1], t[2], s[t[1]]>>, "INTRODUCED")
             i(o) == [o EXCEPT !.scope = "pr", !.rel = "MODIFIED_EXISTING"]
             fb == [t \in TrackedReports |-> b(t)]
             fp == [t \in TrackedReports |-> p(t)]
             fi == [o \in branch |-> i(o)]
  <1>1. IsFiniteSet(TrackedReports) /\ TrackedReports \subseteq Place \X Kind /\ TrackedRating \in Rating
    BY ConstantsAssumption
  <1>2. IsFiniteSet(branch)
    <2>1. IsFiniteSet({fb[t] : t \in TrackedReports})
      <3> HIDE DEF fb
      <3> QED BY <1>1, ImageFinite
    <2>2. branch \subseteq {fb[t] : t \in TrackedReports}
      BY DEF OnBranch
    <2>3. QED
      BY <2>1, <2>2, FS_Subset
  <1>3. IsFiniteSet(pr)
    <2>1. IsFiniteSet({fp[t] : t \in TrackedReports}) /\ IsFiniteSet({fi[o] : o \in branch})
      <3> HIDE DEF fp, fi
      <3> QED BY <1>1, <1>2, ImageFinite
    <2>2. IsFiniteSet({fp[t] : t \in TrackedReports} \cup {fi[o] : o \in branch})
      BY <2>1, FS_Union
    <2>3. pr \subseteq {fp[t] : t \in TrackedReports} \cup {fi[o] : o \in branch}
      BY DEF OnPull, Inherited
    <2>4. QED
      BY <2>2, <2>3, FS_Subset
  <1>4. ASSUME NEW o \in branch  PROVE o \in KnownFinding /\ o.scope = "branch" /\ o.id[3] = "base"
    <2>1. PICK t \in TrackedReports : o = Tracked("branch", <<t[1], t[2], "base">>, "INTRODUCED")
      BY DEF OnBranch
    <2>2. t[1] \in Place /\ t[2] \in Kind
      BY <1>1
    <2>3. QED
      BY <1>1, <2>1, <2>2 DEF Tracked, KnownFinding, Fingerprint, Version, Scope
  <1>5. ASSUME NEW k \in pr
        PROVE  /\ k \in KnownFinding /\ k.scope = "pr"
               /\ k.id[3] = "seen" \/ \E o \in branch : o.id = k.id
    <2>1. CASE k \in OnPull(s)
      <3>1. PICK t \in TrackedReports : s[t[1]] # "base" /\ k = Tracked("pr", <<t[1], t[2], s[t[1]]>>, "INTRODUCED")
        BY <2>1 DEF OnPull
      <3>2. t[1] \in Place /\ t[2] \in Kind
        BY <1>1
      <3>3. s[t[1]] = "seen"
        BY <3>1, <3>2
      <3>4. QED
        BY <1>1, <3>1, <3>2, <3>3 DEF Tracked, KnownFinding, Fingerprint, Version, Scope
    <2>2. CASE k \in Inherited(s, branch)
      <3>1. PICK o \in branch : k = [o EXCEPT !.scope = "pr", !.rel = "MODIFIED_EXISTING"]
        BY <2>2 DEF Inherited
      <3>2. o \in KnownFinding
        BY <1>4
      <3>3. k \in KnownFinding /\ k.scope = "pr" /\ k.id = o.id
        BY <3>1, <3>2 DEF KnownFinding, Scope
      <3>4. QED
        BY <3>3
    <2>3. QED
      BY <2>1, <2>2
  <1>6. QED
    BY <1>2, <1>3, <1>4, <1>5 DEF Given

--------------------------------------------------------------------------------
(* What is asked and what is answered                                        *)

(* The invariant: what a review knows, what is asked so far, and the verdicts*)
(* on it.                                                                    *)
Reviewing ==
    /\ TypeOK /\ Knowing /\ Verdicts
    /\ \A f \in File : answer[f] = "skipped" => f \in Skippable
    /\ pc \in {"start", "review"} => verdicts = <<>>
    /\ pc = "start" => candidates = <<>>

(* Every file is asked about once, so that no two candidates are at one place*)
(* and, with unique ids, no two have one id.                                 *)
Asked ==
    /\ pc = "review" =>
          /\ \A i \in DOMAIN candidates :
                candidates[i].id = IdOf[candidates[i].place] /\ FileOf[candidates[i].place] \notin todo
          /\ \A i, j \in DOMAIN candidates : candidates[i].place = candidates[j].place => i = j
    /\ pc = "verify" => DistinctIds(candidates)

LEMMA InitReviewing == Init => Reviewing /\ Asked
  <1> SUFFICES ASSUME Init  PROVE Reviewing /\ Asked
    OBVIOUS
  <1>1. PICK c \in Commits : seen = c[1] /\ head = c[2]
    BY DEF Init
  <1>2. c \in [Place -> {"base", "seen"}] \X [Place -> Version \cup {"gone"}]
    BY DEF Commits
  <1>3. <<seen, head>> \in Commits /\ seen \in [Place -> {"base", "seen"}]
    BY <1>1, <1>2
  <1>4. PICK branch \in SUBSET OnBranch : \E pr \in SUBSET (OnPull(seen) \cup Inherited(seen, branch)) :
           /\ \A a, b \in pr : a.id = b.id => a = b
           /\ known = SetToSeq(pr) \o SetToSeq(branch)
           /\ dismissed \in {{}, {k.id : k \in pr \cup branch}}
    BY DEF Init
  <1>5. PICK pr \in SUBSET (OnPull(seen) \cup Inherited(seen, branch)) :
           /\ \A a, b \in pr : a.id = b.id => a = b
           /\ known = SetToSeq(pr) \o SetToSeq(branch)
           /\ dismissed \in {{}, {k.id : k \in pr \cup branch}}
    BY <1>4
  <1>6. /\ IsFiniteSet(branch) /\ IsFiniteSet(pr)
        /\ \A b \in branch : b \in KnownFinding /\ b.scope = "branch" /\ b.id[3] = "base"
        /\ \A k \in pr : /\ k \in KnownFinding /\ k.scope = "pr"
                         /\ k.id[3] = "seen" \/ \E b \in branch : b.id = k.id
    <2>1. Given(branch, pr)
      BY <1>3, GivenFact
    <2>2. QED
      BY <2>1 DEF Given
  <1>7. known \in Seq(KnownFinding) /\ ToSet(known) = pr \cup branch
    <2>1. SetToSeq(pr) \in Seq(pr) /\ ToSet(SetToSeq(pr)) = pr
      BY <1>6, SetToSeqFact
    <2>2. SetToSeq(branch) \in Seq(branch) /\ ToSet(SetToSeq(branch)) = branch
      BY <1>6, SetToSeqFact
    <2>3. SetToSeq(pr) \in Seq(KnownFinding) /\ SetToSeq(branch) \in Seq(KnownFinding)
      BY <1>6, <2>1, <2>2
    <2>4. QED
      BY <1>5, <2>1, <2>2, <2>3, Joined
  <1>8. ASSUME NEW b \in stored  PROVE b \in BaselineFinding /\ b.id[3] = "base"
    <2>1. PICK t \in StoredReports, s \in {"open", "resolved"} :
             b = [id |-> <<t[1], t[2], "base">>, place |-> t[1], kind |-> t[2],
                  rating |-> TrackedRating, state |-> s]
      BY DEF Init
    <2>2. t[1] \in Place /\ t[2] \in Kind /\ TrackedRating \in Rating
      BY ConstantsAssumption
    <2>3. QED
      BY <2>1, <2>2 DEF BaselineFinding, Fingerprint, Version
  <1>9. Knowing
    <2>1. ASSUME NEW k \in ToSet(known), k.scope = "pr"
          PROVE  k \in pr /\ (k.id[3] = "seen" \/ \E b \in ToSet(known) : b.scope = "branch" /\ b.id = k.id)
      BY <1>6, <1>7, <2>1
    <2>2. ASSUME NEW k \in ToSet(known), k.scope = "branch"  PROVE k.id[3] = "base"
      BY <1>6, <1>7, <2>2
    <2>3. QED
      BY <1>5, <1>7, <1>8, <2>1, <2>2 DEF Knowing
  <1>10. candidates = <<>> /\ verdicts = <<>> /\ pc = "start" /\ todo = {} /\ answer = [f \in File |-> "none"]
         /\ reachable \in BOOLEAN
    BY DEF Init
  <1>11. Verdicts
    BY <1>10 DEF Verdicts
  <1>12. dismissed \subseteq Fingerprint
    <2>1. \A k \in pr \cup branch : k.id \in Fingerprint
      BY <1>6 DEF KnownFinding
    <2>2. QED
      BY <1>5, <2>1
  <1>13. TypeOK
    BY <1>3, <1>7, <1>8, <1>10, <1>12 DEF TypeOK
  <1>14. QED
    BY <1>9, <1>10, <1>11, <1>13 DEF Reviewing, Asked

LEMMA MoreCandidates ==
    ASSUME Verdicts, NEW more \in Seq(Candidate),
           candidates' = candidates \o more, verdicts' = verdicts
    PROVE  Verdicts'
  <1>1. /\ candidates \in Seq(Candidate) /\ Len(candidates) \in Nat /\ Len(more) \in Nat
        /\ verdicts \in Seq(Verdict) /\ Len(verdicts) \in Nat /\ Len(verdicts) <= Len(candidates)
        /\ DOMAIN verdicts = 1..Len(verdicts)
    BY DEF Verdicts
  <1>2. /\ candidates' \in Seq(Candidate) /\ Len(candidates') = Len(candidates) + Len(more)
        /\ \A i \in 1..Len(candidates) : candidates'[i] = candidates[i]
    BY <1>1
  <1>3. \A i \in DOMAIN verdicts : i \in 1..Len(candidates)
    BY <1>1
  <1>4. Len(verdicts) <= Len(candidates')
    BY <1>1, <1>2
  <1>5. QED
    BY <1>1, <1>2, <1>3, <1>4 DEF Verdicts, Verdict, Candidate

LEMMA PlacesFact ==
    \A list \in Seq(Candidate) : \A i \in DOMAIN list : list[i].place \in Place
  <1> SUFFICES ASSUME NEW list \in Seq(Candidate), NEW i \in DOMAIN list  PROVE list[i].place \in Place
    OBVIOUS
  <1>1. list[i] \in Candidate
    OBVIOUS
  <1>2. QED
    BY <1>1 DEF Candidate

(* The candidates that one file is answered with.                            *)
Named(places) == {[id |-> IdOf[x], place |-> x] : x \in places}

LEMMA AnswerFact ==
    ASSUME NEW places \in SUBSET Place
    PROVE  /\ SetToSeq(Named(places)) \in Seq(Candidate)
           /\ ToSet(SetToSeq(Named(places))) = Named(places)
           /\ IsInjective(SetToSeq(Named(places)))
  <1> DEFINE f == [x \in Place |-> [id |-> IdOf[x], place |-> x]]
             S == {f[x] : x \in places}
  <1>1. IsFiniteSet(S)
    <2>1. IsFiniteSet(places)
      BY ConstantsAssumption, FS_Subset
    <2> HIDE DEF f
    <2>2. QED
      BY <2>1, ImageFinite
  <1>2. Named(places) = S
    BY DEF Named
  <1>3. S \subseteq Candidate
    <2>1. ASSUME NEW x \in places  PROVE f[x] \in Candidate
      <3>1. IdOf[x] \in CandidateId /\ x \in Place
        BY ConstantsAssumption
      <3>2. QED
        BY <3>1 DEF Candidate
    <2>2. QED
      BY <2>1
  <1> HIDE DEF S
  <1>4. SetToSeq(S) \in Seq(S) /\ ToSet(SetToSeq(S)) = S /\ IsInjective(SetToSeq(S))
    BY <1>1, SetToSeqFact
  <1>5. SetToSeq(S) \in Seq(Candidate)
    BY <1>3, <1>4
  <1>6. QED
    BY <1>2, <1>4, <1>5

RecheckList == [i \in DOMAIN Rechecks |-> RecheckCandidate(Rechecks[i])]

LEMMA RechecksFact ==
    ASSUME Knowing
    PROVE  /\ RecheckList \in Seq(Candidate)
           /\ DOMAIN RecheckList = DOMAIN Rechecks
           /\ \A i \in DOMAIN RecheckList :
                 Rechecks[i].id \in Fingerprint /\ RecheckList[i].id = RecheckId(Rechecks[i].id)
           /\ DistinctIds(Rechecks)
  <1>1. Rechecks \in Seq(ToSet(known)) /\ DistinctIds(Rechecks)
    <2>1. PlanKnown(RecheckLimit) \in Plan
      BY PlanFact DEF Knowing
    <2>2. QED
      BY <2>1 DEF Plan, Rechecks
  <1> DEFINE n == Len(Rechecks)
  <1>2. n \in Nat /\ DOMAIN Rechecks = 1..n
    BY <1>1
  <1>3. ASSUME NEW i \in 1..n
        PROVE  Rechecks[i].id \in Fingerprint /\ RecheckCandidate(Rechecks[i]) \in Candidate
    <2>1. Rechecks[i] \in KnownFinding
      BY <1>1, OwnItems DEF Knowing
    <2>2. QED
      BY <2>1 DEF KnownFinding, RecheckCandidate, Candidate
  <1>4. RecheckList = [i \in 1..n |-> RecheckCandidate(Rechecks[i])]
    BY <1>2 DEF RecheckList
  <1>5. RecheckList \in [1..n -> Candidate]
    BY <1>3, <1>4
  <1>6. RecheckList \in Seq(Candidate)
    BY <1>2, <1>5
  <1>7. QED
    BY <1>1, <1>2, <1>3, <1>4, <1>6 DEF RecheckCandidate

(* What no step changes.                                                     *)
LEMMA SameInputs ==
    ASSUME Reviewing, UNCHANGED inputs
    PROVE  /\ Knowing' /\ Diff' = Diff
           /\ <<seen, head>>' \in Commits /\ reachable' \in BOOLEAN /\ known' \in Seq(KnownFinding)
           /\ stored' \subseteq BaselineFinding /\ dismissed' \subseteq Fingerprint
  BY DEF Reviewing, TypeOK, Knowing, inputs, Diff, Changed

LEMMA StartReviewing ==
    ASSUME Reviewing,
           FastExit \/ \E outcome \in {"configuration_required", "review_incomplete"} : GiveUp(outcome)
    PROVE  Reviewing'
  <1>1. PICK outcome : \E covered \in BOOLEAN :
              /\ result' = Decided(outcome, Passive(covered),
                              IF covered THEN PassiveOutcomes ELSE HoldFixes(PassiveOutcomes), <<>>, covered)
              /\ pc = "start" /\ pc' = "done"
              /\ UNCHANGED <<inputs, todo, answer, candidates, verdicts>>
    BY PassiveStep
  <1>2. result'.decision \in ToSet(Precedence)
    BY <1>1, PolicyFact DEF Decided
  <1>3. Verdicts'
    BY <1>1 DEF Reviewing, Verdicts
  <1>4. QED
    BY <1>1, <1>2, <1>3, SameInputs DEF Reviewing, TypeOK

LEMMA ConcludeReviewing ==
    ASSUME Reviewing, Conclude
    PROVE  Reviewing'
  <1>1. PICK outcome :
              /\ result' = Decided(outcome, Classes(Covered), HeldOutcomes(Covered), Reports, Covered)
              /\ pc' = "done"
              /\ UNCHANGED <<inputs, todo, answer, candidates, verdicts>>
    BY ConcludeFact
  <1>2. result'.decision \in ToSet(Precedence)
    <2>1. Covered \in BOOLEAN
      BY DEF Covered, BatchComplete, NoneUnresolved
    <2>2. QED
      BY <1>1, <2>1, PolicyFact DEF Decided
  <1>3. Verdicts'
    BY <1>1 DEF Reviewing, Verdicts
  <1>4. QED
    BY <1>1, <1>2, <1>3, SameInputs DEF Reviewing, TypeOK

LEMMA FileReviewing ==
    ASSUME Reviewing, NEW f \in File, SkipFile(f) \/ FileFails(f) \/ FileAnswered(f)
    PROVE  Reviewing'
  <1>1. /\ pc = "review" /\ pc' = "review" /\ UNCHANGED inputs
        /\ verdicts' = verdicts
    BY DEF SkipFile, FileFails, FileAnswered
  <1>2. /\ answer \in [File -> {"none", "retry", "failed", "partial", "complete", "skipped"}]
        /\ todo \subseteq Diff
        /\ \A x \in File : answer[x] = "skipped" => x \in Skippable
        /\ Verdicts /\ verdicts = <<>>
    BY <1>1 DEF Reviewing, TypeOK
  <1>3. /\ answer' \in [File -> {"none", "retry", "failed", "partial", "complete", "skipped"}]
        /\ todo' \subseteq Diff
        /\ \A x \in File : answer'[x] = "skipped" => x \in Skippable
    BY <1>2 DEF SkipFile, FileFails, FileAnswered, Answered
  <1>4. Verdicts'
    <2>1. CASE UNCHANGED candidates
      BY <1>1, <1>2, <2>1 DEF Verdicts
    <2>2. CASE FileAnswered(f)
      <3>1. PICK places \in SUBSET Place : candidates' = candidates \o SetToSeq(Named(places))
        BY <2>2 DEF FileAnswered, Named
      <3>2. SetToSeq(Named(places)) \in Seq(Candidate)
        BY AnswerFact
      <3>3. QED
        BY <1>1, <1>2, <3>1, <3>2, MoreCandidates
    <2>3. QED
      BY <2>1, <2>2 DEF SkipFile, FileFails
  <1>5. TypeOK'
    <2>1. \A i \in DOMAIN candidates' : candidates'[i].place \in Place
      BY <1>4, PlacesFact DEF Verdicts
    <2>2. \A i \in DOMAIN verdicts' : verdicts'[i].id = candidates'[i].id
      BY <1>4 DEF Verdicts
    <2>3. QED
      BY <1>1, <1>3, <2>1, <2>2, SameInputs DEF TypeOK
  <1>6. QED
    BY <1>1, <1>2, <1>3, <1>4, <1>5, SameInputs DEF Reviewing

LEMMA VerifyReviewing ==
    ASSUME Reviewing, VerifyNext
    PROVE  Reviewing'
  <1> DEFINE c == candidates[Len(verdicts) + 1]
  <1>1. /\ pc = "verify" /\ Len(verdicts) < Len(candidates)
        /\ UNCHANGED <<pc, inputs, todo, answer, candidates, result>>
    BY DEF VerifyNext
  <1>2. /\ candidates \in Seq(Candidate) /\ verdicts \in Seq(Verdict)
        /\ Len(candidates) \in Nat /\ Len(verdicts) \in Nat
        /\ DOMAIN verdicts = 1..Len(verdicts) /\ DOMAIN candidates = 1..Len(candidates)
        /\ \A i \in DOMAIN verdicts : verdicts[i].id = candidates[i].id
    BY DEF Reviewing, Verdicts
  <1>3. Len(verdicts) + 1 \in DOMAIN candidates
    BY <1>1, <1>2
  <1>4. c \in Candidate
    BY <1>2, <1>3
  <1>5. PICK v \in Verdict : v.id = c.id /\ verdicts' = Append(verdicts, v)
    <2> DEFINE said(state, kind, rating) == [id |-> c.id, state |-> state, kind |-> kind, rating |-> rating]
    <2>1. \/ verdicts' = Append(verdicts, said("unresolved", NoId, NoId))
          \/ \E k \in Kind : verdicts' = Append(verdicts, said("rejected", k, NoId))
          \/ \E k \in Kind, r \in Rating : verdicts' = Append(verdicts, said("verified", k, r))
      BY DEF VerifyNext
    <2>2. c.id \in CandidateId \cup {RecheckId(f) : f \in Fingerprint}
      BY <1>4 DEF Candidate
    <2> HIDE DEF c
    <2>3. /\ said("unresolved", NoId, NoId) \in Verdict
          /\ \A k \in Kind : said("rejected", k, NoId) \in Verdict
          /\ \A k \in Kind, r \in Rating : said("verified", k, r) \in Verdict
      BY <2>2 DEF Verdict
    <2>4. \A state, kind, rating : said(state, kind, rating).id = c.id
      OBVIOUS
    <2> HIDE DEF said
    <2>5. QED
      BY <2>1, <2>3, <2>4
  <1>6. /\ verdicts' \in Seq(Verdict) /\ Len(verdicts') = Len(verdicts) + 1
        /\ DOMAIN verdicts' = 1..(Len(verdicts) + 1)
        /\ \A i \in DOMAIN verdicts : verdicts'[i] = verdicts[i]
        /\ verdicts'[Len(verdicts) + 1] = v
    BY <1>2, <1>5, Appended
  <1>7. ASSUME NEW i \in DOMAIN verdicts'  PROVE verdicts'[i].id = candidates[i].id
    <2>1. i \in DOMAIN verdicts \/ i = Len(verdicts) + 1
      BY <1>2, <1>6
    <2>2. QED
      BY <1>2, <1>5, <1>6, <2>1
  <1>8. Len(verdicts') <= Len(candidates)
    BY <1>1, <1>2, <1>6
  <1>9. Verdicts'
    BY <1>1, <1>2, <1>6, <1>7, <1>8 DEF Verdicts, Verdict, Candidate
  <1>10. TypeOK'
    BY <1>1, <1>7, SameInputs DEF TypeOK, Reviewing
  <1>11. QED
    BY <1>1, <1>9, <1>10, SameInputs DEF Reviewing

LEMMA StepReviewing == Reviewing /\ [Next]_vars => Reviewing'
  <1> SUFFICES ASSUME Reviewing, [Next]_vars  PROVE Reviewing'
    OBVIOUS
  <1>1. CASE FastExit \/ \E outcome \in {"configuration_required", "review_incomplete"} : GiveUp(outcome)
    BY <1>1, StartReviewing
  <1>2. CASE Begin
    <2>1. Verdicts' /\ UNCHANGED inputs
      BY <1>2 DEF Begin, Reviewing, Verdicts
    <2>2. QED
      BY <1>2, <2>1, SameInputs DEF Begin, Reviewing, TypeOK
  <1>3. ASSUME NEW f \in File, SkipFile(f) \/ FileFails(f) \/ FileAnswered(f)  PROVE Reviewing'
    BY <1>3, FileReviewing
  <1>4. CASE PlanRechecks
    <2>1. /\ pc' = "verify" /\ UNCHANGED <<inputs, todo, answer, verdicts, result>>
          /\ candidates' = candidates \o RecheckList
      BY <1>4 DEF PlanRechecks, RecheckList
    <2>2. RecheckList \in Seq(Candidate)
      BY RechecksFact DEF Reviewing
    <2>3. Verdicts'
      BY <2>1, <2>2, MoreCandidates DEF Reviewing
    <2>4. TypeOK'
      <3>1. \A i \in DOMAIN candidates' : candidates'[i].place \in Place
        BY <2>3, PlacesFact DEF Verdicts
      <3>2. \A i \in DOMAIN verdicts' : verdicts'[i].id = candidates'[i].id
        BY <2>3 DEF Verdicts
      <3>3. QED
        BY <2>1, <3>1, <3>2, SameInputs DEF TypeOK, Reviewing
    <2>5. QED
      BY <2>1, <2>3, <2>4, SameInputs DEF Reviewing
  <1>5. CASE VerifyNext
    BY <1>5, VerifyReviewing
  <1>6. CASE VerifierRaises
    <2>1. Verdicts' /\ UNCHANGED inputs
      BY <1>6 DEF VerifierRaises, Reviewing, Verdicts
    <2>2. QED
      BY <1>6, <2>1, SameInputs DEF VerifierRaises, Reviewing, TypeOK
  <1>7. CASE Conclude
    BY <1>7, ConcludeReviewing
  <1>8. CASE UNCHANGED vars
    <2>1. Verdicts' /\ UNCHANGED inputs
      BY <1>8 DEF vars, Reviewing, Verdicts
    <2>2. QED
      BY <1>8, <2>1, SameInputs DEF vars, Reviewing, TypeOK
  <1>9. QED
    BY <1>1, <1>2, <1>3, <1>4, <1>5, <1>6, <1>7, <1>8 DEF Next

(* Every reachable state has values of the right kind, and whatever was      *)
(* reported, tracked and stored, the policy decides one of its outcomes.     *)
THEOREM TypeCorrect == Spec => []TypeOK
  <1>1. Reviewing => TypeOK
    BY DEF Reviewing
  <1>2. QED
    BY <1>1, InitReviewing, StepReviewing, PTL DEF Spec

LEMMA Positions ==
    ASSUME NEW X, NEW a \in Seq(X), NEW b \in Seq(X), NEW i \in DOMAIN (a \o b)
    PROVE  \/ i \in DOMAIN a /\ (a \o b)[i] = a[i]
           \/ \E j \in DOMAIN b : i = Len(a) + j /\ (a \o b)[i] = b[j]
  <1>1. /\ Len(a) \in Nat /\ Len(b) \in Nat
        /\ DOMAIN a = 1..Len(a) /\ DOMAIN b = 1..Len(b)
        /\ i \in 1..(Len(a) + Len(b))
        /\ (a \o b)[i] = IF i <= Len(a) THEN a[i] ELSE b[i - Len(a)]
    OBVIOUS
  <1>2. CASE i <= Len(a)
    BY <1>1, <1>2
  <1>3. CASE ~(i <= Len(a))
    <2>1. i - Len(a) \in 1..Len(b) /\ i = Len(a) + (i - Len(a)) /\ (a \o b)[i] = b[i - Len(a)]
      BY <1>1, <1>3
    <2>2. QED
      BY <1>1, <2>1
  <1>4. QED
    BY <1>2, <1>3

LEMMA AnswerAsked ==
    ASSUME UniqueIds, Reviewing, Asked, NEW f \in File, FileAnswered(f)
    PROVE  Asked'
  <1>1. PICK places \in SUBSET {x \in Place : FileOf[x] = f} :
           candidates' = candidates \o SetToSeq(Named(places))
    BY DEF FileAnswered, Named
  <1> DEFINE more == SetToSeq(Named(places))
  <1>2. more \in Seq(Candidate) /\ ToSet(more) = Named(places) /\ IsInjective(more)
    BY AnswerFact
  <1>3. /\ pc = "review" /\ pc' = "review" /\ f \in todo /\ todo' = todo \ {f}
        /\ candidates \in Seq(Candidate)
    BY DEF FileAnswered, Answered, Reviewing, Verdicts
  <1>4. /\ \A i \in DOMAIN candidates :
              candidates[i].id = IdOf[candidates[i].place] /\ FileOf[candidates[i].place] \notin todo
        /\ \A i, j \in DOMAIN candidates : candidates[i].place = candidates[j].place => i = j
    BY <1>3 DEF Asked
  <1> HIDE DEF more
  <1>5. ASSUME NEW i \in DOMAIN more
        PROVE  FileOf[more[i].place] = f /\ more[i].id = IdOf[more[i].place]
    <2>1. more[i] \in Named(places)
      BY <1>2 DEF ToSet
    <2>2. QED
      BY <2>1 DEF Named
  <1>6. ASSUME NEW i \in DOMAIN more, NEW j \in DOMAIN more, more[i].place = more[j].place  PROVE i = j
    <2>1. more[i] \in Named(places) /\ more[j] \in Named(places)
      BY <1>2 DEF ToSet
    <2>2. more[i] = more[j]
      BY <1>6, <2>1 DEF Named
    <2>3. QED
      BY <1>2, <2>2 DEF IsInjective
  <1>7. ASSUME NEW i \in DOMAIN candidates'
        PROVE  \/ i \in DOMAIN candidates /\ candidates'[i] = candidates[i]
               \/ \E j \in DOMAIN more : i = Len(candidates) + j /\ candidates'[i] = more[j]
    BY <1>1, <1>2, <1>3, <1>7, Positions DEF more
  <1>8. ASSUME NEW i \in DOMAIN candidates'
        PROVE  candidates'[i].id = IdOf[candidates'[i].place] /\ FileOf[candidates'[i].place] \notin todo'
    BY <1>3, <1>4, <1>5, <1>7
  <1>9. ASSUME NEW i \in DOMAIN candidates', NEW j \in DOMAIN candidates',
               candidates'[i].place = candidates'[j].place
        PROVE  i = j
    <2>1. CASE i \in DOMAIN candidates /\ candidates'[i] = candidates[i]
      <3>1. CASE j \in DOMAIN candidates /\ candidates'[j] = candidates[j]
        BY <1>4, <1>9, <2>1, <3>1
      <3>2. CASE \E y \in DOMAIN more : j = Len(candidates) + y /\ candidates'[j] = more[y]
        BY <1>3, <1>4, <1>5, <1>9, <2>1, <3>2
      <3>3. QED
        BY <1>7, <3>1, <3>2
    <2>2. CASE \E x \in DOMAIN more : i = Len(candidates) + x /\ candidates'[i] = more[x]
      <3>1. CASE j \in DOMAIN candidates /\ candidates'[j] = candidates[j]
        BY <1>3, <1>4, <1>5, <1>9, <2>2, <3>1
      <3>2. CASE \E y \in DOMAIN more : j = Len(candidates) + y /\ candidates'[j] = more[y]
        BY <1>6, <1>9, <2>2, <3>2
      <3>3. QED
        BY <1>7, <3>1, <3>2
    <2>3. QED
      BY <1>7, <2>1, <2>2
  <1>10. QED
    BY <1>3, <1>8, <1>9 DEF Asked

LEMMA PlanAsked ==
    ASSUME UniqueIds, Reviewing, Asked, PlanRechecks
    PROVE  Asked'
  <1>1. /\ pc = "review" /\ pc' = "verify" /\ candidates' = candidates \o RecheckList
        /\ candidates \in Seq(Candidate)
    BY DEF PlanRechecks, RecheckList, Reviewing, Verdicts
  <1>2. /\ RecheckList \in Seq(Candidate)
        /\ \A i \in DOMAIN RecheckList :
              Rechecks[i].id \in Fingerprint /\ RecheckList[i].id = RecheckId(Rechecks[i].id)
        /\ \A i, j \in DOMAIN RecheckList : Rechecks[i].id = Rechecks[j].id => i = j
    BY RechecksFact DEF Reviewing, DistinctIds
  <1>3. /\ \A i \in DOMAIN candidates : candidates[i].id = IdOf[candidates[i].place]
        /\ \A i, j \in DOMAIN candidates : candidates[i].place = candidates[j].place => i = j
    BY <1>1 DEF Asked
  <1>4. ASSUME NEW i \in DOMAIN candidates  PROVE candidates[i].place \in Place /\ candidates[i].id \in CandidateId
    <2>1. candidates[i].place \in Place
      BY <1>1, PlacesFact
    <2>2. QED
      BY <1>3, <2>1, ConstantsAssumption
  <1>5. ASSUME NEW i \in DOMAIN candidates, NEW j \in DOMAIN RecheckList
        PROVE  candidates[i].id # RecheckList[j].id
    BY <1>2, <1>4 DEF UniqueIds
  <1>6. ASSUME NEW i \in DOMAIN candidates, NEW j \in DOMAIN candidates, candidates[i].id = candidates[j].id
        PROVE  i = j
    BY <1>3, <1>4, <1>6 DEF UniqueIds
  <1>7. ASSUME NEW i \in DOMAIN RecheckList, NEW j \in DOMAIN RecheckList,
               RecheckList[i].id = RecheckList[j].id
        PROVE  i = j
    BY <1>2, <1>7 DEF RecheckId
  <1>8. ASSUME NEW i \in DOMAIN candidates'
        PROVE  \/ i \in DOMAIN candidates /\ candidates'[i] = candidates[i]
               \/ \E j \in DOMAIN RecheckList : i = Len(candidates) + j /\ candidates'[i] = RecheckList[j]
    BY <1>1, <1>2, <1>8, Positions
  <1>9. ASSUME NEW i \in DOMAIN candidates', NEW j \in DOMAIN candidates', candidates'[i].id = candidates'[j].id
        PROVE  i = j
    <2>1. CASE i \in DOMAIN candidates /\ candidates'[i] = candidates[i]
      <3>1. CASE j \in DOMAIN candidates /\ candidates'[j] = candidates[j]
        BY <1>6, <1>9, <2>1, <3>1
      <3>2. CASE \E y \in DOMAIN RecheckList : j = Len(candidates) + y /\ candidates'[j] = RecheckList[y]
        BY <1>5, <1>9, <2>1, <3>2
      <3>3. QED
        BY <1>8, <3>1, <3>2
    <2>2. CASE \E x \in DOMAIN RecheckList : i = Len(candidates) + x /\ candidates'[i] = RecheckList[x]
      <3>1. CASE j \in DOMAIN candidates /\ candidates'[j] = candidates[j]
        BY <1>5, <1>9, <2>2, <3>1
      <3>2. CASE \E y \in DOMAIN RecheckList : j = Len(candidates) + y /\ candidates'[j] = RecheckList[y]
        BY <1>7, <1>9, <2>2, <3>2
      <3>3. QED
        BY <1>8, <3>1, <3>2
    <2>3. QED
      BY <1>8, <2>1, <2>2
  <1>10. QED
    BY <1>1, <1>9 DEF Asked, DistinctIds

LEMMA StepAsked == UniqueIds /\ Reviewing /\ Asked /\ [Next]_vars => Asked'
  <1> SUFFICES ASSUME UniqueIds, Reviewing, Asked, [Next]_vars  PROVE Asked'
    OBVIOUS
  <1>1. CASE FastExit \/ \E outcome \in {"configuration_required", "review_incomplete"} : GiveUp(outcome)
    BY <1>1, PassiveStep DEF Asked
  <1>2. CASE Begin
    BY <1>2 DEF Begin, Asked, Reviewing
  <1>3. ASSUME NEW f \in File, SkipFile(f) \/ FileFails(f)  PROVE Asked'
    BY <1>3 DEF SkipFile, FileFails, Answered, Asked
  <1>4. ASSUME NEW f \in File, FileAnswered(f)  PROVE Asked'
    BY <1>4, AnswerAsked
  <1>5. CASE PlanRechecks
    BY <1>5, PlanAsked
  <1>6. CASE VerifyNext \/ UNCHANGED vars
    BY <1>6 DEF VerifyNext, vars, Asked, DistinctIds
  <1>7. CASE VerifierRaises
    BY <1>7 DEF VerifierRaises, Asked
  <1>8. CASE Conclude
    BY <1>8, ConcludeFact DEF Asked
  <1>9. QED
    BY <1>1, <1>2, <1>3, <1>4, <1>5, <1>6, <1>7, <1>8 DEF Next

LEMMA ReviewingAlways == UniqueIds => (Spec => [](Reviewing /\ Asked))
  <1> SUFFICES ASSUME UniqueIds  PROVE Spec => [](Reviewing /\ Asked)
    OBVIOUS
  <1>1. Reviewing /\ Asked /\ [Next]_vars => (Reviewing /\ Asked)'
    BY StepReviewing, StepAsked
  <1>2. QED
    BY <1>1, InitReviewing, PTL DEF Spec

--------------------------------------------------------------------------------
(* The theorems                                                              *)

(* How a review comes to its end.                                            *)
LEMMA Ends ==
    ASSUME [Next]_vars, pc' = "done"
    PROVE  \/ pc = "done" /\ UNCHANGED vars
           \/ FastExit \/ \E outcome \in {"configuration_required", "review_incomplete"} : GiveUp(outcome)
           \/ Conclude
  BY DEF Next, vars, Begin, SkipFile, FileFails, FileAnswered, PlanRechecks, VerifyNext, VerifierRaises

LEMMA Concluding ==
    ASSUME Reviewing, Asked, Conclude
    PROVE  /\ Verdicts /\ DistinctIds(candidates) /\ Knowing /\ Covered \in BOOLEAN
           /\ UNCHANGED <<inputs, todo, answer, candidates, verdicts>>
           /\ result'.classes = Final(Covered) /\ result'.complete = Covered
           /\ result'.decision = Policy(Final(Covered), Covered)
           /\ result'.response = Response(Final(Covered), HeldOutcomes(Covered), Reports)
           /\ result'.outcome = "pass_no_verified_finding" =>
                 Covered /\ \A i \in DOMAIN Reports : Reports[i].state # "verified"
  <1>1. PICK outcome :
              /\ result' = Decided(outcome, Classes(Covered), HeldOutcomes(Covered), Reports, Covered)
              /\ outcome = "pass_no_verified_finding" =>
                    Covered /\ \A i \in DOMAIN Reports : Reports[i].state # "verified"
              /\ pc = "verify"
              /\ UNCHANGED <<inputs, todo, answer, candidates, verdicts>>
    BY ConcludeFact
  <1>2. Verdicts /\ DistinctIds(candidates) /\ Knowing
    BY <1>1 DEF Reviewing, Asked
  <1>3. Covered \in BOOLEAN
    BY DEF Covered, BatchComplete, NoneUnresolved
  <1>4. QED
    BY <1>1, <1>2, <1>3 DEF Decided, Final

LEMMA StepReported ==
    ASSUME UniqueIds, Reviewing, Asked, VerifiedIsReported, [Next]_vars
    PROVE  VerifiedIsReported'
  <1> SUFFICES ASSUME pc' = "done", verdicts' # <<>>, NEW i \in DOMAIN verdicts', verdicts'[i].state = "verified"
               PROVE  \E c \in result'.classes : SpeaksFor(c, i)' /\ c.id \in result'.response
    BY DEF VerifiedIsReported, Reviewed
  <1>1. CASE pc = "done" /\ UNCHANGED vars
    BY <1>1 DEF VerifiedIsReported, Reviewed, vars, SpeaksFor
  <1>2. CASE FastExit \/ \E outcome \in {"configuration_required", "review_incomplete"} : GiveUp(outcome)
    BY <1>2, PassiveStep DEF Reviewing
  <1>3. CASE Conclude
    <2>1. /\ Verdicts /\ DistinctIds(candidates) /\ Knowing
          /\ UNCHANGED <<candidates, verdicts>>
          /\ result'.classes = Final(Covered)
          /\ result'.response = Response(Final(Covered), HeldOutcomes(Covered), Reports)
      BY <1>3, Concluding
    <2>2. PICK c \in Final(Covered) : Reported(c, i) /\ SpeaksFor(c, i)
      BY <2>1, SpeaksFact
    <2>3. c.id \in Response(Final(Covered), HeldOutcomes(Covered), Reports)
      BY <2>1, <2>2, RespondFact
    <2>4. SpeaksFor(c, i)'
      BY <2>1, <2>2 DEF SpeaksFor
    <2>5. QED
      BY <2>1, <2>2, <2>3, <2>4
  <1>4. QED
    BY <1>1, <1>2, <1>3, Ends

LEMMA StepSerious ==
    ASSUME UniqueIds, Reviewing, Asked, SeriousNeverPasses, [Next]_vars
    PROVE  SeriousNeverPasses'
  <1> SUFFICES ASSUME pc' = "done", verdicts' # <<>>, NEW i \in DOMAIN verdicts',
                      verdicts'[i].state = "verified", verdicts'[i].rating[1] \in {"critical", "high"},
                      Changed(FileOf[candidates[i].place])'
               PROVE  \/ result'.decision \in {"BLOCK", "INCOMPLETE", "REQUIRE_SECURITY_APPROVAL"}
                      \/ \E c \in result'.classes : SpeaksFor(c, i)' /\ c.id \in dismissed'
    BY DEF SeriousNeverPasses, Reviewed
  <1>1. CASE pc = "done" /\ UNCHANGED vars
    BY <1>1 DEF SeriousNeverPasses, Reviewed, vars, inputs, SpeaksFor, Changed
  <1>2. CASE FastExit \/ \E outcome \in {"configuration_required", "review_incomplete"} : GiveUp(outcome)
    BY <1>2, PassiveStep DEF Reviewing
  <1>3. CASE Conclude
    <2>1. /\ Verdicts /\ DistinctIds(candidates) /\ Knowing /\ Covered \in BOOLEAN
          /\ UNCHANGED <<candidates, verdicts, dismissed, head>>
          /\ result'.classes = Final(Covered)
          /\ result'.decision = Policy(Final(Covered), Covered)
      BY <1>3, Concluding DEF inputs
    <2>2. PICK c \in Final(Covered) : Reported(c, i) /\ SpeaksFor(c, i)
      BY <2>1, SpeaksFact
    <2>3. SpeaksFor(c, i)'
      BY <2>1, <2>2 DEF SpeaksFor
    <2>4. Changed(FileOf[candidates[i].place])
      BY <2>1 DEF Changed
    <2>5. CASE c.id \in dismissed
      BY <2>1, <2>2, <2>3, <2>5
    <2>6. CASE c.id \notin dismissed
      BY <2>1, <2>2, <2>4, <2>6, SeriousFact
    <2>7. QED
      BY <2>5, <2>6
  <1>4. QED
    BY <1>1, <1>2, <1>3, Ends

LEMMA StepCovered ==
    ASSUME UniqueIds, Reviewing, Asked, PassIsCovered, [Next]_vars
    PROVE  PassIsCovered'
  <1> SUFFICES ASSUME pc' = "done", result'.outcome = "pass_no_verified_finding"
               PROVE  /\ \A f \in Diff' \ Skippable : answer'[f] = "complete"
                      /\ \A i \in DOMAIN verdicts' :
                            ~IsRecheck(candidates[i].id)' => verdicts'[i].state = "rejected"
    BY DEF PassIsCovered
  <1>1. CASE pc = "done" /\ UNCHANGED vars
    BY <1>1 DEF PassIsCovered, vars, inputs, IsRecheck, Diff, Changed
  <1>2. CASE FastExit \/ \E outcome \in {"configuration_required", "review_incomplete"} : GiveUp(outcome)
    BY <1>2, PassiveStep DEF Decided
  <1>3. CASE Conclude
    <2>1. /\ Verdicts /\ DistinctIds(candidates) /\ Covered
          /\ \A i \in DOMAIN Reports : Reports[i].state # "verified"
          /\ UNCHANGED <<candidates, verdicts, answer, head, known>>
      BY <1>3, Concluding DEF inputs
    <2>2. Diff' = Diff /\ \A i : IsRecheck(candidates[i].id)' = IsRecheck(candidates[i].id)
      BY <2>1 DEF Diff, Changed, IsRecheck
    <2>3. ASSUME NEW f \in Diff \ Skippable  PROVE answer[f] = "complete"
      <3>1. f \in File /\ answer[f] \in {"complete", "skipped"}
        BY <2>1 DEF Covered, BatchComplete, Diff
      <3>2. QED
        BY <3>1 DEF Reviewing
    <2>4. ASSUME NEW i \in DOMAIN verdicts, ~IsRecheck(candidates[i].id)  PROVE verdicts[i].state = "rejected"
      BY <2>1, <2>4, CoveredFact
    <2>5. QED
      BY <2>1, <2>2, <2>3, <2>4
  <1>4. QED
    BY <1>1, <1>2, <1>3, Ends

LEMMA StepAccounted ==
    ASSUME UniqueIds, Reviewing, Asked, KnownIsAccounted, [Next]_vars
    PROVE  KnownIsAccounted'
  <1> DEFINE All == \A k \in {k \in ToSet(known) : k.scope = "pr"} :
                       Accounted(k, result.classes, result.complete)
  <1>0. (KnownIsAccounted <=> (pc = "done" => All)) /\ (KnownIsAccounted <=> (pc = "done" => All))'
    BY DEF KnownIsAccounted, Accounted, Shared
  <1>1. CASE pc' # "done"
    BY <1>1 DEF KnownIsAccounted
  <1>2. CASE pc = "done" /\ UNCHANGED vars
    <2>1. UNCHANGED <<pc, known, head, candidates, verdicts, result>>
      BY <1>2 DEF vars, inputs
    <2>2. ASSUME All, NEW k \in {k \in ToSet(known) : k.scope = "pr"}
          PROVE  Accounted(k, result.classes, result.complete)'
      <3>1. Accounted(k, result'.classes, result'.complete)
        BY <2>1, <2>2
      <3>2. QED
        BY <2>1, <3>1 DEF Accounted, Shared, SpeaksFor, Signature
    <2>3. All => All'
      BY <2>1, <2>2
    <2> HIDE DEF All
    <2>4. QED
      BY <1>0, <1>2, <2>3
  <1>3. ASSUME UNCHANGED <<inputs, candidates, verdicts>>,
               \A k \in ToSet(known) : k.scope = "pr" => Accounted(k, result'.classes, result'.complete)
        PROVE  KnownIsAccounted'
    <2>1. UNCHANGED <<known, head, candidates, verdicts>>
      BY <1>3 DEF inputs
    <2>2. ASSUME NEW k \in ToSet(known), k.scope = "pr"
          PROVE  Accounted(k, result.classes, result.complete)'
      <3>1. Accounted(k, result'.classes, result'.complete)
        BY <1>3, <2>2
      <3>2. QED
        BY <2>1, <3>1 DEF Accounted, Shared, SpeaksFor, Signature
    <2>3. All'
      BY <2>1, <2>2
    <2> HIDE DEF All
    <2>4. QED
      BY <1>0, <2>3
  <1>4. CASE FastExit \/ \E outcome \in {"configuration_required", "review_incomplete"} : GiveUp(outcome)
    <2>1. PICK outcome : \E covered \in BOOLEAN :
              /\ result' = Decided(outcome, Passive(covered),
                              IF covered THEN PassiveOutcomes ELSE HoldFixes(PassiveOutcomes), <<>>, covered)
              /\ UNCHANGED <<inputs, todo, answer, candidates, verdicts>>
      BY <1>4, PassiveStep
    <2>2. PICK covered \in BOOLEAN :
              /\ result' = Decided(outcome, Passive(covered),
                              IF covered THEN PassiveOutcomes ELSE HoldFixes(PassiveOutcomes), <<>>, covered)
              /\ UNCHANGED <<inputs, todo, answer, candidates, verdicts>>
      BY <2>1
    <2>3. /\ result'.complete = covered
          /\ result'.classes = Lifecycle(Passive(covered),
                                  IF covered THEN PassiveOutcomes ELSE HoldFixes(PassiveOutcomes))
      BY <2>2 DEF Decided
    <2>4. \A k \in ToSet(known) : k.scope = "pr" => Accounted(k, result'.classes, result'.complete)
      BY <2>3, PassiveFact DEF Reviewing
    <2>5. QED
      BY <1>3, <2>2, <2>4
  <1>5. CASE Conclude
    <2>1. /\ Verdicts /\ DistinctIds(candidates) /\ Knowing /\ Covered \in BOOLEAN
          /\ UNCHANGED <<inputs, candidates, verdicts>>
          /\ result'.classes = Final(Covered) /\ result'.complete = Covered
      BY <1>5, Concluding
    <2>2. \A k \in ToSet(known) : k.scope = "pr" => Accounted(k, result'.classes, result'.complete)
      BY <2>1, AccountedFact
    <2>3. QED
      BY <1>3, <2>1, <2>2
  <1>6. QED
    BY <1>1, <1>2, <1>4, <1>5, Ends

(* Every vulnerability that the verifier confirms is in the response under   *)
(* the place it was confirmed at, or merged into a report of the same issue, *)
(* for any number of files, reports, tracked findings and candidates.        *)
THEOREM ConfirmedAreReported == UniqueIds => (Spec => []VerifiedIsReported)
  <1> SUFFICES ASSUME UniqueIds  PROVE Spec => []VerifiedIsReported
    OBVIOUS
  <1>1. Init => VerifiedIsReported
    BY DEF Init, VerifiedIsReported, Reviewed
  <1>2. Reviewing /\ Asked /\ VerifiedIsReported /\ [Next]_vars => VerifiedIsReported'
    BY StepReported
  <1>3. Spec => [](Reviewing /\ Asked)
    BY ReviewingAlways
  <1>4. QED
    BY <1>1, <1>2, <1>3, PTL DEF Spec

(* A confirmed critical or high finding in a changed file does not let the   *)
(* merge through: whatever it is merged into, takes its identity from or is  *)
(* compared with, unless a person dismissed the finding it is reported as.   *)
THEOREM SeriousAreStopped == UniqueIds => (Spec => []SeriousNeverPasses)
  <1> SUFFICES ASSUME UniqueIds  PROVE Spec => []SeriousNeverPasses
    OBVIOUS
  <1>1. Init => SeriousNeverPasses
    BY DEF Init, SeriousNeverPasses, Reviewed
  <1>2. Reviewing /\ Asked /\ SeriousNeverPasses /\ [Next]_vars => SeriousNeverPasses'
    BY StepSerious
  <1>3. Spec => [](Reviewing /\ Asked)
    BY ReviewingAlways
  <1>4. QED
    BY <1>1, <1>2, <1>3, PTL DEF Spec

(* A review that passes answered every relevant file completely and rejected *)
(* every hypothesis.                                                         *)
THEOREM PassesAreCovered == UniqueIds => (Spec => []PassIsCovered)
  <1> SUFFICES ASSUME UniqueIds  PROVE Spec => []PassIsCovered
    OBVIOUS
  <1>1. Init => PassIsCovered
    BY DEF Init, PassIsCovered
  <1>2. Reviewing /\ Asked /\ PassIsCovered /\ [Next]_vars => PassIsCovered'
    BY StepCovered
  <1>3. Spec => [](Reviewing /\ Asked)
    BY ReviewingAlways
  <1>4. QED
    BY <1>1, <1>2, <1>3, PTL DEF Spec

(* No finding of the pull request is forgotten, in whatever way the review   *)
(* ends and however many of them there are.                                  *)
THEOREM TrackedAreAccounted == UniqueIds => (Spec => []KnownIsAccounted)
  <1> SUFFICES ASSUME UniqueIds  PROVE Spec => []KnownIsAccounted
    OBVIOUS
  <1>1. Init => KnownIsAccounted
    BY DEF Init, KnownIsAccounted
  <1>2. Reviewing /\ Asked /\ KnownIsAccounted /\ [Next]_vars => KnownIsAccounted'
    BY StepAccounted
  <1>3. Spec => [](Reviewing /\ Asked)
    BY ReviewingAlways
  <1>4. QED
    BY <1>1, <1>2, <1>3, PTL DEF Spec

================================================================================
