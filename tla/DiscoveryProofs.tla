---------------------------- MODULE DiscoveryProofs -----------------------------
(*****************************************************************************)
(* Theorems about Discovery, for any number of regions, obligations,         *)
(* candidates, worker threads, continuations, failures and runs, and about   *)
(* SearchScope, for any files, hunt plans, search plans and limits.          *)
(*****************************************************************************)
EXTENDS Discovery, SearchScope, Integers, FiniteSetTheorems, SequenceTheorems,
        WellFoundedInduction, TLAPS

(* Where a region is says how often it was asked.                            *)
Rounds ==
    \A r \in Region :
        /\ at[r] = "waiting" => heard[r] = <<>> /\ kept[r] = {}
        /\ at[r] = "asking" => Len(heard[r]) <= MaxContinuations[r]
        /\ at[r] = "admitting" => heard[r] # <<>>

Reuse == \A r \in reused : at[r] = "over"

(* When the discovery ends, all regions are over.                            *)
EndsOver == pc \in {"returned", "raised"} => \A r \in Region : at[r] = "over"

(* What an answer grounds is in the index, or it was not looked at yet.      *)
GroundedIsSeen ==
    \A r \in Region : \A i \in DOMAIN heard[r] :
        heard[r][i].cands \cap heard[r][i].grounded
            \subseteq index \cup (IF at[r] = "admitting" /\ i = Len(heard[r]) THEN left[r] ELSE {})

(* Regions that were analyzed keep the index among them, and share nothing.  *)
Analyzed == Region \ reused

IndexIsKept ==
    /\ \A r \in Analyzed : kept[r] \subseteq index
    /\ \A c \in index : \E r \in Analyzed : c \in kept[r]
    /\ \A r, s \in Analyzed : r # s => kept[r] \cap kept[s] = {}

(* What an obligation came to was said, and of what was grounded.            *)
SaidAndGrounded ==
    \A r \in Analyzed : \A o \in Obligation :
        /\ disp[r][o] = "clean" => \E a \in Told(r) : a.says[o] = "clean"
        /\ disp[r][o] \in Cand =>
              /\ \E a \in Told(r) : a.says[o] = disp[r][o]
              /\ \E b \in Told(r) : disp[r][o] \in b.grounded

IInv ==
    /\ TypeOK
    /\ Rounds
    /\ Reuse
    /\ EndsOver
    /\ GroundedIsSeen
    /\ IndexIsKept
    /\ SaidAndGrounded

(* The statuses that stand for no candidate are none.                        *)
LEMMA Statuses ==
    /\ Cand \cap {"none", "clean", "context", "unresolved", "omitted"} = {}
    /\ Status = {"none", "unresolved", "clean", "context"} \cup Cand
  BY ConstantsAssumption DEF Status, Verdict

(* Every part of an answer has its type.                                     *)
LEMMA AnswerType ==
    ASSUME NEW a \in Answers
    PROVE  /\ a.cands \subseteq Cand /\ a.grounded \subseteq a.cands
           /\ a.says \in [Obligation -> Verdict]
  BY ConstantsAssumption DEF Answer

(* Nothing was asked, nothing found: how every discovery begins.             *)
LEMMA FreshInv ==
    ASSUME unit' \in [Region -> [kept : SUBSET Cand, disp : [Obligation -> Status],
                                 issues : BOOLEAN] \cup {None}],
           plan' \in Plans, runs' \in 0..MaxRuns, faults' \in 0..MaxFaults,
           pc' \in {"idle", "discovering"}, Fresh
    PROVE  IInv'
  <1>1. /\ index' = {} /\ reused' = {} /\ raised' = FALSE
        /\ at' = [r \in Region |-> "waiting"] /\ heard' = [r \in Region |-> <<>>]
        /\ left' = [r \in Region |-> {}] /\ kept' = [r \in Region |-> {}]
        /\ rejected' = [r \in Region |-> {}]
        /\ disp' = [r \in Region |-> [o \in Obligation |-> "none"]]
        /\ issues' = [r \in Region |-> FALSE] /\ errors' = [r \in Region |-> FALSE]
    BY DEF Fresh, NoDisposition
  <1>2. TypeOK'
    <2>1. /\ heard' \in [Region -> Seq(Answers)]
          /\ \A r \in Region : Len(heard'[r]) <= MaxContinuations[r] + 1
      BY <1>1, ConstantsAssumption
    <2>2. disp' \in [Region -> [Obligation -> Status]]
      BY <1>1, Statuses
    <2>3. QED
      BY <1>1, <2>1, <2>2 DEF TypeOK
  <1>3. Rounds' /\ Reuse' /\ EndsOver'
    BY <1>1 DEF Rounds, Reuse, EndsOver
  <1>4. GroundedIsSeen' /\ IndexIsKept'
    BY <1>1 DEF GroundedIsSeen, IndexIsKept, Analyzed
  <1>5. SaidAndGrounded'
    <2>1. \A r \in Region : \A o \in Obligation : disp'[r][o] = "none"
      BY <1>1
    <2>2. QED
      BY <2>1, Statuses DEF SaidAndGrounded, Analyzed
  <1>6. QED
    BY <1>2, <1>3, <1>4, <1>5 DEF IInv

(* The first discovery, and one that starts anew or is cut off.              *)
LEMMA InitInv == Init => IInv
  <1> SUFFICES ASSUME Init  PROVE IInv
    OBVIOUS
  <1>1. /\ index = {} /\ reused = {} /\ raised = FALSE /\ pc = "idle"
        /\ at = [r \in Region |-> "waiting"] /\ heard = [r \in Region |-> <<>>]
        /\ left = [r \in Region |-> {}] /\ kept = [r \in Region |-> {}]
        /\ rejected = [r \in Region |-> {}]
        /\ disp = [r \in Region |-> [o \in Obligation |-> "none"]]
        /\ issues = [r \in Region |-> FALSE] /\ errors = [r \in Region |-> FALSE]
        /\ unit = [r \in Region |-> None] /\ plan \in Plans /\ runs = 0 /\ faults = 0
    BY DEF Init, NoDisposition
  <1>2. TypeOK
    <2>1. /\ heard \in [Region -> Seq(Answers)]
          /\ \A r \in Region : Len(heard[r]) <= MaxContinuations[r] + 1
      BY <1>1, ConstantsAssumption
    <2>2. disp \in [Region -> [Obligation -> Status]]
      BY <1>1, Statuses
    <2>3. 0 \in 0..MaxRuns /\ 0 \in 0..MaxFaults
      BY ConstantsAssumption
    <2>4. QED
      BY <1>1, <2>1, <2>2, <2>3 DEF TypeOK
  <1>3. Rounds /\ Reuse /\ EndsOver
    BY <1>1 DEF Rounds, Reuse, EndsOver
  <1>4. GroundedIsSeen /\ IndexIsKept
    BY <1>1 DEF GroundedIsSeen, IndexIsKept, Analyzed
  <1>5. SaidAndGrounded
    <2>1. \A r \in Region : \A o \in Obligation : disp[r][o] = "none"
      BY <1>1
    <2>2. QED
      BY <2>1, Statuses DEF SaidAndGrounded, Analyzed
  <1>6. QED
    BY <1>2, <1>3, <1>4, <1>5 DEF IInv

LEMMA StartInv == IInv /\ Start => IInv'
  BY FreshInv, ConstantsAssumption DEF Start, disk, IInv, TypeOK

LEMMA CrashInv == IInv /\ Crash => IInv'
  BY FreshInv, ConstantsAssumption DEF Crash, Fault, disk, IInv, TypeOK

--------------------------------------------------------------------------------
(* The steps of a region                                                     *)

(* The region moves to another label and nothing else is touched but flags   *)
(* and files that the rest of the invariant does not look at.                *)
LEMMA LabelStep ==
    ASSUME IInv, NEW r \in Region, at[r] # "over",
           NEW label \in {"finishing", "over"}, Goto(r, label),
           label = "over" \/ at[r] # "waiting",
           at[r] = "admitting" => left[r] = {},
           UNCHANGED <<plan, runs, pc, index, heard, left, kept, rejected, disp, reused>>,
           unit' \in [Region -> [kept : SUBSET Cand, disp : [Obligation -> Status],
                                issues : BOOLEAN] \cup {None}],
           issues' \in [Region -> BOOLEAN], errors' \in [Region -> BOOLEAN],
           raised' \in BOOLEAN, faults' \in 0..MaxFaults
    PROVE  IInv'
  <1>1. /\ at' = [at EXCEPT ![r] = label] /\ heard' = heard /\ left' = left /\ kept' = kept
        /\ disp' = disp /\ reused' = reused /\ index' = index /\ pc' = pc
    BY DEF Goto
  <1>2. TypeOK'
    BY <1>1 DEF IInv, TypeOK
  <1>3. \A s \in Region : at'[s] = IF s = r THEN label ELSE at[s]
    BY <1>1 DEF IInv, TypeOK
  <1>4. Rounds' /\ Reuse' /\ EndsOver'
    BY <1>1, <1>3 DEF IInv, TypeOK, Rounds, Reuse, EndsOver
  <1>5. GroundedIsSeen'
    BY <1>1, <1>3 DEF IInv, GroundedIsSeen
  <1>6. IndexIsKept'
    BY <1>1 DEF IInv, IndexIsKept, Analyzed
  <1>7. SaidAndGrounded'
    BY <1>1 DEF IInv, SaidAndGrounded, Analyzed, Told
  <1>8. QED
    BY <1>2, <1>4, <1>5, <1>6, <1>7 DEF IInv

(* A region begins, or is answered from its unit: then it is not analyzed.   *)
LEMMA TakeInv ==
    ASSUME IInv, NEW r \in Region, Take(r)
    PROVE  IInv'
  <1>1. /\ pc = "discovering" /\ at[r] = "waiting" /\ kept[r] = {} /\ heard[r] = <<>>
        /\ r \notin reused
        /\ UNCHANGED <<unit, file, plan, runs, faults, pc, index, heard, left, rejected, errors,
                        raised>>
    BY DEF Take, disk, IInv, Rounds, Reuse
  <1>2. CASE unit[r] = None
    <2>1. at' = [at EXCEPT ![r] = "asking"] /\ UNCHANGED <<kept, disp, issues, reused>>
      BY <1>2 DEF Take, Goto
    <2>2. TypeOK'
      BY <1>1, <2>1 DEF IInv, TypeOK
    <2>3. Rounds' /\ Reuse' /\ EndsOver'
      <3>1. Len(heard[r]) <= MaxContinuations[r]
        BY <1>1, ConstantsAssumption
      <3>2. \A s \in Region : at'[s] = IF s = r THEN "asking" ELSE at[s]
        BY <2>1 DEF IInv, TypeOK
      <3>3. Rounds'
        BY <1>1, <2>1, <3>1, <3>2 DEF IInv, Rounds
      <3>4. Reuse' /\ EndsOver'
        BY <1>1, <2>1, <3>2 DEF IInv, Reuse, EndsOver
      <3>5. QED  BY <3>3, <3>4
    <2>4. GroundedIsSeen'
      BY <1>1, <2>1 DEF IInv, TypeOK, GroundedIsSeen
    <2>5. IndexIsKept' /\ SaidAndGrounded'
      BY <1>1, <2>1 DEF IInv, IndexIsKept, SaidAndGrounded, Analyzed, Told
    <2>6. QED
      BY <2>2, <2>3, <2>4, <2>5 DEF IInv
  <1>3. CASE unit[r] # None
    <2>1. /\ at' = [at EXCEPT ![r] = "over"]
          /\ kept' = [kept EXCEPT ![r] = unit[r].kept]
          /\ disp' = [disp EXCEPT ![r] = unit[r].disp]
          /\ issues' = [issues EXCEPT ![r] = unit[r].issues]
          /\ reused' = reused \cup {r}
      BY <1>3 DEF Take, Goto
    <2>2. unit[r] \in [kept : SUBSET Cand, disp : [Obligation -> Status], issues : BOOLEAN]
      BY <1>3 DEF IInv, TypeOK
    <2>3. TypeOK'
      BY <1>1, <2>1, <2>2 DEF IInv, TypeOK
    <2>4. /\ \A s \in Region \ {r} : kept'[s] = kept[s] /\ disp'[s] = disp[s] /\ at'[s] = at[s]
          /\ at'[r] = "over"
      BY <2>1 DEF IInv, TypeOK
    <2>5. Rounds' /\ Reuse' /\ EndsOver'
      BY <1>1, <2>1, <2>4 DEF IInv, Rounds, Reuse, EndsOver
    <2>6. GroundedIsSeen'
      BY <1>1, <2>4 DEF IInv, GroundedIsSeen
    <2>7. IndexIsKept'
      BY <1>1, <2>1, <2>4 DEF IInv, IndexIsKept, Analyzed
    <2>8. SaidAndGrounded'
      BY <1>1, <2>1, <2>4 DEF IInv, SaidAndGrounded, Analyzed, Told
    <2>9. QED
      BY <2>3, <2>5, <2>6, <2>7, <2>8 DEF IInv
  <1>4. QED
    BY <1>2, <1>3

(* A new answer joins the others; none of its candidates was looked at.      *)
LEMMA AskInv ==
    ASSUME IInv, NEW r \in Region, Ask(r)
    PROVE  IInv'
  <1>1. PICK a \in Answers :
          /\ heard' = [heard EXCEPT ![r] = Append(@, a)]
          /\ left' = [left EXCEPT ![r] = a.cands]
    BY DEF Ask, OnFile
  <1>2. /\ at[r] = "asking" /\ at' = [at EXCEPT ![r] = "admitting"]
        /\ UNCHANGED <<unit, plan, runs, pc, index, kept, rejected, disp, issues, errors, reused,
                        raised>>
        /\ faults' \in 0..MaxFaults
    BY ConstantsAssumption DEF Ask, Goto, Fault, IInv, TypeOK
  <1>3. /\ heard[r] \in Seq(Answers) /\ Len(heard[r]) \in Nat
        /\ Len(heard[r]) <= MaxContinuations[r] /\ MaxContinuations[r] \in Nat
    <2>1. heard[r] \in Seq(Answers)
      BY DEF IInv, TypeOK
    <2>2. Len(heard[r]) <= MaxContinuations[r] /\ MaxContinuations[r] \in Nat
      BY <1>2, ConstantsAssumption DEF IInv, Rounds
    <2>3. QED
      BY <2>1, <2>2, LenProperties
  <1>4. /\ Append(heard[r], a) \in Seq(Answers)
        /\ Len(Append(heard[r], a)) = Len(heard[r]) + 1
        /\ DOMAIN Append(heard[r], a) = DOMAIN heard[r] \cup {Len(heard[r]) + 1}
        /\ \A i \in DOMAIN heard[r] : Append(heard[r], a)[i] = heard[r][i] /\ i # Len(heard[r]) + 1
        /\ Append(heard[r], a)[Len(heard[r]) + 1] = a
    BY <1>3
  <1>5. /\ heard'[r] = Append(heard[r], a) /\ left'[r] = a.cands /\ at'[r] = "admitting"
        /\ \A s \in Region \ {r} : heard'[s] = heard[s] /\ left'[s] = left[s] /\ at'[s] = at[s]
    BY <1>1, <1>2 DEF IInv, TypeOK
  <1>6. TypeOK'
    <2>1. /\ heard' \in [Region -> Seq(Answers)]
          /\ \A s \in Region : Len(heard'[s]) <= MaxContinuations[s] + 1
      BY <1>1, <1>3, <1>4, <1>5 DEF IInv, TypeOK
    <2>2. left' \in [Region -> SUBSET Cand]
      BY <1>1, AnswerType DEF IInv, TypeOK
    <2>3. at' \in [Region -> {"waiting", "asking", "admitting", "finishing", "over"}]
      BY <1>2 DEF IInv, TypeOK
    <2>4. QED
      BY <1>2, <2>1, <2>2, <2>3 DEF IInv, TypeOK
  <1>7. Rounds'
    <2>1. heard'[r] # <<>>
      BY <1>3, <1>4, <1>5
    <2>2. QED
      BY <1>2, <1>5, <2>1 DEF IInv, Rounds
  <1>8. Reuse' /\ EndsOver'
    BY <1>2, <1>5 DEF IInv, Reuse, EndsOver
  <1>9. GroundedIsSeen'
    <2>1. SUFFICES ASSUME NEW s \in Region, NEW i \in DOMAIN heard'[s]
                   PROVE  heard'[s][i].cands \cap heard'[s][i].grounded
                            \subseteq index \cup (IF at'[s] = "admitting" /\ i = Len(heard'[s])
                                                 THEN left'[s] ELSE {})
      BY <1>2 DEF GroundedIsSeen
    <2>2. CASE s # r
      BY <1>5, <2>2 DEF IInv, GroundedIsSeen
    <2>3. CASE s = r /\ i = Len(heard[r]) + 1
      <3>1. heard'[s][i] = a /\ i = Len(heard'[s]) /\ left'[s] = a.cands /\ at'[s] = "admitting"
        BY <1>4, <1>5, <2>3
      <3>2. QED  BY <3>1
    <2>4. CASE s = r /\ i # Len(heard[r]) + 1
      <3>1. i \in DOMAIN heard[r] /\ heard'[s][i] = heard[r][i]
        BY <1>4, <1>5, <2>4
      <3>2. heard[r][i].cands \cap heard[r][i].grounded \subseteq index
        BY <1>2, <3>1 DEF IInv, GroundedIsSeen
      <3>3. QED  BY <3>1, <3>2
    <2>5. QED
      BY <2>2, <2>3, <2>4
  <1>10. IndexIsKept'
    BY <1>2 DEF IInv, IndexIsKept, Analyzed
  <1>11. SaidAndGrounded'
    <2>1. \A s \in Region : Told(s) \subseteq Told(s)'
      <3>1. SUFFICES ASSUME NEW s \in Region, NEW i \in DOMAIN heard[s]
                     PROVE  \E j \in DOMAIN heard'[s] : heard'[s][j] = heard[s][i]
        BY DEF Told
      <3>2. i \in DOMAIN heard'[s] /\ heard'[s][i] = heard[s][i]
        BY <1>4, <1>5
      <3>3. QED  BY <3>2
    <2>2. QED
      BY <1>2, <2>1 DEF IInv, SaidAndGrounded, Analyzed
  <1>12. QED
    BY <1>6, <1>7, <1>8, <1>9, <1>10, <1>11 DEF IInv

(* One candidate: rejected, or in the index and kept by whoever was first.   *)
LEMMA AdmitInv ==
    ASSUME IInv, NEW r \in Region, NEW c \in Cand, Admit(r, c)
    PROVE  IInv'
  <1>1. /\ at[r] = "admitting" /\ c \in left[r]
        /\ left' = [left EXCEPT ![r] = @ \ {c}]
        /\ UNCHANGED <<unit, plan, runs, faults, pc, at, heard, disp, issues, errors, reused,
                        raised>>
    BY DEF Admit, disk
  <1>2. \/ /\ c \notin answer(r).grounded
           /\ rejected' = [rejected EXCEPT ![r] = @ \cup {c}] /\ index' = index /\ kept' = kept
        \/ /\ index' = index \cup {c} /\ rejected' = rejected
           /\ kept' = [kept EXCEPT ![r] = IF c \in index THEN @ ELSE @ \cup {c}]
    BY DEF Admit, Repeats, Grounded
  <1>3. r \in Analyzed
    BY <1>1 DEF IInv, Reuse, Analyzed
  <1>4. TypeOK'
    <2>1. /\ index' \subseteq Cand
          /\ kept' \in [Region -> SUBSET Cand] /\ rejected' \in [Region -> SUBSET Cand]
      <3>1. index \subseteq Cand /\ kept \in [Region -> SUBSET Cand] /\ rejected \in [Region -> SUBSET Cand]
        BY DEF IInv, TypeOK
      <3>2. kept[r] \cup {c} \subseteq Cand /\ rejected[r] \cup {c} \subseteq Cand
        BY <3>1
      <3>3. QED  BY <1>2, <3>1, <3>2
    <2>2. left' \in [Region -> SUBSET Cand]
      BY <1>1 DEF IInv, TypeOK
    <2>3. QED
      BY <1>1, <2>1, <2>2 DEF IInv, TypeOK
  <1>5. Rounds' /\ Reuse' /\ EndsOver'
    <2>1. \A s \in Region : s # r => kept'[s] = kept[s]
      BY <1>2 DEF IInv, TypeOK
    <2>2. QED
      BY <1>1, <2>1 DEF IInv, Rounds, Reuse, EndsOver
  <1>6. index \subseteq index' /\ (c \in answer(r).grounded => c \in index')
    BY <1>2
  <1>7. GroundedIsSeen'
    <2>1. SUFFICES ASSUME NEW s \in Region, NEW i \in DOMAIN heard[s],
                          NEW d \in heard[s][i].cands \cap heard[s][i].grounded, d \notin index'
                   PROVE  at[s] = "admitting" /\ i = Len(heard[s]) /\ d \in left'[s]
      BY <1>1 DEF GroundedIsSeen
    <2>2. at[s] = "admitting" /\ i = Len(heard[s]) /\ d \in left[s]
      BY <1>6, <2>1 DEF IInv, GroundedIsSeen
    <2>3. CASE s # r
      BY <1>1, <2>2, <2>3 DEF IInv, TypeOK
    <2>4. CASE s = r
      <3>1. d \in answer(r).grounded
        BY <2>1, <2>2, <2>4 DEF answer
      <3>2. d # c
        BY <1>6, <2>1, <3>1
      <3>3. QED
        BY <1>1, <2>2, <2>4, <3>2 DEF IInv, TypeOK
    <2>5. QED
      BY <2>3, <2>4
  <1>8. IndexIsKept'
    <2>1. CASE index' = index /\ kept' = kept
      BY <1>1, <2>1 DEF IInv, IndexIsKept, Analyzed
    <2>2. CASE c \in index /\ index' = index \cup {c} /\ kept' = [kept EXCEPT ![r] = @]
      <3>1. index' = index /\ kept' = kept
        BY <2>2 DEF IInv, TypeOK
      <3>2. QED  BY <2>1, <3>1
    <2>3. CASE /\ c \notin index /\ index' = index \cup {c}
               /\ kept' = [kept EXCEPT ![r] = @ \cup {c}]
      <3>1. /\ kept'[r] = kept[r] \cup {c}
            /\ \A s \in Region : s # r => kept'[s] = kept[s]
        BY <2>3 DEF IInv, TypeOK
      <3>2. \A s \in Analyzed : c \notin kept[s]
        BY <2>3 DEF IInv, IndexIsKept
      <3>3. QED
        BY <1>1, <1>3, <2>3, <3>1, <3>2 DEF IInv, IndexIsKept, Analyzed
    <2>4. QED
      BY <1>2, <2>1, <2>2, <2>3
  <1>9. SaidAndGrounded'
    BY <1>1 DEF IInv, SaidAndGrounded, Analyzed, Told
  <1>10. QED
    BY <1>4, <1>5, <1>7, <1>8, <1>9 DEF IInv

(* The answer that is looked at is one the region was given.                 *)
LEMMA AnswerIsTold ==
    ASSUME IInv, NEW r \in Region, at[r] = "admitting"
    PROVE  answer(r) \in Answers /\ answer(r) \in Told(r)
  <1>1. heard[r] \in Seq(Answers) /\ heard[r] # <<>>
    BY DEF IInv, TypeOK, Rounds
  <1>2. Len(heard[r]) \in DOMAIN heard[r] /\ heard[r][Len(heard[r])] \in Answers
    BY <1>1
  <1>3. QED
    BY <1>2 DEF answer, Told

(* What an answer makes of the obligations was said in it or before.         *)
LEMMA AppliedIsSaid ==
    ASSUME IInv, NEW r \in Analyzed, at[r] = "admitting", NEW o \in Obligation
    PROVE  /\ Applied(r)[o] \in Status
           /\ Applied(r)[o] = "clean" => \E a \in Told(r) : a.says[o] = "clean"
           /\ Applied(r)[o] \in Cand =>
                 /\ \E a \in Told(r) : a.says[o] = Applied(r)[o]
                 /\ \E b \in Told(r) : Applied(r)[o] \in b.grounded
  <1>1. /\ answer(r) \in Told(r) /\ answer(r).says[o] \in Verdict
        /\ answer(r).grounded \subseteq Cand
    BY AnswerIsTold, AnswerType DEF Analyzed
  <1>2. /\ \A p \in Obligation : disp[r][p] \in Status
        /\ \A p \in Obligation :
              disp[r][p] \in Cand => \E b \in Told(r) : disp[r][p] \in b.grounded
    BY DEF IInv, TypeOK, SaidAndGrounded, Analyzed
  <1>3. CASE o \notin Open(r)
    <2>1. Applied(r)[o] = disp[r][o]
      BY <1>3 DEF Applied
    <2>2. QED
      BY <2>1, <1>2 DEF IInv, SaidAndGrounded
  <1>4. CASE o \in Open(r)
    <2> DEFINE v == answer(r).says[o]
    <2>1. Applied(r)[o] = IF v = "omitted" \/ v \in Cand \ Linkable(r) THEN "unresolved" ELSE v
      BY <1>4 DEF Applied, Accepted
    <2>2. CASE v = "omitted" \/ v \in Cand \ Linkable(r)
      BY <2>1, <2>2, Statuses
    <2>3. CASE v # "omitted" /\ v \notin Cand
      BY <2>1, <2>3, <1>1, Statuses DEF Status
    <2>4. CASE v \in Linkable(r) /\ v \in Cand
      <3>1. \E b \in Told(r) : v \in b.grounded
        <4>1. CASE v \in answer(r).grounded
          BY <4>1, <1>1
        <4>2. CASE \E p \in Obligation : v = disp[r][p]
          BY <4>2, <2>4, <1>2
        <4>3. QED  BY <4>1, <4>2, <2>4 DEF Linkable, Grounded
      <3>2. v # "omitted" /\ v # "clean" /\ v \in Status
        BY <2>4, Statuses
      <3>3. QED
        BY <2>1, <2>4, <3>1, <3>2, <1>1
    <2>5. QED
      BY <2>2, <2>3, <2>4
  <1>5. QED
    BY <1>3, <1>4

(* The dispositions are applied; the region is asked again only while it has *)
(* continuations.                                                            *)
LEMMA JudgeInv ==
    ASSUME IInv, NEW r \in Region, Judge(r)
    PROVE  IInv'
  <1>1. /\ at[r] = "admitting" /\ left[r] = {}
        /\ UNCHANGED <<unit, plan, runs, faults, pc, index, heard, left, kept, rejected, reused,
                        raised>>
    BY DEF Judge, disk
  <1>2. r \in Analyzed
    BY <1>1 DEF IInv, Reuse, Analyzed
  <1>3. CASE CitesBadEvidence(r)
    <2>1. errors' = [errors EXCEPT ![r] = TRUE] /\ Goto(r, "finishing") /\ UNCHANGED <<disp, issues>>
      BY <1>3 DEF Judge, Errs
    <2>2. /\ unit' \in [Region -> [kept : SUBSET Cand, disp : [Obligation -> Status],
                                   issues : BOOLEAN] \cup {None}]
          /\ issues' \in [Region -> BOOLEAN] /\ errors' \in [Region -> BOOLEAN]
          /\ raised' \in BOOLEAN /\ faults' \in 0..MaxFaults
      BY <1>1, <2>1 DEF IInv, TypeOK
    <2>3. QED
      BY <1>1, <2>1, <2>2, LabelStep
  <1>4. CASE ~CitesBadEvidence(r)
    <2>1. PICK d, label :
            /\ disp' = [disp EXCEPT ![r] = d] /\ at' = [at EXCEPT ![r] = label]
            /\ d = Applied(r) \/ d = Abandoned(Applied(r))
            /\ label = "finishing" \/ (label = "asking" /\ ~Exhausted(r))
      BY <1>4 DEF Judge, Goto
    <2>2. issues' \in [Region -> BOOLEAN] /\ errors' = errors
      BY <1>4, Zenon DEF Judge, IInv, TypeOK, BreaksContract
    <2>3. /\ d \in [Obligation -> Status]
          /\ \A o \in Obligation :
                /\ d[o] = "clean" => \E a \in Told(r) : a.says[o] = "clean"
                /\ d[o] \in Cand => /\ \E a \in Told(r) : a.says[o] = d[o]
                                   /\ \E b \in Told(r) : d[o] \in b.grounded
      <3>1. \A o \in Obligation : d[o] = Applied(r)[o] \/ d[o] = "unresolved"
        BY <2>1 DEF Abandoned
      <3>2. d = [o \in Obligation |-> d[o]]
        BY <2>1 DEF Abandoned, Applied
      <3>3. QED
        BY <3>1, <3>2, <1>1, <1>2, AppliedIsSaid, Statuses
    <2>4. /\ disp'[r] = d /\ at'[r] = label
          /\ \A s \in Region : s # r => disp'[s] = disp[s] /\ at'[s] = at[s]
      BY <2>1 DEF IInv, TypeOK
    <2>5. TypeOK'
      <3>1. disp' \in [Region -> [Obligation -> Status]]
        BY <2>1, <2>3 DEF IInv, TypeOK
      <3>2. at' \in [Region -> {"waiting", "asking", "admitting", "finishing", "over"}]
        BY <2>1 DEF IInv, TypeOK
      <3>3. QED
        BY <1>1, <2>2, <3>1, <3>2 DEF IInv, TypeOK
    <2>6. Rounds'
      <3>1. label = "asking" => Len(heard[r]) <= MaxContinuations[r]
        <4>1. Len(heard[r]) \in Nat /\ MaxContinuations[r] \in Nat
          BY ConstantsAssumption, LenProperties DEF IInv, TypeOK
        <4>2. QED  BY <2>1, <4>1 DEF Exhausted
      <3>2. QED
        BY <1>1, <2>1, <2>4, <3>1 DEF IInv, Rounds
    <2>7. Reuse' /\ EndsOver'
      BY <1>1, <2>4 DEF IInv, TypeOK, Reuse, EndsOver
    <2>8. GroundedIsSeen'
      BY <1>1, <2>4 DEF IInv, GroundedIsSeen
    <2>9. IndexIsKept'
      BY <1>1 DEF IInv, IndexIsKept, Analyzed
    <2>10. SaidAndGrounded'
      BY <1>1, <2>3, <2>4 DEF IInv, SaidAndGrounded, Analyzed, Told
    <2>11. QED
      BY <2>5, <2>6, <2>7, <2>8, <2>9, <2>10 DEF IInv
  <1>5. QED
    BY <1>3, <1>4

(* A region ends, with its unit written or not.                              *)
LEMMA FinishInv ==
    ASSUME IInv, NEW r \in Region, Finish(r)
    PROVE  IInv'
  <1> DEFINE erred == errors[r] \/ ~processing_complete(r)
  <1>1. /\ at[r] = "finishing" /\ Goto(r, "over")
        /\ errors' = [errors EXCEPT ![r] = erred]
        /\ kept' = [kept EXCEPT ![r] = kept[r]]
        /\ \/ unit' = unit
           \/ unit' = [unit EXCEPT ![r] = [kept |-> kept[r], disp |-> disp[r],
                                           issues |-> issues[r]]]
        /\ UNCHANGED <<plan, runs, faults, pc, index, heard, left, rejected, disp, issues, reused,
                        raised>>
    BY DEF Finish, Handed
  <1>2. erred \in BOOLEAN
    BY DEF processing_complete, IInv, TypeOK
  <1> HIDE DEF erred
  <1>3. kept' = kept
    BY <1>1 DEF IInv, TypeOK
  <1>4. errors' \in [Region -> BOOLEAN]
    BY <1>1, <1>2 DEF IInv, TypeOK
  <1>5. unit' \in [Region -> [kept : SUBSET Cand, disp : [Obligation -> Status],
                             issues : BOOLEAN] \cup {None}]
    <2>1. /\ kept[r] \in SUBSET Cand /\ disp[r] \in [Obligation -> Status] /\ issues[r] \in BOOLEAN
          /\ unit \in [Region -> [kept : SUBSET Cand, disp : [Obligation -> Status],
                                 issues : BOOLEAN] \cup {None}]
      BY DEF IInv, TypeOK
    <2>2. [kept |-> kept[r], disp |-> disp[r], issues |-> issues[r]]
             \in [kept : SUBSET Cand, disp : [Obligation -> Status], issues : BOOLEAN]
      BY <2>1
    <2>3. QED
      BY <1>1, <2>1, <2>2
  <1>6. issues' \in [Region -> BOOLEAN] /\ raised' \in BOOLEAN /\ faults' \in 0..MaxFaults
    BY <1>1 DEF IInv, TypeOK
  <1>7. QED
    BY <1>1, <1>3, <1>4, <1>5, <1>6, LabelStep

(* The ways out of a region without a unit.                                  *)
LEMMA LeaveInv ==
    ASSUME IInv, NEW r \in Region, AskFails(r) \/ FinishRaises(r) \/ Cancel(r)
    PROVE  IInv'
  <1>1. PICK label \in {"finishing", "over"} :
          /\ Goto(r, label)
          /\ at[r] \in {"waiting", "asking", "finishing"}
          /\ label = "over" \/ at[r] # "waiting"
          /\ UNCHANGED <<unit, plan, runs, pc, index, heard, left, kept, rejected, disp, issues,
                          reused>>
    BY DEF AskFails, FinishRaises, Cancel, Errs, disk
  <1>2. errors' \in [Region -> BOOLEAN] /\ raised' \in BOOLEAN
    BY DEF AskFails, FinishRaises, Cancel, Errs, IInv, TypeOK
  <1>3. faults' \in 0..MaxFaults
    BY ConstantsAssumption DEF AskFails, FinishRaises, Cancel, Fault, IInv, TypeOK
  <1>4. unit' \in [Region -> [kept : SUBSET Cand, disp : [Obligation -> Status],
                             issues : BOOLEAN] \cup {None}] /\ issues' \in [Region -> BOOLEAN]
    BY <1>1 DEF IInv, TypeOK
  <1>5. QED
    BY <1>1, <1>2, <1>3, <1>4, LabelStep

LEMMA ReturnInv ==
    ASSUME IInv, Return
    PROVE  IInv'
  <1>1. /\ pc' \in {"returned", "raised"} /\ \A r \in Region : at[r] = "over"
        /\ UNCHANGED <<unit, plan, runs, faults, index, at, heard, left, kept, rejected, disp,
                        issues, errors, reused, raised>>
    BY DEF Return, disk, analysis
  <1>2. TypeOK'
    BY <1>1 DEF IInv, TypeOK
  <1>3. Rounds' /\ Reuse' /\ EndsOver'
    BY <1>1 DEF IInv, Rounds, Reuse, EndsOver
  <1>4. GroundedIsSeen' /\ IndexIsKept' /\ SaidAndGrounded'
    BY <1>1 DEF IInv, GroundedIsSeen, IndexIsKept, SaidAndGrounded, Analyzed, Told
  <1>5. QED
    BY <1>2, <1>3, <1>4 DEF IInv

LEMMA NextInv == IInv /\ [Next]_vars => IInv'
  <1> SUFFICES ASSUME IInv, [Next]_vars  PROVE IInv'
    OBVIOUS
  <1>1. CASE UNCHANGED vars
    BY <1>1 DEF vars, disk, analysis, IInv, TypeOK, Rounds, Reuse, EndsOver, GroundedIsSeen,
                IndexIsKept, SaidAndGrounded, Analyzed, Told
  <1>2. CASE Next
    BY <1>2, StartInv, CrashInv, TakeInv, AskInv, AdmitInv, JudgeInv, FinishInv, LeaveInv,
       ReturnInv DEF Next
  <1>3. QED
    BY <1>1, <1>2

LEMMA Invariance == Spec => []IInv
  BY InitInv, NextInv, PTL DEF Spec

--------------------------------------------------------------------------------
(* Theorems                                                                  *)

(* Every variable stays in its type; in particular no region is asked more   *)
(* often than its continuations allow.                                       *)
THEOREM TypeCorrect == Spec => []TypeOK
  BY Invariance, PTL DEF IInv

(* CandidateIndex.admit: whatever the threads do, a discovery that returns   *)
(* returns every grounded candidate it was told.                             *)
THEOREM NothingLost == Spec => []NothingFoundIsLost
  <1>1. IInv => NothingFoundIsLost
    <2> SUFFICES ASSUME IInv, pc = "returned", NEW r \in Region, NEW i \in DOMAIN heard[r],
                        NEW c \in heard[r][i].cands \cap heard[r][i].grounded
                 PROVE  c \in Returned
      BY DEF NothingFoundIsLost, Told
    <2>1. at[r] = "over"
      BY DEF IInv, EndsOver
    <2>2. c \in index
      BY <2>1 DEF IInv, GroundedIsSeen
    <2>3. QED
      BY <2>2 DEF IInv, IndexIsKept, Analyzed, Returned
  <1>2. QED
    BY <1>1, Invariance, PTL

(* CandidateIndex.admit: of the regions that report the same issue one keeps *)
(* it.                                                                       *)
THEOREM KeptOnceHolds == Spec => []KeptOnce
  <1>1. IInv => KeptOnce
    <2> SUFFICES ASSUME IInv, NEW c \in index
                 PROVE  Cardinality({r \in Region \ reused : c \in kept[r]}) = 1
      BY DEF KeptOnce
    <2>1. PICK r \in Analyzed : c \in kept[r]
      BY DEF IInv, IndexIsKept
    <2>2. {s \in Region \ reused : c \in kept[s]} = {r}
      BY <2>1 DEF IInv, IndexIsKept, Analyzed
    <2>3. QED
      BY <2>2, FS_Singleton
  <1>2. QED
    BY <1>1, Invariance, PTL

(* An obligation that a region resolved is borne out by an answer.           *)
LEMMA ResolvedIsBorneOut ==
    ASSUME IInv, NEW r \in Region, NEW o \in Obligation, Resolves(disp[r][o])
    PROVE  BorneOut(r, o)
  <1>1. CASE r \in reused
    BY <1>1 DEF BorneOut
  <1>2. CASE r \notin reused
    <2>1. disp[r][o] = "clean" \/ disp[r][o] \in Cand
      BY DEF Resolves
    <2>2. \/ \E a \in Told(r) : a.says[o] = "clean"
          \/ \E a, b \in Told(r) : a.says[o] \in b.grounded
      BY <1>2, <2>1 DEF IInv, SaidAndGrounded, Analyzed
    <2>3. QED
      BY <2>2 DEF BorneOut
  <1>3. QED
    BY <1>1, <1>2

(* reconcile_obligations, reconcile_workset_batches: a discovery that leaves *)
(* the scan complete has an answer to every required obligation.             *)
THEOREM CompleteHolds == Spec => []CompleteMeansAnswered
  <1>1. IInv => CompleteMeansAnswered
    <2> SUFFICES ASSUME IInv, CleanDiscovery, NEW o \in Required
                 PROVE  /\ Alone(o) # {} => \E r \in Alone(o) : BorneOut(r, o)
                        /\ \A r \in Region : IsBatch(r) =>
                              /\ o \in Asked[r] => BorneOut(r, o)
                              /\ Cardinality(BatchesOf(plan.scope[r])) = plan.batches[plan.scope[r]]
      BY DEF CompleteMeansAnswered
    <2>1. ~RequiredUnresolved /\ o \in Obligation
      BY ConstantsAssumption DEF CleanDiscovery
    <2>2. ASSUME Alone(o) # {}  PROVE \E r \in Alone(o) : BorneOut(r, o)
      <3>1. PICK r \in Alone(o) : Resolves(disp[r][o])
        BY <2>1, <2>2 DEF RequiredUnresolved, SiblingDone
      <3>2. r \in Region
        BY DEF Alone
      <3>3. QED
        BY <2>1, <3>1, <3>2, ResolvedIsBorneOut
    <2>3. ASSUME NEW r \in Region, IsBatch(r)
          PROVE  /\ o \in Asked[r] => BorneOut(r, o)
                 /\ Cardinality(BatchesOf(plan.scope[r])) = plan.batches[plan.scope[r]]
      <3> DEFINE w == plan.scope[r]
      <3>1. plan \in Plans /\ plan \in Plan
        BY ConstantsAssumption DEF IInv, TypeOK
      <3>2. w \in Workset /\ plan.batches[w] \in Nat
        BY <2>3, <3>1 DEF IsBatch, Plan
      <3>3. r \in BatchesOf(w)
        BY <2>3 DEF BatchesOf
      <3>4. ASSUME o \in Asked[r]  PROVE BorneOut(r, o)
        <4>1. r \in {s \in BatchesOf(w) : o \in Asked[s]}
          BY <3>3, <3>4
        <4>2. BatchesDone({s \in BatchesOf(w) : o \in Asked[s]}, o)
          BY <2>1, <3>2, <4>1 DEF RequiredUnresolved
        <4>3. Resolves(disp[r][o])
          BY <4>1, <4>2 DEF BatchesDone
        <4>4. QED
          BY <2>1, <4>3, ResolvedIsBorneOut
      <3>5. Cardinality(BatchesOf(w)) = plan.batches[w]
        <4> DEFINE planned == {s \in Region : plan.scope[s] = w}
        <4>1. BatchesOf(w) \subseteq planned /\ IsFiniteSet(planned)
          BY ConstantsAssumption, FS_Subset DEF BatchesOf
        <4>2. /\ IsFiniteSet(BatchesOf(w))
              /\ Cardinality(BatchesOf(w)) <= Cardinality(planned)
          BY <4>1, FS_Subset
        <4>3. Cardinality(BatchesOf(w)) \in Nat /\ Cardinality(planned) \in Nat
          BY <4>1, <4>2, FS_CardinalityType
        <4>4. Cardinality(planned) <= plan.batches[w]
          BY <3>1, <3>2, ConstantsAssumption
        <4>5. ~(Cardinality(BatchesOf(w)) < plan.batches[w])
          BY <2>1, <3>2, <3>3 DEF RequiredUnresolved
        <4>6. QED
          BY <3>2, <4>2, <4>3, <4>4, <4>5
      <3>6. QED
        BY <3>4, <3>5
    <2>4. QED
      BY <2>2, <2>3
  <1>2. QED
    BY <1>1, Invariance, PTL

--------------------------------------------------------------------------------
(* What discovery looks at: SearchScope                                      *)

(* A set of numbers has a least one.                                         *)
LEMMA LeastNat ==
    ASSUME NEW S, S \subseteq Nat, S # {}
    PROVE  \E m \in S : \A k \in S : m <= k
  <1>1. IsWellFoundedOn(OpToRel(<, Nat), Nat)
    BY NatLessThanWellFounded
  <1>2. PICK m \in S : \A k \in S : ~ (<<k, m>> \in OpToRel(<, Nat))
    BY <1>1, WFMin
  <1>3. \A k \in S : ~(k < m)
    BY <1>2 DEF OpToRel
  <1>4. \A k \in S : m <= k
    <2> TAKE k \in S
    <2>1. k \in Nat /\ m \in Nat /\ ~(k < m)
      BY <1>2, <1>3
    <2>2. QED
      BY <2>1
  <1>5. QED
    BY <1>2, <1>4

(* Induction up to a bound, with a set in place of the formula.              *)
LEMMA UpTo ==
    ASSUME NEW n \in Nat, NEW T, 0 \in T, \A k \in 1..n : k - 1 \in T => k \in T
    PROVE  \A k \in 0..n : k \in T
  <1> DEFINE S == {k \in 0..n : k \notin T}
  <1> SUFFICES ASSUME S # {}  PROVE FALSE
    OBVIOUS
  <1>1. S \subseteq Nat
    OBVIOUS
  <1>2. PICK m \in S : \A k \in S : m <= k
    <2> HIDE DEF S
    <2> QED BY <1>1, LeastNat
  <1>3. m \in 1..n /\ m - 1 \notin S /\ m - 1 \in 0..n
    BY <1>2
  <1>4. QED
    BY <1>2, <1>3

(* Induction over the subsets of a finite set, one element at a time.        *)
LEMMA SetInduction ==
    ASSUME NEW S, IsFiniteSet(S), NEW G, {} \in G,
           \A T \in SUBSET S : T # {} => \E x \in T : T \ {x} \in G => T \in G
    PROVE  \A T \in SUBSET S : T \in G
  <1> DEFINE n == Cardinality(S)
             N == {k \in 0..n : \A T \in SUBSET S : Cardinality(T) = k => T \in G}
  <1>0. n \in Nat /\ \A T \in SUBSET S : IsFiniteSet(T) /\ Cardinality(T) \in 0..n
    BY FS_CardinalityType, FS_Subset
  <1>1. 0 \in N
    <2>1. \A T \in SUBSET S : Cardinality(T) = 0 => T = {}
      BY <1>0, FS_EmptySet
    <2>2. 0 \in 0..n
      BY <1>0
    <2>3. QED
      BY <2>1, <2>2
  <1>2. ASSUME NEW k \in 1..n, k - 1 \in N  PROVE k \in N
    <2>1. ASSUME NEW T \in SUBSET S, Cardinality(T) = k  PROVE T \in G
      <3>1. T # {}
        BY <2>1, <1>0, FS_EmptySet
      <3>2. PICK x \in T : T \ {x} \in G => T \in G
        BY <3>1
      <3>3. Cardinality(T \ {x}) = k - 1
        BY <2>1, <1>0, FS_RemoveElement
      <3>4. QED
        BY <3>2, <3>3, <1>2
    <2>2. k \in 0..n
      BY <1>0
    <2>3. QED
      BY <2>1, <2>2
  <1>3. \A k \in 0..n : k \in N
    <2> HIDE DEF N, n
    <2> QED BY <1>0, <1>1, <1>2, UpTo
  <1>4. QED
    BY <1>0, <1>3

(* What a fold comes to for every subset of a set: last[T] is taken last.    *)
Chooses(last, S) == \A T \in SUBSET S : T # {} => last[T] \in T

FoldsTo(h, S, op, base, last) ==
    \A T \in SUBSET S : h[T] = IF T = {} THEN base ELSE op[<<last[T], h[T \ {last[T]}]>>]

(* The functions that MapThenFoldSet takes its value from exist.             *)
LEMMA FoldExists ==
    ASSUME NEW S, IsFiniteSet(S), NEW A, NEW base \in A, NEW op \in [S \X A -> A],
           NEW last, Chooses(last, S)
    PROVE  \E h \in [SUBSET S -> A] : FoldsTo(h, S, op, base, last)
  <1> DEFINE n == Cardinality(S)
             Up(k) == {T \in SUBSET S : Cardinality(T) <= k}
             Good(k, h) == \A T \in Up(k) :
                 h[T] = IF T = {} THEN base ELSE op[<<last[T], h[T \ {last[T]}]>>]
             N == {k \in 0..n : \E h \in [Up(k) -> A] : Good(k, h)}
  <1>0. n \in Nat /\ \A T \in SUBSET S : IsFiniteSet(T) /\ Cardinality(T) \in 0..n
    BY FS_CardinalityType, FS_Subset
  <1>1. 0 \in N
    <2> DEFINE h == [T \in Up(0) |-> base]
    <2>1. \A T \in Up(0) : T = {}
      BY <1>0, FS_EmptySet
    <2>2. h \in [Up(0) -> A] /\ Good(0, h)
      BY <2>1
    <2>3. 0 \in 0..n
      BY <1>0
    <2> HIDE DEF h, Up, Good
    <2>4. QED
      BY <2>2, <2>3
  <1>2. ASSUME NEW k \in 1..n, k - 1 \in N  PROVE k \in N
    <2>0. k \in 0..n /\ k - 1 \in 0..n /\ k \in Int
      BY <1>0
    <2>1. PICK h \in [Up(k-1) -> A] : Good(k - 1, h)
      BY <1>2
    <2> DEFINE g == [T \in Up(k) |-> IF T \in Up(k-1) THEN h[T] ELSE op[<<last[T], h[T \ {last[T]}]>>]]
    <2>2. ASSUME NEW T \in Up(k), T # {}
          PROVE  T \ {last[T]} \in Up(k-1) /\ T \ {last[T]} \in Up(k) /\ last[T] \in S
      <3>1. last[T] \in T
        BY <2>2 DEF Chooses
      <3>2. Cardinality(T \ {last[T]}) = Cardinality(T) - 1 /\ Cardinality(T) \in 0..n
        BY <3>1, <1>0, FS_RemoveElement
      <3>3. QED
        BY <3>1, <3>2, <2>0
    <2>3. \A T \in Up(k-1) : T \in Up(k) /\ g[T] = h[T]
      BY <1>0, <2>0
    <2>4. \A T \in Up(k) \ Up(k-1) : T # {} /\ g[T] = op[<<last[T], h[T \ {last[T]}]>>]
      <3>1. {} \in Up(k-1)
        BY FS_EmptySet, <2>0
      <3>2. QED
        BY <3>1
    <2>5. g = [T \in Up(k) |-> g[T]]
      OBVIOUS
    <2> HIDE DEF g, Up
    <2>6. ASSUME NEW T \in Up(k)  PROVE g[T] \in A
      <3>1. CASE T \in Up(k-1)
        BY <3>1, <2>3, <2>1
      <3>2. CASE T \notin Up(k-1)
        <4>1. T # {} /\ T \ {last[T]} \in Up(k-1) /\ last[T] \in S
          BY <3>2, <2>4, <2>2
        <4>2. <<last[T], h[T \ {last[T]}]>> \in S \X A
          BY <4>1, <2>1
        <4>3. QED
          BY <4>2, <3>2, <2>4
      <3>3. QED
        BY <3>1, <3>2
    <2>7. g \in [Up(k) -> A]
      BY <2>5, <2>6
    <2>8. Good(k, g)
      <3> SUFFICES ASSUME NEW T \in Up(k)
                   PROVE  g[T] = IF T = {} THEN base ELSE op[<<last[T], g[T \ {last[T]}]>>]
        OBVIOUS
      <3>1. CASE T \in Up(k-1)
        <4>1. h[T] = IF T = {} THEN base ELSE op[<<last[T], h[T \ {last[T]}]>>]
          BY <3>1, <2>1
        <4>2. T # {} => g[T \ {last[T]}] = h[T \ {last[T]}]
          BY <2>2, <2>3
        <4>3. QED
          BY <4>1, <4>2, <3>1, <2>3
      <3>2. CASE T \notin Up(k-1)
        <4>1. T # {} /\ g[T] = op[<<last[T], h[T \ {last[T]}]>>]
          BY <3>2, <2>4
        <4>2. g[T \ {last[T]}] = h[T \ {last[T]}]
          BY <4>1, <2>2, <2>3
        <4>3. QED
          BY <4>1, <4>2
      <3>3. QED
        BY <3>1, <3>2
    <2> HIDE DEF Good
    <2>9. QED
      BY <2>0, <2>7, <2>8
  <1>3. \A k \in 0..n : k \in N
    <2> HIDE DEF N, n
    <2> QED BY <1>0, <1>1, <1>2, UpTo
  <1>4. n \in N
    BY <1>0, <1>3
  <1>5. PICK h \in [Up(n) -> A] : Good(n, h)
    BY <1>4
  <1>6. Up(n) = SUBSET S
    BY <1>0
  <1>7. QED
    <2> HIDE DEF Up
    <2> QED BY <1>5, <1>6 DEF FoldsTo

(* A sum of numbers is a number.                                             *)
LEMMA SumFact ==
    ASSUME NEW f, IsFiniteSet(DOMAIN f), \A x \in DOMAIN f : f[x] \in Nat
    PROVE  /\ SumFunction(f) \in Nat
           /\ DOMAIN f = {} => SumFunction(f) = 0
           /\ \A x : DOMAIN f = {x} => SumFunction(f) = f[x]
  <1> DEFINE S == DOMAIN f
             last == [T \in SUBSET S |-> CHOOSE x \in T : TRUE]
             op == [p \in S \X Nat |-> f[p[1]] + p[2]]
             Eq(h) == h = [T \in SUBSET S |-> IF T = {} THEN 0
                             ELSE f[CHOOSE x \in T : TRUE] + h[T \ {CHOOSE x \in T : TRUE}]]
             it == CHOOSE h : Eq(h)
  <1>1. \A T \in SUBSET S : T # {} => last[T] \in T /\ last[T] = CHOOSE x \in T : TRUE
    OBVIOUS
  <1>2. op \in [S \X Nat -> Nat] /\ S \in SUBSET S /\ IsFiniteSet(S) /\ 0 \in Nat
    OBVIOUS
  <1>3. PICK h \in [SUBSET S -> Nat] : FoldsTo(h, S, op, 0, last)
    <2> DEFINE base == 0
               A == Nat
    <2>1. base \in A /\ op \in [S \X A -> A] /\ IsFiniteSet(S)
      BY <1>2
    <2>2. Chooses(last, S)
      BY <1>1 DEF Chooses
    <2> HIDE DEF op, last, S, base, A
    <2>3. \E h \in [SUBSET S -> A] : FoldsTo(h, S, op, base, last)
      BY <2>1, <2>2, FoldExists
    <2>4. QED
      BY <2>3 DEF base, A
  <1>4. Eq(h)
    <2>1. ASSUME NEW T \in SUBSET S, T # {}
          PROVE  h[T] = f[CHOOSE x \in T : TRUE] + h[T \ {CHOOSE x \in T : TRUE}]
      <3>1. last[T] \in T /\ last[T] = CHOOSE x \in T : TRUE
        BY <1>1, <2>1
      <3>2. T \ {last[T]} \in SUBSET S
        OBVIOUS
      <3>3. <<last[T], h[T \ {last[T]}]>> \in S \X Nat
        BY <3>1, <3>2, <1>3
      <3>4. h[T] = op[<<last[T], h[T \ {last[T]}]>>]
        BY <2>1, <1>3 DEF FoldsTo
      <3> HIDE DEF last
      <3>5. QED
        BY <3>1, <3>3, <3>4
    <2> HIDE DEF last, op
    <2>2. QED
      BY <2>1, <1>3 DEF FoldsTo
  <1>5. Eq(it)
    <2> HIDE DEF Eq
    <2> QED BY <1>4
  <1>6. SumFunction(f) = it[S]
    BY DEF SumFunction, SumFunctionOnSet, FoldFunctionOnSet, MapThenFoldSet
  <1> HIDE DEF it, S, last, op
  <1>7. /\ it[{}] = 0
        /\ \A T \in SUBSET S : T # {} =>
              \E x \in T : it[T] = f[x] + it[T \ {x}]
    <2>1. it[{}] = 0
      BY <1>5
    <2>2. ASSUME NEW T \in SUBSET S, T # {}  PROVE \E x \in T : it[T] = f[x] + it[T \ {x}]
      <3>1. last[T] \in T /\ it[T] = f[last[T]] + it[T \ {last[T]}]
        BY <2>2, <1>1, <1>5
      <3>2. QED
        BY <3>1
    <2>3. QED
      BY <2>1, <2>2
  <1> HIDE DEF Eq
  <1>8. it[S] \in Nat
    <2> DEFINE G == {T \in SUBSET S : it[T] \in Nat}
    <2>1. {} \in G
      BY <1>7
    <2>2. ASSUME NEW T \in SUBSET S, T # {}  PROVE \E x \in T : T \ {x} \in G => T \in G
      <3>1. PICK x \in T : it[T] = f[x] + it[T \ {x}]
        BY <2>2, <1>7
      <3>2. f[x] \in Nat
        BY DEF S
      <3>3. T \ {x} \in G => it[T \ {x}] \in Nat
        OBVIOUS
      <3> HIDE DEF G
      <3>4. T \ {x} \in G => it[T] \in Nat
        BY <3>1, <3>2, <3>3
      <3>5. QED
        BY <3>4 DEF G
    <2>3. S \in SUBSET S /\ IsFiniteSet(S)
      BY <1>2
    <2> HIDE DEF G
    <2>4. S \in G
      BY <2>1, <2>2, <2>3, SetInduction
    <2>5. QED
      BY <2>4 DEF G
  <1>9. S = {} => it[S] = 0
    BY <1>7
  <1>10. ASSUME NEW x, S = {x}  PROVE it[S] = f[x]
    <2>1. PICK y \in S : it[S] = f[y] + it[S \ {y}]
      BY <1>10, <1>7
    <2>2. y = x /\ S \ {y} = {} /\ f[x] \in Nat
      BY <1>10 DEF S
    <2>3. QED
      BY <2>1, <2>2, <1>7
  <1>11. QED
    BY <1>6, <1>8, <1>9, <1>10 DEF S

(* The values of a function on a finite set are finite many.                 *)
LEMMA ImageFinite ==
    ASSUME NEW f, IsFiniteSet(DOMAIN f)
    PROVE  IsFiniteSet({f[x] : x \in DOMAIN f})
  <1> DEFINE S == DOMAIN f
             T == {f[x] : x \in DOMAIN f}
             g == [x \in S |-> f[x]]
  <1>1. g \in Surjection(S, T)
    BY DEF Surjection
  <1>2. IsFiniteSet(S)
    OBVIOUS
  <1> HIDE DEF g, S, T
  <1>3. IsFiniteSet(T)
    BY <1>1, <1>2, FS_Surjection
  <1>4. QED
    BY <1>3 DEF T

(* A function on a finite set has a greatest value.                          *)
LEMMA Greatest ==
    ASSUME NEW S, IsFiniteSet(S), S # {}, NEW k \in [S -> Int]
    PROVE  \E x \in S : \A y \in S : k[y] <= k[x]
  <1> DEFINE Top(T) == \E x \in T : \A y \in T : k[y] <= k[x]
             G == {T \in SUBSET S : T = {} \/ Top(T)}
  <1>1. {} \in G
    OBVIOUS
  <1>2. ASSUME NEW T \in SUBSET S, T # {}  PROVE \E x \in T : T \ {x} \in G => T \in G
    <2>1. PICK x \in T : TRUE
      BY <1>2
    <2>2. ASSUME T \ {x} \in G  PROVE Top(T)
      <3>1. CASE T \ {x} = {}
        <4>1. T = {x} /\ k[x] <= k[x]
          BY <2>1, <3>1
        <4>2. QED
          BY <4>1
      <3>2. CASE Top(T \ {x})
        <4>1. PICK z \in T \ {x} : \A y \in T \ {x} : k[y] <= k[z]
          BY <3>2
        <4>2. \A y \in T : k[y] \in Int
          OBVIOUS
        <4>3. CASE k[x] <= k[z]
          <5>1. \A y \in T : k[y] <= k[z]
            BY <4>1, <4>3
          <5>2. QED
            BY <5>1
        <4>4. CASE k[z] <= k[x]
          <5>1. \A y \in T : k[y] <= k[x]
            BY <4>1, <4>2, <4>4
          <5>2. QED
            BY <5>1
        <4>5. QED
          BY <4>2, <4>3, <4>4
      <3>3. QED
        BY <2>2, <3>1, <3>2
    <2>3. QED
      BY <2>2
  <1>3. \A T \in SUBSET S : T \in G
    <2> HIDE DEF G
    <2> QED BY <1>1, <1>2, SetInduction
  <1>4. S \in G
    BY <1>3
  <1>5. QED
    BY <1>4

(* And one that is greatest first by one function, then by another.          *)
LEMMA GreatestOfTwo ==
    ASSUME NEW S, IsFiniteSet(S), S # {}, NEW k \in [S -> Int], NEW m \in [S -> Int]
    PROVE  \E z \in S : \A s \in S : k[s] < k[z] \/ (k[s] = k[z] /\ m[s] <= m[z])
  <1> DEFINE Q == {x \in S : \A y \in S : k[y] <= k[x]}
             n == [x \in Q |-> m[x]]
  <1>1. PICK x \in S : \A y \in S : k[y] <= k[x]
    BY Greatest
  <1>2. x \in Q /\ Q \in SUBSET S
    BY <1>1
  <1>3. n \in [Q -> Int] /\ IsFiniteSet(Q) /\ Q # {}
    BY <1>2, FS_Subset
  <1>4. PICK z \in Q : \A y \in Q : n[y] <= n[z]
    <2> HIDE DEF n, Q
    <2> QED BY <1>3, Greatest
  <1>5. ASSUME NEW s \in S
        PROVE  k[s] < k[z] \/ (k[s] = k[z] /\ m[s] <= m[z])
    <2>1. k[s] <= k[z] /\ k[s] \in Int /\ k[z] \in Int
      OBVIOUS
    <2>2. CASE k[s] = k[z]
      <3>1. \A t \in S : k[t] <= k[s]
        BY <2>2
      <3>2. s \in Q
        BY <3>1
      <3>3. n[s] <= n[z] /\ n[s] = m[s] /\ n[z] = m[z]
        BY <3>2, <1>4
      <3>4. QED
        BY <3>3, <2>2
    <2>3. QED
      BY <2>1, <2>2
  <1>6. z \in S
    OBVIOUS
  <1> HIDE DEF Q, n
  <1>7. QED
    BY <1>5, <1>6

LEMMA MaxOf ==
    ASSUME NEW a \in Int, NEW b \in Int
    PROVE  Max({a, b}) = IF a <= b THEN b ELSE a
  <1> DEFINE m == IF a <= b THEN b ELSE a
  <1>1. m \in {a, b} /\ \A y \in {a, b} : m >= y
    OBVIOUS
  <1>2. \A x \in {a, b} : (\A y \in {a, b} : x >= y) => x = m
    OBVIOUS
  <1>3. Max({a, b}) \in {a, b} /\ \A y \in {a, b} : Max({a, b}) >= y
    <2> HIDE DEF m
    <2> QED BY <1>1 DEF Max
  <1>4. QED
    BY <1>2, <1>3

LEMMA MinOf ==
    ASSUME NEW a \in Int, NEW b \in Int
    PROVE  Min({a, b}) = IF a <= b THEN a ELSE b
  <1> DEFINE m == IF a <= b THEN a ELSE b
  <1>1. m \in {a, b} /\ \A y \in {a, b} : m <= y
    OBVIOUS
  <1>2. \A x \in {a, b} : (\A y \in {a, b} : x <= y) => x = m
    OBVIOUS
  <1>3. Min({a, b}) \in {a, b} /\ \A y \in {a, b} : Min({a, b}) <= y
    <2> HIDE DEF m
    <2> QED BY <1>1 DEF Min
  <1>4. QED
    BY <1>2, <1>3

(* The symbol around a line, if there is one, is one of those of the file.   *)
LEMMA EnclosingFact ==
    ASSUME IsSource(source), NEW l \in Int, EnclosingSymbol(l) # NoSymbol
    PROVE  \E i \in DOMAIN source.symbols :
              /\ EnclosingSymbol(l) = source.symbols[i]
              /\ source.symbols[i].first <= l
              /\ source.symbols[i].last = 0 \/ l <= source.symbols[i].last
  <1> DEFINE S == source.symbols
             around == {i \in DOMAIN S : S[i].first <= l /\ (S[i].last = 0 \/ l <= S[i].last)}
             least == {i \in around : \A j \in around : Span(S[i]) <= Span(S[j])}
             spans == {Span(S[i]) : i \in around}
  <1>1. /\ DOMAIN S \subseteq Nat
        /\ \A i \in DOMAIN S : S[i].first \in Int /\ S[i].last \in Int
    <2>1. S \in Seq(Symbol)
      BY DEF IsSource
    <2>2. DOMAIN S = 1..Len(S) /\ Len(S) \in Nat /\ \A i \in DOMAIN S : S[i] \in Symbol
      BY <2>1
    <2>3. \A s \in Symbol : s.first \in Int /\ s.last \in Int
      BY DEF Symbol
    <2>4. QED
      BY <2>2, <2>3
  <1>2. ASSUME NEW i \in DOMAIN S  PROVE Span(S[i]) \in Nat
    <2> DEFINE n == S[i].last - S[i].first
    <2>1. n \in Int /\ 1 \in Int
      BY <1>1
    <2>2. Span(S[i]) = Max({1, n})
      BY DEF Span
    <2> HIDE DEF n
    <2>3. QED
      BY <2>1, <2>2, MaxOf
  <1>3. around # {}
    BY DEF EnclosingSymbol
  <1>4. PICK n \in spans : \A k \in spans : n <= k
    <2>1. spans \subseteq Nat /\ spans # {}
      BY <1>2, <1>3
    <2> HIDE DEF spans
    <2>2. QED
      BY <2>1, LeastNat
  <1>5. PICK i \in around : n = Span(S[i])
    BY <1>4
  <1>6. i \in least
    BY <1>4, <1>5
  <1>7. least \subseteq Nat /\ least # {}
    BY <1>1, <1>6
  <1>8. Min(least) \in least
    <2> HIDE DEF least
    <2> QED BY <1>7, LeastNat DEF Min
  <1>9. EnclosingSymbol(l) = S[Min(least)]
    BY <1>3 DEF EnclosingSymbol
  <1>10. QED
    BY <1>8, <1>9

(* Regions that show lines of the file.                                      *)
Shown == {r \in SourceRegion : r.first <= r.last}

(* What a region is called that begins at a line.                            *)
AtRoute(r) ==
    \E i \in DOMAIN source.symbols :
        LET s == source.symbols[i] IN
        s.kind = "route" /\ s.first <= r.first /\ (s.last = 0 \/ r.first <= s.last)

LEMMA RegionFact ==
    ASSUME source \in Sources, NEW a \in Int, NEW b \in Int, a <= source.length,
           NEW found \in Range(source.symbols) \cup {NoSymbol}, NEW tasks \in SUBSET Task
    PROVE  LET r == RegionFromRange(a, b, found, tasks) IN
           /\ r \in Shown
           /\ r.first <= a \/ r.first = 1
           /\ a <= r.first /\ 1 <= r.first
           /\ r.last <= source.length
           /\ b <= source.length => b <= r.last
           /\ r.last = source.length \/ b <= r.last
           /\ r.tasks = tasks
           /\ found # NoSymbol => r.kind = found.kind /\ r.anchor = found.name
           /\ found = NoSymbol /\ r.kind = "route" => AtRoute(r)
  <1> DEFINE start == IF 1 <= a THEN a ELSE 1
             anchor == IF found = NoSymbol THEN EnclosingSymbol(start) ELSE found
             last == Min({source.length, Max({start, b})})
             r == RegionFromRange(a, b, found, tasks)
  <1>1. /\ IsSource(source) /\ NoSymbol \notin Symbol
        /\ source.length \in Int /\ 1 <= source.length
    BY ScopeAssumption DEF IsSource
  <1>2. start = Max({1, a}) /\ start \in Int /\ a <= start /\ 1 <= start
        /\ start <= source.length /\ (start <= a \/ start = 1)
    <2>1. start = Max({1, a})
      BY MaxOf
    <2>2. /\ start \in Int /\ a <= start /\ 1 <= start
          /\ start <= source.length /\ (start <= a \/ start = 1)
      BY <1>1
    <2>3. QED
      BY <2>1, <2>2
  <1>3. /\ last \in Int /\ start <= last /\ last <= source.length
        /\ last = source.length \/ b <= last
    <2>1. Max({start, b}) \in Int /\ start <= Max({start, b}) /\ b <= Max({start, b})
      BY <1>2, MaxOf
    <2> DEFINE top == Max({start, b})
    <2>2. top \in Int /\ start <= top /\ b <= top
      BY <2>1
    <2> HIDE DEF top
    <2>3. last = IF source.length <= top THEN source.length ELSE top
      <3>1. last = Min({source.length, top})
        BY DEF top
      <3>2. QED
        BY <3>1, <2>2, <1>1, MinOf
    <2> HIDE DEF last, start
    <2>4. QED
      BY <2>2, <2>3, <1>1, <1>2
  <1>4. /\ anchor \in Range(source.symbols) \cup {NoSymbol}
        /\ found = NoSymbol /\ anchor # NoSymbol =>
              \E i \in DOMAIN source.symbols :
                 /\ anchor = source.symbols[i]
                 /\ source.symbols[i].first <= start
                 /\ source.symbols[i].last = 0 \/ start <= source.symbols[i].last
    <2>1. CASE found = NoSymbol /\ anchor # NoSymbol
      <3>1. PICK i \in DOMAIN source.symbols :
                 /\ anchor = source.symbols[i]
                 /\ source.symbols[i].first <= start
                 /\ source.symbols[i].last = 0 \/ start <= source.symbols[i].last
        BY <2>1, <1>1, <1>2, EnclosingFact
      <3>2. source.symbols[i] \in Range(source.symbols)
        BY DEF Range
      <3>3. QED
        BY <3>1, <3>2
    <2>2. QED
      BY <2>1
  <1> HIDE DEF start, anchor, last
  <1>5. r = [first |-> start, last |-> last,
             kind |-> IF anchor = NoSymbol THEN "line_range" ELSE anchor.kind,
             anchor |-> IF anchor = NoSymbol THEN "" ELSE anchor.name, tasks |-> tasks]
    BY <1>2 DEF RegionFromRange, anchor, last
  <1> HIDE DEF r
  <1>6. anchor # NoSymbol => /\ anchor.kind \in {"symbol", "route"}
                         /\ anchor.name \in {s.name : s \in Range(source.symbols)}
    <2>1. source.symbols \in Seq(Symbol)
      BY <1>1 DEF IsSource
    <2>2. Range(source.symbols) \subseteq Symbol
      BY <2>1 DEF Range
    <2>3. QED
      BY <1>4, <2>2 DEF Symbol
  <1>7. r \in Shown
    <2> DEFINE kind == IF anchor = NoSymbol THEN "line_range" ELSE anchor.kind
               name == IF anchor = NoSymbol THEN "" ELSE anchor.name
    <2>1. kind \in {"route", "symbol", "line_range"}
      BY <1>6
    <2>2. name \in {""} \cup {s.name : s \in Range(source.symbols)}
      BY <1>6
    <2>3. start \in Lines /\ last \in Lines
      BY <1>1, <1>2, <1>3 DEF Lines
    <2>4. r = [first |-> start, last |-> last, kind |-> kind, anchor |-> name, tasks |-> tasks]
      BY <1>5
    <2> HIDE DEF kind, name
    <2>5. r \in SourceRegion
      BY <2>1, <2>2, <2>3, <2>4 DEF SourceRegion
    <2>6. r.first <= r.last
      BY <2>4, <1>3
    <2>7. QED
      BY <2>5, <2>6 DEF Shown
  <1>8. found # NoSymbol => r.kind = found.kind /\ r.anchor = found.name
    BY <1>5 DEF anchor
  <1>9. found = NoSymbol /\ r.kind = "route" => AtRoute(r)
    <2>1. found = NoSymbol /\ r.kind = "route" => anchor # NoSymbol /\ anchor.kind = "route"
      BY <1>5
    <2>2. QED
      BY <2>1, <1>4, <1>5 DEF AtRoute
  <1>10. /\ r.first = start /\ r.last = last /\ r.tasks = tasks
    BY <1>5
  <1>11. QED
    BY <1>1, <1>2, <1>3, <1>7, <1>8, <1>9, <1>10 DEF r

Pairs == Int \X Int

(* Cutting a region out of ranges keeps them within bounds and loses only    *)
(* the lines of the region.                                                  *)
LEMMA CutFact ==
    ASSUME NEW R \in SUBSET Pairs, NEW r, r.first \in Int, r.last \in Int
    PROVE  /\ Cut(R, r) \in SUBSET Pairs
           /\ \A a, b \in Int : (\A p \in R : a <= p[1] /\ p[2] <= b)
                  => \A p \in Cut(R, r) : a <= p[1] /\ p[2] <= b
           /\ \A l \in Int : (\E p \in R : p[1] <= l /\ l <= p[2])
                  => Covers(r, l) \/ \E p \in Cut(R, r) : p[1] <= l /\ l <= p[2]
  <1>1. ASSUME NEW p \in R  PROVE p[1] \in Int /\ p[2] \in Int /\ p = <<p[1], p[2]>>
    BY DEF Pairs
  <1>2. ASSUME NEW q \in Cut(R, r)
        PROVE  \/ q \in R
               \/ \E p \in R : /\ r.last >= p[1] /\ r.first <= p[2]
                               /\ q = <<p[1], r.first - 1>> \/ q = <<r.last + 1, p[2]>>
    BY DEF Cut
  <1>3. ASSUME NEW p \in R
        PROVE  /\ r.last < p[1] \/ r.first > p[2] => p \in Cut(R, r)
               /\ r.last >= p[1] /\ r.first <= p[2] =>
                     <<p[1], r.first - 1>> \in Cut(R, r) /\ <<r.last + 1, p[2]>> \in Cut(R, r)
    <2> DEFINE met == {x \in R : r.last >= x[1] /\ r.first <= x[2]}
               rest(x) == {<<x[1], r.first - 1>>, <<r.last + 1, x[2]>>}
    <2>1. Cut(R, r) = {x \in R : r.last < x[1] \/ r.first > x[2]}
                               \cup UNION {rest(x) : x \in met}
      BY DEF Cut
    <2>2. r.last >= p[1] /\ r.first <= p[2] => p \in met
      OBVIOUS
    <2>3. p \in met => rest(p) \subseteq Cut(R, r)
      <3> HIDE DEF met, rest
      <3> QED BY <2>1
    <2>4. <<p[1], r.first - 1>> \in rest(p) /\ <<r.last + 1, p[2]>> \in rest(p)
      OBVIOUS
    <2>5. r.last < p[1] \/ r.first > p[2] => p \in Cut(R, r)
      <3> HIDE DEF met, rest
      <3> QED BY <2>1
    <2> HIDE DEF met, rest
    <2>6. QED
      BY <2>2, <2>3, <2>4, <2>5
  <1>4. Cut(R, r) \in SUBSET Pairs
    <2>1. ASSUME NEW q \in Cut(R, r)  PROVE q \in Pairs
      <3>1. CASE q \in R
        BY <3>1
      <3>2. ASSUME NEW p \in R, q = <<p[1], r.first - 1>> \/ q = <<r.last + 1, p[2]>>
            PROVE  q \in Pairs
        BY <3>2, <1>1 DEF Pairs
      <3>3. QED
        BY <1>2, <3>1, <3>2
    <2>2. QED
      BY <2>1
  <1>5. ASSUME NEW a \in Int, NEW b \in Int, \A p \in R : a <= p[1] /\ p[2] <= b,
               NEW q \in Cut(R, r)
        PROVE  a <= q[1] /\ q[2] <= b
    <2>1. CASE q \in R
      BY <2>1, <1>5
    <2>2. ASSUME NEW p \in R, r.last >= p[1], r.first <= p[2],
                 q = <<p[1], r.first - 1>> \/ q = <<r.last + 1, p[2]>>
          PROVE  a <= q[1] /\ q[2] <= b
      <3>1. p[1] \in Int /\ p[2] \in Int /\ a <= p[1] /\ p[2] <= b
        BY <1>1, <1>5
      <3>2. (q[1] = p[1] /\ q[2] = r.first - 1) \/ (q[1] = r.last + 1 /\ q[2] = p[2])
        BY <2>2
      <3>3. QED
        BY <2>2, <3>1, <3>2
    <2>3. QED
      BY <1>2, <2>1, <2>2
  <1>6. ASSUME NEW l \in Int, NEW p \in R, p[1] <= l, l <= p[2]
        PROVE  Covers(r, l) \/ \E q \in Cut(R, r) : q[1] <= l /\ l <= q[2]
    <2>0. p[1] \in Int /\ p[2] \in Int
      BY <1>1
    <2>1. CASE r.last < p[1] \/ r.first > p[2]
      BY <2>1, <1>3, <1>6
    <2>2. CASE r.last >= p[1] /\ r.first <= p[2]
      <3>1. <<p[1], r.first - 1>> \in Cut(R, r) /\ <<r.last + 1, p[2]>> \in Cut(R, r)
        BY <2>2, <1>3
      <3>2. CASE l < r.first
        <4> DEFINE q == <<p[1], r.first - 1>>
        <4>1. q[1] = p[1] /\ q[2] = r.first - 1
          OBVIOUS
        <4>2. q \in Cut(R, r)
          BY <3>1
        <4> HIDE DEF q
        <4>3. QED
          BY <4>1, <4>2, <3>2, <1>6, <2>0
      <3>3. CASE l > r.last
        <4> DEFINE q == <<r.last + 1, p[2]>>
        <4>1. q[1] = r.last + 1 /\ q[2] = p[2]
          OBVIOUS
        <4>2. q \in Cut(R, r)
          BY <3>1
        <4> HIDE DEF q
        <4>3. QED
          BY <4>1, <4>2, <3>3, <1>6, <2>0
      <3>4. CASE r.first <= l /\ l <= r.last
        BY <3>4 DEF Covers
      <3>5. QED
        BY <3>2, <3>3, <3>4
    <2>3. QED
      BY <2>0, <2>1, <2>2
  <1>7. QED
    BY <1>4, <1>5, <1>6

(* What regions leave of a range is within it and does not overlap with the  *)
(* lines that they show; together they have all of it.                       *)
LEMMA UncoveredFact ==
    ASSUME NEW a \in Int, NEW b \in Int, NEW R, IsFiniteSet(R),
           \A r \in R : r.first \in Int /\ r.last \in Int
    PROVE  /\ \A p \in Uncovered(a, b, R) :
                 /\ p[1] \in Int /\ p[2] \in Int
                 /\ a <= p[1] /\ p[1] <= p[2] /\ p[2] <= b
           /\ IsFiniteSet(Uncovered(a, b, R))
           /\ \A l \in a..b :
                 \/ \E r \in R : Covers(r, l)
                 \/ \E p \in Uncovered(a, b, R) : p[1] <= l /\ l <= p[2]
  <1> DEFINE A == SUBSET Pairs
             base == {<<a, b>>}
             last == [T \in SUBSET R |-> CHOOSE x \in T : TRUE]
             op == [x \in R \X A |-> Cut(x[2], x[1])]
             Eq(h) == h = [T \in SUBSET R |-> IF T = {} THEN base
                       ELSE Cut(h[T \ {CHOOSE x \in T : TRUE}], CHOOSE x \in T : TRUE)]
             it == CHOOSE h : Eq(h)
  <1>1. \A T \in SUBSET R : T # {} => last[T] \in T /\ last[T] = CHOOSE x \in T : TRUE
    OBVIOUS
  <1>2. base \in A /\ op \in [R \X A -> A]
    <2>1. base \in A
      BY DEF Pairs
    <2> HIDE DEF base
    <2>2. \A x \in R \X A : Cut(x[2], x[1]) \in A
      BY CutFact
    <2>3. QED
      BY <2>1, <2>2
  <1>3. PICK h \in [SUBSET R -> A] : FoldsTo(h, R, op, base, last)
    <2>1. Chooses(last, R)
      <3> HIDE DEF last
      <3> QED BY <1>1 DEF Chooses
    <2> HIDE DEF op, last, A, base
    <2>2. QED
      BY <1>2, <2>1, FoldExists
  <1>4. Eq(h)
    <2> HIDE DEF last, op, A, base
    <2>1. ASSUME NEW T \in SUBSET R, T # {}
          PROVE  h[T] = Cut(h[T \ {CHOOSE x \in T : TRUE}], CHOOSE x \in T : TRUE)
      <3>1. last[T] \in T /\ last[T] = CHOOSE x \in T : TRUE
        BY <1>1, <2>1
      <3>2. T \ {last[T]} \in SUBSET R
        OBVIOUS
      <3>3. <<last[T], h[T \ {last[T]}]>> \in R \X A
        BY <3>1, <3>2, <1>3
      <3>4. h[T] = op[<<last[T], h[T \ {last[T]}]>>]
        BY <2>1, <1>3 DEF FoldsTo
      <3>5. h[T] = Cut(h[T \ {last[T]}], last[T])
        BY <3>3, <3>4 DEF op
      <3>6. QED
        BY <3>1, <3>5
    <2>2. h[{}] = base
      BY <1>3 DEF FoldsTo
    <2>3. QED
      BY <2>1, <2>2, <1>3
  <1>5. Eq(it)
    <2> HIDE DEF Eq
    <2> QED BY <1>4
  <1>6. Uncovered(a, b, R) = {p \in it[R] : p[1] <= p[2]}
    BY DEF Uncovered, FoldSet, MapThenFoldSet
  <1> HIDE DEF it
  <1>7. /\ it[{}] = base
        /\ \A T \in SUBSET R : T # {} => \E x \in T : it[T] = Cut(it[T \ {x}], x)
    <2>1. it[{}] = base
      BY <1>5
    <2>2. ASSUME NEW T \in SUBSET R, T # {}  PROVE \E x \in T : it[T] = Cut(it[T \ {x}], x)
      <3>1. last[T] \in T /\ it[T] = Cut(it[T \ {last[T]}], last[T])
        BY <2>2, <1>1, <1>5
      <3> HIDE DEF last
      <3>2. QED
        BY <3>1
    <2>3. QED
      BY <2>1, <2>2
  <1> HIDE DEF Eq, op, last
  <1> DEFINE Good(T, E) ==
                /\ E \in A
                /\ \A p \in E : a <= p[1] /\ p[2] <= b
                /\ \A l \in a..b : \/ \E r \in T : Covers(r, l)
                                   \/ \E p \in E : p[1] <= l /\ l <= p[2]
             G == {T \in SUBSET R : Good(T, it[T])}
  <1>8. {} \in G
    <2>1. Good({}, base)
      BY <1>2
    <2> HIDE DEF Good, base
    <2>2. QED
      BY <2>1, <1>7
  <1>9. ASSUME NEW T \in SUBSET R, T # {}  PROVE \E x \in T : T \ {x} \in G => T \in G
    <2>1. PICK x \in T : it[T] = Cut(it[T \ {x}], x)
      BY <1>9, <1>7
    <2>2. ASSUME NEW E, Good(T \ {x}, E)  PROVE Good(T, Cut(E, x))
      <3> DEFINE F == Cut(E, x)
      <3>0. E \in SUBSET Pairs /\ x.first \in Int /\ x.last \in Int
        BY <2>2
      <3>1. /\ F \in SUBSET Pairs
            /\ \A c, d \in Int : (\A p \in E : c <= p[1] /\ p[2] <= d)
                  => \A p \in F : c <= p[1] /\ p[2] <= d
            /\ \A l \in Int : (\E p \in E : p[1] <= l /\ l <= p[2])
                  => Covers(x, l) \/ \E p \in F : p[1] <= l /\ l <= p[2]
        BY <3>0, CutFact
      <3> HIDE DEF F
      <3>2. \A p \in F : a <= p[1] /\ p[2] <= b
        BY <2>2, <3>1
      <3>3. ASSUME NEW l \in a..b
            PROVE  (\E r \in T : Covers(r, l)) \/ (\E p \in F : p[1] <= l /\ l <= p[2])
        <4>1. \/ \E r \in T \ {x} : Covers(r, l)
              \/ \E p \in E : p[1] <= l /\ l <= p[2]
          BY <2>2
        <4>2. l \in Int
          OBVIOUS
        <4>3. QED
          BY <4>1, <4>2, <3>1
      <3>4. QED
        BY <3>1, <3>2, <3>3 DEF F
    <2> HIDE DEF Good
    <2>3. QED
      BY <2>1, <2>2
  <1> HIDE DEF G, Good
  <1>10. R \in G
    BY <1>8, <1>9, SetInduction
  <1>11. Good(R, it[R])
    BY <1>10 DEF G
  <1> DEFINE U == Uncovered(a, b, R)
  <1>12. U = {p \in it[R] : p[1] <= p[2]} /\ it[R] \in SUBSET Pairs
    BY <1>6, <1>11 DEF Good
  <1> HIDE DEF U
  <1>13. ASSUME NEW p \in U
         PROVE  /\ p[1] \in Int /\ p[2] \in Int /\ p = <<p[1], p[2]>>
                /\ a <= p[1] /\ p[1] <= p[2] /\ p[2] <= b
    <2>1. p \in Pairs /\ p \in it[R] /\ p[1] <= p[2]
      BY <1>12
    <2>2. p[1] \in Int /\ p[2] \in Int /\ p = <<p[1], p[2]>>
      BY <2>1 DEF Pairs
    <2>3. QED
      BY <2>1, <2>2, <1>11 DEF Good
  <1>14. IsFiniteSet(U)
    <2> DEFINE I == a..b
    <2>1. IsFiniteSet(I)
      BY FS_Interval
    <2>2. IsFiniteSet(I \X I)
      <3> HIDE DEF I
      <3> QED BY <2>1, FS_Product
    <2>3. U \subseteq I \X I
      <3>1. ASSUME NEW p \in U  PROVE p \in I \X I
        <4>1. p[1] \in I /\ p[2] \in I /\ p = <<p[1], p[2]>>
          BY <1>13
        <4> HIDE DEF I
        <4>2. QED
          BY <4>1
      <3>2. QED
        BY <3>1
    <2> HIDE DEF I
    <2>4. QED
      BY <2>2, <2>3, FS_Subset
  <1>15. ASSUME NEW l \in a..b
         PROVE  (\E r \in R : Covers(r, l)) \/ (\E p \in U : p[1] <= l /\ l <= p[2])
    <2>1. \/ \E r \in R : Covers(r, l)
          \/ \E p \in it[R] : p[1] <= l /\ l <= p[2]
      BY <1>11 DEF Good
    <2>2. ASSUME NEW p \in it[R], p[1] <= l, l <= p[2]  PROVE p \in U
      <3>1. p[1] \in Int /\ p[2] \in Int
        BY <1>12 DEF Pairs
      <3>2. p[1] <= p[2]
        BY <2>2, <3>1
      <3>3. QED
        BY <1>12, <3>2
    <2>3. QED
      BY <2>1, <2>2
  <1>16. QED
    BY <1>13, <1>14, <1>15 DEF U

LEMMA ShownFact ==
    ASSUME source \in Sources
    PROVE  /\ source.length \in Int /\ 1 <= source.length
           /\ \A r \in Shown : /\ r.first \in Int /\ r.last \in Int /\ r.tasks \subseteq Task
                               /\ 1 <= r.first /\ r.first <= r.last /\ r.last <= source.length
  <1>1. source.length \in Int /\ 1 <= source.length
    BY ScopeAssumption DEF IsSource
  <1>2. ASSUME NEW r \in Shown
        PROVE  r.first \in 1..source.length /\ r.last \in 1..source.length /\ r.tasks \in SUBSET Task
    BY DEF Shown, SourceRegion, Lines
  <1>3. \A r \in Shown : r.first <= r.last
    BY DEF Shown
  <1>4. QED
    BY <1>1, <1>2, <1>3

(* A merged region shows what the two show, to the tasks of both.            *)
LEMMA MergedFact ==
    ASSUME source \in Sources, NEW r \in Shown, NEW s \in Shown
    PROVE  LET m == Merged(r, s) IN
           /\ m \in Shown
           /\ m.first <= r.first /\ r.last <= m.last
           /\ m.first <= s.first /\ s.last <= m.last
           /\ m.tasks = r.tasks \cup s.tasks
  <1> DEFINE a == IF r.first <= s.first THEN r.first ELSE s.first
             b == IF r.last <= s.last THEN s.last ELSE r.last
             tasks == r.tasks \cup s.tasks
             both == RegionFromRange(a, b, NoSymbol, tasks)
             m == Merged(r, s)
  <1>1. /\ source.length \in Int
        /\ r.first \in Int /\ r.last \in Int /\ s.first \in Int /\ s.last \in Int
        /\ 1 <= r.first /\ 1 <= s.first /\ r.first <= r.last /\ s.first <= s.last
        /\ r.last <= source.length /\ s.last <= source.length
        /\ tasks \in SUBSET Task
    BY ShownFact
  <1>2. a = Min({r.first, s.first}) /\ b = Max({r.last, s.last})
    BY <1>1, MinOf, MaxOf
  <1>3. /\ a \in Int /\ b \in Int /\ 1 <= a /\ a <= source.length /\ b <= source.length
        /\ a <= r.first /\ a <= s.first /\ r.last <= b /\ s.last <= b
    BY <1>1
  <1>4. m = IF SameAnchor(r, s) THEN [both EXCEPT !.kind = r.kind, !.anchor = r.anchor] ELSE both
    BY <1>2 DEF Merged
  <1> HIDE DEF a, b, tasks
  <1>5. /\ both \in Shown /\ (both.first <= a \/ both.first = 1) /\ b <= both.last /\ both.tasks = tasks
    BY <1>1, <1>3, RegionFact
  <1> HIDE DEF both, m
  <1>6. both.first \in Int /\ both.last \in Int /\ both.first <= a
    BY <1>3, <1>5, ShownFact
  <1>7. m \in Shown /\ m.first = both.first /\ m.last = both.last /\ m.tasks = both.tasks
    <2>1. CASE SameAnchor(r, s)
      <3>1. m = [both EXCEPT !.kind = r.kind, !.anchor = r.anchor]
        BY <1>4, <2>1
      <3>2. both \in SourceRegion /\ r \in SourceRegion /\ both.first <= both.last
        BY <1>5 DEF Shown
      <3>3. m \in SourceRegion /\ m.first = both.first /\ m.last = both.last /\ m.tasks = both.tasks
        BY <3>1, <3>2 DEF SourceRegion
      <3>4. QED
        BY <3>2, <3>3 DEF Shown
    <2>2. CASE ~SameAnchor(r, s)
      BY <2>2, <1>4, <1>5
    <2>3. QED
      BY <2>1, <2>2
  <1>8. QED
    BY <1>1, <1>3, <1>5, <1>6, <1>7 DEF m, tasks

LEMMA LastRegionFact ==
    ASSUME source \in Sources, NEW R \in SUBSET Shown, IsFiniteSet(R), R # {}
    PROVE  LastRegion(R) \in R
  <1> DEFINE k == [r \in R |-> r.first]
             m == [r \in R |-> r.last]
  <1>1. k \in [R -> Int] /\ m \in [R -> Int]
    BY ShownFact
  <1>2. PICK z \in R : \A s \in R : k[s] < k[z] \/ (k[s] = k[z] /\ m[s] <= m[z])
    <2> HIDE DEF k, m
    <2> QED BY <1>1, GreatestOfTwo
  <1>3. \A s \in R : s.first < z.first \/ (s.first = z.first /\ s.last <= z.last)
    BY <1>2
  <1> HIDE DEF k, m
  <1>4. QED
    BY <1>3 DEF LastRegion

(* What a fold of MergeNext has come to, and what it keeps of a region.      *)
Merging ==
    {x \in [closed : SUBSET Shown, current : SUBSET Shown] :
        IsFiniteSet(x.closed) /\ IsFiniteSet(x.current)}

Within(w, r) == r.first <= w.first /\ w.last <= r.last /\ w.tasks \subseteq r.tasks

LEMMA MergeNextFact ==
    ASSUME source \in Sources, NEW x \in Merging, NEW s \in Shown
    PROVE  LET y == MergeNext(x, s) IN
           /\ y \in Merging
           /\ \A w \in Shown : (\E r \in x.closed \cup x.current : Within(w, r))
                  => \E r \in y.closed \cup y.current : Within(w, r)
           /\ \E r \in y.closed \cup y.current : Within(s, r)
  <1> DEFINE y == MergeNext(x, s)
             C == x.current
             f == [r \in C |-> Merged(r, s)]
             D == {Merged(r, s) : r \in C}
  <1>1. /\ x.closed \in SUBSET Shown /\ C \in SUBSET Shown
        /\ IsFiniteSet(x.closed) /\ IsFiniteSet(C)
        /\ x = [closed |-> x.closed, current |-> C]
    BY DEF Merging
  <1>2. ASSUME NEW r \in C
        PROVE  /\ Merged(r, s) \in Shown
               /\ Within(s, Merged(r, s))
               /\ \A w \in Shown : Within(w, r) => Within(w, Merged(r, s))
    <2> DEFINE m == Merged(r, s)
    <2>1. /\ m \in Shown
          /\ m.first <= r.first /\ r.last <= m.last
          /\ m.first <= s.first /\ s.last <= m.last
          /\ m.tasks = r.tasks \cup s.tasks
      BY <1>1, MergedFact
    <2> HIDE DEF m
    <2>2. \A q \in Shown : q.first \in Int /\ q.last \in Int
      BY ShownFact
    <2>3. \A w \in Shown : Within(w, r) => Within(w, m)
      BY <2>1, <2>2, <1>1 DEF Within
    <2>4. Within(s, m)
      BY <2>1 DEF Within
    <2>5. QED
      BY <2>1, <2>3, <2>4 DEF m
  <1>3. CASE /\ C # {}
             /\ \A r \in C : MayMerge(r, s) /\ Size(Merged(r, s)) <= MaxRegion
    <2>1. y = [x EXCEPT !.current = D]
      BY <1>3 DEF MergeNext
    <2>2. D \in SUBSET Shown
      BY <1>2
    <2>3. IsFiniteSet(D)
      <3>1. DOMAIN f = C /\ D = {f[r] : r \in DOMAIN f}
        OBVIOUS
      <3> HIDE DEF f, D, C
      <3>2. QED
        BY <3>1, <1>1, ImageFinite
    <2>4. \A r \in C : Merged(r, s) \in D
      OBVIOUS
    <2> HIDE DEF D, f, y, C
    <2>5. y.closed = x.closed /\ y.current = D /\ y \in Merging
      BY <2>1, <2>2, <2>3, <1>1 DEF Merging
    <2>6. ASSUME NEW w \in Shown, NEW r \in x.closed \cup C, Within(w, r)
          PROVE  \E q \in y.closed \cup y.current : Within(w, q)
      <3>1. CASE r \in x.closed
        BY <3>1, <2>5, <2>6
      <3>2. CASE r \in C
        BY <3>2, <2>4, <2>5, <2>6, <1>2
      <3>3. QED
        BY <3>1, <3>2
    <2>7. \E r \in y.closed \cup y.current : Within(s, r)
      <3>1. PICK r \in C : TRUE
        BY <1>3
      <3>2. QED
        BY <3>1, <2>4, <2>5, <1>2
    <2>8. QED
      BY <2>5, <2>6, <2>7 DEF y, C
  <1>4. CASE ~ (/\ C # {}
                /\ \A r \in C : MayMerge(r, s) /\ Size(Merged(r, s)) <= MaxRegion)
    <2>1. y = [closed |-> x.closed \cup C, current |-> {s}]
      BY <1>4 DEF MergeNext
    <2> HIDE DEF y, C, D, f
    <2>2. y.closed = x.closed \cup C /\ y.current = {s}
      BY <2>1
    <2>3. IsFiniteSet(x.closed \cup C) /\ IsFiniteSet({s})
      BY <1>1, FS_Union, FS_Singleton
    <2>4. x.closed \cup C \in SUBSET Shown /\ {s} \in SUBSET Shown
      BY <1>1
    <2>5. y \in Merging
      BY <2>1, <2>3, <2>4 DEF Merging
    <2>6. Within(s, s)
      BY ShownFact DEF Within
    <2>7. QED
      BY <2>2, <2>5, <2>6 DEF y, C
  <1>5. QED
    BY <1>3, <1>4

(* Merging loses no lines and no tasks of any region.                        *)
LEMMA MergedRegionsFact ==
    ASSUME source \in Sources, NEW R \in SUBSET Shown, IsFiniteSet(R)
    PROVE  /\ MergedRegions(R) \in SUBSET Shown
           /\ IsFiniteSet(MergedRegions(R))
           /\ \A w \in R : \E r \in MergedRegions(R) : Within(w, r)
  <1> DEFINE base == [closed |-> {}, current |-> {}]
             last == [T \in SUBSET R |-> LastRegion(T)]
             op == [x \in R \X Merging |-> MergeNext(x[2], x[1])]
             Eq(h) == h = [T \in SUBSET R |-> IF T = {} THEN base
                       ELSE MergeNext(h[T \ {LastRegion(T)}], LastRegion(T))]
             it == CHOOSE h : Eq(h)
  <1>1. \A T \in SUBSET R : T # {} => LastRegion(T) \in T /\ last[T] = LastRegion(T)
    BY FS_Subset, LastRegionFact
  <1>2. base \in Merging /\ op \in [R \X Merging -> Merging]
    <2>1. base \in Merging
      BY FS_EmptySet DEF Merging
    <2>2. \A x \in R \X Merging : MergeNext(x[2], x[1]) \in Merging
      BY MergeNextFact
    <2> HIDE DEF base
    <2>3. QED
      BY <2>1, <2>2
  <1>3. PICK h \in [SUBSET R -> Merging] : FoldsTo(h, R, op, base, last)
    <2>1. Chooses(last, R)
      <3> HIDE DEF last
      <3> QED BY <1>1 DEF Chooses
    <2> HIDE DEF op, last, base
    <2>2. QED
      BY <1>2, <2>1, FoldExists
  <1>4. Eq(h)
    <2> HIDE DEF last, op, base
    <2>1. ASSUME NEW T \in SUBSET R, T # {}
          PROVE  h[T] = MergeNext(h[T \ {LastRegion(T)}], LastRegion(T))
      <3>1. last[T] \in T /\ last[T] = LastRegion(T)
        BY <1>1, <2>1
      <3>2. T \ {last[T]} \in SUBSET R
        OBVIOUS
      <3>3. <<last[T], h[T \ {last[T]}]>> \in R \X Merging
        BY <3>1, <3>2, <1>3
      <3>4. h[T] = op[<<last[T], h[T \ {last[T]}]>>]
        BY <2>1, <1>3 DEF FoldsTo
      <3>5. h[T] = MergeNext(h[T \ {last[T]}], last[T])
        BY <3>3, <3>4 DEF op
      <3>6. QED
        BY <3>1, <3>5
    <2>2. h[{}] = base
      BY <1>3 DEF FoldsTo
    <2>3. QED
      BY <2>1, <2>2, <1>3
  <1>5. Eq(it)
    <2> HIDE DEF Eq
    <2> QED BY <1>4
  <1>6. MergedRegions(R) = it[R].closed \cup it[R].current
    BY DEF MergedRegions, MapThenFoldSet
  <1> HIDE DEF it
  <1>7. /\ it[{}] = base
        /\ \A T \in SUBSET R : T # {} => \E x \in T : it[T] = MergeNext(it[T \ {x}], x)
    <2>1. it[{}] = base
      BY <1>5
    <2>2. ASSUME NEW T \in SUBSET R, T # {}
          PROVE  \E x \in T : it[T] = MergeNext(it[T \ {x}], x)
      BY <2>2, <1>1, <1>5
    <2>3. QED
      BY <2>1, <2>2
  <1> HIDE DEF Eq, op, last
  <1> DEFINE Good(T, E) == /\ E \in Merging
                           /\ \A w \in T : \E r \in E.closed \cup E.current : Within(w, r)
             G == {T \in SUBSET R : Good(T, it[T])}
  <1>8. {} \in G
    <2>1. Good({}, base)
      BY <1>2
    <2> HIDE DEF Good, base
    <2>2. QED
      BY <2>1, <1>7
  <1>9. ASSUME NEW T \in SUBSET R, T # {}  PROVE \E x \in T : T \ {x} \in G => T \in G
    <2>1. PICK x \in T : it[T] = MergeNext(it[T \ {x}], x)
      BY <1>9, <1>7
    <2>2. ASSUME NEW E, Good(T \ {x}, E)  PROVE Good(T, MergeNext(E, x))
      <3> DEFINE F == MergeNext(E, x)
      <3>0. E \in Merging /\ x \in Shown
        BY <2>2
      <3>1. /\ F \in Merging
            /\ \A w \in Shown : (\E r \in E.closed \cup E.current : Within(w, r))
                  => \E r \in F.closed \cup F.current : Within(w, r)
            /\ \E r \in F.closed \cup F.current : Within(x, r)
        BY <3>0, MergeNextFact
      <3> HIDE DEF F
      <3>2. ASSUME NEW w \in T  PROVE \E r \in F.closed \cup F.current : Within(w, r)
        <4>1. CASE w = x
          BY <4>1, <3>1
        <4>2. CASE w # x
          <5>1. w \in T \ {x} /\ w \in Shown
            BY <4>2
          <5>2. \E r \in E.closed \cup E.current : Within(w, r)
            BY <5>1, <2>2
          <5>3. QED
            BY <5>1, <5>2, <3>1
        <4>3. QED
          BY <4>1, <4>2
      <3>3. QED
        BY <3>1, <3>2 DEF F
    <2> HIDE DEF Good
    <2>3. QED
      BY <2>1, <2>2
  <1> HIDE DEF G, Good
  <1>10. R \in G
    <2>1. \A T \in SUBSET R : T \in G
      BY <1>8, <1>9, SetInduction
    <2>2. QED
      BY <2>1
  <1>11. Good(R, it[R])
    BY <1>10 DEF G
  <1>12. /\ it[R].closed \in SUBSET Shown /\ it[R].current \in SUBSET Shown
         /\ IsFiniteSet(it[R].closed) /\ IsFiniteSet(it[R].current)
    BY <1>11 DEF Good, Merging
  <1>13. IsFiniteSet(it[R].closed \cup it[R].current)
    BY <1>12, FS_Union
  <1>14. QED
    BY <1>6, <1>11, <1>12, <1>13 DEF Good

(* Division, and that what divides a multiple leaves nothing.                *)
LEMMA Quotient ==
    ASSUME NEW s \in Nat, s # 0, NEW n \in Nat
    PROVE  n \div s \in Nat /\ n % s \in 0..(s - 1) /\ n = s * (n \div s) + (n % s)
  <1>1. n % s \in 0..(s - 1)
    OBVIOUS
  <1>2. n \div s \in Int
    OBVIOUS
  <1>3. n = s * (n \div s) + (n % s)
    OBVIOUS
  <1>4. n \div s \in Nat
    BY <1>1, <1>2, <1>3
  <1>5. QED
    BY <1>1, <1>3, <1>4

LEMMA NothingLeft ==
    ASSUME NEW s \in Nat, s # 0, NEW q \in Nat, NEW d \in Nat, NEW r \in 0..(s - 1),
           s * q = s * d + r
    PROVE  r = 0
  <1>1. s * (q - d) = r /\ q - d \in Int
    OBVIOUS
  <1>2. q - d >= 1 => s * (q - d) >= s
    OBVIOUS
  <1>3. q - d <= 0 => s * (q - d) <= 0
    OBVIOUS
  <1>4. QED
    BY <1>1, <1>2, <1>3

LEMMA Multiple ==
    ASSUME NEW s \in Nat, s # 0, NEW q \in Nat
    PROVE  s * q \in Nat /\ (s * q) % s = 0
  <1> DEFINE n == s * q
             d == n \div s
             r == n % s
  <1>1. n \in Nat
    OBVIOUS
  <1> HIDE DEF n
  <1>2. d \in Nat /\ r \in 0..(s - 1) /\ n = s * d + r
    BY <1>1, Quotient
  <1> HIDE DEF d, r
  <1>3. s * q = s * d + r
    BY <1>2 DEF n
  <1>4. r = 0
    BY <1>2, <1>3, NothingLeft
  <1>5. QED
    BY <1>1, <1>4 DEF n, r

(* The greatest multiple that is not above a number.                         *)
LEMMA MultipleBelow ==
    ASSUME NEW s \in Nat, s # 0, NEW n \in Nat
    PROVE  \E m \in 0..n : m % s = 0 /\ n < m + s
  <1> DEFINE q == n \div s
             r == n % s
             m == s * q
  <1>1. q \in Nat /\ r \in 0..(s - 1) /\ n = s * q + r
    BY Quotient
  <1> HIDE DEF q, r
  <1>2. m \in Nat /\ m % s = 0
    BY <1>1, Multiple
  <1>3. n = m + r
    BY <1>1
  <1> HIDE DEF m
  <1>4. m \in 0..n /\ n < m + s
    BY <1>1, <1>2, <1>3
  <1>5. QED
    BY <1>2, <1>4

(* The pieces of a range are within it and have all its lines.               *)
LEMMA PiecesFact ==
    ASSUME NEW a \in Int, NEW b \in Int
    PROVE  /\ \A p \in Pieces(a, b) :
                 /\ p[1] \in Int /\ p[2] \in Int
                 /\ a <= p[1] /\ p[1] <= p[2] /\ p[2] <= b
           /\ IsFiniteSet(Pieces(a, b))
           /\ \A l \in a..b : \E p \in Pieces(a, b) : p[1] <= l /\ l <= p[2]
  <1> DEFINE starts == {m \in a..b : (m - a) % SliceSize = 0}
             f == [l \in starts |-> <<l, Min({b, l + SliceSize - 1})>>]
  <1>1. SliceSize \in Nat /\ SliceSize # 0
    BY ScopeAssumption
  <1>2. Pieces(a, b) = {f[l] : l \in DOMAIN f} /\ DOMAIN f = starts
    BY DEF Pieces
  <1>3. IsFiniteSet(starts)
    BY FS_Interval, FS_Subset
  <1>4. ASSUME NEW l \in starts
        PROVE  /\ f[l][1] = l /\ f[l][2] = Min({b, l + SliceSize - 1})
               /\ l \in Int /\ f[l][2] \in Int
               /\ a <= l /\ l <= f[l][2] /\ f[l][2] <= b
               /\ f[l][2] = b \/ f[l][2] = l + SliceSize - 1
    <2>1. l \in Int /\ a <= l /\ l <= b
      OBVIOUS
    <2> DEFINE c == l + SliceSize - 1
    <2>2. c \in Int /\ l <= c
      BY <1>1, <2>1
    <2>3. f[l][1] = l /\ f[l][2] = Min({b, c})
      OBVIOUS
    <2> HIDE DEF f, starts
    <2>4. Min({b, c}) = IF b <= c THEN b ELSE c
      <3> HIDE DEF c
      <3> QED BY <2>2, MinOf
    <2>5. QED
      BY <2>1, <2>2, <2>3, <2>4
  <1>5. ASSUME NEW l \in a..b  PROVE \E x \in starts : f[x][1] <= l /\ l <= f[x][2]
    <2> DEFINE n == l - a
    <2>1. n \in Nat
      OBVIOUS
    <2>2. PICK m \in 0..n : m % SliceSize = 0 /\ n < m + SliceSize
      <3> HIDE DEF n
      <3> QED BY <1>1, <2>1, MultipleBelow
    <2> DEFINE x == a + m
    <2>3. x \in a..b /\ x - a = m /\ x <= l /\ l <= x + SliceSize - 1
      BY <1>1, <2>2
    <2>4. x \in starts
      BY <2>2, <2>3
    <2> HIDE DEF x, f, starts
    <2>5. f[x][1] = x /\ (f[x][2] = b \/ f[x][2] = x + SliceSize - 1)
      BY <1>4, <2>4
    <2>6. l <= b
      OBVIOUS
    <2>7. QED
      BY <2>3, <2>4, <2>5, <2>6
  <1> HIDE DEF f, starts
  <1>6. IsFiniteSet(Pieces(a, b))
    BY <1>2, <1>3, ImageFinite
  <1>7. ASSUME NEW p \in Pieces(a, b)
        PROVE  /\ p[1] \in Int /\ p[2] \in Int
               /\ a <= p[1] /\ p[1] <= p[2] /\ p[2] <= b
    <2>1. PICK l \in starts : p = f[l]
      BY <1>2
    <2>2. QED
      BY <2>1, <1>4
  <1>8. \A l \in a..b : \E p \in Pieces(a, b) : p[1] <= l /\ l <= p[2]
    BY <1>2, <1>5
  <1>9. QED
    BY <1>6, <1>7, <1>8

(* The window of a line shows it.                                            *)
LEMMA WindowFact ==
    ASSUME source \in Sources, NEW l \in Lines, NEW tasks \in SUBSET Task
    PROVE  /\ Window(l, tasks) \in Shown
           /\ Covers(Window(l, tasks), l)
           /\ Window(l, tasks).tasks = tasks
  <1>0. /\ Margin \in Nat /\ IsSource(source) /\ NoSymbol \notin Symbol
        /\ source.length \in Int /\ l \in Int /\ 1 <= l /\ l <= source.length
    BY ShownFact, ScopeAssumption DEF Lines
  <1> DEFINE s == EnclosingSymbol(l)
             w == Window(l, tasks)
  <1>1. CASE s = NoSymbol
    <2> DEFINE a == l - Margin
               b == l + Margin
    <2>1. a \in Int /\ b \in Int /\ a <= l /\ l <= b /\ a <= source.length
      BY <1>0
    <2>2. w = RegionFromRange(a, b, NoSymbol, tasks)
      BY <1>1 DEF Window
    <2> HIDE DEF a, b, w
    <2>3. /\ w \in Shown /\ w.tasks = tasks
          /\ (w.first <= a \/ w.first = 1) /\ (w.last = source.length \/ b <= w.last)
      BY <2>1, <2>2, RegionFact
    <2>4. w.first \in Int /\ w.last \in Int
      BY <2>3, ShownFact
    <2>5. w.first <= l /\ l <= w.last
      BY <1>0, <2>1, <2>3, <2>4
    <2>6. QED
      BY <2>3, <2>5 DEF w, Covers
  <1>2. CASE s # NoSymbol
    <2> DEFINE end == IF s.last >= s.first THEN s.last ELSE l
               a == s.first - Margin
               b == end + Margin
    <2>1. PICK i \in DOMAIN source.symbols :
              /\ s = source.symbols[i]
              /\ source.symbols[i].first <= l
              /\ source.symbols[i].last = 0 \/ l <= source.symbols[i].last
      BY <1>0, <1>2, EnclosingFact
    <2>2. /\ s \in Range(source.symbols) /\ s.first \in Int /\ s.last \in Int
          /\ 1 <= s.first /\ s.first <= source.length
      <3>1. source.symbols \in Seq(Symbol) /\ s.first \in 1..source.length
        BY <1>0, <2>1 DEF IsSource
      <3>2. s \in Symbol
        BY <2>1, <3>1
      <3>3. s \in Range(source.symbols)
        BY <2>1 DEF Range
      <3> HIDE DEF s
      <3>4. QED
        BY <1>0, <3>1, <3>2, <3>3 DEF Symbol
    <2>3. w = RegionFromRange(a, b, s, tasks)
      BY <1>2 DEF Window
    <2>4. s.first <= l /\ (s.last = 0 \/ l <= s.last)
      BY <2>1
    <2> HIDE DEF s, w
    <2>5. a \in Int /\ b \in Int /\ a <= l /\ l <= b /\ a <= source.length
      BY <1>0, <2>2, <2>4
    <2> HIDE DEF a, b
    <2>6. /\ w \in Shown /\ w.tasks = tasks
          /\ (w.first <= a \/ w.first = 1) /\ (w.last = source.length \/ b <= w.last)
      BY <2>2, <2>3, <2>5, RegionFact
    <2>7. w.first \in Int /\ w.last \in Int
      BY <2>6, ShownFact
    <2>8. w.first <= l /\ l <= w.last
      BY <1>0, <2>5, <2>6, <2>7
    <2>9. QED
      BY <2>6, <2>8 DEF w, Covers
  <1>3. QED
    BY <1>1, <1>2

(* Every line that was hit is in a window that has the tasks of its hit.     *)
LEMMA WindowsFact ==
    ASSUME source \in Sources, hits \in [Lines -> SUBSET Task]
    PROVE  /\ Windows \in SUBSET Shown /\ IsFiniteSet(Windows)
           /\ \A l \in Lines : \A t \in hits[l] :
                 \E w \in Windows : Covers(w, l) /\ t \in w.tasks
  <1> DEFINE H == HitLines
             Meant(l) == UNION {hits[m] : m \in {k \in H : Window(k, {}) = Window(l, {})}}
             f == [l \in H |-> Window(l, Meant(l))]
  <1>1. H \subseteq Lines /\ IsFiniteSet(H)
    <2>1. IsFiniteSet(Lines)
      <3>1. source.length \in Int
        BY ShownFact
      <3>2. QED
        BY <3>1, FS_Interval DEF Lines
    <2>2. H \in SUBSET Lines
      BY DEF HitLines
    <2> HIDE DEF H
    <2>3. QED
      BY <2>1, <2>2, FS_Subset
  <1>2. Windows = {f[l] : l \in DOMAIN f} /\ DOMAIN f = H
    BY DEF Windows
  <1>3. ASSUME NEW l \in H
        PROVE  /\ f[l] \in Shown /\ Covers(f[l], l) /\ f[l].tasks = Meant(l)
               /\ hits[l] \subseteq Meant(l)
    <2>1. Meant(l) \in SUBSET Task
      BY <1>1
    <2>2. hits[l] \subseteq Meant(l)
      OBVIOUS
    <2>3. f[l] = Window(l, Meant(l)) /\ l \in Lines
      BY <1>1
    <2> HIDE DEF Meant, f, H
    <2>4. QED
      BY <2>1, <2>2, <2>3, WindowFact
  <1>4. ASSUME NEW l \in Lines, NEW t \in hits[l]
        PROVE  \E w \in Windows : Covers(w, l) /\ t \in w.tasks
    <2>1. l \in H
      BY DEF HitLines
    <2> HIDE DEF f, H, Meant
    <2>2. QED
      BY <2>1, <1>2, <1>3
  <1> HIDE DEF f, H, Meant
  <1>5. IsFiniteSet(Windows)
    BY <1>1, <1>2, ImageFinite
  <1>6. QED
    BY <1>2, <1>3, <1>4, <1>5

(* A range of lines of the file that no route has.                           *)
Apart(a, b) ==
    /\ a \in Int /\ b \in Int /\ 1 <= a /\ b <= source.length
    /\ \A s \in Routes : \A l \in a..b : ~(s.first <= l /\ l <= RouteEnd(s))

LEMMA RouteFact ==
    ASSUME source \in Sources, NEW i \in DOMAIN source.symbols,
           source.symbols[i].kind = "route"
    PROVE  LET s == source.symbols[i] IN
           /\ s \in Routes /\ s \in Symbol
           /\ s \in Range(source.symbols)
           /\ s.first \in Int /\ s.last \in Int
           /\ 1 <= s.first /\ s.first <= source.length /\ s.first <= s.last
           /\ RouteEnd(s) = s.last
  <1> DEFINE s == source.symbols[i]
  <1>1. /\ source.symbols \in Seq(Symbol) /\ source.length \in Int
        /\ s.first \in 1..source.length /\ s.last >= s.first
    BY ShownFact, ScopeAssumption DEF IsSource
  <1>2. s \in Symbol
    BY <1>1
  <1>3. s.first \in Int /\ s.last \in Int
    <2> HIDE DEF s
    <2> QED BY <1>2 DEF Symbol
  <1>4. s \in Range(source.symbols)
    BY DEF Range
  <1>5. s \in Routes
    BY <1>4 DEF Routes
  <1> HIDE DEF s
  <1>6. RouteEnd(s) = s.last
    BY <1>1, <1>3, MaxOf DEF RouteEnd
  <1>7. QED
    BY <1>1, <1>2, <1>3, <1>4, <1>5, <1>6 DEF s

(* A region without a symbol that was found for it shows its range.          *)
LEMMA PlainRegion ==
    ASSUME source \in Sources, NEW tasks \in SUBSET Task, NEW p,
           p[1] \in Int, p[2] \in Int, 1 <= p[1], p[1] <= p[2], p[2] <= source.length
    PROVE  LET r == RegionFromRange(p[1], p[2], NoSymbol, tasks) IN
           /\ r \in Shown /\ r.tasks = tasks
           /\ r.first = p[1] /\ p[2] <= r.last
           /\ Apart(p[1], p[2]) => r.kind # "route"
  <1> DEFINE r == RegionFromRange(p[1], p[2], NoSymbol, tasks)
  <1>0. source.length \in Int /\ IsSource(source)
    BY ShownFact, ScopeAssumption
  <1>1. /\ r \in Shown /\ r.tasks = tasks
        /\ (r.first <= p[1] \/ r.first = 1) /\ p[1] <= r.first
        /\ p[2] <= r.last
        /\ r.kind = "route" => AtRoute(r)
    <2> DEFINE a == p[1]
               b == p[2]
    <2>1. a \in Int /\ b \in Int /\ a <= source.length /\ b <= source.length
      BY <1>0
    <2>2. r = RegionFromRange(a, b, NoSymbol, tasks)
      OBVIOUS
    <2> HIDE DEF a, b, r
    <2>3. /\ r \in Shown /\ r.tasks = tasks
          /\ (r.first <= a \/ r.first = 1) /\ a <= r.first
          /\ b <= r.last
          /\ r.kind = "route" => AtRoute(r)
      BY <2>1, <2>2, RegionFact
    <2>4. QED
      BY <2>3 DEF a, b
  <1> HIDE DEF r
  <1>2. r.first \in Int /\ r.first = p[1]
    BY <1>1, ShownFact
  <1>3. ASSUME Apart(p[1], p[2]), r.kind = "route"  PROVE FALSE
    <2>1. PICK i \in DOMAIN source.symbols :
              LET s == source.symbols[i] IN
              s.kind = "route" /\ s.first <= r.first /\ (s.last = 0 \/ r.first <= s.last)
      BY <1>1, <1>3 DEF AtRoute
    <2> DEFINE s == source.symbols[i]
    <2>2. /\ s \in Routes /\ s.first \in Int /\ s.last \in Int
          /\ 1 <= s.first /\ s.first <= s.last /\ RouteEnd(s) = s.last
      BY <2>1, RouteFact
    <2>3. s.first <= r.first /\ (s.last = 0 \/ r.first <= s.last)
      BY <2>1
    <2> HIDE DEF s
    <2>4. p[1] \in p[1]..p[2]
      OBVIOUS
    <2>5. s.first <= p[1] /\ p[1] <= RouteEnd(s)
      BY <1>2, <2>2, <2>3
    <2>6. QED
      BY <1>3, <2>2, <2>4, <2>5 DEF Apart
  <1>4. QED
    BY <1>1, <1>2, <1>3 DEF r

FinitelyShown == {R \in SUBSET Shown : IsFiniteSet(R)}

(* A piece that was added is shown, other than as a part of a route.         *)
LEMMA AddPieceFact ==
    ASSUME source \in Sources, NEW R \in FinitelyShown,
           NEW p, Apart(p[1], p[2]), p[1] <= p[2]
    PROVE  LET Q == AddPiece(p, R) IN
           /\ Q \in FinitelyShown
           /\ R \subseteq Q
           /\ \A l \in p[1]..p[2] : \E r \in Q : Covers(r, l) /\ r.kind # "route"
  <1> DEFINE C == {r \in R : ShowsRegistration(r)}
             U == Uncovered(p[1], p[2], C)
             none == {}
             f == [q \in U |-> RegionFromRange(q[1], q[2], NoSymbol, none)]
             Q == AddPiece(p, R)
  <1>1. /\ source.length \in Int
        /\ p[1] \in Int /\ p[2] \in Int /\ 1 <= p[1] /\ p[2] <= source.length
    BY ShownFact DEF Apart
  <1>2. /\ IsFiniteSet(C) /\ C \subseteq R /\ R \subseteq Shown /\ IsFiniteSet(R)
        /\ \A r \in C : r.first \in Int /\ r.last \in Int
        /\ \A r \in C : r.kind # "route"
    <2>1. R \subseteq Shown /\ IsFiniteSet(R) /\ C \in SUBSET R
      BY DEF FinitelyShown
    <2>2. \A r \in C : r.kind # "route"
      BY DEF ShowsRegistration
    <2> HIDE DEF C
    <2>3. QED
      BY <2>1, <2>2, FS_Subset, ShownFact
  <1>3. /\ \A q \in U : /\ q[1] \in Int /\ q[2] \in Int
                        /\ p[1] <= q[1] /\ q[1] <= q[2] /\ q[2] <= p[2]
        /\ IsFiniteSet(U)
        /\ \A l \in p[1]..p[2] :
              (\E r \in C : Covers(r, l)) \/ (\E q \in U : q[1] <= l /\ l <= q[2])
    <2> DEFINE a == p[1]
               b == p[2]
               V == Uncovered(a, b, C)
    <2>1. a \in Int /\ b \in Int
      BY <1>1
    <2> HIDE DEF a, b, C
    <2>2. /\ \A q \in V : /\ q[1] \in Int /\ q[2] \in Int
                          /\ a <= q[1] /\ q[1] <= q[2] /\ q[2] <= b
          /\ IsFiniteSet(V)
          /\ \A l \in a..b :
                (\E r \in C : Covers(r, l)) \/ (\E q \in V : q[1] <= l /\ l <= q[2])
      BY <1>2, <2>1, UncoveredFact
    <2>3. QED
      BY <2>2 DEF a, b
  <1>4. Q = R \cup {f[q] : q \in DOMAIN f} /\ DOMAIN f = U
    BY DEF AddPiece
  <1>5. ASSUME NEW q \in U
        PROVE  /\ f[q] \in Shown /\ f[q].kind # "route"
               /\ f[q].first = q[1] /\ q[2] <= f[q].last
    <2>1. /\ q[1] \in Int /\ q[2] \in Int /\ 1 <= q[1] /\ q[1] <= q[2] /\ q[2] <= source.length
      BY <1>1, <1>3
    <2>2. Apart(q[1], q[2])
      <3>1. \A l \in q[1]..q[2] : l \in p[1]..p[2]
        BY <1>1, <1>3, <2>1
      <3> HIDE DEF U, C
      <3>2. QED
        BY <2>1, <3>1 DEF Apart
    <2>3. f[q] = RegionFromRange(q[1], q[2], NoSymbol, none) /\ none \in SUBSET Task
      OBVIOUS
    <2> HIDE DEF f, U, C, none
    <2>4. QED
      BY <2>1, <2>2, <2>3, PlainRegion
  <1> HIDE DEF f, U, C, none, Q
  <1>6. Q \in FinitelyShown
    <2>1. IsFiniteSet({f[q] : q \in DOMAIN f})
      BY <1>3, <1>4, ImageFinite
    <2> DEFINE F == {f[q] : q \in DOMAIN f}
    <2>2. F \subseteq Shown
      BY <1>4, <1>5
    <2> HIDE DEF F
    <2>3. IsFiniteSet(R \cup F)
      BY <1>2, <2>1, FS_Union DEF F
    <2>4. QED
      BY <1>2, <1>4, <2>2, <2>3 DEF FinitelyShown, F
  <1>7. ASSUME NEW l \in p[1]..p[2]  PROVE \E r \in Q : Covers(r, l) /\ r.kind # "route"
    <2>1. CASE \E r \in C : Covers(r, l)
      BY <2>1, <1>2, <1>4
    <2>2. CASE \E q \in U : q[1] <= l /\ l <= q[2]
      <3>1. PICK q \in U : q[1] <= l /\ l <= q[2]
        BY <2>2
      <3>2. f[q] \in Q /\ f[q].kind # "route" /\ f[q].first = q[1] /\ q[2] <= f[q].last /\ f[q] \in Shown
        BY <1>4, <1>5
      <3>3. f[q].last \in Int /\ q[2] \in Int /\ l \in Int
        BY <3>2, <1>1, <1>3, ShownFact
      <3>4. Covers(f[q], l)
        BY <3>1, <3>2, <3>3 DEF Covers
      <3>5. QED
        BY <3>2, <3>4
    <2>3. QED
      BY <2>1, <2>2, <1>3
  <1>8. QED
    BY <1>4, <1>6, <1>7 DEF Q

LEMMA RegistrationFact ==
    ASSUME source \in Sources
    PROVE  /\ IsFiniteSet(Registrations)
           /\ \A c \in Registrations : c.first <= c.last /\ Apart(c.first, c.last)
  <1>0. IsSource(source) /\ source.length \in Int
    BY ShownFact, ScopeAssumption
  <1>1. IsFiniteSet(Registrations)
    <2>1. IsFiniteSet(source.calls)
      BY <1>0 DEF IsSource
    <2>2. Registrations \in SUBSET source.calls
      BY DEF Registrations
    <2>3. QED
      BY <2>1, <2>2, FS_Subset
  <1>2. ASSUME NEW c \in Registrations  PROVE c.first <= c.last /\ Apart(c.first, c.last)
    <2>1. c \in source.calls /\ c \in Call
      BY <1>0 DEF IsSource, Registrations
    <2>2. c.first \in Nat /\ c.last \in Nat
      BY <2>1 DEF Call
    <2>3. c.first \in 1..c.last /\ c.last <= source.length
      BY <1>0, <2>1 DEF IsSource
    <2>4. ASSUME NEW s \in Routes, NEW l \in c.first..c.last
          PROVE  ~(s.first <= l /\ l <= RouteEnd(s))
      <3>1. c.first..c.last \cap s.first..RouteEnd(s) = {}
        BY DEF Registrations
      <3>2. s.first \in Int /\ s.last \in Int
        <4>1. source.symbols \in Seq(Symbol)
          BY <1>0 DEF IsSource
        <4>2. s \in Symbol
          BY <4>1 DEF Routes, Range
        <4>3. QED
          BY <4>2 DEF Symbol
      <3>3. RouteEnd(s) \in Int
        BY <3>2, MaxOf DEF RouteEnd
      <3>4. QED
        BY <3>1, <3>2, <3>3, <2>2
    <2>5. QED
      BY <1>0, <2>2, <2>3, <2>4 DEF Apart
  <1>3. QED
    BY <1>1, <1>2

(* Every line of a registration is shown when they were all added, other     *)
(* than as a part of a route, and nothing is lost.                           *)
LEMMA RegistrationsFact ==
    ASSUME source \in Sources, NEW R \in FinitelyShown
    PROVE  LET all == MapThenFoldSet(AddPiece, R, LAMBDA x : x[2], LastPiece,
                         UNION {{c} \X Pieces(c.first, c.last) : c \in Registrations})
           IN /\ all \in FinitelyShown
              /\ R \subseteq all
              /\ \A c \in Registrations : \A l \in c.first..c.last :
                    \E r \in all : Covers(r, l) /\ r.kind # "route"
  <1> DEFINE Of(c) == {c} \X Pieces(c.first, c.last)
             S == UNION {Of(c) : c \in Registrations}
             A == FinitelyShown
             last == [T \in SUBSET S |-> LastPiece(T)]
             op == [x \in S \X A |-> AddPiece(x[1][2], x[2])]
             Eq(h) == h = [T \in SUBSET S |-> IF T = {} THEN R
                       ELSE AddPiece(LastPiece(T)[2], h[T \ {LastPiece(T)}])]
             it == CHOOSE h : Eq(h)
             all == MapThenFoldSet(AddPiece, R, LAMBDA x : x[2], LastPiece, S)
  <1>0. ASSUME NEW c \in Registrations
        PROVE  /\ IsFiniteSet(Of(c))
               /\ \A x \in Of(c) : /\ x[1] = c /\ x[1].first \in Int
                                  /\ Apart(x[2][1], x[2][2]) /\ x[2][1] <= x[2][2]
               /\ \A l \in c.first..c.last : \E x \in Of(c) : l \in x[2][1]..x[2][2]
    <2> DEFINE P == Pieces(c.first, c.last)
    <2>1. c.first <= c.last /\ Apart(c.first, c.last)
      BY RegistrationFact
    <2>2. c.first \in Int /\ c.last \in Int
      BY <2>1 DEF Apart
    <2>3. /\ IsFiniteSet(P)
          /\ \A p \in P : /\ p[1] \in Int /\ p[2] \in Int
                          /\ c.first <= p[1] /\ p[1] <= p[2] /\ p[2] <= c.last
          /\ \A l \in c.first..c.last : \E p \in P : p[1] <= l /\ l <= p[2]
      BY <2>2, PiecesFact
    <2> HIDE DEF P
    <2>4. IsFiniteSet({c} \X P)
      BY <2>3, FS_Singleton, FS_Product
    <2>5. ASSUME NEW x \in {c} \X P
          PROVE  /\ x[1] = c /\ x[1].first \in Int
                 /\ Apart(x[2][1], x[2][2]) /\ x[2][1] <= x[2][2]
      <3> DEFINE p == x[2]
      <3>1. p \in P /\ x[1] = c
        OBVIOUS
      <3> HIDE DEF p
      <3>2. /\ p[1] \in Int /\ p[2] \in Int
            /\ c.first <= p[1] /\ p[1] <= p[2] /\ p[2] <= c.last
        BY <3>1, <2>3
      <3>3. Apart(p[1], p[2])
        <4>1. \A l \in p[1]..p[2] : l \in c.first..c.last
          BY <2>2, <3>2
        <4>2. source.length \in Int
          BY ShownFact
        <4>3. QED
          BY <2>1, <2>2, <3>2, <4>1, <4>2 DEF Apart
      <3>4. QED
        BY <2>2, <3>1, <3>2, <3>3 DEF p
    <2>6. ASSUME NEW l \in c.first..c.last
          PROVE  \E x \in {c} \X P : l \in x[2][1]..x[2][2]
      <3>1. PICK p \in P : p[1] <= l /\ l <= p[2]
        BY <2>3
      <3>2. l \in p[1]..p[2]
        BY <2>2, <2>3, <3>1
      <3>3. <<c, p>> \in {c} \X P /\ <<c, p>>[2] = p
        OBVIOUS
      <3>4. QED
        BY <3>2, <3>3
    <2>7. QED
      BY <2>4, <2>5, <2>6 DEF P
  <1>1. /\ IsFiniteSet(S)
        /\ \A x \in S : /\ x[1].first \in Int
                        /\ Apart(x[2][1], x[2][2]) /\ x[2][1] <= x[2][2]
        /\ \A c \in Registrations : \A l \in c.first..c.last :
              \E x \in S : l \in x[2][1]..x[2][2]
    <2> DEFINE f == [c \in Registrations |-> Of(c)]
               F == {f[c] : c \in DOMAIN f}
    <2>1. F = {Of(c) : c \in Registrations} /\ DOMAIN f = Registrations
      OBVIOUS
    <2>2. \A E \in F : IsFiniteSet(E)
      BY <1>0
    <2> HIDE DEF f, Of
    <2>3. IsFiniteSet(F)
      BY <2>1, RegistrationFact, ImageFinite
    <2> HIDE DEF F
    <2>4. IsFiniteSet(UNION F)
      BY <2>2, <2>3, FS_UNION
    <2>5. QED
      BY <2>1, <2>4, <1>0
  <1>2. \A T \in SUBSET S : T # {} => LastPiece(T) \in T /\ last[T] = LastPiece(T)
    <2> SUFFICES ASSUME NEW T \in SUBSET S, T # {}  PROVE LastPiece(T) \in T
      OBVIOUS
    <2> DEFINE k == [x \in T |-> x[1].first]
               m == [x \in T |-> x[2][1]]
    <2>1. \A x \in S : x[1].first \in Int /\ x[2][1] \in Int
      BY <1>1 DEF Apart
    <2>2. T \subseteq S /\ IsFiniteSet(T)
      BY <1>1, FS_Subset
    <2> HIDE DEF S
    <2>3. k \in [T -> Int] /\ m \in [T -> Int]
      BY <2>1, <2>2
    <2>4. PICK z \in T : \A s \in T : k[s] < k[z] \/ (k[s] = k[z] /\ m[s] <= m[z])
      <3> HIDE DEF k, m
      <3> QED BY <2>2, <2>3, GreatestOfTwo
    <2>5. \A s \in T : s[1].first < z[1].first \/ (s[1].first = z[1].first /\ s[2][1] <= z[2][1])
      BY <2>4
    <2> HIDE DEF k, m
    <2>6. QED
      BY <2>5 DEF LastPiece
  <1> HIDE DEF S, Of
  <1>3. ASSUME NEW x \in S, NEW E \in A
        PROVE  /\ AddPiece(x[2], E) \in A
               /\ E \subseteq AddPiece(x[2], E)
               /\ \A l \in x[2][1]..x[2][2] :
                     \E r \in AddPiece(x[2], E) : Covers(r, l) /\ r.kind # "route"
    BY <1>1, AddPieceFact
  <1>4. R \in A /\ op \in [S \X A -> A]
    <2> HIDE DEF A
    <2>1. \A x \in S \X A : AddPiece(x[1][2], x[2]) \in A
      BY <1>3
    <2>2. R \in A
      BY DEF A
    <2>3. QED
      BY <2>1, <2>2
  <1>5. PICK h \in [SUBSET S -> A] : FoldsTo(h, S, op, R, last)
    <2>1. Chooses(last, S)
      <3> HIDE DEF last
      <3> QED BY <1>2 DEF Chooses
    <2> HIDE DEF op, last, A
    <2>2. QED
      BY <1>1, <1>4, <2>1, FoldExists
  <1>6. Eq(h)
    <2> HIDE DEF last, op, A
    <2>1. ASSUME NEW T \in SUBSET S, T # {}
          PROVE  h[T] = AddPiece(LastPiece(T)[2], h[T \ {LastPiece(T)}])
      <3>1. last[T] \in T /\ last[T] = LastPiece(T)
        BY <1>2, <2>1
      <3>2. T \ {last[T]} \in SUBSET S
        OBVIOUS
      <3>3. <<last[T], h[T \ {last[T]}]>> \in S \X A
        BY <3>1, <3>2, <1>5
      <3>4. h[T] = op[<<last[T], h[T \ {last[T]}]>>]
        BY <2>1, <1>5 DEF FoldsTo
      <3>5. h[T] = AddPiece(last[T][2], h[T \ {last[T]}])
        BY <3>3, <3>4 DEF op
      <3>6. QED
        BY <3>1, <3>5
    <2>2. h[{}] = R
      BY <1>5 DEF FoldsTo
    <2>3. QED
      BY <2>1, <2>2, <1>5
  <1>7. Eq(it)
    <2> HIDE DEF Eq
    <2> QED BY <1>6
  <1>8. all = it[S]
    BY DEF MapThenFoldSet
  <1> HIDE DEF it, all
  <1>9. /\ it[{}] = R
        /\ \A T \in SUBSET S : T # {} => \E x \in T : it[T] = AddPiece(x[2], it[T \ {x}])
    <2>1. it[{}] = R
      BY <1>7
    <2>2. ASSUME NEW T \in SUBSET S, T # {}
          PROVE  \E x \in T : it[T] = AddPiece(x[2], it[T \ {x}])
      BY <2>2, <1>2, <1>7
    <2>3. QED
      BY <2>1, <2>2
  <1> HIDE DEF Eq, op, last
  <1> DEFINE Good(T, E) == /\ E \in A
                           /\ R \subseteq E
                           /\ \A x \in T : \A l \in x[2][1]..x[2][2] :
                                 \E r \in E : Covers(r, l) /\ r.kind # "route"
             G == {T \in SUBSET S : Good(T, it[T])}
  <1>10. {} \in G
    <2>1. Good({}, R)
      BY <1>4
    <2> HIDE DEF Good
    <2>2. QED
      BY <2>1, <1>9
  <1>11. ASSUME NEW T \in SUBSET S, T # {}  PROVE \E x \in T : T \ {x} \in G => T \in G
    <2>1. PICK x \in T : it[T] = AddPiece(x[2], it[T \ {x}])
      BY <1>11, <1>9
    <2>2. ASSUME NEW E, Good(T \ {x}, E)  PROVE Good(T, AddPiece(x[2], E))
      <3> DEFINE F == AddPiece(x[2], E)
      <3>0. E \in A /\ x \in S
        BY <2>2
      <3>1. /\ F \in A /\ E \subseteq F
            /\ \A l \in x[2][1]..x[2][2] : \E r \in F : Covers(r, l) /\ r.kind # "route"
        <4> HIDE DEF A
        <4> QED BY <3>0, <1>3
      <3> HIDE DEF F, A
      <3>2. ASSUME NEW y \in T, NEW l \in y[2][1]..y[2][2]
            PROVE  \E r \in F : Covers(r, l) /\ r.kind # "route"
        <4>1. CASE y = x
          BY <4>1, <3>1
        <4>2. CASE y # x
          <5>1. y \in T \ {x}
            BY <4>2
          <5>2. \E r \in E : Covers(r, l) /\ r.kind # "route"
            BY <5>1, <2>2
          <5>3. QED
            BY <5>2, <3>1
        <4>3. QED
          BY <4>1, <4>2
      <3>3. QED
        BY <2>2, <3>1, <3>2 DEF F
    <2> HIDE DEF Good
    <2>3. QED
      BY <2>1, <2>2
  <1> HIDE DEF G, Good
  <1>12. S \in G
    <2>1. IsFiniteSet(S)
      BY <1>1
    <2>2. \A T \in SUBSET S : T \in G
      BY <2>1, <1>10, <1>11, SetInduction
    <2>3. QED
      BY <2>2
  <1>13. Good(S, all)
    BY <1>8, <1>12 DEF G
  <1>14. QED
    <2>1. /\ all \in FinitelyShown /\ R \subseteq all
          /\ \A x \in S : \A l \in x[2][1]..x[2][2] :
                \E r \in all : Covers(r, l) /\ r.kind # "route"
      BY <1>13 DEF Good
    <2>2. ASSUME NEW c \in Registrations, NEW l \in c.first..c.last
          PROVE  \E r \in all : Covers(r, l) /\ r.kind # "route"
      BY <1>1, <2>1
    <2>3. QED
      BY <2>1, <2>2 DEF all, S, Of

(* Batches that hold the regions of a set, each of them once.                *)
Holds(b, T) ==
    /\ \A i \in 1..Len(b) : /\ b[i] \subseteq T
                            /\ Cardinality(b[i]) <= BatchSlices
                            /\ SizeOf(b[i]) <= BatchSize
    /\ \A r \in T : \E i \in 1..Len(b) : r \in b[i]
    /\ \A i, j \in 1..Len(b) : b[i] \cap b[j] # {} => i = j

(* The size of a set of regions is a number, that of one region its own.     *)
LEMMA SizeFact ==
    ASSUME source \in Sources, NEW R \in SUBSET Shown, IsFiniteSet(R)
    PROVE  /\ SizeOf(R) \in Nat
           /\ \A r : R = {r} => SizeOf(R) = Size(r)
  <1> DEFINE f == [r \in R |-> Size(r)]
  <1>1. DOMAIN f = R /\ IsFiniteSet(DOMAIN f)
    OBVIOUS
  <1>2. \A r \in DOMAIN f : f[r] = Size(r) /\ f[r] \in Nat
    BY ShownFact DEF Size
  <1>3. SizeOf(R) = SumFunction(f)
    BY DEF SizeOf
  <1> HIDE DEF f
  <1>4. QED
    BY <1>1, <1>2, <1>3, SumFact

(* A region that fits a batch joins the last one or begins another.          *)
LEMMA AddToBatchesFact ==
    ASSUME source \in Sources, NEW R \in SUBSET Shown, IsFiniteSet(R),
           NEW T \in SUBSET R, NEW b \in Seq(SUBSET R), Holds(b, T),
           NEW x \in R, x \notin T, Size(x) <= BatchSize
    PROVE  Holds(AddToBatches(b, x), T \cup {x})
  <1> DEFINE n == Len(b)
             c == AddToBatches(b, x)
             Fits == /\ n > 0 /\ Cardinality(b[n]) < BatchSlices
                     /\ SizeOf(b[n] \cup {x}) <= BatchSize
  <1>0. n \in Nat /\ BatchSlices \in Nat \ {0} /\ BatchSize \in Nat
    BY ScopeAssumption
  <1>1. \A i \in 1..n : b[i] \in SUBSET T
    BY DEF Holds
  <1>2. CASE Fits
    <2>1. c = [b EXCEPT ![n] = @ \cup {x}]
      BY <1>2 DEF AddToBatches
    <2>2. n \in 1..n
      BY <1>0, <1>2
    <2> HIDE DEF c, Fits
    <2>3. /\ Len(c) = n
          /\ \A i \in 1..n : c[i] = IF i = n THEN b[n] \cup {x} ELSE b[i]
      BY <2>1, <2>2
    <2>4. /\ Cardinality(b[n] \cup {x}) <= BatchSlices
          /\ SizeOf(b[n] \cup {x}) <= BatchSize
      <3>1. IsFiniteSet(b[n]) /\ x \notin b[n]
        BY <1>1, <2>2, FS_Subset
      <3>2. Cardinality(b[n] \cup {x}) = Cardinality(b[n]) + 1 /\ Cardinality(b[n]) \in Nat
        BY <3>1, FS_AddElement, FS_CardinalityType
      <3>3. Cardinality(b[n]) < BatchSlices /\ SizeOf(b[n] \cup {x}) <= BatchSize
        BY <1>2 DEF Fits
      <3>4. QED
        BY <1>0, <3>2, <3>3
    <2>5. \A i \in 1..n : /\ c[i] \subseteq T \cup {x}
                          /\ Cardinality(c[i]) <= BatchSlices
                          /\ SizeOf(c[i]) <= BatchSize
      BY <2>3, <2>4, <1>1, <2>2 DEF Holds
    <2>6. ASSUME NEW r \in T \cup {x}  PROVE \E i \in 1..n : r \in c[i]
      <3>1. CASE r = x
        BY <3>1, <2>2, <2>3
      <3>2. CASE r \in T
        <4>1. PICK i \in 1..n : r \in b[i]
          BY <3>2 DEF Holds
        <4>2. r \in c[i]
          BY <4>1, <2>3
        <4>3. QED
          BY <4>2
      <3>3. QED
        BY <3>1, <3>2
    <2>7. ASSUME NEW i \in 1..n, NEW j \in 1..n, c[i] \cap c[j] # {}  PROVE i = j
      <3>1. PICK r : r \in c[i] /\ r \in c[j]
        BY <2>7
      <3>2. CASE r = x
        <4>1. \A k \in 1..n : k # n => x \notin c[k]
          BY <1>1, <2>3
        <4>2. QED
          BY <3>1, <3>2, <4>1
      <3>3. CASE r # x
        <4>1. r \in b[i] /\ r \in b[j]
          BY <3>1, <3>3, <2>3
        <4>2. QED
          BY <4>1 DEF Holds
      <3>4. QED
        BY <3>2, <3>3
    <2>8. QED
      BY <2>3, <2>5, <2>6, <2>7 DEF Holds, c
  <1>3. CASE ~Fits
    <2>1. c = Append(b, {x})
      BY <1>3 DEF AddToBatches
    <2> HIDE DEF c, Fits
    <2>2. /\ Len(c) = n + 1
          /\ \A i \in 1..n : c[i] = b[i]
          /\ c[n + 1] = {x}
          /\ \A i \in 1..Len(c) : i \in 1..n \/ i = n + 1
      BY <1>0, <2>1
    <2>3. 1..n \subseteq 1..Len(c) /\ n + 1 \in 1..Len(c)
      BY <1>0, <2>2
    <2>4. Cardinality({x}) <= BatchSlices /\ SizeOf({x}) <= BatchSize
      <3>1. Cardinality({x}) = 1 /\ IsFiniteSet({x}) /\ {x} \in SUBSET Shown
        BY FS_Singleton
      <3>2. SizeOf({x}) = Size(x)
        BY <3>1, SizeFact
      <3>3. QED
        BY <1>0, <3>1, <3>2
    <2>5. \A i \in 1..Len(c) : /\ c[i] \subseteq T \cup {x}
                               /\ Cardinality(c[i]) <= BatchSlices
                               /\ SizeOf(c[i]) <= BatchSize
      <3> TAKE i \in 1..Len(c)
      <3>1. CASE i \in 1..n
        BY <3>1, <2>2, <1>1 DEF Holds
      <3>2. CASE i = n + 1
        BY <3>2, <2>2, <2>4
      <3>3. QED
        BY <3>1, <3>2, <2>2
    <2>6. ASSUME NEW r \in T \cup {x}  PROVE \E i \in 1..Len(c) : r \in c[i]
      <3>1. CASE r = x
        BY <3>1, <2>2, <2>3
      <3>2. CASE r \in T
        <4>1. PICK i \in 1..n : r \in b[i]
          BY <3>2 DEF Holds
        <4>2. r \in c[i] /\ i \in 1..Len(c)
          BY <4>1, <2>2, <2>3
        <4>3. QED
          BY <4>2
      <3>3. QED
        BY <3>1, <3>2
    <2>7. ASSUME NEW i \in 1..Len(c), NEW j \in 1..Len(c), c[i] \cap c[j] # {}  PROVE i = j
      <3>1. PICK r : r \in c[i] /\ r \in c[j]
        BY <2>7
      <3>2. CASE r = x
        <4>1. \A k \in 1..n : x \notin c[k]
          BY <1>1, <2>2
        <4>2. QED
          BY <3>1, <3>2, <4>1, <2>2
      <3>3. CASE r # x
        <4>1. i \in 1..n /\ j \in 1..n
          BY <3>1, <3>3, <2>2
        <4>2. r \in b[i] /\ r \in b[j]
          BY <3>1, <4>1, <2>2
        <4>3. QED
          BY <4>1, <4>2 DEF Holds
      <3>4. QED
        BY <3>2, <3>3
    <2>8. QED
      BY <2>5, <2>6, <2>7 DEF Holds, c
  <1>4. QED
    BY <1>2, <1>3

(* The batches of a surface hold its regions, each of them once.             *)
LEMMA BatchesFact ==
    ASSUME source \in Sources, NEW R \in SUBSET Shown, IsFiniteSet(R),
           \A r \in R : Size(r) <= BatchSize
    PROVE  Batches(R) \in Seq(SUBSET R) /\ Holds(Batches(R), R)
  <1> DEFINE A == Seq(SUBSET R)
             base == << >>
             last == [T \in SUBSET R |-> LastSlice(T)]
             op == [x \in R \X A |-> AddToBatches(x[2], x[1])]
             Eq(h) == h = [T \in SUBSET R |-> IF T = {} THEN base
                       ELSE AddToBatches(h[T \ {LastSlice(T)}], LastSlice(T))]
             it == CHOOSE h : Eq(h)
  <1>1. \A T \in SUBSET R : T # {} => LastSlice(T) \in T /\ last[T] = LastSlice(T)
    <2> SUFFICES ASSUME NEW T \in SUBSET R, T # {}  PROVE LastSlice(T) \in T
      OBVIOUS
    <2> DEFINE k == [r \in T |-> r.first]
    <2>1. IsFiniteSet(T) /\ k \in [T -> Int]
      BY ShownFact, FS_Subset
    <2>2. PICK z \in T : \A s \in T : k[s] <= k[z]
      <3> HIDE DEF k
      <3> QED BY <2>1, Greatest
    <2>3. \A s \in T : s.first <= z.first
      BY <2>2
    <2> HIDE DEF k
    <2>4. QED
      BY <2>3 DEF LastSlice
  <1>2. ASSUME NEW x \in R, NEW b \in A  PROVE AddToBatches(b, x) \in A
    <2>1. Append(b, {x}) \in A
      BY DEF A
    <2>2. Len(b) > 0 => [b EXCEPT ![Len(b)] = @ \cup {x}] \in A
      <3>1. SUFFICES ASSUME Len(b) > 0  PROVE [b EXCEPT ![Len(b)] = @ \cup {x}] \in A
        OBVIOUS
      <3>2. Len(b) \in 1..Len(b) /\ b[Len(b)] \cup {x} \in SUBSET R
        BY <3>1
      <3>3. QED
        BY <3>2
    <2> HIDE DEF A
    <2>3. QED
      BY <2>1, <2>2 DEF AddToBatches
  <1>3. base \in A /\ op \in [R \X A -> A]
    <2>1. base \in A
      OBVIOUS
    <2> HIDE DEF A
    <2>2. \A x \in R \X A : AddToBatches(x[2], x[1]) \in A
      BY <1>2
    <2>3. QED
      BY <2>1, <2>2
  <1>4. PICK h \in [SUBSET R -> A] : FoldsTo(h, R, op, base, last)
    <2>1. Chooses(last, R)
      <3> HIDE DEF last
      <3> QED BY <1>1 DEF Chooses
    <2> HIDE DEF op, last, A, base
    <2>2. QED
      BY <1>3, <2>1, FoldExists
  <1>5. Eq(h)
    <2> HIDE DEF last, op, A, base
    <2>1. ASSUME NEW T \in SUBSET R, T # {}
          PROVE  h[T] = AddToBatches(h[T \ {LastSlice(T)}], LastSlice(T))
      <3>1. last[T] \in T /\ last[T] = LastSlice(T)
        BY <1>1, <2>1
      <3>2. T \ {last[T]} \in SUBSET R
        OBVIOUS
      <3>3. <<last[T], h[T \ {last[T]}]>> \in R \X A
        BY <3>1, <3>2, <1>4
      <3>4. h[T] = op[<<last[T], h[T \ {last[T]}]>>]
        BY <2>1, <1>4 DEF FoldsTo
      <3>5. h[T] = AddToBatches(h[T \ {last[T]}], last[T])
        BY <3>3, <3>4 DEF op
      <3>6. QED
        BY <3>1, <3>5
    <2>2. h[{}] = base
      BY <1>4 DEF FoldsTo
    <2>3. QED
      BY <2>1, <2>2, <1>4
  <1>6. Eq(it)
    <2> HIDE DEF Eq
    <2> QED BY <1>5
  <1>7. Batches(R) = it[R]
    BY DEF Batches, MapThenFoldSet
  <1> HIDE DEF it
  <1>8. /\ it[{}] = base
        /\ \A T \in SUBSET R : T # {} => \E x \in T : it[T] = AddToBatches(it[T \ {x}], x)
    <2>1. it[{}] = base
      BY <1>6
    <2>2. ASSUME NEW T \in SUBSET R, T # {}
          PROVE  \E x \in T : it[T] = AddToBatches(it[T \ {x}], x)
      BY <2>2, <1>1, <1>6
    <2>3. QED
      BY <2>1, <2>2
  <1>9. \A T \in SUBSET R : it[T] \in A
    <2> DEFINE G == {T \in SUBSET R : it[T] \in A}
    <2> HIDE DEF A, Eq, op, last, base
    <2>1. {} \in G
      BY <1>8, <1>3
    <2>2. ASSUME NEW T \in SUBSET R, T # {}  PROVE \E x \in T : T \ {x} \in G => T \in G
      BY <1>8, <2>2, <1>2
    <2> HIDE DEF G
    <2>3. \A T \in SUBSET R : T \in G
      BY <2>1, <2>2, SetInduction
    <2>4. QED
      BY <2>3 DEF G
  <1> DEFINE G == {T \in SUBSET R : Holds(it[T], T)}
  <1>10. {} \in G
    <2>1. Holds(base, {})
      BY DEF Holds
    <2> HIDE DEF base
    <2>2. QED
      BY <2>1, <1>8
  <1> HIDE DEF Eq, op, last, base
  <1>11. ASSUME NEW T \in SUBSET R, T # {}  PROVE \E x \in T : T \ {x} \in G => T \in G
    <2>1. PICK x \in T : it[T] = AddToBatches(it[T \ {x}], x)
      BY <1>11, <1>8
    <2>2. ASSUME T \ {x} \in G  PROVE Holds(it[T], T)
      <3> DEFINE b == it[T \ {x}]
                 V == T \ {x}
      <3>1. b \in A /\ Holds(b, V) /\ V \in SUBSET R /\ x \notin V /\ T = V \cup {x} /\ x \in R
        BY <2>1, <2>2, <1>9
      <3>2. Size(x) <= BatchSize
        OBVIOUS
      <3>3. it[T] = AddToBatches(b, x)
        BY <2>1
      <3> HIDE DEF b, V, G
      <3>4. Holds(AddToBatches(b, x), V \cup {x})
        BY <3>1, <3>2, AddToBatchesFact
      <3>5. QED
        BY <3>1, <3>3, <3>4
    <2>3. QED
      BY <2>2
  <1> HIDE DEF G
  <1>12. \A T \in SUBSET R : T \in G
    BY <1>10, <1>11, SetInduction
  <1>13. Holds(it[R], R)
    BY <1>12 DEF G
  <1>14. QED
    BY <1>7, <1>9, <1>13

(* A workset of the index is no surface of a region.                         *)
LEMMA SurfacesApart ==
    ASSUME source \in Sources, NEW w \in GraphWorksets, NEW r \in Shown
    PROVE  Surface(r) # w
  <1>0. IsSource(source)
    BY ScopeAssumption
  <1>1. w \in Symbol \cup Call
    <2>1. source.symbols \in Seq(Symbol)
      BY <1>0 DEF IsSource
    <2>2. Routes \subseteq Symbol
      BY <2>1 DEF Routes, Range
    <2>3. Registrations \subseteq Call
      BY <1>0 DEF IsSource, Registrations
    <2>4. QED
      BY <2>2, <2>3 DEF GraphWorksets
  <1>2. "tasks" \notin DOMAIN w
    BY <1>1 DEF Symbol, Call
  <1>3. r \in SourceRegion
    BY DEF Shown
  <1>4. "tasks" \in DOMAIN r
    BY <1>3 DEF SourceRegion
  <1>5. "tasks" \in DOMAIN Surface(r)
    BY <1>4 DEF Surface
  <1>6. QED
    BY <1>2, <1>5

(* A region joins at most one workset of the index, and a workset that fits  *)
(* one batch has no more members than a batch may have.                      *)
LEMMA GraphFact ==
    ASSUME source \in Sources, regions \in FinitelyShown
    PROVE  /\ \A r : \A v, w \in Chosen(r) : v = w
           /\ \A w \in GraphWorksets : FitsOneBatch(w) =>
                 /\ Cardinality(MembersOf(w)) <= BatchSlices
                 /\ SizeOf(MembersOf(w)) <= BatchSize
  <1>0. IsSource(source) /\ source.length \in Int /\ source.symbols \in Seq(Symbol)
    BY ShownFact, ScopeAssumption DEF IsSource
  <1>1. IsFiniteSet(GraphWorksets)
    <2>1. IsFiniteSet(DOMAIN source.symbols)
      <3>1. DOMAIN source.symbols = 1..Len(source.symbols) /\ Len(source.symbols) \in Nat
        BY <1>0
      <3>2. QED
        BY <3>1, FS_Interval
    <2>2. IsFiniteSet({source.symbols[i] : i \in DOMAIN source.symbols})
      <3> DEFINE f == source.symbols
      <3> HIDE DEF f
      <3>1. IsFiniteSet(DOMAIN f)
        BY <2>1 DEF f
      <3>2. IsFiniteSet({f[i] : i \in DOMAIN f})
        BY <3>1, ImageFinite
      <3>3. QED
        BY <3>2 DEF f
    <2>3. Routes \in SUBSET {source.symbols[i] : i \in DOMAIN source.symbols}
      BY DEF Routes, Range
    <2>4. IsFiniteSet(Routes)
      BY <2>2, <2>3, FS_Subset
    <2>5. QED
      BY <2>4, RegistrationFact, FS_Union DEF GraphWorksets
  <1>2. ASSUME NEW r, NEW v \in Chosen(r), NEW w \in Chosen(r)  PROVE v = w
    <2> DEFINE M == {x \in GraphWorksets : Matches(x, r)}
    <2>1. Cardinality(M) = 1 /\ v \in M /\ w \in M
      BY DEF Chosen
    <2>2. IsFiniteSet(M)
      BY <1>1, FS_Subset
    <2> HIDE DEF M
    <2>3. PICK x : M = {x}
      BY <2>1, <2>2, FS_Singleton
    <2>4. QED
      BY <2>1, <2>3
  <1>3. ASSUME NEW w \in GraphWorksets, FitsOneBatch(w)
        PROVE  /\ Cardinality(MembersOf(w)) <= BatchSlices
               /\ SizeOf(MembersOf(w)) <= BatchSize
    <2> DEFINE P == PrimaryPieces(w)
               M == MembersOf(w)
               refers == ReferredTo(w)
               shown == {p \in P : \E r \in M : Covers(r, p[1]) /\ Covers(r, p[2])}
               lengths == [p \in P \ shown |-> Length(p)]
    <2>1. /\ Cardinality(P) + Len(refers) + Cardinality(M) <= BatchSlices
          /\ SumFunction(lengths) + SumFunction(refers) + SizeOf(M) <= BatchSize
      BY <1>3 DEF FitsOneBatch
    <2>2. M \in SUBSET Shown /\ IsFiniteSet(M)
      BY FS_Subset DEF MembersOf, FinitelyShown
    <2>3. refers \in Seq(Nat)
      <3>1. CASE w \in Routes
        <4>1. PICK i \in DOMAIN source.symbols : w = source.symbols[i] /\ w.kind = "route"
          BY <3>1 DEF Routes, Range
        <4>2. source.more[w.name] \in Seq(Nat)
          BY <4>1, <1>0 DEF IsSource
        <4>3. QED
          BY <3>1, <4>2 DEF ReferredTo, IsRoute
      <3>2. CASE w \notin Routes
        <4>1. w \in Call
          BY <3>2, <1>0 DEF GraphWorksets, Registrations, IsSource
        <4>2. QED
          BY <3>2, <4>1 DEF ReferredTo, IsRoute, Call
      <3>3. QED
        BY <3>1, <3>2
    <2>4. IsFiniteSet(P) /\ \A p \in P : p[1] \in Int /\ p[2] \in Int /\ p[1] <= p[2]
      <3>1. ASSUME NEW a \in Int, NEW b \in Int, P = Pieces(a, b)
            PROVE  IsFiniteSet(P) /\ \A p \in P : p[1] \in Int /\ p[2] \in Int /\ p[1] <= p[2]
        <4> HIDE DEF P
        <4> QED BY <3>1, PiecesFact
      <3>2. CASE w \in Routes
        <4>1. w \in Symbol
          BY <3>2, <1>0 DEF Routes, Range
        <4>2. w.first \in Int /\ w.last \in Int
          BY <4>1 DEF Symbol
        <4>3. Min({source.length, RouteEnd(w)}) \in Int
          BY <4>2, <1>0, MinOf, MaxOf DEF RouteEnd
        <4>4. QED
          BY <3>1, <3>2, <4>2, <4>3 DEF PrimaryPieces, IsRoute
      <3>3. CASE w \notin Routes
        <4>1. w \in Call
          BY <3>3, <1>0 DEF GraphWorksets, Registrations, IsSource
        <4>2. w.first \in Int /\ w.last \in Int
          BY <4>1 DEF Call
        <4>3. QED
          BY <3>1, <3>3, <4>2 DEF PrimaryPieces, IsRoute
      <3>4. QED
        BY <3>2, <3>3
    <2>5. SumFunction(lengths) \in Nat
      <3>1. DOMAIN lengths = P \ shown /\ \A p \in P \ shown : lengths[p] = Length(p)
        OBVIOUS
      <3>2. IsFiniteSet(P \ shown) /\ P \ shown \subseteq P
        BY <2>4, FS_Subset
      <3>3. \A p \in P : Length(p) \in Nat
        BY <2>4 DEF Length
      <3> HIDE DEF lengths, shown, P
      <3>4. IsFiniteSet(DOMAIN lengths) /\ \A p \in DOMAIN lengths : lengths[p] \in Nat
        BY <3>1, <3>2, <3>3
      <3>5. QED
        BY <3>4, SumFact
    <2> HIDE DEF lengths, refers, P, M
    <2>6. SumFunction(refers) \in Nat /\ Len(refers) \in Nat
      <3>1. DOMAIN refers = 1..Len(refers) /\ Len(refers) \in Nat /\ \A i \in DOMAIN refers : refers[i] \in Nat
        BY <2>3
      <3>2. IsFiniteSet(DOMAIN refers)
        BY <3>1, FS_Interval
      <3>3. QED
        BY <3>1, <3>2, SumFact
    <2>7. Cardinality(P) \in Nat /\ Cardinality(M) \in Nat
      BY <2>2, <2>4, FS_CardinalityType
    <2>8. SizeOf(M) \in Nat /\ BatchSlices \in Nat /\ BatchSize \in Nat
      BY <2>2, SizeFact, ScopeAssumption
    <2>9. Cardinality(M) <= BatchSlices /\ SizeOf(M) <= BatchSize
      BY <2>1, <2>5, <2>6, <2>7, <2>8
    <2>10. QED
      BY <2>9 DEF M
  <1>4. QED
    BY <1>2, <1>3

(* The regions of a surface that no workset of the index takes, and their    *)
(* batches.                                                                  *)
SlicesOf(s) == {r \in Unmatched : Surface(r) = s}
Batched(s) == Batches(SlicesOf(s))
BatchUnit(s, i) == Unit(s, Batched(s)[i], i, Len(Batched(s)))

AllFit == \A r \in Unmatched : Size(r) <= BatchSize

LEMMA UnitFact ==
    ASSUME NEW s, NEW m, NEW i, NEW n
    PROVE  LET u == Unit(s, m, i, n) IN
           u.surface = s /\ u.members = m /\ u.index = i /\ u.count = n
  BY DEF Unit

LEMMA RegionUnitsFact ==
    ASSUME source \in Sources, regions \in FinitelyShown, AllFit
    PROVE  /\ \A s : Holds(Batched(s), SlicesOf(s)) /\ Batched(s) \in Seq(SUBSET SlicesOf(s))
           /\ \A u : u \in RegionUnits <=>
                 \E r \in Unmatched : \E i \in 1..Len(Batched(Surface(r))) :
                    u = BatchUnit(Surface(r), i)
  <1>1. ASSUME NEW s
        PROVE  Holds(Batched(s), SlicesOf(s)) /\ Batched(s) \in Seq(SUBSET SlicesOf(s))
    <2>1. SlicesOf(s) \in SUBSET Unmatched /\ Unmatched \in SUBSET regions
      BY DEF SlicesOf, Unmatched
    <2>2. SlicesOf(s) \in SUBSET Shown /\ IsFiniteSet(SlicesOf(s))
      BY <2>1, FS_Subset DEF FinitelyShown
    <2>3. \A r \in SlicesOf(s) : Size(r) <= BatchSize
      BY <2>1 DEF AllFit
    <2>4. QED
      BY <2>2, <2>3, BatchesFact DEF Batched
  <1> DEFINE surfaces == {Surface(r) : r \in Unmatched}
             batches == [s \in surfaces |-> Batches({r \in Unmatched : Surface(r) = s})]
  <1>2. RegionUnits =
            UNION {{Unit(s, batches[s][i], i, Len(batches[s])) : i \in DOMAIN batches[s]} :
                      s \in surfaces}
    BY DEF RegionUnits
  <1>3. \A s \in surfaces : batches[s] = Batched(s) /\ DOMAIN batches[s] = 1..Len(Batched(s))
    <2>1. \A s \in surfaces : batches[s] = Batched(s)
      BY DEF Batched, SlicesOf
    <2>2. \A s : DOMAIN Batched(s) = 1..Len(Batched(s))
      BY <1>1
    <2> HIDE DEF batches
    <2>3. QED
      BY <2>1, <2>2
  <1> HIDE DEF batches
  <1>4. ASSUME NEW u
        PROVE  u \in RegionUnits <=>
                 \E s \in surfaces : \E i \in 1..Len(Batched(s)) : u = BatchUnit(s, i)
    BY <1>2, <1>3 DEF BatchUnit
  <1>5. QED
    BY <1>1, <1>4

LEMMA GraphUnitsFact ==
    ASSUME NEW u
    PROVE  u \in GraphUnits <=>
              \E w \in GraphWorksets :
                 /\ MembersOf(w) # {} /\ FitsOneBatch(w)
                 /\ u = Unit(w, MembersOf(w), 1, 1)
  BY DEF GraphUnits

(* Every region is in one unit.                                              *)
LEMMA OneUnit ==
    ASSUME source \in Sources, regions \in FinitelyShown, AllFit,
           NEW r \in regions
    PROVE  \E u : {v \in GraphUnits \cup RegionUnits : r \in v.members} = {u}
  <1>1. ASSUME NEW v \in RegionUnits  PROVE v.members \subseteq Unmatched
    <2>1. PICK q \in Unmatched, i \in Int :
              i \in 1..Len(Batched(Surface(q))) /\ v = BatchUnit(Surface(q), i)
      BY RegionUnitsFact
    <2>2. v.members = Batched(Surface(q))[i]
      BY <2>1, UnitFact DEF BatchUnit
    <2>3. Holds(Batched(Surface(q)), SlicesOf(Surface(q)))
      BY RegionUnitsFact
    <2>4. v.members \subseteq SlicesOf(Surface(q))
      BY <2>1, <2>2, <2>3 DEF Holds
    <2>5. QED
      BY <2>4 DEF SlicesOf
  <1>2. CASE \E u \in GraphUnits : r \in u.members
    <2>1. PICK u \in GraphUnits : r \in u.members
      BY <1>2
    <2>2. r \notin Unmatched
      BY <2>1 DEF Unmatched
    <2>3. ASSUME NEW v \in GraphUnits, r \in v.members  PROVE v = u
      <3>1. PICK w \in GraphWorksets : u = Unit(w, MembersOf(w), 1, 1)
        BY <2>1, GraphUnitsFact
      <3>2. PICK x \in GraphWorksets : v = Unit(x, MembersOf(x), 1, 1)
        BY <2>3, GraphUnitsFact
      <3>3. r \in MembersOf(w) /\ r \in MembersOf(x)
        BY <2>1, <2>3, <3>1, <3>2, UnitFact
      <3>4. w \in Chosen(r) /\ x \in Chosen(r)
        BY <3>3 DEF MembersOf
      <3>5. w = x
        BY <3>4, GraphFact
      <3>6. QED
        BY <3>1, <3>2, <3>5
    <2>4. QED
      BY <1>1, <2>1, <2>2, <2>3
  <1>3. CASE ~ \E u \in GraphUnits : r \in u.members
    <2> DEFINE s == Surface(r)
    <2>1. r \in Unmatched
      BY <1>3 DEF Unmatched
    <2>2. r \in SlicesOf(s)
      BY <2>1 DEF SlicesOf
    <2>3. Holds(Batched(s), SlicesOf(s))
      BY RegionUnitsFact
    <2> HIDE DEF s
    <2>4. PICK i \in 1..Len(Batched(s)) : r \in Batched(s)[i]
      BY <2>2, <2>3 DEF Holds
    <2> DEFINE u == BatchUnit(s, i)
    <2>5. u \in RegionUnits /\ r \in u.members
      <3>1. u \in RegionUnits
        BY <2>1, RegionUnitsFact DEF s
      <3>2. u.members = Batched(s)[i]
        BY UnitFact DEF BatchUnit
      <3>3. QED
        BY <2>4, <3>1, <3>2
    <2> HIDE DEF u
    <2>6. ASSUME NEW v \in RegionUnits, r \in v.members  PROVE v = u
      <3>1. PICK q \in Unmatched, j \in Int :
                j \in 1..Len(Batched(Surface(q))) /\ v = BatchUnit(Surface(q), j)
        BY RegionUnitsFact
      <3> DEFINE t == Surface(q)
      <3>2. v.members = Batched(t)[j] /\ v = BatchUnit(t, j)
        BY <3>1, UnitFact DEF BatchUnit
      <3>3. Holds(Batched(t), SlicesOf(t))
        BY RegionUnitsFact
      <3> HIDE DEF t
      <3>4. r \in SlicesOf(t)
        BY <2>6, <3>1, <3>2, <3>3 DEF Holds, t
      <3>5. t = s
        BY <3>4 DEF SlicesOf, s
      <3>6. j \in 1..Len(Batched(s)) /\ r \in Batched(s)[j]
        BY <2>6, <3>1, <3>2, <3>5 DEF t
      <3>7. j = i
        BY <2>3, <2>4, <3>6 DEF Holds
      <3>8. QED
        BY <3>2, <3>5, <3>7 DEF u
    <2>7. QED
      BY <1>3, <2>5, <2>6
  <1>4. QED
    BY <1>2, <1>3

(* A unit fits a batch, and the units of its surface count each other.       *)
LEMMA Siblings ==
    ASSUME source \in Sources, regions \in FinitelyShown, AllFit,
           NEW u \in GraphUnits \cup RegionUnits
    PROVE  LET siblings == {v \in GraphUnits \cup RegionUnits : v.surface = u.surface} IN
           /\ u.members \subseteq regions /\ u.count \in Nat /\ u.index \in 1..u.count
           /\ Cardinality(u.members) <= BatchSlices /\ SizeOf(u.members) <= BatchSize
           /\ Cardinality(siblings) = u.count
           /\ \A v \in siblings : v.count = u.count /\ (v.index = u.index => v = u)
  <1> DEFINE all == GraphUnits \cup RegionUnits
             siblings == {v \in all : v.surface = u.surface}
  <1>0. Unmatched \subseteq Shown /\ Unmatched \subseteq regions
    BY DEF Unmatched, FinitelyShown
  <1>1. ASSUME NEW v \in all
        PROVE  \/ \E w \in GraphWorksets :
                     /\ FitsOneBatch(w)
                     /\ v = Unit(w, MembersOf(w), 1, 1)
                     /\ v.surface = w /\ v.members = MembersOf(w) /\ v.index = 1 /\ v.count = 1
               \/ \E r \in Unmatched : \E i \in 1..Len(Batched(Surface(r))) :
                     LET s == Surface(r) IN
                     /\ v = BatchUnit(s, i)
                     /\ v.surface = s /\ v.members = Batched(s)[i]
                     /\ v.index = i /\ v.count = Len(Batched(s))
    <2>1. CASE v \in GraphUnits
      BY <2>1, GraphUnitsFact, UnitFact
    <2>2. CASE v \in RegionUnits
      <3>1. PICK r \in Unmatched, i \in Int :
                i \in 1..Len(Batched(Surface(r))) /\ v = BatchUnit(Surface(r), i)
        BY <2>2, RegionUnitsFact
      <3>2. QED
        BY <3>1, UnitFact DEF BatchUnit
    <2>3. QED
      BY <2>1, <2>2
  <1>2. CASE \E w \in GraphWorksets :
                /\ FitsOneBatch(w)
                /\ u = Unit(w, MembersOf(w), 1, 1)
                /\ u.surface = w /\ u.members = MembersOf(w) /\ u.index = 1 /\ u.count = 1
    <2>1. PICK w \in GraphWorksets :
                /\ FitsOneBatch(w)
                /\ u = Unit(w, MembersOf(w), 1, 1)
                /\ u.surface = w /\ u.members = MembersOf(w) /\ u.index = 1 /\ u.count = 1
      BY <1>2
    <2>2. siblings = {u}
      <3>1. ASSUME NEW v \in siblings  PROVE v = u
        <4>1. v \in all /\ v.surface = w
          BY <2>1
        <4>2. \A r \in Unmatched : v.surface # Surface(r)
          BY <4>1, <1>0, SurfacesApart
        <4>3. v = Unit(w, MembersOf(w), 1, 1)
          BY <4>1, <4>2, <1>1
        <4>4. QED
          BY <4>3, <2>1
      <3>2. QED
        BY <3>1
    <2> HIDE DEF siblings
    <2>3. Cardinality(siblings) = 1
      BY <2>2, FS_Singleton
    <2>4. u.members \subseteq regions
      BY <2>1 DEF MembersOf
    <2>5. Cardinality(u.members) <= BatchSlices /\ SizeOf(u.members) <= BatchSize
      BY <2>1, GraphFact
    <2>6. QED
      BY <2>1, <2>2, <2>3, <2>4, <2>5 DEF siblings
  <1>3. CASE \E r \in Unmatched : \E i \in 1..Len(Batched(Surface(r))) :
                LET s == Surface(r) IN
                /\ u = BatchUnit(s, i)
                /\ u.surface = s /\ u.members = Batched(s)[i]
                /\ u.index = i /\ u.count = Len(Batched(s))
    <2>1. PICK r \in Unmatched, i \in Int :
                LET s == Surface(r) IN
                /\ i \in 1..Len(Batched(s))
                /\ u = BatchUnit(s, i)
                /\ u.surface = s /\ u.members = Batched(s)[i]
                /\ u.index = i /\ u.count = Len(Batched(s))
      BY <1>3
    <2> DEFINE s == Surface(r)
               n == Len(Batched(s))
    <2>2. Holds(Batched(s), SlicesOf(s)) /\ n \in Nat
      <3> HIDE DEF s
      <3>1. Holds(Batched(s), SlicesOf(s)) /\ Batched(s) \in Seq(SUBSET SlicesOf(s))
        BY RegionUnitsFact
      <3>2. QED
        BY <3>1
    <2>3. /\ u = BatchUnit(s, i) /\ i \in 1..n
          /\ u.surface = s /\ u.members = Batched(s)[i]
          /\ u.index = i /\ u.count = n
      BY <2>1
    <2>4. \A w \in GraphWorksets : w # s
      BY <1>0, SurfacesApart
    <2>5. \A v \in siblings : \E j \in 1..n : v = BatchUnit(s, j) /\ v.index = j /\ v.count = n
      <3> TAKE v \in siblings
      <3>1. v \in all /\ v.surface = s
        BY <2>3
      <3> HIDE DEF siblings, all
      <3>2. PICK q \in Unmatched, j \in Int :
                     LET t == Surface(q) IN
                     /\ j \in 1..Len(Batched(t))
                     /\ v = BatchUnit(t, j)
                     /\ v.surface = t
                     /\ v.index = j /\ v.count = Len(Batched(t))
        BY <3>1, <2>4, <1>1
      <3>3. Surface(q) = s
        BY <3>1, <3>2
      <3>4. QED
        BY <3>2, <3>3
    <2>6. \A j \in 1..n : BatchUnit(s, j) \in siblings /\ BatchUnit(s, j).index = j
      <3> TAKE j \in 1..n
      <3>1. BatchUnit(s, j) \in RegionUnits
        BY RegionUnitsFact
      <3>2. BatchUnit(s, j).surface = s /\ BatchUnit(s, j).index = j
        BY UnitFact DEF BatchUnit
      <3> HIDE DEF s
      <3>3. QED
        BY <3>1, <3>2, <2>3
    <2> HIDE DEF siblings, s, n
    <2>7. Cardinality(siblings) = n
      <3> DEFINE f == [j \in 1..n |-> BatchUnit(s, j)]
      <3>1. f \in Bijection(1..n, siblings)
        <4>1. f \in [1..n -> siblings]
          BY <2>6
        <4>2. \A a, b \in 1..n : (f[a] = f[b]) => (a = b)
          BY <2>6
        <4>3. \A v \in siblings : \E j \in 1..n : f[j] = v
          BY <2>5
        <4> HIDE DEF f
        <4>4. QED
          BY <4>1, <4>2, <4>3 DEF Bijection, Injection, Surjection, IsInjective
      <3>2. IsFiniteSet(1..n) /\ Cardinality(1..n) = n
        BY <2>2, FS_Interval
      <3> DEFINE D == 1..n
      <3>3. ExistsBijection(D, siblings)
        BY <3>1 DEF ExistsBijection
      <3> HIDE DEF f, D
      <3>4. Cardinality(siblings) = n
        BY <3>2, <3>3, FS_Bijection DEF D
      <3>5. QED
        BY <3>4
    <2>8. /\ u.members \subseteq regions
          /\ Cardinality(u.members) <= BatchSlices /\ SizeOf(u.members) <= BatchSize
      BY <2>2, <2>3, <1>0 DEF Holds, SlicesOf, n
    <2>9. \A v \in siblings : v.count = u.count /\ (v.index = u.index => v = u)
      BY <2>3, <2>5
    <2>10. u.count \in Nat /\ u.index \in 1..u.count
      BY <2>2, <2>3
    <2>11. QED
      BY <2>3, <2>7, <2>8, <2>9, <2>10 DEF siblings
  <1>4. QED
    <2> HIDE DEF siblings
    <2> QED BY <1>1, <1>2, <1>3

--------------------------------------------------------------------------------
(* The invariant of SearchScope                                              *)

ScopeType ==
    /\ source \in Sources
    /\ queries \in SearchPlans \cup {{}}
    /\ pending \subseteq {q.terms : q \in queries}
    /\ hits \in [Lines -> SUBSET Task]
    /\ failed \in BOOLEAN
    /\ regions \in FinitelyShown
    /\ next \in 1..Max({source.length, Len(source.symbols)}) + 1
    /\ stage \in {"planning", "searching", "focusing", "indexing", "grouping", "ready", "raised"}
    /\ stage \in {"planning", "searching"} => next = 1

(* What a set of regions shows of a line: to a task, as a route, and other   *)
(* than as a part of one.                                                    *)
ShownTo(R, l, t) == \E r \in R : r.first <= l /\ l <= r.last /\ t \in r.tasks
ShownAs(R, l, name) ==
    \E r \in R : r.first <= l /\ l <= r.last /\ r.kind = "route" /\ r.anchor = name
ShownApart(R, l) == \E r \in R : r.first <= l /\ l <= r.last /\ r.kind # "route"

Located == {"focusing", "indexing", "grouping", "ready"}

HitsShown ==
    stage \in Located => \A l \in Lines : \A t \in hits[l] : ShownTo(regions, l, t)

(* A task without a hit has the file up to the line that is looked at.       *)
FocusShown ==
    stage \in Located =>
        \A t \in FocusTasks : \A l \in Lines :
            stage # "focusing" \/ l < next => ShownTo(regions, l, t)

(* The routes are shown up to the one that is looked at.                     *)
RoutesShown ==
    stage \in {"indexing", "grouping", "ready"} =>
        \A i \in DOMAIN source.symbols :
            LET s == source.symbols[i] IN
            s.kind = "route" /\ (stage # "indexing" \/ i < next) =>
                \A l \in s.first..Min({source.length, RouteEnd(s)}) :
                    ShownAs(regions, l, s.name)

RegistrationsShown ==
    stage \in {"grouping", "ready"} =>
        \A c \in Registrations : \A l \in c.first..c.last : ShownApart(regions, l)

(* A region is in one unit, a unit fits a batch, and the units of a surface  *)
(* count each other.                                                         *)
InOneUnit == \A r \in regions : \E u : {v \in units : r \in v.members} = {u}

UnitHolds(u) ==
    LET siblings == {v \in units : v.surface = u.surface} IN
    /\ u.members \subseteq regions /\ u.count \in Nat /\ u.index \in 1..u.count
    /\ Cardinality(u.members) <= BatchSlices /\ SizeOf(u.members) <= BatchSize
    /\ Cardinality(siblings) = u.count
    /\ \A v \in siblings : v.count = u.count /\ (v.index = u.index => v = u)

UnitsHold ==
    /\ stage # "ready" => units = {}
    /\ stage = "ready" => InOneUnit
    /\ \A u \in units : UnitHolds(u)

ScopeInv ==
    /\ ScopeType
    /\ HitsShown
    /\ FocusShown
    /\ RoutesShown
    /\ RegistrationsShown
    /\ UnitsHold

(* What is said of the file alone stays while the file does.                 *)
LEMMA SourceKept ==
    ASSUME source' = source
    PROVE  /\ Lines' = Lines
           /\ Routes' = Routes
           /\ Registrations' = Registrations
           /\ FinitelyShown' = FinitelyShown
  <1>1. Lines' = Lines
    BY DEF Lines
  <1>2. Routes' = Routes
    BY DEF Routes
  <1>3. Registrations' = Registrations
    BY <1>2 DEF Registrations
  <1>4. SourceRegion' = SourceRegion
    BY <1>1 DEF SourceRegion
  <1>5. Shown' = Shown
    BY <1>4 DEF Shown
  <1>6. FinitelyShown' = FinitelyShown
    BY <1>5 DEF FinitelyShown
  <1>7. QED
    BY <1>1, <1>2, <1>3, <1>6

(* Regions that are kept, but for the tasks, which may be more.              *)
Kept(R, Q) ==
    \A r \in R : \E q \in Q : /\ q.first = r.first /\ q.last = r.last
                              /\ q.kind = r.kind /\ q.anchor = r.anchor
                              /\ r.tasks \subseteq q.tasks

LEMMA KeptShows ==
    ASSUME NEW R, NEW Q, Kept(R, Q)
    PROVE  /\ \A l, t : ShownTo(R, l, t) => ShownTo(Q, l, t)
           /\ \A l, name : ShownAs(R, l, name) => ShownAs(Q, l, name)
           /\ \A l : ShownApart(R, l) => ShownApart(Q, l)
  BY DEF Kept, ShownTo, ShownAs, ShownApart

LEMMA MoreIsKept ==
    ASSUME NEW R, NEW Q, R \subseteq Q
    PROVE  Kept(R, Q)
  BY DEF Kept

(* Before the regions, and after an error, there is only the type to keep.   *)
LEMMA NothingShown ==
    ASSUME ScopeType', stage' \notin Located, units' = {}
    PROVE  ScopeInv'
  <1>1. stage' \notin {"focusing", "indexing", "grouping", "ready"} /\ stage' # "ready"
    BY DEF Located
  <1>2. HitsShown' /\ FocusShown'
    BY DEF HitsShown, FocusShown, Located
  <1>3. RoutesShown' /\ RegistrationsShown'
    BY <1>1 DEF RoutesShown, RegistrationsShown
  <1>4. UnitsHold'
    BY <1>1 DEF UnitsHold
  <1>5. QED
    BY <1>2, <1>3, <1>4 DEF ScopeInv

LEMMA PlanSearchesInv ==
    ASSUME ScopeInv, PlanSearches
    PROVE  ScopeInv'
  <1>1. /\ stage = "planning" /\ source' = source /\ hits' = hits /\ failed' = failed
        /\ regions' = regions /\ next' = next /\ units' = units
        /\ queries' \in SearchPlans /\ pending' = {q.terms : q \in queries'}
        /\ stage' \in {"searching", "raised"}
    BY DEF PlanSearches
  <1>2. Lines' = Lines /\ FinitelyShown' = FinitelyShown
    BY <1>1, SourceKept
  <1>3. ScopeType'
    BY <1>1, <1>2 DEF ScopeInv, ScopeType
  <1>4. units' = {} /\ stage' \notin Located
    BY <1>1 DEF ScopeInv, UnitsHold, Located
  <1>5. QED
    BY <1>3, <1>4, NothingShown

LEMMA SearchInv ==
    ASSUME ScopeInv, NEW terms \in pending,
           Search(terms) \/ SearchFails(terms)
    PROVE  ScopeInv'
  <1>1. /\ stage = "searching" /\ stage' = stage /\ source' = source /\ queries' = queries
        /\ regions' = regions /\ next' = next /\ units' = units
        /\ pending' = pending \ {terms} /\ failed' \in {failed, TRUE}
    BY DEF Search, SearchFails
  <1>2. Lines' = Lines /\ FinitelyShown' = FinitelyShown
    BY <1>1, SourceKept
  <1>3. hits' \in [Lines -> SUBSET Task]
    <2>1. hits \in [Lines -> SUBSET Task]
      BY DEF ScopeInv, ScopeType
    <2>2. CASE SearchFails(terms)
      BY <2>1, <2>2 DEF SearchFails
    <2>3. CASE Search(terms)
      <3>1. TasksOf(terms) \subseteq Task
        <4>1. queries \subseteq Query
          BY ScopeAssumption DEF ScopeInv, ScopeType
        <4>2. \A q \in queries : q.tasks \subseteq Task
          BY <4>1 DEF Query
        <4>3. QED
          BY <4>2 DEF TasksOf
      <3>2. PICK found \in SUBSET Lines :
                hits' = [l \in Lines |->
                            IF l \in found THEN hits[l] \cup TasksOf(terms) ELSE hits[l]]
        BY <2>3 DEF Search
      <3>3. QED
        BY <2>1, <3>1, <3>2
    <2>4. QED
      BY <2>2, <2>3
  <1>4. ScopeType'
    BY <1>1, <1>2, <1>3 DEF ScopeInv, ScopeType
  <1>5. units' = {} /\ stage' \notin Located
    BY <1>1 DEF ScopeInv, UnitsHold, Located
  <1>6. QED
    BY <1>4, <1>5, NothingShown

(* The regions show what the searches found.                                 *)
LEMMA MakeRegionsInv ==
    ASSUME ScopeInv, MakeRegions
    PROVE  ScopeInv'
  <1>1. /\ stage = "searching" /\ stage' = "focusing" /\ source' = source /\ queries' = queries
        /\ hits' = hits /\ pending' = pending /\ failed' = failed /\ next' = next /\ units' = units
        /\ regions' = MergedRegions(Windows)
    BY DEF MakeRegions
  <1>2. Lines' = Lines /\ FinitelyShown' = FinitelyShown
    BY <1>1, SourceKept
  <1>3. source \in Sources /\ hits \in [Lines -> SUBSET Task] /\ next = 1 /\ units = {}
    BY <1>1 DEF ScopeInv, ScopeType, UnitsHold
  <1>4. /\ Windows \in SUBSET Shown /\ IsFiniteSet(Windows)
        /\ \A l \in Lines : \A t \in hits[l] :
              \E w \in Windows : Covers(w, l) /\ t \in w.tasks
    BY <1>3, WindowsFact
  <1>5. /\ regions' \in SUBSET Shown /\ IsFiniteSet(regions')
        /\ \A w \in Windows : \E r \in regions' : Within(w, r)
    BY <1>1, <1>3, <1>4, MergedRegionsFact
  <1>6. ScopeType'
    <2>1. regions' \in FinitelyShown
      BY <1>5 DEF FinitelyShown
    <2>2. QED
      BY <1>1, <1>2, <2>1 DEF ScopeInv, ScopeType
  <1>7. HitsShown'
    <2>1. ASSUME NEW l \in Lines, NEW t \in hits[l]  PROVE ShownTo(regions', l, t)
      <3>1. PICK w \in Windows : Covers(w, l) /\ t \in w.tasks
        BY <1>4
      <3>2. PICK r \in regions' : Within(w, r)
        BY <1>5
      <3>3. /\ w.first \in Int /\ w.last \in Int /\ r.first \in Int /\ r.last \in Int /\ l \in Int
        <4>1. source.length \in Int /\ w \in Shown /\ r \in Shown
          BY <1>3, <1>4, <1>5, ShownFact
        <4>2. QED
          BY <4>1, <1>3, ShownFact DEF Lines
      <3>4. r.first <= l /\ l <= r.last /\ t \in r.tasks
        BY <3>1, <3>2, <3>3 DEF Within, Covers
      <3>5. QED
        BY <3>4 DEF ShownTo
    <2>2. QED
      BY <2>1, <1>1, <1>2 DEF HitsShown, ShownTo
  <1>8. FocusShown'
    <2>1. \A l \in Lines : ~(l < 1)
      <3>1. source.length \in Int
        BY <1>3, ShownFact
      <3>2. QED
        BY <3>1 DEF Lines
    <2>2. QED
      BY <2>1, <1>1, <1>2, <1>3 DEF FocusShown
  <1>9. RoutesShown' /\ RegistrationsShown' /\ UnitsHold'
    BY <1>1, <1>3 DEF RoutesShown, RegistrationsShown, UnitsHold
  <1>10. QED
    BY <1>6, <1>7, <1>8, <1>9 DEF ScopeInv

(* Regions that keep what they show keep all that was shown.                 *)
LEMMA StillShown ==
    ASSUME ScopeInv, source' = source, hits' = hits, stage \in Located, Kept(regions, regions')
    PROVE  /\ HitsShown'
           /\ FocusTasks' = FocusTasks
           /\ stage # "focusing" => FocusShown'
           /\ stage # "focusing" =>
                 \A i \in DOMAIN source.symbols :
                    LET s == source.symbols[i] IN
                    s.kind = "route" /\ (stage # "indexing" \/ i < next) =>
                        \A l \in s.first..Min({source.length, RouteEnd(s)}) :
                            ShownAs(regions', l, s.name)
           /\ stage \in {"grouping", "ready"} => RegistrationsShown'
  <1>1. Lines' = Lines /\ Registrations' = Registrations
    BY SourceKept
  <1>2. FocusTasks' = FocusTasks
    BY <1>1 DEF FocusTasks, TasksWithHits
  <1>3. HitsShown'
    <2>1. \A l \in Lines : \A t \in hits[l] : ShownTo(regions, l, t)
      BY DEF ScopeInv, HitsShown
    <2>2. \A l \in Lines : \A t \in hits[l] : ShownTo(regions', l, t)
      BY <2>1, KeptShows
    <2>3. QED
      BY <2>2, <1>1 DEF HitsShown, ShownTo
  <1>4. ASSUME stage # "focusing"  PROVE FocusShown'
    <2>1. \A t \in FocusTasks : \A l \in Lines : ShownTo(regions, l, t)
      BY <1>4 DEF ScopeInv, FocusShown
    <2>2. \A t \in FocusTasks : \A l \in Lines : ShownTo(regions', l, t)
      BY <2>1, KeptShows
    <2>3. QED
      BY <2>2, <1>1, <1>2 DEF FocusShown, ShownTo
  <1>5. ASSUME stage # "focusing", NEW i \in DOMAIN source.symbols,
               source.symbols[i].kind = "route", stage # "indexing" \/ i < next,
               NEW l \in source.symbols[i].first
                            ..Min({source.length, RouteEnd(source.symbols[i])})
        PROVE  ShownAs(regions', l, source.symbols[i].name)
    <2>1. ShownAs(regions, l, source.symbols[i].name)
      BY <1>5 DEF ScopeInv, RoutesShown, Located
    <2>2. QED
      BY <2>1, KeptShows
  <1>6. ASSUME stage \in {"grouping", "ready"}  PROVE RegistrationsShown'
    <2>1. \A c \in Registrations : \A l \in c.first..c.last : ShownApart(regions, l)
      BY <1>6 DEF ScopeInv, RegistrationsShown
    <2>2. \A c \in Registrations : \A l \in c.first..c.last : ShownApart(regions', l)
      BY <2>1, KeptShows
    <2>3. QED
      BY <2>2, <1>1 DEF RegistrationsShown, ShownApart
  <1>7. QED
    BY <1>2, <1>3, <1>4, <1>5, <1>6

LEMMA FocusTasksType == FocusTasks \in SUBSET Task
  BY ScopeAssumption DEF FocusTasks

(* A segment of the file is shown to the tasks that focus on it.             *)
LEMMA FocusSegmentInv ==
    ASSUME ScopeInv, FocusSegment
    PROVE  ScopeInv'
  <1> DEFINE end == Min({source.length, next + SegmentSize - 1})
             touched == {r \in regions : Overlap(r, next, end) # {}}
             tasks == FocusTasks
             U == Uncovered(next, end, touched)
             Told1(r) == [r EXCEPT !.tasks = @ \cup tasks]
             Added(p) == RegionFromRange(p[1], p[2], NoSymbol, tasks)
             f == [r \in touched |-> Told1(r)]
             g == [p \in U |-> Added(p)]
  <1>1. /\ stage = "focusing" /\ stage' = stage /\ source' = source /\ queries' = queries
        /\ hits' = hits /\ pending' = pending /\ failed' = failed /\ units' = units
        /\ next <= source.length /\ next' = end + 1
        /\ regions' = (regions \ touched) \cup {Told1(r) : r \in touched} \cup {Added(p) : p \in U}
    BY DEF FocusSegment
  <1>2. Lines' = Lines /\ FinitelyShown' = FinitelyShown
    BY <1>1, SourceKept
  <1>3. /\ source \in Sources /\ regions \in SUBSET Shown /\ IsFiniteSet(regions) /\ units = {}
        /\ next \in 1..Max({source.length, Len(source.symbols)}) + 1
    BY <1>1 DEF ScopeInv, ScopeType, UnitsHold, FinitelyShown
  <1>4. /\ source.length \in Int /\ 1 <= source.length /\ next \in Int /\ 1 <= next
        /\ SegmentSize \in Int /\ 1 <= SegmentSize /\ Len(source.symbols) \in Int
    <2>1. source.length \in Int /\ 1 <= source.length
      BY <1>3, ShownFact
    <2>2. Len(source.symbols) \in Nat
      BY <1>3, ScopeAssumption DEF IsSource
    <2>3. QED
      BY <1>3, <2>1, <2>2, ScopeAssumption
  <1>5. /\ end = IF source.length <= next + SegmentSize - 1 THEN source.length
                 ELSE next + SegmentSize - 1
        /\ Max({source.length, Len(source.symbols)})
              = IF source.length <= Len(source.symbols) THEN Len(source.symbols)
                ELSE source.length
    BY <1>4, MinOf, MaxOf
  <1> HIDE DEF end
  <1>6. end \in Int /\ next <= end /\ end <= source.length
        /\ next' \in 1..Max({source.length, Len(source.symbols)}) + 1
    <2>1. end \in Int /\ next <= end /\ end <= source.length
      BY <1>1, <1>4, <1>5
    <2>2. next' = end + 1
      BY <1>1
    <2>3. end + 1 \in 1..Max({source.length, Len(source.symbols)}) + 1
      BY <2>1, <1>4, <1>5
    <2>4. QED
      BY <2>1, <2>2, <2>3
  <1>7. tasks \in SUBSET Task
    BY FocusTasksType
  <1>8. IsFiniteSet(touched) /\ \A r \in touched : r.first \in Int /\ r.last \in Int
    <2>1. touched \in SUBSET regions
      OBVIOUS
    <2>2. \A r \in touched : r \in Shown
      BY <2>1, <1>3
    <2>3. QED
      BY <2>1, <2>2, <1>3, FS_Subset, ShownFact
  <1> HIDE DEF tasks, U
  <1>9. /\ \A p \in U : /\ p[1] \in Int /\ p[2] \in Int
                        /\ next <= p[1] /\ p[1] <= p[2] /\ p[2] <= end
        /\ IsFiniteSet(U)
        /\ \A l \in next..end : \/ \E r \in touched : Covers(r, l)
                                \/ \E p \in U : p[1] <= l /\ l <= p[2]
    <2> HIDE DEF touched
    <2> QED BY <1>4, <1>6, <1>8, UncoveredFact DEF U
  <1>10. ASSUME NEW r \in touched
         PROVE  /\ Told1(r) \in Shown
                /\ Told1(r).first = r.first /\ Told1(r).last = r.last
                /\ Told1(r).kind = r.kind /\ Told1(r).anchor = r.anchor
                /\ Told1(r).tasks = r.tasks \cup tasks
    <2>1. r \in Shown
      BY <1>3
    <2>2. QED
      BY <2>1, <1>7 DEF Shown, SourceRegion
  <1>11. ASSUME NEW p \in U
         PROVE  /\ Added(p) \in Shown /\ Added(p).tasks = tasks
                /\ Added(p).first = p[1] /\ p[2] <= Added(p).last
    <2>1. p[1] \in Int /\ p[2] \in Int /\ 1 <= p[1] /\ p[1] <= p[2] /\ p[2] <= source.length
      BY <1>4, <1>6, <1>9
    <2>2. QED
      BY <2>1, <1>3, <1>7, PlainRegion
  <1>12. regions' \in FinitelyShown
    <2>1. IsFiniteSet({Told1(r) : r \in touched})
      <3>1. IsFiniteSet({f[r] : r \in DOMAIN f})
        <4>1. IsFiniteSet(DOMAIN f)
          BY <1>8
        <4> HIDE DEF f
        <4> QED BY <4>1, ImageFinite
      <3>2. {f[r] : r \in DOMAIN f} = {Told1(r) : r \in touched}
        OBVIOUS
      <3>3. QED
        BY <3>1, <3>2
    <2>2. IsFiniteSet({Added(p) : p \in U})
      <3>1. IsFiniteSet({g[p] : p \in DOMAIN g})
        <4>1. IsFiniteSet(DOMAIN g)
          BY <1>9
        <4> HIDE DEF g
        <4> QED BY <4>1, ImageFinite
      <3>2. {g[p] : p \in DOMAIN g} = {Added(p) : p \in U}
        OBVIOUS
      <3>3. QED
        BY <3>1, <3>2
    <2>3. IsFiniteSet(regions \ touched)
      BY <1>3, FS_Difference
    <2>4. IsFiniteSet(regions')
      <3> DEFINE A == regions \ touched
                 B == {Told1(r) : r \in touched}
                 C == {Added(p) : p \in U}
      <3>1. regions' = A \cup B \cup C
        BY <1>1
      <3>2. IsFiniteSet(A) /\ IsFiniteSet(B) /\ IsFiniteSet(C)
        BY <2>1, <2>2, <2>3
      <3> HIDE DEF A, B, C
      <3>3. IsFiniteSet(A \cup B)
        BY <3>2, FS_Union
      <3>4. QED
        BY <3>1, <3>2, <3>3, FS_Union
    <2>5. regions' \in SUBSET Shown
      <3>1. {Told1(r) : r \in touched} \in SUBSET Shown
        BY <1>10
      <3>2. {Added(p) : p \in U} \in SUBSET Shown
        BY <1>11
      <3>3. QED
        BY <3>1, <3>2, <1>1, <1>3
    <2>6. QED
      BY <2>4, <2>5 DEF FinitelyShown
  <1>13. Kept(regions, regions')
    <2> SUFFICES ASSUME NEW r \in regions
                 PROVE  \E q \in regions' : /\ q.first = r.first /\ q.last = r.last
                                            /\ q.kind = r.kind /\ q.anchor = r.anchor
                                            /\ r.tasks \subseteq q.tasks
      BY DEF Kept
    <2>1. CASE r \in touched
      <3>1. Told1(r) \in regions'
        BY <2>1, <1>1
      <3>2. QED
        BY <3>1, <2>1, <1>10
    <2>2. CASE r \notin touched
      BY <2>2, <1>1
    <2>3. QED
      BY <2>1, <2>2
  <1>14. HitsShown' /\ FocusTasks' = FocusTasks
    BY <1>1, <1>13, StillShown DEF Located
  <1>15. FocusShown'
    <2>1. ASSUME NEW t \in tasks, NEW l \in Lines, l < next'
          PROVE  ShownTo(regions', l, t)
      <3>1. l \in Int
        BY <1>4 DEF Lines
      <3>2. CASE l < next
        <4>1. ShownTo(regions, l, t)
          BY <3>2, <2>1, <1>1 DEF ScopeInv, FocusShown, Located, tasks
        <4>2. QED
          BY <4>1, <1>13, KeptShows
      <3>3. CASE ~(l < next)
        <4>1. l \in next..end
          BY <3>1, <3>3, <2>1, <1>1, <1>4, <1>6
        <4>2. CASE \E r \in touched : Covers(r, l)
          <5>1. PICK r \in touched : Covers(r, l)
            BY <4>2
          <5>2. Told1(r) \in regions' /\ Told1(r).first = r.first /\ Told1(r).last = r.last
                /\ t \in Told1(r).tasks
            BY <1>1, <1>10
          <5>3. r.first <= l /\ l <= r.last
            BY <5>1 DEF Covers
          <5>4. QED
            BY <5>2, <5>3 DEF ShownTo
        <4>3. CASE \E p \in U : p[1] <= l /\ l <= p[2]
          <5>1. PICK p \in U : p[1] <= l /\ l <= p[2]
            BY <4>3
          <5>2. Added(p) \in regions' /\ t \in Added(p).tasks
                /\ Added(p).first = p[1] /\ p[2] <= Added(p).last
            BY <1>1, <1>11
          <5>3. Added(p).last \in Int /\ p[2] \in Int
            BY <1>3, <1>9, <1>11, ShownFact
          <5>4. Added(p).first <= l /\ l <= Added(p).last
            <6> DEFINE b == p[2]
                       c == Added(p).last
            <6> HIDE DEF b, c
            <6>1. l <= b /\ b <= c /\ b \in Int /\ c \in Int
              BY <5>1, <5>2, <5>3 DEF b, c
            <6>2. l <= c
              BY <6>1, <3>1
            <6>3. QED
              BY <6>2, <5>1, <5>2 DEF c
          <5>5. QED
            BY <5>2, <5>4 DEF ShownTo
        <4>4. QED
          BY <4>1, <4>2, <4>3, <1>9
      <3>4. QED
        BY <3>2, <3>3
    <2>2. QED
      BY <2>1, <1>1, <1>2, <1>14 DEF FocusShown, ShownTo, tasks
  <1>16. ScopeType'
    <2>1. Max({source.length, Len(source.symbols)})'
             = Max({source.length, Len(source.symbols)})
      BY <1>1
    <2>2. QED
      BY <2>1, <1>1, <1>2, <1>6, <1>12 DEF ScopeInv, ScopeType
  <1>17. RoutesShown' /\ RegistrationsShown' /\ UnitsHold'
    BY <1>1, <1>3 DEF RoutesShown, RegistrationsShown, UnitsHold
  <1>18. QED
    BY <1>14, <1>15, <1>16, <1>17 DEF ScopeInv

LEMMA FocusDoneInv ==
    ASSUME ScopeInv, FocusDone
    PROVE  ScopeInv'
  <1>1. /\ stage = "focusing" /\ stage' = "indexing" /\ source' = source /\ queries' = queries
        /\ hits' = hits /\ pending' = pending /\ failed' = failed /\ units' = units
        /\ regions' = regions /\ next' = 1
        /\ FocusTasks = {} \/ next > source.length
    BY DEF FocusDone
  <1>2. Lines' = Lines /\ FinitelyShown' = FinitelyShown
    BY <1>1, SourceKept
  <1>3. /\ source \in Sources /\ units = {}
        /\ next \in 1..Max({source.length, Len(source.symbols)}) + 1
    BY <1>1 DEF ScopeInv, ScopeType, UnitsHold
  <1>4. /\ source.length \in Int /\ 1 <= source.length /\ Len(source.symbols) \in Nat
        /\ DOMAIN source.symbols = 1..Len(source.symbols)
    <2>1. source.symbols \in Seq(Symbol)
      BY <1>3, ScopeAssumption DEF IsSource
    <2>2. QED
      BY <2>1, <1>3, ShownFact
  <1>5. Max({source.length, Len(source.symbols)}) \in Nat
    BY <1>4, MaxOf
  <1>6. HitsShown' /\ FocusTasks' = FocusTasks
    <2>1. Kept(regions, regions')
      BY <1>1, MoreIsKept
    <2>2. QED
      BY <2>1, <1>1, StillShown DEF Located
  <1>7. FocusShown'
    <2>1. ASSUME NEW t \in FocusTasks, NEW l \in Lines
          PROVE  ShownTo(regions, l, t)
      <3>1. l < next
        BY <1>1, <1>3, <1>4, <1>5 DEF Lines
      <3>2. QED
        BY <3>1, <1>1 DEF ScopeInv, FocusShown, Located
    <2>2. QED
      BY <2>1, <1>1, <1>2, <1>6 DEF FocusShown, ShownTo
  <1>8. RoutesShown'
    <2>1. \A i \in DOMAIN source.symbols : ~(i < 1)
      BY <1>4
    <2>2. QED
      BY <2>1, <1>1 DEF RoutesShown
  <1>9. ScopeType'
    <2>1. 1 \in 1..Max({source.length, Len(source.symbols)}) + 1
      BY <1>5
    <2>2. Max({source.length, Len(source.symbols)})'
             = Max({source.length, Len(source.symbols)})
      BY <1>1
    <2>3. QED
      BY <2>1, <2>2, <1>1, <1>2 DEF ScopeInv, ScopeType
  <1>10. RegistrationsShown' /\ UnitsHold'
    BY <1>1, <1>3 DEF RegistrationsShown, UnitsHold
  <1>11. QED
    BY <1>6, <1>7, <1>8, <1>9, <1>10 DEF ScopeInv

(* What is added for a route shows what no region of it showed.              *)
Left(s) ==
    IF s.kind # "route" THEN {}
    ELSE Uncovered(s.first, Min({source.length, RouteEnd(s)}),
                         {r \in regions : ShowsRoute(r, s)})

PiecesOf(L) == UNION {Pieces(p[1], p[2]) : p \in L}

Added(s) ==
    {RegionFromRange(q[1], q[2], s, {}) : q \in PiecesOf(Left(s))}

LEMMA RouteAdded ==
    ASSUME source \in Sources, regions \in FinitelyShown,
           NEW i \in DOMAIN source.symbols, source.symbols[i].kind = "route"
    PROVE  LET s == source.symbols[i] IN
           /\ regions \cup Added(s) \in FinitelyShown
           /\ \A l \in s.first..Min({source.length, RouteEnd(s)}) :
                 ShownAs(regions \cup Added(s), l, s.name)
  <1> DEFINE s == source.symbols[i]
             end == Min({source.length, RouteEnd(s)})
             C == {r \in regions : ShowsRoute(r, s)}
             L == Uncovered(s.first, end, C)
             none == {}
             New(q) == RegionFromRange(q[1], q[2], s, none)
             Q == PiecesOf(L)
             g == [q \in Q |-> New(q)]
  <1>1. /\ s \in Range(source.symbols) /\ s.first \in Int /\ s.last \in Int
        /\ 1 <= s.first /\ s.first <= source.length /\ s.first <= s.last
        /\ RouteEnd(s) = s.last /\ s.kind = "route"
    BY RouteFact
  <1>2. source.length \in Int /\ 1 <= source.length
    BY ShownFact
  <1>3. end \in Int /\ end <= source.length
    BY <1>1, <1>2, MinOf
  <1>4. regions \in SUBSET Shown /\ IsFiniteSet(regions)
    BY DEF FinitelyShown
  <1>5. IsFiniteSet(C) /\ \A r \in C : r.first \in Int /\ r.last \in Int
    <2>1. C \in SUBSET regions /\ \A r \in C : r \in Shown
      BY <1>4
    <2>2. QED
      BY <2>1, <1>4, FS_Subset, ShownFact
  <1>6. Left(s) = L
    BY <1>1 DEF Left
  <1> HIDE DEF L, s, end, C
  <1>7. /\ \A p \in L : /\ p[1] \in Int /\ p[2] \in Int
                        /\ s.first <= p[1] /\ p[1] <= p[2] /\ p[2] <= end
        /\ IsFiniteSet(L)
        /\ \A l \in s.first..end : \/ \E r \in C : Covers(r, l)
                                   \/ \E p \in L : p[1] <= l /\ l <= p[2]
    BY <1>1, <1>3, <1>5, UncoveredFact DEF L
  <1>8. ASSUME NEW p \in L
        PROVE  /\ \A q \in Pieces(p[1], p[2]) :
                     /\ q[1] \in Int /\ q[2] \in Int
                     /\ 1 <= q[1] /\ q[1] <= q[2] /\ q[2] <= source.length
               /\ IsFiniteSet(Pieces(p[1], p[2]))
               /\ \A l \in Int : p[1] <= l /\ l <= p[2] =>
                     \E q \in Pieces(p[1], p[2]) : q[1] <= l /\ l <= q[2]
    <2> DEFINE a == p[1]
               b == p[2]
    <2>1. a \in Int /\ b \in Int /\ 1 <= a /\ b <= source.length
      <3>1. p[1] \in Int /\ p[2] \in Int /\ s.first <= p[1] /\ p[2] <= end
        BY <1>7
      <3>2. QED
        BY <3>1, <1>1, <1>2, <1>3
    <2> HIDE DEF a, b
    <2>2. /\ \A q \in Pieces(a, b) :
                /\ q[1] \in Int /\ q[2] \in Int
                /\ a <= q[1] /\ q[1] <= q[2] /\ q[2] <= b
          /\ IsFiniteSet(Pieces(a, b))
          /\ \A l \in a..b : \E q \in Pieces(a, b) : q[1] <= l /\ l <= q[2]
      BY <2>1, PiecesFact
    <2>3. \A q \in Pieces(a, b) :
             /\ q[1] \in Int /\ q[2] \in Int
             /\ 1 <= q[1] /\ q[1] <= q[2] /\ q[2] <= source.length
      <3> TAKE q \in Pieces(a, b)
      <3> DEFINE c == q[1]
                 d == q[2]
      <3>1. c \in Int /\ d \in Int /\ a <= c /\ c <= d /\ d <= b
        BY <2>2
      <3> HIDE DEF c, d
      <3>2. 1 <= c /\ d <= source.length
        BY <3>1, <2>1, <1>2
      <3>3. QED
        BY <3>1, <3>2 DEF c, d
    <2>4. \A l \in Int : a <= l /\ l <= b => l \in a..b
      BY <2>1
    <2>5. QED
      BY <2>2, <2>3, <2>4 DEF a, b
  <1>9. IsFiniteSet(Q)
    <2> DEFINE P == [p \in L |-> Pieces(p[1], p[2])]
    <2>1. IsFiniteSet({P[p] : p \in DOMAIN P})
      <3>1. IsFiniteSet(DOMAIN P)
        BY <1>7
      <3> HIDE DEF P
      <3> QED BY <3>1, ImageFinite
    <2>2. \A p \in DOMAIN P : IsFiniteSet(P[p])
      BY <1>8
    <2>3. Q = UNION {P[p] : p \in DOMAIN P}
      BY DEF PiecesOf
    <2> HIDE DEF P
    <2>4. \A S \in {P[p] : p \in DOMAIN P} : IsFiniteSet(S)
      BY <2>2
    <2>5. IsFiniteSet(UNION {P[p] : p \in DOMAIN P})
      <3> DEFINE F == {P[p] : p \in DOMAIN P}
      <3> HIDE DEF F
      <3>1. IsFiniteSet(F) /\ \A S \in F : IsFiniteSet(S)
        BY <2>1, <2>4 DEF F
      <3>2. IsFiniteSet(UNION F)
        BY <3>1, FS_UNION
      <3>3. QED
        BY <3>2 DEF F
    <2>6. QED
      BY <2>3, <2>5
  <1>10. \A q \in Q : /\ q[1] \in Int /\ q[2] \in Int
                      /\ 1 <= q[1] /\ q[1] <= q[2] /\ q[2] <= source.length
    BY <1>8 DEF PiecesOf
  <1>11. ASSUME NEW q \in Q
         PROVE  /\ New(q) \in Shown /\ New(q).first <= q[1] /\ q[2] <= New(q).last
                /\ New(q).kind = "route" /\ New(q).anchor = s.name
    <2> DEFINE a == q[1]
               b == q[2]
               r == RegionFromRange(a, b, s, none)
    <2>1. a \in Int /\ b \in Int /\ 1 <= a /\ a <= b /\ b <= source.length /\ a <= source.length
      <3>1. a \in Int /\ b \in Int /\ 1 <= a /\ a <= b /\ b <= source.length
        BY <1>10
      <3> HIDE DEF a, b
      <3> QED BY <3>1, <1>2
    <2>2. s # NoSymbol /\ none \in SUBSET Task
      <3>1. s \in Symbol /\ NoSymbol \notin Symbol
        BY RouteFact, ScopeAssumption DEF s
      <3>2. QED
        BY <3>1
    <2> HIDE DEF a, b, none
    <2>3. /\ r \in Shown /\ (r.first <= a \/ r.first = 1) /\ (b <= source.length => b <= r.last)
          /\ r.kind = s.kind /\ r.anchor = s.name
      BY <2>1, <2>2, <1>1, RegionFact
    <2> HIDE DEF r
    <2>4. r \in Shown /\ r.first <= a /\ b <= r.last /\ r.kind = "route" /\ r.anchor = s.name
      BY <2>1, <2>3, <1>1
    <2>5. QED
      BY <2>4 DEF a, b, r
  <1>12. {New(q) : q \in Q} = Added(s)
    BY <1>6 DEF Added
  <1>13. regions \cup Added(s) \in FinitelyShown
    <2>1. IsFiniteSet({g[q] : q \in DOMAIN g})
      <3>1. IsFiniteSet(DOMAIN g)
        BY <1>9
      <3> HIDE DEF g
      <3> QED BY <3>1, ImageFinite
    <2>2. {g[q] : q \in DOMAIN g} = Added(s)
      BY <1>12
    <2>3. IsFiniteSet(regions \cup Added(s))
      BY <2>1, <2>2, <1>4, FS_Union
    <2>4. Added(s) \in SUBSET Shown
      BY <1>11, <1>12
    <2>5. QED
      BY <2>3, <2>4, <1>4 DEF FinitelyShown
  <1>14. ASSUME NEW l \in s.first..end
         PROVE  ShownAs(regions \cup Added(s), l, s.name)
    <2>1. CASE \E r \in C : Covers(r, l)
      <3>1. PICK r \in C : Covers(r, l)
        BY <2>1
      <3>2. r \in regions /\ r.kind = "route" /\ r.anchor = s.name
        BY DEF C, ShowsRoute
      <3>3. QED
        BY <3>1, <3>2 DEF ShownAs, Covers
    <2>2. CASE \E p \in L : p[1] <= l /\ l <= p[2]
      <3>1. l \in Int
        BY <1>1, <1>3
      <3>2. PICK p \in L : p[1] <= l /\ l <= p[2]
        BY <2>2
      <3>3. PICK q \in Pieces(p[1], p[2]) : q[1] <= l /\ l <= q[2]
        BY <3>1, <3>2, <1>8
      <3>4. q \in Q
        BY DEF PiecesOf
      <3> DEFINE r == New(q)
                 a == q[1]
                 b == q[2]
      <3>5. /\ r \in Shown /\ r.first <= a /\ b <= r.last
            /\ r.kind = "route" /\ r.anchor = s.name /\ r \in Added(s)
            /\ a \in Int /\ b \in Int /\ a <= l /\ l <= b
        BY <3>3, <3>4, <1>10, <1>11, <1>12
      <3> HIDE DEF r, a, b, New
      <3>6. r.first <= l /\ l <= r.last
        <4>1. r.first \in Int /\ r.last \in Int
          BY <3>5, ShownFact
        <4>2. QED
          BY <4>1, <3>1, <3>5
      <3>7. QED
        BY <3>5, <3>6 DEF ShownAs
    <2>3. QED
      BY <2>1, <2>2, <1>7
  <1>15. QED
    BY <1>13, <1>14 DEF s, end

(* A route is shown, or the discovery ends with an error.                    *)
LEMMA AddRouteInv ==
    ASSUME ScopeInv, AddRoute
    PROVE  ScopeInv'
  <1> DEFINE s == source.symbols[next]
             wide == \E p \in Left(s) : p[1]..p[2] \cap source.wide # {}
  <1>1. /\ stage = "indexing" /\ next \in DOMAIN source.symbols
        /\ source' = source /\ queries' = queries /\ hits' = hits
        /\ pending' = pending /\ failed' = failed /\ units' = units
        /\ \/ stage' = "raised" /\ regions' = regions /\ next' = next
           \/ stage' = stage /\ regions' = regions \cup Added(s) /\ next' = next + 1
    <2>1. AddRoute
      OBVIOUS
    <2>2. QED
      BY <2>1 DEF AddRoute, Left, Added, PiecesOf
  <1>2. Lines' = Lines /\ FinitelyShown' = FinitelyShown
    BY <1>1, SourceKept
  <1>3. source \in Sources /\ regions \in FinitelyShown /\ units = {}
    BY <1>1 DEF ScopeInv, ScopeType, UnitsHold
  <1>4. CASE stage' = "raised" /\ regions' = regions /\ next' = next
    <2>1. Max({source.length, Len(source.symbols)})'
             = Max({source.length, Len(source.symbols)})
      BY <1>1
    <2>2. ScopeType'
      BY <2>1, <1>1, <1>2, <1>4 DEF ScopeInv, ScopeType
    <2>3. QED
      BY <2>2, <1>1, <1>3, <1>4, NothingShown DEF Located
  <1>5. CASE stage' = stage /\ regions' = regions \cup Added(s) /\ next' = next + 1
    <2>1. /\ source.length \in Int /\ 1 <= source.length /\ Len(source.symbols) \in Nat
          /\ DOMAIN source.symbols = 1..Len(source.symbols)
      <3>1. source.symbols \in Seq(Symbol)
        BY <1>3, ScopeAssumption DEF IsSource
      <3>2. QED
        BY <3>1, <1>3, ShownFact
    <2>2. Kept(regions, regions')
      BY <1>5, MoreIsKept
    <2>3. /\ HitsShown' /\ FocusShown'
          /\ \A i \in DOMAIN source.symbols :
                source.symbols[i].kind = "route" /\ i < next =>
                    \A l \in source.symbols[i].first
                               ..Min({source.length, RouteEnd(source.symbols[i])}) :
                        ShownAs(regions', l, source.symbols[i].name)
      BY <2>2, <1>1, StillShown DEF Located
    <2>4. s.kind = "route" =>
             /\ regions' \in FinitelyShown
             /\ \A l \in s.first..Min({source.length, RouteEnd(s)}) :
                   ShownAs(regions', l, s.name)
      BY <1>1, <1>3, <1>5, RouteAdded
    <2>5. regions' \in FinitelyShown
      <3>1. s.kind # "route" => regions' = regions
        BY <1>5 DEF Added, Left, PiecesOf
      <3>2. QED
        BY <3>1, <2>4, <1>3
    <2>6. RoutesShown'
      <3>1. ASSUME NEW i \in DOMAIN source.symbols, source.symbols[i].kind = "route",
                   i < next + 1,
                   NEW l \in source.symbols[i].first
                               ..Min({source.length, RouteEnd(source.symbols[i])})
            PROVE  ShownAs(regions', l, source.symbols[i].name)
        <4>1. i < next \/ i = next
          BY <3>1, <2>1, <1>1
        <4>2. QED
          BY <4>1, <3>1, <2>3, <2>4
      <3>2. \A i \in DOMAIN source.symbols :
               source.symbols[i].kind = "route" /\ i < next + 1 =>
                    \A l \in source.symbols[i].first
                               ..Min({source.length, RouteEnd(source.symbols[i])}) :
                        ShownAs(regions', l, source.symbols[i].name)
        BY <3>1
      <3>3. QED
        BY <3>2, <1>1, <1>5 DEF RoutesShown, ShownAs
    <2>7. ScopeType'
      <3>1. Max({source.length, Len(source.symbols)})'
               = Max({source.length, Len(source.symbols)})
        BY <1>1
      <3>2. next + 1 \in 1..Max({source.length, Len(source.symbols)}) + 1
        BY <1>1, <2>1, MaxOf
      <3>3. QED
        BY <3>1, <3>2, <2>5, <1>1, <1>2, <1>5 DEF ScopeInv, ScopeType
    <2>8. RegistrationsShown' /\ UnitsHold'
      BY <1>1, <1>3, <1>5 DEF RegistrationsShown, UnitsHold
    <2>9. QED
      BY <2>3, <2>6, <2>7, <2>8 DEF ScopeInv
  <1>6. QED
    BY <1>1, <1>4, <1>5

(* After the last route, the registrations are shown.                        *)
LEMMA AddRegistrationsInv ==
    ASSUME ScopeInv, AddRegistrations
    PROVE  ScopeInv'
  <1>1. /\ stage = "indexing" /\ stage' = "grouping" /\ next \notin DOMAIN source.symbols
        /\ source' = source /\ queries' = queries /\ hits' = hits /\ next' = next
        /\ pending' = pending /\ failed' = failed /\ units' = units
        /\ regions' = MapThenFoldSet(AddPiece, regions, LAMBDA x : x[2],
                         LastPiece,
                         UNION {{c} \X Pieces(c.first, c.last) : c \in Registrations})
    BY DEF AddRegistrations
  <1>2. /\ Lines' = Lines /\ FinitelyShown' = FinitelyShown
        /\ Registrations' = Registrations
    BY <1>1, SourceKept
  <1>3. /\ source \in Sources /\ regions \in FinitelyShown /\ units = {}
        /\ next \in 1..Max({source.length, Len(source.symbols)}) + 1
    BY <1>1 DEF ScopeInv, ScopeType, UnitsHold
  <1>4. /\ regions' \in FinitelyShown
        /\ regions \subseteq regions'
        /\ \A c \in Registrations : \A l \in c.first..c.last :
              \E r \in regions' : Covers(r, l) /\ r.kind # "route"
    BY <1>1, <1>3, RegistrationsFact
  <1>5. Kept(regions, regions')
    BY <1>4, MoreIsKept
  <1>6. /\ HitsShown' /\ FocusShown'
        /\ \A i \in DOMAIN source.symbols :
              source.symbols[i].kind = "route" /\ i < next =>
                  \A l \in source.symbols[i].first
                             ..Min({source.length, RouteEnd(source.symbols[i])}) :
                      ShownAs(regions', l, source.symbols[i].name)
    BY <1>5, <1>1, StillShown DEF Located
  <1>7. RoutesShown'
    <2>1. \A i \in DOMAIN source.symbols : i < next
      <3>1. /\ source.length \in Int /\ Len(source.symbols) \in Nat
            /\ DOMAIN source.symbols = 1..Len(source.symbols)
        <4>1. source.symbols \in Seq(Symbol)
          BY <1>3, ScopeAssumption DEF IsSource
        <4>2. QED
          BY <4>1, <1>3, ShownFact
      <3>2. Max({source.length, Len(source.symbols)}) \in Int
        BY <3>1, MaxOf
      <3>3. QED
        BY <3>1, <3>2, <1>1, <1>3
    <2>2. \A i \in DOMAIN source.symbols :
             source.symbols[i].kind = "route" =>
                  \A l \in source.symbols[i].first
                             ..Min({source.length, RouteEnd(source.symbols[i])}) :
                      ShownAs(regions', l, source.symbols[i].name)
      BY <2>1, <1>6
    <2>3. QED
      BY <2>2, <1>1 DEF RoutesShown, ShownAs
  <1>8. RegistrationsShown'
    BY <1>2, <1>4 DEF RegistrationsShown, ShownApart, Covers
  <1>9. ScopeType'
    <2>1. Max({source.length, Len(source.symbols)})'
             = Max({source.length, Len(source.symbols)})
      BY <1>1
    <2>2. QED
      BY <2>1, <1>1, <1>2, <1>3, <1>4 DEF ScopeInv, ScopeType
  <1>10. UnitsHold'
    BY <1>1, <1>3 DEF UnitsHold
  <1>11. QED
    BY <1>6, <1>7, <1>8, <1>9, <1>10 DEF ScopeInv

(* The units hold the regions, or a region holds more than a batch.          *)
LEMMA MakeUnitsInv ==
    ASSUME ScopeInv, MakeUnits
    PROVE  ScopeInv'
  <1> DEFINE all == GraphUnits \cup RegionUnits
  <1>1. /\ stage = "grouping" /\ regions' = regions /\ next' = next
        /\ source' = source /\ queries' = queries /\ hits' = hits
        /\ pending' = pending /\ failed' = failed
        /\ \/ stage' = "raised" /\ units' = units
           \/ /\ ~ \E r \in Unmatched : Size(r) > BatchSize
              /\ stage' = "ready" /\ units' = all
    BY DEF MakeUnits
  <1>2. Lines' = Lines /\ FinitelyShown' = FinitelyShown
    BY <1>1, SourceKept
  <1>3. source \in Sources /\ regions \in FinitelyShown /\ units = {}
    BY <1>1 DEF ScopeInv, ScopeType, UnitsHold
  <1>4. ScopeType'
    <2>1. Max({source.length, Len(source.symbols)})'
             = Max({source.length, Len(source.symbols)})
      BY <1>1
    <2>2. QED
      BY <2>1, <1>1, <1>2 DEF ScopeInv, ScopeType
  <1>5. CASE stage' = "raised" /\ units' = units
    BY <1>3, <1>4, <1>5, NothingShown DEF Located
  <1>6. CASE /\ ~ \E r \in Unmatched : Size(r) > BatchSize
             /\ stage' = "ready" /\ units' = all
    <2>1. AllFit
      <3>1. \A r \in Unmatched : Size(r) \in Int /\ BatchSize \in Int
        <4>1. \A r \in Unmatched : r \in Shown
          BY <1>3 DEF Unmatched, FinitelyShown
        <4>2. \A r \in Shown : Size(r) \in Int
          BY <1>3, ShownFact DEF Size
        <4>3. QED
          BY <4>1, <4>2, ScopeAssumption
      <3>2. QED
        BY <3>1, <1>6 DEF AllFit
    <2>2. Kept(regions, regions')
      BY <1>1, MoreIsKept
    <2>3. /\ HitsShown' /\ FocusShown' /\ RegistrationsShown'
          /\ \A i \in DOMAIN source.symbols :
                source.symbols[i].kind = "route" =>
                    \A l \in source.symbols[i].first
                               ..Min({source.length, RouteEnd(source.symbols[i])}) :
                        ShownAs(regions', l, source.symbols[i].name)
      BY <2>2, <1>1, StillShown DEF Located
    <2>4. RoutesShown'
      BY <2>3, <1>1 DEF RoutesShown, ShownAs
    <2>5. \A r \in regions : \E u : {v \in all : r \in v.members} = {u}
      BY <2>1, <1>3, OneUnit
    <2>6. ASSUME NEW u \in all
          PROVE  LET siblings == {v \in all : v.surface = u.surface} IN
                 /\ u.members \subseteq regions /\ u.count \in Nat /\ u.index \in 1..u.count
                 /\ Cardinality(u.members) <= BatchSlices
                 /\ SizeOf(u.members) <= BatchSize
                 /\ Cardinality(siblings) = u.count
                 /\ \A v \in siblings : v.count = u.count /\ (v.index = u.index => v = u)
      BY <2>1, <1>3, Siblings
    <2> HIDE DEF all
    <2>7. UnitsHold'
      <3>1. InOneUnit'
        BY <2>5, <1>1, <1>6 DEF InOneUnit
      <3>2. \A u \in units' : UnitHolds(u)'
        BY <2>6, <1>1, <1>6 DEF UnitHolds
      <3>3. QED
        BY <3>1, <3>2, <1>6 DEF UnitsHold
    <2>8. QED
      BY <1>4, <2>3, <2>4, <2>7 DEF ScopeInv
  <1>7. QED
    BY <1>1, <1>5, <1>6

LEMMA ScopeInitInv == ScopeInit => ScopeInv
  <1> SUFFICES ASSUME ScopeInit  PROVE ScopeInv
    OBVIOUS
  <1>1. /\ source \in Sources /\ queries = {} /\ pending = {} /\ failed = FALSE
        /\ hits = [l \in Lines |-> {}]
        /\ regions = {} /\ next = 1 /\ units = {} /\ stage = "planning"
    BY DEF ScopeInit, Lines
  <1>2. {} \in FinitelyShown
    BY FS_EmptySet DEF FinitelyShown
  <1>3. 1 \in 1..Max({source.length, Len(source.symbols)}) + 1
    <2>1. source.length \in Int /\ 1 <= source.length
      BY <1>1, ShownFact
    <2>2. Len(source.symbols) \in Nat
      BY <1>1, ScopeAssumption DEF IsSource
    <2>3. QED
      BY <2>1, <2>2, MaxOf
  <1>4. ScopeType
    BY <1>1, <1>2, <1>3 DEF ScopeType
  <1>5. HitsShown /\ FocusShown /\ RoutesShown /\ RegistrationsShown /\ UnitsHold
    BY <1>1 DEF HitsShown, FocusShown, RoutesShown, RegistrationsShown, UnitsHold, Located
  <1>6. QED
    BY <1>4, <1>5 DEF ScopeInv

LEMMA ScopeStutter ==
    ASSUME ScopeInv, UNCHANGED scopeVars
    PROVE  ScopeInv'
  <1>1. /\ source' = source /\ queries' = queries /\ pending' = pending /\ hits' = hits
        /\ failed' = failed /\ regions' = regions /\ next' = next /\ units' = units
        /\ stage' = stage
    BY DEF scopeVars
  <1>2. /\ Lines' = Lines /\ FinitelyShown' = FinitelyShown
        /\ Registrations' = Registrations
    BY <1>1, SourceKept
  <1>3. FocusTasks' = FocusTasks
    BY <1>1, <1>2 DEF FocusTasks, TasksWithHits
  <1>4. ScopeType'
    <2>1. Max({source.length, Len(source.symbols)})'
             = Max({source.length, Len(source.symbols)})
      BY <1>1
    <2>2. QED
      BY <2>1, <1>1, <1>2 DEF ScopeInv, ScopeType
  <1>5. HitsShown' /\ FocusShown'
    BY <1>1, <1>2, <1>3 DEF ScopeInv, HitsShown, FocusShown, ShownTo
  <1>6. RoutesShown' /\ RegistrationsShown'
    BY <1>1, <1>2 DEF ScopeInv, RoutesShown, RegistrationsShown, ShownAs, ShownApart
  <1>7. UnitsHold'
    BY <1>1 DEF ScopeInv, UnitsHold, InOneUnit, UnitHolds
  <1>8. QED
    BY <1>4, <1>5, <1>6, <1>7 DEF ScopeInv

LEMMA ScopeNextInv == ScopeInv /\ [ScopeNext]_scopeVars => ScopeInv'
  <1> SUFFICES ASSUME ScopeInv, [ScopeNext]_scopeVars  PROVE ScopeInv'
    OBVIOUS
  <1>1. CASE PlanSearches
    BY <1>1, PlanSearchesInv
  <1>2. CASE \E terms \in pending : Search(terms) \/ SearchFails(terms)
    BY <1>2, SearchInv
  <1>3. CASE MakeRegions
    BY <1>3, MakeRegionsInv
  <1>4. CASE FocusSegment
    BY <1>4, FocusSegmentInv
  <1>5. CASE FocusDone
    BY <1>5, FocusDoneInv
  <1>6. CASE AddRoute
    BY <1>6, AddRouteInv
  <1>7. CASE AddRegistrations
    BY <1>7, AddRegistrationsInv
  <1>8. CASE MakeUnits
    BY <1>8, MakeUnitsInv
  <1>9. CASE UNCHANGED scopeVars
    BY <1>9, ScopeStutter
  <1>10. QED
    BY <1>1, <1>2, <1>3, <1>4, <1>5, <1>6, <1>7, <1>8, <1>9 DEF ScopeNext

LEMMA ScopeInvariance == ScopeSpec => []ScopeInv
  <1>1. ScopeInit => ScopeInv
    BY ScopeInitInv
  <1>2. ScopeInv /\ [ScopeNext]_scopeVars => ScopeInv'
    BY ScopeNextInv
  <1>3. QED
    BY <1>1, <1>2, PTL DEF ScopeSpec

(* The variables of the discovery's scope stay in their types, for any files *)
(* and search plans: regions have their lines in order and within the file   *)
(* (_region_from_range), and units hold regions of it.                       *)
THEOREM ScopeTypeCorrect == ScopeSpec => []ScopeTypeOK
  <1>1. ScopeInv => ScopeTypeOK
    <2> SUFFICES ASSUME ScopeInv  PROVE ScopeTypeOK
      OBVIOUS
    <2>1. regions \subseteq SourceRegion /\ \A r \in regions : r.first <= r.last
      BY DEF ScopeInv, ScopeType, FinitelyShown, Shown
    <2>2. \A u \in units : u.members \subseteq regions /\ u.index \in 1..u.count
      BY DEF ScopeInv, UnitsHold, UnitHolds
    <2>3. QED
      BY <2>1, <2>2 DEF ScopeInv, ScopeType, ScopeTypeOK
  <1>2. QED
    BY <1>1, ScopeInvariance, PTL

LEMMA InAUnit ==
    ASSUME ScopeInv, stage = "ready", NEW r \in regions
    PROVE  \E u \in units : r \in u.members
  <1>1. PICK u : {v \in units : r \in v.members} = {u}
    BY DEF ScopeInv, UnitsHold, InOneUnit
  <1>2. QED
    BY <1>1

(* What a task asks of a region that was found for it and is in its focus.   *)
LEMMA WantedIsAsked ==
    ASSUME NEW r, NEW t, t \in r.tasks, InFocus(t, r),
           ~ (r.kind = "route" /\ r.anchor \notin Names[t])
    PROVE  t \in Requirements(r)
  <1>1. t \in RelevantTasks(r)
    <2> DEFINE selected == IF r.tasks = {} THEN Task ELSE r.tasks
    <2>1. t \in selected
      OBVIOUS
    <2> HIDE DEF selected
    <2>2. r.kind = "route" => t \in {x \in selected : r.anchor \in Names[x]}
      BY <2>1
    <2>3. t \in {x \in selected : InFocus(x, r)}
      BY <2>1
    <2>4. RelevantTasks(r) = IF r.kind = "route" THEN {x \in selected : r.anchor \in Names[x]}
                                   ELSE {x \in selected : InFocus(x, r)}
      BY DEF RelevantTasks, selected
    <2>5. QED
      BY <2>2, <2>3, <2>4
  <1>2. QED
    BY <1>1 DEF Requirements

(* A line that a search of a task hit is reviewed in a unit that knows the   *)
(* task, whatever was clipped, merged, joined or cut on the way, for any     *)
(* searches, files and limits; in the task's focus, the unit is asked what   *)
(* the task asks, but for routes that the task does not name.                *)
THEOREM HitsHold == ScopeSpec => []HitsReviewed
  <1>1. ScopeInv => HitsReviewed
    <2> SUFFICES ASSUME ScopeInv, stage = "ready", NEW l \in Lines, NEW t \in hits[l]
                 PROVE  \E u \in units : \E r \in u.members :
                           /\ Covers(r, l) /\ t \in r.tasks
                           /\ \/ ~InFocus(t, [first |-> l, last |-> l])
                              \/ t \in Asks(u)
                              \/ r.kind = "route" /\ r.anchor \notin Names[t]
      BY DEF HitsReviewed
    <2>1. source \in Sources /\ regions \in SUBSET Shown
      BY DEF ScopeInv, ScopeType, FinitelyShown
    <2>2. ShownTo(regions, l, t)
      BY DEF ScopeInv, HitsShown, Located
    <2>3. PICK r \in regions : r.first <= l /\ l <= r.last /\ t \in r.tasks
      BY <2>2 DEF ShownTo
    <2>4. PICK u \in units : r \in u.members
      BY InAUnit
    <2>5. Covers(r, l)
      BY <2>3 DEF Covers
    <2>6. ASSUME InFocus(t, [first |-> l, last |-> l]),
                 ~ (r.kind = "route" /\ r.anchor \notin Names[t])
          PROVE  t \in Asks(u)
      <3>1. /\ r.first \in Int /\ r.last \in Int /\ r.tasks \subseteq Task /\ l \in Int
        <4>1. r \in Shown /\ source.length \in Int
          BY <2>1, ShownFact
        <4>2. QED
          BY <4>1, <2>1, ShownFact DEF Lines
      <3>2. FocusLines[t] \cap l..l # {} => FocusLines[t] \cap r.first..r.last # {}
        <4>1. \A k \in l..l : k \in r.first..r.last
          BY <3>1, <2>3
        <4>2. QED
          BY <4>1
      <3>3. InFocus(t, r)
        BY <2>6, <3>2 DEF InFocus
      <3>4. t \in Requirements(r)
        BY <3>1, <3>3, <2>3, <2>6, WantedIsAsked
      <3>5. QED
        BY <3>4, <2>4 DEF Asks
    <2>7. QED
      BY <2>3, <2>4, <2>5, <2>6
  <1>2. QED
    BY <1>1, ScopeInvariance, PTL

(* Every line of an indexed route is reviewed as that route and every line   *)
(* of a registration other than as a part of a route, whatever the searches  *)
(* found or failed to find, for any routes and nested registrations.         *)
THEOREM SurfacesHold == ScopeSpec => []SurfacesReviewed
  <1>1. ScopeInv => SurfacesReviewed
    <2> SUFFICES ASSUME ScopeInv, stage = "ready"  PROVE SurfacesReviewed
      BY DEF SurfacesReviewed
    <2>1. ASSUME NEW s \in Routes,
                 NEW l \in s.first..Min({source.length, RouteEnd(s)})
          PROVE  \E u \in units : \E r \in u.members :
                    Covers(r, l) /\ r.kind = "route" /\ r.anchor = s.name
      <3>1. PICK i \in DOMAIN source.symbols : source.symbols[i] = s /\ s.kind = "route"
        BY DEF Routes, Range
      <3>2. ShownAs(regions, l, s.name)
        BY <2>1, <3>1 DEF ScopeInv, RoutesShown
      <3>3. PICK r \in regions : /\ r.first <= l /\ l <= r.last
                                 /\ r.kind = "route" /\ r.anchor = s.name
        BY <3>2 DEF ShownAs
      <3>4. PICK u \in units : r \in u.members
        BY InAUnit
      <3>5. QED
        BY <3>3, <3>4 DEF Covers
    <2>2. ASSUME NEW c \in Registrations, NEW l \in c.first..c.last
          PROVE  \E u \in units : \E r \in u.members : Covers(r, l) /\ r.kind # "route"
      <3>1. ShownApart(regions, l)
        BY <2>2 DEF ScopeInv, RegistrationsShown
      <3>2. PICK r \in regions : r.first <= l /\ l <= r.last /\ r.kind # "route"
        BY <3>1 DEF ShownApart
      <3>3. PICK u \in units : r \in u.members
        BY InAUnit
      <3>4. QED
        BY <3>2, <3>3 DEF Covers
    <2>3. QED
      BY <2>1, <2>2 DEF SurfacesReviewed, Reviewed
  <1>2. QED
    BY <1>1, ScopeInvariance, PTL

(* A task that no search hit, as of a query that failed, has every line of   *)
(* its file reviewed in a unit that knows it, for segments of any size.      *)
THEOREM FocusHolds == ScopeSpec => []FocusReviewed
  <1>1. ScopeInv => FocusReviewed
    <2> SUFFICES ASSUME ScopeInv, stage = "ready"  PROVE FocusReviewed
      BY DEF FocusReviewed
    <2>1. ASSUME NEW t \in FocusFile \ TasksWithHits, NEW l \in Lines
          PROVE  \E u \in units : \E r \in u.members : Covers(r, l) /\ t \in r.tasks
      <3>1. ShownTo(regions, l, t)
        BY <2>1 DEF ScopeInv, FocusShown, Located, FocusTasks
      <3>2. PICK r \in regions : r.first <= l /\ l <= r.last /\ t \in r.tasks
        BY <3>1 DEF ShownTo
      <3>3. PICK u \in units : r \in u.members
        BY InAUnit
      <3>4. QED
        BY <3>2, <3>3 DEF Covers
    <2>2. QED
      BY <2>1 DEF FocusReviewed, Reviewed
  <1>2. QED
    BY <1>1, ScopeInvariance, PTL

(* No region is lost or reviewed twice on the way to the units, none of them *)
(* is beyond what a batch holds, and the batches that a unit counts of its   *)
(* surface are all there, once, for any number of regions and any limits.    *)
THEOREM PartitionHolds == ScopeSpec => []UnitsPartition
  <1>1. ScopeInv => UnitsPartition
    <2> SUFFICES ASSUME ScopeInv  PROVE UnitsPartition
      OBVIOUS
    <2>1. ASSUME stage = "ready", NEW r \in regions
          PROVE  Cardinality({u \in units : r \in u.members}) = 1
      <3>1. PICK u : {v \in units : r \in v.members} = {u}
        BY <2>1 DEF ScopeInv, UnitsHold, InOneUnit
      <3>2. Cardinality({u}) = 1
        BY FS_Singleton
      <3>3. QED
        BY <3>1, <3>2
    <2>2. \A u \in units : UnitHolds(u)
      BY DEF ScopeInv, UnitsHold
    <2>3. QED
      BY <2>1, <2>2 DEF UnitsPartition, UnitHolds
  <1>2. QED
    BY <1>1, ScopeInvariance, PTL


(* What Discovery assumes of its plans holds of the units: whichever of them *)
(* are analyzed, there are no more of one surface than its units count       *)
(* (batch_count), so that those that are missing can be told.                *)
THEOREM PlansAreCounted ==
    ScopeSpec => [](\A U \in SUBSET units : \A u \in units :
                       Cardinality({v \in U : v.surface = u.surface}) <= u.count)
  <1> DEFINE Counted == \A U \in SUBSET units : \A u \in units :
                           Cardinality({v \in U : v.surface = u.surface}) <= u.count
  <1>1. ScopeInv => Counted
    <2> SUFFICES ASSUME ScopeInv, NEW U \in SUBSET units, NEW u \in units
                 PROVE  Cardinality({v \in U : v.surface = u.surface}) <= u.count
      OBVIOUS
    <2> DEFINE S == {v \in U : v.surface = u.surface}
               n == u.count
               f == [v \in S |-> v.index]
    <2>1. \A v \in units : UnitHolds(v)
      BY DEF ScopeInv, UnitsHold
    <2>2. \A v \in S : v \in units /\ v.surface = u.surface /\ v.count = n /\ v.index \in 1..n
      BY <2>1 DEF UnitHolds
    <2>3. ASSUME NEW v \in S, NEW w \in S, v.index = w.index  PROVE v = w
      BY <2>1, <2>2, <2>3 DEF UnitHolds
    <2>4. n \in Nat
      BY <2>1 DEF UnitHolds
    <2>5. f \in Injection(S, 1..n)
      <3>1. f \in [S -> 1..n]
        BY <2>2
      <3>2. \A v, w \in S : f[v] = f[w] => v = w
        BY <2>3
      <3>3. QED
        BY <3>1, <3>2 DEF Injection, IsInjective
    <2>6. IsFiniteSet(1..n) /\ Cardinality(1..n) = n
      BY <2>4, FS_Interval
    <2> HIDE DEF S, n, f
    <2>7. Cardinality(S) <= n
      BY <2>5, <2>6, FS_Injection DEF ExistsInjection
    <2>8. QED
      BY <2>7 DEF S, n
  <1>2. QED
    BY <1>1, ScopeInvariance, PTL

================================================================================
