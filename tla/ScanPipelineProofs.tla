--------------------------- MODULE ScanPipelineProofs ---------------------------
(*****************************************************************************)
(* Theorems about ScanPipeline, for any number of candidates, fingerprints,  *)
(* scans and failures, and any budget of deep reviews and of workers.        *)
(*****************************************************************************)
EXTENDS ScanPipeline, FiniteSetTheorems, TLAPS

Active == {"waiting", "hunting", "judged"}
Closing == {"persist", "record", "over"}

(* A review on file is the answer of the candidate it names.                 *)
ReviewsAnswered ==
    \A f \in Fingerprint : reviews[f] # None =>
        /\ answer[reviews[f].of] = reviews[f].outcome
        /\ FpOf[reviews[f].of] = f

(* A candidate is under review in a round only, and a failure is counted.    *)
ReviewsPlaced ==
    \A c \in Cand :
        /\ at[c] \in Active => pc = "review" /\ c \in queue
        /\ at[c] = "judged" => answer[c] \in {"supported", "unsupported"}
        /\ at[c] = "failed" => "review" \in failed

(* What the index knows of waits for the next round or was in one.           *)
SeenPlaced ==
    /\ \A c \in seen : c \in todo \/ at[c] # "out"
    /\ pc \in {"review", "consolidate", "conclude"} \cup Closing => todo = {}

(* Without a failure there is a plan and an answer of discovery, and the     *)
(* sweeps of the last round are on file when the next one is decided on.     *)
StagesFiled ==
    failed = {} =>
        /\ pc \notin {"idle", "discovery"} => planned /\ stage[<<"discovery", {}>>] = "done"
        /\ pc \in {"route", "chain", "consolidate", "conclude"} \cup Closing /\ verified # {} =>
               OnFile("variants", verified) # {}
        /\ pc \in {"route", "consolidate", "conclude"} \cup Closing /\ verified # {} =>
               OnFile("chain", verified) # {}

(* What is reported, and stored, of a scan agrees with its failures.         *)
ReportAgrees ==
    /\ pc = "discovery" => verified = {}
    /\ pc \in Closing => report.findings = findings
    /\ pc \in Closing /\ (report.decision = "PASS" \/ report.status = "SUCCESSFUL") => failed = {}
    /\ pc \notin {"idle", "record", "over"} => row.status # "SUCCESSFUL"
    /\ pc \in {"record", "over"} /\ row.status = "SUCCESSFUL" =>
           failed = {} /\ row.findings = FingerprintsOf({f[1] : f \in findings})
    /\ pc = "over" /\ report.status = "SUCCESSFUL" => row.status = "SUCCESSFUL"

IInv ==
    /\ TypeOK
    /\ ReviewsAnswered
    /\ FindingsSupported
    /\ ReviewsPlaced
    /\ SeenPlaced
    /\ StagesFiled
    /\ ReportAgrees

--------------------------------------------------------------------------------
(* Facts about the operators                                                 *)

Discovery == <<"discovery", {}>>

LEMMA StageNames ==
    /\ Discovery \in Stage
    /\ \A kind \in {"variants", "chain", "consolidation"}, S \in SUBSET Cand : <<kind, S>> \in Stage
  <1>1. Discovery \in Stage
    <2>1. Discovery \in {<<"discovery", {}>>}
      BY DEF Discovery
    <2>2. QED
      BY <2>1 DEF Stage
  <1>2. ASSUME NEW kind \in {"variants", "chain", "consolidation"}, NEW S \in SUBSET Cand
        PROVE  <<kind, S>> \in Stage
    <2>1. <<kind, S>> \in {"variants", "chain", "consolidation"} \X (SUBSET Cand)
      OBVIOUS
    <2>2. QED
      BY <2>1 DEF Stage
  <1>3. QED
    BY <1>1, <1>2

LEMMA FaultType ==
    ASSUME TypeOK, Fault
    PROVE  faults' \in 0..MaxFaults /\ trouble' = TRUE
  BY ConstantsAssumption DEF TypeOK, Fault

(* What a stage answered completely stays, and it fails only if it counts.   *)
LEMMA StagesKeep ==
    ASSUME TypeOK, NEW s \in Stage, NEW S \in SUBSET Cand, NEW counter \in Required,
           Stages(s, S, counter)
    PROVE  /\ stage' \in [Stage -> {"new", "pending", "rejected", "done"}]
           /\ found' \in [Stage -> SUBSET Cand]
           /\ failed' \subseteq Required /\ failed \subseteq failed'
           /\ faults' \in 0..MaxFaults /\ trouble' \in BOOLEAN
           /\ \A x \in Stage : stage[x] = "done" => stage'[x] = "done"
           /\ failed' = {} => stage'[s] = "done"
  <1>1. /\ stage \in [Stage -> {"new", "pending", "rejected", "done"}]
        /\ found \in [Stage -> SUBSET Cand] /\ failed \subseteq Required
        /\ faults \in 0..MaxFaults /\ trouble \in BOOLEAN
    BY DEF TypeOK
  <1>2. CASE Replay(s, S, counter)
    BY <1>1, <1>2 DEF Replay
  <1>3. CASE Ask(s, S, counter)
    <2>1. PICK status \in {"done", "pending", "rejected"} :
             /\ stage' = [stage EXCEPT ![s] = status]
             /\ failed' = IF status = "done" THEN failed ELSE failed \cup {counter}
             /\ IF status = "done" THEN UNCHANGED <<trouble, faults>> ELSE Fault
      BY <1>3 DEF Ask
    <2>2. stage[s] # "done" /\ found' = [found EXCEPT ![s] = S]
      BY <1>3 DEF Ask
    <2>3. faults' \in 0..MaxFaults /\ trouble' \in BOOLEAN
      BY <1>1, <2>1, FaultType
    <2>4. QED
      BY <1>1, <2>1, <2>2, <2>3
  <1>4. QED
    BY <1>2, <1>3 DEF Stages

(* A sweep that is on file stays on file.                                    *)
LEMMA OnFileKeeps ==
    ASSUME \A x \in Stage : stage[x] = "done" => stage'[x] = "done",
           NEW kind, OnFile(kind, verified) # {}, verified' = verified
    PROVE  OnFile(kind, verified)' # {}
  <1>1. PICK x \in Stage : x[1] = kind /\ stage[x] = "done"
                           /\ FingerprintsOf(x[2]) = FingerprintsOf(verified)
    BY DEF OnFile
  <1>2. x \in OnFile(kind, verified)'
    BY <1>1 DEF OnFile, FingerprintsOf
  <1>3. QED
    BY <1>2

LEMMA InitInv == Init => IInv
  <1> SUFFICES ASSUME Init  PROVE IInv
    OBVIOUS
  <1>1. TypeOK
    <2>1. /\ row \in [status : {"none", "RUNNING", "SUCCESSFUL", "UNSUCCESSFUL"},
                      findings : SUBSET Fingerprint]
          /\ report \in [status : {"none", "SUCCESSFUL", "UNSUCCESSFUL"},
                         decision : {"none", "PASS", "WARN", "BLOCK", "INCOMPLETE"},
                         findings : SUBSET (Cand \X Cand), gaps : SUBSET Required]
      BY DEF Init, NoRow, NoReport
    <2>2. run \in 0..MaxRuns /\ faults \in 0..MaxFaults /\ deepUsed \in Nat
      BY ConstantsAssumption DEF Init
    <2>3. /\ answer \in [Cand -> {None, "supported", "unsupported", "rejected"}]
          /\ reviews \in [Fingerprint -> ReviewRecord \cup {None}]
          /\ at \in [Cand -> ReviewStep] /\ tier \in [Cand -> {"none", "standard", "deep"}]
          /\ stage \in [Stage -> {"new", "pending", "rejected", "done"}]
          /\ found \in [Stage -> SUBSET Cand]
      BY DEF Init, ReviewStep, Disposed
    <2>4. QED
      BY <2>1, <2>2, <2>3 DEF Init, TypeOK
  <1>2. ReviewsAnswered /\ FindingsSupported /\ ReviewsPlaced /\ SeenPlaced
    BY DEF Init, ReviewsAnswered, FindingsSupported, ReviewsPlaced, SeenPlaced, Active, Closing
  <1>3. StagesFiled /\ ReportAgrees
    BY DEF Init, StagesFiled, ReportAgrees, Closing
  <1>4. QED
    BY <1>1, <1>2, <1>3 DEF IInv

(* A process begins or ends: only what is on disk remains.                   *)
LEMMA FreshInv ==
    ASSUME NewRun,
           stage' \in [Stage -> {"new", "pending", "rejected", "done"}],
           found' \in [Stage -> SUBSET Cand],
           answer' \in [Cand -> {None, "supported", "unsupported", "rejected"}],
           asking' \subseteq Cand, reviews' \in [Fingerprint -> ReviewRecord \cup {None}],
           ReviewsAnswered',
           row' \in [status : {"none", "RUNNING", "SUCCESSFUL", "UNSUCCESSFUL"},
                     findings : SUBSET Fingerprint],
           run' \in 0..MaxRuns, indexed' \in BOOLEAN, trouble' \in BOOLEAN,
           faults' \in 0..MaxFaults,
           pc' = "idle" \/ (pc' = "discovery" /\ row'.status # "SUCCESSFUL")
    PROVE  IInv'
  <1>1. TypeOK'
    BY DEF NewRun, TypeOK, NoReport, ReviewStep, Disposed, Required
  <1>2. FindingsSupported' /\ ReviewsPlaced' /\ SeenPlaced'
    BY DEF NewRun, FindingsSupported, ReviewsPlaced, SeenPlaced, Active, Closing
  <1>3. StagesFiled' /\ ReportAgrees'
    BY DEF NewRun, StagesFiled, ReportAgrees, Closing
  <1>4. QED
    BY <1>1, <1>2, <1>3 DEF IInv

LEMMA StartInv ==
    ASSUME IInv, NEW sameScope \in BOOLEAN, NEW stored \in BOOLEAN, Start(sameScope, stored)
    PROVE  IInv'
  <1>1. /\ NewRun /\ pc' = "discovery" /\ run' = run + 1 /\ run < MaxRuns /\ indexed' = stored
        /\ trouble' = ~stored /\ faults' <= MaxFaults
        /\ faults' = IF stored THEN faults ELSE faults + 1
        /\ row' = IF stored THEN [NoRow EXCEPT !.status = "RUNNING"] ELSE NoRow
    BY DEF Start
  <1>2. /\ run' \in 0..MaxRuns /\ faults' \in 0..MaxFaults /\ trouble' \in BOOLEAN
        /\ indexed' \in BOOLEAN
    BY <1>1, ConstantsAssumption DEF IInv, TypeOK
  <1>3. /\ row' \in [status : {"none", "RUNNING", "SUCCESSFUL", "UNSUCCESSFUL"},
                     findings : SUBSET Fingerprint]
        /\ row'.status # "SUCCESSFUL"
    BY <1>1 DEF NoRow
  <1>4. /\ stage' \in [Stage -> {"new", "pending", "rejected", "done"}]
        /\ found' \in [Stage -> SUBSET Cand]
        /\ answer' \in [Cand -> {None, "supported", "unsupported", "rejected"}]
        /\ asking' \subseteq Cand /\ reviews' \in [Fingerprint -> ReviewRecord \cup {None}]
        /\ ReviewsAnswered'
    <2>1. CASE sameScope
      BY <2>1 DEF Start, IInv, TypeOK, ReviewsAnswered, disk
    <2>2. CASE ~sameScope
      BY <2>2 DEF Start, ReviewsAnswered
    <2>3. QED
      BY <2>1, <2>2
  <1>5. QED
    BY <1>1, <1>2, <1>3, <1>4, FreshInv

LEMMA StopInv ==
    ASSUME IInv, Crash \/ Exit
    PROVE  IInv'
  <1>1. /\ NewRun /\ pc' = "idle"
        /\ UNCHANGED <<stage, found, answer, asking, reviews, row, run, indexed>>
    BY DEF Crash, Exit, disk
  <1>2. faults' \in 0..MaxFaults /\ trouble' \in BOOLEAN
    BY FaultType DEF Crash, Exit, IInv, TypeOK
  <1>3. QED
    BY <1>1, <1>2, FreshInv DEF IInv, TypeOK, ReviewsAnswered

--------------------------------------------------------------------------------
(* The reviews of a round                                                    *)

(* An answer that settles a candidate is never replaced.                     *)
LEMMA AnswersKeep ==
    ASSUME ReviewsAnswered, reviews \in [Fingerprint -> ReviewRecord \cup {None}],
           reviews' = reviews,
           \A d \in Cand : answer[d] \in {"supported", "unsupported"} => answer'[d] = answer[d]
    PROVE  ReviewsAnswered'
  <1> SUFFICES ASSUME NEW f \in Fingerprint, reviews[f] # None
               PROVE  answer'[reviews[f].of] = reviews[f].outcome /\ FpOf[reviews[f].of] = f
    BY DEF ReviewsAnswered
  <1>1. reviews[f] \in ReviewRecord
    OBVIOUS
  <1>2. reviews[f].of \in Cand /\ reviews[f].outcome \in {"supported", "unsupported"}
    BY <1>1 DEF ReviewRecord
  <1>3. QED
    BY <1>2 DEF ReviewsAnswered

(* One review goes on: the rest of the scan waits.                           *)
LEMMA ReviewMoves ==
    ASSUME IInv, NEW c \in Cand, at[c] \in Active,
           NEW place \in ReviewStep \ {"out"}, at' = [at EXCEPT ![c] = place],
           place = "judged" => answer'[c] \in {"supported", "unsupported"},
           place = "failed" => "review" \in failed',
           failed' \subseteq Required, failed \subseteq failed',
           answer' \in [Cand -> {None, "supported", "unsupported", "rejected"}],
           \A d \in Cand : answer[d] \in {"supported", "unsupported"} => answer'[d] = answer[d],
           asking' \subseteq Cand, reviews' \in [Fingerprint -> ReviewRecord \cup {None}],
           ReviewsAnswered', findings' \subseteq Cand \X Cand, FindingsSupported',
           verified' \subseteq Cand, faults' \in 0..MaxFaults, trouble' \in BOOLEAN,
           UNCHANGED reviewUnchanged
    PROVE  IInv'
  <1>1. pc = "review" /\ c \in queue
    BY DEF IInv, ReviewsPlaced
  <1>2. /\ stage' = stage /\ found' = found /\ planned' = planned /\ queue' = queue
        /\ todo' = todo /\ seen' = seen /\ tier' = tier /\ deepUsed' = deepUsed /\ row' = row
        /\ run' = run /\ pc' = pc /\ indexed' = indexed /\ report' = report
    BY DEF reviewUnchanged
  <1>3. at \in [Cand -> ReviewStep]
    BY DEF IInv, TypeOK
  <1>4. at' \in [Cand -> ReviewStep] /\ \A d \in Cand : at'[d] = IF d = c THEN place ELSE at[d]
    BY <1>3
  <1>5. TypeOK'
    BY <1>2, <1>4 DEF IInv, TypeOK
  <1>6. ReviewsPlaced'
    <2> SUFFICES ASSUME NEW d \in Cand
                 PROVE  /\ at'[d] \in Active => pc = "review" /\ d \in queue
                        /\ at'[d] = "judged" => answer'[d] \in {"supported", "unsupported"}
                        /\ at'[d] = "failed" => "review" \in failed'
      BY <1>2 DEF ReviewsPlaced
    <2>1. CASE d = c
      BY <1>1, <1>4, <2>1
    <2>2. CASE d # c
      BY <1>4, <2>2 DEF IInv, ReviewsPlaced
    <2>3. QED
      BY <2>1, <2>2
  <1>7. SeenPlaced'
    <2>1. seen \subseteq Cand
      BY DEF IInv, TypeOK
    <2>2. QED
      BY <1>2, <1>4, <2>1 DEF IInv, SeenPlaced
  <1>8. StagesFiled'
    BY <1>1, <1>2 DEF IInv, StagesFiled, Closing
  <1>9. ReportAgrees'
    BY <1>1, <1>2 DEF IInv, ReportAgrees, Closing
  <1>10. QED
    BY <1>5, <1>6, <1>7, <1>8, <1>9 DEF IInv

(* A candidate is disposed of as a review of its fingerprint says.           *)
LEMMA DisposeInv ==
    ASSUME IInv, NEW c \in Cand, at[c] \in Active, NEW of \in Cand,
           NEW outcome \in {"supported", "unsupported"},
           Dispose(c, outcome, of), answer[of] = outcome, FpOf[of] = FpOf[c],
           reviews' \in [Fingerprint -> ReviewRecord \cup {None}], ReviewsAnswered',
           UNCHANGED <<answer, asking, failed, trouble, faults, reviewUnchanged>>
    PROVE  IInv'
  <1>1. /\ answer' = answer /\ asking' = asking /\ failed' = failed /\ trouble' = trouble
        /\ faults' = faults /\ UNCHANGED reviewUnchanged
    OBVIOUS
  <1>2. at' = [at EXCEPT ![c] = outcome]
    BY DEF Dispose, Step
  <1>3. outcome \in ReviewStep \ {"out"} /\ outcome \notin {"judged", "failed"}
    BY DEF ReviewStep, Disposed
  <1>4. findings \subseteq Cand \X Cand /\ verified \subseteq Cand
    BY DEF IInv, TypeOK
  <1>5. /\ findings' \subseteq Cand \X Cand /\ verified' \subseteq Cand
        /\ FindingsSupported'
    <2>1. CASE outcome = "supported"
      <3>1. findings' = findings \cup {<<c, of>>} /\ verified' = verified \cup {c}
        BY <2>1 DEF Dispose
      <3>2. \A f \in findings' : answer[f[2]] = "supported" /\ FpOf[f[2]] = FpOf[f[1]]
        <4> SUFFICES ASSUME NEW f \in findings'
                     PROVE  answer[f[2]] = "supported" /\ FpOf[f[2]] = FpOf[f[1]]
          OBVIOUS
        <4>1. CASE f \in findings
          BY <4>1 DEF IInv, FindingsSupported
        <4>2. CASE f = <<c, of>>
          BY <4>2, <2>1
        <4>3. QED
          BY <3>1, <4>1, <4>2
      <3>3. QED
        BY <1>1, <1>4, <3>1, <3>2 DEF FindingsSupported
    <2>2. CASE outcome # "supported"
      <3>1. findings' = findings /\ verified' = verified
        BY <2>2 DEF Dispose
      <3>2. QED
        BY <1>1, <1>4, <3>1 DEF IInv, FindingsSupported
    <2>3. QED
      BY <2>1, <2>2
  <1>6. /\ answer \in [Cand -> {None, "supported", "unsupported", "rejected"}]
        /\ asking \subseteq Cand /\ failed \subseteq Required
        /\ faults \in 0..MaxFaults /\ trouble \in BOOLEAN
    BY DEF IInv, TypeOK
  <1>7. QED
    BY <1>1, <1>2, <1>3, <1>5, <1>6, ReviewMoves

LEMMA LookUpInv ==
    ASSUME IInv, NEW c \in Cand, LookUp(c)
    PROVE  IInv'
  <1> DEFINE saved == reviews[FpOf[c]]
  <1>1. /\ at[c] \in Active
        /\ answer' = answer /\ asking' = asking /\ reviews' = reviews /\ failed' = failed
        /\ trouble' = trouble /\ faults' = faults /\ UNCHANGED reviewUnchanged
    BY DEF LookUp, Active
  <1>2. /\ answer \in [Cand -> {None, "supported", "unsupported", "rejected"}]
        /\ reviews \in [Fingerprint -> ReviewRecord \cup {None}]
        /\ asking \subseteq Cand /\ failed \subseteq Required
        /\ findings \subseteq Cand \X Cand /\ verified \subseteq Cand
        /\ faults \in 0..MaxFaults /\ trouble \in BOOLEAN
    BY DEF IInv, TypeOK
  <1>3. ReviewsAnswered'
    BY <1>1, <1>2, AnswersKeep DEF IInv
  <1>4. CASE saved = None
    <2>1. at' = [at EXCEPT ![c] = "hunting"] /\ findings' = findings /\ verified' = verified
      BY <1>4 DEF LookUp, Step
    <2>2. FindingsSupported'
      BY <1>1, <2>1 DEF IInv, FindingsSupported
    <2>3. "hunting" \in ReviewStep \ {"out"}
      BY DEF ReviewStep
    <2>4. QED
      BY <1>1, <1>2, <1>3, <2>1, <2>2, <2>3, ReviewMoves
  <1>5. CASE saved # None
    <2>1. FpOf[c] \in Fingerprint
      BY ConstantsAssumption
    <2>2. saved \in ReviewRecord
      BY <1>2, <1>5, <2>1
    <2>3. saved.of \in Cand /\ saved.outcome \in {"supported", "unsupported"}
      BY <2>2 DEF ReviewRecord
    <2>4. answer[saved.of] = saved.outcome /\ FpOf[saved.of] = FpOf[c]
      BY <1>5, <2>1 DEF IInv, ReviewsAnswered
    <2>5. Dispose(c, saved.outcome, saved.of)
      BY <1>5 DEF LookUp
    <2> HIDE DEF saved
    <2>6. QED
      BY <1>1, <1>2, <1>3, <2>3, <2>4, <2>5, DisposeInv
  <1>6. QED
    BY <1>4, <1>5

LEMMA HuntFailsInv ==
    ASSUME IInv, NEW c \in Cand, HuntFails(c)
    PROVE  IInv'
  <1>1. /\ at[c] \in Active /\ at' = [at EXCEPT ![c] = "failed"]
        /\ failed' = failed \cup {"review"}
        /\ reviews' = reviews /\ findings' = findings /\ verified' = verified
        /\ UNCHANGED reviewUnchanged
    BY DEF HuntFails, Active, Step, Counts
  <1>2. /\ answer \in [Cand -> {None, "supported", "unsupported", "rejected"}]
        /\ reviews \in [Fingerprint -> ReviewRecord \cup {None}]
        /\ asking \subseteq Cand /\ failed \subseteq Required
        /\ findings \subseteq Cand \X Cand /\ verified \subseteq Cand
        /\ faults \in 0..MaxFaults /\ trouble \in BOOLEAN
    BY DEF IInv, TypeOK
  <1>3. /\ answer' \in [Cand -> {None, "supported", "unsupported", "rejected"}]
        /\ asking' \subseteq Cand /\ faults' \in 0..MaxFaults /\ trouble' \in BOOLEAN
        /\ \A d \in Cand : answer[d] \in {"supported", "unsupported"} => answer'[d] = answer[d]
    <2>1. CASE answer[c] = None /\ asking' = asking \cup {c} /\ Fault /\ UNCHANGED answer
      BY <1>2, <2>1, FaultType DEF IInv
    <2>2. CASE answer[c] = None /\ answer' = [answer EXCEPT ![c] = "rejected"] /\ Fault
               /\ UNCHANGED asking
      <3>1. faults' \in 0..MaxFaults /\ trouble' \in BOOLEAN
        BY <2>2, FaultType DEF IInv
      <3>2. answer[c] \notin {"supported", "unsupported"}
        BY <2>2, NoneAssumption
      <3>3. QED
        BY <1>2, <2>2, <3>1, <3>2
    <2>3. CASE answer[c] = "rejected" /\ UNCHANGED <<answer, asking, trouble, faults>>
      BY <1>2, <2>3
    <2>4. QED
      BY <2>1, <2>2, <2>3 DEF HuntFails
  <1>4. ReviewsAnswered'
    BY <1>1, <1>2, <1>3, AnswersKeep DEF IInv
  <1>5. FindingsSupported'
    <2>1. \A f \in findings : f[2] \in Cand
      BY <1>2
    <2>2. QED
      BY <1>1, <1>3, <2>1 DEF IInv, FindingsSupported
  <1>6. /\ "failed" \in ReviewStep \ {"out"} /\ failed' \subseteq Required
    BY <1>1, <1>2 DEF ReviewStep, Disposed, Required
  <1>7. QED
    BY <1>1, <1>2, <1>3, <1>4, <1>5, <1>6, ReviewMoves

LEMMA HuntedInv ==
    ASSUME IInv, NEW c \in Cand, NEW outcome \in {"supported", "unsupported"},
           NEW final \in SUBSET asking, Hunted(c, outcome, final)
    PROVE  IInv'
  <1>1. /\ at[c] \in Active /\ at' = [at EXCEPT ![c] = "judged"]
        /\ answer[c] \in {None, outcome} /\ answer' = [answer EXCEPT ![c] = outcome]
        /\ reviews' = reviews /\ findings' = findings /\ verified' = verified
        /\ failed' = failed /\ trouble' = trouble /\ faults' = faults
        /\ UNCHANGED reviewUnchanged
    BY DEF Hunted, Active, Step
  <1>2. /\ answer \in [Cand -> {None, "supported", "unsupported", "rejected"}]
        /\ reviews \in [Fingerprint -> ReviewRecord \cup {None}]
        /\ asking \subseteq Cand /\ failed \subseteq Required
        /\ findings \subseteq Cand \X Cand /\ verified \subseteq Cand
        /\ faults \in 0..MaxFaults /\ trouble \in BOOLEAN
    BY DEF IInv, TypeOK
  <1>3. asking' \subseteq Cand
    BY <1>2 DEF Hunted
  <1>4. /\ answer' \in [Cand -> {None, "supported", "unsupported", "rejected"}]
        /\ answer'[c] \in {"supported", "unsupported"}
        /\ \A d \in Cand : answer[d] \in {"supported", "unsupported"} => answer'[d] = answer[d]
    <2>1. answer[c] \in {"supported", "unsupported"} => answer[c] = outcome
      BY <1>1, NoneAssumption
    <2>2. QED
      BY <1>1, <1>2, <2>1
  <1>5. ReviewsAnswered'
    BY <1>1, <1>2, <1>4, AnswersKeep DEF IInv
  <1>6. FindingsSupported'
    <2>1. \A f \in findings : f[2] \in Cand
      BY <1>2
    <2>2. QED
      BY <1>1, <1>4, <2>1 DEF IInv, FindingsSupported
  <1>7. "judged" \in ReviewStep \ {"out"}
    BY DEF ReviewStep
  <1>8. QED
    BY <1>1, <1>2, <1>3, <1>4, <1>5, <1>6, <1>7, ReviewMoves

LEMMA FileInv ==
    ASSUME IInv, NEW c \in Cand, File(c)
    PROVE  IInv'
  <1> DEFINE record == [of |-> c, outcome |-> answer[c]]
  <1>1. /\ at[c] = "judged" /\ reviews' = [reviews EXCEPT ![FpOf[c]] = record]
        /\ Dispose(c, answer[c], c)
        /\ answer' = answer
        /\ UNCHANGED <<answer, asking, failed, trouble, faults, reviewUnchanged>>
    BY DEF File
  <1>2. answer[c] \in {"supported", "unsupported"} /\ at[c] \in Active
    BY <1>1 DEF IInv, ReviewsPlaced, Active
  <1>3. /\ record \in ReviewRecord /\ record.of = c /\ record.outcome = answer[c]
    BY <1>2 DEF ReviewRecord
  <1> HIDE DEF record
  <1>4. reviews \in [Fingerprint -> ReviewRecord \cup {None}] /\ FpOf[c] \in Fingerprint
    BY ConstantsAssumption DEF IInv, TypeOK
  <1>5. reviews' \in [Fingerprint -> ReviewRecord \cup {None}]
    BY <1>1, <1>3, <1>4
  <1>6. ReviewsAnswered'
    <2> SUFFICES ASSUME NEW f \in Fingerprint, reviews'[f] # None
                 PROVE  answer[reviews'[f].of] = reviews'[f].outcome /\ FpOf[reviews'[f].of] = f
      BY <1>1 DEF ReviewsAnswered
    <2>1. CASE f = FpOf[c]
      <3>1. reviews'[f] = record
        BY <1>1, <1>4, <2>1
      <3>2. QED
        BY <1>3, <2>1, <3>1
    <2>2. CASE f # FpOf[c]
      <3>1. reviews'[f] = reviews[f]
        BY <1>1, <1>4, <2>2
      <3>2. QED
        BY <3>1 DEF IInv, ReviewsAnswered
    <2>3. QED
      BY <2>1, <2>2
  <1>7. QED
    BY <1>1, <1>2, <1>5, <1>6, DisposeInv

--------------------------------------------------------------------------------
(* The rounds and the stages                                                 *)

(* Steps outside the reviews, but for what they say of stages and reports.   *)
LEMMA MoveInv ==
    ASSUME IInv,
           UNCHANGED <<answer, asking, reviews, run, at, tier, deepUsed, indexed, queue>>,
           stage' \in [Stage -> {"new", "pending", "rejected", "done"}],
           found' \in [Stage -> SUBSET Cand],
           row' \in [status : {"none", "RUNNING", "SUCCESSFUL", "UNSUCCESSFUL"},
                     findings : SUBSET Fingerprint],
           report' \in [status : {"none", "SUCCESSFUL", "UNSUCCESSFUL"},
                        decision : {"none", "PASS", "WARN", "BLOCK", "INCOMPLETE"},
                        findings : SUBSET (Cand \X Cand), gaps : SUBSET Required],
           failed' \subseteq Required, failed \subseteq failed',
           faults' \in 0..MaxFaults, trouble' \in BOOLEAN, planned' \in BOOLEAN,
           todo' \subseteq Cand, seen' \subseteq Cand, verified' \subseteq Cand,
           findings' \subseteq findings,
           pc' \in {"route", "variants", "chain", "consolidate", "conclude"} \cup Closing,
           pc = "review" => \A c \in queue : at[c] \in Disposed,
           SeenPlaced', StagesFiled', ReportAgrees'
    PROVE  IInv'
  <1>1. /\ answer' = answer /\ asking' = asking /\ reviews' = reviews /\ run' = run /\ at' = at
        /\ tier' = tier /\ deepUsed' = deepUsed /\ indexed' = indexed /\ queue' = queue
    OBVIOUS
  <1>2. TypeOK'
    BY <1>1 DEF IInv, TypeOK, Closing
  <1>3. ReviewsAnswered' /\ FindingsSupported'
    BY <1>1 DEF IInv, ReviewsAnswered, FindingsSupported
  <1>4. ReviewsPlaced'
    <2> SUFFICES ASSUME NEW c \in Cand
                 PROVE  /\ at[c] \notin Active
                        /\ at[c] = "failed" => "review" \in failed'
      BY <1>1 DEF ReviewsPlaced, Active
    <2>1. CASE at[c] \in Active
      <3>1. pc = "review" /\ c \in queue
        BY <2>1 DEF IInv, ReviewsPlaced
      <3>2. QED
        BY <2>1, <3>1 DEF Active, Disposed
    <2>2. CASE at[c] \notin Active
      BY <2>2 DEF IInv, ReviewsPlaced
    <2>3. QED
      BY <2>1, <2>2
  <1>5. QED
    BY <1>2, <1>3, <1>4 DEF IInv

LEMMA StartRoundInv ==
    ASSUME IInv, NEW chosen \in SUBSET Deep, StartRound(chosen)
    PROVE  IInv'
  <1>1. /\ pc = "route" /\ pc' = "review" /\ queue' = todo /\ todo' = {} /\ verified' = {}
        /\ deepUsed' = deepUsed + Cardinality(chosen)
        /\ at' = [c \in Cand |-> IF c \in todo THEN "waiting" ELSE at[c]]
        /\ tier' = [c \in Cand |-> IF c \notin todo THEN tier[c]
                                   ELSE IF c \in chosen THEN "deep" ELSE "standard"]
        /\ planned' = planned /\ seen' = seen /\ findings' = findings /\ failed' = failed
        /\ row' = row /\ run' = run /\ indexed' = indexed /\ trouble' = trouble
        /\ faults' = faults /\ report' = report
    BY DEF StartRound
  <1>2. UNCHANGED <<stage, found, answer, asking, reviews>>
    BY DEF StartRound, disk
  <1>3. Cardinality(chosen) \in Nat
    <2>1. chosen \subseteq Cand /\ IsFiniteSet(Cand)
      BY ConstantsAssumption
    <2>2. IsFiniteSet(chosen)
      BY <2>1, FS_Subset
    <2>3. QED
      BY <2>2, FS_CardinalityType
  <1>4. todo \subseteq Cand /\ at \in [Cand -> ReviewStep]
        /\ tier \in [Cand -> {"none", "standard", "deep"}]
        /\ seen \subseteq Cand /\ deepUsed \in Nat
    BY DEF IInv, TypeOK
  <1>5. at' \in [Cand -> ReviewStep] /\ tier' \in [Cand -> {"none", "standard", "deep"}]
        /\ deepUsed' \in Nat
    BY <1>1, <1>3, <1>4 DEF ReviewStep
  <1>6. TypeOK'
    BY <1>1, <1>2, <1>4, <1>5 DEF IInv, TypeOK
  <1>7. ReviewsAnswered' /\ FindingsSupported'
    BY <1>1, <1>2 DEF IInv, ReviewsAnswered, FindingsSupported
  <1>8. ReviewsPlaced'
    <2> SUFFICES ASSUME NEW c \in Cand
                 PROVE  /\ at'[c] \in Active => c \in todo
                        /\ at'[c] = "judged" => answer[c] \in {"supported", "unsupported"}
                        /\ at'[c] = "failed" => "review" \in failed
      BY <1>1, <1>2 DEF ReviewsPlaced
    <2>1. CASE c \in todo
      BY <1>1, <2>1
    <2>2. CASE c \notin todo
      <3>1. at'[c] = at[c]
        BY <1>1, <2>2
      <3>2. QED
        BY <1>1, <3>1 DEF IInv, ReviewsPlaced, Active
    <2>3. QED
      BY <2>1, <2>2
  <1>9. SeenPlaced'
    <2>1. \A c \in seen : at'[c] # "out"
      <3> SUFFICES ASSUME NEW c \in seen  PROVE at'[c] # "out"
        OBVIOUS
      <3>1. c \in Cand
        BY <1>4
      <3>2. CASE c \in todo
        BY <1>1, <3>1, <3>2
      <3>3. CASE c \notin todo
        BY <1>1, <3>1, <3>3 DEF IInv, SeenPlaced
      <3>4. QED
        BY <3>2, <3>3
    <2>2. QED
      BY <1>1, <2>1 DEF SeenPlaced
  <1>10. StagesFiled' /\ ReportAgrees'
    BY <1>1, <1>2 DEF IInv, StagesFiled, ReportAgrees, Closing
  <1>11. QED
    BY <1>6, <1>7, <1>8, <1>9, <1>10 DEF IInv

LEMMA RoundsInv ==
    ASSUME IInv, AllRoundsDone \/ RoundDone
    PROVE  IInv'
  <1>1. /\ UNCHANGED <<stage, found, answer, asking, reviews, planned, queue, todo, at, seen, tier,
                       deepUsed, findings, verified, failed, row, run, indexed, trouble, faults,
                       report>>
        /\ pc = "review" => \A c \in queue : at[c] \in Disposed
    BY DEF AllRoundsDone, RoundDone, disk, process
  <1>2. \/ pc = "route" /\ todo = {} /\ pc' = "consolidate"
        \/ pc = "review" /\ pc' = IF planned /\ verified # {} THEN "variants" ELSE "route"
    BY DEF AllRoundsDone, RoundDone
  <1>3. /\ stage' = stage /\ found' = found /\ planned' = planned /\ todo' = todo /\ at' = at
        /\ seen' = seen /\ findings' = findings /\ verified' = verified /\ failed' = failed
        /\ row' = row /\ report' = report
    BY <1>1
  <1>4. SeenPlaced'
    BY <1>2, <1>3 DEF IInv, SeenPlaced, Closing
  <1>5. StagesFiled'
    <2>1. \A kind : OnFile(kind, verified)' = OnFile(kind, verified)
      BY <1>3 DEF OnFile, FingerprintsOf
    <2>2. CASE pc = "route"
      BY <1>2, <1>3, <2>1, <2>2 DEF IInv, StagesFiled, Closing
    <2>3. CASE pc = "review"
      BY <1>2, <1>3, <2>3 DEF IInv, StagesFiled, Closing
    <2>4. QED
      BY <1>2, <2>2, <2>3
  <1>6. ReportAgrees'
    BY <1>2, <1>3 DEF IInv, ReportAgrees, Closing
  <1>7. QED
    BY <1>1, <1>2, <1>4, <1>5, <1>6, MoveInv DEF IInv, TypeOK

LEMMA DiscoveryInv ==
    ASSUME IInv,
           \/ DiscoveryRaises
           \/ \E S \in SUBSET Reportable["discovery"] : \E kept \in SUBSET S : Discover(S, kept)
    PROVE  IInv'
  <1>1. CASE DiscoveryRaises
    <2>1. /\ pc = "discovery" /\ pc' = "route" /\ planned' \in BOOLEAN
          /\ failed' = failed \cup {"context", "planning"} /\ Fault
          /\ stage' = stage \/ stage' = [stage EXCEPT ![<<"discovery", {}>>] = "pending"]
          /\ UNCHANGED <<found, answer, asking, reviews, queue, todo, at, seen, tier, deepUsed,
                         findings, verified, row, run, indexed, report>>
      BY <1>1 DEF DiscoveryRaises
    <2>2. faults' \in 0..MaxFaults /\ trouble' \in BOOLEAN
      BY <2>1, FaultType DEF IInv
    <2>3. stage' \in [Stage -> {"new", "pending", "rejected", "done"}]
      BY <2>1 DEF IInv, TypeOK
    <2>4. failed' \subseteq Required /\ failed \subseteq failed' /\ failed' # {}
      BY <2>1 DEF IInv, TypeOK, Required
    <2>5. SeenPlaced' /\ StagesFiled'
      BY <2>1, <2>4 DEF IInv, SeenPlaced, StagesFiled, Closing
    <2>6. ReportAgrees'
      BY <2>1 DEF IInv, ReportAgrees, Closing
    <2>7. QED
      BY <2>1, <2>2, <2>3, <2>4, <2>5, <2>6, MoveInv DEF IInv, TypeOK
  <1>2. ASSUME NEW S \in SUBSET Reportable["discovery"], NEW kept \in SUBSET S, Discover(S, kept)
        PROVE  IInv'
    <2>1. /\ pc = "discovery" /\ pc' = "route" /\ planned' = TRUE
          /\ Stages(Discovery, S, "discovery")
          /\ todo' = todo \cup kept /\ seen' = seen \cup kept
          /\ UNCHANGED <<answer, asking, reviews, queue, at, tier, deepUsed, findings, verified,
                         row, run, indexed, report>>
      BY <1>2 DEF Discover, Admit, Discovery
    <2>2. S \in SUBSET Cand /\ "discovery" \in Required /\ Discovery \in Stage
      BY ConstantsAssumption, StageNames DEF Required
    <2>3. /\ stage' \in [Stage -> {"new", "pending", "rejected", "done"}]
          /\ found' \in [Stage -> SUBSET Cand]
          /\ failed' \subseteq Required /\ failed \subseteq failed'
          /\ faults' \in 0..MaxFaults /\ trouble' \in BOOLEAN
          /\ failed' = {} => stage'[Discovery] = "done"
      BY <2>1, <2>2, StagesKeep DEF IInv
    <2>4. /\ todo' \subseteq Cand /\ seen' \subseteq Cand /\ verified = {}
      BY <2>1, <2>2 DEF IInv, TypeOK, ReportAgrees
    <2>5. SeenPlaced'
      BY <2>1 DEF IInv, SeenPlaced, Closing
    <2>6. StagesFiled'
      BY <2>1, <2>3, <2>4 DEF StagesFiled, Closing, Discovery
    <2>7. ReportAgrees'
      BY <2>1 DEF IInv, ReportAgrees, Closing
    <2>8. QED
      BY <2>1, <2>3, <2>4, <2>5, <2>6, <2>7, MoveInv DEF IInv, TypeOK
  <1>3. QED
    BY <1>1, <1>2

LEMMA SweepInv ==
    ASSUME IInv, NEW kind, NEW next, NEW S \in SUBSET Reportable[kind], NEW kept \in SUBSET S,
           Sweep(kind, next, S, kept),
           \/ kind = "variants" /\ next = "chain"
           \/ kind = "chain" /\ next = "route"
    PROVE  IInv'
  <1>1. /\ pc = kind /\ pc' = next
        /\ todo' = todo \cup kept /\ seen' = seen \cup kept
        /\ UNCHANGED <<answer, asking, reviews, planned, queue, at, tier, deepUsed, findings,
                       verified, row, run, indexed, report>>
    BY DEF Sweep, Admitted, Admit
  <1>2. S \in SUBSET Cand /\ verified \in SUBSET Cand
    BY ConstantsAssumption DEF IInv, TypeOK
  <1>3. /\ stage' \in [Stage -> {"new", "pending", "rejected", "done"}]
        /\ found' \in [Stage -> SUBSET Cand]
        /\ failed' \subseteq Required /\ failed \subseteq failed'
        /\ faults' \in 0..MaxFaults /\ trouble' \in BOOLEAN
        /\ \A x \in Stage : stage[x] = "done" => stage'[x] = "done"
        /\ failed' = {} => OnFile(kind, verified)' # {}
    <2>1. CASE OnFile(kind, verified) # {}
      <3>1. UNCHANGED <<stage, found, failed, trouble, faults>>
        BY <2>1 DEF Sweep
      <3>2. \A x \in Stage : stage[x] = "done" => stage'[x] = "done"
        BY <3>1
      <3>3. verified' = verified
        BY <1>1
      <3>4. OnFile(kind, verified)' # {}
        BY <2>1, <3>2, <3>3, OnFileKeeps
      <3>5. QED
        BY <3>1, <3>2, <3>4 DEF IInv, TypeOK
    <2>2. CASE OnFile(kind, verified) = {}
      <3> DEFINE s == <<kind, verified>>
      <3>1. Stages(s, S, kind)
        BY <2>2 DEF Sweep
      <3>2. s \in Stage /\ kind \in Required
        BY <1>2, StageNames DEF Required
      <3>3. s[1] = kind /\ s[2] = verified
        OBVIOUS
      <3> HIDE DEF s
      <3>4. failed' = {} => s \in OnFile(kind, verified)'
        <4>1. failed' = {} => stage'[s] = "done"
          BY <1>2, <3>1, <3>2, StagesKeep DEF IInv
        <4>2. verified' = verified
          BY <1>1
        <4>3. QED
          BY <3>2, <3>3, <4>1, <4>2 DEF OnFile, FingerprintsOf
      <3>5. QED
        BY <1>2, <3>1, <3>2, <3>4, StagesKeep DEF IInv
    <2>3. QED
      BY <2>1, <2>2
  <1>4. todo' \subseteq Cand /\ seen' \subseteq Cand
    BY <1>1, <1>2 DEF IInv, TypeOK
  <1>5. SeenPlaced'
    BY <1>1 DEF IInv, SeenPlaced, Closing
  <1>6. StagesFiled'
    <2> SUFFICES ASSUME failed' = {}
                 PROVE  /\ planned /\ stage'[Discovery] = "done"
                        /\ kind = "chain" /\ verified # {} => OnFile("variants", verified)' # {}
                        /\ OnFile(kind, verified)' # {}
      BY <1>1 DEF StagesFiled, Closing, Discovery
    <2>1. failed = {}
      BY <1>3
    <2>2. planned /\ stage[Discovery] = "done"
      BY <1>1, <2>1 DEF IInv, StagesFiled, Discovery
    <2>3. stage'[Discovery] = "done"
      BY <1>3, <2>2, StageNames
    <2>4. ASSUME kind = "chain", verified # {}
          PROVE  OnFile("variants", verified)' # {}
      <3>1. OnFile("variants", verified) # {}
        BY <1>1, <2>1, <2>4 DEF IInv, StagesFiled
      <3>2. verified' = verified
        BY <1>1
      <3>3. QED
        BY <1>3, <3>1, <3>2, OnFileKeeps
    <2>5. QED
      BY <1>3, <2>2, <2>3, <2>4
  <1>7. ReportAgrees'
    BY <1>1 DEF IInv, ReportAgrees, Closing
  <1>8. QED
    BY <1>1, <1>2, <1>3, <1>4, <1>5, <1>6, <1>7, MoveInv DEF IInv, TypeOK

LEMMA ConsolidateInv ==
    ASSUME IInv, NEW primary \in SUBSET Cand, Consolidate(primary)
    PROVE  IInv'
  <1> DEFINE s == <<"consolidation", {f[1] : f \in findings}>>
  <1>1. UNCHANGED <<answer, asking, reviews, planned, queue, todo, at, seen, tier, deepUsed,
                       verified, row, run, indexed, report>>
    BY DEF Consolidate
  <1>2. /\ pc = "consolidate" /\ pc' = "conclude"
    BY DEF Consolidate
  <1>3. findings \subseteq Cand \X Cand
    BY DEF IInv, TypeOK
  <1>4. s \in Stage /\ "consolidation" \in Required
    <2>1. {f[1] : f \in findings} \in SUBSET Cand
      BY <1>3
    <2>2. QED
      BY <2>1, StageNames DEF Required
  <1>5. /\ \/ UNCHANGED <<stage, found, failed, trouble, faults>>
           \/ Stages(s, primary, "consolidation")
        /\ findings' \subseteq findings
    BY DEF Consolidate
  <1> HIDE DEF s
  <1>6. /\ stage' \in [Stage -> {"new", "pending", "rejected", "done"}]
        /\ found' \in [Stage -> SUBSET Cand]
        /\ failed' \subseteq Required /\ failed \subseteq failed'
        /\ faults' \in 0..MaxFaults /\ trouble' \in BOOLEAN
        /\ \A x \in Stage : stage[x] = "done" => stage'[x] = "done"
    <2>1. CASE UNCHANGED <<stage, found, failed, trouble, faults>>
      BY <2>1 DEF IInv, TypeOK
    <2>2. CASE Stages(s, primary, "consolidation")
      BY <1>4, <2>2, StagesKeep DEF IInv
    <2>3. QED
      BY <1>5, <2>1, <2>2
  <1>7. SeenPlaced'
    BY <1>1, <1>2 DEF IInv, SeenPlaced, Closing
  <1>8. StagesFiled'
    <2> SUFFICES ASSUME failed' = {}
                 PROVE  /\ planned /\ stage'[Discovery] = "done"
                        /\ verified # {} => /\ OnFile("variants", verified)' # {}
                                            /\ OnFile("chain", verified)' # {}
      BY <1>1 DEF StagesFiled, Discovery
    <2>1. failed = {} /\ verified' = verified
      BY <1>1, <1>6
    <2>2. /\ planned /\ stage[Discovery] = "done"
          /\ verified # {} => OnFile("variants", verified) # {} /\ OnFile("chain", verified) # {}
      BY <1>2, <2>1 DEF IInv, StagesFiled, Discovery
    <2>3. stage'[Discovery] = "done"
      BY <1>6, <2>2, StageNames
    <2>4. verified # {} => OnFile("variants", verified)' # {} /\ OnFile("chain", verified)' # {}
      BY <1>6, <2>1, <2>2, OnFileKeeps
    <2>5. QED
      BY <2>2, <2>3, <2>4
  <1>9. ReportAgrees'
    BY <1>1, <1>2 DEF IInv, ReportAgrees, Closing
  <1>10. QED
    BY <1>1, <1>2, <1>5, <1>6, <1>7, <1>8, <1>9, MoveInv DEF IInv, TypeOK

--------------------------------------------------------------------------------
(* The result                                                                *)

LEMMA SavedType ==
    ASSUME TypeOK
    PROVE  Saved \in [status : {"none", "RUNNING", "SUCCESSFUL", "UNSUCCESSFUL"},
                      findings : SUBSET Fingerprint]
  <1>1. report.status \in {"none", "SUCCESSFUL", "UNSUCCESSFUL"}
        /\ findings \subseteq Cand \X Cand
    BY DEF TypeOK
  <1>2. FingerprintsOf({f[1] : f \in findings}) \subseteq Fingerprint
    BY <1>1, ConstantsAssumption DEF FingerprintsOf
  <1>3. QED
    BY <1>1, <1>2 DEF Saved

LEMMA ConcludeInv ==
    ASSUME IInv, Conclude
    PROVE  IInv'
  <1> DEFINE status == IF ScanIncomplete \/ PendingUnits # {} \/ ~indexed
                       THEN "UNSUCCESSFUL" ELSE "SUCCESSFUL"
             decision == IF ScanIncomplete /\ Evaluated(findings) = "PASS"
                         THEN "INCOMPLETE" ELSE Evaluated(findings)
  <1>1. /\ pc = "conclude"
        /\ report' = [status |-> status, decision |-> decision, findings |-> findings,
                      gaps |-> failed]
        /\ pc' = IF indexed THEN "persist" ELSE "over"
        /\ UNCHANGED <<stage, found, answer, asking, reviews, planned, queue, todo, at, seen, tier,
                       deepUsed, findings, verified, failed, row, run, indexed, trouble, faults>>
    BY DEF Conclude, disk, process
  <1>2. /\ status \in {"SUCCESSFUL", "UNSUCCESSFUL"}
        /\ decision \in {"PASS", "WARN", "BLOCK", "INCOMPLETE"}
        /\ status = "SUCCESSFUL" => ~ScanIncomplete /\ indexed
        /\ decision = "PASS" => ~ScanIncomplete
    BY DEF Evaluated
  <1>3. ~ScanIncomplete => failed = {}
    BY DEF ScanIncomplete, IInv, TypeOK
  <1> HIDE DEF status, decision
  <1>4. /\ report'.status = status /\ report'.decision = decision /\ report'.findings = findings
    BY <1>1
  <1>5. report' \in [status : {"none", "SUCCESSFUL", "UNSUCCESSFUL"},
                     decision : {"none", "PASS", "WARN", "BLOCK", "INCOMPLETE"},
                     findings : SUBSET (Cand \X Cand), gaps : SUBSET Required]
    BY <1>1, <1>2 DEF IInv, TypeOK
  <1>6. SeenPlaced'
    BY <1>1 DEF IInv, SeenPlaced, Closing
  <1>7. StagesFiled'
    <2>1. \A kind : OnFile(kind, verified)' = OnFile(kind, verified)
      BY <1>1 DEF OnFile, FingerprintsOf
    <2>2. QED
      BY <1>1, <2>1 DEF IInv, StagesFiled, Closing
  <1>8. ReportAgrees'
    BY <1>1, <1>2, <1>3, <1>4 DEF IInv, ReportAgrees, Closing
  <1>9. QED
    BY <1>1, <1>5, <1>6, <1>7, <1>8, MoveInv DEF IInv, TypeOK, Closing

(* The last steps of a scan leave all but the row and the report alone.      *)
LEMMA CloseInv ==
    ASSUME IInv, pc \in {"persist", "record"}, pc' \in {"record", "over"},
           UNCHANGED <<disk, process, run, indexed>>,
           faults' \in 0..MaxFaults, trouble' \in BOOLEAN,
           row' \in [status : {"none", "RUNNING", "SUCCESSFUL", "UNSUCCESSFUL"},
                     findings : SUBSET Fingerprint],
           report' \in [status : {"none", "SUCCESSFUL", "UNSUCCESSFUL"},
                        decision : {"none", "PASS", "WARN", "BLOCK", "INCOMPLETE"},
                        findings : SUBSET (Cand \X Cand), gaps : SUBSET Required],
           report'.findings = report.findings, report'.decision = report.decision,
           report'.status = "SUCCESSFUL" => report.status = "SUCCESSFUL",
           row'.status = "SUCCESSFUL" =>
               failed = {} /\ row'.findings = FingerprintsOf({f[1] : f \in findings}),
           pc' = "over" /\ report'.status = "SUCCESSFUL" => row'.status = "SUCCESSFUL"
    PROVE  IInv'
  <1>1. UNCHANGED <<stage, found, answer, asking, reviews, planned, queue, todo, at, seen, tier,
                    deepUsed, findings, verified, failed, run, indexed>>
    BY DEF disk, process
  <1>2. SeenPlaced'
    BY <1>1 DEF IInv, SeenPlaced, Closing
  <1>3. StagesFiled'
    <2>1. \A kind : OnFile(kind, verified)' = OnFile(kind, verified)
      BY <1>1 DEF OnFile, FingerprintsOf
    <2>2. QED
      BY <1>1, <2>1 DEF IInv, StagesFiled, Closing
  <1>4. ReportAgrees'
    <2>1. FingerprintsOf({f[1] : f \in findings})' = FingerprintsOf({f[1] : f \in findings})
      BY <1>1 DEF FingerprintsOf
    <2>2. QED
      BY <1>1, <2>1 DEF IInv, ReportAgrees, Closing
  <1>5. QED
    BY <1>1, <1>2, <1>3, <1>4, MoveInv DEF IInv, TypeOK, Closing

LEMMA PersistInv ==
    ASSUME IInv, Persist \/ \E committed \in BOOLEAN : PersistRaises(committed)
    PROVE  IInv'
  <1>1. /\ pc = "persist" /\ pc' \in {"record", "over"} /\ report' = report
        /\ UNCHANGED <<disk, process, run, indexed>>
        /\ row' = Saved \/ (row' = row /\ pc' = "record")
        /\ pc' = "over" => row' = Saved
        /\ Fault \/ UNCHANGED <<trouble, faults>>
    BY DEF Persist, PersistRaises
  <1>2. faults' \in 0..MaxFaults /\ trouble' \in BOOLEAN
    BY <1>1, FaultType DEF IInv, TypeOK
  <1>3. row' \in [status : {"none", "RUNNING", "SUCCESSFUL", "UNSUCCESSFUL"},
                  findings : SUBSET Fingerprint]
    BY <1>1, SavedType DEF IInv, TypeOK
  <1>4. Saved.status = report.status
        /\ Saved.findings = FingerprintsOf({f[1] : f \in findings})
    BY DEF Saved
  <1>5. /\ report.findings = findings /\ row.status # "SUCCESSFUL"
        /\ report.status = "SUCCESSFUL" => failed = {}
    BY <1>1 DEF IInv, ReportAgrees, Closing
  <1>6. row'.status = "SUCCESSFUL" =>
           failed = {} /\ row'.findings = FingerprintsOf({f[1] : f \in findings})
    BY <1>1, <1>4, <1>5
  <1>7. pc' = "over" /\ report'.status = "SUCCESSFUL" => row'.status = "SUCCESSFUL"
    BY <1>1, <1>4
  <1>8. QED
    BY <1>1, <1>2, <1>3, <1>6, <1>7, CloseInv DEF IInv, TypeOK

LEMMA RecordInv ==
    ASSUME IInv, NEW stored \in BOOLEAN, RecordFailure(stored)
    PROVE  IInv'
  <1>1. /\ pc = "record" /\ pc' = "over"
        /\ UNCHANGED <<disk, process, run, indexed, trouble, faults>>
        /\ row' = IF stored THEN [row EXCEPT !.status = "UNSUCCESSFUL"] ELSE row
        /\ report' = [report EXCEPT !.status = "UNSUCCESSFUL"]
    BY DEF RecordFailure, Demoted
  <1>2. /\ row \in [status : {"none", "RUNNING", "SUCCESSFUL", "UNSUCCESSFUL"},
                    findings : SUBSET Fingerprint]
        /\ report \in [status : {"none", "SUCCESSFUL", "UNSUCCESSFUL"},
                       decision : {"none", "PASS", "WARN", "BLOCK", "INCOMPLETE"},
                       findings : SUBSET (Cand \X Cand), gaps : SUBSET Required]
    BY DEF IInv, TypeOK
  <1>3. /\ report' \in [status : {"none", "SUCCESSFUL", "UNSUCCESSFUL"},
                        decision : {"none", "PASS", "WARN", "BLOCK", "INCOMPLETE"},
                        findings : SUBSET (Cand \X Cand), gaps : SUBSET Required]
        /\ report'.findings = report.findings /\ report'.decision = report.decision
        /\ report'.status = "UNSUCCESSFUL"
    BY <1>1, <1>2
  <1>4. /\ row' \in [status : {"none", "RUNNING", "SUCCESSFUL", "UNSUCCESSFUL"},
                     findings : SUBSET Fingerprint]
        /\ row'.status = "SUCCESSFUL" => row' = row
    BY <1>1, <1>2
  <1>5. row.status = "SUCCESSFUL" =>
           failed = {} /\ row.findings = FingerprintsOf({f[1] : f \in findings})
    BY <1>1 DEF IInv, ReportAgrees
  <1>6. row'.status = "SUCCESSFUL" =>
           failed = {} /\ row'.findings = FingerprintsOf({f[1] : f \in findings})
    BY <1>4, <1>5
  <1>7. faults' \in 0..MaxFaults /\ trouble' \in BOOLEAN
    BY <1>1 DEF IInv, TypeOK
  <1>8. QED
    BY <1>1, <1>3, <1>4, <1>6, <1>7, CloseInv

LEMMA NextInv == IInv /\ [Next]_vars => IInv'
  <1> SUFFICES ASSUME IInv, [Next]_vars  PROVE IInv'
    OBVIOUS
  <1>1. ASSUME NEW sameScope \in BOOLEAN, NEW stored \in BOOLEAN, Start(sameScope, stored)
        PROVE  IInv'
    BY <1>1, StartInv
  <1>2. CASE Crash \/ Exit
    BY <1>2, StopInv
  <1>3. CASE DiscoveryRaises
             \/ \E S \in SUBSET Reportable["discovery"] : \E kept \in SUBSET S : Discover(S, kept)
    BY <1>3, DiscoveryInv
  <1>4. ASSUME NEW chosen \in SUBSET Deep, StartRound(chosen)  PROVE IInv'
    BY <1>4, StartRoundInv
  <1>5. CASE AllRoundsDone \/ RoundDone
    BY <1>5, RoundsInv
  <1>6. ASSUME NEW c \in Cand,
               \/ LookUp(c) \/ HuntFails(c) \/ File(c)
               \/ \E outcome \in {"supported", "unsupported"}, final \in SUBSET asking :
                     Hunted(c, outcome, final)
        PROVE  IInv'
    BY <1>6, LookUpInv, HuntFailsInv, HuntedInv, FileInv
  <1>7. ASSUME NEW S \in SUBSET Reportable["variants"], NEW kept \in SUBSET S,
               SweepVariants(S, kept)
        PROVE  IInv'
    BY <1>7, SweepInv DEF SweepVariants
  <1>8. ASSUME NEW S \in SUBSET Reportable["chain"], NEW kept \in SUBSET S, ChainPivots(S, kept)
        PROVE  IInv'
    BY <1>8, SweepInv DEF ChainPivots
  <1>9. ASSUME NEW primary \in SUBSET Cand, Consolidate(primary)  PROVE IInv'
    BY <1>9, ConsolidateInv
  <1>10. CASE Conclude
    BY <1>10, ConcludeInv
  <1>11. CASE Persist \/ \E committed \in BOOLEAN : PersistRaises(committed)
    BY <1>11, PersistInv
  <1>12. ASSUME NEW stored \in BOOLEAN, RecordFailure(stored)  PROVE IInv'
    BY <1>12, RecordInv
  <1>13. CASE UNCHANGED vars
    <2>1. UNCHANGED <<stage, found, answer, asking, reviews, planned, queue, todo, at, seen, tier,
                      deepUsed, findings, verified, failed, row, run, pc, indexed, trouble, faults,
                      report>>
      BY <1>13 DEF vars, disk, process
    <2>2. TypeOK'
      BY <2>1 DEF IInv, TypeOK
    <2>3. ReviewsAnswered' /\ FindingsSupported' /\ ReviewsPlaced' /\ SeenPlaced'
      BY <2>1 DEF IInv, ReviewsAnswered, FindingsSupported, ReviewsPlaced, SeenPlaced
    <2>4. StagesFiled' /\ ReportAgrees'
      BY <2>1 DEF IInv, StagesFiled, ReportAgrees, OnFile, FingerprintsOf
    <2>5. QED
      BY <2>2, <2>3, <2>4 DEF IInv
  <1>14. QED
    BY <1>1, <1>2, <1>3, <1>4, <1>5, <1>6, <1>7, <1>8, <1>9, <1>10, <1>11, <1>12, <1>13
    DEF Next, Work

LEMMA Inductive == Spec => []IInv
  BY InitInv, NextInv, PTL DEF Spec

--------------------------------------------------------------------------------
(* The theorems                                                              *)

(* The store, the row, the index and the counters of a scan have their types *)
(* (SastPipeline.scan_snapshot).                                             *)
THEOREM TypeCorrect == Spec => []TypeOK
  <1>1. IInv => TypeOK
    BY DEF IInv
  <1>2. QED
    BY <1>1, Inductive, PTL

(* A scan that comes out clean or successful has judged every candidate it   *)
(* knows of and misses no stage, whatever failed, was killed and resumed     *)
(* before (_run_deep_hunt and the status rules of scan_snapshot).            *)
THEOREM CleanIsMeant == Spec => []NoFalseClean
  <1>1. IInv => NoFalseClean
    <2> SUFFICES ASSUME IInv, pc = "over",
                        report.decision = "PASS" \/ "SUCCESSFUL" \in {report.status, row.status}
                 PROVE  /\ planned
                        /\ stage[<<"discovery", {}>>] = "done"
                        /\ \A c \in seen : Settled(c)
                        /\ \A kind \in {"variants", "chain"} :
                              verified # {} => OnFile(kind, verified) # {}
      BY DEF NoFalseClean
    <2>1. failed = {}
      BY DEF IInv, ReportAgrees, Closing
    <2>2. /\ planned /\ stage[<<"discovery", {}>>] = "done"
          /\ verified # {} => OnFile("variants", verified) # {} /\ OnFile("chain", verified) # {}
      BY <2>1 DEF IInv, StagesFiled, Closing
    <2>3. ASSUME NEW c \in seen
          PROVE  Settled(c)
      <3>1. c \in Cand /\ at[c] \in ReviewStep
        BY DEF IInv, TypeOK
      <3>2. at[c] # "out"
        BY DEF IInv, SeenPlaced, Closing
      <3>3. at[c] \notin Active /\ at[c] # "failed"
        BY <2>1, <3>1 DEF IInv, ReviewsPlaced
      <3>4. QED
        BY <3>1, <3>2, <3>3 DEF ReviewStep, Disposed, Active, Settled
    <2>4. QED
      BY <2>2, <2>3
  <1>2. QED
    BY <1>1, Inductive, PTL

(* Behind every reported finding is the answer to a review of a candidate    *)
(* with its fingerprint, in this run or one before (verify).                 *)
THEOREM FindingsHold == Spec => []FindingsSupported
  <1>1. IInv => FindingsSupported
    BY DEF IInv
  <1>2. QED
    BY <1>1, Inductive, PTL

(* A row that says SUCCESSFUL has all the findings of its scan, and a report *)
(* that says so has such a row, however the final transaction ended.         *)
THEOREM StoredHolds == Spec => []SuccessIsStored
  <1>1. IInv => SuccessIsStored
    BY DEF IInv, ReportAgrees, SuccessIsStored
  <1>2. QED
    BY <1>1, Inductive, PTL

================================================================================
