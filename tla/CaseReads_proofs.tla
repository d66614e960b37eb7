--------------------------- MODULE CaseReads_proofs ---------------------------
(***************************************************************************)
(* Proofs about what the read operations make of a case that went through  *)
(* legal calls, for every value of the constants of CommissioningCase.     *)
(***************************************************************************)
EXTENDS CaseReads, CaseDossier_proofs

-----------------------------------------------------------------------------
(* The observations. *)

(* The checks of the ledger on the references between observations hold of *)
(* a log in order: replacements go forward, so that none comes back.       *)
LEMMA OrderedReferences ==
  ASSUME DossierInv
  PROVE  LedgerReferencesSound
<1> DEFINE n == Len(observations)
           log == observations
<1>1. observations \in Seq(Observation)
  BY DEF DossierInv, CaseInv, TypeOK
<1>2. DOMAIN observations = 1 .. n /\ n \in Nat
  BY <1>1, LenProperties
<1> HIDE DEF n
<1>3. \A i \in 1 .. n : observations[i] \in Observation
  BY <1>1, <1>2, ElementOfSeq DEF n
<1>4. \A i \in 1 .. n : log[i].at \in Nat /\ log[i].supersedes \in Nat
  BY <1>3 DEF Observation
<1>5. /\ \A i \in 1 .. n : log[i].at # 0 /\ log[i].supersedes < i
      /\ \A i, j \in 1 .. n : i < j => log[i].at < log[j].at
      /\ \A i, j \in 1 .. n :
           log[i].supersedes = log[j].supersedes => i = j \/ log[i].supersedes = 0
      /\ \A d \in deviations : d.obs \in 1 .. n
  BY <1>2 DEF DossierInv, LogInOrder
<1>6. \A i \in 1 .. n : log[i].at # 0 /\ (i > 1 => log[i].at > log[i - 1].at)
  <2>1. \A i \in 1 .. n : i > 1 => i - 1 \in 1 .. n /\ i - 1 < i
    BY <1>2
  <2>2. \A i \in 1 .. n : i > 1 => log[i - 1].at < log[i].at
    BY <1>5, <2>1
  <2> QED
    BY <1>4, <1>5, <2>1, <2>2
<1>7. ASSUME NEW j \in 1 .. n, log[j].supersedes # 0
      PROVE  /\ log[j].supersedes \in 1 .. n \ {j}
             /\ log[j].at > log[log[j].supersedes].at
             /\ ReplacedBy(log, log[j].supersedes) = {j}
  <2>1. log[j].supersedes \in 1 .. n /\ log[j].supersedes < j
    BY <1>2, <1>4, <1>5, <1>7
  <2>2. log[log[j].supersedes].at < log[j].at
    BY <1>5, <2>1
  <2>3. ReplacedBy(log, log[j].supersedes) = {j}
    BY <1>2, <1>5, <1>7 DEF ReplacedBy
  <2> QED
    BY <1>2, <1>4, <2>1, <2>2, <2>3
<1>8. ASSUME NEW chain \in SUBSET (1 .. n), chain # {},
             \A i \in chain : ReplacedBy(log, i) \cap chain # {}
      PROVE  FALSE
  <2>1. PICK m \in chain : \A x \in chain : x <= m
    BY <1>2, <1>8, GreatestNumber
  <2>2. PICK j \in chain : j \in 1 .. n /\ log[j].supersedes = m
    BY <1>2, <1>8, <2>1 DEF ReplacedBy
  <2>3. m < j /\ j <= m
    BY <1>5, <2>1, <2>2
  <2> QED
    BY <1>2, <2>1, <2>2, <2>3
<1>9. ReferencesValid(log)
  BY <1>2, <1>6, <1>7, <1>8 DEF ReferencesValid
<1> QED
  BY <1>2, <1>5, <1>9 DEF LedgerReferencesSound

(* Whatever batches and remediations went before, the ledger finds the     *)
(* references between the observations sound.                              *)
THEOREM LedgerReferences == Spec => []LedgerReferencesSound
<1>1. DossierInv => LedgerReferencesSound
  BY OrderedReferences
<1> QED
  BY DossierKeepsInv, <1>1, PTL

-----------------------------------------------------------------------------
(* The reviews and the permit. *)

LEMMA HistoryReadable ==
  ASSUME DossierInv
  PROVE  ReviewHistoryReadable
<1> DEFINE n == Len(reviews)
<1>1. reviews \in Seq(ReviewDecision) /\ version \in Nat
  BY DEF DossierInv, CaseInv, TypeOK
<1>2. DOMAIN reviews = 1 .. n /\ n \in Nat
  BY <1>1, LenProperties
<1> HIDE DEF n
<1>3. /\ \A i \in 1 .. n : reviews[i].reviewedVersion \in 1 .. version - 1
      /\ \A i, j \in 1 .. n :
           i < j => reviews[i].reviewedVersion < reviews[j].reviewedVersion
      /\ state \in {"Approved", "Activated"} => reviews # <<>>
  BY <1>2 DEF DossierInv, ReviewsPast, ApprovalStands, ApprovalBindsData
<1>4. \A i \in 1 .. n : reviews[i].reviewedVersion \in 1 .. version
                        /\ reviews[i].reviewedVersion # version
  BY <1>1, <1>3
<1>5. \A i \in 1 .. n : i > 1 => reviews[i].reviewedVersion >= reviews[i - 1].reviewedVersion
  <2>1. \A i \in 1 .. n : i > 1 => i - 1 \in 1 .. n /\ i - 1 < i
    BY <1>2
  <2>2. \A i \in 1 .. n : i > 1 => reviews[i - 1].reviewedVersion < reviews[i].reviewedVersion
    BY <1>3, <2>1
  <2> QED
    BY <1>1, <1>3, <2>1, <2>2
<1>6. ReviewHistory = "ok"
  BY <1>2, <1>3, <1>4, <1>5 DEF ReviewHistory
<1> QED
  BY <1>2, <1>4, <1>6 DEF ReviewHistoryReadable, IsCurrentVersion

(* The review history of a case can always be read, and all its reviews    *)
(* are of earlier versions.                                                *)
THEOREM ReviewsReadable == Spec => []ReviewHistoryReadable
<1>1. DossierInv => ReviewHistoryReadable
  BY HistoryReadable
<1> QED
  BY DossierKeepsInv, <1>1, PTL

LEMMA PermitStands ==
  ASSUME DossierInv
  PROVE  PermitChecksOut
<1>1. TypeOK /\ RevisionsCount /\ RecordOfState /\ InForce /\ ApprovalStands
  BY DEF DossierInv, CaseInv
<1>2. CASE state # "Activated"
  BY <1>1, <1>2 DEF PermitChecksOut, ValidatePermit, ApprovalStands
<1>3. CASE state = "Activated"
  <2>1. /\ permit # Nil /\ permit.activatedVersion = version
        /\ permit.effectiveUntil = permit.issuedAt + PermitYear
    BY <1>1, <1>3 DEF ApprovalStands
  <2>2. permit.issuedAt \in Nat
    BY <1>1, <2>1 DEF TypeOK, ActivationPermit
  <2>3. ~ (permit.effectiveUntil <= permit.issuedAt)
    BY <2>1, <2>2, BoundAssumption
  <2>4. baseline # Nil /\ baseline.revision # 0
    <3>1. baseline # Nil
      BY <1>1, <1>3 DEF RecordOfState
    <3> QED
      BY <1>1, <3>1, RevisionInForce
  <2>5. PlanRevisionInForce # 0
    <3>1. plan # Nil /\ planHistory # <<>> /\ plan = planHistory[Len(planHistory)].plan
      BY <1>1, <1>3 DEF InForce
    <3>2. planHistory \in Seq(PlanRevision)
      BY <1>1 DEF TypeOK
    <3>3. Len(planHistory) \in Nat \ {0} /\ Len(planHistory) \in DOMAIN planHistory
      BY <3>1, <3>2, LastOfSeq
    <3>4. planHistory[Len(planHistory)].revision = Len(planHistory)
      BY <1>1, <3>3 DEF RevisionsCount
    <3> QED
      BY <3>1, <3>3, <3>4 DEF PlanRevisionInForce
  <2>6. \E i \in DOMAIN reviews : reviews[i].decision = "approve"
    <3>1. reviews # <<>> /\ LastReview.decision = "approve"
      BY <1>1, <1>3 DEF ApprovalStands, ApprovalBindsData
    <3>2. reviews \in Seq(ReviewDecision)
      BY <1>1 DEF TypeOK
    <3>3. Len(reviews) \in DOMAIN reviews
      BY <3>1, <3>2, LastOfSeq
    <3> QED
      BY <3>1, <3>3 DEF LastReview
  <2> QED
    BY <1>3, <2>1, <2>3, <2>4, <2>5, <2>6 DEF PermitChecksOut, ValidatePermit
<1> QED
  BY <1>2, <1>3

(* The permit of an activated case is valid until it expires, and no other *)
(* case has one.                                                           *)
THEOREM PermitValid == Spec => []PermitChecksOut
<1>1. DossierInv => PermitChecksOut
  BY PermitStands
<1> QED
  BY DossierKeepsInv, <1>1, PTL

-----------------------------------------------------------------------------
(* The case as its file shows it. *)

CaseFileMoved == CaseFile' \in Life!Mutated(CaseFile, now)

(* A mutation that does not activate the case.                             *)
LEMMA FileMoves ==
  ASSUME touch, permit' = permit, state' \in Life!Moves(state), state' # "Activated"
  PROVE  CaseFileMoved
<1>1. CaseFile' = [state |-> state', version |-> version + 1, permit |-> permit]
  BY DEF CaseFile, touch
<1>2. CaseFile.state = state /\ CaseFile.version = version /\ CaseFile.permit = permit
  BY DEF CaseFile
<1> QED
  BY <1>1, <1>2 DEF CaseFileMoved, Life!Mutated

LEMMA FileMovesStep ==
  ASSUME Next
  PROVE  CaseFile' # CaseFile => CaseFileMoved
<1> USE DEF reviewVars, Life!Moves
<1>1. ASSUME NEW id \in Identities, ReviseIdentity(id)
      PROVE  CaseFileMoved
  BY <1>1, FileMoves DEF ReviseIdentity
<1>2. ASSUME NEW b \in BaselineInputs, SetBaseline(b)
      PROVE  CaseFileMoved
  BY <1>2, FileMoves DEF SetBaseline
<1>3. CASE RevokeBaseline
  BY <1>3, FileMoves DEF RevokeBaseline
<1>4. ASSUME NEW p \in PlanInputs, SubmitPlan(p) \/ RevisePlan(p)
      PROVE  CaseFileMoved
  BY <1>4, FileMoves DEF SubmitPlan, RevisePlan
<1>5. CASE StartTrial
  BY <1>5, FileMoves DEF StartTrial
<1>6. ASSUME NEW batch \in Requests({0}), AddObservations(batch)
      PROVE  CaseFileMoved
  BY <1>6, EvaluateSound, FileMoves DEF AddObservations
<1>7. ASSUME NEW targets \in RemediationTargets,
             NEW retests \in Requests({d.obs : d \in targets}),
             RemediateDeviations(targets, retests)
      PROVE  CaseFileMoved
  BY <1>7, EvaluateSound, FileMoves DEF RemediateDeviations
<1>8. CASE FetchPackage \/ Tick
  BY <1>8 DEF FetchPackage, Tick, CaseFile
<1>9. ASSUME NEW r \in People, NEW d \in {"approve", "return"}, Review(r, d)
      PROVE  CaseFileMoved
  BY <1>9, FileMoves DEF Review
<1>10. CASE Activate
  <2>1. CaseFile' = [state |-> "Activated", version |-> version + 1,
                     permit |-> Life!PermitAt(version + 1, now)]
    BY <1>10 DEF CaseFile, Activate, touch, Life!PermitAt
  <2>2. CaseFile.state = "Approved" /\ CaseFile.version = version
    BY <1>10 DEF CaseFile, Activate
  <2>3. "Activated" \in Life!Moves("Approved")
    OBVIOUS
  <2> QED
    BY <2>1, <2>2, <2>3 DEF CaseFileMoved, Life!Mutated
<1> QED
  BY <1>1, <1>2, <1>3, <1>4, <1>5, <1>6, <1>7, <1>8, <1>9, <1>10 DEF Next

(* Seen from outside, a case moves as CaseLife has it and never after its  *)
(* activation.                                                             *)
THEOREM FileMovesAsLife == Spec => CaseFileMoves
<1>1. [Next]_vars => [CaseFile' # CaseFile => CaseFileMoved]_vars
  BY FileMovesStep
<1> QED
  BY <1>1, PTL DEF Spec, CaseFileMoves, CaseFileMoved

-----------------------------------------------------------------------------
(* The pages of the ledger. *)

Key(d) == <<d.rule, d.obs>>
KeysOf(S) == {Key(d) : d \in S}

(* Where a rule and an observation determine a deviation, the deviations   *)
(* are counted by these keys.                                              *)
LEMMA CountedByKey ==
  ASSUME NEW S, IsFiniteSet(KeysOf(S)), \A d, e \in S : Key(d) = Key(e) => d = e
  PROVE  Cardinality(S) = Cardinality(KeysOf(S))
<1> DEFINE T == KeysOf(S)
           f == [d \in S |-> Key(d)]
<1>1. f \in [S -> T]
  BY DEF KeysOf
<1>2. \A d, e \in S : f[d] = f[e] => d = e
  OBVIOUS
<1>3. \A t \in T : \E d \in S : f[d] = t
  BY DEF KeysOf
<1>4. IsFiniteSet(T)
  OBVIOUS
<1> HIDE DEF f, T
<1>5. f \in Injection(S, T)
  BY <1>1, <1>2 DEF Injection, IsInjective
<1>6. f \in Surjection(S, T)
  BY <1>1, <1>3 DEF Surjection
<1>7. Cardinality(S) = Cardinality(T)
  BY <1>4, <1>5, <1>6, FS_Injection
<1> QED
  BY <1>7 DEF T

LEMMA KeysFinite ==
  ASSUME DossierInv, NEW S \in SUBSET deviations
  PROVE  IsFiniteSet(KeysOf(S))
<1> DEFINE n == Len(observations)
<1>1. observations \in Seq(Observation) /\ deviations \in SUBSET Deviation
  BY DEF DossierInv, CaseInv, TypeOK
<1>2. DOMAIN observations = 1 .. n /\ n \in Nat
  BY <1>1, LenProperties
<1>3. \A d \in deviations : d.rule \in RuleCodes /\ d.obs \in 1 .. n
  BY <1>1, <1>2 DEF Deviation, DossierInv, LogInOrder
<1> HIDE DEF n
<1>4. IsFiniteSet(RuleCodes)
  <2>1. IsFiniteSet({"TEMP_RANGE"} \cup {"HUMIDITY_RANGE"})
    BY FS_Singleton, FS_AddElement
  <2>2. IsFiniteSet({"TEMP_RANGE"} \cup {"HUMIDITY_RANGE"} \cup {"DEVICE_STATUS"})
    BY <2>1, FS_AddElement
  <2>3. IsFiniteSet({"TEMP_RANGE"} \cup {"HUMIDITY_RANGE"} \cup {"DEVICE_STATUS"}
                      \cup {"SAMPLE_GAP"})
    BY <2>2, FS_AddElement
  <2>4. RuleCodes = {"TEMP_RANGE"} \cup {"HUMIDITY_RANGE"} \cup {"DEVICE_STATUS"}
                      \cup {"SAMPLE_GAP"}
    BY DEF RuleCodes, MeasuredRules
  <2> QED
    BY <2>3, <2>4
<1>5. IsFiniteSet(1 .. n)
  BY <1>2, FS_Interval
<1>6. IsFiniteSet(RuleCodes \X (1 .. n))
  BY <1>4, <1>5, FS_Product
<1>7. KeysOf(S) \in SUBSET (RuleCodes \X (1 .. n))
  BY <1>3 DEF KeysOf, Key
<1> QED
  BY <1>6, <1>7, FS_Subset

(* Where deviations stay and new ones are about observations that come     *)
(* later, no item of the ledger moves.                                     *)
LEMMA PlacesStay ==
  ASSUME DossierInv, DossierInv',
         \A i \in DOMAIN observations :
           i \in DOMAIN observations' /\ observations'[i] = observations[i],
         \A d \in deviations : \E e \in deviations' : Key(e) = Key(d),
         \A e \in deviations' :
           (\E d \in deviations : Key(d) = Key(e)) \/ e.obs \notin DOMAIN observations
  PROVE  LedgerPlaces \subseteq LedgerPlaces'
<1> DEFINE n == Len(observations)
           m == Len(observations')
<1>1. /\ observations \in Seq(Observation) /\ observations' \in Seq(Observation)
      /\ deviations' \in SUBSET Deviation
  BY DEF DossierInv, CaseInv, TypeOK
<1>2. DOMAIN observations = 1 .. n /\ n \in Nat /\ DOMAIN observations' = 1 .. m /\ m \in Nat
  BY <1>1, LenProperties
<1> HIDE DEF n, m
<1>3. /\ \A d \in deviations : d.obs \in 1 .. n
      /\ \A e \in deviations' : e.obs \in 1 .. m
      /\ \A i, j \in 1 .. m : i < j => observations'[i].at < observations'[j].at
      /\ \A d, e \in deviations : Key(d) = Key(e) => d = e
      /\ \A d, e \in deviations' : Key(d) = Key(e) => d = e
  BY <1>2 DEF DossierInv, LogInOrder, Key
<1>4. \A i \in 1 .. m : observations'[i].at \in Nat
  <2>1. \A i \in 1 .. m : observations'[i] \in Observation
    BY <1>1, <1>2, ElementOfSeq DEF m
  <2> QED
    BY <2>1 DEF Observation
<1>5. \A x, y : Key(x) = Key(y) => x.rule = y.rule /\ x.obs = y.obs
  BY DEF Key
<1>6. ASSUME NEW d \in deviations
      PROVE  Cardinality(ItemsBefore(d.rule, d.obs)) = Cardinality(ItemsBefore(d.rule, d.obs)')
  <2> DEFINE B == ItemsBefore(d.rule, d.obs)
             C == ItemsBefore(d.rule, d.obs)'
             first(r) == \E i, j \in DOMAIN LedgerOrder :
                           i < j /\ LedgerOrder[i] = r /\ LedgerOrder[j] = d.rule
  <2>1. \A x : x \in B <=> /\ x \in deviations
                           /\ \/ observations[x.obs].at < observations[d.obs].at
                              \/ x.obs = d.obs /\ first(x.rule)
    BY DEF ItemsBefore
  <2>2. \A y : y \in C <=> /\ y \in deviations'
                           /\ \/ observations'[y.obs].at < observations'[d.obs].at
                              \/ y.obs = d.obs /\ first(y.rule)
    BY DEF ItemsBefore
  <2> HIDE DEF B, C, first
  <2>3. observations'[d.obs] = observations[d.obs] /\ d.obs \in 1 .. n
    BY <1>2, <1>3
  <2>4. \A x \in B : \E y \in C : Key(y) = Key(x)
    <3> SUFFICES ASSUME NEW x \in B PROVE \E y \in C : Key(y) = Key(x)
      OBVIOUS
    <3>1. x \in deviations /\ x.obs \in 1 .. n
      BY <1>3, <2>1
    <3>2. PICK y \in deviations' : Key(y) = Key(x)
      BY <3>1
    <3>3. y.rule = x.rule /\ y.obs = x.obs
      BY <1>5, <3>2
    <3>4. observations'[y.obs] = observations[x.obs]
      BY <1>2, <3>1, <3>3
    <3> QED
      BY <2>1, <2>2, <2>3, <3>2, <3>3, <3>4
  <2>5. \A y \in C : \E x \in B : Key(x) = Key(y)
    <3> SUFFICES ASSUME NEW y \in C PROVE \E x \in B : Key(x) = Key(y)
      OBVIOUS
    <3>1. y \in deviations' /\ y.obs \in 1 .. m
      BY <1>3, <2>2
    <3>2. ~ (y.obs \notin 1 .. n)
      <4> SUFFICES ASSUME y.obs \notin 1 .. n PROVE FALSE
        OBVIOUS
      <4>1. d.obs < y.obs /\ d.obs \in 1 .. m
        BY <1>2, <2>3, <3>1
      <4>2. observations'[d.obs].at < observations'[y.obs].at
        BY <1>3, <3>1, <4>1
      <4>3. observations'[d.obs].at \in Nat /\ observations'[y.obs].at \in Nat
        BY <1>4, <3>1, <4>1
      <4>4. ~ (observations'[y.obs].at < observations'[d.obs].at)
        BY <4>2, <4>3
      <4>5. y.obs # d.obs
        BY <2>3
      <4> QED
        BY <2>2, <4>4, <4>5
    <3>3. PICK x \in deviations : Key(x) = Key(y)
      BY <1>2, <3>1, <3>2
    <3>4. x.rule = y.rule /\ x.obs = y.obs
      BY <1>5, <3>3
    <3>5. observations'[y.obs] = observations[x.obs]
      BY <1>2, <3>2, <3>4
    <3> QED
      BY <2>1, <2>2, <2>3, <3>3, <3>4, <3>5
  <2>6. KeysOf(B) = KeysOf(C)
    BY <2>4, <2>5 DEF KeysOf
  <2>7. B \in SUBSET deviations /\ C \in SUBSET deviations'
    BY <2>1, <2>2
  <2>8. IsFiniteSet(KeysOf(B))
    BY <2>7, KeysFinite
  <2>9. Cardinality(B) = Cardinality(KeysOf(B))
    <3>1. \A x, y \in B : Key(x) = Key(y) => x = y
      BY <1>3, <2>7
    <3> QED
      BY <2>8, <3>1, CountedByKey
  <2>10. Cardinality(C) = Cardinality(KeysOf(C))
    <3>1. \A x, y \in C : Key(x) = Key(y) => x = y
      BY <1>3, <2>7
    <3> QED
      BY <2>6, <2>8, <3>1, CountedByKey
  <2> QED
    BY <2>6, <2>9, <2>10 DEF B, C
<1>7. ASSUME NEW d \in deviations
      PROVE  <<d.rule, d.obs, Cardinality(ItemsBefore(d.rule, d.obs))>> \in LedgerPlaces'
  <2>1. PICK e \in deviations' : Key(e) = Key(d)
    OBVIOUS
  <2>2. e.rule = d.rule /\ e.obs = d.obs
    BY <1>5, <2>1
  <2>3. <<e.rule, e.obs, Cardinality(ItemsBefore(e.rule, e.obs)')>> \in LedgerPlaces'
    BY <2>1 DEF LedgerPlaces
  <2> QED
    BY <1>6, <2>2, <2>3
<1> QED
  BY <1>7 DEF LedgerPlaces

(* Deviations that a request raises are about its own observations, and a  *)
(* remediation that resolves some keeps what they are about.               *)
LEMMA RaisedAtTheEnd ==
  ASSUME DossierInv, NEW log, NEW passed \in SUBSET DeviationsWith(log),
         DeviationsWith(log) \in SUBSET Deviation,
         \/ deviations' = DeviationsWith(log)
         \/ deviations' = Resolve(DeviationsWith(log), passed)
  PROVE  /\ \A d \in deviations : \E e \in deviations' : Key(e) = Key(d)
         /\ \A e \in deviations' :
              (\E d \in deviations : Key(d) = Key(e)) \/ e.obs \notin DOMAIN observations
<1> DEFINE devs == DeviationsWith(log)
           cure(d) == [d EXCEPT !.status = "resolved", !.resolvedAt = now]
<1>1. DOMAIN observations = 1 .. Len(observations) /\ Len(observations) \in Nat
  BY LenProperties DEF DossierInv, CaseInv, TypeOK
<1>2. deviations \subseteq devs
  BY DEF DeviationsWith
<1>3. \A e \in devs : e \in deviations \/ e.obs \in NewIn(log)
  BY DEF DeviationsWith
<1>4. \A k \in NewIn(log) : k \notin DOMAIN observations
  BY <1>1 DEF NewIn
<1>5. \A d \in devs : cure(d).rule = d.rule /\ cure(d).obs = d.obs
  BY DEF Deviation
<1>6. \/ deviations' = devs
      \/ deviations' = (devs \ passed) \cup {cure(d) : d \in passed}
  BY DEF Resolve
<1>7. passed \in SUBSET devs
  OBVIOUS
<1> HIDE DEF devs, cure
<1>8. /\ \A d \in devs : \E e \in deviations' : e.rule = d.rule /\ e.obs = d.obs
      /\ \A e \in deviations' : \E d \in devs : e.rule = d.rule /\ e.obs = d.obs
  <2>1. CASE deviations' = devs
    BY <2>1
  <2>2. CASE deviations' = (devs \ passed) \cup {cure(d) : d \in passed}
    <3>1. ASSUME NEW d \in devs
          PROVE  \E e \in deviations' : e.rule = d.rule /\ e.obs = d.obs
      <4>1. CASE d \in passed
        BY <1>5, <2>2, <4>1
      <4>2. CASE d \notin passed
        BY <2>2, <4>2
      <4> QED
        BY <4>1, <4>2
    <3>2. ASSUME NEW e \in deviations'
          PROVE  \E d \in devs : e.rule = d.rule /\ e.obs = d.obs
      BY <1>5, <1>7, <2>2
    <3> QED
      BY <3>1, <3>2
  <2> QED
    BY <1>6, <2>1, <2>2
<1>9. \A d \in deviations : \E e \in deviations' : Key(e) = Key(d)
  BY <1>2, <1>8 DEF Key
<1>10. ASSUME NEW e \in deviations'
       PROVE  (\E d \in deviations : Key(d) = Key(e)) \/ e.obs \notin DOMAIN observations
  <2>1. PICK d \in devs : e.rule = d.rule /\ e.obs = d.obs
    BY <1>8
  <2> QED
    BY <1>3, <1>4, <2>1 DEF Key
<1> QED
  BY <1>9, <1>10

LEMMA PlacesStep ==
  ASSUME DossierInv, Next
  PROVE  LedgerPlaces \subseteq LedgerPlaces'
<1>0. DossierInv' /\ TypeOK
  BY DossierStep DEF DossierInv, CaseInv
<1>1. ASSUME UNCHANGED trialVars
      PROVE  LedgerPlaces \subseteq LedgerPlaces'
  BY <1>1 DEF LedgerPlaces, ItemsBefore, trialVars
<1>2. ASSUME NEW S \in SUBSET Nat, NEW batch \in Requests(S),
             observations' = LogWith(batch)
      PROVE  \A i \in DOMAIN observations :
               i \in DOMAIN observations' /\ observations'[i] = observations[i]
  <2> DEFINE log == LogWith(batch)
  <2>1. /\ log \in Seq(Observation) /\ Len(log) = Len(observations) + Len(batch)
        /\ Len(observations) \in Nat /\ Len(batch) \in Nat
        /\ \A i \in 1 .. Len(observations) : log[i] = observations[i]
    BY <1>0, LogWithExtends
  <2>2. observations \in Seq(Observation)
    BY <1>0 DEF TypeOK
  <2>3. observations' = log
    BY <1>2
  <2> HIDE DEF log
  <2>4. DOMAIN log = 1 .. Len(log) /\ DOMAIN observations = 1 .. Len(observations)
    BY <2>1, <2>2, LenProperties
  <2> QED
    BY <2>1, <2>3, <2>4
<1>3. ASSUME NEW batch \in Requests({0}), AddObservations(batch)
      PROVE  LedgerPlaces \subseteq LedgerPlaces'
  <2> DEFINE log == LogWith(batch)
  <2>1. observations' = log /\ deviations' = DeviationsWith(log)
    BY <1>3 DEF AddObservations
  <2>2. log \in Seq(Observation)
    BY <1>0, LogWithExtends
  <2>3. \A i \in DOMAIN observations :
          i \in DOMAIN observations' /\ observations'[i] = observations[i]
    BY <1>2, <2>1
  <2>4. DeviationsWith(log) \in SUBSET Deviation
    BY <1>0, <2>2, DeviationsWithType
  <2>5. {} \in SUBSET DeviationsWith(log)
    OBVIOUS
  <2> HIDE DEF log
  <2> QED
    BY <1>0, <2>1, <2>3, <2>4, <2>5, RaisedAtTheEnd, PlacesStay
<1>4. ASSUME NEW targets \in RemediationTargets,
             NEW retests \in Requests({d.obs : d \in targets}),
             RemediateDeviations(targets, retests)
      PROVE  LedgerPlaces \subseteq LedgerPlaces'
  <2> DEFINE log == LogWith(retests)
             devs == DeviationsWith(log)
             passed == Passed(targets, log, devs)
             S == {d.obs : d \in targets}
  <2>1. /\ observations' = log /\ deviations' = Resolve(devs, passed)
        /\ \A d \in targets : CanRemediate(d)
    BY <1>4 DEF RemediateDeviations
  <2>2. S \in SUBSET Nat
    BY <1>0, TargetsType
  <2>3. log \in Seq(Observation)
    BY <1>0, <2>2, LogWithExtends
  <2>4. devs \in SUBSET Deviation
    BY <1>0, <2>3, DeviationsWithType
  <2>5. \A i \in DOMAIN observations :
          i \in DOMAIN observations' /\ observations'[i] = observations[i]
    BY <1>2, <2>1, <2>2
  <2>6. passed \in SUBSET devs
    BY <2>1 DEF Passed, CanRemediate, OpenDeviations, DeviationsWith
  <2> HIDE DEF log, passed
  <2> QED
    BY <1>0, <2>1, <2>4, <2>5, <2>6, RaisedAtTheEnd, PlacesStay
<1> QED
  BY <1>1, <1>3, <1>4 DEF Next, ReviseIdentity, SetBaseline, RevokeBaseline, SubmitPlan,
     RevisePlan, StartTrial, FetchPackage, Review, Activate, Tick

(* Whatever is measured, retested or reviewed while a client reads the     *)
(* ledger page by page, no item moves to another place.                    *)
THEOREM LedgerPagesStay == Spec => LedgerPagesStable
<1>1. DossierInv /\ [Next]_vars => [LedgerPlaces \subseteq LedgerPlaces']_vars
  BY PlacesStep
<1> QED
  BY DossierKeepsInv, <1>1, PTL DEF Spec, LedgerPagesStable

-----------------------------------------------------------------------------
(* The summary. *)

LEMMA Quotient ==
  ASSUME NEW a \in Int, NEW n \in Nat \ {0}
  PROVE  /\ a \div n \in Int /\ a % n \in 0 .. n - 1
         /\ a = n * (a \div n) + (a % n)
OBVIOUS

(* Whole minutes are enough exactly when the ticks are. *)
LEMMA MinutesAtLeast ==
  ASSUME NEW s \in Int, NEW n \in Nat \ {0}, NEW h \in Int
  PROVE  (s * 60) \div n >= h * 60 <=> s >= h * n
<1> DEFINE a == s * 60
           q == a \div n
           r == a % n
<1>0. a \in Int /\ a = s * 60
  OBVIOUS
<1> HIDE DEF a
<1>1. q \in Int /\ r \in 0 .. n - 1 /\ a = n * q + r
  BY <1>0, Quotient
<1> HIDE DEF q, r
<1>2. ASSUME q >= h * 60 PROVE s >= h * n
  <2>1. n * q >= n * (h * 60)
    BY <1>1, <1>2
  <2>2. s * 60 >= (h * n) * 60
    BY <1>0, <1>1, <2>1
  <2> QED
    BY <2>2
<1>3. ASSUME s >= h * n PROVE q >= h * 60
  <2>1. n * q + r >= n * (h * 60)
    BY <1>0, <1>1, <1>3
  <2> SUFFICES ASSUME q + 1 <= h * 60 PROVE FALSE
    BY <1>1
  <2>2. n * (q + 1) <= n * (h * 60)
    BY <1>1
  <2> QED
    BY <1>1, <2>1, <2>2
<1> QED
  BY <1>2, <1>3 DEF q, a

LEMMA EvidenceType ==
  ASSUME DossierInv
  PROVE  LET effective == EffectiveObservations(observations)
         IN  /\ effective \in SUBSET (1 .. Len(observations))
             /\ IsFiniteSet(effective) /\ Len(observations) \in Nat
             /\ \A i \in 1 .. Len(observations) : observations[i].at \in Nat
             /\ \A i, j \in 1 .. Len(observations) :
                  i < j => observations[i].at < observations[j].at
<1> DEFINE n == Len(observations)
           effective == EffectiveObservations(observations)
<1>1. observations \in Seq(Observation)
  BY DEF DossierInv, CaseInv, TypeOK
<1>2. DOMAIN observations = 1 .. n /\ n \in Nat
  BY <1>1, LenProperties
<1>3. effective \in SUBSET (1 .. n)
  BY <1>2 DEF EffectiveObservations
<1>4. IsFiniteSet(1 .. n)
  BY <1>2, FS_Interval
<1>5. \A i \in 1 .. n : observations[i].at \in Nat
  <2>1. \A i \in 1 .. n : observations[i] \in Observation
    BY <1>1, <1>2, ElementOfSeq
  <2> QED
    BY <2>1 DEF Observation
<1>6. \A i, j \in 1 .. n : i < j => observations[i].at < observations[j].at
  BY <1>2 DEF DossierInv, LogInOrder
<1> HIDE DEF n, effective
<1>7. IsFiniteSet(effective)
  BY <1>3, <1>4, FS_Subset
<1> QED
  BY <1>2, <1>3, <1>5, <1>6, <1>7 DEF n, effective

(* Of some observations the span is a number, and no part of them spans    *)
(* more.                                                                   *)
LEMMA SpanGrows ==
  ASSUME NEW log, NEW n \in Nat, NEW S \in SUBSET (1 .. n), NEW T \in SUBSET S, T # {},
         \A i \in 1 .. n : log[i].at \in Nat,
         \A i, j \in 1 .. n : i < j => log[i].at < log[j].at
  PROVE  Span(log, T) \in Int /\ Span(log, S) \in Int /\ Span(log, T) <= Span(log, S)
<1>1. /\ Max(S) \in S /\ Min(S) \in S /\ Max(T) \in T /\ Min(T) \in T
  BY FirstAndLast
<1>2. Max(T) <= Max(S) /\ Min(S) <= Min(T)
  <2>1. \E m \in S : \A x \in S : m >= x
    BY GreatestNumber
  <2>2. \E m \in S : \A x \in S : m <= x
    BY LeastNumber
  <2>3. \A x \in S : Max(S) >= x
    BY <2>1 DEF Max
  <2>4. \A x \in S : Min(S) <= x
    BY <2>2 DEF Min
  <2> QED
    BY <1>1, <2>3, <2>4
<1> DEFINE a == Min(S)
           b == Min(T)
           c == Max(T)
           d == Max(S)
<1>3. /\ a \in 1 .. n /\ b \in 1 .. n /\ c \in 1 .. n /\ d \in 1 .. n
      /\ a <= b /\ c <= d
  BY <1>1, <1>2
<1> HIDE DEF a, b, c, d
<1>4. log[a].at <= log[b].at /\ log[c].at <= log[d].at
  <2>1. \A i, j \in 1 .. n : i <= j => log[i].at <= log[j].at
    OBVIOUS
  <2> QED
    BY <1>3, <2>1
<1>5. log[a].at \in Nat /\ log[b].at \in Nat /\ log[c].at \in Nat /\ log[d].at \in Nat
  BY <1>3
<1> QED
  BY <1>4, <1>5 DEF Span, a, b, c, d

(* Both completions of the summary of some of the effective observations,  *)
(* in ticks.                                                               *)
LEMMA CompletedInTicks ==
  ASSUME DossierInv, NEW from, NEW to
  PROVE  Completed(SummarizeObservations(from, to)) <=>
           /\ baseline # Nil /\ plan # Nil
           /\ InWindow(from, to) # {}
           /\ Cardinality(InWindow(from, to)) >= baseline.minCount
           /\ Span(observations, InWindow(from, to)) >= plan.hours * Hour
<1> DEFINE F == InWindow(from, to)
           span == Span(observations, F)
           summary == SummarizeObservations(from, to)
           minutes == (span * 60) \div Hour
<1>1. /\ summary.count = Cardinality(F)
      /\ summary.required = IF baseline = Nil THEN 0 ELSE baseline.minCount
      /\ summary.minutes = IF F = {} THEN 0 ELSE minutes
      /\ summary.minutesRequired = IF baseline = Nil \/ plan = Nil THEN 0 ELSE plan.hours * 60
  BY DEF SummarizeObservations
<1>2. F \in SUBSET EffectiveObservations(observations)
  BY DEF InWindow
<1> HIDE DEF F, summary
<1>3. CASE baseline = Nil \/ plan = Nil
  BY <1>1, <1>3 DEF Completed, summary, F
<1>4. CASE baseline # Nil /\ plan # Nil
  <2>1. /\ baseline.minCount \in Nat /\ 1 <= baseline.minCount
        /\ plan.hours \in Nat /\ plan.hours > 0
    BY <1>4 DEF DossierInv, CaseInv, TypeOK, InForce, BaselineProfile, ControlPlan,
       ValidateBaseline, ValidatePlan
  <2>2. CASE F = {}
    BY <1>1, <1>4, <2>1, <2>2 DEF Completed, summary, F
  <2>3. CASE F # {}
    <3>1. span \in Int
      BY <1>2, <2>3, EvidenceType, SpanGrows
    <3>2. Hour \in Nat \ {0}
      BY HourAssumption
    <3> HIDE DEF span
    <3>3. minutes >= plan.hours * 60 <=> span >= plan.hours * Hour
      BY <2>1, <3>1, <3>2, MinutesAtLeast
    <3> HIDE DEF minutes
    <3>4. Completed(summary) <=> Cardinality(F) >= baseline.minCount
                                 /\ minutes >= plan.hours * 60
      BY <1>1, <1>4, <2>1, <2>3 DEF Completed
    <3> QED
      BY <1>4, <2>3, <3>3, <3>4 DEF summary, F, span
  <2> QED
    BY <2>2, <2>3
<1> QED
  BY <1>3, <1>4

LEMMA WholeCompleted ==
  ASSUME PlansFit, DossierInv
  PROVE  Completed(SummarizeObservations(0, 0)) <=>
           /\ plan # Nil /\ baseline # Nil
           /\ TrialWindowSatisfied(observations, plan, baseline)
<1> DEFINE effective == EffectiveObservations(observations)
<1>1. InWindow(0, 0) = effective
  BY DEF InWindow
<1>2. ASSUME plan # Nil, baseline # Nil
      PROVE  TrialDuration(plan) = plan.hours * Hour
  BY <1>2, FittingPlan
<1>3. ASSUME baseline # Nil, Cardinality(effective) >= baseline.minCount
      PROVE  effective # {}
  <2>1. baseline.minCount \in Nat /\ 1 <= baseline.minCount
    BY <1>3 DEF DossierInv, CaseInv, TypeOK, InForce, BaselineProfile, ValidateBaseline
  <2>2. Cardinality({}) = 0
    BY FS_EmptySet
  <2> HIDE DEF effective
  <2>3. CASE effective = {}
    BY <1>3, <2>1, <2>2, <2>3
  <2> QED
    BY <2>3
<1>4. TrialWindowSatisfied(observations, plan, baseline) <=>
        /\ Cardinality(effective) >= baseline.minCount
        /\ Span(observations, effective) >= TrialDuration(plan)
  BY DEF TrialWindowSatisfied
<1>5. Completed(SummarizeObservations(0, 0)) <=>
        /\ baseline # Nil /\ plan # Nil
        /\ InWindow(0, 0) # {}
        /\ Cardinality(InWindow(0, 0)) >= baseline.minCount
        /\ Span(observations, InWindow(0, 0)) >= plan.hours * Hour
  BY CompletedInTicks
<1> HIDE DEF effective
<1> QED
  BY <1>1, <1>2, <1>3, <1>4, <1>5

(* The trial is shown complete and without open deviations exactly while   *)
(* the case is under review, or was just sent back from it.                *)
LEMMA WholeForecasts ==
  ASSUME PlansFit, DossierInv
  PROVE  Completed(SummarizeObservations(0, 0)) /\ OpenDeviations = {}
           <=> state \in UnderReview \/ SentBack
<1>1. /\ TypeOK /\ RecordOfState /\ OpenOnlyInRemediation /\ TrialJudged /\ InForce
  BY DEF DossierInv, CaseInv
<1>2. ASSUME Completed(SummarizeObservations(0, 0)), OpenDeviations = {}
      PROVE  state \in UnderReview \/ SentBack
  <2>1. /\ plan # Nil /\ baseline # Nil
        /\ TrialWindowSatisfied(observations, plan, baseline)
    BY <1>2, WholeCompleted
  <2>2. state \notin {"Draft", "BaselineLocked"}
    BY <1>1, <2>1 DEF InForce
  <2>3. state # "TrialReady"
    <3> SUFFICES ASSUME state = "TrialReady" PROVE FALSE
      OBVIOUS
    <3>1. observations = <<>>
      BY <1>1 DEF RecordOfState
    <3>2. EffectiveObservations(observations) = {}
      BY <3>1 DEF EffectiveObservations
    <3>3. InWindow(0, 0) = {}
      BY <3>2 DEF InWindow
    <3> QED
      BY <1>2, <3>3, CompletedInTicks
  <2>4. state # "TrialRunning"
    BY <1>1, <2>1 DEF TrialJudged
  <2>5. state = "NeedsRemediation" => SentBack
    BY <1>1, <1>2 DEF TrialJudged
  <2> QED
    BY <1>1, <2>2, <2>3, <2>4, <2>5 DEF TypeOK, States, UnderReview
<1>3. ASSUME state \in UnderReview \/ SentBack
      PROVE  Completed(SummarizeObservations(0, 0)) /\ OpenDeviations = {}
  <2>1. OpenDeviations = {} /\ TrialWindowSatisfied(observations, plan, baseline)
    <3>1. CASE state \in UnderReview
      BY <1>1, <3>1 DEF InForce, OpenOnlyInRemediation, UnderReview
    <3>2. CASE SentBack
      BY <1>1, <3>2 DEF TrialJudged, SentBack
    <3> QED
      BY <1>3, <3>1, <3>2
  <2>2. state \notin {"Draft", "BaselineLocked"}
    BY <1>3 DEF UnderReview, SentBack
  <2>3. plan # Nil /\ baseline # Nil
    BY <1>1, <2>2 DEF InForce, RecordOfState
  <2> QED
    BY <2>1, <2>3, WholeCompleted
<1> QED
  BY <1>2, <1>3

LEMMA PartForecasts ==
  ASSUME DossierInv, NEW from, NEW to, Completed(SummarizeObservations(from, to))
  PROVE  Completed(SummarizeObservations(0, 0))
<1> DEFINE effective == EffectiveObservations(observations)
           F == InWindow(from, to)
           n == Len(observations)
           need == plan.hours * Hour
<1>1. InWindow(0, 0) = effective /\ F \in SUBSET effective
  BY DEF InWindow
<1>2. /\ baseline # Nil /\ plan # Nil /\ F # {}
      /\ Cardinality(F) >= baseline.minCount /\ Span(observations, F) >= need
  BY CompletedInTicks
<1>3. /\ effective \in SUBSET (1 .. n) /\ IsFiniteSet(effective) /\ n \in Nat
      /\ \A i \in 1 .. n : observations[i].at \in Nat
      /\ \A i, j \in 1 .. n : i < j => observations[i].at < observations[j].at
  BY EvidenceType
<1>4. /\ baseline.minCount \in Nat /\ need \in Nat
  <2>1. baseline.minCount \in Nat /\ plan.hours \in Nat /\ Hour \in Nat
    BY <1>2, HourAssumption DEF DossierInv, CaseInv, TypeOK, BaselineProfile, ControlPlan
  <2> QED
    BY <2>1
<1> HIDE DEF effective, F, n, need
<1>5. Cardinality(F) <= Cardinality(effective) /\ IsFiniteSet(F)
  BY <1>1, <1>3, FS_Subset
<1>6. Cardinality(F) \in Nat /\ Cardinality(effective) \in Nat
  BY <1>3, <1>5, FS_CardinalityType
<1>7. /\ Span(observations, F) \in Int /\ Span(observations, effective) \in Int
      /\ Span(observations, F) <= Span(observations, effective)
  BY <1>1, <1>2, <1>3, SpanGrows
<1>8. /\ Cardinality(effective) >= baseline.minCount
      /\ Span(observations, effective) >= need
  BY <1>2, <1>4, <1>5, <1>6, <1>7
<1>9. effective # {}
  BY <1>1, <1>2
<1> QED
  BY <1>1, <1>2, <1>8, <1>9, CompletedInTicks DEF need

(* As long as no plan overflows, the summary and the evaluation of each    *)
(* observation agree on the trial, and no window of time shows more than   *)
(* the whole of it.                                                        *)
THEOREM SummaryForecasts == PlansFit => (Spec => []SummaryForecastsReview)
<1> SUFFICES ASSUME PlansFit PROVE Spec => []SummaryForecastsReview
  OBVIOUS
<1>1. ASSUME DossierInv PROVE SummaryForecastsReview
  <2>1. SummarizeObservations(0, 0).open = {} <=> OpenDeviations = {}
    BY DEF SummarizeObservations
  <2>2. \A from, to \in 0 .. MaxTime + FutureTolerance :
          Completed(SummarizeObservations(from, to))
            => Completed(SummarizeObservations(0, 0))
    BY <1>1, PartForecasts
  <2> QED
    BY <1>1, <2>1, <2>2, WholeForecasts DEF SummaryForecastsReview
<1>2. DossierInv => SummaryForecastsReview
  BY <1>1
<1> QED
  BY DossierKeepsInv, <1>2, PTL
=============================================================================
