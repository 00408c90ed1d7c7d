------------------------- MODULE MeaningRequestsProofs ------------------------
(***************************************************************************)
(* Theorems about MeaningStore, for every set of scopes, meanings,         *)
(* requests, sentences and actors and every threshold; then about          *)
(* MeaningRequests, for any number of concurrent requests over the store.  *)
(***************************************************************************)
EXTENDS MeaningRequests, FiniteSetTheorems, FunctionTheorems, TLAPS

----------------------------------------------------------------------------
(* The store.                                                               *)

\* evidence_count counts distinct requests, and distinct sentences.
CountsExact ==
    \A k \in Keys :
        /\ IsFiniteSet(RequestsOf(k)) /\ Cardinality(RequestsOf(k)) = evidenceCount[k]
        /\ IsFiniteSet(ContextsOf(k)) /\ Cardinality(ContextsOf(k)) = evidenceCount[k]
        /\ IsFiniteSet(ActorsOf(k))

\* A row shared by the policy met its thresholds.
SharedMetThreshold ==
    \A k \in Keys :
        status[k] = "conditional_shared" =>
            /\ k[1] \notin Unscoped
            /\ evidenceCount[k] >= MinEvidence
            /\ Cardinality(ActorsOf(k)) >= MinActors

StoreInv ==
    /\ StoreTypeOK
    /\ CompetingQuarantined
    /\ CountsExact
    /\ SharedMetThreshold
    /\ AuditComplete

Bumps == [Keys -> Nat]

----------------------------------------------------------------------------
\* Revising keeps the counters' types.
LEMMA ReviseType ==
    ASSUME StoreTypeOK, NEW bump \in Bumps, Revise(bump)
    PROVE  rev' \in [Keys -> Nat] /\ audited' \in [Keys -> SUBSET Nat]
  BY DEF StoreTypeOK, Revise, Bumps

\* Revising keeps one audit row per revision.
LEMMA ReviseAudits ==
    ASSUME StoreTypeOK, AuditComplete, NEW bump \in Bumps, Revise(bump)
    PROVE  AuditComplete'
<1> SUFFICES ASSUME NEW k \in Keys PROVE audited'[k] = 1..rev'[k]
  BY DEF AuditComplete
<1>1. audited'[k] = audited[k] \cup ((rev[k] + 1)..(rev[k] + bump[k]))
  BY DEF Revise
<1>2. rev'[k] = rev[k] + bump[k] /\ rev[k] \in Nat /\ bump[k] \in Nat
  BY DEF Revise, StoreTypeOK, Bumps
<1>3. audited[k] = 1..rev[k]
  BY DEF AuditComplete
<1> QED
  BY <1>1, <1>2, <1>3

\* A recorded correction costs its row one or two revisions.
LEMMA InsertionType == ASSUME NEW k PROVE Insertion(k) \in 1..2
  BY DEF Insertion

\* One more evidence row: what it does to the sets counted over the rows.
LEMMA EvidenceSets ==
    ASSUME StoreTypeOK, NEW k \in Keys, NEW i \in RequestIds, NEW c \in Contexts,
           NEW a \in Actors, AddEvidence(k, i, c, a), NEW j \in Keys
    PROVE  /\ j = k => /\ RequestsOf(j)' = RequestsOf(j) \cup {i}
                       /\ ContextsOf(j)' = ContextsOf(j) \cup {c}
                       /\ ActorsOf(j)' = ActorsOf(j) \cup {a}
           /\ j # k => /\ RequestsOf(j)' = RequestsOf(j)
                       /\ ContextsOf(j)' = ContextsOf(j)
                       /\ ActorsOf(j)' = ActorsOf(j)
<1> DEFINE e == [key |-> k, request |-> i, context |-> c, actor |-> a]
<1>1. evidence' = evidence \cup {e}
  BY DEF AddEvidence
<1>2. CASE j = k
  <2>1. EvidenceOf(j)' = EvidenceOf(j) \cup {e}
    BY <1>1, <1>2 DEF EvidenceOf
  <2>2. e.request = i /\ e.context = c /\ e.actor = a
    OBVIOUS
  <2> HIDE DEF e
  <2> QED
    BY <1>2, <2>1, <2>2 DEF RequestsOf, ContextsOf, ActorsOf
<1>3. CASE j # k
  <2>1. EvidenceOf(j)' = EvidenceOf(j)
    BY <1>1, <1>3 DEF EvidenceOf
  <2> QED
    BY <1>3, <2>1 DEF RequestsOf, ContextsOf, ActorsOf
<1> QED
  BY <1>2, <1>3

\* What every way of recording evidence keeps: types, exact counts, audit.
LEMMA AddEvidenceKeeps ==
    ASSUME StoreInv, NEW k \in Keys, NEW i \in RequestIds, NEW c \in Contexts,
           NEW a \in Actors, AddEvidence(k, i, c, a)
    PROVE  /\ evidence' \in SUBSET Evidence
           /\ evidenceCount' \in [Keys -> Nat]
           /\ CountsExact'
           /\ \A j \in Keys : /\ evidenceCount'[j] >= evidenceCount[j]
                              /\ Cardinality(ActorsOf(j)') >= Cardinality(ActorsOf(j))
<1> USE DEF StoreInv
<1>1. evidence' \in SUBSET Evidence
  BY DEF StoreTypeOK, AddEvidence, Evidence
<1>2. evidenceCount' = [evidenceCount EXCEPT ![k] = @ + 1]
  BY DEF AddEvidence
<1>3. evidenceCount' \in [Keys -> Nat]
  BY <1>2 DEF StoreTypeOK
<1>4. ASSUME NEW j \in Keys
      PROVE  /\ IsFiniteSet(RequestsOf(j)') /\ Cardinality(RequestsOf(j)') = evidenceCount'[j]
             /\ IsFiniteSet(ContextsOf(j)') /\ Cardinality(ContextsOf(j)') = evidenceCount'[j]
             /\ IsFiniteSet(ActorsOf(j)')
             /\ evidenceCount'[j] >= evidenceCount[j]
             /\ Cardinality(ActorsOf(j)') >= Cardinality(ActorsOf(j))
  <2>0. /\ IsFiniteSet(RequestsOf(j)) /\ Cardinality(RequestsOf(j)) = evidenceCount[j]
        /\ IsFiniteSet(ContextsOf(j)) /\ Cardinality(ContextsOf(j)) = evidenceCount[j]
        /\ IsFiniteSet(ActorsOf(j)) /\ Cardinality(ActorsOf(j)) \in Nat
        /\ evidenceCount[j] \in Nat
    BY FS_CardinalityType DEF CountsExact, StoreTypeOK
  <2>1. CASE j = k
    <3>1. i \notin RequestsOf(j) /\ c \notin ContextsOf(j)
      BY <2>1 DEF AddEvidence, Duplicate
    <3>2. /\ RequestsOf(j)' = RequestsOf(j) \cup {i}
          /\ ContextsOf(j)' = ContextsOf(j) \cup {c}
          /\ ActorsOf(j)' = ActorsOf(j) \cup {a}
      BY <2>1, EvidenceSets
    <3>3. IsFiniteSet(RequestsOf(j)') /\ Cardinality(RequestsOf(j)') = evidenceCount[j] + 1
      BY <2>0, <3>1, <3>2, FS_AddElement
    <3>4. IsFiniteSet(ContextsOf(j)') /\ Cardinality(ContextsOf(j)') = evidenceCount[j] + 1
      BY <2>0, <3>1, <3>2, FS_AddElement
    <3>5. IsFiniteSet(ActorsOf(j)') /\ Cardinality(ActorsOf(j)') >= Cardinality(ActorsOf(j))
      <4>1. /\ IsFiniteSet(ActorsOf(j) \cup {a})
            /\ Cardinality(ActorsOf(j) \cup {a}) =
                 IF a \in ActorsOf(j) THEN Cardinality(ActorsOf(j)) ELSE Cardinality(ActorsOf(j)) + 1
        BY <2>0, FS_AddElement
      <4> QED
        BY <2>0, <3>2, <4>1
    <3>6. evidenceCount'[j] = evidenceCount[j] + 1
      BY <1>2, <2>1 DEF StoreTypeOK
    <3> QED
      BY <2>0, <3>3, <3>4, <3>5, <3>6
  <2>2. CASE j # k
    <3>1. evidenceCount'[j] = evidenceCount[j]
      BY <1>2, <2>2 DEF StoreTypeOK
    <3>2. /\ RequestsOf(j)' = RequestsOf(j)
          /\ ContextsOf(j)' = ContextsOf(j)
          /\ ActorsOf(j)' = ActorsOf(j)
      BY <2>2, EvidenceSets
    <3> QED
      BY <2>0, <3>1, <3>2
  <2> QED
    BY <2>1, <2>2
<1> QED
  BY <1>1, <1>3, <1>4 DEF CountsExact

----------------------------------------------------------------------------
\* Evidence for a contested meaning keeps the invariant.
LEMMA RecordCompetingKeeps ==
    ASSUME StoreInv, NEW k \in Keys, NEW i \in RequestIds, NEW c \in Contexts,
           NEW a \in Actors, RecordCompeting(k, i, c, a)
    PROVE  StoreInv'
<1> DEFINE moved == {j \in Competing(k) \cup {k} : status[j] # "needs_review"}
           bump == [j \in Keys |-> (IF j = k THEN Insertion(k) ELSE 0)
                                   + (IF j \in moved THEN 1 ELSE 0)]
<1>1. AddEvidence(k, i, c, a) /\ Revise(bump)
      /\ status' = [j \in Keys |-> IF j \in moved THEN "needs_review" ELSE status[j]]
  BY DEF RecordCompeting
<1>2. bump \in Bumps
  BY InsertionType DEF Bumps
<1> HIDE DEF bump
<1>3. AuditComplete' /\ rev' \in [Keys -> Nat] /\ audited' \in [Keys -> SUBSET Nat]
  BY <1>1, <1>2, ReviseType, ReviseAudits DEF StoreInv
<1>4. StoreTypeOK'
  BY <1>1, <1>3, AddEvidenceKeeps DEF StoreInv, StoreTypeOK, Status, States
<1>5. CompetingQuarantined'
  <2> SUFFICES ASSUME NEW j \in Keys, NEW l \in Keys, j[1] = l[1], j # l,
                      Live(j)', Live(l)'
               PROVE  status'[j] = "needs_review" /\ status'[l] = "needs_review"
    BY DEF CompetingQuarantined
  <2>1. CASE j[1] = k[1]
    <3>1. (j = k \/ Live(j)) /\ (l = k \/ Live(l))
      BY <1>1 DEF Live, Competing
    <3>2. j[1] = k[1] /\ l[1] = k[1]
      BY <2>1
    <3>3. j \in Competing(k) \cup {k}
      BY <3>1, <3>2 DEF Competing
    <3>4. l \in Competing(k) \cup {k}
      BY <3>1, <3>2 DEF Competing
    <3> QED
      BY <1>1, <3>3, <3>4
  <2>2. CASE j[1] # k[1]
    <3>1. status'[j] = status[j] /\ status'[l] = status[l]
      BY <1>1, <2>2 DEF Competing
    <3> QED
      BY <3>1 DEF Live, StoreInv, CompetingQuarantined
  <2> QED
    BY <2>1, <2>2
<1>6. SharedMetThreshold'
  <2> SUFFICES ASSUME NEW j \in Keys, status'[j] = "conditional_shared"
               PROVE  /\ j[1] \notin Unscoped
                      /\ evidenceCount'[j] >= MinEvidence
                      /\ Cardinality(ActorsOf(j)') >= MinActors
    BY DEF SharedMetThreshold
  <2>1. status[j] = "conditional_shared"
    BY <1>1
  <2>2. /\ j[1] \notin Unscoped /\ evidenceCount[j] >= MinEvidence
        /\ Cardinality(ActorsOf(j)) >= MinActors
        /\ evidenceCount[j] \in Nat /\ Cardinality(ActorsOf(j)) \in Nat
    BY <2>1, FS_CardinalityType DEF StoreInv, SharedMetThreshold, CountsExact, StoreTypeOK
  <2>3. /\ evidenceCount'[j] >= evidenceCount[j] /\ evidenceCount'[j] \in Nat
        /\ Cardinality(ActorsOf(j)') >= Cardinality(ActorsOf(j))
        /\ Cardinality(ActorsOf(j)') \in Nat
    BY <1>1, <1>4, AddEvidenceKeeps, FS_CardinalityType DEF CountsExact, StoreTypeOK
  <2> QED
    BY <2>2, <2>3, StoreAssumption
<1> QED
  BY <1>1, <1>3, <1>4, <1>5, <1>6, AddEvidenceKeeps DEF StoreInv

\* Evidence for an uncontested meaning keeps the invariant.
LEMMA RecordAloneKeeps ==
    ASSUME StoreInv, NEW k \in Keys, NEW i \in RequestIds, NEW c \in Contexts,
           NEW a \in Actors, RecordPromoting(k, i, c, a) \/ RecordCounting(k, i, c, a)
    PROVE  StoreInv'
<1>1. Competing(k) = {} /\ AddEvidence(k, i, c, a)
  BY DEF RecordPromoting, RecordCounting
<1>2. PICK n \in Nat : Revise([j \in Keys |-> IF j = k THEN n ELSE 0])
  <2>1. CASE RecordPromoting(k, i, c, a)
    BY <2>1, InsertionType DEF RecordPromoting
  <2>2. CASE RecordCounting(k, i, c, a)
    BY <2>2, InsertionType DEF RecordCounting
  <2> QED
    BY <2>1, <2>2
<1>3. [j \in Keys |-> IF j = k THEN n ELSE 0] \in Bumps
  BY DEF Bumps
<1>4. AuditComplete' /\ rev' \in [Keys -> Nat] /\ audited' \in [Keys -> SUBSET Nat]
  BY <1>2, <1>3, ReviseType, ReviseAudits DEF StoreInv
<1>5. \A j \in Keys : j # k => status'[j] = status[j]
  BY DEF RecordPromoting, RecordCounting, StoreInv, StoreTypeOK
<1>6. status' \in [Keys -> Status]
  BY DEF RecordPromoting, RecordCounting, StoreInv, StoreTypeOK, Status, States
<1>7. StoreTypeOK'
  BY <1>1, <1>4, <1>6, AddEvidenceKeeps DEF StoreTypeOK
<1>8. CompetingQuarantined'
  <2> SUFFICES ASSUME NEW j \in Keys, NEW l \in Keys, j[1] = l[1], j # l,
                      Live(j)', Live(l)'
               PROVE  status'[j] = "needs_review" /\ status'[l] = "needs_review"
    BY DEF CompetingQuarantined
  <2>1. j # k /\ l # k
    BY <1>1, <1>5 DEF Competing, Live
  <2> QED
    BY <1>5, <2>1 DEF Live, StoreInv, CompetingQuarantined
<1>9. SharedMetThreshold'
  <2> SUFFICES ASSUME NEW j \in Keys, status'[j] = "conditional_shared"
               PROVE  /\ j[1] \notin Unscoped
                      /\ evidenceCount'[j] >= MinEvidence
                      /\ Cardinality(ActorsOf(j)') >= MinActors
    BY DEF SharedMetThreshold
  <2>1. CASE j = k /\ RecordPromoting(k, i, c, a)
    <3>1. EnoughEvidence(k, a)
      BY <2>1 DEF RecordPromoting
    <3>2. evidenceCount'[k] = evidenceCount[k] + 1
      BY <1>1 DEF AddEvidence, StoreInv, StoreTypeOK
    <3>3. ActorsOf(k)' = ActorsOf(k) \cup {a}
      BY <1>1, EvidenceSets DEF StoreInv
    <3> QED
      BY <2>1, <3>1, <3>2, <3>3 DEF EnoughEvidence
  <2>2. CASE ~(j = k /\ RecordPromoting(k, i, c, a))
    <3>1. status[j] = "conditional_shared"
      BY <1>5, <2>2 DEF RecordCounting, StoreInv, StoreTypeOK
    <3>2. /\ j[1] \notin Unscoped /\ evidenceCount[j] >= MinEvidence
          /\ Cardinality(ActorsOf(j)) >= MinActors
          /\ evidenceCount[j] \in Nat /\ Cardinality(ActorsOf(j)) \in Nat
      BY <3>1, FS_CardinalityType DEF StoreInv, SharedMetThreshold, CountsExact, StoreTypeOK
    <3>3. /\ evidenceCount'[j] >= evidenceCount[j] /\ evidenceCount'[j] \in Nat
          /\ Cardinality(ActorsOf(j)') >= Cardinality(ActorsOf(j))
          /\ Cardinality(ActorsOf(j)') \in Nat
      BY <1>1, <1>7, AddEvidenceKeeps, FS_CardinalityType DEF CountsExact, StoreTypeOK
    <3> QED
      BY <3>2, <3>3, StoreAssumption
  <2> QED
    BY <2>1, <2>2
<1> QED
  BY <1>1, <1>4, <1>7, <1>8, <1>9, AddEvidenceKeeps DEF StoreInv

\* record keeps the invariant.
LEMMA RecordKeeps ==
    ASSUME StoreInv, NEW k \in Keys, NEW i \in RequestIds, NEW c \in Contexts,
           NEW a \in Actors, Record(k, i, c, a)
    PROVE  StoreInv'
  BY RecordCompetingKeeps, RecordAloneKeeps DEF Record

\* An administrator's batch keeps the invariant.
LEMMA ModerateKeeps ==
    ASSUME StoreInv, NEW S \in SUBSET Keys, Confirm(S) \/ Revoke(S)
    PROVE  StoreInv'
<1>1. PICK st \in {"confirmed", "revoked"} :
        /\ ModerateTo(S, st)
        /\ st = "confirmed" => \A k \in S : Competing(k) = {}
  BY DEF Confirm, Revoke
<1>2. /\ status' = [k \in Keys |-> IF k \in S THEN st ELSE status[k]]
      /\ Revise([k \in Keys |-> IF k \in S THEN 1 ELSE 0])
      /\ UNCHANGED <<evidenceCount, evidence>>
  BY <1>1 DEF ModerateTo
<1>3. [k \in Keys |-> IF k \in S THEN 1 ELSE 0] \in Bumps
  BY DEF Bumps
<1>4. AuditComplete' /\ rev' \in [Keys -> Nat] /\ audited' \in [Keys -> SUBSET Nat]
  BY <1>2, <1>3, ReviseType, ReviseAudits DEF StoreInv
<1>5. StoreTypeOK'
  BY <1>2, <1>4 DEF StoreInv, StoreTypeOK, Status, States
<1>6. CountsExact' /\ SharedMetThreshold'
  BY <1>2 DEF StoreInv, CountsExact, SharedMetThreshold, RequestsOf, ContextsOf, ActorsOf,
              EvidenceOf
<1>7. CompetingQuarantined'
  <2> SUFFICES ASSUME NEW j \in Keys, NEW l \in Keys, j[1] = l[1], j # l,
                      Live(j)', Live(l)'
               PROVE  status'[j] = "needs_review" /\ status'[l] = "needs_review"
    BY DEF CompetingQuarantined
  <2>1. \A x \in S : status[x] # "absent"
    BY <1>1 DEF ModerateTo
  <2>2. CASE st = "revoked"
    <3>1. j \notin S /\ l \notin S
      BY <1>2, <2>2 DEF Live
    <3> QED
      BY <1>2, <3>1 DEF Live, StoreInv, CompetingQuarantined
  <2>3. CASE st = "confirmed"
    <3>1. ASSUME NEW x \in S, NEW y \in Keys, x[1] = y[1], x # y
          PROVE  ~Live(y)' /\ y \notin S
      <4>1. y \notin Competing(x)
        BY <1>1, <2>3
      <4>2. ~Live(y)
        BY <3>1, <4>1 DEF Competing
      <4>3. ASSUME y \in S PROVE FALSE
        <5>1. status[y] = "revoked"
          BY <2>1, <4>2, <4>3 DEF Live
        <5>2. Confirm(S)
          BY <1>1, <2>3, <1>2, <4>3 DEF Revoke, ModerateTo
        <5> QED
          BY <4>3, <5>1, <5>2 DEF Confirm
      <4> QED
        BY <1>2, <4>2, <4>3 DEF Live
    <3>2. j \notin S /\ l \notin S
      BY <3>1
    <3> QED
      BY <1>2, <3>2 DEF Live, StoreInv, CompetingQuarantined
  <2> QED
    BY <2>2, <2>3
<1> QED
  BY <1>4, <1>5, <1>6, <1>7 DEF StoreInv

----------------------------------------------------------------------------
\* The empty store satisfies the invariant.
LEMMA StoreInitInv == StoreInit => StoreInv
<1> SUFFICES ASSUME StoreInit PROVE StoreInv
  OBVIOUS
<1>1. StoreTypeOK
  BY DEF StoreInit, StoreTypeOK, Status
<1>2. \A k \in Keys : RequestsOf(k) = {} /\ ContextsOf(k) = {} /\ ActorsOf(k) = {}
  BY DEF StoreInit, RequestsOf, ContextsOf, ActorsOf, EvidenceOf
<1>3. CountsExact
  BY <1>2, FS_EmptySet DEF CountsExact, StoreInit
<1>4. AuditComplete
  BY DEF AuditComplete, StoreInit
<1> QED
  BY <1>1, <1>3, <1>4 DEF StoreInv, StoreInit, CompetingQuarantined, SharedMetThreshold, Live

\* So does a step that leaves the store alone.
LEMMA StoreUnchangedKeeps == StoreInv /\ UNCHANGED store => StoreInv'
<1> SUFFICES ASSUME StoreInv, UNCHANGED store PROVE StoreInv'
  OBVIOUS
<1> USE DEF store
<1>1. StoreTypeOK' /\ AuditComplete'
  BY DEF StoreInv, StoreTypeOK, AuditComplete
<1>2. CompetingQuarantined'
  BY DEF StoreInv, CompetingQuarantined, Live
<1>3. CountsExact' /\ SharedMetThreshold'
  BY DEF StoreInv, CountsExact, SharedMetThreshold, RequestsOf, ContextsOf, ActorsOf, EvidenceOf
<1> QED
  BY <1>1, <1>2, <1>3 DEF StoreInv

\* Every transaction keeps the invariant.
LEMMA StoreNextInv == StoreInv /\ [StoreNext]_store => StoreInv'
<1> SUFFICES ASSUME StoreInv, [StoreNext]_store PROVE StoreInv'
  OBVIOUS
<1>1. ASSUME NEW k \in Keys, NEW i \in RequestIds, NEW c \in Contexts, NEW a \in Actors,
             Record(k, i, c, a)
      PROVE  StoreInv'
  BY <1>1, RecordKeeps
<1>2. ASSUME NEW S \in SUBSET Keys, Confirm(S) \/ Revoke(S) PROVE StoreInv'
  BY <1>2, ModerateKeeps
<1>3. CASE UNCHANGED store
  BY <1>3, StoreUnchangedKeeps
<1> QED
  BY <1>1, <1>2, <1>3 DEF StoreNext

\* The inductive invariant holds in every state of the store.
THEOREM StoreInvariant == StoreSpec => []StoreInv
  BY StoreInitInv, StoreNextInv, PTL DEF StoreSpec

\* Rows, evidence and audit stay in their types.
THEOREM StoreTypesKept == StoreSpec => []StoreTypeOK
<1>1. StoreInv => StoreTypeOK
  BY DEF StoreInv
<1> QED
  BY <1>1, StoreInvariant, PTL

\* Two live meanings of one scope are always both under review.
THEOREM CompetingAlwaysQuarantined == StoreSpec => []CompetingQuarantined
<1>1. StoreInv => CompetingQuarantined
  BY DEF StoreInv
<1> QED
  BY <1>1, StoreInvariant, PTL

\* The threshold, restated over the evidence rows themselves.
LEMMA SharedEvidenceFromInv == StoreInv => SharedOnIndependentEvidence
  BY DEF StoreInv, SharedMetThreshold, CountsExact, SharedOnIndependentEvidence

\* Sharing without an administrator always rests on independent evidence.
THEOREM SharingNeedsIndependentEvidence == StoreSpec => []SharedOnIndependentEvidence
  BY SharedEvidenceFromInv, StoreInvariant, PTL

\* No revision of any row is ever without its audit row, and none is invented.
THEOREM EveryRevisionAudited == StoreSpec => []AuditComplete
<1>1. StoreInv => AuditComplete
  BY DEF StoreInv
<1> QED
  BY <1>1, StoreInvariant, PTL

\* No step of the store revives a revoked row or gives it evidence.
LEMMA TombstoneKept ==
    ASSUME StoreTypeOK, StoreNext, NEW k \in Keys, status[k] = "revoked"
    PROVE  status'[k] = "revoked" /\ evidenceCount'[k] = evidenceCount[k]
<1>1. ASSUME NEW l \in Keys, NEW i \in RequestIds, NEW c \in Contexts, NEW a \in Actors,
             Record(l, i, c, a)
      PROVE  status'[k] = "revoked" /\ evidenceCount'[k] = evidenceCount[k]
  <2>1. AddEvidence(l, i, c, a)
    BY <1>1 DEF Record, RecordCompeting, RecordPromoting, RecordCounting
  <2>2. k # l /\ evidenceCount'[k] = evidenceCount[k]
    BY <2>1 DEF AddEvidence, StoreTypeOK
  <2>3. k \notin Competing(l)
    BY DEF Competing, Live
  <2> QED
    BY <1>1, <2>2, <2>3
    DEF Record, RecordCompeting, RecordPromoting, RecordCounting, StoreTypeOK
<1>2. ASSUME NEW S \in SUBSET Keys, Confirm(S) \/ Revoke(S)
      PROVE  status'[k] = "revoked" /\ evidenceCount'[k] = evidenceCount[k]
  BY <1>2 DEF Confirm, Revoke, ModerateTo
<1> QED
  BY <1>1, <1>2 DEF StoreNext

\* A revocation is final.
THEOREM TombstonesArePermanent == StoreSpec => TombstonePermanent
<1> DEFINE Kept == \A k \in Keys : status[k] = "revoked" =>
                       status'[k] = "revoked" /\ evidenceCount'[k] = evidenceCount[k]
<1>1. StoreTypeOK /\ [StoreNext]_store => [Kept]_store
  BY TombstoneKept
<1>2. StoreInv => StoreTypeOK
  BY DEF StoreInv
<1> QED
  BY <1>1, <1>2, StoreInvariant, PTL DEF StoreSpec, TombstonePermanent

----------------------------------------------------------------------------
\* A row starts being shared only where nothing competes with it.
LEMMA NewlyShared ==
    ASSUME StoreTypeOK, StoreNext, NEW k \in Keys,
           status[k] \notin Shared, status'[k] \in Shared
    PROVE  Competing(k) = {}
<1>1. ASSUME NEW l \in Keys, NEW i \in RequestIds, NEW c \in Contexts, NEW a \in Actors,
             Record(l, i, c, a)
      PROVE  Competing(k) = {}
  <2>1. CASE RecordCompeting(l, i, c, a)
    BY <2>1 DEF RecordCompeting, Shared
  <2>2. CASE RecordPromoting(l, i, c, a) \/ RecordCounting(l, i, c, a)
    <3>1. Competing(l) = {} /\ \A j \in Keys : j # l => status'[j] = status[j]
      BY <2>2 DEF RecordPromoting, RecordCounting, StoreTypeOK
    <3> QED
      BY <3>1
  <2> QED
    BY <1>1, <2>1, <2>2 DEF Record
<1>2. ASSUME NEW S \in SUBSET Keys, Confirm(S) \/ Revoke(S)
      PROVE  Competing(k) = {}
  <2>1. CASE Confirm(S)
    BY <2>1 DEF Confirm, ModerateTo
  <2>2. CASE Revoke(S)
    BY <2>2 DEF Revoke, ModerateTo, Shared
  <2> QED
    BY <1>2, <2>1, <2>2
<1> QED
  BY <1>1, <1>2 DEF StoreNext

\* Quarantine leaves at most one shared meaning in a scope.
LEMMA OneSharedPerScope ==
    ASSUME CompetingQuarantined, NEW j \in Keys, NEW k \in Keys, j[1] = k[1],
           status[j] \in Shared, status[k] \in Shared
    PROVE  j = k
  BY DEF CompetingQuarantined, Live, Shared

\* Every transaction is a step of the promise or a stutter.
LEMMA StepKeepsPromise ==
    ASSUME StoreInv, StoreInv', StoreNext
    PROVE  Promise!Step
<1> DEFINE sharing(g) == {m \in Meanings : status[<<g, m>>] \in Shared}
<1>0. StoreTypeOK /\ CompetingQuarantined /\ CompetingQuarantined'
  BY DEF StoreInv
<1>1. {k \in Keys : status[k] = "revoked"} \subseteq {k \in Keys : status'[k] = "revoked"}
  BY <1>0, TombstoneKept
<1>2. ASSUME NEW g \in Scopes
      PROVE  \/ sharing(g)' = sharing(g)
             \/ sharing(g)' = {}
             \/ sharing(g) = {} /\ \E m \in Meanings : sharing(g)' = {m}
  <2>1. CASE \E m \in Meanings : m \in sharing(g)' /\ m \notin sharing(g)
    <3>1. PICK m \in Meanings : m \in sharing(g)' /\ m \notin sharing(g)
      BY <2>1
    <3>2. <<g, m>> \in Keys /\ <<g, m>>[1] = g
      BY DEF Keys
    <3>3. Competing(<<g, m>>) = {}
      BY <1>0, <3>1, <3>2, NewlyShared
    <3>4. ASSUME NEW n \in Meanings, n \in sharing(g) PROVE FALSE
      <4>1. <<g, n>> \in Keys /\ <<g, n>>[1] = g /\ <<g, n>> # <<g, m>>
        BY <3>1, <3>4 DEF Keys
      <4>2. <<g, n>> \in Competing(<<g, m>>)
        BY <3>2, <3>4, <4>1 DEF Competing, Live, Shared
      <4> QED
        BY <3>3, <4>2
    <3>5. ASSUME NEW n \in Meanings, n \in sharing(g)' PROVE n = m
      <4>1. <<g, n>> \in Keys /\ <<g, n>>[1] = g
        BY DEF Keys
      <4>2. status'[<<g, n>>] \in Shared /\ status'[<<g, m>>] \in Shared
        BY <3>1, <3>5
      <4>3. <<g, n>> = <<g, m>>
        BY <1>0, <3>2, <4>1, <4>2 DEF CompetingQuarantined, Live, Shared
      <4> QED
        BY <4>3
    <3> QED
      BY <3>1, <3>4, <3>5
  <2>2. CASE \A m \in Meanings : m \in sharing(g)' => m \in sharing(g)
    <3>1. \A m, n \in Meanings : m \in sharing(g) /\ n \in sharing(g) => m = n
      <4> SUFFICES ASSUME NEW m \in Meanings, NEW n \in Meanings,
                          m \in sharing(g), n \in sharing(g)
                   PROVE  m = n
        OBVIOUS
      <4>1. /\ <<g, m>> \in Keys /\ <<g, m>>[1] = g
            /\ <<g, n>> \in Keys /\ <<g, n>>[1] = g
        BY DEF Keys
      <4>2. <<g, n>> = <<g, m>>
        BY <1>0, <4>1, OneSharedPerScope
      <4> QED
        BY <4>2
    <3> QED
      BY <2>2, <3>1
  <2> QED
    BY <2>1, <2>2
<1>3. ASSUME NEW g \in Scopes, NEW m \in sharing(g)'
      PROVE  <<g, m>> \notin {k \in Keys : status'[k] = "revoked"}
  BY DEF Shared
<1> QED
  BY <1>1, <1>2, <1>3 DEF Promise!Step

\* The store implements the abstract promise of SharedMeanings.
THEOREM StoreImplementsPromise == StoreSpec => ImplementsSharedMeanings
<1>1. StoreInit => Promise!Init
  BY DEF StoreInit, Promise!Init, Shared, Keys
<1>2. StoreInv /\ StoreInv' /\ [StoreNext]_store => [Promise!Step]_(Promise!View)
  BY StepKeepsPromise DEF store, Promise!View
<1> QED
  BY <1>1, <1>2, StoreInvariant, PTL DEF StoreSpec, ImplementsSharedMeanings, Promise!Spec

----------------------------------------------------------------------------
(* Requests over the store.                                                 *)

\* Where a request keeps rows: choices only while it reads them, used rows
\* only after it applied them.
RowsInPhase ==
    \A p \in Slots :
        /\ pc[p] # "rows" => chosen[p] = {}
        /\ pc[p] \in {"idle", "revision", "rows"} => used[p] = {}

\* A revision a request holds was the store's, so it is never ahead of it.
KnownIsPast == \A p \in Slots : known[p] \in Nat => known[p] <= RevisionSum

\* The inductive invariant.
IInv ==
    /\ StoreInv
    /\ TypeOK
    /\ RowsInPhase
    /\ KnownIsPast
    /\ FenceGuardsRows

\* The revisions behind RevisionSum, for any table of counters.
Revisions(r) == UNION {{k} \X (1..r[k]) : k \in Keys}

----------------------------------------------------------------------------
\* A table of revision counters stands for finitely many revisions.
LEMMA RevisionsFinite ==
    ASSUME NEW r \in [Keys -> Nat]
    PROVE  /\ IsFiniteSet(Revisions(r))
           /\ Cardinality(Revisions(r)) \in Nat
<1> DEFINE parts == {{k} \X (1..r[k]) : k \in Keys}
           part == [k \in Keys |-> {k} \X (1..r[k])]
<1>1. IsFiniteSet(Keys)
  BY StoreAssumption, FS_Product DEF Keys
<1>2. part \in Surjection(Keys, parts)
  BY DEF Surjection
<1>3. IsFiniteSet(parts)
  <2> HIDE DEF part, parts
  <2> QED
    BY <1>1, <1>2, FS_Surjection
<1>4. ASSUME NEW T \in parts PROVE IsFiniteSet(T)
  <2>1. PICK k \in Keys : T = {k} \X (1..r[k])
    OBVIOUS
  <2>2. IsFiniteSet({k})
    BY FS_Singleton
  <2>3. IsFiniteSet(1..r[k])
    BY FS_Interval
  <2> QED
    BY <2>1, <2>2, <2>3, FS_Product
<1>5. IsFiniteSet(UNION parts)
  <2> HIDE DEF parts
  <2> QED
    BY <1>3, <1>4, FS_UNION
<1> QED
  BY <1>5, FS_CardinalityType DEF Revisions

\* The heart of the fence: whatever a transaction touches, the sum moves.
LEMMA SumGrows ==
    ASSUME NEW r \in [Keys -> Nat], NEW s \in [Keys -> Nat],
           NEW k \in Keys, s[k] > r[k], \A j \in Keys : s[j] >= r[j]
    PROVE  Cardinality(Revisions(s)) > Cardinality(Revisions(r))
<1>1. IsFiniteSet(Revisions(r)) /\ IsFiniteSet(Revisions(s))
  BY RevisionsFinite
<1>2. Revisions(r) \subseteq Revisions(s)
  BY DEF Revisions
<1>3. <<k, s[k]>> \in Revisions(s) /\ <<k, s[k]>> \notin Revisions(r)
  BY DEF Revisions
<1>4. Cardinality(Revisions(r)) <= Cardinality(Revisions(s))
      /\ Cardinality(Revisions(r)) # Cardinality(Revisions(s))
  BY <1>1, <1>2, <1>3, FS_Subset
<1>5. Cardinality(Revisions(r)) \in Nat /\ Cardinality(Revisions(s)) \in Nat
  BY RevisionsFinite
<1> QED
  BY <1>4, <1>5

\* Every transaction of the store that commits a change moves the sum.
LEMMA StoreStepMovesSum ==
    ASSUME StoreInv, StoreNext
    PROVE  RevisionSum' > RevisionSum /\ RevisionSum' \in Nat
<1>1. \E k \in Keys, bump \in Bumps : Revise(bump) /\ bump[k] > 0
  <2>1. ASSUME NEW k \in Keys, NEW i \in RequestIds, NEW c \in Contexts, NEW a \in Actors,
               Record(k, i, c, a)
        PROVE  \E bump \in Bumps : Revise(bump) /\ bump[k] > 0
    <3>1. CASE RecordCompeting(k, i, c, a)
      <4> DEFINE moved == {j \in Competing(k) \cup {k} : status[j] # "needs_review"}
                 bump == [j \in Keys |-> (IF j = k THEN Insertion(k) ELSE 0)
                                         + (IF j \in moved THEN 1 ELSE 0)]
      <4>1. Revise(bump)
        BY <3>1 DEF RecordCompeting
      <4>2. bump \in Bumps /\ bump[k] > 0
        BY InsertionType DEF Bumps
      <4> QED
        BY <4>1, <4>2
    <3>2. CASE RecordPromoting(k, i, c, a) \/ RecordCounting(k, i, c, a)
      <4>1. PICK n \in 1..3 : Revise([j \in Keys |-> IF j = k THEN n ELSE 0])
        BY <3>2, InsertionType DEF RecordPromoting, RecordCounting
      <4> QED
        BY <4>1 DEF Bumps
    <3> QED
      BY <2>1, <3>1, <3>2 DEF Record
  <2>2. ASSUME NEW S \in SUBSET Keys, Confirm(S) \/ Revoke(S)
        PROVE  \E k \in Keys, bump \in Bumps : Revise(bump) /\ bump[k] > 0
    <3>1. S # {} /\ Revise([k \in Keys |-> IF k \in S THEN 1 ELSE 0])
      BY <2>2 DEF Confirm, Revoke, ModerateTo
    <3>2. [k \in Keys |-> IF k \in S THEN 1 ELSE 0] \in Bumps
      BY DEF Bumps
    <3> QED
      BY <3>1, <3>2
  <2> QED
    BY <2>1, <2>2 DEF StoreNext
<1>2. PICK k \in Keys, bump \in Bumps : Revise(bump) /\ bump[k] > 0
  BY <1>1
<1>3. rev \in [Keys -> Nat] /\ rev' \in [Keys -> Nat]
  BY <1>2, ReviseType DEF StoreInv, StoreTypeOK
<1>4. rev'[k] > rev[k] /\ \A j \in Keys : rev'[j] >= rev[j]
  BY <1>2, <1>3 DEF Revise, Bumps
<1>5. RevisionSum = Cardinality(Revisions(rev)) /\ RevisionSum' = Cardinality(Revisions(rev'))
  BY DEF Revisions, RevisionSum
<1> QED
  BY <1>3, <1>4, <1>5, SumGrows, RevisionsFinite

\* The sum is a number whenever the store is well typed.
LEMMA SumIsNat == StoreInv => RevisionSum \in Nat
<1> SUFFICES ASSUME StoreInv PROVE RevisionSum \in Nat
  OBVIOUS
<1>1. rev \in [Keys -> Nat]
  BY DEF StoreInv, StoreTypeOK
<1>2. RevisionSum = Cardinality(Revisions(rev))
  BY DEF Revisions, RevisionSum
<1> QED
  BY <1>1, <1>2, RevisionsFinite

----------------------------------------------------------------------------
\* The invariant holds initially.
LEMMA InitInv == Init => IInv
<1> SUFFICES ASSUME Init PROVE IInv
  OBVIOUS
<1>1. StoreInv
  BY StoreInitInv DEF Init
<1>2. TypeOK
  BY <1>1 DEF Init, TypeOK, StoreInv
<1> QED
  BY <1>1, <1>2, SumIsNat, SlotAssumption
  DEF Init, IInv, RowsInPhase, KnownIsPast, FenceGuardsRows

\* A transaction of the store by someone else, or by a request that only
\* takes a correction off its list: the fence of every request goes down.
LEMMA StoreStepKeeps ==
    ASSUME IInv, StoreNext, TypeOK', UNCHANGED <<pc, known, chosen, used>>
    PROVE  IInv'
<1>1. StoreInv'
  BY StoreNextInv DEF IInv
<1>2. RevisionSum' > RevisionSum /\ RevisionSum \in Nat /\ RevisionSum' \in Nat
  BY StoreStepMovesSum, SumIsNat DEF IInv
<1>3. RowsInPhase'
  BY DEF IInv, RowsInPhase
<1>4. ASSUME NEW p \in Slots, known[p] \in Nat PROVE known[p] < RevisionSum'
  BY <1>2, <1>4 DEF IInv, KnownIsPast
<1>5. KnownIsPast'
  BY <1>2, <1>4 DEF KnownIsPast
<1>6. \A p \in Slots : known[p] # RevisionSum'
  BY <1>2, <1>4
<1>7. FenceGuardsRows'
  BY <1>6 DEF FenceGuardsRows
<1> QED
  BY <1>1, <1>3, <1>5, <1>7 DEF IInv

\* A step that leaves the store alone leaves the sum and the rows alone.
LEMMA StoreAside ==
    ASSUME IInv, UNCHANGED store
    PROVE  /\ StoreInv' /\ StoreTypeOK'
           /\ RevisionSum' = RevisionSum /\ RevisionSum \in Nat
           /\ status' = status
  BY StoreUnchangedKeeps, SumIsNat DEF IInv, StoreInv, StoreTypeOK, RevisionSum, store

\* One lemma for each phase of a request: reading the rows...
LEMMA ReadingKeeps ==
    ASSUME IInv, NEW q \in Slots,
           \/ ReadRevision(q)
           \/ \E g \in Scopes : ReadRow(q, g)
           \/ ReuseFails(q)
           \/ \E U \in SUBSET chosen[q] : ApplyChoices(q, U)
    PROVE  IInv'
<1>1. UNCHANGED store
  BY DEF ReadRevision, ReadRow, ReuseFails, ApplyChoices
<1>2. /\ StoreInv' /\ StoreTypeOK' /\ RevisionSum' = RevisionSum /\ RevisionSum \in Nat
      /\ status' = status
  BY <1>1, StoreAside
<1> USE DEF IInv
<1>3. CASE ReadRevision(q)
  <2>1. used[q] = {} /\ chosen[q] = {}
    BY <1>3 DEF ReadRevision, RowsInPhase
  <2>2. TypeOK' /\ RowsInPhase'
    BY <1>2, <1>3, <2>1 DEF ReadRevision, Goto, TypeOK, RowsInPhase
  <2>3. KnownIsPast'
    BY <1>2, <1>3 DEF ReadRevision, TypeOK, KnownIsPast
  <2>4. FenceGuardsRows'
    BY <1>2, <1>3, <2>1 DEF ReadRevision, TypeOK, FenceGuardsRows
  <2> QED
    BY <1>2, <2>2, <2>3, <2>4
<1>4. ASSUME NEW g \in Scopes, ReadRow(q, g) PROVE IInv'
  <2>1. Reusable(g) \subseteq {k \in Keys : status[k] \in Shared}
    BY DEF Reusable
  <2>2. TypeOK' /\ RowsInPhase'
    BY <1>2, <1>4, <2>1 DEF ReadRow, TypeOK, RowsInPhase
  <2>3. KnownIsPast'
    BY <1>2, <1>4 DEF ReadRow, KnownIsPast
  <2>4. FenceGuardsRows'
    BY <1>2, <1>4, <2>1 DEF ReadRow, TypeOK, FenceGuardsRows
  <2> QED
    BY <1>2, <2>2, <2>3, <2>4
<1>5. CASE ReuseFails(q)
  <2>1. TypeOK' /\ RowsInPhase'
    BY <1>2, <1>5 DEF ReuseFails, Goto, TypeOK, RowsInPhase
  <2>2. KnownIsPast'
    BY <1>2, <1>5 DEF ReuseFails, KnownIsPast
  <2>3. FenceGuardsRows'
    BY <1>2, <1>5 DEF ReuseFails, TypeOK, FenceGuardsRows
  <2> QED
    BY <1>2, <2>1, <2>2, <2>3
<1>6. ASSUME NEW U \in SUBSET chosen[q], ApplyChoices(q, U) PROVE IInv'
  <2>1. TypeOK'
    BY <1>2, <1>6 DEF ApplyChoices, Goto, TypeOK
  <2>2. RowsInPhase'
    BY <1>6 DEF ApplyChoices, Goto, TypeOK, RowsInPhase
  <2>3. KnownIsPast'
    BY <1>2, <1>6 DEF ApplyChoices, KnownIsPast
  <2>4. FenceGuardsRows'
    BY <1>2, <1>6 DEF ApplyChoices, TypeOK, FenceGuardsRows
  <2> QED
    BY <1>2, <2>1, <2>2, <2>3, <2>4
<1> QED
  BY <1>3, <1>4, <1>5, <1>6

\* ... asking the AI and writing its corrections ...
LEMMA VerifyingKeeps ==
    ASSUME IInv, NEW q \in Slots,
           \/ \E F \in SUBSET Keys : Verify(q, F)
           \/ VerifyWithoutEvidence(q)
           \/ \E k \in Keys : CaptureNothing(q, k)
           \/ Refresh(q)
    PROVE  IInv'
<1>1. UNCHANGED store
  BY DEF Verify, VerifyWithoutEvidence, CaptureNothing, Refresh
<1>2. /\ StoreInv' /\ StoreTypeOK' /\ RevisionSum' = RevisionSum /\ RevisionSum \in Nat
      /\ status' = status
  BY <1>1, StoreAside
<1> USE DEF IInv
<1>3. CASE (\E F \in SUBSET Keys : Verify(q, F)) \/ VerifyWithoutEvidence(q)
           \/ (\E k \in Keys : CaptureNothing(q, k))
  <2>1. TypeOK'
    BY <1>2, <1>3 DEF Verify, VerifyWithoutEvidence, CaptureNothing, Goto, TypeOK
  <2>2. RowsInPhase'
    BY <1>3 DEF Verify, VerifyWithoutEvidence, CaptureNothing, Goto, TypeOK, RowsInPhase
  <2>3. UNCHANGED <<known, chosen, used>>
    BY <1>3 DEF Verify, VerifyWithoutEvidence, CaptureNothing
  <2>4. KnownIsPast' /\ FenceGuardsRows'
    BY <1>2, <2>3 DEF KnownIsPast, FenceGuardsRows
  <2> QED
    BY <1>2, <2>1, <2>2, <2>4
<1>4. CASE Refresh(q)
  <2>1. PICK r \in {RevisionSum, NoRevision, known[q]} :
          /\ known' = [known EXCEPT ![q] = r]
          /\ r # known[q] => used[q] = {}
    BY <1>4 DEF Refresh
  <2>2. chosen[q] = {}
    BY <1>4 DEF Refresh, RowsInPhase
  <2>3. TypeOK'
    BY <1>2, <1>4, <2>1 DEF Refresh, Goto, TypeOK
  <2>4. RowsInPhase'
    BY <1>4 DEF Refresh, Goto, TypeOK, RowsInPhase
  <2>5. KnownIsPast'
    BY <1>2, <2>1, SlotAssumption DEF TypeOK, KnownIsPast
  <2>6. UNCHANGED <<chosen, used>>
    BY <1>4 DEF Refresh
  <2>7. FenceGuardsRows'
    BY <1>2, <2>1, <2>2, <2>6 DEF TypeOK, FenceGuardsRows
  <2> QED
    BY <1>2, <2>3, <2>4, <2>5, <2>7
<1> QED
  BY <1>3, <1>4

\* ... beginning and ending.
LEMMA BoundaryKeeps ==
    ASSUME IInv, NEW q \in Slots,
           \/ \E S \in SUBSET Scopes \ {{}}, d \in Identity : Begin(q, S, d)
           \/ Deliver(q)
           \/ DeliverBaseline(q)
           \/ RevisionFails(q)
    PROVE  IInv'
<1>1. UNCHANGED store
  BY DEF Begin, Deliver, DeliverBaseline, RevisionFails, Discard
<1>2. /\ StoreInv' /\ StoreTypeOK' /\ RevisionSum' = RevisionSum /\ RevisionSum \in Nat
      /\ status' = status
  BY <1>1, StoreAside
<1> USE DEF IInv
<1>3. CASE \E S \in SUBSET Scopes \ {{}}, d \in Identity : Begin(q, S, d)
  <2>1. TypeOK'
    BY <1>2, <1>3 DEF Begin, Goto, TypeOK
  <2>2. RowsInPhase'
    BY <1>3 DEF Begin, Goto, TypeOK, RowsInPhase
  <2>3. KnownIsPast' /\ FenceGuardsRows'
    BY <1>2, <1>3 DEF Begin, KnownIsPast, FenceGuardsRows
  <2> QED
    BY <1>2, <2>1, <2>2, <2>3
<1>4. CASE Deliver(q) \/ DeliverBaseline(q) \/ RevisionFails(q)
  <2>1. Discard(q)
    BY <1>4 DEF Deliver, DeliverBaseline, RevisionFails
  <2>2. shown' \in [Slots -> SUBSET Keys]
    BY <1>4 DEF Deliver, DeliverBaseline, RevisionFails, TypeOK
  <2>3. TypeOK'
    BY <1>2, <2>1, <2>2 DEF Discard, Goto, TypeOK
  <2>4. RowsInPhase'
    BY <1>4, <2>1 DEF Deliver, DeliverBaseline, RevisionFails, Discard, Goto, TypeOK, RowsInPhase
  <2>5. KnownIsPast'
    BY <1>2, <2>1, SlotAssumption DEF Discard, TypeOK, KnownIsPast
  <2>6. FenceGuardsRows'
    BY <1>2, <2>1, SlotAssumption DEF Discard, TypeOK, FenceGuardsRows
  <2> QED
    BY <1>2, <2>3, <2>4, <2>5, <2>6
<1> QED
  BY <1>3, <1>4

----------------------------------------------------------------------------
\* Every step of the system keeps the invariant.
LEMMA NextInv == IInv /\ [Next]_vars => IInv'
<1> SUFFICES ASSUME IInv, [Next]_vars PROVE IInv'
  OBVIOUS
<1>1. ASSUME NEW p \in Slots, RequestStep(p) PROVE IInv'
  <2>1. ASSUME NEW k \in Keys, Capture(p, k) PROVE IInv'
    <3>1. ident[p] \in Identity
      BY DEF IInv, TypeOK
    <3>2. ident[p].request \in RequestIds /\ ident[p].context \in Contexts
          /\ ident[p].actor \in Actors
      BY <3>1 DEF Identity
    <3>3. StoreNext
      BY <2>1, <3>2 DEF Capture, StoreNext
    <3>4. StoreTypeOK'
      BY <3>3, StoreNextInv DEF IInv, StoreInv
    <3>5. TypeOK' /\ UNCHANGED <<pc, known, chosen, used>>
      BY <2>1, <3>4 DEF Capture, IInv, TypeOK
    <3> QED
      BY <3>3, <3>5, StoreStepKeeps
  <2> QED
    BY <1>1, <2>1, ReadingKeeps, VerifyingKeeps, BoundaryKeeps DEF RequestStep
<1>2. ASSUME NEW S \in SUBSET Keys, Moderate(S) PROVE IInv'
  <2>1. StoreNext /\ UNCHANGED request
    BY <1>2 DEF Moderate, StoreNext
  <2>2. StoreTypeOK'
    BY <2>1, StoreNextInv DEF IInv, StoreInv
  <2>3. TypeOK' /\ UNCHANGED <<pc, known, chosen, used>>
    BY <2>1, <2>2 DEF request, IInv, TypeOK
  <2> QED
    BY <2>1, <2>3, StoreStepKeeps
<1>3. CASE UNCHANGED vars
  <2>1. UNCHANGED store /\ UNCHANGED request
    BY <1>3 DEF vars
  <2>2. /\ StoreInv' /\ StoreTypeOK' /\ RevisionSum' = RevisionSum
        /\ status' = status
    BY <2>1, StoreAside
  <2>3. TypeOK' /\ RowsInPhase' /\ KnownIsPast' /\ FenceGuardsRows'
    BY <2>1, <2>2 DEF IInv, TypeOK, RowsInPhase, KnownIsPast, FenceGuardsRows, request
  <2> QED
    BY <2>2, <2>3 DEF IInv
<1> QED
  BY <1>1, <1>2, <1>3, BoundaryKeeps DEF Next

\* The invariant holds in every state.
THEOREM RequestsInvariant == Spec => []IInv
  BY InitInv, NextInv, PTL DEF Spec

\* The requests' variables stay in their types.
THEOREM RequestTypesKept == Spec => []TypeOK
<1>1. IInv => TypeOK
  BY DEF IInv
<1> QED
  BY <1>1, RequestsInvariant, PTL

\* Under the revision a request holds, no row it looked up lost its sharing.
THEOREM FenceHolds == Spec => []FenceGuardsRows
<1>1. IInv => FenceGuardsRows
  BY DEF IInv
<1> QED
  BY <1>1, RequestsInvariant, PTL

\* No answer carries a meaning that is revoked or under review when the
\* request's last check passes.
THEOREM AnswersAreShared == Spec => AnswersOnlySharedMeanings
<1> DEFINE Answer == \A p \in Slots :
                       pc[p] = "deliver" /\ pc'[p] = "idle" =>
                           \A k \in shown'[p] : status[k] \in Shared
<1>1. IInv /\ [Next]_vars => [Answer]_vars
  <2> SUFFICES ASSUME IInv, Next, NEW p \in Slots, pc[p] = "deliver", pc'[p] = "idle"
               PROVE  \A k \in shown'[p] : status[k] \in Shared
    OBVIOUS
  <2>1. Deliver(p) \/ DeliverBaseline(p) \/ RevisionFails(p)
    <3>1. ASSUME NEW q \in Slots, RequestStep(q), ~(Deliver(q) \/ DeliverBaseline(q))
          PROVE  FALSE
      <4>1. \/ pc' = pc
            \/ \E step \in {"rows", "verify", "capture", "deliver"} :
                   pc' = [pc EXCEPT ![q] = step]
        BY <3>1 DEF RequestStep, ReadRevision, ReadRow, ReuseFails, ApplyChoices, Verify,
                    VerifyWithoutEvidence, Capture, CaptureNothing, Refresh, Goto
      <4> QED
        BY <4>1 DEF IInv, TypeOK
    <3>2. ASSUME NEW q \in Slots, Deliver(q) \/ DeliverBaseline(q) \/ RevisionFails(q)
          PROVE  q = p
      BY <3>2 DEF Deliver, DeliverBaseline, RevisionFails, Discard, Goto, IInv, TypeOK
    <3>3. ASSUME NEW q \in Slots, NEW S \in SUBSET Scopes, NEW d \in Identity, Begin(q, S, d)
          PROVE  FALSE
      BY <3>3 DEF Begin, Goto, IInv, TypeOK
    <3>4. ASSUME NEW S \in SUBSET Keys, Moderate(S) PROVE FALSE
      BY <3>4 DEF Moderate, request
    <3> QED
      BY <3>1, <3>2, <3>3, <3>4 DEF Next
  <2>2. CASE Deliver(p)
    <3>1. shown'[p] = used[p]
      BY <2>2 DEF Deliver, IInv, TypeOK
    <3>2. used[p] = {} \/ known[p] = RevisionSum
      BY <2>2 DEF Deliver, Fresh, Current
    <3> QED
      BY <3>1, <3>2 DEF IInv, FenceGuardsRows
  <2>3. CASE DeliverBaseline(p) \/ RevisionFails(p)
    BY <2>3 DEF DeliverBaseline, RevisionFails, IInv, TypeOK
  <2> QED
    BY <2>1, <2>2, <2>3
<1> QED
  BY <1>1, RequestsInvariant, PTL DEF Spec, AnswersOnlySharedMeanings

\* Requests and administrators only ever drive the store by its own
\* transactions: every theorem about StoreSpec holds of the whole system.
THEOREM RequestsRunTheStore == Spec => StoreSpec
<1>1. Init => StoreInit
  BY DEF Init
<1>2. IInv /\ [Next]_vars => [StoreNext]_store
  <2> SUFFICES ASSUME IInv, [Next]_vars PROVE StoreNext \/ UNCHANGED store
    OBVIOUS
  <2>1. ASSUME NEW p \in Slots, RequestStep(p) PROVE StoreNext \/ UNCHANGED store
    <3>1. ASSUME NEW k \in Keys, Capture(p, k) PROVE StoreNext
      <4>1. ident[p] \in Identity
        BY DEF IInv, TypeOK
      <4> QED
        BY <3>1, <4>1 DEF Capture, StoreNext, Identity
    <3> QED
      BY <2>1, <3>1 DEF RequestStep, ReadRevision, ReadRow, ReuseFails, ApplyChoices, Verify,
         VerifyWithoutEvidence, CaptureNothing, Refresh, Deliver, DeliverBaseline, Discard
  <2> QED
    BY <2>1 DEF Next, Begin, RevisionFails, Discard, Moderate, StoreNext, vars
<1> QED
  BY <1>1, <1>2, RequestsInvariant, PTL DEF Spec, StoreSpec
=============================================================================
