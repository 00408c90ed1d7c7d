----------------------------- MODULE MeaningStore -----------------------------
(***************************************************************************)
(* The governed store of meanings inferred by the AI (AIMeaningRepository, *)
(* backend/app/data_manager/ai_meaning_repo.py).  A row is a meaning of an *)
(* abbreviation in one scope.  Requests add evidence to rows; enough       *)
(* independent evidence lets a row be shared with other requests; a        *)
(* competing meaning in the same scope quarantines both; an administrator  *)
(* confirms or revokes.                                                    *)
(*                                                                         *)
(* record and moderate run under one exclusive application lock            *)
(* (transaction, sp_getapplock), so each is one atomic action here.        *)
(***************************************************************************)
EXTENDS Integers, FiniteSets

CONSTANTS
    Scopes,        \* (abbr, domain, scope fingerprint): rows of one scope compete
    Unscoped,      \* the scopes whose text gave no two-word anchor
    Meanings,
    RequestIds,    \* request fingerprints (Idempotency-Key)
    Contexts,      \* context fingerprints (the masked sentence)
    Actors,        \* users in production, login sessions elsewhere
    MinEvidence,   \* 3 in the code
    MinActors,     \* 2 users in production, 3 sessions elsewhere
    MaxRevisions   \* bound: moderation stops once the revisions sum to it

ASSUME StoreAssumption ==
    /\ IsFiniteSet(Scopes) /\ IsFiniteSet(Meanings)
    /\ Unscoped \subseteq Scopes
    /\ MinEvidence \in Nat /\ MinActors \in Nat /\ MaxRevisions \in Nat

Keys == Scopes \X Meanings

Evidence == [key: Keys, request: RequestIds, context: Contexts, actor: Actors]

\* "absent" is a row that was never inserted; the others are the code's STATES.
States == {"candidate", "conditional_shared", "confirmed", "needs_review", "revoked"}
Status == States \cup {"absent"}
Shared == {"conditional_shared", "confirmed"}

VARIABLES
    status,         \* key -> status of its row
    rev,            \* key -> revision column of its row
    evidenceCount,  \* key -> evidence_count column of its row
    evidence,       \* the ai_meaning_evidence table
    audited         \* key -> the revisions that have an audit row

store == <<status, rev, evidenceCount, evidence, audited>>

StoreTypeOK ==
    /\ status \in [Keys -> Status]
    /\ rev \in [Keys -> Nat]
    /\ evidenceCount \in [Keys -> Nat]
    /\ evidence \in SUBSET Evidence
    /\ audited \in [Keys -> SUBSET Nat]

StoreInit ==
    /\ status = [k \in Keys |-> "absent"]
    /\ rev = [k \in Keys |-> 0]
    /\ evidenceCount = [k \in Keys |-> 0]
    /\ evidence = {}
    /\ audited = [k \in Keys |-> {}]

\* revision(): SUM(revision) over the table, counted as the revisions its rows
\* have gone through.
RevisionSum == Cardinality(UNION {{k} \X (1..rev[k]) : k \in Keys})

Live(k) == status[k] \notin {"absent", "revoked"}

\* Mutant of Competing: only meanings already shared count as competitors.
CompetingIfShared(k) == {j \in Keys : j[1] = k[1] /\ j # k /\ status[j] \in Shared}

\* The peers of k that are neither k's own row nor revoked.
Competing(k) == {j \in Keys : j[1] = k[1] /\ j # k /\ Live(j)}

EvidenceOf(k) == {e \in evidence : e.key = k}
RequestsOf(k) == {e.request : e \in EvidenceOf(k)}
ContextsOf(k) == {e.context : e \in EvidenceOf(k)}
ActorsOf(k) == {e.actor : e \in EvidenceOf(k)}

\* Mutant of Duplicate: a copied sentence in a new request is not recognised.
DuplicateRequestOnly(k, i, c) == i \in RequestsOf(k)

\* A request or a sentence already counted for k: copies and repeats add nothing.
Duplicate(k, i, c) == i \in RequestsOf(k) \/ c \in ContextsOf(k)

----------------------------------------------------------------------------
\* _transition and _audit, for every row a transaction touches: row j moves
\* bump[j] revisions on, and each revision it passes gets its audit row.
Revise(bump) ==
    /\ rev' = [j \in Keys |-> rev[j] + bump[j]]
    /\ audited' = [j \in Keys |-> audited[j] \cup ((rev[j] + 1)..(rev[j] + bump[j]))]

\* What inserting the evidence row costs k: a new row is created at revision 1.
Insertion(k) == IF status[k] = "absent" THEN 2 ELSE 1

AddEvidence(k, i, c, a) ==
    /\ status[k] # "revoked"          \* a tombstone takes no evidence
    /\ ~Duplicate(k, i, c)
    /\ evidence' = evidence \cup {[key |-> k, request |-> i, context |-> c, actor |-> a]}
    /\ evidenceCount' = [evidenceCount EXCEPT ![k] = @ + 1]

EnoughEvidence(k, a) ==
    /\ k[1] \notin Unscoped
    /\ status[k] \in {"absent", "candidate"}
    /\ evidenceCount[k] + 1 >= MinEvidence
    /\ Cardinality(ActorsOf(k) \cup {a}) >= MinActors

\* Another live meaning in the scope: k and every competitor need review.
RecordCompeting(k, i, c, a) ==
    /\ Competing(k) # {}
    /\ AddEvidence(k, i, c, a)
    /\ LET moved == {j \in Competing(k) \cup {k} : status[j] # "needs_review"}
           bump == [j \in Keys |-> (IF j = k THEN Insertion(k) ELSE 0)
                                   + (IF j \in moved THEN 1 ELSE 0)]
       IN /\ status' = [j \in Keys |-> IF j \in moved THEN "needs_review" ELSE status[j]]
          /\ Revise(bump)

\* No competitor, and this evidence completes the policy's threshold.
RecordPromoting(k, i, c, a) ==
    /\ Competing(k) = {}
    /\ EnoughEvidence(k, a)
    /\ AddEvidence(k, i, c, a)
    /\ status' = [status EXCEPT ![k] = "conditional_shared"]
    /\ Revise([j \in Keys |-> IF j = k THEN Insertion(k) + 1 ELSE 0])

\* No competitor and no promotion: the evidence is only counted.
RecordCounting(k, i, c, a) ==
    /\ Competing(k) = {}
    /\ ~EnoughEvidence(k, a)
    /\ AddEvidence(k, i, c, a)
    /\ status' = [status EXCEPT ![k] = IF @ = "absent" THEN "candidate" ELSE @]
    /\ Revise([j \in Keys |-> IF j = k THEN Insertion(k) ELSE 0])

Record(k, i, c, a) ==
    \/ RecordCompeting(k, i, c, a)
    \/ RecordPromoting(k, i, c, a)
    \/ RecordCounting(k, i, c, a)

----------------------------------------------------------------------------
\* moderate: one transaction over a batch of existing rows; one row that may
\* not be confirmed fails the whole batch, which then changes nothing.
ModerateTo(S, st) ==
    /\ RevisionSum < MaxRevisions
    /\ S # {} /\ \A k \in S : status[k] # "absent"
    /\ status' = [k \in Keys |-> IF k \in S THEN st ELSE status[k]]
    /\ Revise([k \in Keys |-> IF k \in S THEN 1 ELSE 0])
    /\ UNCHANGED <<evidenceCount, evidence>>

\* Mutant of Confirm: a revoked row may be confirmed.
ConfirmReviving(S) ==
    /\ \A k \in S : Competing(k) = {}
    /\ ModerateTo(S, "confirmed")

\* Mutant of Confirm: competing meanings may be confirmed side by side.
ConfirmUnopposed(S) ==
    /\ \A k \in S : status[k] # "revoked"
    /\ ModerateTo(S, "confirmed")

Confirm(S) ==
    /\ \A k \in S : status[k] # "revoked" /\ Competing(k) = {}
    /\ ModerateTo(S, "confirmed")

Revoke(S) == ModerateTo(S, "revoked")

StoreNext ==
    \/ \E k \in Keys, i \in RequestIds, c \in Contexts, a \in Actors : Record(k, i, c, a)
    \/ \E S \in SUBSET Keys : Confirm(S)
    \/ \E S \in SUBSET Keys : Revoke(S)

StoreSpec == StoreInit /\ [][StoreNext]_store

\* reusable: the one shared row of an anchored scope, if there is exactly one.
Reusable(g) ==
    LET rows == {k \in Keys : k[1] = g /\ status[k] \in Shared}
    IN IF g \notin Unscoped /\ Cardinality(rows) = 1 THEN rows ELSE {}

\* The store implements SharedMeanings: what each scope shares, and what an
\* administrator has revoked (record, moderate).
Promise == INSTANCE SharedMeanings WITH
    shared <- [g \in Scopes |-> {m \in Meanings : status[<<g, m>>] \in Shared}],
    tomb   <- {k \in Keys : status[k] = "revoked"}

ImplementsSharedMeanings == Promise!Spec

----------------------------------------------------------------------------
\* Competing meanings never coexist unreviewed: two live rows of one scope are
\* both in needs_review, so no request can reuse either (record, moderate).
CompetingQuarantined ==
    \A j, k \in Keys :
        j[1] = k[1] /\ j # k /\ Live(j) /\ Live(k) =>
            status[j] = "needs_review" /\ status[k] = "needs_review"

\* A row shared without an administrator rests on MinEvidence evidence rows,
\* no two from one request or one sentence, by MinActors different actors,
\* all of it in an anchored scope (record's threshold and its two
\* uniqueness constraints).
SharedOnIndependentEvidence ==
    \A k \in Keys :
        status[k] = "conditional_shared" =>
            /\ k[1] \notin Unscoped
            /\ Cardinality(RequestsOf(k)) >= MinEvidence
            /\ Cardinality(ContextsOf(k)) >= MinEvidence
            /\ Cardinality(ActorsOf(k)) >= MinActors

\* Every revision a row has gone through left exactly one audit row, so an
\* administrator can account for every count of the fence (_transition, _audit).
AuditComplete == \A k \in Keys : audited[k] = 1..rev[k]

\* A revoked meaning is never revived, whatever evidence or batch comes later
\* (the tombstone in record, the check in moderate), and gains no evidence.
TombstonePermanent ==
    [][\A k \in Keys : status[k] = "revoked" =>
           status'[k] = "revoked" /\ evidenceCount'[k] = evidenceCount[k]]_store
=============================================================================
