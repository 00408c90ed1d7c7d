---------------------------- MODULE MeaningRequests ---------------------------
(***************************************************************************)
(* Live requests over the meaning store: RequestMeanings                   *)
(* (normalizer/ai_meanings.py) as apply_semantic_verification              *)
(* (normalizer/live_normalizer.py) drives it.  A request takes the store's *)
(* revision, reads reusable rows one by one, applies them if the revision  *)
(* still holds, waits for the AI, writes the AI's corrections as evidence, *)
(* and is delivered only if nothing it reused can have changed.            *)
(*                                                                         *)
(* Every read and write is a transaction of its own, so requests and       *)
(* administrators interleave between any two of these steps.               *)
(***************************************************************************)
EXTENDS MeaningStore

CONSTANTS
    Slots,        \* requests the workers run at the same time
    NoRevision    \* self.revision = None

ASSUME SlotAssumption == NoRevision \notin Int

VARIABLES
    pc,       \* slot -> where its request is
    ident,    \* slot -> the fingerprints the request would leave as evidence
    known,    \* slot -> RequestMeanings.revision
    asked,    \* slot -> the scopes of the text's open ambiguities
    unread,   \* slot -> those reuse has still to look up
    chosen,   \* slot -> shared rows looked up so far (choices)
    used,     \* slot -> rows applied to the text (RequestMeanings.used)
    found,    \* slot -> corrections of the AI still to be captured
    shown     \* slot -> shared rows in the last answer given to the user

request == <<pc, ident, known, asked, unread, chosen, used, found, shown>>
vars == <<store, request>>

Identity == [request: RequestIds, context: Contexts, actor: Actors]

TypeOK ==
    /\ StoreTypeOK
    /\ pc \in [Slots -> {"idle", "revision", "rows", "verify", "capture", "deliver"}]
    /\ ident \in [Slots -> Identity]
    /\ known \in [Slots -> Nat \cup {NoRevision}]
    /\ asked \in [Slots -> SUBSET Scopes]
    /\ unread \in [Slots -> SUBSET Scopes]
    /\ chosen \in [Slots -> SUBSET Keys]
    /\ used \in [Slots -> SUBSET Keys]
    /\ found \in [Slots -> SUBSET Keys]
    /\ shown \in [Slots -> SUBSET Keys]

Init ==
    /\ StoreInit
    /\ pc = [p \in Slots |-> "idle"]
    /\ ident \in {[p \in Slots |-> d] : d \in Identity}
    /\ known = [p \in Slots |-> NoRevision]
    /\ asked = [p \in Slots |-> {}]
    /\ unread = [p \in Slots |-> {}]
    /\ chosen = [p \in Slots |-> {}]
    /\ used = [p \in Slots |-> {}]
    /\ found = [p \in Slots |-> {}]
    /\ shown = [p \in Slots |-> {}]

\* current: the revision is known and the store still answers the same one.
Current(p) == known[p] # NoRevision /\ RevisionSum = known[p]

\* dictionary_is_current as far as the store decides it: the revision matters
\* only to a request that reused a row.
Fresh(p) == used[p] = {} \/ Current(p)

Goto(p, step) == pc' = [pc EXCEPT ![p] = step]

\* A request arrives; the dataset left the scopes of S ambiguous.
Begin(p, S, d) ==
    /\ pc[p] = "idle"
    /\ Goto(p, "revision")
    /\ ident' = [ident EXCEPT ![p] = d]
    /\ asked' = [asked EXCEPT ![p] = S]
    /\ unread' = [unread EXCEPT ![p] = S]
    /\ shown' = [shown EXCEPT ![p] = {}]
    /\ UNCHANGED <<store, known, chosen, used, found>>

\* reuse, first statement.
ReadRevision(p) ==
    /\ pc[p] = "revision"
    /\ known' = [known EXCEPT ![p] = RevisionSum]
    /\ Goto(p, "rows")
    /\ UNCHANGED <<store, ident, asked, unread, chosen, used, found, shown>>

\* One reusable() query per ambiguity.
ReadRow(p, g) ==
    /\ pc[p] = "rows"
    /\ g \in unread[p]
    /\ unread' = [unread EXCEPT ![p] = @ \ {g}]
    /\ chosen' = [chosen EXCEPT ![p] = @ \cup Reusable(g)]
    /\ UNCHANGED <<store, pc, ident, known, asked, used, found, shown>>

\* A read fails: reuse gives up with a warning and nothing applied.
ReuseFails(p) ==
    /\ pc[p] \in {"revision", "rows"}
    /\ unread' = [unread EXCEPT ![p] = {}]
    /\ chosen' = [chosen EXCEPT ![p] = {}]
    /\ Goto(p, "verify")
    /\ UNCHANGED <<store, ident, known, asked, used, found, shown>>

\* Mutant of ApplyChoices: the revision is taken when the rows are applied.
ApplyUnderNewRevision(p, U) ==
    /\ pc[p] = "rows" /\ unread[p] = {}
    /\ U \subseteq chosen[p]
    /\ used' = [used EXCEPT ![p] = U]
    /\ known' = [known EXCEPT ![p] = RevisionSum]
    /\ asked' = [asked EXCEPT ![p] = @ \ {k[1] : k \in U}]
    /\ chosen' = [chosen EXCEPT ![p] = {}]
    /\ Goto(p, "verify")
    /\ UNCHANGED <<store, ident, unread, found, shown>>

\* The choices are applied only under an unchanged revision; a choice whose
\* abbreviation does not occur exactly once in the output is passed over.
ApplyChoices(p, U) ==
    /\ pc[p] = "rows" /\ unread[p] = {}
    /\ U \subseteq chosen[p]
    /\ U # {} => Current(p)
    /\ used' = [used EXCEPT ![p] = U]
    /\ asked' = [asked EXCEPT ![p] = @ \ {k[1] : k \in U}]
    /\ chosen' = [chosen EXCEPT ![p] = {}]
    /\ Goto(p, "verify")
    /\ UNCHANGED <<store, ident, known, unread, found, shown>>

\* The AI answers a current request: its fresh corrections of ambiguities
\* that reuse left open are to become evidence.
Verify(p, F) ==
    /\ pc[p] = "verify"
    /\ Fresh(p)
    /\ F \subseteq {k \in Keys : k[1] \in asked[p]}
    /\ found' = [found EXCEPT ![p] = F]
    /\ Goto(p, "capture")
    /\ UNCHANGED <<store, ident, known, asked, unread, chosen, used, shown>>

\* Mutant of VerifyWithoutEvidence: a request that lost its revision waits.
VerifyWhileFresh(p) ==
    /\ pc[p] = "verify" /\ Fresh(p)
    /\ Goto(p, "deliver")
    /\ UNCHANGED <<store, ident, known, asked, unread, chosen, used, found, shown>>

\* No evidence: the answer is cached, a retry, unusable or failed, the request
\* is no longer current, or there was nothing to ask.
VerifyWithoutEvidence(p) ==
    /\ pc[p] = "verify"
    /\ Goto(p, "deliver")
    /\ UNCHANGED <<store, ident, known, asked, unread, chosen, used, found, shown>>

\* capture: each correction is a transaction of its own.
Capture(p, k) ==
    /\ pc[p] = "capture" /\ k \in found[p]
    /\ Record(k, ident[p].request, ident[p].context, ident[p].actor)
    /\ found' = [found EXCEPT ![p] = @ \ {k}]
    /\ UNCHANGED <<pc, ident, known, asked, unread, chosen, used, shown>>

\* The correction adds nothing: a copy, a revoked meaning or a failed write.
CaptureNothing(p, k) ==
    /\ pc[p] = "capture" /\ k \in found[p]
    /\ found' = [found EXCEPT ![p] = @ \ {k}]
    /\ UNCHANGED <<store, pc, ident, known, asked, unread, chosen, used, shown>>

\* Mutant of Refresh: the revision is taken anew by every request.
RefreshAlways(p) ==
    /\ pc[p] = "capture" /\ found[p] = {}
    /\ known' = [known EXCEPT ![p] = RevisionSum]
    /\ Goto(p, "deliver")
    /\ UNCHANGED <<store, ident, asked, unread, chosen, used, found, shown>>

\* After the last write the revision is taken anew (None when that read
\* fails), but never by a request that reused a row.
Refresh(p) ==
    /\ pc[p] = "capture" /\ found[p] = {}
    /\ known' \in {[known EXCEPT ![p] = r] :
                     r \in IF used[p] = {} THEN {RevisionSum, NoRevision} ELSE {known[p]}}
    /\ Goto(p, "deliver")
    /\ UNCHANGED <<store, ident, asked, unread, chosen, used, found, shown>>

\* The request's RequestMeanings object goes with the answer.
Discard(p) ==
    /\ Goto(p, "idle")
    /\ known' = [known EXCEPT ![p] = NoRevision]
    /\ asked' = [asked EXCEPT ![p] = {}]
    /\ used' = [used EXCEPT ![p] = {}]
    /\ UNCHANGED <<store, ident, unread, chosen, found>>

\* The last dictionary_is_current check decides between the result and the
\* dataset baseline.  It may fail with no stale row: the dictionary revision
\* may have moved, or the read of the store's failed.
Deliver(p) ==
    /\ pc[p] = "deliver"
    /\ Fresh(p)
    /\ shown' = [shown EXCEPT ![p] = used[p]]
    /\ Discard(p)

DeliverBaseline(p) ==
    /\ pc[p] = "deliver"
    /\ shown' = [shown EXCEPT ![p] = {}]
    /\ Discard(p)

\* A check reads the dictionary's revision before the store's, and nothing
\* catches a failure of that read: the user gets an error and no text.
RevisionFails(p) ==
    /\ pc[p] \in {"verify", "deliver"}
    /\ shown' = [shown EXCEPT ![p] = {}]
    /\ Discard(p)

Moderate(S) ==
    /\ Confirm(S) \/ Revoke(S)
    /\ UNCHANGED request

RequestStep(p) ==
    \/ ReadRevision(p)
    \/ \E g \in Scopes : ReadRow(p, g)
    \/ ReuseFails(p)
    \/ \E U \in SUBSET chosen[p] : ApplyChoices(p, U)
    \/ \E F \in SUBSET Keys : Verify(p, F)
    \/ VerifyWithoutEvidence(p)
    \/ \E k \in Keys : Capture(p, k)
    \/ \E k \in Keys : CaptureNothing(p, k)
    \/ Refresh(p)
    \/ Deliver(p)
    \/ DeliverBaseline(p)

Next ==
    \/ \E p \in Slots, S \in SUBSET Scopes \ {{}}, d \in Identity : Begin(p, S, d)
    \/ \E p \in Slots : RequestStep(p) \/ RevisionFails(p)
    \/ \E S \in SUBSET Keys : Moderate(S)

Spec == Init /\ [][Next]_vars

\* A worker always finishes the request it runs, and not by a failure; nobody
\* has to send one.
FairSpec == Spec /\ \A p \in Slots : WF_vars(RequestStep(p))

----------------------------------------------------------------------------
\* A revoked or quarantined meaning never reaches a user: whatever happened
\* between looking a row up and answering, every shared row of an answer is
\* still shared at the moment its last check passes.
AnswersOnlySharedMeanings ==
    [][\A p \in Slots :
           pc[p] = "deliver" /\ pc'[p] = "idle" =>
               \A k \in shown'[p] : status[k] \in Shared]_vars

\* The fence behind it: as long as the sum of revisions is the one a request
\* took first, no row it has looked up since has lost its sharing.
FenceGuardsRows ==
    \A p \in Slots :
        known[p] = RevisionSum => \A k \in used[p] \cup chosen[p] : status[k] \in Shared

\* Every request is answered: with its result, with the dataset baseline or,
\* where a check fails to read, with an error.
RequestsAnswered == \A p \in Slots : pc[p] # "idle" ~> pc[p] = "idle"

\* "The user still receives the AI result within the session": a request that
\* reused a row reaches its last check still current when nobody else has
\* touched the store (meaningful for one slot and no moderation).
OwnEvidenceKeepsResult ==
    \A p \in Slots : pc[p] = "deliver" /\ used[p] # {} => Current(p)
=============================================================================
