---------------------------- MODULE SharedMeanings ----------------------------
(***************************************************************************)
(* What the meaning store promises a reader, without rows, evidence or     *)
(* revisions: each scope shares at most one meaning; a shared meaning is   *)
(* withdrawn before another one takes its place; an administrator's        *)
(* revocation is final.                                                    *)
(***************************************************************************)
CONSTANTS Scopes, Meanings

VARIABLES
    shared,   \* scope -> the set of meanings other requests may reuse
    tomb      \* the revoked <<scope, meaning>> pairs

Init ==
    /\ shared = [g \in Scopes |-> {}]
    /\ tomb = {}

\* One transaction may touch several scopes: in each it keeps the sharing,
\* withdraws it, or starts sharing where nothing was shared.
Step ==
    /\ tomb \subseteq tomb'
    /\ \A g \in Scopes :
          \/ shared'[g] = shared[g]
          \/ shared'[g] = {}
          \/ shared[g] = {} /\ \E m \in Meanings : shared'[g] = {m}
    /\ \A g \in Scopes : \A m \in shared'[g] : <<g, m>> \notin tomb'

View == <<shared, tomb>>

Spec == Init /\ [][Step]_View
=============================================================================
