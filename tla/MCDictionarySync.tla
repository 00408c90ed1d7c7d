--------------------------- MODULE MCDictionarySync ---------------------------
(* DictionarySync for TLC.  View forgets what no later step can read: cache  *)
(* entries under a label that is no longer looked up, and the history of     *)
(* such labels.                                                              *)
EXTENDS DictionarySync, TLC

Symmetry == Permutations(Entries) \cup Permutations(Workers)
              \cup Permutations(Admins) \cup Permutations(Requests)

\* The labels requests of worker k may still look up or be judged by.
InUse(k) == {revision} \cup
    {req[p].label : p \in {q \in Requests :
        req[q].home = k /\ req[q].pc \in {"boot", "file", "sql", "cache", "segment", "answer"}}}

Readable(cached, labels) == IF cached # None /\ cached.label \in labels THEN cached ELSE None

Past(h) == [r \in Revisions |->
              IF \E k \in Workers : r \in InUse(k) THEN h[r] ELSE h[revision]]

View == <<sql, sqlUp, json, revision, syncStatus, lock, sqlDown, admin, req,
          [k \in Workers |-> <<Readable(liveCache[k], {revision}),
                               Readable(bootCache[k], {revision}),
                               Readable(segCache[k], InUse(k))>>],
          Past(acked), Past(exported)>>
=============================================================================
