------------------------------ MODULE Moderation ------------------------------
(***************************************************************************)
(* From an unknown token to a dictionary entry: submissions, suggestions,  *)
(* approvals, rejections, administrators' edits and the seed script        *)
(* (abbreviation_repo.py, pending_service.py, main.py, routes.py).         *)
(*                                                                         *)
(* Every repository method is one SQL transaction under read committed:    *)
(* each read of another's committed rows is a step, and its writes with    *)
(* the commit are one step, since a row written stays locked until then.   *)
(* A service call is a sequence of such transactions; it may fail between  *)
(* any two steps.  Ids are given in the order of creation.                 *)
(***************************************************************************)
EXTENDS Naturals, Sequences, FiniteSets

CONSTANTS
    Keys,          \* (abbr, domain)
    Meanings,
    None,
    Sessions,      \* calls in progress
    Workers,       \* processes, each with its own replay cache
    Seeds,         \* key -> the seed file's record: expansion, alternatives
    MaxCalls,      \* bound: calls made
    MaxPending,    \* bound: rows of abbreviation_pending
    MaxEntries     \* bound: rows of abbreviations

ASSUME ModerationAssumption ==
    /\ None \notin Meanings /\ Keys # {} /\ Workers # {}
    /\ Seeds \in [Keys -> [expanded: Meanings, alternatives: SUBSET Meanings]]
    /\ MaxCalls \in Nat /\ MaxPending \in Nat /\ MaxEntries \in Nat

VARIABLES
    pending,    \* abbreviation_pending, oldest first
    entries,    \* abbreviations, the deactivated ones included
    exported,   \* approved_abbreviations.json: key -> its meanings
    replays,    \* worker -> key -> the pending id of _pending_submit_cache, or 0
    call,       \* session -> the call it runs
    made,       \* calls made so far
    \* history
    raced,      \* key -> insertions that another one of the key slipped in before
    released,   \* approved rows an edit or an overlap may have overtaken
    removed     \* key -> meanings an administrator took out and none put back

history == <<raced, released, removed>>
vars == <<pending, entries, exported, replays, call, made, history>>

PendingIds == 0..MaxPending
EntryIds == 0..MaxEntries
PendingRow == [key: Keys, first: Meanings \cup {None}, also: SUBSET Meanings,
               status: {"PENDING", "APPROVED", "REJECTED"}, entry: EntryIds]
EntryRow == [key: Keys, expanded: Meanings, alternatives: SUBSET Meanings,
             by: {"seed", "reviewer"}, active: BOOLEAN]
Stages == {"idle", "check", "replay", "select", "insert", "remember", "capture", "append",
           "approve", "entry", "enter", "reject", "upsert", "store", "delete", "sync", "readback"}
Call == [op: {"none", "submit", "add", "capture", "approve", "reject", "save", "delete", "seed"},
         pc: Stages, home: Workers, key: Keys, id: PendingIds,
         meaning: Meanings \cup {None}, alternatives: SUBSET Meanings, approves: BOOLEAN,
         first: Meanings \cup {None}, seen: SUBSET Meanings, row: EntryIds,
         overlapped: BOOLEAN]

TypeOK ==
    /\ pending \in Seq(PendingRow) /\ Len(pending) <= MaxPending
    /\ entries \in Seq(EntryRow) /\ Len(entries) <= MaxEntries
    /\ exported \in [Keys -> SUBSET Meanings]
    /\ replays \in [Workers -> [Keys -> PendingIds]]
    /\ call \in [Sessions -> Call] /\ made \in 0..MaxCalls
    /\ raced \in [Keys -> Nat] /\ released \subseteq PendingIds
    /\ removed \in [Keys -> SUBSET Meanings]

Idle(s) == call[s].pc = "idle"
IdleCall == [op |-> "none", pc |-> "idle", home |-> CHOOSE w \in Workers : TRUE,
             key |-> CHOOSE k \in Keys : TRUE, id |-> 0, meaning |-> None, alternatives |-> {},
             approves |-> FALSE, first |-> None, seen |-> {}, row |-> 0, overlapped |-> FALSE]

Init ==
    /\ pending = <<>> /\ entries = <<>>
    /\ exported = [k \in Keys |-> {}]
    /\ replays = [w \in Workers |-> [k \in Keys |-> 0]]
    /\ call = [s \in Sessions |-> IdleCall] /\ made = 0
    /\ raced = [k \in Keys |-> 0] /\ released = {}
    /\ removed = [k \in Keys |-> {}]

----------------------------------------------------------------------------
(* Rows.                                                                    *)

Open(k) == {i \in DOMAIN pending : pending[i].key = k /\ pending[i].status = "PENDING"}

\* _get_pending_meanings: the suggestion and the list beside it.
Suggested(row) == row.also \cup ({row.first} \ {None})

Active(k) == {e \in DOMAIN entries : entries[e].key = k /\ entries[e].active}

EntryMeanings(row) == {row.expanded} \cup row.alternatives

\* list_approved_abbreviations: what the dictionary serves for a key.
Served(k) == UNION {EntryMeanings(entries[e]) : e \in Active(k)}

\* load_abbreviation_records: an exported record replaces the seed file's.
FromFiles(k) == IF exported[k] = {} THEN EntryMeanings(Seeds[k]) ELSE exported[k]

\* get_approved_abbreviation_details: SQL first, the files when it has no row.
Approved(k) == IF Active(k) = {} THEN FromFiles(k) ELSE Served(k)

\* _merge_additional_meanings
Additional(primary, stored, candidates) == (stored \cup candidates) \ {primary}

\* The filtered unique index over active rows.
Free(k) == Active(k) = {}

NewEntry(k, expanded, alternatives, by) ==
    [key |-> k, expanded |-> expanded, alternatives |-> alternatives, by |-> by, active |-> TRUE]

----------------------------------------------------------------------------
(* Calls.                                                                   *)

\* Stages of a transaction that has read, of the rows of its key,
ReadOpen == {"insert"}                             \* which ones are open,
ReadSuggested == {"append", "entry", "enter"}      \* what one suggests,
ReadDictionary == {"enter", "store"}               \* the dictionary's entry.

\* Session s goes on, and what the others have read still is so.
Step(s, changes) == call' = [call EXCEPT ![s] = changes] /\ UNCHANGED made

\* It commits, and the others of its key at a stage in stages have read what
\* is so no more.
Commit(s, stages, changes) ==
    /\ call' = [t \in Sessions |->
                   IF t = s THEN changes
                   ELSE [call[t] EXCEPT !.overlapped =
                            @ \/ (call[t].pc \in stages /\ call[t].key = call[s].key)]]
    /\ UNCHANGED made

Goto(s, pc) == [call[s] EXCEPT !.pc = pc]
Done(s) == IdleCall

Begin(s, c) ==
    /\ Idle(s) /\ made < MaxCalls
    /\ made' = made + 1
    /\ call' = [call EXCEPT ![s] = c]
    /\ UNCHANGED <<pending, entries, exported, replays, history>>

New(op, pc, w, k) == [IdleCall EXCEPT !.op = op, !.pc = pc, !.home = w, !.key = k]

\* normalisation meets an unknown token; nobody has a meaning for it yet
BeginSubmit(s) == \E w \in Workers, k \in Keys : Begin(s, New("submit", "replay", w, k))

\* /api/abbreviations/add-meaning and user-meanings, /them-nghia
BeginAdd(s) ==
    \E w \in Workers, k \in Keys, m \in Meanings, now \in BOOLEAN :
        Begin(s, [New("add", "check", w, k) EXCEPT !.meaning = m, !.approves = now])

\* The command line offers the meaning a user typed for a pending row, and in
\* administrator mode approves the row at once.
BeginCapture(s) ==
    \E w \in Workers, i \in DOMAIN pending, m \in Meanings, now \in BOOLEAN :
        Begin(s, [New("capture", "capture", w, pending[i].key)
                     EXCEPT !.id = i, !.meaning = m, !.approves = now])

BeginApprove(s) ==
    \E w \in Workers, i \in DOMAIN pending, m \in Meanings \cup {None} :
        Begin(s, [New("approve", "approve", w, pending[i].key) EXCEPT !.id = i, !.meaning = m])

BeginReject(s) ==
    \E w \in Workers, i \in DOMAIN pending :
        Begin(s, [New("reject", "reject", w, pending[i].key) EXCEPT !.id = i])

BeginSave(s) ==
    \E w \in Workers, k \in Keys, m \in Meanings : \E more \in SUBSET (Meanings \ {m}) :
        Begin(s, [New("save", "upsert", w, k) EXCEPT !.meaning = m, !.alternatives = more])

BeginDelete(s) == \E w \in Workers, k \in Keys : Begin(s, New("delete", "delete", w, k))

\* database/seed_from_json.py; one record of its transaction, the others touch
\* rows of other keys
BeginSeed(s) ==
    \E w \in Workers, k \in Keys :
        Begin(s, [New("seed", "upsert", w, k) EXCEPT !.meaning = Seeds[k].expanded,
                                               !.alternatives = Seeds[k].alternatives])

----------------------------------------------------------------------------
(* Submission.                                                              *)

\* A payload kept for a few seconds answers without touching SQL.
Replay(s) ==
    /\ call[s].pc = "replay"
    /\ IF replays[call[s].home][call[s].key] = 0
       THEN Step(s, Goto(s, "select"))
       ELSE Step(s, Done(s))
    /\ UNCHANGED <<pending, entries, exported, replays, history>>

\* The id of the row goes to the replay cache, or to the capture that follows.
Submitted(s, i) ==
    [call[s] EXCEPT !.id = i, !.overlapped = FALSE,
                    !.pc = IF call[s].op = "submit" THEN "remember" ELSE "capture"]

\* Mutant: only an open row without suggestions counts as one.
SelectOpenSuggested(s) ==
    LET bare == {i \in Open(call[s].key) : Suggested(pending[i]) = {}} IN
    /\ call[s].pc = "select"
    /\ \/ \E i \in bare : Step(s, Submitted(s, i))
       \/ /\ bare = {}
          /\ Step(s, [Goto(s, "insert") EXCEPT !.overlapped = FALSE])
    /\ UNCHANGED <<pending, entries, exported, replays, history>>

\* An open row of the key is counted once more, by an UPDATE of nothing that is
\* read elsewhere; the row is not read again.
SelectOpen(s) ==
    /\ call[s].pc = "select"
    /\ \/ \E i \in Open(call[s].key) : Step(s, Submitted(s, i))
       \/ /\ Open(call[s].key) = {}
          /\ Step(s, [Goto(s, "insert") EXCEPT !.overlapped = FALSE])
    /\ UNCHANGED <<pending, entries, exported, replays, history>>

\* No open row was found: insert one and read the newest open row back.
InsertPending(s) ==
    /\ call[s].pc = "insert" /\ Len(pending) < MaxPending
    /\ pending' = Append(pending, [key |-> call[s].key, first |-> None, also |-> {},
                                   status |-> "PENDING", entry |-> 0])
    /\ Commit(s, ReadOpen, Submitted(s, Len(pending) + 1))
    /\ raced' = IF call[s].overlapped THEN [raced EXCEPT ![call[s].key] = @ + 1] ELSE raced
    /\ UNCHANGED <<entries, exported, replays, released, removed>>

Remember(s) ==
    /\ call[s].pc = "remember"
    /\ replays' = [replays EXCEPT ![call[s].home][call[s].key] = call[s].id]
    /\ Step(s, Done(s))
    /\ UNCHANGED <<pending, entries, exported, history>>

\* The payload outlives _pending_submit_ttl_seconds, or the cache is full.
Forget(w, k) ==
    /\ replays[w][k] # 0
    /\ replays' = [replays EXCEPT ![w][k] = 0]
    /\ UNCHANGED <<pending, entries, exported, call, made, history>>

----------------------------------------------------------------------------
(* Suggestions.                                                             *)

CheckApproved(s) ==
    /\ call[s].pc = "check"
    /\ IF call[s].meaning \in Approved(call[s].key)
       THEN Step(s, Done(s))
       ELSE Step(s, Goto(s, "select"))
    /\ UNCHANGED <<pending, entries, exported, replays, history>>

\* What follows a capture, whatever its status: add_abbreviation_meaning
\* approves in any case, the command line after a suggestion it recorded.
AfterCapture(s, recorded) ==
    IF call[s].approves /\ (recorded \/ call[s].op = "add") THEN Goto(s, "approve") ELSE Done(s)

ReadSuggestions(s) ==
    LET row == pending[call[s].id] IN
    /\ call[s].pc = "capture"
    /\ \/ row.status # "PENDING" /\ Step(s, AfterCapture(s, FALSE))
       \/ /\ row.status = "PENDING" /\ call[s].meaning \in Suggested(row)
          /\ Step(s, AfterCapture(s, TRUE))
       \/ /\ row.status = "PENDING" /\ call[s].meaning \notin Suggested(row)
          /\ Step(s, [Goto(s, "append") EXCEPT !.first = row.first, !.seen = Suggested(row),
                                               !.overlapped = FALSE])
    /\ UNCHANGED <<pending, entries, exported, replays, history>>

\* Mutant: the suggestion replaces the list beside the first one.
WriteSuggestionOnly(s) ==
    LET i == call[s].id IN
    /\ call[s].pc = "append"
    /\ pending' = [pending EXCEPT ![i].first = call[s].meaning, ![i].also = {call[s].meaning}]
    /\ Commit(s, ReadSuggested, [AfterCapture(s, TRUE) EXCEPT !.first = None, !.seen = {}])
    /\ UNCHANGED <<entries, exported, replays, history>>

\* UPDATE ... WHERE id: the row is not looked at again, and may be decided.
WriteSuggestions(s) ==
    LET i == call[s].id
        kept == IF call[s].first = None THEN call[s].meaning ELSE call[s].first
    IN
    /\ call[s].pc = "append"
    /\ pending' = [pending EXCEPT ![i].first = kept,
                                  ![i].also = call[s].seen \cup {call[s].meaning}]
    /\ released' = IF pending[i].entry = 0 THEN released ELSE released \cup {i}
    /\ Commit(s, ReadSuggested, [AfterCapture(s, TRUE) EXCEPT !.first = None, !.seen = {}])
    /\ UNCHANGED <<entries, exported, replays, raced, removed>>

----------------------------------------------------------------------------
(* Decisions.                                                               *)

\* The meaning under review: the reviewer's, or the row's first suggestion.
\* add_abbreviation_meaning hands over its own, the command line none.
Final(s, row) ==
    IF call[s].op # "capture" /\ call[s].meaning # None THEN call[s].meaning ELSE row.first

ReadPending(s) ==
    LET row == pending[call[s].id] IN
    /\ call[s].pc = "approve"
    /\ IF row.status = "PENDING" /\ Final(s, row) # None
       THEN Step(s, [Goto(s, "entry") EXCEPT !.first = Final(s, row), !.overlapped = FALSE,
                                             !.seen = Suggested(row) \cup {Final(s, row)}])
       ELSE Step(s, Done(s))
    /\ UNCHANGED <<pending, entries, exported, replays, history>>

ReadEntry(s) ==
    /\ call[s].pc = "entry"
    /\ \/ /\ Free(call[s].key)
          /\ Step(s, [Goto(s, "enter") EXCEPT
                         !.row = 0, !.alternatives = Additional(call[s].first, {}, call[s].seen)])
       \/ \E e \in Active(call[s].key) :
             Step(s, [Goto(s, "enter") EXCEPT
                         !.row = e,
                         !.alternatives = Additional(entries[e].expanded,
                                                     entries[e].alternatives, call[s].seen)])
    /\ UNCHANGED <<pending, entries, exported, replays, history>>

\* Approved rows that refer to entry e.
Approvals(e) == {i \in DOMAIN pending : pending[i].entry = e}

\* The entry takes every meaning of the row; its own expansion stays first.
\* Nothing is looked at again, but the index refuses a second active row.
Approve(s) ==
    LET c == call[s]
        e == IF c.row = 0 THEN Len(entries) + 1 ELSE c.row
    IN
    /\ c.pc = "enter"
    /\ \/ /\ c.row = 0 /\ Free(c.key) /\ Len(entries) < MaxEntries
          /\ entries' = Append(entries, NewEntry(c.key, c.first, c.alternatives, "reviewer"))
       \/ /\ c.row # 0
          /\ entries' = [entries EXCEPT ![e].alternatives = c.alternatives, ![e].by = "reviewer"]
    /\ pending' = [pending EXCEPT ![c.id].status = "APPROVED", ![c.id].entry = e]
    /\ released' = IF c.overlapped THEN released \cup Approvals(e) \cup {c.id} ELSE released
    /\ removed' = [removed EXCEPT ![c.key] = @ \ c.seen]
    /\ Commit(s, ReadDictionary, Goto(s, "sync"))
    /\ UNCHANGED <<exported, replays, raced>>

\* Any row may be rejected, whatever its status; it keeps its entry.
Reject(s) ==
    /\ call[s].pc = "reject"
    /\ pending' = [pending EXCEPT ![call[s].id].status = "REJECTED"]
    /\ Step(s, Done(s))
    /\ UNCHANGED <<entries, exported, replays, history>>

----------------------------------------------------------------------------
(* The dictionary.                                                          *)

\* Mutant: the seed file overwrites a reviewer's entry.
NeverPassedOver(s, row) == FALSE

\* Seeding passes over an entry a reviewer has touched.
PassedOver(s, row) == call[s].op = "seed" /\ row.by # "seed"

ReadForUpsert(s) ==
    LET k == call[s].key IN
    /\ call[s].pc = "upsert"
    /\ \/ /\ Free(k)
          /\ Step(s, [Goto(s, "store") EXCEPT !.row = 0, !.seen = {}, !.overlapped = FALSE])
       \/ \E e \in Active(k) :
             IF PassedOver(s, entries[e])
             THEN Step(s, Goto(s, "sync"))
             ELSE Step(s, [Goto(s, "store") EXCEPT
                              !.row = e, !.overlapped = FALSE,
                              !.seen = IF call[s].op = "save" THEN {} ELSE entries[e].alternatives])
    /\ UNCHANGED <<pending, entries, exported, replays, history>>

Author(s) == IF call[s].op = "seed" THEN "seed" ELSE "reviewer"

Upsert(s) ==
    LET c == call[s]
        stored == Additional(c.meaning, c.seen, c.alternatives)
        now == {c.meaning} \cup stored
        before == IF c.row = 0 THEN {} ELSE EntryMeanings(entries[c.row])
    IN
    /\ c.pc = "store"
    /\ \/ /\ c.row = 0 /\ Free(c.key) /\ Len(entries) < MaxEntries
          /\ entries' = Append(entries, NewEntry(c.key, c.meaning, stored, Author(s)))
       \/ /\ c.row # 0
          /\ entries' = [entries EXCEPT ![c.row].expanded = c.meaning,
                                        ![c.row].alternatives = stored, ![c.row].by = Author(s)]
    /\ released' = IF c.row # 0 /\ (c.op = "save" \/ c.overlapped)
                   THEN released \cup Approvals(c.row) ELSE released
    /\ removed' = IF c.op = "save" THEN [removed EXCEPT ![c.key] = (@ \cup before) \ now]
                  ELSE removed
    /\ Commit(s, ReadDictionary, [Goto(s, "sync") EXCEPT !.seen = {}])
    /\ UNCHANGED <<pending, exported, replays, raced>>

Delete(s) ==
    LET k == call[s].key IN
    /\ call[s].pc = "delete"
    /\ \/ /\ Free(k) /\ Step(s, Done(s))
          /\ UNCHANGED <<entries, released, removed>>
       \/ \E e \in Active(k) :
             /\ entries' = [entries EXCEPT ![e].active = FALSE, ![e].by = "reviewer"]
             /\ released' = released \cup Approvals(e)
             /\ removed' = [removed EXCEPT ![k] = @ \cup EntryMeanings(entries[e])]
             /\ Commit(s, ReadDictionary, Goto(s, "sync"))
    /\ UNCHANGED <<pending, exported, replays, raced>>

\* Drop this worker's replays, export the active rows or fail to.
Sync(s) ==
    /\ call[s].pc = "sync"
    /\ replays' = [replays EXCEPT ![call[s].home] = [k \in Keys |-> 0]]
    /\ exported' \in {exported, [k \in Keys |-> Served(k)]}
    /\ Step(s, IF call[s].op = "save" THEN Goto(s, "readback") ELSE Done(s))
    /\ UNCHANGED <<pending, entries, history>>

\* The saved record, or DictionaryWriteCommittedError when it is gone.
ReadBack(s) ==
    /\ call[s].pc = "readback"
    /\ Step(s, Done(s))
    /\ UNCHANGED <<pending, entries, exported, replays, history>>

\* SQL fails, chooses the call as a deadlock's victim, or refuses the row.
Fail(s) ==
    /\ ~Idle(s)
    /\ Step(s, Done(s))
    /\ UNCHANGED <<pending, entries, exported, replays, history>>

----------------------------------------------------------------------------
Submission(s) == BeginSubmit(s) \/ Replay(s) \/ SelectOpen(s) \/ InsertPending(s) \/ Remember(s)
Suggestion(s) == BeginAdd(s) \/ BeginCapture(s) \/ CheckApproved(s) \/ ReadSuggestions(s)
                     \/ WriteSuggestions(s)
Decision(s) == BeginApprove(s) \/ BeginReject(s) \/ ReadPending(s) \/ ReadEntry(s) \/ Approve(s)
                   \/ Reject(s)
Edition(s) == BeginSave(s) \/ BeginDelete(s) \/ BeginSeed(s) \/ ReadForUpsert(s) \/ Upsert(s)
                  \/ Delete(s) \/ Sync(s) \/ ReadBack(s)

Next ==
    \/ \E s \in Sessions : Submission(s) \/ Suggestion(s) \/ Decision(s) \/ Edition(s) \/ Fail(s)
    \/ \E w \in Workers, k \in Keys : Forget(w, k)

Spec == Init /\ [][Next]_vars

----------------------------------------------------------------------------
(* Properties.                                                              *)

\* A token waits for review once.  Nothing in SQL says so: each insertion that
\* another one of the token slipped in before may leave one more open row, and
\* nothing else may.
OneOpenRow == \A k \in Keys : Cardinality(Open(k)) <= 1 + raced[k]

\* Every meaning of a row that was approved stays in the dictionary until an
\* administrator edits or deletes the entry: no later approval, seeding, capture
\* or resubmission loses it, nor a rejection of the row, unless the row's
\* capture ended after its approval or two writes of the entry overlapped.
ApprovedServed ==
    \A i \in DOMAIN pending :
        pending[i].entry # 0 /\ i \notin released
            => Suggested(pending[i]) \subseteq Served(pending[i].key)

\* A suggestion that was recorded stays on its row; only a capture that another
\* capture of the token overlapped writes over it.
SuggestionsKept ==
    [][\A i \in DOMAIN pending :
          \/ Suggested(pending[i]) \subseteq Suggested(pending'[i])
          \/ \E s \in Sessions :
                /\ call[s].pc = "append" /\ call[s].id = i
                /\ call[s].overlapped]_vars

\* "Bootstrap must not restore meanings an admin replaced or removed."
RemovedStaysRemoved == \A k \in Keys : Served(k) \cap removed[k] = {}
=============================================================================
