---------------------------- MODULE ModerationProofs ----------------------------
(***************************************************************************)
(* For every number of keys, meanings, calls and workers: each open row of *)
(* a token beyond the first is due to an insertion that overlapped another *)
(* one, and only overlapping transactions write over a suggestion or undo  *)
(* an approval.                                                            *)
(***************************************************************************)
EXTENDS Moderation, FiniteSetTheorems, SequenceTheorems, TLAPS

\* The pending row a call works on is one of its key.
Located(s) ==
    call[s].pc \in {"capture", "append", "approve", "entry", "enter", "reject"}
        => call[s].id \in 1..Len(pending) /\ pending[call[s].id].key = call[s].key

\* A call that is going to write a meaning has one.
Meant(s) ==
    /\ call[s].pc \in {"check", "capture", "append", "upsert", "store"} => call[s].meaning # None
    /\ call[s].pc \in {"select", "insert"} /\ call[s].op # "submit" => call[s].meaning # None
    /\ call[s].pc \in {"entry", "enter"} => call[s].first # None
    /\ call[s].pc \in {"upsert", "store"} => call[s].op \in {"save", "seed"}
    /\ call[s].pc = "replay" => call[s].op = "submit"

\* The entry a call works on is one of its key.
Entering(s) ==
    call[s].pc \in {"enter", "store"} /\ call[s].row # 0
        => call[s].row \in 1..Len(entries) /\ entries[call[s].row].key = call[s].key

\* What a transaction has read still is so, unless another one overlapped it.
FreshInsert(s) ==
    call[s].pc = "insert" /\ ~call[s].overlapped => Open(call[s].key) = {}

FreshAppend(s) ==
    call[s].pc = "append" /\ ~call[s].overlapped
        => call[s].seen = Suggested(pending[call[s].id])

FreshDecision(s) ==
    call[s].pc \in {"entry", "enter"} /\ ~call[s].overlapped
        => Suggested(pending[call[s].id]) \subseteq call[s].seen

FreshEntry(s) ==
    call[s].pc = "enter" /\ ~call[s].overlapped =>
        /\ call[s].row = 0 => call[s].seen \subseteq {call[s].first} \cup call[s].alternatives
        /\ call[s].row # 0 =>
              /\ entries[call[s].row].active
              /\ call[s].seen \cup EntryMeanings(entries[call[s].row])
                     \subseteq {entries[call[s].row].expanded} \cup call[s].alternatives

FreshSeed(s) ==
    call[s].pc = "store" /\ call[s].op = "seed" /\ ~call[s].overlapped /\ call[s].row # 0
        => entries[call[s].row].by = "seed"

CallOK(s) ==
    /\ Located(s) /\ Meant(s) /\ Entering(s)
    /\ FreshInsert(s) /\ FreshAppend(s) /\ FreshDecision(s) /\ FreshEntry(s) /\ FreshSeed(s)

\* The entry of an approved row is active, a reviewer's, and has its meanings.
Entered(i) ==
    pending[i].entry # 0 /\ i \notin released =>
        /\ pending[i].entry \in 1..Len(entries)
        /\ entries[pending[i].entry].key = pending[i].key
        /\ entries[pending[i].entry].active
        /\ entries[pending[i].entry].by = "reviewer"
        /\ Suggested(pending[i]) \subseteq EntryMeanings(entries[pending[i].entry])

RowsOK == OneOpenRow /\ \A i \in 1..Len(pending) : Entered(i)

IInv == TypeOK /\ (\A s \in Sessions : CallOK(s)) /\ RowsOK

----------------------------------------------------------------------------
(* Calls and rows.                                                          *)

LEMMA Types ==
    ASSUME TypeOK
    PROVE  /\ \A s \in Sessions : call[s] \in Call
           /\ DOMAIN pending = 1..Len(pending) /\ Len(pending) \in 0..MaxPending
           /\ DOMAIN entries = 1..Len(entries) /\ Len(entries) \in 0..MaxEntries
           /\ \A i \in 1..Len(pending) :
                 /\ pending[i] \in PendingRow
                 /\ Suggested(pending[i]) \in SUBSET Meanings
           /\ \A e \in 1..Len(entries) :
                 /\ entries[e] \in EntryRow
                 /\ EntryMeanings(entries[e]) \in SUBSET Meanings
<1>1. pending \in Seq(PendingRow) /\ entries \in Seq(EntryRow) /\ Len(pending) \in 0..MaxPending
      /\ Len(entries) \in 0..MaxEntries
    BY ModerationAssumption, LenProperties DEF TypeOK
<1>2. /\ \A i \in 1..Len(pending) : pending[i] \in PendingRow
      /\ \A e \in 1..Len(entries) : entries[e] \in EntryRow
    BY <1>1, ElementOfSeq
<1>3. \A i \in 1..Len(pending) : Suggested(pending[i]) \in SUBSET Meanings
    BY <1>2 DEF PendingRow, Suggested
<1>4. \A e \in 1..Len(entries) : EntryMeanings(entries[e]) \in SUBSET Meanings
    BY <1>2 DEF EntryRow, EntryMeanings
<1>5. DOMAIN pending = 1..Len(pending) /\ DOMAIN entries = 1..Len(entries)
    BY <1>1, LenProperties
<1>6. QED
    BY <1>1, <1>2, <1>3, <1>4, <1>5 DEF TypeOK

LEMMA OpenFinite == ASSUME TypeOK, NEW k PROVE IsFiniteSet(Open(k))
<1>1. Len(pending) \in Nat /\ DOMAIN pending = 1..Len(pending)
    BY LenProperties DEF TypeOK
<1>2. IsFiniteSet(1..Len(pending)) /\ Open(k) \subseteq 1..Len(pending)
    BY <1>1, FS_Interval DEF Open
<1>3. QED
    BY <1>2, FS_Subset

LEMMA IdleIsCall == IdleCall \in Call /\ IdleCall.pc = "idle"
<1>1. (CHOOSE w \in Workers : TRUE) \in Workers /\ (CHOOSE k \in Keys : TRUE) \in Keys
    BY ModerationAssumption
<1>2. 0 \in PendingIds /\ 0 \in EntryIds
    BY ModerationAssumption DEF PendingIds, EntryIds
<1>3. QED
    BY <1>1, <1>2 DEF IdleCall, Call, Stages

LEMMA IdleIsOK ==
    ASSUME NEW s \in Sessions, call[s].pc = "idle"
    PROVE  CallOK(s)
    BY DEF CallOK, Located, Meant, Entering, FreshInsert, FreshAppend, FreshDecision, FreshEntry, FreshSeed

LEMMA StepIs ==
    ASSUME TypeOK, NEW s \in Sessions, NEW c \in Call, Step(s, c)
    PROVE  /\ call'[s] = c
           /\ \A t \in Sessions \ {s} : call'[t] = call[t]
           /\ call' \in [Sessions -> Call] /\ made' \in 0..MaxCalls
    BY DEF TypeOK, Step

\* Another call on the key may have lost what it read; nothing else changed.
Overlaps(s, t, stages) ==
    /\ \A f \in {"op", "pc", "home", "key", "id", "meaning", "alternatives", "approves",
                 "first", "seen", "row"} : call'[t][f] = call[t][f]
    /\ call[t].overlapped => call'[t].overlapped
    /\ call[t].pc \in stages /\ call[t].key = call[s].key => call'[t].overlapped

\* Call s goes on as c, and may overlap calls of its key at one of stages.
Moves(s, stages, c) ==
    /\ call'[s] = c
    /\ \A t \in Sessions \ {s} : Overlaps(s, t, stages)
    /\ call' \in [Sessions -> Call] /\ made' \in 0..MaxCalls

LEMMA StepMoves ==
    ASSUME TypeOK, NEW s \in Sessions, NEW c \in Call, Step(s, c)
    PROVE  Moves(s, {}, c)
    BY StepIs DEF Moves, Overlaps

LEMMA CommitIs ==
    ASSUME TypeOK, NEW s \in Sessions, NEW stages, NEW c \in Call, Commit(s, stages, c)
    PROVE  Moves(s, stages, c)
<1> DEFINE over(t) == call[t].overlapped \/ (call[t].pc \in stages /\ call[t].key = call[s].key)
<1>1. \A t \in Sessions \ {s} : call'[t] = [call[t] EXCEPT !.overlapped = over(t)]
    BY DEF Commit
<1>2. call'[s] = c /\ made' = made
    BY DEF Commit
<1>3. \A t \in Sessions : over(t) \in BOOLEAN
    BY Types DEF Call
<1>4. ASSUME NEW t \in Sessions \ {s} PROVE call'[t] \in Call /\ Overlaps(s, t, stages)
    <2> DEFINE o == over(t)
    <2>1. call[t] \in Call /\ o \in BOOLEAN /\ call'[t] = [call[t] EXCEPT !.overlapped = o]
        BY <1>1, <1>3, Types
    <2> HIDE DEF o
    <2>2. call'[t] \in Call /\ call'[t].overlapped = o
          /\ \A f \in {"op", "pc", "home", "key", "id", "meaning", "alternatives", "approves",
                 "first", "seen", "row"} : call'[t][f] = call[t][f]
        BY <2>1 DEF Call
    <2>3. QED
        BY <2>2 DEF Overlaps, o
<1>5. call' \in [Sessions -> Call]
    <2>1. call' = [t \in Sessions |-> call'[t]]
        BY DEF Commit
    <2>2. QED
        BY <1>2, <1>4, <2>1
<1>6. QED
    BY <1>2, <1>4, <1>5 DEF TypeOK, Moves

\* Writes of a call about key k: rows of other keys stay as they are.
PendingWrites(k) ==
    /\ Len(pending') >= Len(pending)
    /\ \A i \in 1..Len(pending) : pending'[i].key = pending[i].key
                                  /\ (pending[i].key # k => pending'[i] = pending[i])
    /\ \A i \in 1..Len(pending') : i \notin 1..Len(pending) => pending'[i].key = k

EntryWrites(k) ==
    /\ Len(entries') >= Len(entries)
    /\ \A e \in 1..Len(entries) : entries'[e].key = entries[e].key
                                  /\ (entries[e].key # k => entries'[e] = entries[e])

Writes(k) == PendingWrites(k) /\ EntryWrites(k)

\* A row of the key that is open now was open before.
OpenBefore(k) ==
    \A j \in 1..Len(pending') :
        pending'[j].key = k /\ pending'[j].status = "PENDING" => j \in Open(k)

\* What a transaction that overlaps the calls at stages leaves as the others of
\* its key have read it.
Spares(k, stages) ==
    /\ ReadOpen \subseteq stages \/ OpenBefore(k)
    /\ \/ ReadSuggested \subseteq stages
       \/ \A i \in 1..Len(pending) : Suggested(pending'[i]) = Suggested(pending[i])
    /\ ReadDictionary \subseteq stages \/ entries' = entries

\* No row of a key opens: as many as before may be open at most.
LEMMA NoneOpens ==
    ASSUME TypeOK, OneOpenRow, pending' \in Seq(PendingRow), raced' = raced, \A k \in Keys : OpenBefore(k)
    PROVE  OneOpenRow'
<1> SUFFICES ASSUME NEW k \in Keys PROVE Cardinality(Open(k)') <= 1 + raced[k]
    BY DEF OneOpenRow
<1>1. IsFiniteSet(Open(k))
    BY OpenFinite
<1>2. Open(k)' \subseteq Open(k)
    <2>1. DOMAIN pending' = 1..Len(pending')
        BY LenProperties
    <2>2. QED
        BY <2>1 DEF OpenBefore, Open
<1> DEFINE old == Open(k)
           new == Open(k)'
<1>3. Cardinality(old) <= 1 + raced[k] /\ raced[k] \in Nat
    BY DEF OneOpenRow, TypeOK
<1> HIDE DEF old, new
<1>4. Cardinality(new) <= Cardinality(old) /\ Cardinality(old) \in Nat /\ Cardinality(new) \in Nat
    BY <1>1, <1>2, FS_Subset, FS_CardinalityType DEF old, new
<1>5. QED
    BY <1>3, <1>4 DEF new

----------------------------------------------------------------------------
(* The other calls.                                                         *)

LEMMA ReadsLeaveOthers ==
    ASSUME TypeOK, NEW t \in Sessions, CallOK(t),
           UNCHANGED <<pending, entries>>, call'[t] = call[t]
    PROVE  CallOK(t)'
    BY DEF CallOK, Located, Meant, Entering, FreshInsert, FreshAppend, FreshDecision, FreshEntry,
           FreshSeed, Open

LEMMA WritesLeaveOthers ==
    ASSUME TypeOK, TypeOK', NEW s \in Sessions, NEW t \in Sessions, CallOK(t),
           NEW stages, Writes(call[s].key), Spares(call[s].key, stages), Overlaps(s, t, stages)
    PROVE  CallOK(t)'
<1> DEFINE c == call[t]
           d == call'[t]
<1>1. /\ d.op = c.op /\ d.pc = c.pc /\ d.key = c.key /\ d.id = c.id /\ d.meaning = c.meaning
      /\ d.alternatives = c.alternatives /\ d.first = c.first /\ d.seen = c.seen /\ d.row = c.row
    BY DEF Overlaps
<1>2. ~d.overlapped => ~c.overlapped
    BY DEF Overlaps
<1>3. ~d.overlapped /\ c.key = call[s].key => c.pc \notin stages
    BY DEF Overlaps
<1>4. Located(t)'
    BY <1>1, Types DEF CallOK, Located, Writes, PendingWrites, EntryWrites
<1>5. Meant(t)'
    BY <1>1 DEF CallOK, Meant
<1>6. Entering(t)'
    BY <1>1, Types DEF CallOK, Entering, Writes, PendingWrites, EntryWrites
<1>7. FreshInsert(t)'
    <2> SUFFICES ASSUME c.pc = "insert", ~d.overlapped, NEW i \in 1..Len(pending'),
                        pending'[i].key = c.key, pending'[i].status = "PENDING"
                 PROVE  FALSE
        <3>1. DOMAIN pending' = 1..Len(pending')
            BY LenProperties DEF TypeOK
        <3>2. QED
            BY <1>1, <3>1 DEF FreshInsert, Open
    <2>1. Open(c.key) = {}
        BY <1>2 DEF CallOK, FreshInsert
    <2>2. CASE c.key = call[s].key
        <3>1. OpenBefore(call[s].key)
            BY <1>3, <2>2 DEF Spares, ReadOpen
        <3>2. i \in Open(c.key)
            BY <2>2, <3>1 DEF OpenBefore
        <3>3. QED
            BY <2>1, <3>2
    <2>3. CASE c.key # call[s].key
        <3>1. i \in 1..Len(pending) /\ pending'[i] = pending[i]
            BY <2>3, Types DEF Writes, PendingWrites, EntryWrites
        <3>2. QED
            BY <2>1, <3>1, Types DEF Open
    <2>4. QED
        BY <2>2, <2>3
<1>8. ASSUME c.pc \in {"append", "entry", "enter"}, ~d.overlapped
      PROVE  Suggested(pending'[d.id]) = Suggested(pending[c.id])
    <2>1. c.id \in 1..Len(pending) /\ pending[c.id].key = c.key /\ d.id = c.id
        BY <1>1, <1>8 DEF CallOK, Located
    <2>2. CASE c.key = call[s].key
        BY <1>3, <1>8, <2>1, <2>2 DEF Spares, ReadSuggested
    <2>3. CASE c.key # call[s].key
        BY <2>1, <2>3 DEF Writes, PendingWrites
    <2>4. QED
        BY <2>2, <2>3
<1>9. ASSUME c.pc \in {"enter", "store"}, ~d.overlapped, c.row # 0
      PROVE  entries'[d.row] = entries[c.row]
    <2>1. c.row \in 1..Len(entries) /\ entries[c.row].key = c.key /\ d.row = c.row
        BY <1>1, <1>9 DEF CallOK, Entering
    <2>2. CASE c.key = call[s].key
        BY <1>3, <1>9, <2>1, <2>2 DEF Spares, ReadDictionary
    <2>3. CASE c.key # call[s].key
        BY <2>1, <2>3 DEF Writes, EntryWrites
    <2>4. QED
        BY <2>2, <2>3
<1>10. FreshAppend(t)' /\ FreshDecision(t)'
    BY <1>1, <1>2, <1>8 DEF CallOK, FreshAppend, FreshDecision
<1>11. FreshEntry(t)' /\ FreshSeed(t)'
    BY <1>1, <1>2, <1>9 DEF CallOK, FreshEntry, FreshSeed
<1>12. QED
    BY <1>4, <1>5, <1>6, <1>7, <1>10, <1>11 DEF CallOK

----------------------------------------------------------------------------
(* Steps that read, and steps that write.                                   *)

LEMMA ReadStep ==
    ASSUME IInv, NEW s \in Sessions, NEW c \in Call,
           call' = [call EXCEPT ![s] = c], made' \in 0..MaxCalls,
           UNCHANGED <<pending, entries, history>>,
           exported' \in [Keys -> SUBSET Meanings],
           replays' \in [Workers -> [Keys -> PendingIds]],
           CallOK(s)'
    PROVE  IInv'
<1>1. call' \in [Sessions -> Call] /\ \A t \in Sessions \ {s} : call'[t] = call[t]
    BY DEF IInv, TypeOK
<1>2. TypeOK'
    BY <1>1 DEF IInv, TypeOK, history
<1>3. ASSUME NEW t \in Sessions PROVE CallOK(t)'
    <2>1. CASE t = s
        BY <2>1
    <2>2. CASE t # s
        BY <1>1, <2>2, ReadsLeaveOthers DEF IInv
    <2>3. QED
        BY <2>1, <2>2
<1>4. RowsOK'
    BY DEF IInv, RowsOK, OneOpenRow, Open, Entered, history
<1>5. QED
    BY <1>2, <1>3, <1>4 DEF IInv

LEMMA WriteStep ==
    ASSUME IInv, NEW s \in Sessions, NEW stages, NEW c \in Call, Moves(s, stages, c),
           Writes(call[s].key), Spares(call[s].key, stages),
           pending' \in Seq(PendingRow), Len(pending') <= MaxPending,
           entries' \in Seq(EntryRow), Len(entries') <= MaxEntries,
           UNCHANGED <<exported, replays>>,
           raced' \in [Keys -> Nat], released' \subseteq PendingIds,
           removed' \in [Keys -> SUBSET Meanings],
           CallOK(s)', RowsOK'
    PROVE  IInv'
<1>1. /\ \A t \in Sessions \ {s} : Overlaps(s, t, stages)
      /\ call' \in [Sessions -> Call] /\ made' \in 0..MaxCalls
    BY DEF Moves
<1>2. TypeOK'
    BY <1>1 DEF IInv, TypeOK
<1>3. ASSUME NEW t \in Sessions PROVE CallOK(t)'
    <2>1. CASE t = s
        BY <2>1
    <2>2. CASE t # s
        BY <1>1, <1>2, <2>2, WritesLeaveOthers DEF IInv
    <2>3. QED
        BY <2>1, <2>2
<1>4. QED
    BY <1>2, <1>3 DEF IInv

\* A call that has ended, however it did.
LEMMA EndStep ==
    ASSUME IInv, NEW s \in Sessions, Step(s, Done(s)),
           UNCHANGED <<pending, entries, history>>,
           exported' \in [Keys -> SUBSET Meanings],
           replays' \in [Workers -> [Keys -> PendingIds]]
    PROVE  IInv'
<1>1. Done(s) \in Call /\ Done(s).pc = "idle"
    BY IdleIsCall DEF Done
<1>2. call' = [call EXCEPT ![s] = Done(s)] /\ made' \in 0..MaxCalls
    BY DEF Step, IInv, TypeOK
<1>3. CallOK(s)'
    BY <1>1, <1>2 DEF IInv, TypeOK, CallOK, Located, Meant, Entering, FreshInsert, FreshAppend,
           FreshDecision, FreshEntry, FreshSeed
<1>4. QED
    BY <1>1, <1>2, <1>3, ReadStep

\* Other steps of a call change a few of its fields.
SameBut(c, s, fields) ==
    /\ c \in Call
    /\ \A f \in {"op", "pc", "home", "key", "id", "meaning", "alternatives", "approves",
                 "first", "seen", "row", "overlapped"} \ fields : c[f] = call[s][f]

LEMMA GotoIs ==
    ASSUME TypeOK, NEW s \in Sessions, NEW pc \in Stages
    PROVE  SameBut(Goto(s, pc), s, {"pc"}) /\ Goto(s, pc).pc = pc
    BY Types DEF Goto, SameBut, Call

LEMMA AfterCaptureIs ==
    ASSUME TypeOK, NEW s \in Sessions, NEW recorded \in BOOLEAN
    PROVE  \/ AfterCapture(s, recorded) = Done(s)
           \/ /\ AfterCapture(s, recorded) = Goto(s, "approve")
              /\ SameBut(Goto(s, "approve"), s, {"pc"}) /\ Goto(s, "approve").pc = "approve"
    BY GotoIs DEF AfterCapture, Stages

----------------------------------------------------------------------------
(* Calls begin.                                                             *)

LEMMA NewIs ==
    ASSUME NEW op \in {"submit", "add", "capture", "approve", "reject", "save", "delete", "seed"},
           NEW pc \in Stages, NEW w \in Workers, NEW k \in Keys
    PROVE  LET c == New(op, pc, w, k) IN
           c \in Call /\ c.op = op /\ c.pc = pc /\ c.home = w /\ c.key = k
<1>1. IdleCall \in Call
    BY IdleIsCall
<1>2. QED
    BY <1>1 DEF New, Call

LEMMA BeginStep ==
    ASSUME IInv, NEW s \in Sessions, NEW c \in Call, Begin(s, c),
           c.pc \in {"replay", "check", "capture", "approve", "reject", "upsert", "delete"},
           c.pc \in {"check", "capture", "upsert"} => c.meaning # None,
           c.pc \in {"capture", "approve", "reject"}
               => c.id \in 1..Len(pending) /\ pending[c.id].key = c.key,
           c.pc = "upsert" => c.op \in {"save", "seed"},
           c.pc = "replay" => c.op = "submit"
    PROVE  IInv'
<1>1. call' = [call EXCEPT ![s] = c] /\ made' \in 0..MaxCalls
      /\ UNCHANGED <<pending, entries, exported, replays, history>>
    BY ModerationAssumption DEF Begin, IInv, TypeOK
<1>2. call'[s] = c
    BY <1>1 DEF IInv, TypeOK
<1>3. CallOK(s)'
    BY <1>1, <1>2 DEF CallOK, Located, Meant, Entering, FreshInsert, FreshAppend,
           FreshDecision, FreshEntry, FreshSeed
<1>4. QED
    BY <1>1, <1>3, ReadStep DEF IInv, TypeOK

LEMMA Beginnings ==
    ASSUME IInv, NEW s \in Sessions,
           \/ BeginSubmit(s) \/ BeginAdd(s) \/ BeginCapture(s) \/ BeginApprove(s)
           \/ BeginReject(s) \/ BeginSave(s) \/ BeginDelete(s) \/ BeginSeed(s)
    PROVE  IInv'
<1> USE ModerationAssumption DEF Stages
<1>0. DOMAIN pending = 1..Len(pending) /\ 1..Len(pending) \subseteq PendingIds
      /\ \A i \in DOMAIN pending : pending[i].key \in Keys
    BY Types DEF IInv, PendingIds, PendingRow
<1>1. CASE BeginSubmit(s)
    <2>1. PICK w \in Workers, k \in Keys : Begin(s, New("submit", "replay", w, k))
        BY <1>1 DEF BeginSubmit
    <2> DEFINE c == New("submit", "replay", w, k)
    <2>2. c \in Call /\ c.pc = "replay" /\ c.op = "submit"
        BY NewIs
    <2> HIDE DEF c
    <2>3. Begin(s, c)
        BY <2>1 DEF c
    <2>4. QED
        BY <2>2, <2>3, BeginStep
<1>2. ASSUME NEW w \in Workers, NEW k \in Keys, NEW m \in Meanings, NEW now \in BOOLEAN,
             Begin(s, [New("add", "check", w, k) EXCEPT !.meaning = m, !.approves = now])
      PROVE  IInv'
    <2> DEFINE n == New("add", "check", w, k)
               c == [n EXCEPT !.meaning = m, !.approves = now]
    <2>1. n \in Call /\ n.pc = "check"
        BY NewIs
    <2>2. c \in Call /\ c.pc = "check" /\ c.meaning = m
        BY <2>1 DEF Call
    <2>3. QED
        BY <1>2, <2>2, BeginStep
<1>3. ASSUME NEW w \in Workers, NEW i \in DOMAIN pending, NEW m \in Meanings, NEW now \in BOOLEAN,
             Begin(s, [New("capture", "capture", w, pending[i].key)
                          EXCEPT !.id = i, !.meaning = m, !.approves = now])
      PROVE  IInv'
    <2> DEFINE n == New("capture", "capture", w, pending[i].key)
               c == [n EXCEPT !.id = i, !.meaning = m, !.approves = now]
    <2>0. PICK k \in Keys : k = pending[i].key
        BY <1>0
    <2>1. n \in Call /\ n.pc = "capture" /\ n.key = pending[i].key
        <3>1. New("capture", "capture", w, k) \in Call /\ New("capture", "capture", w, k).pc = "capture"
              /\ New("capture", "capture", w, k).key = k
            BY NewIs
        <3>2. QED
            BY <2>0, <3>1
    <2>2. c \in Call /\ c.pc = "capture" /\ c.meaning = m /\ c.id = i /\ c.key = pending[i].key
        BY <1>0, <2>1 DEF Call
    <2>3. QED
        BY <1>0, <1>3, <2>2, BeginStep
<1>4. ASSUME NEW w \in Workers, NEW i \in DOMAIN pending, NEW m \in Meanings \cup {None},
             Begin(s, [New("approve", "approve", w, pending[i].key) EXCEPT !.id = i, !.meaning = m])
      PROVE  IInv'
    <2> DEFINE n == New("approve", "approve", w, pending[i].key)
               c == [n EXCEPT !.id = i, !.meaning = m]
    <2>0. PICK k \in Keys : k = pending[i].key
        BY <1>0
    <2>1. n \in Call /\ n.pc = "approve" /\ n.key = pending[i].key
        <3>1. New("approve", "approve", w, k) \in Call /\ New("approve", "approve", w, k).pc = "approve"
              /\ New("approve", "approve", w, k).key = k
            BY NewIs
        <3>2. QED
            BY <2>0, <3>1
    <2>2. c \in Call /\ c.pc = "approve" /\ c.id = i /\ c.key = pending[i].key
        BY <1>0, <2>1 DEF Call
    <2>3. QED
        BY <1>0, <1>4, <2>2, BeginStep
<1>5. ASSUME NEW w \in Workers, NEW i \in DOMAIN pending,
             Begin(s, [New("reject", "reject", w, pending[i].key) EXCEPT !.id = i])
      PROVE  IInv'
    <2> DEFINE n == New("reject", "reject", w, pending[i].key)
               c == [n EXCEPT !.id = i]
    <2>0. PICK k \in Keys : k = pending[i].key
        BY <1>0
    <2>1. n \in Call /\ n.pc = "reject" /\ n.key = pending[i].key
        <3>1. New("reject", "reject", w, k) \in Call /\ New("reject", "reject", w, k).pc = "reject"
              /\ New("reject", "reject", w, k).key = k
            BY NewIs
        <3>2. QED
            BY <2>0, <3>1
    <2>2. c \in Call /\ c.pc = "reject" /\ c.id = i /\ c.key = pending[i].key
        BY <1>0, <2>1 DEF Call
    <2>3. QED
        BY <1>0, <1>5, <2>2, BeginStep
<1>6. ASSUME NEW w \in Workers, NEW k \in Keys, NEW m \in Meanings, NEW more \in SUBSET (Meanings \ {m}),
             Begin(s, [New("save", "upsert", w, k) EXCEPT !.meaning = m, !.alternatives = more])
      PROVE  IInv'
    <2> DEFINE n == New("save", "upsert", w, k)
               c == [n EXCEPT !.meaning = m, !.alternatives = more]
    <2>1. n \in Call /\ n.pc = "upsert" /\ n.op = "save"
        BY NewIs
    <2>2. c \in Call /\ c.pc = "upsert" /\ c.op = "save" /\ c.meaning = m
        BY <2>1 DEF Call
    <2>3. QED
        BY <1>6, <2>2, BeginStep
<1>7. CASE BeginDelete(s)
    <2>1. PICK w \in Workers, k \in Keys : Begin(s, New("delete", "delete", w, k))
        BY <1>7 DEF BeginDelete
    <2> DEFINE c == New("delete", "delete", w, k)
    <2>2. c \in Call /\ c.pc = "delete" /\ c.op = "delete"
        BY NewIs
    <2> HIDE DEF c
    <2>3. Begin(s, c)
        BY <2>1 DEF c
    <2>4. QED
        BY <2>2, <2>3, BeginStep
<1>8. ASSUME NEW w \in Workers, NEW k \in Keys,
             Begin(s, [New("seed", "upsert", w, k) EXCEPT !.meaning = Seeds[k].expanded,
                                                          !.alternatives = Seeds[k].alternatives])
      PROVE  IInv'
    <2> DEFINE n == New("seed", "upsert", w, k)
               m == Seeds[k].expanded
               more == Seeds[k].alternatives
               c == [n EXCEPT !.meaning = m, !.alternatives = more]
    <2>0. Seeds[k] \in [expanded: Meanings, alternatives: SUBSET Meanings]
        BY ModerationAssumption
    <2>1. n \in Call /\ n.pc = "upsert" /\ n.op = "seed"
        BY NewIs
    <2>2. Begin(s, c) /\ m \in Meanings /\ more \in SUBSET Meanings
        BY <1>8, <2>0
    <2> HIDE DEF n, m, more
    <2>3. c \in Call /\ c.pc = "upsert" /\ c.op = "seed" /\ c.meaning = m
        BY <2>1, <2>2 DEF Call
    <2>4. c.meaning # None
        BY <2>2, <2>3, ModerationAssumption
    <2> HIDE DEF c
    <2>5. QED
        BY <2>2, <2>3, <2>4, BeginStep
<1>9. QED
    BY <1>1, <1>2, <1>3, <1>4, <1>5, <1>6, <1>7, <1>8
       DEF BeginAdd, BeginCapture, BeginApprove, BeginReject, BeginSave, BeginSeed

----------------------------------------------------------------------------
(* Reads.                                                                   *)

\* A step to a record that is fine with the rows as they are.
LEMMA MoveStep ==
    ASSUME IInv, NEW s \in Sessions, NEW c \in Call, Step(s, c),
           UNCHANGED <<pending, entries, history>>,
           exported' \in [Keys -> SUBSET Meanings],
           replays' \in [Workers -> [Keys -> PendingIds]],
           call'[s] = c => CallOK(s)'
    PROVE  IInv'
<1>1. call' = [call EXCEPT ![s] = c] /\ made' \in 0..MaxCalls /\ call'[s] = c
    BY StepIs DEF Step, IInv
<1>2. QED
    BY <1>1, ReadStep

LEMMA Failing ==
    ASSUME IInv, NEW s \in Sessions, Fail(s)
    PROVE  IInv'
    BY EndStep DEF Fail, IInv, TypeOK

LEMMA Forgetting ==
    ASSUME IInv, NEW w \in Workers, NEW k \in Keys, Forget(w, k)
    PROVE  IInv'
<1>1. replays' \in [Workers -> [Keys -> PendingIds]]
    BY ModerationAssumption DEF Forget, IInv, TypeOK, PendingIds
<1>2. TypeOK'
    BY <1>1 DEF IInv, TypeOK, Forget, history
<1>3. \A s \in Sessions : CallOK(s)'
    BY ReadsLeaveOthers DEF Forget, IInv
<1>4. RowsOK'
    BY DEF Forget, IInv, RowsOK, OneOpenRow, Open, Entered, history
<1>5. QED
    BY <1>2, <1>3, <1>4 DEF IInv

LEMMA Replaying ==
    ASSUME IInv, NEW s \in Sessions, Replay(s)
    PROVE  IInv'
<1>1. CASE Step(s, Done(s))
    BY <1>1, EndStep DEF Replay, IInv, TypeOK
<1>2. CASE Step(s, Goto(s, "select"))
    <2> DEFINE c == Goto(s, "select")
    <2>1. SameBut(c, s, {"pc"}) /\ c.pc = "select"
        BY GotoIs DEF IInv, Stages
    <2> HIDE DEF c
    <2>2. Step(s, c)
        BY <1>2 DEF c
    <2>3. call'[s] = c => CallOK(s)'
        BY <2>1 DEF SameBut, CallOK, Located, Meant, Entering, FreshInsert, FreshAppend,
               FreshDecision, FreshEntry, FreshSeed, Replay, IInv
    <2>4. QED
        BY <2>1, <2>2, <2>3, MoveStep DEF SameBut, Replay, IInv, TypeOK
<1>3. QED
    BY <1>1, <1>2 DEF Replay

LEMMA Remembering ==
    ASSUME IInv, NEW s \in Sessions, Remember(s)
    PROVE  IInv'
<1>1. replays' \in [Workers -> [Keys -> PendingIds]]
    BY Types DEF Remember, IInv, TypeOK, Call
<1>2. QED
    BY <1>1, EndStep DEF Remember, IInv, TypeOK

LEMMA Checking ==
    ASSUME IInv, NEW s \in Sessions, CheckApproved(s)
    PROVE  IInv'
<1>1. CASE Step(s, Done(s))
    BY <1>1, EndStep DEF CheckApproved, IInv, TypeOK
<1>2. CASE Step(s, Goto(s, "select"))
    <2> DEFINE c == Goto(s, "select")
    <2>1. SameBut(c, s, {"pc"}) /\ c.pc = "select"
        BY GotoIs DEF IInv, Stages
    <2> HIDE DEF c
    <2>2. Step(s, c)
        BY <1>2 DEF c
    <2>3. call'[s] = c => CallOK(s)'
        BY <2>1 DEF SameBut, CallOK, Located, Meant, Entering, FreshInsert, FreshAppend,
               FreshDecision, FreshEntry, FreshSeed, CheckApproved, IInv
    <2>4. QED
        BY <2>1, <2>2, <2>3, MoveStep DEF SameBut, CheckApproved, IInv, TypeOK
<1>3. QED
    BY <1>1, <1>2 DEF CheckApproved

LEMMA ReadingSuggestions ==
    ASSUME IInv, NEW s \in Sessions, ReadSuggestions(s)
    PROVE  IInv'
<1> DEFINE row == pending[call[s].id]
<1>1. /\ call[s].pc = "capture" /\ call[s].id \in 1..Len(pending) /\ row.key = call[s].key
      /\ call[s].meaning # None
    BY DEF ReadSuggestions, IInv, CallOK, Located, Meant
<1>2. row \in PendingRow /\ Suggested(row) \in SUBSET Meanings
    BY <1>1, Types DEF IInv
<1>3. ASSUME NEW recorded \in BOOLEAN, Step(s, AfterCapture(s, recorded))
      PROVE  IInv'
    <2>1. CASE AfterCapture(s, recorded) = Done(s)
        BY <1>3, <2>1, EndStep DEF ReadSuggestions, IInv, TypeOK
    <2>2. CASE AfterCapture(s, recorded) = Goto(s, "approve") /\ SameBut(Goto(s, "approve"), s, {"pc"})
               /\ Goto(s, "approve").pc = "approve"
        <3> DEFINE c == Goto(s, "approve")
        <3>1. SameBut(c, s, {"pc"}) /\ c.pc = "approve" /\ Step(s, c)
            BY <1>3, <2>2
        <3> HIDE DEF c
        <3>2. call'[s] = c => CallOK(s)'
            BY <1>1, <3>1 DEF SameBut, CallOK, Located, Meant, Entering, FreshInsert, FreshAppend,
                   FreshDecision, FreshEntry, FreshSeed, ReadSuggestions
        <3>3. QED
            BY <3>1, <3>2, MoveStep DEF SameBut, ReadSuggestions, IInv, TypeOK
    <2>3. QED
        BY <2>1, <2>2, AfterCaptureIs DEF IInv
<1>4. ASSUME row.status = "PENDING",
             Step(s, [Goto(s, "append") EXCEPT !.first = row.first, !.seen = Suggested(row),
                                               !.overlapped = FALSE])
      PROVE  IInv'
    <2> DEFINE g == Goto(s, "append")
               c == [g EXCEPT !.first = row.first, !.seen = Suggested(row), !.overlapped = FALSE]
    <2>1. SameBut(g, s, {"pc"}) /\ g.pc = "append"
        BY GotoIs DEF IInv, Stages
    <2>2. SameBut(c, s, {"pc", "first", "seen", "overlapped"}) /\ c.pc = "append"
          /\ c.first = row.first /\ c.seen = Suggested(row)
        BY <1>2, <2>1 DEF SameBut, Call, PendingRow
    <2>3. Step(s, c)
        BY <1>4
    <2> HIDE DEF c
    <2>4. call'[s] = c => CallOK(s)'
        BY <1>1, <1>4, <2>2 DEF SameBut, CallOK, Located, Meant, Entering, FreshInsert, FreshAppend,
               FreshDecision, FreshEntry, FreshSeed, ReadSuggestions
    <2>5. QED
        BY <2>2, <2>3, <2>4, MoveStep DEF SameBut, ReadSuggestions, IInv, TypeOK
<1>5. QED
    BY <1>3, <1>4 DEF ReadSuggestions

LEMMA ReadingPending ==
    ASSUME IInv, NEW s \in Sessions, ReadPending(s)
    PROVE  IInv'
<1> DEFINE row == pending[call[s].id]
<1>1. /\ call[s].pc = "approve" /\ call[s].id \in 1..Len(pending) /\ row.key = call[s].key
    BY DEF ReadPending, IInv, CallOK, Located
<1>2. row \in PendingRow /\ Suggested(row) \in SUBSET Meanings
    BY <1>1, Types DEF IInv
<1>3. CASE Step(s, Done(s))
    BY <1>3, EndStep DEF ReadPending, IInv, TypeOK
<1>4. ASSUME Final(s, row) # None,
             Step(s, [Goto(s, "entry") EXCEPT !.first = Final(s, row), !.overlapped = FALSE,
                                              !.seen = Suggested(row) \cup {Final(s, row)}])
      PROVE  IInv'
    <2> DEFINE g == Goto(s, "entry")
               m == Final(s, row)
               c == [g EXCEPT !.first = m, !.overlapped = FALSE, !.seen = Suggested(row) \cup {m}]
    <2>1. SameBut(g, s, {"pc"}) /\ g.pc = "entry"
        BY GotoIs DEF IInv, Stages
    <2>2. m \in Meanings
        BY <1>2, <1>4, Types DEF Final, PendingRow, Call, IInv
    <2>3. Step(s, c)
        BY <1>4
    <2> HIDE DEF m
    <2>4. SameBut(c, s, {"pc", "first", "seen", "overlapped"}) /\ c.pc = "entry"
          /\ c.first = m /\ c.seen = Suggested(row) \cup {m}
        BY <1>2, <2>1, <2>2 DEF SameBut, Call
    <2> HIDE DEF c
    <2>5. call'[s] = c => CallOK(s)'
        BY <1>1, <2>2, <2>4, ModerationAssumption
           DEF SameBut, CallOK, Located, Meant, Entering, FreshInsert, FreshAppend,
               FreshDecision, FreshEntry, FreshSeed, ReadPending
    <2>6. QED
        BY <2>3, <2>4, <2>5, MoveStep DEF SameBut, ReadPending, IInv, TypeOK
<1>5. QED
    BY <1>3, <1>4 DEF ReadPending

LEMMA ReadingEntry ==
    ASSUME IInv, NEW s \in Sessions, ReadEntry(s)
    PROVE  IInv'
<1> DEFINE k == call[s].key
           g == Goto(s, "enter")
<1>1. /\ call[s].pc = "entry" /\ call[s].id \in 1..Len(pending)
      /\ pending[call[s].id].key = k /\ call[s].first # None
      /\ call[s] \in Call /\ call[s].first \in Meanings
    BY Types DEF ReadEntry, IInv, CallOK, Located, Meant, Call
<1>2. SameBut(g, s, {"pc"}) /\ g.pc = "enter"
    BY GotoIs DEF IInv, Stages
<1>3. ASSUME NEW e \in EntryIds, NEW more \in SUBSET Meanings,
             Step(s, [g EXCEPT !.row = e, !.alternatives = more]),
             e = 0 => call[s].seen \subseteq {call[s].first} \cup more,
             e # 0 => /\ e \in 1..Len(entries) /\ entries[e].key = k /\ entries[e].active
                      /\ call[s].seen \cup EntryMeanings(entries[e]) \subseteq {entries[e].expanded} \cup more
      PROVE  IInv'
    <2> DEFINE c == [g EXCEPT !.row = e, !.alternatives = more]
    <2>1. SameBut(c, s, {"pc", "row", "alternatives"}) /\ c.pc = "enter"
          /\ c.row = e /\ c.alternatives = more
        BY <1>2 DEF SameBut, Call
    <2>2. Step(s, c)
        BY <1>3
    <2> HIDE DEF c, g
    <2>3. call'[s] = c => CallOK(s)'
        <3> SUFFICES ASSUME call'[s] = c PROVE CallOK(s)'
            OBVIOUS
        <3>1. /\ call'[s].pc = "enter" /\ call'[s].id = call[s].id /\ call'[s].key = k
              /\ call'[s].first = call[s].first /\ call'[s].seen = call[s].seen
              /\ call'[s].overlapped = call[s].overlapped
              /\ call'[s].row = e /\ call'[s].alternatives = more
            BY <2>1 DEF SameBut
        <3>2. Located(s)' /\ Meant(s)' /\ FreshInsert(s)' /\ FreshAppend(s)' /\ FreshSeed(s)'
            BY <1>1, <3>1 DEF Located, Meant, FreshInsert, FreshAppend, FreshSeed, ReadEntry
        <3>3. Entering(s)' /\ FreshEntry(s)'
            BY <1>3, <3>1 DEF Entering, FreshEntry, ReadEntry
        <3>4. FreshDecision(s)'
            BY <1>1, <3>1 DEF FreshDecision, ReadEntry, IInv, CallOK
        <3>5. QED
            BY <3>2, <3>3, <3>4 DEF CallOK
    <2>4. QED
        BY <2>1, <2>2, <2>3, MoveStep DEF SameBut, ReadEntry, IInv, TypeOK
<1>4. CASE Step(s, [g EXCEPT !.row = 0,
                             !.alternatives = Additional(call[s].first, {}, call[s].seen)])
    <2>1. Additional(call[s].first, {}, call[s].seen) \in SUBSET Meanings
        BY <1>1 DEF Additional, Call
    <2>2. call[s].seen \subseteq {call[s].first} \cup Additional(call[s].first, {}, call[s].seen)
        BY DEF Additional
    <2>3. 0 \in EntryIds
        BY ModerationAssumption DEF EntryIds
    <2>4. QED
        BY <1>3, <1>4, <2>1, <2>2, <2>3
<1>5. ASSUME NEW e \in Active(k),
             Step(s, [g EXCEPT !.row = e,
                               !.alternatives = Additional(entries[e].expanded,
                                                           entries[e].alternatives, call[s].seen)])
      PROVE  IInv'
    <2> DEFINE more == Additional(entries[e].expanded, entries[e].alternatives, call[s].seen)
    <2>1. e \in 1..Len(entries) /\ entries[e].key = k /\ entries[e].active
          /\ e \in EntryIds /\ e # 0 /\ entries[e] \in EntryRow
        <3>1. e \in DOMAIN entries /\ entries[e].key = k /\ entries[e].active
            BY <1>5 DEF Active
        <3>2. e \in 1..Len(entries) /\ entries[e] \in EntryRow /\ Len(entries) \in 0..MaxEntries
            BY <3>1, Types DEF IInv
        <3>3. QED
            BY <3>1, <3>2, ModerationAssumption DEF EntryIds
    <2>2. more \in SUBSET Meanings
        BY <1>1, <2>1 DEF Additional, Call, EntryRow
    <2>3. call[s].seen \cup EntryMeanings(entries[e]) \subseteq {entries[e].expanded} \cup more
        BY DEF Additional, EntryMeanings
    <2>4. QED
        BY <1>3, <1>5, <2>1, <2>2, <2>3
<1>6. QED
    BY <1>4, <1>5 DEF ReadEntry

LEMMA ReadingForUpsert ==
    ASSUME IInv, NEW s \in Sessions, ReadForUpsert(s)
    PROVE  IInv'
<1> DEFINE k == call[s].key
           g == Goto(s, "store")
<1>1. /\ call[s].pc = "upsert" /\ call[s] \in Call /\ call[s].meaning # None
      /\ call[s].op \in {"save", "seed"}
    BY Types DEF ReadForUpsert, IInv, CallOK, Meant
<1>2. SameBut(g, s, {"pc"}) /\ g.pc = "store"
    BY GotoIs DEF IInv, Stages
<1>3. ASSUME NEW e \in EntryIds, NEW seen \in SUBSET Meanings,
             Step(s, [g EXCEPT !.row = e, !.seen = seen, !.overlapped = FALSE]),
             e # 0 => /\ e \in 1..Len(entries) /\ entries[e].key = k
                      /\ call[s].op = "seed" => entries[e].by = "seed"
      PROVE  IInv'
    <2> DEFINE c == [g EXCEPT !.row = e, !.seen = seen, !.overlapped = FALSE]
    <2>1. SameBut(c, s, {"pc", "row", "seen", "overlapped"}) /\ c.pc = "store" /\ c.row = e
        BY <1>2 DEF SameBut, Call
    <2>2. Step(s, c)
        BY <1>3
    <2> HIDE DEF c, g
    <2>3. call'[s] = c => CallOK(s)'
        BY <1>1, <1>3, <2>1 DEF SameBut, CallOK, Located, Meant, Entering, FreshInsert, FreshAppend,
               FreshDecision, FreshEntry, FreshSeed, ReadForUpsert
    <2>4. QED
        BY <2>1, <2>2, <2>3, MoveStep DEF SameBut, ReadForUpsert, IInv, TypeOK
<1>4. CASE Step(s, [g EXCEPT !.row = 0, !.seen = {}, !.overlapped = FALSE])
    <2>1. 0 \in EntryIds
        BY ModerationAssumption DEF EntryIds
    <2>2. QED
        BY <1>3, <1>4, <2>1
<1>5. ASSUME NEW e \in Active(k),
             IF PassedOver(s, entries[e])
             THEN Step(s, Goto(s, "sync"))
             ELSE Step(s, [g EXCEPT !.row = e, !.overlapped = FALSE,
                              !.seen = IF call[s].op = "save" THEN {} ELSE entries[e].alternatives])
      PROVE  IInv'
    <2>1. e \in 1..Len(entries) /\ entries[e].key = k /\ e \in EntryIds /\ entries[e] \in EntryRow
        <3>1. e \in DOMAIN entries /\ entries[e].key = k
            BY <1>5 DEF Active
        <3>2. e \in 1..Len(entries) /\ entries[e] \in EntryRow /\ Len(entries) \in 0..MaxEntries
            BY <3>1, Types DEF IInv
        <3>3. QED
            BY <3>1, <3>2, ModerationAssumption DEF EntryIds
    <2>2. CASE PassedOver(s, entries[e])
        <3> DEFINE c == Goto(s, "sync")
        <3>1. SameBut(c, s, {"pc"}) /\ c.pc = "sync"
            BY GotoIs DEF IInv, Stages
        <3>2. Step(s, c)
            BY <1>5, <2>2
        <3> HIDE DEF c
        <3>3. call'[s] = c => CallOK(s)'
            BY <3>1 DEF CallOK, Located, Meant, Entering, FreshInsert, FreshAppend,
                   FreshDecision, FreshEntry, FreshSeed
        <3>4. QED
            BY <3>1, <3>2, <3>3, MoveStep DEF SameBut, ReadForUpsert, IInv, TypeOK
    <2>3. CASE ~PassedOver(s, entries[e])
        <3> DEFINE seen == IF call[s].op = "save" THEN {} ELSE entries[e].alternatives
        <3>1. seen \in SUBSET Meanings
            BY <2>1 DEF EntryRow
        <3>2. call[s].op = "seed" => entries[e].by = "seed"
            BY <2>3 DEF PassedOver
        <3>3. Step(s, [g EXCEPT !.row = e, !.seen = seen, !.overlapped = FALSE])
            <4> DEFINE a == [g EXCEPT !.row = e, !.overlapped = FALSE, !.seen = seen]
                       b == [g EXCEPT !.row = e, !.seen = seen, !.overlapped = FALSE]
            <4>1. a = b
                BY <1>2 DEF SameBut, Call
            <4>2. Step(s, a)
                BY <1>5, <2>3
            <4> HIDE DEF a, b
            <4>3. Step(s, b)
                BY <4>1, <4>2
            <4>4. QED
                BY <4>3 DEF b
        <3> HIDE DEF seen
        <3>4. QED
            BY <1>3, <2>1, <3>1, <3>2, <3>3
    <2>4. QED
        BY <2>2, <2>3
<1>6. QED
    BY <1>4, <1>5 DEF ReadForUpsert

LEMMA Syncing ==
    ASSUME IInv, NEW s \in Sessions, Sync(s)
    PROVE  IInv'
<1>1. exported' \in [Keys -> SUBSET Meanings]
    <2>1. \A k \in Keys : Served(k) \in SUBSET Meanings
        BY Types DEF IInv, Served, Active
    <2>2. [k \in Keys |-> Served(k)] \in [Keys -> SUBSET Meanings]
        BY <2>1
    <2>3. QED
        BY <2>2 DEF Sync, IInv, TypeOK
<1>2. replays' \in [Workers -> [Keys -> PendingIds]]
    <2> DEFINE none == [k \in Keys |-> 0]
    <2>1. none \in [Keys -> PendingIds]
        BY ModerationAssumption DEF PendingIds
    <2>2. replays' = [replays EXCEPT ![call[s].home] = none]
        BY DEF Sync
    <2> HIDE DEF none
    <2>3. QED
        BY <2>1, <2>2 DEF IInv, TypeOK
<1>3. CASE Step(s, Done(s))
    BY <1>1, <1>2, <1>3, EndStep DEF Sync
<1>4. CASE Step(s, Goto(s, "readback"))
    <2> DEFINE c == Goto(s, "readback")
    <2>1. SameBut(c, s, {"pc"}) /\ c.pc = "readback"
        BY GotoIs DEF IInv, Stages
    <2>2. Step(s, c)
        BY <1>4
    <2> HIDE DEF c
    <2>3. call'[s] = c => CallOK(s)'
        BY <2>1 DEF CallOK, Located, Meant, Entering, FreshInsert, FreshAppend,
               FreshDecision, FreshEntry, FreshSeed
    <2>4. QED
        BY <1>1, <1>2, <2>1, <2>2, <2>3, MoveStep DEF SameBut, Sync
<1>5. QED
    BY <1>3, <1>4 DEF Sync

LEMMA ReadingBack ==
    ASSUME IInv, NEW s \in Sessions, ReadBack(s)
    PROVE  IInv'
    BY EndStep DEF ReadBack, IInv, TypeOK

----------------------------------------------------------------------------
(* Submissions.                                                             *)

LEMMA SubmittedIs ==
    ASSUME TypeOK, NEW s \in Sessions, NEW i \in PendingIds
    PROVE  /\ SameBut(Submitted(s, i), s, {"pc", "id", "overlapped"})
           /\ Submitted(s, i).pc \in {"remember", "capture"} /\ Submitted(s, i).id = i
           /\ Submitted(s, i).pc = "capture" => call[s].op # "submit"
<1> DEFINE pc == IF call[s].op = "submit" THEN "remember" ELSE "capture"
           c == [call[s] EXCEPT !.id = i, !.overlapped = FALSE, !.pc = pc]
<1>1. Submitted(s, i) = c /\ call[s] \in Call
    BY Types DEF Submitted
<1>2. pc \in {"remember", "capture"} /\ (pc = "capture" => call[s].op # "submit")
    OBVIOUS
<1> HIDE DEF pc
<1>3. c \in Call
    BY <1>1, <1>2 DEF Call, Stages
<1>4. c.pc = pc /\ c.id = i
    BY <1>1 DEF Call
<1>5. \A f \in {"op", "home", "key", "meaning", "alternatives", "approves", "first", "seen",
               "row"} : c[f] = call[s][f]
    BY <1>1 DEF Call
<1> HIDE DEF c
<1>6. QED
    BY <1>1, <1>2, <1>3, <1>4, <1>5 DEF SameBut

LEMMA SelectingOpen ==
    ASSUME IInv, NEW s \in Sessions, SelectOpen(s)
    PROVE  IInv'
<1>1. call[s].pc = "select" /\ call[s] \in Call /\ (call[s].op # "submit" => call[s].meaning # None)
    BY Types DEF SelectOpen, IInv, CallOK, Meant
<1>2. ASSUME NEW i \in Open(call[s].key), Step(s, Submitted(s, i))
      PROVE  IInv'
    <2> DEFINE c == Submitted(s, i)
    <2>1. i \in 1..Len(pending) /\ i \in PendingIds /\ pending[i].key = call[s].key
        <3>1. i \in DOMAIN pending /\ pending[i].key = call[s].key
            BY <1>2 DEF Open
        <3>2. i \in 1..Len(pending) /\ Len(pending) \in 0..MaxPending
            BY <3>1, Types DEF IInv
        <3>3. QED
            BY <3>1, <3>2, ModerationAssumption DEF PendingIds
    <2>2. /\ SameBut(c, s, {"pc", "id", "overlapped"}) /\ c.id = i
          /\ c.pc \in {"remember", "capture"} /\ (c.pc = "capture" => call[s].op # "submit")
        BY <2>1, SubmittedIs DEF IInv
    <2>3. Step(s, c)
        BY <1>2
    <2> HIDE DEF c
    <2>4. call'[s] = c => CallOK(s)'
        BY <1>1, <2>1, <2>2 DEF SameBut, CallOK, Located, Meant, Entering, FreshInsert, FreshAppend,
               FreshDecision, FreshEntry, FreshSeed, SelectOpen
    <2>5. QED
        BY <2>2, <2>3, <2>4, MoveStep DEF SameBut, SelectOpen, IInv, TypeOK
<1>3. ASSUME Open(call[s].key) = {}, Step(s, [Goto(s, "insert") EXCEPT !.overlapped = FALSE])
      PROVE  IInv'
    <2> DEFINE g == Goto(s, "insert")
               c == [g EXCEPT !.overlapped = FALSE]
    <2>1. SameBut(g, s, {"pc"}) /\ g.pc = "insert"
        BY GotoIs DEF IInv, Stages
    <2>2. SameBut(c, s, {"pc", "overlapped"}) /\ c.pc = "insert"
        BY <2>1 DEF SameBut, Call
    <2>3. Step(s, c)
        BY <1>3
    <2> HIDE DEF c
    <2>4. call'[s] = c => CallOK(s)'
        BY <1>1, <1>3, <2>2 DEF SameBut, CallOK, Located, Meant, Entering, FreshInsert, FreshAppend,
               FreshDecision, FreshEntry, FreshSeed, SelectOpen, Open
    <2>5. QED
        BY <2>2, <2>3, <2>4, MoveStep DEF SameBut, SelectOpen, IInv, TypeOK
<1>4. QED
    BY <1>2, <1>3 DEF SelectOpen

LEMMA Inserting ==
    ASSUME IInv, NEW s \in Sessions, InsertPending(s)
    PROVE  IInv'
<1> DEFINE k == call[s].key
           i == Len(pending) + 1
           new == [key |-> k, first |-> None, also |-> {}, status |-> "PENDING", entry |-> 0]
           c == Submitted(s, i)
<1>1. /\ call[s].pc = "insert" /\ call[s] \in Call /\ k \in Keys
      /\ call[s].op # "submit" => call[s].meaning # None
    BY Types DEF InsertPending, IInv, CallOK, Meant, Call
<1>2. Len(pending) \in Nat /\ Len(entries) \in Nat /\ i \in PendingIds
    BY LenProperties, ModerationAssumption DEF IInv, TypeOK, InsertPending, PendingIds
<1>3. new \in PendingRow
    BY <1>1, ModerationAssumption DEF PendingRow, EntryIds
<1>4. /\ pending' \in Seq(PendingRow) /\ Len(pending') = i
      /\ \A j \in 1..Len(pending) : pending'[j] = pending[j]
      /\ pending'[i] = new
    <2>1. pending' = Append(pending, new)
        BY DEF InsertPending
    <2> HIDE DEF new
    <2>2. QED
        BY <1>3, <2>1, AppendProperties DEF IInv, TypeOK
<1>5. /\ SameBut(c, s, {"pc", "id", "overlapped"}) /\ c.id = i
      /\ c.pc \in {"remember", "capture"} /\ (c.pc = "capture" => call[s].op # "submit")
    BY <1>2, SubmittedIs DEF IInv
<1>6. Commit(s, ReadOpen, c)
    BY DEF InsertPending
<1> HIDE DEF c
<1>7. Moves(s, ReadOpen, c) /\ call'[s] = c /\ c \in Call
    BY <1>5, <1>6, CommitIs DEF IInv, SameBut, Moves
<1>8. CallOK(s)'
    BY <1>1, <1>2, <1>4, <1>5, <1>7 DEF SameBut, CallOK, Located, Meant, Entering, FreshInsert, FreshAppend,
           FreshDecision, FreshEntry, FreshSeed
<1>9. Writes(k)
    BY <1>2, <1>4 DEF Writes, PendingWrites, EntryWrites, InsertPending
<1>10. OneOpenRow'
    <2> SUFFICES ASSUME NEW h \in Keys PROVE Cardinality(Open(h)') <= 1 + raced'[h]
        BY DEF OneOpenRow
    <2> DEFINE old == Open(h)
               opened == Open(h)'
    <2>1. IsFiniteSet(old) /\ Cardinality(old) <= 1 + raced[h] /\ raced \in [Keys -> Nat]
        BY OpenFinite DEF IInv, RowsOK, OneOpenRow, TypeOK
    <2>2. opened = IF h = k THEN old \cup {i} ELSE old
        <3>1. DOMAIN pending = 1..Len(pending) /\ DOMAIN pending' = 1..i
            BY <1>2, <1>4, LenProperties DEF IInv, TypeOK
        <3>2. QED
            BY <1>2, <1>4, <3>1 DEF Open
    <2>3. /\ h # k => raced'[h] = raced[h]
          /\ call[s].overlapped => raced'[k] = raced[k] + 1
          /\ ~call[s].overlapped => raced'[k] = raced[k]
        BY <1>1, <2>1 DEF InsertPending
    <2>4. ~call[s].overlapped => Open(k) = {}
        BY <1>1 DEF IInv, CallOK, FreshInsert
    <2>5. ~call[s].overlapped /\ h = k => old = {}
        BY <2>4
    <2>6. raced[h] \in Nat
        BY <2>1
    <2> HIDE DEF old, opened
    <2>7. CASE h # k
        BY <2>1, <2>2, <2>3, <2>7 DEF opened
    <2>8. CASE h = k /\ call[s].overlapped
        <3>1. Cardinality(old) \in Nat /\ Cardinality(opened) <= Cardinality(old) + 1
              /\ Cardinality(opened) \in Nat
            <4>1. opened = old \cup {i}
                BY <2>2, <2>8
            <4>2. IsFiniteSet(opened) /\ Cardinality(opened) \in {Cardinality(old), Cardinality(old) + 1}
                BY <2>1, <4>1, FS_AddElement
            <4>3. QED
                BY <2>1, <4>2, FS_CardinalityType
        <3>2. QED
            BY <2>1, <2>3, <2>6, <2>8, <3>1 DEF opened
    <2>9. CASE h = k /\ ~call[s].overlapped
        <3>1. opened = {i}
            BY <2>2, <2>5, <2>9
        <3>2. Cardinality(opened) = 1
            BY <3>1, FS_Singleton
        <3>3. QED
            BY <2>3, <2>6, <2>9, <3>2 DEF opened
    <2>10. QED
        BY <2>7, <2>8, <2>9
<1>11. \A j \in 1..Len(pending') : Entered(j)'
    <2> SUFFICES ASSUME NEW j \in 1..Len(pending') PROVE Entered(j)'
        OBVIOUS
    <2>1. CASE j \in 1..Len(pending)
        <3>1. pending'[j] = pending[j] /\ Entered(j)
            BY <1>4, <2>1 DEF IInv, RowsOK
        <3>2. QED
            BY <3>1 DEF Entered, InsertPending
    <2>2. CASE j = i
        BY <1>4, <2>2 DEF Entered
    <2>3. QED
        BY <1>2, <1>4, <2>1, <2>2
<1>12. RowsOK' /\ raced' \in [Keys -> Nat]
    BY <1>1, <1>10, <1>11 DEF RowsOK, InsertPending, IInv, TypeOK
<1>13. Len(pending') <= MaxPending
    BY <1>2, <1>4, ModerationAssumption DEF InsertPending
<1>14. Spares(k, ReadOpen)
    BY <1>4 DEF Spares, InsertPending
<1>15. QED
    BY <1>4, <1>7, <1>8, <1>9, <1>12, <1>13, <1>14, WriteStep DEF InsertPending, IInv, TypeOK

----------------------------------------------------------------------------
(* Writes to the rows.                                                      *)

RowWritten(s, row) == pending' = [pending EXCEPT ![call[s].id] = row]

\* Of the pending rows, only the one of the call has changed.
LEMMA RowWrite ==
    ASSUME TypeOK, NEW s \in Sessions, NEW row \in PendingRow, call[s].id \in 1..Len(pending),
           pending[call[s].id].key = call[s].key, row.key = call[s].key, RowWritten(s, row)
    PROVE  LET i == call[s].id IN
           /\ pending' \in Seq(PendingRow) /\ Len(pending') = Len(pending)
           /\ pending'[i] = row /\ \A j \in 1..Len(pending) : j # i => pending'[j] = pending[j]
           /\ PendingWrites(call[s].key)
           /\ entries' = entries => Writes(call[s].key)
<1> DEFINE i == call[s].id
<1>1. /\ pending' \in Seq(PendingRow) /\ Len(pending') = Len(pending)
      /\ pending'[i] = row /\ \A j \in 1..Len(pending) : j # i => pending'[j] = pending[j]
    BY ExceptSeq DEF TypeOK, RowWritten
<1>2. Len(pending) \in Nat /\ Len(entries) \in Nat
    BY LenProperties DEF TypeOK
<1>3. QED
    BY <1>1, <1>2 DEF Writes, PendingWrites, EntryWrites

\* What a row suggests once a capture has written it.
LEMMA Written ==
    ASSUME IInv, NEW s \in Sessions, WriteSuggestions(s)
    PROVE  LET i == call[s].id IN
           /\ i \in 1..Len(pending) /\ pending[i].key = call[s].key
           /\ pending' \in Seq(PendingRow) /\ Len(pending') = Len(pending)
           /\ \A j \in 1..Len(pending) : j # i => pending'[j] = pending[j]
           /\ pending'[i].key = pending[i].key /\ pending'[i].status = pending[i].status
           /\ pending'[i].entry = pending[i].entry
           /\ call[s].seen \subseteq Suggested(pending'[i])
           /\ Writes(call[s].key)
<1> DEFINE i == call[s].id
           kept == IF call[s].first = None THEN call[s].meaning ELSE call[s].first
           more == call[s].seen \cup {call[s].meaning}
           row == [pending[i] EXCEPT !.first = kept, !.also = more]
<1>1. /\ call[s] \in Call /\ i \in 1..Len(pending) /\ pending[i].key = call[s].key
      /\ call[s].meaning \in Meanings
    BY Types DEF WriteSuggestions, IInv, CallOK, Located, Meant, Call
<1>2. pending[i] \in PendingRow
    BY <1>1, Types DEF IInv
<1>3. kept \in Meanings \cup {None} /\ more \in SUBSET Meanings
    BY <1>1 DEF Call
<1>4. pending' = [pending EXCEPT ![i].first = kept, ![i].also = more]
    BY DEF WriteSuggestions
<1> HIDE DEF kept
<1>5. row \in PendingRow /\ row.key = pending[i].key /\ row.status = pending[i].status
      /\ row.entry = pending[i].entry /\ row.also = more
    BY <1>2, <1>3 DEF PendingRow
<1>6. RowWritten(s, row)
    <2>1. pending' = [pending EXCEPT ![i] = row]
        BY <1>1, <1>2, <1>4, Types DEF IInv, PendingRow
    <2>2. QED
        BY <2>1 DEF RowWritten
<1> HIDE DEF row
<1>7. TypeOK /\ row.key = call[s].key /\ entries' = entries
    BY <1>1, <1>5 DEF WriteSuggestions, IInv
<1>8. /\ pending' \in Seq(PendingRow) /\ Len(pending') = Len(pending)
      /\ pending'[i] = row /\ \A j \in 1..Len(pending) : j # i => pending'[j] = pending[j]
      /\ Writes(call[s].key)
    BY <1>1, <1>5, <1>6, <1>7, RowWrite
<1>9. call[s].seen \subseteq Suggested(row)
    BY <1>5 DEF Suggested
<1>10. QED
    BY <1>1, <1>5, <1>8, <1>9

LEMMA Writing ==
    ASSUME IInv, NEW s \in Sessions, WriteSuggestions(s)
    PROVE  IInv'
<1> DEFINE i == call[s].id
           a == AfterCapture(s, TRUE)
           c == [a EXCEPT !.first = None, !.seen = {}]
<1>1. /\ i \in 1..Len(pending) /\ pending[i].key = call[s].key
      /\ pending' \in Seq(PendingRow) /\ Len(pending') = Len(pending)
      /\ \A j \in 1..Len(pending) : j # i => pending'[j] = pending[j]
      /\ pending'[i].key = pending[i].key /\ pending'[i].status = pending[i].status
      /\ pending'[i].entry = pending[i].entry
      /\ Writes(call[s].key)
    BY Written
<1>2. a \in Call /\ (a.pc = "idle" \/ (a.pc = "approve" /\ a.id = i /\ a.key = call[s].key))
    <2>1. Done(s) \in Call /\ Done(s).pc = "idle"
        BY IdleIsCall DEF Done
    <2>2. QED
        BY <2>1, AfterCaptureIs DEF IInv, SameBut
<1>3. Commit(s, ReadSuggested, c)
    BY DEF WriteSuggestions
<1> HIDE DEF a
<1>4. c \in Call /\ (c.pc = "idle" \/ (c.pc = "approve" /\ c.id = i /\ c.key = call[s].key))
    BY <1>2 DEF Call
<1> HIDE DEF c
<1>5. Moves(s, ReadSuggested, c) /\ call'[s] = c
    BY <1>3, <1>4, CommitIs DEF IInv, Moves
<1>6. CallOK(s)'
    BY <1>1, <1>4, <1>5 DEF CallOK, Located, Meant, Entering, FreshInsert, FreshAppend,
           FreshDecision, FreshEntry, FreshSeed
<1>7. \A k : OpenBefore(k)
    <2>1. \A j \in 1..Len(pending) : pending'[j].key = pending[j].key /\ pending'[j].status = pending[j].status
        BY <1>1
    <2>2. DOMAIN pending = 1..Len(pending)
        BY Types DEF IInv
    <2>3. QED
        BY <1>1, <2>1, <2>2 DEF OpenBefore, Open
<1>8. ASSUME NEW j \in 1..Len(pending) PROVE Entered(j)'
    <2>1. CASE j = i
        <3>1. i \in released' \/ pending[i].entry = 0
            BY DEF WriteSuggestions
        <3>2. QED
            BY <1>1, <2>1, <3>1 DEF Entered
    <2>2. CASE j # i
        <3>1. pending'[j] = pending[j] /\ Entered(j) /\ released \subseteq released'
            BY <1>1, <2>2 DEF IInv, RowsOK, WriteSuggestions
        <3>2. QED
            BY <3>1 DEF Entered, WriteSuggestions
    <2>3. QED
        BY <2>1, <2>2
<1>9. RowsOK'
    <2>1. OneOpenRow'
        BY <1>1, <1>7, NoneOpens DEF IInv, RowsOK, WriteSuggestions
    <2>2. QED
        BY <1>1, <1>8, <2>1 DEF RowsOK
<1>10. released' \subseteq PendingIds /\ raced' \in [Keys -> Nat]
    BY Types DEF WriteSuggestions, IInv, TypeOK, Call
<1>11. Spares(call[s].key, ReadSuggested)
    BY <1>7 DEF Spares, WriteSuggestions, ReadSuggested
<1>12. QED
    BY <1>1, <1>4, <1>5, <1>6, <1>9, <1>10, <1>11, WriteStep DEF WriteSuggestions, IInv, TypeOK

LEMMA Rejecting ==
    ASSUME IInv, NEW s \in Sessions, Reject(s)
    PROVE  IInv'
<1> DEFINE i == call[s].id
           row == [pending[i] EXCEPT !.status = "REJECTED"]
<1>1. i \in 1..Len(pending) /\ pending[i].key = call[s].key /\ pending[i] \in PendingRow
    BY Types DEF Reject, IInv, CallOK, Located
<1>2. row \in PendingRow /\ row.key = pending[i].key /\ row.status = "REJECTED"
      /\ row.entry = pending[i].entry /\ Suggested(row) = Suggested(pending[i])
    BY <1>1 DEF PendingRow, Suggested
<1>3. RowWritten(s, row)
    BY DEF Reject, RowWritten
<1> HIDE DEF row
<1>4. /\ pending' \in Seq(PendingRow) /\ Len(pending') = Len(pending)
      /\ pending'[i] = row /\ \A j \in 1..Len(pending) : j # i => pending'[j] = pending[j]
      /\ Writes(call[s].key)
    <2>1. TypeOK /\ row.key = call[s].key /\ entries' = entries
        BY <1>1, <1>2 DEF Reject, IInv
    <2>2. QED
        BY <1>1, <1>2, <1>3, <2>1, RowWrite
<1>5. Done(s) \in Call /\ Done(s).pc = "idle" /\ Step(s, Done(s))
    BY IdleIsCall DEF Done, Reject
<1>6. Moves(s, {}, Done(s)) /\ CallOK(s)'
    BY <1>5, StepMoves DEF IInv, Moves, CallOK, Located, Meant, Entering, FreshInsert, FreshAppend,
           FreshDecision, FreshEntry, FreshSeed
<1>7. \A k : OpenBefore(k)
    <2>1. DOMAIN pending = 1..Len(pending)
        BY Types DEF IInv
    <2>2. QED
        BY <1>2, <1>4, <2>1 DEF OpenBefore, Open
<1>8. \A j \in 1..Len(pending) : Entered(j)'
    BY <1>2, <1>4 DEF IInv, RowsOK, Entered, Reject, history
<1>9. RowsOK'
    <2>1. OneOpenRow'
        BY <1>4, <1>7, NoneOpens DEF IInv, RowsOK, Reject, history
    <2>2. QED
        BY <1>4, <1>8, <2>1 DEF RowsOK
<1>10. Spares(call[s].key, {})
    BY <1>2, <1>4, <1>7 DEF Spares, Reject
<1>11. QED
    BY <1>4, <1>5, <1>6, <1>9, <1>10, WriteStep DEF Reject, IInv, TypeOK, history

----------------------------------------------------------------------------
(* Writes to the dictionary.                                                *)

EntryWritten(k, e, new) ==
    \/ e = Len(entries) + 1 /\ entries' = Append(entries, new) /\ Len(entries) < MaxEntries
    \/ e \in 1..Len(entries) /\ entries[e].key = k /\ entries' = [entries EXCEPT ![e] = new]

\* Of the entries, only one of the call's key has changed or is new.
LEMMA EntryWrite ==
    ASSUME TypeOK, NEW k, NEW e \in Nat, NEW new \in EntryRow, new.key = k,
           EntryWritten(k, e, new)
    PROVE  /\ entries' \in Seq(EntryRow) /\ Len(entries') <= MaxEntries
           /\ Len(entries') >= Len(entries) /\ e \in 1..Len(entries') /\ entries'[e] = new
           /\ \A f \in 1..Len(entries) : f # e => entries'[f] = entries[f]
           /\ EntryWrites(k)
<1>1. Len(entries) \in Nat /\ Len(entries) <= MaxEntries /\ MaxEntries \in Nat
    BY LenProperties, ModerationAssumption DEF TypeOK
<1>2. CASE e = Len(entries) + 1 /\ entries' = Append(entries, new) /\ Len(entries) < MaxEntries
    <2>1. entries' \in Seq(EntryRow) /\ Len(entries') = e /\ entries'[e] = new
          /\ \A f \in 1..Len(entries) : entries'[f] = entries[f]
        BY <1>2, AppendProperties DEF TypeOK
    <2>2. QED
        BY <1>1, <1>2, <2>1 DEF EntryWrites
<1>3. CASE e \in 1..Len(entries) /\ entries[e].key = k /\ entries' = [entries EXCEPT ![e] = new]
    <2>1. entries' \in Seq(EntryRow) /\ Len(entries') = Len(entries) /\ entries'[e] = new
          /\ \A f \in 1..Len(entries) : f # e => entries'[f] = entries[f]
        BY <1>3, ExceptSeq DEF TypeOK
    <2>2. \A f \in 1..Len(entries) : entries'[f].key = entries[f].key
                                     /\ (entries[f].key # k => entries'[f] = entries[f])
        BY <1>3, <2>1
    <2>3. Len(entries') <= MaxEntries /\ Len(entries') >= Len(entries) /\ e \in 1..Len(entries')
        <3>1. e \in 1..Len(entries) /\ Len(entries') = Len(entries)
            BY <1>3, <2>1
        <3>2. QED
            BY <1>1, <3>1
    <2>4. QED
        BY <2>1, <2>2, <2>3 DEF EntryWrites
<1>4. QED
    BY <1>2, <1>3 DEF EntryWritten

\* Approved rows that have not been overtaken keep what their entries keep.
LEMMA EntriesKept ==
    ASSUME IInv, NEW e, NEW j \in 1..Len(pending), pending'[j] = pending[j],
           Len(entries') >= Len(entries), released \subseteq released',
           \A f \in 1..Len(entries) : f # e => entries'[f] = entries[f],
           j \notin released' /\ pending[j].entry # 0 /\ pending[j].entry = e
                /\ e \in 1..Len(entries) /\ entries[e].by = "reviewer" /\ entries[e].active
              => /\ entries'[e].key = entries[e].key /\ entries'[e].active
                 /\ entries'[e].by = "reviewer"
                 /\ EntryMeanings(entries[e]) \subseteq EntryMeanings(entries'[e])
    PROVE  Entered(j)'
<1>1. Entered(j)
    BY DEF IInv, RowsOK
<1>2. Len(entries) \in Nat /\ Len(entries') >= Len(entries)
    BY LenProperties DEF IInv, TypeOK
<1>3. CASE pending[j].entry = e
    BY <1>1, <1>2, <1>3 DEF Entered
<1>4. CASE pending[j].entry # e
    BY <1>1, <1>2, <1>4 DEF Entered
<1>5. QED
    BY <1>3, <1>4

LEMMA ApprovalIds == ASSUME TypeOK, NEW e PROVE Approvals(e) \subseteq PendingIds
    BY Types, ModerationAssumption DEF Approvals, PendingIds

\* A call that has committed its entry goes on to the export.
LEMMA SyncNext ==
    ASSUME IInv, NEW s \in Sessions, NEW c, Commit(s, ReadDictionary, c), c \in Call, c.pc = "sync"
    PROVE  CallOK(s)' /\ Moves(s, ReadDictionary, c)
<1>1. Moves(s, ReadDictionary, c) /\ call'[s] = c
    BY CommitIs DEF IInv, Moves
<1>2. QED
    BY <1>1 DEF CallOK, Located, Meant, Entering, FreshInsert, FreshAppend, FreshDecision, FreshEntry,
           FreshSeed

LEMMA Approving ==
    ASSUME IInv, NEW s \in Sessions, Approve(s)
    PROVE  IInv'
<1> DEFINE c == call[s]
           i == c.id
           e == IF c.row = 0 THEN Len(entries) + 1 ELSE c.row
           row == [pending[i] EXCEPT !.status = "APPROVED", !.entry = e]
           new == IF c.row = 0 THEN NewEntry(c.key, c.first, c.alternatives, "reviewer")
                  ELSE [entries[c.row] EXCEPT !.alternatives = c.alternatives, !.by = "reviewer"]
<1>1. /\ c \in Call /\ c.pc = "enter" /\ i \in 1..Len(pending) /\ pending[i].key = c.key
      /\ pending[i] \in PendingRow /\ c.first \in Meanings /\ c.key \in Keys
      /\ c.alternatives \in SUBSET Meanings /\ c.seen \in SUBSET Meanings
    BY Types DEF Approve, IInv, CallOK, Located, Meant, Call
<1>2. c.row # 0 => /\ c.row \in 1..Len(entries) /\ entries[c.row].key = c.key
                   /\ entries[c.row] \in EntryRow
    BY <1>1, Types DEF IInv, CallOK, Entering
<1>3. Len(entries) \in Nat /\ Len(entries) <= MaxEntries
    BY LenProperties DEF IInv, TypeOK
<1>4. e \in EntryIds /\ e \in Nat
    BY <1>2, <1>3, ModerationAssumption DEF Approve, EntryIds
<1>5. /\ new \in EntryRow /\ new.key = c.key /\ new.by = "reviewer"
      /\ c.row = 0 => new.active /\ EntryMeanings(new) = {c.first} \cup c.alternatives
      /\ c.row # 0 => /\ new.active = entries[c.row].active
                      /\ EntryMeanings(new) = {entries[c.row].expanded} \cup c.alternatives
    <2>1. CASE c.row = 0
        <3>1. new = NewEntry(c.key, c.first, c.alternatives, "reviewer")
            BY <2>1
        <3>2. QED
            BY <1>1, <2>1, <3>1 DEF NewEntry, EntryRow, EntryMeanings
    <2>2. CASE c.row # 0
        <3>1. new = [entries[c.row] EXCEPT !.alternatives = c.alternatives, !.by = "reviewer"]
            BY <2>2
        <3>2. QED
            BY <1>1, <1>2, <2>2, <3>1 DEF EntryRow, EntryMeanings
    <2>3. QED
        BY <2>1, <2>2
<1>6. EntryWritten(c.key, e, new)
    <2>1. CASE c.row = 0
        BY <2>1 DEF Approve, EntryWritten
    <2>2. CASE c.row # 0
        <3>1. entries' = [entries EXCEPT ![e] = new]
            BY <1>2, <2>2, Types DEF Approve, IInv, EntryRow
        <3>2. QED
            BY <1>2, <2>2, <3>1 DEF EntryWritten
    <2>3. QED
        BY <2>1, <2>2
<1>7. pending' = [pending EXCEPT ![i].status = "APPROVED", ![i].entry = e]
      /\ released' = IF c.overlapped THEN released \cup Approvals(e) \cup {i} ELSE released
    BY DEF Approve
<1> HIDE DEF new, e
<1>8. row \in PendingRow /\ row.key = c.key /\ row.status = "APPROVED" /\ row.entry = e
      /\ Suggested(row) = Suggested(pending[i])
    BY <1>1, <1>4 DEF PendingRow, Suggested
<1>9. RowWritten(s, row)
    <2>1. pending' = [pending EXCEPT ![i] = row]
        BY <1>1, <1>7, Types DEF IInv, PendingRow
    <2>2. QED
        BY <2>1 DEF RowWritten
<1> HIDE DEF row
<1>10. /\ pending' \in Seq(PendingRow) /\ Len(pending') = Len(pending)
       /\ pending'[i] = row /\ \A j \in 1..Len(pending) : j # i => pending'[j] = pending[j]
       /\ PendingWrites(c.key)
    BY <1>1, <1>8, <1>9, RowWrite DEF IInv
<1>11. /\ entries' \in Seq(EntryRow) /\ Len(entries') <= MaxEntries
       /\ Len(entries') >= Len(entries) /\ e \in 1..Len(entries') /\ entries'[e] = new
       /\ \A f \in 1..Len(entries) : f # e => entries'[f] = entries[f]
       /\ EntryWrites(c.key)
    BY <1>4, <1>5, <1>6, EntryWrite DEF IInv
<1>12. Goto(s, "sync") \in Call /\ Goto(s, "sync").pc = "sync"
       /\ Commit(s, ReadDictionary, Goto(s, "sync"))
    BY GotoIs DEF Approve, IInv, SameBut, Stages
<1>13. CallOK(s)' /\ Moves(s, ReadDictionary, Goto(s, "sync"))
    BY <1>12, SyncNext
<1>14. released \subseteq released' /\ released' \subseteq PendingIds /\ raced' = raced
    BY <1>1, <1>7, ApprovalIds DEF IInv, TypeOK, Approve, Call
<1>15. Spares(c.key, ReadDictionary) /\ OneOpenRow'
    <2>1. DOMAIN pending = 1..Len(pending)
        BY Types DEF IInv
    <2>2. \A k : OpenBefore(k)
        BY <1>8, <1>10, <2>1 DEF OpenBefore, Open
    <2>3. \A j \in 1..Len(pending) : Suggested(pending'[j]) = Suggested(pending[j])
        BY <1>8, <1>10
    <2>4. QED
        BY <1>10, <1>14, <2>2, <2>3, NoneOpens DEF Spares, IInv, RowsOK
<1>16. ASSUME NEW j \in 1..Len(pending), j = i PROVE Entered(j)'
    <2> SUFFICES ASSUME j \notin released' PROVE Entered(j)'
        BY DEF Entered
    <2>1. ~c.overlapped
        BY <1>7, <1>16
    <2>2. Suggested(pending[i]) \subseteq c.seen /\ new.active /\ c.seen \subseteq EntryMeanings(new)
        BY <1>1, <1>5, <2>1 DEF IInv, CallOK, FreshDecision, FreshEntry
    <2>3. pending'[j] = row /\ entries'[e] = new
        BY <1>10, <1>11, <1>16
    <2>4. QED
        BY <1>5, <1>8, <1>11, <2>2, <2>3 DEF Entered
<1>17. ASSUME NEW j \in 1..Len(pending), j # i PROVE Entered(j)'
    <2>1. ASSUME j \notin released', pending[j].entry = e, e \in 1..Len(entries), entries[e].active
          PROVE  /\ entries'[e].key = entries[e].key /\ entries'[e].active
                 /\ entries'[e].by = "reviewer"
                 /\ EntryMeanings(entries[e]) \subseteq EntryMeanings(entries'[e])
        <3>1. ~c.overlapped
            BY <1>7, <2>1, Types DEF Approvals, IInv
        <3>2. c.row # 0 /\ e = c.row
            BY <1>3, <2>1 DEF e
        <3>3. EntryMeanings(entries[e]) \subseteq EntryMeanings(new)
            BY <1>1, <1>5, <3>1, <3>2 DEF IInv, CallOK, FreshEntry
        <3>4. QED
            BY <1>2, <1>5, <1>11, <2>1, <3>2, <3>3
    <2>2. pending'[j] = pending[j]
        BY <1>10, <1>17
    <2>3. QED
        BY <1>11, <1>14, <2>1, <2>2, EntriesKept
<1>18. RowsOK'
    BY <1>10, <1>15, <1>16, <1>17 DEF RowsOK
<1>19. removed' \in [Keys -> SUBSET Meanings]
    BY <1>1 DEF Approve, IInv, TypeOK
<1>20. Writes(c.key) /\ Len(pending') <= MaxPending /\ raced' \in [Keys -> Nat]
    BY <1>10, <1>11, <1>14 DEF Writes, IInv, TypeOK
<1>21. UNCHANGED <<exported, replays>>
    BY DEF Approve
<1>22. QED
    BY <1>10, <1>11, <1>12, <1>13, <1>14, <1>15, <1>18, <1>19, <1>20, <1>21, WriteStep

LEMMA Upserting ==
    ASSUME IInv, NEW s \in Sessions, Upsert(s)
    PROVE  IInv'
<1> DEFINE c == call[s]
           e == IF c.row = 0 THEN Len(entries) + 1 ELSE c.row
           stored == Additional(c.meaning, c.seen, c.alternatives)
           before == IF c.row = 0 THEN {} ELSE EntryMeanings(entries[c.row])
           new == IF c.row = 0 THEN NewEntry(c.key, c.meaning, stored, Author(s))
                  ELSE [entries[c.row] EXCEPT !.expanded = c.meaning, !.alternatives = stored,
                                              !.by = Author(s)]
           g == Goto(s, "sync")
           d == [g EXCEPT !.seen = {}]
<1>1. /\ c \in Call /\ c.pc = "store" /\ c.meaning \in Meanings /\ c.key \in Keys
      /\ c.op \in {"save", "seed"}
    BY Types DEF Upsert, IInv, CallOK, Meant, Call
<1>2. c.row # 0 => /\ c.row \in 1..Len(entries) /\ entries[c.row].key = c.key
                   /\ entries[c.row] \in EntryRow /\ EntryMeanings(entries[c.row]) \in SUBSET Meanings
    BY <1>1, Types DEF IInv, CallOK, Entering
<1>3. Len(entries) \in Nat /\ e \in Nat
    BY <1>2, LenProperties DEF IInv, TypeOK
<1>4. stored \in SUBSET Meanings /\ before \in SUBSET Meanings /\ Author(s) \in {"seed", "reviewer"}
    BY <1>1, <1>2 DEF Additional, Call, Author
<1>5. /\ removed' \in [Keys -> SUBSET Meanings]
      /\ released' = IF c.row # 0 /\ (c.op = "save" \/ c.overlapped)
                     THEN released \cup Approvals(c.row) ELSE released
    BY <1>4 DEF Upsert, IInv, TypeOK
<1>6. /\ c.row = 0 => /\ entries' = Append(entries, NewEntry(c.key, c.meaning, stored, Author(s)))
                      /\ Len(entries) < MaxEntries
      /\ c.row # 0 => entries' = [entries EXCEPT ![c.row].expanded = c.meaning,
                                        ![c.row].alternatives = stored, ![c.row].by = Author(s)]
    BY DEF Upsert
<1> HIDE DEF stored
<1>7. new \in EntryRow /\ new.key = c.key
    <2>1. CASE c.row = 0
        <3>1. new = NewEntry(c.key, c.meaning, stored, Author(s))
            BY <2>1
        <3>2. QED
            BY <1>1, <1>4, <3>1 DEF NewEntry, EntryRow
    <2>2. CASE c.row # 0
        <3>1. new = [entries[c.row] EXCEPT !.expanded = c.meaning, !.alternatives = stored,
                                           !.by = Author(s)]
            BY <2>2
        <3>2. QED
            BY <1>1, <1>2, <1>4, <2>2, <3>1 DEF EntryRow
    <2>3. QED
        BY <2>1, <2>2
<1>8. EntryWritten(c.key, e, new)
    <2>1. CASE c.row = 0
        BY <1>6, <2>1 DEF EntryWritten
    <2>2. CASE c.row # 0
        <3>1. entries' = [entries EXCEPT ![e] = new]
            BY <1>2, <1>6, <2>2, Types DEF IInv, EntryRow
        <3>2. QED
            BY <1>2, <2>2, <3>1 DEF EntryWritten
    <2>3. QED
        BY <2>1, <2>2
<1>9. c.row = 0 => e \notin 1..Len(entries)
    BY <1>3
<1> HIDE DEF new, e
<1>10. /\ entries' \in Seq(EntryRow) /\ Len(entries') <= MaxEntries
       /\ Len(entries') >= Len(entries)
       /\ \A f \in 1..Len(entries) : f # e => entries'[f] = entries[f]
       /\ EntryWrites(c.key)
    <2>1. TypeOK /\ e \in Nat
        BY <1>3 DEF IInv
    <2>2. /\ entries' \in Seq(EntryRow) /\ Len(entries') <= MaxEntries
          /\ Len(entries') >= Len(entries) /\ e \in 1..Len(entries') /\ entries'[e] = new
          /\ \A f \in 1..Len(entries) : f # e => entries'[f] = entries[f]
          /\ EntryWrites(c.key)
        BY <1>7, <1>8, <2>1, EntryWrite
    <2>3. QED
        BY <2>2
<1>11. g \in Call /\ g.pc = "sync" /\ Commit(s, ReadDictionary, d)
    BY GotoIs DEF Upsert, IInv, SameBut, Stages
<1> HIDE DEF g
<1>12. d \in Call /\ d.pc = "sync"
    BY <1>11 DEF Call
<1> HIDE DEF d
<1>13. CallOK(s)' /\ Moves(s, ReadDictionary, d)
    BY <1>11, <1>12, SyncNext
<1>14. /\ released \subseteq released' /\ released' \subseteq PendingIds
       /\ UNCHANGED <<pending, exported, replays, raced>>
    BY <1>5, ApprovalIds DEF IInv, TypeOK, Upsert
<1>15. ASSUME NEW j \in 1..Len(pending) PROVE Entered(j)'
    <2>1. ASSUME j \notin released', pending[j].entry = e, e \in 1..Len(entries),
                 entries[e].by = "reviewer"
          PROVE  FALSE
        <3>1. c.row # 0 /\ e = c.row
            BY <1>9, <2>1 DEF e
        <3>2. j \in Approvals(c.row)
            BY <2>1, <3>1, Types DEF Approvals, IInv
        <3>3. c.op = "seed" /\ ~c.overlapped
            BY <1>1, <1>5, <2>1, <3>1, <3>2
        <3>4. entries[c.row].by = "seed"
            BY <1>1, <3>1, <3>3 DEF IInv, CallOK, FreshSeed
        <3>5. QED
            BY <2>1, <3>1, <3>4
    <2>2. QED
        BY <1>10, <1>14, <2>1, EntriesKept
<1>16. RowsOK'
    <2>1. OneOpenRow'
        BY <1>14 DEF IInv, RowsOK, OneOpenRow, Open
    <2>2. QED
        BY <1>14, <1>15, <2>1 DEF RowsOK
<1>17. Len(pending) \in Nat
    BY LenProperties DEF IInv, TypeOK
<1>18. Writes(c.key) /\ Len(pending') <= MaxPending /\ raced' \in [Keys -> Nat]
       /\ pending' \in Seq(PendingRow)
    BY <1>10, <1>14, <1>17 DEF Writes, PendingWrites, IInv, TypeOK
<1>19. Spares(c.key, ReadDictionary)
    <2>1. DOMAIN pending = 1..Len(pending)
        BY Types DEF IInv
    <2>2. QED
        BY <1>14, <2>1 DEF Spares, OpenBefore, Open
<1>20. QED
    BY <1>5, <1>10, <1>12, <1>13, <1>14, <1>16, <1>18, <1>19, WriteStep

LEMMA Deleting ==
    ASSUME IInv, NEW s \in Sessions, Delete(s)
    PROVE  IInv'
<1> DEFINE k == call[s].key
<1>1. CASE Step(s, Done(s)) /\ UNCHANGED <<entries, released, removed>>
    BY <1>1, EndStep DEF Delete, IInv, TypeOK, history
<1>2. ASSUME NEW e \in Active(k),
             entries' = [entries EXCEPT ![e].active = FALSE, ![e].by = "reviewer"],
             released' = released \cup Approvals(e),
             removed' = [removed EXCEPT ![k] = @ \cup EntryMeanings(entries[e])],
             Commit(s, ReadDictionary, Goto(s, "sync"))
      PROVE  IInv'
    <2> DEFINE new == [entries[e] EXCEPT !.active = FALSE, !.by = "reviewer"]
    <2>1. e \in 1..Len(entries) /\ entries[e].key = k /\ entries[e] \in EntryRow
          /\ EntryMeanings(entries[e]) \in SUBSET Meanings
        BY <1>2, Types DEF Active, IInv
    <2>2. new \in EntryRow /\ new.key = k
        BY <2>1 DEF EntryRow
    <2>3. EntryWritten(k, e, new) /\ e \in Nat
        <3>1. entries' = [entries EXCEPT ![e] = new]
            BY <1>2, <2>1, Types DEF IInv, EntryRow
        <3>2. e \in Nat
            BY <2>1
        <3>3. QED
            BY <2>1, <3>1, <3>2 DEF EntryWritten
    <2> HIDE DEF new
    <2>4. /\ entries' \in Seq(EntryRow) /\ Len(entries') <= MaxEntries
          /\ Len(entries') >= Len(entries)
          /\ \A f \in 1..Len(entries) : f # e => entries'[f] = entries[f]
          /\ EntryWrites(k)
        BY <2>1, <2>2, <2>3, EntryWrite DEF IInv
    <2>5. Goto(s, "sync") \in Call /\ Goto(s, "sync").pc = "sync"
        BY GotoIs DEF IInv, SameBut, Stages
    <2>6. CallOK(s)' /\ Moves(s, ReadDictionary, Goto(s, "sync"))
        BY <1>2, <2>5, SyncNext
    <2>7. /\ released \subseteq released' /\ released' \subseteq PendingIds
          /\ UNCHANGED <<pending, exported, replays, raced>>
        BY <1>2, ApprovalIds DEF IInv, TypeOK, Delete
    <2>8. removed' \in [Keys -> SUBSET Meanings]
        BY <1>2, <2>1 DEF IInv, TypeOK
    <2>9. ASSUME NEW j \in 1..Len(pending) PROVE Entered(j)'
        <3>1. pending[j].entry = e => j \in released'
            BY <1>2, Types DEF Approvals, IInv
        <3>2. QED
            BY <2>4, <2>7, <3>1, EntriesKept
    <2>10. RowsOK'
        <3>1. OneOpenRow'
            BY <2>7 DEF IInv, RowsOK, OneOpenRow, Open
        <3>2. QED
            BY <2>7, <2>9, <3>1 DEF RowsOK
    <2>11. Len(pending) \in Nat
        BY LenProperties DEF IInv, TypeOK
    <2>12. Writes(k) /\ Len(pending') <= MaxPending /\ raced' \in [Keys -> Nat]
           /\ pending' \in Seq(PendingRow)
        BY <2>4, <2>7, <2>11 DEF Writes, PendingWrites, IInv, TypeOK
    <2>13. Spares(k, ReadDictionary)
        <3>1. DOMAIN pending = 1..Len(pending)
            BY Types DEF IInv
        <3>2. QED
            BY <2>7, <3>1 DEF Spares, OpenBefore, Open
    <2>14. QED
        BY <1>2, <2>4, <2>5, <2>6, <2>7, <2>8, <2>10, <2>12, <2>13, WriteStep
<1>3. QED
    BY <1>1, <1>2 DEF Delete

----------------------------------------------------------------------------
(* The theorems.                                                            *)

LEMMA InitInv == Init => IInv
<1> SUFFICES ASSUME Init PROVE IInv
    OBVIOUS
<1>1. Len(pending) = 0 /\ Len(entries) = 0
    BY DEF Init
<1>2. TypeOK
    BY <1>1, IdleIsCall, ModerationAssumption DEF Init, TypeOK, PendingIds
<1>3. ASSUME NEW s \in Sessions PROVE CallOK(s)
    BY IdleIsOK, IdleIsCall DEF Init
<1>4. RowsOK
    <2>1. \A k \in Keys : Open(k) = {} /\ raced[k] = 0
        BY DEF Init, Open
    <2>2. OneOpenRow
        BY <2>1, FS_EmptySet DEF OneOpenRow
    <2>3. QED
        BY <1>1, <2>2 DEF RowsOK
<1>5. QED
    BY <1>2, <1>3, <1>4 DEF IInv

LEMMA StepInv == IInv /\ [Next]_vars => IInv'
<1> SUFFICES ASSUME IInv, [Next]_vars PROVE IInv'
    OBVIOUS
<1>1. ASSUME NEW s \in Sessions,
             Submission(s) \/ Suggestion(s) \/ Decision(s) \/ Edition(s) \/ Fail(s)
      PROVE  IInv'
    <2>1. CASE Submission(s)
        BY <2>1, Beginnings, Replaying, SelectingOpen, Inserting, Remembering DEF Submission
    <2>2. CASE Suggestion(s)
        BY <2>2, Beginnings, Checking, ReadingSuggestions, Writing DEF Suggestion
    <2>3. CASE Decision(s)
        BY <2>3, Beginnings, ReadingPending, ReadingEntry, Approving, Rejecting DEF Decision
    <2>4. CASE Edition(s)
        BY <2>4, Beginnings, ReadingForUpsert, Upserting, Deleting, Syncing, ReadingBack DEF Edition
    <2>5. QED
        BY <1>1, <2>1, <2>2, <2>3, <2>4, Failing
<1>2. CASE UNCHANGED vars
    <2>1. TypeOK'
        BY <1>2 DEF IInv, TypeOK, vars, history
    <2>2. \A s \in Sessions : CallOK(s)'
        BY <1>2, ReadsLeaveOthers DEF IInv, vars
    <2>3. RowsOK'
        BY <1>2 DEF IInv, RowsOK, OneOpenRow, Open, Entered, vars, history
    <2>4. QED
        BY <2>1, <2>2, <2>3 DEF IInv
<1>3. QED
    BY <1>1, <1>2, Forgetting DEF Next

\* The inductive invariant: what a transaction has read holds until another one
\* on its key commits.
THEOREM Invariance == Spec => []IInv
<1>1. Init => IInv
    BY InitInv
<1>2. IInv /\ [Next]_vars => IInv'
    BY StepInv
<1>3. QED
    BY <1>1, <1>2, PTL DEF Spec

\* Rows, calls and caches keep their types.
THEOREM TypesKept == Spec => []TypeOK
<1>1. IInv => TypeOK
    BY DEF IInv
<1>2. QED
    BY <1>1, Invariance, PTL

\* A token waits for review once, but for one more row by each insertion that
\* overlapped another one.
THEOREM ReviewedOnce == Spec => []OneOpenRow
<1>1. IInv => OneOpenRow
    BY DEF IInv, RowsOK
<1>2. QED
    BY <1>1, Invariance, PTL

\* What was approved is served until an administrator's edit, or an overlap,
\* whatever becomes of the row.
THEOREM ApprovalsLast == Spec => []ApprovedServed
<1>1. IInv => ApprovedServed
    <2> SUFFICES ASSUME IInv, NEW i \in DOMAIN pending, pending[i].entry # 0,
                        i \notin released
                 PROVE  Suggested(pending[i]) \subseteq Served(pending[i].key)
        BY DEF ApprovedServed
    <2>1. i \in 1..Len(pending) /\ DOMAIN entries = 1..Len(entries)
        BY Types DEF IInv
    <2>2. pending[i].entry \in Active(pending[i].key)
          /\ Suggested(pending[i]) \subseteq EntryMeanings(entries[pending[i].entry])
        BY <2>1 DEF IInv, RowsOK, Entered, Active
    <2>3. QED
        BY <2>2 DEF Served
<1>2. QED
    BY <1>1, Invariance, PTL

\* No suggestion is written over but by a capture of its row that another one
\* overlapped.
THEOREM NothingWrittenOver == Spec => SuggestionsKept
<1> DEFINE Kept == \A i \in DOMAIN pending :
                      \/ Suggested(pending[i]) \subseteq Suggested(pending'[i])
                      \/ \E s \in Sessions :
                            /\ call[s].pc = "append" /\ call[s].id = i
                            /\ call[s].overlapped
<1>1. IInv /\ [Next]_vars => [Kept]_vars
    <2> SUFFICES ASSUME IInv, Next PROVE Kept
        OBVIOUS
    <2>1. SUFFICES ASSUME NEW i \in 1..Len(pending), pending' # pending PROVE
                      \/ Suggested(pending[i]) \subseteq Suggested(pending'[i])
                      \/ \E s \in Sessions :
                            /\ call[s].pc = "append" /\ call[s].id = i
                            /\ call[s].overlapped
        BY Types DEF IInv
    <2>2. PICK s \in Sessions : InsertPending(s) \/ WriteSuggestions(s) \/ Approve(s) \/ Reject(s)
        <3>1. CASE \E w \in Workers, k \in Keys : Forget(w, k)
            BY <2>1, <3>1 DEF Forget
        <3>2. ASSUME NEW s \in Sessions, Submission(s) PROVE InsertPending(s)
            BY <2>1, <3>2 DEF Submission, Begin, BeginSubmit, Replay, SelectOpen, Remember
        <3>3. ASSUME NEW s \in Sessions, Suggestion(s) PROVE WriteSuggestions(s)
            BY <2>1, <3>3 DEF Suggestion, Begin, BeginAdd, BeginCapture, CheckApproved, ReadSuggestions
        <3>4. ASSUME NEW s \in Sessions, Decision(s) PROVE Approve(s) \/ Reject(s)
            BY <2>1, <3>4 DEF Decision, Begin, BeginApprove, BeginReject, ReadPending, ReadEntry
        <3>5. ASSUME NEW s \in Sessions, Edition(s) PROVE FALSE
            BY <2>1, <3>5 DEF Edition, Begin, BeginSave, BeginDelete, BeginSeed, ReadForUpsert, Upsert,
                   Delete, Sync, ReadBack
        <3>6. ASSUME NEW s \in Sessions, Fail(s) PROVE FALSE
            BY <2>1, <3>6 DEF Fail
        <3>7. QED
            BY <3>1, <3>2, <3>3, <3>4, <3>5, <3>6 DEF Next
    <2>3. CASE InsertPending(s)
        <3> DEFINE new == [key |-> call[s].key, first |-> None, also |-> {}, status |-> "PENDING",
                           entry |-> 0]
        <3>1. new \in PendingRow /\ pending' = Append(pending, new)
            BY <2>3, Types, ModerationAssumption DEF InsertPending, PendingRow, EntryIds, IInv, Call
        <3> HIDE DEF new
        <3>2. pending'[i] = pending[i]
            BY <3>1, AppendProperties DEF IInv, TypeOK
        <3>3. QED
            BY <3>2
    <2>4. CASE WriteSuggestions(s)
        <3>1. CASE call[s].id = i /\ call[s].overlapped
            BY <2>4, <3>1 DEF WriteSuggestions
        <3>2. CASE call[s].id # i
            BY <2>4, <3>2, Written
        <3>3. CASE call[s].id = i /\ ~call[s].overlapped
            <4>1. call[s].seen = Suggested(pending[i])
                BY <2>4, <3>3 DEF WriteSuggestions, IInv, CallOK, FreshAppend
            <4>2. QED
                BY <2>4, <3>3, <4>1, Written
        <3>4. QED
            BY <3>1, <3>2, <3>3
    <2>5. CASE Approve(s) \/ Reject(s)
        <3>1. /\ pending'[i].first = pending[i].first /\ pending'[i].also = pending[i].also
            <4>1. DOMAIN pending = 1..Len(pending) /\ pending[i] \in PendingRow
                BY Types DEF IInv
            <4>2. CASE Approve(s)
                <5> DEFINE e == IF call[s].row = 0 THEN Len(entries) + 1 ELSE call[s].row
                <5>1. pending' = [pending EXCEPT ![call[s].id].status = "APPROVED",
                                                 ![call[s].id].entry = e]
                    BY <4>2 DEF Approve
                <5> HIDE DEF e
                <5>2. QED
                    BY <4>1, <5>1 DEF PendingRow
            <4>3. CASE Reject(s)
                BY <4>1, <4>3 DEF Reject, PendingRow
            <4>4. QED
                BY <2>5, <4>2, <4>3
        <3>2. QED
            BY <3>1 DEF Suggested
    <2>6. QED
        BY <2>2, <2>3, <2>4, <2>5
<1>2. QED
    BY <1>1, Invariance, PTL DEF Spec, SuggestionsKept
=============================================================================
