-------------------------- MODULE DictionarySyncProofs --------------------------
(***************************************************************************)
(* For every number of entries, workers, administrators, requests,         *)
(* changes and revisions: no export replaces a newer one, "synced" is      *)
(* true, cached data and data in use keep the promise of their label, and  *)
(* a result of the AI is delivered only over data that keeps the promise   *)
(* of the revision in force.                                               *)
(***************************************************************************)
EXTENDS DictionarySync, TLAPS

\* Whoever works between BEGIN IMMEDIATE and the commit holds the lock.
LockHeld ==
    \A a \in Admins : admin[a].pc \in {"snapshot", "export", "publish"} => lock = a

\* An administrator's call that will export, or has, and says so.
Exporting(r) == r.pc = "export" \/ (r.pc = "publish" /\ r.status = "synced")

\* What a call knows of entry e: a change once committed stays in SQL; a
\* snapshot lies between the file and SQL and holds whatever was acknowledged
\* when it was taken and, since the lock is kept, whatever is acknowledged now.
Fits(r, e) ==
    /\ e = r.entry => r.n <= sql[e].n
    /\ Exporting(r) => /\ json[e].n <= r.snap[e].n
                       /\ r.snap[e].n <= sql[e].n
                       /\ acked[revision][e] <= r.snap[e].n
    /\ r.pc = "publish" /\ r.status = "synced" => json[e].n = r.snap[e].n

SnapshotsFit == \A a \in Admins, e \in Entries : Fits(admin[a], e)

\* What the revisions promise is kept by the stores, grows with them and is
\* promised of the file only if it is of SQL.
PromisesKept ==
    /\ \A e \in Entries :
          /\ json[e].n <= sql[e].n
          /\ acked[revision][e] <= sql[e].n
          /\ exported[revision][e] <= json[e].n
    /\ \A r \in 0..revision, e \in Entries :
          /\ exported[r][e] <= acked[r][e]
          /\ acked[r][e] <= acked[revision][e]
          /\ exported[r][e] <= exported[revision][e]

\* A cache entry is labelled with a past or the present revision and keeps its
\* promise; so do JSON rows, of which only the file's promise is asked.
GoodEntry(c) == c # None => c.label <= revision /\ Honest(c.data, c.label)

NoOlder(base, r) == \A e \in Entries : exported[r][e] <= base[e].n

GoodBase(c) == c # None => c.label <= revision /\ NoOlder(c.base, c.label)

\* A request has a worker and noted its revisions in the order it read them,
\* each before the data it labels.
GoodRequest(r) ==
    /\ r.pc # "idle" => r.home \in Workers
    /\ r.revision <= revision /\ r.label <= revision /\ r.bootRevision <= revision
    /\ r.pc \notin {"idle", "data"} => r.revision <= r.label
    /\ r.pc = "sql" => NoOlder(r.base, r.label)
    /\ r.pc \in {"cache", "segment", "answer"} => Honest(r.data, r.label)

\* The part of the invariant about the stores and their administrators, and
\* the part about caches and requests.
StoresInv == LockHeld /\ SnapshotsFit /\ PromisesKept /\ StatusTruthful

ReadersInv ==
    /\ \A k \in Workers : GoodEntry(liveCache[k]) /\ GoodEntry(segCache[k]) /\ GoodBase(bootCache[k])
    /\ \A p \in Requests : GoodRequest(req[p])

IInv == TypeOK /\ StoresInv /\ ReadersInv

----------------------------------------------------------------------------
(* Types.                                                                   *)

LEMMA InitialTypes ==
    /\ NoRows \in Rows /\ NoData \in Data
    /\ IdleAdmin \in AdminState /\ IdleRequest \in RequestState
<1>1. MaxVersion \in Nat /\ MaxRevision \in Nat
    BY SyncAssumption
<1>2. NoRows \in Rows
    BY <1>1 DEF NoRows, Rows, Row, Versions
<1>3. NoData \in Data
    BY <1>1 DEF NoData, Data, Seen, Versions
<1>4. QED
    BY <1>1, <1>2, <1>3 DEF IdleAdmin, AdminState, IdleRequest, RequestState, Versions, Revisions

\* What SQL and the file show of the entries is data.
LEMMA MergedType ==
    ASSUME NEW base \in Rows, NEW rows \in Rows
    PROVE  Merged(base, rows) \in Data /\ JsonOnly(base) \in Data
BY DEF Merged, JsonOnly, Data, Seen, Rows, Row

\* An acknowledgement is a version of every entry.
LEMMA AcknowledgedType ==
    ASSUME TypeOK, NEW a \in Admins
    PROVE  Acknowledged(a) \in [Entries -> Versions]
<1>1. \A e \in Entries : acked[revision][e] \in Versions /\ admin[a].snap[e].n \in Versions
                           /\ admin[a].n \in Versions /\ 0 \in Versions
    BY SyncAssumption DEF TypeOK, AdminState, Rows, Row, Versions
<1>2. QED
    BY <1>1 DEF Acknowledged, Larger

LEMMA InitTypeOK == Init => TypeOK
<1> SUFFICES ASSUME Init PROVE TypeOK
    OBVIOUS
<1>1. MaxVersion \in Nat /\ MaxRevision \in Nat
    BY SyncAssumption
<1>2. /\ sql \in Rows /\ json \in Rows
      /\ admin \in [Admins -> AdminState] /\ req \in [Requests -> RequestState]
    BY InitialTypes DEF Init
<1>3. /\ acked \in [Revisions -> [Entries -> Versions]]
      /\ exported \in [Revisions -> [Entries -> Versions]]
    BY <1>1 DEF Init, Versions
<1>4. /\ liveCache \in [Workers -> Cached] /\ segCache \in [Workers -> Cached]
      /\ bootCache \in [Workers -> [label: Revisions, base: Rows] \cup {None}]
    BY DEF Init, Cached
<1>5. sqlDown \in [Workers -> BOOLEAN]
    BY DEF Init
<1>6. sqlUp \in BOOLEAN /\ revision \in Revisions /\ lock \in Admins \cup {None}
      /\ syncStatus \in {"not_exported", "synced", "export_failed"}
    BY <1>1 DEF Init, Revisions
<1>7. QED
    BY <1>2, <1>3, <1>4, <1>5, <1>6 DEF TypeOK

\* Steps of administrators keep the types.
LEMMA AdminTypes ==
    ASSUME TypeOK, NEW a \in Admins,
           \/ Invalidate(a) \/ Lock(a) \/ LockTimeout(a) \/ Snapshot(a) \/ Export(a)
           \/ ExportFails(a) \/ Publish(a) \/ PublishFails(a)
    PROVE  TypeOK'
<1> USE DEF stores, caches, history
<1>1. IdleAdmin \in AdminState
    BY InitialTypes
<1>11. /\ \A pc \in {"lock", "snapshot", "publish"} : [admin EXCEPT ![a].pc = pc] \in [Admins -> AdminState]
       /\ [admin EXCEPT ![a].snap = sql, ![a].pc = "export"] \in [Admins -> AdminState]
       /\ [admin EXCEPT ![a].status = "export_failed", ![a].pc = "publish"] \in [Admins -> AdminState]
    <2>1. admin \in [Admins -> AdminState] /\ admin[a] \in AdminState /\ sql \in Rows
        BY DEF TypeOK
    <2>2. /\ \A pc \in {"lock", "snapshot", "publish"} : [admin[a] EXCEPT !.pc = pc] \in AdminState
          /\ [admin[a] EXCEPT !.snap = sql, !.pc = "export"] \in AdminState
          /\ [admin[a] EXCEPT !.status = "export_failed", !.pc = "publish"] \in AdminState
        BY <2>1 DEF AdminState
    <2>3. QED
        BY <2>1, <2>2
<1>2. CASE Invalidate(a)
    <2>1. admin' \in [Admins -> AdminState]
        BY <1>2, <1>11 DEF Invalidate
    <2>2. liveCache' \in [Workers -> Cached] /\ bootCache' \in [Workers -> [label: Revisions, base: Rows] \cup {None}]
        BY <1>2 DEF Invalidate, TypeOK, Cached
    <2>3. QED
        BY <1>2, <2>1, <2>2 DEF TypeOK, Invalidate
<1>3. CASE Lock(a)
    <2>1. admin' \in [Admins -> AdminState]
        BY <1>3, <1>11 DEF Lock
    <2>2. QED
        BY <1>3, <2>1 DEF TypeOK, Lock
<1>9. CASE LockTimeout(a)
    BY <1>1, <1>9 DEF TypeOK, LockTimeout
<1>4. CASE Snapshot(a)
    <2>1. admin' \in [Admins -> AdminState]
        BY <1>4, <1>11 DEF Snapshot
    <2>2. QED
        BY <1>4, <2>1 DEF TypeOK, Snapshot
<1>10. CASE ExportFails(a)
    <2>1. admin' \in [Admins -> AdminState]
        BY <1>10, <1>11 DEF ExportFails
    <2>2. QED
        BY <1>10, <2>1 DEF TypeOK, ExportFails
<1>5. CASE Export(a)
    <2>1. admin' \in [Admins -> AdminState]
        BY <1>5, <1>11 DEF Export
    <2>2. json' \in Rows
        BY <1>5 DEF Export, TypeOK, AdminState
    <2>3. QED
        BY <1>5, <2>1, <2>2 DEF TypeOK, Export
<1>6. CASE Publish(a)
    <2>1. Acknowledged(a) \in [Entries -> Versions]
        BY AcknowledgedType
    <2>2. revision + 1 \in Revisions
        BY <1>6, SyncAssumption DEF Publish, TypeOK, Revisions
    <2>3. /\ acked' \in [Revisions -> [Entries -> Versions]]
          /\ exported' \in [Revisions -> [Entries -> Versions]]
        BY <1>6, <2>1, <2>2 DEF Publish, TypeOK
    <2>4. QED
        BY <1>1, <1>6, <2>2, <2>3 DEF TypeOK, Publish, AdminState
<1>7. CASE PublishFails(a)
    BY <1>1, <1>7 DEF TypeOK, PublishFails
<1>8. QED
    BY <1>2, <1>3, <1>4, <1>5, <1>6, <1>7, <1>9, <1>10

\* So do those that begin a call, bumps, faults and crashes ...
LEMMA OtherTypes ==
    ASSUME TypeOK,
           \/ \E a \in Admins, k \in Workers :
                 (\E e \in Entries, live \in BOOLEAN : Commit(a, k, e, live)) \/ RetryExport(a, k)
           \/ Bump \/ SqlFails \/ SqlRecovers \/ \E k \in Workers : Crash(k)
    PROVE  TypeOK'
<1> USE DEF stores, caches, history
<1>1. IdleAdmin \in AdminState /\ IdleRequest \in RequestState
    BY InitialTypes
<1>2. ASSUME NEW a \in Admins, NEW k \in Workers, NEW e \in Entries, NEW live \in BOOLEAN,
             Commit(a, k, e, live)
      PROVE  TypeOK'
    <2>1. sql[e].n + 1 \in Versions
        <3>1. sql[e].n \in Versions /\ sql[e].n < MaxVersion
            BY <1>2 DEF Commit, TypeOK, Rows, Row
        <3>2. QED
            BY <3>1, SyncAssumption DEF Versions
    <2>2. sql' \in Rows
        BY <1>2, <2>1 DEF Commit, TypeOK, Rows, Row
    <2>3. [IdleAdmin EXCEPT !.pc = "committed", !.home = k, !.entry = e, !.n = sql[e].n + 1]
              \in AdminState
        BY <1>1, <2>1 DEF AdminState
    <2>4. QED
        BY <1>2, <2>2, <2>3 DEF Commit, TypeOK
<1>3. ASSUME NEW a \in Admins, NEW k \in Workers, RetryExport(a, k)
      PROVE  TypeOK'
    <2>1. [IdleAdmin EXCEPT !.pc = "committed", !.home = k] \in AdminState
        BY <1>1 DEF AdminState
    <2>2. QED
        BY <1>3, <2>1 DEF RetryExport, TypeOK
<1>4. CASE Bump
    <2>1. revision + 1 \in Revisions
        BY <1>4, SyncAssumption DEF Bump, TypeOK, Revisions
    <2>2. QED
        BY <1>4, <2>1 DEF Bump, TypeOK
<1>5. CASE SqlFails \/ SqlRecovers
    BY <1>5 DEF SqlFails, SqlRecovers, TypeOK
<1>6. ASSUME NEW k \in Workers, Crash(k)
      PROVE  TypeOK'
    <2>1. admin' \in [Admins -> AdminState] /\ req' \in [Requests -> RequestState]
        BY <1>1, <1>6 DEF Crash, TypeOK
    <2>2. lock' \in Admins \cup {None}
        BY <1>6 DEF Crash, TypeOK
    <2>3. QED
        BY <1>6, <2>1, <2>2 DEF Crash, TypeOK, Cached
<1>7. QED
    BY <1>2, <1>3, <1>4, <1>5, <1>6

\* ... and the steps of requests.
LEMMA RequestTypes ==
    ASSUME TypeOK, ReadersInv, NEW p \in Requests,
           \/ (\E k \in Workers : Begin(p, k))
           \/ LiveHit(p) \/ LiveMiss(p) \/ BootHit(p) \/ BootMiss(p) \/ ReadFile(p)
           \/ ReadSql(p) \/ WithoutSql(p) \/ SqlError(p) \/ CacheData(p)
           \/ Normalize(p) \/ SegmentHit(p) \/ SegmentMiss(p) \/ Answer(p)
    PROVE  TypeOK'
<1> USE DEF stores, caches, history
<1>1. IdleRequest \in RequestState /\ NoRows \in Rows /\ req[p] \in RequestState
    BY InitialTypes DEF TypeOK
<1>2. req[p].pc # "idle" => Home(p) \in Workers
    BY DEF ReadersInv, GoodRequest, Home
<1>3. ASSUME NEW k \in Workers, Begin(p, k)
      PROVE  TypeOK'
    <2>1. [IdleRequest EXCEPT !.pc = "data", !.home = k, !.revision = revision] \in RequestState
        BY <1>1 DEF RequestState, TypeOK
    <2>2. QED
        BY <1>3, <2>1 DEF Begin, Step, TypeOK
<1>4. CASE LiveHit(p)
    <2>1. liveCache[Home(p)].data \in Data
        BY <1>2, <1>4 DEF LiveHit, Hits, TypeOK, Cached
    <2>2. [Labelled(p) EXCEPT !.data = liveCache[Home(p)].data, !.pc = "segment"] \in RequestState
        BY <1>1, <2>1 DEF Labelled, RequestState, TypeOK
    <2>3. QED
        BY <1>4, <2>2 DEF LiveHit, Step, TypeOK
<1>5. CASE LiveMiss(p)
    <2>1. [Labelled(p) EXCEPT !.pc = "boot"] \in RequestState
        BY <1>1 DEF Labelled, RequestState, TypeOK
    <2>2. QED
        BY <1>5, <2>1 DEF LiveMiss, Step, TypeOK
<1>6. CASE BootHit(p)
    <2>1. bootCache[Home(p)].base \in Rows
        BY <1>2, <1>6 DEF BootHit, Hits, TypeOK
    <2>2. [req[p] EXCEPT !.base = bootCache[Home(p)].base, !.pc = "sql"] \in RequestState
        BY <1>1, <2>1 DEF RequestState
    <2>3. QED
        BY <1>6, <2>2 DEF BootHit, Step, TypeOK
<1>7. CASE BootMiss(p)
    <2>1. [req[p] EXCEPT !.bootRevision = revision, !.pc = "file"] \in RequestState
        BY <1>1 DEF RequestState, TypeOK
    <2>2. QED
        BY <1>7, <2>1 DEF BootMiss, Step, TypeOK
<1>8. CASE ReadFile(p)
    <2>1. [req[p] EXCEPT !.base = json, !.bootRevision = 0, !.pc = "sql"] \in RequestState
        <3>1. 0 \in Revisions
            BY SyncAssumption DEF Revisions
        <3>2. QED
            BY <1>1, <3>1 DEF RequestState, TypeOK
    <2>2. [label |-> req[p].bootRevision, base |-> json] \in [label: Revisions, base: Rows]
        BY <1>1 DEF RequestState, TypeOK
    <2>3. QED
        BY <1>8, <2>1, <2>2 DEF ReadFile, Step, TypeOK
<1>9. ASSUME NEW d \in Data, NEW b \in BOOLEAN,
             sqlDown' = [sqlDown EXCEPT ![Home(p)] = b],
             Step(p, [req[p] EXCEPT !.data = d, !.base = NoRows, !.pc = "cache"]),
             UNCHANGED <<stores, liveCache, bootCache, segCache, admin, history>>
      PROVE  TypeOK'
    <2>1. [req[p] EXCEPT !.data = d, !.base = NoRows, !.pc = "cache"] \in RequestState
        BY <1>1 DEF RequestState
    <2>2. sqlDown' \in [Workers -> BOOLEAN]
        BY <1>9 DEF TypeOK
    <2>3. QED
        BY <1>9, <2>1, <2>2 DEF Step, TypeOK
<1>10. req[p].base \in Rows /\ sql \in Rows
    BY <1>1 DEF RequestState, TypeOK
<1>11. CASE ReadSql(p)
    BY <1>9, <1>10, <1>11, MergedType DEF ReadSql
<1>12. CASE WithoutSql(p)
    BY <1>9, <1>10, <1>12, MergedType DEF WithoutSql
<1>13. CASE SqlError(p)
    BY <1>1, <1>13 DEF SqlError, Step, TypeOK
<1>14. [label |-> req[p].label, data |-> req[p].data] \in Cached
    BY <1>1 DEF RequestState, Cached
<1>15. ASSUME NEW pc \in {"segment", "answer"}
       PROVE  [req[p] EXCEPT !.pc = pc] \in RequestState
    BY <1>1 DEF RequestState
<1>16. CASE CacheData(p)
    BY <1>14, <1>15, <1>16 DEF CacheData, Step, TypeOK
<1>17. CASE Normalize(p)
    BY <1>15, <1>17 DEF Normalize, Step, TypeOK
<1>18. CASE SegmentHit(p)
    <2>1. segCache[Home(p)].data \in Data
        BY <1>2, <1>18 DEF SegmentHit, Hits, TypeOK, Cached
    <2>2. [req[p] EXCEPT !.data = segCache[Home(p)].data, !.pc = "answer"] \in RequestState
        BY <1>1, <2>1 DEF RequestState
    <2>3. QED
        BY <1>18, <2>2 DEF SegmentHit, Step, TypeOK
<1>19. CASE SegmentMiss(p)
    BY <1>14, <1>15, <1>19 DEF SegmentMiss, Step, TypeOK
<1>20. CASE Answer(p)
    <2>1. [IdleRequest EXCEPT !.ai = (revision = req[p].revision)] \in RequestState
        BY <1>1 DEF RequestState
    <2>2. QED
        BY <1>20, <2>1 DEF Answer, Step, TypeOK
<1>21. QED
    BY <1>3, <1>4, <1>5, <1>6, <1>7, <1>8, <1>11, <1>12, <1>13, <1>16, <1>17, <1>18, <1>19, <1>20

----------------------------------------------------------------------------
(* The stores.                                                              *)

\* Versions and revisions are numbers, and past revisions are revisions.
LEMMA Numbers ==
    ASSUME TypeOK
    PROVE  /\ revision \in Nat /\ revision \in Revisions /\ revision \in 0..revision
           /\ \A r \in 0..revision : r \in Revisions
           /\ \A e \in Entries : sql[e].n \in Nat /\ json[e].n \in Nat
           /\ \A r \in Revisions, e \in Entries : acked[r][e] \in Nat /\ exported[r][e] \in Nat
           /\ \A a \in Admins : admin[a].n \in Nat /\ \A e \in Entries : admin[a].snap[e].n \in Nat
<1>1. \A v \in Versions : v \in Nat
    BY SyncAssumption DEF Versions
<1>2. /\ revision \in Nat /\ revision \in Revisions /\ revision \in 0..revision
      /\ \A r \in 0..revision : r \in Revisions
    BY SyncAssumption DEF TypeOK, Revisions
<1>3. \A e \in Entries : sql[e].n \in Nat /\ json[e].n \in Nat
    BY <1>1 DEF TypeOK, Rows, Row
<1>4. \A r \in Revisions, e \in Entries : acked[r][e] \in Nat /\ exported[r][e] \in Nat
    BY <1>1 DEF TypeOK
<1>5. \A a \in Admins : admin[a].n \in Nat /\ \A e \in Entries : admin[a].snap[e].n \in Nat
    BY <1>1 DEF TypeOK, AdminState, Rows, Row
<1>6. QED
    BY <1>2, <1>3, <1>4, <1>5

\* A step that moves one call and perhaps the lock, to a record that fits.
LEMMA OneAdminMoves ==
    ASSUME TypeOK, StoresInv, NEW a \in Admins, NEW r,
           admin' = [admin EXCEPT ![a] = r],
           UNCHANGED <<sql, json, revision, syncStatus, acked, exported>>,
           lock' = lock \/ lock = None \/ lock = a,
           r.pc \in {"snapshot", "export", "publish"} => lock' = a,
           \A e \in Entries : Fits(r, e)
    PROVE  StoresInv'
<1>1. \A b \in Admins : admin'[b] = IF b = a THEN r ELSE admin[b]
    BY DEF TypeOK
<1>2. LockHeld'
    BY <1>1, SyncAssumption DEF StoresInv, LockHeld
<1>3. SnapshotsFit'
    BY <1>1 DEF StoresInv, SnapshotsFit, Fits, Exporting
<1>4. PromisesKept' /\ StatusTruthful'
    BY DEF StoresInv, PromisesKept, StatusTruthful
<1>5. QED
    BY <1>2, <1>3, <1>4 DEF StoresInv

\* An idle call fits.
LEMMA IdleFits ==
    ASSUME TypeOK, NEW e \in Entries
    PROVE  Fits(IdleAdmin, e) /\ IdleAdmin.pc = "idle"
BY Numbers DEF Fits, Exporting, IdleAdmin

\* The calls that touch no store: before the lock, at it, at the snapshot, after
\* a failure, and their ends.
LEMMA QuietAdminsKeepStores ==
    ASSUME TypeOK, StoresInv, NEW a \in Admins,
           \/ \E k \in Workers : RetryExport(a, k)
           \/ Invalidate(a) \/ Lock(a) \/ LockTimeout(a) \/ Snapshot(a)
           \/ ExportFails(a) \/ PublishFails(a)
    PROVE  StoresInv'
<1> USE DEF stores, caches, history
<1>1. \A e \in Entries : Fits(admin[a], e) /\ Fits(IdleAdmin, e)
    BY IdleFits DEF StoresInv, SnapshotsFit
<1>2. admin[a].pc \in {"snapshot", "export", "publish"} => lock = a
    BY DEF StoresInv, LockHeld
<1>3. admin[a] \in AdminState /\ admin \in [Admins -> AdminState] /\ IdleAdmin \in AdminState
    BY InitialTypes DEF TypeOK
<1>4. ASSUME NEW k \in Workers, RetryExport(a, k)
      PROVE  StoresInv'
    <2> DEFINE r == [IdleAdmin EXCEPT !.pc = "committed", !.home = k]
    <2>1. \A e \in Entries : Fits(r, e)
        BY <1>1 DEF Fits, Exporting, IdleAdmin
    <2>2. r.pc = "committed"
        BY DEF IdleAdmin
    <2>3. admin' = [admin EXCEPT ![a] = r]
          /\ UNCHANGED <<sql, json, revision, syncStatus, lock, acked, exported>>
        BY <1>4 DEF RetryExport
    <2> HIDE DEF r
    <2>4. QED
        BY <2>1, <2>2, <2>3, OneAdminMoves
<1>5. ASSUME NEW pc \in {"lock", "snapshot"}, admin[a].pc \in {"committed", "lock"},
             admin' = [admin EXCEPT ![a].pc = pc],
             UNCHANGED <<sql, json, revision, syncStatus, acked, exported>>,
             \/ pc = "lock" /\ lock' = lock
             \/ pc = "snapshot" /\ lock = None /\ lock' = a
      PROVE  StoresInv'
    <2> DEFINE r == [admin[a] EXCEPT !.pc = pc]
    <2>1. \A e \in Entries : Fits(r, e)
        BY <1>1, <1>3, <1>5 DEF Fits, Exporting, AdminState
    <2>2. r.pc = pc /\ admin' = [admin EXCEPT ![a] = r]
        BY <1>3, <1>5 DEF AdminState
    <2> HIDE DEF r
    <2>3. QED
        BY <1>5, <2>1, <2>2, OneAdminMoves
<1>6. CASE Invalidate(a)
    BY <1>5, <1>6 DEF Invalidate
<1>7. CASE Lock(a)
    BY <1>5, <1>7 DEF Lock
<1>8. CASE LockTimeout(a) \/ PublishFails(a)
    <2>1. admin' = [admin EXCEPT ![a] = IdleAdmin]
          /\ UNCHANGED <<sql, json, revision, syncStatus, acked, exported>>
          /\ (lock' = lock \/ lock = a)
        BY <1>2, <1>8 DEF LockTimeout, PublishFails
    <2>2. IdleAdmin.pc \notin {"snapshot", "export", "publish"}
        BY DEF IdleAdmin
    <2>3. QED
        BY <1>1, <2>1, <2>2, OneAdminMoves
<1>9. CASE Snapshot(a)
    <2> DEFINE r == [admin[a] EXCEPT !.snap = sql, !.pc = "export"]
    <2>1. r.pc = "export" /\ r.snap = sql /\ r.entry = admin[a].entry /\ r.n = admin[a].n
        BY <1>3 DEF AdminState
    <2>2. \A e \in Entries : Fits(r, e)
        <3> HIDE DEF r
        <3>1. \A e \in Entries : json[e].n <= sql[e].n /\ acked[revision][e] <= sql[e].n
                                   /\ sql[e].n \in Nat
            BY Numbers DEF StoresInv, PromisesKept
        <3>2. SUFFICES ASSUME NEW e \in Entries PROVE Fits(r, e)
            OBVIOUS
        <3>3. e = r.entry => r.n <= sql[e].n
            BY <1>1, <2>1 DEF Fits
        <3>4. sql[e].n <= sql[e].n
            BY <3>1
        <3>5. QED
            BY <2>1, <3>1, <3>3, <3>4 DEF Fits, Exporting
    <2>3. admin' = [admin EXCEPT ![a] = r]
          /\ UNCHANGED <<sql, json, revision, syncStatus, lock, acked, exported>>
        BY <1>3, <1>9 DEF Snapshot, AdminState
    <2>4. lock = a
        BY <1>2, <1>9 DEF Snapshot
    <2> HIDE DEF r
    <2>5. QED
        BY <2>1, <2>2, <2>3, <2>4, OneAdminMoves
<1>10. CASE ExportFails(a)
    <2> DEFINE r == [admin[a] EXCEPT !.status = "export_failed", !.pc = "publish"]
    <2>1. /\ r.pc = "publish" /\ r.status = "export_failed" /\ r.entry = admin[a].entry
          /\ r.n = admin[a].n
        BY <1>3 DEF AdminState
    <2>2. \A e \in Entries : Fits(r, e)
        <3> HIDE DEF r
        <3>1. QED BY <1>1, <2>1 DEF Fits, Exporting
    <2>3. admin' = [admin EXCEPT ![a] = r]
          /\ UNCHANGED <<sql, json, revision, syncStatus, lock, acked, exported>>
        BY <1>3, <1>10 DEF ExportFails, AdminState
    <2>4. lock = a
        BY <1>2, <1>10 DEF ExportFails
    <2> HIDE DEF r
    <2>5. QED
        BY <2>1, <2>2, <2>3, <2>4, OneAdminMoves
<1>11. QED
    BY <1>4, <1>6, <1>7, <1>8, <1>9, <1>10

\* A commit moves SQL ahead, of the entry it changes alone.
LEMMA CommitKeepsStores ==
    ASSUME TypeOK, StoresInv, NEW a \in Admins, NEW k \in Workers, NEW e \in Entries,
           NEW live \in BOOLEAN, Commit(a, k, e, live)
    PROVE  StoresInv'
<1> DEFINE r == [IdleAdmin EXCEPT !.pc = "committed", !.home = k, !.entry = e, !.n = sql[e].n + 1]
<1>1. admin' = [admin EXCEPT ![a] = r] /\ UNCHANGED <<json, revision, syncStatus, lock, acked, exported>>
    BY DEF Commit, history
<1>2. r.pc = "committed" /\ r.entry = e /\ r.n = sql[e].n + 1
    BY DEF IdleAdmin
<1>3. \A f \in Entries : sql'[f].n = IF f = e THEN sql[e].n + 1 ELSE sql[f].n
    BY DEF Commit, TypeOK, Rows, Row
<1> HIDE DEF r
<1>4. \A b \in Admins : admin'[b] = IF b = a THEN r ELSE admin[b]
    BY <1>1 DEF TypeOK
<1>5. \A f \in Entries : sql[f].n \in Nat /\ sql[f].n <= sql'[f].n
    BY <1>3, Numbers
<1>6. LockHeld'
    BY <1>1, <1>2, <1>4 DEF StoresInv, LockHeld
<1>7. SnapshotsFit'
    <2> SUFFICES ASSUME NEW b \in Admins, NEW f \in Entries
                 PROVE  Fits(admin[b], f)'
        BY DEF SnapshotsFit
    <2>1. CASE b = a
        BY <1>2, <1>3, <1>4, <1>5, <2>1 DEF Fits, Exporting
    <2>2. CASE b # a
        <3>1. admin'[b] = admin[b] /\ Fits(admin[b], f)
            BY <1>4, <2>2 DEF StoresInv, SnapshotsFit
        <3>2. /\ admin[b].n \in Nat /\ admin[b].snap[f].n \in Nat
              /\ sql'[f].n \in Nat
            BY <1>3, Numbers
        <3>3. QED
            BY <1>1, <1>5, <3>1, <3>2 DEF Fits, Exporting
    <2>3. QED
        BY <2>1, <2>2
<1>8. PromisesKept'
    <2>1. \A f \in Entries : json[f].n \in Nat /\ acked[revision][f] \in Nat /\ sql'[f].n \in Nat
        BY <1>3, Numbers
    <2>2. QED
        BY <1>1, <1>5, <2>1 DEF StoresInv, PromisesKept
<1>9. StatusTruthful'
    BY <1>1 DEF StoresInv, StatusTruthful
<1>10. QED
    BY <1>6, <1>7, <1>8, <1>9 DEF StoresInv

\* An export puts in place what is no older than the file and no newer than
\* SQL, and holds what was acknowledged.
LEMMA ExportKeepsStores ==
    ASSUME TypeOK, StoresInv, NEW a \in Admins, Export(a)
    PROVE  StoresInv' /\ \A e \in Entries : json'[e].n >= json[e].n
<1> DEFINE r == [admin[a] EXCEPT !.pc = "publish"]
<1>1. /\ admin[a].pc = "export" /\ json' = admin[a].snap
      /\ UNCHANGED <<sql, revision, syncStatus, lock, acked, exported>>
    BY DEF Export, history
<1>2. admin' = [admin EXCEPT ![a] = r] /\ r.pc = "publish" /\ r.snap = admin[a].snap
      /\ r.entry = admin[a].entry /\ r.n = admin[a].n
    BY DEF Export, TypeOK, AdminState
<1> HIDE DEF r
<1>3. \A b \in Admins : admin'[b] = IF b = a THEN r ELSE admin[b]
    BY <1>2 DEF TypeOK
<1>4. \A e \in Entries : Fits(admin[a], e)
    BY DEF StoresInv, SnapshotsFit
<1>5. \A e \in Entries :
          /\ json[e].n <= admin[a].snap[e].n /\ admin[a].snap[e].n <= sql[e].n
          /\ acked[revision][e] <= admin[a].snap[e].n
          /\ json[e].n \in Nat /\ admin[a].snap[e].n \in Nat /\ sql[e].n \in Nat
          /\ acked[revision][e] \in Nat /\ exported[revision][e] \in Nat
    BY <1>1, <1>4, Numbers DEF Fits, Exporting
<1>6. lock = a /\ \A b \in Admins \ {a} : admin[b].pc \notin {"snapshot", "export", "publish"}
    BY <1>1 DEF StoresInv, LockHeld
<1>7. LockHeld'
    BY <1>1, <1>3, <1>6 DEF LockHeld
<1>8. SnapshotsFit'
    <2> SUFFICES ASSUME NEW b \in Admins, NEW e \in Entries
                 PROVE  Fits(admin[b], e)'
        BY DEF SnapshotsFit
    <2>1. CASE b = a
        BY <1>1, <1>2, <1>3, <1>4, <1>5, <2>1 DEF Fits, Exporting
    <2>2. CASE b # a
        <3>1. admin'[b] = admin[b] /\ Fits(admin[b], e) /\ ~Exporting(admin[b])
            BY <1>3, <1>6, <2>2 DEF StoresInv, SnapshotsFit, Exporting
        <3>2. QED
            BY <1>1, <1>6, <2>2, <3>1 DEF Fits, Exporting
    <2>3. QED
        BY <2>1, <2>2
<1>9. PromisesKept'
    <2>1. \A e \in Entries : exported[revision][e] <= acked[revision][e]
        BY Numbers DEF StoresInv, PromisesKept
    <2>2. QED
        BY <1>1, <1>5, <2>1 DEF StoresInv, PromisesKept
<1>10. StatusTruthful'
    BY <1>1, <1>5 DEF StatusTruthful
<1>11. QED
    BY <1>1, <1>5, <1>7, <1>8, <1>9, <1>10 DEF StoresInv

\* A new revision promises no less than the last, and no more than is there.
LEMMA NewRevision ==
    ASSUME TypeOK, StoresInv, NEW promise \in [Entries -> Nat], NEW ofFile \in [Entries -> Nat],
           revision + 1 \in Revisions, revision' = revision + 1,
           acked' = [acked EXCEPT ![revision + 1] = promise],
           exported' = [exported EXCEPT ![revision + 1] = ofFile],
           UNCHANGED <<sql, json>>,
           \A e \in Entries :
               /\ acked[revision][e] <= promise[e] /\ promise[e] <= sql[e].n
               /\ exported[revision][e] <= ofFile[e] /\ ofFile[e] <= json[e].n
               /\ ofFile[e] <= promise[e]
    PROVE  /\ PromisesKept'
           /\ acked'[revision'] = promise
           /\ \A r \in 0..revision : acked'[r] = acked[r] /\ exported'[r] = exported[r]
<1>1. revision \in Nat /\ \A r \in 0..revision : r \in Revisions /\ r # revision + 1
    BY Numbers
<1>2. /\ acked'[revision + 1] = promise /\ exported'[revision + 1] = ofFile
      /\ \A r \in 0..revision : acked'[r] = acked[r] /\ exported'[r] = exported[r]
    BY <1>1 DEF TypeOK
<1>3. \A r \in 0..(revision + 1) : r \in 0..revision \/ r = revision + 1
    BY <1>1
<1>4. \A e \in Entries : json[e].n <= sql[e].n
    BY DEF StoresInv, PromisesKept
<1>5. ASSUME NEW r \in 0..revision, NEW e \in Entries
      PROVE  /\ exported'[r][e] <= acked'[r][e]
             /\ acked'[r][e] <= promise[e] /\ exported'[r][e] <= ofFile[e]
    <2>1. /\ exported[r][e] <= acked[r][e] /\ acked[r][e] <= acked[revision][e]
          /\ exported[r][e] <= exported[revision][e]
        BY DEF StoresInv, PromisesKept
    <2>2. /\ exported[r][e] \in Nat /\ acked[r][e] \in Nat /\ acked[revision][e] \in Nat
          /\ exported[revision][e] \in Nat /\ promise[e] \in Nat /\ ofFile[e] \in Nat
        BY <1>1, Numbers
    <2>3. QED
        BY <1>2, <2>1, <2>2
<1>6. PromisesKept'
    BY <1>2, <1>3, <1>4, <1>5 DEF PromisesKept
<1>7. QED
    BY <1>2, <1>6

\* What the acknowledgement of a call adds up to.
LEMMA AcknowledgedFits ==
    ASSUME TypeOK, StoresInv, NEW a \in Admins, admin[a].pc = "publish"
    PROVE  /\ Acknowledged(a) \in [Entries -> Nat]
           /\ \A e \in Entries :
                 /\ acked[revision][e] <= Acknowledged(a)[e] /\ Acknowledged(a)[e] <= sql[e].n
                 /\ admin[a].status = "synced" => Acknowledged(a)[e] = json[e].n
<1> SUFFICES ASSUME NEW e \in Entries
             PROVE  /\ Acknowledged(a)[e] \in Nat
                    /\ acked[revision][e] <= Acknowledged(a)[e] /\ Acknowledged(a)[e] <= sql[e].n
                    /\ admin[a].status = "synced" => Acknowledged(a)[e] = json[e].n
    BY DEF Acknowledged
<1>1. /\ acked[revision][e] \in Nat /\ admin[a].snap[e].n \in Nat /\ admin[a].n \in Nat
      /\ sql[e].n \in Nat /\ json[e].n \in Nat
    BY Numbers
<1>2. Fits(admin[a], e) /\ acked[revision][e] <= sql[e].n
    BY DEF StoresInv, SnapshotsFit, PromisesKept
<1>3. CASE admin[a].status = "synced"
    BY <1>1, <1>2, <1>3 DEF Acknowledged, Larger, Fits, Exporting
<1>4. CASE admin[a].status # "synced"
    BY <1>1, <1>2, <1>4 DEF Acknowledged, Larger, Fits, Exporting
<1>5. QED
    BY <1>3, <1>4

\* A publication: with "synced" the file holds what is acknowledged.
LEMMA PublishKeepsStores ==
    ASSUME TypeOK, StoresInv, NEW a \in Admins, Publish(a)
    PROVE  /\ StoresInv'
           /\ \A r \in 0..revision : acked'[r] = acked[r] /\ exported'[r] = exported[r]
<1> DEFINE ofFile == IF admin[a].status = "synced" THEN Acknowledged(a) ELSE exported[revision]
<1>1. /\ admin[a].pc = "publish" /\ revision < MaxRevision /\ revision' = revision + 1
      /\ syncStatus' = admin[a].status /\ admin' = [admin EXCEPT ![a] = IdleAdmin]
      /\ acked' = [acked EXCEPT ![revision + 1] = Acknowledged(a)]
      /\ exported' = [exported EXCEPT ![revision + 1] = ofFile]
      /\ UNCHANGED <<sql, json>> /\ lock' = None
    BY DEF Publish
<1>2. revision + 1 \in Revisions
    BY <1>1, Numbers, SyncAssumption DEF Revisions
<1>3. /\ Acknowledged(a) \in [Entries -> Nat]
      /\ \A e \in Entries :
            /\ acked[revision][e] <= Acknowledged(a)[e] /\ Acknowledged(a)[e] <= sql[e].n
            /\ admin[a].status = "synced" => Acknowledged(a)[e] = json[e].n
    BY <1>1, AcknowledgedFits
<1>4. \A e \in Entries :
          /\ exported[revision][e] \in Nat /\ acked[revision][e] \in Nat /\ json[e].n \in Nat
          /\ exported[revision][e] <= acked[revision][e] /\ exported[revision][e] <= json[e].n
    BY Numbers DEF StoresInv, PromisesKept
<1>5. exported[revision] \in [Entries -> Nat]
    <2>1. exported[revision] \in [Entries -> Versions]
        BY Numbers DEF TypeOK
    <2>2. QED
        BY <1>4, <2>1
<1>6. /\ ofFile \in [Entries -> Nat]
      /\ \A e \in Entries : /\ exported[revision][e] <= ofFile[e] /\ ofFile[e] <= json[e].n
                            /\ ofFile[e] <= Acknowledged(a)[e]
    <2>1. CASE admin[a].status = "synced"
        <3>1. ofFile = Acknowledged(a)
            BY <2>1
        <3> HIDE DEF ofFile
        <3>2. \A e \in Entries : Acknowledged(a)[e] = json[e].n
            BY <1>3, <2>1
        <3>3. QED
            BY <1>3, <1>4, <3>1, <3>2
    <2>2. CASE admin[a].status # "synced"
        <3>1. ofFile = exported[revision]
            BY <2>2
        <3> HIDE DEF ofFile
        <3>2. \A e \in Entries : exported[revision][e] <= Acknowledged(a)[e]
            <4> SUFFICES ASSUME NEW e \in Entries
                         PROVE  exported[revision][e] <= Acknowledged(a)[e]
                OBVIOUS
            <4>1. Acknowledged(a)[e] \in Nat
                BY <1>3
            <4>2. QED
                BY <1>3, <1>4, <4>1
        <3>3. QED
            BY <1>4, <1>5, <3>1, <3>2
    <2>3. QED
        BY <2>1, <2>2
<1> HIDE DEF ofFile
<1>7. /\ PromisesKept' /\ acked'[revision'] = Acknowledged(a)
      /\ \A r \in 0..revision : acked'[r] = acked[r] /\ exported'[r] = exported[r]
    BY <1>1, <1>2, <1>3, <1>6, NewRevision
<1>8. lock = a /\ \A b \in Admins \ {a} : admin[b].pc \notin {"snapshot", "export", "publish"}
    BY <1>1 DEF StoresInv, LockHeld
<1>9. \A b \in Admins : admin'[b] = IF b = a THEN IdleAdmin ELSE admin[b]
    BY <1>1 DEF TypeOK
<1>10. LockHeld'
    BY <1>8, <1>9 DEF LockHeld, IdleAdmin
<1>11. SnapshotsFit'
    <2> SUFFICES ASSUME NEW b \in Admins, NEW e \in Entries
                 PROVE  Fits(admin[b], e)'
        BY DEF SnapshotsFit
    <2>1. CASE b = a
        <3>1. admin'[b].pc = "idle" /\ admin'[b].n = 0 /\ sql'[e].n \in Nat
            BY <1>1, <1>9, <2>1, Numbers DEF IdleAdmin
        <3>2. QED
            BY <3>1 DEF Fits, Exporting
    <2>2. CASE b # a
        <3>1. admin'[b] = admin[b] /\ Fits(admin[b], e)
              /\ admin[b].pc \notin {"snapshot", "export", "publish"}
            BY <1>8, <1>9, <2>2 DEF StoresInv, SnapshotsFit
        <3>2. QED
            BY <1>1, <3>1 DEF Fits, Exporting
    <2>3. QED
        BY <2>1, <2>2
<1>12. StatusTruthful'
    <2> SUFFICES ASSUME syncStatus' = "synced", NEW e \in Entries
                 PROVE  json'[e].n >= acked'[revision'][e]
        BY DEF StatusTruthful
    <2>1. Acknowledged(a)[e] = json[e].n
        BY <1>1, <1>3
    <2>2. QED
        BY <1>1, <1>4, <1>7, <2>1
<1>13. QED
    BY <1>7, <1>10, <1>11, <1>12 DEF StoresInv

\* A bump repeats what was promised.
LEMMA BumpKeepsStores ==
    ASSUME TypeOK, StoresInv, Bump
    PROVE  /\ StoresInv'
           /\ \A r \in 0..revision : acked'[r] = acked[r] /\ exported'[r] = exported[r]
<1>1. /\ lock = None /\ revision < MaxRevision /\ revision' = revision + 1
      /\ acked' = [acked EXCEPT ![revision + 1] = acked[revision]]
      /\ exported' = [exported EXCEPT ![revision + 1] = exported[revision]]
      /\ UNCHANGED <<sql, json, syncStatus, lock, admin>>
    BY DEF Bump
<1>2. revision + 1 \in Revisions
    BY <1>1, Numbers, SyncAssumption DEF Revisions
<1>3. \A e \in Entries :
          /\ exported[revision][e] \in Nat /\ acked[revision][e] \in Nat
          /\ exported[revision][e] <= acked[revision][e] /\ exported[revision][e] <= json[e].n
          /\ acked[revision][e] <= sql[e].n
    BY Numbers DEF StoresInv, PromisesKept
<1>4. acked[revision] \in [Entries -> Nat] /\ exported[revision] \in [Entries -> Nat]
    <2>1. acked[revision] \in [Entries -> Versions] /\ exported[revision] \in [Entries -> Versions]
        BY Numbers DEF TypeOK
    <2>2. QED
        BY <1>3, <2>1
<1>5. /\ PromisesKept' /\ acked'[revision'] = acked[revision]
      /\ \A r \in 0..revision : acked'[r] = acked[r] /\ exported'[r] = exported[r]
    <2>1. \A e \in Entries :
              /\ acked[revision][e] <= acked[revision][e] /\ acked[revision][e] <= sql[e].n
              /\ exported[revision][e] <= exported[revision][e]
              /\ exported[revision][e] <= json[e].n /\ exported[revision][e] <= acked[revision][e]
        <3>1. \A n \in Nat : n <= n
            OBVIOUS
        <3>2. QED
            BY <1>3, <3>1
    <2>2. UNCHANGED <<sql, json>>
        BY <1>1
    <2>3. QED
        BY <1>1, <1>2, <1>4, <2>1, <2>2, NewRevision
<1>6. LockHeld' /\ SnapshotsFit' /\ StatusTruthful'
    BY <1>1, <1>5 DEF StoresInv, LockHeld, SnapshotsFit, Fits, Exporting, StatusTruthful
<1>7. QED
    BY <1>5, <1>6 DEF StoresInv

\* A crash ends calls, one of which may hold the lock.
LEMMA CrashKeepsStores ==
    ASSUME TypeOK, StoresInv, NEW k \in Workers, Crash(k)
    PROVE  StoresInv'
<1>1. UNCHANGED <<sql, json, revision, syncStatus, acked, exported>>
    BY DEF Crash, history
<1>2. \A a \in Admins : admin'[a] = IF admin[a].home = k THEN IdleAdmin ELSE admin[a]
    BY DEF Crash
<1>3. LockHeld'
    <2> SUFFICES ASSUME NEW a \in Admins, admin'[a].pc \in {"snapshot", "export", "publish"}
                 PROVE  lock' = a
        BY DEF LockHeld
    <2>1. admin[a].home # k /\ lock = a
        BY <1>2 DEF StoresInv, LockHeld, IdleAdmin
    <2>2. QED
        BY <2>1 DEF Crash
<1>4. SnapshotsFit'
    <2> SUFFICES ASSUME NEW a \in Admins, NEW e \in Entries
                 PROVE  Fits(admin[a], e)'
        BY DEF SnapshotsFit
    <2>1. Fits(admin[a], e) /\ Fits(IdleAdmin, e)
        BY IdleFits DEF StoresInv, SnapshotsFit
    <2>2. QED
        BY <1>1, <1>2, <2>1 DEF Fits, Exporting
<1>5. PromisesKept' /\ StatusTruthful'
    BY <1>1 DEF StoresInv, PromisesKept, StatusTruthful
<1>6. QED
    BY <1>3, <1>4, <1>5 DEF StoresInv

----------------------------------------------------------------------------
(* Caches and requests.                                                     *)

\* Numbers of a request, and of what it sees.
LEMMA RequestNumbers ==
    ASSUME TypeOK, NEW p \in Requests
    PROVE  /\ req[p] \in RequestState
           /\ req[p].revision \in Nat /\ req[p].label \in 0..MaxRevision
           /\ req[p].bootRevision \in 0..MaxRevision
<1>1. MaxRevision \in Nat
    BY SyncAssumption
<1>2. QED
    BY <1>1 DEF TypeOK, RequestState, Revisions

\* Whatever moves the stores, past promises stay as they are: caches that are
\* kept or dropped and requests that go on or end stay good.
LEMMA ReadersStay ==
    ASSUME TypeOK, ReadersInv, revision' \in Nat, revision <= revision',
           \A r \in 0..revision : acked'[r] = acked[r] /\ exported'[r] = exported[r],
           \A k \in Workers :
               /\ liveCache'[k] = liveCache[k] \/ liveCache'[k] = None
               /\ segCache'[k] = segCache[k] \/ segCache'[k] = None
               /\ bootCache'[k] = bootCache[k] \/ bootCache'[k] = None,
           \A p \in Requests : req'[p] = req[p] \/ req'[p] = IdleRequest
    PROVE  ReadersInv'
<1>1. revision \in Nat
    BY Numbers
<1>2. ASSUME NEW d, NEW r \in Revisions, r <= revision
      PROVE  /\ Honest(d, r) => Honest(d, r)'
             /\ NoOlder(d, r) => NoOlder(d, r)'
    <2>1. r \in 0..revision
        BY <1>1, <1>2 DEF Revisions
    <2>2. acked'[r] = acked[r] /\ exported'[r] = exported[r]
        BY <2>1
    <2>3. QED
        BY <2>2 DEF Honest, NoOlder
<1>3. ASSUME NEW c \in Cached, GoodEntry(c)
      PROVE  GoodEntry(c)'
    <2> SUFFICES ASSUME c # None PROVE c.label <= revision' /\ Honest(c.data, c.label)'
        BY DEF GoodEntry
    <2>1. c.label \in Revisions /\ c.label <= revision /\ Honest(c.data, c.label)
        BY <1>3 DEF GoodEntry, Cached
    <2>2. c.label \in Nat
        BY <2>1 DEF Revisions
    <2>3. QED
        BY <1>1, <1>2, <2>1, <2>2
<1>4. ASSUME NEW c \in [label: Revisions, base: Rows] \cup {None}, GoodBase(c)
      PROVE  GoodBase(c)'
    <2> SUFFICES ASSUME c # None PROVE c.label <= revision' /\ NoOlder(c.base, c.label)'
        BY DEF GoodBase
    <2>1. c.label \in Revisions /\ c.label <= revision /\ NoOlder(c.base, c.label)
        BY <1>4 DEF GoodBase
    <2>2. c.label \in Nat
        BY <2>1 DEF Revisions
    <2>3. QED
        BY <1>1, <1>2, <2>1, <2>2
<1>5. ASSUME NEW k \in Workers
      PROVE  GoodEntry(liveCache[k])' /\ GoodEntry(segCache[k])' /\ GoodBase(bootCache[k])'
    <2>1. /\ liveCache[k] \in Cached /\ segCache[k] \in Cached
          /\ bootCache[k] \in [label: Revisions, base: Rows] \cup {None}
          /\ GoodEntry(liveCache[k]) /\ GoodEntry(segCache[k]) /\ GoodBase(bootCache[k])
        BY DEF TypeOK, ReadersInv
    <2>2. GoodEntry(liveCache[k])'
        BY <1>3, <2>1 DEF GoodEntry
    <2>3. GoodEntry(segCache[k])'
        BY <1>3, <2>1 DEF GoodEntry
    <2>4. GoodBase(bootCache[k])'
        BY <1>4, <2>1 DEF GoodBase
    <2>5. QED
        BY <2>2, <2>3, <2>4
<1>6. ASSUME NEW p \in Requests
      PROVE  GoodRequest(req[p])'
    <2>1. CASE req'[p] = req[p]
        <3>1. /\ req[p] \in RequestState /\ GoodRequest(req[p])
              /\ req[p].revision \in Nat /\ req[p].label \in Nat /\ req[p].bootRevision \in Nat
              /\ req[p].label \in Revisions
            BY RequestNumbers DEF ReadersInv, Revisions
        <3>2. /\ req[p].revision <= revision' /\ req[p].label <= revision'
              /\ req[p].bootRevision <= revision' /\ req[p].label <= revision
            BY <1>1, <3>1 DEF GoodRequest
        <3>3. req[p].label \in 0..revision
            BY <1>1, <3>1, <3>2
        <3>4. acked'[req[p].label] = acked[req[p].label]
              /\ exported'[req[p].label] = exported[req[p].label]
            BY <3>3
        <3>5. QED
            BY <2>1, <3>1, <3>2, <3>4 DEF GoodRequest, NoOlder, Honest
    <2>2. CASE req'[p] = IdleRequest
        BY <2>2 DEF GoodRequest, IdleRequest
    <2>3. QED
        BY <2>1, <2>2
<1>7. QED
    BY <1>5, <1>6 DEF ReadersInv

\* A step of one request to a good record that leaves good entries behind.
LEMMA OneRequestMoves ==
    ASSUME TypeOK, ReadersInv, NEW p \in Requests, NEW r, GoodRequest(r),
           req' = [req EXCEPT ![p] = r], UNCHANGED <<revision, acked, exported>>,
           \A k \in Workers :
               /\ liveCache'[k] = liveCache[k] \/ GoodEntry(liveCache'[k])
               /\ segCache'[k] = segCache[k] \/ GoodEntry(segCache'[k])
               /\ bootCache'[k] = bootCache[k] \/ GoodBase(bootCache'[k])
    PROVE  ReadersInv'
<1>1. \A q \in Requests : req'[q] = IF q = p THEN r ELSE req[q]
    BY DEF TypeOK
<1>2. \A q \in Requests : GoodRequest(req'[q])
    BY <1>1 DEF ReadersInv
<1>3. \A k \in Workers :
          GoodEntry(liveCache'[k]) /\ GoodEntry(segCache'[k]) /\ GoodBase(bootCache'[k])
    BY DEF ReadersInv
<1>4. \A q \in Requests : GoodRequest(req[q])'
    BY <1>2 DEF GoodRequest, NoOlder, Honest
<1>5. \A k \in Workers :
          GoodEntry(liveCache[k])' /\ GoodEntry(segCache[k])' /\ GoodBase(bootCache[k])'
    BY <1>3 DEF GoodEntry, GoodBase, NoOlder, Honest
<1>6. QED
    BY <1>4, <1>5 DEF ReadersInv

\* Rows of SQL over JSON rows that keep a label's promise are honest under it:
\* SQL holds whatever was acknowledged.
LEMMA MergedHonest ==
    ASSUME TypeOK, StoresInv, NEW base \in Rows, NEW r \in 0..revision, NoOlder(base, r)
    PROVE  Honest(Merged(base, sql), r) /\ Honest(JsonOnly(base), r)
<1> SUFFICES ASSUME NEW e \in Entries
             PROVE  /\ Merged(base, sql)[e].n >= exported[r][e]
                    /\ Merged(base, sql)[e].from = "sql" => Merged(base, sql)[e].n >= acked[r][e]
                    /\ JsonOnly(base)[e].n >= exported[r][e]
                    /\ JsonOnly(base)[e].from # "sql"
    BY DEF Honest
<1>1. /\ sql[e].n \in Nat /\ acked[r][e] \in Nat /\ exported[r][e] \in Nat
      /\ acked[revision][e] \in Nat
    BY Numbers
<1>2. base[e].n \in Nat
    BY SyncAssumption DEF Rows, Row, Versions
<1>3. exported[r][e] <= acked[r][e] /\ acked[r][e] <= acked[revision][e]
      /\ acked[revision][e] <= sql[e].n /\ exported[r][e] <= base[e].n
    BY DEF StoresInv, PromisesKept, NoOlder
<1>4. JsonOnly(base)[e] = [n |-> base[e].n, from |-> "json"]
    BY DEF JsonOnly
<1>5. \/ Merged(base, sql)[e] = [n |-> base[e].n, from |-> "json"]
      \/ Merged(base, sql)[e] = [n |-> sql[e].n, from |-> "sql"]
    BY DEF Merged
<1>6. QED
    BY <1>1, <1>2, <1>3, <1>4, <1>5

\* Every step of a request keeps the caches and the requests good.
LEMMA RequestsKeepReaders ==
    ASSUME TypeOK, StoresInv, ReadersInv, NEW p \in Requests,
           \/ (\E k \in Workers : Begin(p, k))
           \/ LiveHit(p) \/ LiveMiss(p) \/ BootHit(p) \/ BootMiss(p) \/ ReadFile(p)
           \/ ReadSql(p) \/ WithoutSql(p) \/ SqlError(p) \/ CacheData(p)
           \/ Normalize(p) \/ SegmentHit(p) \/ SegmentMiss(p) \/ Answer(p)
    PROVE  ReadersInv'
<1> USE DEF stores, caches, history
<1> DEFINE me == req[p]
<1>1. /\ me \in RequestState /\ GoodRequest(me) /\ me.revision \in Nat
      /\ me.label \in Nat /\ me.bootRevision \in Nat /\ revision \in Nat
      /\ 0 <= revision /\ revision <= revision
    BY RequestNumbers, Numbers DEF ReadersInv
<1>2. me.pc # "idle" => me.home \in Workers
    BY <1>1 DEF GoodRequest
<1>3. \A k \in Workers : /\ GoodEntry(liveCache[k]) /\ GoodEntry(segCache[k]) /\ GoodBase(bootCache[k])
                         /\ liveCache[k] \in Cached /\ segCache[k] \in Cached
                         /\ bootCache[k] \in [label: Revisions, base: Rows] \cup {None}
    BY DEF ReadersInv, TypeOK
<1>4. UNCHANGED <<revision, acked, exported>>
    BY DEF Begin, LiveHit, LiveMiss, BootHit, BootMiss, ReadFile, ReadSql, WithoutSql, SqlError,
           CacheData, Normalize, SegmentHit, SegmentMiss, Answer
<1>5. \A r \in {me.label, me.revision, me.bootRevision, revision} : r \in 0..revision
    BY <1>1 DEF GoodRequest
<1>6. GoodRequest(IdleRequest)
    BY <1>1 DEF GoodRequest, IdleRequest
<1>7. ASSUME NEW r, GoodRequest(r), req' = [req EXCEPT ![p] = r],
             UNCHANGED <<liveCache, segCache, bootCache>>
      PROVE  ReadersInv'
    BY <1>4, <1>7, OneRequestMoves
<1>8. ASSUME NEW k \in Workers, Begin(p, k)
      PROVE  ReadersInv'
    <2> DEFINE r == [IdleRequest EXCEPT !.pc = "data", !.home = k, !.revision = revision]
    <2>1. GoodRequest(r)
        BY <1>1 DEF GoodRequest, IdleRequest
    <2>2. QED
        BY <1>7, <1>8, <2>1 DEF Begin, Step
<1>9. CASE LiveHit(p)
    <2> DEFINE c == liveCache[me.home]
               r == [Labelled(p) EXCEPT !.data = c.data, !.pc = "segment"]
    <2>1. me.home \in Workers /\ c # None /\ c.label = revision /\ GoodEntry(c) /\ c \in Cached
        BY <1>2, <1>3, <1>9 DEF LiveHit, Hits, Home
    <2>2. Honest(c.data, revision)
        BY <2>1 DEF GoodEntry
    <2> HIDE DEF c
    <2>3. /\ r.pc = "segment" /\ r.home = me.home /\ r.label = revision /\ r.data = c.data
          /\ r.revision = me.revision /\ r.bootRevision = me.bootRevision
        BY <1>1 DEF Labelled, RequestState
    <2>4. req' = [req EXCEPT ![p] = r] /\ UNCHANGED <<liveCache, segCache, bootCache>>
        BY <1>9 DEF LiveHit, Step, c, Home
    <2> HIDE DEF r
    <2>5. GoodRequest(r)
        BY <1>1, <2>1, <2>2, <2>3 DEF GoodRequest
    <2>6. QED
        BY <1>7, <2>4, <2>5
<1>10. CASE LiveMiss(p)
    <2> DEFINE r == [Labelled(p) EXCEPT !.pc = "boot"]
    <2>1. /\ r.pc = "boot" /\ r.home = me.home /\ r.label = revision
          /\ r.revision = me.revision /\ r.bootRevision = me.bootRevision
        BY <1>1 DEF Labelled, RequestState
    <2>2. req' = [req EXCEPT ![p] = r] /\ UNCHANGED <<liveCache, segCache, bootCache>>
          /\ me.pc = "data"
        BY <1>10 DEF LiveMiss, Step
    <2> HIDE DEF r
    <2>3. GoodRequest(r)
        BY <1>1, <1>2, <2>1, <2>2 DEF GoodRequest
    <2>4. QED
        BY <1>7, <2>2, <2>3
<1>11. CASE BootHit(p)
    <2> DEFINE c == bootCache[me.home]
               r == [me EXCEPT !.base = c.base, !.pc = "sql"]
    <2>1. /\ me.home \in Workers /\ c # None /\ c.label = revision /\ GoodBase(c)
          /\ c \in [label: Revisions, base: Rows] \cup {None} /\ me.pc = "boot"
        BY <1>2, <1>3, <1>11 DEF BootHit, Hits, Home
    <2>2. NoOlder(c.base, revision) /\ c.base \in Rows
        BY <2>1 DEF GoodBase
    <2>3. NoOlder(c.base, me.label)
        <3> SUFFICES ASSUME NEW e \in Entries PROVE exported[me.label][e] <= c.base[e].n
            BY DEF NoOlder
        <3>1. exported[me.label][e] <= exported[revision][e]
            BY <1>5 DEF StoresInv, PromisesKept
        <3>2. exported[me.label][e] \in Nat /\ exported[revision][e] \in Nat
            BY <1>5, Numbers
        <3>3. c.base[e].n \in Nat /\ exported[revision][e] <= c.base[e].n
            BY <2>2, SyncAssumption DEF NoOlder, Rows, Row, Versions
        <3>4. QED
            BY <3>1, <3>2, <3>3
    <2> HIDE DEF c
    <2>4. /\ r.pc = "sql" /\ r.home = me.home /\ r.label = me.label /\ r.base = c.base
          /\ r.revision = me.revision /\ r.bootRevision = me.bootRevision
        BY <1>1 DEF RequestState
    <2>5. req' = [req EXCEPT ![p] = r] /\ UNCHANGED <<liveCache, segCache, bootCache>>
        BY <1>11 DEF BootHit, Step, c, Home
    <2> HIDE DEF r
    <2>6. GoodRequest(r)
        BY <1>1, <2>1, <2>3, <2>4 DEF GoodRequest
    <2>7. QED
        BY <1>7, <2>5, <2>6
<1>12. CASE BootMiss(p)
    <2> DEFINE r == [me EXCEPT !.bootRevision = revision, !.pc = "file"]
    <2>1. /\ r.pc = "file" /\ r.home = me.home /\ r.label = me.label
          /\ r.revision = me.revision /\ r.bootRevision = revision
        BY <1>1 DEF RequestState
    <2>2. req' = [req EXCEPT ![p] = r] /\ UNCHANGED <<liveCache, segCache, bootCache>>
          /\ me.pc = "boot"
        BY <1>12 DEF BootMiss, Step
    <2> HIDE DEF r
    <2>3. GoodRequest(r)
        BY <1>1, <1>2, <2>1, <2>2 DEF GoodRequest
    <2>4. QED
        BY <1>7, <2>2, <2>3
<1>13. \A r \in 0..revision : NoOlder(json, r)
    <2> SUFFICES ASSUME NEW r \in 0..revision, NEW e \in Entries PROVE exported[r][e] <= json[e].n
        BY DEF NoOlder
    <2>1. exported[r][e] <= exported[revision][e] /\ exported[revision][e] <= json[e].n
        BY DEF StoresInv, PromisesKept
    <2>2. exported[r][e] \in Nat /\ exported[revision][e] \in Nat /\ json[e].n \in Nat
        BY Numbers
    <2>3. QED
        BY <2>1, <2>2
<1>14. CASE ReadFile(p)
    <2> DEFINE c == [label |-> me.bootRevision, base |-> json]
               r == [me EXCEPT !.base = json, !.bootRevision = 0, !.pc = "sql"]
    <2>1. /\ r.pc = "sql" /\ r.home = me.home /\ r.label = me.label /\ r.base = json
          /\ r.revision = me.revision /\ r.bootRevision = 0
        BY <1>1 DEF RequestState
    <2>2. /\ req' = [req EXCEPT ![p] = r] /\ UNCHANGED <<liveCache, segCache>> /\ me.pc = "file"
          /\ bootCache' = [bootCache EXCEPT ![me.home] = c]
        BY <1>14 DEF ReadFile, Step, Home
    <2>3. GoodBase(c)
        BY <1>5, <1>13, <1>1 DEF GoodBase, GoodRequest
    <2> HIDE DEF r, c
    <2>4. GoodRequest(r)
        BY <1>1, <1>2, <1>5, <1>13, <2>1, <2>2 DEF GoodRequest
    <2>5. \A k \in Workers : bootCache'[k] = bootCache[k] \/ GoodBase(bootCache'[k])
        BY <2>2, <2>3 DEF TypeOK
    <2>6. QED
        BY <1>4, <2>2, <2>4, <2>5, OneRequestMoves
<1>15. ASSUME NEW d, Honest(d, me.label), me.pc = "sql",
              Step(p, [me EXCEPT !.data = d, !.base = NoRows, !.pc = "cache"]),
              UNCHANGED <<liveCache, segCache, bootCache>>
       PROVE  ReadersInv'
    <2> DEFINE r == [me EXCEPT !.data = d, !.base = NoRows, !.pc = "cache"]
    <2>1. /\ r.pc = "cache" /\ r.home = me.home /\ r.label = me.label /\ r.data = d
          /\ r.revision = me.revision /\ r.bootRevision = me.bootRevision
        BY <1>1 DEF RequestState
    <2>2. req' = [req EXCEPT ![p] = r]
        BY <1>15 DEF Step
    <2> HIDE DEF r
    <2>3. GoodRequest(r)
        BY <1>1, <1>2, <1>15, <2>1 DEF GoodRequest
    <2>4. QED
        BY <1>7, <1>15, <2>2, <2>3
<1>16. me.pc = "sql" => Honest(Merged(me.base, sql), me.label) /\ Honest(JsonOnly(me.base), me.label)
    <2>1. me.base \in Rows
        BY <1>1 DEF RequestState
    <2>2. QED
        BY <1>1, <1>5, <2>1, MergedHonest DEF GoodRequest
<1>17. CASE ReadSql(p)
    BY <1>15, <1>16, <1>17 DEF ReadSql
<1>18. CASE WithoutSql(p)
    BY <1>15, <1>16, <1>18 DEF WithoutSql
<1>19. CASE SqlError(p)
    BY <1>6, <1>7, <1>19 DEF SqlError, Step
<1>20. me.pc \in {"cache", "segment", "answer"} =>
           GoodEntry([label |-> me.label, data |-> me.data])
    BY <1>1 DEF GoodEntry, GoodRequest
<1>21. ASSUME NEW pc \in {"segment", "answer"}, me.pc \in {"cache", "segment"}
       PROVE  GoodRequest([me EXCEPT !.pc = pc])
    <2>1. /\ [me EXCEPT !.pc = pc].pc = pc
          /\ [me EXCEPT !.pc = pc].home = me.home /\ [me EXCEPT !.pc = pc].label = me.label
          /\ [me EXCEPT !.pc = pc].data = me.data
          /\ [me EXCEPT !.pc = pc].revision = me.revision
          /\ [me EXCEPT !.pc = pc].bootRevision = me.bootRevision
        BY <1>1 DEF RequestState
    <2>2. QED
        BY <1>1, <1>2, <1>21, <2>1 DEF GoodRequest
<1>22. CASE CacheData(p)
    <2>1. GoodRequest([me EXCEPT !.pc = "segment"])
        BY <1>21, <1>22 DEF CacheData
    <2>2. \A k \in Workers : liveCache'[k] = liveCache[k] \/ GoodEntry(liveCache'[k])
        BY <1>20, <1>22 DEF CacheData, TypeOK
    <2>3. QED
        BY <1>4, <1>22, <2>1, <2>2, OneRequestMoves DEF CacheData, Step
<1>23. CASE Normalize(p)
    BY <1>7, <1>21, <1>23 DEF Normalize, Step
<1>24. CASE SegmentHit(p)
    <2> DEFINE c == segCache[me.home]
               r == [me EXCEPT !.data = c.data, !.pc = "answer"]
    <2>1. /\ me.home \in Workers /\ c # None /\ c.label = me.label /\ GoodEntry(c) /\ c \in Cached
          /\ me.pc = "segment"
        BY <1>2, <1>3, <1>24 DEF SegmentHit, Hits, Home
    <2>2. Honest(c.data, me.label)
        BY <2>1 DEF GoodEntry
    <2> HIDE DEF c
    <2>3. /\ r.pc = "answer" /\ r.home = me.home /\ r.label = me.label /\ r.data = c.data
          /\ r.revision = me.revision /\ r.bootRevision = me.bootRevision
        BY <1>1 DEF RequestState
    <2>4. req' = [req EXCEPT ![p] = r] /\ UNCHANGED <<liveCache, segCache, bootCache>>
        BY <1>24 DEF SegmentHit, Step, c, Home
    <2> HIDE DEF r
    <2>5. GoodRequest(r)
        BY <1>1, <2>1, <2>2, <2>3 DEF GoodRequest
    <2>6. QED
        BY <1>7, <2>4, <2>5
<1>25. CASE SegmentMiss(p)
    <2>1. GoodRequest([me EXCEPT !.pc = "answer"])
        BY <1>21, <1>25 DEF SegmentMiss
    <2>2. \A k \in Workers : segCache'[k] = segCache[k] \/ GoodEntry(segCache'[k])
        BY <1>20, <1>25 DEF SegmentMiss, TypeOK
    <2>3. QED
        BY <1>4, <1>25, <2>1, <2>2, OneRequestMoves DEF SegmentMiss, Step
<1>26. CASE Answer(p)
    <2> DEFINE r == [IdleRequest EXCEPT !.ai = (revision = me.revision)]
    <2>1. GoodRequest(r)
        BY <1>1 DEF GoodRequest, IdleRequest
    <2>2. req' = [req EXCEPT ![p] = r] /\ UNCHANGED <<liveCache, segCache, bootCache>>
        BY <1>26 DEF Answer, Step
    <2> HIDE DEF r
    <2>3. QED
        BY <1>7, <2>1, <2>2
<1>27. QED
    BY <1>8, <1>9, <1>10, <1>11, <1>12, <1>14, <1>17, <1>18, <1>19, <1>22, <1>23, <1>24, <1>25, <1>26

----------------------------------------------------------------------------
(* Theorems.                                                                *)

LEMMA InitHolds == Init => IInv
<1> SUFFICES ASSUME Init PROVE IInv
    OBVIOUS
<1>1. TypeOK
    BY InitTypeOK
<1>2. MaxVersion \in Nat /\ MaxRevision \in Nat /\ 0 \in Revisions
    BY SyncAssumption DEF Revisions
<1>3. \A e \in Entries : sql[e].n = 0 /\ json[e].n = 0 /\ acked[0][e] = 0 /\ exported[0][e] = 0
    BY <1>2 DEF Init, NoRows
<1>4. \A r \in 0..revision : r = 0
    BY DEF Init
<1>5. LockHeld
    BY DEF Init, LockHeld, IdleAdmin
<1>6. SnapshotsFit
    <2> SUFFICES ASSUME NEW a \in Admins, NEW e \in Entries PROVE Fits(admin[a], e)
        BY DEF SnapshotsFit
    <2>1. admin[a] = IdleAdmin
        BY DEF Init
    <2>2. QED
        BY <1>1, <2>1, IdleFits
<1>7. PromisesKept
    BY <1>3, <1>4 DEF Init, PromisesKept
<1>8. StatusTruthful
    BY DEF Init, StatusTruthful
<1>9. ReadersInv
    BY DEF Init, ReadersInv, GoodEntry, GoodBase, GoodRequest, IdleRequest
<1>10. QED
    BY <1>1, <1>5, <1>6, <1>7, <1>8, <1>9 DEF IInv, StoresInv

\* The steps that move SQL's state alone, or the readers, leave the stores.
LEMMA StoresStay ==
    ASSUME StoresInv, UNCHANGED <<sql, json, revision, syncStatus, lock, admin, acked, exported>>
    PROVE  StoresInv'
BY DEF StoresInv, LockHeld, SnapshotsFit, Fits, Exporting, PromisesKept, StatusTruthful

LEMMA StepHolds == IInv /\ [Next]_vars => IInv'
<1> SUFFICES ASSUME IInv, [Next]_vars PROVE IInv'
    OBVIOUS
<1> USE DEF stores, caches, history
<1>1. /\ TypeOK /\ StoresInv /\ ReadersInv /\ revision \in Nat
      /\ revision <= revision /\ revision + 1 \in Nat /\ revision <= revision + 1
    BY Numbers DEF IInv
<1>2. ASSUME UNCHANGED <<revision, acked, exported, req>>,
             \A k \in Workers :
                 /\ liveCache'[k] = liveCache[k] \/ liveCache'[k] = None
                 /\ segCache'[k] = segCache[k] \/ segCache'[k] = None
                 /\ bootCache'[k] = bootCache[k] \/ bootCache'[k] = None
      PROVE  ReadersInv'
    BY <1>1, <1>2, ReadersStay
<1>3. ASSUME NEW a \in Admins, NEW k \in Workers, NEW e \in Entries, NEW live \in BOOLEAN,
             Commit(a, k, e, live)
      PROVE  IInv'
    <2>1. TypeOK'
        BY <1>1, <1>3, OtherTypes
    <2>2. StoresInv'
        BY <1>1, <1>3, CommitKeepsStores
    <2>3. ReadersInv'
        BY <1>2, <1>3 DEF Commit
    <2>4. QED
        BY <2>1, <2>2, <2>3 DEF IInv
<1>4. ASSUME NEW a \in Admins, NEW k \in Workers, RetryExport(a, k)
      PROVE  IInv'
    <2>1. TypeOK'
        BY <1>1, <1>4, OtherTypes
    <2>2. StoresInv'
        BY <1>1, <1>4, QuietAdminsKeepStores
    <2>3. ReadersInv'
        BY <1>2, <1>4 DEF RetryExport
    <2>4. QED
        BY <2>1, <2>2, <2>3 DEF IInv
<1>5. ASSUME NEW a \in Admins,
             \/ Invalidate(a) \/ Lock(a) \/ LockTimeout(a) \/ Snapshot(a)
             \/ ExportFails(a) \/ PublishFails(a)
      PROVE  IInv'
    <2>1. TypeOK'
        BY <1>1, <1>5, AdminTypes
    <2>2. StoresInv'
        BY <1>1, <1>5, QuietAdminsKeepStores
    <2>3. CASE Invalidate(a)
        <3>1. \A k \in Workers :
                  /\ liveCache'[k] = liveCache[k] \/ liveCache'[k] = None
                  /\ bootCache'[k] = bootCache[k] \/ bootCache'[k] = None
            BY <1>1, <2>3 DEF Invalidate, TypeOK
        <3>2. QED
            BY <1>2, <2>1, <2>2, <2>3, <3>1 DEF Invalidate, IInv
    <2>4. CASE Lock(a) \/ LockTimeout(a) \/ Snapshot(a) \/ ExportFails(a) \/ PublishFails(a)
        <3>1. UNCHANGED <<revision, acked, exported, req, liveCache, segCache, bootCache>>
            BY <2>4 DEF Lock, LockTimeout, Snapshot, ExportFails, PublishFails
        <3>2. QED
            BY <1>2, <2>1, <2>2, <3>1 DEF IInv
    <2>5. QED
        BY <1>5, <2>3, <2>4
<1>6. ASSUME NEW a \in Admins, Export(a)
      PROVE  IInv'
    <2>1. TypeOK'
        BY <1>1, <1>6, AdminTypes
    <2>2. StoresInv'
        BY <1>1, <1>6, ExportKeepsStores
    <2>3. ReadersInv'
        BY <1>2, <1>6 DEF Export
    <2>4. QED
        BY <2>1, <2>2, <2>3 DEF IInv
<1>7. ASSUME NEW a \in Admins, Publish(a)
      PROVE  IInv'
    <2>1. TypeOK'
        BY <1>1, <1>7, AdminTypes
    <2>2. StoresInv' /\ \A r \in 0..revision : acked'[r] = acked[r] /\ exported'[r] = exported[r]
        BY <1>1, <1>7, PublishKeepsStores
    <2>3. UNCHANGED <<req, liveCache, segCache, bootCache>> /\ revision' = revision + 1
        BY <1>7 DEF Publish
    <2>4. ReadersInv'
        BY <1>1, <2>2, <2>3, ReadersStay
    <2>5. QED
        BY <2>1, <2>2, <2>4 DEF IInv
<1>8. CASE Bump
    <2>1. TypeOK'
        BY <1>1, <1>8, OtherTypes
    <2>2. StoresInv' /\ \A r \in 0..revision : acked'[r] = acked[r] /\ exported'[r] = exported[r]
        BY <1>1, <1>8, BumpKeepsStores
    <2>3. UNCHANGED <<req, liveCache, segCache, bootCache>> /\ revision' = revision + 1
        BY <1>8 DEF Bump
    <2>4. ReadersInv'
        BY <1>1, <2>2, <2>3, ReadersStay
    <2>5. QED
        BY <2>1, <2>2, <2>4 DEF IInv
<1>9. ASSUME NEW p \in Requests,
             \/ (\E k \in Workers : Begin(p, k))
             \/ LiveHit(p) \/ LiveMiss(p) \/ BootHit(p) \/ BootMiss(p) \/ ReadFile(p)
             \/ ReadSql(p) \/ WithoutSql(p) \/ SqlError(p) \/ CacheData(p)
             \/ Normalize(p) \/ SegmentHit(p) \/ SegmentMiss(p) \/ Answer(p)
      PROVE  IInv'
    <2>1. TypeOK'
        BY <1>1, <1>9, RequestTypes
    <2>2. UNCHANGED <<stores, admin, history>>
        BY <1>9 DEF Begin, LiveHit, LiveMiss, BootHit, BootMiss, ReadFile, ReadSql, WithoutSql,
                    SqlError, CacheData, Normalize, SegmentHit, SegmentMiss, Answer
    <2>3. StoresInv'
        BY <1>1, <2>2, StoresStay
    <2>4. ReadersInv'
        BY <1>1, <1>9, RequestsKeepReaders
    <2>5. QED
        BY <2>1, <2>3, <2>4 DEF IInv
<1>10. CASE SqlFails \/ SqlRecovers
    <2>1. TypeOK'
        BY <1>1, <1>10, OtherTypes
    <2>2. UNCHANGED <<sql, json, revision, syncStatus, lock, admin, acked, exported, req,
                      liveCache, segCache, bootCache>>
        BY <1>10 DEF SqlFails, SqlRecovers
    <2>3. StoresInv' /\ ReadersInv'
        BY <1>1, <1>2, <2>2, StoresStay
    <2>4. QED
        BY <2>1, <2>3 DEF IInv
<1>11. ASSUME NEW k \in Workers, Crash(k)
       PROVE  IInv'
    <2>1. TypeOK'
        BY <1>1, <1>11, OtherTypes
    <2>2. StoresInv'
        BY <1>1, <1>11, CrashKeepsStores
    <2>3. /\ UNCHANGED <<revision, acked, exported>>
          /\ \A j \in Workers :
                 /\ liveCache'[j] = liveCache[j] \/ liveCache'[j] = None
                 /\ segCache'[j] = segCache[j] \/ segCache'[j] = None
                 /\ bootCache'[j] = bootCache[j] \/ bootCache'[j] = None
          /\ \A p \in Requests : req'[p] = req[p] \/ req'[p] = IdleRequest
        BY <1>1, <1>11 DEF Crash, TypeOK
    <2>4. ReadersInv'
        BY <1>1, <2>3, ReadersStay
    <2>5. QED
        BY <2>1, <2>2, <2>4 DEF IInv
<1>12. CASE UNCHANGED vars
    <2>1. TypeOK'
        BY <1>1, <1>12 DEF vars, TypeOK
    <2>2. StoresInv'
        BY <1>1, <1>12, StoresStay DEF vars
    <2>3. ReadersInv'
        BY <1>2, <1>12 DEF vars
    <2>4. QED
        BY <2>1, <2>2, <2>3 DEF IInv
<1>13. QED
    BY <1>3, <1>4, <1>5, <1>6, <1>7, <1>8, <1>9, <1>10, <1>11, <1>12 DEF Next

\* The invariant the theorems rest on.
THEOREM Invariance == Spec => []IInv
BY InitHolds, StepHolds, PTL DEF Spec

\* Stores, caches, calls and requests keep their types.
THEOREM TypesKept == Spec => []TypeOK
<1>1. IInv => TypeOK
    BY DEF IInv
<1>2. QED
    BY <1>1, Invariance, PTL

\* "synced" is true whatever order any number of administrators' changes,
\* exports and failures come in.
THEOREM SyncedIsTrue == Spec => []StatusTruthful
<1>1. IInv => StatusTruthful
    BY DEF IInv, StoresInv
<1>2. QED
    BY <1>1, Invariance, PTL

\* Whatever falls between the reads of any number of requests on any number of
\* workers, no label promises more than the data under it holds.
THEOREM LabelsAreHonest == Spec => []LabelsHonest
<1>1. IInv => LabelsHonest
    BY DEF IInv, ReadersInv, GoodEntry, GoodRequest, LabelsHonest
<1>2. QED
    BY <1>1, Invariance, PTL

\* No export puts an older version of any entry in place of a newer one.
THEOREM ExportsGoForward == Spec => ExportNeverGoesBack
<1>1. IInv /\ [Next]_vars => [\A e \in Entries : json'[e].n >= json[e].n]_vars
    <2> SUFFICES ASSUME IInv, Next PROVE \A e \in Entries : json'[e].n >= json[e].n
        OBVIOUS
    <2>1. /\ TypeOK /\ StoresInv /\ \A e \in Entries : json[e].n >= json[e].n
        BY Numbers DEF IInv
    <2>2. CASE \E a \in Admins : Export(a)
        BY <2>1, <2>2, ExportKeepsStores
    <2>3. CASE json' = json
        BY <2>1, <2>3
    <2>4. (\E a \in Admins : Export(a)) \/ json' = json
        BY DEF Next, Commit, RetryExport, Invalidate, Lock, LockTimeout, Snapshot, ExportFails,
               Publish, PublishFails, Bump, Begin, LiveHit, LiveMiss, BootHit, BootMiss, ReadFile,
               ReadSql, WithoutSql, SqlError, CacheData, Normalize, SegmentHit, SegmentMiss,
               Answer, SqlFails, SqlRecovers, Crash, stores
    <2>5. QED
        BY <2>2, <2>3, <2>4
<1>2. QED
    BY <1>1, Invariance, PTL DEF Spec, ExportNeverGoesBack

\* Only the step that ends a request says whether the AI's result stands.
AiAtTheEnd == \A p \in Requests : req[p].pc # "idle" => req[p].ai = FALSE

LEMMA AiMoves ==
    ASSUME TypeOK, AiAtTheEnd, Next, NEW p \in Requests
    PROVE  \/ req'[p].ai = FALSE
           \/ req'[p] = req[p]
           \/ Answer(p) /\ req'[p].pc = "idle" /\ (req'[p].ai => revision = req[p].revision)
<1>1. req[p] \in RequestState /\ (req[p].pc # "idle" => req[p].ai = FALSE)
    BY DEF TypeOK, AiAtTheEnd
<1>2. ASSUME NEW q \in Requests, NEW r, req' = [req EXCEPT ![q] = r], r.ai = FALSE
      PROVE  req'[p].ai = FALSE \/ req'[p] = req[p]
    BY <1>2 DEF TypeOK
<1>3. IdleRequest.ai = FALSE
    BY DEF IdleRequest
<1>4. CASE req' = req
    BY <1>4
<1>5. CASE \E k \in Workers : Crash(k)
    BY <1>3, <1>5 DEF Crash
<1>6. CASE \E q \in Requests, k \in Workers : Begin(q, k)
    <2>1. PICK q \in Requests, k \in Workers : Begin(q, k)
        BY <1>6
    <2> DEFINE r == [IdleRequest EXCEPT !.pc = "data", !.home = k, !.revision = revision]
    <2>2. r.ai = FALSE
        BY DEF IdleRequest
    <2>3. req' = [req EXCEPT ![q] = r]
        BY <2>1 DEF Begin, Step
    <2> HIDE DEF r
    <2>4. QED
        BY <1>2, <2>2, <2>3
<1>7. ASSUME NEW q \in Requests,
             \/ LiveHit(q) \/ LiveMiss(q) \/ BootHit(q) \/ BootMiss(q) \/ ReadFile(q)
             \/ ReadSql(q) \/ WithoutSql(q) \/ CacheData(q) \/ Normalize(q)
             \/ SegmentHit(q) \/ SegmentMiss(q)
      PROVE  req'[p].ai = FALSE \/ req'[p] = req[p]
    <2>1. req[q] \in RequestState /\ req[q].pc # "idle"
        BY <1>7 DEF TypeOK, LiveHit, LiveMiss, BootHit, BootMiss, ReadFile, ReadSql,
                    WithoutSql, CacheData, Normalize, SegmentHit, SegmentMiss
    <2>2. req[q].ai = FALSE
        BY <2>1 DEF AiAtTheEnd
    <2>3. req[q] = [pc |-> req[q].pc, home |-> req[q].home, revision |-> req[q].revision,
                    label |-> req[q].label, bootRevision |-> req[q].bootRevision,
                    base |-> req[q].base, data |-> req[q].data, ai |-> FALSE]
        BY <2>1, <2>2 DEF RequestState
    <2>4. CASE LiveHit(q)
        <3> DEFINE r == [Labelled(q) EXCEPT !.data = liveCache[Home(q)].data, !.pc = "segment"]
        <3>1. r.ai = FALSE
            BY <2>3 DEF Labelled
        <3>2. req' = [req EXCEPT ![q] = r]
            BY <2>4 DEF LiveHit, Step
        <3> HIDE DEF r
        <3>3. QED
            BY <1>2, <3>1, <3>2
    <2>5. CASE LiveMiss(q)
        <3> DEFINE r == [Labelled(q) EXCEPT !.pc = "boot"]
        <3>1. r.ai = FALSE
            BY <2>3 DEF Labelled
        <3>2. req' = [req EXCEPT ![q] = r]
            BY <2>5 DEF LiveMiss, Step
        <3> HIDE DEF r
        <3>3. QED
            BY <1>2, <3>1, <3>2
    <2>6. CASE BootHit(q)
        <3> DEFINE r == [req[q] EXCEPT !.base = bootCache[Home(q)].base, !.pc = "sql"]
        <3>1. r.ai = FALSE
            BY <2>3
        <3>2. req' = [req EXCEPT ![q] = r]
            BY <2>6 DEF BootHit, Step
        <3> HIDE DEF r
        <3>3. QED
            BY <1>2, <3>1, <3>2
    <2>7. CASE BootMiss(q)
        <3> DEFINE r == [req[q] EXCEPT !.bootRevision = revision, !.pc = "file"]
        <3>1. r.ai = FALSE
            BY <2>3
        <3>2. req' = [req EXCEPT ![q] = r]
            BY <2>7 DEF BootMiss, Step
        <3> HIDE DEF r
        <3>3. QED
            BY <1>2, <3>1, <3>2
    <2>8. CASE ReadFile(q)
        <3> DEFINE r == [req[q] EXCEPT !.base = json, !.bootRevision = 0, !.pc = "sql"]
        <3>1. r.ai = FALSE
            BY <2>3
        <3>2. req' = [req EXCEPT ![q] = r]
            BY <2>8 DEF ReadFile, Step
        <3> HIDE DEF r
        <3>3. QED
            BY <1>2, <3>1, <3>2
    <2>9. CASE ReadSql(q)
        <3> DEFINE r == [req[q] EXCEPT !.data = Merged(req[q].base, sql), !.base = NoRows, !.pc = "cache"]
        <3>1. r.ai = FALSE
            BY <2>3
        <3>2. req' = [req EXCEPT ![q] = r]
            BY <2>9 DEF ReadSql, Step
        <3> HIDE DEF r
        <3>3. QED
            BY <1>2, <3>1, <3>2
    <2>10. CASE WithoutSql(q)
        <3> DEFINE r == [req[q] EXCEPT !.data = JsonOnly(req[q].base), !.base = NoRows, !.pc = "cache"]
        <3>1. r.ai = FALSE
            BY <2>3
        <3>2. req' = [req EXCEPT ![q] = r]
            BY <2>10 DEF WithoutSql, Step
        <3> HIDE DEF r
        <3>3. QED
            BY <1>2, <3>1, <3>2
    <2>11. CASE SegmentHit(q)
        <3> DEFINE r == [req[q] EXCEPT !.data = segCache[Home(q)].data, !.pc = "answer"]
        <3>1. r.ai = FALSE
            BY <2>3
        <3>2. req' = [req EXCEPT ![q] = r]
            BY <2>11 DEF SegmentHit, Step
        <3> HIDE DEF r
        <3>3. QED
            BY <1>2, <3>1, <3>2
    <2>12. CASE CacheData(q) \/ Normalize(q) \/ SegmentMiss(q)
        <3> DEFINE r(pc) == [req[q] EXCEPT !.pc = pc]
        <3>1. \A pc : r(pc).ai = FALSE
            BY <2>3
        <3>2. req' = [req EXCEPT ![q] = r("segment")] \/ req' = [req EXCEPT ![q] = r("answer")]
            BY <2>12 DEF CacheData, Normalize, SegmentMiss, Step
        <3> HIDE DEF r
        <3>3. QED
            BY <1>2, <3>1, <3>2
    <2>13. QED
        BY <1>7, <2>4, <2>5, <2>6, <2>7, <2>8, <2>9, <2>10, <2>11, <2>12
<1>8. CASE \E q \in Requests : SqlError(q)
    BY <1>2, <1>3, <1>8 DEF SqlError, Step
<1>9. ASSUME NEW q \in Requests, Answer(q), q # p
      PROVE  req'[p] = req[p]
    BY <1>9 DEF TypeOK, Answer, Step
<1>10. CASE Answer(p)
    <2> DEFINE stands == revision = req[p].revision
    <2>1. req'[p] = [IdleRequest EXCEPT !.ai = stands]
        BY <1>10 DEF TypeOK, Answer, Step
    <2>2. req'[p].ai = stands /\ req'[p].pc = "idle"
        BY <2>1 DEF IdleRequest
    <2>3. QED
        BY <1>10, <2>2
<1>11. QED
    BY <1>4, <1>5, <1>6, <1>7, <1>8, <1>9, <1>10
       DEF Next, Commit, RetryExport, Invalidate, Lock, LockTimeout, Snapshot, Export,
           ExportFails, Publish, PublishFails, Bump, SqlFails, SqlRecovers

LEMMA AiInvariance == Spec => []AiAtTheEnd
<1>1. Init => AiAtTheEnd
    BY DEF Init, AiAtTheEnd, IdleRequest
<1>2. TypeOK /\ AiAtTheEnd /\ [Next]_vars => AiAtTheEnd'
    <2>1. CASE UNCHANGED vars
        BY <2>1 DEF vars, AiAtTheEnd
    <2>2. CASE Next
        BY <2>2, AiMoves DEF AiAtTheEnd
    <2>3. QED
        BY <2>1, <2>2
<1>3. QED
    BY <1>1, <1>2, TypesKept, PTL DEF Spec

\* A result of the AI is delivered only over data that keeps the promise of
\* the revision in force: equal revisions at both ends fix the label between.
THEOREM AnswersArePublished == Spec => AnswersReflectPublished
<1>1. IInv /\ AiAtTheEnd /\ [Next]_vars =>
          [\A p \in Requests :
               req[p].pc = "answer" /\ req'[p].ai => Honest(req[p].data, revision)]_vars
    <2> SUFFICES ASSUME IInv, AiAtTheEnd, Next, NEW p \in Requests, req[p].pc = "answer", req'[p].ai
                 PROVE  Honest(req[p].data, revision)
        OBVIOUS
    <2>1. /\ TypeOK /\ GoodRequest(req[p]) /\ revision \in Nat
          /\ req[p].revision \in Nat /\ req[p].label \in Nat
        BY RequestNumbers, Numbers DEF IInv, ReadersInv
    <2>2. CASE req[p].revision = revision
        <3>1. req[p].label = revision
            BY <2>1, <2>2 DEF GoodRequest
        <3>2. QED
            BY <2>1, <3>1 DEF GoodRequest
    <2>3. req[p].revision = revision
        <3>1. req[p].ai = FALSE
            BY DEF AiAtTheEnd
        <3>2. QED
            BY <2>1, <3>1, AiMoves
    <2>4. QED
        BY <2>2, <2>3
<1>2. QED
    BY <1>1, Invariance, AiInvariance, PTL DEF Spec, AnswersReflectPublished
=============================================================================
