---------------------------- MODULE DictionarySync ----------------------------
(***************************************************************************)
(* How an administrator's change reaches the users: SQL commit, JSON       *)
(* export and publication of a revision (pending_service.py,               *)
(* dictionary_state.py, json_sync.py), and the requests of other workers   *)
(* that read the dictionary meanwhile through their caches                 *)
(* (pending_service.py, live_normalizer.py).                               *)
(*                                                                         *)
(* SQL, the exported JSON file and the SQLite state file are three stores  *)
(* without a common transaction; every access to one of them is a step.    *)
(* An entry is known by its version, the number of changes committed to    *)
(* it: that is all its readers need to tell a stale meaning from a new one.*)
(***************************************************************************)
EXTENDS Naturals

CONSTANTS
    Entries,       \* (abbr, domain)
    Workers,       \* processes, each with caches of its own
    Admins,        \* administrators' calls in progress
    Requests,      \* normalisation requests in progress
    None,
    MaxVersion,    \* bound: changes to one entry
    MaxRevision    \* bound: published revisions

ASSUME SyncAssumption ==
    /\ MaxVersion \in Nat /\ MaxRevision \in Nat
    /\ None \notin Workers \cup Admins

VARIABLES
    \* shared
    sql,        \* entry -> its row: version and is_active
    sqlUp,      \* whether SQL Server answers
    json,       \* approved_abbreviations.json: the rows it was exported from
    revision,   \* dictionary-state.sqlite3: revision ...
    syncStatus, \* ... and status
    lock,       \* who holds its BEGIN IMMEDIATE
    \* per worker
    sqlDown,    \* _health_cache holds a negative answer
    liveCache,  \* _live_data_cache, at a capacity of one entry
    bootCache,  \* _shared_bootstrap_cache: one JSON snapshot and its revision
    segCache,   \* _segment_cache, at a capacity of one entry: the data behind it
    \* per administrator's call
    admin,
    \* per request
    req,
    \* history
    acked,      \* revision -> entry -> version acknowledged by then
    exported    \* revision -> entry -> version the JSON file holds by then

stores == <<sql, sqlUp, json, revision, syncStatus, lock>>
caches == <<sqlDown, liveCache, bootCache, segCache>>
history == <<acked, exported>>
vars == <<stores, caches, admin, req, history>>

Versions == 0..MaxVersion
Revisions == 0..MaxRevision
Row == [n: Versions, live: BOOLEAN]
Rows == [Entries -> Row]
\* What a request sees of an entry, and the store that gave it.
Seen == [n: Versions, from: {"sql", "json"}]
Data == [Entries -> Seen]

\* A cache entry: data under the revision it is labelled with.
Cached == [label: Revisions, data: Data] \cup {None}

NoRows == [e \in Entries |-> [n |-> 0, live |-> FALSE]]
NoData == [e \in Entries |-> [n |-> 0, from |-> "json"]]

AdminState == [pc: {"idle", "committed", "lock", "snapshot", "export", "publish"},
               home: Workers \cup {None}, entry: Entries \cup {None}, n: Versions,
               snap: Rows, status: {"synced", "export_failed"}]

RequestState == [pc: {"idle", "data", "boot", "file", "sql", "cache", "segment", "answer"},
                 home: Workers \cup {None}, revision: Revisions, label: Revisions,
                 bootRevision: Revisions, base: Rows, data: Data,
                 ai: BOOLEAN]

IdleAdmin == [pc |-> "idle", home |-> None, entry |-> None, n |-> 0, snap |-> NoRows,
              status |-> "synced"]

IdleRequest == [pc |-> "idle", home |-> None, revision |-> 0, label |-> 0, bootRevision |-> 0,
                base |-> NoRows, data |-> NoData, ai |-> FALSE]

TypeOK ==
    /\ sql \in Rows /\ json \in Rows /\ sqlUp \in BOOLEAN
    /\ revision \in Revisions /\ syncStatus \in {"not_exported", "synced", "export_failed"}
    /\ lock \in Admins \cup {None}
    /\ sqlDown \in [Workers -> BOOLEAN]
    /\ liveCache \in [Workers -> Cached] /\ segCache \in [Workers -> Cached]
    /\ bootCache \in [Workers -> [label: Revisions, base: Rows] \cup {None}]
    /\ admin \in [Admins -> AdminState]
    /\ req \in [Requests -> RequestState]
    /\ acked \in [Revisions -> [Entries -> Versions]]
    /\ exported \in [Revisions -> [Entries -> Versions]]

Init ==
    /\ sql = NoRows /\ sqlUp = TRUE /\ json = NoRows
    /\ revision = 0 /\ syncStatus = "not_exported" /\ lock = None
    /\ sqlDown = [k \in Workers |-> FALSE]
    /\ liveCache = [k \in Workers |-> None]
    /\ bootCache = [k \in Workers |-> None]
    /\ segCache = [k \in Workers |-> None]
    /\ admin = [a \in Admins |-> IdleAdmin]
    /\ req = [p \in Requests |-> IdleRequest]
    /\ acked = [r \in Revisions |-> [e \in Entries |-> 0]]
    /\ exported = [r \in Revisions |-> [e \in Entries |-> 0]]

----------------------------------------------------------------------------
(* Administrators.                                                          *)

\* bulk_upsert, approve and deactivate: one committed change of one row;
\* only an active row can be deactivated.
Commit(a, k, e, live) ==
    /\ admin[a].pc = "idle" /\ sqlUp
    /\ sql[e].n < MaxVersion
    /\ live \/ sql[e].live
    /\ sql' = [sql EXCEPT ![e] = [n |-> @.n + 1, live |-> live]]
    /\ admin' = [admin EXCEPT ![a] = [IdleAdmin EXCEPT !.pc = "committed", !.home = k,
                                                      !.entry = e, !.n = sql[e].n + 1]]
    /\ UNCHANGED <<sqlUp, json, revision, syncStatus, lock, caches, req, history>>

\* retry-export: the same publication with nothing committed before it.
RetryExport(a, k) ==
    /\ admin[a].pc = "idle" /\ sqlUp
    /\ admin' = [admin EXCEPT ![a] = [IdleAdmin EXCEPT !.pc = "committed", !.home = k]]
    /\ UNCHANGED <<stores, caches, req, history>>

\* The worker that made the change drops its own caches.
Invalidate(a) ==
    /\ admin[a].pc = "committed"
    /\ liveCache' = [liveCache EXCEPT ![admin[a].home] = None]
    /\ bootCache' = [bootCache EXCEPT ![admin[a].home] = None]
    /\ admin' = [admin EXCEPT ![a].pc = "lock"]
    /\ UNCHANGED <<stores, sqlDown, segCache, req, history>>

\* Mutant of Lock: the state file is opened without BEGIN IMMEDIATE.
LockShared(a) ==
    /\ admin[a].pc = "lock"
    /\ admin' = [admin EXCEPT ![a].pc = "snapshot"]
    /\ UNCHANGED <<stores, caches, req, history>>

\* BEGIN IMMEDIATE: one writer of the state file at a time ...
Lock(a) ==
    /\ admin[a].pc = "lock" /\ lock = None
    /\ lock' = a
    /\ admin' = [admin EXCEPT ![a].pc = "snapshot"]
    /\ UNCHANGED <<sql, sqlUp, json, revision, syncStatus, caches, req, history>>

\* ... or the wait for it times out, and the change stays unpublished (503).
LockTimeout(a) ==
    /\ admin[a].pc = "lock"
    /\ admin' = [admin EXCEPT ![a] = IdleAdmin]
    /\ UNCHANGED <<stores, caches, req, history>>

\* list_approved_abbreviations, under the lock.
Snapshot(a) ==
    /\ admin[a].pc = "snapshot" /\ sqlUp
    /\ admin' = [admin EXCEPT ![a].snap = sql, ![a].pc = "export"]
    /\ UNCHANGED <<stores, caches, req, history>>

\* Mutant of ExportFails: the failure is logged and forgotten.
ExportFailsSilently(a) ==
    /\ admin[a].pc \in {"snapshot", "export"}
    /\ admin' = [admin EXCEPT ![a].pc = "publish"]
    /\ UNCHANGED <<stores, caches, req, history>>

\* SQL is not ready, or the query, the temporary file or os.replace fails.
ExportFails(a) ==
    /\ admin[a].pc \in {"snapshot", "export"}
    /\ admin' = [admin EXCEPT ![a].status = "export_failed", ![a].pc = "publish"]
    /\ UNCHANGED <<stores, caches, req, history>>

\* os.replace.
Export(a) ==
    /\ admin[a].pc = "export"
    /\ json' = admin[a].snap
    /\ admin' = [admin EXCEPT ![a].pc = "publish"]
    /\ UNCHANGED <<sql, sqlUp, revision, syncStatus, lock, caches, req, history>>

Larger(m, n) == IF m < n THEN n ELSE m

\* What the acknowledgement of a tells its administrator: its own change, and
\* with "synced" everything its snapshot held.
Acknowledged(a) ==
    [e \in Entries |->
        Larger(acked[revision][e],
               IF admin[a].status = "synced" THEN admin[a].snap[e].n
               ELSE IF e = admin[a].entry THEN admin[a].n ELSE 0)]

\* advance, and the commit that releases the lock.
Publish(a) ==
    /\ admin[a].pc = "publish" /\ revision < MaxRevision
    /\ revision' = revision + 1
    /\ syncStatus' = admin[a].status
    /\ lock' = None
    /\ admin' = [admin EXCEPT ![a] = IdleAdmin]
    /\ acked' = [acked EXCEPT ![revision + 1] = Acknowledged(a)]
    /\ exported' = [exported EXCEPT ![revision + 1] =
                      IF admin[a].status = "synced" THEN Acknowledged(a) ELSE exported[revision]]
    /\ UNCHANGED <<sql, sqlUp, json, caches, req>>

\* The state file cannot be written: 503, whatever was exported stays.
PublishFails(a) ==
    /\ admin[a].pc = "publish"
    /\ lock' = None
    /\ admin' = [admin EXCEPT ![a] = IdleAdmin]
    /\ UNCHANGED <<sql, sqlUp, json, revision, syncStatus, caches, req, history>>

\* bump: phrase overrides and AI meanings move the revision and keep the status.
Bump ==
    /\ lock = None /\ revision < MaxRevision
    /\ revision' = revision + 1
    /\ acked' = [acked EXCEPT ![revision + 1] = acked[revision]]
    /\ exported' = [exported EXCEPT ![revision + 1] = exported[revision]]
    /\ UNCHANGED <<sql, sqlUp, json, syncStatus, lock, caches, admin, req>>

----------------------------------------------------------------------------
(* Requests.                                                                *)

Step(p, changes) == req' = [req EXCEPT ![p] = changes]
Home(p) == req[p].home

\* What SQL's rows and the JSON rows under them show.
Merged(base, rows) ==
    [e \in Entries |->
        IF ~rows[e].live /\ base[e].live THEN [n |-> base[e].n, from |-> "json"]
                                         ELSE [n |-> rows[e].n, from |-> "sql"]]

JsonOnly(base) == [e \in Entries |-> [n |-> base[e].n, from |-> "json"]]

\* normalize_live notes the revision the request starts under.
Begin(p, k) ==
    /\ req[p].pc = "idle"
    /\ Step(p, [IdleRequest EXCEPT !.pc = "data", !.home = k, !.revision = revision])
    /\ UNCHANGED <<stores, caches, admin, history>>

\* get_live_normalization_data labels its data with the revision it reads first.
Labelled(p) == [req[p] EXCEPT !.label = revision]

\* A lookup under another label misses; one under the same label may, since
\* the entry may have outlived its time (15 s, 60 s) or been evicted.
Hits(cached, r) == cached # None /\ cached.label = r

LiveHit(p) ==
    /\ req[p].pc = "data" /\ Hits(liveCache[Home(p)], revision)
    /\ Step(p, [Labelled(p) EXCEPT !.data = liveCache[Home(p)].data, !.pc = "segment"])
    /\ UNCHANGED <<stores, caches, admin, history>>

LiveMiss(p) ==
    /\ req[p].pc = "data"
    /\ Step(p, [Labelled(p) EXCEPT !.pc = "boot"])
    /\ UNCHANGED <<stores, caches, admin, history>>

\* _get_shared_bootstrap reads the revision again, for its own cache.
BootHit(p) ==
    /\ req[p].pc = "boot" /\ Hits(bootCache[Home(p)], revision)
    /\ Step(p, [req[p] EXCEPT !.base = bootCache[Home(p)].base, !.pc = "sql"])
    /\ UNCHANGED <<stores, caches, admin, history>>

BootMiss(p) ==
    /\ req[p].pc = "boot"
    /\ Step(p, [req[p] EXCEPT !.bootRevision = revision, !.pc = "file"])
    /\ UNCHANGED <<stores, caches, admin, history>>

ReadFile(p) ==
    /\ req[p].pc = "file"
    /\ bootCache' = [bootCache EXCEPT ![Home(p)] =
                       [label |-> req[p].bootRevision, base |-> json]]
    /\ Step(p, [req[p] EXCEPT !.base = json, !.bootRevision = 0, !.pc = "sql"])
    /\ UNCHANGED <<stores, sqlDown, liveCache, segCache, admin, history>>

\* db_is_ready, then list_approved_abbreviations.
ReadSql(p) ==
    /\ req[p].pc = "sql" /\ sqlUp
    /\ sqlDown' = [sqlDown EXCEPT ![Home(p)] = FALSE]
    /\ Step(p, [req[p] EXCEPT !.data = Merged(req[p].base, sql), !.base = NoRows,
                              !.pc = "cache"])
    /\ UNCHANGED <<stores, liveCache, bootCache, segCache, admin, history>>

\* The health check says no, or did so within its 30 seconds: JSON alone.
WithoutSql(p) ==
    /\ req[p].pc = "sql"
    /\ ~sqlUp \/ sqlDown[Home(p)]
    /\ sqlDown' = [sqlDown EXCEPT ![Home(p)] = TRUE]
    /\ Step(p, [req[p] EXCEPT !.data = JsonOnly(req[p].base), !.base = NoRows,
                              !.pc = "cache"])
    /\ UNCHANGED <<stores, liveCache, bootCache, segCache, admin, history>>

\* The health check still says yes but the query fails: the request fails.
SqlError(p) ==
    /\ req[p].pc = "sql" /\ ~sqlUp
    /\ Step(p, IdleRequest)
    /\ UNCHANGED <<stores, caches, admin, history>>

\* Mutant of CacheData: the key's revision is read after the data.
CacheUnderCurrent(p) ==
    /\ req[p].pc = "cache"
    /\ liveCache' = [liveCache EXCEPT ![Home(p)] =
                       [label |-> revision, data |-> req[p].data]]
    /\ Step(p, [req[p] EXCEPT !.pc = "segment"])
    /\ UNCHANGED <<stores, sqlDown, bootCache, segCache, admin, history>>

CacheData(p) ==
    /\ req[p].pc = "cache"
    /\ liveCache' = [liveCache EXCEPT ![Home(p)] =
                       [label |-> req[p].label, data |-> req[p].data]]
    /\ Step(p, [req[p] EXCEPT !.pc = "segment"])
    /\ UNCHANGED <<stores, sqlDown, bootCache, segCache, admin, history>>

\* A short text is normalised from the data alone ...
Normalize(p) ==
    /\ req[p].pc = "segment"
    /\ Step(p, [req[p] EXCEPT !.pc = "answer"])
    /\ UNCHANGED <<stores, caches, admin, history>>

\* ... a segment of a long one from an earlier result under the same revision ...
SegmentHit(p) ==
    /\ req[p].pc = "segment"
    /\ Hits(segCache[Home(p)], req[p].label)
    /\ Step(p, [req[p] EXCEPT !.data = segCache[Home(p)].data, !.pc = "answer"])
    /\ UNCHANGED <<stores, caches, admin, history>>

\* ... which it leaves there if it finds none.
SegmentMiss(p) ==
    /\ req[p].pc = "segment"
    /\ segCache' = [segCache EXCEPT ![Home(p)] =
                      [label |-> req[p].label, data |-> req[p].data]]
    /\ Step(p, [req[p] EXCEPT !.pc = "answer"])
    /\ UNCHANGED <<stores, sqlDown, liveCache, bootCache, admin, history>>

\* Mutant of Answer: the last check compares the revision with itself.
AnswerAlways(p) ==
    /\ req[p].pc = "answer"
    /\ Step(p, [IdleRequest EXCEPT !.ai = TRUE])
    /\ UNCHANGED <<stores, caches, admin, history>>

\* dictionary_is_current: the AI's result stands only under the first revision.
Answer(p) ==
    /\ req[p].pc = "answer"
    /\ Step(p, [IdleRequest EXCEPT !.ai = (revision = req[p].revision)])
    /\ UNCHANGED <<stores, caches, admin, history>>

----------------------------------------------------------------------------
(* The environment.                                                         *)

SqlFails == sqlUp /\ sqlUp' = FALSE
            /\ UNCHANGED <<sql, json, revision, syncStatus, lock, caches, admin, req, history>>

SqlRecovers == ~sqlUp /\ sqlUp' = TRUE
               /\ UNCHANGED <<sql, json, revision, syncStatus, lock, caches, admin, req, history>>

\* A worker dies with its caches, its calls and the lock one of them holds.
Crash(k) ==
    /\ sqlDown' = [sqlDown EXCEPT ![k] = FALSE]
    /\ liveCache' = [liveCache EXCEPT ![k] = None]
    /\ bootCache' = [bootCache EXCEPT ![k] = None]
    /\ segCache' = [segCache EXCEPT ![k] = None]
    /\ admin' = [a \in Admins |-> IF admin[a].home = k THEN IdleAdmin ELSE admin[a]]
    /\ req' = [p \in Requests |-> IF req[p].home = k THEN IdleRequest ELSE req[p]]
    /\ lock' = IF lock # None /\ admin[lock].home = k THEN None ELSE lock
    /\ UNCHANGED <<sql, sqlUp, json, revision, syncStatus, history>>

Next ==
    \/ \E a \in Admins, k \in Workers :
          \/ \E e \in Entries, live \in BOOLEAN : Commit(a, k, e, live)
          \/ RetryExport(a, k)
    \/ \E a \in Admins :
          \/ Invalidate(a) \/ Lock(a) \/ LockTimeout(a) \/ Snapshot(a) \/ Export(a)
          \/ ExportFails(a) \/ Publish(a) \/ PublishFails(a)
    \/ Bump
    \/ \E p \in Requests, k \in Workers : Begin(p, k)
    \/ \E p \in Requests :
          \/ LiveHit(p) \/ LiveMiss(p) \/ BootHit(p) \/ BootMiss(p) \/ ReadFile(p)
          \/ ReadSql(p) \/ WithoutSql(p) \/ SqlError(p) \/ CacheData(p)
          \/ Normalize(p) \/ SegmentHit(p) \/ SegmentMiss(p) \/ Answer(p)
    \/ SqlFails \/ SqlRecovers
    \/ \E k \in Workers : Crash(k)

Spec == Init /\ [][Next]_vars

----------------------------------------------------------------------------
\* Data that may be served under revision r: what SQL gave is no older than any
\* change acknowledged by then, the rest no older than what was exported.
Honest(data, r) ==
    \A e \in Entries :
        /\ data[e].n >= exported[r][e]
        /\ data[e].from = "sql" => data[e].n >= acked[r][e]

\* A label never promises more than the data holds: whatever commits, exports,
\* failures and crashes fell between the reads, all cached data and all data a
\* request works with is honest under the revision it is kept under.
LabelsHonest ==
    /\ \A k \in Workers :
          /\ liveCache[k] # None => Honest(liveCache[k].data, liveCache[k].label)
          /\ segCache[k] # None => Honest(segCache[k].data, segCache[k].label)
    /\ \A p \in Requests :
          req[p].pc \in {"cache", "segment", "answer"} => Honest(req[p].data, req[p].label)

\* "synced" is true: the JSON file then holds every acknowledged change, so it
\* can stand in for SQL.
StatusTruthful ==
    syncStatus = "synced" => \A e \in Entries : json[e].n >= acked[revision][e]

\* An older snapshot never replaces a newer export, whatever order concurrent
\* changes commit in ("để tránh bản xuất cũ ghi đè bản mới").
ExportNeverGoesBack ==
    [][\A e \in Entries : json'[e].n >= json[e].n]_vars

\* A result of the AI is delivered only over data that is honest under the
\* revision in force at that moment; a change published since makes it a
\* baseline (dictionary_is_current).
AnswersReflectPublished ==
    [][\A p \in Requests :
           req[p].pc = "answer" /\ req'[p].ai => Honest(req[p].data, revision)]_vars

\* "SQL mới vẫn là nguồn khi SQL sẵn sàng": data loaded while SQL is ready holds
\* every change acknowledged under its label, exported or not.
SqlIsSourceWhenReady ==
    [][\A p \in Requests :
           req[p].pc = "sql" /\ req'[p].pc = "cache" /\ ~sqlDown'[Home(p)] =>
               \A e \in Entries : req'[p].data[e].n >= acked[req[p].label][e]]_vars

\* The same of a segment's result: the request holds data with every
\* acknowledged change, so the result it takes for its text does too.
SegmentsUseTheData ==
    [][\A p \in Requests, e \in Entries :
           /\ req[p].pc = "segment" /\ req'[p].pc = "answer"
           /\ req[p].data[e].n >= acked[req[p].label][e]
           => req'[p].data[e].n >= acked[req[p].label][e]]_vars
=============================================================================
