---------------------------- MODULE WorkspaceProofs ---------------------------
(***************************************************************************)
(* Theorems about Workspace, for any texts, any number of visits of the    *)
(* page and any number of events, and for a login of the same user or of   *)
(* another one.                                                            *)
(***************************************************************************)
EXTENDS Workspace, TLAPS

\* The key of what the page asks for.
PageKey == [text |-> page.text, ai |-> page.ai, dict |-> page.dict]

\* What is shown is of the effect that runs, and that effect is of the page.
AnswersOfRun ==
    /\ shown.version = run.version /\ shown.key = run.key
    /\ page.on => run.key = PageKey

PageSigned == page.on => page.token \in Tokens /\ page.mount >= 1

PageInv == TypeOK /\ PageSigned /\ AnswersOfRun

\* While the stored session is checked there has been no page.
NoPageWhileAsking ==
    boot # "over" => page.mount = 0 /\ ~page.on /\ flights = {} /\ logged = NoRow

\* A visit of the page has at most one request for the history under way.
OneFlight ==
    /\ \A f \in flights : f.mount <= page.mount
    /\ \A f, g \in flights : f.mount = g.mount => f = g
    /\ logged.mount <= page.mount

\* The row written last is not on its way again,
NotAgain ==
    logged.times >= 1 =>
        \A f \in flights :
            f.row # logged.row \/ f.mount # logged.mount \/ UserOf[f.token] # logged.user

\* and the page of its visit and its user remembers it.
LastLogged ==
    page.on /\ logged.times >= 1 /\ logged.mount = page.mount /\ logged.user = UserOf[page.token]
        => page.last = logged.row

\* A page of the new login never sees the old token again.
Forward == page.on /\ page.token = Fresh => token \in {Fresh, None}

\* Until the login is used, all rows were the old token's.
OldFirst ==
    boot = "over" /\ (token = Old \/ (page.on /\ page.token = Old))
        => /\ \A f \in flights : f.token = Old
           /\ logged.times >= 1 => logged.user = UserOf[Old]

HistoryInv ==
    /\ NoPageWhileAsking /\ OneFlight /\ NotAgain /\ LastLogged /\ Forward /\ OldFirst
    /\ RecordedOnce

----------------------------------------------------------------------------
\* The values of every effect, answer and row have their types.
LEMMA Values ==
    /\ MaxEvents \in Nat /\ MaxRev \in Nat
    /\ None \notin Tokens /\ Old \in Tokens /\ Fresh \in Tokens
    /\ 0 \in 0..MaxRev /\ Empty \in Text /\ Texts \subseteq Text
    /\ NoKey \in Key /\ NoRun \in Run /\ NoRow.times = 0 /\ Blank.key = NoKey /\ Blank.version = 0
    /\ NoRun.key = NoKey /\ NoRun.version = 0
    /\ NoSig \notin Signatures /\ NoData \notin Data
    /\ \A t \in Tokens : UserOf[t] \in Users
  BY WorkspaceAssumption DEF Tokens, Text, NoKey, Key, NoRun, Run, NoRow, Blank, NoSig, Signatures,
     NoData, Data, Statuses, None, Users

\* A row the page may save has its type, and is no empty one.
LEMMA SnapshotTyped ==
    ASSUME page.text \in Texts, NEW data \in Data \cup {NoData}
    PROVE  Snapshot(data) \in Signatures
  BY DEF Snapshot, Signatures, Data, NoData, Statuses, None

LEMMA DisplayedTyped ==
    ASSUME TypeOK
    PROVE  Displayed \in Data \cup {NoData}
  BY DEF TypeOK, Displayed

\* The flights after the page was told to save: at most one more, of a row that
\* differs from the last one saved, while none of this page is under way.
LEMMA FlightsAfter ==
    ASSUME TypeOK, PageSigned, page.on, NEW data \in Data \cup {NoData}
    PROVE  \/ Flights(data) = flights
           \/ \E f : /\ Flights(data) = flights \cup {f}
                     /\ f.row \in Signatures /\ f.row # page.last
                     /\ f.token = page.token /\ f.token \in Tokens
                     /\ f.mount = page.mount /\ f.mount \in 1..MaxMounts
                     /\ f.live \in BOOLEAN
                     /\ \A g \in flights : g.mount # page.mount
<1> SUFFICES ASSUME Flights(data) # flights
             PROVE  \E f : /\ Flights(data) = flights \cup {f}
                     /\ f.row \in Signatures /\ f.row # page.last
                     /\ f.token = page.token /\ f.token \in Tokens
                     /\ f.mount = page.mount /\ f.mount \in 1..MaxMounts
                     /\ f.live \in BOOLEAN
                     /\ \A g \in flights : g.mount # page.mount
  OBVIOUS
<1> DEFINE f == [row |-> Snapshot(data), token |-> page.token, mount |-> page.mount,
                 live |-> page.token \in valid, nth |-> Cardinality(flights)]
<1>1. /\ page.text # Empty /\ Snapshot(data) # page.last /\ Waiting = {}
      /\ Flights(data) = flights \cup {f}
  BY DEF Flights
<1>2. page.text \in Texts /\ page.mount \in 1..MaxMounts
  BY <1>1, WorkspaceAssumption DEF TypeOK, Text, PageSigned
<1>3. \A g \in flights : g.mount # page.mount
  BY <1>1 DEF Waiting
<1>4. f.row = Snapshot(data) /\ f.token = page.token /\ f.mount = page.mount /\ f.live \in BOOLEAN
  OBVIOUS
<1> HIDE DEF f
<1>5. QED
  BY <1>1, <1>2, <1>3, <1>4, SnapshotTyped DEF PageSigned

LEMMA StartTyped ==
    ASSUME TypeOK, NEW text \in Text, NEW ai \in BOOLEAN, NEW dict \in 0..MaxRev,
           Start(text, ai, dict)
    PROVE  /\ run' \in Run /\ old' \in Run
           /\ shown' \in [key: Key, version: Nat, data: Data \cup {NoData}, loading: BOOLEAN,
                          syncing: BOOLEAN, error: BOOLEAN]
           /\ ~shown'.syncing
           /\ shown'.version = run'.version /\ shown'.key = run'.key
           /\ run'.key = [text |-> text, ai |-> ai, dict |-> dict]
<1> DEFINE key == [text |-> text, ai |-> ai, dict |-> dict]
           begun == [key |-> key, at |-> IF text = Empty THEN "done" ELSE "typing",
                     version |-> run.version + 1, since |-> 0, live |-> FALSE, data |-> NoData]
<1>1. /\ run' = begun
      /\ shown' = [Blank EXCEPT !.key = key, !.version = begun.version, !.loading = text # Empty]
      /\ old' = IF InFlight(run) THEN run ELSE old
  BY DEF Start
<1>2. key \in Key
  BY DEF Key
<1>3. run \in Run /\ old \in Run
  BY DEF TypeOK
<1> HIDE DEF key
<1>4. begun \in Run
  BY <1>2, <1>3, Values DEF Run
<1> DEFINE loads == text # Empty
<1>5. loads \in BOOLEAN
  OBVIOUS
<1>6. shown' = [key |-> key, version |-> begun.version, data |-> NoData, loading |-> loads,
                syncing |-> FALSE, error |-> FALSE]
  BY <1>1 DEF Blank
<1>7. begun.version \in Nat /\ begun.key = key
  BY <1>3 DEF Run
<1> HIDE DEF begun, loads
<1>8. /\ shown' \in [key: Key, version: Nat, data: Data \cup {NoData}, loading: BOOLEAN,
                     syncing: BOOLEAN, error: BOOLEAN]
      /\ ~shown'.syncing /\ shown'.version = begun.version /\ shown'.key = key
  BY <1>2, <1>5, <1>6, <1>7
<1>9. run' \in Run /\ run'.key = key /\ run'.version = begun.version /\ old' \in Run
  BY <1>1, <1>3, <1>4, <1>7
<1>10. QED
  BY <1>8, <1>9 DEF key

LEMMA StepTyped ==
    ASSUME PageInv, NEW r \in Run, NEW after \in Run, r = run \/ r = old,
           after.version = r.version, after.key = r.key,
           NEW data \in Data \cup {NoData}, NEW syncing \in BOOLEAN, NEW error \in BOOLEAN,
           syncing => data # NoData,
           Step(r, after, Showing(r, data, syncing, error)),
           old.version # run.version \/ r = run
    PROVE  /\ run' \in Run /\ old' \in Run
           /\ shown' \in [key: Key, version: Nat, data: Data \cup {NoData}, loading: BOOLEAN,
                          syncing: BOOLEAN, error: BOOLEAN]
           /\ shown'.syncing => ~shown'.loading /\ shown'.data # NoData
           /\ shown'.version = run'.version /\ shown'.key = run'.key
           /\ run'.key = run.key
<1>1. CASE r.version = run.version
  <2>1. r = run
    BY <1>1
  <2>2. run' = after /\ old' = old /\ shown' = Showing(r, data, syncing, error)
    BY <1>1 DEF Step, Valid
  <2>3. QED
    BY <2>1, <2>2 DEF PageInv, TypeOK, AnswersOfRun, Showing, Run
<1>2. CASE r.version # run.version
  <2>1. run' = run /\ old' = NoRun /\ shown' = shown
    BY <1>2 DEF Step, Valid
  <2>2. QED
    BY <2>1, Values DEF PageInv, TypeOK, AnswersOfRun
<1>3. QED
  BY <1>1, <1>2

----------------------------------------------------------------------------
\* What a step may change besides the page, its answers and its history.
Aside ==
    /\ valid' \subseteq Tokens /\ asked' \subseteq Tokens /\ strays' \subseteq Tokens
    /\ rev' \in 0..MaxRev
    /\ stored' \in Tokens \cup {None} /\ token' \in Tokens \cup {None}
    /\ leaving' \in Tokens \cup {None}
    /\ boot' \in {"asking", "doomed", "over"} /\ at' \in {"login", "workspace", "elsewhere"}
    /\ entry' \in {"idle", "sent", "issued"}
    /\ poll' \in [running: BOOLEAN, sent: BOOLEAN, live: BOOLEAN, since: 0..MaxRev]
    /\ draft' \in [Users -> Text] /\ sig' \in [Users -> Signatures \cup {NoSig}]
    /\ events' \in 0..MaxEvents

LEMMA UnmountAside ==
    ASSUME TypeOK, PageSigned,
           IF page.on THEN Unmount ELSE UNCHANGED <<strays, page, live, poll, flights>>
    PROVE  /\ strays' \subseteq Tokens
           /\ poll' \in [running: BOOLEAN, sent: BOOLEAN, live: BOOLEAN, since: 0..MaxRev]
<1>1. CASE page.on
  <2>1. poll' = NoPoll /\ strays' \subseteq strays \cup {page.token}
    BY <1>1 DEF Unmount
  <2>2. QED
    BY <1>1, <2>1, Values DEF TypeOK, PageSigned, NoPoll
<1>2. CASE ~page.on
  BY <1>2 DEF TypeOK
<1>3. QED
  BY <1>1, <1>2

\* What the user's stored session, its requests and the server do to it.
LEMMA SessionAside ==
    ASSUME TypeOK, PageSigned, Session \/ Publish \/ Poll \/ PollReplies \/ Page
    PROVE  Aside
<1> USE DEF TypeOK, Aside, session, history, live
<1>1. CASE Session
  <2>1. CASE BootAccepts
    BY <2>1, Values DEF BootAccepts
  <2>2. CASE BootRefused
    BY <2>2, Values DEF BootRefused, Unauthorized, ClearSession, ClearAllWorkspaceSessionState
  <2>3. CASE BootForbidden \/ BootFails \/ Login \/ LoginFails
    BY <2>3, Values DEF BootForbidden, BootFails, Login, LoginFails, Event
  <2>4. CASE LoginSucceeds
    BY <2>4, Values DEF LoginSucceeds
  <2>5. CASE Logout
    BY <2>5, Values DEF Logout, Event
  <2>6. CASE LogoutEnds \/ LogoutFails
    BY <2>6, Values DEF LogoutEnds, LogoutFails, Event, ClearSession, ClearAllWorkspaceSessionState
  <2>7. CASE \E t \in Tokens : Revoke(t) \/ StrayEnds(t)
    BY <2>7, Values DEF Revoke, StrayEnds, Event
  <2>8. CASE \E t \in Tokens : StrayRefused(t)
    BY <2>8, Values DEF StrayRefused, Unauthorized, ClearSession, ClearAllWorkspaceSessionState
  <2>9. QED
    BY <1>1, <2>1, <2>2, <2>3, <2>4, <2>5, <2>6, <2>7, <2>8 DEF Session
<1>2. CASE Publish
  BY <1>2, Values DEF Publish, Event
<1>3. CASE Poll
  <2> DEFINE taken == ~Refused(page.token)
  <2>1. taken \in BOOLEAN
    OBVIOUS
  <2>2. poll' = [running |-> TRUE, sent |-> TRUE, live |-> taken, since |-> rev]
    BY <1>3 DEF Poll
  <2> HIDE DEF taken
  <2>3. QED
    BY <1>3, <2>1, <2>2 DEF Poll
<1>4. CASE PollReplies
  <2>1. CASE PollAnswers
    BY <2>1, Values DEF PollAnswers, NoPoll
  <2>2. CASE PollRefused
    BY <2>2, Values DEF PollRefused, NoPoll, Unauthorized, ClearSession, ClearAllWorkspaceSessionState
  <2>3. CASE PollFails
    BY <2>3, Values DEF PollFails, NoPoll, Event
  <2>4. QED
    BY <1>4, <2>1, <2>2, <2>3 DEF PollReplies
<1>5. CASE Page
  <2>1. CASE Mount \/ Ask
    BY <2>1 DEF Mount, Ask
  <2>2. CASE Switch
    BY <2>2, Values DEF Switch, PageSigned, NoPoll
  <2>3. CASE Guard
    <3>1. strays' \subseteq Tokens /\ poll' \in [running: BOOLEAN, sent: BOOLEAN, live: BOOLEAN, since: 0..MaxRev]
      BY <2>3, UnmountAside DEF Guard
    <3>2. QED
      BY <2>3, <3>1 DEF Guard
  <2>4. ASSUME NEW r, Effect(r)
        PROVE  Aside
    <3>1. CASE DatasetAnswers(r) \/ Progress(r) \/ Completes(r)
      <4>1. UNCHANGED <<session, rev, strays, poll, history, events>>
        BY <3>1 DEF DatasetAnswers, Progress, Completes, Step
      <4>2. QED
        BY <4>1
    <3>2. CASE Fails(r)
      BY <3>2, Values DEF Fails, Step, Event
    <3>3. CASE LiveRefused(r)
      BY <3>3, Values DEF LiveRefused, Unauthorized, ClearSession, ClearAllWorkspaceSessionState
    <3>4. QED
      BY <2>4, <3>1, <3>2, <3>3 DEF Effect
  <2>5. CASE \E to \in {"login", "workspace", "elsewhere"} : Navigate(to)
    <3>1. PICK to \in {"login", "workspace", "elsewhere"} : Navigate(to)
      BY <2>5
    <3>2. strays' \subseteq Tokens /\ poll' \in [running: BOOLEAN, sent: BOOLEAN, live: BOOLEAN, since: 0..MaxRev]
      BY <3>1, UnmountAside DEF Navigate
    <3>3. QED
      BY <3>1, <3>2, Values DEF Navigate, Event
  <2>6. ASSUME NEW text \in Text, NEW ai \in BOOLEAN, Type(text, ai)
        PROVE  Aside
    <3>1. UserOf[page.token] \in Users
      BY <2>6, Values DEF Type, PageSigned
    <3>2. draft' \in [Users -> Text]
      BY <2>6, <3>1 DEF Type, KeepDraft
    <3>3. sig' \in [Users -> Signatures \cup {NoSig}]
      BY <2>6, <3>1 DEF Type, Remember
    <3>4. QED
      BY <2>6, <3>2, <3>3, Values DEF Type, Event
  <2>7. CASE Consent \/ Flush
    BY <2>7, Values DEF Consent, Flush, Event
  <2>8. ASSUME NEW f \in flights, FlushSaved(f) \/ FlushRefused(f) \/ FlushFails(f)
        PROVE  Aside
    <3>1. CASE FlushSaved(f)
      <4>1. f.row \in Signatures /\ sig' = [sig EXCEPT ![UserOf[f.token]] = f.row]
        BY <3>1 DEF FlushSaved, Remember
      <4>2. sig' \in [Users -> Signatures \cup {NoSig}]
        BY <4>1
      <4>3. QED
        BY <3>1, <4>2 DEF FlushSaved
    <3>2. CASE FlushRefused(f)
      BY <3>2, Values DEF FlushRefused, Unauthorized, ClearSession, ClearAllWorkspaceSessionState
    <3>3. CASE FlushFails(f)
      BY <3>3, Values DEF FlushFails, Event
    <3>4. QED
      BY <2>8, <3>1, <3>2, <3>3
  <2>9. QED
    BY <1>5, <2>1, <2>2, <2>3, <2>4, <2>5, <2>6, <2>7, <2>8 DEF Page
<1>6. QED
  BY <1>1, <1>2, <1>3, <1>4, <1>5

----------------------------------------------------------------------------
Pages == [on: BOOLEAN, mount: 0..MaxMounts, token: Tokens \cup {None}, text: Text,
          ai: BOOLEAN, dict: 0..MaxRev, last: Signatures \cup {NoSig}]
Shown == [key: Key, version: Nat, data: Data \cup {NoData}, loading: BOOLEAN,
          syncing: BOOLEAN, error: BOOLEAN]

\* The page and its answer after a step.
PageAfter ==
    /\ page' \in Pages /\ run' \in Run /\ old' \in Run /\ shown' \in Shown
    /\ shown'.syncing => ~shown'.loading /\ shown'.data # NoData
    /\ PageSigned' /\ AnswersOfRun'

\* A step that leaves the page and its answer alone.
LEMMA PageStays ==
    ASSUME PageInv, UNCHANGED <<page, live>>
    PROVE  PageAfter
  BY DEF PageInv, PageAfter, TypeOK, Pages, Shown, PageSigned, AnswersOfRun, PageKey, live

\* One whose page asks anew, for what it now holds.
LEMMA PageStarts ==
    ASSUME PageInv, page' \in Pages, PageSigned', Start(page'.text, page'.ai, page'.dict)
    PROVE  PageAfter
  BY StartTyped DEF PageInv, PageAfter, Pages, Shown, PageSigned, AnswersOfRun, PageKey

\* One that takes the page down.
LEMMA PageLeft ==
    ASSUME PageInv, IF page.on THEN Unmount ELSE UNCHANGED <<strays, page, live, poll, flights>>
    PROVE  PageAfter
<1>1. CASE page.on
  <2>1. /\ page' = [NoPage EXCEPT !.mount = page.mount]
        /\ run' = NoRun /\ old' = NoRun /\ shown' = Blank
    BY <1>1 DEF Unmount
  <2>2. page' \in Pages /\ ~page'.on
    BY <2>1, Values DEF PageInv, TypeOK, NoPage, Pages
  <2>3. shown' \in Shown /\ ~shown'.syncing
    BY <2>1, Values DEF Blank, Shown
  <2>4. QED
    BY <2>1, <2>2, <2>3, Values DEF PageAfter, PageSigned, AnswersOfRun
<1>2. CASE ~page.on
  BY <1>2, PageStays
<1>3. QED
  BY <1>1, <1>2

\* An effect's reply.
LEMMA EffectKeeps ==
    ASSUME PageInv, NEW r, r = run \/ (r = old /\ old.version # run.version), Effect(r)
    PROVE  PageAfter
<1>1. r \in Run /\ page' = page
  BY DEF PageInv, TypeOK, Effect, DatasetAnswers, Progress, Completes, Fails, LiveRefused, Step
<1>2. ASSUME NEW after \in Run, after.version = r.version, after.key = r.key,
             NEW data \in Data \cup {NoData}, NEW syncing \in BOOLEAN, NEW error \in BOOLEAN,
             syncing => data # NoData,
             Step(r, after, Showing(r, data, syncing, error))
      PROVE  PageAfter
  <2>1. /\ run' \in Run /\ old' \in Run /\ shown' \in Shown
        /\ shown'.syncing => ~shown'.loading /\ shown'.data # NoData
        /\ shown'.version = run'.version /\ shown'.key = run'.key /\ run'.key = run.key
    BY <1>1, <1>2, StepTyped DEF Shown
  <2>2. QED
    BY <1>1, <2>1 DEF PageAfter, PageInv, PageSigned, AnswersOfRun, PageKey, TypeOK, Pages
<1>3. ASSUME NEW v \in Served(r)
      PROVE  v \in 0..MaxRev
  BY <1>1, <1>3, Values DEF Served, Run, PageInv, TypeOK
<1>4. r.key.ai \in BOOLEAN
  BY <1>1 DEF Run, Key
<1>5. CASE DatasetAnswers(r)
  <2>1. PICK v \in Served(r) :
          LET data == [rev |-> v, status |-> IF r.key.ai THEN "pending" ELSE "rules"] IN
          Step(r, [r EXCEPT !.at = IF r.key.ai THEN "idle" ELSE "done", !.data = data],
                  Showing(r, data, r.key.ai, FALSE))
    BY <1>5 DEF DatasetAnswers
  <2> DEFINE data == [rev |-> v, status |-> IF r.key.ai THEN "pending" ELSE "rules"]
             after == [r EXCEPT !.at = IF r.key.ai THEN "idle" ELSE "done", !.data = data]
  <2>2. data \in Data
    BY <1>3, <1>4 DEF Data, Statuses
  <2>3. Step(r, after, Showing(r, data, r.key.ai, FALSE))
    BY <2>1
  <2> HIDE DEF data
  <2>4. after \in Run /\ after.version = r.version /\ after.key = r.key
    BY <1>1, <2>2 DEF Run
  <2> HIDE DEF after
  <2>5. QED
    BY <1>2, <1>4, <2>2, <2>3, <2>4, Values
<1>6. CASE Progress(r)
  <2>1. PICK v \in Served(r) :
          LET data == [rev |-> v, status |-> "partial"] IN
          Step(r, [r EXCEPT !.data = data], Showing(r, data, TRUE, FALSE))
    BY <1>6 DEF Progress
  <2> DEFINE data == [rev |-> v, status |-> "partial"]
             after == [r EXCEPT !.data = data]
  <2>2. data \in Data
    BY <1>3 DEF Data, Statuses
  <2>3. Step(r, after, Showing(r, data, TRUE, FALSE))
    BY <2>1
  <2> HIDE DEF data
  <2>4. after \in Run /\ after.version = r.version /\ after.key = r.key
    BY <1>1, <2>2 DEF Run
  <2> HIDE DEF after
  <2>5. QED
    BY <1>2, <2>2, <2>3, <2>4, Values
<1> DEFINE over == [r EXCEPT !.at = "done", !.data = NoData]
<1>7. over \in Run /\ over.version = r.version /\ over.key = r.key
  BY <1>1 DEF Run
<1>8. Kept(r) \in Data \cup {NoData}
  BY <1>1 DEF Kept, Run, Data, Statuses
<1>9. CASE Completes(r)
  <2>1. PICK v \in Served(r), status \in {"verified", "open"} :
          Step(r, over, Showing(r, [rev |-> v, status |-> status], FALSE, FALSE))
    BY <1>9 DEF Completes
  <2> DEFINE data == [rev |-> v, status |-> status]
  <2>2. data \in Data
    BY <1>3 DEF Data, Statuses
  <2> HIDE DEF data, over
  <2>3. Step(r, over, Showing(r, data, FALSE, FALSE))
    BY <2>1 DEF data
  <2>4. QED
    BY <1>2, <1>7, <2>2, <2>3
<1>10. CASE Fails(r)
  <2>1. Step(r, over, Showing(r, Kept(r), FALSE, TRUE))
    BY <1>10 DEF Fails
  <2> HIDE DEF over
  <2>2. QED
    BY <1>2, <1>7, <1>8, <2>1
<1>11. CASE LiveRefused(r)
  <2>1. CASE r.version = run.version
    <3>1. r = run
      BY <2>1
    <3>2. run' = over /\ old' = old /\ shown' = Showing(run, Kept(run), FALSE, TRUE)
      BY <1>11, <2>1, <3>1 DEF LiveRefused
    <3> HIDE DEF over
    <3>3. shown' \in Shown /\ ~shown'.syncing /\ shown'.version = run.version /\ shown'.key = run.key
      BY <1>1, <1>8, <3>1, <3>2 DEF Showing, Shown, Run
    <3>4. QED
      BY <1>1, <1>7, <3>1, <3>2, <3>3
      DEF PageAfter, PageInv, PageSigned, AnswersOfRun, PageKey, TypeOK, Pages
  <2>2. CASE r.version # run.version
    <3>1. old' = NoRun /\ run' = run /\ shown' = shown
      BY <1>11, <2>2 DEF LiveRefused
    <3>2. QED
      BY <1>1, <3>1, Values
      DEF PageAfter, PageInv, PageSigned, AnswersOfRun, PageKey, TypeOK, Pages, Shown
  <2>3. QED
    BY <2>1, <2>2
<1>12. QED
  BY <1>5, <1>6, <1>9, <1>10, <1>11 DEF Effect

\* What typing does to the page: its record of the last row stays or is dropped.
LEMMA TypeWrites ==
    ASSUME PageInv, NEW text \in Text, NEW ai \in BOOLEAN, Type(text, ai)
    PROVE  /\ page.on /\ Start(text, ai, page.dict)
           /\ page'.on = page.on /\ page'.mount = page.mount /\ page'.token = page.token
           /\ \E last \in {page.last, NoSig} :
                  page' = [page EXCEPT !.text = text, !.ai = ai, !.last = last]
<1>1. CASE text = Empty
  <2>1. page' = [page EXCEPT !.text = text, !.ai = ai, !.last = NoSig]
    BY <1>1 DEF Type
  <2>2. page'.on = page.on /\ page'.mount = page.mount /\ page'.token = page.token
    BY <2>1 DEF PageInv, TypeOK
  <2>3. QED
    BY <2>1, <2>2 DEF Type
<1>2. CASE text # Empty
  <2>1. page' = [page EXCEPT !.text = text, !.ai = ai]
    BY <1>2 DEF Type
  <2>2. page' = [page EXCEPT !.text = text, !.ai = ai, !.last = page.last]
    BY <2>1 DEF PageInv, TypeOK
  <2>3. page'.on = page.on /\ page'.mount = page.mount /\ page'.token = page.token
    BY <2>1 DEF PageInv, TypeOK
  <2>4. QED
    BY <2>2, <2>3 DEF Type
<1>3. QED
  BY <1>1, <1>2

\* Every step leaves the page and what it shows typed, and of one effect.
LEMMA StepsKeepPage ==
    ASSUME PageInv, Session \/ Publish \/ Poll \/ PollReplies \/ Page
    PROVE  PageAfter
<1>1. CASE Session \/ Publish \/ Poll
  <2>1. UNCHANGED <<page, live>>
    BY <1>1 DEF Session, BootAccepts, BootRefused, BootForbidden, BootFails, Login,
       LoginSucceeds, LoginFails, Logout, LogoutEnds, LogoutFails, Revoke, StrayRefused, StrayEnds, Publish, Poll
  <2>2. QED
    BY <2>1, PageStays
<1>2. CASE PollReplies
  <2>1. CASE PollAnswers
    <3>1. PICK v \in poll.since..rev :
            /\ page' = [page EXCEPT !.dict = v]
            /\ IF v = page.dict THEN UNCHANGED live ELSE Start(page.text, page.ai, v)
      BY <2>1 DEF PollAnswers
    <3>2. page' \in Pages /\ PageSigned'
      BY <3>1, Values DEF PageInv, TypeOK, Pages, PageSigned
    <3>3. CASE v = page.dict
      <4>1. page' = page /\ UNCHANGED live
        BY <3>1, <3>3 DEF PageInv, TypeOK
      <4>2. QED
        BY <4>1, PageStays
    <3>4. CASE v # page.dict
      <4>1. Start(page'.text, page'.ai, page'.dict)
        BY <3>1, <3>4 DEF PageInv, TypeOK
      <4>2. QED
        BY <3>2, <4>1, PageStarts
    <3>5. QED
      BY <3>3, <3>4
  <2>2. CASE PollRefused \/ PollFails
    BY <2>2, PageStays DEF PollRefused, PollFails
  <2>3. QED
    BY <1>2, <2>1, <2>2 DEF PollReplies
<1>3. CASE Page
  <2>1. CASE Mount
    <3> DEFINE user == UserOf[token]
    <3>1. user \in Users /\ token \in Tokens
      BY <2>1, Values DEF Mount, PageInv, TypeOK
    <3>2. /\ page' = [on |-> TRUE, mount |-> page.mount + 1, token |-> token,
                      text |-> draft[user], ai |-> FALSE, dict |-> 0, last |-> sig[user]]
          /\ Start(draft[user], FALSE, 0) /\ page.mount < MaxMounts
      BY <2>1 DEF Mount
    <3>3. draft[user] \in Text /\ sig[user] \in Signatures \cup {NoSig} /\ page.mount + 1 \in 1..MaxMounts
      BY <3>1, <3>2, WorkspaceAssumption DEF PageInv, TypeOK
    <3> HIDE DEF user
    <3>4. page' \in Pages /\ PageSigned'
      BY <3>1, <3>2, <3>3, Values DEF Pages, PageSigned
    <3>5. QED
      BY <3>2, <3>4, PageStarts
  <2>2. CASE Switch
    <3> DEFINE same == UserOf[token] = UserOf[page.token]
               text == IF same THEN page.text ELSE draft[UserOf[token]]
    <3>1. token \in Tokens /\ UserOf[token] \in Users /\ page.on
      BY <2>2, Values DEF Switch, PageInv, TypeOK
    <3>2. /\ page' = [page EXCEPT !.token = token, !.text = text,
                                  !.last = IF same THEN @ ELSE sig[UserOf[token]]]
          /\ Start(text, page.ai, page.dict)
      BY <2>2 DEF Switch
    <3>3. text \in Text
      BY <3>1 DEF PageInv, TypeOK
    <3> HIDE DEF text
    <3>4. page' \in Pages /\ PageSigned' /\ page'.text = text /\ page'.ai = page.ai /\ page'.dict = page.dict
      BY <3>1, <3>2, <3>3 DEF PageInv, TypeOK, Pages, PageSigned
    <3>5. QED
      BY <3>2, <3>4, PageStarts
  <2>3. CASE Guard \/ \E to \in {"login", "workspace", "elsewhere"} : Navigate(to)
    BY <2>3, PageLeft DEF Guard, Navigate
  <2>4. CASE Ask
    <3> DEFINE served == page.token \in valid
               step == IF run.at = "typing" THEN "dataset" ELSE "ai"
    <3>1. /\ run' = [run EXCEPT !.at = step, !.since = rev, !.live = served]
          /\ page' = page /\ old' = old /\ shown' = shown
      BY <2>4 DEF Ask
    <3>2. served \in BOOLEAN /\ step \in {"dataset", "ai"}
      OBVIOUS
    <3> HIDE DEF served, step
    <3>3. run' \in Run /\ run'.version = run.version /\ run'.key = run.key
      BY <3>1, <3>2 DEF PageInv, TypeOK, Run
    <3>4. QED
      BY <3>1, <3>3 DEF PageAfter, PageInv, TypeOK, Pages, Shown, PageSigned, AnswersOfRun, PageKey
  <2>5. CASE Effect(run) \/ (old.version # run.version /\ Effect(old))
    BY <2>5, EffectKeeps
  <2>6. ASSUME NEW text \in Text, NEW ai \in BOOLEAN, Type(text, ai)
        PROVE  PageAfter
    <3>1. /\ \E last \in {page.last, NoSig} :
                page' = [page EXCEPT !.text = text, !.ai = ai, !.last = last]
          /\ Start(text, ai, page.dict)
      BY <2>6, TypeWrites
    <3>2. /\ page' \in Pages /\ PageSigned'
          /\ page'.text = text /\ page'.ai = ai /\ page'.dict = page.dict
      BY <3>1 DEF PageInv, TypeOK, Pages, PageSigned
    <3>3. QED
      BY <3>1, <3>2, PageStarts
  <2>7. CASE Consent
    <3>1. page' = [page EXCEPT !.ai = ~@] /\ Start(page.text, ~page.ai, page.dict)
      BY <2>7 DEF Consent
    <3>2. /\ page' \in Pages /\ PageSigned'
          /\ page'.text = page.text /\ page'.ai = ~page.ai /\ page'.dict = page.dict
      BY <3>1 DEF PageInv, TypeOK, Pages, PageSigned
    <3>3. QED
      BY <3>1, <3>2, PageStarts
  <2>8. CASE Flush
    BY <2>8, PageStays DEF Flush
  <2>9. ASSUME NEW f \in flights, FlushSaved(f) \/ FlushRefused(f) \/ FlushFails(f)
        PROVE  PageAfter
    <3>1. CASE FlushSaved(f)
      <4>1. UNCHANGED live /\ page' \in {page, [page EXCEPT !.last = f.row]}
        BY <3>1 DEF FlushSaved
      <4>2. f.row \in Signatures
        BY DEF PageInv, TypeOK
      <4>3. /\ page' \in Pages
            /\ page'.on = page.on /\ page'.token = page.token /\ page'.mount = page.mount
            /\ PageKey' = PageKey
        BY <4>1, <4>2 DEF PageInv, TypeOK, Pages, PageKey
      <4>4. QED
        BY <4>1, <4>3 DEF PageAfter, PageInv, TypeOK, Shown, PageSigned, AnswersOfRun, live
    <3>2. CASE FlushRefused(f) \/ FlushFails(f)
      BY <3>2, PageStays DEF FlushRefused, FlushFails
    <3>3. QED
      BY <2>9, <3>1, <3>2
  <2>10. QED
    BY <1>3, <2>1, <2>2, <2>3, <2>4, <2>5, <2>6, <2>7, <2>8, <2>9 DEF Page
<1>4. QED
  BY <1>1, <1>2, <1>3

----------------------------------------------------------------------------
\* The requests for the history and the row written last, typed.
FlightsTyped ==
    /\ \A f \in flights : /\ f.row \in Signatures /\ f.token \in Tokens
                          /\ f.mount \in 1..MaxMounts /\ f.live \in BOOLEAN
    /\ logged \in [row: Signatures \cup {NoSig}, mount: 0..MaxMounts, user: Users \cup {None},
                   times: Nat]

LEMMA NoRowTyped ==
    NoRow \in [row: Signatures \cup {NoSig}, mount: 0..MaxMounts, user: Users \cup {None}, times: Nat]
  BY WorkspaceAssumption DEF NoRow

LEMMA FlightsKeepTypes ==
    ASSUME PageInv, Session \/ Publish \/ Poll \/ PollReplies \/ Page
    PROVE  FlightsTyped'
<1>0. FlightsTyped
  BY DEF PageInv, TypeOK, FlightsTyped
<1>1. CASE flights' \subseteq flights /\ logged' = logged
  BY <1>0, <1>1 DEF FlightsTyped
<1>2. ASSUME page.on, NEW data \in Data \cup {NoData}, flights' = Flights(data), logged' \in {logged, NoRow}
      PROVE  FlightsTyped'
  BY <1>0, <1>2, FlightsAfter, NoRowTyped DEF FlightsTyped, PageInv
<1>3. CASE Session
  BY <1>1, <1>2, <1>3, DisplayedTyped
  DEF Session, BootAccepts, BootRefused, BootForbidden, BootFails, Login, LoginSucceeds,
      LoginFails, Logout, LogoutEnds, LogoutFails, Revoke, StrayRefused, StrayEnds, history, PageInv
<1>4. CASE Publish \/ Poll \/ PollReplies
  BY <1>1, <1>4 DEF Publish, Poll, PollReplies, PollAnswers, PollRefused, PollFails, history
<1>5. CASE Page
  <2>1. CASE Mount \/ Ask \/ Consent
    BY <1>1, <2>1 DEF Mount, Ask, Consent, history
  <2>2. ASSUME NEW r, Effect(r)
        PROVE  FlightsTyped'
    BY <1>1, <2>2
    DEF Effect, DatasetAnswers, Progress, Completes, Fails, LiveRefused, Step, history
  <2>3. CASE Switch \/ Flush
    BY <1>2, <2>3, DisplayedTyped DEF Switch, Flush, PageInv
  <2>4. ASSUME logged' = logged,
               IF page.on THEN Unmount ELSE UNCHANGED <<strays, page, live, poll, flights>>
        PROVE  FlightsTyped'
    BY <1>1, <1>2, <2>4, DisplayedTyped DEF Unmount, PageInv
  <2>5. CASE Guard \/ \E to \in {"login", "workspace", "elsewhere"} : Navigate(to)
    BY <2>4, <2>5 DEF Guard, Navigate
  <2>6. ASSUME NEW text \in Text, NEW ai \in BOOLEAN, Type(text, ai)
        PROVE  FlightsTyped'
    BY <1>1, <1>2, <2>6 DEF Type
  <2>7. ASSUME NEW f \in flights, FlushSaved(f)
        PROVE  FlightsTyped'
    <3>1. /\ flights' = flights \ {f} /\ f.row \in Signatures /\ f.mount \in 1..MaxMounts
          /\ UserOf[f.token] \in Users
      BY <1>0, <2>7, Values DEF FlushSaved, FlightsTyped
    <3>2. \E n \in Nat : logged' = [row |-> f.row, mount |-> f.mount, user |-> UserOf[f.token], times |-> n]
      BY <1>0, <2>7 DEF FlushSaved, Written, FlightsTyped
    <3>3. QED
      BY <1>0, <3>1, <3>2 DEF FlightsTyped
  <2>8. ASSUME NEW f \in flights, FlushRefused(f) \/ FlushFails(f)
        PROVE  FlightsTyped'
    BY <1>0, <2>8, NoRowTyped DEF FlushRefused, FlushFails, FlightsTyped
  <2>9. QED
    BY <1>5, <2>1, <2>2, <2>3, <2>5, <2>6, <2>7, <2>8 DEF Page
<1>6. QED
  BY <1>3, <1>4, <1>5

----------------------------------------------------------------------------
\* Types, and what is shown, hold in every reachable state.
LEMMA PageInvHolds == Spec => []PageInv
<1>1. Init => PageInv
  <2> SUFFICES ASSUME Init PROVE PageInv
    OBVIOUS
  <2>1. page \in Pages /\ ~page.on /\ shown \in Shown /\ ~shown.syncing
    BY Values, WorkspaceAssumption DEF Init, NoPage, Pages, Blank, Shown
  <2>2. FlightsTyped
    BY NoRowTyped DEF Init, FlightsTyped
  <2>3. poll \in [running: BOOLEAN, sent: BOOLEAN, live: BOOLEAN, since: 0..MaxRev]
    BY Values DEF Init, NoPoll
  <2>4. TypeOK
    BY <2>1, <2>2, <2>3, Values DEF Init, TypeOK, Pages, Shown, FlightsTyped
  <2>5. PageSigned /\ AnswersOfRun
    BY <2>1, Values DEF Init, PageSigned, AnswersOfRun
  <2>6. QED
    BY <2>4, <2>5 DEF PageInv
<1>2. PageInv /\ [Next]_vars => PageInv'
  <2> SUFFICES ASSUME PageInv, [Next]_vars PROVE PageInv'
    OBVIOUS
  <2>1. CASE Next
    <3>1. Session \/ Publish \/ Poll \/ PollReplies \/ Page
      BY <2>1 DEF Next
    <3>2. Aside
      BY <3>1, SessionAside DEF PageInv
    <3>3. PageAfter /\ FlightsTyped'
      BY <3>1, StepsKeepPage, FlightsKeepTypes
    <3>4. QED
      BY <3>2, <3>3 DEF PageInv, TypeOK, Aside, PageAfter, FlightsTyped, Pages, Shown
  <2>2. CASE UNCHANGED vars
    BY <2>2 DEF vars, session, live, history, PageInv, TypeOK, PageSigned, AnswersOfRun, PageKey
  <2>3. QED
    BY <2>1, <2>2
<1>3. QED
  BY <1>1, <1>2, PTL DEF Spec

----------------------------------------------------------------------------
\* A step that saves nothing, and keeps the page up and of its token.
Quiet ==
    /\ page'.on = page.on /\ page'.mount = page.mount /\ page'.token = page.token
    /\ page'.last = page.last
    /\ flights' \subseteq flights /\ logged' = logged
    /\ boot' = boot \/ boot' = "over"
    /\ token' \in {token, None, Fresh} \/ (boot # "over" /\ token' = Old)

LEMMA QuietKeeps ==
    ASSUME PageInv, HistoryInv, Quiet
    PROVE  HistoryInv'
<1> USE DEF HistoryInv, Quiet
<1>1. NoPageWhileAsking'
  BY DEF NoPageWhileAsking
<1>2. OneFlight' /\ NotAgain' /\ LastLogged' /\ RecordedOnce'
  BY DEF OneFlight, NotAgain, LastLogged, RecordedOnce
<1>3. Forward'
  BY DEF Forward, NoPageWhileAsking
<1>4. OldFirst'
  <2>1. CASE boot = "over"
    BY <2>1, Values, WorkspaceAssumption DEF OldFirst, Tokens
  <2>2. CASE boot # "over"
    BY <2>2, Values DEF NoPageWhileAsking, OldFirst
  <2>3. QED
    BY <2>1, <2>2
<1>5. QED
  BY <1>1, <1>2, <1>3, <1>4

\* A step that saves, as the page goes, stays, or gets another token.
LEMMA SavesKeep ==
    ASSUME PageInv, HistoryInv, page.on, NEW data \in Data \cup {NoData},
           flights' = Flights(data), logged' = logged, boot' = boot, token' = token,
           page'.mount = page.mount,
           \/ ~page'.on
           \/ page'.on /\ page'.token = page.token /\ page'.last = page.last
           \/ /\ page'.on /\ page'.token = token /\ token \in Tokens \ {page.token}
              /\ UserOf[token] = UserOf[page.token] => page'.last = page.last
    PROVE  HistoryInv'
<1> USE DEF HistoryInv
<1>1. boot = "over"
  BY DEF NoPageWhileAsking
<1>2. NoPageWhileAsking' /\ RecordedOnce'
  BY <1>1 DEF NoPageWhileAsking, RecordedOnce
<1>3. \/ flights' = flights
      \/ \E f : /\ flights' = flights \cup {f}
                /\ f.row \in Signatures /\ f.row # page.last
                /\ f.token = page.token /\ f.token \in Tokens
                /\ f.mount = page.mount /\ f.mount \in 1..MaxMounts
                /\ \A g \in flights : g.mount # page.mount
  BY FlightsAfter DEF PageInv
<1>4. OneFlight'
  BY <1>3 DEF OneFlight
<1>5. NotAgain'
  BY <1>3 DEF NotAgain, LastLogged
<1>6. \A f \in flights' : f \in flights \/ f.token = page.token
  BY <1>3
<1>7. CASE ~page'.on
  <2>1. LastLogged' /\ Forward'
    BY <1>7 DEF LastLogged, Forward
  <2>2. OldFirst'
    BY <1>1, <1>6, <1>7, Values DEF OldFirst, Forward, PageInv, PageSigned, Tokens
  <2>3. QED
    BY <1>2, <1>4, <1>5, <2>1, <2>2
<1>8. CASE page'.on /\ page'.token = page.token /\ page'.last = page.last
  <2>1. LastLogged' /\ Forward'
    BY <1>8 DEF LastLogged, Forward
  <2>2. OldFirst'
    BY <1>1, <1>6, <1>8, Values DEF OldFirst, Forward, PageInv, PageSigned, Tokens
  <2>3. QED
    BY <1>2, <1>4, <1>5, <2>1, <2>2
<1>9. CASE /\ page'.on /\ page'.token = token /\ token \in Tokens \ {page.token}
           /\ UserOf[token] = UserOf[page.token] => page'.last = page.last
  <2>1. token = Fresh /\ page.token = Old
    BY <1>9, Values DEF Forward, Tokens, PageInv, PageSigned
  <2>2. logged.times >= 1 => logged.user = UserOf[Old]
    BY <1>1, <2>1 DEF OldFirst
  <2>3. LastLogged'
    BY <1>9, <2>1, <2>2 DEF LastLogged
  <2>4. Forward' /\ OldFirst'
    BY <1>9, <2>1, WorkspaceAssumption DEF Forward, OldFirst
  <2>5. QED
    BY <1>2, <1>4, <1>5, <2>3, <2>4
<1>10. QED
  BY <1>7, <1>8, <1>9

\* A row is written: its request was the only one of its visit.
LEMMA SavedKeeps ==
    ASSUME PageInv, HistoryInv, NEW f \in flights, FlushSaved(f)
    PROVE  HistoryInv'
<1> USE DEF HistoryInv
<1>1. /\ flights' = flights \ {f} /\ boot' = boot /\ token' = token
      /\ page' = IF f.mount = page.mount THEN [page EXCEPT !.last = f.row] ELSE page
      /\ logged' = [row |-> f.row, mount |-> f.mount, user |-> UserOf[f.token],
                    times |-> IF logged.row = f.row /\ logged.mount = f.mount /\ logged.user = UserOf[f.token]
                              THEN logged.times + 1 ELSE 1]
  BY DEF FlushSaved, Written, session
<1>2. /\ page'.on = page.on /\ page'.mount = page.mount /\ page'.token = page.token
      /\ f.mount = page.mount => page'.last = f.row
  BY <1>1 DEF PageInv, TypeOK
<1>3. ~(logged.times >= 1 /\ logged.row = f.row /\ logged.mount = f.mount /\ logged.user = UserOf[f.token])
  BY DEF NotAgain
<1>4. logged.times \in Nat
  BY DEF PageInv, TypeOK
<1>5. /\ logged'.row = f.row /\ logged'.mount = f.mount /\ logged'.user = UserOf[f.token]
      /\ logged'.times = 1
  BY <1>1, <1>3, <1>4
<1>6. RecordedOnce'
  BY <1>5 DEF RecordedOnce
<1>7. NoPageWhileAsking'
  BY <1>1 DEF NoPageWhileAsking
<1>8. OneFlight' /\ NotAgain'
  BY <1>1, <1>2, <1>5 DEF OneFlight, NotAgain
<1>9. LastLogged' /\ Forward'
  BY <1>1, <1>2, <1>5 DEF LastLogged, Forward
<1>10. OldFirst'
  BY <1>1, <1>2, <1>5 DEF OldFirst
<1>11. QED
  BY <1>6, <1>7, <1>8, <1>9, <1>10

\* The last row is forgotten, as a request is lost or the editor is cleared.
LEMMA ForgetKeeps ==
    ASSUME PageInv, HistoryInv, logged' = NoRow, boot' = boot, token' = token,
           page'.on = page.on, page'.mount = page.mount, page'.token = page.token,
           \/ flights' \subseteq flights
           \/ page.on /\ \E data \in Data \cup {NoData} : flights' = Flights(data)
    PROVE  HistoryInv'
<1> USE DEF HistoryInv
<1>1. logged'.times = 0 /\ logged'.mount = 0
  BY DEF NoRow
<1>2. \/ flights' \subseteq flights
      \/ page.on /\ \E f : /\ flights' = flights \cup {f}
                /\ f.token = page.token /\ f.mount = page.mount
                /\ \A g \in flights : g.mount # page.mount
  BY FlightsAfter DEF PageInv
<1>3. page.mount \in Nat
  BY WorkspaceAssumption DEF PageInv, TypeOK
<1>4. NoPageWhileAsking'
  BY <1>2 DEF NoPageWhileAsking
<1>5. OneFlight'
  BY <1>1, <1>2, <1>3 DEF OneFlight
<1>6. NotAgain' /\ LastLogged' /\ RecordedOnce' /\ Forward'
  BY <1>1 DEF NotAgain, LastLogged, RecordedOnce, Forward
<1>7. OldFirst'
  BY <1>1, <1>2, Values DEF OldFirst, Forward, PageInv, PageSigned, Tokens
<1>8. QED
  BY <1>4, <1>5, <1>6, <1>7

LEMMA HistoryInvHolds == Spec => []HistoryInv
<1>1. Init => HistoryInv
  BY WorkspaceAssumption DEF Init, HistoryInv, NoPageWhileAsking, OneFlight, NotAgain, LastLogged, Forward,
     OldFirst, RecordedOnce, NoPage, NoRow
<1>2. PageInv /\ HistoryInv /\ [Next]_vars => HistoryInv'
  <2> SUFFICES ASSUME PageInv, HistoryInv, [Next]_vars PROVE HistoryInv'
    OBVIOUS
  <2> USE DEF session, live, history
  <2>1. CASE UNCHANGED vars
    BY <2>1 DEF vars, HistoryInv, NoPageWhileAsking, OneFlight, NotAgain, LastLogged, Forward,
       OldFirst, RecordedOnce
  <2>2. CASE Session
    <3>1. CASE Logout
      <4>1. CASE page.on
        BY <3>1, <4>1, SavesKeep, DisplayedTyped DEF Logout, PageInv
      <4>2. CASE ~page.on
        BY <3>1, <4>2, QuietKeeps DEF Logout, Quiet
      <4>3. QED
        BY <4>1, <4>2
    <3>2. CASE ~Logout
      <4>1. Quiet
        BY <2>2, <3>2
        DEF Session, Quiet, BootAccepts, BootRefused, BootForbidden, BootFails, Login,
            LoginSucceeds, LoginFails, LogoutEnds, LogoutFails, Revoke, StrayRefused, StrayEnds, Unauthorized, ClearSession
      <4>2. QED
        BY <4>1, QuietKeeps
    <3>3. QED
      BY <3>1, <3>2
  <2>3. CASE Publish \/ Poll \/ PollReplies
    <3>1. Quiet
      BY <2>3
      DEF Quiet, Publish, Poll, PollReplies, PollAnswers, PollRefused, PollFails, Unauthorized,
          ClearSession, PageInv, TypeOK
    <3>2. QED
      BY <3>1, QuietKeeps
  <2>4. CASE Page
    <3>1. CASE Mount
      <4>1. /\ boot = "over" /\ boot' = boot /\ token' = token /\ token # None /\ ~page.on
            /\ page'.on /\ page'.mount = page.mount + 1 /\ page'.token = token
            /\ flights' = flights /\ logged' = logged
        BY <3>1 DEF Mount
      <4>2. page.mount \in Nat /\ logged.mount \in Nat /\ \A f \in flights : f.mount \in Nat
        BY WorkspaceAssumption DEF PageInv, TypeOK
      <4>3. NoPageWhileAsking' /\ NotAgain' /\ RecordedOnce'
        BY <4>1 DEF HistoryInv, NoPageWhileAsking, NotAgain, RecordedOnce
      <4>4. OneFlight' /\ LastLogged'
        BY <4>1, <4>2 DEF HistoryInv, OneFlight, LastLogged
      <4>5. Forward' /\ OldFirst'
        BY <4>1 DEF HistoryInv, Forward, OldFirst
      <4>6. QED
        BY <4>3, <4>4, <4>5 DEF HistoryInv
    <3>2. CASE Switch
      <4>1. token \in Tokens \ {page.token} /\ page.on
        BY <3>2 DEF Switch, PageInv, TypeOK
      <4>2. /\ page'.on /\ page'.token = token /\ page'.mount = page.mount
            /\ UserOf[token] = UserOf[page.token] => page'.last = page.last
        BY <3>2 DEF Switch, PageInv, TypeOK
      <4>3. flights' = Flights(Displayed) /\ logged' = logged /\ boot' = boot /\ token' = token
        BY <3>2 DEF Switch
      <4>4. QED
        BY <4>1, <4>2, <4>3, SavesKeep, DisplayedTyped DEF PageInv
    <3>3. ASSUME IF page.on THEN Unmount ELSE UNCHANGED <<strays, page, live, poll, flights>>,
                 logged' = logged, boot' = boot, token' = token
          PROVE  HistoryInv'
      <4>1. CASE page.on
        <5>1. ~page'.on /\ page'.mount = page.mount /\ flights' = Flights(Displayed)
          BY <3>3, <4>1 DEF Unmount, NoPage
        <5>2. QED
          BY <3>3, <4>1, <5>1, SavesKeep, DisplayedTyped DEF PageInv
      <4>2. CASE ~page.on
        BY <3>3, <4>2, QuietKeeps DEF Quiet
      <4>3. QED
        BY <4>1, <4>2
    <3>4. CASE Guard \/ \E to \in {"login", "workspace", "elsewhere"} : Navigate(to)
      BY <3>3, <3>4 DEF Guard, Navigate
    <3>5. CASE Ask
      BY <3>5, QuietKeeps DEF Ask, Quiet
    <3>6. ASSUME NEW r, Effect(r)
          PROVE  HistoryInv'
      <4>1. Quiet
        BY <3>6 DEF Effect, DatasetAnswers, Progress, Completes, Fails, LiveRefused, Step, Quiet,
           Unauthorized, ClearSession
      <4>2. QED
        BY <4>1, QuietKeeps
    <3>7. ASSUME NEW text \in Text, NEW ai \in BOOLEAN, Type(text, ai)
          PROVE  HistoryInv'
      <4>1. CASE text # Empty
        <5>1. Quiet
          BY <3>7, <4>1 DEF Type, Quiet, PageInv, TypeOK
        <5>2. QED
          BY <5>1, QuietKeeps
      <4>2. CASE text = Empty
        <5>1. /\ page'.on = page.on /\ page'.mount = page.mount /\ page'.token = page.token /\ page.on
              /\ logged' = NoRow /\ boot' = boot /\ token' = token /\ flights' = Flights(NoData)
          BY <3>7, <4>2, TypeWrites DEF Type, session
        <5>2. QED
          BY <5>1, ForgetKeeps
      <4>3. QED
        BY <4>1, <4>2
    <3>8. CASE Consent
      BY <3>8, QuietKeeps DEF Consent, Quiet, PageInv, TypeOK
    <3>9. CASE Flush
      BY <3>9, SavesKeep, DisplayedTyped DEF Flush, PageInv
    <3>10. ASSUME NEW f \in flights, FlushSaved(f) \/ FlushRefused(f) \/ FlushFails(f)
           PROVE  HistoryInv'
      <4>1. CASE FlushSaved(f)
        BY <4>1, SavedKeeps
      <4>2. CASE FlushRefused(f)
        BY <4>2, QuietKeeps DEF FlushRefused, Quiet, Unauthorized, ClearSession
      <4>3. CASE FlushFails(f)
        BY <4>3, ForgetKeeps DEF FlushFails
      <4>4. QED
        BY <3>10, <4>1, <4>2, <4>3
    <3>11. QED
      BY <2>4, <3>1, <3>2, <3>4, <3>5, <3>6, <3>7, <3>8, <3>9, <3>10 DEF Page
  <2>5. QED
    BY <2>1, <2>2, <2>3, <2>4 DEF Next
<1>3. QED
  BY <1>1, <1>2, PageInvHolds, PTL DEF Spec

----------------------------------------------------------------------------
\* The session, the page, its effects, answers and rows keep their types.
THEOREM WorkspaceTypes == Spec => []TypeOK
  BY PageInvHolds, PTL DEF PageInv

\* AnswerIsCurrent: however late a reply comes and however often the text, the
\* consent, the dictionary or the token changed, what the page shows for its
\* text is of the effect that runs for it.
THEOREM AnswersAreCurrent == Spec => []AnswerIsCurrent
<1>1. PageInv => AnswerIsCurrent
  BY DEF PageInv, AnswersOfRun, AnswerIsCurrent
<1>2. QED
  BY <1>1, PageInvHolds, PTL

\* What is shown is never hidden as another text's: the hook's state is of the
\* page's text, consent and dictionary whenever the page is up.
THEOREM ShownIsOfPage == Spec => [](page.on => Displayed = shown.data)
<1>1. PageInv => (page.on => Displayed = shown.data)
  BY DEF PageInv, AnswersOfRun, Displayed, PageKey
<1>2. QED
  BY <1>1, PageInvHolds, PTL

\* RecordedOnce: for any number of visits, logins of any user, lost requests
\* and moments of saving, one visit writes a row once in a row.
THEOREM RowsRecordedOnce == Spec => []RecordedOnce
  BY HistoryInvHolds, PTL DEF HistoryInv

\* A page that is up gets another token only by the new login; it never goes
\* back to the one the tab had kept, whatever the check of that one answers.
THEOREM TokensMoveForward ==
    Spec => [][page.on /\ page'.on /\ page'.token # page.token
               => page.token = Old /\ page'.token = Fresh]_vars
<1> DEFINE Moves == page.on /\ page'.on /\ page'.token # page.token
                      => page.token = Old /\ page'.token = Fresh
<1>1. PageInv /\ PageInv' /\ HistoryInv /\ [Next]_vars => [Moves]_vars
  <2> SUFFICES ASSUME PageInv, HistoryInv, Next, page.on, page'.on, page'.token # page.token
               PROVE  page.token = Old /\ page'.token = Fresh
    OBVIOUS
  <2>1. CASE Switch
    <3>1. token \in Tokens \ {page.token} /\ page'.token = token
      BY <2>1 DEF Switch, PageInv, TypeOK
    <3>2. QED
      BY <3>1, Values DEF HistoryInv, Forward, PageInv, PageSigned, Tokens
  <2>2. CASE ~Switch
    <3>1. CASE Session \/ Publish \/ Poll \/ PollReplies
      BY <3>1
      DEF Session, BootAccepts, BootRefused, BootForbidden, BootFails, Login, LoginSucceeds,
          LoginFails, Logout, LogoutEnds, LogoutFails, Revoke, StrayRefused, StrayEnds, Publish,
          Poll, PollReplies, PollAnswers, PollRefused, PollFails, PageInv, TypeOK
    <3>2. ASSUME NEW r, Effect(r)
          PROVE  page'.token = page.token
      BY <3>2 DEF Effect, DatasetAnswers, Progress, Completes, Fails, LiveRefused, Step
    <3>3. ~Mount
      BY DEF Mount
    <3>4. ~Guard /\ \A to : ~Navigate(to)
      BY DEF Guard, Navigate, Unmount, NoPage
    <3>5. ASSUME Ask \/ Consent \/ Flush \/ \E text \in Text, ai \in BOOLEAN : Type(text, ai)
          PROVE  page'.token = page.token
      <4>1. CASE Ask \/ Consent \/ Flush
        BY <4>1 DEF Ask, Consent, Flush, PageInv, TypeOK
      <4>2. CASE \E text \in Text, ai \in BOOLEAN : Type(text, ai)
        BY <4>2, TypeWrites
      <4>3. QED
        BY <3>5, <4>1, <4>2
    <3>6. ASSUME NEW f \in flights, FlushSaved(f) \/ FlushRefused(f) \/ FlushFails(f)
          PROVE  page'.token = page.token
      BY <3>6 DEF FlushSaved, FlushRefused, FlushFails, PageInv, TypeOK
    <3>7. QED
      BY <2>2, <3>1, <3>2, <3>3, <3>4, <3>5, <3>6 DEF Next, Page
  <2>3. QED
    BY <2>1, <2>2
<1>2. QED
  BY <1>1, PageInvHolds, HistoryInvHolds, PTL DEF Spec
===============================================================================
