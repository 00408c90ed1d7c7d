------------------------------ MODULE Workspace ------------------------------
(***************************************************************************)
(* One browser tab of the client: the session of AuthContext.tsx, the      *)
(* workspace page with its live answers (useLiveNormalize.ts), the poll of *)
(* the dictionary's revision and the history it records on leaving.        *)
(*                                                                         *)
(* Scripts run to completion between two replies; every request is served  *)
(* at some moment between its sending and its reply.  The server is what   *)
(* the client sees of it: the tokens it takes and its dictionary revision. *)
(***************************************************************************)
EXTENDS Naturals, FiniteSets

CONSTANTS
    Texts,        \* what the user may type, besides nothing
    Old, Fresh,   \* tokens: kept by the tab since before its reload; of a login
    UserOf,       \* token -> its user
    MaxRev,       \* bound: revisions of the dictionary
    MaxMounts,    \* bound: visits of the page
    MaxEvents     \* bound: what the user, the network and the server do unasked

Tokens == {Old, Fresh}
None == "none"
Empty == "empty"

ASSUME WorkspaceAssumption ==
    /\ Old # Fresh /\ None \notin Tokens \cup Texts /\ Empty \notin Texts
    /\ DOMAIN UserOf = Tokens
    /\ MaxRev \in Nat /\ MaxMounts \in Nat /\ MaxEvents \in Nat

VARIABLES
    valid,      \* server: tokens it takes
    rev,        \* server: revision of the dictionary
    stored,     \* token of the session in sessionStorage
    token,      \* token of the signed-in state
    boot,       \* the check of the stored session; a "doomed" one is refused
    at,         \* route of the tab
    entry,      \* the login: its request, and that it succeeded once (a bound)
    leaving,    \* token of a logout that waits for its reply
    asked,      \* history: tokens the user asked to sign out
    strays,     \* tokens of requests nobody listens to any more
    page,       \* the mounted page
    run,        \* its current effect of useLiveNormalize
    old,        \* a superseded one whose reply is on its way
    shown,      \* the hook's state
    poll,       \* the poll of the revision
    draft,      \* user -> text kept in sessionStorage
    sig,        \* user -> signature kept in sessionStorage
    flights,    \* history requests that wait for their reply
    logged,     \* history: the row written last, and how often in a row
    events      \* events so far, of those that are bounded

session == <<valid, stored, token, boot, at, entry, leaving, asked>>
live == <<run, old, shown>>
history == <<draft, sig, flights, logged>>
vars == <<session, rev, strays, page, live, poll, history, events>>

Users == {UserOf[t] : t \in Tokens}
Text == Texts \cup {Empty}

Statuses == {"rules", "pending", "partial", "verified", "open"}
Data == [rev: 0..MaxRev, status: Statuses]
NoData == [rev |-> 0, status |-> None]
Signatures == [text: Texts, out: Statuses \cup {None}]
NoSig == [text |-> Empty, out |-> None]

Key == [text: Text, ai: BOOLEAN, dict: 0..MaxRev]
NoKey == [text |-> Empty, ai |-> FALSE, dict |-> 0]
Run == [key: Key, at: {"typing", "dataset", "idle", "ai", "done"},
        version: Nat, since: 0..MaxRev,
        live: BOOLEAN, data: Data \cup {NoData}]
NoRun == [key |-> NoKey, at |-> "done", version |-> 0, since |-> 0, live |-> FALSE, data |-> NoData]
Blank == [key |-> NoKey, version |-> 0, data |-> NoData, loading |-> FALSE, syncing |-> FALSE, error |-> FALSE]
NoPage == [on |-> FALSE, mount |-> 0, token |-> None, text |-> Empty, ai |-> FALSE,
           dict |-> 0, last |-> NoSig]
NoPoll == [running |-> FALSE, sent |-> FALSE, live |-> FALSE, since |-> 0]
NoRow == [row |-> NoSig, mount |-> 0, user |-> None, times |-> 0]

TypeOK ==
    /\ valid \subseteq Tokens /\ asked \subseteq Tokens /\ strays \subseteq Tokens
    /\ rev \in 0..MaxRev
    /\ stored \in Tokens \cup {None} /\ token \in Tokens \cup {None}
    /\ leaving \in Tokens \cup {None}
    /\ boot \in {"asking", "doomed", "over"} /\ at \in {"login", "workspace", "elsewhere"}
    /\ entry \in {"idle", "sent", "issued"}
    /\ page \in [on: BOOLEAN, mount: 0..MaxMounts, token: Tokens \cup {None}, text: Text,
                 ai: BOOLEAN, dict: 0..MaxRev, last: Signatures \cup {NoSig}]
    /\ run \in Run /\ old \in Run
    /\ shown \in [key: Key, version: Nat, data: Data \cup {NoData}, loading: BOOLEAN,
                  syncing: BOOLEAN, error: BOOLEAN]
    /\ shown.syncing => ~shown.loading /\ shown.data # NoData
    /\ poll \in [running: BOOLEAN, sent: BOOLEAN, live: BOOLEAN, since: 0..MaxRev]
    /\ draft \in [Users -> Text] /\ sig \in [Users -> Signatures \cup {NoSig}]
    /\ \A f \in flights : /\ f.row \in Signatures /\ f.token \in Tokens
                          /\ f.mount \in 1..MaxMounts /\ f.live \in BOOLEAN
    /\ logged \in [row: Signatures \cup {NoSig}, mount: 0..MaxMounts, user: Users \cup {None},
                   times: Nat]
    /\ events \in 0..MaxEvents

Init ==
    /\ valid \in {{}, {Old}} /\ rev = 0
    /\ stored \in {None, Old} /\ token = None
    /\ boot = IF stored = None THEN "over" ELSE IF Old \in valid THEN "asking" ELSE "doomed"
    /\ at \in {"login", "workspace"}
    /\ entry = "idle" /\ leaving = None /\ asked = {} /\ strays = {}
    /\ page = NoPage /\ run = NoRun /\ old = NoRun /\ shown = Blank
    /\ poll = NoPoll
    /\ draft = [u \in Users |-> Empty] /\ sig = [u \in Users |-> NoSig]
    /\ flights = {} /\ logged = NoRow
    /\ events = 0

----------------------------------------------------------------------------
(* The session.                                                             *)

\* One more event, while there may be.
Event == events < MaxEvents /\ events' = events + 1

ClearAllWorkspaceSessionState ==
    /\ draft' = [u \in Users |-> Empty]
    /\ sig' = [u \in Users |-> NoSig]

\* The page is taken down by the render that follows.
ClearSession ==
    /\ stored' = None /\ token' = None
    /\ ClearAllWorkspaceSessionState

\* Mutant of Unauthorized: a refused request only fails.
UnauthorizedNot == UNCHANGED <<stored, token, draft, sig>>

\* UNAUTHORIZED_EVENT names no token: whichever session there is ends.
Unauthorized == ClearSession

\* An answer is possible if the token was taken when the request was sent, a
\* refusal if it is not taken now.
Refused(t) == t \notin valid

\* The check of the stored session ends: it sets the token it asked about.
BootAccepts ==
    /\ boot = "asking"
    /\ boot' = "over" /\ token' = Old
    /\ UNCHANGED <<valid, stored, at, entry, leaving, asked, rev, strays, page, live, poll, history, events>>

BootRefused ==
    /\ boot # "over" /\ Refused(Old)
    /\ boot' = "over"
    /\ Unauthorized
    /\ UNCHANGED <<valid, at, entry, leaving, asked, rev, strays, page, live, poll, flights, logged, events>>

\* A 403, which only something in front of the server sends, raises no event:
\* the token leaves sessionStorage, and a login made meanwhile goes on.
BootForbidden ==
    /\ boot # "over" /\ Event
    /\ boot' = "over" /\ stored' = None
    /\ UNCHANGED <<valid, token, at, entry, leaving, asked, rev, strays, page, live, poll, history>>

BootFails ==
    /\ boot # "over" /\ Event
    /\ boot' = "over"
    /\ UNCHANGED <<valid, stored, token, at, entry, leaving, asked, rev, strays, page, live, poll, history>>

\* The login page asks for no session and is not kept back by the check.
Login ==
    /\ at = "login" /\ entry = "idle" /\ Event
    /\ entry' = "sent"
    /\ UNCHANGED <<valid, stored, token, boot, at, leaving, asked, rev, strays, page, live, poll, history>>

\* handleAuthSuccess, and the page navigates.
LoginSucceeds ==
    /\ entry = "sent" /\ entry' = "issued"
    /\ valid' = valid \cup {Fresh}
    /\ stored' = Fresh /\ token' = Fresh /\ at' = "workspace"
    /\ UNCHANGED <<boot, leaving, asked, rev, strays, page, live, poll, history, events>>

LoginFails ==
    /\ entry = "sent" /\ Event
    /\ entry' = "idle"
    /\ UNCHANGED <<valid, stored, token, boot, at, leaving, asked, rev, strays, page, live, poll, history>>

\* The server forgets a token: expiry, an administrator.
Revoke(t) ==
    /\ t \in valid /\ valid' = valid \ {t} /\ Event
    /\ UNCHANGED <<stored, token, boot, at, entry, leaving, asked, rev, strays, page, live, poll, history>>

Publish ==
    /\ rev < MaxRev /\ rev' = rev + 1 /\ Event
    /\ UNCHANGED <<session, strays, page, live, poll, history>>

----------------------------------------------------------------------------
(* Leaving traces: history.                                                 *)

Displayed == IF shown.key = [text |-> page.text, ai |-> page.ai, dict |-> page.dict]
             THEN shown.data ELSE NoData

\* buildHistorySnapshot, of the text and the answer that may be paired with it.
Snapshot(data) == [text |-> page.text, out |-> data.status]

Waiting == {f \in flights : f.mount = page.mount}

\* Mutant of Flights: nothing remembers the request under way.
FlightsAgain(data) ==
    IF page.text = Empty \/ Snapshot(data) = page.last THEN flights
    ELSE flights \cup {[row |-> Snapshot(data), token |-> page.token,
                        mount |-> page.mount, live |-> page.token \in valid, nth |-> Cardinality(flights)]}

\* flushHistory, with the answer the page may pair with its text.
Flights(data) ==
    IF page.text = Empty \/ Snapshot(data) = page.last \/ Waiting # {}
    THEN flights
    ELSE flights \cup {[row |-> Snapshot(data), token |-> page.token,
                        mount |-> page.mount, live |-> page.token \in valid, nth |-> Cardinality(flights)]}

Written(f) ==
    LET again == logged.row = f.row /\ logged.mount = f.mount /\ logged.user = UserOf[f.token] IN
    logged' = [row |-> f.row, mount |-> f.mount, user |-> UserOf[f.token],
               times |-> IF again THEN logged.times + 1 ELSE 1]

\* writeWorkspaceLastSavedSignature and writeWorkspaceDraft: by user.
Remember(user, row) == sig' = [sig EXCEPT ![user] = row]
KeepDraft(user, text) == draft' = [draft EXCEPT ![user] = text]

\* The page that sent it may be gone: sessionStorage is written all the same.
FlushSaved(f) ==
    /\ f \in flights /\ f.live
    /\ flights' = flights \ {f}
    /\ page' = IF f.mount = page.mount THEN [page EXCEPT !.last = f.row] ELSE page
    /\ Remember(UserOf[f.token], f.row)
    /\ Written(f)
    /\ UNCHANGED <<session, rev, strays, live, poll, draft, events>>

FlushRefused(f) ==
    /\ f \in flights /\ Refused(f.token)
    /\ flights' = flights \ {f}
    /\ Unauthorized
    /\ UNCHANGED <<valid, boot, at, entry, leaving, asked, rev, strays, page, live, poll, logged, events>>

\* The request or its reply is lost: the row may have been written.
FlushFails(f) ==
    /\ f \in flights /\ Event
    /\ flights' = flights \ {f}
    /\ logged' = NoRow
    /\ UNCHANGED <<session, rev, strays, page, live, poll, draft, sig>>

\* pagehide, or a link followed: the page stays or goes in a later step.
Flush ==
    /\ page.on /\ page.text # Empty /\ Event
    /\ flights' = Flights(Displayed)
    /\ UNCHANGED <<session, rev, strays, page, live, poll, draft, sig, logged>>

----------------------------------------------------------------------------
(* The live answer.                                                         *)

InFlight(r) == r.at \in {"dataset", "ai"}

\* The effect of a key: the hook shows nothing, or that it loads; the effect
\* before is aborted, and may be overtaken by its own reply.
Start(text, ai, dict) ==
    LET key == [text |-> text, ai |-> ai, dict |-> dict]
        begun == [key |-> key, at |-> IF text = Empty THEN "done" ELSE "typing",
                  version |-> run.version + 1, since |-> 0, live |-> FALSE, data |-> NoData]
    IN
    /\ run' = begun
    /\ shown' = [Blank EXCEPT !.key = key, !.version = begun.version, !.loading = text # Empty]
    /\ old' = IF InFlight(run) THEN run ELSE old

\* Mutant of Valid: nothing tells a late reply from an awaited one.
ValidAlways(r) == TRUE

Valid(r) == r.version = run.version

\* A step of the effect r: what it shows is dropped unless it is the last one.
Step(r, after, display) ==
    /\ IF r.version = run.version THEN run' = after /\ UNCHANGED old
                                  ELSE old' = NoRun /\ UNCHANGED run
    /\ shown' = IF Valid(r) THEN display ELSE shown
    /\ UNCHANGED <<session, rev, strays, page, poll, history>>

Showing(r, data, syncing, error) ==
    [key |-> r.key, version |-> r.version, data |-> data, loading |-> FALSE,
     syncing |-> syncing, error |-> error]

Ask ==
    /\ page.on /\ run.at \in {"typing", "idle"}
    /\ run' = [run EXCEPT !.at = IF @ = "typing" THEN "dataset" ELSE "ai",
                           !.since = rev, !.live = page.token \in valid]
    /\ UNCHANGED <<session, rev, strays, page, old, shown, poll, history, events>>

Served(r) == r.since..rev

DatasetAnswers(r) ==
    /\ r.at = "dataset" /\ r.live
    /\ \E v \in Served(r) :
          LET data == [rev |-> v, status |-> IF r.key.ai THEN "pending" ELSE "rules"] IN
          Step(r, [r EXCEPT !.at = IF r.key.ai THEN "idle" ELSE "done", !.data = data],
                  Showing(r, data, r.key.ai, FALSE))
    /\ UNCHANGED events

Progress(r) ==
    /\ r.at = "ai" /\ r.data.status # "partial" /\ r.live
    /\ \E v \in Served(r) :
          LET data == [rev |-> v, status |-> "partial"] IN
          Step(r, [r EXCEPT !.data = data], Showing(r, data, TRUE, FALSE))
    /\ UNCHANGED events

Completes(r) ==
    /\ r.at = "ai" /\ r.live
    /\ \E v \in Served(r), status \in {"verified", "open"} :
          Step(r, [r EXCEPT !.at = "done", !.data = NoData],
                  Showing(r, [rev |-> v, status |-> status], FALSE, FALSE))
    /\ UNCHANGED events

\* What an effect that failed still has to show.
Kept(r) == IF r.data = NoData THEN NoData ELSE [r.data EXCEPT !.status = "open"]

\* The network, or a stream without its final event: what there was stays.
Fails(r) ==
    /\ InFlight(r) /\ Event
    /\ Step(r, [r EXCEPT !.at = "done", !.data = NoData],
               Showing(r, Kept(r), FALSE, TRUE))

\* The event comes first, and before the check whether the effect is the last.
LiveRefused(r) ==
    /\ InFlight(r) /\ Refused(page.token)
    /\ Unauthorized
    /\ IF r.version = run.version
       THEN /\ run' = [run EXCEPT !.at = "done", !.data = NoData]
            /\ shown' = Showing(run, Kept(run), FALSE, TRUE)
            /\ UNCHANGED old
       ELSE old' = NoRun /\ UNCHANGED <<run, shown>>
    /\ UNCHANGED <<valid, boot, at, entry, leaving, asked, rev, strays, page, poll, flights, logged, events>>

Effect(r) ==
    page.on /\ (DatasetAnswers(r) \/ Progress(r) \/ Completes(r) \/ Fails(r) \/ LiveRefused(r))

----------------------------------------------------------------------------
(* The dictionary's revision.                                               *)

\* Every five seconds, and on focus; a poll that would find nothing new is left out.
Poll ==
    /\ page.on /\ ~poll.running
    /\ Refused(page.token) \/ page.dict # rev
    /\ poll' = [running |-> TRUE, sent |-> TRUE, live |-> ~Refused(page.token), since |-> rev]
    /\ UNCHANGED <<session, rev, strays, page, live, history, events>>

PollAnswers ==
    /\ page.on /\ poll.sent /\ poll.live
    /\ poll' = NoPoll
    /\ \E v \in poll.since..rev :
          /\ page' = [page EXCEPT !.dict = v]
          /\ IF v = page.dict THEN UNCHANGED live ELSE Start(page.text, page.ai, v)
    /\ UNCHANGED <<session, rev, strays, history, events>>

PollRefused ==
    /\ page.on /\ poll.sent /\ Refused(page.token)
    /\ poll' = NoPoll
    /\ Unauthorized
    /\ UNCHANGED <<valid, boot, at, entry, leaving, asked, rev, strays, page, live, flights, logged, events>>

\* Mutant of PollFails: a poll that fails is never over.
PollFailsRunning ==
    /\ page.on /\ poll.sent /\ Event
    /\ poll' = [poll EXCEPT !.sent = FALSE]
    /\ UNCHANGED <<session, rev, strays, page, live, history>>

PollFails ==
    /\ page.on /\ poll.sent /\ Event
    /\ poll' = NoPoll
    /\ UNCHANGED <<session, rev, strays, page, live, history>>

----------------------------------------------------------------------------
(* The page and the user.                                                   *)

\* The page is built: the draft is shown, the consent starts withdrawn.
Mount ==
    /\ at = "workspace" /\ boot = "over" /\ token # None
    /\ ~page.on /\ page.mount < MaxMounts
    /\ LET user == UserOf[token] IN
          /\ page' = [on |-> TRUE, mount |-> page.mount + 1, token |-> token,
                      text |-> draft[user], ai |-> FALSE, dict |-> 0, last |-> sig[user]]
          /\ Start(draft[user], FALSE, 0)
    /\ UNCHANGED <<session, rev, strays, poll, history, events>>

\* A login that ends while the page of another token is shown: the effects of
\* the old token are cleaned up, the last one saves, and those of the new run.
Switch ==
    LET same == UserOf[token] = UserOf[page.token]
        text == IF same THEN page.text ELSE draft[UserOf[token]]
    IN
    /\ page.on /\ token # None /\ token # page.token
    /\ flights' = Flights(Displayed)
    /\ strays' = strays \cup (IF poll.sent \/ InFlight(run) THEN {page.token} ELSE {})
    /\ page' = [page EXCEPT !.token = token, !.text = text,
                            !.last = IF same THEN @ ELSE sig[UserOf[token]]]
    /\ poll' = NoPoll
    /\ Start(text, page.ai, page.dict)
    /\ UNCHANGED <<session, rev, draft, sig, logged, events>>

\* It is taken down: its effects are cleaned up, and the last one saves.
Unmount ==
    /\ flights' = Flights(Displayed)
    /\ strays' = strays \cup (IF poll.sent \/ InFlight(run) \/ InFlight(old) THEN {page.token} ELSE {})
    /\ page' = [NoPage EXCEPT !.mount = page.mount]
    /\ run' = NoRun /\ old' = NoRun /\ shown' = Blank /\ poll' = NoPoll

\* RoleGuard: without a session there is only the login page.
Guard ==
    /\ at # "login" /\ boot = "over" /\ token = None
    /\ at' = "login"
    /\ IF page.on THEN Unmount ELSE UNCHANGED <<strays, page, live, poll, flights>>
    /\ UNCHANGED <<valid, stored, token, boot, entry, leaving, asked, rev, draft, sig, logged, events>>

\* A link, or the browser's history; leaving the page saves first.
Navigate(to) ==
    /\ boot = "over" /\ token # None /\ at # to /\ Event
    /\ at' = to
    /\ IF page.on THEN Unmount ELSE UNCHANGED <<strays, page, live, poll, flights>>
    /\ UNCHANGED <<valid, stored, token, boot, entry, leaving, asked, rev, draft, sig, logged>>

\* The answer shown is of the text before: it is dropped at once.
Type(text, ai) ==
    /\ page.on /\ text # page.text /\ Event /\ (text = Empty => ~ai)
    /\ KeepDraft(UserOf[page.token], text)
    /\ IF text # Empty THEN /\ page' = [page EXCEPT !.text = text, !.ai = ai]
                            /\ UNCHANGED <<flights, sig, logged>>
       ELSE /\ flights' = Flights(NoData)
            /\ Remember(UserOf[page.token], NoSig)
            /\ page' = [page EXCEPT !.text = text, !.ai = ai, !.last = NoSig]
            /\ logged' = NoRow
    /\ Start(text, ai, page.dict)
    /\ UNCHANGED <<session, rev, strays, poll>>

Consent ==
    /\ page.on /\ page.text # Empty /\ Event
    /\ page' = [page EXCEPT !.ai = ~@]
    /\ Start(page.text, ~page.ai, page.dict)
    /\ UNCHANGED <<session, rev, strays, poll, history>>

\* The button saves, then asks the server to end the session.
Logout ==
    /\ at # "login" /\ token # None /\ leaving = None /\ Event
    /\ leaving' = token /\ asked' = asked \cup {token}
    /\ flights' = IF page.on THEN Flights(Displayed) ELSE flights
    /\ UNCHANGED <<valid, stored, token, boot, at, entry, rev, strays, page, live, poll, draft, sig, logged>>

\* However the logout ends, the session of the tab is over.
LogoutEnds ==
    /\ leaving # None /\ leaving' = None
    /\ valid' = valid \ {leaving}
    /\ ClearSession
    /\ UNCHANGED <<boot, at, entry, asked, rev, strays, page, live, poll, flights, logged, events>>

\* The request is lost or fails: the server goes on taking the token.
LogoutFails ==
    /\ leaving # None /\ leaving' = None /\ Event
    /\ ClearSession
    /\ UNCHANGED <<valid, boot, at, entry, asked, rev, strays, page, live, poll, flights, logged>>

StrayRefused(t) ==
    /\ t \in strays /\ Refused(t)
    /\ strays' = strays \ {t}
    /\ Unauthorized
    /\ UNCHANGED <<valid, boot, at, entry, leaving, asked, rev, page, live, poll, flights, logged, events>>

StrayEnds(t) ==
    /\ t \in strays /\ strays' = strays \ {t}
    /\ UNCHANGED <<session, rev, page, live, poll, history, events>>

Session ==
    \/ BootAccepts \/ BootRefused \/ BootForbidden \/ BootFails
    \/ Login \/ LoginSucceeds \/ LoginFails \/ Logout \/ LogoutEnds \/ LogoutFails
    \/ \E t \in Tokens : Revoke(t) \/ StrayRefused(t) \/ StrayEnds(t)

Page ==
    \/ Mount \/ Switch \/ Guard \/ Ask \/ Effect(run) \/ (old.version # run.version /\ Effect(old))
    \/ \E to \in {"login", "workspace", "elsewhere"} : Navigate(to)
    \/ \E text \in Text, ai \in BOOLEAN : Type(text, ai)
    \/ Consent \/ Flush
    \/ \E f \in flights : FlushSaved(f) \/ FlushRefused(f) \/ FlushFails(f)

PollReplies == PollAnswers \/ PollRefused \/ PollFails

Next == Session \/ Page \/ Poll \/ PollReplies \/ Publish

Spec == Init /\ [][Next]_vars

\* Timers fire, renders happen and every request ends; nobody has to type.
Fairness ==
    /\ WF_vars(Guard) /\ WF_vars(Switch) /\ WF_vars(Ask) /\ WF_vars(Effect(run))
    /\ WF_vars(Poll) /\ WF_vars(PollReplies)

FairSpec == Spec /\ Fairness

----------------------------------------------------------------------------
(* Properties.                                                              *)

\* What the page shows for its text came from the effect that runs for it,
\* not from one of the same text that a later edit had superseded.
AnswerIsCurrent == page.on /\ Displayed # NoData => shown.version = run.version

\* While nothing is lost, a page writes a text and its answer to the history
\* once, unless the user cleared the editor in between: however often it is
\* told to save.
RecordedOnce == logged.times <= 1

\* AuthContext.tsx: "sign out instead of leaving a dead token": a page whose
\* token the server no longer takes is left, or gets another by a login.
SignsOut == []<>~(page.on /\ Refused(page.token))

\* When the user stops, the page ends with the answer to its text from the
\* dictionary as it is, or with an error; it neither loads nor waits.
Settled ==
    /\ ~shown.loading /\ ~shown.syncing
    /\ page.text # Empty => shown.error \/ (Displayed # NoData /\ Displayed.rev = rev)

Settles == <>[](page.on => Settled)

\* AuthContext.tsx: "Only a real rejection invalidates the session": the tab
\* drops a token the server takes only when the user signs out of it.
OnlyRealRejection ==
    [][token # None /\ token' = None => Refused(token) \/ token \in asked]_vars
=============================================================================
