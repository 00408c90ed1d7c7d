------------------------------- MODULE Admission -------------------------------
(***************************************************************************)
(* Calls of the AI provider: the host's ledger of attempts, the flights    *)
(* that identical calls of one worker share, retries, the fallback model   *)
(* and the one deadline of it all (admission.py, fallback_client.py).      *)
(*                                                                         *)
(* Workers are processes with an event loop each: a call runs from one     *)
(* await to the next undisturbed by its own worker. The ledger is a SQLite *)
(* file all workers share. Time passes in ticks, and timers that are due   *)
(* fire before the next one.                                               *)
(***************************************************************************)
EXTENDS Integers, FiniteSets

CONSTANTS
    Calls,             \* calls of complete, each made once
    Standalone,        \* those made without a fallback client
    Workers, Users,
    Requests,          \* request bodies
    RequestLimit,      \* ai_requests_per_window
    UserRequestLimit,  \* ai_user_requests_per_window
    Concurrency,       \* ai_max_concurrency
    UserConcurrency,   \* ai_user_max_concurrency
    Window,            \* ai_budget_window_seconds
    Timeout,           \* ai_timeout_seconds
    ProviderTimeout,   \* the primary model's share of it
    Grace,             \* a lease's second beyond the timeout
    LockWait,          \* SQLite's busy timeout, 0.2 s
    Retries,           \* ai_max_retries
    MaxTime            \* bound: the end of time; no call starts too late to end before

ASSUME AdmissionAssumption ==
    /\ IsFiniteSet(Calls) /\ Standalone \subseteq Calls
    /\ RequestLimit \in Nat /\ UserRequestLimit \in Nat
    /\ Concurrency \in Nat /\ UserConcurrency \in Nat
    /\ Window \in Nat /\ Timeout \in Nat /\ MaxTime \in Nat /\ Retries \in Nat
    /\ ProviderTimeout \in Nat /\ ProviderTimeout < Timeout
    /\ LockWait \in Nat /\ Grace \in Nat /\ LockWait < Grace

VARIABLES
    clock,
    ledger,    \* table attempts
    calls,     \* call -> where it is
    made       \* history: attempts admitted, with the time they really were

vars == <<clock, ledger, calls, made>>

Models == {"primary", "fallback"}
Time == 0..MaxTime

\* An attempt of a call at a model.
Lease == Calls \X Models \X (0..Retries)

Row == [lease: Lease, owner: Users, started: Int, expires: Int]

\* What complete ends with, for its caller and for those that wait with it.
Outcomes == {"none", "answer",
             "transport",   \* AINetworkError
             "timeout",     \* AITimeoutError
             "refused",     \* AIRateLimitError and what else is not retried
             "cancelled",   \* CancelledError out of somebody else's flight
             "aborted",     \* CancelledError of its own task
             "crashed"}

Call == [pc: {"idle", "enter", "calling", "backoff", "retry", "waiting", "done"},
         home: Workers, user: Users, request: Requests, model: Models,
         attempt: 0..Retries, start: Nat, deadline: Nat, got: Outcomes]

TypeOK ==
    /\ clock \in Time
    /\ ledger \subseteq Row
    /\ calls \in [Calls -> Call]
    /\ made \subseteq [lease: Lease, owner: Users, at: Time]

Init ==
    /\ clock = 0 /\ ledger = {} /\ made = {}
    /\ calls \in [Calls -> {[pc |-> "idle", home |-> k, user |-> u, request |-> q,
                             model |-> "primary", attempt |-> 0, start |-> 0, deadline |-> 0,
                             got |-> "none"] :
                            k \in Workers, u \in Users, q \in Requests}]

----------------------------------------------------------------------------
\* The identity under which a worker shares a call: user, body and model.
Key(c) == <<calls[c].home, calls[c].user, calls[c].request, calls[c].model>>

\* c started the flight that is under its key.
Leads(c) == calls[c].pc \in {"calling", "backoff", "retry"}

Flying(c) == \E d \in Calls : Leads(d) /\ Key(d) = Key(c)

\* No other call of c's worker is between two awaits.
Turn(c) ==
    \A d \in Calls \ {c} :
        calls[d].home = calls[c].home => calls[d].pc \notin {"enter", "retry"}

WaitsFor(d, c) == calls[d].pc = "waiting" /\ calls[d].got = "none" /\ Key(d) = Key(c)

\* Mutant of Resolve: the future is never told of a failure.
ResolveAnswersOnly(c, record, outcome) ==
    calls' = [d \in Calls |->
                IF d = c THEN record
                ELSE IF outcome = "answer" /\ Leads(c) /\ WaitsFor(d, c)
                     THEN [calls[d] EXCEPT !.got = outcome]
                ELSE calls[d]]

\* The future of the flight of c, done with an outcome for those that wait for it.
Resolve(c, record, outcome) ==
    calls' = [d \in Calls |->
                IF d = c THEN record
                ELSE IF Leads(c) /\ WaitsFor(d, c) THEN [calls[d] EXCEPT !.got = outcome]
                ELSE calls[d]]

Done(c, outcome) == [calls[c] EXCEPT !.pc = "done", !.got = outcome]

\* FallbackClient tries its second model after failures of transport only.
FallsBack(c, outcome) ==
    /\ outcome \in {"transport", "timeout"}
    /\ calls[c].model = "primary" /\ c \notin Standalone

\* Mutant of After: the fallback starts a full deadline of its own.
AfterWithFreshDeadline(c, outcome) ==
    IF FallsBack(c, outcome)
    THEN [calls[c] EXCEPT !.pc = "enter", !.model = "fallback", !.attempt = 0, !.got = "none",
                          !.deadline = clock + Timeout]
    ELSE Done(c, outcome)

\* Where a call goes when its model's client ends with an outcome.
After(c, outcome) ==
    IF FallsBack(c, outcome)
    THEN [calls[c] EXCEPT !.pc = "enter", !.model = "fallback", !.attempt = 0, !.got = "none"]
    ELSE Done(c, outcome)

LeaseOf(c) == <<c, calls[c].model, calls[c].attempt>>

\* _release: the lease expires now, or on its own if the update fails.
Release(c, written) ==
    ledger' = IF written
              THEN {[r EXCEPT !.expires = IF r.lease = LeaseOf(c) THEN 0 ELSE @] : r \in ledger}
              ELSE ledger

----------------------------------------------------------------------------
(* The ledger, at the time now that a worker read before it had the lock.   *)

Active(now) == {r \in ledger : r.expires > now}
Counted(now) == {r \in ledger : r.started > now - Window \/ r.expires > now}
Own(rows, user) == {r \in rows : r.owner = user}

\* Mutant of Kept: every attempt that is over is deleted.
KeptWhileActive(now) == {r \in ledger : r.expires > now}

\* What the DELETE leaves.
Kept(now) == {r \in ledger : r.started > now - Window \/ r.expires > now}

Admits(c, now) ==
    /\ Cardinality(Counted(now)) < RequestLimit
    /\ Cardinality(Own(Counted(now), calls[c].user)) < UserRequestLimit
    /\ Cardinality(Active(now)) < Concurrency
    /\ Cardinality(Own(Active(now), calls[c].user)) < UserConcurrency

\* Mutant of NewRow: a lease ends with the share of the primary model.
NewShortRow(c, now) ==
    [lease |-> LeaseOf(c), owner |-> calls[c].user, started |-> now,
     expires |-> now + ProviderTimeout]

NewRow(c, now) ==
    [lease |-> LeaseOf(c), owner |-> calls[c].user, started |-> now,
     expires |-> now + Timeout + Grace]

----------------------------------------------------------------------------
\* A request reaches complete; its deadline counts from here.
Begin(c) ==
    /\ calls[c].pc = "idle" /\ Turn(c)
    /\ clock + Timeout < MaxTime
    /\ calls' = [calls EXCEPT ![c].pc = "enter", ![c].start = clock,
                              ![c].deadline = clock + Timeout]
    /\ UNCHANGED <<clock, ledger, made>>

\* An identical call is in flight: wait with it.
Join(c) ==
    /\ calls[c].pc = "enter" /\ Flying(c)
    /\ calls' = [calls EXCEPT ![c].pc = "waiting"]
    /\ UNCHANGED <<clock, ledger, made>>

AtReserve(c) == calls[c].pc = "retry" \/ (calls[c].pc = "enter" /\ ~Flying(c))

\* _reserve admits the attempt, and the provider is called.
Reserve(c) ==
    /\ AtReserve(c)
    /\ \E now \in (clock - LockWait)..clock :
          /\ Admits(c, now)
          /\ ledger' = Kept(now) \cup {NewRow(c, now)}
    /\ made' = made \cup {[lease |-> LeaseOf(c), owner |-> calls[c].user, at |-> clock]}
    /\ calls' = [calls EXCEPT ![c].pc = "calling"]
    /\ UNCHANGED clock

\* The budget is exhausted, or the ledger cannot be opened or locked.
Refused(c) ==
    /\ AtReserve(c)
    /\ Resolve(c, After(c, "refused"), "refused")
    /\ UNCHANGED <<clock, ledger, made>>

\* The provider answers, or fails in a way that is not retried.
Return(c, outcome, written) ==
    /\ calls[c].pc = "calling" /\ Turn(c)
    /\ outcome = "transport" => calls[c].attempt = Retries
    /\ Resolve(c, After(c, outcome), outcome)
    /\ Release(c, written)
    /\ UNCHANGED <<clock, made>>

\* AINetworkError with attempts left: sleep ...
Retry(c, written) ==
    /\ calls[c].pc = "calling" /\ Turn(c)
    /\ calls[c].attempt < Retries
    /\ calls' = [calls EXCEPT ![c].pc = "backoff"]
    /\ Release(c, written)
    /\ UNCHANGED <<clock, made>>

\* Mutant of Wake: the attempt goes on without a lease of its own.
WakeUnbudgeted(c) ==
    /\ calls[c].pc = "backoff" /\ Turn(c)
    /\ calls' = [calls EXCEPT ![c].pc = "calling", ![c].attempt = @ + 1]
    /\ made' = made \cup {[lease |-> <<c, calls[c].model, calls[c].attempt + 1>>,
                           owner |-> calls[c].user, at |-> clock]}
    /\ UNCHANGED <<clock, ledger>>

\* ... and reserve again.
Wake(c) ==
    /\ calls[c].pc = "backoff" /\ Turn(c)
    /\ calls' = [calls EXCEPT ![c].pc = "retry", ![c].attempt = @ + 1]
    /\ UNCHANGED <<clock, ledger, made>>

\* The flight a call waits for is done.
Resume(c) ==
    /\ calls[c].pc = "waiting" /\ calls[c].got # "none" /\ Turn(c)
    /\ calls' = [calls EXCEPT ![c] = After(c, calls[c].got)]
    /\ UNCHANGED <<clock, ledger, made>>

\* Release matters only to a call that holds a lease.
ReleaseHeld(c, written) ==
    IF calls[c].pc = "calling" THEN Release(c, written) ELSE UNCHANGED ledger

\* The primary model's share is over: its flight is cancelled by the timer of
\* its initiator, a call that waits for it just stops waiting.
ProviderTimerDue(c) ==
    /\ calls[c].pc \in {"calling", "backoff", "waiting"}
    /\ calls[c].model = "primary" /\ c \notin Standalone
    /\ clock >= calls[c].start + ProviderTimeout

ProviderTimer(c, written) ==
    /\ ProviderTimerDue(c) /\ Turn(c)
    /\ Resolve(c, After(c, "timeout"), "cancelled")
    /\ ReleaseHeld(c, written)
    /\ UNCHANGED <<clock, made>>

\* The deadline: an initiator has a timer of its own, a fallback client another,
\* and whichever of the two fires first decides what the flight ends with.
DeadlineDue(c) ==
    /\ calls[c].pc \in {"calling", "backoff"} \/ (calls[c].pc = "waiting" /\ c \notin Standalone)
    /\ clock >= calls[c].deadline

DeadlineTimer(c, outcome, written) ==
    /\ DeadlineDue(c) /\ Turn(c)
    /\ outcome = "timeout" \/ c \notin Standalone
    /\ Resolve(c, Done(c, "timeout"), outcome)
    /\ ReleaseHeld(c, written)
    /\ UNCHANGED <<clock, made>>

\* The caller's task is cancelled: its client left, or its stream is over.
Abort(c, written) ==
    /\ calls[c].pc \in {"calling", "backoff", "waiting"} /\ Turn(c)
    /\ Resolve(c, Done(c, "aborted"), "cancelled")
    /\ ReleaseHeld(c, written)
    /\ UNCHANGED <<clock, made>>

\* A worker dies with its calls; their leases stay until they expire.
Crash(k) ==
    /\ calls' = [c \in Calls |->
                   IF calls[c].home = k /\ calls[c].pc \notin {"idle", "done"}
                   THEN Done(c, "crashed") ELSE calls[c]]
    /\ UNCHANGED <<clock, ledger, made>>

\* Time passes once everything that is due has happened.
Tick ==
    /\ clock < MaxTime
    /\ \A c \in Calls :
          /\ ~ProviderTimerDue(c) /\ ~DeadlineDue(c)
          /\ calls[c].pc \notin {"enter", "retry"}
          /\ calls[c].pc = "waiting" => calls[c].got = "none"
    /\ clock' = clock + 1
    /\ UNCHANGED <<ledger, calls, made>>

\* What the event loop and its timers do on their own.
Run(c) ==
    \/ Join(c) \/ Reserve(c) \/ Refused(c) \/ Wake(c) \/ Resume(c)
    \/ \E written \in BOOLEAN :
          \/ ProviderTimer(c, written)
          \/ \E outcome \in {"timeout", "cancelled"} : DeadlineTimer(c, outcome, written)

Next ==
    \/ Tick
    \/ \E c \in Calls :
          \/ Begin(c) \/ Run(c)
          \/ \E written \in BOOLEAN :
                \/ \E outcome \in {"answer", "transport", "timeout", "refused"} :
                      Return(c, outcome, written)
                \/ Retry(c, written) \/ Abort(c, written)
    \/ \E k \in Workers : Crash(k)

Spec == Init /\ [][Next]_vars

\* Event loops run what is ready and time passes; the provider owes nothing.
FairSpec == Spec /\ WF_vars(Tick) /\ \A c \in Calls : WF_vars(Run(c))

----------------------------------------------------------------------------
Calling == {c \in Calls : calls[c].pc = "calling"}

\* "Active provider attempts across workers", and per user: what the ledger
\* bounds is what the provider sees, whatever leases expire, stay behind a
\* crash or a failed release, or are taken on a stale clock.
ProviderCallsBounded ==
    /\ Cardinality(Calling) <= Concurrency
    /\ \A u \in Users : Cardinality({c \in Calling : calls[c].user = u}) <= UserConcurrency

\* "Maximum attempts per provider account in the window", and per user, in any
\* window shorter by the wait for the lock, retries and fallbacks included.
AttemptsPerWindow ==
    LET recent == {m \in made : m.at > clock - (Window - LockWait)}
    IN  /\ Cardinality(recent) <= RequestLimit
        /\ \A u \in Users : Cardinality({m \in recent : m.owner = u}) <= UserRequestLimit

\* "Overall deadline for one completion, including retries": no call, neither
\* one that retries or falls back nor one that waits for another, outlives it.
AnsweredByDeadline ==
    \A c \in Calls : calls[c].pc \notin {"idle", "done"} => clock <= calls[c].start + Timeout

\* "Duplicate simultaneous requests are coalesced within a worker and user",
\* also while the first of them sleeps before a retry.
DuplicatesCoalesced ==
    \A c, d \in Calling : c # d => Key(c) # Key(d)

\* "The initiating task owns cancellation; identical waiters do not cancel it":
\* nor are they cancelled; a call ends with an answer or an error of the AI
\* unless its own task was cancelled.
CancellationIsPrivate ==
    \A c \in Calls : calls[c].pc = "done" => calls[c].got # "cancelled"

\* Every call that begins ends.
CallsEnd == \A c \in Calls : calls[c].pc = "enter" ~> calls[c].pc = "done"
=============================================================================
