------------------------------- MODULE Accounts -------------------------------
(***************************************************************************)
(* Accounts, logins, tokens and the requests that carry them               *)
(* (auth/service.py, auth/security.py, api/dependencies.py, user_repo.py,  *)
(* new_tables_repo.py, history_repo.py).                                   *)
(*                                                                         *)
(* A login and a request are sequences of SQL statements, each a step;     *)
(* others run between them.  An account is known by its id, so one that    *)
(* was deleted does not come back.  A token is its claims: the account and *)
(* the second of its issue, so two logins in one second give one token.    *)
(* Several statements are wrapped in a handler that swallows the failure;  *)
(* MaxFaults bounds how many fail.                                         *)
(***************************************************************************)
EXTENDS Naturals, FiniteSets

CONSTANTS
    Users,
    Logins,          \* logins and registrations in progress
    Requests,        \* authenticated requests in progress
    Workers,         \* processes: each remembers whether user_sessions exists
    None,
    MaxFailures,     \* auth_max_failed_logins
    Lockout,         \* auth_lockout_minutes
    Lifetime,        \* auth_token_ttl_minutes
    MaxTime,         \* bound: the clock
    MaxFaults        \* bound: failed statements

ASSUME AccountsAssumption ==
    /\ Users # {} /\ Workers # {} /\ IsFiniteSet(Logins)
    /\ MaxFailures \in Nat \ {0} /\ Lockout \in Nat \ {0} /\ Lifetime \in Nat
    /\ MaxTime \in Nat /\ MaxFaults \in Nat
    /\ None \notin Users

VARIABLES
    clock,
    users,      \* dbo.users
    table,      \* whether dbo.user_sessions has been created
    session,    \* token -> its rows in dbo.user_sessions
    prefers,    \* accounts with a row in dbo.user_preferences
    recorded,   \* accounts with a row in dbo.normalization_history
    belief,     \* worker -> its cached answer about dbo.user_sessions
    login, req,
    faults,
    \* history
    issued,     \* tokens handed out
    unrecorded, \* tokens handed out without a session row
    revoked,    \* tokens whose revocation was acknowledged
    guesses     \* account -> wrong passwords checked since it was last unlocked

tables == <<users, table, session, prefers, recorded>>
history == <<issued, unrecorded, revoked, guesses>>
vars == <<clock, tables, belief, login, req, faults, history>>

Times == 0..MaxTime
Tokens == Users \X Times
Owner(t) == t[1]
Expiry(t) == t[2] + Lifetime
NoToken == <<CHOOSE u \in Users : TRUE, 0>>
Operations == {"read", "prefer", "unprefer", "record", "erase", "revoke_all"}

LoginState == [pc: {"idle", "guard", "failed", "reset", "create", "session"},
               user: Users, at: Times]
RequestState == [pc: {"idle", "session", "user", "handle", "refused"},
                 token: Tokens, home: Workers,
                 dead: BOOLEAN, gone: BOOLEAN, unchecked: BOOLEAN, fault: BOOLEAN]

IdleLogin == [pc |-> "idle", user |-> CHOOSE u \in Users : TRUE, at |-> 0]
IdleRequest == [pc |-> "idle", token |-> NoToken,
                home |-> CHOOSE w \in Workers : TRUE,
                dead |-> FALSE, gone |-> FALSE, unchecked |-> FALSE, fault |-> FALSE]

TypeOK ==
    /\ clock \in Times
    /\ users \in [Users -> [state: {"new", "live", "deleted"},
                            failures: Nat, lockedUntil: 0..MaxTime + Lockout]]
    /\ table \in BOOLEAN
    /\ session \in [Tokens -> {"absent", "active", "ended"}]
    /\ prefers \subseteq Users /\ recorded \subseteq Users
    /\ belief \in [Workers -> {"unknown", "absent", "present"}]
    /\ login \in [Logins -> LoginState]
    /\ req \in [Requests -> RequestState]
    /\ faults \in 0..MaxFaults
    /\ issued \subseteq Tokens /\ unrecorded \subseteq Tokens /\ revoked \subseteq Tokens
    /\ guesses \in [Users -> Nat]

Init ==
    /\ clock = 0
    /\ users \in [Users -> {[state |-> s, failures |-> 0, lockedUntil |-> 0] :
                               s \in {"new", "live"}}]
    /\ table \in BOOLEAN
    /\ session = [t \in Tokens |-> "absent"]
    /\ prefers = {} /\ recorded = {}
    /\ belief = [w \in Workers |-> "unknown"]
    /\ login = [l \in Logins |-> IdleLogin]
    /\ req = [r \in Requests |-> IdleRequest]
    /\ faults = 0
    /\ issued = {} /\ unrecorded = {} /\ revoked = {}
    /\ guesses = [u \in Users |-> 0]

----------------------------------------------------------------------------
(* Faults, and what a worker knows of the schema.                           *)

Fault == faults < MaxFaults /\ faults' = faults + 1
NoFault == UNCHANGED faults

\* probe_table: a cached answer, or one query; a missing table is remembered
\* for a minute, an existing one for good.
Probe(w, answer) ==
    /\ answer = (IF belief[w] = "unknown" THEN table ELSE belief[w] = "present")
    /\ belief' = [belief EXCEPT ![w] = IF answer THEN "present" ELSE "absent"]

BeliefExpires(w) ==
    /\ belief[w] = "absent"
    /\ belief' = [belief EXCEPT ![w] = "unknown"]
    /\ UNCHANGED <<clock, tables, login, req, faults, history>>

\* init_schema.sql is applied to a running deployment.
Deploy ==
    /\ ~table /\ table' = TRUE
    /\ UNCHANGED <<clock, users, session, prefers, recorded, belief, login, req, faults, history>>

----------------------------------------------------------------------------
(* Login and registration.                                                  *)

LoginGoes(l, pc) == login' = [login EXCEPT ![l].pc = pc]
LoginEnds(l) == login' = [login EXCEPT ![l] = IdleLogin]
LoginFrame == UNCHANGED <<clock, table, session, prefers, recorded, req, issued, unrecorded, revoked>>

\* The token is signed with the second of its issue.
Issue(l) == login' = [login EXCEPT ![l].pc = "session", ![l].at = clock]

\* An unknown or a deleted account costs a dummy comparison and is refused.
BeginLogin(l) ==
    /\ login[l].pc = "idle"
    /\ \E u \in Users :
          /\ users[u].state = "live"
          /\ login' = [login EXCEPT ![l] = [IdleLogin EXCEPT !.pc = "guard", !.user = u]]
    /\ UNCHANGED <<users, belief, faults, guesses>> /\ LoginFrame

Locked(u) == users[u].state = "live" /\ users[u].lockedUntil > clock

\* get_login_guard_state, then the password: a query that fails counts as
\* unlocked.
Guard(l) ==
    LET u == login[l].user IN
    /\ login[l].pc = "guard"
    /\ \/ Locked(u) /\ LoginEnds(l) /\ NoFault /\ UNCHANGED guesses
       \/ /\ \/ ~Locked(u) /\ NoFault
             \/ Fault
          /\ \/ LoginGoes(l, "reset") /\ UNCHANGED guesses
             \/ LoginGoes(l, "failed") /\ guesses' = [guesses EXCEPT ![u] = @ + 1]
    /\ UNCHANGED <<users, belief>> /\ LoginFrame

\* mutant: the account is locked one failure late
RegisterFailureLate(l) ==
    LET u == login[l].user
        n == users[u].failures + 1
        until == IF n > MaxFailures THEN clock + Lockout ELSE users[u].lockedUntil
    IN
    /\ login[l].pc = "failed"
    /\ users' = [users EXCEPT ![u].failures = n, ![u].lockedUntil = until]
    /\ NoFault /\ LoginEnds(l)
    /\ UNCHANGED <<belief, guesses>> /\ LoginFrame

\* One statement counts the failure and locks the account once over budget; a
\* deleted account has no row to update, and a failure is swallowed.
RegisterFailure(l) ==
    LET u == login[l].user
        n == users[u].failures + 1
        until == IF n >= MaxFailures THEN clock + Lockout ELSE users[u].lockedUntil
    IN
    /\ login[l].pc = "failed"
    /\ \/ /\ NoFault
          /\ users' = IF users[u].state = "live"
                      THEN [users EXCEPT ![u].failures = n, ![u].lockedUntil = until] ELSE users
       \/ Fault /\ UNCHANGED users
    /\ LoginEnds(l)
    /\ UNCHANGED <<belief, guesses>> /\ LoginFrame

\* Clears the counter and the lock; a failure is swallowed.  (The hash of a
\* legacy password was replaced just before, to the same effect.)
RegisterSuccess(l) ==
    LET u == login[l].user IN
    /\ login[l].pc = "reset"
    /\ \/ /\ NoFault
          /\ users' = [users EXCEPT ![u].failures = 0, ![u].lockedUntil = 0]
          /\ guesses' = [guesses EXCEPT ![u] = 0]
       \/ Fault /\ UNCHANGED <<users, guesses>>
    /\ Issue(l)
    /\ UNCHANGED belief /\ LoginFrame

\* The name was free when the registration looked; the unique index decides.
BeginRegister(l) ==
    /\ login[l].pc = "idle"
    /\ \E u \in Users :
          /\ users[u].state = "new"
          /\ login' = [login EXCEPT ![l] = [IdleLogin EXCEPT !.pc = "create", !.user = u]]
    /\ UNCHANGED <<users, belief, faults, guesses>> /\ LoginFrame

CreateUser(l) ==
    LET u == login[l].user IN
    /\ login[l].pc = "create"
    /\ \/ users[u].state = "new" /\ users' = [users EXCEPT ![u].state = "live"]
                                 /\ Issue(l)
       \/ users[u].state # "new" /\ UNCHANGED users /\ LoginEnds(l)
    /\ UNCHANGED <<belief, faults, guesses>> /\ LoginFrame

\* A second login of the same second gives a token that was revoked a row again.
Revived(t) ==
    [r \in Requests |-> [req[r] EXCEPT !.dead = @ /\ req[r].token # t]]

\* The row of the token.  Without the table, with a failed insert or with an
\* account deleted meanwhile (the foreign key) there is none; the token is
\* handed out all the same.
CreateSession(l) ==
    LET t == <<login[l].user, login[l].at>> IN
    /\ login[l].pc = "session"
    /\ issued' = issued \cup {t}
    /\ \/ /\ NoFault
          /\ \E w \in Workers, known \in BOOLEAN :
                /\ Probe(w, known)
                /\ IF known /\ users[Owner(t)].state = "live"
                   THEN /\ session' = [session EXCEPT ![t] = "active"]
                        /\ revoked' = revoked \ {t} /\ req' = Revived(t)
                        /\ UNCHANGED unrecorded
                   ELSE unrecorded' = unrecorded \cup {t} /\ UNCHANGED <<session, revoked, req>>
       \/ /\ Fault /\ unrecorded' = unrecorded \cup {t}
          /\ UNCHANGED <<session, revoked, belief, req>>
    /\ LoginEnds(l)
    /\ UNCHANGED <<clock, users, table, prefers, recorded, guesses>>

----------------------------------------------------------------------------
(* Requests.                                                                *)

RequestGoes(r, pc) == req' = [req EXCEPT ![r].pc = pc]
RequestEnds(r) == req' = [req EXCEPT ![r] = IdleRequest]
RequestFrame == UNCHANGED <<clock, users, table, login, issued, unrecorded, guesses>>
Reads == UNCHANGED <<session, prefers, recorded, revoked>>

Begun(t, w) == [IdleRequest EXCEPT !.pc = "session", !.token = t, !.home = w,
                    !.dead = t \in revoked, !.gone = users[Owner(t)].state = "deleted"]

\* decode_access_token refuses a token past its expiry; the signature is taken
\* to be sound.
BeginRequest(r) ==
    /\ req[r].pc \in {"idle", "refused"}
    /\ \E t \in issued, w \in Workers : 
          /\ Expiry(t) >= clock
          /\ req' = [req EXCEPT ![r] = Begun(t, w)]
    /\ UNCHANGED <<belief, faults>> /\ Reads /\ RequestFrame

\* mutants: a revoked row passes; a token ends a minute early
ValidRecorded(t) == session[t] # "absent" /\ Expiry(t) > clock
ValidEarly(t) == session[t] = "active" /\ Expiry(t) > clock + 1

\* is_token_valid: without the table every token passes; with it, a query that
\* fails refuses.
Valid(t) == session[t] = "active" /\ Expiry(t) > clock

CheckSession(r) ==
    /\ req[r].pc = "session"
    /\ \/ /\ NoFault
          /\ \E known \in BOOLEAN :
                /\ Probe(req[r].home, known)
                /\ req' = [req EXCEPT ![r].unchecked = ~known,
                                      ![r].pc = IF known => Valid(req[r].token)
                                                THEN "user" ELSE "refused"]
       \/ /\ Fault
          /\ UNCHANGED belief
          /\ req' = [req EXCEPT ![r].pc = IF belief[req[r].home] = "absent" THEN "user" ELSE "refused",
                                ![r].unchecked = belief[req[r].home] = "absent",
                                ![r].fault = TRUE]
    /\ Reads /\ RequestFrame

FindUser(r) ==
    /\ req[r].pc = "user"
    /\ RequestGoes(r, IF users[Owner(req[r].token)].state = "live" THEN "handle" ELSE "refused")
    /\ UNCHANGED <<belief, faults>> /\ Reads /\ RequestFrame

\* mutant: the tables are declared without the foreign key
RefersAnyway(u, rows) == rows \cup {u}

\* The foreign keys: nothing is written for an account that is gone.
Refers(u, rows) == IF users[u].state = "live" THEN rows \cup {u} ELSE rows

\* revoke_all_user_sessions: every row of the account.
EndAll(u) == [t \in Tokens |-> IF Owner(t) = u /\ session[t] = "active" THEN "ended" ELSE session[t]]

PrefersAfter(op, u) ==
    CASE op = "prefer" /\ table -> Refers(u, prefers)
      [] op = "unprefer" -> prefers \ {u}
      [] OTHER -> prefers

RecordedAfter(op, u) ==
    CASE op = "record" -> Refers(u, recorded)
      [] op = "erase" -> recorded \ {u}
      [] OTHER -> recorded

\* The handler, after the account was looked up.
Handle(r) ==
    LET u == Owner(req[r].token) IN
    /\ req[r].pc = "handle"
    /\ \E op \in Operations, known \in BOOLEAN :
          /\ prefers' = PrefersAfter(op, u)
          /\ recorded' = RecordedAfter(op, u)
          /\ IF op = "revoke_all" THEN Probe(req[r].home, known)
                                  ELSE ~known /\ UNCHANGED belief
          /\ IF known
             THEN /\ session' = EndAll(u)
                  /\ revoked' = revoked \cup {t \in issued : session[t] # session'[t]}
             ELSE UNCHANGED <<session, revoked>>
    /\ RequestEnds(r)
    /\ UNCHANGED faults /\ RequestFrame

\* /api/auth/logout takes any token and revokes its active rows; a worker
\* without the table, or a failed update, answers revoked = FALSE.
Logout(w) ==
    \E t \in issued, known \in BOOLEAN :
        /\ Probe(w, known)
        /\ known /\ session[t] = "active"
        /\ session' = [session EXCEPT ![t] = "ended"]
        /\ revoked' = revoked \cup {t}
        /\ UNCHANGED <<clock, users, table, prefers, recorded, login, req, faults, issued,
                       unrecorded, guesses>>

\* An administrator deletes an account and what refers to it, in one
\* transaction that fails where the tables do not exist; history keeps its rows
\* without an owner.
DeleteUser(u) ==
    /\ table /\ users[u].state = "live"
    /\ users' = [users EXCEPT ![u].state = "deleted"]
    /\ session' = [t \in Tokens |-> IF Owner(t) = u THEN "absent" ELSE session[t]]
    /\ prefers' = prefers \ {u} /\ recorded' = recorded \ {u}
    /\ UNCHANGED <<clock, table, belief, login, req, faults, history>>

\* A lock that has run out leaves the counter where it is.
Tick ==
    /\ clock < MaxTime
    /\ clock' = clock + 1
    /\ guesses' = [u \in Users |-> IF users[u].lockedUntil = clock' THEN 0 ELSE guesses[u]]
    /\ UNCHANGED <<tables, belief, login, req, faults, issued, unrecorded, revoked>>

----------------------------------------------------------------------------
LoginStep(l) == BeginLogin(l) \/ Guard(l) \/ RegisterFailure(l)
                    \/ RegisterSuccess(l) \/ BeginRegister(l) \/ CreateUser(l) \/ CreateSession(l)
RequestStep(r) == BeginRequest(r) \/ CheckSession(r) \/ FindUser(r) \/ Handle(r)

Next ==
    \/ \E l \in Logins : LoginStep(l)
    \/ \E r \in Requests : RequestStep(r)
    \/ \E w \in Workers : BeliefExpires(w) \/ Logout(w)
    \/ \E u \in Users : DeleteUser(u)
    \/ Deploy \/ Tick

Spec == Init /\ [][Next]_vars

----------------------------------------------------------------------------
(* Properties.                                                              *)

\* However logins interleave, the passwords tried on an account between two
\* unlocks exceed the budget at most by the logins that passed the guard
\* before the lock, and by the statements that failed; a deleted account has
\* no lock, and no password opens it.
GuessesBounded ==
    \A u \in Users :
        users[u].state = "live" => guesses[u] <= MaxFailures + Cardinality(Logins) - 1 + faults

\* A request that starts after its token was revoked does nothing, unless its
\* worker does not know the table of revocations yet; one that starts after
\* its account was deleted does nothing at all.
RevokedRefused ==
    \A r \in Requests : req[r].pc = "handle" =>
        ~req[r].gone /\ (req[r].dead => req[r].unchecked)

\* Nobody is signed out for another's doing: a request is refused only for a
\* token that expired, was revoked or never recorded, a deleted account, or a
\* failed query.
RefusalsJustified ==
    [][\A r \in Requests : req[r].pc # "refused" /\ req'[r].pc = "refused" =>
          LET t == req[r].token IN
          \/ Expiry(t) <= clock \/ t \in revoked \cup unrecorded
          \/ users[Owner(t)].state = "deleted" \/ req'[r].fault]_vars

\* Nothing refers to an account that does not exist, though logins and
\* requests that saw it finish after its deletion.
NoOrphans ==
    /\ \A t \in Tokens : session[t] # "absent" => users[Owner(t)].state = "live"
    /\ \A u \in prefers \cup recorded : users[u].state = "live"
=============================================================================
