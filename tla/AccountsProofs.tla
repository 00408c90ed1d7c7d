----------------------------- MODULE AccountsProofs -----------------------------
(***************************************************************************)
(* For every number of accounts, logins, requests, workers and failed      *)
(* statements, every budget of failures and every lifetime: passwords are  *)
(* tried no more often than the budget and the logins under way allow, a   *)
(* revoked token and a deleted account do nothing more, nobody else is     *)
(* refused, and no row outlives its account.                               *)
(***************************************************************************)
EXTENDS Accounts, FiniteSetTheorems, TLAPS

\* A token is handed out to an account that exists or did, and has a row unless
\* it was revoked, was never recorded or went with its account.
IssuedKnown ==
    \A t \in issued :
        /\ users[Owner(t)].state # "new"
        /\ session[t] = "active" \/ t \in revoked \cup unrecorded
           \/ users[Owner(t)].state = "deleted"

RevokedEnded == \A t \in revoked : session[t] # "active"

\* Whoever is past the look for an account found one.
LoginsKnown ==
    \A l \in Logins :
        login[l].pc \notin {"idle", "create"} => users[login[l].user].state # "new"

\* What was true when a request began is still true, unless a token was given
\* its row again; the check of the row lets a revoked token pass only where the
\* table is unknown.
Known(q) ==
    /\ q.pc # "idle" => q.token \in issued
    /\ q.dead => q.token \in revoked
    /\ q.gone => users[Owner(q.token)].state = "deleted"
    /\ q.pc \in {"user", "handle"} /\ q.dead => q.unchecked
    /\ q.pc = "handle" => ~q.gone

RequestsKnown == \A r \in Requests : Known(req[r])

\* Logins that have tried a wrong password on u and not counted it yet.
Failing(u) == {l \in Logins : login[l].pc = "failed" /\ login[l].user = u}

\* Every guess is counted, about to be, or lost to a failed statement; once the
\* lock has run out at a full counter, the counter is full of earlier ones.
Counted(u) ==
    /\ users[u].state = "new" => guesses[u] = 0
    /\ users[u].state = "live" =>
          /\ guesses[u] <= users[u].failures + Cardinality(Failing(u)) + faults
          /\ users[u].failures >= MaxFailures /\ users[u].lockedUntil <= clock
                => guesses[u] <= Cardinality(Failing(u)) + faults
          /\ guesses[u] <= MaxFailures + Cardinality(Logins) - 1 + faults

GuessesCounted == \A u \in Users : Counted(u)

SessionsInv == NoOrphans /\ IssuedKnown /\ RevokedEnded /\ LoginsKnown
IInv == TypeOK /\ SessionsInv /\ RequestsKnown /\ GuessesCounted

----------------------------------------------------------------------------
(* Types.                                                                   *)

LEMMA Idle ==
    /\ IdleLogin \in LoginState /\ IdleRequest \in RequestState
    /\ IdleLogin.pc = "idle" /\ IdleRequest.pc = "idle" /\ NoToken \in Tokens
    /\ IdleRequest.dead = FALSE /\ IdleRequest.gone = FALSE
<1>1. (CHOOSE u \in Users : TRUE) \in Users /\ (CHOOSE w \in Workers : TRUE) \in Workers
    BY AccountsAssumption
<1>2. NoToken \in Tokens
    BY <1>1, AccountsAssumption DEF NoToken, Tokens, Times
<1>3. IdleLogin \in LoginState
    BY <1>1, AccountsAssumption DEF IdleLogin, LoginState, Times
<1>4. QED
    BY <1>1, <1>2, <1>3 DEF IdleLogin, IdleRequest, RequestState

LEMMA InitTypeOK == Init => TypeOK
<1> SUFFICES ASSUME Init PROVE TypeOK
    OBVIOUS
<1>1. \A u \in Users : 0 \in 0..MaxTime + Lockout
    BY AccountsAssumption
<1>2. clock \in Times /\ faults \in 0..MaxFaults
    BY AccountsAssumption DEF Init, Times
<1>3. login \in [Logins -> LoginState] /\ req \in [Requests -> RequestState]
    BY Idle DEF Init
<1>4. users \in [Users -> [state: {"new", "live", "deleted"},
                           failures: Nat, lockedUntil: 0..MaxTime + Lockout]]
    BY <1>1 DEF Init
<1>5. QED
    BY <1>2, <1>3, <1>4 DEF Init, TypeOK

\* A login that moves on, ends or is about to hand out a token is a login.
LEMMA LoginMoves ==
    ASSUME TypeOK, NEW l \in Logins
    PROVE  /\ \A pc \in {"idle", "guard", "failed", "reset", "create", "session"} :
                  [login EXCEPT ![l].pc = pc] \in [Logins -> LoginState]
           /\ [login EXCEPT ![l] = IdleLogin] \in [Logins -> LoginState]
           /\ [login EXCEPT ![l].pc = "session", ![l].at = clock] \in [Logins -> LoginState]
           /\ \A pc \in {"guard", "create"}, u \in Users :
                  [login EXCEPT ![l] = [IdleLogin EXCEPT !.pc = pc, !.user = u]]
                      \in [Logins -> LoginState]
<1>1. login[l] \in LoginState /\ clock \in Times
    BY DEF TypeOK
<1>2. \A pc \in {"idle", "guard", "failed", "reset", "create", "session"} :
          [login[l] EXCEPT !.pc = pc] \in LoginState
    BY <1>1 DEF LoginState
<1>3. [login[l] EXCEPT !.pc = "session", !.at = clock] \in LoginState
    BY <1>1 DEF LoginState
<1>4. \A pc \in {"guard", "create"}, u \in Users :
          [IdleLogin EXCEPT !.pc = pc, !.user = u] \in LoginState
    BY Idle DEF LoginState
<1>5. login \in [Logins -> LoginState]
    BY DEF TypeOK
<1>6. QED
    BY <1>2, <1>3, <1>4, <1>5, Idle

\* What a login touches keeps its type.
LoginOwn ==
    /\ users' \in [Users -> [state: {"new", "live", "deleted"},
                             failures: Nat, lockedUntil: 0..MaxTime + Lockout]]
    /\ login' \in [Logins -> LoginState]
    /\ guesses' \in [Users -> Nat]
    /\ faults' \in 0..MaxFaults
    /\ belief' \in [Workers -> {"unknown", "absent", "present"}]

LEMMA LoginTypes ==
    ASSUME TypeOK, NEW l \in Logins, LoginStep(l)
    PROVE  TypeOK'
<1> DEFINE u == login[l].user
           t == <<login[l].user, login[l].at>>
<1>1. login[l] \in LoginState /\ clock \in Times /\ u \in Users /\ login[l].at \in Times
    BY DEF TypeOK, LoginState
<1>2. t \in Tokens
    BY <1>1 DEF Tokens
<1>3. users[u] \in [state: {"new", "live", "deleted"}, failures: Nat, lockedUntil: 0..MaxTime + Lockout]
    BY <1>1 DEF TypeOK
<1>4. ASSUME LoginOwn, LoginFrame PROVE TypeOK'
    BY <1>4 DEF LoginOwn, LoginFrame, TypeOK
<1>5. CASE BeginLogin(l)
    <2>1. PICK v \in Users : login' = [login EXCEPT ![l] = [IdleLogin EXCEPT !.pc = "guard", !.user = v]]
        BY <1>5 DEF BeginLogin
    <2>2. login' \in [Logins -> LoginState]
        BY <2>1, LoginMoves
    <2>3. QED
        BY <1>4, <1>5, <2>2 DEF BeginLogin, LoginOwn, TypeOK
<1>6. CASE Guard(l)
    <2>1. login' \in [Logins -> LoginState]
        <3>1. \/ login' = [login EXCEPT ![l] = IdleLogin]
              \/ login' = [login EXCEPT ![l].pc = "reset"]
              \/ login' = [login EXCEPT ![l].pc = "failed"]
            BY <1>6 DEF Guard, LoginGoes, LoginEnds
        <3>2. [login EXCEPT ![l].pc = "reset"] \in [Logins -> LoginState]
            BY LoginMoves
        <3>3. [login EXCEPT ![l].pc = "failed"] \in [Logins -> LoginState]
            BY LoginMoves
        <3>4. [login EXCEPT ![l] = IdleLogin] \in [Logins -> LoginState]
            BY LoginMoves
        <3>5. QED
            BY <3>1, <3>2, <3>3, <3>4
    <2>2. guesses' \in [Users -> Nat]
        BY <1>6 DEF Guard, TypeOK
    <2>3. faults' \in 0..MaxFaults
        BY <1>6, AccountsAssumption DEF Guard, Fault, NoFault, TypeOK
    <2>4. QED
        BY <1>4, <1>6, <2>1, <2>2, <2>3 DEF Guard, LoginOwn, TypeOK
<1>7. CASE RegisterFailure(l)
    <2> DEFINE n == users[u].failures + 1
               until == IF n >= MaxFailures THEN clock + Lockout ELSE users[u].lockedUntil
    <2>1. n \in Nat /\ until \in 0..MaxTime + Lockout
        BY <1>1, <1>3, AccountsAssumption DEF Times
    <2>2. users' = [users EXCEPT ![u].failures = n, ![u].lockedUntil = until] \/ users' = users
        BY <1>7 DEF RegisterFailure
    <2>3. [users[u] EXCEPT !.failures = n, !.lockedUntil = until]
              \in [state: {"new", "live", "deleted"}, failures: Nat, lockedUntil: 0..MaxTime + Lockout]
        <3> HIDE DEF n, until
        <3>1. QED
            BY <1>3, <2>1
    <2>4. users' \in [Users -> [state: {"new", "live", "deleted"},
                              failures: Nat, lockedUntil: 0..MaxTime + Lockout]]
        <3> HIDE DEF n, until, u
        <3>1. QED
            BY <2>2, <2>3 DEF TypeOK
    <2>5. faults' \in 0..MaxFaults
        BY <1>7, AccountsAssumption DEF RegisterFailure, Fault, NoFault, TypeOK
    <2>6. login' \in [Logins -> LoginState]
        BY <1>7, LoginMoves DEF RegisterFailure, LoginEnds
    <2>7. QED
        BY <1>4, <1>7, <2>4, <2>5, <2>6 DEF RegisterFailure, LoginOwn, TypeOK
<1>8. CASE RegisterSuccess(l)
    <2>1. 0 \in 0..MaxTime + Lockout
        BY AccountsAssumption
    <2>2. users' = [users EXCEPT ![u].failures = 0, ![u].lockedUntil = 0] \/ users' = users
        BY <1>8 DEF RegisterSuccess
    <2>3. [users[u] EXCEPT !.failures = 0, !.lockedUntil = 0]
              \in [state: {"new", "live", "deleted"}, failures: Nat, lockedUntil: 0..MaxTime + Lockout]
        BY <1>3, <2>1
    <2>4. users' \in [Users -> [state: {"new", "live", "deleted"},
                              failures: Nat, lockedUntil: 0..MaxTime + Lockout]]
        BY <2>2, <2>3 DEF TypeOK
    <2>5. guesses' \in [Users -> Nat]
        BY <1>8 DEF RegisterSuccess, TypeOK
    <2>6. faults' \in 0..MaxFaults
        BY <1>8, AccountsAssumption DEF RegisterSuccess, Fault, NoFault, TypeOK
    <2>7. login' \in [Logins -> LoginState]
        BY <1>8, LoginMoves DEF RegisterSuccess, Issue
    <2>8. QED
        BY <1>4, <1>8, <2>4, <2>5, <2>6, <2>7 DEF RegisterSuccess, LoginOwn, TypeOK
<1>9. CASE BeginRegister(l)
    <2>1. PICK v \in Users : login' = [login EXCEPT ![l] = [IdleLogin EXCEPT !.pc = "create", !.user = v]]
        BY <1>9 DEF BeginRegister
    <2>2. login' \in [Logins -> LoginState]
        BY <2>1, LoginMoves
    <2>3. QED
        BY <1>4, <1>9, <2>2 DEF BeginRegister, LoginOwn, TypeOK
<1>10. CASE CreateUser(l)
    <2>1. [users[u] EXCEPT !.state = "live"]
              \in [state: {"new", "live", "deleted"}, failures: Nat, lockedUntil: 0..MaxTime + Lockout]
        BY <1>3
    <2>2. users' = [users EXCEPT ![u].state = "live"] \/ users' = users
        BY <1>10 DEF CreateUser
    <2>3. users' \in [Users -> [state: {"new", "live", "deleted"},
                              failures: Nat, lockedUntil: 0..MaxTime + Lockout]]
        BY <2>1, <2>2 DEF TypeOK
    <2>4. login' \in [Logins -> LoginState]
        <3> DEFINE issued1 == [login EXCEPT ![l].pc = "session", ![l].at = clock]
                   ended == [login EXCEPT ![l] = IdleLogin]
        <3>1. login' = ended \/ login' = issued1
            BY <1>10 DEF CreateUser, Issue, LoginEnds
        <3>2. ended \in [Logins -> LoginState] /\ issued1 \in [Logins -> LoginState]
            BY LoginMoves
        <3> HIDE DEF ended, issued1
        <3>3. QED
            BY <3>1, <3>2
    <2>5. QED
        BY <1>4, <1>10, <2>3, <2>4 DEF CreateUser, LoginOwn, TypeOK
<1>11. CASE CreateSession(l)
    <2>1. \A r \in Requests : [req[r] EXCEPT !.dead = @ /\ req[r].token # t] \in RequestState
        <3> HIDE DEF t
        <3> SUFFICES ASSUME NEW r \in Requests
                     PROVE  [req[r] EXCEPT !.dead = @ /\ req[r].token # t] \in RequestState
            OBVIOUS
        <3>1. req[r] \in RequestState
            BY DEF TypeOK
        <3>2. (req[r].dead /\ req[r].token # t) \in BOOLEAN
            OBVIOUS
        <3>3. QED
            BY <3>1, <3>2 DEF RequestState
    <2>2. Revived(t) \in [Requests -> RequestState]
        BY <2>1 DEF Revived
    <2>3. req' \in [Requests -> RequestState]
        BY <1>11, <2>2 DEF CreateSession, TypeOK
    <2>4. login' \in [Logins -> LoginState]
        BY <1>11, LoginMoves DEF CreateSession, LoginEnds
    <2>5. faults' \in 0..MaxFaults
        BY <1>11, AccountsAssumption DEF CreateSession, Fault, NoFault, TypeOK
    <2>6. belief' \in [Workers -> {"unknown", "absent", "present"}]
        BY <1>11 DEF CreateSession, Probe, TypeOK
    <2>7. /\ session' \in [Tokens -> {"absent", "active", "ended"}]
          /\ issued' \subseteq Tokens /\ unrecorded' \subseteq Tokens /\ revoked' \subseteq Tokens
        BY <1>2, <1>11 DEF CreateSession, TypeOK
    <2>8. QED
        BY <1>11, <2>3, <2>4, <2>5, <2>6, <2>7 DEF CreateSession, TypeOK
<1>12. QED
    BY <1>5, <1>6, <1>7, <1>8, <1>9, <1>10, <1>11 DEF LoginStep

LEMMA RequestTypes ==
    ASSUME TypeOK, NEW r \in Requests, RequestStep(r)
    PROVE  TypeOK'
<1> DEFINE u == Owner(req[r].token)
<1>1. req[r] \in RequestState /\ req[r].token \in Tokens /\ req[r].home \in Workers /\ u \in Users
    BY DEF TypeOK, RequestState, Tokens, Owner
<1>2. CASE BeginRequest(r)
    <2>1. PICK t \in issued, w \in Workers : req' = [req EXCEPT ![r] = Begun(t, w)]
        BY <1>2 DEF BeginRequest
    <2>2. t \in Tokens
        BY DEF TypeOK
    <2>3. Begun(t, w) \in RequestState
        <3>1. (t \in revoked) \in BOOLEAN /\ (users[Owner(t)].state = "deleted") \in BOOLEAN
            OBVIOUS
        <3>2. QED
            BY <2>2, <3>1, Idle DEF Begun, RequestState
    <2>4. QED
        BY <1>2, <2>1, <2>3 DEF BeginRequest, Reads, RequestFrame, TypeOK
<1>3. CASE CheckSession(r)
    <2>1. \A pc \in {"user", "refused"}, b \in BOOLEAN :
              /\ [req[r] EXCEPT !.unchecked = b, !.pc = pc] \in RequestState
              /\ [req[r] EXCEPT !.pc = pc, !.unchecked = b, !.fault = TRUE] \in RequestState
        BY <1>1 DEF RequestState
    <2>2. req' \in [Requests -> RequestState]
        <3>1. CASE \E known \in BOOLEAN :
                      req' = [req EXCEPT ![r].unchecked = ~known,
                                         ![r].pc = IF known => Valid(req[r].token)
                                                   THEN "user" ELSE "refused"]
            BY <2>1, <3>1 DEF TypeOK
        <3>2. CASE req' = [req EXCEPT ![r].pc = IF belief[req[r].home] = "absent" THEN "user" ELSE "refused",
                                      ![r].unchecked = belief[req[r].home] = "absent",
                                      ![r].fault = TRUE]
            BY <2>1, <3>2 DEF TypeOK
        <3>3. QED
            BY <1>3, <3>1, <3>2 DEF CheckSession
    <2>3. faults' \in 0..MaxFaults
        <3>1. NoFault \/ Fault
            BY <1>3 DEF CheckSession
        <3>2. QED
            BY <3>1, AccountsAssumption DEF Fault, NoFault, TypeOK
    <2>4. belief' \in [Workers -> {"unknown", "absent", "present"}]
        <3>1. \/ belief' = belief
              \/ belief' = [belief EXCEPT ![req[r].home] = "present"]
              \/ belief' = [belief EXCEPT ![req[r].home] = "absent"]
            BY <1>3 DEF CheckSession, Probe
        <3>2. QED
            BY <3>1 DEF TypeOK
    <2>5. QED
        BY <1>3, <2>2, <2>3, <2>4 DEF CheckSession, Reads, RequestFrame, TypeOK
<1>4. CASE FindUser(r)
    BY <1>1, <1>4 DEF FindUser, RequestGoes, Reads, RequestFrame, TypeOK, RequestState
<1>5. CASE Handle(r)
    <2>1. PICK op \in Operations, known \in BOOLEAN :
              /\ prefers' = PrefersAfter(op, u)
              /\ recorded' = RecordedAfter(op, u)
              /\ IF op = "revoke_all" THEN Probe(req[r].home, known) ELSE ~known /\ UNCHANGED belief
              /\ IF known THEN /\ session' = EndAll(u)
                               /\ revoked' = revoked \cup {t \in issued : session[t] # session'[t]}
                 ELSE UNCHANGED <<session, revoked>>
        BY <1>5 DEF Handle
    <2>2. prefers' \subseteq Users /\ recorded' \subseteq Users
        BY <1>1, <2>1 DEF PrefersAfter, RecordedAfter, Refers, TypeOK
    <2>3. EndAll(u) \in [Tokens -> {"absent", "active", "ended"}]
        BY DEF EndAll, TypeOK
    <2>4. session' \in [Tokens -> {"absent", "active", "ended"}] /\ revoked' \subseteq Tokens
        BY <2>1, <2>3 DEF TypeOK
    <2>5. belief' \in [Workers -> {"unknown", "absent", "present"}]
        BY <2>1 DEF Probe, TypeOK
    <2>6. req' \in [Requests -> RequestState]
        BY <1>5, Idle DEF Handle, RequestEnds, TypeOK
    <2>7. QED
        BY <1>5, <2>2, <2>4, <2>5, <2>6 DEF Handle, RequestFrame, TypeOK
<1>6. QED
    BY <1>2, <1>3, <1>4, <1>5 DEF RequestStep

LEMMA OtherTypes ==
    ASSUME TypeOK,
           \/ \E w \in Workers : BeliefExpires(w) \/ Logout(w)
           \/ \E u \in Users : DeleteUser(u)
           \/ Deploy \/ Tick \/ UNCHANGED vars
    PROVE  TypeOK'
<1>1. CASE \E w \in Workers : BeliefExpires(w)
    BY <1>1 DEF BeliefExpires, tables, history, TypeOK
<1>2. CASE \E w \in Workers : Logout(w)
    BY <1>2 DEF Logout, Probe, TypeOK
<1>3. CASE \E u \in Users : DeleteUser(u)
    BY <1>3 DEF DeleteUser, history, TypeOK
<1>4. CASE Deploy
    BY <1>4 DEF Deploy, history, TypeOK
<1>5. CASE Tick
    <2>1. clock + 1 \in Times
        BY <1>5, AccountsAssumption DEF Tick, TypeOK, Times
    <2>2. guesses' \in [Users -> Nat]
        BY <1>5 DEF Tick, TypeOK
    <2>3. QED
        BY <1>5, <2>1, <2>2 DEF Tick, tables, TypeOK
<1>6. CASE UNCHANGED vars
    BY <1>6 DEF vars, tables, history, TypeOK
<1>7. QED
    BY <1>1, <1>2, <1>3, <1>4, <1>5, <1>6

LEMMA StepTypes == TypeOK /\ [Next]_vars => TypeOK'
BY LoginTypes, RequestTypes, OtherTypes DEF Next

----------------------------------------------------------------------------
(* Accounts, tokens and rows.                                               *)

\* An account that exists or did is not new again, and stays what it is.
StatesStay ==
    \A u \in Users :
        \/ users'[u].state = users[u].state
        \/ users[u].state = "new" /\ users'[u].state = "live"

\* The steps that touch no token and no row, and the login that takes one.
LEMMA SessionsStay ==
    ASSUME TypeOK, SessionsInv, StatesStay,
           UNCHANGED <<session, prefers, recorded, issued, unrecorded, revoked>>,
           \A l \in Logins :
               \/ login'[l] = login[l]
               \/ login'[l].pc \in {"idle", "create"}
               \/ login'[l].user \in Users /\ users'[login'[l].user].state # "new"
    PROVE  SessionsInv'
<1>1. \A t \in Tokens : Owner(t) \in Users
    BY DEF Tokens, Owner
<1>2. issued \subseteq Tokens /\ prefers \subseteq Users /\ recorded \subseteq Users
    BY DEF TypeOK
<1>3. NoOrphans'
    BY <1>1, <1>2 DEF SessionsInv, NoOrphans, StatesStay
<1>4. IssuedKnown'
    BY <1>1, <1>2 DEF SessionsInv, IssuedKnown, StatesStay
<1>5. RevokedEnded'
    BY DEF SessionsInv, RevokedEnded
<1>6. \A l \in Logins : login[l].user \in Users
    BY DEF TypeOK, LoginState
<1>7. LoginsKnown'
    BY <1>6 DEF SessionsInv, LoginsKnown, StatesStay
<1>8. QED
    BY <1>3, <1>4, <1>5, <1>7 DEF SessionsInv

LEMMA LoginSessions ==
    ASSUME TypeOK, SessionsInv, NEW l \in Logins, LoginStep(l)
    PROVE  SessionsInv'
<1> DEFINE u == login[l].user
           t == <<login[l].user, login[l].at>>
<1>1. /\ login[l] \in LoginState /\ u \in Users /\ t \in Tokens /\ Owner(t) = u
      /\ login \in [Logins -> LoginState] /\ users \in [Users -> [state: {"new", "live", "deleted"},
                            failures: Nat, lockedUntil: 0..MaxTime + Lockout]]
    BY DEF TypeOK, LoginState, Tokens, Owner
<1>2. ASSUME LoginFrame, StatesStay, NEW r, login' = [login EXCEPT ![l] = r],
             r.pc \in {"idle", "create"} \/ (r.user \in Users /\ users'[r.user].state # "new")
      PROVE  SessionsInv'
    <2>1. \A m \in Logins : login'[m] = IF m = l THEN r ELSE login[m]
        BY <1>1, <1>2
    <2>2. QED
        BY <1>2, <2>1, SessionsStay DEF LoginFrame
<1>4. u \in Users /\ (login[l].pc \notin {"idle", "create"} => users[u].state # "new")
    BY <1>1 DEF SessionsInv, LoginsKnown
<1>5. CASE BeginLogin(l)
    <2>1. PICK v \in Users : /\ users[v].state = "live" /\ users' = users
                             /\ login' = [login EXCEPT ![l] = [IdleLogin EXCEPT !.pc = "guard", !.user = v]]
        BY <1>5 DEF BeginLogin
    <2>2. [IdleLogin EXCEPT !.pc = "guard", !.user = v].user = v
        BY DEF IdleLogin
    <2>3. StatesStay
        BY <2>1 DEF StatesStay
    <2>4. LoginFrame
        BY <1>5 DEF BeginLogin
    <2>5. QED
        BY <1>2, <2>1, <2>2, <2>3, <2>4
<1>6. CASE Guard(l)
    <2>1. LoginFrame /\ StatesStay /\ users' = users
        BY <1>6 DEF Guard, StatesStay
    <2>2. CASE login' = [login EXCEPT ![l] = IdleLogin]
        BY <1>2, <2>1, <2>2, Idle
    <2>3. CASE \E pc \in {"reset", "failed"} : login' = [login EXCEPT ![l].pc = pc]
        <3>1. PICK pc \in {"reset", "failed"} : login' = [login EXCEPT ![l].pc = pc]
            BY <2>3
        <3>2. login' = [login EXCEPT ![l] = [login[l] EXCEPT !.pc = pc]]
            BY <3>1
        <3>3. [login[l] EXCEPT !.pc = pc].user = u
            BY <1>1 DEF LoginState
        <3>4. login[l].pc = "guard"
            BY <1>6 DEF Guard
        <3>5. QED
            BY <1>2, <1>4, <2>1, <3>2, <3>3, <3>4
    <2>4. QED
        BY <1>6, <2>2, <2>3 DEF Guard, LoginGoes, LoginEnds
<1>7. CASE RegisterFailure(l)
    <2>1. LoginFrame /\ login' = [login EXCEPT ![l] = IdleLogin]
        BY <1>7 DEF RegisterFailure, LoginEnds
    <2>2. StatesStay
        BY <1>1, <1>7 DEF RegisterFailure, StatesStay
    <2>3. QED
        BY <1>2, <2>1, <2>2, Idle
<1>8. CASE RegisterSuccess(l)
    <2>1. LoginFrame /\ login' = [login EXCEPT ![l] = [login[l] EXCEPT !.pc = "session", !.at = clock]]
        BY <1>8 DEF RegisterSuccess, Issue
    <2>2. StatesStay /\ users'[u].state = users[u].state
        BY <1>1, <1>8 DEF RegisterSuccess, StatesStay
    <2>3. [login[l] EXCEPT !.pc = "session", !.at = clock].user = u
        BY <1>1 DEF LoginState
    <2>4. login[l].pc = "reset"
        BY <1>8 DEF RegisterSuccess
    <2>5. QED
        BY <1>2, <1>4, <2>1, <2>2, <2>3, <2>4
<1>9. CASE BeginRegister(l)
    <2>1. PICK v \in Users : login' = [login EXCEPT ![l] = [IdleLogin EXCEPT !.pc = "create", !.user = v]]
        BY <1>9 DEF BeginRegister
    <2>2. [IdleLogin EXCEPT !.pc = "create", !.user = v].pc = "create"
        BY DEF IdleLogin
    <2>3. LoginFrame /\ StatesStay
        BY <1>9 DEF BeginRegister, StatesStay
    <2>4. QED
        BY <1>2, <2>1, <2>2, <2>3
<1>10. CASE CreateUser(l)
    <2>1. LoginFrame /\ StatesStay
        BY <1>1, <1>10 DEF CreateUser, StatesStay
    <2>2. CASE login' = [login EXCEPT ![l] = IdleLogin]
        BY <1>2, <2>1, <2>2, Idle
    <2>3. CASE users' = [users EXCEPT ![u].state = "live"]
               /\ login' = [login EXCEPT ![l] = [login[l] EXCEPT !.pc = "session", !.at = clock]]
        <3>1. users'[u].state = "live"
            BY <1>1, <2>3
        <3>2. [login[l] EXCEPT !.pc = "session", !.at = clock].user = u
            BY <1>1 DEF LoginState
        <3>3. QED
            BY <1>2, <1>4, <2>1, <2>3, <3>1, <3>2
    <2>4. QED
        BY <1>10, <2>2, <2>3 DEF CreateUser, Issue, LoginEnds
<1>11. CASE CreateSession(l)
    <2>1. users' = users /\ prefers' = prefers /\ recorded' = recorded /\ issued' = issued \cup {t}
        BY <1>11 DEF CreateSession
    <2>2. users[u].state # "new"
        BY <1>4, <1>11 DEF CreateSession
    <2>3. \/ /\ users[u].state = "live" /\ session' = [session EXCEPT ![t] = "active"]
             /\ revoked' = revoked \ {t} /\ unrecorded' = unrecorded
          \/ session' = session /\ revoked' = revoked /\ unrecorded' = unrecorded \cup {t}
        BY <1>1, <1>11 DEF CreateSession
    <2>4. session \in [Tokens -> {"absent", "active", "ended"}] /\ issued \subseteq Tokens
          /\ revoked \subseteq Tokens
        BY DEF TypeOK
    <2>5. login' = [login EXCEPT ![l] = IdleLogin]
        BY <1>11 DEF CreateSession, LoginEnds
    <2> HIDE DEF u, t
    <2>6. NoOrphans'
        BY <1>1, <2>1, <2>3, <2>4 DEF SessionsInv, NoOrphans
    <2>7. IssuedKnown'
        BY <1>1, <2>1, <2>2, <2>3, <2>4 DEF SessionsInv, IssuedKnown
    <2>8. RevokedEnded'
        BY <1>1, <2>3, <2>4 DEF SessionsInv, RevokedEnded
    <2>9. LoginsKnown'
        BY <1>1, <2>1, <2>5, Idle DEF SessionsInv, LoginsKnown
    <2>10. QED
        BY <2>6, <2>7, <2>8, <2>9 DEF SessionsInv
<1>12. QED
    BY <1>5, <1>6, <1>7, <1>8, <1>9, <1>10, <1>11 DEF LoginStep

LEMMA RequestSessions ==
    ASSUME TypeOK, SessionsInv, NEW r \in Requests, RequestStep(r)
    PROVE  SessionsInv'
<1>1. CASE BeginRequest(r) \/ CheckSession(r) \/ FindUser(r)
    <2>1. Reads /\ RequestFrame
        BY <1>1 DEF BeginRequest, CheckSession, FindUser
    <2>2. QED
        BY <2>1, SessionsStay DEF Reads, RequestFrame, StatesStay
<1>2. CASE Handle(r)
    <2> DEFINE u == Owner(req[r].token)
    <2>1. u \in Users /\ \A t \in Tokens : Owner(t) \in Users
        BY DEF TypeOK, RequestState, Tokens, Owner
    <2>2. PICK op \in Operations, known \in BOOLEAN :
              /\ prefers' = PrefersAfter(op, u)
              /\ recorded' = RecordedAfter(op, u)
              /\ IF known THEN /\ session' = EndAll(u)
                               /\ revoked' = revoked \cup {t \in issued : session[t] # session'[t]}
                 ELSE UNCHANGED <<session, revoked>>
        BY <1>2 DEF Handle
    <2>3. users' = users /\ login' = login /\ issued' = issued /\ unrecorded' = unrecorded
        BY <1>2 DEF Handle, RequestFrame
    <2> HIDE DEF u
    <2>4. \A t \in Tokens : session'[t] = session[t] \/ (session[t] = "active" /\ session'[t] = "ended")
        BY <2>2 DEF EndAll
    <2>5. \A v \in prefers' \cup recorded' : v \in prefers \cup recorded \/ users[v].state = "live"
        BY <2>2 DEF PrefersAfter, RecordedAfter, Refers
    <2>6. \A t \in Tokens : t \in revoked' => t \in revoked \/ session[t] # session'[t]
        BY <2>2
    <2>7. \A t \in issued : t \in revoked' \/ (session'[t] = session[t] /\ t \notin revoked)
        BY <2>2
    <2>8. issued \subseteq Tokens /\ revoked' \subseteq Tokens /\ revoked \subseteq revoked'
        BY <2>2 DEF TypeOK
    <2>9. NoOrphans'
        BY <2>1, <2>3, <2>4, <2>5 DEF SessionsInv, NoOrphans
    <2>10. IssuedKnown'
        BY <2>1, <2>3, <2>7, <2>8 DEF SessionsInv, IssuedKnown
    <2>11. RevokedEnded'
        BY <2>4, <2>6, <2>8 DEF SessionsInv, RevokedEnded
    <2>12. LoginsKnown'
        BY <2>3 DEF SessionsInv, LoginsKnown
    <2>13. QED
        BY <2>9, <2>10, <2>11, <2>12 DEF SessionsInv
<1>3. QED
    BY <1>1, <1>2 DEF RequestStep

LEMMA OtherSessions ==
    ASSUME TypeOK, SessionsInv,
           \/ \E w \in Workers : BeliefExpires(w) \/ Logout(w)
           \/ \E u \in Users : DeleteUser(u)
           \/ Deploy \/ Tick \/ UNCHANGED vars
    PROVE  SessionsInv'
<1>0. \A t \in Tokens : Owner(t) \in Users
    BY DEF Tokens, Owner
<1>1. CASE (\E w \in Workers : BeliefExpires(w)) \/ Deploy \/ Tick \/ UNCHANGED vars
    BY <1>1, SessionsStay DEF BeliefExpires, Deploy, Tick, vars, tables, history, StatesStay
<1>2. CASE \E w \in Workers : Logout(w)
    <2>1. PICK t \in issued : /\ session[t] = "active" /\ session' = [session EXCEPT ![t] = "ended"]
                              /\ revoked' = revoked \cup {t}
                              /\ UNCHANGED <<users, prefers, recorded, login, issued, unrecorded>>
        BY <1>2 DEF Logout
    <2>2. session \in [Tokens -> {"absent", "active", "ended"}] /\ issued \subseteq Tokens
          /\ revoked \subseteq Tokens
        BY DEF TypeOK
    <2>3. NoOrphans'
        BY <1>0, <2>1, <2>2 DEF SessionsInv, NoOrphans
    <2>4. IssuedKnown'
        BY <1>0, <2>1, <2>2 DEF SessionsInv, IssuedKnown
    <2>5. RevokedEnded'
        BY <2>1, <2>2 DEF SessionsInv, RevokedEnded
    <2>6. LoginsKnown'
        BY <2>1 DEF SessionsInv, LoginsKnown
    <2>7. QED
        BY <2>3, <2>4, <2>5, <2>6 DEF SessionsInv
<1>3. CASE \E u \in Users : DeleteUser(u)
    <2>1. PICK u \in Users : DeleteUser(u)
        BY <1>3
    <2>2. /\ users \in [Users -> [state: {"new", "live", "deleted"},
                            failures: Nat, lockedUntil: 0..MaxTime + Lockout]]
          /\ issued \subseteq Tokens /\ revoked \subseteq Tokens
          /\ \A l \in Logins : login[l].user \in Users
        BY DEF TypeOK, LoginState
    <2>3. \A v \in Users : users'[v].state = IF v = u THEN "deleted" ELSE users[v].state
        BY <2>1, <2>2 DEF DeleteUser
    <2>4. \A t \in Tokens : session'[t] = IF Owner(t) = u THEN "absent" ELSE session[t]
        BY <2>1 DEF DeleteUser
    <2>5. UNCHANGED <<login, issued, unrecorded, revoked>>
        BY <2>1 DEF DeleteUser, history
    <2>6. NoOrphans'
        <3>1. \A v \in prefers' \cup recorded' : v # u /\ v \in Users /\ v \in prefers \cup recorded
            BY <2>1 DEF DeleteUser, TypeOK
        <3>2. QED
            BY <1>0, <2>3, <2>4, <3>1 DEF SessionsInv, NoOrphans
    <2>7. IssuedKnown'
        BY <1>0, <2>2, <2>3, <2>4, <2>5 DEF SessionsInv, IssuedKnown
    <2>8. RevokedEnded'
        BY <2>2, <2>4, <2>5 DEF SessionsInv, RevokedEnded
    <2>9. LoginsKnown'
        BY <2>2, <2>3, <2>5 DEF SessionsInv, LoginsKnown
    <2>10. QED
        BY <2>6, <2>7, <2>8, <2>9 DEF SessionsInv
<1>4. QED
    BY <1>1, <1>2, <1>3
----------------------------------------------------------------------------
(* Requests.                                                                *)

\* What stays true of requests that do not move while accounts are created or
\* deleted and tokens are handed out or revoked.
LEMMA RequestsStay ==
    ASSUME TypeOK, RequestsKnown, issued \subseteq issued', revoked \subseteq revoked',
           \A u \in Users : users[u].state = "deleted" => users'[u].state = "deleted",
           \A r \in Requests : req'[r] = req[r] \/ Known(req[r])'
    PROVE  RequestsKnown'
<1>1. \A r \in Requests : req[r].token \in Tokens
    BY DEF TypeOK, RequestState
<1>2. \A r \in Requests : Owner(req[r].token) \in Users
    BY <1>1 DEF Tokens, Owner
<1>3. \A r \in Requests : req'[r] = req[r] => Known(req[r])'
    BY <1>2 DEF RequestsKnown, Known
<1>4. QED
    BY <1>3 DEF RequestsKnown

LEMMA IdleKnown == Known(IdleRequest)
BY Idle DEF Known, IdleRequest

LEMMA LoginRequests ==
    ASSUME TypeOK, RequestsKnown, NEW l \in Logins, LoginStep(l)
    PROVE  RequestsKnown'
<1> DEFINE t == <<login[l].user, login[l].at>>
<1>1. \A u \in Users : users[u].state = "deleted" => users'[u].state = "deleted"
    <2>1. users \in [Users -> [state: {"new", "live", "deleted"},
                              failures: Nat, lockedUntil: 0..MaxTime + Lockout]]
        BY DEF TypeOK
    <2>2. CASE users' = users
        BY <2>2
    <2>3. CASE RegisterFailure(l)
        BY <2>1, <2>3 DEF RegisterFailure
    <2>4. CASE RegisterSuccess(l)
        BY <2>1, <2>4 DEF RegisterSuccess
    <2>5. CASE CreateUser(l)
        BY <2>1, <2>5 DEF CreateUser
    <2>6. QED
        BY <2>2, <2>3, <2>4, <2>5 DEF LoginStep, BeginLogin, Guard, BeginRegister, CreateSession
<1>2. CASE req' = req /\ issued \subseteq issued' /\ revoked' = revoked
    BY <1>1, <1>2, RequestsStay
<1>3. CASE issued \subseteq issued' /\ revoked' = revoked \ {t} /\ req' = Revived(t) /\ users' = users
    <2> HIDE DEF t
    <2> SUFFICES ASSUME NEW r \in Requests PROVE Known(req[r])'
        BY DEF RequestsKnown
    <2>1. req[r] \in RequestState /\ Known(req[r])
        BY DEF TypeOK, RequestsKnown
    <2> DEFINE q == [req[r] EXCEPT !.dead = req[r].dead /\ req[r].token # t]
    <2>2. req'[r] = q
        BY <1>3 DEF Revived
    <2>3. /\ q.pc = req[r].pc /\ q.token = req[r].token /\ q.gone = req[r].gone
          /\ q.unchecked = req[r].unchecked
          /\ q.dead = (req[r].dead /\ req[r].token # t)
        BY <2>1 DEF RequestState
    <2> HIDE DEF q
    <2>4. /\ q.pc # "idle" => q.token \in issued'
          /\ q.gone => users'[Owner(q.token)].state = "deleted"
          /\ q.pc = "handle" => ~q.gone
        BY <1>3, <2>1, <2>3 DEF Known
    <2>5. q.dead => req[r].dead /\ q.token # t
        BY <2>3
    <2>6. q.dead => q.token \in revoked'
        BY <1>3, <2>1, <2>3, <2>5 DEF Known
    <2>7. q.pc \in {"user", "handle"} /\ q.dead => q.unchecked
        BY <2>1, <2>3, <2>5 DEF Known
    <2>8. QED
        BY <2>2, <2>4, <2>6, <2>7 DEF Known
<1>4. QED
    BY <1>2, <1>3 DEF LoginStep, BeginLogin, Guard, RegisterFailure, RegisterSuccess, BeginRegister,
                      CreateUser, CreateSession, LoginFrame

LEMMA RequestRequests ==
    ASSUME TypeOK, SessionsInv, RequestsKnown, NEW r \in Requests, RequestStep(r)
    PROVE  RequestsKnown'
<1> DEFINE me == req[r]
<1>1. me \in RequestState /\ me.token \in Tokens /\ req \in [Requests -> RequestState] /\ Known(me)
    BY DEF TypeOK, RequestState, RequestsKnown
<1>2. RequestFrame /\ revoked \subseteq revoked'
    BY DEF RequestStep, BeginRequest, CheckSession, FindUser, Handle, Reads
<1>3. ASSUME NEW q, req' = [req EXCEPT ![r] = q], Known(q)'
      PROVE  RequestsKnown'
    <2>1. req'[r] = q /\ \A p \in Requests : p # r => req'[p] = req[p]
        BY <1>1, <1>3
    <2>2. Known(req[r])'
        BY <1>3, <2>1 DEF Known
    <2>3. QED
        BY <1>2, <2>1, <2>2, RequestsStay DEF RequestFrame
<1>4. ASSUME NEW q, Known(q) PROVE Known(q)'
    BY <1>2, <1>4 DEF RequestFrame, Known
<1>5. CASE BeginRequest(r)
    <2>1. PICK t \in issued, w \in Workers : req' = [req EXCEPT ![r] = Begun(t, w)]
        BY <1>5 DEF BeginRequest
    <2> DEFINE q == Begun(t, w)
    <2>2. /\ q.pc = "session" /\ q.token = t /\ q.dead = (t \in revoked)
          /\ q.gone = (users[Owner(t)].state = "deleted")
        BY DEF Begun, IdleRequest
    <2> HIDE DEF q
    <2>3. Known(q)
        BY <2>2 DEF Known
    <2>4. QED
        BY <1>3, <1>4, <2>1, <2>3 DEF q
<1>6. CASE CheckSession(r)
    <2>1. PICK pc \in {"user", "refused"}, b \in BOOLEAN, f \in BOOLEAN :
              /\ req' = [req EXCEPT ![r] = [me EXCEPT !.pc = pc, !.unchecked = b, !.fault = f]]
              /\ pc = "user" => b \/ session[me.token] = "active"
        <3>1. me = [me EXCEPT !.fault = me.fault] /\ me.fault \in BOOLEAN
            BY <1>1 DEF RequestState
        <3>2. CASE \E known \in BOOLEAN :
                      req' = [req EXCEPT ![r].unchecked = ~known,
                                         ![r].pc = IF known => Valid(req[r].token)
                                                   THEN "user" ELSE "refused"]
            <4>1. PICK known \in BOOLEAN :
                      req' = [req EXCEPT ![r].unchecked = ~known,
                                         ![r].pc = IF known => Valid(req[r].token)
                                                   THEN "user" ELSE "refused"]
                BY <3>2
            <4> DEFINE pc == IF known => Valid(req[r].token) THEN "user" ELSE "refused"
            <4>2. req' = [req EXCEPT ![r] = [me EXCEPT !.unchecked = ~known, !.pc = pc]]
                BY <4>1
            <4>3. \A p : [me EXCEPT !.unchecked = ~known, !.pc = p]
                        = [me EXCEPT !.pc = p, !.unchecked = ~known, !.fault = me.fault]
                BY <1>1 DEF RequestState
            <4>4. pc = "user" => ~known \/ session[me.token] = "active"
                BY DEF Valid
            <4>5. pc \in {"user", "refused"} /\ (~known) \in BOOLEAN
                OBVIOUS
            <4> DEFINE b == ~known
                       next == [req EXCEPT ![r] = [me EXCEPT !.pc = pc, !.unchecked = b,
                                                             !.fault = me.fault]]
            <4>6. req' = next
                BY <4>2, <4>3
            <4>7. b \in BOOLEAN /\ me.fault \in BOOLEAN /\ pc \in {"user", "refused"}
                  /\ (pc = "user" => b \/ session[me.token] = "active")
                BY <3>1, <4>4, <4>5
            <4> HIDE DEF pc, b
            <4> USE <4>7
            <4>8. WITNESS pc \in {"user", "refused"}, b \in BOOLEAN, me.fault \in BOOLEAN
            <4>9. QED
                BY <4>6, <4>7
        <3>3. CASE req' = [req EXCEPT ![r].pc = IF belief[req[r].home] = "absent" THEN "user" ELSE "refused",
                                      ![r].unchecked = belief[req[r].home] = "absent",
                                      ![r].fault = TRUE]
            <4> DEFINE b == belief[req[r].home] = "absent"
                       pc == IF b THEN "user" ELSE "refused"
            <4>1. req' = [req EXCEPT ![r] = [me EXCEPT !.pc = pc, !.unchecked = b, !.fault = TRUE]]
                BY <3>3
            <4>2. pc \in {"user", "refused"} /\ b \in BOOLEAN /\ (pc = "user" => b)
                OBVIOUS
            <4> HIDE DEF b, pc
            <4>3. QED
                BY <4>1, <4>2
        <3>4. QED
            BY <1>6, <3>2, <3>3 DEF CheckSession
    <2> DEFINE q == [me EXCEPT !.pc = pc, !.unchecked = b, !.fault = f]
    <2>2. q.pc = pc /\ q.token = me.token /\ q.dead = me.dead /\ q.gone = me.gone /\ q.unchecked = b
        BY <1>1 DEF RequestState
    <2>3. me.pc = "session"
        BY <1>6 DEF CheckSession
    <2>4. session[me.token] = "active" => ~me.dead
        BY <1>1 DEF SessionsInv, RevokedEnded, Known
    <2> HIDE DEF q
    <2>5. Known(q)
        BY <1>1, <2>1, <2>2, <2>3, <2>4 DEF Known
    <2>6. QED
        BY <1>3, <1>4, <2>1, <2>5 DEF q
<1>7. CASE FindUser(r)
    <2> DEFINE pc == IF users[Owner(me.token)].state = "live" THEN "handle" ELSE "refused"
               q == [me EXCEPT !.pc = pc]
    <2>1. req' = [req EXCEPT ![r] = q] /\ me.pc = "user"
        BY <1>7 DEF FindUser, RequestGoes
    <2>2. q.pc = pc /\ q.token = me.token /\ q.dead = me.dead /\ q.gone = me.gone
          /\ q.unchecked = me.unchecked
        BY <1>1 DEF RequestState
    <2> HIDE DEF q
    <2>3. Known(q)
        BY <1>1, <2>1, <2>2 DEF Known
    <2>4. QED
        BY <1>3, <1>4, <2>1, <2>3
<1>8. CASE Handle(r)
    BY <1>3, <1>4, <1>8, IdleKnown DEF Handle, RequestEnds
<1>9. QED
    BY <1>5, <1>6, <1>7, <1>8 DEF RequestStep

LEMMA OtherRequests ==
    ASSUME TypeOK, RequestsKnown,
           \/ \E w \in Workers : BeliefExpires(w) \/ Logout(w)
           \/ \E u \in Users : DeleteUser(u)
           \/ Deploy \/ Tick \/ UNCHANGED vars
    PROVE  RequestsKnown'
<1>1. req' = req /\ issued' = issued /\ revoked \subseteq revoked'
    BY DEF BeliefExpires, Logout, DeleteUser, Deploy, Tick, vars, tables, history
<1>2. \A u \in Users : users[u].state = "deleted" => users'[u].state = "deleted"
    <2>1. CASE users' = users
        BY <2>1
    <2>2. CASE \E u \in Users : DeleteUser(u)
        BY <2>2 DEF DeleteUser, TypeOK
    <2>3. QED
        BY <2>1, <2>2 DEF BeliefExpires, Logout, Deploy, Tick, vars, tables
<1>3. QED
    BY <1>1, <1>2, RequestsStay
----------------------------------------------------------------------------
(* Passwords.                                                               *)

UserRows == [state: {"new", "live", "deleted"}, failures: Nat, lockedUntil: 0..MaxTime + Lockout]

LEMMA Numbers ==
    ASSUME TypeOK, NEW u \in Users
    PROVE  /\ users[u] \in UserRows /\ users[u].failures \in Nat /\ users[u].lockedUntil \in Nat
           /\ guesses[u] \in Nat /\ faults \in Nat /\ clock \in Nat
           /\ IsFiniteSet(Failing(u)) /\ Cardinality(Failing(u)) \in Nat
           /\ Cardinality(Logins) \in Nat
<1>1. users[u] \in UserRows /\ guesses[u] \in Nat /\ faults \in Nat /\ clock \in Nat
    BY AccountsAssumption DEF TypeOK, UserRows, Times
<1>2. users[u].failures \in Nat /\ users[u].lockedUntil \in Nat
    BY <1>1, AccountsAssumption DEF UserRows
<1>3. IsFiniteSet(Failing(u)) /\ IsFiniteSet(Logins)
    BY AccountsAssumption, FS_Subset DEF Failing
<1>4. QED
    BY <1>1, <1>2, <1>3, FS_CardinalityType

\* Logins that are not failing are none of those that are.
LEMMA OthersLeft ==
    ASSUME TypeOK, NEW l \in Logins, NEW u \in Users, login[l].pc # "failed" \/ login[l].user # u
    PROVE  /\ l \notin Failing(u) /\ Cardinality(Failing(u)) <= Cardinality(Logins) - 1
           /\ Cardinality(Failing(u) \cup {l}) = Cardinality(Failing(u)) + 1
<1>1. l \notin Failing(u) /\ Failing(u) \cup {l} \subseteq Logins
    BY DEF Failing
<1>2. IsFiniteSet(Logins) /\ IsFiniteSet(Failing(u)) /\ Cardinality(Failing(u)) \in Nat
    BY Numbers, AccountsAssumption
<1>3. Cardinality(Failing(u) \cup {l}) = Cardinality(Failing(u)) + 1
    BY <1>1, <1>2, FS_AddElement
<1>4. Cardinality(Failing(u) \cup {l}) <= Cardinality(Logins)
    BY <1>1, <1>2, FS_Subset
<1>5. QED
    BY <1>1, <1>2, <1>3, <1>4, Numbers

LEMMA FailingMoves ==
    ASSUME TypeOK, NEW l \in Logins, NEW r, login' = [login EXCEPT ![l] = r], NEW u \in Users
    PROVE  Failing(u)' = IF r.pc = "failed" /\ r.user = u THEN Failing(u) \cup {l}
                                                          ELSE Failing(u) \ {l}
<1>1. \A m \in Logins : login'[m] = IF m = l THEN r ELSE login[m]
    BY DEF TypeOK
<1>2. QED
    BY <1>1 DEF Failing

\* The steps that guess nothing and count nothing.
LEMMA GuessesStay ==
    ASSUME TypeOK, GuessesCounted, TypeOK', UNCHANGED <<users, guesses, clock>>, faults <= faults',
           \A u \in Users : Failing(u)' = Failing(u)
    PROVE  GuessesCounted'
<1> SUFFICES ASSUME NEW u \in Users PROVE Counted(u)'
    BY DEF GuessesCounted
<1>1. Counted(u) /\ faults' \in Nat /\ Cardinality(Failing(u))' = Cardinality(Failing(u))
    BY AccountsAssumption DEF GuessesCounted, TypeOK
<1>2. QED
    BY <1>1, Numbers, AccountsAssumption DEF Counted

LEMMA FaultsGrow ==
    ASSUME TypeOK, Fault \/ NoFault
    PROVE  faults <= faults' /\ (Fault => faults' = faults + 1)
BY AccountsAssumption DEF TypeOK, Fault, NoFault

LEMMA LoginGuesses ==
    ASSUME TypeOK, TypeOK', SessionsInv, GuessesCounted, NEW l \in Logins, LoginStep(l)
    PROVE  GuessesCounted'
<1> DEFINE u == login[l].user
<1>1. /\ login[l] \in LoginState /\ u \in Users
      /\ login \in [Logins -> LoginState] /\ users \in [Users -> UserRows]
      /\ guesses \in [Users -> Nat] /\ clock \in Nat /\ faults \in Nat /\ faults' \in Nat
      /\ MaxFailures \in Nat \ {0} /\ Lockout \in Nat \ {0}
    BY AccountsAssumption DEF TypeOK, LoginState, UserRows, Times
\* Neither a login that comes to fail nor one that stops.
<1>2. ASSUME NEW r, login' = [login EXCEPT ![l] = r], r.pc # "failed", login[l].pc # "failed"
      PROVE  \A v \in Users : Failing(v)' = Failing(v)
    <2> SUFFICES ASSUME NEW v \in Users PROVE Failing(v)' = Failing(v)
        OBVIOUS
    <2>1. Failing(v) \ {l} = Failing(v)
        BY <1>2 DEF Failing
    <2>2. Failing(v)' = Failing(v) \ {l}
        BY <1>2, FailingMoves
    <2>3. QED
        BY <2>1, <2>2
<1>3. [login[l] EXCEPT !.pc = "session", !.at = clock].pc = "session"
      /\ [login[l] EXCEPT !.pc = "reset"].pc = "reset"
    BY <1>1 DEF LoginState
<1>4. CASE BeginLogin(l)
    <2>1. PICK v \in Users : login' = [login EXCEPT ![l] = [IdleLogin EXCEPT !.pc = "guard", !.user = v]]
        BY <1>4 DEF BeginLogin
    <2> DEFINE q == [IdleLogin EXCEPT !.pc = "guard", !.user = v]
    <2>2. q.pc = "guard" /\ login[l].pc = "idle"
        BY <1>4 DEF BeginLogin, IdleLogin
    <2>3. UNCHANGED <<users, guesses, clock, faults>>
        BY <1>4 DEF BeginLogin, LoginFrame
    <2> HIDE DEF q
    <2>4. \A w \in Users : Failing(w)' = Failing(w)
        BY <1>2, <2>1, <2>2 DEF q
    <2>5. QED
        BY <1>1, <2>3, <2>4, GuessesStay
<1>5. CASE BeginRegister(l)
    <2>1. PICK v \in Users : login' = [login EXCEPT ![l] = [IdleLogin EXCEPT !.pc = "create", !.user = v]]
        BY <1>5 DEF BeginRegister
    <2> DEFINE q == [IdleLogin EXCEPT !.pc = "create", !.user = v]
    <2>2. q.pc = "create" /\ login[l].pc = "idle"
        BY <1>5 DEF BeginRegister, IdleLogin
    <2>3. UNCHANGED <<users, guesses, clock, faults>>
        BY <1>5 DEF BeginRegister, LoginFrame
    <2> HIDE DEF q
    <2>4. \A w \in Users : Failing(w)' = Failing(w)
        BY <1>2, <2>1, <2>2 DEF q
    <2>5. QED
        BY <1>1, <2>3, <2>4, GuessesStay
<1>6. CASE CreateSession(l)
    <2>1. login' = [login EXCEPT ![l] = IdleLogin] /\ login[l].pc = "session"
        BY <1>6 DEF CreateSession, LoginEnds
    <2>2. UNCHANGED <<users, guesses, clock>> /\ faults <= faults'
        BY <1>6, FaultsGrow DEF CreateSession
    <2>3. QED
        BY <1>2, <2>1, <2>2, Idle, GuessesStay
<1>7. CASE CreateUser(l)
    <2>1. UNCHANGED <<guesses, clock, faults>> /\ login[l].pc = "create"
        BY <1>7 DEF CreateUser, LoginFrame
    <2>2. \A v \in Users : Failing(v)' = Failing(v)
        <3>1. CASE login' = [login EXCEPT ![l] = IdleLogin]
            BY <1>2, <2>1, <3>1, Idle
        <3>2. CASE login' = [login EXCEPT ![l] = [login[l] EXCEPT !.pc = "session", !.at = clock]]
            BY <1>2, <1>3, <2>1, <3>2
        <3>3. QED
            BY <1>7, <3>1, <3>2 DEF CreateUser, Issue, LoginEnds
    <2>3. CASE users' = users
        BY <1>1, <2>1, <2>2, <2>3, GuessesStay
    <2>4. CASE users[u].state = "new" /\ users' = [users EXCEPT ![u].state = "live"]
        <3> SUFFICES ASSUME NEW v \in Users PROVE Counted(v)'
            BY DEF GuessesCounted
        <3>1. Counted(v) /\ Cardinality(Failing(v))' = Cardinality(Failing(v))
            BY <2>2 DEF GuessesCounted
        <3>2. v # u => users'[v] = users[v]
            BY <1>1, <2>4
        <3>3. v = u => users'[v].state = "live" /\ users'[v].failures = users[v].failures /\ guesses[v] = 0
            BY <1>1, <2>4, <3>1 DEF UserRows, Counted
        <3> HIDE DEF u
        <3>4. CASE v = u
            BY <1>1, <2>1, <3>1, <3>3, <3>4, Numbers DEF Counted
        <3>5. CASE v # u
            BY <2>1, <3>1, <3>2, <3>5 DEF Counted
        <3>6. QED
            BY <3>4, <3>5
    <2>5. QED
        BY <1>7, <2>3, <2>4 DEF CreateUser
<1>8. CASE RegisterSuccess(l)
    <2>1. login' = [login EXCEPT ![l] = [login[l] EXCEPT !.pc = "session", !.at = clock]]
          /\ login[l].pc = "reset" /\ clock' = clock
        BY <1>8 DEF RegisterSuccess, Issue, LoginFrame
    <2>2. \A v \in Users : Failing(v)' = Failing(v)
        BY <1>2, <1>3, <2>1
    <2>3. CASE UNCHANGED <<users, guesses>> /\ Fault
        BY <2>1, <2>2, <2>3, FaultsGrow, GuessesStay
    <2>4. CASE /\ NoFault
               /\ users' = [users EXCEPT ![u].failures = 0, ![u].lockedUntil = 0]
               /\ guesses' = [guesses EXCEPT ![u] = 0]
        <3> SUFFICES ASSUME NEW v \in Users PROVE Counted(v)'
            BY DEF GuessesCounted
        <3>1. Counted(v) /\ Cardinality(Failing(v))' = Cardinality(Failing(v)) /\ faults' = faults
            BY <2>2, <2>4 DEF GuessesCounted, NoFault
        <3>2. v # u => users'[v] = users[v] /\ guesses'[v] = guesses[v]
            BY <1>1, <2>4
        <3>3. v = u => users'[v].failures = 0 /\ guesses'[v] = 0
            BY <1>1, <2>4 DEF UserRows
        <3> HIDE DEF u
        <3>4. CASE v = u
            BY <1>1, <2>1, <3>1, <3>3, <3>4, Numbers DEF Counted
        <3>5. CASE v # u
            BY <2>1, <3>1, <3>2, <3>5 DEF Counted
        <3>6. QED
            BY <3>4, <3>5
    <2>5. QED
        BY <1>8, <2>3, <2>4 DEF RegisterSuccess
<1>9. CASE RegisterFailure(l)
    <2> DEFINE n == users[u].failures + 1
               until == IF n >= MaxFailures THEN clock + Lockout ELSE users[u].lockedUntil
    <2>1. /\ login' = [login EXCEPT ![l] = IdleLogin] /\ login[l].pc = "failed"
          /\ UNCHANGED <<guesses, clock>>
        BY <1>9 DEF RegisterFailure, LoginEnds, LoginFrame
    <2>2. \/ users' = users /\ (Fault \/ (NoFault /\ users[u].state # "live"))
          \/ /\ users' = [users EXCEPT ![u].failures = n, ![u].lockedUntil = until]
             /\ NoFault /\ users[u].state = "live"
        BY <1>9 DEF RegisterFailure
    <2>3. users[u].state # "new"
        BY <2>1 DEF SessionsInv, LoginsKnown
    <2> SUFFICES ASSUME NEW v \in Users PROVE Counted(v)'
        BY DEF GuessesCounted
    <2>4. Counted(v) /\ users[v].failures \in Nat /\ users[u].failures \in Nat
        BY <1>1, Numbers DEF GuessesCounted
    <2>5. Failing(v)' = Failing(v) \ {l}
        BY <2>1, Idle, FailingMoves
    <2>6. faults <= faults' /\ (Fault => faults' = faults + 1) /\ (NoFault => faults' = faults)
        BY <2>2, FaultsGrow DEF NoFault
    <2>7. CASE v # u
        <3>1. Failing(v) \ {l} = Failing(v)
            BY <2>7 DEF Failing
        <3>2. Cardinality(Failing(v))' = Cardinality(Failing(v)) /\ users'[v] = users[v]
            BY <1>1, <2>2, <2>5, <2>7, <3>1
        <3> HIDE DEF n, until, u
        <3>3. QED
            BY <1>1, <2>1, <2>4, <2>6, <3>2, Numbers DEF Counted
    <2>8. CASE v = u
        <3>1. l \in Failing(v)
            BY <2>1, <2>8 DEF Failing
        <3>2. Cardinality(Failing(v))' = Cardinality(Failing(v)) - 1
            BY <2>5, <3>1, FS_RemoveElement, Numbers
        <3>3. CASE users' = users /\ NoFault /\ users[u].state # "live"
            BY <2>1, <2>3, <2>8, <3>3 DEF Counted
        <3>4. CASE users' = users /\ Fault
            <4> HIDE DEF n, until, u
            <4>1. QED
                BY <1>1, <2>1, <2>3, <2>4, <2>6, <2>8, <3>2, <3>4, Numbers DEF Counted
        <3>5. CASE /\ users' = [users EXCEPT ![u].failures = n, ![u].lockedUntil = until]
                   /\ NoFault /\ users[u].state = "live"
            <4>1. /\ users'[v].failures = n /\ users'[v].lockedUntil = until
                  /\ users'[v].state = "live" /\ faults' = faults
                BY <1>1, <2>6, <2>8, <3>5 DEF UserRows
            <4>2. n = users[v].failures + 1 /\ (n >= MaxFailures => until = clock + Lockout)
                BY <2>8
            <4> HIDE DEF n, until, u
            <4>3. QED
                BY <1>1, <2>1, <2>4, <2>8, <3>2, <3>5, <4>1, <4>2, Numbers DEF Counted
        <3>6. QED
            BY <2>2, <3>3, <3>4, <3>5
    <2>9. QED
        BY <2>7, <2>8
<1>10. CASE Guard(l)
    <2>1. login[l].pc = "guard" /\ UNCHANGED <<users, clock>> /\ users[u].state # "new"
        BY <1>10 DEF Guard, LoginFrame, SessionsInv, LoginsKnown
    <2>2. CASE Locked(u) /\ LoginEnds(l) /\ NoFault /\ UNCHANGED guesses
        <3>1. login' = [login EXCEPT ![l] = IdleLogin] /\ faults' = faults
            BY <2>2 DEF LoginEnds, NoFault
        <3>2. \A v \in Users : Failing(v)' = Failing(v)
            BY <1>2, <2>1, <3>1, Idle
        <3>3. QED
            BY <1>1, <2>1, <2>2, <3>1, <3>2, GuessesStay
    <2>3. CASE (NoFault \/ Fault) /\ LoginGoes(l, "reset") /\ UNCHANGED guesses
        <3>1. login' = [login EXCEPT ![l] = [login[l] EXCEPT !.pc = "reset"]]
            BY <2>3 DEF LoginGoes
        <3>2. QED
            BY <1>2, <1>3, <2>1, <2>3, <3>1, FaultsGrow, GuessesStay
    <2>4. CASE /\ (~Locked(u) /\ NoFault) \/ Fault
               /\ LoginGoes(l, "failed") /\ guesses' = [guesses EXCEPT ![u] = @ + 1]
        <3> SUFFICES ASSUME NEW v \in Users PROVE Counted(v)'
            BY DEF GuessesCounted
        <3>1. login' = [login EXCEPT ![l] = [login[l] EXCEPT !.pc = "failed"]]
            BY <2>4 DEF LoginGoes
        <3>2. [login[l] EXCEPT !.pc = "failed"].pc = "failed" /\ [login[l] EXCEPT !.pc = "failed"].user = u
            BY <1>1 DEF LoginState
        <3>3. Failing(v)' = IF v = u THEN Failing(v) \cup {l} ELSE Failing(v) \ {l}
            <4> DEFINE q == [login[l] EXCEPT !.pc = "failed"]
            <4>1. q.pc = "failed" /\ q.user = u /\ login' = [login EXCEPT ![l] = q]
                BY <3>1, <3>2
            <4> HIDE DEF q, u
            <4>2. Failing(v)' = IF q.pc = "failed" /\ q.user = v THEN Failing(v) \cup {l}
                                                               ELSE Failing(v) \ {l}
                BY <4>1, FailingMoves
            <4>3. QED
                BY <4>1, <4>2
        <3>4. /\ l \notin Failing(v) /\ Cardinality(Failing(v)) <= Cardinality(Logins) - 1
              /\ Cardinality(Failing(v) \cup {l}) = Cardinality(Failing(v)) + 1
            BY <2>1, OthersLeft
        <3>5. Counted(v) /\ faults <= faults' /\ (Fault => faults' = faults + 1)
            BY <2>4, FaultsGrow DEF GuessesCounted
        <3>6. CASE v # u
            <4>1. Cardinality(Failing(v))' = Cardinality(Failing(v)) /\ guesses'[v] = guesses[v]
                BY <1>1, <2>4, <3>3, <3>4, <3>6
            <4> HIDE DEF u
            <4>2. QED
                BY <1>1, <2>1, <3>5, <4>1, Numbers DEF Counted
        <3>7. CASE v = u
            <4>1. Cardinality(Failing(v))' = Cardinality(Failing(v)) + 1 /\ guesses'[v] = guesses[v] + 1
                BY <1>1, <2>4, <3>3, <3>4, <3>7
            <4>2. users[v].state = "live" /\ ~Fault => users[v].lockedUntil <= clock
                BY <1>1, <2>4, <3>7, Numbers DEF Locked
            <4> HIDE DEF u
            <4>3. users[v].state = "live" => guesses'[v] <= MaxFailures + Cardinality(Logins) - 1 + faults'
                <5>1. CASE Fault
                    BY <1>1, <3>5, <4>1, <5>1, Numbers DEF Counted
                <5>2. CASE users[v].failures >= MaxFailures /\ ~Fault
                    BY <1>1, <3>4, <3>5, <4>1, <4>2, <5>2, Numbers DEF Counted
                <5>3. CASE ~(users[v].failures >= MaxFailures) /\ ~Fault
                    BY <1>1, <3>4, <3>5, <4>1, <4>2, <5>3, Numbers DEF Counted
                <5>4. QED
                    BY <5>1, <5>2, <5>3
            <4>4. QED
                BY <1>1, <2>1, <3>5, <3>7, <4>1, <4>3, Numbers DEF Counted
        <3>8. QED
            BY <3>6, <3>7
    <2>5. QED
        BY <1>10, <2>2, <2>3, <2>4 DEF Guard
<1>11. QED
    BY <1>4, <1>5, <1>6, <1>7, <1>8, <1>9, <1>10 DEF LoginStep

LEMMA OtherGuesses ==
    ASSUME TypeOK, TypeOK', GuessesCounted,
           \/ \E r \in Requests : RequestStep(r)
           \/ \E w \in Workers : BeliefExpires(w) \/ Logout(w)
           \/ \E u \in Users : DeleteUser(u)
           \/ Deploy \/ Tick \/ UNCHANGED vars
    PROVE  GuessesCounted'
<1>1. login' = login /\ \A u \in Users : Failing(u)' = Failing(u)
    <2>1. login' = login
        BY DEF RequestStep, BeginRequest, CheckSession, FindUser, Handle, RequestFrame, BeliefExpires,
               Logout, DeleteUser, Deploy, Tick, vars
    <2>2. QED
        BY <2>1 DEF Failing
<1>2. faults \in Nat /\ faults' \in Nat
    BY AccountsAssumption DEF TypeOK
<1>3. CASE \E r \in Requests : RequestStep(r)
    <2>1. faults <= faults'
        BY <1>2, <1>3, FaultsGrow
           DEF RequestStep, BeginRequest, CheckSession, FindUser, Handle, Fault, NoFault
    <2>2. UNCHANGED <<users, guesses, clock>>
        BY <1>3 DEF RequestStep, BeginRequest, CheckSession, FindUser, Handle, RequestFrame
    <2>3. QED
        BY <1>1, <2>1, <2>2, GuessesStay
<1>4. CASE (\E w \in Workers : BeliefExpires(w) \/ Logout(w)) \/ Deploy \/ UNCHANGED vars
    <2>1. UNCHANGED <<users, guesses, clock, faults>>
        BY <1>4 DEF BeliefExpires, Logout, Deploy, vars, tables, history
    <2>2. QED
        BY <1>1, <1>2, <2>1, GuessesStay
<1>5. CASE \E u \in Users : DeleteUser(u)
    <2>1. PICK u \in Users : DeleteUser(u)
        BY <1>5
    <2> SUFFICES ASSUME NEW v \in Users PROVE Counted(v)'
        BY DEF GuessesCounted
    <2>2. Counted(v) /\ Cardinality(Failing(v))' = Cardinality(Failing(v))
        BY <1>1 DEF GuessesCounted
    <2>3. UNCHANGED <<guesses, clock, faults>>
        BY <2>1 DEF DeleteUser, history
    <2>4. IF v = u THEN users'[v].state = "deleted" ELSE users'[v] = users[v]
        BY <2>1, Numbers DEF DeleteUser, TypeOK, UserRows
    <2>5. QED
        BY <2>2, <2>3, <2>4 DEF Counted
<1>6. CASE Tick
    <2> SUFFICES ASSUME NEW v \in Users PROVE Counted(v)'
        BY DEF GuessesCounted
    <2>1. Counted(v) /\ Cardinality(Failing(v))' = Cardinality(Failing(v))
        BY <1>1 DEF GuessesCounted
    <2>2. /\ users' = users /\ faults' = faults /\ clock' = clock + 1
          /\ guesses'[v] = IF users[v].lockedUntil = clock + 1 THEN 0 ELSE guesses[v]
        BY <1>6 DEF Tick, tables
    <2>3. QED
        BY <2>1, <2>2, Numbers, AccountsAssumption DEF Counted
<1>7. QED
    BY <1>3, <1>4, <1>5, <1>6
----------------------------------------------------------------------------
(* Theorems.                                                                *)

LEMMA InitHolds == Init => IInv
<1> SUFFICES ASSUME Init PROVE IInv
    OBVIOUS
<1>1. TypeOK
    BY InitTypeOK
<1>2. SessionsInv
    BY Idle DEF Init, SessionsInv, NoOrphans, IssuedKnown, RevokedEnded, LoginsKnown
<1>3. RequestsKnown
    <2>1. \A r \in Requests : req[r] = IdleRequest
        BY DEF Init
    <2>2. QED
        BY <2>1, IdleKnown DEF RequestsKnown
<1>4. GuessesCounted
    <2> SUFFICES ASSUME NEW u \in Users PROVE Counted(u)
        BY DEF GuessesCounted
    <2>1. guesses[u] = 0 /\ faults = 0 /\ users[u].failures = 0
        BY DEF Init
    <2>2. QED
        BY <1>1, <2>1, Numbers, AccountsAssumption DEF Counted
<1>5. QED
    BY <1>1, <1>2, <1>3, <1>4 DEF IInv

LEMMA StepHolds == IInv /\ [Next]_vars => IInv'
<1> SUFFICES ASSUME IInv, [Next]_vars PROVE IInv'
    OBVIOUS
<1>1. TypeOK /\ SessionsInv /\ RequestsKnown /\ GuessesCounted
    BY DEF IInv
<1>2. TypeOK'
    BY <1>1, StepTypes
<1>3. CASE \E l \in Logins : LoginStep(l)
    BY <1>1, <1>2, <1>3, LoginSessions, LoginRequests, LoginGuesses DEF IInv
<1>4. CASE \E r \in Requests : RequestStep(r)
    BY <1>1, <1>2, <1>4, RequestSessions, RequestRequests, OtherGuesses DEF IInv
<1>5. CASE \/ \E w \in Workers : BeliefExpires(w) \/ Logout(w)
           \/ \E u \in Users : DeleteUser(u)
           \/ Deploy \/ Tick \/ UNCHANGED vars
    BY <1>1, <1>2, <1>5, OtherSessions, OtherRequests, OtherGuesses DEF IInv
<1>6. QED
    BY <1>3, <1>4, <1>5 DEF Next

\* The invariant the theorems rest on.
THEOREM Invariance == Spec => []IInv
BY InitHolds, StepHolds, PTL DEF Spec

\* Accounts, rows, logins and requests keep their types.
THEOREM TypesKept == Spec => []TypeOK
<1>1. IInv => TypeOK
    BY DEF IInv
<1>2. QED
    BY <1>1, Invariance, PTL

\* However logins race, guesses between two unlocks are bounded by the budget,
\* the logins under way and the statements that failed.
THEOREM GuessesStayBounded == Spec => []GuessesBounded
<1>1. IInv => GuessesBounded
    BY DEF IInv, GuessesCounted, Counted, GuessesBounded
<1>2. QED
    BY <1>1, Invariance, PTL

\* A request that began with a revoked token reaches its handler only where
\* the table of sessions is unknown; with a deleted account never.
THEOREM RevokedTokensRefused == Spec => []RevokedRefused
<1>1. IInv => RevokedRefused
    BY DEF IInv, RequestsKnown, Known, RevokedRefused
<1>2. QED
    BY <1>1, Invariance, PTL

\* No row refers to an account that does not exist, whatever finishes after a
\* deletion.
THEOREM NothingOutlivesItsAccount == Spec => []NoOrphans
<1>1. IInv => NoOrphans
    BY DEF IInv, SessionsInv
<1>2. QED
    BY <1>1, Invariance, PTL

\* A request is refused only for its own token or account, or a failed query.
THEOREM NobodyElseRefused == Spec => RefusalsJustified
<1>1. IInv /\ [Next]_vars =>
          [\A r \in Requests : req[r].pc # "refused" /\ req'[r].pc = "refused" =>
              LET t == req[r].token IN
              \/ Expiry(t) <= clock \/ t \in revoked \cup unrecorded
              \/ users[Owner(t)].state = "deleted" \/ req'[r].fault]_vars
    <2> SUFFICES ASSUME IInv, Next, NEW r \in Requests, req[r].pc # "refused", req'[r].pc = "refused",
                        req[r].token \notin revoked \cup unrecorded,
                        users[Owner(req[r].token)].state # "deleted",
                        ~(Expiry(req[r].token) <= clock)
                 PROVE  req'[r].fault
        OBVIOUS
    <2> DEFINE t == req[r].token
    <2>1. /\ req \in [Requests -> RequestState] /\ req[r] \in RequestState /\ t \in Tokens
          /\ req[r].pc # "idle" => t \in issued
          /\ \A x \in Users : users[x] \in UserRows
        BY Numbers DEF IInv, TypeOK, RequestState, RequestsKnown, Known
    <2>2. t \in issued => session[t] = "active" /\ users[Owner(t)].state = "live"
        <3>1. Owner(t) \in Users
            BY <2>1 DEF Tokens, Owner
        <3>2. QED
            BY <2>1, <3>1 DEF IInv, SessionsInv, IssuedKnown, UserRows
    <2>3. Expiry(t) > clock
        BY <2>1, AccountsAssumption DEF Expiry, Tokens, Times, IInv, TypeOK
    <2>4. req'[r] # req[r] /\ req'[r] # IdleRequest
        BY Idle
    <2>5. ASSUME NEW p \in Requests, RequestStep(p) PROVE req'[r].fault
        <3>1. p = r
            BY <2>1, <2>4, <2>5 DEF RequestStep, BeginRequest, CheckSession, FindUser, Handle,
                                    RequestGoes, RequestEnds
        <3>2. ~BeginRequest(r) /\ ~Handle(r)
            <4>1. \A x, w : Begun(x, w).pc = "session"
                BY DEF Begun, IdleRequest
            <4>2. QED
                BY <2>1, <2>4, <4>1 DEF BeginRequest, Handle, RequestEnds
        <3>3. ~FindUser(r)
            <4>1. ASSUME FindUser(r) PROVE FALSE
                <5>1. users[Owner(t)].state = "live"
                    BY <2>1, <2>2, <4>1 DEF FindUser
                <5>2. req' = [req EXCEPT ![r].pc = "handle"]
                    BY <4>1, <5>1 DEF FindUser, RequestGoes
                <5>3. req'[r].pc = "handle"
                    BY <2>1, <5>2 DEF RequestState
                <5>4. QED
                    BY <5>3
            <4>2. QED
                BY <4>1
        <3>4. CASE CheckSession(r)
            <4>1. t \in issued
                BY <2>1, <3>4 DEF CheckSession
            <4>2. Valid(t)
                BY <2>2, <2>3, <4>1 DEF Valid
            <4>3. QED
                <5>1. CASE \E known \in BOOLEAN :
                              req' = [req EXCEPT ![r].unchecked = ~known,
                                                 ![r].pc = IF known => Valid(req[r].token)
                                                           THEN "user" ELSE "refused"]
                    <6>1. PICK known \in BOOLEAN :
                              req' = [req EXCEPT ![r].unchecked = ~known, ![r].pc = "user"]
                        BY <4>2, <5>1
                    <6>2. req'[r].pc = "user"
                        BY <2>1, <6>1 DEF RequestState
                    <6>3. QED
                        BY <6>2
                <5>2. CASE req' = [req EXCEPT
                                      ![r].pc = IF belief[req[r].home] = "absent" THEN "user" ELSE "refused",
                                      ![r].unchecked = belief[req[r].home] = "absent",
                                      ![r].fault = TRUE]
                    BY <2>1, <5>2 DEF RequestState
                <5>3. QED
                    BY <3>4, <5>1, <5>2 DEF CheckSession
        <3>5. QED
            BY <2>5, <3>1, <3>2, <3>3, <3>4 DEF RequestStep
    <2>6. ASSUME NEW l \in Logins, LoginStep(l) PROVE FALSE
        <3>1. req' # req
            BY <2>4
        <3>2. \A x : Revived(x)[r].pc = req[r].pc
            BY <2>1 DEF Revived, RequestState
        <3>3. QED
            BY <2>6, <3>1, <3>2 DEF LoginStep, BeginLogin, Guard, RegisterFailure, RegisterSuccess,
                    BeginRegister, CreateUser, CreateSession, LoginFrame
    <2>7. (\E l \in Logins : LoginStep(l)) \/ (\E p \in Requests : RequestStep(p))
        BY <2>4 DEF Next, BeliefExpires, Logout, DeleteUser, Deploy, Tick, history
    <2>8. QED
        BY <2>5, <2>6, <2>7
<1>2. QED
    BY <1>1, Invariance, PTL DEF Spec, RefusalsJustified
=============================================================================
