---------------------------- MODULE AdmissionProofs ----------------------------
(***************************************************************************)
(* Theorems about Admission, for any number of calls, workers and users    *)
(* and any limits, timeouts and retries.                                   *)
(***************************************************************************)
EXTENDS Admission, FiniteSetTheorems, TLAPS

\* A call that sleeps has an attempt left.
BackoffHasAttempts ==
    \A c \in Calls : calls[c].pc = "backoff" => calls[c].attempt < Retries

\* A call's deadline counts from when it began, which has been.
Timed ==
    \A c \in Calls : calls[c].pc # "idle" =>
        calls[c].deadline = calls[c].start + Timeout /\ calls[c].start <= clock

\* A call without a fallback client enters complete at once, and once.
EntersAtOnce ==
    \A c \in Standalone :
        /\ calls[c].model = "primary"
        /\ calls[c].pc = "enter" => calls[c].start = clock

\* One leader for each key.
OneLeader == \A c, d \in Calls : Leads(c) /\ Leads(d) /\ Key(c) = Key(d) => c = d

\* A call that waits without a timer waits for one whose timer fires in time.
Led ==
    \A c \in Standalone : calls[c].pc = "waiting" /\ calls[c].got = "none" =>
        \E d \in Calls : /\ Leads(d) /\ Key(d) = Key(c)
                         /\ calls[d].deadline <= calls[c].deadline

\* What the provider works on has a lease beyond the call's deadline.
Leased ==
    \A c \in Calling : \E r \in ledger :
        /\ r.lease = LeaseOf(c) /\ r.owner = calls[c].user
        /\ r.expires > calls[c].deadline

\* A lease of c that c cannot take any more.
Past(c, model, attempt) ==
    \/ model = "primary" /\ calls[c].model = "fallback"
    \/ model = calls[c].model /\ attempt < calls[c].attempt
    \/ /\ model = calls[c].model /\ attempt = calls[c].attempt
       /\ calls[c].pc \notin {"idle", "enter", "retry"}

\* No attempt is made twice.
MadeOnce ==
    /\ \A m \in made : Past(m.lease[1], m.lease[2], m.lease[3])
    /\ \A m, n \in made : m.lease = n.lease => m = n

\* An attempt of the window is in the ledger, under a time not much older.
Recorded ==
    \A m \in made : m.at > clock - (Window - LockWait) =>
        \E r \in ledger : /\ r.lease = m.lease /\ r.owner = m.owner
                          /\ r.started >= m.at - LockWait

Finite == IsFiniteSet(ledger) /\ IsFiniteSet(made)

\* The inductive invariant.
IInv ==
    /\ TypeOK /\ BackoffHasAttempts /\ Finite
    /\ Timed /\ EntersAtOnce /\ OneLeader /\ Led /\ AnsweredByDeadline
    /\ Leased /\ ProviderCallsBounded
    /\ MadeOnce /\ Recorded /\ AttemptsPerWindow

----------------------------------------------------------------------------
(* Steps by which a call leaves the model it is at: by an answer, an error, *)
(* a timer, a cancellation, or the outcome of the flight it waited for.     *)

\* What a step may never change of a call.
Identity(r) == <<r.home, r.user, r.request, r.start, r.deadline>>

\* Where such a step leads: to the end, or to the fallback model.
Onward(c, r) ==
    /\ r \in Call /\ Identity(r) = Identity(calls[c])
    /\ \/ r.pc = "done" /\ r.model = calls[c].model /\ r.attempt = calls[c].attempt
       \/ /\ r.pc = "enter" /\ r.model = "fallback"
          /\ c \notin Standalone /\ calls[c].model = "primary"

Departs(c) ==
    /\ calls[c].pc \notin {"idle", "done"}
    /\ Onward(c, calls'[c])
    /\ calls' \in [Calls -> Call]
    /\ \A d \in Calls \ {c} :
          /\ Identity(calls'[d]) = Identity(calls[d])
          /\ calls'[d].pc = calls[d].pc
          /\ calls'[d].model = calls[d].model
          /\ calls'[d].attempt = calls[d].attempt
          /\ calls'[d].got = calls[d].got \/ calls'[d].got # "none"
          /\ Leads(c) /\ WaitsFor(d, c) => calls'[d].got # "none"
    /\ UNCHANGED ledger \/ Release(c, TRUE)
    /\ UNCHANGED <<clock, made>>

LEMMA OnwardType ==
    ASSUME TypeOK, NEW c \in Calls, NEW o \in Outcomes
    PROVE  Onward(c, Done(c, o)) /\ Onward(c, After(c, o))
<1>1. calls[c] \in Call /\ 0 \in 0..Retries
  BY AdmissionAssumption DEF TypeOK
<1>2. Onward(c, Done(c, o))
  BY <1>1 DEF Onward, Done, Call, Identity
<1>3. ASSUME FallsBack(c, o) PROVE Onward(c, After(c, o))
  <2>1. After(c, o) = [calls[c] EXCEPT !.pc = "enter", !.model = "fallback",
                                       !.attempt = 0, !.got = "none"]
    BY <1>3 DEF After
  <2>2. After(c, o) \in Call
    BY <1>1, <2>1 DEF Call, Models, Outcomes
  <2> QED
    BY <1>1, <1>3, <2>1, <2>2 DEF FallsBack, Onward, Call, Identity
<1> QED
  BY <1>2, <1>3 DEF After

\* A flight that ends tells all that wait for it.
LEMMA ResolveDeparts ==
    ASSUME TypeOK, NEW c \in Calls, calls[c].pc \notin {"idle", "done"},
           NEW r, Onward(c, r), NEW o \in Outcomes \ {"none"}, Resolve(c, r, o),
           UNCHANGED ledger \/ Release(c, TRUE), UNCHANGED <<clock, made>>
    PROVE  Departs(c)
<1>1. calls \in [Calls -> Call]
  BY DEF TypeOK
<1>2. calls'[c] = r
  BY DEF Resolve
<1>3. ASSUME NEW d \in Calls \ {c}
      PROVE  /\ calls'[d] \in Call
             /\ Identity(calls'[d]) = Identity(calls[d])
             /\ calls'[d].pc = calls[d].pc
             /\ calls'[d].model = calls[d].model
             /\ calls'[d].attempt = calls[d].attempt
             /\ calls'[d].got = calls[d].got \/ calls'[d].got # "none"
             /\ Leads(c) /\ WaitsFor(d, c) => calls'[d].got # "none"
  <2>1. calls[d] \in Call
    BY <1>1
  <2>2. calls'[d] = IF Leads(c) /\ WaitsFor(d, c)
                    THEN [calls[d] EXCEPT !.got = o] ELSE calls[d]
    BY DEF Resolve
  <2>3. [calls[d] EXCEPT !.got = o] \in Call
    BY <2>1 DEF Call
  <2> QED
    BY <2>1, <2>2, <2>3 DEF Call, Identity
<1>4. calls' \in [Calls -> Call]
  <2>1. calls' = [d \in Calls |-> calls'[d]]
    BY DEF Resolve
  <2>2. \A d \in Calls : calls'[d] \in Call
    BY <1>2, <1>3 DEF Onward
  <2> QED
    BY <2>1, <2>2
<1> QED
  BY <1>2, <1>3, <1>4 DEF Departs

LEMMA ReleaseOrNot ==
    ASSUME NEW c \in Calls, NEW w \in BOOLEAN, Release(c, w) \/ ReleaseHeld(c, w)
    PROVE  UNCHANGED ledger \/ Release(c, TRUE)
BY DEF Release, ReleaseHeld

LEMMA LeaversDepart ==
    ASSUME TypeOK, NEW c \in Calls, NEW w \in BOOLEAN,
           \/ Refused(c) \/ Resume(c) \/ ProviderTimer(c, w) \/ Abort(c, w)
           \/ \E o \in {"answer", "transport", "timeout", "refused"} : Return(c, o, w)
           \/ \E o \in {"timeout", "cancelled"} : DeadlineTimer(c, o, w)
    PROVE  Departs(c)
<1> USE DEF Outcomes
<1>1. CASE Refused(c)
  BY <1>1, OnwardType, ResolveDeparts DEF Refused, AtReserve
<1>2. CASE Resume(c)
  <2>1. calls \in [Calls -> Call] /\ calls[c] \in Call
    BY DEF TypeOK
  <2>2. Onward(c, After(c, calls[c].got))
    BY <2>1, OnwardType DEF Call
  <2>3. calls' \in [Calls -> Call]
    BY <1>2, <2>1, <2>2 DEF Resume, Onward
  <2>4. calls'[c] = After(c, calls[c].got) /\ \A d \in Calls \ {c} : calls'[d] = calls[d]
    BY <1>2, <2>1 DEF Resume
  <2>5. ~Leads(c)
    BY <1>2 DEF Resume, Leads
  <2> QED
    BY <1>2, <2>2, <2>3, <2>4, <2>5 DEF Resume, Departs
<1>3. CASE ProviderTimer(c, w)
  BY <1>3, OnwardType, ResolveDeparts, ReleaseOrNot DEF ProviderTimer, ProviderTimerDue
<1>4. CASE Abort(c, w)
  BY <1>4, OnwardType, ResolveDeparts, ReleaseOrNot DEF Abort
<1>5. ASSUME NEW o \in {"answer", "transport", "timeout", "refused"}, Return(c, o, w)
      PROVE  Departs(c)
  BY <1>5, OnwardType, ResolveDeparts, ReleaseOrNot DEF Return
<1>6. ASSUME NEW o \in {"timeout", "cancelled"}, DeadlineTimer(c, o, w)
      PROVE  Departs(c)
  BY <1>6, OnwardType, ResolveDeparts, ReleaseOrNot DEF DeadlineTimer, DeadlineDue
<1> QED
  BY <1>1, <1>2, <1>3, <1>4, <1>5, <1>6

\* Every step, with those by which a call departs taken together.
LEMMA NextCases ==
    ASSUME TypeOK, Next
    PROVE  \/ Tick
           \/ \E k \in Workers : Crash(k)
           \/ \E c \in Calls : \/ Begin(c) \/ Join(c) \/ Reserve(c) \/ Wake(c) \/ Departs(c)
                               \/ \E w \in BOOLEAN : Retry(c, w)
<1>1. ASSUME NEW c \in Calls, Run(c) PROVE Join(c) \/ Reserve(c) \/ Wake(c) \/ Departs(c)
  BY <1>1, LeaversDepart DEF Run
<1>2. ASSUME NEW c \in Calls, NEW w \in BOOLEAN,
             \/ \E o \in {"answer", "transport", "timeout", "refused"} : Return(c, o, w)
             \/ Retry(c, w) \/ Abort(c, w)
      PROVE  Retry(c, w) \/ Departs(c)
  BY <1>2, LeaversDepart
<1> QED
  BY <1>1, <1>2 DEF Next

----------------------------------------------------------------------------
(* The ledger.                                                              *)

\* A release changes nothing but when the lease expires.
LEMMA ReleaseKeeps ==
    ASSUME ledger \subseteq Row, IsFiniteSet(ledger), NEW c \in Calls,
           UNCHANGED ledger \/ Release(c, TRUE)
    PROVE  /\ ledger' \subseteq Row /\ IsFiniteSet(ledger')
           /\ \A r \in ledger : r.lease # LeaseOf(c) => r \in ledger'
           /\ \A r \in ledger : \E s \in ledger' :
                 s.lease = r.lease /\ s.owner = r.owner /\ s.started = r.started
<1>1. CASE UNCHANGED ledger
  BY <1>1
<1>2. CASE Release(c, TRUE)
  <2> DEFINE Released(r) == [r EXCEPT !.expires = IF r.lease = LeaseOf(c) THEN 0 ELSE @]
             f == [r \in ledger |-> Released(r)]
  <2>1. ledger' = {Released(r) : r \in ledger}
    BY <1>2 DEF Release
  <2>2. ASSUME NEW r \in ledger
        PROVE  /\ Released(r) \in Row /\ Released(r).lease = r.lease /\ Released(r).owner = r.owner
               /\ Released(r).started = r.started
               /\ r.lease # LeaseOf(c) => Released(r) = r
    <3>1. r \in Row
      OBVIOUS
    <3> QED
      BY <3>1 DEF Row
  <2>3. f \in Surjection(ledger, ledger')
    <3> HIDE DEF Released
    <3> QED
      BY <2>1 DEF Surjection
  <2>4. IsFiniteSet(ledger')
    <3> HIDE DEF f
    <3> QED
      BY <2>3, FS_Surjection
  <2> HIDE DEF Released
  <2>5. ledger' \subseteq Row
    BY <2>1, <2>2
  <2>6. ASSUME NEW r \in ledger, r.lease # LeaseOf(c) PROVE r \in ledger'
    BY <2>1, <2>2, <2>6
  <2>7. ASSUME NEW r \in ledger
        PROVE  \E s \in ledger' : s.lease = r.lease /\ s.owner = r.owner /\ s.started = r.started
    <3>1. Released(r) \in ledger'
      BY <2>1
    <3> QED
      BY <2>2, <3>1
  <2> QED
    BY <2>4, <2>5, <2>6, <2>7
<1> QED
  BY <1>1, <1>2

\* An admitted attempt adds a row that outlives its call and deletes none that
\* still counts.
LEMMA ReserveKeeps ==
    ASSUME TypeOK, Timed, Finite, NEW c \in Calls, AtReserve(c), NEW now \in (clock - LockWait)..clock,
           ledger' = Kept(now) \cup {NewRow(c, now)}
    PROVE  /\ ledger' \subseteq Row /\ IsFiniteSet(ledger')
           /\ \A r \in ledger : r.started > now - Window \/ r.expires > now => r \in ledger'
           /\ NewRow(c, now) \in ledger'
           /\ NewRow(c, now).lease = LeaseOf(c) /\ NewRow(c, now).owner = calls[c].user
           /\ NewRow(c, now).started = now
           /\ NewRow(c, now).expires > calls[c].deadline
<1>1. calls[c] \in Call /\ clock \in Nat /\ now \in Int
  BY AdmissionAssumption DEF TypeOK, Time
<1>2. NewRow(c, now) = [lease |-> LeaseOf(c), owner |-> calls[c].user, started |-> now,
                        expires |-> now + Timeout + Grace]
  BY DEF NewRow
<1>3. NewRow(c, now) \in Row
  BY <1>1, <1>2, AdmissionAssumption DEF Row, Lease, LeaseOf, Call
<1>4. now + Timeout + Grace > calls[c].deadline
  <2>1. calls[c].deadline = calls[c].start + Timeout /\ calls[c].start <= clock
    BY DEF Timed, AtReserve
  <2>2. calls[c].start \in Nat
    BY <1>1 DEF Call
  <2> QED
    BY <1>1, <2>1, <2>2, AdmissionAssumption
<1>5. Kept(now) \subseteq ledger
  BY DEF Kept
<1>6. ledger' \subseteq Row
  BY <1>3, <1>5 DEF TypeOK
<1>7. IsFiniteSet(ledger')
  BY <1>5, FS_Subset, FS_AddElement DEF Finite
<1> QED
  BY <1>2, <1>4, <1>6, <1>7 DEF Kept

----------------------------------------------------------------------------
(* Types.                                                                   *)

LEMMA InitInv == Init => IInv
<1> SUFFICES ASSUME Init PROVE IInv
  OBVIOUS
<1> USE DEF Init
<1>1. \A c \in Calls : /\ calls[c].pc = "idle" /\ calls[c].model = "primary"
                       /\ calls[c] \in Call
  BY AdmissionAssumption DEF Call, Models, Outcomes
<1>2. TypeOK
  <2>1. calls \in [Calls -> Call]
    BY <1>1
  <2> QED
    BY <2>1, AdmissionAssumption DEF TypeOK, Time
<1>3. Calling = {} /\ \A u \in Users : {c \in Calling : calls[c].user = u} = {}
  BY <1>1 DEF Calling
<1>4. ProviderCallsBounded
  BY <1>3, FS_EmptySet, AdmissionAssumption DEF ProviderCallsBounded
<1>5. AttemptsPerWindow
  <2>1. {m \in made : m.at > clock - (Window - LockWait)} = {}
    OBVIOUS
  <2>2. \A u \in Users : {m \in {} : m.owner = u} = {}
    OBVIOUS
  <2> QED
    BY <2>1, <2>2, FS_EmptySet, AdmissionAssumption DEF AttemptsPerWindow
<1>6. Finite
  BY FS_EmptySet DEF Finite
<1>7. BackoffHasAttempts /\ Timed /\ EntersAtOnce /\ AnsweredByDeadline /\ Led /\ OneLeader
  BY <1>1, AdmissionAssumption
     DEF BackoffHasAttempts, Timed, EntersAtOnce, AnsweredByDeadline, Led, OneLeader, Leads
<1>8. Leased /\ MadeOnce /\ Recorded
  BY <1>3 DEF Leased, MadeOnce, Recorded
<1> QED
  BY <1>2, <1>4, <1>5, <1>6, <1>7, <1>8 DEF IInv

\* Every step keeps the types.
LEMMA TypesKept ==
    ASSUME TypeOK, BackoffHasAttempts, Finite, Timed, Next
    PROVE  TypeOK' /\ BackoffHasAttempts' /\ Finite'
<1> USE DEF TypeOK, Finite
<1>1. calls \in [Calls -> Call] /\ clock \in Nat
  BY DEF Time
<1>2. ASSUME NEW c \in Calls, Begin(c) PROVE TypeOK' /\ BackoffHasAttempts' /\ Finite'
  <2>1. clock + Timeout \in Nat
    BY <1>1, AdmissionAssumption
  <2>2. [calls[c] EXCEPT !.pc = "enter", !.start = clock, !.deadline = clock + Timeout] \in Call
    BY <1>1, <2>1 DEF Call
  <2>3. calls' = [calls EXCEPT ![c] = [calls[c] EXCEPT !.pc = "enter", !.start = clock,
                                                       !.deadline = clock + Timeout]]
    BY <1>1, <1>2 DEF Begin, Call
  <2>4. calls' \in [Calls -> Call]
    BY <1>1, <2>2, <2>3
  <2>5. calls'[c].pc = "enter" /\ \A d \in Calls \ {c} : calls'[d] = calls[d]
    BY <1>1, <2>3 DEF Call
  <2> QED
    BY <1>2, <2>4, <2>5 DEF Begin, BackoffHasAttempts
<1>3. ASSUME NEW c \in Calls, NEW p \in {"waiting", "calling"},
             calls' = [calls EXCEPT ![c].pc = p]
      PROVE  calls' \in [Calls -> Call] /\ BackoffHasAttempts'
  <2>1. [calls[c] EXCEPT !.pc = p] \in Call
    BY <1>1 DEF Call
  <2>2. calls' = [calls EXCEPT ![c] = [calls[c] EXCEPT !.pc = p]]
    BY <1>1, <1>3 DEF Call
  <2>3. calls'[c].pc = p /\ \A d \in Calls \ {c} : calls'[d] = calls[d]
    BY <1>1, <2>2 DEF Call
  <2> QED
    BY <1>1, <2>1, <2>2, <2>3 DEF BackoffHasAttempts
<1>4. ASSUME NEW c \in Calls, Join(c) PROVE TypeOK' /\ BackoffHasAttempts' /\ Finite'
  BY <1>3, <1>4 DEF Join
<1>5. ASSUME NEW c \in Calls, Reserve(c) PROVE TypeOK' /\ BackoffHasAttempts' /\ Finite'
  <2>1. calls' \in [Calls -> Call] /\ BackoffHasAttempts'
    BY <1>3, <1>5 DEF Reserve
  <2>2. ledger' \subseteq Row /\ IsFiniteSet(ledger')
    BY <1>5, ReserveKeeps DEF Reserve
  <2>3. IsFiniteSet(made')
    BY <1>5, FS_AddElement DEF Reserve
  <2>4. [lease |-> LeaseOf(c), owner |-> calls[c].user, at |-> clock]
           \in [lease: Lease, owner: Users, at: Time]
    BY <1>1 DEF Lease, LeaseOf, Call
  <2> QED
    BY <1>5, <2>1, <2>2, <2>3, <2>4 DEF Reserve
<1>6. ASSUME NEW c \in Calls, NEW w \in BOOLEAN, Retry(c, w)
      PROVE  TypeOK' /\ BackoffHasAttempts' /\ Finite'
  <2>1. [calls[c] EXCEPT !.pc = "backoff"] \in Call
    BY <1>1 DEF Call
  <2>2. calls' = [calls EXCEPT ![c] = [calls[c] EXCEPT !.pc = "backoff"]]
    BY <1>1, <1>6 DEF Retry, Call
  <2>3. calls'[c].attempt = calls[c].attempt /\ \A d \in Calls \ {c} : calls'[d] = calls[d]
    BY <1>1, <2>2 DEF Call
  <2>4. calls' \in [Calls -> Call] /\ BackoffHasAttempts'
    BY <1>1, <1>6, <2>1, <2>2, <2>3 DEF Retry, BackoffHasAttempts
  <2>5. ledger' \subseteq Row /\ IsFiniteSet(ledger')
    BY <1>6, ReleaseOrNot, ReleaseKeeps DEF Retry
  <2> QED
    BY <1>6, <2>4, <2>5 DEF Retry
<1>7. ASSUME NEW c \in Calls, Wake(c) PROVE TypeOK' /\ BackoffHasAttempts' /\ Finite'
  <2>1. calls[c].attempt + 1 \in 0..Retries
    BY <1>1, <1>7, AdmissionAssumption DEF Wake, BackoffHasAttempts, Call
  <2>2. [calls[c] EXCEPT !.pc = "retry", !.attempt = @ + 1] \in Call
    BY <1>1, <2>1 DEF Call
  <2>3. calls' = [calls EXCEPT ![c] = [calls[c] EXCEPT !.pc = "retry", !.attempt = @ + 1]]
    BY <1>1, <1>7 DEF Wake, Call
  <2>4. calls'[c].pc = "retry" /\ \A d \in Calls \ {c} : calls'[d] = calls[d]
    BY <1>1, <2>3 DEF Call
  <2> QED
    BY <1>1, <1>7, <2>2, <2>3, <2>4 DEF Wake, BackoffHasAttempts
<1>8. ASSUME NEW c \in Calls, Departs(c) PROVE TypeOK' /\ BackoffHasAttempts' /\ Finite'
  <2>1. ledger' \subseteq Row /\ IsFiniteSet(ledger')
    BY <1>8, ReleaseKeeps DEF Departs
  <2>2. \A d \in Calls : calls'[d].pc = "backoff" =>
            calls[d].pc = "backoff" /\ calls'[d].attempt = calls[d].attempt
    BY <1>8 DEF Departs, Onward
  <2> QED
    BY <1>8, <2>1, <2>2 DEF Departs, BackoffHasAttempts
<1>9. ASSUME NEW k \in Workers, Crash(k) PROVE TypeOK' /\ BackoffHasAttempts' /\ Finite'
  <2>1. \A c \in Calls : Done(c, "crashed") \in Call /\ Done(c, "crashed").pc = "done"
    <3> SUFFICES ASSUME NEW c \in Calls
                 PROVE  Done(c, "crashed") \in Call /\ Done(c, "crashed").pc = "done"
      OBVIOUS
    <3> HIDE DEF TypeOK, Finite
    <3>1. calls[c] \in Call
      BY <1>1
    <3> QED
      BY <3>1 DEF Done, Call, Outcomes
  <2>2. \A c \in Calls : calls'[c] \in Call /\ (calls'[c] = calls[c] \/ calls'[c].pc = "done")
    <3> DEFINE d(c) == Done(c, "crashed")
    <3>0. calls' = [c \in Calls |-> IF calls[c].home = k /\ calls[c].pc \notin {"idle", "done"}
                                    THEN d(c) ELSE calls[c]]
      BY <1>9 DEF Crash
    <3> HIDE DEF d
    <3>1. \A c \in Calls : calls'[c] = d(c) \/ calls'[c] = calls[c]
      BY <3>0
    <3>2. \A c \in Calls : d(c) \in Call /\ d(c).pc = "done"
      BY <2>1 DEF d
    <3> QED
      BY <1>1, <3>1, <3>2
  <2>3. calls' \in [Calls -> Call]
    BY <1>9, <2>2 DEF Crash
  <2>4. ledger' = ledger /\ made' = made /\ clock' = clock
    BY <1>9 DEF Crash
  <2>5. BackoffHasAttempts'
    <3> SUFFICES ASSUME NEW c \in Calls, calls'[c].pc = "backoff"
                 PROVE  calls'[c].attempt < Retries
      BY DEF BackoffHasAttempts
    <3>1. calls'[c] = calls[c]
      BY <2>2
    <3> QED
      BY <3>1 DEF BackoffHasAttempts
  <2> QED
    BY <2>3, <2>4, <2>5 DEF TypeOK, Finite
<1>10. CASE Tick
  BY <1>1, <1>10, AdmissionAssumption DEF Tick, Time, BackoffHasAttempts
<1> QED
  BY <1>2, <1>4, <1>5, <1>6, <1>7, <1>8, <1>9, <1>10, NextCases

----------------------------------------------------------------------------
(* Flights and deadlines.                                                   *)

\* Steps by which a call joins a flight, starts one or goes on with its own.
Moves(c) ==
    /\ Identity(calls'[c]) = Identity(calls[c])
    /\ calls'[c].model = calls[c].model /\ calls'[c].got = calls[c].got
    /\ \A d \in Calls \ {c} : calls'[d] = calls[d]
    /\ UNCHANGED clock
    /\ \/ /\ calls[c].pc = "enter" /\ Flying(c)
          /\ calls'[c].pc = "waiting" /\ calls'[c].attempt = calls[c].attempt
       \/ /\ AtReserve(c)
          /\ calls'[c].pc = "calling" /\ calls'[c].attempt = calls[c].attempt
       \/ /\ calls[c].pc = "calling"
          /\ calls'[c].pc = "backoff" /\ calls'[c].attempt = calls[c].attempt
       \/ /\ calls[c].pc = "backoff"
          /\ calls'[c].pc = "retry" /\ calls'[c].attempt = calls[c].attempt + 1

LEMMA MoversMove ==
    ASSUME TypeOK, NEW c \in Calls,
           Join(c) \/ Reserve(c) \/ Wake(c) \/ \E w \in BOOLEAN : Retry(c, w)
    PROVE  Moves(c)
<1>1. calls \in [Calls -> Call] /\ calls[c] \in Call
  BY DEF TypeOK
<1> USE DEF Moves, Identity, Call
<1>2. CASE Join(c)
  BY <1>1, <1>2 DEF Join
<1>3. CASE Reserve(c)
  BY <1>1, <1>3 DEF Reserve
<1>4. CASE Wake(c)
  BY <1>1, <1>4 DEF Wake
<1>5. CASE \E w \in BOOLEAN : Retry(c, w)
  BY <1>1, <1>5 DEF Retry
<1> QED
  BY <1>2, <1>3, <1>4, <1>5

LEMMA BeginFacts ==
    ASSUME TypeOK, NEW c \in Calls, Begin(c)
    PROVE  /\ calls'[c].pc = "enter" /\ calls'[c].start = clock
           /\ calls'[c].deadline = clock + Timeout
           /\ calls'[c].model = calls[c].model /\ calls'[c].attempt = calls[c].attempt
           /\ \A d \in Calls \ {c} : calls'[d] = calls[d]
BY DEF TypeOK, Begin, Call

LEMMA CrashFacts ==
    ASSUME TypeOK, NEW k \in Workers, Crash(k), NEW c \in Calls
    PROVE  /\ calls'[c] # calls[c] => calls'[c].pc = "done" /\ calls[c].pc # "idle"
           /\ Identity(calls'[c]) = Identity(calls[c])
           /\ calls'[c].model = calls[c].model /\ calls'[c].attempt = calls[c].attempt
           /\ calls[c].home = k => calls'[c].pc \in {"idle", "done"}
           /\ calls[c].home # k => calls'[c] = calls[c]
<1>1. calls[c] \in Call
  BY DEF TypeOK
<1> QED
  BY <1>1 DEF Crash, Done, Identity, Call

\* No call outlives its deadline, and why.
LEMMA DeadlinesKept ==
    ASSUME TypeOK, Timed, EntersAtOnce, OneLeader, Led, AnsweredByDeadline, Next
    PROVE  Timed' /\ EntersAtOnce' /\ OneLeader' /\ Led' /\ AnsweredByDeadline'
<1>0. /\ clock \in Nat /\ Standalone \subseteq Calls /\ Timeout \in Nat
      /\ \A c \in Calls : calls[c].start \in Nat /\ calls[c].deadline \in Nat
  BY AdmissionAssumption DEF TypeOK, Time, Call
<1>1. ASSUME NEW c \in Calls, Begin(c)
      PROVE  Timed' /\ EntersAtOnce' /\ OneLeader' /\ Led' /\ AnsweredByDeadline'
  <2>1. UNCHANGED clock /\ calls[c].pc = "idle"
    BY <1>1 DEF Begin
  <2>2. Timed' /\ AnsweredByDeadline'
    BY <1>0, <1>1, <2>1, BeginFacts DEF Timed, AnsweredByDeadline
  <2>3. EntersAtOnce'
    BY <1>0, <1>1, <2>1, BeginFacts DEF EntersAtOnce
  <2>4. \A d \in Calls : /\ Leads(d)' <=> Leads(d)
                         /\ Leads(d) => d # c
                         /\ d # c => calls'[d] = calls[d] /\ Key(d)' = Key(d)
    BY <1>1, <2>1, BeginFacts DEF Leads, Key
  <2>5. OneLeader'
    BY <2>4 DEF OneLeader
  <2>6. Led'
    BY <1>0, <1>1, <2>4, BeginFacts DEF Led
  <2> QED
    BY <2>2, <2>3, <2>5, <2>6
<1>2. ASSUME NEW c \in Calls, Moves(c)
      PROVE  Timed' /\ EntersAtOnce' /\ OneLeader' /\ Led' /\ AnsweredByDeadline'
  <2>1. /\ calls[c].pc \in {"enter", "calling", "backoff", "retry"}
        /\ calls'[c].pc \in {"waiting", "calling", "backoff", "retry"}
        /\ UNCHANGED clock
    BY <1>2 DEF Moves, AtReserve
  <2>2. \A d \in Calls : /\ Identity(calls'[d]) = Identity(calls[d])
                         /\ calls'[d].model = calls[d].model /\ calls'[d].got = calls[d].got
                         /\ d # c => calls'[d].pc = calls[d].pc
    BY <1>2 DEF Moves
  <2>3. \A d \in Calls : Key(d)' = Key(d) /\ (Leads(d) => Leads(d)')
                         /\ calls'[d].deadline = calls[d].deadline
                         /\ calls'[d].start = calls[d].start
    BY <1>2, <2>2 DEF Moves, Identity, Key, Leads, AtReserve
  <2>4. Timed' /\ AnsweredByDeadline'
    BY <2>1, <2>2, <2>3 DEF Timed, AnsweredByDeadline
  <2>5. EntersAtOnce'
    BY <1>0, <2>1, <2>2, <2>3 DEF EntersAtOnce
  <2>6. OneLeader'
    <3>1. \A d \in Calls \ {c} : Leads(d)' <=> Leads(d)
      BY <2>2 DEF Leads
    <3>2. Leads(c)' => Leads(c) \/ ~Flying(c)
      BY <1>2 DEF Moves, Leads, AtReserve
    <3> QED
      BY <2>3, <3>1, <3>2 DEF OneLeader, Flying
  <2>7. Led'
    <3> SUFFICES ASSUME NEW e \in Standalone, calls'[e].pc = "waiting", calls'[e].got = "none"
                 PROVE  \E d \in Calls : /\ Leads(d)' /\ Key(d)' = Key(e)'
                                         /\ calls'[d].deadline <= calls'[e].deadline
      BY DEF Led
    <3>1. CASE e # c \/ calls[c].pc = "waiting"
      BY <1>0, <2>2, <2>3, <3>1 DEF Led
    <3>2. CASE e = c /\ calls[c].pc # "waiting"
      <4>1. PICK d \in Calls : Leads(d) /\ Key(d) = Key(c)
        BY <1>2, <3>2 DEF Moves, Flying, AtReserve
      <4>2. calls[c].deadline = clock + Timeout
        BY <1>0, <1>2, <3>2 DEF Moves, EntersAtOnce, Timed
      <4>3. calls[d].deadline <= clock + Timeout
        BY <1>0, <4>1 DEF Timed, Leads
      <4> QED
        BY <2>3, <3>2, <4>1, <4>2, <4>3
    <3> QED
      BY <3>1, <3>2
  <2> QED
    BY <2>4, <2>5, <2>6, <2>7
<1>3. ASSUME NEW c \in Calls, Departs(c)
      PROVE  Timed' /\ EntersAtOnce' /\ OneLeader' /\ Led' /\ AnsweredByDeadline'
  <2>1. /\ calls[c].pc \notin {"idle", "done"} /\ UNCHANGED clock
        /\ \A d \in Calls : Identity(calls'[d]) = Identity(calls[d])
    BY <1>3 DEF Departs, Onward
  <2>2. \A d \in Calls : /\ calls'[d].deadline = calls[d].deadline
                         /\ calls'[d].start = calls[d].start
                         /\ calls'[d].pc \notin {"idle", "done"} => calls[d].pc \notin {"idle", "done"}
                         /\ calls'[d].pc # "idle" => calls[d].pc # "idle"
    BY <1>3, <2>1 DEF Departs, Identity
  <2>3. Timed' /\ AnsweredByDeadline'
    BY <2>1, <2>2 DEF Timed, AnsweredByDeadline
  <2>4. EntersAtOnce'
    BY <1>0, <1>3, <2>1, <2>2 DEF EntersAtOnce, Departs, Onward
  <2>5. \A d \in Calls : /\ Leads(d)' => d # c
                         /\ d # c => Key(d)' = Key(d) /\ (Leads(d)' <=> Leads(d))
    BY <1>3, <2>1 DEF Departs, Onward, Leads, Key, Identity
  <2>6. OneLeader'
    BY <2>5 DEF OneLeader
  <2>7. Led'
    <3> SUFFICES ASSUME NEW e \in Standalone, calls'[e].pc = "waiting", calls'[e].got = "none"
                 PROVE  \E d \in Calls : /\ Leads(d)' /\ Key(d)' = Key(e)'
                                         /\ calls'[d].deadline <= calls'[e].deadline
      BY DEF Led
    <3>1. e # c /\ e \in Calls
      BY <1>0, <1>3 DEF Departs, Onward
    <3>2. calls[e].pc = "waiting" /\ calls[e].got = "none" /\ ~(Leads(c) /\ WaitsFor(e, c))
      BY <1>3, <3>1 DEF Departs
    <3>3. PICK d \in Calls : /\ Leads(d) /\ Key(d) = Key(e)
                             /\ calls[d].deadline <= calls[e].deadline
      BY <3>2 DEF Led
    <3>4. d # c
      BY <3>2, <3>3 DEF WaitsFor
    <3> QED
      BY <2>2, <2>5, <3>1, <3>3, <3>4
  <2> QED
    BY <2>3, <2>4, <2>6, <2>7
<1>4. ASSUME NEW k \in Workers, Crash(k)
      PROVE  Timed' /\ EntersAtOnce' /\ OneLeader' /\ Led' /\ AnsweredByDeadline'
  <2>1. UNCHANGED clock
    BY <1>4 DEF Crash
  <2>2. Timed' /\ AnsweredByDeadline'
    BY <1>4, <2>1, CrashFacts DEF Timed, AnsweredByDeadline, Identity
  <2>3. EntersAtOnce'
    BY <1>0, <1>4, <2>1, CrashFacts DEF EntersAtOnce
  <2>4. \A d \in Calls : /\ Key(d)' = Key(d)
                         /\ Leads(d)' => Leads(d) /\ calls[d].home # k
                         /\ Leads(d) /\ calls[d].home # k => Leads(d)'
    BY <1>4, CrashFacts DEF Key, Leads, Identity
  <2>5. OneLeader'
    BY <2>4 DEF OneLeader
  <2>6. Led'
    <3> SUFFICES ASSUME NEW e \in Standalone, calls'[e].pc = "waiting", calls'[e].got = "none"
                 PROVE  \E d \in Calls : /\ Leads(d)' /\ Key(d)' = Key(e)'
                                         /\ calls'[d].deadline <= calls'[e].deadline
      BY DEF Led
    <3>1. e \in Calls /\ calls[e].home # k /\ calls'[e] = calls[e]
      BY <1>0, <1>4, CrashFacts
    <3>2. PICK d \in Calls : /\ Leads(d) /\ Key(d) = Key(e)
                             /\ calls[d].deadline <= calls[e].deadline
      BY <3>1 DEF Led
    <3>3. calls[d].home # k
      BY <3>1, <3>2 DEF Key
    <3> QED
      BY <1>4, <2>4, <3>1, <3>2, <3>3, CrashFacts
  <2> QED
    BY <2>2, <2>3, <2>5, <2>6
<1>5. CASE Tick
  <2>1. clock' = clock + 1 /\ UNCHANGED calls
    BY <1>5 DEF Tick
  <2>2. \A c \in Calls : calls[c].pc \notin {"enter", "retry"}
    BY <1>5 DEF Tick
  <2>3. Timed' /\ EntersAtOnce'
    BY <1>0, <2>1, <2>2 DEF Timed, EntersAtOnce
  <2>4. OneLeader' /\ Led'
    BY <2>1 DEF OneLeader, Led, Leads, Key
  <2>5. ASSUME NEW c \in Calls, calls[c].pc \in {"calling", "backoff"}
        PROVE  clock < calls[c].deadline
    BY <1>0, <1>5, <2>5 DEF Tick, DeadlineDue
  <2>6. ASSUME NEW c \in Calls, calls[c].pc \notin {"idle", "done"}
        PROVE  clock < calls[c].deadline
    <3>1. calls[c].pc \in {"calling", "backoff", "waiting"}
      BY <2>2, <2>6 DEF TypeOK, Call
    <3>2. CASE calls[c].pc = "waiting" /\ c \in Standalone
      <4>1. calls[c].got = "none"
        BY <1>5, <3>2 DEF Tick
      <4>2. PICK d \in Calls : Leads(d) /\ calls[d].deadline <= calls[c].deadline
        BY <3>2, <4>1 DEF Led
      <4>3. clock < calls[d].deadline
        BY <2>2, <2>5, <4>2 DEF Leads
      <4> QED
        BY <1>0, <4>2, <4>3
    <3>3. CASE calls[c].pc = "waiting" /\ c \notin Standalone
      BY <1>0, <1>5, <3>3 DEF Tick, DeadlineDue
    <3> QED
      BY <2>5, <3>1, <3>2, <3>3
  <2>7. AnsweredByDeadline'
    BY <1>0, <2>1, <2>6 DEF AnsweredByDeadline, Timed
  <2> QED
    BY <2>3, <2>4, <2>7
<1> QED
  BY <1>1, <1>2, <1>3, <1>4, <1>5, NextCases, MoversMove

----------------------------------------------------------------------------
(* Counting in the ledger.                                                  *)

\* What has a row each is no more than the rows.
LEMMA RowsCount ==
    ASSUME NEW S, NEW T, IsFiniteSet(T), NEW g \in [S -> Lease],
           \A x, y \in S : g[x] = g[y] => x = y,
           \A x \in S : \E r \in T : r.lease = g[x]
    PROVE  /\ IsFiniteSet(S) /\ Cardinality(S) <= Cardinality(T)
           /\ Cardinality(S) \in Nat /\ Cardinality(T) \in Nat
<1> DEFINE f == [x \in S |-> CHOOSE r \in T : r.lease = g[x]]
<1>1. \A x \in S : f[x] \in T /\ f[x].lease = g[x]
  OBVIOUS
<1>2. f \in Injection(S, T)
  <2>1. f \in [S -> T]
    BY <1>1
  <2>2. \A x, y \in S : f[x] = f[y] => x = y
    BY <1>1
  <2> HIDE DEF f
  <2> QED
    BY <2>1, <2>2 DEF Injection, IsInjective
<1> HIDE DEF f
<1> QED
  BY <1>2, FS_Injection, FS_CardinalityType

\* The provider works on no more calls than there are active leases, however
\* old the time is at which they are counted.
LEMMA CallingCounted ==
    ASSUME TypeOK, Timed, Finite, AnsweredByDeadline, Leased, NEW now \in Int, now <= clock
    PROVE  /\ Cardinality(Calling) <= Cardinality(Active(now))
           /\ \A u \in Users : Cardinality({c \in Calling : calls[c].user = u})
                                  <= Cardinality(Own(Active(now), u))
           /\ Cardinality(Active(now)) \in Nat
           /\ \A u \in Users : Cardinality(Own(Active(now), u)) \in Nat
<1>1. IsFiniteSet(Active(now)) /\ \A u \in Users : IsFiniteSet(Own(Active(now), u))
  <2>1. Active(now) \subseteq ledger /\ \A u \in Users : Own(Active(now), u) \subseteq ledger
    BY DEF Active, Own
  <2> QED
    BY <2>1, FS_Subset DEF Finite
<1>2. ASSUME NEW c \in Calling
      PROVE  \E r \in Active(now) : r.lease = LeaseOf(c) /\ r.owner = calls[c].user
  <2>1. PICK r \in ledger : /\ r.lease = LeaseOf(c) /\ r.owner = calls[c].user
                            /\ r.expires > calls[c].deadline
    BY DEF Leased
  <2>2. clock <= calls[c].deadline
    BY DEF Calling, Timed, AnsweredByDeadline
  <2>3. r.expires \in Int /\ calls[c].deadline \in Nat /\ clock \in Nat
    BY <2>1 DEF TypeOK, Row, Call, Calling, Time
  <2> QED
    BY <2>1, <2>2, <2>3 DEF Active
<1>3. ASSUME NEW S \in SUBSET Calling, NEW T, IsFiniteSet(T),
             \A c \in S : \E r \in T : r.lease = LeaseOf(c)
      PROVE  Cardinality(S) <= Cardinality(T)
  <2> DEFINE g == [c \in S |-> LeaseOf(c)]
  <2>1. \A c \in S : LeaseOf(c) \in Lease
    BY DEF Calling, LeaseOf, Lease, TypeOK, Call
  <2>2. g \in [S -> Lease] /\ \A c \in S : g[c] = LeaseOf(c)
    BY <2>1
  <2>3. \A c, d \in S : g[c] = g[d] => c = d
    BY <2>2 DEF LeaseOf
  <2> HIDE DEF g
  <2> QED
    BY <1>3, <2>2, <2>3, RowsCount
<1>4. Cardinality(Calling) <= Cardinality(Active(now))
  BY <1>1, <1>2, <1>3
<1>5. ASSUME NEW u \in Users
      PROVE  Cardinality({c \in Calling : calls[c].user = u})
                <= Cardinality(Own(Active(now), u))
  <2> DEFINE S == {c \in Calling : calls[c].user = u}
  <2>1. \A c \in S : \E r \in Own(Active(now), u) : r.lease = LeaseOf(c)
    BY <1>2 DEF Own
  <2>2. S \in SUBSET Calling
    OBVIOUS
  <2> HIDE DEF S
  <2>3. Cardinality(S) <= Cardinality(Own(Active(now), u))
    BY <1>1, <1>3, <2>1, <2>2
  <2> QED
    BY <2>3 DEF S
<1> QED
  BY <1>1, <1>4, <1>5, FS_CardinalityType

\* A step that starts no attempt leaves no more of them.
LEMMA FewerCalling ==
    ASSUME ProviderCallsBounded, Calling' \subseteq Calling,
           \A c \in Calls : calls'[c].user = calls[c].user
    PROVE  ProviderCallsBounded'
<1>1. IsFiniteSet(Calling)
  BY AdmissionAssumption, FS_Subset DEF Calling
<1>2. \A S \in SUBSET Calling : \A T \in SUBSET S :
        Cardinality(S) \in Nat /\ Cardinality(T) \in Nat /\ Cardinality(T) <= Cardinality(S)
  BY <1>1, FS_Subset, FS_CardinalityType
<1>3. Cardinality(Calling') <= Concurrency
  <2>1. Cardinality(Calling') <= Cardinality(Calling)
        /\ Cardinality(Calling') \in Nat /\ Cardinality(Calling) \in Nat
    BY <1>2
  <2> QED
    BY <2>1, AdmissionAssumption DEF ProviderCallsBounded
<1>4. ASSUME NEW u \in Users
      PROVE  Cardinality({c \in Calling' : calls'[c].user = u}) <= UserConcurrency
  <2> DEFINE S == {c \in Calling : calls[c].user = u}
             T == {c \in Calling' : calls'[c].user = u}
  <2>1. S \subseteq Calling /\ T \subseteq S
    BY DEF Calling
  <2>2. Cardinality(S) <= UserConcurrency
    BY DEF ProviderCallsBounded
  <2> HIDE DEF S, T
  <2>3. Cardinality(T) <= Cardinality(S) /\ Cardinality(T) \in Nat /\ Cardinality(S) \in Nat
    BY <1>2, <2>1
  <2>4. Cardinality(T) <= UserConcurrency
    BY <2>2, <2>3, AdmissionAssumption
  <2> QED
    BY <2>4 DEF T
<1> QED
  BY <1>3, <1>4 DEF ProviderCallsBounded

\* Every step keeps the leases behind what the provider works on, and their number.
LEMMA LeasesKept ==
    ASSUME TypeOK, Timed, Finite, AnsweredByDeadline, Leased, ProviderCallsBounded, Next
    PROVE  Leased' /\ ProviderCallsBounded'
<1>0. calls \in [Calls -> Call] /\ clock \in Nat
  BY DEF TypeOK, Time
<1>1. ASSUME NEW c \in Calls, Moves(c), UNCHANGED ledger \/ Release(c, TRUE),
             calls'[c].pc # "calling"
      PROVE  Leased' /\ ProviderCallsBounded'
  <2>1. /\ Calling' \subseteq Calling \ {c}
        /\ \A d \in Calls : calls'[d].user = calls[d].user
        /\ \A d \in Calls \ {c} : calls'[d] = calls[d] /\ LeaseOf(d)' = LeaseOf(d)
                                  /\ LeaseOf(d) # LeaseOf(c)
    BY <1>1 DEF Moves, Calling, Identity, LeaseOf
  <2>2. \A r \in ledger : r.lease # LeaseOf(c) => r \in ledger'
    BY <1>1, ReleaseKeeps DEF TypeOK, Finite
  <2>3. Leased'
    BY <2>1, <2>2 DEF Leased, Calling
  <2>4. ProviderCallsBounded'
    BY <2>1, FewerCalling
  <2> QED
    BY <2>3, <2>4
<1>2. ASSUME NEW c \in Calls, Reserve(c) PROVE Leased' /\ ProviderCallsBounded'
  <2>1. PICK now \in (clock - LockWait)..clock :
           Admits(c, now) /\ ledger' = Kept(now) \cup {NewRow(c, now)}
    BY <1>2 DEF Reserve
  <2>2. now \in Int /\ now <= clock
    BY <1>0, AdmissionAssumption
  <2>3. /\ Moves(c) /\ AtReserve(c) /\ calls'[c].pc = "calling"
        /\ calls'[c].attempt = calls[c].attempt
    BY <1>0, <1>2, MoversMove DEF Reserve, Call
  <2>4. /\ \A d \in Calls : /\ calls'[d].user = calls[d].user
                            /\ calls'[d].deadline = calls[d].deadline
                            /\ LeaseOf(d)' = LeaseOf(d)
        /\ Calling' = Calling \cup {c} /\ c \notin Calling
    BY <2>3 DEF Moves, Calling, Identity, LeaseOf, AtReserve
  <2>5. Leased'
    <3>1. \A d \in Calling : \E r \in ledger' :
             /\ r.lease = LeaseOf(d) /\ r.owner = calls[d].user
             /\ r.expires > calls[d].deadline
      <4> SUFFICES ASSUME NEW d \in Calling
                   PROVE  \E r \in ledger' : /\ r.lease = LeaseOf(d) /\ r.owner = calls[d].user
                                             /\ r.expires > calls[d].deadline
        OBVIOUS
      <4>1. PICK r \in ledger : /\ r.lease = LeaseOf(d) /\ r.owner = calls[d].user
                                /\ r.expires > calls[d].deadline
        BY DEF Leased
      <4>2. r.expires > now
        <5>1. clock <= calls[d].deadline
          BY DEF Calling, Timed, AnsweredByDeadline
        <5>2. r.expires \in Int /\ calls[d].deadline \in Nat
          BY <1>0 DEF TypeOK, Row, Call, Calling
        <5> QED
          BY <1>0, <2>2, <4>1, <5>1, <5>2
      <4>3. r \in ledger'
        BY <2>1, <2>3, <4>2, ReserveKeeps
      <4> QED
        BY <4>1, <4>3
    <3>2. \E r \in ledger' : /\ r.lease = LeaseOf(c) /\ r.owner = calls[c].user
                             /\ r.expires > calls[c].deadline
      BY <2>1, <2>3, ReserveKeeps
    <3>3. \A d \in Calling' : d \in Calls
      BY DEF Calling
    <3> QED
      BY <2>4, <3>1, <3>2, <3>3 DEF Leased
  <2>6. IsFiniteSet(Calling)
    BY AdmissionAssumption, FS_Subset DEF Calling
  <2>7. Cardinality(Calling') <= Concurrency
    <3>1. Cardinality(Calling') = Cardinality(Calling) + 1
      BY <2>4, <2>6, FS_AddElement
    <3>2. Cardinality(Calling) < Concurrency
      <4>1. Cardinality(Active(now)) < Concurrency
        BY <2>1 DEF Admits
      <4> QED
        BY <2>2, <2>6, <4>1, CallingCounted, FS_CardinalityType, AdmissionAssumption
    <3> QED
      BY <2>6, <3>1, <3>2, FS_CardinalityType, AdmissionAssumption
  <2>8. ASSUME NEW u \in Users
        PROVE  Cardinality({d \in Calling' : calls'[d].user = u}) <= UserConcurrency
    <3> DEFINE S == {d \in Calling : calls[d].user = u}
    <3>1. IsFiniteSet(S) /\ Cardinality(S) \in Nat
      BY <2>6, FS_Subset, FS_CardinalityType
    <3>2. CASE calls[c].user = u
      <4>1. {d \in Calling' : calls'[d].user = u} = S \cup {c} /\ c \notin S
        BY <2>4, <3>2 DEF Calling
      <4>2. Cardinality(Own(Active(now), u)) < UserConcurrency
        BY <2>1, <3>2 DEF Admits
      <4>3. Cardinality(S) < UserConcurrency
        <5>1. Cardinality(S) <= Cardinality(Own(Active(now), u))
              /\ Cardinality(Own(Active(now), u)) \in Nat
          BY <2>2, CallingCounted
        <5> HIDE DEF S
        <5> QED
          BY <3>1, <4>2, <5>1, AdmissionAssumption
      <4> HIDE DEF S
      <4>4. Cardinality(S \cup {c}) = Cardinality(S) + 1
        BY <3>1, <4>1, FS_AddElement
      <4>5. Cardinality(S \cup {c}) <= UserConcurrency
        BY <3>1, <4>3, <4>4, AdmissionAssumption
      <4> QED
        BY <4>1, <4>5, Zenon
    <3>3. CASE calls[c].user # u
      <4>1. {d \in Calling' : calls'[d].user = u} = S
        BY <2>4, <3>3 DEF Calling
      <4> QED
        BY <4>1 DEF ProviderCallsBounded
    <3> QED
      BY <3>2, <3>3
  <2> QED
    BY <2>5, <2>7, <2>8 DEF ProviderCallsBounded
<1>3. ASSUME NEW c \in Calls, Departs(c) PROVE Leased' /\ ProviderCallsBounded'
  <2>1. /\ Calling' \subseteq Calling \ {c}
        /\ \A d \in Calls : calls'[d].user = calls[d].user /\ calls'[d].deadline = calls[d].deadline
        /\ \A d \in Calls \ {c} : LeaseOf(d)' = LeaseOf(d) /\ LeaseOf(d) # LeaseOf(c)
    BY <1>3 DEF Departs, Onward, Calling, Identity, LeaseOf
  <2>2. \A r \in ledger : r.lease # LeaseOf(c) => r \in ledger'
    BY <1>3, ReleaseKeeps DEF Departs, TypeOK, Finite
  <2>3. Leased'
    BY <2>1, <2>2 DEF Leased, Calling
  <2>4. ProviderCallsBounded'
    BY <2>1, FewerCalling
  <2> QED
    BY <2>3, <2>4
<1>4. ASSUME UNCHANGED ledger, Calling' \subseteq Calling,
             \A d \in Calls : Identity(calls'[d]) = Identity(calls[d])
                              \/ (calls'[d].user = calls[d].user /\ d \notin Calling'),
             \A d \in Calling' : calls'[d] = calls[d]
      PROVE  Leased' /\ ProviderCallsBounded'
  <2>1. \A d \in Calls : calls'[d].user = calls[d].user
    BY <1>4 DEF Identity
  <2>2. Leased'
    BY <1>4 DEF Leased, LeaseOf, Calling
  <2> QED
    BY <1>4, <2>1, <2>2, FewerCalling
<1>5. ASSUME NEW c \in Calls, Begin(c) PROVE Leased' /\ ProviderCallsBounded'
  <2>1. UNCHANGED ledger /\ calls'[c].user = calls[c].user
    BY <1>0, <1>5 DEF Begin, Call
  <2>2. calls'[c].pc = "enter" /\ \A d \in Calls \ {c} : calls'[d] = calls[d]
    BY <1>5, BeginFacts
  <2> QED
    BY <1>4, <2>1, <2>2 DEF Calling
<1>6. ASSUME NEW k \in Workers, Crash(k) PROVE Leased' /\ ProviderCallsBounded'
  <2>1. UNCHANGED ledger
    BY <1>6 DEF Crash
  <2> QED
    BY <1>4, <1>6, <2>1, CrashFacts DEF Calling
<1>7. CASE Tick
  BY <1>4, <1>7 DEF Tick, Calling
<1>8. ASSUME NEW c \in Calls, Join(c) \/ Wake(c) \/ \E w \in BOOLEAN : Retry(c, w)
      PROVE  Leased' /\ ProviderCallsBounded'
  <2>1. calls'[c].pc # "calling"
    BY <1>0, <1>8 DEF Join, Wake, Retry, Call
  <2>2. UNCHANGED ledger \/ Release(c, TRUE)
    BY <1>8, ReleaseOrNot DEF Join, Wake, Retry
  <2> QED
    BY <1>1, <1>8, <2>1, <2>2, MoversMove
<1> QED
  BY <1>2, <1>3, <1>5, <1>6, <1>7, <1>8, NextCases

----------------------------------------------------------------------------
(* Attempts of the window.                                                  *)

Recent == {m \in made : m.at > clock - (Window - LockWait)}

\* A row that a worker counts for each attempt of the window, and for each of
\* a user one of that user.
LEMMA RecentCounted ==
    ASSUME TypeOK, Finite, MadeOnce, Recorded, NEW now \in Int, now <= clock
    PROVE  /\ Cardinality(Recent) <= Cardinality(Counted(now))
           /\ \A u \in Users : Cardinality({m \in Recent : m.owner = u})
                                  <= Cardinality(Own(Counted(now), u))
           /\ Cardinality(Counted(now)) \in Nat
           /\ \A u \in Users : Cardinality(Own(Counted(now), u)) \in Nat
<1>1. IsFiniteSet(Counted(now)) /\ \A u \in Users : IsFiniteSet(Own(Counted(now), u))
  <2>1. Counted(now) \subseteq ledger /\ \A u \in Users : Own(Counted(now), u) \subseteq ledger
    BY DEF Counted, Own
  <2> QED
    BY <2>1, FS_Subset DEF Finite
<1>2. ASSUME NEW m \in Recent
      PROVE  \E r \in Counted(now) : r.lease = m.lease /\ r.owner = m.owner
  <2>1. PICK r \in ledger : /\ r.lease = m.lease /\ r.owner = m.owner
                            /\ r.started >= m.at - LockWait
    BY DEF Recorded, Recent
  <2>2. r.started \in Int /\ m.at \in Nat /\ clock \in Nat
    BY <2>1 DEF TypeOK, Row, Recent, Time
  <2>3. r.started > now - Window
    BY <2>1, <2>2, AdmissionAssumption DEF Recent
  <2> QED
    BY <2>1, <2>3 DEF Counted
<1>3. ASSUME NEW S \in SUBSET Recent, NEW T, IsFiniteSet(T),
             \A m \in S : \E r \in T : r.lease = m.lease
      PROVE  Cardinality(S) <= Cardinality(T)
  <2> DEFINE g == [m \in S |-> m.lease]
  <2>1. g \in [S -> Lease] /\ \A m \in S : g[m] = m.lease
    BY DEF Recent, TypeOK
  <2>2. \A m, n \in S : g[m] = g[n] => m = n
    BY <2>1 DEF MadeOnce, Recent
  <2> HIDE DEF g
  <2> QED
    BY <1>3, <2>1, <2>2, RowsCount
<1>4. Cardinality(Recent) <= Cardinality(Counted(now))
  BY <1>1, <1>2, <1>3
<1>5. ASSUME NEW u \in Users
      PROVE  Cardinality({m \in Recent : m.owner = u}) <= Cardinality(Own(Counted(now), u))
  <2> DEFINE S == {m \in Recent : m.owner = u}
  <2>1. \A m \in S : \E r \in Own(Counted(now), u) : r.lease = m.lease
    BY <1>2 DEF Own
  <2>2. S \in SUBSET Recent
    OBVIOUS
  <2> HIDE DEF S
  <2>3. Cardinality(S) <= Cardinality(Own(Counted(now), u))
    BY <1>1, <1>3, <2>1, <2>2
  <2> QED
    BY <2>3 DEF S
<1> QED
  BY <1>1, <1>4, <1>5, FS_CardinalityType

\* A step that makes no attempt leaves no more of them in the window.
LEMMA FewerRecent ==
    ASSUME Finite, AttemptsPerWindow, Recent' \subseteq Recent
    PROVE  AttemptsPerWindow'
<1>1. IsFiniteSet(Recent)
  BY FS_Subset DEF Recent, Finite
<1>2. \A S \in SUBSET Recent : \A T \in SUBSET S :
        Cardinality(S) \in Nat /\ Cardinality(T) \in Nat /\ Cardinality(T) <= Cardinality(S)
  BY <1>1, FS_Subset, FS_CardinalityType
<1>3. Cardinality(Recent') <= RequestLimit
  <2>1. /\ Cardinality(Recent') <= Cardinality(Recent)
        /\ Cardinality(Recent') \in Nat /\ Cardinality(Recent) \in Nat
    BY <1>2
  <2> QED
    BY <2>1, AdmissionAssumption DEF AttemptsPerWindow, Recent
<1>4. ASSUME NEW u \in Users
      PROVE  Cardinality({m \in Recent' : m.owner = u}) <= UserRequestLimit
  <2> DEFINE S == {m \in Recent : m.owner = u}
             T == {m \in Recent' : m.owner = u}
  <2>1. S \subseteq Recent /\ T \subseteq S
    OBVIOUS
  <2>2. Cardinality(S) <= UserRequestLimit
    BY DEF AttemptsPerWindow, Recent
  <2> HIDE DEF S, T
  <2>3. Cardinality(T) <= Cardinality(S) /\ Cardinality(T) \in Nat /\ Cardinality(S) \in Nat
    BY <1>2, <2>1
  <2>4. Cardinality(T) <= UserRequestLimit
    BY <2>2, <2>3, AdmissionAssumption
  <2> QED
    BY <2>4 DEF T
<1> QED
  BY <1>3, <1>4 DEF AttemptsPerWindow, Recent

\* A lease a call cannot take stays one.
LEMMA PastStays ==
    ASSUME TypeOK, BackoffHasAttempts, NEW c \in Calls, NEW model, NEW attempt \in Nat,
           Past(c, model, attempt),
           \/ UNCHANGED calls[c]
           \/ Begin(c) \/ Moves(c) \/ Departs(c)
           \/ \E d \in Calls \ {c} : Begin(d) \/ Moves(d) \/ Departs(d)
           \/ \E k \in Workers : Crash(k)
    PROVE  Past(c, model, attempt)'
<1>0. calls[c] \in Call /\ calls[c].attempt \in Nat
  BY AdmissionAssumption DEF TypeOK, Call
<1>1. CASE \/ UNCHANGED calls[c]
           \/ \E d \in Calls \ {c} : Begin(d) \/ Moves(d) \/ Departs(d)
  BY <1>1, BeginFacts DEF Past, Moves, Departs
<1>2. CASE Begin(c)
  BY <1>2, BeginFacts DEF Past, Begin
<1>3. CASE Moves(c)
  BY <1>0, <1>3 DEF Past, Moves, AtReserve
<1>4. CASE Departs(c)
  BY <1>0, <1>4 DEF Past, Departs, Onward, Call, Models
<1>5. CASE \E k \in Workers : Crash(k)
  <2>1. /\ calls'[c].model = calls[c].model /\ calls'[c].attempt = calls[c].attempt
        /\ calls'[c] = calls[c] \/ calls'[c].pc = "done"
    BY <1>5, CrashFacts
  <2> QED
    BY <2>1 DEF Past
<1> QED
  BY <1>1, <1>2, <1>3, <1>4, <1>5

\* Every step keeps the attempts of the window in the ledger, and their number.
LEMMA WindowKept ==
    ASSUME TypeOK, BackoffHasAttempts, Finite, Timed, MadeOnce, Recorded, AttemptsPerWindow, Next
    PROVE  MadeOnce' /\ Recorded' /\ AttemptsPerWindow'
<1>0. /\ calls \in [Calls -> Call] /\ clock \in Nat
      /\ \A m \in made : m.lease \in Lease /\ m.lease[1] \in Calls /\ m.lease[3] \in Nat
                         /\ m.at \in Nat
  BY AdmissionAssumption DEF TypeOK, Time, Lease
<1>1. ASSUME UNCHANGED made, clock' >= clock, clock' \in Nat,
             \A m \in made : Past(m.lease[1], m.lease[2], m.lease[3])',
             \A r \in ledger : \E s \in ledger' :
                s.lease = r.lease /\ s.owner = r.owner /\ s.started = r.started
      PROVE  MadeOnce' /\ Recorded' /\ AttemptsPerWindow'
  <2>1. MadeOnce'
    BY <1>1 DEF MadeOnce
  <2>2. \A m \in made : m.at > clock' - (Window - LockWait) => m.at > clock - (Window - LockWait)
    BY <1>0, <1>1, AdmissionAssumption
  <2>3. Recorded'
    <3> SUFFICES ASSUME NEW m \in made, m.at > clock' - (Window - LockWait)
                 PROVE  \E s \in ledger' : /\ s.lease = m.lease /\ s.owner = m.owner
                                           /\ s.started >= m.at - LockWait
      BY <1>1 DEF Recorded
    <3>1. PICK r \in ledger : /\ r.lease = m.lease /\ r.owner = m.owner
                              /\ r.started >= m.at - LockWait
      BY <2>2 DEF Recorded
    <3>2. PICK s \in ledger' : s.lease = r.lease /\ s.owner = r.owner /\ s.started = r.started
      BY <1>1
    <3> QED
      BY <3>1, <3>2
  <2>4. AttemptsPerWindow'
    <3>1. Recent' \subseteq Recent
      BY <1>1, <2>2 DEF Recent
    <3> QED
      BY <3>1, FewerRecent
  <2> QED
    BY <2>1, <2>3, <2>4
<1>2. ASSUME NEW c \in Calls, Begin(c) \/ Moves(c) \/ Departs(c)
      PROVE  \A m \in made : Past(m.lease[1], m.lease[2], m.lease[3])'
  <2> SUFFICES ASSUME NEW m \in made PROVE Past(m.lease[1], m.lease[2], m.lease[3])'
    OBVIOUS
  <2>1. Past(m.lease[1], m.lease[2], m.lease[3])
    BY DEF MadeOnce
  <2> QED
    BY <1>0, <1>2, <2>1, PastStays
<1>3. ASSUME NEW c \in Calls, Reserve(c) PROVE MadeOnce' /\ Recorded' /\ AttemptsPerWindow'
  <2>0. PICK new : new = [lease |-> LeaseOf(c), owner |-> calls[c].user, at |-> clock]
    OBVIOUS
  <2>1. PICK now \in (clock - LockWait)..clock :
           Admits(c, now) /\ ledger' = Kept(now) \cup {NewRow(c, now)}
    BY <1>3 DEF Reserve
  <2>2. now \in Int /\ now <= clock /\ now >= clock - LockWait
    BY <1>0, AdmissionAssumption
  <2>3. Moves(c) /\ AtReserve(c) /\ made' = made \cup {new} /\ UNCHANGED clock
    BY <1>3, <2>0, MoversMove DEF Reserve
  <2>4. /\ new.lease = LeaseOf(c) /\ new.owner = calls[c].user /\ new.at = clock
        /\ new \in made'
    BY <2>0, <2>3
  <2>5. \A m \in made : m.lease # LeaseOf(c)
    <3> SUFFICES ASSUME NEW m \in made, m.lease = LeaseOf(c) PROVE FALSE
      OBVIOUS
    <3>1. Past(c, calls[c].model, calls[c].attempt)
      <4>1. m.lease[1] = c /\ m.lease[2] = calls[c].model /\ m.lease[3] = calls[c].attempt
        BY DEF LeaseOf
      <4> QED
        BY <4>1 DEF MadeOnce
    <3>2. calls[c].pc \in {"enter", "retry"} /\ calls[c].attempt \in Nat
      BY <1>0, <2>3, AdmissionAssumption DEF AtReserve, Call
    <3> QED
      BY <3>1, <3>2 DEF Past
  <2>6. MadeOnce'
    <3>1. \A m \in made : Past(m.lease[1], m.lease[2], m.lease[3])'
      BY <1>2, <2>3
    <3>2. Past(new.lease[1], new.lease[2], new.lease[3])'
      <4>1. /\ new.lease[1] = c /\ new.lease[2] = calls[c].model
            /\ new.lease[3] = calls[c].attempt
        BY <2>4 DEF LeaseOf
      <4>2. calls'[c].pc = "calling" /\ calls'[c].model = calls[c].model
            /\ calls'[c].attempt = calls[c].attempt
        BY <1>0, <1>3 DEF Reserve, Call
      <4> QED
        BY <4>1, <4>2 DEF Past
    <3>3. \A m, n \in made' : m.lease = n.lease => m = n
      BY <2>3, <2>4, <2>5 DEF MadeOnce
    <3> QED
      BY <2>3, <3>1, <3>2, <3>3 DEF MadeOnce
  <2>7. Recorded'
    <3>1. ASSUME NEW m \in made, m.at > clock - (Window - LockWait)
          PROVE  \E r \in ledger' : /\ r.lease = m.lease /\ r.owner = m.owner
                                    /\ r.started >= m.at - LockWait
      <4>1. PICK r \in ledger : /\ r.lease = m.lease /\ r.owner = m.owner
                                /\ r.started >= m.at - LockWait
        BY <3>1 DEF Recorded
      <4>2. r.started \in Int
        BY <4>1 DEF TypeOK, Row
      <4>3. r.started > now - Window
        BY <1>0, <2>2, <3>1, <4>1, <4>2, AdmissionAssumption
      <4>4. r \in ledger'
        BY <2>1, <2>3, <4>3, ReserveKeeps
      <4> QED
        BY <4>1, <4>4
    <3>2. \E r \in ledger' : /\ r.lease = new.lease /\ r.owner = new.owner
                             /\ r.started >= new.at - LockWait
      BY <2>1, <2>2, <2>3, <2>4, ReserveKeeps
    <3> QED
      BY <2>3, <3>1, <3>2 DEF Recorded
  <2>8. Recent' \subseteq Recent \cup {new} /\ IsFiniteSet(Recent) /\ new \notin Recent
    <3>1. IsFiniteSet(Recent)
      BY FS_Subset DEF Recent, Finite
    <3>2. new \notin made
      BY <2>4, <2>5
    <3> QED
      BY <2>3, <3>1, <3>2 DEF Recent
  <2>9. ASSUME NEW S \in SUBSET Recent, NEW T \in SUBSET (S \cup {new}), NEW limit \in Nat,
               Cardinality(S) < limit
        PROVE  Cardinality(T) <= limit
    <3>1. IsFiniteSet(S) /\ Cardinality(S) \in Nat
      BY <2>8, FS_Subset, FS_CardinalityType
    <3>2. IsFiniteSet(S \cup {new}) /\ Cardinality(S \cup {new}) = Cardinality(S) + 1
      BY <2>8, <3>1, FS_AddElement
    <3>3. Cardinality(T) <= Cardinality(S \cup {new}) /\ Cardinality(T) \in Nat
      BY <3>2, FS_Subset, FS_CardinalityType
    <3> QED
      BY <2>9, <3>1, <3>2, <3>3
  <2>10. Cardinality(Recent') <= RequestLimit
    <3>1. Cardinality(Recent) < RequestLimit
      <4>1. Cardinality(Counted(now)) < RequestLimit
        BY <2>1 DEF Admits
      <4> QED
        BY <2>2, <2>8, <4>1, RecentCounted, FS_CardinalityType, AdmissionAssumption
    <3> QED
      BY <2>8, <2>9, <3>1, AdmissionAssumption
  <2>11. ASSUME NEW u \in Users
         PROVE  Cardinality({m \in Recent' : m.owner = u}) <= UserRequestLimit
    <3> DEFINE S == {m \in Recent : m.owner = u}
               T == {m \in Recent' : m.owner = u}
    <3>1. CASE calls[c].user = u
      <4>1. S \in SUBSET Recent /\ T \in SUBSET (S \cup {new})
        BY <2>8
      <4>2. Cardinality(Own(Counted(now), u)) < UserRequestLimit
        BY <2>1, <3>1 DEF Admits
      <4>3. /\ Cardinality(S) <= Cardinality(Own(Counted(now), u))
            /\ Cardinality(Own(Counted(now), u)) \in Nat
        BY <2>2, RecentCounted
      <4> HIDE DEF S, T
      <4>4. Cardinality(S) \in Nat
        BY <2>8, <4>1, FS_Subset, FS_CardinalityType
      <4>5. Cardinality(S) < UserRequestLimit
        BY <4>2, <4>3, <4>4, AdmissionAssumption
      <4>6. Cardinality(T) <= UserRequestLimit
        BY <2>9, <4>1, <4>5, AdmissionAssumption
      <4> QED
        BY <4>6 DEF T
    <3>2. CASE calls[c].user # u
      <4>1. S \subseteq Recent /\ T \subseteq S
        BY <2>4, <2>8, <3>2
      <4>2. Cardinality(S) <= UserRequestLimit
        BY DEF AttemptsPerWindow, Recent
      <4> HIDE DEF S, T
      <4>3. /\ Cardinality(T) <= Cardinality(S)
            /\ Cardinality(T) \in Nat /\ Cardinality(S) \in Nat
        BY <2>8, <4>1, FS_Subset, FS_CardinalityType
      <4>4. Cardinality(T) <= UserRequestLimit
        BY <4>2, <4>3, AdmissionAssumption
      <4> QED
        BY <4>4 DEF T
    <3> QED
      BY <3>1, <3>2
  <2> QED
    BY <2>6, <2>7, <2>10, <2>11 DEF AttemptsPerWindow, Recent
<1>4. ASSUME NEW c \in Calls, \/ Begin(c) \/ Join(c) \/ Wake(c) \/ Departs(c)
                              \/ \E w \in BOOLEAN : Retry(c, w)
      PROVE  MadeOnce' /\ Recorded' /\ AttemptsPerWindow'
  <2>1. Begin(c) \/ Moves(c) \/ Departs(c)
    BY <1>4, MoversMove
  <2>2. UNCHANGED <<clock, made>> /\ (UNCHANGED ledger \/ Release(c, TRUE))
    BY <1>4, ReleaseOrNot DEF Begin, Join, Wake, Retry, Departs
  <2>3. \A r \in ledger : \E s \in ledger' :
           s.lease = r.lease /\ s.owner = r.owner /\ s.started = r.started
    BY <2>2, ReleaseKeeps DEF TypeOK, Finite
  <2> QED
    BY <1>0, <1>1, <1>2, <2>1, <2>2, <2>3
<1>5. ASSUME NEW k \in Workers, Crash(k) PROVE MadeOnce' /\ Recorded' /\ AttemptsPerWindow'
  <2>1. UNCHANGED <<clock, ledger, made>>
    BY <1>5 DEF Crash
  <2>2. \A m \in made : Past(m.lease[1], m.lease[2], m.lease[3])'
    <3> SUFFICES ASSUME NEW m \in made PROVE Past(m.lease[1], m.lease[2], m.lease[3])'
      OBVIOUS
    <3>1. Past(m.lease[1], m.lease[2], m.lease[3])
      BY DEF MadeOnce
    <3> QED
      BY <1>0, <1>5, <3>1, PastStays
  <2> QED
    BY <1>0, <1>1, <2>1, <2>2
<1>6. CASE Tick
  <2>1. UNCHANGED <<ledger, calls, made>> /\ clock' = clock + 1
    BY <1>6 DEF Tick
  <2>2. \A m \in made : Past(m.lease[1], m.lease[2], m.lease[3])'
    BY <2>1 DEF MadeOnce, Past
  <2> QED
    BY <1>0, <1>1, <2>1, <2>2
<1> QED
  BY <1>3, <1>4, <1>5, <1>6, NextCases

----------------------------------------------------------------------------
(* Theorems.                                                                *)

LEMMA StepInv == IInv /\ [Next]_vars => IInv'
<1>1. ASSUME IInv, Next PROVE IInv'
  BY <1>1, TypesKept, DeadlinesKept, LeasesKept, WindowKept DEF IInv
<1>2. ASSUME IInv, UNCHANGED vars PROVE IInv'
  <2>1. clock' = clock /\ ledger' = ledger /\ calls' = calls /\ made' = made
    BY <1>2 DEF vars
  <2>2. (TypeOK /\ BackoffHasAttempts /\ Finite)'
    BY <1>2, <2>1 DEF IInv, TypeOK, BackoffHasAttempts, Finite
  <2>3. (Timed /\ EntersAtOnce /\ AnsweredByDeadline)'
    BY <1>2, <2>1 DEF IInv, Timed, EntersAtOnce, AnsweredByDeadline
  <2>4. \A c : Leads(c)' = Leads(c) /\ Key(c)' = Key(c) /\ LeaseOf(c)' = LeaseOf(c)
    BY <2>1 DEF Leads, Key, LeaseOf
  <2>5. (OneLeader /\ Led)'
    <3>1. OneLeader /\ Led
      BY <1>2 DEF IInv
    <3> QED
      BY <2>1, <2>4, <3>1 DEF OneLeader, Led
  <2>6. Calling' = Calling /\ Standalone' = Standalone
    BY <2>1 DEF Calling
  <2>7. (Leased /\ ProviderCallsBounded)'
    <3>1. Leased /\ ProviderCallsBounded
      BY <1>2 DEF IInv
    <3> QED
      BY <2>1, <2>4, <2>6, <3>1 DEF Leased, ProviderCallsBounded
  <2>8. (MadeOnce /\ Recorded /\ AttemptsPerWindow)'
    <3>1. MadeOnce /\ Recorded /\ AttemptsPerWindow
      BY <1>2 DEF IInv
    <3> QED
      BY <2>1, <3>1 DEF MadeOnce, Recorded, AttemptsPerWindow, Past
  <2> QED
    BY <2>2, <2>3, <2>5, <2>7, <2>8 DEF IInv
<1> QED
  BY <1>1, <1>2

\* The inductive invariant of admission: types, leases, flights, deadlines and
\* the attempts of the window.
THEOREM AdmissionInvariant == Spec => []IInv
<1>1. Init => IInv
  BY InitInv
<1>2. IInv /\ [Next]_vars => IInv'
  BY StepInv
<1> QED
  BY <1>1, <1>2, PTL DEF Spec

\* Calls, leases, attempts and flights stay in their types.
THEOREM AdmissionTypes == Spec => []TypeOK
<1>1. IInv => TypeOK
  BY DEF IInv
<1> QED
  BY <1>1, AdmissionInvariant, PTL

\* The provider never works on more attempts than the limits allow, over all
\* workers and of each user, for any limits, timeouts, grace and lock wait.
THEOREM ConcurrencyBounded == Spec => []ProviderCallsBounded
<1>1. IInv => ProviderCallsBounded
  BY DEF IInv
<1> QED
  BY <1>1, AdmissionInvariant, PTL

\* No window holds more attempts than the limits allow, retries, fallbacks and
\* crashed workers included.
THEOREM WindowBounded == Spec => []AttemptsPerWindow
<1>1. IInv => AttemptsPerWindow
  BY DEF IInv
<1> QED
  BY <1>1, AdmissionInvariant, PTL

\* No call outlives the one deadline of its retries, its fallback and the
\* flight it waits for.
THEOREM DeadlineHolds == Spec => []AnsweredByDeadline
<1>1. IInv => AnsweredByDeadline
  BY DEF IInv
<1> QED
  BY <1>1, AdmissionInvariant, PTL

\* A worker never has two identical calls of one user at the provider.
THEOREM OneFlightPerKey == Spec => []DuplicatesCoalesced
<1>1. IInv => DuplicatesCoalesced
  BY DEF IInv, OneLeader, DuplicatesCoalesced, Calling, Leads
<1> QED
  BY <1>1, AdmissionInvariant, PTL
=============================================================================
