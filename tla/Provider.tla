-------------------------------- MODULE Provider --------------------------------
(***************************************************************************)
(* One worker's calls of the AI provider below admission: the cache of a   *)
(* helper, the client that the settings choose, the breaker that answers   *)
(* of 429 open for all of them, the plain and the streamed transport, and  *)
(* the usage counters (client.py, nvidia_streaming_client.py,              *)
(* nemotron_client.py, cache.py, budget.py, disambiguator.py).             *)
(*                                                                         *)
(* Calls are coroutines of one event loop: a call runs from one await to   *)
(* the next. The provider's full answer is Parts parts and then "stop";    *)
(* it may stop earlier, and the connection may end anywhere. A retry of    *)
(* the admission layer is one more call.                                   *)
(***************************************************************************)
EXTENDS Integers, FiniteSets

CONSTANTS
    Calls, Users, Texts,
    Parts,            \* parts of a full answer
    Cooldown,         \* ai_rate_limit_cooldown_seconds; 0 turns the breaker off
    RetryAfter,       \* waits the provider asks for with a 429; 0: none it can parse
    TTL,              \* DISAMBIGUATE_CACHE_TTL
    MinOutput,        \* MIN_OUTPUT_TOKENS
    MaxOutput,        \* ai_max_output_tokens
    PerWord,          \* TOKENS_PER_WORD
    Reasoning,        \* nvidia_reasoning_budget
    Words,            \* lengths of the texts
    MaxTime           \* bound: the end of time

ASSUME ProviderAssumption ==
    /\ IsFiniteSet(Calls) /\ Parts \in Nat \ {0} /\ Cooldown \in Nat /\ RetryAfter \subseteq Nat
    /\ TTL \in Nat \ {0} /\ MinOutput \in Nat \ {0} /\ MaxOutput \in Nat \ {0}
    /\ PerWord \in Nat \ {0} /\ Reasoning \in Nat /\ Words \subseteq Nat /\ MaxTime \in Nat

VARIABLES
    settings,   \* what chooses the client
    now,
    openUntil,  \* _RateLimitCircuitBreaker
    stats,      \* AIUsageStats
    cache,      \* the entries of AsyncTTLCache
    call,       \* call -> where it is
    announced   \* history: the end of the longest wait a 429 asked for

vars == <<settings, now, openUntil, stats, cache, call, announced>>

Settings == [provider: {"none", "nvidia", "other"}, offline: BOOLEAN, key: BOOLEAN,
             model: {"chat", "nemotron"}]

Outcomes == {"none", "answer", "disabled", "limited", "auth", "network", "timeout", "parse"}

\* A helper's answer: what of the provider's full answer it has, whether the
\* reply was a JSON object, and (history) for whom it was made.
Answer == [parts: 0..Parts, parsed: BOOLEAN, user: Users, text: Texts]

Call == [pc: {"idle", "posted", "reading", "done"}, user: Users, text: Texts,
         asked: Nat, got: 0..Parts, finish: {"none", "stop", "length", "filter"},
         outcome: Outcomes, answer: Answer, cached: BOOLEAN]

TypeOK ==
    /\ settings \in Settings
    /\ now \in 0..MaxTime /\ openUntil \in Nat /\ announced \in Nat
    /\ stats \in [calls: Nat, limited: Nat, errors: Nat]
    /\ \A e \in cache : e.answer \in Answer /\ e.until <= now + TTL
    /\ \A e, f \in cache : e.key = f.key => e = f
    /\ call \in [Calls -> Call]

NoAnswer(u, x) == [parts |-> 0, parsed |-> FALSE, user |-> u, text |-> x]

Init ==
    /\ settings \in Settings
    /\ now = 0 /\ openUntil = 0 /\ announced = 0
    /\ stats = [calls |-> 0, limited |-> 0, errors |-> 0]
    /\ cache = {}
    /\ call \in [Calls -> {[pc |-> "idle", user |-> u, text |-> x, asked |-> 0, got |-> 0,
                            finish |-> "none", outcome |-> "none", answer |-> NoAnswer(u, x),
                            cached |-> FALSE] : u \in Users, x \in Texts}]

Smaller(a, b) == IF a < b THEN a ELSE b
Larger(a, b) == IF a > b THEN a ELSE b

----------------------------------------------------------------------------
(* The client, the body it asks with, the breaker and the cache.            *)

\* build_default_client: its cache returns what it built for these settings.
Client(s) ==
    IF s.offline \/ s.provider # "nvidia" \/ ~s.key THEN "null" ELSE s.model

\* The completion tokens a text of w words is worth.
Estimate(w) == Smaller(Larger(Larger(1, w) * PerWord, MinOutput), Larger(MinOutput, MaxOutput))

\* max_tokens of the body: Nemotron's reasoning gets what the answer leaves.
Asked(model, w, thinking) ==
    IF model = "chat" THEN Estimate(w)
    ELSE LET answer == Smaller(MaxOutput, Estimate(w))
         IN  answer + (IF thinking THEN Smaller(Reasoning, MaxOutput - answer) ELSE 0)

IsOpen == Cooldown > 0 /\ now < openUntil

Wait(r) == IF r > 0 THEN r ELSE Cooldown

\* Mutant of Trip: the last 429 decides, however short its wait.
TripLast(r) == IF Cooldown = 0 THEN 0 ELSE now + Wait(r)

\* The breaker never shortens a wait it has announced.
Trip(r) == IF Cooldown = 0 THEN 0 ELSE Larger(openUntil, now + Wait(r))

\* Mutant of Key: identical texts of all users share an entry.
KeyShared(u, x) == <<x>>

\* make_cache_key: the user's scope is part of it.
Key(u, x) == <<u, x>>

Fresh(k) == {e \in cache : e.key = k /\ now < e.until}

Cached(k, a) == {e \in cache : e.key # k} \cup {[key |-> k, answer |-> a, until |-> now + TTL]}

Ends(c, outcome) == [call EXCEPT ![c].pc = "done", ![c].outcome = outcome]

----------------------------------------------------------------------------
(* A call.                                                                  *)

\* The helper looks in its cache; the client refuses while the breaker is
\* open; otherwise the request goes out.
Ask(c, w, thinking) ==
    LET me == call[c]
        hits == Fresh(Key(me.user, me.text))
    IN  /\ me.pc = "idle"
        /\ \/ \E e \in hits : call' = [Ends(c, "answer") EXCEPT ![c].answer = e.answer,
                                                                ![c].cached = TRUE]
           \/ hits = {} /\ Client(settings) = "null" /\ call' = Ends(c, "disabled")
           \/ hits = {} /\ Client(settings) # "null" /\ IsOpen /\ call' = Ends(c, "limited")
           \/ /\ hits = {} /\ Client(settings) # "null" /\ ~IsOpen
              /\ call' = [call EXCEPT ![c].pc = "posted",
                                      ![c].asked = Asked(Client(settings), w, thinking)]
        /\ UNCHANGED <<settings, now, openUntil, stats, cache, announced>>

\* Neither status nor transport count here but 429 and what httpx raises.
Refused(c) ==
    /\ call[c].pc = "posted"
    /\ \/ \E r \in RetryAfter :
             /\ openUntil' = Trip(r)
             /\ announced' = IF Cooldown = 0 THEN 0 ELSE Larger(announced, now + Wait(r))
             /\ stats' = [stats EXCEPT !.limited = @ + 1]
             /\ call' = Ends(c, "limited")
       \/ /\ \E outcome \in {"auth", "network", "parse"}
                   \cup (IF Client(settings) = "chat" THEN {} ELSE {"timeout"}) :   \* 504
                call' = Ends(c, outcome)
          /\ UNCHANGED <<openUntil, stats, announced>>
    /\ UNCHANGED <<settings, now, cache>>

\* httpx raises while the answer is awaited or read.
TransportFails(c) ==
    /\ call[c].pc \in {"posted", "reading"}
    /\ \E outcome \in {"network", "timeout"} : call' = Ends(c, outcome)
    /\ stats' = [stats EXCEPT !.errors = @ + 1]
    /\ UNCHANGED <<settings, now, openUntil, cache, announced>>

\* The helper reads the reply and keeps its reading for TTL seconds, the
\* reading of a reply that is no JSON object too. A cut reply is none.
Accept(c, parts) ==
    \E whole \in BOOLEAN :
        LET me == call[c]
            a == [parts |-> parts, parsed |-> whole /\ parts = Parts,
                  user |-> me.user, text |-> me.text]
        IN  /\ call' = [Ends(c, "answer") EXCEPT ![c].answer = a]
            /\ cache' = Cached(Key(me.user, me.text), a)
            /\ stats' = [stats EXCEPT !.calls = @ + 1]

Reject(c) == call' = Ends(c, "parse") /\ UNCHANGED <<cache, stats>>

\* The plain transport refuses only what was cut for its length.
Reply(c, parts, finish) == IF finish = "length" THEN Reject(c) ELSE Accept(c, parts)

PlainAnswer(c) ==
    /\ call[c].pc = "posted" /\ Client(settings) = "chat"
    /\ \/ Reply(c, Parts, "stop")
       \/ \E n \in 0..(Parts - 1), finish \in {"length", "filter"} : Reply(c, n, finish)
    /\ UNCHANGED <<settings, now, openUntil, announced>>

StreamOpens(c) ==
    /\ call[c].pc = "posted" /\ Client(settings) = "nemotron"
    /\ call' = [call EXCEPT ![c].pc = "reading"]
    /\ UNCHANGED <<settings, now, openUntil, stats, cache, announced>>

\* An event of choice 0: the next part, or why the model stopped.
StreamEvent(c) ==
    LET me == call[c]
    IN  /\ me.pc = "reading" /\ me.finish = "none"
        /\ \/ me.got < Parts /\ call' = [call EXCEPT ![c].got = @ + 1]
           \/ me.got = Parts /\ call' = [call EXCEPT ![c].finish = "stop"]
           \/ /\ me.got < Parts
              /\ \E f \in {"length", "filter"} : call' = [call EXCEPT ![c].finish = f]
        /\ UNCHANGED <<settings, now, openUntil, stats, cache, announced>>

\* Mutant of Finished: a stream that ends without a word is taken as it is.
FinishedUnlessCut(me) == me.finish \notin {"length", "filter"} /\ me.got > 0

\* Only "stop" finishes an answer, and an empty one is refused.
Finished(me) == me.finish = "stop" /\ me.got > 0

\* [DONE] or the end of the connection.
StreamEnds(c) ==
    /\ call[c].pc = "reading"
    /\ IF Finished(call[c]) THEN Accept(c, call[c].got) ELSE Reject(c)
    /\ UNCHANGED <<settings, now, openUntil, announced>>

\* A malformed or an error event, a usage that is no number, too many bytes.
StreamBreaks(c) ==
    /\ call[c].pc = "reading"
    /\ Reject(c)
    /\ UNCHANGED <<settings, now, openUntil, announced>>

Tick ==
    /\ now < MaxTime
    /\ now' = now + 1
    /\ UNCHANGED <<settings, openUntil, stats, cache, call, announced>>

Next ==
    \/ \E c \in Calls : \/ \E w \in Words, thinking \in BOOLEAN : Ask(c, w, thinking)
                        \/ Refused(c) \/ TransportFails(c) \/ PlainAnswer(c)
                        \/ StreamOpens(c) \/ StreamEvent(c) \/ StreamEnds(c) \/ StreamBreaks(c)
    \/ Tick

Spec == Init /\ [][Next]_vars

----------------------------------------------------------------------------
(* Properties                                                               *)

\* No request goes out before the longest wait that any 429 asked for has
\* passed, whichever call was told and whatever later ones were told.
QuietWindow ==
    [][\A c \in Calls : call[c].pc = "idle" /\ call'[c].pc = "posted" => now >= announced]_vars

\* An answer that came by stream is the provider's whole answer: a cut,
\* filtered or unfinished one is an error, wherever the connection ended.
StreamedWhole ==
    Client(settings) = "nemotron" =>
        \A c \in Calls : call[c].outcome = "answer" => call[c].answer.parts = Parts

\* What a call is given, from the cache or not, was made for its own user
\* and its own text.
OwnAnswer ==
    \A c \in Calls : call[c].outcome = "answer" =>
        call[c].answer.user = call[c].user /\ call[c].answer.text = call[c].text

=============================================================================
