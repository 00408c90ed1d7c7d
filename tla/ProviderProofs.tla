----------------------------- MODULE ProviderProofs -----------------------------
(***************************************************************************)
(* For every number of calls, users and texts, every cooldown, TTL and     *)
(* length of an answer: the calls below admission keep their types, the    *)
(* breaker never opens a window it announced, an answer stays with its     *)
(* user and text, and a streamed answer is whole.                          *)
(***************************************************************************)
EXTENDS Provider, TLAPS

\* The breaker is open until the longest wait announced: neither is ever set
\* without the other, and a deployment without a cooldown announces none.
Announced == announced = openUntil /\ (Cooldown = 0 => announced = 0)

\* An entry is found under its owner and its text alone.
EntriesKeyed ==
    \A e \in cache : e.until \in Nat /\ e.key = Key(e.answer.user, e.answer.text)

\* A stream that said "stop" has delivered every part, and no entry of a
\* streaming client holds less.
StreamsWhole ==
    /\ \A c \in Calls : call[c].finish = "stop" => call[c].got = Parts
    /\ Client(settings) = "nemotron" => \A e \in cache : e.answer.parts = Parts

IInv == TypeOK /\ Announced /\ EntriesKeyed /\ OwnAnswer /\ StreamsWhole /\ StreamedWhole

----------------------------------------------------------------------------
(* Operators.                                                               *)

\* The smaller and the larger of two numbers are numbers between which both lie.
LEMMA MinMax ==
    ASSUME NEW a \in Nat, NEW b \in Nat
    PROVE  /\ Smaller(a, b) \in Nat /\ Smaller(a, b) <= a /\ Smaller(a, b) <= b
           /\ Larger(a, b) \in Nat /\ Larger(a, b) >= a /\ Larger(a, b) >= b
BY DEF Smaller, Larger

\* A request asks for a natural number of tokens.
LEMMA AskedType ==
    ASSUME NEW model, NEW w \in Words, NEW thinking \in BOOLEAN
    PROVE  Asked(model, w, thinking) \in Nat
<1>1. w \in Nat /\ PerWord \in Nat /\ MinOutput \in Nat /\ MaxOutput \in Nat /\ Reasoning \in Nat
    BY ProviderAssumption
<1>2. Larger(1, w) * PerWord \in Nat
    BY <1>1 DEF Larger
<1>3. Estimate(w) \in Nat
    BY <1>1, <1>2 DEF Estimate, Smaller, Larger
<1>4. Smaller(MaxOutput, Estimate(w)) \in Nat /\ Smaller(MaxOutput, Estimate(w)) <= MaxOutput
    BY <1>1, <1>3, MinMax
<1>5. Smaller(Reasoning, MaxOutput - Smaller(MaxOutput, Estimate(w))) \in Nat
    BY <1>1, <1>4 DEF Smaller
<1>6. QED
    BY <1>3, <1>4, <1>5 DEF Asked

\* The wait a 429 asks for is a number, and so is the end of the one kept.
LEMMA TripType ==
    ASSUME TypeOK, Announced, NEW r \in RetryAfter
    PROVE  /\ Trip(r) \in Nat
           /\ Trip(r) = IF Cooldown = 0 THEN 0 ELSE Larger(announced, now + Wait(r))
<1>1. Wait(r) \in Nat /\ now \in Nat
    BY ProviderAssumption DEF Wait, TypeOK
<1>2. QED
    BY <1>1 DEF Trip, Larger, TypeOK, Announced

\* A new answer to a user's text replaces the entry of that key and no other.
LEMMA CachedKept ==
    ASSUME TypeOK, EntriesKeyed, NEW u \in Users, NEW x \in Texts, NEW a \in Answer,
           a.user = u, a.text = x
    PROVE  /\ \A e \in Cached(Key(u, x), a) :
                  e.answer \in Answer /\ e.until <= now + TTL /\ e.until \in Nat
                    /\ e.key = Key(e.answer.user, e.answer.text)
           /\ \A e, f \in Cached(Key(u, x), a) : e.key = f.key => e = f
           /\ \A e \in Cached(Key(u, x), a) : e \in cache \/ e.answer = a
<1> DEFINE new == [key |-> Key(u, x), answer |-> a, until |-> now + TTL]
<1>1. \A e \in Cached(Key(u, x), a) : (e \in cache /\ e.key # Key(u, x)) \/ e = new
    BY DEF Cached
<1>2. new.key = Key(u, x) /\ new.answer = a /\ new.until = now + TTL
    OBVIOUS
<1>3. now + TTL \in Nat
    BY ProviderAssumption DEF TypeOK
<1>4. \A e \in Cached(Key(u, x), a) :
          e.answer \in Answer /\ e.until <= now + TTL /\ e.until \in Nat
            /\ e.key = Key(e.answer.user, e.answer.text)
    <2> SUFFICES ASSUME NEW e \in Cached(Key(u, x), a)
                 PROVE  e.answer \in Answer /\ e.until <= now + TTL /\ e.until \in Nat
                          /\ e.key = Key(e.answer.user, e.answer.text)
        OBVIOUS
    <2>1. CASE e \in cache
        BY <2>1 DEF TypeOK, EntriesKeyed
    <2>2. CASE e = new
        <3> HIDE DEF new
        <3> QED BY <2>2, <1>2, <1>3
    <2>3. QED
        BY <1>1, <2>1, <2>2
<1>5. \A e, f \in Cached(Key(u, x), a) : e.key = f.key => e = f
    <2> HIDE DEF new
    <2> QED BY <1>1, <1>2 DEF TypeOK
<1>6. \A e \in Cached(Key(u, x), a) : e \in cache \/ e.answer = a
    <2> HIDE DEF new
    <2> QED BY <1>1, <1>2
<1>7. QED
    BY <1>4, <1>5, <1>6

----------------------------------------------------------------------------
(* The ways a call moves.                                                   *)

\* What a step of call c may do to its record so that the invariant's parts
\* about calls are kept: stay typed, own its answer, and be whole.
GoodCall(r) ==
    /\ r \in Call
    /\ r.outcome = "answer" => r.answer.user = r.user /\ r.answer.text = r.text
    /\ r.finish = "stop" => r.got = Parts
    /\ Client(settings) = "nemotron" => (r.outcome = "answer" => r.answer.parts = Parts)

\* The invariant's parts about calls are that every call is good.
LEMMA CallsGood ==
    ASSUME IInv, NEW c \in Calls
    PROVE  GoodCall(call[c])
BY DEF IInv, TypeOK, OwnAnswer, StreamsWhole, StreamedWhole, GoodCall

\* Replacing one call by a good one keeps all calls good.
LEMMA OneCallMoves ==
    ASSUME IInv, NEW c \in Calls, NEW r, GoodCall(r), settings' = settings,
           call' = [call EXCEPT ![c] = r]
    PROVE  /\ call' \in [Calls -> Call]
           /\ OwnAnswer' /\ StreamedWhole'
           /\ \A d \in Calls : call'[d].finish = "stop" => call'[d].got = Parts
<1>1. \A d \in Calls : call'[d] = IF d = c THEN r ELSE call[d]
    BY DEF IInv, TypeOK
<1>2. \A d \in Calls : GoodCall(call'[d])
    BY <1>1, CallsGood
<1>3. call' \in [Calls -> Call]
    BY <1>2 DEF GoodCall, IInv, TypeOK
<1>4. Client(settings)' = Client(settings)
    BY DEF Client
<1>5. QED
    BY <1>2, <1>3, <1>4 DEF GoodCall, OwnAnswer, StreamedWhole


\* A step that moves one call to a good record and nothing else.
LEMMA OnlyCallMoves ==
    ASSUME IInv, NEW c \in Calls, NEW r, GoodCall(r), call' = [call EXCEPT ![c] = r],
           UNCHANGED <<settings, now, openUntil, stats, cache, announced>>
    PROVE  IInv'
<1>1. /\ call' \in [Calls -> Call] /\ OwnAnswer' /\ StreamedWhole'
      /\ \A d \in Calls : call'[d].finish = "stop" => call'[d].got = Parts
    BY OneCallMoves
<1>2. TypeOK'
    BY <1>1 DEF IInv, TypeOK
<1>3. Announced' /\ EntriesKeyed'
    BY DEF IInv, Announced, EntriesKeyed, Key
<1>4. StreamsWhole'
    BY <1>1 DEF IInv, StreamsWhole, Client
<1>5. QED
    BY <1>1, <1>2, <1>3, <1>4 DEF IInv

\* Ending a call without an answer leaves a good record.
LEMMA EndsGood ==
    ASSUME IInv, NEW c \in Calls, NEW o \in Outcomes, o # "answer"
    PROVE  /\ Ends(c, o) = [call EXCEPT ![c] = [call[c] EXCEPT !.pc = "done", !.outcome = o]]
           /\ GoodCall([call[c] EXCEPT !.pc = "done", !.outcome = o])
<1>1. GoodCall(call[c]) /\ call \in [Calls -> Call]
    BY CallsGood DEF IInv, TypeOK
<1>2. Ends(c, o) = [call EXCEPT ![c] = [call[c] EXCEPT !.pc = "done", !.outcome = o]]
    BY <1>1 DEF Ends
<1>3. GoodCall([call[c] EXCEPT !.pc = "done", !.outcome = o])
    BY <1>1 DEF GoodCall, Call
<1>4. QED
    BY <1>2, <1>3

\* Ending a call with its own whole answer leaves a good record.
LEMMA AnswerGood ==
    ASSUME IInv, NEW c \in Calls, NEW a \in Answer,
           a.user = call[c].user, a.text = call[c].text,
           Client(settings) = "nemotron" => a.parts = Parts
    PROVE  /\ [Ends(c, "answer") EXCEPT ![c].answer = a]
                = [call EXCEPT ![c] = [call[c] EXCEPT !.pc = "done", !.outcome = "answer", !.answer = a]]
           /\ GoodCall([call[c] EXCEPT !.pc = "done", !.outcome = "answer", !.answer = a])
<1>1. GoodCall(call[c]) /\ call \in [Calls -> Call]
    BY CallsGood DEF IInv, TypeOK
<1>2. [Ends(c, "answer") EXCEPT ![c].answer = a]
        = [call EXCEPT ![c] = [call[c] EXCEPT !.pc = "done", !.outcome = "answer", !.answer = a]]
    BY <1>1 DEF Ends
<1>3. GoodCall([call[c] EXCEPT !.pc = "done", !.outcome = "answer", !.answer = a])
    BY <1>1 DEF GoodCall, Call, Outcomes
<1>4. QED
    BY <1>2, <1>3

----------------------------------------------------------------------------
(* Every action keeps the invariant.                                        *)

\* From the cache, refused, or asked with a number of tokens.
LEMMA AskKeeps ==
    ASSUME IInv, NEW c \in Calls, NEW w \in Words, NEW thinking \in BOOLEAN, Ask(c, w, thinking)
    PROVE  IInv'
<1> DEFINE me == call[c]
           hits == Fresh(Key(me.user, me.text))
<1>1. GoodCall(me) /\ me \in Call /\ call \in [Calls -> Call]
    BY CallsGood DEF IInv, TypeOK
<1>2. UNCHANGED <<settings, now, openUntil, stats, cache, announced>>
    BY DEF Ask
<1>3. ASSUME NEW e \in hits,
             call' = [Ends(c, "answer") EXCEPT ![c].answer = e.answer, ![c].cached = TRUE]
      PROVE  IInv'
    <2> DEFINE r == [me EXCEPT !.pc = "done", !.outcome = "answer", !.answer = e.answer, !.cached = TRUE]
    <2>1. e \in cache /\ e.key = Key(me.user, me.text)
        BY <1>3 DEF Fresh
    <2>2. e.answer \in Answer /\ e.answer.user = me.user /\ e.answer.text = me.text
        BY <2>1 DEF IInv, TypeOK, EntriesKeyed, Key
    <2>3. Client(settings) = "nemotron" => e.answer.parts = Parts
        BY <2>1 DEF IInv, StreamsWhole
    <2>4. GoodCall(r)
        BY <1>1, <2>2, <2>3 DEF GoodCall, Call, Outcomes
    <2>5. call' = [call EXCEPT ![c] = r]
        BY <1>1, <1>3 DEF Ends
    <2>6. QED
        BY <1>2, <2>4, <2>5, OnlyCallMoves
<1>4. CASE \E o \in {"disabled", "limited"} : call' = Ends(c, o)
    <2>1. PICK o \in {"disabled", "limited"} : call' = Ends(c, o)
        BY <1>4
    <2>2. o \in Outcomes /\ o # "answer"
        BY DEF Outcomes
    <2>3. QED
        BY <1>2, <2>1, <2>2, EndsGood, OnlyCallMoves
<1>5. CASE call' = [call EXCEPT ![c].pc = "posted", ![c].asked = Asked(Client(settings), w, thinking)]
    <2> DEFINE n == Asked(Client(settings), w, thinking)
               r == [me EXCEPT !.pc = "posted", !.asked = n]
    <2>1. n \in Nat
        BY AskedType
    <2>2. call' = [call EXCEPT ![c] = r]
        BY <1>1, <1>5
    <2> HIDE DEF n
    <2>3. GoodCall(r)
        BY <1>1, <2>1 DEF GoodCall, Call
    <2>4. QED
        BY <1>2, <2>2, <2>3, OnlyCallMoves
<1>6. QED
    BY <1>3, <1>4, <1>5 DEF Ask

\* A 429 moves the breaker and the wait announced together.
LEMMA RefusedKeeps ==
    ASSUME IInv, NEW c \in Calls, Refused(c)
    PROVE  IInv'
<1>1. UNCHANGED <<settings, now, cache>>
    BY DEF Refused
<1>2. ASSUME NEW r \in RetryAfter, openUntil' = Trip(r),
             announced' = IF Cooldown = 0 THEN 0 ELSE Larger(announced, now + Wait(r)),
             stats' = [stats EXCEPT !.limited = @ + 1], call' = Ends(c, "limited")
      PROVE  IInv'
    <2>1. Trip(r) \in Nat /\ announced' = Trip(r) /\ (Cooldown = 0 => announced' = 0)
        BY <1>2, TripType DEF IInv
    <2>2. /\ call' \in [Calls -> Call] /\ OwnAnswer' /\ StreamedWhole'
          /\ \A d \in Calls : call'[d].finish = "stop" => call'[d].got = Parts
        <3>1. "limited" \in Outcomes /\ "limited" # "answer"
            BY DEF Outcomes
        <3>2. settings' = settings
            BY <1>1
        <3>3. QED
            BY <1>2, <3>1, <3>2, EndsGood, OneCallMoves
    <2>3. stats' \in [calls: Nat, limited: Nat, errors: Nat]
        BY <1>2 DEF IInv, TypeOK
    <2>4. TypeOK'
        BY <1>1, <1>2, <2>1, <2>2, <2>3 DEF IInv, TypeOK
    <2>5. Announced' /\ EntriesKeyed'
        BY <1>1, <1>2, <2>1 DEF IInv, Announced, EntriesKeyed, Key
    <2>6. StreamsWhole'
        BY <1>1, <2>2 DEF IInv, StreamsWhole, Client
    <2>7. QED
        BY <2>2, <2>4, <2>5, <2>6 DEF IInv
<1>3. ASSUME NEW o \in {"auth", "network", "parse", "timeout"}, call' = Ends(c, o),
             UNCHANGED <<openUntil, stats, announced>>
      PROVE  IInv'
    <2>1. o \in Outcomes /\ o # "answer"
        BY DEF Outcomes
    <2>2. UNCHANGED <<settings, now, openUntil, stats, cache, announced>>
        BY <1>1, <1>3
    <2>3. QED
        BY <1>3, <2>1, <2>2, EndsGood, OnlyCallMoves
<1>4. QED
    BY <1>2, <1>3 DEF Refused

\* A failed transport is counted and nothing more.
LEMMA TransportFailsKeeps ==
    ASSUME IInv, NEW c \in Calls, TransportFails(c)
    PROVE  IInv'
<1>1. UNCHANGED <<settings, now, openUntil, cache, announced>>
    BY DEF TransportFails
<1>2. PICK o \in {"network", "timeout"} : call' = Ends(c, o)
    BY DEF TransportFails
<1>3. /\ call' \in [Calls -> Call] /\ OwnAnswer' /\ StreamedWhole'
      /\ \A d \in Calls : call'[d].finish = "stop" => call'[d].got = Parts
    <2>1. o \in Outcomes /\ o # "answer"
        BY DEF Outcomes
    <2>2. settings' = settings
        BY <1>1
    <2>3. QED
        BY <1>2, <2>1, <2>2, EndsGood, OneCallMoves
<1>4. stats' \in [calls: Nat, limited: Nat, errors: Nat]
    BY DEF IInv, TypeOK, TransportFails
<1>5. TypeOK'
    BY <1>1, <1>3, <1>4 DEF IInv, TypeOK
<1>6. Announced' /\ EntriesKeyed' /\ StreamsWhole'
    BY <1>1, <1>3 DEF IInv, Announced, EntriesKeyed, Key, StreamsWhole, Client
<1>7. QED
    BY <1>3, <1>5, <1>6 DEF IInv

\* An accepted reply is the call's own answer, in its record and in the cache.
LEMMA AcceptKeeps ==
    ASSUME IInv, NEW c \in Calls, NEW parts \in 0..Parts, Accept(c, parts),
           Client(settings) = "nemotron" => parts = Parts,
           UNCHANGED <<settings, now, openUntil, announced>>
    PROVE  IInv'
<1> DEFINE me == call[c]
           answer(whole) == [parts |-> parts, parsed |-> whole /\ parts = Parts,
                             user |-> me.user, text |-> me.text]
<1>1. PICK whole \in BOOLEAN :
          /\ call' = [Ends(c, "answer") EXCEPT ![c].answer = answer(whole)]
          /\ cache' = Cached(Key(me.user, me.text), answer(whole))
          /\ stats' = [stats EXCEPT !.calls = @ + 1]
    BY DEF Accept
<1>2. PICK a : a = answer(whole)
    OBVIOUS
<1>3. me \in Call /\ me.user \in Users /\ me.text \in Texts
    BY DEF IInv, TypeOK, Call
<1>4. /\ a \in Answer /\ a.user = me.user /\ a.text = me.text
      /\ Client(settings) = "nemotron" => a.parts = Parts
    BY <1>2, <1>3 DEF Answer
<1>5. /\ call' = [Ends(c, "answer") EXCEPT ![c].answer = a]
      /\ cache' = Cached(Key(me.user, me.text), a)
    BY <1>1, <1>2
<1> HIDE DEF answer
<1>6. /\ call' \in [Calls -> Call] /\ OwnAnswer' /\ StreamedWhole'
      /\ \A d \in Calls : call'[d].finish = "stop" => call'[d].got = Parts
    BY <1>4, <1>5, AnswerGood, OneCallMoves
<1>7. /\ \A e \in cache' :
             e.answer \in Answer /\ e.until <= now + TTL /\ e.until \in Nat
               /\ e.key = Key(e.answer.user, e.answer.text)
      /\ \A e, f \in cache' : e.key = f.key => e = f
      /\ \A e \in cache' : e \in cache \/ e.answer = a
    <2>1. TypeOK /\ EntriesKeyed
        BY DEF IInv
    <2>2. QED
        BY <1>3, <1>4, <1>5, <2>1, CachedKept
<1>8. stats' \in [calls: Nat, limited: Nat, errors: Nat]
    BY <1>1 DEF IInv, TypeOK
<1>9. TypeOK'
    BY <1>6, <1>7, <1>8 DEF IInv, TypeOK
<1>10. Announced' /\ EntriesKeyed'
    BY <1>7 DEF IInv, Announced, EntriesKeyed, Key
<1>11. StreamsWhole'
    BY <1>4, <1>6, <1>7 DEF IInv, StreamsWhole, Client
<1>12. QED
    BY <1>6, <1>9, <1>10, <1>11 DEF IInv

\* A rejected reply leaves nothing behind.
LEMMA RejectKeeps ==
    ASSUME IInv, NEW c \in Calls, Reject(c), UNCHANGED <<settings, now, openUntil, announced>>
    PROVE  IInv'
<1>1. "parse" \in Outcomes /\ "parse" # "answer"
    BY DEF Outcomes
<1>2. call' = Ends(c, "parse") /\ UNCHANGED <<settings, now, openUntil, stats, cache, announced>>
    BY DEF Reject
<1>3. QED
    BY <1>1, <1>2, EndsGood, OnlyCallMoves

\* The plain transport: whole, cut or filtered.
LEMMA PlainAnswerKeeps ==
    ASSUME IInv, NEW c \in Calls, PlainAnswer(c)
    PROVE  IInv'
<1>1. UNCHANGED <<settings, now, openUntil, announced>> /\ Client(settings) = "chat"
    BY DEF PlainAnswer
<1>2. Parts \in Nat
    BY ProviderAssumption
<1>3. PICK n \in 0..Parts, f \in {"stop", "length", "filter"} : Reply(c, n, f)
    BY <1>2 DEF PlainAnswer
<1>4. CASE f = "length"
    BY <1>1, <1>3, <1>4, RejectKeeps DEF Reply
<1>5. CASE f # "length"
    BY <1>1, <1>3, <1>5, AcceptKeeps DEF Reply
<1>6. QED
    BY <1>4, <1>5

\* Opening the stream and each of its events.
LEMMA StreamKeeps ==
    ASSUME IInv, NEW c \in Calls, StreamOpens(c) \/ StreamEvent(c)
    PROVE  IInv'
<1> DEFINE me == call[c]
<1>1. GoodCall(me) /\ me \in Call /\ call \in [Calls -> Call] /\ Parts \in Nat
    BY CallsGood, ProviderAssumption DEF IInv, TypeOK
<1>2. UNCHANGED <<settings, now, openUntil, stats, cache, announced>>
    BY DEF StreamOpens, StreamEvent
<1>3. CASE StreamOpens(c)
    <2> DEFINE r == [me EXCEPT !.pc = "reading"]
    <2>1. GoodCall(r)
        BY <1>1 DEF GoodCall, Call
    <2>2. call' = [call EXCEPT ![c] = r]
        BY <1>1, <1>3 DEF StreamOpens
    <2>3. QED
        BY <1>2, <2>1, <2>2, OnlyCallMoves
<1>4. CASE me.finish = "none" /\ me.got < Parts /\ call' = [call EXCEPT ![c].got = @ + 1]
    <2> DEFINE r == [me EXCEPT !.got = @ + 1]
    <2>1. GoodCall(r)
        BY <1>1, <1>4 DEF GoodCall, Call
    <2>2. call' = [call EXCEPT ![c] = r]
        BY <1>1, <1>4
    <2>3. QED
        BY <1>2, <2>1, <2>2, OnlyCallMoves
<1>5. ASSUME NEW f \in {"stop", "length", "filter"}, f = "stop" => me.got = Parts,
             call' = [call EXCEPT ![c].finish = f]
      PROVE  IInv'
    <2> DEFINE r == [me EXCEPT !.finish = f]
    <2>1. GoodCall(r)
        BY <1>1, <1>5 DEF GoodCall, Call
    <2>2. call' = [call EXCEPT ![c] = r]
        BY <1>1, <1>5
    <2>3. QED
        BY <1>2, <2>1, <2>2, OnlyCallMoves
<1>6. QED
    BY <1>3, <1>4, <1>5 DEF StreamEvent

\* Only a stream that said "stop" is accepted, and it has every part.
LEMMA StreamEndsKeeps ==
    ASSUME IInv, NEW c \in Calls, StreamEnds(c)
    PROVE  IInv'
<1>1. UNCHANGED <<settings, now, openUntil, announced>>
    BY DEF StreamEnds
<1>2. GoodCall(call[c])
    BY CallsGood
<1>3. CASE Finished(call[c])
    <2>1. call[c].got = Parts /\ call[c].got \in 0..Parts
        BY <1>2, <1>3 DEF GoodCall, Call, Finished
    <2>2. Accept(c, call[c].got)
        BY <1>3 DEF StreamEnds
    <2>3. QED
        BY <1>1, <2>1, <2>2, AcceptKeeps
<1>4. CASE ~Finished(call[c])
    BY <1>1, <1>4, RejectKeeps DEF StreamEnds
<1>5. QED
    BY <1>3, <1>4

\* Time makes entries older only.
LEMMA TickKeeps ==
    ASSUME IInv, Tick
    PROVE  IInv'
<1>1. MaxTime \in Nat /\ TTL \in Nat
    BY ProviderAssumption
<1>2. TypeOK'
    BY <1>1 DEF IInv, TypeOK, EntriesKeyed, Tick
<1>3. Announced' /\ EntriesKeyed' /\ OwnAnswer' /\ StreamsWhole' /\ StreamedWhole'
    BY DEF IInv, Announced, EntriesKeyed, Key, OwnAnswer, StreamsWhole, StreamedWhole, Client, Tick
<1>4. QED
    BY <1>2, <1>3 DEF IInv

----------------------------------------------------------------------------
(* Theorems.                                                                *)

LEMMA InitHolds == Init => IInv
<1> SUFFICES ASSUME Init PROVE IInv
    OBVIOUS
<1>1. Parts \in Nat /\ MaxTime \in Nat
    BY ProviderAssumption
<1>2. \A c \in Calls : call[c].finish = "none" /\ call[c].outcome = "none"
    BY DEF Init
<1>3. call \in [Calls -> Call]
    <2>1. \A c \in Calls : call[c] \in Call
        <3> SUFFICES ASSUME NEW c \in Calls PROVE call[c] \in Call
            OBVIOUS
        <3>1. PICK u \in Users, x \in Texts :
                  call[c] = [pc |-> "idle", user |-> u, text |-> x, asked |-> 0, got |-> 0,
                             finish |-> "none", outcome |-> "none", answer |-> NoAnswer(u, x),
                             cached |-> FALSE]
            BY DEF Init
        <3>2. NoAnswer(u, x) \in Answer
            BY <1>1 DEF NoAnswer, Answer
        <3>3. QED
            BY <1>1, <3>1, <3>2 DEF Call, Outcomes
    <2>2. QED
        BY <2>1 DEF Init
<1>4. TypeOK
    BY <1>1, <1>3 DEF Init, TypeOK
<1>5. QED
    BY <1>2, <1>4 DEF Init, IInv, Announced, EntriesKeyed, OwnAnswer, StreamsWhole, StreamedWhole

LEMMA StepHolds == IInv /\ [Next]_vars => IInv'
<1> SUFFICES ASSUME IInv, [Next]_vars PROVE IInv'
    OBVIOUS
<1>1. ASSUME NEW c \in Calls, NEW w \in Words, NEW thinking \in BOOLEAN, Ask(c, w, thinking)
      PROVE  IInv'
    BY <1>1, AskKeeps
<1>2. ASSUME NEW c \in Calls, Refused(c) PROVE IInv'
    BY <1>2, RefusedKeeps
<1>3. ASSUME NEW c \in Calls, TransportFails(c) PROVE IInv'
    BY <1>3, TransportFailsKeeps
<1>4. ASSUME NEW c \in Calls, PlainAnswer(c) PROVE IInv'
    BY <1>4, PlainAnswerKeeps
<1>5. ASSUME NEW c \in Calls, StreamOpens(c) \/ StreamEvent(c) PROVE IInv'
    BY <1>5, StreamKeeps
<1>6. ASSUME NEW c \in Calls, StreamEnds(c) PROVE IInv'
    BY <1>6, StreamEndsKeeps
<1>7. ASSUME NEW c \in Calls, StreamBreaks(c) PROVE IInv'
    BY <1>7, RejectKeeps DEF StreamBreaks
<1>8. CASE Tick
    BY <1>8, TickKeeps
<1>9. CASE UNCHANGED vars
    BY <1>9 DEF vars, IInv, TypeOK, Announced, EntriesKeyed, Key, OwnAnswer, StreamsWhole,
                StreamedWhole, Client
<1>10. QED
    BY <1>1, <1>2, <1>3, <1>4, <1>5, <1>6, <1>7, <1>8, <1>9 DEF Next

\* The invariant the theorems rest on.
THEOREM Invariance == Spec => []IInv
BY InitHolds, StepHolds, PTL DEF Spec

\* Whatever the settings, calls, records and counters keep their types, and
\* no two entries of the cache have one key.
THEOREM TypesKept == Spec => []TypeOK
<1>1. IInv => TypeOK
    BY DEF IInv
<1>2. QED
    BY <1>1, Invariance, PTL

\* What a call is given was made for its own user and text, for any number
\* of users and texts and any order of replies and expiries.
THEOREM AnswersStayOwn == Spec => []OwnAnswer
<1>1. IInv => OwnAnswer
    BY DEF IInv
<1>2. QED
    BY <1>1, Invariance, PTL

\* An answer of the streaming client is the provider's whole answer, however
\* many parts it has and wherever the connection ended.
THEOREM StreamsAreWhole == Spec => []StreamedWhole
<1>1. IInv => StreamedWhole
    BY DEF IInv
<1>2. QED
    BY <1>1, Invariance, PTL

\* No request goes out before the longest wait announced is over, whatever
\* waits the provider asks for and in whatever order it does.
THEOREM WaitsAreKept == Spec => QuietWindow
<1>1. IInv /\ [Next]_vars =>
          [\A c \in Calls : call[c].pc = "idle" /\ call'[c].pc = "posted" => now >= announced]_vars
    <2> SUFFICES ASSUME IInv, Next, NEW c \in Calls, call[c].pc = "idle", call'[c].pc = "posted"
                 PROVE  now >= announced
        OBVIOUS
    <2>1. call \in [Calls -> Call] /\ now \in Nat /\ openUntil \in Nat
        BY DEF IInv, TypeOK
    <2>2. ASSUME NEW d \in Calls, NEW w \in Words, NEW thinking \in BOOLEAN, Ask(d, w, thinking)
          PROVE  now >= announced
        <3>1. ASSUME NEW o, call' = Ends(d, o)
              PROVE  FALSE
            BY <2>1, <3>1 DEF Ends
        <3>2. ASSUME NEW a, call' = [Ends(d, "answer") EXCEPT ![d].answer = a, ![d].cached = TRUE]
              PROVE  FALSE
            BY <2>1, <3>2 DEF Ends
        <3>3. ~IsOpen
            BY <2>2, <3>1, <3>2 DEF Ask
        <3>4. Cooldown \in Nat
            BY ProviderAssumption
        <3>5. QED
            BY <2>1, <3>3, <3>4 DEF IsOpen, IInv, Announced
    <2>3. ASSUME NEW d \in Calls,
                 \/ Refused(d) \/ TransportFails(d) \/ PlainAnswer(d) \/ StreamOpens(d)
                 \/ StreamEvent(d) \/ StreamEnds(d) \/ StreamBreaks(d)
          PROVE  FALSE
        BY <2>1, <2>3 DEF Refused, TransportFails, PlainAnswer, StreamOpens, StreamEvent,
                          StreamEnds, StreamBreaks, Reply, Accept, Reject, Ends
    <2>4. CASE Tick
        BY <2>4 DEF Tick
    <2>5. QED
        BY <2>2, <2>3, <2>4 DEF Next
<1>2. QED
    BY <1>1, Invariance, PTL DEF Spec, QuietWindow
=============================================================================
