------------------------------- MODULE LiveProofs -------------------------------
(***************************************************************************)
(* The two halves of a live normalisation, which share no state: the rules *)
(* that give a text its output, and the stream that then tells a client    *)
(* what the model made of it.                                              *)
(*                                                                         *)
(* The stream, for every number of chunks, jobs at a time, places in the   *)
(* queue and failed reads: nothing stale is shown, a text is reported as   *)
(* verified only if all of it was, and the final event counts what any     *)
(* other did.                                                              *)
(*                                                                         *)
(* The rules, for every text, phrase index, context, frequency and budget: *)
(* a text is cut without a gap, only missing accents are restored, the     *)
(* longest phrases are shown, every span tells what stands there, and the  *)
(* words written for moderation stay within the budget.  What the          *)
(* recursive functions of Rules compute is reached by induction: a set of  *)
(* numbers that holds 0 and each successor is all of Nat.                  *)
(***************************************************************************)
EXTENDS LiveStream, Rules, FiniteSetTheorems, SequenceTheorems, TLAPS

----------------------------------------------------------------------------
(* THE STREAM.  The invariant says what is true of every event.             *)

AllDone == \A c \in Jobs : chunk[c].pc = "done"

\* What an event says of the chunks is true, and stays true, since an answer is
\* given once; a final one counts every answer there will be.
EventTrue(e) ==
    /\ e.answered \subseteq Answered(Chunks)
    /\ e.status = "verified" => Got(Chunks, Confident) = Chunks
    /\ e.complete /\ e.status # "not_checked" /\ faults = 0
          => e.answered = Answered(Chunks) /\ AllDone

\* A chunk that waits or is being asked about has no answer yet.
Unanswered == \A c \in Chunks : chunk[c].pc \in {"waiting", "calling"} => chunk[c].got = "none"

EventsTrue ==
    /\ EventTrue(producer.event) /\ EventTrue(consumer.latest) /\ EventTrue(client.last)
    /\ \A i \in 1..Len(queue) : EventTrue(queue[i])

IInv ==
    /\ TypeOK /\ Unanswered /\ EventsTrue
    /\ producer.pc \in {"apply", "final"} => AllDone
    /\ client.end = "complete" => client.last.complete
    /\ client.most <= Cardinality(Answered(Chunks))
    /\ consumer.stale => changed
    /\ StaleNotShown

----------------------------------------------------------------------------
(* Operators.                                                               *)

ChunkState == [pc: {"waiting", "calling", "check", "put", "done"},
               got: {"none"} \cup Answers \cup Failures, seen: SUBSET Chunks]

LEMMA ChunkTypes ==
    ASSUME TypeOK
    PROVE  /\ total \in Nat /\ Chunks \subseteq 1..N /\ Jobs \subseteq Chunks
           /\ chunk \in [Chunks -> ChunkState] /\ IsFiniteSet(Chunks)
<1>1. total \in Nat /\ total <= N
    BY StreamAssumption DEF TypeOK
<1>2. Chunks \subseteq 1..N /\ Jobs \subseteq Chunks /\ IsFiniteSet(Chunks)
    BY <1>1, StreamAssumption, FS_Interval DEF Chunks, Jobs
<1>3. QED
    BY <1>1, <1>2 DEF TypeOK, ChunkState

LEMMA EventTypes ==
    ASSUME TypeOK
    PROVE  /\ \A cs \in SUBSET Chunks : Partial(cs) \in Event
           /\ \A unresolved \in BOOLEAN : Final(unresolved) \in Event
           /\ Unchecked \in Event /\ Baseline \in Event /\ Failed \in Event
<1>1. \A cs \in SUBSET Chunks : \A kinds : Got(cs, kinds) \in SUBSET (1..N)
    BY ChunkTypes DEF Got
<1>2. \A cs \in SUBSET Chunks : Edits(cs) \in SUBSET (1..N) /\ Answered(cs) \in SUBSET (1..N)
    BY <1>1 DEF Edits, Answered
<1>3. \A cs \in SUBSET Chunks : Partial(cs) \in Event
    BY <1>2 DEF Partial, Shown, Event
<1>4. \A unresolved \in BOOLEAN :
          Status(unresolved) \in {"partial", "verified", "uncertain", "quota", "error"}
    BY DEF Status
<1>5. \A unresolved \in BOOLEAN : Final(unresolved) \in Event
    BY <1>2, <1>4 DEF Final, Shown, Event
<1>6. Baseline \in Event
    BY DEF Baseline, Event
<1>7. Unchecked \in Event
    BY DEF Baseline, Unchecked, Event
<1>8. consumer.latest \in Event
    BY DEF TypeOK
<1>9. Failed \in Event
    BY <1>8 DEF Failed, Event
<1>10. QED
    BY <1>3, <1>5, <1>6, <1>7, <1>9

\* What is said of the chunks when an event is made.
LEMMA MadeTrue ==
    ASSUME TypeOK
    PROVE  /\ \A cs \in SUBSET Chunks : EventTrue(Partial(cs))
           /\ \A unresolved \in BOOLEAN : AllDone => EventTrue(Final(unresolved))
           /\ EventTrue(Unchecked) /\ EventTrue(Baseline)
<1>1. \A cs \in SUBSET Chunks : EventTrue(Partial(cs))
    BY DEF EventTrue, Partial, Shown, Answered, Got
<1>2. ASSUME NEW unresolved \in BOOLEAN, AllDone PROVE EventTrue(Final(unresolved))
    <2>1. Status(unresolved) = "verified" => Got(Chunks, Confident) = Chunks
        BY DEF Status
    <2>2. QED
        BY <1>2, <2>1 DEF EventTrue, Final, Shown
<1>3. EventTrue(Unchecked) /\ EventTrue(Baseline)
    BY DEF EventTrue, Unchecked, Baseline
<1>4. QED
    BY <1>1, <1>2, <1>3

\* Answers are given once, and what ended stays ended.
AnswersStay ==
    /\ total' = total
    /\ \A c \in Chunks :
          /\ chunk'[c].got = chunk[c].got
                \/ (c \in Jobs /\ chunk[c].pc # "done" /\ chunk[c].got = "none")
          /\ chunk[c].pc = "done" => chunk'[c].pc = "done"

LEMMA TruthStays ==
    ASSUME TypeOK, AnswersStay, faults <= faults', faults' \in Nat, NEW e, EventTrue(e)
    PROVE  EventTrue(e)'
<1>1. Chunks' = Chunks /\ Jobs' = Jobs /\ Jobs \subseteq Chunks
    BY ChunkTypes DEF AnswersStay, Chunks, Jobs
<1>2. Answered(Chunks) \subseteq Answered(Chunks)'
    BY <1>1 DEF AnswersStay, Answered, Got, Answers
<1>3. Got(Chunks, Confident) = Chunks => (Got(Chunks, Confident) = Chunks)'
    BY <1>1 DEF AnswersStay, Got, Confident
<1>4. AllDone => AllDone' /\ Answered(Chunks)' = Answered(Chunks)
    BY <1>1 DEF AllDone, AnswersStay, Answered, Got
<1>5. faults' = 0 => faults = 0
    BY StreamAssumption DEF TypeOK
<1>6. QED
    BY <1>2, <1>3, <1>4, <1>5 DEF EventTrue

\* A failure says no more than the event it starts from.
LEMMA FailedTrue ==
    ASSUME TypeOK, EventTrue(consumer.latest), AnswersStay, faults' = faults + 1, NEW e, e = Failed
    PROVE  EventTrue(e)'
<1>1. consumer.latest \in Event /\ faults \in Nat
    BY StreamAssumption DEF TypeOK
<1>2. e.answered = consumer.latest.answered /\ e.status \in {"partial", "error"}
    BY <1>1 DEF Failed, Event
<1>3. Answered(Chunks) \subseteq Answered(Chunks)'
    BY ChunkTypes DEF AnswersStay, Chunks, Jobs, Answered, Got, Answers
<1>4. QED
    BY <1>1, <1>2, <1>3 DEF EventTrue

LEMMA AnsweredGrows ==
    ASSUME TypeOK, TypeOK', AnswersStay
    PROVE  /\ Cardinality(Answered(Chunks)) \in Nat /\ Cardinality(Answered(Chunks))' \in Nat
           /\ Cardinality(Answered(Chunks)) <= Cardinality(Answered(Chunks))'
<1>1. Chunks' = Chunks /\ IsFiniteSet(Chunks)
    BY ChunkTypes DEF AnswersStay, Chunks
<1>2. Answered(Chunks) \subseteq Answered(Chunks)' /\ Answered(Chunks)' \subseteq Chunks
    BY <1>1 DEF AnswersStay, Answered, Got, Answers
<1>3. IsFiniteSet(Answered(Chunks)') /\ IsFiniteSet(Answered(Chunks))
    BY <1>1, <1>2, FS_Subset
<1>4. QED
    BY <1>2, <1>3, FS_Subset, FS_CardinalityType
----------------------------------------------------------------------------
(* Types.                                                                   *)

ProducerState == [pc: {"verify", "apply", "final", "put", "done"}, event: Event]
ConsumerState == [pc: {"get", "check", "yield", "over"}, latest: Event, stale: BOOLEAN]
ClientState == [last: Event, most: 0..N, end: {"open", "complete", "broken", "gone"}]

LEMMA Parts ==
    ASSUME TypeOK
    PROVE  /\ producer \in ProducerState /\ consumer \in ConsumerState /\ client \in ClientState
           /\ queue \in Seq(Event) /\ Len(queue) \in Nat /\ Len(queue) <= QueueSize
           /\ faults \in Nat /\ changed \in BOOLEAN
BY StreamAssumption DEF TypeOK, ProducerState, ConsumerState, ClientState

LEMMA InitTypeOK == Init => TypeOK
<1> SUFFICES ASSUME Init PROVE TypeOK
    OBVIOUS
<1>1. Baseline \in Event
    BY DEF Baseline, Event
<1>2. chunk \in [Chunks -> ChunkState]
    BY DEF Init, ChunkState
<1>3. queue \in Seq(Event) /\ Len(queue) <= QueueSize
    BY StreamAssumption DEF Init
<1>4. 0 \in 0..N /\ 0 \in 0..MaxFaults
    BY StreamAssumption
<1>5. QED
    BY <1>1, <1>2, <1>3, <1>4 DEF Init, TypeOK, ChunkState

LEMMA CancelledTypes ==
    ASSUME TypeOK, Cancelled
    PROVE  chunk' \in [Chunks -> ChunkState] /\ producer' \in ProducerState
<1>1. \A c \in Chunks : [chunk[c] EXCEPT !.pc = "done"] \in ChunkState
    BY ChunkTypes DEF ChunkState
<1>2. [producer EXCEPT !.pc = "done"] \in ProducerState
    BY Parts DEF ProducerState
<1>3. QED
    BY <1>1, <1>2, ChunkTypes, Parts DEF Cancelled

LEMMA JobTypes ==
    ASSUME TypeOK, NEW c \in Jobs, Job(c)
    PROVE  TypeOK'
<1>1. c \in Chunks /\ chunk \in [Chunks -> ChunkState] /\ chunk[c] \in ChunkState
    BY ChunkTypes
<1>2. CASE Acquire(c)
    <2>1. \A pc \in {"done", "calling"}, got \in {"error", "none"} :
              [chunk[c] EXCEPT !.pc = pc, !.got = got] \in ChunkState
        BY <1>1 DEF ChunkState, Failures
    <2> DEFINE pc == IF late /\ ~Single THEN "done" ELSE "calling"
               got == IF late /\ ~Single THEN "error" ELSE "none"
    <2>2. chunk' = [chunk EXCEPT ![c] = [chunk[c] EXCEPT !.pc = pc, !.got = got]]
        BY <1>2 DEF Acquire
    <2>3. pc \in {"done", "calling"} /\ got \in {"error", "none"}
        OBVIOUS
    <2> HIDE DEF pc, got
    <2>4. chunk' \in [Chunks -> ChunkState]
        BY <1>1, <2>1, <2>2, <2>3
    <2>5. QED
        BY <1>2, <2>4 DEF Acquire, Environment, Stream, TypeOK, ChunkState, Chunks
<1>3. CASE Reply(c)
    <2>1. PICK got \in Answers \cup Failures, pc \in {"done", "check"} :
              chunk' = [chunk EXCEPT ![c] =
                  [pc |-> pc, got |-> got,
                   seen |-> {c} \cup {d \in Chunks : chunk[d].seen # {}}]]
        BY <1>3 DEF Reply
    <2>2. [pc |-> pc, got |-> got, seen |-> {c} \cup {d \in Chunks : chunk[d].seen # {}}]
              \in ChunkState
        BY <1>1 DEF ChunkState
    <2>3. chunk' \in [Chunks -> ChunkState]
        BY <1>1, <2>1, <2>2
    <2>4. QED
        BY <1>3, <2>3 DEF Reply, Environment, Stream, TypeOK, ChunkState, Chunks
<1>4. \A pc \in {"done", "put"} : [chunk EXCEPT ![c].pc = pc] \in [Chunks -> ChunkState]
    <2>1. \A pc \in {"done", "put"} : [chunk[c] EXCEPT !.pc = pc] \in ChunkState
        BY <1>1 DEF ChunkState
    <2>2. QED
        BY <1>1, <2>1
<1>5. CASE CheckProgress(c)
    <2>1. chunk' \in [Chunks -> ChunkState]
        BY <1>4, <1>5 DEF CheckProgress
    <2>2. QED
        BY <1>5, <2>1 DEF CheckProgress, Environment, Stream, TypeOK, ChunkState, Chunks
<1>6. CASE ProgressRaises(c)
    <2>1. chunk' \in [Chunks -> ChunkState]
        BY <1>4, <1>6 DEF ProgressRaises
    <2>2. faults' \in 0..MaxFaults
        BY <1>6, StreamAssumption DEF ProgressRaises, TypeOK
    <2>3. producer' \in ProducerState
        BY <1>6, EventTypes, Parts DEF ProgressRaises, ProducerState
    <2>4. QED
        BY <1>6, <2>1, <2>2, <2>3 DEF ProgressRaises, Environment, TypeOK, ChunkState, Chunks, ProducerState
<1>7. CASE PutProgress(c)
    <2>1. chunk' \in [Chunks -> ChunkState]
        BY <1>4, <1>7 DEF PutProgress
    <2>2. Partial(chunk[c].seen) \in Event
        BY <1>1, EventTypes DEF ChunkState
    <2>3. queue' \in Seq(Event) /\ Len(queue') <= QueueSize
        BY <1>7, <2>2, Parts, StreamAssumption DEF PutProgress
    <2>4. QED
        BY <1>7, <2>1, <2>3 DEF PutProgress, Environment, TypeOK, ChunkState, Chunks
<1>8. QED
    BY <1>2, <1>3, <1>5, <1>6, <1>7 DEF Job

LEMMA ProducerTypes ==
    ASSUME TypeOK, Producer
    PROVE  TypeOK'
<1>1. \A pc \in {"apply", "done"} : [producer EXCEPT !.pc = pc] \in ProducerState
    BY Parts DEF ProducerState
<1>2. \A pc \in {"final", "put"}, e \in Event : [pc |-> pc, event |-> e] \in ProducerState
    BY DEF ProducerState
<1>3. producer.event \in Event
    BY Parts DEF ProducerState
<1>4. producer' \in ProducerState
    <2>1. CASE Gather
        BY <1>1, <2>1 DEF Gather
    <2>2. CASE PutFinal
        BY <1>1, <2>2 DEF PutFinal
    <2>3. CASE Apply
        BY <1>2, <2>3, EventTypes DEF Apply
    <2>4. CASE CheckFinal
        BY <1>2, <1>3, <2>4, EventTypes DEF CheckFinal
    <2>5. CASE ProducerRaises
        BY <1>2, <2>5, EventTypes DEF ProducerRaises
    <2>6. QED
        BY <2>1, <2>2, <2>3, <2>4, <2>5 DEF Producer
<1>5. queue' \in Seq(Event) /\ Len(queue') <= QueueSize
    <2>1. CASE queue' = queue
        BY <2>1, Parts
    <2>2. CASE PutFinal
        BY <1>3, <2>2, Parts, StreamAssumption DEF PutFinal
    <2>3. QED
        BY <2>1, <2>2 DEF Producer, Gather, Apply, CheckFinal, ProducerRaises
<1>6. faults' \in 0..MaxFaults
    BY StreamAssumption DEF Producer, Gather, Apply, CheckFinal, ProducerRaises, PutFinal, TypeOK
<1>7. UNCHANGED <<total, changed, abbr, late, chunk, consumer, client>>
    BY DEF Producer, Gather, Apply, CheckFinal, ProducerRaises, PutFinal, Environment
<1>8. QED
    BY <1>4, <1>5, <1>6, <1>7 DEF TypeOK, Chunks, ProducerState

LEMMA ConsumerTypes ==
    ASSUME TypeOK, Consumer \/ Disconnect
    PROVE  TypeOK'
<1>1. Environment' = Environment
    BY DEF Consumer, Get, CheckEvent, ConsumerRaises, Deliver, Disconnect
<1>2. chunk' \in [Chunks -> ChunkState] /\ producer' \in ProducerState
    BY CancelledTypes, ChunkTypes, Parts DEF Consumer, Get, CheckEvent, ConsumerRaises, Deliver, Disconnect
<1>3. queue' \in Seq(Event) /\ Len(queue') <= QueueSize
    <2>1. CASE queue' = queue
        BY <2>1, Parts
    <2>2. CASE Get
        BY <2>2, Parts, StreamAssumption DEF Get
    <2>3. QED
        BY <2>1, <2>2 DEF Consumer, CheckEvent, ConsumerRaises, Deliver, Disconnect
<1>4. faults' \in 0..MaxFaults
    BY StreamAssumption DEF Consumer, Get, CheckEvent, ConsumerRaises, Deliver, Disconnect, TypeOK
<1>5. \A pc \in {"get", "check", "yield", "over"}, e \in Event :
          [consumer EXCEPT !.pc = pc, !.latest = e] \in ConsumerState
    BY Parts DEF ConsumerState
<1>6. consumer' \in ConsumerState /\ client' \in ClientState
    <2>1. CASE Get
        <3>1. Head(queue) \in Event
            BY <2>1, Parts DEF Get
        <3>2. QED
            BY <2>1, <3>1, Parts DEF Get, ConsumerState
    <2>2. CASE CheckEvent
        BY <2>2, EventTypes, Parts DEF CheckEvent, ConsumerState
    <2>3. CASE ConsumerRaises
        BY <2>3, Parts DEF ConsumerRaises, ConsumerState, ClientState
    <2>4. CASE Deliver
        <3> DEFINE n == Cardinality(consumer.latest.answered)
        <3>1. consumer.latest \in Event /\ client.most \in 0..N
            BY Parts DEF ConsumerState, ClientState
        <3>2. n \in 0..N
            <4>1. consumer.latest.answered \subseteq 1..N
                BY <3>1 DEF Event
            <4>2. IsFiniteSet(1..N) /\ Cardinality(1..N) = N
                BY FS_Interval, StreamAssumption
            <4>3. QED
                BY <4>1, <4>2, FS_Subset, FS_CardinalityType, StreamAssumption
        <3> HIDE DEF n
        <3>3. client' = [last |-> consumer.latest, most |-> IF n > client.most THEN n ELSE client.most,
                         end |-> IF consumer.latest.complete THEN "complete" ELSE "open"]
            BY <2>4 DEF Deliver, n
        <3>4. client' \in ClientState
            BY <3>1, <3>2, <3>3 DEF ClientState
        <3>5. consumer' \in ConsumerState
            BY <2>4, Parts DEF Deliver, ConsumerState
        <3>6. QED
            BY <3>4, <3>5
    <2>5. CASE Disconnect
        BY <2>5, Parts DEF Disconnect, ConsumerState, ClientState
    <2>6. QED
        BY <2>1, <2>2, <2>3, <2>4, <2>5 DEF Consumer
<1>7. QED
    BY <1>1, <1>2, <1>3, <1>4, <1>6
       DEF Environment, TypeOK, Chunks, ChunkState, ProducerState, ConsumerState, ClientState

LEMMA StepTypes == TypeOK /\ [Next]_vars => TypeOK'
<1> SUFFICES ASSUME TypeOK, [Next]_vars PROVE TypeOK'
    OBVIOUS
<1>1. CASE DictionaryChanges \/ DeadlinePasses \/ UNCHANGED vars
    BY <1>1 DEF DictionaryChanges, DeadlinePasses, Stream, vars, TypeOK, Chunks
<1>2. QED
    BY <1>1, JobTypes, ProducerTypes, ConsumerTypes DEF Next
----------------------------------------------------------------------------
(* What events say.                                                         *)

\* Jobs, the end of a stream and everything else give answers once.
LEMMA AnswersKept ==
    ASSUME TypeOK, Unanswered, Next
    PROVE  AnswersStay /\ Unanswered'
<1>1. chunk \in [Chunks -> ChunkState] /\ Jobs \subseteq Chunks
    BY ChunkTypes
<1>2. total' = total /\ Chunks' = Chunks /\ Jobs' = Jobs
    BY DEF Next, Job, Producer, Consumer, Disconnect, DictionaryChanges, DeadlinePasses, Acquire, Reply,
           CheckProgress, ProgressRaises, PutProgress, Gather, Apply, CheckFinal, ProducerRaises,
           PutFinal, Get, CheckEvent, ConsumerRaises, Deliver, Environment, Chunks, Jobs
<1>3. ASSUME NEW c \in Jobs, Job(c) PROVE AnswersStay /\ Unanswered'
    <2>1. c \in Chunks /\ chunk[c] \in ChunkState
        BY <1>1
    <2>2. PICK r : /\ chunk' = [chunk EXCEPT ![c] = r]
                   /\ chunk[c].pc # "done"
                   /\ r.pc \in {"waiting", "calling"} => r.got = "none"
                   /\ r.got = chunk[c].got \/ chunk[c].got = "none"
        <3>1. CASE Acquire(c)
            <4> DEFINE r == [chunk[c] EXCEPT !.pc = IF late /\ ~Single THEN "done" ELSE "calling",
                                             !.got = IF late /\ ~Single THEN "error" ELSE "none"]
            <4>1. chunk' = [chunk EXCEPT ![c] = r] /\ chunk[c].pc = "waiting"
                BY <3>1 DEF Acquire
            <4>2. r.pc = (IF late /\ ~Single THEN "done" ELSE "calling") /\ r.got = (IF late /\ ~Single THEN "error" ELSE "none")
                BY <2>1 DEF ChunkState
            <4>3. chunk[c].got = "none"
                BY <2>1, <4>1 DEF Unanswered
            <4> HIDE DEF r
            <4>4. QED
                BY <4>1, <4>2, <4>3
        <3>2. CASE Reply(c)
            <4>1. PICK got \in Answers \cup Failures, pc \in {"done", "check"} :
                      chunk' = [chunk EXCEPT ![c] =
                          [pc |-> pc, got |-> got,
                           seen |-> {c} \cup {d \in Chunks : chunk[d].seen # {}}]]
                BY <3>2 DEF Reply
            <4>2. chunk[c].pc = "calling" /\ chunk[c].got = "none"
                BY <2>1, <3>2 DEF Reply, Unanswered
            <4>3. QED
                BY <4>1, <4>2
        <3>3. ASSUME NEW pc \in {"done", "put"}, chunk' = [chunk EXCEPT ![c].pc = pc],
                     chunk[c].pc \in {"check", "put"}
              PROVE  \E r : /\ chunk' = [chunk EXCEPT ![c] = r]
                            /\ chunk[c].pc # "done"
                            /\ r.pc \in {"waiting", "calling"} => r.got = "none"
                            /\ r.got = chunk[c].got \/ chunk[c].got = "none"
            <4> DEFINE r == [chunk[c] EXCEPT !.pc = pc]
            <4>1. r.pc = pc /\ r.got = chunk[c].got /\ chunk' = [chunk EXCEPT ![c] = r]
                BY <2>1, <3>3 DEF ChunkState
            <4> HIDE DEF r
            <4>2. QED
                BY <3>3, <4>1
        <3>4. CASE CheckProgress(c)
            <4>1. chunk' = [chunk EXCEPT ![c].pc = "done"] \/ chunk' = [chunk EXCEPT ![c].pc = "put"]
                BY <3>4 DEF CheckProgress
            <4>2. QED
                BY <3>3, <3>4, <4>1 DEF CheckProgress
        <3>5. CASE ProgressRaises(c) \/ PutProgress(c)
            <4>1. chunk' = [chunk EXCEPT ![c].pc = "done"] /\ chunk[c].pc \in {"check", "put"}
                BY <3>5 DEF ProgressRaises, PutProgress
            <4>2. QED
                BY <3>3, <4>1
        <3>6. QED
            BY <1>3, <3>1, <3>2, <3>4, <3>5 DEF Job
    <2>3. \A d \in Chunks : chunk'[d] = IF d = c THEN r ELSE chunk[d]
        BY <1>1, <2>2
    <2>4. QED
        BY <1>2, <2>1, <2>2, <2>3 DEF AnswersStay, Unanswered
<1>4. CASE chunk' = chunk
    BY <1>2, <1>4 DEF AnswersStay, Unanswered
<1>5. CASE chunk' = [c \in Chunks |-> [chunk[c] EXCEPT !.pc = "done"]]
    <2>1. \A c \in Chunks : chunk'[c].pc = "done" /\ chunk'[c].got = chunk[c].got
        BY <1>1, <1>5 DEF ChunkState
    <2>2. QED
        BY <1>2, <2>1 DEF AnswersStay, Unanswered
<1>6. QED
    BY <1>3, <1>4, <1>5
       DEF Next, Producer, Consumer, Disconnect, DictionaryChanges, DeadlinePasses, Gather, Apply,
           CheckFinal, ProducerRaises, PutFinal, Get, CheckEvent, ConsumerRaises, Deliver, Cancelled,
           Stream

\* Where events are.
Places == {producer.event, consumer.latest, client.last} \cup {queue[i] : i \in 1..Len(queue)}

\* Events move on, and one may be made.
LEMMA EventsMove ==
    ASSUME TypeOK, TypeOK', EventsTrue, AnswersStay, faults <= faults', NEW e, EventTrue(e)',
           producer'.event \in Places \cup {e},
           consumer'.latest \in Places \cup {e},
           client'.last \in Places \cup {e},
           \A i \in 1..Len(queue') : queue'[i] \in Places \cup {e}
    PROVE  EventsTrue'
<1>1. faults' \in Nat
    BY StreamAssumption DEF TypeOK
<1>2. ASSUME NEW d \in Places \cup {e} PROVE EventTrue(d)'
    <2>1. CASE d = e
        BY <2>1
    <2>2. CASE d \in Places
        <3>1. EventTrue(d)
            BY <2>2 DEF EventsTrue, Places
        <3>2. QED
            BY <1>1, <3>1, TruthStays
    <2>3. QED
        BY <2>1, <2>2
<1>3. ASSUME NEW d \in Places \cup {e}, producer'.event = d PROVE EventTrue(producer.event)'
    BY <1>2, <1>3 DEF EventTrue
<1>4. ASSUME NEW d \in Places \cup {e}, consumer'.latest = d PROVE EventTrue(consumer.latest)'
    BY <1>2, <1>4 DEF EventTrue
<1>5. ASSUME NEW d \in Places \cup {e}, client'.last = d PROVE EventTrue(client.last)'
    BY <1>2, <1>5 DEF EventTrue
<1>6. \A i \in 1..Len(queue') : EventTrue(queue[i])'
    <2> SUFFICES ASSUME NEW i \in 1..Len(queue') PROVE EventTrue(queue[i])'
        OBVIOUS
    <2>1. PICK d \in Places \cup {e} : queue'[i] = d
        OBVIOUS
    <2>2. QED
        BY <1>2, <2>1 DEF EventTrue
<1>7. QED
    BY <1>3, <1>4, <1>5, <1>6 DEF EventsTrue
LEMMA EventsKept ==
    ASSUME IInv, TypeOK', Next
    PROVE  EventsTrue'
<1>1. TypeOK /\ EventsTrue /\ AnswersStay /\ Jobs \subseteq Chunks
      /\ producer \in ProducerState /\ consumer \in ConsumerState
    BY AnswersKept, ChunkTypes, Parts DEF IInv
<1>2. faults \in Nat /\ faults' \in Nat /\ faults <= faults'
    <2>1. faults \in Nat /\ faults' \in Nat
        BY <1>1, StreamAssumption DEF TypeOK
    <2>2. faults' = faults \/ faults' = faults + 1
        BY DEF Next, Job, Producer, Consumer, Disconnect, DictionaryChanges, DeadlinePasses, Acquire, Reply,
           CheckProgress, ProgressRaises, PutProgress, Gather, Apply, CheckFinal, ProducerRaises,
           PutFinal, Get, CheckEvent, ConsumerRaises, Deliver
    <2>3. QED
        BY <2>1, <2>2
<1>3. ASSUME NEW e, EventTrue(e) PROVE EventTrue(e)'
    BY <1>1, <1>2, <1>3, TruthStays
<1>4. EventTrue(Baseline)' /\ EventTrue(Unchecked)'
    BY <1>1, <1>3, MadeTrue
<1>5. CASE UNCHANGED Stream
    <2>1. Stream' = Stream /\ queue' = queue
        BY <1>5 DEF Stream
    <2>2. QED
        BY <1>1, <1>2, <1>4, <2>1, EventsMove DEF Stream, Places
<1>6. ASSUME NEW c \in Jobs, Job(c) PROVE EventsTrue'
    <2>1. CASE Acquire(c) \/ Reply(c) \/ CheckProgress(c)
        BY <1>5, <2>1 DEF Acquire, Reply, CheckProgress, Stream
    <2>2. CASE ProgressRaises(c)
        <3> DEFINE e == Failed
        <3>1. EventTrue(consumer.latest) /\ faults' = faults + 1
            BY <1>1, <2>2 DEF EventsTrue, ProgressRaises
        <3>2. PICK d : d = Failed
            OBVIOUS
        <3>3. EventTrue(d)'
            BY <1>1, <3>1, <3>2, FailedTrue
        <3>4. producer'.event \in {producer.event, d} /\ UNCHANGED <<queue, consumer, client>>
            BY <2>2, <3>2 DEF ProgressRaises
        <3>5. QED
            BY <1>1, <1>2, <3>3, <3>4, EventsMove DEF Places
    <2>3. CASE PutProgress(c)
        <3>1. PICK d : d = Partial(chunk[c].seen)
            OBVIOUS
        <3>2. EventTrue(d)'
            <4>1. chunk[c].seen \subseteq Chunks
                BY <1>1, ChunkTypes DEF ChunkState
            <4>2. EventTrue(Partial(chunk[c].seen))
                BY <1>1, <4>1, MadeTrue
            <4>3. QED
                BY <1>3, <3>1, <4>2
        <3>3. UNCHANGED <<producer, consumer, client>> /\ queue' = Append(queue, d)
            BY <2>3, <3>1 DEF PutProgress
        <3>4. \A i \in 1..Len(queue') : queue'[i] \in Places \cup {d}
            BY <1>1, <3>3, Parts DEF Places
        <3>5. QED
            BY <1>1, <1>2, <3>2, <3>3, <3>4, EventsMove DEF Places
    <2>4. QED
        BY <1>6, <2>1, <2>2, <2>3 DEF Job
<1>7. CASE Producer
    <2>1. UNCHANGED <<consumer, client>>
        BY <1>7 DEF Producer, Gather, Apply, CheckFinal, ProducerRaises, PutFinal
    <2>2. CASE Gather
        <3>1. producer'.event = producer.event /\ queue' = queue
            BY <1>1, <2>2 DEF Gather, ProducerState
        <3>2. QED
            BY <1>1, <1>2, <1>4, <2>1, <3>1, EventsMove DEF Places
    <2>3. CASE Apply
        <3>1. PICK unresolved \in BOOLEAN :
                  producer' = [pc |-> "final", event |-> IF changed THEN Unchecked ELSE Final(unresolved)]
            BY <2>3 DEF Apply
        <3>2. PICK d : d = Final(unresolved)
            OBVIOUS
        <3>3. AllDone
            BY <2>3 DEF Apply, IInv
        <3>4. EventTrue(Final(unresolved))
            BY <1>1, <3>3, MadeTrue
        <3>5. EventTrue(d)'
            BY <1>3, <3>2, <3>4
        <3>6. queue' = queue /\ producer'.event \in {Unchecked, d}
            BY <2>3, <3>1, <3>2 DEF Apply
        <3>7. CASE producer'.event = d
            BY <1>1, <1>2, <2>1, <3>5, <3>6, <3>7, EventsMove DEF Places
        <3>8. CASE producer'.event = Unchecked
            BY <1>1, <1>2, <1>4, <2>1, <3>6, <3>8, EventsMove DEF Places
        <3>9. QED
            BY <3>6, <3>7, <3>8
    <2>4. CASE CheckFinal
        <3>1. producer'.event \in {producer.event, Unchecked} /\ queue' = queue
            BY <2>4 DEF CheckFinal
        <3>2. QED
            BY <1>1, <1>2, <1>4, <2>1, <3>1, EventsMove DEF Places
    <2>5. CASE ProducerRaises
        <3>1. EventTrue(consumer.latest) /\ faults' = faults + 1
            BY <1>1, <2>5 DEF EventsTrue, ProducerRaises
        <3>2. PICK d : d = Failed
            OBVIOUS
        <3>3. EventTrue(d)'
            BY <1>1, <3>1, <3>2, FailedTrue
        <3>4. producer'.event = d /\ queue' = queue
            BY <2>5, <3>2 DEF ProducerRaises
        <3>5. QED
            BY <1>1, <1>2, <2>1, <3>3, <3>4, EventsMove DEF Places
    <2>6. CASE PutFinal
        <3>1. producer'.event = producer.event /\ queue' = Append(queue, producer.event)
            BY <1>1, <2>6 DEF PutFinal, ProducerState
        <3>2. \A i \in 1..Len(queue') : queue'[i] \in Places
            BY <1>1, <3>1, Parts DEF Places
        <3>3. QED
            BY <1>1, <1>2, <1>4, <2>1, <3>1, <3>2, EventsMove DEF Places
    <2>7. QED
        BY <1>7, <2>2, <2>3, <2>4, <2>5, <2>6 DEF Producer
<1>8. CASE Consumer \/ Disconnect
    <2>1. producer'.event = producer.event
        BY <1>1, <1>8 DEF Consumer, Get, CheckEvent, ConsumerRaises, Deliver, Disconnect, Cancelled,
                          ProducerState
    <2>2. CASE Get
        <3>1. consumer'.latest = queue[1] /\ client' = client /\ queue' = Tail(queue) /\ 1 \in 1..Len(queue)
            BY <1>1, <2>2, Parts DEF Get
        <3>2. \A i \in 1..Len(queue') : queue'[i] = queue[i + 1] /\ i + 1 \in 1..Len(queue)
            BY <1>1, <3>1, Parts
        <3>3. QED
            BY <1>1, <1>2, <1>4, <2>1, <3>1, <3>2, EventsMove DEF Places
    <2>3. CASE CheckEvent
        <3>1. consumer'.latest \in {consumer.latest, Unchecked} /\ UNCHANGED <<client, queue>>
            BY <1>1, <2>3 DEF CheckEvent, ConsumerState
        <3>2. QED
            BY <1>1, <1>2, <1>4, <2>1, <3>1, EventsMove DEF Places
    <2>4. CASE ConsumerRaises \/ Deliver \/ Disconnect
        <3>1. consumer'.latest = consumer.latest /\ queue' = queue
              /\ client'.last \in {client.last, consumer.latest}
            BY <1>1, <2>4, Parts DEF ConsumerRaises, Deliver, Disconnect, ConsumerState, ClientState
        <3>2. QED
            BY <1>1, <1>2, <1>4, <2>1, <3>1, EventsMove DEF Places
    <2>5. QED
        BY <1>8, <2>2, <2>3, <2>4 DEF Consumer
<1>9. QED
    BY <1>5, <1>6, <1>7, <1>8 DEF Next, DictionaryChanges, DeadlinePasses, Stream

----------------------------------------------------------------------------
(* Theorems.                                                                *)

LEMMA InitHolds == Init => IInv
<1> SUFFICES ASSUME Init PROVE IInv
    OBVIOUS
<1>1. TypeOK
    BY InitTypeOK
<1>2. EventTrue(Baseline)
    BY <1>1, MadeTrue
<1>3. EventsTrue
    BY <1>2 DEF Init, EventsTrue
<1>4. Unanswered /\ StaleNotShown
    BY DEF Init, Unanswered, StaleNotShown
<1>5. client.most <= Cardinality(Answered(Chunks))
    <2>1. Answered(Chunks) \subseteq Chunks /\ IsFiniteSet(Chunks)
        BY <1>1, ChunkTypes DEF Answered, Got
    <2>2. QED
        BY <2>1, FS_Subset, FS_CardinalityType DEF Init
<1>6. QED
    BY <1>1, <1>3, <1>4, <1>5 DEF Init, IInv

LEMMA StepHolds == IInv /\ [Next]_vars => IInv'
<1> SUFFICES ASSUME IInv, [Next]_vars PROVE IInv'
    OBVIOUS
<1>1. TypeOK /\ Unanswered /\ EventsTrue /\ StaleNotShown
    BY DEF IInv
<1>2. TypeOK'
    BY <1>1, StepTypes
<1>3. CASE UNCHANGED vars
    BY <1>3 DEF vars, IInv, TypeOK, Unanswered, EventsTrue, EventTrue, AllDone, StaleNotShown,
                Answered, Got, Chunks, Jobs
<1>4. CASE Next
    <2>1. AnswersStay /\ Unanswered' /\ EventsTrue'
        BY <1>1, <1>2, <1>4, AnswersKept, EventsKept
    <2>2. Chunks' = Chunks /\ Jobs' = Jobs /\ Jobs \subseteq Chunks
        BY <1>1, <2>1, ChunkTypes DEF AnswersStay, Chunks, Jobs
    <2>3. producer'.pc \in {"apply", "final"} => AllDone'
        <3>1. AllDone => AllDone'
            BY <2>1, <2>2 DEF AllDone, AnswersStay
        <3>2. producer'.pc \in {"apply", "final"} => producer.pc \in {"apply", "final"} \/ AllDone
            <4>1. CASE producer' = producer
                BY <4>1
            <4>2. CASE Gather
                BY <4>2 DEF Gather, AllDone
            <4>3. CASE producer' = [producer EXCEPT !.pc = "done"]
                <5>1. producer'.pc = "done"
                    BY <1>1, <4>3, Parts DEF ProducerState
                <5>2. QED
                    BY <5>1
            <4>4. CASE Apply \/ CheckFinal \/ ProducerRaises
                BY <4>4 DEF Apply, CheckFinal, ProducerRaises
            <4>5. CASE producer' = [pc |-> "put", event |-> Failed]
                BY <4>5
            <4>6. QED
                BY <1>4, <4>1, <4>2, <4>3, <4>4, <4>5
                   DEF Next, Job, Producer, Consumer, Disconnect, DictionaryChanges, DeadlinePasses,
                       Acquire, Reply, CheckProgress, ProgressRaises, PutProgress, PutFinal, Get,
                       CheckEvent, ConsumerRaises, Deliver, Cancelled, Stream
        <3>3. QED
            BY <3>1, <3>2 DEF IInv
    <2>4. (client.end = "complete" => client.last.complete)'
        <3>1. CASE client' = client
            BY <3>1 DEF IInv
        <3>2. CASE Deliver
            BY <3>2 DEF Deliver
        <3>3. CASE ConsumerRaises \/ Disconnect
            <4>1. client'.end \in {"broken", "gone"}
                BY <1>1, <3>3, Parts DEF ConsumerRaises, Disconnect, ClientState
            <4>2. QED
                BY <4>1
        <3>4. QED
            BY <1>4, <3>1, <3>2, <3>3
               DEF Next, Job, Producer, Consumer, DictionaryChanges, DeadlinePasses, Acquire, Reply,
                   CheckProgress, ProgressRaises, PutProgress, Gather, Apply, CheckFinal,
                   ProducerRaises, PutFinal, Get, CheckEvent, Stream
    <2>5. (client.most <= Cardinality(Answered(Chunks)))'
        <3>1. client.most <= Cardinality(Answered(Chunks))' /\ client.most \in Nat
            BY <1>1, <1>2, <2>1, AnsweredGrows, Parts, StreamAssumption DEF IInv, ClientState
        <3>2. CASE Deliver
            <4> DEFINE n == Cardinality(consumer.latest.answered)
            <4>1. IsFiniteSet(Answered(Chunks))
                BY <1>1, ChunkTypes, FS_Subset DEF Answered, Got
            <4>2. n <= Cardinality(Answered(Chunks)) /\ n \in Nat
                BY <1>1, <4>1, FS_Subset, FS_CardinalityType DEF EventsTrue, EventTrue
            <4>3. Cardinality(Answered(Chunks)) <= Cardinality(Answered(Chunks))'
                  /\ Cardinality(Answered(Chunks)) \in Nat /\ Cardinality(Answered(Chunks))' \in Nat
                BY <1>1, <1>2, <2>1, AnsweredGrows
            <4>4. client'.most = IF n > client.most THEN n ELSE client.most
                BY <3>2 DEF Deliver
            <4> HIDE DEF n
            <4>5. QED
                BY <3>1, <4>2, <4>3, <4>4
        <3>3. CASE client'.most = client.most
            BY <3>1, <3>3
        <3>4. QED
            BY <1>1, <1>4, <3>2, <3>3, Parts
               DEF Next, Job, Producer, Consumer, Disconnect, DictionaryChanges, DeadlinePasses, Acquire,
                   Reply, CheckProgress, ProgressRaises, PutProgress, Gather, Apply, CheckFinal,
                   ProducerRaises, PutFinal, Get, CheckEvent, ConsumerRaises, Stream, ClientState
    <2>6. (consumer.stale => changed)' /\ StaleNotShown'
        <3>1. changed => changed'
            BY <1>1, <1>4 DEF Next, Job, Producer, Consumer, Disconnect, DictionaryChanges, DeadlinePasses,
                   Acquire, Reply, CheckProgress, ProgressRaises, PutProgress, Gather, Apply, CheckFinal,
                   ProducerRaises, PutFinal, Get, CheckEvent, ConsumerRaises, Deliver, Environment
        <3>2. CASE consumer' = consumer
            BY <1>1, <3>1, <3>2 DEF IInv, StaleNotShown
        <3>3. CASE Get
            BY <3>1, <3>3 DEF Get, StaleNotShown
        <3>4. CASE CheckEvent
            <4>1. consumer'.stale = consumer.stale /\ consumer'.latest = (IF changed THEN Unchecked ELSE consumer.latest)
                BY <1>1, <3>4, Parts DEF CheckEvent, ConsumerState
            <4>2. Unchecked.shown = {}
                BY DEF Unchecked, Baseline
            <4>3. QED
                BY <3>1, <4>1, <4>2 DEF IInv, StaleNotShown
        <3>5. CASE ConsumerRaises \/ Deliver \/ Disconnect
            <4>1. consumer'.stale = consumer.stale /\ consumer'.pc # "yield"
                BY <1>1, <3>5, Parts DEF ConsumerRaises, Deliver, Disconnect, ConsumerState
            <4>2. QED
                BY <3>1, <4>1 DEF IInv, StaleNotShown
        <3>6. QED
            BY <1>4, <3>2, <3>3, <3>4, <3>5
               DEF Next, Job, Producer, Consumer, DictionaryChanges, DeadlinePasses, Acquire,
                   Reply, CheckProgress, ProgressRaises, PutProgress, Gather, Apply, CheckFinal,
                   ProducerRaises, PutFinal, Stream
    <2>7. QED
        BY <1>2, <2>1, <2>3, <2>4, <2>5, <2>6 DEF IInv
<1>5. QED
    BY <1>3, <1>4

\* The invariant the theorems rest on.
THEOREM Invariance == Spec => []IInv
BY InitHolds, StepHolds, PTL DEF Spec

\* Jobs, producer, queue, consumer and client keep their types, and the queue
\* its size.
THEOREM TypesKept == Spec => []TypeOK
<1>1. IInv => TypeOK
    BY DEF IInv
<1>2. QED
    BY <1>1, Invariance, PTL

\* Nothing of a review goes out that was taken from the queue after the
\* dictionary had changed, however long it waited there.
THEOREM NothingStale == Spec => []StaleNotShown
<1>1. IInv => StaleNotShown
    BY DEF IInv
<1>2. QED
    BY <1>1, Invariance, PTL

\* "verified" means every chunk, for any number of them, and stays true.
THEOREM VerifiedMeansAll == Spec => []VerifiedIsWhole
<1>1. IInv => VerifiedIsWhole
    BY DEF IInv, EventsTrue, EventTrue, VerifiedIsWhole
<1>2. QED
    BY <1>1, Invariance, PTL

\* The final event counts at least what any partial one did, in whatever
\* order the jobs end and their snapshots go out.
THEOREM ProgressIsKept == Spec => []FinalKeepsProgress
<1>1. IInv => FinalKeepsProgress
    BY DEF IInv, EventsTrue, EventTrue, FinalKeepsProgress, TypeOK
<1>2. QED
    BY <1>1, Invariance, PTL

----------------------------------------------------------------------------
(* THE RULES.  First, induction.                                            *)

LEMMA LessThanIsWellFounded == IsWellFoundedOn({ss \in Nat \X Nat : ss[1] < ss[2]}, Nat)
  BY NatLessThanWellFounded DEF OpToRel

\* A set of natural numbers has a least element,
LEMMA Least ==
    ASSUME NEW S \in SUBSET Nat, S # {}
    PROVE  Smallest(S) \in S /\ \A y \in S : Smallest(S) <= y
<1> DEFINE R == {ss \in Nat \X Nat : ss[1] < ss[2]}
<1>1. IsWellFoundedOn(R, Nat) /\ S \subseteq Nat
  BY LessThanIsWellFounded
<1>2. PICK x \in S : \A y \in S : ~ (<<y, x>> \in R)
  <2> HIDE DEF R
  <2> QED BY <1>1, WFMin
<1>3. \A y \in S : x <= y
  <2> SUFFICES ASSUME NEW y \in S, ~(x <= y) PROVE FALSE
    OBVIOUS
  <2>1. x \in Nat /\ y \in Nat /\ y < x
    OBVIOUS
  <2>2. <<y, x>> \in R
    BY <2>1
  <2>3. QED BY <1>2, <2>2
<1>4. QED BY <1>3 DEF Smallest

LEMMA SetInduction ==
    ASSUME NEW S, 0 \in S, \A n \in Nat : n \in S => n + 1 \in S
    PROVE  Nat \subseteq S
<1> SUFFICES ASSUME Nat \ S # {} PROVE FALSE
  OBVIOUS
<1>1. PICK x \in Nat \ S : \A y \in Nat \ S : x <= y
  BY Least
<1>2. QED BY <1>1

\* and a bounded one a greatest.
LEMMA Greatest ==
    ASSUME NEW S \in SUBSET Nat, S # {}, NEW b \in Nat, \A x \in S : x <= b
    PROVE  Largest(S) \in S /\ \A y \in S : y <= Largest(S)
<1> DEFINE T == {b - x : x \in S}
<1>1. T \in SUBSET Nat /\ T # {}
  <2>1. \A x \in S : b - x \in Nat
    OBVIOUS
  <2>2. QED BY <2>1
<1>2. PICK d \in T : \A e \in T : d <= e
  BY <1>1, Least
<1>3. PICK x \in S : d = b - x
  OBVIOUS
<1>4. \A y \in S : y <= x
  BY <1>2, <1>3
<1>5. QED BY <1>4 DEF Largest

LEMMA OutputsRecurs ==
    ASSUME NEW values, Len(values) \in Nat
    PROVE  /\ Outputs(values)[0] = << >>
           /\ \A i \in 1..Len(values) :
                 Outputs(values)[i] = Extended(Outputs(values)[i - 1], values[i])
<1> DEFINE n == Len(values)
           Up(m, f) == f = [i \in 0..m |-> IF i = 0 THEN << >> ELSE Extended(f[i - 1], values[i])]
           S == {m \in Nat : \E f : Up(m, f)}
<1>1. 0 \in S
  <2>1. Up(0, [i \in 0..0 |-> << >>])
    OBVIOUS
  <2>2. QED BY <2>1
<1>2. ASSUME NEW m \in Nat, m \in S PROVE m + 1 \in S
  <2>1. PICK f : Up(m, f)
    BY <1>2
  <2> DEFINE g == [i \in 0..(m + 1) |-> IF i = m + 1 THEN Extended(f[m], values[i]) ELSE f[i]]
  <2>2. Up(m + 1, g)
    BY <2>1
  <2> HIDE DEF Up, g
  <2>3. QED BY <2>2
<1>3. \E f : Up(n, f)
  <2> HIDE DEF Up
  <2>1. Nat \subseteq S
    BY <1>1, <1>2, SetInduction
  <2>2. QED BY <2>1
<1>4. Up(n, Outputs(values))
  BY <1>3 DEF Outputs
<1> DEFINE g == Outputs(values)
<1>5. Up(n, g) /\ n \in Nat
  BY <1>4
<1> HIDE DEF g, n
<1>6. g[0] = << >> /\ \A i \in 1..n : g[i] = Extended(g[i - 1], values[i])
  BY <1>5
<1>7. QED BY <1>6 DEF g, n

LEMMA Upward ==
    ASSUME NEW n \in Nat, NEW S, 0 \in S, \A i \in 1..n : i - 1 \in S => i \in S
    PROVE  0..n \subseteq S
<1> DEFINE T == {i \in Nat : i <= n => i \in S}
<1>1. 0 \in T
  OBVIOUS
<1>2. ASSUME NEW i \in Nat, i \in T PROVE i + 1 \in T
  <2>1. CASE i + 1 <= n
    <3>1. i \in S /\ i + 1 \in 1..n /\ (i + 1) - 1 = i
      BY <1>2, <2>1
    <3>2. i + 1 \in S
      BY <3>1
    <3>3. QED BY <3>2
  <2>2. CASE ~(i + 1 <= n)
    BY <2>2
  <2>3. QED BY <2>1, <2>2
<1>3. Nat \subseteq T
  <2> HIDE DEF T
  <2>1. QED BY <1>1, <1>2, SetInduction
<1>4. QED BY <1>3

LEMMA Downward ==
    ASSUME NEW a \in Nat, NEW b \in Nat, NEW S,
           \A i \in a..b : (\A j \in (i + 1)..b : j \in S) => i \in S
    PROVE  a..b \subseteq S
<1> SUFFICES ASSUME (a..b) \ S # {} PROVE FALSE
  OBVIOUS
<1> DEFINE T == (a..b) \ S
<1>1. PICK x \in T : \A y \in T : y <= x
  <2>1. T \in SUBSET Nat /\ T # {} /\ \A y \in T : y <= b
    OBVIOUS
  <2> HIDE DEF T
  <2>2. QED BY <2>1, Greatest
<1>2. \A j \in (x + 1)..b : j \in S
  <2> SUFFICES ASSUME NEW j \in (x + 1)..b, j \notin S PROVE FALSE
    OBVIOUS
  <2>1. j \in a..b /\ x < j
    OBVIOUS
  <2>2. j <= x
    BY <1>1, <2>1
  <2>3. QED BY <2>1, <2>2
<1>3. QED BY <1>2

----------------------------------------------------------------------------
(* Sequences. *)

LEMMA Concat ==
    ASSUME NEW T, NEW a \in Seq(T), NEW c \in Seq(T)
    PROVE  /\ Len(a) \in Nat /\ Len(c) \in Nat
           /\ a \o c \in Seq(T) /\ Len(a \o c) = Len(a) + Len(c)
           /\ \A k \in 1..Len(a) : (a \o c)[k] = a[k]
           /\ \A k \in 1..Len(c) : (a \o c)[Len(a) + k] = c[k]
<1>1. a \o c \in Seq(T) /\ Len(a) \in Nat /\ Len(c) \in Nat
  OBVIOUS
<1>2. Len(a \o c) = Len(a) + Len(c)
  BY <1>1
<1>3. \A k \in 1..Len(a) : (a \o c)[k] = a[k]
  OBVIOUS
<1>4. ASSUME NEW k \in 1..Len(c) PROVE (a \o c)[Len(a) + k] = c[k]
  OBVIOUS
<1>5. QED BY <1>1, <1>2, <1>3, <1>4

LEMMA One ==
    ASSUME NEW T, NEW x \in T
    PROVE  <<x>> \in Seq(T) /\ Len(<<x>>) = 1 /\ <<x>>[1] = x
  OBVIOUS

LEMMA Same ==
    ASSUME NEW T, NEW a \in Seq(T), NEW b \in Seq(T), Len(a) = Len(b),
           \A k \in 1..Len(a) : a[k] = b[k]
    PROVE  a = b
  OBVIOUS

LEMMA Sub ==
    ASSUME NEW T, NEW s \in Seq(T), NEW a \in Nat, NEW b \in Nat, a <= b, b <= Len(s)
    PROVE  /\ SubSeq(s, a + 1, b) \in Seq(T) /\ Len(SubSeq(s, a + 1, b)) = b - a
           /\ \A k \in 1..(b - a) : SubSeq(s, a + 1, b)[k] = s[a + k]
  OBVIOUS

LEMMA Appended ==
    ASSUME NEW T, NEW s \in Seq(T), NEW x \in T
    PROVE  /\ Append(s, x) \in Seq(T) /\ Len(Append(s, x)) = Len(s) + 1 /\ Len(s) \in Nat
           /\ \A i \in 1..Len(s) : Append(s, x)[i] = s[i]
           /\ Append(s, x)[Len(s) + 1] = x
  OBVIOUS

----------------------------------------------------------------------------
(* Outputs. *)

\* Two pieces of an output with a space between them.
LEMMA Spaced ==
    ASSUME NEW a \in Seq(Letter), NEW v \in Seq(Letter)
    PROVE  /\ Len(a) \in Nat /\ Len(v) \in Nat
           /\ a \o <<" ">> \o v \in Seq(Letter)
           /\ Len(a \o <<" ">> \o v) = Len(a) + 1 + Len(v)
           /\ \A k \in 1..Len(a) : (a \o <<" ">> \o v)[k] = a[k]
           /\ \A k \in 1..Len(v) : (a \o <<" ">> \o v)[Len(a) + 1 + k] = v[k]
<1> DEFINE c == <<" ">>
           d == a \o c
           e == d \o v
<1>1. c \in Seq(Letter) /\ Len(c) = 1
  <2>1. " " \in Letter
    BY DEF Letter
  <2>2. QED BY <2>1, One
<1> HIDE DEF c
<1>2. /\ Len(a) \in Nat /\ d \in Seq(Letter) /\ Len(d) = Len(a) + Len(c)
      /\ \A k \in 1..Len(a) : d[k] = a[k]
  <2>1. c \in Seq(Letter)
    BY <1>1
  <2>2. QED BY <2>1, Concat
<1> HIDE DEF d
<1>3. /\ Len(v) \in Nat /\ e \in Seq(Letter) /\ Len(e) = Len(d) + Len(v)
      /\ \A k \in 1..Len(d) : e[k] = d[k]
      /\ \A k \in 1..Len(v) : e[Len(d) + k] = v[k]
  <2>1. d \in Seq(Letter)
    BY <1>2
  <2>2. QED BY <2>1, Concat
<1> HIDE DEF e
<1>4. /\ Len(e) = Len(a) + 1 + Len(v)
      /\ \A k \in 1..Len(a) : e[k] = a[k]
      /\ \A k \in 1..Len(v) : e[Len(a) + 1 + k] = v[k]
  BY <1>1, <1>2, <1>3
<1>5. QED BY <1>2, <1>3, <1>4 DEF c, d, e

LEMMA ExtendedTyped ==
    ASSUME NEW out \in Seq(Letter), NEW value \in Seq(Letter)
    PROVE  /\ Extended(out, value) \in Seq(Letter)
           /\ Len(out) <= Len(Extended(out, value))
           /\ \A k \in 1..Len(out) : Extended(out, value)[k] = out[k]
           /\ Len(value) <= Len(Extended(out, value))
           /\ value # << >> =>
                \A k \in 1..Len(value) :
                   Extended(out, value)[Len(Extended(out, value)) - Len(value) + k] = value[k]
<1>1. CASE value = << >>
  BY <1>1 DEF Extended
<1>2. CASE value # << >> /\ out = << >>
  BY <1>2 DEF Extended
<1>3. CASE value # << >> /\ out # << >>
  <2> DEFINE b == out \o <<" ">> \o value
  <2>1. Extended(out, value) = b
    BY <1>3 DEF Extended
  <2>2. /\ Len(out) \in Nat /\ Len(value) \in Nat /\ b \in Seq(Letter)
        /\ Len(b) = Len(out) + 1 + Len(value)
        /\ \A k \in 1..Len(out) : b[k] = out[k]
        /\ \A k \in 1..Len(value) : b[Len(out) + 1 + k] = value[k]
    BY Spaced
  <2> HIDE DEF b
  <2>3. Len(b) - Len(value) = Len(out) + 1 /\ Len(out) <= Len(b) /\ Len(value) <= Len(b)
    BY <2>2
  <2>4. QED BY <2>1, <2>2, <2>3
<1>4. QED BY <1>1, <1>2, <1>3

LEMMA OutputsGrow ==
    ASSUME NEW values \in Seq(Seq(Letter))
    PROVE  /\ \A i \in 0..Len(values) : Outputs(values)[i] \in Seq(Letter)
           /\ Outputs(values)[0] = << >>
           /\ \A i \in 1..Len(values) :
                 Outputs(values)[i] = Extended(Outputs(values)[i - 1], values[i])
<1> DEFINE f == Outputs(values)
           n == Len(values)
           S == {i \in 0..n : f[i] \in Seq(Letter)}
<1>1. /\ n \in Nat /\ f[0] = << >>
      /\ \A i \in 1..n : f[i] = Extended(f[i - 1], values[i])
      /\ \A i \in 1..n : values[i] \in Seq(Letter)
  BY OutputsRecurs
<1> HIDE DEF f, n
<1>2. 0 \in S
  <2>1. << >> \in Seq(Letter)
    BY EmptySeq
  <2>2. f[0] \in Seq(Letter)
    BY <1>1, <2>1
  <2>3. 0 \in 0..n
    BY <1>1
  <2>4. QED BY <2>2, <2>3
<1>3. \A i \in 1..n : i - 1 \in S => i \in S
  BY <1>1, ExtendedTyped
<1>4. 0..n \subseteq S
  <2> HIDE DEF S
  <2>1. QED BY <1>1, <1>2, <1>3, Upward
<1>5. QED BY <1>1, <1>4 DEF f, n

\* What is joined stays where it is when more values come.
LEMMA OutputsArePrefixes ==
    ASSUME NEW values \in Seq(Seq(Letter)), NEW i \in 0..Len(values)
    PROVE  \A j \in i..Len(values) :
              /\ Len(Outputs(values)[i]) <= Len(Outputs(values)[j])
              /\ \A k \in 1..Len(Outputs(values)[i]) :
                    Outputs(values)[j][k] = Outputs(values)[i][k]
<1> DEFINE f == Outputs(values)
           S == {d \in Nat : i + d <= Len(values) =>
                    /\ Len(f[i]) <= Len(f[i + d])
                    /\ \A k \in 1..Len(f[i]) : f[i + d][k] = f[i][k]}
<1>0. Len(values) \in Nat
  OBVIOUS
<1>1. /\ \A j \in 0..Len(values) : f[j] \in Seq(Letter)
      /\ \A j \in 1..Len(values) : f[j] = Extended(f[j - 1], values[j])
  BY OutputsGrow
<1> HIDE DEF f
<1>2. 0 \in S
  BY <1>1
<1>3. ASSUME NEW d \in Nat, d \in S PROVE d + 1 \in S
  <2> SUFFICES ASSUME i + (d + 1) <= Len(values)
               PROVE  /\ Len(f[i]) <= Len(f[i + (d + 1)])
                      /\ \A k \in 1..Len(f[i]) : f[i + (d + 1)][k] = f[i][k]
    OBVIOUS
  <2>1. /\ i + d \in 0..Len(values) /\ i + (d + 1) \in 1..Len(values)
        /\ (i + (d + 1)) - 1 = i + d
    OBVIOUS
  <2>2. f[i + (d + 1)] = Extended(f[i + d], values[i + (d + 1)])
    BY <1>1, <2>1
  <2>3. /\ f[i + d] \in Seq(Letter) /\ f[i] \in Seq(Letter) /\ f[i + (d + 1)] \in Seq(Letter)
        /\ values[i + (d + 1)] \in Seq(Letter)
    BY <1>1, <2>1
  <2>4. /\ Len(f[i + d]) <= Len(f[i + (d + 1)])
        /\ \A k \in 1..Len(f[i + d]) : f[i + (d + 1)][k] = f[i + d][k]
    <3> DEFINE old == f[i + d]
               new == f[i + (d + 1)]
               value == values[i + (d + 1)]
    <3>1. new = Extended(old, value) /\ old \in Seq(Letter) /\ value \in Seq(Letter)
      BY <2>2, <2>3
    <3> HIDE DEF old, new, value
    <3>2. Len(old) <= Len(new) /\ \A k \in 1..Len(old) : new[k] = old[k]
      BY <3>1, ExtendedTyped
    <3>3. QED BY <3>2 DEF old, new
  <2>5. Len(f[i]) <= Len(f[i + d]) /\ \A k \in 1..Len(f[i]) : f[i + d][k] = f[i][k]
    BY <1>3, <2>1
  <2>6. Len(f[i]) \in Nat /\ Len(f[i + d]) \in Nat /\ Len(f[i + (d + 1)]) \in Nat
    BY <2>3
  <2> DEFINE first == f[i]
             old == f[i + d]
             new == f[i + (d + 1)]
  <2>71. /\ Len(first) <= Len(old) /\ Len(old) <= Len(new)
         /\ Len(first) \in Nat /\ Len(old) \in Nat /\ Len(new) \in Nat
         /\ \A k \in 1..Len(first) : old[k] = first[k]
         /\ \A k \in 1..Len(old) : new[k] = old[k]
    BY <2>4, <2>5, <2>6
  <2> HIDE DEF first, old, new
  <2>7. Len(first) <= Len(new) /\ \A k \in 1..Len(first) : new[k] = first[k]
    BY <2>71
  <2>8. QED BY <2>7 DEF first, new
<1>4. Nat \subseteq S
  <2> HIDE DEF S
  <2>1. QED BY <1>2, <1>3, SetInduction
<1>5. ASSUME NEW j \in i..Len(values)
      PROVE  Len(f[i]) <= Len(f[j]) /\ \A k \in 1..Len(f[i]) : f[j][k] = f[i][k]
  <2>1. j - i \in Nat /\ i + (j - i) = j /\ j <= Len(values)
    BY <1>0
  <2>2. j - i \in S
    BY <1>4, <2>1
  <2>3. QED BY <2>1, <2>2
<1>6. QED BY <1>5 DEF f

\* The spans of an output say where in it their letters are.
Fit(out, spans) ==
    \A s \in spans : /\ s \in Nat \X Nat \X Seq(Letter)
                     /\ s[1] <= s[2] /\ s[2] <= Len(out)
                     /\ SubSeq(out, s[1] + 1, s[2]) = s[3]

LEMMA SpansOfFit ==
    ASSUME NEW t, NEW values \in Seq(Seq(Letter)), Len(t) = Len(values)
    PROVE  Join(values) \in Seq(Letter) /\ Fit(Join(values), SpansOf(t, values))
<1> DEFINE f == Outputs(values)
           n == Len(values)
<1>1. /\ \A j \in 0..n : f[j] \in Seq(Letter)
      /\ \A j \in 1..n : f[j] = Extended(f[j - 1], values[j])
      /\ \A j \in 1..n : j - 1 \in 0..n /\ values[j] \in Seq(Letter)
  BY OutputsGrow
<1>2. Join(values) = f[n] /\ n \in 0..n /\ n \in Nat
  BY DEF Join
<1>3. ASSUME NEW j \in 1..n
      PROVE  Len(f[j]) <= Len(f[n]) /\ \A k \in 1..Len(f[j]) : f[n][k] = f[j][k]
  <2>1. j \in 0..Len(values) /\ n \in j..Len(values)
    BY <1>2
  <2>2. QED BY <2>1, OutputsArePrefixes
<1>4. SUFFICES ASSUME NEW j \in 1..n, values[j] # << >>
               PROVE  /\ Len(f[j]) - Len(values[j]) \in Nat /\ Len(f[j]) \in Nat
                      /\ values[j] \in Seq(Letter)
                      /\ Len(f[j]) - Len(values[j]) <= Len(f[j]) /\ Len(f[j]) <= Len(f[n])
                      /\ SubSeq(f[n], Len(f[j]) - Len(values[j]) + 1, Len(f[j])) = values[j]
  <2>1. Join(values) \in Seq(Letter)
    BY <1>1, <1>2
  <2> SUFFICES ASSUME NEW s \in SpansOf(t, values)
               PROVE  /\ s \in Nat \X Nat \X Seq(Letter)
                      /\ s[1] <= s[2] /\ s[2] <= Len(f[n])
                      /\ SubSeq(f[n], s[1] + 1, s[2]) = s[3]
    BY <1>2, <2>1 DEF Fit
  <2>2. PICK j \in 1..n : /\ values[j] # << >>
                          /\ s = <<Len(f[j]) - Len(values[j]), Len(f[j]), values[j]>>
    BY DEF SpansOf
  <2> HIDE DEF f, n
  <2>3. /\ Len(f[j]) - Len(values[j]) \in Nat /\ Len(f[j]) \in Nat
        /\ values[j] \in Seq(Letter)
        /\ Len(f[j]) - Len(values[j]) <= Len(f[j]) /\ Len(f[j]) <= Len(f[n])
        /\ SubSeq(f[n], Len(f[j]) - Len(values[j]) + 1, Len(f[j])) = values[j]
    BY <2>2
  <2>4. QED BY <2>2, <2>3
<1> DEFINE v == values[j]
           old == f[j - 1]
           out == f[j]
           all == f[n]
           a == Len(out) - Len(v)
<1>5. v \in Seq(Letter) /\ old \in Seq(Letter) /\ out \in Seq(Letter) /\ all \in Seq(Letter)
  BY <1>1, <1>2
<1>6. out = Extended(old, v) /\ v # << >>
  BY <1>1, <1>4
<1>7. Len(out) <= Len(all) /\ \A k \in 1..Len(out) : all[k] = out[k]
  BY <1>3
<1> SUFFICES /\ a \in Nat /\ Len(out) \in Nat /\ a <= Len(out) /\ Len(out) <= Len(all)
             /\ SubSeq(all, a + 1, Len(out)) = v
  BY <1>5
<1> HIDE DEF f, n, v, old, out, all
<1>8. Len(v) <= Len(out) /\ \A k \in 1..Len(v) : out[a + k] = v[k]
  <2> DEFINE e == Extended(old, v)
  <2>1. Len(v) <= Len(e) /\ \A k \in 1..Len(v) : e[Len(e) - Len(v) + k] = v[k]
    BY <1>5, <1>6, ExtendedTyped
  <2>2. e = out
    BY <1>6
  <2> HIDE DEF e
  <2>3. QED BY <2>1, <2>2
<1>9. Len(v) \in Nat /\ Len(out) \in Nat /\ Len(all) \in Nat
  BY <1>5
<1>10. a \in Nat /\ a <= Len(out) /\ Len(out) - a = Len(v)
  BY <1>8, <1>9
<1> HIDE DEF a
<1> DEFINE z == SubSeq(all, a + 1, Len(out))
<1>11. z \in Seq(Letter) /\ Len(z) = Len(v) /\ \A k \in 1..Len(v) : z[k] = all[a + k]
  <2>1. /\ z \in Seq(Letter) /\ Len(z) = Len(out) - a
        /\ \A k \in 1..(Len(out) - a) : z[k] = all[a + k]
    BY <1>5, <1>7, <1>9, <1>10, Sub
  <2>2. QED BY <1>10, <2>1
<1> HIDE DEF z
<1>12. ASSUME NEW k \in 1..Len(v) PROVE z[k] = v[k]
  <2>1. a + k \in 1..Len(out)
    BY <1>9, <1>10
  <2>2. QED BY <1>7, <1>8, <1>11, <2>1
<1>13. z = v
  BY <1>5, <1>11, <1>12, Same
<1>14. QED BY <1>7, <1>9, <1>10, <1>13 DEF z

----------------------------------------------------------------------------
(* Phrases. *)

LEMMA LongestIsPhrase ==
    ASSUME NEW table, NEW max, NEW s, Len(s) \in Nat, NEW i \in 1..Len(s)
    PROVE  LET e == Longest(table, max, s, i)
           IN  e = i - 1 \/ (e \in i..Len(s) /\ SubSeq(s, i, e) \in table)
<1> DEFINE S == {e \in i..Len(s) : e - i < max /\ SubSeq(s, i, e) \in table}
<1>1. CASE S = {}
  BY <1>1 DEF Longest
<1>2. CASE S # {}
  <2>1. S \in SUBSET Nat /\ \A x \in S : x <= Len(s)
    OBVIOUS
  <2>2. Largest(S) \in S
    <3> HIDE DEF S
    <3>1. QED BY <1>2, <2>1, Greatest
  <2>3. Longest(table, max, s, i) = Largest(S)
    BY <1>2 DEF Longest
  <2>4. QED BY <2>2, <2>3
<1>3. QED BY <1>1, <1>2

\* The places in s of phrases of the table.
Found(table, s) ==
    {p \in (1..Len(s)) \X (1..Len(s)) : p[1] <= p[2] /\ SubSeq(s, p[1], p[2]) \in table}

\* Scan is a function that recurs towards the end of s.
Scans(f, table, max, s) ==
    /\ Scan(table, max, s) = f[1] /\ f[Len(s) + 1] = << >>
    /\ \A i \in 1..Len(s) :
          LET e == Longest(table, max, s, i)
          IN  f[i] = IF e < i THEN f[i + 1] ELSE <<<<i, e>>>> \o f[e + 1]

LEMMA ScanRecurs ==
    ASSUME NEW table, NEW max, NEW s, Len(s) \in Nat
    PROVE  \E f : Scans(f, table, max, s)
<1> DEFINE n == Len(s)
           L(i) == Longest(table, max, s, i)
           E(f, i) == CASE i > n -> << >>
                        [] i <= n /\ L(i) < i -> f[i + 1]
                        [] OTHER -> <<<<i, L(i)>>>> \o f[L(i) + 1]
           Down(k, f) == f = [i \in k..(n + 1) |-> E(f, i)]
           S == {d \in Nat : d <= n => \E f : Down(n + 1 - d, f)}
<1>1. n \in Nat /\ \A i \in 1..n : L(i) = i - 1 \/ L(i) \in i..n
  BY LongestIsPhrase
<1>2. ASSUME NEW f, NEW g, NEW i \in 1..(n + 1), \A j \in (i + 1)..(n + 1) : f[j] = g[j]
      PROVE  E(f, i) = E(g, i)
  <2> HIDE DEF n, L
  <2>1. CASE i > n
    BY <1>1, <2>1
  <2>2. CASE i <= n /\ L(i) < i
    BY <1>1, <1>2, <2>2
  <2>3. CASE i <= n /\ ~(L(i) < i)
    <3>1. L(i) + 1 \in (i + 1)..(n + 1)
      BY <1>1, <2>3
    <3>2. QED BY <1>1, <1>2, <2>3, <3>1
  <2>4. QED BY <1>1, <2>1, <2>2, <2>3
<1>3. 0 \in S
  <2>1. Down(n + 1, [i \in (n + 1)..(n + 1) |-> << >>])
    BY <1>1
  <2>2. n + 1 - 0 = n + 1
    BY <1>1
  <2> HIDE DEF Down, n
  <2>3. QED BY <2>1, <2>2
<1>4. ASSUME NEW d \in Nat, d \in S PROVE d + 1 \in S
  <2> SUFFICES ASSUME d + 1 <= n PROVE \E f : Down(n + 1 - (d + 1), f)
    OBVIOUS
  <2> DEFINE k == n + 1 - (d + 1)
  <2>1. k \in 1..n /\ n + 1 - d = k + 1 /\ d <= n
    BY <1>1
  <2>2. PICK f : Down(k + 1, f)
    <3> HIDE DEF Down, n, k
    <3>1. QED BY <1>4, <2>1
  <2> DEFINE g == [i \in k..(n + 1) |-> IF i = k THEN E(f, k) ELSE f[i]]
  <2> HIDE DEF n, E, k
  <2>3. /\ DOMAIN g = k..(n + 1) /\ g[k] = E(f, k)
        /\ \A i \in (k + 1)..(n + 1) : g[i] = f[i] /\ f[i] = E(f, i)
    <3>1. DOMAIN g = k..(n + 1) /\ g[k] = E(f, k)
      BY <1>1, <2>1
    <3>2. ASSUME NEW i \in (k + 1)..(n + 1) PROVE g[i] = f[i] /\ f[i] = E(f, i)
      <4>1. f[i] = E(f, i)
        BY <2>2
      <4>2. i \in k..(n + 1) /\ i # k
        BY <1>1, <2>1
      <4>3. QED BY <4>1, <4>2
    <3>3. QED BY <3>1, <3>2
  <2>4. ASSUME NEW i \in k..(n + 1) PROVE g[i] = E(g, i)
    <3> HIDE DEF g
    <3>1. i \in 1..(n + 1) /\ \A j \in (i + 1)..(n + 1) : f[j] = g[j]
      BY <1>1, <2>1, <2>3
    <3>2. E(f, i) = E(g, i)
      BY <1>2, <3>1
    <3>3. g[i] = E(f, i)
      BY <1>1, <2>1, <2>3
    <3>4. QED BY <3>2, <3>3
  <2>5. Down(k, g)
    BY <2>3, <2>4
  <2> HIDE DEF Down, g
  <2>6. QED BY <2>5 DEF k
<1>5. \E f : Down(1, f)
  <2> HIDE DEF Down
  <2>1. Nat \subseteq S
    BY <1>3, <1>4, SetInduction
  <2>2. n + 1 - n = 1
    BY <1>1
  <2>3. QED BY <1>1, <2>1, <2>2
<1> DEFINE f == CHOOSE f : Down(1, f)
<1>6. Down(1, f)
  BY <1>5, Zenon
<1>7. Scan(table, max, s) = f[1]
  BY DEF Scan
<1> HIDE DEF f
<1>8. f[n + 1] = << >> /\ \A i \in 1..n : f[i] = IF L(i) < i THEN f[i + 1] ELSE <<<<i, L(i)>>>> \o f[L(i) + 1]
  <2>1. ASSUME NEW i \in 1..(n + 1) PROVE f[i] = E(f, i)
    <3> HIDE DEF E, n
    <3>1. QED BY <1>6
  <2>2. n + 1 \in 1..(n + 1) /\ n + 1 > n
    BY <1>1
  <2> HIDE DEF n, L
  <2>3. f[n + 1] = << >>
    <3>1. f[n + 1] = E(f, n + 1)
      BY <2>1, <2>2
    <3>2. E(f, n + 1) = << >>
      BY <1>1, <2>2
    <3>3. QED BY <3>1, <3>2
  <2>4. ASSUME NEW i \in 1..n
        PROVE  f[i] = IF L(i) < i THEN f[i + 1] ELSE <<<<i, L(i)>>>> \o f[L(i) + 1]
    <3>1. f[i] = E(f, i) /\ i <= n /\ ~(i > n)
      BY <1>1, <2>1
    <3>2. QED BY <3>1
  <2>5. QED BY <2>3, <2>4
<1>9. Scans(f, table, max, s)
  BY <1>7, <1>8 DEF Scans
<1>10. QED BY <1>9

\* What is found from word i on begins there or later.
After(table, s, i) == {p \in Found(table, s) : p[1] >= i}

LEMMA Wider ==
    ASSUME NEW A, NEW B, A \subseteq B, NEW s \in Seq(A)
    PROVE  s \in Seq(B)
  OBVIOUS

LEMMA ScanFinds ==
    ASSUME NEW table, NEW max, NEW s, Len(s) \in Nat, NEW f, Scans(f, table, max, s)
    PROVE  \A i \in 1..(Len(s) + 1) : f[i] \in Seq(After(table, s, i))
<1> DEFINE n == Len(s)
           A(i) == After(table, s, i)
           L(i) == Longest(table, max, s, i)
<1>1. /\ Scan(table, max, s) = f[1] /\ f[n + 1] = << >>
      /\ \A i \in 1..n : f[i] = IF L(i) < i THEN f[i + 1] ELSE <<<<i, L(i)>>>> \o f[L(i) + 1]
  BY DEF Scans
<1>2. n \in Nat /\ \A i \in 1..n : L(i) = i - 1 \/ (L(i) \in i..n /\ <<i, L(i)>> \in A(i))
  BY LongestIsPhrase DEF Found, After
<1>3. \A i \in 1..(n + 1) : \A j \in i..(n + 1) : A(j) \subseteq A(i)
  BY <1>2 DEF After, Found
<1> HIDE DEF n, L, A
<1> DEFINE S == {i \in 1..(n + 1) : f[i] \in Seq(A(i))}
<1>4. ASSUME NEW i \in 1..(n + 1), \A j \in (i + 1)..(n + 1) : j \in S PROVE i \in S
  <2>1. CASE i = n + 1
    BY <1>1, <2>1, EmptySeq
  <2>2. CASE i \in 1..n /\ L(i) < i
    <3>1. i + 1 \in S /\ i + 1 \in i..(n + 1)
      BY <1>2, <1>4, <2>2
    <3>2. f[i] = f[i + 1] /\ A(i + 1) \subseteq A(i)
      BY <1>1, <1>3, <2>2, <3>1
    <3>3. f[i] \in Seq(A(i))
      BY <3>1, <3>2, Wider
    <3>4. QED BY <3>3
  <2>3. CASE i \in 1..n /\ ~(L(i) < i)
    <3> DEFINE e == L(i)
               a == <<<<i, e>>>>
               b == f[e + 1]
    <3>1. e + 1 \in (i + 1)..(n + 1) /\ e + 1 \in i..(n + 1) /\ <<i, e>> \in A(i)
      <4>1. e \in i..n /\ <<i, e>> \in A(i) /\ i \in 1..n
        BY <1>2, <2>3
      <4> HIDE DEF e
      <4>2. QED BY <1>2, <4>1
    <3>2. f[i] = a \o b
      <4>1. f[i] = IF L(i) < i THEN f[i + 1] ELSE <<<<i, L(i)>>>> \o f[L(i) + 1]
        BY <1>1, <2>3
      <4>2. QED BY <2>3, <4>1
    <3> HIDE DEF e
    <3>3. b \in Seq(A(e + 1)) /\ A(e + 1) \subseteq A(i)
      BY <1>3, <1>4, <3>1
    <3>4. a \in Seq(A(i)) /\ b \in Seq(A(i))
      BY <3>1, <3>3, One, Wider
    <3> HIDE DEF a, b
    <3>5. a \o b \in Seq(A(i))
      BY <3>4, Concat
    <3>6. f[i] \in Seq(A(i))
      BY <3>2, <3>5
    <3>7. QED BY <3>6
  <2>4. QED BY <1>2, <2>1, <2>2, <2>3
<1>5. 1..(n + 1) \subseteq S
  <2> HIDE DEF S
  <2>1. n + 1 \in Nat
    BY <1>2
  <2>2. QED BY <1>4, <2>1, Downward
<1>6. QED BY <1>5 DEF n, A

LEMMA ScanFindsPhrases ==
    ASSUME NEW table, NEW max, NEW s, Len(s) \in Nat
    PROVE  ToSet(Scan(table, max, s)) \subseteq Found(table, s)
<1>1. PICK f : Scans(f, table, max, s)
  BY ScanRecurs
<1>2. f[1] \in Seq(After(table, s, 1))
  <2>1. 1 \in 1..(Len(s) + 1)
    OBVIOUS
  <2>2. QED BY <1>1, <2>1, ScanFinds
<1>3. Scan(table, max, s) = f[1]
  BY <1>1 DEF Scans
<1>4. QED BY <1>2, <1>3 DEF ToSet, After

\* WordsOf is a function that recurs from the start of t.
WordsTo(h, t) ==
    /\ WordsOf(t) = h[Len(t)] /\ h[0] = << >>
    /\ \A i \in 1..Len(t) : h[i] = IF t[i] \in Alpha THEN Append(h[i - 1], i) ELSE h[i - 1]

LEMMA WordsOfRecurs ==
    ASSUME NEW t \in Seq(Kinds)
    PROVE  \E h : WordsTo(h, t)
<1> DEFINE n == Len(t)
           E(f, i) == CASE i = 0 -> << >>
                        [] i > 0 /\ t[i] \in Alpha -> Append(f[i - 1], i)
                        [] OTHER -> f[i - 1]
           Up(m, f) == f = [i \in 0..m |-> E(f, i)]
           S == {m \in Nat : \E f : Up(m, f)}
<1>1. n \in Nat
  OBVIOUS
<1>2. 0 \in S
  <2>1. Up(0, [i \in 0..0 |-> << >>])
    OBVIOUS
  <2> HIDE DEF Up
  <2>2. QED BY <2>1
<1>3. ASSUME NEW m \in Nat, m \in S PROVE m + 1 \in S
  <2>1. PICK f : Up(m, f)
    BY <1>3
  <2> DEFINE g == [i \in 0..(m + 1) |-> IF i = m + 1 THEN E(f, m + 1) ELSE f[i]]
  <2>2. ASSUME NEW i \in 0..(m + 1) PROVE g[i] = E(g, i)
    <3>1. g[i] = E(f, i)
      <4> HIDE DEF E
      <4>1. QED BY <2>1
    <3>2. i # 0 => g[i - 1] = f[i - 1]
      <4> HIDE DEF E
      <4>1. QED OBVIOUS
    <3> HIDE DEF g
    <3>3. E(f, i) = E(g, i)
      BY <3>2
    <3>4. QED BY <3>1, <3>3
  <2>3. Up(m + 1, g)
    <3> HIDE DEF E
    <3>1. DOMAIN g = 0..(m + 1) /\ g = [i \in 0..(m + 1) |-> g[i]]
      OBVIOUS
    <3>2. QED BY <2>2, <3>1
  <2> HIDE DEF Up, g
  <2>4. QED BY <2>3
<1>4. \E f : Up(n, f)
  <2> HIDE DEF Up
  <2>1. Nat \subseteq S
    BY <1>2, <1>3, SetInduction
  <2>2. QED BY <1>1, <2>1
<1> DEFINE h == CHOOSE f : Up(n, f)
<1>5. Up(n, h)
  BY <1>4, Zenon
<1>6. WordsOf(t) = h[n]
  BY DEF WordsOf
<1> HIDE DEF h
<1>7. ASSUME NEW i \in 0..n PROVE h[i] = E(h, i)
  <2> HIDE DEF E, n
  <2>1. QED BY <1>5
<1>8. h[0] = << >>
  BY <1>1, <1>7
<1>9. ASSUME NEW i \in 1..n
      PROVE  h[i] = IF t[i] \in Alpha THEN Append(h[i - 1], i) ELSE h[i - 1]
  <2>1. i \in 0..n /\ i \in Nat /\ i > 0
    BY <1>1
  <2>2. h[i] = E(h, i)
    BY <1>7, <2>1
  <2>3. QED BY <2>1, <2>2
<1>10. WordsTo(h, t)
  BY <1>6, <1>8, <1>9 DEF WordsTo
<1>11. QED BY <1>10

LEMMA WordsOfTyped ==
    ASSUME NEW t \in Seq(Kinds)
    PROVE  WordsOf(t) \in Seq({i \in 1..Len(t) : t[i] \in Alpha})
<1> DEFINE n == Len(t)
           W == {i \in 1..Len(t) : t[i] \in Alpha}
<1>1. n \in Nat
  OBVIOUS
<1>2. PICK h : WordsTo(h, t)
  BY WordsOfRecurs
<1> DEFINE T == {i \in 0..n : h[i] \in Seq(W)}
<1>3. /\ WordsOf(t) = h[n] /\ h[0] = << >>
      /\ \A i \in 1..n : h[i] = IF t[i] \in Alpha THEN Append(h[i - 1], i) ELSE h[i - 1]
  BY <1>2 DEF WordsTo
<1>4. \A i \in 1..n : t[i] \in Alpha => i \in W
  OBVIOUS
<1> HIDE DEF W, n
<1>5. 0 \in T
  <2>1. h[0] \in Seq(W)
    BY <1>3, EmptySeq
  <2>2. QED BY <1>1, <2>1
<1>6. ASSUME NEW i \in 1..n, i - 1 \in T PROVE i \in T
  <2> DEFINE before == h[i - 1]
  <2>1. before \in Seq(W) /\ i \in 0..n
    BY <1>1, <1>6
  <2>2. h[i] = IF t[i] \in Alpha THEN Append(before, i) ELSE before
    BY <1>3
  <2> HIDE DEF before
  <2>3. CASE t[i] \in Alpha
    <3>1. Append(before, i) \in Seq(W)
      BY <1>4, <2>1, <2>3, AppendProperties
    <3>2. QED BY <2>1, <2>2, <2>3, <3>1
  <2>4. CASE t[i] \notin Alpha
    BY <2>1, <2>2, <2>4
  <2>5. QED BY <2>3, <2>4
<1>7. 0..n \subseteq T
  <2> HIDE DEF T
  <2>1. QED BY <1>1, <1>5, <1>6, Upward
<1>8. QED BY <1>1, <1>3, <1>7 DEF W

\* A text of words alone is scanned as it stands.
LEMMA WordsOfAll ==
    ASSUME NEW t \in Seq(Kinds), \A i \in 1..Len(t) : t[i] \in Alpha
    PROVE  Len(WordsOf(t)) = Len(t) /\ \A i \in 1..Len(t) : WordsOf(t)[i] = i
<1> DEFINE n == Len(t)
<1>1. n \in Nat
  OBVIOUS
<1>2. PICK h : WordsTo(h, t)
  BY WordsOfRecurs
<1>3. /\ WordsOf(t) = h[n] /\ h[0] = << >>
      /\ \A i \in 1..n : h[i] = Append(h[i - 1], i)
  BY <1>2 DEF WordsTo
<1> DEFINE T == {i \in 0..n : h[i] \in Seq(Nat) /\ Len(h[i]) = i /\ \A k \in 1..i : h[i][k] = k}
<1> HIDE DEF n
<1>4. 0 \in T
  <2>1. h[0] \in Seq(Nat) /\ Len(h[0]) = 0
    BY <1>3, EmptySeq
  <2>2. QED BY <1>1, <2>1
<1>5. ASSUME NEW i \in 1..n, i - 1 \in T PROVE i \in T
  <2> DEFINE before == h[i - 1]
             now == Append(before, i)
             m == i - 1
  <2>1. before \in Seq(Nat) /\ Len(before) = m /\ \A k \in 1..m : before[k] = k
    BY <1>5
  <2>2. i \in Nat /\ m \in Nat /\ m + 1 = i /\ i \in 0..n
    BY <1>1
  <2>3. h[i] = now
    BY <1>3
  <2> HIDE DEF before, m
  <2>4. /\ now \in Seq(Nat) /\ Len(now) = Len(before) + 1
        /\ \A k \in 1..Len(before) : now[k] = before[k]
        /\ now[Len(before) + 1] = i
    BY <2>1, <2>2, Appended
  <2> HIDE DEF now
  <2>5. Len(now) = i /\ \A k \in 1..i : now[k] = k
    BY <2>1, <2>2, <2>4
  <2>6. QED BY <2>2, <2>3, <2>4, <2>5
<1>6. 0..n \subseteq T
  <2> HIDE DEF T
  <2>1. QED BY <1>1, <1>4, <1>5, Upward
<1>7. n \in T
  BY <1>1, <1>6
<1>8. QED BY <1>3, <1>7 DEF n

\* A match stands for a phrase of the index.
LEMMA MatchesTyped ==
    ASSUME NEW t \in Seq(Kinds)
    PROVE  \A m \in Matches(t) : m.first \in 1..Len(t) /\ m.phrase \in Phrases
<1> DEFINE words == WordsOf(t)
           s == [i \in 1..Len(words) |-> t[words[i]]]
<1>1. words \in Seq({i \in 1..Len(t) : t[i] \in Alpha}) /\ Len(words) \in Nat
  BY WordsOfTyped
<1>2. Len(s) = Len(words) /\ \A i \in 1..Len(words) : s[i] = t[words[i]]
  BY <1>1
<1> SUFFICES ASSUME NEW m \in Matches(t)
             PROVE  m.first \in 1..Len(t) /\ m.phrase \in Phrases
  OBVIOUS
<1>0. PICK x \in ToSet(Scan(Phrases, MaxNgram, s)) :
         m = [first |-> words[x[1]], last |-> words[x[2]],
              phrase |-> [i \in 1..(x[2] - x[1] + 1) |-> t[words[x[1] + i - 1]]]]
  BY DEF Matches
<1> DEFINE a == x[1]
           b == x[2]
<1>3. x \in Found(Phrases, s)
  BY <1>1, <1>2, ScanFindsPhrases
<1>4. a \in 1..Len(words) /\ b \in 1..Len(words) /\ a <= b /\ SubSeq(s, a, b) \in Phrases
  BY <1>2, <1>3 DEF Found
<1>5. words[a] \in 1..Len(t)
  BY <1>1, <1>4
<1> HIDE DEF a, b, words
<1>6. SubSeq(s, a, b) = [i \in 1..(b - a + 1) |-> s[a + i - 1]]
  BY <1>2, <1>4
<1>7. \A i \in 1..(b - a + 1) : s[a + i - 1] = t[words[a + i - 1]]
  BY <1>1, <1>2, <1>4
<1>8. [i \in 1..(b - a + 1) |-> t[words[a + i - 1]]] \in Phrases
  BY <1>4, <1>6, <1>7
<1>9. m.first = words[a] /\ m.phrase = [i \in 1..(b - a + 1) |-> t[words[a + i - 1]]]
  BY <1>0 DEF a, b
<1>10. QED BY <1>5, <1>8, <1>9

LEMMA IndexTyped ==
    ASSUME NEW f \in Phrases
    PROVE  Index(f) \in Batches
<1> DEFINE s == Sources[f]
           n == Len(s)
           Up(m, g) == g = [i \in 0..m |-> IF i = 0 THEN "none" ELSE Inserted(g[i - 1], s[i])]
           S == {m \in Nat : \E g : Up(m, g)}
<1>1. s \in Seq(Batches) /\ s # << >>
  BY RulesAssumption
<1>2. n \in Nat /\ n > 0 /\ \A i \in 1..n : s[i] \in Batches
  BY <1>1, EmptySeq
<1>3. 0 \in S
  <2>1. Up(0, [i \in 0..0 |-> "none"])
    OBVIOUS
  <2> HIDE DEF Up
  <2>2. QED BY <2>1
<1>4. ASSUME NEW m \in Nat, m \in S PROVE m + 1 \in S
  <2>1. PICK g : Up(m, g)
    BY <1>4
  <2> DEFINE h == [i \in 0..(m + 1) |-> IF i = m + 1 THEN Inserted(g[m], s[i]) ELSE g[i]]
  <2>2. Up(m + 1, h)
    BY <2>1
  <2> HIDE DEF Up, h
  <2>3. QED BY <2>2
<1>5. \E g : Up(n, g)
  <2> HIDE DEF Up
  <2>1. Nat \subseteq S
    BY <1>3, <1>4, SetInduction
  <2>2. QED BY <1>2, <2>1
<1> DEFINE held == CHOOSE g : Up(n, g)
<1>6. Up(n, held)
  BY <1>5, Zenon
<1>7. Index(f) = held[n]
  BY DEF Index
<1> HIDE DEF held, n, s
<1>8. held[0] = "none" /\ \A i \in 1..n : held[i] = Inserted(held[i - 1], s[i])
  BY <1>2, <1>6
<1> DEFINE T == {i \in 0..n : held[i] \in IF i = 0 THEN {"none"} ELSE Batches}
<1>9. 0 \in T
  BY <1>2, <1>8
<1>10. ASSUME NEW i \in 1..n, i - 1 \in T PROVE i \in T
  <2>1. held[i] \in {s[i], held[i - 1]} /\ (held[i - 1] = "none" => held[i] = s[i])
    BY <1>8 DEF Inserted
  <2>2. held[i - 1] \in Batches \cup {"none"} /\ s[i] \in Batches
    BY <1>2, <1>10
  <2>3. held[i] \in Batches /\ i \in 0..n /\ i # 0
    BY <1>2, <2>1, <2>2
  <2>4. QED BY <2>3
<1>11. 0..n \subseteq T
  <2> HIDE DEF T
  <2>1. QED BY <1>2, <1>9, <1>10, Upward
<1>12. QED BY <1>2, <1>7, <1>11

LEMMA MeaningTyped ==
    ASSUME NEW word \in Kinds, NEW j \in 0..2
    PROVE  Meaning(word, j) \in Seq(Letter) /\ Typed(word) \in Seq(Letter)
<1>1. word \in Letter /\ "~" \in Letter
  BY DEF Letter
<1> DEFINE a == <<word>>
           b == [i \in 1..j |-> "~"]
<1>2. a \in Seq(Letter)
  BY <1>1, One
<1>3. b \in Seq(Letter)
  BY <1>1
<1> HIDE DEF a, b
<1>4. a \o b \in Seq(Letter)
  BY <1>2, <1>3, Concat
<1>5. QED BY <1>2, <1>4 DEF Meaning, Typed, a, b

\* Every place of a text shows letters.
LEMMA ValuesTyped ==
    ASSUME NEW t \in Seq(Kinds), NEW chosen, index \in [Phrases -> Batches]
    PROVE  Values(t, chosen) \in Seq(Seq(Letter)) /\ Len(Values(t, chosen)) = Len(t)
<1> DEFINE matches == Matches(t)
           consumed == Consumed(matches)
           starting(i) == {m \in matches : m.first = i}
           V(i) == IF i \in consumed
                   THEN IF starting(i) = {} THEN << >>
                        ELSE <<index[(CHOOSE m \in starting(i) : TRUE).phrase], "~">>
                   ELSE CASE t[i] = "k" -> Meaning("k", 1)
                          [] t[i] = "m" -> Selected(t, IF FirstM(t, consumed, i) THEN chosen ELSE NoChoice)
                          [] OTHER -> Typed(t[i])
<1>1. Values(t, chosen) = [i \in 1..Len(t) |-> V(i)]
  BY DEF Values
<1>2. ASSUME NEW i \in 1..Len(t) PROVE V(i) \in Seq(Letter)
  <2>1. CASE i \in consumed /\ starting(i) = {}
    BY <2>1, EmptySeq
  <2>2. CASE i \in consumed /\ starting(i) # {}
    <3> DEFINE m == CHOOSE m \in starting(i) : TRUE
    <3>1. m \in matches
      BY <2>2
    <3>2. V(i) = <<index[m.phrase], "~">>
      BY <2>2
    <3> HIDE DEF m
    <3>3. index[m.phrase] \in Letter /\ "~" \in Letter
      BY <3>1, MatchesTyped DEF Letter
    <3> DEFINE x == index[m.phrase]
               y == "~"
    <3>4. x \in Letter /\ y \in Letter
      BY <3>3
    <3>5. V(i) = <<x, y>>
      BY <3>2
    <3> HIDE DEF x, y, V
    <3>6. <<x, y>> \in Seq(Letter)
      BY <3>4
    <3>7. QED BY <3>5, <3>6
  <2>3. CASE i \notin consumed
    <3>1. t[i] \in Kinds /\ "k" \in Kinds /\ "m" \in Kinds
      BY DEF Kinds
    <3>2. ASSUME NEW c PROVE Selected(t, c) \in Seq(Letter)
      <4>1. Meaning("m", 1) \in Seq(Letter) /\ Typed("m") \in Seq(Letter)
        BY <3>1, MeaningTyped
      <4>2. c \in 1..2 => Meaning("m", c) \in Seq(Letter)
        BY <3>1, MeaningTyped
      <4>3. QED BY <4>1, <4>2 DEF Selected
    <3>3. Meaning("k", 1) \in Seq(Letter) /\ Typed(t[i]) \in Seq(Letter)
      BY <3>1, MeaningTyped
    <3>4. QED BY <2>3, <3>2, <3>3
  <2>4. QED BY <2>1, <2>2, <2>3
<1> HIDE DEF V
<1>3. QED BY <1>1, <1>2

----------------------------------------------------------------------------
(* Accents. *)

Accented == {"d0", "d1", "d2"}

\* What the words of a text become: one that lost its accents gets some or none,
\* and every other stays as it was typed.
Kept(typed, given) ==
    /\ Len(given) = Len(typed)
    /\ \A i \in 1..Len(typed) : IF typed[i] = "d0" THEN given[i] \in Accented ELSE given[i] = typed[i]

LEMMA ContextWordsTyped ==
    ASSUME NEW t \in Seq(Kinds), NEW i \in 1..Len(t), ContextWords(t)[i] # "none"
    PROVE  /\ ContextWords(t)[i] \in Kinds
           /\ IF t[i] \in Accented THEN ContextWords(t)[i] \in Accented
              ELSE ContextWords(t)[i] = t[i]
<1> DEFINE f == Folded(t)
           spans == ToSet(Scan(DOMAIN Contexts, Len(t), f))
           at == {x \in spans : x[1] <= i /\ i <= x[2]}
<1>1. Len(t) \in Nat /\ t[i] \in Kinds
  OBVIOUS
<1>2. Len(f) = Len(t) /\ \A j \in 1..Len(t) : f[j] = IF t[j] \in Accented THEN "d" ELSE t[j]
  BY <1>1 DEF Folded, Accented
<1>3. spans \subseteq Found(DOMAIN Contexts, f)
  BY <1>1, <1>2, ScanFindsPhrases
<1> DEFINE x == CHOOSE x \in at : TRUE
<1>4. /\ at # {}
      /\ ContextWords(t)[i] = Contexts[SubSeq(f, x[1], x[2])][i - x[1] + 1]
  BY DEF ContextWords
<1>5. x \in at
  BY <1>4
<1> HIDE DEF x, f, spans
<1> DEFINE a == x[1]
           b == x[2]
           p == SubSeq(f, a, b)
           c == Contexts[p]
           k == i - a + 1
<1>6. a \in 1..Len(t) /\ b \in 1..Len(t) /\ a <= i /\ i <= b /\ p \in DOMAIN Contexts
  BY <1>2, <1>3, <1>5 DEF Found
<1>7. ContextWords(t)[i] = c[k]
  BY <1>4
<1>8. c \in Seq(Kinds) /\ p = Folded(c)
  BY <1>6, RulesAssumption
<1> HIDE DEF a, b
<1>9. k \in 1..(b - a + 1) /\ a + k - 1 = i
  BY <1>1, <1>6
<1>10. Len(p) = b - a + 1 /\ p[k] = f[i]
  <2>1. \A j \in a..b : f[j] \in Kinds \cup {"d"}
    BY <1>1, <1>2, <1>6
  <2>2. a \in Int /\ b \in Int /\ a <= b
    BY <1>1, <1>6
  <2>3. /\ Len(p) = b - a + 1
        /\ \A j \in 1..(b - a + 1) : p[j] = f[a + j - 1]
    BY <2>1, <2>2, SubSeqProperties
  <2> HIDE DEF k, p
  <2>4. QED BY <1>9, <2>3
<1> HIDE DEF p, c, k
<1>11. Len(c) \in Nat /\ Len(p) = Len(c) /\ \A j \in 1..Len(c) : p[j] = IF c[j] \in Accented THEN "d" ELSE c[j]
  BY <1>8 DEF Folded, Accented
<1>12. k \in 1..Len(c) /\ c[k] \in Kinds /\ p[k] = IF c[k] \in Accented THEN "d" ELSE c[k]
  BY <1>8, <1>9, <1>10, <1>11
<1>13. IF t[i] \in Accented THEN f[i] = "d" ELSE f[i] = t[i] /\ f[i] # "d"
  BY <1>1, <1>2 DEF Kinds
<1>14. c[k] # "d"
  BY <1>12 DEF Kinds
<1>15. QED BY <1>7, <1>10, <1>12, <1>13, <1>14

LEMMA KindsBounded ==
    ASSUME NEW F \in [Kinds -> Nat]
    PROVE  \E b \in Nat : \A x \in Kinds : F[x] <= b
<1> DEFINE b == F["p"] + F["q"] + F["k"] + F["m"] + F["u"] + F["w"] + F["d0"] + F["d1"] + F["d2"]
                 + F["#"]
<1>1. \A x \in Kinds : F[x] \in Nat
  OBVIOUS
<1>2. /\ F["p"] \in Nat /\ F["q"] \in Nat /\ F["k"] \in Nat /\ F["m"] \in Nat /\ F["u"] \in Nat
      /\ F["w"] \in Nat /\ F["d0"] \in Nat /\ F["d1"] \in Nat /\ F["d2"] \in Nat /\ F["#"] \in Nat
  BY <1>1 DEF Kinds
<1>3. b \in Nat
  BY <1>2
<1>4. \A x \in Kinds : F[x] <= b
  BY <1>2 DEF Kinds
<1>5. QED BY <1>3, <1>4

LEMMA LargestFrequency ==
    ASSUME NEW F \in [Kinds -> Nat], NEW P \in SUBSET Kinds
    PROVE  Largest({F[x] : x \in P} \cup {0}) \in Nat
<1> DEFINE S == {F[x] : x \in P} \cup {0}
<1>1. PICK b \in Nat : \A x \in Kinds : F[x] <= b
  BY KindsBounded
<1>2. S \in SUBSET Nat /\ S # {} /\ \A y \in S : y <= b
  BY <1>1
<1> HIDE DEF S
<1>3. Largest(S) \in Nat
  BY <1>2, Greatest
<1>4. QED BY <1>3 DEF S

LEMMA CandidatesTyped ==
    ASSUME NEW word \in Kinds
    PROVE  ToSet(Candidates(word)) \subseteq Kinds
<1>1. CASE word = "d0"
  <2>1. ToSet(Candidates(word)) \subseteq {"d0", "d1", "d2"}
    BY <1>1 DEF Candidates, ToSet
  <2>2. QED BY <2>1 DEF Kinds
<1>2. CASE word # "d0"
  BY <1>2 DEF Candidates, ToSet
<1>3. QED BY <1>1, <1>2

LEMMA ScoreTyped ==
    ASSUME NEW t \in Seq(Kinds), NEW over \in [1..Len(t) -> Kinds \cup {"none"}], NEW i \in Int,
           NEW c \in Kinds
    PROVE  Score(t, over, i, c) \in Nat
<1>1. \A j \in Int : Beside(t, over, j) \in SUBSET Kinds
  BY CandidatesTyped DEF Beside
<1> DEFINE F == [x \in Kinds |-> Frequency[<<x, c>>]]
           G == [x \in Kinds |-> Frequency[<<c, x>>]]
           P == Beside(t, over, i - 1)
           R == Beside(t, over, i + 1)
<1>2. F \in [Kinds -> Nat] /\ G \in [Kinds -> Nat] /\ P \in SUBSET Kinds /\ R \in SUBSET Kinds
  BY <1>1, RulesAssumption
<1>3. /\ {Frequency[<<x, c>>] : x \in P} = {F[x] : x \in P}
      /\ {Frequency[<<c, x>>] : x \in R} = {G[x] : x \in R}
  BY <1>2
<1>4. Score(t, over, i, c) = Largest({F[x] : x \in P} \cup {0}) + Largest({G[x] : x \in R} \cup {0})
  BY <1>3 DEF Score
<1> HIDE DEF F, G, P, R
<1>5. /\ Largest({F[x] : x \in P} \cup {0}) \in Nat
      /\ Largest({G[x] : x \in R} \cup {0}) \in Nat
  BY <1>2, LargestFrequency
<1>6. QED BY <1>4, <1>5

LEMMA ScoredTyped ==
    ASSUME NEW t \in Seq(Kinds), NEW over \in [1..Len(t) -> Kinds \cup {"none"}],
           NEW i \in 1..Len(t), t[i] = "d0"
    PROVE  Scored(t, over, i) \in Accented
<1> DEFINE cs == Candidates(t[i])
           score == [j \in 1..Len(cs) |-> Score(t, over, i, cs[j])]
           top == Largest({score[j] : j \in 1..Len(cs)})
           J == {j \in 1..Len(cs) : score[j] = top}
           best == cs[Smallest(J)]
<1>1. Len(cs) = 3 /\ \A j \in 1..3 : cs[j] \in Accented /\ cs[j] \in Kinds
  BY DEF Candidates, Kinds, Accented
<1>2. \A j \in 1..3 : score[j] \in Nat
  BY <1>1, ScoreTyped
<1>3. Scored(t, over, i) \in {t[i], cs[1], best}
  BY DEF Scored
<1> HIDE DEF cs, score
<1>4. top \in {score[j] : j \in 1..3}
  <2> DEFINE S == {score[j] : j \in 1..3}
             b == score[1] + score[2] + score[3]
  <2>1. score[1] \in Nat /\ score[2] \in Nat /\ score[3] \in Nat
    BY <1>2
  <2>2. S \in SUBSET Nat /\ S # {} /\ b \in Nat /\ \A x \in S : x <= b
    <3>1. S = {score[1], score[2], score[3]}
      <4>1. 1..3 = {1, 2, 3}
        OBVIOUS
      <4>2. S = {score[j] : j \in {1, 2, 3}}
        BY <4>1
      <4>3. {score[j] : j \in {1, 2, 3}} = {score[1], score[2], score[3]}
        BY Zenon
      <4>4. QED BY <4>2, <4>3, Zenon
    <3> HIDE DEF S
    <3>2. S \in SUBSET Nat /\ S # {} /\ b \in Nat
      BY <2>1, <3>1
    <3>3. score[1] <= b /\ score[2] <= b /\ score[3] <= b
      BY <2>1
    <3> HIDE DEF b
    <3>4. QED BY <3>1, <3>2, <3>3
  <2> HIDE DEF S, b
  <2>3. Largest(S) \in S
    BY <2>2, Greatest
  <2>4. QED BY <1>1, <2>3 DEF S
<1> HIDE DEF top
<1>5. J \in SUBSET Nat /\ J # {}
  BY <1>1, <1>4
<1>6. Smallest(J) \in 1..3
  <2> HIDE DEF J
  <2>1. Smallest(J) \in J
    BY <1>5, Least
  <2>2. QED BY <1>1, <2>1 DEF J
<1>7. QED BY <1>1, <1>3, <1>6 DEF Accented

LEMMA RestoredKeepsWords ==
    ASSUME NEW t \in Seq(Kinds)
    PROVE  Restored(t) \in Seq(Kinds) /\ Kept(t, Restored(t))
<1> DEFINE over == Overrides(t)
<1>1. Len(t) \in Nat /\ \A i \in 1..Len(t) : t[i] \in Kinds
  OBVIOUS
<1>2. \A i \in 1..Len(t) : over[i] = IF t[i] \in {"d1", "d2"} THEN "none" ELSE ContextWords(t)[i]
  BY DEF Overrides
<1>3. DOMAIN over = 1..Len(t) /\ over = [i \in 1..Len(t) |-> over[i]]
  BY DEF Overrides
<1> HIDE DEF over
<1>4. ASSUME NEW i \in 1..Len(t)
      PROVE  /\ over[i] \in Kinds \cup {"none"}
             /\ over[i] # "none" => IF t[i] = "d0" THEN over[i] \in Accented ELSE over[i] = t[i]
  BY <1>2, ContextWordsTyped DEF Accented
<1>5. over \in [1..Len(t) -> Kinds \cup {"none"}]
  BY <1>3, <1>4
<1> DEFINE R(i) == CASE over[i] # "none" -> over[i]
                     [] over[i] = "none" /\ t[i] = "d0" -> Scored(t, over, i)
                     [] OTHER -> t[i]
<1>6. Restored(t) = [i \in 1..Len(t) |-> R(i)]
  BY DEF Restored, over
<1>7. ASSUME NEW i \in 1..Len(t)
      PROVE  R(i) \in Kinds /\ IF t[i] = "d0" THEN R(i) \in Accented ELSE R(i) = t[i]
  <2>1. CASE over[i] # "none"
    BY <1>4, <2>1
  <2>2. CASE over[i] = "none" /\ t[i] = "d0"
    <3>1. Scored(t, over, i) \in Accented
      BY <1>5, <2>2, ScoredTyped
    <3>2. R(i) = Scored(t, over, i)
      BY <2>2
    <3>3. QED BY <2>2, <3>1, <3>2 DEF Accented, Kinds
  <2>3. CASE over[i] = "none" /\ t[i] # "d0"
    BY <1>1, <2>3
  <2>4. QED BY <2>1, <2>2, <2>3
<1> HIDE DEF R
<1>8. QED BY <1>1, <1>6, <1>7 DEF Kept

----------------------------------------------------------------------------
(* The words for moderation. *)

\* What is written while keys are tried, from a budget of L and the keys K: the
\* budget pays for every key written, and none is in K or written twice.
Paid(a, L, K, T) ==
    /\ a \in [left: Nat, keys: SUBSET T, wrote: Seq(T)]
    /\ a.left + Len(a.wrote) = L /\ K \subseteq a.keys
    /\ \A i \in 1..Len(a.wrote) : a.wrote[i] \in a.keys /\ a.wrote[i] \notin K
    /\ \A i, j \in 1..Len(a.wrote) : a.wrote[i] = a.wrote[j] => i = j

LEMMA SubmitPaid ==
    ASSUME NEW T, NEW L \in Nat, NEW K, NEW a, Paid(a, L, K, T), NEW key \in T
    PROVE  Paid(Submit(a, key), L, K, T)
<1>1. a \in [left: Nat, keys: SUBSET T, wrote: Seq(T)]
  BY DEF Paid
<1>2. CASE key \in a.keys \cup {<< >>}
  BY <1>2 DEF Submit
<1> DEFINE w == Append(a.wrote, key)
<1>3. CASE key \notin a.keys \cup {<< >>} /\ a.left > 0
  <2>1. Submit(a, key) = [a EXCEPT !.left = @ - 1, !.keys = @ \cup {key}, !.wrote = w]
    BY <1>3 DEF Submit
  <2>2. /\ w \in Seq(T) /\ Len(w) = Len(a.wrote) + 1 /\ Len(a.wrote) \in Nat
        /\ \A i \in 1..Len(a.wrote) : w[i] = a.wrote[i]
        /\ w[Len(a.wrote) + 1] = key
    <3> DEFINE wrote == a.wrote
    <3>1. wrote \in Seq(T) /\ key \in T
      BY <1>1
    <3> HIDE DEF wrote
    <3>2. QED BY <3>1, Appended DEF wrote
  <2> HIDE DEF w
  <2> DEFINE b == Submit(a, key)
  <2>3. /\ b \in [left: Nat, keys: SUBSET T, wrote: Seq(T)]
        /\ b.left = a.left - 1 /\ b.keys = a.keys \cup {key} /\ b.wrote = w
    <3> DEFINE left == a.left - 1
               keys == a.keys \cup {key}
    <3>1. left \in Nat /\ keys \in SUBSET T
      BY <1>1, <1>3
    <3>2. b = [a EXCEPT !.left = left, !.keys = keys, !.wrote = w]
      BY <2>1
    <3> HIDE DEF b, left, keys
    <3>3. b = [left |-> left, keys |-> keys, wrote |-> w]
      BY <1>1, <3>2
    <3>4. b \in [left: Nat, keys: SUBSET T, wrote: Seq(T)]
      BY <2>2, <3>1, <3>3
    <3>5. QED BY <3>3, <3>4 DEF left, keys
  <2> HIDE DEF b
  <2>4. b.left + Len(w) = L /\ K \subseteq b.keys
    <3>1. a.left \in Nat /\ a.left + Len(a.wrote) = L /\ K \subseteq a.keys
      BY <1>1 DEF Paid
    <3>2. Len(w) = Len(a.wrote) + 1 /\ Len(a.wrote) \in Nat
      BY <2>2
    <3>3. b.left = a.left - 1 /\ b.keys = a.keys \cup {key}
      BY <2>3
    <3>4. b.left + Len(w) = L
      BY <3>1, <3>2, <3>3
    <3>5. QED BY <3>1, <3>3, <3>4
  <2>5. \A i \in 1..Len(w) : IF i = Len(w) THEN w[i] = key ELSE i \in 1..Len(a.wrote) /\ w[i] = a.wrote[i]
    BY <2>2
  <2>6. \A i \in 1..Len(a.wrote) : a.wrote[i] \in a.keys /\ a.wrote[i] \notin K
    BY DEF Paid
  <2>7. key \notin K /\ key \notin a.keys
    BY <1>3 DEF Paid
  <2>8. \A i \in 1..Len(w) : w[i] \in b.keys /\ w[i] \notin K
    BY <2>3, <2>5, <2>6, <2>7
  <2>9. \A i, j \in 1..Len(a.wrote) : a.wrote[i] = a.wrote[j] => i = j
    BY DEF Paid
  <2>10. \A i, j \in 1..Len(w) : w[i] = w[j] => i = j
    BY <2>5, <2>6, <2>7, <2>9
  <2>11. QED BY <2>3, <2>4, <2>8, <2>10 DEF Paid, b
<1>4. CASE key \notin a.keys \cup {<< >>} /\ ~(a.left > 0)
  <2>1. Submit(a, key) = [a EXCEPT !.keys = @ \cup {key}]
    BY <1>4 DEF Submit
  <2> DEFINE b == Submit(a, key)
  <2>2. /\ b \in [left: Nat, keys: SUBSET T, wrote: Seq(T)]
        /\ b.left = a.left /\ b.keys = a.keys \cup {key} /\ b.wrote = a.wrote
    BY <1>1, <2>1
  <2> HIDE DEF b
  <2>3. QED BY <2>2 DEF Paid, b
<1>5. QED BY <1>2, <1>3, <1>4

LEMMA TriedPaid ==
    ASSUME NEW T, NEW L \in Nat, NEW K \in SUBSET T, NEW ks \in Seq(T)
    PROVE  Paid(Tried([left |-> L, keys |-> K, wrote |-> << >>], ks), L, K, T)
<1> DEFINE a == [left |-> L, keys |-> K, wrote |-> << >>]
           n == Len(ks)
           Up(m, g) == g = [i \in 0..m |-> IF i = 0 THEN a ELSE Submit(g[i - 1], ks[i])]
           S == {m \in Nat : \E g : Up(m, g)}
<1>1. n \in Nat /\ \A i \in 1..n : ks[i] \in T
  OBVIOUS
<1>2. Paid(a, L, K, T)
  <2> DEFINE none == << >>
  <2>1. none \in Seq(T) /\ Len(none) = 0
    BY EmptySeq
  <2>2. a = [left |-> L, keys |-> K, wrote |-> none]
    OBVIOUS
  <2> HIDE DEF none, a
  <2>3. QED BY <2>1, <2>2 DEF Paid
<1> HIDE DEF a
<1>3. 0 \in S
  <2>1. Up(0, [i \in 0..0 |-> a])
    OBVIOUS
  <2> HIDE DEF Up
  <2>2. QED BY <2>1
<1>4. ASSUME NEW m \in Nat, m \in S PROVE m + 1 \in S
  <2>1. PICK g : Up(m, g)
    BY <1>4
  <2> DEFINE h == [i \in 0..(m + 1) |-> IF i = m + 1 THEN Submit(g[m], ks[i]) ELSE g[i]]
  <2>2. Up(m + 1, h)
    BY <2>1
  <2> HIDE DEF Up, h
  <2>3. QED BY <2>2
<1>5. \E g : Up(n, g)
  <2> HIDE DEF Up
  <2>1. Nat \subseteq S
    BY <1>3, <1>4, SetInduction
  <2>2. QED BY <1>1, <2>1
<1> DEFINE after == CHOOSE g : Up(n, g)
<1>6. Up(n, after)
  BY <1>5, Zenon
<1>7. Tried(a, ks) = after[n]
  BY DEF Tried
<1> HIDE DEF after, n
<1>8. after[0] = a /\ \A i \in 1..n : after[i] = Submit(after[i - 1], ks[i])
  BY <1>1, <1>6
<1> DEFINE U == {i \in 0..n : Paid(after[i], L, K, T)}
<1>9. 0 \in U
  BY <1>1, <1>2, <1>8
<1>10. ASSUME NEW i \in 1..n, i - 1 \in U PROVE i \in U
  <2>1. Paid(after[i - 1], L, K, T) /\ ks[i] \in T /\ i \in 0..n
    BY <1>1, <1>10
  <2>2. Paid(Submit(after[i - 1], ks[i]), L, K, T)
    BY <2>1, SubmitPaid
  <2>3. QED BY <1>8, <2>1, <2>2
<1>11. 0..n \subseteq U
  <2> HIDE DEF U
  <2>1. QED BY <1>1, <1>9, <1>10, Upward
<1>12. QED BY <1>1, <1>7, <1>11 DEF a

LEMMA RunTyped ==
    ASSUME NEW t \in Seq(Kinds), NEW consumed, NEW i \in 1..Len(t)
    PROVE  Run(t, consumed, i) \in Seq(Kinds)
<1> DEFINE free == {j \in 1..Len(t) : t[j] \in Alpha /\ j \notin consumed}
           L == {j \in free : j >= i /\ j + 1 \notin free}
<1>1. Len(t) \in Nat /\ << >> \in Seq(Kinds)
  OBVIOUS
<1>2. CASE i \in free /\ i - 1 \notin free
  <2>1. free \in SUBSET Nat /\ \A x \in free : x <= Len(t)
    BY <1>1
  <2>2. L # {}
    <3> DEFINE M == {j \in i..Len(t) : \A k \in i..j : k \in free}
    <3>1. M \in SUBSET Nat /\ M # {} /\ \A x \in M : x <= Len(t)
      <4>1. i \in M
        BY <1>2
      <4>2. QED BY <1>1, <4>1
    <3>2. PICK j \in M : \A y \in M : y <= j
      <4> HIDE DEF M
      <4>1. QED BY <1>1, <3>1, Greatest
    <3>3. j \in free /\ j >= i /\ j \in Nat /\ j \in i..Len(t) /\ \A k \in i..j : k \in free
      BY <3>1
    <3>4. j + 1 \notin free
      <4> SUFFICES ASSUME j + 1 \in free PROVE FALSE
        OBVIOUS
      <4>1. j + 1 <= Len(t)
        BY <2>1
      <4> HIDE DEF free
      <4>2. j + 1 \in i..Len(t) /\ \A k \in i..(j + 1) : k \in free
        BY <1>1, <3>3, <4>1
      <4>3. j + 1 \in M
        BY <4>2
      <4>4. QED BY <3>2, <3>3, <4>3
    <3>5. QED BY <3>3, <3>4
  <2> DEFINE last == Smallest(L)
  <2>3. last \in L
    <3>1. L \in SUBSET Nat
      BY <2>1
    <3> HIDE DEF L
    <3>2. QED BY <2>2, <3>1, Least
  <2>4. last \in i..Len(t)
    BY <1>1, <2>3
  <2>5. Run(t, consumed, i) = SubSeq(t, i, last)
    BY <1>2 DEF Run
  <2> HIDE DEF last
  <2>6. SubSeq(t, i, last) \in Seq(Kinds)
    BY <1>1, <2>4
  <2>7. QED BY <2>5, <2>6
<1>3. CASE ~(i \in free /\ i - 1 \notin free)
  <2>1. Run(t, consumed, i) = << >>
    BY <1>3 DEF Run
  <2>2. QED BY <1>1, <2>1
<1>4. QED BY <1>2, <1>3

LEMMA KeysTyped ==
    ASSUME NEW t \in Seq(Kinds), NEW consumed, NEW open \in BOOLEAN
    PROVE  PhraseKeys(t, consumed) \o WordKeys(t, consumed, open) \in Seq(Seq(Kinds))
<1>1. Len(t) \in Nat /\ << >> \in Seq(Kinds)
  OBVIOUS
<1> DEFINE P(i) == LET run == Run(t, consumed, i)
                   IN  IF Len(run) > 1 /\ ToSet(run) \subseteq Suspects
                       THEN SubSeq(run, 1, Smallest({Len(run), MaxNgram})) ELSE << >>
           W(i) == IF t[i] \in Suspects /\ i \notin consumed /\ ~(open /\ i = Len(t))
                   THEN <<t[i]>> ELSE << >>
<1>2. ASSUME NEW i \in 1..Len(t) PROVE P(i) \in Seq(Kinds)
  <2> DEFINE run == Run(t, consumed, i)
             S == {Len(run), MaxNgram}
             e == Smallest(S)
  <2>1. run \in Seq(Kinds)
    BY RunTyped
  <2>2. P(i) \in {<< >>, SubSeq(run, 1, e)}
    OBVIOUS
  <2> HIDE DEF run
  <2>3. Len(run) \in Nat /\ S \in SUBSET Nat /\ S # {}
    BY <2>1, RulesAssumption
  <2>4. e \in S /\ e <= Len(run)
    <3> HIDE DEF S
    <3>1. e \in S /\ \A y \in S : e <= y
      BY <2>3, Least
    <3>2. QED BY <3>1 DEF S
  <2>5. e \in Nat
    BY <2>3, <2>4
  <2> HIDE DEF e
  <2>6. SubSeq(run, 1, e) \in Seq(Kinds)
    BY <2>1, <2>3, <2>4, <2>5
  <2>7. QED BY <1>1, <2>2, <2>6
<1>3. ASSUME NEW i \in 1..Len(t) PROVE W(i) \in Seq(Kinds)
  <2>1. W(i) \in {<< >>, <<t[i]>>}
    OBVIOUS
  <2>2. <<t[i]>> \in Seq(Kinds)
    <3>1. t[i] \in Kinds
      OBVIOUS
    <3>2. QED BY <3>1, One
  <2>3. QED BY <1>1, <2>1, <2>2
<1>4. /\ PhraseKeys(t, consumed) = [i \in 1..Len(t) |-> P(i)]
      /\ WordKeys(t, consumed, open) = [i \in 1..Len(t) |-> W(i)]
  BY DEF PhraseKeys, WordKeys
<1> HIDE DEF P, W
<1> DEFINE K == Seq(Kinds)
           a == PhraseKeys(t, consumed)
           b == WordKeys(t, consumed, open)
<1>5. (\A i \in 1..Len(t) : P(i) \in K /\ W(i) \in K)
  BY <1>2, <1>3
<1> HIDE DEF K
<1>6. a \in Seq(K) /\ b \in Seq(K)
  BY <1>1, <1>4, <1>5
<1> HIDE DEF a, b
<1>7. a \o b \in Seq(K)
  BY <1>6, Concat
<1>8. QED BY <1>7 DEF a, b, K

----------------------------------------------------------------------------
(* Cutting a text. *)

\* A piece ends behind its first word, in the text, and within the limit.
LEMMA CutEndBounds ==
    ASSUME NEW n \in Nat, NEW ends \in SUBSET Nat, NEW start \in Nat, start < n,
           NEW max \in Nat \ {0}
    PROVE  /\ CutEnd(n, ends, start, max) \in (start + 1)..n
           /\ CutEnd(n, ends, start, max) <= start + max
<1> DEFINE hard == IF start + max < n THEN start + max ELSE n
           half == IF max \div 2 > 1 THEN max \div 2 ELSE 1
           stops == {j \in ends : start + half < j /\ j <= hard}
<1>1. hard \in (start + 1)..n /\ hard <= start + max /\ hard \in Nat
  OBVIOUS
<1>2. half \in Nat /\ half > 0
  OBVIOUS
<1>3. CutEnd(n, ends, start, max) = IF stops = {} THEN hard ELSE Largest(stops)
  BY DEF CutEnd
<1> HIDE DEF hard, half
<1>4. stops # {} => Largest(stops) \in stops
  <2>1. stops \in SUBSET Nat /\ \A x \in stops : x <= hard
    OBVIOUS
  <2> HIDE DEF stops
  <2>2. QED BY <1>1, <2>1, Greatest
<1>5. CASE stops = {}
  BY <1>1, <1>3, <1>5
<1>6. CASE stops # {}
  <2> DEFINE e == Largest(stops)
  <2>1. CutEnd(n, ends, start, max) = e /\ e \in stops
    BY <1>3, <1>4, <1>6
  <2> HIDE DEF e
  <2>2. e \in Nat /\ start + half < e /\ e <= hard
    BY <2>1
  <2>3. QED BY <1>1, <1>2, <2>1, <2>2
<1>7. QED BY <1>5, <1>6

LEMMA SegmentEndBounds ==
    ASSUME NEW r \in Request, r.next > 0, r.next <= Len(r.text)
    PROVE  SegmentEnd(r) \in r.next..Len(r.text)
<1>1. r.next \in Nat /\ Len(r.text) \in Nat /\ r.ends \in SUBSET Nat
  BY DEF Request
<1>2. Target \in Nat \ {0}
  BY RulesAssumption
<1>3. CutEnd(Len(r.text), r.ends, r.next - 1, Target) \in r.next..Len(r.text)
  <2> DEFINE start == r.next - 1
             n == Len(r.text)
             e == CutEnd(n, r.ends, start, Target)
  <2>1. start \in Nat /\ start < n /\ n \in Nat /\ start + 1 = r.next
    BY <1>1
  <2> HIDE DEF start, n
  <2>2. e \in (start + 1)..n
    BY <1>1, <1>2, <2>1, CutEndBounds
  <2>3. QED BY <2>1, <2>2 DEF n, start
<1>4. QED BY <1>1, <1>3 DEF SegmentEnd

\* A chunk ends as a piece does, or with the literal it would cut.
LEMMA ChunkEndBounds ==
    ASSUME NEW n \in Nat, NEW ends \in SUBSET Nat, NEW nl \in SUBSET Nat,
           NEW literal \in Nat \X Nat, literal[2] <= n, NEW pack, NEW start \in Nat, start < n,
           NEW max \in Nat \ {0}
    PROVE  LET e == ChunkEnd(n, ends, nl, literal, pack, start, max)
           IN  /\ e \in (start + 1)..n
               /\ e <= start + max \/ (start + 1 <= literal[2] /\ e = literal[2])
               /\ literal[1] <= e => literal[2] <= e
<1> DEFINE hard == IF start + max < n THEN start + max ELSE n
           breaks == {j \in nl : start < j /\ j < hard}
           split == SplitEnd(n, ends, nl, pack, start, max)
<1>1. hard \in (start + 1)..n /\ hard <= start + max /\ hard \in Nat
  OBVIOUS
<1>2. breaks \in SUBSET Nat /\ \A x \in breaks : x <= hard
  <2>1. breaks \in SUBSET Nat
    OBVIOUS
  <2>2. ASSUME NEW x \in breaks PROVE x <= hard
    <3> HIDE DEF hard
    <3>1. x \in Nat /\ x < hard
      OBVIOUS
    <3>2. QED BY <1>1, <3>1
  <2>3. QED BY <2>1, <2>2
<1>3. \A e \in breaks : e \in (start + 1)..n /\ e <= start + max
  <2> HIDE DEF hard
  <2>1. QED BY <1>1, <1>2
<1>4. breaks # {} => Largest(breaks) \in breaks /\ Smallest(breaks) \in breaks
  <2> HIDE DEF hard, breaks
  <2>1. QED BY <1>1, <1>2, Greatest, Least
<1>5. split \in (start + 1)..n /\ split <= start + max
  <2>1. \/ split = hard
        \/ breaks # {} /\ split \in {Largest(breaks), Smallest(breaks)}
        \/ split = CutEnd(n, ends, start, max)
    BY DEF SplitEnd
  <2> HIDE DEF split, hard, breaks
  <2>2. CASE split = hard
    BY <1>1, <2>2
  <2>3. CASE breaks # {} /\ split \in {Largest(breaks), Smallest(breaks)}
    BY <1>3, <1>4, <2>3
  <2>4. CASE split = CutEnd(n, ends, start, max)
    BY <2>4, CutEndBounds
  <2>5. QED BY <2>1, <2>2, <2>3, <2>4
<1> DEFINE e == ChunkEnd(n, ends, nl, literal, pack, start, max)
<1>6. e = IF literal[1] <= split /\ split < literal[2] THEN literal[2] ELSE split
  BY DEF ChunkEnd
<1>7. literal[1] \in Nat /\ literal[2] \in Nat
  OBVIOUS
<1> HIDE DEF e, split
<1>8. QED BY <1>5, <1>6, <1>7 DEF e

\* Chunked is a function that recurs towards the end of the text.
ChunksAfter(f, n, ends, nl, literal, pack, max) ==
    /\ Chunked(n, ends, nl, literal, pack, max) = f[0] /\ f[n] = << >>
    /\ \A s \in 0..(n - 1) :
          LET e == ChunkEnd(n, ends, nl, literal, pack, s, max)
          IN  f[s] = <<<<s + 1, e>>>> \o f[e]

LEMMA ChunkedRecurs ==
    ASSUME NEW n \in Nat, NEW ends \in SUBSET Nat, NEW nl \in SUBSET Nat,
           NEW literal \in Nat \X Nat, literal[2] <= n, NEW pack, NEW max \in Nat \ {0}, max < n
    PROVE  \E f : ChunksAfter(f, n, ends, nl, literal, pack, max)
<1> DEFINE L(s) == ChunkEnd(n, ends, nl, literal, pack, s, max)
           E(f, s) == IF s = n THEN << >> ELSE <<<<s + 1, L(s)>>>> \o f[L(s)]
           Down(k, f) == f = [s \in k..n |-> E(f, s)]
           S == {d \in Nat : d <= n => \E f : Down(n - d, f)}
<1>1. \A s \in 0..(n - 1) : L(s) \in (s + 1)..n
  BY ChunkEndBounds
<1>2. ASSUME NEW f, NEW g, NEW s \in 0..n, \A j \in (s + 1)..n : f[j] = g[j]
      PROVE  E(f, s) = E(g, s)
  <2> HIDE DEF L
  <2>1. CASE s = n
    BY <2>1
  <2>2. CASE s # n
    <3>1. L(s) \in (s + 1)..n
      BY <1>1, <2>2
    <3>2. QED BY <1>2, <2>2, <3>1
  <2>3. QED BY <2>1, <2>2
<1>3. 0 \in S
  <2>1. Down(n, [s \in n..n |-> << >>])
    OBVIOUS
  <2>2. n - 0 = n
    OBVIOUS
  <2> HIDE DEF Down
  <2>3. QED BY <2>1, <2>2
<1>4. ASSUME NEW d \in Nat, d \in S PROVE d + 1 \in S
  <2> SUFFICES ASSUME d + 1 <= n PROVE \E f : Down(n - (d + 1), f)
    OBVIOUS
  <2> DEFINE k == n - (d + 1)
  <2>1. k \in 0..(n - 1) /\ n - d = k + 1 /\ d <= n
    OBVIOUS
  <2>2. PICK f : Down(k + 1, f)
    <3> HIDE DEF Down, k
    <3>1. QED BY <1>4, <2>1
  <2> DEFINE g == [s \in k..n |-> IF s = k THEN E(f, k) ELSE f[s]]
  <2> HIDE DEF E, k
  <2>3. /\ DOMAIN g = k..n /\ g[k] = E(f, k)
        /\ \A s \in (k + 1)..n : g[s] = f[s] /\ f[s] = E(f, s)
    <3>1. DOMAIN g = k..n /\ g[k] = E(f, k)
      BY <2>1
    <3>2. ASSUME NEW s \in (k + 1)..n PROVE g[s] = f[s] /\ f[s] = E(f, s)
      <4>1. f[s] = E(f, s)
        BY <2>2
      <4>2. s \in k..n /\ s # k
        BY <2>1
      <4>3. QED BY <4>1, <4>2
    <3>3. QED BY <3>1, <3>2
  <2>4. ASSUME NEW s \in k..n PROVE g[s] = E(g, s)
    <3> HIDE DEF g
    <3>1. s \in 0..n /\ \A j \in (s + 1)..n : f[j] = g[j]
      BY <2>1, <2>3
    <3>2. E(f, s) = E(g, s)
      BY <1>2, <3>1
    <3>3. g[s] = E(f, s)
      BY <2>1, <2>3
    <3>4. QED BY <3>2, <3>3
  <2>5. Down(k, g)
    BY <2>3, <2>4
  <2> HIDE DEF Down, g
  <2>6. QED BY <2>5 DEF k
<1>5. \E f : Down(0, f)
  <2> HIDE DEF Down
  <2>1. Nat \subseteq S
    BY <1>3, <1>4, SetInduction
  <2>2. n - n = 0
    OBVIOUS
  <2>3. QED BY <2>1, <2>2
<1> DEFINE f == CHOOSE f : Down(0, f)
<1>6. Down(0, f)
  BY <1>5, Zenon
<1>7. Chunked(n, ends, nl, literal, pack, max) = f[0]
  <2>1. ~(n <= max)
    OBVIOUS
  <2>2. QED BY <2>1 DEF Chunked
<1> HIDE DEF f
<1>8. ASSUME NEW s \in 0..n PROVE f[s] = E(f, s)
  <2> HIDE DEF E
  <2>1. QED BY <1>6
<1>9. f[n] = << >>
  <2>1. n \in 0..n
    OBVIOUS
  <2>2. QED BY <1>8, <2>1
<1>10. ASSUME NEW s \in 0..(n - 1) PROVE f[s] = <<<<s + 1, L(s)>>>> \o f[L(s)]
  <2>1. s \in 0..n /\ s # n
    OBVIOUS
  <2>2. f[s] = E(f, s)
    BY <1>8, <2>1
  <2> HIDE DEF L
  <2>3. QED BY <2>1, <2>2
<1>11. ChunksAfter(f, n, ends, nl, literal, pack, max)
  BY <1>7, <1>9, <1>10 DEF ChunksAfter
<1>12. QED BY <1>11

\* The chunks of the words after word s: in order, without a gap, within the
\* limit but for a literal, which one chunk holds.
Whole(c, s, n, max, literal) ==
    /\ c \in Seq(Nat \X Nat) /\ Len(c) > 0 /\ c[1][1] = s + 1 /\ c[Len(c)][2] = n
    /\ \A i \in 1..(Len(c) - 1) : c[i + 1][1] = c[i][2] + 1
    /\ \A i \in 1..Len(c) : \/ c[i][2] - c[i][1] < max
                            \/ c[i][1] <= literal[2] /\ c[i][2] = literal[2]
    /\ s < literal[1] => \E i \in 1..Len(c) : c[i][1] <= literal[1] /\ literal[2] <= c[i][2]

LEMMA Before ==
    ASSUME NEW T, NEW x \in T, NEW s \in Seq(T)
    PROVE  /\ <<x>> \o s \in Seq(T) /\ Len(s) \in Nat /\ Len(<<x>> \o s) = Len(s) + 1
           /\ (<<x>> \o s)[1] = x
           /\ \A k \in 1..Len(s) : (<<x>> \o s)[k + 1] = s[k]
<1> DEFINE a == <<x>>
<1>1. a \in Seq(T) /\ Len(a) = 1 /\ a[1] = x
  BY One
<1> HIDE DEF a
<1>2. /\ Len(s) \in Nat /\ a \o s \in Seq(T) /\ Len(a \o s) = Len(a) + Len(s)
      /\ \A k \in 1..Len(a) : (a \o s)[k] = a[k]
      /\ \A k \in 1..Len(s) : (a \o s)[Len(a) + k] = s[k]
  <2>1. a \in Seq(T)
    BY <1>1
  <2>2. QED BY ONLY <2>1, s \in Seq(T), Concat
<1> DEFINE c == a \o s
<1>3. Len(s) \in Nat /\ c \in Seq(T) /\ Len(c) = Len(s) + 1
  BY <1>1, <1>2
<1>4. c[1] = x
  BY <1>1, <1>2
<1>5. ASSUME NEW k \in 1..Len(s) PROVE c[k + 1] = s[k]
  <2>1. k + 1 = Len(a) + k
    BY <1>1, <1>2
  <2>2. QED BY <1>2, <2>1
<1>6. QED BY <1>3, <1>4, <1>5 DEF a, c

LEMMA ChunkedWhole ==
    ASSUME NEW n \in Nat \ {0}, NEW ends \in SUBSET Nat, NEW nl \in SUBSET Nat,
           NEW literal \in (1..n) \X (1..n), NEW pack, NEW max \in Nat \ {0}
    PROVE  Whole(Chunked(n, ends, nl, literal, pack, max), 0, n, max, literal)
<1>1. literal[1] \in 1..n /\ literal[2] \in 1..n /\ literal \in Nat \X Nat /\ literal[2] <= n
  OBVIOUS
<1>2. CASE n <= max
  <2> DEFINE x == <<1, n>>
             c == <<x>>
  <2>1. x \in Nat \X Nat /\ x[1] = 1 /\ x[2] = n
    OBVIOUS
  <2>2. Chunked(n, ends, nl, literal, pack, max) = c
    BY <1>2 DEF Chunked
  <2> HIDE DEF x
  <2>3. c \in Seq(Nat \X Nat) /\ Len(c) = 1 /\ c[1] = x
    BY <2>1, One
  <2> HIDE DEF c
  <2>4. Whole(c, 0, n, max, literal)
    BY <1>1, <1>2, <2>1, <2>3 DEF Whole
  <2>5. QED BY <2>2, <2>4
<1>3. CASE ~(n <= max)
  <2> DEFINE L(s) == ChunkEnd(n, ends, nl, literal, pack, s, max)
  <2>1. PICK f : /\ Chunked(n, ends, nl, literal, pack, max) = f[0] /\ f[n] = << >>
                 /\ \A s \in 0..(n - 1) : f[s] = <<<<s + 1, L(s)>>>> \o f[L(s)]
    <3>1. max < n /\ n \in Nat
      BY <1>3
    <3>2. PICK f : ChunksAfter(f, n, ends, nl, literal, pack, max)
      BY <1>1, <3>1, ChunkedRecurs
    <3>3. QED BY <3>2 DEF ChunksAfter
  <2>2. ASSUME NEW s \in 0..(n - 1)
        PROVE  /\ L(s) \in (s + 1)..n
               /\ L(s) <= s + max \/ (s + 1 <= literal[2] /\ L(s) = literal[2])
               /\ literal[1] <= L(s) => literal[2] <= L(s)
    BY <1>1, ChunkEndBounds
  <2> HIDE DEF L
  <2> DEFINE S == {s \in 0..(n - 1) : Whole(f[s], s, n, max, literal)}
  <2>3. ASSUME NEW s \in 0..(n - 1), \A j \in (s + 1)..(n - 1) : j \in S PROVE s \in S
    <3> DEFINE e == L(s)
               x == <<s + 1, e>>
               b == f[e]
               c == <<x>> \o b
    <3>1. /\ e \in (s + 1)..n
          /\ e <= s + max \/ (s + 1 <= literal[2] /\ e = literal[2])
          /\ literal[1] <= e => literal[2] <= e
      BY <2>2
    <3>2. f[s] = c
      BY <2>1
    <3> HIDE DEF e
    <3>3. x \in Nat \X Nat /\ x[1] = s + 1 /\ x[2] = e
      BY <3>1
    <3>4. b \in Seq(Nat \X Nat)
      <4>1. CASE e = n
        BY <2>1, <4>1, EmptySeq
      <4>2. CASE e # n
        <5>1. e \in (s + 1)..(n - 1)
          BY <3>1, <4>2
        <5>2. QED BY <2>3, <5>1 DEF Whole
      <4>3. QED BY <4>1, <4>2
    <3> HIDE DEF x
    <3>5. /\ c \in Seq(Nat \X Nat) /\ Len(b) \in Nat /\ Len(c) = Len(b) + 1 /\ c[1] = x
          /\ \A k \in 1..Len(b) : c[k + 1] = b[k]
      <4> HIDE DEF b
      <4>1. QED BY <3>3, <3>4, Before
    <3>6. CASE e = n
      <4>1. Len(b) = 0
        BY <2>1, <3>6, EmptySeq
      <4> HIDE DEF c, b
      <4>2. Len(c) = 1
        BY <3>5, <4>1
      <4>3. Whole(c, s, n, max, literal)
        BY <1>1, <3>1, <3>3, <3>5, <3>6, <4>2 DEF Whole
      <4>4. QED BY <3>2, <4>3
    <3>7. CASE e # n
      <4>1. e \in (s + 1)..(n - 1)
        BY <3>1, <3>7
      <4>2. Whole(b, e, n, max, literal)
        BY <2>3, <4>1
      <4> HIDE DEF c, b
      <4>3. /\ Len(b) > 0 /\ b[1][1] = e + 1 /\ b[Len(b)][2] = n
            /\ \A i \in 1..(Len(b) - 1) : b[i + 1][1] = b[i][2] + 1
            /\ \A i \in 1..Len(b) : \/ b[i][2] - b[i][1] < max
                                    \/ b[i][1] <= literal[2] /\ b[i][2] = literal[2]
            /\ e < literal[1] => \E i \in 1..Len(b) : b[i][1] <= literal[1] /\ literal[2] <= b[i][2]
        BY <4>2 DEF Whole
      <4>9. Len(b) \in Nat /\ Len(c) = Len(b) + 1 /\ \A k \in 1..Len(b) : c[k + 1] = b[k]
        BY <3>5
      <4>4. \A i \in 1..Len(c) : i = 1 \/ (i - 1 \in 1..Len(b) /\ c[i] = b[i - 1])
        <5>1. \A i \in 1..Len(c) : i # 1 => i - 1 \in 1..Len(b) /\ (i - 1) + 1 = i
          BY <4>9
        <5>2. ASSUME NEW i \in 1..Len(c), i # 1 PROVE c[i] = b[i - 1]
          <6>1. i - 1 \in 1..Len(b) /\ (i - 1) + 1 = i
            BY <5>1, <5>2
          <6>2. c[(i - 1) + 1] = b[i - 1]
            BY <4>9, <6>1
          <6>3. QED BY <6>1, <6>2
        <5>3. QED BY <5>1, <5>2
      <4>5. c[1][1] = s + 1 /\ c[Len(c)][2] = n /\ Len(c) > 0
        <5>1. Len(b) \in 1..Len(b)
          BY <3>5, <4>3
        <5>2. c[Len(c)] = b[Len(b)]
          BY <3>5, <5>1
        <5>3. QED BY <3>3, <3>5, <4>3, <5>2
      <4>6. ASSUME NEW i \in 1..(Len(c) - 1) PROVE c[i + 1][1] = c[i][2] + 1
        <5>1. i \in 1..Len(b) /\ c[i + 1] = b[i]
          BY <3>5
        <5>2. CASE i = 1
          BY <3>3, <3>5, <4>3, <5>1, <5>2
        <5>3. CASE i # 1
          <6>1. i - 1 \in 1..(Len(b) - 1) /\ (i - 1) + 1 = i /\ i \in 1..Len(c)
            BY <3>5, <5>3
          <6>2. c[i] = b[i - 1]
            BY <4>4, <5>3, <6>1
          <6>3. b[i][1] = b[i - 1][2] + 1
            BY <4>3, <6>1
          <6>4. QED BY <5>1, <6>2, <6>3
        <5>4. QED BY <5>2, <5>3
      <4>7. ASSUME NEW i \in 1..Len(c)
            PROVE  \/ c[i][2] - c[i][1] < max
                   \/ c[i][1] <= literal[2] /\ c[i][2] = literal[2]
        <5>1. CASE i = 1
          BY <1>1, <3>1, <3>3, <3>5, <5>1
        <5>2. CASE i # 1
          BY <4>3, <4>4, <5>2
        <5>3. QED BY <5>1, <5>2
      <4>8. ASSUME s < literal[1]
            PROVE  \E i \in 1..Len(c) : c[i][1] <= literal[1] /\ literal[2] <= c[i][2]
        <5>1. CASE literal[1] <= e
          <6>1. c[1][1] <= literal[1] /\ literal[2] <= c[1][2]
            BY <1>1, <3>1, <3>3, <3>5, <4>8, <5>1
          <6>2. 1 \in 1..Len(c)
            BY <4>9
          <6>3. QED BY <6>1, <6>2
        <5>2. CASE e < literal[1]
          <6>1. PICK i \in 1..Len(b) : b[i][1] <= literal[1] /\ literal[2] <= b[i][2]
            BY <4>3, <5>2
          <6> DEFINE j == i + 1
          <6>2. j \in 1..Len(c)
            BY <4>9
          <6>3. c[j] = b[i]
            BY <4>9
          <6> HIDE DEF j, e
          <6>4. c[j][1] <= literal[1] /\ literal[2] <= c[j][2]
            BY <6>1, <6>3
          <6>5. QED BY <6>2, <6>4
        <5>3. QED BY <1>1, <3>1, <5>1, <5>2
      <4>10. Whole(c, s, n, max, literal)
        BY <3>5, <4>5, <4>6, <4>7, <4>8 DEF Whole
      <4>11. QED BY <3>2, <4>10
    <3>8. QED BY <3>6, <3>7
  <2>4. 0..(n - 1) \subseteq S
    <3>1. n - 1 \in Nat
      OBVIOUS
    <3> HIDE DEF S
    <3>2. QED BY <2>3, <3>1, Downward
  <2>5. 0 \in 0..(n - 1)
    OBVIOUS
  <2>6. QED BY <2>1, <2>4, <2>5
<1>4. QED BY <1>2, <1>3

----------------------------------------------------------------------------
(* The invariant of a request. *)

\* The words before the next segment are restored, one for one.
Reached(r) ==
    /\ r.next > 0 /\ r.next <= Len(r.text) + 1 /\ Len(r.shown) = r.next - 1
    /\ \A i \in 1..(r.next - 1) :
          IF r.text[i] = "d0" THEN r.shown[i] \in Accented ELSE r.shown[i] = r.text[i]
    /\ ~r.running => r.next = Len(r.text) + 1
    /\ r.seg = 0 => r.next = 1

\* The spans fit the output so far, which is empty before the first segment.
Placed(r) == Fit(r.out, r.spans) /\ (r.seg = 0 => r.out = << >> /\ r.spans = {})

\* What was written was paid for, and is among the keys that were tried.
Budgeted(r) ==
    /\ r.left + Len(r.wrote) <= Cap
    /\ \A i \in 1..Len(r.wrote) : r.wrote[i] \in r.keys
    /\ \A i, j \in 1..Len(r.wrote) : r.wrote[i] = r.wrote[j] => i = j

\* A result holds the words of its piece and fits its output.
Sound(piece, e) ==
    /\ e.shown \in Seq(Kinds) /\ Kept(piece, e.shown)
    /\ Join(e.values) \in Seq(Letter) /\ Fit(Join(e.values), e.spans)
    /\ e.sent \in Seq(Seq(Kinds))

SegmentsSound == \A e \in segments : Sound(e.key[1], e)

\* A text that is one segment shows what its words are expanded to.
Entire ==
    request.seg = 1 /\ request.next = Len(request.text) + 1 =>
        request.out = Join(Values(request.shown, request.chosen))

RulesInv ==
    /\ RulesTypeOK /\ Reached(request) /\ Placed(request) /\ Budgeted(request)
    /\ SegmentsSound /\ ChunksWhole /\ Entire

\* The index is built once.
LEMMA IndexStays ==
    ASSUME RulesInv, index' = index, request'.seg = request.seg, request'.text = request.text,
           request'.next = request.next, request'.out = request.out,
           request'.shown = request.shown, request'.chosen = request.chosen
    PROVE  Entire'
<1>1. ASSUME NEW t, NEW c PROVE Values(t, c)' = Values(t, c)
  BY DEF Values
<1>2. Entire
  BY DEF RulesInv
<1>3. QED BY <1>1, <1>2 DEF Entire

\* A part of an output is where it was, gap letters further on.
Within(out, all, gap) ==
    gap + Len(out) <= Len(all) /\ \A k \in 1..Len(out) : all[gap + k] = out[k]

LEMMA SpanWithin ==
    ASSUME NEW out \in Seq(Letter), NEW all \in Seq(Letter), NEW gap \in Nat,
           Within(out, all, gap), NEW a \in Nat, NEW b \in Nat, a <= b, b <= Len(out)
    PROVE  SubSeq(all, a + gap + 1, b + gap) = SubSeq(out, a + 1, b)
<1>0. gap + Len(out) <= Len(all) /\ \A k \in 1..Len(out) : all[gap + k] = out[k]
  BY DEF Within
<1> DEFINE x == SubSeq(all, a + gap + 1, b + gap)
           y == SubSeq(out, a + 1, b)
<1>1. Len(out) \in Nat /\ Len(all) \in Nat /\ a + gap \in Nat /\ b + gap \in Nat
  OBVIOUS
<1>2. y \in Seq(Letter) /\ Len(y) = b - a /\ \A k \in 1..(b - a) : y[k] = out[a + k]
  BY Sub
<1>3. /\ x \in Seq(Letter) /\ Len(x) = b - a
      /\ \A k \in 1..(b - a) : x[k] = all[gap + (a + k)]
  <2> DEFINE a2 == a + gap
             b2 == b + gap
             z == SubSeq(all, a2 + 1, b2)
  <2>1. a2 \in Nat /\ b2 \in Nat /\ a2 <= b2 /\ b2 <= Len(all) /\ b2 - a2 = b - a
    BY <1>0, <1>1
  <2>2. x = z /\ \A k \in 1..(b - a) : a2 + k = gap + (a + k)
    BY <1>1
  <2> HIDE DEF a2, b2
  <2>3. /\ z \in Seq(Letter) /\ Len(z) = b2 - a2
        /\ \A k \in 1..(b2 - a2) : z[k] = all[a2 + k]
    BY <2>1, Sub
  <2> HIDE DEF x, z
  <2>4. QED BY <2>1, <2>2, <2>3
<1> HIDE DEF x, y
<1>4. \A k \in 1..(b - a) : a + k \in 1..Len(out)
  BY <1>1
<1>5. \A k \in 1..Len(x) : x[k] = y[k]
  BY <1>0, <1>2, <1>3, <1>4
<1>6. x = y
  BY <1>2, <1>3, <1>5, Same
<1>7. QED BY <1>6 DEF x, y

Moved(spans, gap) == {<<s[1] + gap, s[2] + gap, s[3]>> : s \in spans}

\* Spans fit an output behind gap letters when they are moved by as many.
LEMMA FitWithin ==
    ASSUME NEW out \in Seq(Letter), NEW all \in Seq(Letter), NEW gap \in Nat,
           gap + Len(out) <= Len(all), \A k \in 1..Len(out) : all[gap + k] = out[k],
           NEW spans, Fit(out, spans)
    PROVE  Fit(all, Moved(spans, gap))
<1> SUFFICES ASSUME NEW s \in spans
             PROVE  /\ s[1] + gap \in Nat /\ s[2] + gap \in Nat /\ s[3] \in Seq(Letter)
                    /\ s[1] + gap <= s[2] + gap /\ s[2] + gap <= Len(all)
                    /\ SubSeq(all, s[1] + gap + 1, s[2] + gap) = s[3]
  <2> DEFINE moved(s) == <<s[1] + gap, s[2] + gap, s[3]>>
  <2> SUFFICES ASSUME NEW s \in spans
               PROVE  /\ moved(s) \in Nat \X Nat \X Seq(Letter)
                      /\ moved(s)[1] <= moved(s)[2] /\ moved(s)[2] <= Len(all)
                      /\ SubSeq(all, moved(s)[1] + 1, moved(s)[2]) = moved(s)[3]
    <3>1. ASSUME NEW y \in Moved(spans, gap) PROVE \E x \in spans : y = moved(x)
      BY DEF Moved
    <3> HIDE DEF moved
    <3>2. QED BY <3>1 DEF Fit
  <2>1. /\ s[1] + gap \in Nat /\ s[2] + gap \in Nat /\ s[3] \in Seq(Letter)
        /\ s[1] + gap <= s[2] + gap /\ s[2] + gap <= Len(all)
        /\ SubSeq(all, s[1] + gap + 1, s[2] + gap) = s[3]
    OBVIOUS
  <2>2. moved(s)[1] = s[1] + gap /\ moved(s)[2] = s[2] + gap /\ moved(s)[3] = s[3]
    OBVIOUS
  <2>3. QED BY <2>1, <2>2
<1>1. /\ s[1] \in Nat /\ s[2] \in Nat /\ s[3] \in Seq(Letter) /\ s[1] <= s[2] /\ s[2] <= Len(out)
      /\ SubSeq(out, s[1] + 1, s[2]) = s[3]
  BY DEF Fit
<1> DEFINE a == s[1]
           b == s[2]
           c == s[3]
<1>2. /\ a \in Nat /\ b \in Nat /\ c \in Seq(Letter) /\ a <= b /\ b <= Len(out)
      /\ SubSeq(out, a + 1, b) = c
  BY <1>1
<1> SUFFICES /\ a + gap \in Nat /\ b + gap \in Nat /\ c \in Seq(Letter)
             /\ a + gap <= b + gap /\ b + gap <= Len(all)
             /\ SubSeq(all, a + gap + 1, b + gap) = c
  OBVIOUS
<1> HIDE DEF a, b, c
<1>3. Len(out) \in Nat /\ Len(all) \in Nat
  OBVIOUS
<1>4. SubSeq(all, a + gap + 1, b + gap) = SubSeq(out, a + 1, b)
  <2>1. Within(out, all, gap)
    BY DEF Within
  <2>2. a \in Nat /\ b \in Nat /\ a <= b /\ b <= Len(out)
    BY <1>2
  <2>3. QED BY <2>1, <2>2, SpanWithin
<1>5. /\ a + gap \in Nat /\ b + gap \in Nat /\ a + gap <= b + gap /\ b + gap <= Len(all)
  <2>1. a \in Nat /\ b \in Nat /\ a <= b /\ b <= Len(out)
    BY <1>2
  <2>2. QED BY <1>3, <2>1
<1>6. SubSeq(all, a + gap + 1, b + gap) = c
  <2>1. SubSeq(out, a + 1, b) = c
    BY <1>2
  <2>2. QED BY <1>4, <2>1
<1>7. QED BY <1>2, <1>5, <1>6

\* A request stays in order when a segment is joined to it.
LEMMA JoinedSound ==
    ASSUME NEW r \in Request, r.running, Reached(r), Placed(r), NEW end \in r.next..Len(r.text),
           NEW result, Sound(Piece(r, end), result)
    PROVE  /\ Joined(r, end, result) \in Request
           /\ Reached(Joined(r, end, result)) /\ Placed(Joined(r, end, result))
<1> DEFINE b == Joined(r, end, result)
           v == Join(result.values)
           shown == r.shown \o result.shown
           gap == IF r.seg = 0 THEN 0 ELSE Len(r.out) + 1
           moved == Moved(result.spans, gap)
           out == IF r.seg = 0 THEN v ELSE r.out \o <<" ">> \o v
           spans == r.spans \cup moved
<1>1. /\ r.next \in Nat /\ r.next > 0 /\ Len(r.text) \in Nat /\ end \in Nat /\ r.seg \in Nat
      /\ r.out \in Seq(Letter) /\ r.shown \in Seq(Kinds) /\ r.text \in Seq(Kinds)
      /\ Len(r.shown) = r.next - 1
      /\ \A i \in 1..(r.next - 1) :
            IF r.text[i] = "d0" THEN r.shown[i] \in Accented ELSE r.shown[i] = r.text[i]
  BY DEF Request, Reached
<1>2. result.shown \in Seq(Kinds) /\ v \in Seq(Letter) /\ Fit(v, result.spans)
  BY DEF Sound
<1>3. b = [r EXCEPT !.next = end + 1, !.seg = @ + 1, !.out = out, !.shown = shown, !.spans = spans]
  BY DEF Joined, Moved
<1> HIDE DEF v
<1>4. out \in Seq(Letter) /\ Fit(out, spans)
  <2>1. CASE r.seg = 0
    <3>0. gap = 0
      BY <2>1
    <3>1. out = v /\ r.spans = {}
      BY <2>1 DEF Placed
    <3>2. Fit(v, moved)
      <4>1. gap \in Nat /\ Len(v) \in Nat /\ gap + Len(v) <= Len(v)
            /\ \A k \in 1..Len(v) : v[gap + k] = v[k]
        <5>1. Len(v) \in Nat
          BY <1>2
        <5> HIDE DEF gap
        <5>2. gap \in Nat /\ gap + Len(v) = Len(v) /\ \A k \in 1..Len(v) : gap + k = k
          BY <3>0, <5>1
        <5>3. QED BY <5>1, <5>2
      <4> HIDE DEF gap
      <4>2. QED BY <1>2, <4>1, FitWithin
    <3>3. spans = moved
      BY <3>1
    <3> HIDE DEF moved, out, spans
    <3>4. QED BY <1>2, <3>1, <3>2, <3>3
  <2>2. CASE r.seg # 0
    <3> DEFINE e == r.out \o <<" ">> \o v
    <3>1. out = e /\ gap = Len(r.out) + 1
      BY <2>2
    <3>2. /\ Len(r.out) \in Nat /\ Len(v) \in Nat /\ e \in Seq(Letter)
          /\ Len(e) = Len(r.out) + 1 + Len(v)
          /\ \A k \in 1..Len(r.out) : e[k] = r.out[k]
          /\ \A k \in 1..Len(v) : e[Len(r.out) + 1 + k] = v[k]
      BY <1>1, <1>2, Spaced
    <3> HIDE DEF e, out, gap
    <3>3. Fit(e, moved)
      <4>1. gap \in Nat /\ gap + Len(v) <= Len(e) /\ \A k \in 1..Len(v) : e[gap + k] = v[k]
        BY <3>1, <3>2
      <4>2. QED BY <1>2, <3>2, <4>1, FitWithin
    <3>4. Fit(e, r.spans)
      <4>0. PICK none \in Nat : none = 0
        OBVIOUS
      <4> DEFINE here == Moved(r.spans, none)
      <4>1. none + Len(r.out) <= Len(e) /\ \A k \in 1..Len(r.out) : e[none + k] = r.out[k]
        <5>1. none + Len(r.out) = Len(r.out) /\ \A k \in 1..Len(r.out) : none + k = k
          BY <3>2, <4>0
        <5>2. QED BY <3>2, <5>1
      <4>2. Fit(r.out, r.spans)
        BY DEF Placed
      <4>3. Fit(e, here)
        BY <1>1, <3>2, <4>1, <4>2, FitWithin
      <4>4. \A s \in r.spans : <<s[1] + none, s[2] + none, s[3]>> = s
        BY <4>0, <4>2 DEF Fit
      <4>5. r.spans \subseteq here
        BY <4>4 DEF Moved
      <4> HIDE DEF here
      <4>6. QED BY <4>3, <4>5 DEF Fit
    <3> HIDE DEF moved
    <3>5. Fit(e, spans)
      BY <3>3, <3>4 DEF Fit
    <3>6. QED BY <3>1, <3>2, <3>5
  <2>3. QED BY <2>1, <2>2
<1>5. /\ shown \in Seq(Kinds) /\ Len(shown) = end
      /\ \A i \in 1..end : IF r.text[i] = "d0" THEN shown[i] \in Accented ELSE shown[i] = r.text[i]
  <2> DEFINE old == r.shown
             new == result.shown
             p == Piece(r, end)
             m == r.next - 1
  <2>1. old \in Seq(Kinds) /\ new \in Seq(Kinds) /\ Len(old) = m /\ m \in Nat
    BY <1>1, <1>2
  <2>2. /\ Len(p) = end - m
        /\ \A k \in 1..(end - m) : p[k] = r.text[m + k]
    <3>1. m <= end /\ end <= Len(r.text) /\ m + 1 = r.next
      BY <1>1
    <3>2. p = SubSeq(r.text, m + 1, end)
      BY <3>1 DEF Piece
    <3> HIDE DEF p, m
    <3>3. QED BY <1>1, <2>1, <3>1, <3>2, Sub
  <2>3. Len(new) = Len(p)
        /\ \A k \in 1..Len(p) : IF p[k] = "d0" THEN new[k] \in Accented ELSE new[k] = p[k]
    BY DEF Sound, Kept
  <2>4. /\ shown \in Seq(Kinds) /\ Len(shown) = Len(old) + Len(new)
        /\ \A k \in 1..Len(old) : shown[k] = old[k]
        /\ \A k \in 1..Len(new) : shown[Len(old) + k] = new[k]
    <3>0. old \in Seq(Kinds) /\ new \in Seq(Kinds)
      BY <2>1
    <3> HIDE DEF old, new
    <3>1. old \o new \in Seq(Kinds) /\ Len(old \o new) = Len(old) + Len(new)
          /\ (\A k \in 1..Len(old) : (old \o new)[k] = old[k])
          /\ (\A k \in 1..Len(new) : (old \o new)[Len(old) + k] = new[k])
      BY <3>0, Concat
    <3>2. QED BY <3>1 DEF old, new
  <2>5. \A i \in 1..m : IF r.text[i] = "d0" THEN old[i] \in Accented ELSE old[i] = r.text[i]
    BY <1>1
  <2>6. m <= end
    BY <1>1
  <2> HIDE DEF old, new, p, m, shown
  <2>7. Len(shown) = end
    BY <1>1, <2>1, <2>2, <2>3, <2>4
  <2>8. ASSUME NEW i \in 1..end
        PROVE  IF r.text[i] = "d0" THEN shown[i] \in Accented ELSE shown[i] = r.text[i]
    <3>1. CASE i <= m
      BY <1>1, <2>1, <2>4, <2>5, <3>1
    <3>2. CASE ~(i <= m)
      <4> DEFINE k == i - m
      <4>1. k \in 1..(end - m) /\ m + k = i
        BY <1>1, <2>1, <3>2
      <4> HIDE DEF k
      <4>2. p[k] = r.text[i] /\ IF p[k] = "d0" THEN new[k] \in Accented ELSE new[k] = p[k]
        BY <2>2, <2>3, <4>1
      <4>3. shown[i] = new[k]
        BY <2>1, <2>2, <2>3, <2>4, <4>1
      <4>4. QED BY <4>2, <4>3
    <3>3. QED BY <3>1, <3>2
  <2>9. QED BY <2>4, <2>7, <2>8
<1> DEFINE next == end + 1
           seg == r.seg + 1
<1>6. next \in Nat /\ seg \in Nat /\ seg # 0 /\ next > 0 /\ next <= Len(r.text) + 1
      /\ next - 1 = end
  BY <1>1
<1>7. spans \in SUBSET (Nat \X Nat \X Seq(Letter))
  <2> HIDE DEF spans
  <2>1. QED BY <1>4 DEF Fit
<1>8. b = [r EXCEPT !.next = next, !.seg = seg, !.out = out, !.shown = shown, !.spans = spans]
  BY <1>3
<1> HIDE DEF next, seg, out, shown, spans, b
<1>9. b \in Request
  BY <1>4, <1>5, <1>6, <1>7, <1>8 DEF Request
<1>10. /\ b.next = next /\ b.seg = seg /\ b.out = out /\ b.shown = shown /\ b.spans = spans
       /\ b.text = r.text /\ b.running = r.running
  BY <1>8 DEF Request
<1>11. Reached(b)
  BY <1>5, <1>6, <1>10 DEF Reached
<1>12. Placed(b)
  BY <1>4, <1>6, <1>10 DEF Placed
<1>13. QED BY <1>9, <1>11, <1>12 DEF b

\* The first segment of a text gives all its output.
LEMMA JoinedFirst ==
    ASSUME NEW r \in Request, Reached(r), NEW end, NEW result, result.shown \in Seq(Kinds)
    PROVE  LET b == Joined(r, end, result)
           IN  /\ b.text = r.text /\ b.chosen = r.chosen /\ b.next = end + 1 /\ b.seg = r.seg + 1
               /\ r.seg = 0 => b.out = Join(result.values) /\ b.shown = result.shown
<1> DEFINE b == Joined(r, end, result)
<1>1. /\ b.text = r.text /\ b.chosen = r.chosen /\ b.next = end + 1 /\ b.seg = r.seg + 1
      /\ b.out = IF r.seg = 0 THEN Join(result.values) ELSE r.out \o <<" ">> \o Join(result.values)
      /\ b.shown = r.shown \o result.shown
  BY DEF Joined, Request
<1>2. ASSUME r.seg = 0 PROVE b.shown = result.shown
  <2>1. r.shown \in Seq(Kinds) /\ Len(r.shown) = 0
    BY <1>2 DEF Reached, Request
  <2>2. r.shown = << >>
    BY <2>1, EmptySeq
  <2> DEFINE new == result.shown
             old == r.shown
  <2>3. old \in Seq(Kinds) /\ new \in Seq(Kinds) /\ Len(old) = 0
    BY <2>1
  <2> HIDE DEF old, new
  <2>4. /\ Len(new) \in Nat /\ old \o new \in Seq(Kinds) /\ Len(old \o new) = Len(old) + Len(new)
        /\ \A k \in 1..Len(new) : (old \o new)[Len(old) + k] = new[k]
    BY <2>3, Concat
  <2>5. Len(old \o new) = Len(new) /\ \A k \in 1..Len(old \o new) : (old \o new)[k] = new[k]
    <3>1. Len(old \o new) = Len(new) /\ \A k \in 1..Len(new) : Len(old) + k = k
      BY <2>3, <2>4
    <3>2. QED BY <2>4, <3>1
  <2>6. old \o new = new
    <3> DEFINE a == old \o new
    <3>1. a \in Seq(Kinds) /\ Len(a) = Len(new) /\ \A k \in 1..Len(a) : a[k] = new[k]
      BY <2>4, <2>5
    <3> HIDE DEF a
    <3>2. a = new
      BY <2>3, <3>1, Same
    <3>3. QED BY <3>2 DEF a
  <2>7. QED BY <1>1, <2>6 DEF old, new
<1> HIDE DEF b
<1>3. QED BY <1>1, <1>2 DEF b

\* The budget, the keys and what was written concern neither words nor spans.
Billed(r, left, keys, wrote) == [r EXCEPT !.left = left, !.keys = keys, !.wrote = wrote]

LEMMA BudgetAside ==
    ASSUME NEW r \in Request, Reached(r), Placed(r), NEW left \in 0..Cap,
           NEW keys \in SUBSET Seq(Kinds), NEW wrote \in Seq(Seq(Kinds))
    PROVE  LET b == Billed(r, left, keys, wrote)
           IN  /\ b \in Request /\ Reached(b) /\ Placed(b)
               /\ b.left = left /\ b.keys = keys /\ b.wrote = wrote
<1> DEFINE b == Billed(r, left, keys, wrote)
<1>1. b \in Request
  BY DEF Request, Billed
<1>2. /\ b.left = left /\ b.keys = keys /\ b.wrote = wrote /\ b.next = r.next /\ b.text = r.text
      /\ b.shown = r.shown /\ b.running = r.running /\ b.out = r.out /\ b.spans = r.spans
      /\ b.seg = r.seg
  BY DEF Request, Billed
<1> HIDE DEF b
<1>3. Reached(b) /\ Placed(b)
  BY <1>2 DEF Reached, Placed
<1>4. QED BY <1>1, <1>2, <1>3 DEF b

\* What a piece gives is sound, and its keys were paid for.
LEMMA ResultSound ==
    ASSUME NEW piece \in Seq(Kinds), index \in [Phrases -> Batches], NEW chosen, NEW key,
           NEW open \in BOOLEAN, NEW left \in Nat, NEW K \in SUBSET Seq(Kinds)
    PROVE  LET t == Restored(piece)
               consumed == Consumed(Matches(t))
               sent == Tried([left |-> left, keys |-> K, wrote |-> << >>],
                             PhraseKeys(t, consumed) \o WordKeys(t, consumed, open))
           IN  /\ Paid(sent, left, K, Seq(Kinds))
               /\ Sound(piece, Result(key, t, Values(t, chosen), sent))
<1> DEFINE t == Restored(piece)
           consumed == Consumed(Matches(t))
           ks == PhraseKeys(t, consumed) \o WordKeys(t, consumed, open)
           sent == Tried([left |-> left, keys |-> K, wrote |-> << >>], ks)
           values == Values(t, chosen)
           e == Result(key, t, values, sent)
<1>1. t \in Seq(Kinds) /\ Kept(piece, t)
  BY RestoredKeepsWords
<1> HIDE DEF t
<1>2. values \in Seq(Seq(Letter)) /\ Len(values) = Len(t)
  BY <1>1, ValuesTyped
<1>3. ks \in Seq(Seq(Kinds))
  BY <1>1, KeysTyped
<1> HIDE DEF values, ks
<1>4. Join(values) \in Seq(Letter) /\ Fit(Join(values), SpansOf(t, values))
  BY <1>2, SpansOfFit
<1>5. Paid(sent, left, K, Seq(Kinds))
  <2> DEFINE T == Seq(Kinds)
  <2>1. ks \in Seq(T) /\ K \in SUBSET T
    BY <1>3
  <2> HIDE DEF T
  <2>2. Paid(sent, left, K, T)
    BY <2>1, TriedPaid
  <2>3. QED BY <2>2 DEF T
<1>6. sent.wrote \in Seq(Seq(Kinds))
  BY <1>5 DEF Paid
<1> HIDE DEF sent
<1>7. e.shown = t /\ e.values = values /\ e.spans = SpansOf(t, values) /\ e.sent = sent.wrote
  BY DEF Result, Primary
<1> HIDE DEF e
<1>8. Sound(piece, e)
  BY <1>1, <1>4, <1>6, <1>7 DEF Sound
<1>9. QED BY <1>5, <1>8 DEF t, consumed, ks, sent, values, e

LEMMA RulesInitial == RulesInit => RulesInv
<1> SUFFICES ASSUME RulesInit PROVE RulesInv
  OBVIOUS
<1>1. index \in [Phrases -> Batches]
  BY IndexTyped DEF RulesInit
<1> DEFINE none == << >>
<1>2. /\ none \in Seq(Kinds) /\ none \in Seq(Letter) /\ Len(none) = 0
      /\ \A T : none \in Seq(T)
  BY EmptySeq
<1>3. request = [text |-> none, ends |-> {}, typing |-> FALSE, chosen |-> 0, next |-> 1,
                 seg |-> 0, out |-> none, shown |-> none, spans |-> {}, left |-> Cap, keys |-> {},
                 wrote |-> none, running |-> FALSE]
  BY DEF RulesInit, Idle
<1>4. none \in Seq(Seq(Kinds))
  BY <1>2
<1> HIDE DEF none
<1>5. request \in Request
  BY <1>2, <1>3, <1>4, RulesAssumption DEF Request
<1>6. /\ request.text = none /\ request.next = 1 /\ request.seg = 0 /\ request.out = none
      /\ request.shown = none /\ request.spans = {} /\ request.left = Cap /\ request.wrote = none
  BY <1>3
<1>7. RulesTypeOK
  BY <1>1, <1>2, <1>5, <1>6, RulesAssumption DEF RulesTypeOK, RulesInit
<1>8. Reached(request)
  BY <1>2, <1>6 DEF Reached
<1>9. Placed(request)
  BY <1>6 DEF Placed, Fit, none
<1>10. Budgeted(request)
  BY <1>2, <1>6, RulesAssumption DEF Budgeted
<1>11. SegmentsSound /\ ChunksWhole /\ Entire
  BY <1>6 DEF RulesInit, SegmentsSound, ChunksWhole, Entire
<1>12. QED BY <1>7, <1>8, <1>9, <1>10, <1>11 DEF RulesInv

LEMMA StartKeeps ==
    ASSUME RulesInv, Start
    PROVE  RulesInv'
<1>1. PICK t \in IF request.text = << >> THEN Texts
                 ELSE {Append(request.text, x) : x \in {"u", "w"}}
                        \cup {[request.text EXCEPT ![1] = "u"]} :
      \E ends \in IF Len(t) < MinWords THEN {{}} ELSE SUBSET Ends, typing \in BOOLEAN,
         chosen \in IF "m" \in ToSet(t) THEN 0..3 ELSE {0} :
            request' = [Idle EXCEPT !.text = t, !.ends = ends,
                                    !.typing = typing /\ Last(t) \in Alpha,
                                    !.chosen = chosen, !.running = TRUE]
  BY DEF Start
<1>2. PICK ends \in IF Len(t) < MinWords THEN {{}} ELSE SUBSET Ends, typing \in BOOLEAN,
         chosen \in IF "m" \in ToSet(t) THEN 0..3 ELSE {0} :
            request' = [Idle EXCEPT !.text = t, !.ends = ends,
                                    !.typing = typing /\ Last(t) \in Alpha,
                                    !.chosen = chosen, !.running = TRUE]
  BY <1>1
<1>3. t \in Seq(Kinds)
  <2>1. request.text \in Seq(Kinds)
    BY DEF RulesInv, RulesTypeOK, Request
  <2>2. \A x \in {"u", "w"} : Append(request.text, x) \in Seq(Kinds)
    <3>1. "u" \in Kinds /\ "w" \in Kinds
      BY DEF Kinds
    <3>2. QED BY <2>1, <3>1, Appended
  <2>3. request.text # << >> => [request.text EXCEPT ![1] = "u"] \in Seq(Kinds)
    <3> SUFFICES ASSUME request.text # << >> PROVE [request.text EXCEPT ![1] = "u"] \in Seq(Kinds)
      OBVIOUS
    <3>1. "u" \in Kinds
      BY DEF Kinds
    <3>2. 1 \in 1..Len(request.text)
      BY <2>1, EmptySeq
    <3>3. QED BY <2>1, <3>1, <3>2, ExceptSeq
  <2>4. Texts \subseteq Seq(Kinds)
    BY RulesAssumption
  <2>5. QED BY <2>2, <2>3, <2>4
<1>4. ends \in SUBSET Nat /\ chosen \in 0..3
  <2>1. ends = {} \/ ends \in SUBSET Ends
    BY Zenon
  <2>2. chosen \in {0} \/ chosen \in 0..3
    BY Zenon
  <2>3. Ends \subseteq Nat
    BY RulesAssumption
  <2>4. ends \in SUBSET Nat
    BY <2>1, <2>3, Zenon
  <2>5. chosen \in 0..3
    BY <2>2
  <2>6. QED BY <2>4, <2>5
<1> DEFINE none == << >>
           open == typing /\ Last(t) \in Alpha
<1>5. /\ none \in Seq(Kinds) /\ none \in Seq(Letter) /\ Len(none) = 0
      /\ \A T : none \in Seq(T)
  BY EmptySeq
<1>6. open \in BOOLEAN
  OBVIOUS
<1>7. request' = [text |-> t, ends |-> ends, typing |-> open, chosen |-> chosen, next |-> 1,
                  seg |-> 0, out |-> none, shown |-> none, spans |-> {}, left |-> Cap,
                  keys |-> {}, wrote |-> none, running |-> TRUE]
  BY <1>2 DEF Idle
<1>8. none \in Seq(Seq(Kinds))
  BY <1>5
<1> HIDE DEF none, open
<1>9. request' \in Request
  BY <1>3, <1>4, <1>5, <1>6, <1>7, <1>8, RulesAssumption DEF Request
<1>10. /\ request'.text = t /\ request'.next = 1 /\ request'.seg = 0 /\ request'.out = none
       /\ request'.shown = none /\ request'.spans = {} /\ request'.left = Cap
       /\ request'.wrote = none /\ request'.running
  BY <1>7
<1>11. RulesTypeOK'
  <2>1. Len(t) \in Nat
    BY <1>3
  <2>2. request'.next <= Len(request'.text) + 1
    BY <1>10, <2>1
  <2>3. requests' \in 0..MaxRequests
    BY RulesAssumption DEF Start, RulesInv, RulesTypeOK
  <2>4. index' = index /\ segments' = segments
    BY DEF Start
  <2>5. QED BY <1>9, <2>2, <2>3, <2>4 DEF RulesInv, RulesTypeOK
<1>12. Reached(request')
  <2>1. Len(t) \in Nat
    BY <1>3
  <2>2. QED BY <1>5, <1>10, <2>1 DEF Reached
<1>13. Placed(request')
  BY <1>10 DEF Placed, Fit, none
<1>14. Budgeted(request')
  BY <1>5, <1>10, RulesAssumption DEF Budgeted
<1>15. SegmentsSound' /\ ChunksWhole' /\ Entire'
  BY <1>10 DEF RulesInv, Start, SegmentsSound, ChunksWhole, Entire
<1>16. QED BY <1>11, <1>12, <1>13, <1>14, <1>15 DEF RulesInv

LEMMA CachedKeeps ==
    ASSUME RulesInv, NEW e \in segments, request.running, request.next <= Len(request.text),
           NEW end \in request.next..Len(request.text), e.key[1] = Piece(request, end),
           request' = [Joined(request, end, e) EXCEPT !.left = Charged(@, Len(e.sent)),
                                                     !.keys = @ \cup ToSet(e.sent)]
    PROVE  request' \in Request /\ Reached(request') /\ Placed(request') /\ Budgeted(request')
<1> DEFINE r == Joined(request, end, e)
           left == Charged(request.left, Len(e.sent))
           keys == request.keys \cup ToSet(e.sent)
<1>1. /\ request \in Request /\ Reached(request) /\ Placed(request) /\ Budgeted(request)
      /\ Sound(Piece(request, end), e)
  BY DEF RulesInv, RulesTypeOK, SegmentsSound
<1>2. r \in Request /\ Reached(r) /\ Placed(r)
  BY <1>1, JoinedSound
<1>3. r.left = request.left /\ r.keys = request.keys /\ r.wrote = request.wrote
  BY <1>1 DEF Joined, Request
<1>4. request' = [r EXCEPT !.left = left, !.keys = keys, !.wrote = r.wrote]
  <2>1. request' = [r EXCEPT !.left = left, !.keys = keys]
    BY <1>3
  <2> HIDE DEF r, left, keys
  <2>2. QED BY <1>2, <2>1 DEF Request
<1>5. left \in 0..Cap /\ left <= request.left /\ request.left \in Nat
  <2>1. Len(e.sent) \in Nat
    BY <1>1 DEF Sound
  <2>2. request.left \in 0..Cap /\ Cap \in Nat
    BY <1>1, RulesAssumption DEF Request
  <2>3. QED BY <2>1, <2>2 DEF Charged
<1>6. keys \in SUBSET Seq(Kinds) /\ request.keys \subseteq keys
  <2> DEFINE T == Seq(Kinds)
  <2>1. e.sent \in Seq(T) /\ request.keys \in SUBSET T
    BY <1>1 DEF Sound, Request
  <2> HIDE DEF T
  <2>2. ToSet(e.sent) \subseteq T
    BY <2>1 DEF ToSet
  <2>3. QED BY <2>1, <2>2 DEF T
<1>7. r.wrote \in Seq(Seq(Kinds)) /\ Len(request.wrote) \in Nat
  <2>1. r.wrote \in Seq(Seq(Kinds))
    BY <1>2 DEF Request
  <2> DEFINE T == Seq(Kinds)
  <2>2. request.wrote \in Seq(T)
    BY <1>3, <2>1
  <2> HIDE DEF T
  <2>3. QED BY <2>1, <2>2
<1> HIDE DEF r, left, keys
<1>8. /\ request' \in Request /\ Reached(request') /\ Placed(request')
      /\ request'.left = left /\ request'.keys = keys /\ request'.wrote = r.wrote
  <2> DEFINE b == Billed(r, left, keys, r.wrote)
  <2>1. request' = b
    BY <1>4 DEF Billed
  <2>2. /\ r.wrote \in Seq(Seq(Kinds)) /\ keys \in SUBSET Seq(Kinds) /\ left \in 0..Cap
    BY <1>5, <1>6, <1>7
  <2>3. /\ b \in Request /\ Reached(b) /\ Placed(b)
        /\ b.left = left /\ b.keys = keys /\ b.wrote = r.wrote
    BY <1>2, <2>2, BudgetAside
  <2> HIDE DEF b
  <2>4. QED BY <2>1, <2>3
<1>9. Budgeted(request')
  <2>1. /\ request.left + Len(request.wrote) <= Cap
        /\ \A i \in 1..Len(request.wrote) : request.wrote[i] \in request.keys
        /\ \A i, j \in 1..Len(request.wrote) : request.wrote[i] = request.wrote[j] => i = j
    BY <1>1 DEF Budgeted
  <2>2. request'.wrote = request.wrote
    BY <1>3, <1>8
  <2>3. request'.left + Len(request'.wrote) <= Cap
    BY <1>5, <1>7, <1>8, <2>1, <2>2, RulesAssumption
  <2>4. \A i \in 1..Len(request'.wrote) : request'.wrote[i] \in request'.keys
    BY <1>6, <1>8, <2>1, <2>2
  <2>5. QED BY <2>1, <2>2, <2>3, <2>4 DEF Budgeted
<1>10. QED BY <1>8, <1>9

LEMMA ExpandedKeeps ==
    ASSUME RulesInv, request.running, request.next <= Len(request.text),
           NEW end \in request.next..Len(request.text), NEW fresh, NEW sent,
           Paid(sent, request.left, request.keys, Seq(Kinds)),
           Sound(Piece(request, end), fresh),
           request' = [Joined(request, end, fresh) EXCEPT !.left = sent.left, !.keys = sent.keys,
                                                         !.wrote = @ \o sent.wrote]
    PROVE  request' \in Request /\ Reached(request') /\ Placed(request') /\ Budgeted(request')
<1> DEFINE T == Seq(Kinds)
           r == Joined(request, end, fresh)
           old == request.wrote
           new == sent.wrote
           wrote == old \o new
<1>1. /\ request \in Request /\ Reached(request) /\ Placed(request) /\ Budgeted(request)
  BY DEF RulesInv, RulesTypeOK, SegmentsSound
<1>2. r \in Request /\ Reached(r) /\ Placed(r)
  BY <1>1, JoinedSound
<1>3. r.left = request.left /\ r.keys = request.keys /\ r.wrote = request.wrote
  BY <1>1 DEF Joined, Request
<1>4. /\ sent.left \in Nat /\ sent.keys \in SUBSET T /\ new \in Seq(T)
      /\ sent.left + Len(new) = request.left /\ request.keys \subseteq sent.keys
      /\ \A i \in 1..Len(new) : new[i] \in sent.keys /\ new[i] \notin request.keys
      /\ \A i, j \in 1..Len(new) : new[i] = new[j] => i = j
  BY DEF Paid
<1>5. old \in Seq(T) /\ request.left \in 0..Cap /\ Cap \in Nat
  BY <1>1, RulesAssumption DEF Request
<1>6. /\ request.left + Len(old) <= Cap
      /\ \A i \in 1..Len(old) : old[i] \in request.keys
      /\ \A i, j \in 1..Len(old) : old[i] = old[j] => i = j
  BY <1>1 DEF Budgeted
<1>7. request' = Billed(r, sent.left, sent.keys, wrote)
  BY <1>3 DEF Billed
<1> HIDE DEF T, r, old, new
<1>8. /\ Len(old) \in Nat /\ Len(new) \in Nat /\ wrote \in Seq(T)
      /\ Len(wrote) = Len(old) + Len(new)
      /\ \A k \in 1..Len(old) : wrote[k] = old[k]
      /\ \A k \in 1..Len(new) : wrote[Len(old) + k] = new[k]
  <2>1. old \in Seq(T) /\ new \in Seq(T)
    BY <1>4, <1>5
  <2>2. QED BY <2>1, Concat
<1> HIDE DEF wrote
<1>9. sent.left \in 0..Cap
  BY <1>4, <1>5, <1>8
<1>10. /\ request' \in Request /\ Reached(request') /\ Placed(request')
       /\ request'.left = sent.left /\ request'.keys = sent.keys /\ request'.wrote = wrote
  <2> DEFINE b == Billed(r, sent.left, sent.keys, wrote)
             left == sent.left
             keys == sent.keys
  <2>1. /\ wrote \in Seq(Seq(Kinds)) /\ keys \in SUBSET Seq(Kinds) /\ left \in 0..Cap
    BY <1>4, <1>8, <1>9 DEF T
  <2>2. request' = b /\ b = Billed(r, left, keys, wrote)
    BY <1>7
  <2> HIDE DEF left, keys, b
  <2>3. /\ b \in Request /\ Reached(b) /\ Placed(b)
        /\ b.left = left /\ b.keys = keys /\ b.wrote = wrote
    BY <1>2, <2>1, <2>2, BudgetAside
  <2>4. QED BY <2>2, <2>3 DEF left, keys
<1>11. Budgeted(request')
  <2>1. sent.left + Len(wrote) <= Cap
    BY <1>4, <1>5, <1>6, <1>8
  <2>2. \A i \in 1..Len(wrote) :
           IF i <= Len(old) THEN i \in 1..Len(old) /\ wrote[i] = old[i]
           ELSE i - Len(old) \in 1..Len(new) /\ wrote[i] = new[i - Len(old)]
    <3> SUFFICES ASSUME NEW i \in 1..Len(wrote), ~(i <= Len(old))
                 PROVE  i - Len(old) \in 1..Len(new) /\ wrote[i] = new[i - Len(old)]
      BY <1>8
    <3> DEFINE k == i - Len(old)
    <3>1. k \in 1..Len(new) /\ Len(old) + k = i
      BY <1>8
    <3> HIDE DEF k
    <3>2. wrote[i] = new[k]
      BY <1>8, <3>1
    <3>3. QED BY <3>1, <3>2 DEF k
  <2>3. \A i \in 1..Len(wrote) : wrote[i] \in sent.keys
    BY <1>4, <1>6, <2>2
  <2>4. ASSUME NEW i \in 1..Len(wrote), NEW j \in 1..Len(wrote), wrote[i] = wrote[j]
        PROVE  i = j
    <3>1. CASE i <= Len(old) /\ j <= Len(old)
      BY <1>6, <2>2, <2>4, <3>1
    <3>2. CASE ~(i <= Len(old)) /\ ~(j <= Len(old))
      <4>1. i - Len(old) = j - Len(old)
        BY <1>4, <2>2, <2>4, <3>2
      <4>2. QED BY <1>8, <4>1
    <3>3. CASE i <= Len(old) /\ ~(j <= Len(old))
      BY <1>4, <1>6, <2>2, <2>4, <3>3
    <3>4. CASE ~(i <= Len(old)) /\ j <= Len(old)
      BY <1>4, <1>6, <2>2, <2>4, <3>4
    <3>5. QED BY <3>1, <3>2, <3>3, <3>4
  <2>5. \A i, j \in 1..Len(wrote) : wrote[i] = wrote[j] => i = j
    BY <2>4
  <2> DEFINE b == request'
  <2>6. b.left = sent.left /\ b.keys = sent.keys /\ b.wrote = wrote
    BY <1>10
  <2> HIDE DEF b
  <2>7. Budgeted(b)
    BY <2>1, <2>3, <2>5, <2>6 DEF Budgeted
  <2>8. QED BY <2>7 DEF b
<1>12. QED BY <1>10, <1>11

LEMMA SegmentKeeps ==
    ASSUME RulesInv, Segment
    PROVE  RulesInv'
<1> DEFINE end == SegmentEnd(request)
           whole == end = Len(request.text) /\ request.next = 1
           typing == request.typing /\ end = Len(request.text)
           key == SegmentKey(request, end, typing)
           piece == Piece(request, end)
<1>1. /\ request.running /\ request.next <= Len(request.text)
      /\ FromCache(end, whole, key) \/ Expanded(end, whole, key, typing)
      /\ index' = index /\ requests' = requests /\ chunks' = chunks
  BY DEF Segment
<1>2. /\ request \in Request /\ Reached(request) /\ Placed(request) /\ Budgeted(request)
      /\ index \in [Phrases -> Batches] /\ SegmentsSound /\ RulesTypeOK
  BY DEF RulesInv, RulesTypeOK
<1>3. request.next \in Nat /\ request.next > 0 /\ request.text \in Seq(Kinds)
  BY <1>2 DEF Request, Reached
<1>4. end \in request.next..Len(request.text)
  BY <1>1, <1>2, <1>3, SegmentEndBounds
<1>5. typing \in BOOLEAN
  OBVIOUS
<1>6. key[1] = piece
  BY DEF SegmentKey
<1> HIDE DEF end, whole, typing, key
<1>7. piece \in Seq(Kinds)
  <2>1. Len(request.text) \in Nat
    BY <1>3
  <2>2. QED BY <1>3, <1>4, <2>1 DEF Piece
<1>8. ASSUME FromCache(end, whole, key)
      PROVE  /\ request' \in Request /\ Reached(request') /\ Placed(request') /\ Budgeted(request')
             /\ SegmentsSound' /\ \A e1, e2 \in segments' : e1.key = e2.key => e1 = e2
  <2>1. PICK e \in segments :
           /\ e.key = key /\ segments' = segments
           /\ request' = [Joined(request, end, e) EXCEPT !.left = Charged(@, Len(e.sent)),
                                                        !.keys = @ \cup ToSet(e.sent)]
    BY <1>8 DEF FromCache
  <2>2. e.key[1] = Piece(request, end)
    BY <1>6, <2>1
  <2>3. request' \in Request /\ Reached(request') /\ Placed(request') /\ Budgeted(request')
    BY <1>1, <1>4, <2>1, <2>2, CachedKeeps
  <2>4. SegmentsSound'
    BY <1>2, <2>1 DEF SegmentsSound
  <2>5. \A e1, e2 \in segments' : e1.key = e2.key => e1 = e2
    BY <1>2, <2>1 DEF RulesTypeOK
  <2>6. QED BY <2>3, <2>4, <2>5
<1>9. ASSUME Expanded(end, whole, key, typing)
      PROVE  /\ request' \in Request /\ Reached(request') /\ Placed(request') /\ Budgeted(request')
             /\ SegmentsSound' /\ \A e1, e2 \in segments' : e1.key = e2.key => e1 = e2
  <2> DEFINE t == Restored(piece)
             consumed == Consumed(Matches(t))
             values == Values(t, request.chosen)
             sent == Tried([left |-> request.left, keys |-> request.keys, wrote |-> << >>],
                           PhraseKeys(t, consumed) \o WordKeys(t, consumed, typing))
             fresh == Result(key, t, values, sent)
  <2>1. /\ whole \/ \A e \in segments : e.key # key
        /\ request' = [Joined(request, end, fresh) EXCEPT !.left = sent.left, !.keys = sent.keys,
                                                         !.wrote = @ \o sent.wrote]
        /\ segments' = IF whole THEN segments ELSE segments \cup {fresh}
    BY <1>9 DEF Expanded
  <2>2. Paid(sent, request.left, request.keys, Seq(Kinds)) /\ Sound(piece, fresh)
    <3>1. request.left \in Nat /\ request.keys \in SUBSET Seq(Kinds)
      BY <1>2, RulesAssumption DEF Request
    <3>2. QED BY <1>2, <1>5, <1>7, <3>1, ResultSound
  <2>3. fresh.key = key
    BY DEF Result
  <2> HIDE DEF sent, fresh
  <2>4. request' \in Request /\ Reached(request') /\ Placed(request') /\ Budgeted(request')
    BY <1>1, <1>4, <2>1, <2>2, ExpandedKeeps
  <2>5. SegmentsSound'
    BY <1>2, <1>6, <2>1, <2>2, <2>3 DEF SegmentsSound
  <2>6. \A e1, e2 \in segments' : e1.key = e2.key => e1 = e2
    BY <1>2, <2>1, <2>3 DEF RulesTypeOK
  <2>7. QED BY <2>4, <2>5, <2>6
<1>10. /\ request' \in Request /\ Reached(request') /\ Placed(request') /\ Budgeted(request')
       /\ SegmentsSound' /\ \A e1, e2 \in segments' : e1.key = e2.key => e1 = e2
  BY <1>1, <1>8, <1>9
<1>11. RulesTypeOK'
  <2>1. request'.next <= Len(request'.text) + 1
    BY <1>10 DEF Reached
  <2>2. QED BY <1>1, <1>2, <1>10, <2>1 DEF RulesTypeOK
<1>12. ChunksWhole'
  BY <1>1 DEF RulesInv, ChunksWhole
\* What is one segment is not looked up.
<1>13. ASSUME NEW s, NEW c PROVE Values(s, c)' = Values(s, c)
  BY <1>1 DEF Values
<1>14. Entire'
  <2> SUFFICES ASSUME request'.seg = 1, request'.next = Len(request'.text) + 1
               PROVE  request'.out = Join(Values(request'.shown, request'.chosen))
    BY <1>13 DEF Entire
  <2>1. request.seg \in Nat /\ Len(request.text) \in Nat /\ (request.seg = 0 => request.next = 1)
    BY <1>2 DEF Request, Reached
  <2>2. ASSUME NEW result, result.shown \in Seq(Kinds),
               LET b == Joined(request, end, result)
               IN  /\ request'.seg = b.seg /\ request'.next = b.next /\ request'.text = b.text
                   /\ request'.out = b.out /\ request'.shown = b.shown
                   /\ request'.chosen = b.chosen
        PROVE  /\ whole /\ request'.out = Join(result.values)
               /\ request'.shown = result.shown /\ request'.chosen = request.chosen
    <3>1. LET b == Joined(request, end, result)
          IN  /\ b.text = request.text /\ b.chosen = request.chosen /\ b.next = end + 1
              /\ b.seg = request.seg + 1
              /\ request.seg = 0 => b.out = Join(result.values) /\ b.shown = result.shown
      BY <1>2, <2>2, JoinedFirst
    <3>2. request.seg = 0 /\ end = Len(request.text) /\ request.next = 1
      BY <1>3, <1>4, <2>1, <2>2, <3>1
    <3>3. QED BY <2>2, <3>1, <3>2 DEF whole
  <2>3. CASE FromCache(end, whole, key)
    <3>1. PICK e \in segments :
             /\ ~whole
             /\ request' = [Joined(request, end, e) EXCEPT !.left = Charged(@, Len(e.sent)),
                                                          !.keys = @ \cup ToSet(e.sent)]
      BY <2>3 DEF FromCache
    <3>2. e.shown \in Seq(Kinds)
      BY <1>2 DEF SegmentsSound, Sound
    <3>3. LET b == Joined(request, end, e)
          IN  /\ request'.seg = b.seg /\ request'.next = b.next /\ request'.text = b.text
              /\ request'.out = b.out /\ request'.shown = b.shown
              /\ request'.chosen = b.chosen
      BY <3>1, <1>2 DEF Joined, Request
    <3>4. QED BY <2>2, <3>1, <3>2, <3>3
  <2>4. CASE Expanded(end, whole, key, typing)
    <3> DEFINE t == Restored(piece)
               consumed == Consumed(Matches(t))
               values == Values(t, request.chosen)
               sent == Tried([left |-> request.left, keys |-> request.keys, wrote |-> << >>],
                             PhraseKeys(t, consumed) \o WordKeys(t, consumed, typing))
               fresh == Result(key, t, values, sent)
    <3>1. request' = [Joined(request, end, fresh) EXCEPT !.left = sent.left, !.keys = sent.keys,
                                                        !.wrote = @ \o sent.wrote]
      BY <2>4 DEF Expanded
    <3>2. t \in Seq(Kinds)
      BY <1>7, RestoredKeepsWords
    <3>3. fresh.shown = t /\ fresh.values = values
      BY DEF Result, Primary
    <3> HIDE DEF fresh, sent, values, t
    <3>4. LET b == Joined(request, end, fresh)
          IN  /\ request'.seg = b.seg /\ request'.next = b.next /\ request'.text = b.text
              /\ request'.out = b.out /\ request'.shown = b.shown
              /\ request'.chosen = b.chosen
      BY <3>1, <1>2 DEF Joined, Request
    <3>5. /\ request'.out = Join(values) /\ request'.shown = t
          /\ request'.chosen = request.chosen
      BY <2>2, <3>2, <3>3, <3>4
    <3>6. QED BY <3>5 DEF values
  <2>5. QED BY <1>1, <2>3, <2>4
<1>15. QED BY <1>10, <1>11, <1>12, <1>14 DEF RulesInv

LEMMA FinishKeeps ==
    ASSUME RulesInv, Finish
    PROVE  RulesInv'
<1>1. /\ request \in Request /\ Reached(request) /\ Placed(request) /\ Budgeted(request)
      /\ RulesTypeOK
  BY DEF RulesInv, RulesTypeOK
<1>2. /\ request.next > Len(request.text) /\ request' = [request EXCEPT !.running = FALSE]
      /\ index' = index /\ segments' = segments /\ requests' = requests /\ chunks' = chunks
  BY DEF Finish
<1>3. /\ request' \in Request /\ request'.next = request.next /\ request'.text = request.text
      /\ request'.shown = request.shown /\ request'.out = request.out
      /\ request'.spans = request.spans /\ request'.seg = request.seg
      /\ request'.left = request.left /\ request'.wrote = request.wrote
      /\ request'.keys = request.keys /\ request'.chosen = request.chosen
  BY <1>1, <1>2 DEF Request
<1>4. Reached(request')
  <2>1. Len(request.text) \in Nat /\ request.next \in Nat /\ request.next <= Len(request.text) + 1
    BY <1>1 DEF Request, Reached
  <2>2. request.next = Len(request.text) + 1
    BY <1>2, <2>1
  <2>3. QED BY <1>1, <1>3, <2>2 DEF Reached
<1>5. Placed(request') /\ Budgeted(request')
  BY <1>1, <1>3 DEF Placed, Budgeted
<1>6. RulesTypeOK'
  BY <1>1, <1>2, <1>3 DEF RulesTypeOK
<1>7. SegmentsSound' /\ ChunksWhole'
  BY <1>2 DEF RulesInv, SegmentsSound, ChunksWhole
<1>8. Entire'
  BY <1>2, <1>3, IndexStays
<1>9. QED BY <1>4, <1>5, <1>6, <1>7, <1>8 DEF RulesInv

LEMMA ReviewKeeps ==
    ASSUME RulesInv, Review
    PROVE  RulesInv'
<1>1. PICK n \in 1..MaxReview, max \in 1..MaxReview, pack \in BOOLEAN :
         \E ends \in SUBSET (1..n), nl \in SUBSET (1..n), a \in 1..n : \E b \in a..n :
            chunks' = [n |-> n, max |-> max, literal |-> <<a, b>>,
                       pieces |-> Chunked(n, ends, nl, <<a, b>>, pack, max)]
  BY DEF Review
<1>2. PICK ends \in SUBSET (1..n), nl \in SUBSET (1..n), a \in 1..n : \E b \in a..n :
            chunks' = [n |-> n, max |-> max, literal |-> <<a, b>>,
                       pieces |-> Chunked(n, ends, nl, <<a, b>>, pack, max)]
  BY <1>1
<1>3. PICK b \in a..n :
            chunks' = [n |-> n, max |-> max, literal |-> <<a, b>>,
                       pieces |-> Chunked(n, ends, nl, <<a, b>>, pack, max)]
  BY <1>2
<1> DEFINE literal == <<a, b>>
           c == Chunked(n, ends, nl, literal, pack, max)
<1>4. n \in Nat \ {0} /\ max \in Nat \ {0} /\ ends \in SUBSET Nat /\ nl \in SUBSET Nat
  BY RulesAssumption
<1>5. literal \in (1..n) \X (1..n)
  BY <1>4
<1>6. /\ chunks'.n = n /\ chunks'.max = max /\ chunks'.literal = literal /\ chunks'.pieces = c
  BY <1>3
<1> HIDE DEF literal
<1>7. Whole(c, 0, n, max, literal)
  BY <1>4, <1>5, ChunkedWhole
<1>8. literal[1] > 0
  BY <1>4, <1>5
<1> HIDE DEF c
<1>9. ChunksWhole'
  BY <1>6, <1>7, <1>8 DEF ChunksWhole, Whole
<1>10. /\ RulesTypeOK' /\ Reached(request') /\ Placed(request') /\ Budgeted(request')
       /\ SegmentsSound'
  BY DEF Review, RulesInv, RulesTypeOK, SegmentsSound
<1>11. Entire'
  BY IndexStays DEF Review
<1>12. QED BY <1>9, <1>10, <1>11 DEF RulesInv

\* The inductive invariant the theorems about the rules rest on: of a request
\* after some of its segments, of every cached segment, of the last cut for
\* the verifier.
THEOREM RulesInvariance == RulesSpec => []RulesInv
<1>1. RulesInit => RulesInv
  BY RulesInitial
<1>2. RulesInv /\ [RulesNext]_rules => RulesInv'
  <2> SUFFICES ASSUME RulesInv, [RulesNext]_rules PROVE RulesInv'
    OBVIOUS
  <2>1. CASE Start
    BY <2>1, StartKeeps
  <2>2. CASE Segment
    BY <2>2, SegmentKeeps
  <2>3. CASE Finish
    BY <2>3, FinishKeeps
  <2>4. CASE Review
    BY <2>4, ReviewKeeps
  <2>5. CASE UNCHANGED rules
    <3>1. Entire'
      BY <2>5, IndexStays DEF rules
    <3>2. QED BY <2>5, <3>1 DEF rules, RulesInv, RulesTypeOK, SegmentsSound, ChunksWhole
  <2>6. QED BY <2>1, <2>2, <2>3, <2>4, <2>5 DEF RulesNext
<1>3. QED BY <1>1, <1>2, PTL DEF RulesSpec

\* Each request stays one after every segment, from the cache or not, with a
\* budget that is never overdrawn; and the cache holds one result for a key.
THEOREM RulesTyped == RulesSpec => []RulesTypeOK
<1>1. RulesInv => RulesTypeOK
  BY DEF RulesInv
<1>2. QED BY <1>1, RulesInvariance, PTL

\* Whatever text is cut, wherever its sentences end and whichever segments
\* come from the cache: no word is lost, doubled or moved, and only a word
\* without its accents is changed.
THEOREM WordsAlwaysKept == RulesSpec => []WordsKept
<1>1. RulesInv => WordsKept
  <2> SUFFICES ASSUME RulesInv, ~request.running
               PROVE  /\ Len(request.shown) = Len(request.text)
                      /\ \A i \in 1..Len(request.text) :
                            IF request.text[i] = "d0" THEN request.shown[i] \in Accented
                            ELSE request.shown[i] = request.text[i]
    BY DEF WordsKept
  <2>1. request \in Request /\ Reached(request)
    BY DEF RulesInv, RulesTypeOK
  <2>2. Len(request.text) \in Nat
    BY <2>1 DEF Request
  <2>3. request.next - 1 = Len(request.text)
    BY <2>1, <2>2 DEF Reached
  <2>4. QED BY <2>1, <2>3 DEF Reached
<1>2. QED BY <1>1, RulesInvariance, PTL

\* The spans measured within a segment, and moved by what was joined before
\* it, hold the letters they say, after every segment.
THEOREM SpansAlwaysTell == RulesSpec => []SpansTell
<1>1. RulesInv => SpansTell
  BY DEF RulesInv, Placed, Fit, SpansTell
<1>2. QED BY <1>1, RulesInvariance, PTL

\* Whatever segments a request has and whichever are cached, it writes no more
\* words for moderation than its budget, and none of them twice.
THEOREM PendingAlwaysBounded == RulesSpec => []PendingBounded
<1>1. RulesInv => PendingBounded
  <2> SUFFICES ASSUME RulesInv PROVE PendingBounded
    OBVIOUS
  <2>1. request \in Request /\ Budgeted(request)
    BY DEF RulesInv, RulesTypeOK
  <2> DEFINE T == Seq(Kinds)
             wrote == request.wrote
  <2>2. wrote \in Seq(T) /\ request.left \in Nat /\ Cap \in Nat
    BY <2>1, RulesAssumption DEF Request
  <2>3. /\ request.left + Len(wrote) <= Cap
        /\ \A i, j \in 1..Len(wrote) : wrote[i] = wrote[j] => i = j
    BY <2>1 DEF Budgeted
  <2>4. PendingBounded <=> /\ Len(wrote) <= Cap
                           /\ \A i, j \in 1..Len(wrote) : wrote[i] = wrote[j] => i = j
    BY DEF PendingBounded
  <2> HIDE DEF T, wrote
  <2>5. Len(wrote) \in Nat
    BY <2>2
  <2>6. Len(wrote) <= Cap
    BY <2>2, <2>3, <2>5
  <2>7. QED BY <2>3, <2>4, <2>6
<1>2. QED BY <1>1, RulesInvariance, PTL

\* The verifier's chunks are a text of any length, whatever its sentences,
\* line breaks and literal, packed or not.
THEOREM ChunksAlwaysWhole == RulesSpec => []ChunksWhole
<1>1. RulesInv => ChunksWhole
  BY DEF RulesInv
<1>2. QED BY <1>1, RulesInvariance, PTL

----------------------------------------------------------------------------
(* The output of a text is that of its reference reading. *)

\* The words of t alone, and no abbreviation with two meanings.
Plain(t) == \A i \in 1..Len(t) : t[i] \in Alpha /\ t[i] # "m"

\* In a text of words the matches are what the scan found.
LEMMA MatchesAll ==
    ASSUME NEW t \in Seq(Kinds), Plain(t)
    PROVE  Matches(t) = {[first |-> x[1], last |-> x[2], phrase |-> SubSeq(t, x[1], x[2])] :
                            x \in ToSet(Scan(Phrases, MaxNgram, t))}
<1> DEFINE words == WordsOf(t)
           s == [i \in 1..Len(words) |-> t[words[i]]]
           spans == ToSet(Scan(Phrases, MaxNgram, t))
           M(x) == [first |-> words[x[1]], last |-> words[x[2]],
                    phrase |-> [i \in 1..(x[2] - x[1] + 1) |-> t[words[x[1] + i - 1]]]]
           Placing(x) == [first |-> x[1], last |-> x[2], phrase |-> SubSeq(t, x[1], x[2])]
<1>1. Len(t) \in Nat /\ Len(words) = Len(t) /\ \A i \in 1..Len(t) : words[i] = i
  BY WordsOfAll DEF Plain
<1> HIDE DEF words
<1>2. s = t
  <2>1. s = [i \in 1..Len(t) |-> t[i]]
    BY <1>1
  <2>2. QED BY <2>1
<1>3. Matches(t) = {M(x) : x \in ToSet(Scan(Phrases, MaxNgram, s))}
  BY DEF Matches, words
<1> HIDE DEF s
<1>4. Matches(t) = {M(x) : x \in spans}
  BY <1>2, <1>3
<1>5. ASSUME NEW x \in spans PROVE M(x) = Placing(x)
  <2> DEFINE a == x[1]
             b == x[2]
  <2>1. a \in 1..Len(t) /\ b \in 1..Len(t) /\ a <= b
    BY <1>1, ScanFindsPhrases DEF Found
  <2> HIDE DEF a, b
  <2>2. words[a] = a /\ words[b] = b
    BY <1>1, <2>1
  <2>3. SubSeq(t, a, b) = [i \in 1..(b - a + 1) |-> t[a + i - 1]]
    BY <1>1, <2>1
  <2>4. \A i \in 1..(b - a + 1) : words[a + i - 1] = a + i - 1
    BY <1>1, <2>1
  <2>5. [i \in 1..(b - a + 1) |-> t[words[a + i - 1]]] = SubSeq(t, a, b)
    BY <2>3, <2>4
  <2>6. QED BY <2>2, <2>5 DEF a, b
<1> HIDE DEF M, Placing, spans
<1>6. Matches(t) = {Placing(x) : x \in spans}
  BY <1>4, <1>5
<1>7. QED BY <1>6 DEF Placing, spans

\* What such a text shows at a place: a word, the source of a phrase that
\* begins there, or nothing inside a phrase.
LEMMA PlainValues ==
    ASSUME NEW t \in Seq(Kinds), Plain(t), NEW chosen, NEW i \in 1..Len(t),
           NEW spans, spans = ToSet(Scan(Phrases, MaxNgram, t))
    PROVE  /\ (\A x \in spans : ~(x[1] <= i /\ i <= x[2])) =>
                 Values(t, chosen)[i] = IF t[i] = "k" THEN Meaning("k", 1) ELSE Typed(t[i])
           /\ \A x \in spans : x[1] = i /\ (\A y \in spans : y[1] = i => y = x) =>
                 Values(t, chosen)[i] = <<index[SubSeq(t, x[1], x[2])], "~">>
           /\ (\E x \in spans : x[1] <= i /\ i <= x[2]) /\ (\A y \in spans : y[1] # i) =>
                 Values(t, chosen)[i] = << >>
<1> DEFINE matches == Matches(t)
           consumed == Consumed(matches)
           starting == {m \in matches : m.first = i}
           Placing(x) == [first |-> x[1], last |-> x[2], phrase |-> SubSeq(t, x[1], x[2])]
<1>1. matches = {Placing(x) : x \in spans}
  BY MatchesAll
<1>2. Len(t) \in Nat /\ \A x \in spans : x[1] \in 1..Len(t) /\ x[2] \in 1..Len(t) /\ x[1] <= x[2]
  BY ScanFindsPhrases DEF Found
<1>3. i \in consumed <=> \E x \in spans : x[1] <= i /\ i <= x[2]
  <2>1. i \in consumed <=> \E m \in matches : i \in m.first..m.last
    BY DEF Consumed
  <2>2. \A x \in spans : i \in Placing(x).first..Placing(x).last <=> x[1] <= i /\ i <= x[2]
    BY <1>2
  <2> HIDE DEF Placing, matches
  <2>3. QED BY <1>1, <2>1, <2>2
<1>4. /\ t[i] # "m"
      /\ Values(t, chosen)[i] =
            IF i \in consumed
            THEN IF starting = {} THEN << >>
                 ELSE <<index[(CHOOSE m \in starting : TRUE).phrase], "~">>
            ELSE CASE t[i] = "k" -> Meaning("k", 1)
                   [] t[i] = "m" -> Selected(t, IF FirstM(t, consumed, i) THEN chosen ELSE NoChoice)
                   [] OTHER -> Typed(t[i])
  BY DEF Values, Plain
<1>5. starting = {Placing(x) : x \in {y \in spans : y[1] = i}}
  BY <1>1
<1> HIDE DEF consumed, starting
<1>0. \A x : Placing(x).phrase = SubSeq(t, x[1], x[2])
  OBVIOUS
<1> HIDE DEF Placing
<1>6. ASSUME \A x \in spans : ~(x[1] <= i /\ i <= x[2])
      PROVE  Values(t, chosen)[i] = IF t[i] = "k" THEN Meaning("k", 1) ELSE Typed(t[i])
  BY <1>3, <1>4, <1>6
<1>7. ASSUME NEW x \in spans, x[1] = i, \A y \in spans : y[1] = i => y = x
      PROVE  Values(t, chosen)[i] = <<index[SubSeq(t, x[1], x[2])], "~">>
  <2>1. i \in consumed
    BY <1>2, <1>3, <1>7
  <2>2. starting = {Placing(x)}
    BY <1>5, <1>7
  <2>3. (CHOOSE m \in starting : TRUE) = Placing(x)
    BY <2>2
  <2>4. (CHOOSE m \in starting : TRUE).phrase = SubSeq(t, x[1], x[2])
    BY <1>0, <2>3
  <2>5. QED BY <1>4, <2>1, <2>2, <2>4
<1>8. ASSUME \E x \in spans : x[1] <= i /\ i <= x[2], \A y \in spans : y[1] # i
      PROVE  Values(t, chosen)[i] = << >>
  <2>1. i \in consumed
    BY <1>3, <1>8
  <2>2. starting = {}
    BY <1>5, <1>8
  <2>3. QED BY <1>4, <2>1, <2>2
<1>9. QED BY <1>6, <1>7, <1>8

\* Reference is a function that recurs towards the end of t.
Reads(f, t) ==
    /\ Reference(t) = f[1] /\ f[Len(t) + 1] = << >>
    /\ \A i \in 1..Len(t) :
          LET e == Longest(Phrases, MaxNgram, t, i)
          IN  f[i] = IF e < i THEN <<<<t[i]>>>> \o f[i + 1] ELSE <<SubSeq(t, i, e)>> \o f[e + 1]

LEMMA ReferenceRecurs ==
    ASSUME NEW t, Len(t) \in Nat
    PROVE  \E f : Reads(f, t)
<1> DEFINE n == Len(t)
           C(i) == {e \in i..n : e - i < MaxNgram /\ SubSeq(t, i, e) \in Phrases}
           E(f, i) == IF i > n THEN << >>
                      ELSE IF C(i) # {} THEN <<SubSeq(t, i, Largest(C(i)))>> \o f[Largest(C(i)) + 1]
                      ELSE <<<<t[i]>>>> \o f[i + 1]
           Down(k, f) == f = [i \in k..(n + 1) |-> E(f, i)]
           S == {d \in Nat : d <= n => \E f : Down(n + 1 - d, f)}
<1>1. n \in Nat /\ \A i \in 1..n : C(i) # {} => Largest(C(i)) \in i..n
  <2>1. ASSUME NEW i \in 1..n, C(i) # {} PROVE Largest(C(i)) \in i..n
    <3> DEFINE D == C(i)
    <3>1. D \in SUBSET Nat /\ D # {} /\ D \subseteq i..n /\ (\A x \in D : x <= n) /\ n \in Nat
      BY <2>1
    <3> HIDE DEF D
    <3>2. Largest(D) \in D
      BY <3>1, Greatest
    <3>3. QED BY <3>1, <3>2 DEF D
  <2>2. QED BY <2>1
<1>2. ASSUME NEW f, NEW g, NEW i \in 1..(n + 1), \A j \in (i + 1)..(n + 1) : f[j] = g[j]
      PROVE  E(f, i) = E(g, i)
  <2> HIDE DEF n, C
  <2>1. CASE i > n
    BY <2>1
  <2>2. CASE i <= n /\ C(i) = {}
    <3>1. i + 1 \in (i + 1)..(n + 1)
      BY <1>1, <2>2
    <3>2. f[i + 1] = g[i + 1]
      BY <1>2, <3>1
    <3>3. QED BY <1>1, <2>2, <3>2
  <2>3. CASE i <= n /\ C(i) # {}
    <3>1. Largest(C(i)) + 1 \in (i + 1)..(n + 1)
      BY <1>1, <2>3
    <3>2. f[Largest(C(i)) + 1] = g[Largest(C(i)) + 1]
      BY <1>2, <3>1
    <3>3. QED BY <1>1, <2>3, <3>2
  <2>4. QED BY <1>1, <2>1, <2>2, <2>3
<1>3. 0 \in S
  <2>1. Down(n + 1, [i \in (n + 1)..(n + 1) |-> << >>])
    BY <1>1
  <2>2. n + 1 - 0 = n + 1
    BY <1>1
  <2> HIDE DEF Down, n
  <2>3. QED BY <2>1, <2>2
<1>4. ASSUME NEW d \in Nat, d \in S PROVE d + 1 \in S
  <2> SUFFICES ASSUME d + 1 <= n PROVE \E f : Down(n + 1 - (d + 1), f)
    <3> HIDE DEF Down, n
    <3>1. QED OBVIOUS
  <2> DEFINE k == n + 1 - (d + 1)
  <2>1. k \in 1..n /\ n + 1 - d = k + 1 /\ d <= n
    BY <1>1
  <2>2. PICK f : Down(k + 1, f)
    <3> HIDE DEF Down, n, k
    <3>1. QED BY <1>4, <2>1
  <2> DEFINE g == [i \in k..(n + 1) |-> IF i = k THEN E(f, k) ELSE f[i]]
  <2> HIDE DEF n, E, k
  <2>3. /\ DOMAIN g = k..(n + 1) /\ g[k] = E(f, k)
        /\ \A i \in (k + 1)..(n + 1) : g[i] = f[i] /\ f[i] = E(f, i)
    <3>1. DOMAIN g = k..(n + 1) /\ g[k] = E(f, k)
      BY <1>1, <2>1
    <3>2. ASSUME NEW i \in (k + 1)..(n + 1) PROVE g[i] = f[i] /\ f[i] = E(f, i)
      <4>1. f[i] = E(f, i)
        BY <2>2
      <4>2. i \in k..(n + 1) /\ i # k
        BY <1>1, <2>1
      <4>3. QED BY <4>1, <4>2
    <3>3. QED BY <3>1, <3>2
  <2>4. ASSUME NEW i \in k..(n + 1) PROVE g[i] = E(g, i)
    <3> HIDE DEF g
    <3>1. i \in 1..(n + 1) /\ \A j \in (i + 1)..(n + 1) : f[j] = g[j]
      BY <1>1, <2>1, <2>3
    <3>2. E(f, i) = E(g, i)
      BY <1>2, <3>1
    <3>3. g[i] = E(f, i)
      BY <1>1, <2>1, <2>3
    <3>4. QED BY <3>2, <3>3
  <2>5. Down(k, g)
    BY <2>3, <2>4
  <2> HIDE DEF Down, g
  <2>6. QED BY <2>5 DEF k
<1>5. \E f : Down(1, f)
  <2> HIDE DEF Down
  <2>1. Nat \subseteq S
    BY <1>3, <1>4, SetInduction
  <2>2. n + 1 - n = 1
    BY <1>1
  <2>3. QED BY <1>1, <2>1, <2>2
<1> DEFINE f == CHOOSE f : Down(1, f)
<1>6. Down(1, f)
  BY <1>5, Zenon
<1>7. Reference(t) = f[1]
  BY DEF Reference
<1> HIDE DEF f
<1>8. ASSUME NEW i \in 1..(n + 1) PROVE f[i] = E(f, i)
  <2> HIDE DEF E, n
  <2>1. QED BY <1>6
<1>9. f[n + 1] = << >>
  <2>1. n + 1 \in 1..(n + 1) /\ n + 1 > n
    BY <1>1
  <2>2. f[n + 1] = E(f, n + 1)
    BY <1>8, <2>1
  <2> HIDE DEF n
  <2>3. QED BY <2>1, <2>2
<1>10. ASSUME NEW i \in 1..n
       PROVE  LET e == Longest(Phrases, MaxNgram, t, i)
              IN  f[i] = IF e < i THEN <<<<t[i]>>>> \o f[i + 1] ELSE <<SubSeq(t, i, e)>> \o f[e + 1]
  <2> DEFINE e == Longest(Phrases, MaxNgram, t, i)
  <2>1. i \in 1..(n + 1) /\ ~(i > n)
    BY <1>1
  <2>2. f[i] = E(f, i)
    BY <1>8, <2>1
  <2>3. e = IF C(i) = {} THEN i - 1 ELSE Largest(C(i))
    BY DEF Longest
  <2> HIDE DEF C, n, e
  <2>4. CASE C(i) = {}
    <3>1. e < i
      BY <2>3, <2>4
    <3>2. f[i] = <<<<t[i]>>>> \o f[i + 1]
      BY <2>1, <2>2, <2>4
    <3>3. QED BY <3>1, <3>2 DEF e
  <2>5. CASE C(i) # {}
    <3>1. e = Largest(C(i)) /\ ~(e < i)
      BY <1>1, <2>3, <2>5
    <3>2. f[i] = <<SubSeq(t, i, e)>> \o f[e + 1]
      BY <2>1, <2>2, <2>5, <3>1
    <3>3. QED BY <3>1, <3>2 DEF e
  <2>6. QED BY <2>4, <2>5
<1>11. Reads(f, t)
  BY <1>7, <1>9, <1>10 DEF Reads
<1>12. QED BY <1>11

\* The value of an item of the reference reading.
ValueOf(f) ==
    IF f \in Phrases THEN <<index[f], "~">>
    ELSE CASE f[1] = "k" -> Meaning("k", 1) [] OTHER -> Typed(f[1])

\* The rest of want after its first c items.
Rest(rest, want, c) ==
    Len(want) = c + Len(rest) /\ \A k \in 1..Len(rest) : want[c + k] = rest[k]

LEMMA NextItem ==
    ASSUME NEW T, NEW want, NEW c \in Nat, NEW x \in T, NEW rest \in Seq(T), NEW show,
           show = <<x>> \o rest, Rest(show, want, c)
    PROVE  /\ c + 1 \in 1..Len(want) /\ want[c + 1] = x
           /\ Rest(rest, want, c + 1)
<1>0. Len(want) = c + Len(show) /\ \A k \in 1..Len(show) : want[c + k] = show[k]
  BY DEF Rest
<1>1. /\ show \in Seq(T) /\ Len(rest) \in Nat /\ Len(show) = Len(rest) + 1
      /\ show[1] = x
      /\ \A k \in 1..Len(rest) : show[k + 1] = rest[k]
  BY Before
<1>2. c + 1 \in 1..Len(want) /\ Len(want) = (c + 1) + Len(rest)
  BY <1>0, <1>1
<1>3. want[c + 1] = x
  BY <1>0, <1>1
<1>4. ASSUME NEW k \in 1..Len(rest) PROVE want[(c + 1) + k] = rest[k]
  <2>1. k + 1 \in 1..Len(show) /\ (c + 1) + k = c + (k + 1)
    BY <1>1
  <2>2. want[c + (k + 1)] = show[k + 1]
    BY <1>0, <2>1
  <2>3. QED BY <1>1, <2>1, <2>2
<1>5. QED BY <1>1, <1>2, <1>3, <1>4 DEF Rest

\* The values of a sequence.
LEMMA Listed ==
    ASSUME NEW T, NEW s \in Seq(T)
    PROVE  ToSet(s) = {s[k] : k \in 1..Len(s)}
<1>1. DOMAIN s = 1..Len(s)
  OBVIOUS
<1>2. QED BY <1>1 DEF ToSet

LEMMA PlainShown ==
    ASSUME NEW t \in Seq(Kinds), Plain(t), NEW chosen
    PROVE  Join(Values(t, chosen)) =
              Join([i \in 1..Len(Reference(t)) |-> ValueOf(Reference(t)[i])])
<1> DEFINE n == Len(t)
           L(i) == Longest(Phrases, MaxNgram, t, i)
           T == Seq(Kinds)
           values == Values(t, chosen)
           want == Reference(t)
           ws == [i \in 1..Len(want) |-> ValueOf(want[i])]
           spans == ToSet(Scan(Phrases, MaxNgram, t))
           O(i) == Outputs(values)[i]
           Q(i) == Outputs(ws)[i]
<1>1. n \in Nat /\ \A i \in 1..n : t[i] \in Kinds /\ t[i] # "m"
  BY DEF Plain
<1>2. \A i \in 1..n : L(i) = i - 1 \/ (L(i) \in i..n /\ SubSeq(t, i, L(i)) \in Phrases)
  BY <1>1, LongestIsPhrase
<1>3. PICK f : Scans(f, Phrases, MaxNgram, t)
  BY <1>1, ScanRecurs
<1>4. PICK show : Reads(show, t)
  BY <1>1, ReferenceRecurs
<1>5. /\ Scan(Phrases, MaxNgram, t) = f[1] /\ f[n + 1] = << >>
      /\ \A i \in 1..n : f[i] = IF L(i) < i THEN f[i + 1] ELSE <<<<i, L(i)>>>> \o f[L(i) + 1]
  BY <1>3 DEF Scans
<1>6. /\ want = show[1] /\ show[n + 1] = << >>
      /\ \A i \in 1..n : show[i] = IF L(i) < i THEN <<<<t[i]>>>> \o show[i + 1]
                                   ELSE <<SubSeq(t, i, L(i))>> \o show[L(i) + 1]
  BY <1>4 DEF Reads
<1>7. \A i \in 1..(n + 1) : f[i] \in Seq(After(Phrases, t, i))
  BY <1>1, <1>3, ScanFinds
<1>8. \A i \in 1..n : <<t[i]>> \in T /\ (L(i) \in i..n => SubSeq(t, i, L(i)) \in T)
  <2>1. ASSUME NEW i \in 1..n PROVE <<t[i]>> \in T
    BY <1>1, One
  <2>2. ASSUME NEW i \in 1..n, L(i) \in i..n PROVE SubSeq(t, i, L(i)) \in T
    <3> DEFINE e == L(i)
    <3>1. e \in i..n
      BY <2>2
    <3> HIDE DEF e
    <3>2. SubSeq(t, i, e) \in Seq(Kinds)
      BY <1>1, <3>1
    <3>3. QED BY <3>2 DEF e
  <2>3. QED BY <2>1, <2>2
\* A place that no phrase begins at is no phrase by itself.
<1>9. ASSUME NEW i \in 1..n, L(i) < i PROVE <<t[i]>> \notin Phrases
  <2> DEFINE C == {e \in i..n : e - i < MaxNgram /\ SubSeq(t, i, e) \in Phrases}
  <2>1. C = {}
    <3> SUFFICES ASSUME C # {} PROVE FALSE
      OBVIOUS
    <3>1. L(i) = Largest(C)
      BY DEF Longest
    <3>2. C \in SUBSET Nat /\ C \subseteq i..n /\ \A x \in C : x <= n
      BY <1>1
    <3>0. L(i) < i
      BY <1>9
    <3> HIDE DEF C, L
    <3>3. Largest(C) \in C
      BY <1>1, <3>2, Greatest
    <3>4. Largest(C) \in i..n /\ Largest(C) < i
      BY <3>0, <3>1, <3>2, <3>3
    <3> DEFINE e == Largest(C)
    <3> HIDE DEF e, n
    <3>5. QED BY <3>4 DEF e
  <2>2. i \in i..n /\ i - i < MaxNgram
    BY <1>1, RulesAssumption
  <2>3. SubSeq(t, i, i) = <<t[i]>>
    <3> DEFINE m == i - 1
               a == SubSeq(t, m + 1, i)
               b == <<t[i]>>
    <3>1. m \in Nat /\ m <= i /\ i <= n /\ m + 1 = i /\ i - m = 1 /\ i \in Nat
      BY <1>1
    <3>2. t[i] \in Kinds
      BY <1>1
    <3>3. b \in Seq(Kinds) /\ Len(b) = 1 /\ b[1] = t[i]
      BY <3>2, One
    <3> HIDE DEF m
    <3>4. a \in Seq(Kinds) /\ Len(a) = i - m /\ \A k \in 1..(i - m) : a[k] = t[m + k]
      BY <3>1, Sub
    <3> HIDE DEF a, b
    <3>5. Len(a) = Len(b) /\ \A k \in 1..Len(a) : a[k] = b[k]
      BY <3>1, <3>3, <3>4
    <3>6. a = b
      BY <3>3, <3>4, <3>5, Same
    <3>7. QED BY <3>1, <3>6 DEF a, b
  <2>4. QED BY <2>1, <2>2, <2>3
<1>10. Len(values) = n /\ O(0) = << >> /\ \A i \in 1..n : O(i) = Extended(O(i - 1), values[i])
  <2>1. Len(values) = n
    BY <1>1 DEF Values
  <2> HIDE DEF values
  <2>2. QED BY <1>1, <2>1, OutputsRecurs
<1>11. /\ \A x \in spans : x[1] \in 1..n /\ x[2] \in 1..n /\ x[1] <= x[2]
  BY <1>1, ScanFindsPhrases DEF Found
<1>12. ASSUME NEW i \in 1..n
       PROVE  /\ (\A x \in spans : ~(x[1] <= i /\ i <= x[2])) =>
                    values[i] = IF t[i] = "k" THEN Meaning("k", 1) ELSE Typed(t[i])
              /\ \A x \in spans : x[1] = i /\ (\A y \in spans : y[1] = i => y = x) =>
                    values[i] = <<index[SubSeq(t, x[1], x[2])], "~">>
              /\ (\E x \in spans : x[1] <= i /\ i <= x[2]) /\ (\A y \in spans : y[1] # i) =>
                    values[i] = << >>
  BY PlainValues
<1>13. ToSet(f[1]) = spans
  BY <1>5
<1> HIDE DEF L, T, n, values, spans
\* The reading is one of sequences of words.
<1>14. \A i \in 1..(n + 1) : show[i] \in Seq(T)
  <2> DEFINE S == {i \in 1..(n + 1) : show[i] \in Seq(T)}
  <2>1. ASSUME NEW i \in 1..(n + 1), \A j \in (i + 1)..(n + 1) : j \in S PROVE i \in S
    <3>1. CASE i = n + 1
      <4>1. show[i] \in Seq(T)
        BY <1>6, <3>1, EmptySeq
      <4>2. QED BY <4>1
    <3>2. ASSUME NEW x \in T, NEW j \in (i + 1)..(n + 1), show[i] = <<x>> \o show[j]
          PROVE  i \in S
      <4> DEFINE rest == show[j]
                 new == <<x>> \o rest
      <4>1. rest \in Seq(T) /\ show[i] = new
        BY <2>1, <3>2
      <4> HIDE DEF rest
      <4>2. new \in Seq(T)
        BY <4>1, Before
      <4> HIDE DEF new
      <4>3. QED BY <4>1, <4>2
    <3>3. CASE i \in 1..n /\ L(i) < i
      <4>1. i + 1 \in (i + 1)..(n + 1)
        BY <1>1, <3>3
      <4>2. <<t[i]>> \in T /\ show[i] = <<<<t[i]>>>> \o show[i + 1]
        BY <1>6, <1>8, <3>3
      <4>3. QED BY <3>2, <4>1, <4>2
    <3>4. CASE i \in 1..n /\ ~(L(i) < i)
      <4>1. L(i) \in i..n /\ L(i) + 1 \in (i + 1)..(n + 1)
        BY <1>1, <1>2, <3>4
      <4>2. SubSeq(t, i, L(i)) \in T /\ show[i] = <<SubSeq(t, i, L(i))>> \o show[L(i) + 1]
        BY <1>6, <1>8, <3>4, <4>1
      <4>3. QED BY <3>2, <4>1, <4>2
    <3>5. QED BY <1>1, <3>1, <3>3, <3>4
  <2>2. 1..(n + 1) \subseteq S
    <3> HIDE DEF S
    <3>1. n + 1 \in Nat
      BY <1>1
    <3>2. QED BY <2>1, <3>1, Downward
  <2>3. QED BY <2>2
<1>15. Len(want) \in Nat
  <2>1. want \in Seq(T)
    BY <1>1, <1>6, <1>14
  <2> HIDE DEF want
  <2>2. QED BY <2>1
<1>16. /\ Len(ws) = Len(want) /\ Q(0) = << >>
       /\ \A c \in 1..Len(want) : Q(c) = Extended(Q(c - 1), ValueOf(want[c]))
  <2>1. Len(ws) = Len(want) /\ \A c \in 1..Len(want) : ws[c] = ValueOf(want[c])
    BY <1>15
  <2> HIDE DEF ws, want
  <2>2. QED BY <1>15, <2>1, OutputsRecurs
<1> HIDE DEF want, ws, O, Q
\* Word i is reached with c items of the reading behind it.
<1> DEFINE Behind(i, c) ==
              /\ Rest(show[i], want, c)
              /\ O(i - 1) = Q(c)
              /\ \A x \in spans : x[2] < i \/ x \in ToSet(f[i])
              /\ ToSet(f[i]) \subseteq spans
           S == {i \in 1..(n + 1) : \E c \in Nat : Behind(i, c)}
<1>17. 1 \in S
  <2>1. Behind(1, 0)
    <3>1. show[1] = want /\ 1 - 1 = 0 /\ O(0) = Q(0) /\ ToSet(f[1]) = spans
      BY <1>6, <1>10, <1>13, <1>16
    <3>2. Rest(want, want, 0)
      BY <1>15 DEF Rest
    <3>3. QED BY <3>1, <3>2
  <2> HIDE DEF Behind
  <2>2. QED BY <1>1, <2>1
\* What the scan finds behind a place begins there or later.
<1>18. ASSUME NEW i \in 1..(n + 1), NEW x \in ToSet(f[i]) PROVE x[1] >= i
  <2>1. x \in After(Phrases, t, i)
    BY <1>7 DEF ToSet
  <2>2. QED BY <2>1 DEF After
<1>19. ASSUME NEW i \in S, i \in 1..n, L(i) < i PROVE i + 1 \in S
  <2>1. PICK c \in Nat : Behind(i, c)
    BY <1>19
  <2> DEFINE item == <<t[i]>>
             rest == show[i + 1]
             all == show[i]
  <2> HIDE DEF Behind, S
  <2>0. i \in 1..n /\ L(i) < i
    BY <1>19
  <2>3. i + 1 \in 1..(n + 1) /\ (i + 1) - 1 = i
    BY <1>1, <2>0
  <2>31. f[i] = f[i + 1]
    BY <1>5, <2>0
  <2>2. item \in T /\ rest \in Seq(T) /\ all = <<item>> \o rest
    <3>1. item \in T
      BY <1>8, <2>0
    <3>2. rest \in Seq(T)
      BY <1>14, <2>3
    <3>3. all = <<item>> \o rest
      BY <1>6, <2>0
    <3>4. QED BY <3>1, <3>2, <3>3
  <2>4. values[i] = ValueOf(item)
    <3>1. \A x \in spans : ~(x[1] <= i /\ i <= x[2])
      <4> SUFFICES ASSUME NEW x \in spans, x[1] <= i, i <= x[2] PROVE FALSE
        OBVIOUS
      <4>1. x[1] \in 1..n /\ x[2] \in 1..n
        BY <1>11
      <4>2. ~(x[2] < i)
        BY <2>0, <1>1, <4>1
      <4>3. x \in ToSet(f[i + 1])
        BY <2>1, <2>31, <4>2 DEF Behind
      <4>4. x[1] >= i + 1
        BY <1>18, <2>3, <4>3
      <4>5. QED BY <2>0, <1>1, <4>1, <4>4
    <3>2. values[i] = IF t[i] = "k" THEN Meaning("k", 1) ELSE Typed(t[i])
      BY <1>12, <2>0, <3>1
    <3>3. item \notin Phrases /\ item[1] = t[i]
      BY <1>9, <2>0
    <3> HIDE DEF item
    <3>4. QED BY <3>2, <3>3 DEF ValueOf
  <2>5. O(i) = Extended(O(i - 1), values[i])
    BY <1>10, <2>0
  <2>61. Rest(all, want, c)
    BY <2>1 DEF Behind
  <2> HIDE DEF item, rest, all
  <2>6. c + 1 \in 1..Len(want) /\ want[c + 1] = item /\ Rest(rest, want, c + 1)
    BY <2>2, <2>61, NextItem
  <2>7. Q(c + 1) = Extended(Q(c), ValueOf(item))
    <3>1. (c + 1) - 1 = c
      OBVIOUS
    <3>2. QED BY <1>16, <2>6, <3>1
  <2>8. O((i + 1) - 1) = Q(c + 1)
    BY <2>1, <2>3, <2>4, <2>5, <2>7 DEF Behind
  <2>9. /\ \A x \in spans : x[2] < i + 1 \/ x \in ToSet(f[i + 1])
        /\ ToSet(f[i + 1]) \subseteq spans
    <3>1. ASSUME NEW x \in spans, x[2] < i PROVE x[2] < i + 1
      BY <2>0, <1>11, <1>1, <3>1
    <3>2. QED BY <2>1, <2>31, <3>1 DEF Behind
  <2>10. Behind(i + 1, c + 1)
    BY <2>6, <2>8, <2>9 DEF Behind, rest
  <2>11. QED BY <2>3, <2>10 DEF S
<1>20. ASSUME NEW i \in S, i \in 1..n, ~(L(i) < i) PROVE L(i) + 1 \in S
  <2>1. PICK c \in Nat : Behind(i, c)
    BY <1>20
  <2> DEFINE e == L(i)
             item == SubSeq(t, i, e)
             here == <<i, e>>
             rest == f[e + 1]
             left == show[e + 1]
             all == show[i]
  <2> HIDE DEF Behind, S
  <2>0. i \in 1..n /\ ~(L(i) < i)
    BY <1>20
  <2>2. e \in i..n /\ item \in Phrases /\ e + 1 \in 1..(n + 1) /\ (e + 1) - 1 = e
    <3>1. e \in i..n /\ item \in Phrases
      BY <1>1, <1>2, <2>0
    <3> HIDE DEF e, item
    <3>2. QED BY <1>1, <2>0, <3>1
  <2>3. item \in T /\ left \in Seq(T) /\ all = <<item>> \o left
    <3>1. item \in T
      BY <1>8, <2>0, <2>2
    <3>2. left \in Seq(T)
      BY <1>14, <2>2
    <3>3. all = <<item>> \o left
      BY <1>6, <2>0
    <3>4. QED BY <3>1, <3>2, <3>3
  <2>4. ToSet(f[i]) = {here} \cup ToSet(rest)
    <3> DEFINE A == After(Phrases, t, e + 1)
               B == A \cup {here}
    <3>1. f[i] = <<here>> \o rest
      BY <1>5, <2>0
    <3>2. rest \in Seq(B) /\ here \in B
      <4>1. rest \in Seq(A)
        BY <1>7, <2>2
      <4> HIDE DEF rest, A, here
      <4>2. QED BY <4>1, Wider
    <3> HIDE DEF rest, here, B
    <3> DEFINE found == <<here>> \o rest
    <3>3. /\ found \in Seq(B) /\ Len(rest) \in Nat /\ Len(found) = Len(rest) + 1
          /\ found[1] = here
          /\ \A k \in 1..Len(rest) : found[k + 1] = rest[k]
      BY <3>2, Before
    <3> HIDE DEF found
    <3>4. /\ ToSet(found) = {found[k] : k \in 1..Len(found)}
          /\ ToSet(rest) = {rest[k] : k \in 1..Len(rest)}
      BY <3>2, <3>3, Listed
    <3>5. \A k \in 1..Len(found) : k = 1 \/ (k - 1 \in 1..Len(rest) /\ found[k] = rest[k - 1])
      <4>1. \A k \in 1..Len(found) : k # 1 => k - 1 \in 1..Len(rest) /\ (k - 1) + 1 = k
        BY <3>3
      <4>2. QED BY <3>3, <4>1
    <3>6. ToSet(found) \subseteq {here} \cup ToSet(rest)
      BY <3>3, <3>4, <3>5
    <3>7. 1 \in 1..Len(found) /\ \A k \in 1..Len(rest) : k + 1 \in 1..Len(found)
      BY <3>3
    <3>8. {here} \cup ToSet(rest) \subseteq ToSet(found)
      BY <3>3, <3>4, <3>7
    <3>9. QED BY <3>1, <3>6, <3>8 DEF found
  <2>5. \A x \in ToSet(rest) : x[1] >= e + 1
    BY <1>18, <2>2
  <2>6. here \in spans /\ here[1] = i /\ here[2] = e
    BY <2>1, <2>4 DEF Behind
  <2>71. \A x \in spans : x[2] < i \/ x \in ToSet(f[i])
    BY <2>1 DEF Behind
  <2>61. Rest(all, want, c)
    BY <2>1 DEF Behind
  <2> HIDE DEF e, item, here, rest, left, all
  <2>7. \A x \in spans : x[2] < i \/ x = here \/ x[1] >= e + 1
    BY <2>4, <2>5, <2>71
  <2>8. values[i] = ValueOf(item)
    <3>1. ASSUME NEW y \in spans, y[1] = i PROVE y = here
      <4>1. y[1] \in 1..n /\ y[2] \in 1..n /\ y[1] <= y[2]
        BY <1>11
      <4>2. ~(y[2] < i)
        BY <3>1, <4>1
      <4>3. ~(y[1] >= e + 1)
        BY <2>0, <2>2, <3>1
      <4>4. QED BY <2>7, <4>2, <4>3
    <3>2. values[i] = <<index[SubSeq(t, here[1], here[2])], "~">>
      BY <1>12, <2>0, <2>6, <3>1
    <3>3. SubSeq(t, here[1], here[2]) = item
      BY <2>6 DEF item
    <3>4. QED BY <2>2, <3>2, <3>3 DEF ValueOf
  <2>9. ASSUME NEW j \in (i + 1)..e PROVE values[j] = << >>
    <3>1. j \in 1..n /\ here[1] <= j /\ j <= here[2]
      BY <2>0, <1>1, <2>2, <2>6
    <3>2. ASSUME NEW y \in spans, y[1] = j PROVE FALSE
      BY <1>1, <1>11, <2>2, <2>6, <2>7, <3>2
    <3>3. QED BY <1>12, <2>6, <3>1, <3>2
  <2>10. O(e) = O(i)
    <3> DEFINE U == {d \in 0..(e - i) : O(i + d) = O(i)}
    <3>1. e - i \in Nat /\ i + (e - i) = e /\ i + 0 = i
      BY <2>0, <1>1, <2>2
    <3>2. 0 \in U
      BY <3>1
    <3>3. ASSUME NEW d \in 1..(e - i), d - 1 \in U PROVE d \in U
      <4>1. i + d \in (i + 1)..e /\ i + d \in 1..n /\ (i + d) - 1 = i + (d - 1) /\ d \in 0..(e - i)
        BY <2>0, <1>1, <2>2, <3>1
      <4>2. O(i + d) = Extended(O(i + (d - 1)), << >>)
        BY <1>10, <2>9, <4>1
      <4>3. O(i + d) = O(i + (d - 1))
        BY <4>2 DEF Extended
      <4>4. QED BY <3>3, <4>1, <4>3
    <3>4. 0..(e - i) \subseteq U
      <4> HIDE DEF U
      <4>1. QED BY <3>1, <3>2, <3>3, Upward
    <3>5. QED BY <3>1, <3>4
  <2>11. O(i) = Extended(O(i - 1), values[i])
    BY <1>10, <2>0
  <2>12. c + 1 \in 1..Len(want) /\ want[c + 1] = item /\ Rest(left, want, c + 1)
    BY <2>3, <2>61, NextItem
  <2>13. Q(c + 1) = Extended(Q(c), ValueOf(item))
    <3>1. (c + 1) - 1 = c
      OBVIOUS
    <3>2. QED BY <1>16, <2>12, <3>1
  <2>14. O((e + 1) - 1) = Q(c + 1)
    BY <2>1, <2>2, <2>8, <2>10, <2>11, <2>13 DEF Behind
  <2>15. /\ \A x \in spans : x[2] < e + 1 \/ x \in ToSet(f[e + 1])
         /\ ToSet(f[e + 1]) \subseteq spans
    <3>1. ASSUME NEW x \in spans, x \notin ToSet(rest) PROVE x[2] < e + 1
      <4>1. x[2] < i \/ x = here
        BY <2>4, <2>71, <3>1
      <4>2. QED BY <1>1, <1>11, <2>2, <2>6, <4>1
    <3>2. QED BY <2>1, <2>4, <3>1 DEF rest, Behind
  <2>16. Behind(e + 1, c + 1)
    BY <2>12, <2>14, <2>15 DEF Behind, left
  <2>17. QED BY <2>2, <2>16 DEF e, S
\* So the end of the text is reached.
<1>21. n + 1 \in S
  <2>1. PICK i \in S : \A j \in S : j <= i
    <3>1. S \in SUBSET Nat /\ S # {} /\ \A x \in S : x <= n + 1
      <4> HIDE DEF Behind
      <4>1. S \subseteq 1..(n + 1)
        OBVIOUS
      <4> HIDE DEF S
      <4>2. QED BY <1>1, <1>17, <4>1
    <3>2. n + 1 \in Nat
      BY <1>1
    <3> HIDE DEF S
    <3>3. QED BY <3>1, <3>2, Greatest
  <2>2. i \in 1..(n + 1)
    OBVIOUS
  <2> HIDE DEF S
  <2>3. CASE i \in 1..n
    <3>1. CASE L(i) < i
      <4>1. i + 1 <= i
        BY <1>19, <2>1, <2>3, <3>1
      <4>2. QED BY <2>3, <4>1
    <3>2. CASE ~(L(i) < i)
      <4>1. L(i) + 1 <= i
        BY <1>20, <2>1, <2>3, <3>2
      <4>2. L(i) \in i..n
        BY <1>2, <2>3, <3>2
      <4>3. QED BY <1>1, <2>3, <4>1, <4>2
    <3>3. QED BY <3>1, <3>2
  <2>4. CASE i = n + 1
    BY <2>1, <2>4
  <2>5. QED BY <1>1, <2>2, <2>3, <2>4
<1>22. PICK c \in Nat : Behind(n + 1, c)
  BY <1>21
<1>23. O(n) = Q(Len(want))
  <2>1. Len(show[n + 1]) = 0 /\ (n + 1) - 1 = n
    BY <1>1, <1>6, EmptySeq
  <2>2. Len(want) = c
    BY <1>22, <2>1 DEF Rest
  <2>3. QED BY <1>22, <2>1, <2>2
<1>24. QED BY <1>10, <1>16, <1>23 DEF Join, O, Q, ws, want, values, n

\* Expanding a text of words left to right, by a scan that skips what a match
\* consumed, shows the longest phrase at each place no earlier one took: for
\* every phrase index and every text.
THEOREM LongestAlwaysShown == RulesSpec => []LongestShown
<1>1. RulesInv => LongestShown
  <2> DEFINE r == request
             want == Reference(r.shown)
  <2> SUFFICES ASSUME RulesInv, ~r.running, Uncut(r), "m" \notin ToSet(r.text)
               PROVE  r.out = Join([i \in 1..Len(want) |-> ValueOf(want[i])])
    BY DEF LongestShown, ValueOf
  <2>1. r \in Request /\ Reached(r) /\ Entire
    BY DEF RulesInv, RulesTypeOK
  <2>2. r.text \in Seq(Kinds) /\ r.shown \in Seq(Kinds) /\ Len(r.text) \in Nat
    BY <2>1 DEF Request
  <2>3. r.next = Len(r.text) + 1 /\ r.seg = 1 /\ Len(r.shown) = Len(r.text)
    BY <2>1, <2>2 DEF Reached, Uncut
  <2>4. r.out = Join(Values(r.shown, r.chosen))
    BY <2>1, <2>3 DEF Entire
  <2>5. ASSUME NEW i \in 1..Len(r.text) PROVE r.shown[i] \in Alpha /\ r.shown[i] # "m"
    <3>1. r.text[i] \in Kinds /\ r.text[i] \in ToSet(r.text)
      BY <2>2, Listed
    <3>2. r.text[i] # "#" /\ r.text[i] # "m"
      BY <3>1 DEF Uncut
    <3>3. IF r.text[i] = "d0" THEN r.shown[i] \in Accented ELSE r.shown[i] = r.text[i]
      BY <2>1, <2>2, <2>3 DEF Reached
    <3>4. Accented \subseteq Alpha /\ "m" \notin Accented
      BY DEF Accented, Alpha, Kinds
    <3>5. QED BY <3>1, <3>2, <3>3, <3>4 DEF Alpha
  <2>6. Plain(r.shown)
    BY <2>3, <2>5 DEF Plain
  <2> HIDE DEF r
  <2>7. Join(Values(r.shown, r.chosen)) = Join([i \in 1..Len(want) |-> ValueOf(want[i])])
    BY <2>2, <2>6, PlainShown
  <2>8. QED BY <2>4, <2>7
<1>2. QED BY <1>1, RulesInvariance, PTL
=============================================================================
