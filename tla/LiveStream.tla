------------------------------ MODULE LiveStream ------------------------------
(***************************************************************************)
(* One streamed AI review of a text: the semantic verifier's chunks, their *)
(* progress through a bounded queue to the client, and the dictionary that *)
(* may change meanwhile (semantic_verifier.py, live_stream.py, the end of  *)
(* live_normalizer.py).                                                    *)
(*                                                                         *)
(* The verifier's jobs, the producer and the consumer are coroutines: each *)
(* runs from one await to the next.  Reads of the dictionary's revision    *)
(* and the remapping of spans run in threads and end in any order.  A text *)
(* is the set of its chunks that show the model's edits.                   *)
(***************************************************************************)
EXTENDS Naturals, FiniteSets, Sequences

CONSTANTS
    N,             \* bound: chunks of a text
    MaxChunks,     \* semantic_verify_max_chunks: the rest is skipped
    Concurrency,   \* semantic_verify_max_concurrency
    QueueSize,     \* events the stream holds for its client
    MaxFaults      \* bound: reads of the revision that raise

ASSUME StreamAssumption ==
    /\ N \in Nat \ {0} /\ MaxChunks \in Nat \ {0} /\ Concurrency \in Nat \ {0}
    /\ QueueSize \in Nat \ {0} /\ MaxFaults \in Nat

VARIABLES
    total,      \* chunks of the text
    changed,    \* whether the dictionary changed since the request read it
    abbr,       \* whether the rules left ambiguous abbreviations
    late,       \* whether the deadline of all chunks has passed
    chunk,      \* chunk -> where its job is, and what it got
    producer,
    queue,
    consumer,
    client,     \* history: what it received last and most, and how it ended
    faults

vars == <<total, changed, abbr, late, chunk, producer, queue, consumer, client, faults>>

Chunks == 1..total

\* A text of one chunk is one call: it has no deadline and tells no progress.
Single == total = 1

Jobs == Chunks \cap 1..MaxChunks

\* edited and guessed change the text; uncertain and guessed are below the
\* confidence threshold.
Answers == {"verified", "edited", "uncertain", "guessed"}
Confident == {"verified", "edited"}
Failures == {"quota", "error"}

Event == [complete: BOOLEAN, shown: SUBSET (1..N), answered: SUBSET (1..N),
          status: {"not_checked", "partial", "verified", "uncertain", "quota", "error"}]

Baseline == [complete |-> FALSE, shown |-> {}, answered |-> {}, status |-> "not_checked"]

TypeOK ==
    /\ total \in 1..N
    /\ changed \in BOOLEAN /\ abbr \in BOOLEAN /\ late \in BOOLEAN
    /\ chunk \in [Chunks -> [pc: {"waiting", "calling", "check", "put", "done"},
                             got: {"none"} \cup Answers \cup Failures,
                             seen: SUBSET Chunks]]
    /\ producer \in [pc: {"verify", "apply", "final", "put", "done"}, event: Event]
    /\ queue \in Seq(Event) /\ Len(queue) <= QueueSize
    /\ consumer \in [pc: {"get", "check", "yield", "over"}, latest: Event, stale: BOOLEAN]
    /\ client \in [last: Event, most: 0..N, end: {"open", "complete", "broken", "gone"}]
    /\ faults \in 0..MaxFaults

Init ==
    /\ total \in 1..N
    /\ changed = FALSE /\ abbr \in BOOLEAN /\ late = FALSE
    /\ chunk = [c \in Chunks |-> [pc |-> IF c \in Jobs THEN "waiting" ELSE "done",
                                  got |-> "none", seen |-> {}]]
    /\ producer = [pc |-> "verify", event |-> Baseline]
    /\ queue = << >>
    /\ consumer = [pc |-> "get", latest |-> Baseline, stale |-> FALSE]
    /\ client = [last |-> Baseline, most |-> 0, end |-> "open"]
    /\ faults = 0

----------------------------------------------------------------------------
(* What the verifier found, and what may be shown of it.                    *)

Got(cs, kinds) == {c \in cs : chunk[c].got \in kinds}
Answered(cs) == Got(cs, Answers)

\* The chunks joined: those where the text is the model's.
Edits(cs) == Got(cs, {"edited", "guessed"})

\* The final snapshot: the least confidence of the chunks that were answered
\* reaches the threshold, or abbreviations were to be resolved.
Usable(cs) ==
    /\ Answered(cs) # {}
    /\ abbr \/ Answered(cs) \subseteq Got(cs, Confident)

\* A partial snapshot: the least confidence of those above the threshold.
PartialUsable(cs) == Got(cs, Confident) # {} \/ (abbr /\ Edits(cs) # {})

\* Mutant of Status: the chunks that were skipped do not count.
StatusOfJobs(unresolved) ==
    IF Answered(Chunks) = {} THEN (IF Got(Chunks, {"quota"}) # {} THEN "quota" ELSE "error")
    ELSE IF ~(Answered(Chunks) \subseteq Got(Chunks, Confident)) THEN "uncertain"
    ELSE IF Answered(Chunks) # Jobs THEN "partial"
    ELSE "verified"

\* _verify_long_text, then _apply_semantic_verification.
Status(unresolved) ==
    CASE Answered(Chunks) = {} -> (IF Got(Chunks, {"quota"}) # {} THEN "quota" ELSE "error")
      [] Answered(Chunks) # {} /\ Got(Chunks, Answers \ Confident) # {} -> "uncertain"
      [] Got(Chunks, Confident) = Chunks ->
            (IF abbr /\ unresolved THEN "uncertain" ELSE "verified")
      [] OTHER -> "partial"

\* The text shown of these chunks, of the rules' alone if they are not usable.
Shown(cs, usable) == IF usable THEN Edits(cs) ELSE {}

Partial(cs) == [complete |-> FALSE, shown |-> Shown(cs, PartialUsable(cs)),
                answered |-> Answered(cs), status |-> "partial"]

Final(unresolved) == [complete |-> TRUE, shown |-> Shown(Chunks, Usable(Chunks)),
                      answered |-> Answered(Chunks), status |-> Status(unresolved)]

Unchecked == [Baseline EXCEPT !.complete = TRUE]

\* produce's handler of exceptions starts from what the consumer took last.
Failed == [consumer.latest EXCEPT
              !.complete = TRUE,
              !.status = IF consumer.latest.answered # {} THEN "partial" ELSE "error"]

----------------------------------------------------------------------------
(* The verifier's jobs.                                                     *)

Environment == <<total, changed, abbr, late>>
Stream == <<producer, queue, consumer, client>>

\* The semaphore is first come, first served.  Past the deadline a job ends
\* without a call and without progress.
Acquire(c) ==
    /\ chunk[c].pc = "waiting"
    /\ \A d \in Chunks : d < c => chunk[d].pc # "waiting"
    /\ Cardinality({d \in Chunks : chunk[d].pc = "calling"}) < Concurrency
    /\ LET over == late /\ ~Single IN
       chunk' = [chunk EXCEPT ![c].pc = IF over THEN "done" ELSE "calling",
                              ![c].got = IF over THEN "error" ELSE "none"]
    /\ UNCHANGED <<Environment, Stream, faults>>

\* accept_edits: below the threshold only an abbreviation's own meanings.
Acceptable(got) == got \in Answers => (got = "guessed" => abbr)

\* The provider or the cache answers, or the call fails (quota: a limit of the
\* host's or the provider's), and the job takes its snapshot of all that
\* completed.
Reply(c) ==
    /\ chunk[c].pc = "calling"
    /\ \E got \in Answers \cup Failures :
          /\ Acceptable(got)
          /\ chunk' = [chunk EXCEPT ![c] =
                [pc |-> IF Single THEN "done" ELSE "check", got |-> got,
                 seen |-> {c} \cup {d \in Chunks : chunk[d].seen # {}}]]
    /\ UNCHANGED <<Environment, Stream, faults>>

\* progress: a partial snapshot is dropped once the dictionary has changed.
CheckProgress(c) ==
    /\ chunk[c].pc = "check"
    /\ chunk' = [chunk EXCEPT ![c].pc = IF changed THEN "done" ELSE "put"]
    /\ UNCHANGED <<Environment, Stream, faults>>

\* Reading the revision raised: gather passes the exception on, and the other
\* jobs go on without a task to wait for them.
ProgressRaises(c) ==
    /\ chunk[c].pc = "check" /\ faults < MaxFaults
    /\ faults' = faults + 1
    /\ chunk' = [chunk EXCEPT ![c].pc = "done"]
    /\ producer' = IF producer.pc = "verify" THEN [pc |-> "put", event |-> Failed] ELSE producer
    /\ UNCHANGED <<Environment, queue, consumer, client>>

PutProgress(c) ==
    /\ chunk[c].pc = "put" /\ Len(queue) < QueueSize
    /\ queue' = Append(queue, Partial(chunk[c].seen))
    /\ chunk' = [chunk EXCEPT ![c].pc = "done"]
    /\ UNCHANGED <<Environment, producer, consumer, client, faults>>

----------------------------------------------------------------------------
(* The producer.                                                            *)

\* Mutant of Gather: the first job that ends ends them all.
GatherFirst ==
    /\ producer.pc = "verify"
    /\ \E c \in Jobs : chunk[c].pc = "done"
    /\ producer' = [producer EXCEPT !.pc = "apply"]
    /\ UNCHANGED <<Environment, chunk, queue, consumer, client, faults>>

Gather ==
    /\ producer.pc = "verify"
    /\ \A c \in Jobs : chunk[c].pc = "done"
    /\ producer' = [producer EXCEPT !.pc = "apply"]
    /\ UNCHANGED <<Environment, chunk, queue, consumer, client, faults>>

\* The end of _apply_semantic_verification, and of apply_semantic_verification:
\* each reads the revision, and keeps the rules' result when it changed.
Apply ==
    /\ producer.pc = "apply"
    /\ \E unresolved \in BOOLEAN :
          producer' = [pc |-> "final", event |-> IF changed THEN Unchecked ELSE Final(unresolved)]
    /\ UNCHANGED <<Environment, chunk, queue, consumer, client, faults>>

CheckFinal ==
    /\ producer.pc = "final"
    /\ producer' = [pc |-> "put", event |-> IF changed THEN Unchecked ELSE producer.event]
    /\ UNCHANGED <<Environment, chunk, queue, consumer, client, faults>>

ProducerRaises ==
    /\ producer.pc \in {"apply", "final"} /\ faults < MaxFaults
    /\ faults' = faults + 1
    /\ producer' = [pc |-> "put", event |-> Failed]
    /\ UNCHANGED <<Environment, chunk, queue, consumer, client>>

\* Mutant of PutFinal: put_nowait, and a full queue drops the event.
PutFinalNow ==
    /\ producer.pc = "put"
    /\ queue' = IF Len(queue) < QueueSize THEN Append(queue, producer.event) ELSE queue
    /\ producer' = [producer EXCEPT !.pc = "done"]
    /\ UNCHANGED <<Environment, chunk, consumer, client, faults>>

PutFinal ==
    /\ producer.pc = "put" /\ Len(queue) < QueueSize
    /\ queue' = Append(queue, producer.event)
    /\ producer' = [producer EXCEPT !.pc = "done"]
    /\ UNCHANGED <<Environment, chunk, consumer, client, faults>>

----------------------------------------------------------------------------
(* The consumer and its client.                                             *)

\* Mutant of Cancelled: the generator ends without its finally.
CancelledNot == UNCHANGED <<chunk, producer>>

\* task.cancel() stops the producer, and through gather its jobs; nothing is
\* left to stop when the producer is done.
Cancelled ==
    IF producer.pc = "done" THEN UNCHANGED <<chunk, producer>>
    ELSE /\ producer' = [producer EXCEPT !.pc = "done"]
         /\ chunk' = IF producer.pc = "verify"
                     THEN [c \in Chunks |-> [chunk[c] EXCEPT !.pc = "done"]] ELSE chunk

Get ==
    /\ consumer.pc = "get" /\ queue # << >>
    /\ consumer' = [pc |-> "check", latest |-> Head(queue), stale |-> changed]
    /\ queue' = Tail(queue)
    /\ UNCHANGED <<Environment, chunk, producer, client, faults>>

\* Mutant of CheckEvent: an event goes out as it was queued.
CheckEventNot ==
    /\ consumer.pc = "check"
    /\ consumer' = [consumer EXCEPT !.pc = "yield"]
    /\ UNCHANGED <<Environment, chunk, producer, queue, client, faults>>

CheckEvent ==
    /\ consumer.pc = "check"
    /\ consumer' = [consumer EXCEPT !.pc = "yield",
                                    !.latest = IF changed THEN Unchecked ELSE @]
    /\ UNCHANGED <<Environment, chunk, producer, queue, client, faults>>

ConsumerRaises ==
    /\ consumer.pc = "check" /\ faults < MaxFaults
    /\ faults' = faults + 1
    /\ consumer' = [consumer EXCEPT !.pc = "over"]
    /\ client' = [client EXCEPT !.end = "broken"]
    /\ Cancelled
    /\ UNCHANGED <<Environment, queue>>

\* The client reads the line that waits for it.
Deliver ==
    LET e == consumer.latest
        n == Cardinality(e.answered)
    IN
    /\ consumer.pc = "yield"
    /\ client' = [last |-> e, most |-> IF n > client.most THEN n ELSE client.most,
                  end |-> IF e.complete THEN "complete" ELSE "open"]
    /\ consumer' = [consumer EXCEPT !.pc = IF e.complete THEN "over" ELSE "get"]
    /\ IF e.complete THEN Cancelled ELSE UNCHANGED <<chunk, producer>>
    /\ UNCHANGED <<Environment, queue, faults>>

\* The client aborts, or is lost.
Disconnect ==
    /\ client.end = "open"
    /\ client' = [client EXCEPT !.end = "gone"]
    /\ consumer' = [consumer EXCEPT !.pc = "over"]
    /\ Cancelled
    /\ UNCHANGED <<Environment, queue, faults>>

----------------------------------------------------------------------------
(* The surroundings.                                                        *)

DictionaryChanges ==
    /\ ~changed /\ changed' = TRUE
    /\ UNCHANGED <<total, abbr, late, chunk, Stream, faults>>

DeadlinePasses ==
    /\ ~late /\ late' = TRUE
    /\ UNCHANGED <<total, changed, abbr, chunk, Stream, faults>>

Job(c) == Acquire(c) \/ Reply(c) \/ CheckProgress(c) \/ ProgressRaises(c) \/ PutProgress(c)
Producer == Gather \/ Apply \/ CheckFinal \/ ProducerRaises \/ PutFinal
Consumer == Get \/ CheckEvent \/ ConsumerRaises \/ Deliver

Next ==
    \/ \E c \in Jobs : Job(c)
    \/ Producer \/ Consumer \/ Disconnect
    \/ DictionaryChanges \/ DeadlinePasses

Spec == Init /\ [][Next]_vars

\* The event loop runs what is ready; every call of the provider ends (its
\* timeout), and a client that stays reads.
Fairness ==
    /\ \A c \in 1..MaxChunks : WF_vars(c \in Jobs /\ Job(c))
    /\ WF_vars(Producer) /\ WF_vars(Consumer)

FairSpec == Spec /\ Fairness

----------------------------------------------------------------------------
(* Properties.                                                              *)

\* No event shows the model's edits once the dictionary they were checked
\* against had changed when the event was taken from the queue.
StaleNotShown == consumer.pc = "yield" /\ consumer.stale => consumer.latest.shown = {}

\* A text reported as verified was: every chunk of it was answered above the
\* threshold, none was skipped, late or refused.
VerifiedIsWhole ==
    client.last.status = "verified" => Got(Chunks, Confident) = Chunks

\* However the snapshots of the chunks overtake one another, the final one
\* counts at least what any of them did, unless the dictionary changed or a
\* read failed.
FinalKeepsProgress ==
    client.end = "complete" /\ client.last.status # "not_checked" /\ faults = 0
        => Cardinality(client.last.answered) >= client.most

\* live_stream.py: "Streaming must obey the same safety boundary as the final
\* snapshot."  A partial snapshot shows edits only if a final one of the same
\* chunks would.
SameBoundary ==
    client.last.shown # {} /\ client.last.status = "partial" /\ ~client.last.complete
        => Usable(client.last.answered)

\* A client that stays gets a final event or sees the stream break.
StreamEnds == <>(client.end # "open")

\* Once the stream is over its jobs stop: nothing waits for room in a queue
\* that nobody reads.
JobsStop == [](consumer.pc = "over" => <>(faults > 0 \/ \A c \in Jobs : chunk[c].pc = "done"))
=============================================================================
