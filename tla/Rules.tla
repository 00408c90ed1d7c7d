---------------------------------- MODULE Rules ----------------------------------
(***************************************************************************)
(* The rules of one live normalisation: a text is cut into segments, each  *)
(* is restored, matched with the phrase index and expanded word by word,   *)
(* taken from the segment cache or not, and the outputs are joined with    *)
(* the spans that say where an abbreviation went (live_normalizer.py,      *)
(* incremental_text.py, diacritic_restorer.py, phrase_index.py,            *)
(* phrase_normalizer.py); and the cutting of a text for the semantic       *)
(* verifier (semantic_verifier.py).                                        *)
(*                                                                         *)
(* Everything runs in one thread; a worker's segment cache outlives its    *)
(* requests.  A word is what the rules tell apart of it: a part "p" or "q" *)
(* of phrases, an abbreviation "k" with one meaning and "m" with two, an   *)
(* unknown "u", a known "w", a word "d0" that lost its accents and "d1",   *)
(* "d2" typed with them, and "#", a number or another literal.  The        *)
(* dictionary does not change here: see DictionarySync.                    *)
(***************************************************************************)
EXTENDS Integers, SequencesExt

CONSTANTS
    Texts,         \* texts requests start from
    Sources,       \* phrase -> the batches that define it, as pairs <<batch, source>>
    Contexts,      \* context phrases: folded words -> words with accents
    Ends,          \* the words of a text that may end a sentence
    Frequency,     \* pairs of neighbours -> bigram frequency, 0 if none
    Target,        \* live_incremental_chunk_words
    MinWords,      \* live_incremental_min_chars: shorter texts are one segment
    MaxNgram,      \* phrase_max_ngram
    Cap,           \* live_max_pending_submissions
    MaxRequests,   \* bound: requests of the worker
    MaxReview      \* bound: words of a text cut for the verifier

Kinds == {"p", "q", "k", "m", "u", "w", "d0", "d1", "d2", "#"}
Alpha == Kinds \ {"#"}
Suspects == {"p", "q", "u"}      \* neither known words nor approved
NoChoice == 0
Phrases == DOMAIN Sources
Batches == {"db_override", "override", "db", "mined"}
Letter == Kinds \cup Batches \cup {"~", " "}      \* of outputs

\* A text without the accents of its words.
Folded(t) == [i \in 1..Len(t) |-> IF t[i] \in {"d0", "d1", "d2"} THEN "d" ELSE t[i]]

\* A context phrase is looked up by its own words without accents.
ASSUME RulesAssumption ==
    /\ Target \in Nat \ {0} /\ MinWords \in Nat /\ MaxNgram \in Nat /\ MaxNgram > 1
    /\ Cap \in Nat /\ MaxRequests \in Nat /\ MaxReview \in Nat
    /\ Texts \subseteq Seq(Kinds) \ {<< >>} /\ Ends \subseteq Nat
    /\ Phrases \subseteq Seq(Alpha) /\ Sources \in [Phrases -> Seq(Batches) \ {<< >>}]
    /\ Frequency \in [Kinds \X Kinds -> Nat]
    /\ \A f \in DOMAIN Contexts : Contexts[f] \in Seq(Kinds) /\ f = Folded(Contexts[f])

VARIABLES
    index,      \* phrase -> the source whose entry the index holds
    segments,   \* the segment cache: key -> result
    request,    \* the request that runs
    requests,   \* how many ran
    chunks      \* the last cut of a text for the verifier

rules == <<index, segments, request, requests, chunks>>

\* A request: its text, whether its last word is still being typed and the
\* meaning its user chose for the first "m" (3 is none of its options); the
\* next segment, what is built so far, the places of the abbreviations in
\* it, what is left of the budget, and (history) the words after the accents
\* and the keys written for moderation.
Request == [text: Seq(Kinds), ends: SUBSET Nat, typing: BOOLEAN, chosen: 0..3, next: Nat,
            seg: Nat, out: Seq(Letter), spans: SUBSET (Nat \X Nat \X Seq(Letter)), left: 0..Cap,
            keys: SUBSET Seq(Kinds), shown: Seq(Kinds), wrote: Seq(Seq(Kinds)), running: BOOLEAN]

RulesTypeOK ==
    /\ index \in [Phrases -> Batches]
    /\ \A e, f \in segments : e.key = f.key => e = f
    /\ request \in Request /\ request.next <= Len(request.text) + 1
    /\ requests \in 0..MaxRequests

----------------------------------------------------------------------------
(* The phrase index.                                                        *)

Priority(source) == CASE source = "db_override" -> 4 [] source = "override" -> 3
                      [] source = "db" -> 2 [] OTHER -> 1

\* A later batch replaces an entry of no higher priority.
Inserted(held, source) ==
    IF held = "none" \/ Priority(source) >= Priority(held) THEN source ELSE held

\* build: the batches mined, db_phrases and overrides, in this order.
Index(f) ==
    LET held[i \in 0..Len(Sources[f])] ==
            IF i = 0 THEN "none" ELSE Inserted(held[i - 1], Sources[f][i])
    IN  held[Len(Sources[f])]

Largest(S) == CHOOSE x \in S : \A y \in S : y <= x

Smallest(S) == CHOOSE x \in S : \A y \in S : x <= y

\* Mutant of Longest: the first entry on the way down the trie is taken.
LongestFirst(table, max, s, i) ==
    LET ends == {e \in i..Len(s) : e - i < max /\ SubSeq(s, i, e) \in table}
    IN  IF ends = {} THEN i - 1 ELSE Smallest(ends)

\* The end of the longest phrase that starts at word i, i - 1 if none does.
Longest(table, max, s, i) ==
    LET ends == {e \in i..Len(s) : e - i < max /\ SubSeq(s, i, e) \in table}
    IN  IF ends = {} THEN i - 1 ELSE Largest(ends)

\* The phrases found in s, from the left: their first and last words.
Scan(table, max, s) ==
    LET from[i \in 1..(Len(s) + 1)] ==
            LET e == Longest(table, max, s, i)
            IN  CASE i > Len(s) -> << >>
                  [] i <= Len(s) /\ e < i -> from[i + 1]
                  [] OTHER -> <<<<i, e>>>> \o from[e + 1]
    IN  from[1]

\* Positions of the words of a text: the index scans these alone.
WordsOf(t) ==
    LET before[i \in 0..Len(t)] ==
            CASE i = 0 -> << >>
              [] i > 0 /\ t[i] \in Alpha -> Append(before[i - 1], i)
              [] OTHER -> before[i - 1]
    IN  before[Len(t)]

\* The matches in a text, over whatever stands between their words.
Matches(t) ==
    LET words == WordsOf(t)
        spans == Scan(Phrases, MaxNgram, [i \in 1..Len(words) |-> t[words[i]]])
    IN  {[first |-> words[x[1]], last |-> words[x[2]],
          phrase |-> [i \in 1..(x[2] - x[1] + 1) |-> t[words[x[1] + i - 1]]]] : x \in ToSet(spans)}

Consumed(matches) == UNION {m.first..m.last : m \in matches}

----------------------------------------------------------------------------
(* Restoring accents: "d0" may become "d1" or "d2", or stay.                *)

Candidates(word) == IF word = "d0" THEN <<"d1", "d0", "d2">> ELSE <<word>>

\* What the context phrases of a text say of its words.
ContextWords(t) ==
    LET spans == ToSet(Scan(DOMAIN Contexts, Len(t), Folded(t)))
        at(i) == {x \in spans : x[1] <= i /\ i <= x[2]}
    IN  [i \in 1..Len(t) |->
            IF at(i) = {} THEN "none"
            ELSE LET x == CHOOSE x \in at(i) : TRUE
                 IN  Contexts[SubSeq(Folded(t), x[1], x[2])][i - x[1] + 1]]

\* Mutant of Overrides: a phrase also overwrites typed accents.
OverridesAlways(t) == ContextWords(t)

\* A phrase repairs missing accents and leaves typed ones.
Overrides(t) ==
    LET words == ContextWords(t)
    IN  [i \in 1..Len(t) |-> IF t[i] \in {"d1", "d2"} THEN "none" ELSE words[i]]

\* The neighbours a word is scored with.
Beside(t, over, i) ==
    IF i \notin 1..Len(t) THEN {}
    ELSE IF over[i] # "none" THEN {over[i]} ELSE ToSet(Candidates(t[i]))

Score(t, over, i, c) ==
    Largest({Frequency[<<x, c>>] : x \in Beside(t, over, i - 1)} \cup {0})
      + Largest({Frequency[<<c, x>>] : x \in Beside(t, over, i + 1)} \cup {0})

\* The first candidate of the highest score. In a text with accents the word
\* stays as it was typed unless another is a fifth better.
Scored(t, over, i) ==
    LET cs == Candidates(t[i])
        score == [j \in 1..Len(cs) |-> Score(t, over, i, cs[j])]
        top == Largest({score[j] : j \in 1..Len(cs)})
        best == cs[Smallest({j \in 1..Len(cs) : score[j] = top})]
        own == Score(t, over, i, t[i])
        mixed == \E j \in 1..Len(t) : t[j] \in {"d1", "d2"}
    IN  IF top = 0 THEN (IF mixed THEN t[i] ELSE cs[1])
        ELSE IF mixed /\ (own = top \/ (own > 0 /\ 10 * top < 12 * own)) THEN t[i]
        ELSE best

Restored(t) ==
    LET over == Overrides(t)
    IN  [i \in 1..Len(t) |->
            CASE over[i] # "none" -> over[i]
              [] over[i] = "none" /\ t[i] = "d0" -> Scored(t, over, i)
              [] OTHER -> t[i]]

----------------------------------------------------------------------------
(* One segment: the words left for moderation and the output.               *)

\* Mutant of Submit: a word that is left is sent once more.
SubmitAgain(a, key) ==
    IF key = << >> THEN a
    ELSE IF a.left > 0 THEN [a EXCEPT !.left = @ - 1, !.keys = @ \cup {key}, !.wrote = Append(@, key)]
    ELSE [a EXCEPT !.keys = @ \cup {key}]

\* A key is tried once in a request, while the budget of all segments lasts;
\* where no key is, nothing is.
Submit(a, key) ==
    CASE key \in a.keys \cup {<< >>} -> a
      [] key \notin a.keys \cup {<< >>} /\ a.left > 0 ->
            [a EXCEPT !.left = @ - 1, !.keys = @ \cup {key}, !.wrote = Append(@, key)]
      [] OTHER -> [a EXCEPT !.keys = @ \cup {key}]

\* The run of words that no phrase consumed, from its first word i on.
Run(t, consumed, i) ==
    LET free == {j \in 1..Len(t) : t[j] \in Alpha /\ j \notin consumed}
        last == Smallest({j \in free : j >= i /\ j + 1 \notin free})
    IN  IF i \in free /\ i - 1 \notin free THEN SubSeq(t, i, last) ELSE << >>

\* Keys tried one after the other.
Tried(a, keys) ==
    LET after[i \in 0..Len(keys)] == IF i = 0 THEN a ELSE Submit(after[i - 1], keys[i])
    IN  after[Len(keys)]

\* Phrases for moderation at their first words: runs of suspects alone, of
\* MaxNgram words at most.
PhraseKeys(t, consumed) ==
    [i \in 1..Len(t) |->
        LET run == Run(t, consumed, i)
        IN  IF Len(run) > 1 /\ ToSet(run) \subseteq Suspects
            THEN SubSeq(run, 1, Smallest({Len(run), MaxNgram})) ELSE << >>]

\* Words for moderation: the one a user is still typing is not sent.
WordKeys(t, consumed, open) ==
    [i \in 1..Len(t) |->
        IF t[i] \in Suspects /\ i \notin consumed /\ ~(open /\ i = Len(t))
        THEN <<t[i]>> ELSE << >>]

\* Letters of a word and of a meaning; the typed word is no meaning of its own.
Typed(word) == <<word>>
Meaning(word, j) == <<word>> \o [i \in 1..j |-> "~"]

\* What the output shows for "m": the user's choice if it is an option, the
\* meaning the context speaks for, or the word as it was typed.
Selected(t, chosen) ==
    CASE chosen \in 1..2 -> Meaning("m", chosen)
      [] chosen \notin 1..2 /\ "w" \in ToSet(t) -> Meaning("m", 1)
      [] OTHER -> Typed("m")

FirstM(t, consumed, i) == t[i] = "m" /\ \A j \in 1..(i - 1) : t[j] # "m" \/ j \in consumed

\* The value shown at each place of a text, empty inside a phrase.
Values(t, chosen) ==
    LET matches == Matches(t)
        consumed == Consumed(matches)
        starting(i) == {m \in matches : m.first = i}
    IN  [i \in 1..Len(t) |->
            IF i \in consumed
            THEN IF starting(i) = {} THEN << >>
                 ELSE <<index[(CHOOSE m \in starting(i) : TRUE).phrase], "~">>
            ELSE CASE t[i] = "k" -> Meaning("k", 1)
                   [] t[i] = "m" -> Selected(t, IF FirstM(t, consumed, i) THEN chosen ELSE NoChoice)
                   [] OTHER -> Typed(t[i])]

\* Mutant of Primary: the variant shown takes the first option where the
\* spans were measured against the word itself.
PrimaryOption(values) ==
    [i \in 1..Len(values) |-> IF values[i] = Typed("m") THEN Meaning("m", 1) ELSE values[i]]

\* The primary variant, which replaces the output the spans were measured on.
Primary(values) == values

\* Joined with the separators of the text, nothing for an empty value: what
\* the output is after each value.
Extended(out, value) ==
    CASE value = << >> -> out
      [] value # << >> /\ out = << >> -> value
      [] OTHER -> out \o <<" ">> \o value

Outputs(values) ==
    LET upto[i \in 0..Len(values)] ==
            IF i = 0 THEN << >> ELSE Extended(upto[i - 1], values[i])
    IN  upto

Join(values) == Outputs(values)[Len(values)]

\* Where an abbreviation became a meaning: <<start, end, letters>> in values.
SpansOf(t, values) ==
    LET end(i) == Len(Outputs(values)[i])
    IN  {<<end(i) - Len(values[i]), end(i), values[i]>> :
            i \in {j \in 1..Len(t) : /\ values[j] # << >> /\ values[j] # Typed(t[j])
                                     /\ t[j] \in {"k", "m", "p", "q"}}}

----------------------------------------------------------------------------
(* A request.                                                               *)

\* The last word of the piece after word start: the last end of a sentence in
\* the piece's second half, or the limit.
CutEnd(n, ends, start, max) ==
    LET hard == IF start + max < n THEN start + max ELSE n
        half == IF max \div 2 > 1 THEN max \div 2 ELSE 1
        stops == {j \in ends : start + half < j /\ j <= hard}
    IN  IF stops = {} THEN hard ELSE Largest(stops)

\* Mutant of Piece: the gap before a later piece is skipped as a word.
PieceAfterGap(r, end) == SubSeq(r.text, IF r.next = 1 THEN 1 ELSE r.next + 1, end)

\* The words of the piece that ends with word end.
Piece(r, end) == SubSeq(r.text, r.next, end)

\* Mutant of Charged: the budget may be overdrawn.
ChargedWithoutFloor(left, n) == left - n

\* What a segment from the cache takes of the budget, as when it was made.
Charged(left, n) == IF left >= n THEN left - n ELSE 0

\* Texts with a user's choice, and short ones, are one segment.
SegmentEnd(r) ==
    IF r.chosen # NoChoice \/ Len(r.text) < MinWords \/ Len(r.text) <= Target
    THEN Len(r.text) ELSE CutEnd(Len(r.text), r.ends, r.next - 1, Target)

Idle == [text |-> << >>, ends |-> {}, typing |-> FALSE, chosen |-> 0, next |-> 1,
         seg |-> 0, out |-> << >>, shown |-> << >>, spans |-> {}, left |-> Cap, keys |-> {},
         wrote |-> << >>, running |-> FALSE]

RulesInit ==
    /\ index = [f \in Phrases |-> Index(f)]
    /\ segments = {} /\ request = Idle /\ requests = 0 /\ chunks = << >>

\* A request of the worker: a text, then that text with a word more or its
\* first word changed.
Start ==
    /\ ~request.running /\ requests < MaxRequests /\ chunks = << >>
    /\ \E t \in IF request.text = << >> THEN Texts
                ELSE {Append(request.text, x) : x \in {"u", "w"}}
                        \cup {[request.text EXCEPT ![1] = "u"]} :
       \E ends \in IF Len(t) < MinWords THEN {{}} ELSE SUBSET Ends, typing \in BOOLEAN,
          chosen \in IF "m" \in ToSet(t) THEN 0..3 ELSE {0} :
            request' = [Idle EXCEPT !.text = t, !.ends = ends,
                                    !.typing = typing /\ Last(t) \in Alpha,
                                    !.chosen = chosen, !.running = TRUE]
    /\ requests' = requests + 1
    /\ UNCHANGED <<index, segments, chunks>>

\* A request after the segment that ends with word end and gave result.
Joined(r, end, result) ==
    LET gap == IF r.seg = 0 THEN 0 ELSE Len(r.out) + 1
    IN  [r EXCEPT !.next = end + 1, !.seg = @ + 1,
                  !.out = IF r.seg = 0 THEN Join(result.values)
                          ELSE @ \o <<" ">> \o Join(result.values),
                  !.shown = @ \o result.shown,
                  !.spans = @ \cup {<<s[1] + gap, s[2] + gap, s[3]>> : s \in result.spans}]

\* A segment from the cache is charged to the budget as when it was made; no
\* text that is one segment is looked up.
FromCache(end, whole, key) ==
    \E e \in segments :
        /\ e.key = key /\ ~whole
        /\ request' = [Joined(request, end, e) EXCEPT !.left = Charged(@, Len(e.sent)),
                                                     !.keys = @ \cup ToSet(e.sent)]
        /\ UNCHANGED segments

\* What a segment gives, whose words with accents are t.
Result(key, t, values, sent) ==
    [key |-> key, shown |-> t, values |-> Primary(values), spans |-> SpansOf(t, values),
     sent |-> sent.wrote]

\* A segment that is restored and expanded; t is its words with accents.
Expanded(end, whole, key, typing) ==
    /\ whole \/ \A e \in segments : e.key # key
    /\ \E t \in {Restored(Piece(request, end))} : \E consumed \in {Consumed(Matches(t))} :
       \E values \in {Values(t, request.chosen)},
          sent \in {Tried([left |-> request.left, keys |-> request.keys, wrote |-> << >>],
                          PhraseKeys(t, consumed) \o WordKeys(t, consumed, typing))} :
       \E fresh \in {Result(key, t, values, sent)} :
           /\ request' = [Joined(request, end, fresh) EXCEPT !.left = sent.left, !.keys = sent.keys,
                                                            !.wrote = @ \o sent.wrote]
           /\ segments' = IF whole THEN segments ELSE segments \cup {fresh}

\* What the cache tells segments apart by: the words, where sentences end in
\* them, and whether the last one is still being typed.
SegmentKey(r, end, typing) ==
    <<Piece(r, end), {j - r.next : j \in r.ends \cap r.next..end}, typing>>

\* One segment of the text, or all of a text that is not cut.
Segment ==
    /\ request.running /\ request.next <= Len(request.text)
    /\ \E end \in {SegmentEnd(request)} :
       \E whole \in {end = Len(request.text) /\ request.next = 1},
          typing \in {request.typing /\ end = Len(request.text)} :
       \E key \in {SegmentKey(request, end, typing)} :
           FromCache(end, whole, key) \/ Expanded(end, whole, key, typing)
    /\ UNCHANGED <<index, requests, chunks>>

Finish ==
    /\ request.running /\ request.next > Len(request.text)
    /\ request' = [request EXCEPT !.running = FALSE]
    /\ UNCHANGED <<index, segments, requests, chunks>>

----------------------------------------------------------------------------
(* The verifier's chunks of a text of n words, breaks after the words nl    *)
(* and a literal from its first to its last word.                           *)

\* The last word of the chunk after word start, before literals count.
SplitEnd(n, ends, nl, pack, start, max) ==
    LET hard == IF start + max < n THEN start + max ELSE n
        breaks == {j \in nl : start < j /\ j < hard}
    IN  CASE pack /\ (hard = n \/ hard \in nl) -> hard
          [] ~(pack /\ (hard = n \/ hard \in nl)) /\ breaks # {} ->
                IF pack THEN Largest(breaks) ELSE Smallest(breaks)
          [] OTHER -> CutEnd(n, ends, start, max)

\* Mutant of ChunkEnd: a literal is exposed in part.
ChunkEndAnywhere(n, ends, nl, literal, pack, start, max) ==
    SplitEnd(n, ends, nl, pack, start, max)

ChunkEnd(n, ends, nl, literal, pack, start, max) ==
    LET split == SplitEnd(n, ends, nl, pack, start, max)
    IN  IF literal[1] <= split /\ split < literal[2] THEN literal[2] ELSE split

Chunked(n, ends, nl, literal, pack, max) ==
    LET from[s \in 0..n] ==
            IF s = n THEN << >>
            ELSE LET e == ChunkEnd(n, ends, nl, literal, pack, s, max)
                 IN  <<<<s + 1, e>>>> \o from[e]
    IN  IF n <= max THEN <<<<1, n>>>> ELSE from[0]

Review ==
    /\ requests = 0 /\ chunks = << >>
    /\ \E n \in 1..MaxReview, max \in 1..MaxReview, pack \in BOOLEAN :
       \E ends \in SUBSET (1..n), nl \in SUBSET (1..n), a \in 1..n : \E b \in a..n :
            chunks' = [n |-> n, max |-> max, literal |-> <<a, b>>,
                       pieces |-> Chunked(n, ends, nl, <<a, b>>, pack, max)]
    /\ UNCHANGED <<index, segments, request, requests>>

RulesNext == Start \/ Segment \/ Finish \/ Review

RulesSpec == RulesInit /\ [][RulesNext]_rules

----------------------------------------------------------------------------
(* Properties                                                               *)

\* The reading of a text that phrases and words have: the longest phrase at
\* the first place, then on behind it.
Reference(t) ==
    LET n == Len(t)
        longest(i) == {e \in i..n : e - i < MaxNgram /\ SubSeq(t, i, e) \in Phrases}
        show[i \in 1..(n + 1)] ==
            IF i > n THEN << >>
            ELSE IF longest(i) # {} THEN <<SubSeq(t, i, Largest(longest(i)))>> \o show[Largest(longest(i)) + 1]
            ELSE <<<<t[i]>>>> \o show[i + 1]
    IN  show[1]

Uncut(r) == r.seg = 1 /\ "#" \notin ToSet(r.text)

\* A finished text of one segment shows the longest phrases, each at the
\* first place no earlier phrase took, and every other word in its place.
LongestShown ==
    LET r == request
        want == Reference(r.shown)
        value(f) == IF f \in Phrases THEN <<index[f], "~">>
                    ELSE CASE f[1] = "k" -> Meaning("k", 1) [] OTHER -> Typed(f[1])
    IN  r.text # << >> /\ ~r.running /\ Uncut(r) /\ "m" \notin ToSet(r.text) =>
            r.out = Join([i \in 1..Len(want) |-> value(want[i])])

\* The text is cut without a gap or an overlap, wherever its sentences end, and
\* only words without accents change before phrases and words are looked up: a
\* context phrase leaves the accents its user typed.
WordsKept ==
    LET r == request
    IN  ~r.running => Len(r.shown) = Len(r.text)
            /\ \A i \in 1..Len(r.text) : r.text[i] # "d0" => r.shown[i] = r.text[i]

\* Each highlighted place of the output holds the meaning it stands for,
\* after the segments before it were joined, cached or not.
SpansTell ==
    \A s \in request.spans : SubSeq(request.out, s[1] + 1, s[2]) = s[3]

\* One request writes no more than Cap words for moderation, each once.
PendingBounded ==
    /\ Len(request.wrote) <= Cap
    /\ \A i, j \in 1..Len(request.wrote) : request.wrote[i] = request.wrote[j] => i = j

\* The verifier's chunks are the whole text in order, none longer than the
\* limit but for a literal, and no literal is cut in two.
ChunksWhole ==
    chunks # << >> =>
        LET c == chunks.pieces
        IN  /\ c[1][1] = 1 /\ c[Len(c)][2] = chunks.n
            /\ \A i \in 1..(Len(c) - 1) : c[i + 1][1] = c[i][2] + 1
            /\ \A i \in 1..Len(c) :
                  \/ c[i][2] - c[i][1] < chunks.max
                  \/ c[i][1] <= chunks.literal[2] /\ c[i][2] = chunks.literal[2]
            /\ \E i \in 1..Len(c) : c[i][1] <= chunks.literal[1] /\ chunks.literal[2] <= c[i][2]

\* The specification: numbers, codes and addresses of the text are preserved.
NumbersKept ==
    LET r == request
        count(s, x) == Len(SelectSeq(s, LAMBDA y : y = x))
    IN  r.text # << >> /\ ~r.running => count(r.out, "#") = count(r.text, "#")
=============================================================================
