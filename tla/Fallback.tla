------------------------------ MODULE Fallback ------------------------------
(***************************************************************************)
(* The answer of a worker that was stopped: the evidence it collected is    *)
(* cut to the token budget of the model, the sub-queries and sources       *)
(* taking turns, or taken as it is when the budget cannot be had; and when *)
(* the model gives no answer either, one is made of what there is.  Texts  *)
(* are told apart by their length in tokens and by the places where their  *)
(* sentences end.                                                          *)
(***************************************************************************)
EXTENDS Integers, Sequences, SequencesExt, FiniteSetsExt

CONSTANTS
    Group,       \* pairs of a sub-query and a source type
    Score,
    MaxTokens,   \* of one result
    MaxResults,  \* bound on the results that are collected
    Available,   \* calculate_available_tokens
    MinSentence, \* instant_search_min_sentence_tokens
    MaxRounds    \* the loop is left after so many rounds, 101 in the code

VARIABLES
    results,  \* retrieval_results, in the order in which they were found
    replied,  \* whether the agent wrote something before it was stopped
    answer

vars == <<results, replied, answer>>
None == [made |-> "not yet", of |-> <<>>]

Init == results = <<>> /\ replied = FALSE /\ answer = None

\* A result: its sentences end after so many tokens, an empty text has none.
Result == [group : Group, score : Score, tokens : 0 .. MaxTokens, ends : SUBSET (1 .. MaxTokens)]

Find(r) ==
    /\ answer = None /\ Len(results) < MaxResults
    /\ \A n \in r.ends : n <= r.tokens
    /\ results' = Append(results, r)
    /\ UNCHANGED <<replied, answer>>

Reply == answer = None /\ ~replied /\ replied' = TRUE /\ UNCHANGED <<results, answer>>
-----------------------------------------------------------------------------
\* A result as it is put into the context: its place among the results, and its length.
Kept(i, n) == [at |-> i, tokens |-> n]
Used(kept) == FoldSeq(LAMBDA k, n : k.tokens + n, 0, kept)

\* truncate_at_sentence_boundary: the longest prefix of whole sentences that fits.
Prefix(r, n) == Max({0} \cup {e \in r.ends : e <= n})

\* The places of the results of one group, the best first, equally good ones as they were found.
Ranked(g) ==
    SetToSortSeq({i \in DOMAIN results : results[i].group = g},
                 LAMBDA i, j : \/ results[i].score > results[j].score
                               \/ results[i].score = results[j].score /\ i < j)

\* Groups take turns in the order in which they were first found.
Groups == LET all == [i \in DOMAIN results |-> results[i].group]
          IN  SelectSeq([i \in DOMAIN all |-> IF \E j \in 1 .. i - 1 : all[j] = all[i] THEN None
                                              ELSE all[i]], LAMBDA g : g # None)

RemainingAll(kept) == Available

\* What is left of the budget.
Remaining(kept) == Available - Used(kept)

\* One group's turn with result i: it is kept whole, or cut, or its sub-query is named as cut short.
Turn(s, i) ==
    LET r == results[i]
        n == Prefix(r, Remaining(s.kept))
    IN  IF r.tokens <= Available - Used(s.kept)
        THEN [s EXCEPT !.kept = Append(@, Kept(i, r.tokens)), !.any = TRUE]
        ELSE IF Remaining(s.kept) >= MinSentence /\ n > 0
        THEN [s EXCEPT !.kept = Append(@, Kept(i, n)), !.any = TRUE]
        ELSE [s EXCEPT !.named = @ \cup {r.group}]

\* One round: each group that has a result of this rank takes its turn.
Round(s, rank) ==
    FoldLeft(LAMBDA t, g : IF rank <= Len(Ranked(g)) THEN Turn(t, Ranked(g)[rank]) ELSE t,
             [s EXCEPT !.any = FALSE, !.ranks = rank], Groups)

\* Rounds follow while there is budget and one of them kept something; what no round
\* came to is named.
Bounded ==
    LET s == FoldLeft(LAMBDA t, rank : IF t.any /\ Used(t.kept) < Available THEN Round(t, rank) ELSE t,
                      [kept |-> <<>>, named |-> {}, any |-> TRUE, ranks |-> 0],
                      [rank \in 1 .. MaxRounds |-> rank])
    IN  [s EXCEPT !.named = @ \cup {g \in ToSet(Groups) : s.ranks < Len(Ranked(g))}]

\* The results as they are, without a bound, when the configuration of the model sets no limit
\* (LLM_STANDARD_MAX_MODEL_LEN has no default) or cannot be had.
Raw == [i \in DOMAIN results |-> Kept(i, results[i].tokens)]

\* Up to three results whose texts are not empty.
Contents(kept) == SelectSeq(SubSeq(kept, 1, Min({3, Len(kept)})), LAMBDA k : k.tokens > 0)

Deterministic(kept) ==
    IF replied THEN [made |-> "of replies", of |-> <<>>]
    ELSE IF Contents(kept) # <<>> THEN [made |-> "of results", of |-> Contents(kept)]
    ELSE [made |-> "of nothing", of |-> <<>>]

\* recursion_fallback_node: the model answers, or fails, or its answer is blank.
Answer(kept, answered) ==
    /\ answer = None
    /\ answer' = IF answered THEN [made |-> "by the model", of |-> kept] ELSE Deterministic(kept)
    /\ UNCHANGED <<results, replied>>

Next == \/ \E r \in Result : Find(r)
        \/ Reply
        \/ \E answered \in BOOLEAN : Answer(Bounded.kept, answered) \/ Answer(Raw, answered)

Spec == Init /\ [][Next]_vars
-----------------------------------------------------------------------------
Places(kept) == [i \in DOMAIN kept |-> kept[i].at]

\* The bounded context stays within the budget and is made of results that were found, each
\* whole or cut after a sentence and none twice; the groups take turns by the scores, so that
\* none has its second best result in before another's best was considered; and a group that
\* lost a whole result is named.  It says nothing of Raw, which has no bound.
ContextFits ==
    LET b == Bounded
        Before(i) == {j \in DOMAIN results :
                         /\ results[j].group = results[i].group
                         /\ \/ results[j].score > results[i].score
                            \/ results[j].score = results[i].score /\ j < i}
    IN  /\ Used(b.kept) <= Available
        /\ \A k \in DOMAIN b.kept :
              LET r == results[b.kept[k].at] IN
              /\ b.kept[k].tokens \in r.ends \cup {r.tokens}
              /\ \A l \in 1 .. k - 1 :
                    /\ b.kept[l].at # b.kept[k].at
                    /\ Cardinality(Before(b.kept[l].at)) <= Cardinality(Before(b.kept[k].at))
        /\ b.named = {results[i].group : i \in DOMAIN results \ ToSet(Places(b.kept))}
=============================================================================
