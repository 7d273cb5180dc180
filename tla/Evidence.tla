------------------------------ MODULE Evidence ------------------------------
(***************************************************************************)
(* What the enrichment of an entity reads about it (organize_evidence):    *)
(* fragments of documents that mention it or were found by a search are    *)
(* merged where they overlap, ranked, and taken as far as the limits of    *)
(* one call of the model allow, so much for each topic, document and kind  *)
(* first.  The topics of what was taken are what must be written           *)
(* (build_evidence_claim_groups).                                          *)
(*                                                                         *)
(* A fragment has a sequence of blocks (paragraphs, all of one size, the   *)
(* unit of the limits); a block found in two fragments is the same text.   *)
(* rank is 2 for a mention, 1 for another relation, 0 for a search result, *)
(* which alone has lines, a score and topics of its own.  Fragments the    *)
(* caller may not read do not occur: the callers pass none.                *)
(***************************************************************************)
EXTENDS Integers, Sequences, FiniteSets, SequencesExt, FiniteSetsExt

CONSTANTS
    Fragment,     \* the fragments that can be found
    Target,       \* the document of the entity itself
    MaxTotal,     \* max_total_chars: at least 1, like the next four
    MaxFragments, \* max_fragments
    MaxText,      \* max_fragment_chars
    MaxPerDoc,    \* max_fragments_per_document
    MinTopic,     \* min_topic_source_chars
    MaxFound      \* bound: fragments found

VARIABLE source

Smaller(m, n) == IF m < n THEN m ELSE n
Within(s, t) == \E i \in 0 .. Len(t) - Len(s) : SubSeq(t, i + 1, i + Len(s)) = s
Overlaps(s, t) == Range(s) \cap Range(t) # {}

\* _merge_evidence_content
EachOnce(s) == FoldLeft(LAMBDA m, b : IF b \in Range(m) THEN m ELSE Append(m, b), <<>>, s)

MergedText(s, t) ==
    CASE Within(t, s) -> s
      [] ~Within(t, s) /\ Within(s, t) -> t
      [] OTHER -> EachOnce(s \o t)

\* The lines of a fragment: none, or the first and the last.
MergedLines(p, q) == IF p = {} \/ q = {} THEN p \cup q ELSE {Min(p \cup q), Max(p \cup q)}

JoinKeepingTopics(e, f) ==
    [e EXCEPT !.text = MergedText(e.text, f.text), !.lines = MergedLines(e.lines, f.lines),
              !.score = Max({e.score, f.score})]

\* A fragment with another one merged into it.
Join(e, f) ==
    [e EXCEPT !.text = MergedText(e.text, f.text), !.lines = MergedLines(e.lines, f.lines),
              !.score = Max({e.score, f.score}), !.topics = @ \cup f.topics]

Near(e, f) ==
    e.lines # {} /\ f.lines # {} /\ Max({Min(e.lines), Min(f.lines)}) <= Smaller(Max(e.lines), Max(f.lines)) + 2

\* _fragments_are_mergeable_neighbors
Neighbours(e, f) ==
    /\ e.doc = f.doc /\ (e.rank > 0) = (f.rank > 0)
    /\ Near(e, f) \/ Overlaps(e.text, f.text)

\* _merge_adjacent_fragments: into the last neighbour, unless the two are too long together.
Adjoin(m, f) ==
    LET near == {i \in DOMAIN m : Neighbours(m[i], f)}
        i == Max(near)
        fits == \/ Len(MergedText(m[i].text, f.text)) <= MaxText
                \/ Within(m[i].text, f.text) \/ Within(f.text, m[i].text)
    IN  IF near # {} /\ fits THEN [m EXCEPT ![i] = Join(m[i], f)] ELSE Append(m, f)

Coalesced(fs) == FoldLeft(LAMBDA m, f : Adjoin(m, f), <<>>, fs)

\* _merge_semantic_into_mentions: the mentions, and the others into the first that overlaps.
Mention(m, f) ==
    LET same == {i \in DOMAIN m : m[i].doc = f.doc /\ Overlaps(m[i].text, f.text)}
    IN  IF same = {} THEN Append(m, f) ELSE [m EXCEPT ![Min(same)] = Join(m[Min(same)], f)]

Mentions(fs) == FoldLeft(LAMBDA m, f : IF f.rank > 0 THEN Append(m, f) ELSE m, <<>>, fs)
Mentioned(fs) == FoldLeft(LAMBDA m, f : IF f.rank > 0 THEN m ELSE Mention(m, f), Mentions(fs), fs)

Same(e, f) == e.doc = f.doc /\ e.lines = f.lines /\ e.text = f.text

\* The fragments of other documents, each once.
Once(m, f) ==
    LET same == {i \in DOMAIN m : Same(m[i], f)}
        i == Min(same)
    IN  CASE f.doc = Target -> m
          [] f.doc # Target /\ same = {} -> Append(m, f)
          [] OTHER -> [m EXCEPT ![i] = [Join(m[i], f) EXCEPT !.rank = Max({@, f.rank})]]

Unique(fs) == FoldLeft(LAMBDA m, f : Once(m, f), <<>>, fs)

First(f) == IF f.lines = {} THEN -1 ELSE Min(f.lines)

\* Whether e is to be read before f.
Before(e, f) ==
    \/ e.rank > f.rank
    \/ e.rank = f.rank /\ \/ e.score > f.score
                          \/ e.score = f.score /\ \/ e.doc < f.doc
                                                  \/ e.doc = f.doc /\ First(e) < First(f)

\* Sorted, those that are equal in the order they have.
Ranked(fs) ==
    LET earlier(i) == {j \in DOMAIN fs : Before(fs[j], fs[i]) \/ (j < i /\ ~Before(fs[i], fs[j]))}
    IN  [n \in DOMAIN fs |-> fs[CHOOSE i \in DOMAIN fs : Cardinality(earlier(i)) = n - 1]]

Eligible(fs) == Ranked(Unique(Mentioned(Coalesced(fs))))

(***************************************************************************)
(* The selection: taken[i] blocks of the i-th eligible fragment.           *)
(***************************************************************************)
Sum(taken) == FoldSet(LAMBDA i, n : taken[i] + n, 0, DOMAIN taken)
Taken(taken) == {i \in DOMAIN taken : taken[i] > 0}

RoomWhole(es, taken, i) ==
    IF \/ Cardinality(Taken(taken)) >= MaxFragments \/ Sum(taken) >= MaxTotal
       \/ Cardinality({j \in Taken(taken) : es[j].doc = es[i].doc}) >= MaxPerDoc
    THEN 0 ELSE Smaller(Len(es[i].text), MaxText)

\* What may be taken of a fragment.
Room(es, taken, i) ==
    IF \/ Cardinality(Taken(taken)) >= MaxFragments
       \/ Cardinality({j \in Taken(taken) : es[j].doc = es[i].doc}) >= MaxPerDoc
    THEN 0 ELSE Smaller(Len(es[i].text), Smaller(MaxText, MaxTotal - Sum(taken)))

Add(es, taken, i) == IF taken[i] > 0 THEN taken ELSE [taken EXCEPT ![i] = Room(es, taken, i)]

\* The groups a fragment counts for: topic (0: none), document, and 0 for mentions, 1 for search.
GroupsOf(e) ==
    {<<k, t, e.doc>> : k \in {x \in {0, 1} : IF x = 0 THEN e.rank > 0 ELSE e.score > 0 \/ e.rank = 0},
                       t \in IF e.topics = {} THEN {0} ELSE e.topics}

Groups(es) == UNION {GroupsOf(es[i]) : i \in DOMAIN es}

Quota(es) == Smaller(MinTopic, Max({1, MaxTotal \div Max({1, Cardinality(Groups(es))})}))

\* What others have taken for a group.
Counted(es, taken, g) ==
    FoldSet(LAMBDA i, n : Smaller(Len(es[i].text), MaxText) + n, 0, {i \in Taken(taken) : g \in GroupsOf(es[i])})

\* A group takes of its fragments until it has its quota; what others took of them counts in
\* full, were it cut or not.
Count(es, g, acc, i) ==
    IF g \notin GroupsOf(es[i]) \/ acc.covered >= Quota(es) THEN acc
    ELSE LET new == Add(es, acc.taken, i)
         IN  [taken |-> new, covered |-> acc.covered + new[i] - acc.taken[i]]

Serve(es, taken, g) ==
    FoldLeft(LAMBDA acc, i : Count(es, g, acc, i), [taken |-> taken, covered |-> Counted(es, taken, g)],
             [i \in DOMAIN es |-> i]).taken

LessGroup(g, h) ==
    \/ g[1] < h[1]
    \/ g[1] = h[1] /\ (g[2] < h[2] \/ (g[2] = h[2] /\ g[3] < h[3]))

\* Mentions first, then by topic and document.
InOrder(gs) ==
    [n \in 1 .. Cardinality(gs) |-> CHOOSE g \in gs : Cardinality({h \in gs : LessGroup(h, g)}) = n - 1]

Served(es) ==
    FoldLeft(LAMBDA taken, g : Serve(es, taken, g), [i \in DOMAIN es |-> 0], InOrder(Groups(es)))

\* The rest by rank.
Filled(es, taken) == FoldLeft(LAMBDA t, i : Add(es, t, i), taken, [i \in DOMAIN es |-> i])

Selection(es) == Filled(es, Served(es))

\* The topics to be written, with the fragments and documents that support each.
ClaimGroups(es, taken) ==
    LET topics(i) == IF es[i].topics = {} THEN {0} ELSE es[i].topics
        of(t) == {i \in Taken(taken) : t \in topics(i)}
    IN  [t \in UNION {topics(i) : i \in Taken(taken)} |->
            [evidence |-> of(t), sources |-> {es[i].doc : i \in of(t)},
             required |-> \E i \in of(t) : es[i].rank > 0 \/ es[i].score > 1]]

(***************************************************************************)
(* Relations are read before the search, which returns a text once.        *)
(***************************************************************************)
Init == source = <<>>

Find(f) ==
    /\ Len(source) < MaxFound
    /\ \A i \in DOMAIN source : /\ f.rank > 0 => source[i].rank > 0
                                /\ f.rank = 0 => ~(source[i].rank = 0 /\ source[i].doc = f.doc /\ source[i].text = f.text)
    /\ source' = Append(source, f)

Next == \E f \in Fragment : Find(f)
Spec == Init /\ [][Next]_source

(***************************************************************************)
(* Properties                                                              *)
(***************************************************************************)

\* Merging loses nothing: whatever was found, in whatever order, is part of one fragment, of
\* its document, that has its whole text, its topics, and at least its score, and a mention
\* is part of a mention.
NothingLost ==
    \A i \in DOMAIN source : source[i].doc # Target =>
        \E e \in Range(Eligible(source)) :
            /\ e.doc = source[i].doc /\ Range(source[i].text) \subseteq Range(e.text)
            /\ source[i].topics \subseteq e.topics /\ e.score >= source[i].score
            /\ source[i].rank > 0 => e.rank > 0

\* The limits of a call are kept by the sum of what is taken for all groups and by rank, and
\* nothing is taken of the entity's own document.
LimitsKept ==
    LET es == Eligible(source)
        taken == Selection(es)
    IN  /\ Sum(taken) <= MaxTotal /\ Cardinality(Taken(taken)) <= MaxFragments
        /\ \A i \in DOMAIN es : taken[i] <= MaxText /\ (taken[i] > 0 => es[i].doc # Target)
        /\ \A d \in {e.doc : e \in Range(es)} : Cardinality({i \in Taken(taken) : es[i].doc = d}) <= MaxPerDoc

\* A fragment is left out only when a limit was reached, and a document that has nothing taken
\* supports no topic.
NothingLeft ==
    LET es == Eligible(source)
        taken == Selection(es)
        written == ClaimGroups(es, taken)
    IN  /\ \A i \in DOMAIN es \ Taken(taken) :
               \/ Sum(taken) = MaxTotal \/ Cardinality(Taken(taken)) = MaxFragments
               \/ Cardinality({j \in Taken(taken) : es[j].doc = es[i].doc}) = MaxPerDoc
        /\ \A t \in DOMAIN written : written[t].evidence # {} /\ written[t].sources \subseteq {es[i].doc : i \in Taken(taken)}

\* Where the quotas of all topics fit together, every topic that was found is written about:
\* no topic that comes earlier takes what is reserved for a later one.
TopicsServed ==
    LET es == Eligible(source)
        groups == Groups(es)
    IN  Cardinality(groups) <= Smaller(MaxFragments, Smaller(MaxTotal, MaxPerDoc)) =>
            {g[2] : g \in groups} = DOMAIN ClaimGroups(es, Selection(es)) \cup (IF \E g \in groups : g[2] = 0 THEN {0} ELSE {})
=============================================================================
