-------------------------- MODULE DiscoveryContext --------------------------
(***************************************************************************)
(* What the discovery of entities sees of a document                       *)
(* (build_discovery_context): the document is cut into slices, headings    *)
(* and pieces of text, as many slices are selected as a budget of          *)
(* characters allows, and the budget is lowered until the selection fits   *)
(* the excerpt with all that is written around the slices.                 *)
(*                                                                         *)
(* The document grows block by block; a block is a sequence of lines.  A   *)
(* line has a kind, a size and, for a heading or a fence, a level (for a   *)
(* fence the number of its marks).  The text of a line has no spaces,      *)
(* but a heading has one behind its marks.                                 *)
(* Positions are those of the code: a line occupies its size and one       *)
(* character for its end.  The path of a section is given by the lines of  *)
(* its headings.  What is written around a slice has a constant size.      *)
(***************************************************************************)
EXTENDS Integers, Sequences, FiniteSets, SequencesExt, FiniteSetsExt

CONSTANTS
    Block,       \* the sequences of lines a document is made of
    MaxChars,    \* max_chars: the size of the excerpt, at least 256
    Coalesce,    \* a longer document has blank lines inside its pieces
    Frame,       \* characters around an empty selection
    HeadingTag,  \* characters around a heading
    ContentTag,  \* characters around a piece of text
    Margin,      \* what the budget is lowered by beyond the overflow
    MaxLines     \* bound: lines of a document

VARIABLES doc, slices, budget, selected, phase
vars == <<doc, slices, budget, selected, phase>>

Chunk == Min({1200, Max({128, MaxChars \div 12})})

Upto(n) == [i \in 1 .. n |-> i]
Total(f(_), s) == FoldSet(LAMBDA x, n : f(x) + n, 0, s)

\* Where each line begins, and where the one after the last would.
Starts(d) ==
    LET at[i \in 1 .. Len(d) + 1] == IF i = 1 THEN 0 ELSE at[i - 1] + d[i - 1].size + 1
    IN  at

\* The ends of lines, and the spaces behind the marks of headings.
Spaces(d) == {Starts(d)[i] - 1 : i \in 2 .. Len(d) + 1} \cup {Starts(d)[i] + d[i].level : i \in {j \in DOMAIN d : d[j].kind = "heading"}}
Ink(d) == {i \in DOMAIN d : d[i].kind # "blank"}

\* The fence that is open after each line, by the number of its marks.
Fences(d) ==
    LET open[i \in 0 .. Len(d)] ==
            CASE i = 0                                        -> 0
              [] i > 0 /\ d[i].kind # "fence"                 -> open[i - 1]
              [] i > 0 /\ d[i].kind = "fence" /\ open[i - 1] = 0 -> d[i].level
              [] OTHER -> IF d[i].level >= open[i - 1] THEN 0 ELSE open[i - 1]
    IN  open

Headings(d) == {i \in DOMAIN d : d[i].kind = "heading" /\ Fences(d)[i - 1] = 0}

StackOpen(d, i) ==
    FoldLeft(LAMBDA st, j : IF j \notin Headings(d) THEN st
                            ELSE Append(SelectSeq(st, LAMBDA k : d[k].level <= d[j].level), j),
             <<>>, Upto(i))

\* The headings that are on the stack after the lines up to i.
Stack(d, i) ==
    FoldLeft(LAMBDA st, j : IF j \notin Headings(d) THEN st
                            ELSE Append(SelectSeq(st, LAMBDA k : d[k].level < d[j].level), j),
             <<>>, Upto(i))

\* The paragraphs, as first and last line: from heading to heading in a long document, from
\* blank line to blank line in another.
Paragraphs(d) ==
    LET inside == DOMAIN d \ (Headings(d) \cup (IF Starts(d)[Max(Ink(d)) + 1] - 1 - Starts(d)[Min(Ink(d))] > Coalesce
                                                THEN {} ELSE DOMAIN d \ Ink(d)))
    IN  {p \in inside \X inside : /\ p[1] <= p[2] /\ p[1] .. p[2] \subseteq inside
                                  /\ p[1] - 1 \notin inside /\ p[2] + 1 \notin inside
                                  /\ Ink(d) \cap p[1] .. p[2] # {}}

\* The text from s to e in pieces of at most Chunk characters: cut at a space where there is
\* one in the last two fifths of a piece.
Pieces(d, s, e) ==
    LET space == Spaces(d)
        cut[i \in 0 .. e] ==
            LET ends   == {p \in space : i + (Chunk * 3) \div 5 <= p /\ p < i + Chunk}
                at     == IF ends = {} THEN i + Chunk ELSE Max(ends)
                stop   == Max({p \in i .. at : p = i \/ p - 1 \notin space})
                resume == Min({p \in at .. e : p = e \/ p \notin space})
            IN  CASE i >= e         -> {}
                  [] e - i <= Chunk -> {<<i, e>>}
                  [] OTHER          -> {p \in {<<i, stop>>} : i < stop} \cup cut[resume]
    IN  cut[s]

\* A slice: its span, its level (0 for text), the headings it stands under, and the last of
\* them, which owns it (0: none).
Slice(span, level, path) ==
    [start |-> span[1], end |-> span[2], level |-> level, path |-> path,
     owner |-> IF path = <<>> THEN 0 ELSE Last(path)]

\* _parse_context_slices
Slices(d) ==
    LET at == Starts(d)
        end(i) == at[i] + d[i].size
        ink(p) == Ink(d) \cap p[1] .. p[2]
    IN  {Slice(<<at[i], end(i)>>, d[i].level, Stack(d, i)) : i \in Headings(d)}
        \cup UNION {{Slice(piece, 0, Stack(d, p[1])) : piece \in Pieces(d, at[Min(ink(p))], end(Max(ink(p))))} :
                       p \in Paragraphs(d)}

Size(x) == x.end - x.start
Used(s) == Total(Size, s)
HeadingsOf(s) == {x \in s : x.level > 0}
ContentsOf(s) == {x \in s : x.level = 0}
InOrder(s) == [n \in 1 .. Cardinality(s) |-> CHOOSE x \in s : Cardinality({y \in s : y.start < x.start}) = n - 1]

\* _position_balanced_order: the first, the last, and then the middle of the widest gap.
Balanced(s) ==
    LET o == InOrder(s)
        at(i) == o[i].start
        gap(l, r) == {g \in {<<l, r>>} : r - l > 1}
        wider(g, h) == \/ at(g[2]) - at(g[1]) > at(h[2]) - at(h[1])
                       \/ at(g[2]) - at(g[1]) = at(h[2]) - at(h[1]) /\ g[1] <= h[1]
        away(g, i) == LET x == at(i) - (at(g[1]) + at(g[2])) \div 2 IN IF x < 0 THEN -x ELSE x
        middle(g) == CHOOSE i \in g[1] + 1 .. g[2] - 1 :
                        \A j \in g[1] + 1 .. g[2] - 1 :
                            away(g, i) < away(g, j) \/ (away(g, i) = away(g, j) /\ i <= j)
        next(acc, n) ==
            LET g == CHOOSE g \in acc.gaps : \A h \in acc.gaps : wider(g, h)
                m == middle(g)
            IN  [gaps |-> (acc.gaps \ {g}) \cup gap(g[1], m) \cup gap(m, g[2]), order |-> Append(acc.order, o[m])]
    IN  IF Len(o) <= 2 THEN o
        ELSE FoldLeft(next, [gaps |-> {<<1, Len(o)>>}, order |-> <<o[1], Last(o)>>], Upto(Len(o) - 2)).order

\* The slices of a sequence are added as long as they fit.
Add(sel, seq, limit) ==
    FoldLeft(LAMBDA s, x : IF x \notin s /\ Used(s) + Size(x) <= limit THEN s \cup {x} ELSE s, sel, seq)

\* The first piece of each section that is not too deep.
Representatives(s) ==
    {x \in ContentsOf(s) : /\ \A y \in ContentsOf(s) : y.owner = x.owner => x.start <= y.start
                           /\ \A h \in HeadingsOf(s) : h.owner = x.owner => h.level <= 3}

AddTextOnce(sel, s, b) ==
    LET o == InOrder(ContentsOf(s))
    IN  IF o = <<>> THEN sel ELSE Add(sel, <<Head(o), Last(o)>> \o Balanced(Representatives(s)), b)

\* The text is taken in turns: its ends, one piece of each section, then whatever fits.
AddText(sel, s, b) ==
    LET o == InOrder(ContentsOf(s))
    IN  IF o = <<>> THEN sel
        ELSE Add(sel, <<Head(o), Last(o)>> \o Balanced(Representatives(s)) \o Balanced(ContentsOf(s)), b)

\* _select_context_slices
Selection(s, b) ==
    IF Used(s) <= b THEN s ELSE AddText(Add({}, Balanced(HeadingsOf(s)), b \div 3), s, b)

\* The length of what _render_discovery_context writes.
Excerpt(s) ==
    Frame + Used(s) + HeadingTag * Cardinality(HeadingsOf(s)) + ContentTag * Cardinality(ContentsOf(s))

Truncated(s, sel) == ~(s \subseteq sel)

(***************************************************************************)
(* The steps: the document is written, then cut, then each round of the    *)
(* loop of build_discovery_context is a step.                              *)
(***************************************************************************)
Init == doc = <<>> /\ slices = {} /\ budget = MaxChars /\ selected = {} /\ phase = "writing"

Write(b) ==
    /\ phase = "writing" /\ Len(doc) + Len(b) <= MaxLines
    /\ doc' = doc \o b
    /\ UNCHANGED <<slices, budget, selected, phase>>

Parse ==
    /\ phase = "writing"
    /\ slices' = IF Ink(doc) = {} THEN {} ELSE Slices(doc)
    /\ phase' = IF Ink(doc) = {} THEN "done" ELSE "selecting"
    /\ UNCHANGED <<doc, budget, selected>>

FitsBare(sel) == Used(sel) <= MaxChars

Fits(sel) == Excerpt(sel) <= MaxChars

Lowered(sel) == Max({0, budget - Max({Excerpt(sel) - MaxChars + Margin, budget \div 10})})

Select ==
    /\ phase = "selecting"
    /\ selected' = Selection(slices, budget)
    /\ IF Fits(selected') \/ budget = 0
       THEN phase' = "done" /\ UNCHANGED budget
       ELSE budget' = Lowered(selected') /\ UNCHANGED phase
    /\ UNCHANGED <<doc, slices>>

Next == (\E b \in Block : Write(b)) \/ Parse \/ Select

Spec == Init /\ [][Next]_vars

(***************************************************************************)
(* Properties                                                              *)
(***************************************************************************)
Covers(x, i) == x.start < Starts(doc)[i] + doc[i].size /\ Starts(doc)[i] < x.end

\* The slices of a document are disjoint and have every character of it that is not blank;
\* a piece of text has no heading in it, and its path is that of its section: the headings
\* before it, outside of code, that no later heading of their level or above has closed.
SectionsRight ==
    slices # {} =>
        LET at == Starts(doc)
            code == {i \in DOMAIN doc : \E a \in 1 .. i - 1 : /\ doc[a].kind = "fence" /\ Fences(doc)[a - 1] = 0
                        /\ \A c \in a + 1 .. i - 1 : doc[c].kind = "fence" => doc[c].level < doc[a].level}
            headings == {i \in DOMAIN doc \ code : doc[i].kind = "heading"}
            above(x) == {i \in headings : at[i] <= x.start /\ \A j \in headings : i < j /\ at[j] <= x.start => doc[i].level < doc[j].level}
        IN  /\ \A x, y \in slices : x # y => x.end <= y.start \/ y.end <= x.start
            /\ \A i \in Ink(doc) : \A c \in {at[i], at[i] + doc[i].size - 1} : \E x \in slices : x.start <= c /\ c < x.end
            /\ \A x \in slices : /\ Range(x.path) = above(x)
                                 /\ \A i \in headings : Covers(x, i) => x.level > 0 /\ x.start = at[i] /\ x.end = at[i] + doc[i].size

\* The excerpt that the discovery is given is never longer than was asked for, and one that
\* is not said to be truncated has every line of the document.
ExcerptHonest ==
    phase = "done" =>
        /\ Excerpt(selected) <= MaxChars
        /\ ~Truncated(slices, selected) => \A i \in Ink(doc) : \E x \in selected : Covers(x, i)

\* Nothing that still fits the budget is left out of the text, however large the slices are
\* that were tried before it, and headings never take more than their share from the text.
BudgetUsed ==
    phase = "done" /\ Truncated(slices, selected) =>
        /\ \A x \in ContentsOf(slices) \ selected : Used(selected) + Size(x) > budget
        /\ Used(HeadingsOf(selected)) <= budget \div 3

\* A document with any text in it is shown to the discovery in part at least.
Represented == phase = "done" /\ Ink(doc) # {} => selected # {}
=============================================================================
