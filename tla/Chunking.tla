------------------------------ MODULE Chunking ------------------------------
(***************************************************************************)
(* How a document is cut into chunks (DocumentChunkingService._split_text):*)
(* lines are gathered into headings and paragraphs, paragraphs into bodies *)
(* of about chunk_size characters, and each body is sent with the headings *)
(* it stands under.                                                        *)
(*                                                                         *)
(* The document grows line by line.  A line is its kind:                   *)
(*   "#", "##"   a Markdown heading of level 1, 2                          *)
(*   "Ch"        a heading whose level is inferred ("chapter one")         *)
(*   "1.", "2."  the same, or an item of an ordered list                   *)
(*   "p", "P"    a line of text, short or long, that ends a sentence       *)
(*   "R"         a reference longer than chunk_size                        *)
(*   "date"      a date: noise when it is repeated, outside of Markdown    *)
(*   "fence", ""  a code fence, a blank line                               *)
(* How a line is recognised, tables, and cuts inside a line are left out   *)
(* (TextCut has the latter).                                               *)
(***************************************************************************)
EXTENDS Integers, Sequences, FiniteSets, SequencesExt, FiniteSetsExt

CONSTANTS
    Line,        \* the kinds of lines a document is made of
    Soft,        \* soft_body_size: chunk_size
    Hard,        \* hard_body_size
    MaxLines     \* bound: lines of a document

VARIABLE doc

Size(k) == CASE k = "P" -> 3 [] k = "R" -> Soft + 1 [] OTHER -> 1

\* The lines inside code fences, the fences included.
Code(d) ==
    LET open[i \in 0 .. Len(d)] == i > 0 /\ (open[i - 1] # (d[i] = "fence"))
    IN  {i \in DOMAIN d : open[i] \/ d[i] = "fence"}

\* Dates that are repeated.
Noise(d, md) ==
    {i \in DOMAIN d : ~md /\ d[i] = "date" /\ \E j \in DOMAIN d \ {i} : d[j] = "date"}

Numbered == {"1.", "2."}

\* The lines that match a pattern of headings.
Matches(d, md) ==
    {i \in DOMAIN d : /\ d[i] \in {"Ch"} \cup Numbered \/ (md /\ d[i] \in {"#", "##"})
                      /\ i \notin Noise(d, md) \cup (IF md THEN Code(d) ELSE {})}

\* Numbered lines that count up line after line are a list.
Listed(d, M) ==
    LET follows(i, j) == {i, j} \subseteq M /\ j = i + 1 /\ d[i] = "1." /\ d[j] = "2."
    IN  {i \in M : follows(i, i + 1) \/ follows(i - 1, i)}

Pattern(k) == IF k \in Numbered THEN "numeric_dot" ELSE k

\* The level of each heading: its own, or that of its pattern, which are numbered in the
\* order in which they first appear.
Levels(d, md) ==
    LET headings == Matches(d, md) \ Listed(d, Matches(d, md))
        inferred(i) == Cardinality({Pattern(d[j]) : j \in {x \in headings : x <= i /\ d[x] \notin {"#", "##"}}})
        first(i) == Min({j \in headings : Pattern(d[j]) = Pattern(d[i])})
    IN  [i \in headings |-> CASE d[i] = "#" -> 1 [] d[i] = "##" -> 2 [] OTHER -> inferred(first(i))]

Ink(d, md) == {i \in DOMAIN d : d[i] # "" /\ i \notin Noise(d, md)}

\* The paragraphs: the first and the last of the lines between blank lines and headings.
Paragraphs(d, ink, headings) ==
    LET ends(i) == i \notin DOMAIN d \/ d[i] = "" \/ i \in headings
        text == {i \in ink : ~ends(i)}
        whole(a, b) == /\ a <= b /\ \A i \in a .. b : ~ends(i)
                       /\ \A i \in text : i < a => \E j \in i .. a : ends(j)
                       /\ \A i \in text : i > b => \E j \in b .. i : ends(j)
    IN  {p \in text \X text : whole(p[1], p[2])}

Lines(a, b) == [n \in 1 .. b - a + 1 |-> a + n - 1]

Length(d, ls) == FoldSeq(LAMBDA i, n : Size(d[i]) + n, Len(ls) - 1, ls)

Part(ls, kind, size) == [lines |-> ls, kind |-> kind, size |-> size]

EndsSentence(k) == k \in {"p", "P"}

Sentences(d, ls) ==
    FoldLeft(LAMBDA ss, i : IF ss = <<>> \/ EndsSentence(d[Last(Last(ss))]) THEN Append(ss, <<i>>)
                            ELSE Front(ss) \o <<Append(Last(ss), i)>>,
             <<>>, ls)

\* A text is grouped sentence by sentence, as many as fit the hard size.  The end of a line is
\* part of the sentence behind it; lead and trail count those around the text.
Grouped(d, ls, lead, trail) ==
    LET size(g) == Length(d, g) + (IF Head(g) = Head(ls) THEN lead ELSE 1)
                   + (IF Last(g) = Last(ls) /\ ~EndsSentence(d[Last(g)]) THEN trail ELSE 0)
        groups == FoldLeft(LAMBDA gs, s : IF gs # <<>> /\ size(Last(gs) \o s) <= Hard
                                          THEN Front(gs) \o <<Last(gs) \o s>> ELSE Append(gs, s),
                           <<>>, Sentences(d, ls))
    IN  [n \in DOMAIN groups |-> Part(groups[n], "text", size(groups[n]))]

\* A paragraph as it is, or cut: around the references that are too long, and where it is
\* longer than the hard size.  What is cut is the text of the document, noise included, and the
\* ends of lines next to a reference stay with what is around it.
Parts(d, ink, a, b) ==
    LET refs  == {i \in a .. b : d[i] = "R"}
        kept  == SelectSeq(Lines(a, b), LAMBDA i : i \in ink)
        fits(ls) == IF ls = <<>> THEN <<>>
                    ELSE LET lead  == IF Head(ls) > a THEN 1 ELSE 0
                             trail == IF Last(ls) < b THEN 1 ELSE 0
                             size  == Length(d, ls) + lead + trail
                         IN  IF size <= Hard THEN <<Part(ls, "text", size)>>
                             ELSE Grouped(d, ls, lead, trail)
        around == FoldLeft(LAMBDA acc, i :
                        IF i \in refs
                        THEN [parts |-> acc.parts \o fits(acc.ls) \o <<Part(<<i>>, "reference", Size("R"))>>,
                              ls |-> <<>>]
                        ELSE [acc EXCEPT !.ls = Append(@, i)],
                    [parts |-> <<>>, ls |-> <<>>], Lines(a, b))
    IN  CASE refs # {} -> around.parts \o fits(around.ls)
          [] refs = {} /\ Length(d, kept) <= Hard -> <<Part(kept, "text", Length(d, kept))>>
          [] OTHER -> fits(Lines(a, b))

\* The headings and the parts of the paragraphs, in the order of the document.
Blocks(d, ink, headings) ==
    LET paragraphs == Paragraphs(d, ink, headings)
        at(i) == IF i \in headings THEN <<Part(<<i>>, "heading", Size(d[i]))>>
                 ELSE FlattenSeq(SetToSeq({Parts(d, ink, p[1], p[2]) : p \in {x \in paragraphs : x[1] = i}}))
    IN  FlattenSeq([i \in DOMAIN d |-> at(i)])

Start == [chunks |-> <<>>, stack |-> <<>>, pending |-> <<>>, body |-> <<>>]
Chunk(body, context, size) == [body |-> body, context |-> context, size |-> size]

Body(parts) == FlattenSeq([n \in DOMAIN parts |-> parts[n].lines])

\* The length of a body, whose parts are joined by ends of lines.
Extent(parts) == FoldLeft(LAMBDA n, p : n + p.size, Len(parts) - 1, parts)

Flush(s) ==
    IF s.body = <<>> THEN s
    ELSE [s EXCEPT !.chunks = Append(@, Chunk(Body(s.body), s.stack, Extent(s.body))),
                   !.pending = SelectSeq(@, LAMBDA h : h \notin Range(s.stack)),
                   !.body = <<>>]

Alone(s, h) == [s EXCEPT !.chunks = Append(@, Chunk(<<>>, <<h>>, 0)),
                         !.pending = SelectSeq(@, LAMBDA x : x # h)]

ClosesDeeper(open, new) == open > new

\* A heading closes those of its level and below.
Closes(open, new) == open >= new

\* A heading that is closed before any body was sent with it is a chunk of its own.
Heading(s, h, level) ==
    LET closed == {n \in DOMAIN s.stack : \A m \in n .. Len(s.stack) : Closes(level[s.stack[m]], level[h])}
        popped == Reverse(SelectSeq(s.stack, LAMBDA x : \E n \in closed : s.stack[n] = x))
        after  == FoldLeft(LAMBDA t, x : IF x \in Range(t.pending) THEN Alone(t, x) ELSE t, Flush(s), popped)
    IN  [after EXCEPT !.stack = Append(SelectSeq(@, LAMBDA x : x \notin Range(popped)), h),
                      !.pending = Append(@, h)]

MergesUpToSoft(current, part) == current + 1 + part <= Soft

Merges(current, part) ==
    LET candidate == current + 1 + part
    IN  \/ candidate <= Soft
        \/ candidate <= Hard /\ (current < Soft \div 2 \/ part < Soft \div 3)

\* A part of a paragraph joins the body, or begins the next one.
Paragraph(s, part) ==
    IF s.body = <<>> \/ (/\ Last(s.body).kind # "reference" /\ part.kind # "reference"
                         /\ Merges(Extent(s.body), part.size))
    THEN [s EXCEPT !.body = Append(@, part)]
    ELSE [Flush(s) EXCEPT !.body = <<part>>]

Chunks(d, md) ==
    LET level == Levels(d, md)
        run == FoldLeft(LAMBDA s, b : IF b.kind = "heading" THEN Heading(s, b.lines[1], level)
                                      ELSE Paragraph(s, b),
                        Start, Blocks(d, Ink(d, md), DOMAIN level))
    IN  FoldLeft(Alone, Flush(run), Flush(run).pending).chunks

Init == doc = <<>>
Write == Len(doc) < MaxLines /\ \E k \in Line : doc' = Append(doc, k)
Next == Write
Spec == Init /\ [][Next]_doc
-----------------------------------------------------------------------------
\* The headings that a line stands under: those before it that no later one closed.
Under(i, level) ==
    {h \in DOMAIN level : h < i /\ \A k \in DOMAIN level : h < k /\ k <= i => level[k] > level[h]}

Breadcrumb(chunks, level) ==
    \A c \in Range(chunks) : \A i \in Range(c.body) : c.context = SetToSortSeq(Under(i, level), <)

NothingLost(chunks, level, ink) ==
    LET body  == FlattenSeq([n \in DOMAIN chunks |-> chunks[n].body])
        shown == UNION {Range(c.context) : c \in {x \in Range(chunks) : x.body # <<>>}}
        alone(h) == {n \in DOMAIN chunks : chunks[n] = Chunk(<<>>, <<h>>, 0)}
    IN  /\ \A n \in 1 .. Len(body) - 1 : body[n] < body[n + 1]
        /\ ink \ DOMAIN level \subseteq Range(body)
        /\ Range(body) \cap DOMAIN level = {}
        /\ \A h \in DOMAIN level : Cardinality(alone(h)) = IF h \in shown THEN 0 ELSE 1

Sized(chunks) ==
    \A c \in Range(chunks) :
        \/ c.size <= Hard /\ \A i \in Range(c.body) : doc[i] # "R"
        \/ Len(c.body) = 1 /\ doc[c.body[1]] = "R"

\* Each body is sent under the headings its lines stand under, every one of them, outermost
\* first.  No line is lost, sent twice or out of order, and a heading is a chunk of its own
\* exactly when no body is sent with it.  A body stays within the hard size, and a reference
\* that is too long is sent alone.
Faithful ==
    \A md \in BOOLEAN :   \* treat_as_markdown
        LET chunks == Chunks(doc, md)
            level  == Levels(doc, md)
        IN  Breadcrumb(chunks, level) /\ NothingLost(chunks, level, Ink(doc, md)) /\ Sized(chunks)
=============================================================================
