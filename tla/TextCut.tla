------------------------------- MODULE TextCut -------------------------------
(***************************************************************************)
(* How a paragraph that is too long is cut (_split_oversized_block): around*)
(* the references longer than chunk_size, then at the ends of sentences,   *)
(* then wherever the hard size is reached, and what is cut keeps count of  *)
(* its lines.                                                              *)
(*                                                                         *)
(* The text grows by one character at a time.  Told apart are a letter, the*)
(* end of a sentence, the end of a line, and the brackets of a reference   *)
(* ("[label](target)" is from the first bracket to the second).            *)
(* References inside references, and tables, are left out.                 *)
(***************************************************************************)
EXTENDS Integers, Sequences, FiniteSets, SequencesExt, FiniteSetsExt

CONSTANTS
    Soft,        \* chunk_size: a longer reference is a part of its own
    Hard,        \* max_body_size
    MaxLength    \* bound: characters of a text

VARIABLE text

Char == {"x", ".", "\n", "[", "]"}

\* A span of the text: from its first character to the one after its last.
Span(s, e) == <<s, e>>
Long(p) == p[2] - p[1]
Cuts(p, i) == p[1] < i /\ i < p[2]          \* _inside_any_span
Overlap(p, q) == p[1] < q[2] /\ q[1] < p[2]
Clip(p, q) == Span(Max({p[1], q[1]}), Min({p[2], q[2]}))

\* The line of a character: the ends of lines before it.
LineAt(t, i) == 1 + Cardinality({j \in 1 .. i - 1 : t[j] = "\n"})
Newlines(t, p) == LineAt(t, p[2]) - LineAt(t, p[1])
Blank(t, p) == \A i \in p[1] .. p[2] - 1 : t[i] = "\n"

\* detect_reference_spans: from left to right, none inside another.
References(t) ==
    FoldLeft(LAMBDA acc, i :
                 CASE t[i] = "[" /\ acc.open = 0 -> [acc EXCEPT !.open = i]
                   [] t[i] = "]" /\ acc.open # 0 -> [open |-> 0, found |-> acc.found \cup {Span(acc.open, i + 1)}]
                   [] OTHER -> acc,
             [open |-> 0, found |-> {}], [i \in DOMAIN t |-> i]).found

Part(p, start, end, kind) == [span |-> p, start |-> start, end |-> end, kind |-> kind]

\* The paragraphs: lines that are not blank, up to one that is.
Paragraphs(t) ==
    LET ink == {i \in DOMAIN t : t[i] # "\n"}
        within(a, b) == \A i \in a .. b - 1 : ~(t[i] = "\n" /\ t[i + 1] = "\n")
        whole(a, b) == /\ a <= b /\ within(a, b)
                       /\ \A i \in ink : (i < a => ~within(i, a)) /\ (i > b => ~within(b, i))
    IN  {Part(Span(p[1], p[2] + 1), LineAt(t, p[1]), LineAt(t, p[2]), "text") :
            p \in {q \in ink \X ink : whole(q[1], q[2])}}

\* The references of a paragraph, each as far as it is inside of it.
Inside(t, b) == {Clip(r, b.span) : r \in {x \in References(t) : Overlap(x, b.span)}}

\* What lies between the references that are too long, and those references.
Around(t, b) ==
    LET long  == SetToSortSeq({r \in Inside(t, b) : Long(r) > Soft}, LAMBDA p, q : p[1] < q[1])
        put(acc, p, kind) ==
            LET end == IF p[2] = b.span[2] /\ kind = "text" THEN b.end ELSE acc.line + Newlines(t, p)
            IN  [parts |-> IF Blank(t, p) THEN acc.parts ELSE Append(acc.parts, Part(p, acc.line, end, kind)),
                 line  |-> acc.line + Newlines(t, p), at |-> p[2]]
        before == FoldLeft(LAMBDA acc, r : put(put(acc, Span(acc.at, r[1]), "text"), r, "reference"),
                           [parts |-> <<>>, line |-> b.start, at |-> b.span[1]], long)
    IN  IF long = <<>> THEN <<b>> ELSE put(before, Span(before.at, b.span[2]), "text").parts

\* The sentences of a paragraph; no reference is cut.
Sentences(t, b) ==
    LET ends == {i \in b.span[1] .. b.span[2] - 1 :
                    t[i] = "." /\ \A r \in Inside(t, b) : ~Cuts(r, i + 1)}
        stops == ends \cup {b.span[2] - 1}
        from(i) == Max({b.span[1]} \cup {j + 1 : j \in {x \in ends : x < i}})
        piece(i) == Part(Span(from(i), i + 1),
                         IF from(i) = b.span[1] THEN b.start ELSE b.start + Newlines(t, Span(b.span[1], from(i))),
                         IF i \in ends THEN b.start + Newlines(t, Span(b.span[1], i)) ELSE b.end, "text")
        pieces == [n \in 1 .. Cardinality(stops) |-> piece(SetToSortSeq(stops, <)[n])]
    IN  SelectSeq(pieces, LAMBDA p : ~Blank(t, p.span))

HardEndBlind(t, b, from) == Min({from + Hard, b.span[2]})

\* The hard size, or the end of the reference that would be cut there.
HardEnd(t, b, from) ==
    LET end == Min({from + Hard, b.span[2]})
    IN  Max({end} \cup {r[2] : r \in {x \in Inside(t, b) : Cuts(x, end)}})

\* A sentence that is too long is cut wherever the hard size is reached.
HardCut(t, b) ==
    LET cut[n \in 0 .. Long(b.span)] ==
            IF n = 0 THEN [parts |-> <<>>, at |-> b.span[1], line |-> b.start]
            ELSE LET c == cut[n - 1] IN
                 IF c.at = b.span[2] THEN c
                 ELSE LET p   == Span(c.at, HardEnd(t, b, c.at))
                          end == c.line + Newlines(t, p)
                      IN  [parts |-> IF Blank(t, p) THEN c.parts ELSE Append(c.parts, Part(p, c.line, end, "text")),
                           at |-> p[2], line |-> end]
    IN  cut[Long(b.span)].parts

\* As many sentences as fit are one part again.
Cut(t, b) ==
    LET sentences == FlattenSeq([n \in DOMAIN Sentences(t, b) |->
                         LET s == Sentences(t, b)[n] IN
                         IF Long(s.span) > Hard THEN HardCut(t, s) ELSE <<s>>])
        merged(a, s) == Part(Span(a.span[1], s.span[2]), a.start, s.end, "text")
    IN  FoldLeft(LAMBDA parts, s :
                     IF parts # <<>> /\ s.span[2] - Last(parts).span[1] <= Hard
                     THEN Append(Front(parts), merged(Last(parts), s)) ELSE Append(parts, s),
                 <<>>, sentences)

Split(t, b) ==
    LET around == Around(t, b) IN
    FlattenSeq([n \in DOMAIN around |->
        IF around[n].kind = "reference" \/ Long(around[n].span) <= Hard THEN <<around[n]>>
        ELSE Cut(t, around[n])])

Init == text = <<>>
Grow == Len(text) < MaxLength /\ \E c \in Char : text' = Append(text, c)
Next == Grow
Spec == Init /\ [][Next]_text
-----------------------------------------------------------------------------
\* Every character that is not blank is in one part, and the parts are in order.
Covered(parts, b) ==
    /\ \A n \in 1 .. Len(parts) - 1 : parts[n].span[2] <= parts[n + 1].span[1]
    /\ \A i \in b.span[1] .. b.span[2] - 1 :
           text[i] # "\n" => \E q \in Range(parts) : q.span[1] <= i /\ i < q.span[2]

\* A part begins on the line it says, and ends there or at the end of the line before.
Numbered(parts) ==
    \A q \in Range(parts) : /\ q.start = LineAt(text, q.span[1])
                            /\ q.end \in {LineAt(text, q.span[2] - 1), LineAt(text, q.span[2])}

\* A reference is never cut, and a part is longer than the hard size only where one would be.
Bounded(parts, b) ==
    \A q \in Range(parts) :
        /\ \A r \in Inside(text, b) : ~Cuts(r, q.span[1]) /\ ~Cuts(r, q.span[2])
        /\ \/ q.kind = "reference" \/ Long(q.span) <= Hard
           \/ \E r \in Inside(text, b) : Cuts(r, q.span[1] + Hard) /\ q.span[2] = r[2]

\* However a paragraph is cut, its parts are the whole of it, in order, each on the lines it
\* says; a reference, which a reader follows by its text, is whole in one part.
CutWell ==
    \A b \in Paragraphs(text) :
        LET parts == Split(text, b) IN Covered(parts, b) /\ Numbered(parts) /\ Bounded(parts, b)
=============================================================================
