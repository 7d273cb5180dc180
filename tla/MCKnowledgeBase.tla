-------------------------- MODULE MCKnowledgeBase --------------------------
(***************************************************************************)
(* KnowledgeBase on small instances of its parts.                          *)
(***************************************************************************)
EXTENDS KnowledgeBase, TLC

CONSTANTS A, B, j1, j2, j3, b1, b2, n1, n2

\* The name n1 has a wildcard, and matches n2 as well: "a_b" and "a-b".
Wildcard == {<<n1, n1>>, <<n1, n2>>, <<n2, n2>>}

\* Two dimensions of one model, and another model.
Configs == {[model |-> A, dimension |-> 1], [model |-> A, dimension |-> 2],
            [model |-> B, dimension |-> 1]}

\* An archive with two Markdown files that refer to each other, one of them twice, one that
\* cannot be imported, and a name that is not a path; "out" is a file of the knowledge base.
Member(p, md) == [path |-> p, md |-> md, malformed |-> p = "bad"]
Members == <<Member("img", FALSE), Member("a", TRUE), Member("b", TRUE), Member("bad", TRUE),
             Member("a", TRUE), Member(None, FALSE)>>
RefersTo == [a |-> {"b", "img"}, b |-> {"a"}, out |-> {"a", "bad"}]

Lines == {"#", "##", "Ch", "1.", "2.", "p", "P", "R", "date", "fence", ""}

\* The values of the language, which do not depend on the parameters of the module.
Dsl == INSTANCE MetadataDsl WITH MaxDepth <- 0, MaxLeaves <- 0, Leaf <- {}, Plain <- {}

\* Conditions on fields of each kind, with values that suit them and values that do not.
Values == {Dsl!Null, Dsl!Num(1), Dsl!Bool(TRUE), Dsl!List(<<>>), Dsl!List(<<Dsl!Num(1)>>)}
          \cup {Dsl!Str(s) : s \in {<<"a">>, <<"2026">>, <<"2025">>, <<"*">>, <<"?">>, <<"%">>,
                                      <<"!", "*">>, <<"!">>}}
          \cup {Dsl!List(<<Dsl!Str(<<"a">>)>>),
                Dsl!List(<<Dsl!Str(<<"a">>), Dsl!Num(1)>>),
                Dsl!List(<<Dsl!Str(<<"2026">>), Dsl!Str(<<"a">>)>>)}
Leaves  == Dsl!Operator \X Dsl!Field \X Values
Plains  == {<<"eq", "status", Dsl!Str(<<"a">>)>>, <<"gte", "status", Dsl!Str(<<"2026">>)>>,
            <<"exists", "status", Dsl!Null>>, <<"eq", "mimeType", Dsl!Str(<<"a">>)>>,
            <<"lt", "fileSize", Dsl!Num(1)>>}

\* Two tasks of one batch and one of another.
Batches == (j1 :> b1) @@ (j2 :> b1) @@ (j3 :> b2)

\* Lines of a document: headings of three levels, a fence and a longer one, a blank line, text.
TextLine(kind, level, size) == <<[kind |-> kind, level |-> level, size |-> size]>>
AnyLine ==
    {TextLine("heading", l, 6) : l \in {1, 2, 4}} \cup {TextLine("fence", l, l) : l \in {3, 4}}
        \cup {TextLine("blank", 0, 0)} \cup {TextLine("text", 0, n) : n \in {20, 400}}

\* Fragments of two documents and of the entity's own (3) that overlap or follow each other.  A
\* block and the blank line behind it are two lines.
Blocks(a, b) == [n \in 1 .. b - a + 1 |-> a + n - 1]
Hit(d, a, b, topic, score) ==
    [doc |-> d, text |-> Blocks(a, b), lines |-> {2 * a, 2 * b}, rank |-> 0, score |-> score, topics |-> {topic}]
Relation(d, a, b, rank) ==
    [doc |-> d, text |-> Blocks(a, b), lines |-> {}, rank |-> rank, score |-> 0, topics |-> {}]
Overlapping ==
    {Relation(1, 2, 3, 2), Relation(1, 1, 1, 1), Relation(2, 4, 5, 2), Relation(3, 1, 2, 1),
     Hit(1, 1, 2, 1, 2), Hit(1, 3, 4, 2, 1), Hit(1, 2, 3, 2, 2), Hit(1, 7, 7, 1, 0),
     Hit(2, 1, 3, 1, 1), Hit(2, 4, 4, 2, 2), Hit(3, 2, 2, 1, 2)}

Symmetry == Permutations(Directory) \cup Permutations(TreeFile) \cup Permutations(Uploader)
                \cup Permutations(Mutator)
=============================================================================
