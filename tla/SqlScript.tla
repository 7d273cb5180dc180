------------------------------ MODULE SqlScript ------------------------------
(***************************************************************************)
(* How a migration file is cut into statements (split_sql_statements).     *)
(* The script grows by one character at a time; of the characters only     *)
(* those with a meaning for the cut are told apart: the quote, the marks   *)
(* of comments, the dollar, a letter, the semicolon and the end of a line. *)
(* A double quote is scanned as the single one and left out.               *)
(***************************************************************************)
EXTENDS Integers, Sequences, SequencesExt

CONSTANT MaxLength   \* bound: characters of a script

VARIABLE script

Char == {"'", "-", "/", "*", "$", "a", ";", "\n"}

Starts(s, i, token) == i + Len(token) - 1 <= Len(s) /\ SubSeq(s, i, i + Len(token) - 1) = token

\* The end of a dollar tag that opens at i, or 0: letters up to the next dollar.
TagEnd(s, i) ==
    LET ends == {j \in i + 1 .. Len(s) : s[j] = "$" /\ \A k \in i + 1 .. j - 1 : s[k] = "a"}
    IN  IF s[i] = "$" /\ ends # {} THEN CHOOSE j \in ends : TRUE ELSE 0

\* One step of the scan at i: how many characters it takes and the region it is in then,
\* the code, a comment, a string, or the text after a dollar tag.
Scan(s, i, region) ==
    LET to(n, r) == [takes |-> n, region |-> r]
        tag      == TagEnd(s, i)
    IN  CASE region = <<"line">>  -> to(1, IF s[i] = "\n" THEN <<>> ELSE region)
          [] region = <<"block">> -> IF Starts(s, i, <<"*", "/">>) THEN to(2, <<>>) ELSE to(1, region)
          [] region = <<"'">>     -> IF Starts(s, i, <<"'", "'">>) THEN to(2, region)
                                     ELSE to(1, IF s[i] = "'" THEN <<>> ELSE region)
          [] region # <<>>        -> IF Starts(s, i, region) THEN to(Len(region), <<>>)
                                     ELSE to(1, region)
          [] Starts(s, i, <<"-", "-">>) -> to(2, <<"line">>)
          [] Starts(s, i, <<"/", "*">>) -> to(2, <<"block">>)
          [] s[i] = "'"                 -> to(1, <<"'">>)
          [] tag # 0                    -> to(tag - i + 1, SubSeq(s, i, tag))
          [] OTHER                      -> to(1, <<>>)

Strip(s) ==
    LET ink == {i \in 1 .. Len(s) : s[i] # "\n"}
    IN  IF ink = {} THEN <<>>
        ELSE SubSeq(s, CHOOSE i \in ink : \A j \in ink : i <= j,
                       CHOOSE i \in ink : \A j \in ink : i >= j)

CutAnywhere(s, i, region) == s[i] = ";"

\* A semicolon ends a statement where no comment, string or dollar text is open.
Cut(s, i, region) == s[i] = ";" /\ region = <<>>

Scanned(s) ==
    LET add(done, from, to) == IF Strip(SubSeq(s, from, to)) = <<>> THEN done
                               ELSE Append(done, Strip(SubSeq(s, from, to)))
        run[n \in 0 .. Len(s)] ==
            IF n = 0 THEN [at |-> 1, from |-> 1, region |-> <<>>, done |-> <<>>]
            ELSE LET r == run[n - 1] IN
                 IF r.at > Len(s) THEN r
                 ELSE LET step == Scan(s, r.at, r.region)
                          cut  == Cut(s, r.at, r.region)
                      IN  [at     |-> r.at + step.takes,
                           from   |-> IF cut THEN r.at + 1 ELSE r.from,
                           region |-> step.region,
                           done   |-> IF cut THEN add(r.done, r.from, r.at) ELSE r.done]
        end == run[Len(s)]
    IN  [parts |-> add(end.done, end.from, Len(s)), region |-> end.region]

Statements(s) == Scanned(s).parts

Init == script = <<>>
Grow == Len(script) < MaxLength /\ \E c \in Char : script' = Append(script, c)
Next == Grow
Spec == Init /\ [][Next]_script
-----------------------------------------------------------------------------
\* A migration is executed statement by statement.  Each one sent is a statement by itself:
\* read alone it is not cut again, and only the last can end inside a comment, a string or
\* a dollar text.  Together they are the file: nothing is lost and nothing is sent twice.
Whole ==
    LET parts == Statements(script)
        ink(s) == SelectSeq(s, LAMBDA c : c # "\n")
    IN  /\ \A i \in DOMAIN parts : Statements(parts[i]) = <<parts[i]>>
        /\ \A i \in DOMAIN parts : i < Len(parts) => Scanned(parts[i]).region = <<>>
        /\ ink(FlattenSeq(parts)) = ink(script)
        /\ Statements(FlattenSeq(parts)) = parts
=============================================================================
