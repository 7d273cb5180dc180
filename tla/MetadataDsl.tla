----------------------------- MODULE MetadataDsl -----------------------------
(***************************************************************************)
(* The filter language of a search: a clause is validated, compiled to SQL *)
(* and evaluated by the database over files.  The type of a value is       *)
(* inferred twice, by the validator and by the compiler; a file stores     *)
(* each of its own properties under the type its value had when written.   *)
(*                                                                         *)
(* A text is a sequence of characters, a time is one "character" of its    *)
(* own: a text that reads as a time.                                       *)
(***************************************************************************)
EXTENDS Integers, Sequences, SequencesExt

CONSTANTS MaxDepth,   \* dsl_max_depth
          MaxLeaves,  \* dsl_max_leaf_count
          Leaf,       \* the leaves a clause starts with, any operator with any value
          Plain       \* the leaves it is combined with

VARIABLE where

Null   == [type |-> "null"]
Str(t) == [type |-> "string", datum |-> t]
Num(n) == [type |-> "number", datum |-> n]
Bool(b) == [type |-> "boolean", datum |-> b]
Time(t) == [type |-> "datetime", datum |-> t]
List(s) == [type |-> "stringList", datum |-> s]

Times == <<"2025", "2026">>
Iso(x) == x.type = "string" /\ Len(x.datum) = 1 /\ x.datum[1] \in {"2025", "2026"}

Order    == {"gt", "gte", "lt", "lte"}
Compares == {"eq", "ne"} \cup Order
ListTests == {"contains", "containsAll", "containsAny"}
Likes    == {"prefix", "wildcard"}
Operator == Compares \cup ListTests \cup Likes \cup {"in", "exists"}

\* Three of the system fields, and one of the file's own.
SYSTEM_FIELD_VALUE_TYPES == [mimeType |-> "string", fileSize |-> "number", updatedAt |-> "datetime"]
System == DOMAIN SYSTEM_FIELD_VALUE_TYPES
Field  == System \cup {"status"}

\* A directory has no mimeType.
Row == [mimeType : {Null, Str(<<"a">>)}, fileSize : {Num(1)}, updatedAt : {Time("2026")},
         status : {Null, Str(<<"a">>), Str(<<"%">>), Str(<<"!", "a">>), Str(<<"2026">>), Num(1),
                   Bool(TRUE), Time("2025"), Time("2026"), List(<<"a">>), List(<<>>)}]

Is(node) == node[1]
Combines == {"and", "or", "not"}
Leaves(node) == IF Is(node) \in Combines THEN node[2] ELSE <<>>

-----------------------------------------------------------------------------
\* _infer_query_value_type
Inferred(op, x) ==
    CASE op \in Likes -> "string"
      [] op \in ListTests -> "stringList"
      [] OTHER -> LET y == IF op = "in" /\ x.type = "stringList" /\ x.datum # <<>> THEN x.datum[1] ELSE x
                  IN  IF y.type \in {"boolean", "number"} THEN y.type
                      ELSE IF op \in Order /\ Iso(y) THEN "datetime" ELSE "string"

\* _value_matches_type
Fits(x, type) == IF type = "datetime" THEN Iso(x)
                 ELSE type # "stringList" /\ x.type = type

InList(x, type) == /\ type # "stringList" /\ x.type = "stringList" /\ x.datum # <<>>
                   /\ \A i \in DOMAIN x.datum : Fits(x.datum[i], type)

Texts(x) == x.type = "stringList" /\ x.datum # <<>> /\ \A i \in DOMAIN x.datum : x.datum[i].type = "string"

\* _validate_leaf: the type of a file's own field is that of the value it is compared with.
ValidLeaf(op, field, x) ==
    LET type == IF field \in System THEN SYSTEM_FIELD_VALUE_TYPES[field]
                ELSE IF x = Null THEN "any" ELSE Inferred(op, x)
    IN  CASE op = "exists"  -> x = Null
          [] op \in Likes   -> type = "string" /\ x.type = "string"
          [] op = "contains" -> type = "stringList" /\ x.type = "string"
          [] op \in {"containsAll", "containsAny"} -> type = "stringList" /\ Texts(x)
          [] op = "in"      -> InList(x, type)
          [] op \in Compares -> /\ type # "stringList" /\ Fits(x, type)
                                /\ op \in Order => type \in {"number", "datetime"}

\* A clause and the clauses it is made of, down to its leaves: the ones that are built are at
\* most one level deeper than the validator allows.
Nodes(node) ==
    LET Level[d \in 0 .. MaxDepth + 1] ==
          IF d = 0 THEN {node} ELSE UNION {ToSet(Leaves(x)) : x \in Level[d - 1]}
    IN  UNION {Level[d] : d \in 0 .. MaxDepth + 1}

\* _count_leaf_nodes: a leaf counts as often as it occurs.
Count(node) ==
    LET N[x \in Nodes(node)] == IF Is(x) \notin Combines THEN 1
                                ELSE FoldLeft(+, 0, [i \in DOMAIN Leaves(x) |-> N[Leaves(x)[i]]])
    IN  N[node]

Valid(node) ==
    LET V[x \in Nodes(node), depth \in 0 .. MaxDepth] ==
          IF Is(x) \in Combines
          THEN depth < MaxDepth /\ \A i \in DOMAIN Leaves(x) : V[Leaves(x)[i], depth + 1]
          ELSE ValidLeaf(x[1], x[2], x[3])
    IN  V[node, 0]

\* validate_where_clause
Accepted(node) == Count(node) <= MaxLeaves /\ Valid(node)
-----------------------------------------------------------------------------
Replace(t, c, s) == FlattenSeq([i \in DOMAIN t |-> IF t[i] = c THEN s ELSE <<t[i]>>])

EscapedLast(t) == Replace(Replace(Replace(t, "%", <<"!", "%">>), "_", <<"!", "_">>), "!", <<"!", "!">>)

\* _escape_like_literal
Escaped(t) == Replace(Replace(Replace(t, "!", <<"!", "!">>), "%", <<"!", "%">>), "_", <<"!", "_">>)

LikePattern(op, t) ==
    IF op = "prefix" THEN Append(Escaped(t), "%")
    ELSE Replace(Replace(Escaped(t), "*", <<"%">>), "?", <<"_">>)

\* LIKE ... ESCAPE '!'
MatchesPattern(s, p) ==
    LET M[i \in 1 .. Len(p) + 2, j \in 1 .. Len(s) + 1] ==
          IF i > Len(p) THEN j > Len(s)
          ELSE CASE p[i] = "%" -> M[i + 1, j] \/ (j <= Len(s) /\ M[i, j + 1])
                 [] p[i] = "_" -> j <= Len(s) /\ M[i + 1, j + 1]
                 [] p[i] = "!" -> /\ i < Len(p) /\ j <= Len(s)
                                  /\ s[j] = p[i + 1] /\ M[i + 2, j + 1]
                 [] OTHER -> j <= Len(s) /\ s[j] = p[i] /\ M[i + 1, j + 1]
    IN  M[1, 1]

\* The texts of times sort as the times do, before every other text.
Rank(x) == IF x.type = "number" THEN x.datum
           ELSE LET c == IF x.type = "datetime" THEN x.datum ELSE x.datum[1]
                IN  IF c \in {"2025", "2026"} THEN IndexFirstSubSeq(<<c>>, Times) ELSE 3

Related(op, v, x) ==
    CASE op = "eq" -> v = x       [] op = "ne" -> v # x
      [] op = "gt" -> Rank(v) > Rank(x)   [] op = "gte" -> Rank(v) >= Rank(x)
      [] op = "lt" -> Rank(v) < Rank(x)   [] op = "lte" -> Rank(v) <= Rank(x)

\* How the database reads a value it compares with a column of that type.
As(x, type) == IF type = "datetime" THEN Time(x.datum[1]) ELSE x

\* The condition on one column that is not null.
Holds(op, v, x) ==
    CASE op \in Likes -> MatchesPattern(v.datum, LikePattern(op, x.datum))
      [] op = "in" -> \E i \in DOMAIN x.datum : v = As(x.datum[i], v.type)
      [] op = "contains" -> \E i \in DOMAIN v.datum : v.datum[i] = x.datum[1]
      [] op = "containsAll" -> \A k \in DOMAIN x.datum : \E i \in DOMAIN v.datum : v.datum[i] = x.datum[k].datum[1]
      [] op = "containsAny" -> \E k \in DOMAIN x.datum, i \in DOMAIN v.datum : v.datum[i] = x.datum[k].datum[1]
      [] OTHER -> Related(op, v, As(x, v.type))

QueryTypesTextOnly(op, x) ==
    CASE op \in Likes -> {"string"}
      [] op \in ListTests -> {"stringList"}
      [] op = "in" -> {x.datum[1].type}
      [] OTHER -> {x.type}

\* _query_value_type, and both types of an order comparison with the text of a time.
QueryTypes(op, x) ==
    CASE op \in Likes -> {"string"}
      [] op \in ListTests -> {"stringList"}
      [] op = "in" -> {x.datum[1].type}
      [] op \in Order /\ Iso(x) -> {"datetime", "string"}
      [] OTHER -> {x.type}

\* _compile_node on a leaf, evaluated: a column of the file's row may be NULL; the file's own
\* properties are rows that are or are not there.
SqlLeaf(op, field, x, file) ==
    LET v == file[field] IN
    IF field \in System
    THEN CASE op = "exists" -> IF v # Null THEN "true" ELSE "false"
           [] v = Null -> "null"
           [] OTHER -> IF Holds(op, v, x) THEN "true" ELSE "false"
    ELSE IF v # Null /\ (op = "exists" \/ (v.type \in QueryTypes(op, x) /\ Holds(op, v, x)))
         THEN "true" ELSE "false"

Sql(node, file) ==
    LET S[x \in Nodes(node)] ==
          LET parts == {S[Leaves(x)[i]] : i \in DOMAIN Leaves(x)} IN
          CASE Is(x) = "and" -> IF "false" \in parts THEN "false"
                                ELSE IF "null" \in parts THEN "null" ELSE "true"
            [] Is(x) = "or"  -> IF "true" \in parts THEN "true"
                                ELSE IF "null" \in parts THEN "null" ELSE "false"
            [] Is(x) = "not" -> IF "null" \in parts THEN "null"
                                ELSE IF "true" \in parts THEN "false" ELSE "true"
            [] OTHER -> SqlLeaf(x[1], x[2], x[3], file)
    IN  S[node]

\* search_entries: the rows the condition is true of.
Found(node) == {f \in Row : Sql(node, f) = "true"}
-----------------------------------------------------------------------------
\* A where clause grows: a leaf, then negations and combinations with others.
Longer == {<<"not", <<where>>>>} \cup {<<b, <<where, l>>>> : b \in {"and", "or"}, l \in Plain}
Clause == IF where = <<>> THEN Leaf
          ELSE IF where \in Plain \/ (Is(where) \in Combines /\ Valid(where))
          THEN Longer ELSE {}

Init == where = <<>>

Extend == where' \in Clause

Next == Extend

Spec == Init /\ [][Next]_where
-----------------------------------------------------------------------------
\* What a leaf means of a value: it relates the value to one of its own kind, and only numbers
\* and times have an order.
Comparable(v, x) == x.type = v.type \/ (v.type = "datetime" /\ Iso(x))
Splits(n, m) == {e \in [0 .. n -> 0 .. m] :
                    e[0] = 0 /\ e[n] = m /\ \A i \in 1 .. n : e[i - 1] <= e[i]}
Fitting(s, p) == \E e \in Splits(Len(p), Len(s)) : \A i \in 1 .. Len(p) :
    LET part == SubSeq(s, e[i - 1] + 1, e[i]) IN
    CASE p[i] = "*" -> TRUE [] p[i] = "?" -> Len(part) = 1 [] OTHER -> part = <<p[i]>>

MeantLeaf(op, v, x) ==
    /\ v # Null
    /\ CASE op = "exists" -> TRUE
         [] op = "prefix" -> v.type = "string" /\ IsPrefix(x.datum, v.datum)
         [] op = "wildcard" -> v.type = "string" /\ Fitting(v.datum, x.datum)
         [] op = "in" -> \E i \in DOMAIN x.datum : Comparable(v, x.datum[i]) /\ v = As(x.datum[i], v.type)
         [] op \in ListTests -> v.type = "stringList" /\ Holds(op, v, x)
         [] op \in Order -> v.type \in {"number", "datetime"} /\ Comparable(v, x) /\ Related(op, v, As(x, v.type))
         [] OTHER -> Comparable(v, x) /\ Related(op, v, As(x, v.type))

Meant(node, file) ==
    LET M[x \in Nodes(node)] ==
          LET parts == {M[Leaves(x)[i]] : i \in DOMAIN Leaves(x)} IN
          CASE Is(x) = "and" -> parts = {TRUE}
            [] Is(x) = "or"  -> TRUE \in parts
            [] Is(x) = "not" -> parts = {FALSE}
            [] OTHER -> MeantLeaf(x[1], file[x[2]], x[3])
    IN  M[node]

LeavesOf(node) == {x \in Nodes(node) : Is(x) \notin Combines}

TimeOfFile(op, field, x) ==
    /\ op \in {"eq", "ne", "in"} /\ field \notin System
    /\ Iso(x) \/ (x.type = "stringList" /\ \E i \in DOMAIN x.datum : Iso(x.datum[i]))

\* An order comparison of a time with what the file holds as text: it is not supported, and
\* the search orders the texts (TextNotOrdered).
TextOfFile(l, file) == l[1] \in Order /\ file[l[2]].type = "string"

\* A clause the validator accepts finds the files it means, however the types of the values it
\* names and of the values the files hold were inferred; apart from equality with a time, from
\* the order of a text, and from the negation of a column that is NULL.
Answers ==
    (where # <<>> /\ Accepted(where) /\ (\A l \in LeavesOf(where) : ~TimeOfFile(l[1], l[2], l[3]))) =>
        \A f \in Row :
            (\A l \in LeavesOf(where) : ~TextOfFile(l, f) /\ (l[2] = "mimeType" => f.mimeType # Null)) =>
                ((f \in Found(where)) = Meant(where, f))

\* A comparison by order finds no file that holds a text.
TextNotOrdered ==
    (where # <<>> /\ Accepted(where) /\ Is(where) \in Order) =>
        \A f \in Found(where) : ~TextOfFile(where, f)

\* A time of a file equals the time it was written as.
TimesEqual ==
    (where # <<>> /\ Accepted(where) /\ Is(where) \in {"eq", "in"}) =>
        \A f \in Row : Meant(where, f) => f \in Found(where)
=============================================================================
