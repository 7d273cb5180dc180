---------------------- MODULE KnowledgeBaseWriteProofs ----------------------
(***************************************************************************)
(* What the parts of KnowledgeBase that change the rows of files keep, for *)
(* every value of their constants: the properties of a file under          *)
(* concurrent writers (Metadata), the references between the files of a    *)
(* knowledge base (References), the import of an archive (ZipImport), and  *)
(* of the tree (FileTree) one copy of a content where that was asked for   *)
(* and every entry under its path.                                         *)
(***************************************************************************)
EXTENDS KnowledgeBase, FiniteSetTheorems, TLAPS

\* A step of the whole is one of its part, or leaves the rows of the part alone.
LEMMA WritingParts ==
    ASSUME [Next]_vars
    PROVE  /\ part' = part
           /\ IF part = "metadata" THEN Props!Next \/ UNCHANGED Props!vars ELSE UNCHANGED Props!vars
           /\ IF part = "references" THEN Refs!Next \/ UNCHANGED Refs!vars ELSE UNCHANGED Refs!vars
           /\ IF part = "zip" THEN Zip!Next \/ UNCHANGED Zip!vars ELSE UNCHANGED Zip!vars
           /\ IF part = "tree" THEN Tree!Next \/ UNCHANGED Tree!vars ELSE UNCHANGED Tree!vars
  <1>1. CASE UNCHANGED vars
    BY <1>1, Zenon DEF vars, Props!vars, Refs!vars, Zip!vars, Tree!vars
  <1>2. CASE Next
    <2>1. PICK p : /\ Only(p)
                   /\ p = "metadata" => Props!Next
                   /\ p = "references" => Refs!Next
                   /\ p = "zip" => Zip!Next
                   /\ p = "tree" => Tree!Next
      BY <1>2 DEF Next
    <2>2. /\ part = p /\ part' = part
          /\ p # "metadata" => UNCHANGED Props!vars
          /\ p # "references" => UNCHANGED Refs!vars
          /\ p # "zip" => UNCHANGED Zip!vars
          /\ p # "tree" => UNCHANGED Tree!vars
      BY <2>1, Zenon DEF Only, Props!vars, Refs!vars, Zip!vars, Tree!vars
    <2> QED
      BY <2>1, <2>2
  <1> QED
    BY <1>1, <1>2

-----------------------------------------------------------------------------
(* The properties of a file.                                               *)

Value == [name : Property, type : {"string", "stringList"}, v : SUBSET Tag]
Change == [op : {"set", "upsert", "unset", "clear", "append", "remove", "tag"}, row : Value]
Writing == [at : {"idle", "locking", "reading", "applying"}, batch : SUBSET Change,
            todo : SUBSET Change, current : SUBSET Value, retired : SUBSET Value,
            added : SUBSET Value]

ValuesTypeOK ==
    /\ rows \in SUBSET Value /\ alive \in BOOLEAN /\ rowLock \in Writer \cup {None}
    /\ writerTx \in [Writer -> Writing]

Done(w) == writerTx[w].batch \ writerTx[w].todo

\* What a writer sees of a property is what its operations so far have made of the committed value.
AppliedTo(w, p) ==
    /\ \A o \in Done(w) : o.row.name = p => Props!Of(p, Props!Seen(w)) = Props!Made(o, Props!Of(p, rows))
    /\ (\A o \in Done(w) : o.row.name # p) => Props!Of(p, Props!Seen(w)) = Props!Of(p, rows)

\* The row lock excludes other writers and the deletion from the first look to the commit.
WriterOK(w) ==
    /\ writerTx[w].at \in {"reading", "applying"} => rowLock = w /\ alive
    /\ writerTx[w].at = "applying" =>
         /\ writerTx[w].todo \subseteq writerTx[w].batch
         /\ \A o, q \in writerTx[w].batch : o.row.name = q.row.name => o = q
         /\ \A o \in writerTx[w].batch :
                Props!Of(o.row.name, writerTx[w].current) = Props!Of(o.row.name, rows)
         /\ \A p \in Property : AppliedTo(w, p)

OneOfEach == \A r, q \in rows : r.name = q.name => r = q

ValuesInv ==
    /\ ValuesTypeOK /\ OneOfEach /\ (alive \/ rows = {})
    /\ \A w \in Writer : WriterOK(w)

LEMMA ChangesTyped == Props!All \subseteq Change
  BY DEF Props!All, Props!Operation, Props!Text, Props!List, Change, Value

LEMMA BatchesTyped ==
    ASSUME NEW b \in Props!Batches
    PROVE  /\ b \subseteq Change
           /\ \A o, q \in b : o.row.name = q.row.name => o = q
  BY ChangesTyped DEF Props!Batches, Props!Only

\* One operation leaves one value of its property or none, and names no other.
LEMMA MadeOfOne ==
    ASSUME NEW o \in Change, NEW R \in SUBSET Value
    PROVE  /\ Props!Made(o, R) \subseteq Value
           /\ \A r, q \in Props!Made(o, R) : r = q
           /\ \A r \in Props!Made(o, R) : r.name = o.row.name
  <1> DEFINE held == UNION {r.v : r \in R}
  <1>1. held \in SUBSET Tag
    BY DEF Value
  <1>2. \A s \in SUBSET Tag : Props!List(o.row.name, s) \in Value
                           /\ Props!List(o.row.name, s).name = o.row.name
    BY DEF Props!List, Value, Change
  <1>3. o.row \in Value /\ o.row.v \in SUBSET Tag
    BY DEF Change, Value
  <1>4. held \cup o.row.v \in SUBSET Tag /\ held \ o.row.v \in SUBSET Tag /\ {} \in SUBSET Tag
    BY <1>1, <1>3
  <1>5. Props!Made(o, R) \in
          {{o.row}, {}, {Props!List(o.row.name, held \cup o.row.v)},
           {Props!List(o.row.name, held \ o.row.v)}, {Props!List(o.row.name, {})}}
    BY DEF Props!Made, Change
  <1> HIDE DEF held
  <1> QED
    BY <1>2, <1>3, <1>4, <1>5

\* What a writer with the changes x sees.
SeenAs(x) == (rows \ x.retired) \cup x.added

\* An update or insertion of a row: what is seen of its name afterwards is that row.
LEMMA UpsertSeen ==
    ASSUME ValuesTypeOK, NEW w \in Writer, NEW r \in Value, NEW gone \in SUBSET Value,
           \A q \in gone : q.name = r.name
    PROVE  LET next == Props!Upsert(w, r, gone) IN
           /\ next \in Writing /\ next.at = writerTx[w].at /\ next.batch = writerTx[w].batch
           /\ next.todo = writerTx[w].todo /\ next.current = writerTx[w].current
           /\ Props!Of(r.name, SeenAs(next)) = {r}
           /\ \A p \in Property \ {r.name} : Props!Of(p, SeenAs(next)) = Props!Of(p, Props!Seen(w))
  <1> DEFINE next == Props!Upsert(w, r, gone)
             seen == Props!Seen(w)
             kept == {q \in writerTx[w].added \ gone : q.name # r.name} \cup {r}
             left == writerTx[w].retired \cup gone \cup Props!Of(r.name, seen)
  <1>1. writerTx[w] \in Writing /\ rows \in SUBSET Value
    BY DEF ValuesTypeOK
  <1>2. next = [writerTx[w] EXCEPT !.added = kept, !.retired = left]
    BY <1>1 DEF Props!Upsert, Writing
  <1>3. seen = (rows \ writerTx[w].retired) \cup writerTx[w].added
    BY DEF Props!Seen
  <1>4. kept \in SUBSET Value /\ left \in SUBSET Value
    BY <1>1, <1>3 DEF Props!Of, Writing
  <1>5. /\ next \in Writing /\ next.at = writerTx[w].at /\ next.batch = writerTx[w].batch
        /\ next.todo = writerTx[w].todo /\ next.current = writerTx[w].current
        /\ next.added = kept /\ next.retired = left
    <2> HIDE DEF kept, left, next
    <2> QED
      BY <1>1, <1>2, <1>4 DEF Writing
  <1>6. SeenAs(next) = (rows \ left) \cup kept
    BY <1>5 DEF SeenAs
  <1> HIDE DEF next
  <1>7. Props!Of(r.name, (rows \ left) \cup kept) = {r}
    BY <1>3 DEF Props!Of
  <1>8. ASSUME NEW p \in Property \ {r.name}
        PROVE  Props!Of(p, (rows \ left) \cup kept) = Props!Of(p, seen)
    BY <1>3, <1>8 DEF Props!Of
  <1> QED
    BY <1>5, <1>6, <1>7, <1>8 DEF next

\* A retired property is not seen any more.
LEMMA RetireSeen ==
    ASSUME ValuesTypeOK, NEW w \in Writer, NEW p \in Property
    PROVE  LET next == Props!Retire(w, p) IN
           /\ next \in Writing /\ next.at = writerTx[w].at /\ next.batch = writerTx[w].batch
           /\ next.todo = writerTx[w].todo /\ next.current = writerTx[w].current
           /\ Props!Of(p, SeenAs(next)) = {}
           /\ \A q \in Property \ {p} : Props!Of(q, SeenAs(next)) = Props!Of(q, Props!Seen(w))
  <1> DEFINE next == Props!Retire(w, p)
             seen == Props!Seen(w)
             kept == writerTx[w].added \ Props!Of(p, writerTx[w].added)
             left == writerTx[w].retired \cup Props!Of(p, seen)
  <1>1. writerTx[w] \in Writing /\ rows \in SUBSET Value
    BY DEF ValuesTypeOK
  <1>2. next = [writerTx[w] EXCEPT !.added = kept, !.retired = left]
    BY <1>1 DEF Props!Retire, Writing
  <1>3. seen = (rows \ writerTx[w].retired) \cup writerTx[w].added
    BY DEF Props!Seen
  <1>4. kept \in SUBSET Value /\ left \in SUBSET Value
    BY <1>1, <1>3 DEF Props!Of, Writing
  <1>5. /\ next \in Writing /\ next.at = writerTx[w].at /\ next.batch = writerTx[w].batch
        /\ next.todo = writerTx[w].todo /\ next.current = writerTx[w].current
        /\ next.added = kept /\ next.retired = left
    <2> HIDE DEF kept, left, next
    <2> QED
      BY <1>1, <1>2, <1>4 DEF Writing
  <1>6. SeenAs(next) = (rows \ left) \cup kept
    BY <1>5 DEF SeenAs
  <1> HIDE DEF next
  <1>7. Props!Of(p, (rows \ left) \cup kept) = {}
    BY <1>3 DEF Props!Of
  <1>8. ASSUME NEW q \in Property \ {p}
        PROVE  Props!Of(q, (rows \ left) \cup kept) = Props!Of(q, seen)
    BY <1>3, <1>8 DEF Props!Of
  <1> QED
    BY <1>5, <1>6, <1>7, <1>8 DEF next

\* An operation works on what was read, which is what is there.
LEMMA OperationSeen ==
    ASSUME ValuesTypeOK, NEW w \in Writer, WriterOK(w), writerTx[w].at = "applying",
           NEW o \in writerTx[w].todo
    PROVE  LET next == Props!Changed(w, o) IN
           /\ next \in Writing /\ next.at = "applying" /\ next.batch = writerTx[w].batch
           /\ next.todo = writerTx[w].todo /\ next.current = writerTx[w].current
           /\ Props!Of(o.row.name, SeenAs(next)) = Props!Made(o, Props!Of(o.row.name, rows))
           /\ \A p \in Property \ {o.row.name} :
                 Props!Of(p, SeenAs(next)) = Props!Of(p, Props!Seen(w))
  <1>1. /\ writerTx[w] \in Writing /\ rows \in SUBSET Value /\ o \in Change
        /\ o.row \in Value /\ o.row.name \in Property /\ o.row.v \in SUBSET Tag
    BY DEF ValuesTypeOK, Writing, Change, Value
  <1>2. Props!Of(o.row.name, writerTx[w].current) = Props!Of(o.row.name, rows)
    BY DEF WriterOK
  <1>3. CASE o.op = "unset"
    <2>1. Props!Changed(w, o) = Props!Retire(w, o.row.name)
      BY <1>3 DEF Props!Changed
    <2>2. Props!Made(o, Props!Of(o.row.name, rows)) = {}
      BY <1>3 DEF Props!Made
    <2> QED
      BY <1>1, <2>1, <2>2, RetireSeen
  <1>4. CASE o.op # "unset"
    <2> DEFINE held == Props!Held(w, o)
               r == Props!Updated(w, o)
               mine == Props!Of(o.row.name, Props!Seen(w))
    <2>1. held = UNION {q.v : q \in Props!Of(o.row.name, rows)} /\ held \in SUBSET Tag
      BY <1>1, <1>2 DEF Props!Held, Props!Of, Value
    <2>2. Props!Made(o, Props!Of(o.row.name, rows)) = {r}
      BY <1>1, <1>4, <2>1 DEF Props!Made, Props!Updated, Change
    <2>3. r \in Value /\ r.name = o.row.name
      BY <1>1, <2>2, MadeOfOne, Props!Of(o.row.name, rows) \subseteq Value DEF Props!Of
    <2>4. mine \in SUBSET Value /\ \A q \in mine : q.name = o.row.name
      BY <1>1 DEF Props!Of, Props!Seen, Writing
    <2>5. \/ Props!Changed(w, o) = Props!Upsert(w, r, mine)
          \/ Props!Changed(w, o) = Props!Upsert(w, r, {})
      <3>1. o.op = "set" => r = o.row
        BY DEF Props!Updated
      <3> QED
        BY <1>4, <3>1 DEF Props!Changed
    <2> HIDE DEF r, mine, held
    <2>6. ASSUME NEW gone \in SUBSET Value, \A q \in gone : q.name = r.name,
                 Props!Changed(w, o) = Props!Upsert(w, r, gone)
          PROVE  LET next == Props!Changed(w, o) IN
                 /\ next \in Writing /\ next.at = "applying" /\ next.batch = writerTx[w].batch
                 /\ next.todo = writerTx[w].todo /\ next.current = writerTx[w].current
                 /\ Props!Of(o.row.name, SeenAs(next)) = Props!Made(o, Props!Of(o.row.name, rows))
                 /\ \A p \in Property \ {o.row.name} :
                       Props!Of(p, SeenAs(next)) = Props!Of(p, Props!Seen(w))
      BY <2>2, <2>3, <2>6, UpsertSeen
    <2> QED
      BY <2>3, <2>4, <2>5, <2>6
  <1> QED
    BY <1>3, <1>4

\* The writer that applies an operation keeps what was said of it.
LEMMA OperationStep ==
    ASSUME ValuesInv, NEW w \in Writer, NEW o \in writerTx[w].todo, Props!Apply(w, o)
    PROVE  ValuesInv'
  <1>0. /\ writerTx \in [Writer -> Writing] /\ WriterOK(w) /\ ValuesTypeOK
        /\ writerTx[w].at = "applying" /\ rowLock = w /\ alive
        /\ rows' = rows /\ alive' = alive
    BY DEF ValuesInv, ValuesTypeOK, WriterOK, Props!Apply
  <1>1. CASE writerTx' = [writerTx EXCEPT ![w] = Props!Idle] /\ rowLock' = None
    <2>1. Props!Idle \in Writing /\ Props!Idle.at = "idle"
      BY DEF Props!Idle, Writing
    <2>2. ValuesTypeOK' /\ \A u \in Writer \ {w} : writerTx'[u] = writerTx[u]
      BY <1>0, <1>1, <2>1 DEF ValuesTypeOK
    <2>3. \A u \in Writer \ {w} : writerTx[u].at \notin {"reading", "applying"}
      BY <1>0, KnowledgeBaseAssumption DEF ValuesInv, WriterOK
    <2>4. \A u \in Writer : WriterOK(u)'
      BY <1>0, <1>1, <2>1, <2>2, <2>3 DEF WriterOK
    <2> QED
      BY <1>0, <2>2, <2>4 DEF ValuesInv, OneOfEach
  <1>2. CASE writerTx' = [writerTx EXCEPT ![w] = [Props!Changed(w, o) EXCEPT !.todo = @ \ {o}]]
             /\ rowLock' = rowLock
    <2> DEFINE changed == Props!Changed(w, o)
               next == [changed EXCEPT !.todo = @ \ {o}]
    <2>1. /\ changed \in Writing /\ changed.at = "applying" /\ changed.batch = writerTx[w].batch
          /\ changed.todo = writerTx[w].todo /\ changed.current = writerTx[w].current
          /\ Props!Of(o.row.name, SeenAs(changed)) = Props!Made(o, Props!Of(o.row.name, rows))
          /\ \A p \in Property \ {o.row.name} :
                Props!Of(p, SeenAs(changed)) = Props!Of(p, Props!Seen(w))
      BY <1>0, OperationSeen
    <2> HIDE DEF changed
    <2>2. /\ next \in Writing /\ next.at = "applying" /\ next.batch = writerTx[w].batch
          /\ next.todo = writerTx[w].todo \ {o} /\ next.current = writerTx[w].current
          /\ next.added = changed.added /\ next.retired = changed.retired
      BY <2>1 DEF Writing
    <2>3. writerTx' = [writerTx EXCEPT ![w] = next]
      BY <1>2 DEF changed
    <2> HIDE DEF next
    <2>4. /\ ValuesTypeOK' /\ writerTx'[w] = next
          /\ \A u \in Writer \ {w} : writerTx'[u] = writerTx[u]
      BY <1>0, <1>2, <2>2, <2>3 DEF ValuesTypeOK
    <2>5. \A u \in Writer \ {w} : writerTx[u].at \notin {"reading", "applying"}
      BY <1>0 DEF ValuesInv, WriterOK
    <2>6. Props!Seen(w)' = SeenAs(changed)
      BY <1>0, <2>2, <2>4 DEF Props!Seen, SeenAs
    <2>7. Done(w)' = Done(w) \cup {o} /\ o \in writerTx[w].batch /\ o \notin Done(w)
      BY <1>0, <2>2, <2>4 DEF Done, WriterOK
    <2>8. \A q \in Done(w) : q.row.name # o.row.name
      BY <1>0, <2>7 DEF Done, WriterOK
    <2>9. ASSUME NEW p \in Property
          PROVE  AppliedTo(w, p)'
      <3>1. CASE p = o.row.name
        BY <1>0, <2>1, <2>6, <2>7, <2>8, <3>1 DEF AppliedTo
      <3>2. CASE p # o.row.name
        <4>1. Props!Of(p, Props!Seen(w))' = Props!Of(p, Props!Seen(w))
          BY <2>1, <2>6, <3>2 DEF Props!Of
        <4>2. AppliedTo(w, p)
          BY <1>0 DEF WriterOK
        <4> QED
          BY <1>0, <2>7, <3>2, <4>1, <4>2 DEF AppliedTo
      <3> QED
        BY <3>1, <3>2
    <2>10. WriterOK(w)'
      BY <1>0, <1>2, <2>2, <2>4, <2>9 DEF WriterOK
    <2>11. \A u \in Writer \ {w} : WriterOK(u)'
      BY <1>0, <2>4, <2>5 DEF WriterOK
    <2> QED
      BY <1>0, <2>4, <2>10, <2>11 DEF ValuesInv, OneOfEach
  <1>3. \/ writerTx' = [writerTx EXCEPT ![w] = Props!Idle] /\ rowLock' = None
        \/ writerTx' = [writerTx EXCEPT ![w] = [Props!Changed(w, o) EXCEPT !.todo = @ \ {o}]]
           /\ rowLock' = rowLock
    BY DEF Props!Apply
  <1> QED
    BY <1>1, <1>2, <1>3

LEMMA CommitStep ==
    ASSUME ValuesInv, NEW w \in Writer, Props!Commit(w)
    PROVE  /\ ValuesInv'
           /\ \A p \in Property :
                 LET mine == {o \in writerTx[w].batch : o.row.name = p} IN
                 Props!Of(p, rows') = IF mine = {} THEN Props!Of(p, rows)
                                      ELSE UNION {Props!Made(o, Props!Of(p, rows)) : o \in mine}
  <1>0. /\ writerTx \in [Writer -> Writing] /\ WriterOK(w) /\ ValuesTypeOK
        /\ writerTx[w].at = "applying" /\ writerTx[w].todo = {} /\ rowLock = w /\ alive
        /\ rows' = Props!Seen(w) /\ writerTx' = [writerTx EXCEPT ![w] = Props!Idle]
        /\ rowLock' = None /\ alive' = alive
    BY DEF ValuesInv, ValuesTypeOK, WriterOK, Props!Commit
  <1>1. Done(w) = writerTx[w].batch /\ writerTx[w].batch \subseteq Change
    BY <1>0 DEF Done, Writing
  <1>2. \A p \in Property : AppliedTo(w, p)
    BY <1>0 DEF WriterOK
  <1>3. ASSUME NEW p \in Property
        PROVE  LET mine == {o \in writerTx[w].batch : o.row.name = p} IN
               Props!Of(p, rows') = IF mine = {} THEN Props!Of(p, rows)
                                    ELSE UNION {Props!Made(o, Props!Of(p, rows)) : o \in mine}
    <2> DEFINE mine == {o \in writerTx[w].batch : o.row.name = p}
               seen == Props!Of(p, Props!Seen(w))
    <2>1. Props!Of(p, rows') = seen
      BY <1>0
    <2>2. \A o \in mine : seen = Props!Made(o, Props!Of(p, rows))
      BY <1>1, <1>2 DEF AppliedTo
    <2>3. mine = {} => seen = Props!Of(p, rows)
      BY <1>1, <1>2 DEF AppliedTo
    <2> HIDE DEF mine, seen
    <2>4. mine # {} => seen = UNION {Props!Made(o, Props!Of(p, rows)) : o \in mine}
      BY <2>2
    <2> QED
      BY <2>1, <2>3, <2>4 DEF mine
  <1>4. rows' \in SUBSET Value
    BY <1>0 DEF Props!Seen, ValuesTypeOK, Writing
  <1>5. \A r, q \in rows' : r.name = q.name => r = q
    <2> SUFFICES ASSUME NEW r \in rows', NEW q \in rows', r.name = q.name
                 PROVE  r = q
      OBVIOUS
    <2>1. PICK p \in Property : p = r.name
      BY <1>4 DEF Value
    <2>2. r \in Props!Of(p, Props!Seen(w)) /\ q \in Props!Of(p, Props!Seen(w))
      BY <1>0, <2>1 DEF Props!Of
    <2>3. CASE \E o \in Done(w) : o.row.name = p
      <3>1. PICK o \in Done(w) : o.row.name = p
        BY <2>3
      <3>2. Props!Of(p, Props!Seen(w)) = Props!Made(o, Props!Of(p, rows))
        BY <1>2, <3>1 DEF AppliedTo
      <3>3. o \in Change /\ Props!Of(p, rows) \in SUBSET Value
        BY <1>0, <1>1 DEF Props!Of, ValuesTypeOK
      <3> QED
        BY <2>2, <3>2, <3>3, MadeOfOne
    <2>4. CASE \A o \in Done(w) : o.row.name # p
      <3>1. Props!Of(p, Props!Seen(w)) = Props!Of(p, rows)
        BY <1>2, <2>4 DEF AppliedTo
      <3> QED
        BY <2>2, <3>1 DEF ValuesInv, OneOfEach, Props!Of
    <2> QED
      BY <2>3, <2>4
  <1>6. Props!Idle \in Writing /\ Props!Idle.at = "idle"
    BY DEF Props!Idle, Writing
  <1>7. /\ ValuesTypeOK' /\ writerTx'[w] = Props!Idle
        /\ \A u \in Writer \ {w} : writerTx'[u] = writerTx[u]
    BY <1>0, <1>4, <1>6 DEF ValuesTypeOK
  <1>8. \A u \in Writer \ {w} : writerTx[u].at \notin {"reading", "applying"}
    BY <1>0 DEF ValuesInv, WriterOK
  <1>9. \A u \in Writer : WriterOK(u)'
    BY <1>6, <1>7, <1>8 DEF WriterOK
  <1>10. ValuesInv'
    BY <1>0, <1>5, <1>7, <1>9 DEF ValuesInv, OneOfEach
  <1> QED
    BY <1>3, <1>10

LEMMA ReadStep ==
    ASSUME ValuesInv, NEW w \in Writer, Props!Read(w)
    PROVE  ValuesInv'
  <1>0. /\ writerTx \in [Writer -> Writing] /\ WriterOK(w) /\ ValuesTypeOK
        /\ writerTx[w].at = "reading" /\ rowLock = w /\ alive
        /\ UNCHANGED <<rows, alive, rowLock>>
    <2>1. writerTx[w].at = "reading" /\ UNCHANGED <<rows, alive, rowLock>>
      BY DEF Props!Read
    <2>2. writerTx \in [Writer -> Writing] /\ WriterOK(w) /\ ValuesTypeOK
      BY DEF ValuesInv, ValuesTypeOK
    <2> QED
      BY <2>1, <2>2 DEF WriterOK
  <1>1. PICK b \in Props!Batches :
           writerTx' = [writerTx EXCEPT ![w] = [Props!Idle EXCEPT !.at = "applying", !.batch = b,
             !.todo = b, !.current = {r \in rows : \E o \in b : o.row.name = r.name}]]
    BY Zenon DEF Props!Read
  <1> DEFINE present == {r \in rows : \E o \in b : o.row.name = r.name}
             next == [Props!Idle EXCEPT !.at = "applying", !.batch = b, !.todo = b,
                                        !.current = present]
  <1>2. b \subseteq Change /\ \A o, q \in b : o.row.name = q.row.name => o = q
    BY BatchesTyped, Zenon
  <1>3. present \in SUBSET Value
    BY <1>0 DEF ValuesTypeOK
  <1>4. /\ next \in Writing /\ next.at = "applying" /\ next.batch = b /\ next.todo = b
        /\ next.current = present /\ next.retired = {} /\ next.added = {}
    <2> HIDE DEF present
    <2> QED
      BY <1>2, <1>3 DEF Props!Idle, Writing
  <1>5. /\ ValuesTypeOK' /\ writerTx'[w] = next
        /\ \A u \in Writer \ {w} : writerTx'[u] = writerTx[u]
    <2> HIDE DEF present
    <2> QED
      BY <1>0, <1>1, <1>4 DEF ValuesTypeOK, present
  <1>6. \A u \in Writer \ {w} : writerTx[u].at \notin {"reading", "applying"}
    BY <1>0 DEF ValuesInv, WriterOK
  <1>7. \A o \in b : Props!Of(o.row.name, present) = Props!Of(o.row.name, rows)
    BY DEF Props!Of
  <1> HIDE DEF next, present
  <1>8. Props!Seen(w)' = rows' /\ Done(w)' = {}
    BY <1>0, <1>4, <1>5 DEF Props!Seen, Done
  <1>9. WriterOK(w)'
    BY <1>0, <1>2, <1>4, <1>5, <1>7, <1>8 DEF WriterOK, AppliedTo
  <1>10. \A u \in Writer \ {w} : WriterOK(u)'
    BY <1>5, <1>6 DEF WriterOK
  <1> QED
    BY <1>0, <1>5, <1>9, <1>10 DEF ValuesInv, OneOfEach

\* A writer that has not begun to read moves on, perhaps with the lock.
LEMMA WriterMoves ==
    ASSUME ValuesInv, NEW w \in Writer, NEW next \in Writing,
           writerTx' = [writerTx EXCEPT ![w] = next], UNCHANGED <<rows, alive>>,
           writerTx[w].at \notin {"reading", "applying"}, next.at # "applying",
           next.at = "reading" => rowLock' = w /\ alive,
           rowLock' = rowLock \/ (rowLock = None /\ rowLock' = w)
    PROVE  ValuesInv'
  <1>0. writerTx \in [Writer -> Writing] /\ ValuesTypeOK /\ \A u \in Writer : WriterOK(u)
    BY DEF ValuesInv, ValuesTypeOK
  <1>2. /\ ValuesTypeOK' /\ writerTx'[w] = next
        /\ \A u \in Writer \ {w} : writerTx'[u] = writerTx[u]
    BY <1>0 DEF ValuesTypeOK
  <1>3. WriterOK(w)'
    BY <1>2 DEF WriterOK
  <1>4. ASSUME NEW u \in Writer \ {w}
        PROVE  WriterOK(u)'
    <2>1. /\ Props!Seen(u)' = Props!Seen(u) /\ Done(u)' = Done(u)
          /\ writerTx[u].at \in {"reading", "applying"} => rowLock' = u
      BY <1>0, <1>2, KnowledgeBaseAssumption DEF Props!Seen, Done, WriterOK
    <2> QED
      BY <1>0, <1>2, <2>1 DEF WriterOK, AppliedTo
  <1> QED
    BY <1>2, <1>3, <1>4 DEF ValuesInv, OneOfEach

\* Who begins, takes the lock or deletes the file.
LEMMA LockStep ==
    ASSUME ValuesInv,
           Props!Delete \/ \E w \in Writer : Props!Begin(w) \/ Props!Lock(w)
    PROVE  ValuesInv'
  <1>0. writerTx \in [Writer -> Writing] /\ ValuesTypeOK /\ \A w \in Writer : WriterOK(w)
    BY DEF ValuesInv, ValuesTypeOK
  <1>1. CASE Props!Delete
    <2>1. /\ alive' = FALSE /\ rows' = {} /\ UNCHANGED <<rowLock, writerTx>> /\ rowLock = None
      BY <1>1 DEF Props!Delete
    <2>2. \A w \in Writer : writerTx[w].at \notin {"reading", "applying"}
      BY <1>0, <2>1, KnowledgeBaseAssumption DEF WriterOK
    <2>3. \A w \in Writer : WriterOK(w)'
      BY <2>1, <2>2 DEF WriterOK
    <2> QED
      BY <1>0, <2>1, <2>3 DEF ValuesInv, ValuesTypeOK, OneOfEach
  <1>2. ASSUME NEW w \in Writer
        PROVE  /\ \A at \in {"locking", "reading"} : /\ [writerTx[w] EXCEPT !.at = at] \in Writing
                                                     /\ [writerTx[w] EXCEPT !.at = at].at = at
               /\ Props!Idle \in Writing /\ Props!Idle.at = "idle"
    BY <1>0 DEF Props!Idle, Writing
  <1>3. ASSUME NEW w \in Writer, Props!Begin(w)
        PROVE  ValuesInv'
    <2> DEFINE next == [writerTx[w] EXCEPT !.at = "locking"]
    <2>1. /\ writerTx' = [writerTx EXCEPT ![w] = next] /\ UNCHANGED <<rows, alive, rowLock>>
          /\ writerTx[w].at = "idle"
      BY <1>0, <1>3 DEF Props!Begin, Props!Goes
    <2>2. next \in Writing /\ next.at = "locking"
      BY <1>2
    <2> HIDE DEF next
    <2> QED
      BY <2>1, <2>2, WriterMoves
  <1>4. ASSUME NEW w \in Writer, Props!Lock(w)
        PROVE  ValuesInv'
    <2> DEFINE next == [writerTx[w] EXCEPT !.at = "reading"]
    <2>1. /\ \/ writerTx' = [writerTx EXCEPT ![w] = next] /\ rowLock' = w /\ alive
             \/ writerTx' = [writerTx EXCEPT ![w] = Props!Idle] /\ rowLock' = rowLock
          /\ UNCHANGED <<rows, alive>> /\ writerTx[w].at = "locking" /\ rowLock = None
      BY <1>0, <1>4 DEF Props!Lock, Props!Goes, Props!Free
    <2>2. next \in Writing /\ next.at = "reading" /\ Props!Idle \in Writing /\ Props!Idle.at = "idle"
      BY <1>2
    <2> HIDE DEF next
    <2>3. CASE writerTx' = [writerTx EXCEPT ![w] = next] /\ rowLock' = w /\ alive
      BY <2>1, <2>2, <2>3, WriterMoves
    <2>4. CASE writerTx' = [writerTx EXCEPT ![w] = Props!Idle] /\ rowLock' = rowLock
      BY <2>1, <2>2, <2>4, WriterMoves
    <2> QED
      BY <2>1, <2>3, <2>4
  <1> QED
    BY <1>1, <1>3, <1>4

\* Writers to the properties of a file are serial, for any number of them, properties and tags: what
\* commits is the batch applied to the values at its commit, no update is lost and no half of a
\* batch kept; a property has one value, a deleted file none (get_entry_by_path_for_update,
\* _apply_operation, upsert_value).
THEOREM WritersTakeTurns == Spec => WritersSerial
  <1>1. Init => ValuesInv
    <2> SUFFICES ASSUME Init
                 PROVE  ValuesInv
      OBVIOUS
    <2>1. /\ rows = {} /\ alive = TRUE /\ rowLock = None
          /\ writerTx = [w \in Writer |-> Props!Idle]
      BY DEF Init, Props!Init
    <2>2. Props!Idle \in Writing /\ Props!Idle.at = "idle"
      BY DEF Props!Idle, Writing
    <2> QED
      BY <2>1, <2>2 DEF ValuesInv, ValuesTypeOK, OneOfEach, WriterOK
  <1>2. ASSUME ValuesInv, [Next]_vars
        PROVE  /\ ValuesInv'
               /\ rows' # rows /\ alive' =>
                    \E w \in Writer :
                       \A p \in Property :
                         LET mine == {o \in writerTx[w].batch : o.row.name = p} IN
                         Props!Of(p, rows') = IF mine = {} THEN Props!Of(p, rows)
                                              ELSE UNION {Props!Made(o, Props!Of(p, rows)) : o \in mine}
    <2>1. CASE UNCHANGED Props!vars
      <3>1. rows' = rows /\ alive' = alive /\ rowLock' = rowLock /\ writerTx' = writerTx
        BY <2>1 DEF Props!vars
      <3>2. ValuesTypeOK' /\ OneOfEach' /\ (alive' \/ rows' = {})
        BY <1>2, <3>1 DEF ValuesInv, ValuesTypeOK, OneOfEach
      <3>3. ASSUME NEW w \in Writer
            PROVE  WriterOK(w)'
        <4>1. WriterOK(w)
          BY <1>2 DEF ValuesInv
        <4> QED
          BY <3>1, <4>1, Zenon DEF WriterOK, AppliedTo, Props!Seen, Done
      <3> QED
        BY <3>1, <3>2, <3>3 DEF ValuesInv
    <2>2. CASE \E w \in Writer : Props!Commit(w)
      BY <1>2, <2>2, CommitStep
    <2>3. CASE \E w \in Writer : Props!Read(w) \/ \E o \in writerTx[w].todo : Props!Apply(w, o)
      <3>1. rows' = rows
        BY <2>3 DEF Props!Read, Props!Apply
      <3> QED
        BY <1>2, <2>3, <3>1, ReadStep, OperationStep
    <2>4. CASE Props!Delete \/ \E w \in Writer : Props!Begin(w) \/ Props!Lock(w)
      <3>1. rows' = rows \/ ~alive'
        BY <2>4 DEF Props!Begin, Props!Lock, Props!Delete
      <3> QED
        BY <1>2, <2>4, <3>1, LockStep
    <2> QED
      BY <1>2, <2>1, <2>2, <2>3, <2>4, WritingParts DEF Props!Next
  <1>3. ValuesInv => (part = "metadata" => Props!OneValue)
    <2> SUFFICES ASSUME ValuesInv
                 PROVE  Props!OneValue
      OBVIOUS
    <2>1. ASSUME NEW p \in Property
          PROVE  Cardinality(Props!Of(p, rows)) <= 1
      <3>1. CASE Props!Of(p, rows) = {}
        BY <3>1, FS_EmptySet
      <3>2. CASE Props!Of(p, rows) # {}
        <4>1. PICK r : Props!Of(p, rows) = {r}
          BY <3>2 DEF ValuesInv, OneOfEach, Props!Of
        <4>2. Cardinality({r}) = 1
          BY FS_Singleton
        <4> QED
          BY <4>1, <4>2
      <3> QED
        BY <3>1, <3>2
    <2>2. \A S : Props!Cardinality(S) = Cardinality(S)
      BY Zenon DEF Props!Cardinality, Cardinality
    <2> QED
      BY <2>1, <2>2 DEF Props!OneValue, ValuesInv
  <1>4. Spec => []ValuesInv
    BY <1>1, <1>2, PTL DEF Spec
  <1>5. Spec => Props!Serial
    BY <1>1, <1>2, PTL DEF Spec, Props!Serial
  <1> QED
    BY <1>3, <1>4, <1>5, PTL DEF WritersSerial

-----------------------------------------------------------------------------
(* The references between files.                                           *)

FileRow   == [status : {"unused", "live", "deleted"}, path : RefPath \cup {None}, moved : BOOLEAN]
Reference == [source : File, write : Nat, to : RefPath, bound : File \cup {None},
              waits : RefPath \cup {None}]

RefsTypeOK ==
    /\ file \in [File -> FileRow] /\ assertion \in SUBSET Reference /\ writes \in Nat
    /\ object = [f \in File |-> object[f]]

\* A live file is the only one at its path.
OneFileAtPath ==
    /\ \A f \in File : Refs!Live(f) => file[f].path \in RefPath
    /\ \A f, g \in File : Refs!Live(f) /\ Refs!Live(g) /\ file[f].path = file[g].path => f = g

\* An assertion is bound to another live file or waits for a path.
BoundRight(a) ==
    /\ a.bound # None => Refs!Live(a.bound) /\ a.bound # a.source /\ a.waits = None
    /\ a.bound = None => a.waits \in RefPath

\* There is nothing where it waits but what was moved there, and a file that was not moved does not
\* wait for its own path: binding what waits for a path would make it refer to itself.
WaitsRight(a) ==
    /\ \A f \in Refs!FileAt(a.waits) \ {a.source} : file[f].moved
    /\ ~file[a.source].moved => a.waits # file[a.source].path

\* An assertion of the write that is not committed.
MadeRight(a) ==
    /\ a.source = pending.source /\ BoundRight(a)
    /\ a.waits # pending.path
    /\ a.bound = None => Refs!FileAt(a.waits) \ {a.source} = {}

TextOf(f) == object[f] = Refs!Tokens(Refs!Of(f))

PendingRight ==
    /\ pending.source \in File /\ pending.path \in RefPath
    /\ Refs!FileAt(pending.path) \subseteq {pending.source}
    /\ pending.made \in SUBSET Reference /\ \A a \in pending.made : MadeRight(a)
    /\ object[pending.source] = Refs!Tokens(pending.made)
    /\ Refs!Live(pending.source) => pending.old = Refs!Tokens(Refs!Of(pending.source))
    /\ \A f \in File \ {pending.source} : Refs!Live(f) => TextOf(f)

RefsInv ==
    /\ RefsTypeOK /\ OneFileAtPath
    /\ \A a \in assertion : Refs!Live(a.source) /\ BoundRight(a) /\ WaitsRight(a)
    /\ pending.at \in {"none", "written"}
    /\ pending.at = "none" => \A f \in File : Refs!Live(f) => TextOf(f)
    /\ pending.at = "written" => PendingRight
    /\ Refs!Follows

\* What is made of a target.
LEMMA TargetMade ==
    ASSUME RefsInv, NEW f \in File, NEW p \in RefPath
    PROVE  LET a == Refs!Assertion(f, p) IN
           /\ a \in Reference /\ a.source = f /\ BoundRight(a) /\ a.waits \in {p, None}
           /\ a.bound = None => Refs!FileAt(a.waits) \ {f} = {}
           /\ \A g \in Refs!FileAt(p) \ {f} : a.bound = g
  <1> DEFINE others == Refs!FileAt(p) \ {f}
             a == Refs!Assertion(f, p)
  <1>1. writes + 1 \in Nat /\ None \notin File /\ None \notin RefPath
    BY KnowledgeBaseAssumption DEF RefsInv, RefsTypeOK
  <1>2. CASE others = {}
    <2>1. a = [source |-> f, write |-> writes + 1, to |-> p, bound |-> None, waits |-> p]
      BY <1>2 DEF Refs!Assertion
    <2>2. /\ a \in Reference /\ a.source = f /\ a.bound = None /\ a.waits = p
      BY <1>1, <2>1 DEF Reference
    <2> HIDE DEF a
    <2> QED
      BY <1>2, <2>2 DEF BoundRight, a
  <1>3. CASE others # {}
    <2>1. PICK g \in others : a = [source |-> f, write |-> writes + 1, to |-> p, bound |-> g,
                                  waits |-> None]
      BY <1>3 DEF Refs!Assertion
    <2>2. g \in File /\ g # f /\ Refs!Live(g) /\ file[g].path = p
      BY <2>1 DEF Refs!FileAt
    <2>3. /\ a \in Reference /\ a.source = f /\ a.bound = g /\ a.waits = None
      BY <1>1, <2>1, <2>2 DEF Reference
    <2>4. \A h \in others : h = g
      BY <2>2 DEF RefsInv, OneFileAtPath, Refs!FileAt
    <2> HIDE DEF a
    <2> QED
      BY <1>1, <2>2, <2>3, <2>4 DEF BoundRight, a
  <1> QED
    BY <1>2, <1>3

\* What a write makes for the file f at the path p.
MadeFor(made1, f, p) ==
    /\ made1 \in SUBSET Reference
    /\ \A a \in made1 : /\ a.source = f /\ BoundRight(a) /\ a.waits # p
                        /\ a.bound = None => Refs!FileAt(a.waits) \ {a.source} = {}

LEMMA TargetsMade ==
    ASSUME RefsInv, NEW f \in File, NEW self \in RefPath, NEW targets \in SUBSET RefPath
    PROVE  /\ MadeFor(Refs!Rewritten(f, self, targets), f, self)
           /\ \A p \in targets \ {self} : \A g \in Refs!FileAt(p) \ {f} :
                 g \in {a.bound : a \in Refs!Rewritten(f, self, targets)}
  <1>1. \A p \in targets \ {self} : Refs!Assertion(f, p) \in Refs!Rewritten(f, self, targets)
    BY DEF Refs!Rewritten
  <1>2. ASSUME NEW a \in Refs!Rewritten(f, self, targets)
        PROVE  /\ a \in Reference /\ a.source = f /\ BoundRight(a) /\ a.waits # self
               /\ a.bound = None => Refs!FileAt(a.waits) \ {a.source} = {}
    <2>1. PICK p \in targets \ {self} : a = Refs!Assertion(f, p)
      BY DEF Refs!Rewritten
    <2> QED
      BY <2>1, TargetMade, KnowledgeBaseAssumption
  <1>3. ASSUME NEW p \in targets \ {self}, NEW g \in Refs!FileAt(p) \ {f}
        PROVE  g \in {a.bound : a \in Refs!Rewritten(f, self, targets)}
    <2>1. Refs!Assertion(f, p).bound = g
      BY TargetMade
    <2> QED
      BY <1>1, <2>1
  <1> QED
    BY <1>2, <1>3 DEF MadeFor

\* The assertion b is a, bound to another file or waiting for another path.
Rebound(b, a, f, p) ==
    /\ b \in Reference /\ b.source = a.source /\ b.write = a.write /\ b.to = a.to
    /\ b.bound = f /\ b.waits = p

LEMMA ReboundRecord ==
    ASSUME NEW a \in Reference, NEW f \in File \cup {None}, NEW p \in RefPath \cup {None}
    PROVE  Rebound([a EXCEPT !.bound = f, !.waits = p], a, f, p)
  BY DEF Rebound, Reference

ResolvedFrom(b, a, p, f) ==
    Rebound(b, a, IF a.waits = p THEN f ELSE a.bound, IF a.waits = p THEN None ELSE a.waits)

BrokenFrom(b, a, f) ==
    Rebound(b, a, IF a.bound = f THEN None ELSE a.bound,
                  IF a.bound = f THEN file[f].path ELSE a.waits)

LEMMA ResolvedEach ==
    ASSUME NEW A \in SUBSET Reference, NEW p \in RefPath, NEW f \in File
    PROVE  /\ \A b \in Refs!Resolved(A, p, f) : \E a \in A : ResolvedFrom(b, a, p, f)
           /\ \A a \in A : \E b \in Refs!Resolved(A, p, f) : ResolvedFrom(b, a, p, f)
  <1> DEFINE bound(a) == IF a.waits = p THEN f ELSE a.bound
             waits(a) == IF a.waits = p THEN None ELSE a.waits
             other(a) == [a EXCEPT !.bound = bound(a), !.waits = waits(a)]
  <1>1. Refs!Resolved(A, p, f) = {other(a) : a \in A}
    BY DEF Refs!Resolved
  <1>2. ASSUME NEW a \in A
        PROVE  Rebound(other(a), a, bound(a), waits(a))
    <2>1. a \in Reference /\ bound(a) \in File \cup {None} /\ waits(a) \in RefPath \cup {None}
      BY DEF Reference
    <2> HIDE DEF bound, waits
    <2> QED
      BY <2>1, ReboundRecord
  <1>3. \A a \in A : ResolvedFrom(other(a), a, p, f)
    BY <1>2 DEF ResolvedFrom
  <1> HIDE DEF other
  <1> QED
    BY <1>1, <1>3

LEMMA BrokenEach ==
    ASSUME RefsTypeOK, NEW A \in SUBSET Reference, NEW f \in File
    PROVE  /\ \A b \in Refs!Broken(A, f) : \E a \in A : BrokenFrom(b, a, f)
           /\ \A a \in A : \E b \in Refs!Broken(A, f) : BrokenFrom(b, a, f)
  <1> DEFINE bound(a) == IF a.bound = f THEN None ELSE a.bound
             waits(a) == IF a.bound = f THEN file[f].path ELSE a.waits
             other(a) == [a EXCEPT !.bound = bound(a), !.waits = waits(a)]
  <1>1. Refs!Broken(A, f) = {other(a) : a \in A}
    BY DEF Refs!Broken
  <1>2. ASSUME NEW a \in A
        PROVE  Rebound(other(a), a, bound(a), waits(a))
    <2>1. a \in Reference /\ bound(a) \in File \cup {None} /\ waits(a) \in RefPath \cup {None}
      BY DEF Reference, RefsTypeOK, FileRow
    <2> HIDE DEF bound, waits
    <2> QED
      BY <2>1, ReboundRecord
  <1>3. \A a \in A : BrokenFrom(other(a), a, f)
    BY <1>2 DEF BrokenFrom
  <1> HIDE DEF other
  <1> QED
    BY <1>1, <1>3

\* Assertions that are rebound keep their tokens.
TokensOf(A, s)  == Refs!Tokens({a \in A : a.source = s})
SameToken(b, a) == b.source = a.source /\ b.write = a.write /\ b.to = a.to

LEMMA TokensKept ==
    ASSUME NEW A, NEW B, NEW s,
           \A b \in B : \E a \in A : SameToken(b, a),
           \A a \in A : \E b \in B : SameToken(b, a)
    PROVE  TokensOf(B, s) = TokensOf(A, s)
  BY DEF SameToken, TokensOf, Refs!Token, Refs!Tokens

\* An upload or an update writes its text.
LEMMA BeginWrite ==
    ASSUME RefsInv, NEW f \in File, NEW p \in RefPath, NEW targets \in SUBSET RefPath,
           pending.at = "none", Refs!FileAt(p) \subseteq {f},
           pending'.at = "written", pending'.source = f, pending'.path = p,
           pending'.made = Refs!Rewritten(f, p, targets),
           Refs!Live(f) => pending'.old = Refs!Tokens(Refs!Of(f)),
           Refs!Follows',
           object' = [object EXCEPT ![f] = Refs!Tokens(pending'.made)],
           writes' \in Nat, UNCHANGED <<file, assertion>>
    PROVE  RefsInv'
  <1>1. /\ pending'.made \in SUBSET Reference
        /\ \A a \in pending'.made : /\ a.source = f /\ BoundRight(a) /\ a.waits # p
                                    /\ a.bound = None => Refs!FileAt(a.waits) \ {a.source} = {}
    <2>1. MadeFor(pending'.made, f, p)
      BY TargetsMade
    <2> QED
      BY <2>1 DEF MadeFor
  <1>2. /\ \A g : Refs!Live(g)' = Refs!Live(g)
        /\ \A q : Refs!FileAt(q)' = Refs!FileAt(q)
        /\ \A g : Refs!Of(g)' = Refs!Of(g)
    BY DEF Refs!Live, Refs!FileAt, Refs!Of
  <1>3. /\ RefsTypeOK' /\ object'[f] = Refs!Tokens(pending'.made)
        /\ \A g \in File \ {f} : object'[g] = object[g]
    BY DEF RefsInv, RefsTypeOK
  <1>4. \A a : (BoundRight(a) => BoundRight(a)') /\ (WaitsRight(a) => WaitsRight(a)')
    BY <1>2 DEF BoundRight, WaitsRight
  <1>5. \A a \in pending'.made : MadeRight(a)'
    <2> SUFFICES ASSUME NEW a \in pending'.made
                 PROVE  MadeRight(a)'
      OBVIOUS
    <2>1. /\ a.source = f /\ BoundRight(a) /\ a.waits # p
          /\ a.bound = None => Refs!FileAt(a.waits) \ {a.source} = {}
      BY <1>1
    <2>2. BoundRight(a)' /\ Refs!FileAt(a.waits)' = Refs!FileAt(a.waits)
      BY <1>2, <1>4, <2>1
    <2> QED
      BY <2>1, <2>2 DEF MadeRight
  <1>6. \A g \in File \ {f} : Refs!Live(g)' => TextOf(g)'
    BY <1>2, <1>3 DEF RefsInv, TextOf
  <1>7. PendingRight'
    BY <1>1, <1>2, <1>3, <1>5, <1>6 DEF PendingRight
  <1>8. OneFileAtPath'
    BY <1>2 DEF RefsInv, OneFileAtPath
  <1>9. \A a \in assertion' : Refs!Live(a.source)' /\ BoundRight(a)' /\ WaitsRight(a)'
    BY <1>2, <1>4 DEF RefsInv
  <1> QED
    BY <1>3, <1>7, <1>8, <1>9 DEF RefsInv

LEMMA UploadStep ==
    ASSUME RefsInv, NEW f \in File, NEW p \in RefPath, NEW targets \in SUBSET RefPath,
           Refs!Upload(f, p, targets)
    PROVE  RefsInv'
  <1>1. /\ pending.at = "none" /\ file[f].status = "unused" /\ Refs!FileAt(p) = {}
        /\ writes' = writes + 1 /\ UNCHANGED <<file, assertion>>
        /\ pending' = [at |-> "written", op |-> "upload", source |-> f, path |-> p,
                      made |-> Refs!Rewritten(f, p, targets), old |-> {}, keeps |-> {}]
        /\ object' = [object EXCEPT ![f] = Refs!Tokens(Refs!Rewritten(f, p, targets))]
    BY DEF Refs!Upload
  <1>2. /\ pending'.at = "written" /\ pending'.source = f /\ pending'.path = p
        /\ pending'.made = Refs!Rewritten(f, p, targets) /\ pending'.op = "upload"
    BY <1>1
  <1>3. object' = [object EXCEPT ![f] = Refs!Tokens(pending'.made)]
    BY <1>1, <1>2
  <1>4. ~Refs!Live(f)
    BY <1>1 DEF Refs!Live
  <1>5. Refs!Follows'
    BY <1>2 DEF Refs!Follows
  <1>6. writes' \in Nat
    BY <1>1 DEF RefsInv, RefsTypeOK
  <1> QED
    BY <1>1, <1>2, <1>3, <1>4, <1>5, <1>6, BeginWrite

\* What is kept of a text is bound where it was.
LEMMA UpdateStep ==
    ASSUME RefsInv, NEW f \in File, NEW targets \in SUBSET RefPath, NEW kept,
           Refs!Update(f, targets, kept)
    PROVE  RefsInv'
  <1> DEFINE p == file[f].path
             held == {a \in Refs!Of(f) : Refs!Token(a) \in kept}
             all == targets \cup {Refs!Locator(a) : a \in held}
             made1 == Refs!Rewritten(f, p, all)
             keeps == {a.bound : a \in held} \ {None}
  <1>1. /\ pending.at = "none" /\ Refs!Live(f)
        /\ writes' = writes + 1 /\ UNCHANGED <<file, assertion>>
        /\ pending' = [at |-> "written", op |-> "update", source |-> f, path |-> p,
                      made |-> made1, old |-> object[f], keeps |-> keeps]
        /\ object' = [object EXCEPT ![f] = Refs!Tokens(made1)]
    BY DEF Refs!Update, Refs!Materialized
  <1>2. /\ pending'.at = "written" /\ pending'.source = f /\ pending'.path = p
        /\ pending'.made = made1 /\ pending'.op = "update" /\ pending'.old = object[f]
        /\ pending'.keeps = keeps /\ object' = [object EXCEPT ![f] = Refs!Tokens(pending'.made)]
    <2> HIDE DEF made1, keeps, p
    <2> QED
      BY <1>1
  <1>3. p \in RefPath /\ Refs!FileAt(p) \subseteq {f} /\ writes' \in Nat /\ TextOf(f)
    BY <1>1 DEF RefsInv, RefsTypeOK, OneFileAtPath, Refs!FileAt
  <1>4. \A a \in held : /\ a \in assertion /\ a.source = f /\ BoundRight(a) /\ a \in Reference
    BY DEF RefsInv, RefsTypeOK, Refs!Of
  <1>5. ASSUME NEW a \in held, a.bound # None
        PROVE  Refs!Locator(a) \in all \ {p} /\ a.bound \in Refs!FileAt(Refs!Locator(a)) \ {f}
    <2>1. /\ Refs!Live(a.bound) /\ a.bound # f /\ a.bound \in File
          /\ Refs!Locator(a) = file[a.bound].path
      BY <1>4, <1>5 DEF BoundRight, Refs!Locator, Reference
    <2>2. Refs!Locator(a) # p
      BY <1>1, <2>1 DEF RefsInv, OneFileAtPath
    <2> QED
      BY <2>1, <2>2 DEF Refs!FileAt
  <1>6. all \in SUBSET RefPath
    <2> SUFFICES ASSUME NEW a \in held
                 PROVE  Refs!Locator(a) \in RefPath
      OBVIOUS
    <2> QED
      BY <1>4 DEF BoundRight, Refs!Locator, RefsInv, OneFileAtPath, Reference
  <1> HIDE DEF all, held, p
  <1>7. \A q \in all \ {p} : \A g \in Refs!FileAt(q) \ {f} : g \in {a.bound : a \in made1}
    BY <1>3, <1>6, TargetsMade
  <1> HIDE DEF made1
  <1>8. keeps \subseteq {a.bound : a \in made1}
    BY <1>5, <1>7
  <1>9. Refs!Follows'
    BY <1>2, <1>8 DEF Refs!Follows
  <1>10. pending'.old = Refs!Tokens(Refs!Of(f))
    BY <1>2, <1>3 DEF TextOf
  <1>11. pending'.made = Refs!Rewritten(f, p, all)
    BY <1>2 DEF made1
  <1> QED
    BY <1>1, <1>2, <1>3, <1>6, <1>9, <1>10, <1>11, BeginWrite

LEMMA RollbackStep ==
    ASSUME RefsInv, Refs!RollbackWrite
    PROVE  RefsInv'
  <1>1. /\ pending.at = "written" /\ object' = [object EXCEPT ![pending.source] = pending.old]
        /\ pending' = Refs!Closed /\ UNCHANGED <<file, assertion, writes>>
    BY DEF Refs!RollbackWrite
  <1>2. PendingRight
    BY <1>1 DEF RefsInv
  <1>3. /\ \A g : Refs!Live(g)' = Refs!Live(g)
        /\ \A q : Refs!FileAt(q)' = Refs!FileAt(q)
        /\ \A g : Refs!Of(g)' = Refs!Of(g)
    BY <1>1 DEF Refs!Live, Refs!FileAt, Refs!Of
  <1>4. /\ RefsTypeOK' /\ object'[pending.source] = pending.old
        /\ \A g \in File \ {pending.source} : object'[g] = object[g]
    BY <1>1, <1>2 DEF RefsInv, RefsTypeOK, PendingRight
  <1>5. \A f \in File : Refs!Live(f)' => TextOf(f)'
    BY <1>2, <1>3, <1>4 DEF PendingRight, TextOf
  <1>6. pending'.at = "none" /\ Refs!Follows'
    BY <1>1 DEF Refs!Closed, Refs!Follows
  <1>7. OneFileAtPath'
    BY <1>1, <1>3 DEF RefsInv, OneFileAtPath
  <1>8. \A a \in assertion' : Refs!Live(a.source)' /\ BoundRight(a)' /\ WaitsRight(a)'
    BY <1>1, <1>3 DEF RefsInv, BoundRight, WaitsRight
  <1> QED
    BY <1>4, <1>5, <1>6, <1>7, <1>8 DEF RefsInv

\* The commit of a write puts its file at its path, and binds what waits for it.
LEMMA CommitWriteStep ==
    ASSUME RefsInv, Refs!CommitWrite
    PROVE  RefsInv'
  <1> DEFINE A == (assertion \ Refs!Of(pending.source)) \cup pending.made
  <1>1. /\ pending.at = "written" /\ pending' = Refs!Closed /\ UNCHANGED <<object, writes>>
        /\ file' = [file EXCEPT ![pending.source] = [status |-> "live", path |-> pending.path,
                                                    moved |-> FALSE]]
        /\ assertion' = Refs!Resolved(A, pending.path, pending.source)
    BY DEF Refs!CommitWrite
  <1>2. PendingRight /\ RefsTypeOK /\ OneFileAtPath
    BY <1>1 DEF RefsInv
  <1>3. PICK f \in File, p \in RefPath : f = pending.source /\ p = pending.path
    BY <1>2 DEF PendingRight
  <1>4. /\ file' \in [File -> FileRow] /\ \A g \in File \ {f} : file'[g] = file[g]
        /\ file'[f].status = "live" /\ file'[f].path = p /\ file'[f].moved = FALSE
    BY <1>1, <1>2, <1>3 DEF RefsTypeOK, FileRow
  <1>5. /\ Refs!Live(f)' /\ \A g \in File \ {f} : Refs!Live(g)' = Refs!Live(g)
        /\ Refs!FileAt(p)' = {f}
        /\ \A q : q # p => Refs!FileAt(q)' = Refs!FileAt(q) \ {f}
    BY <1>2, <1>3, <1>4 DEF Refs!Live, Refs!FileAt, PendingRight
  <1>6. OneFileAtPath'
    BY <1>2, <1>3, <1>4, <1>5 DEF OneFileAtPath, PendingRight, Refs!FileAt
  <1>7. /\ A \in SUBSET Reference
        /\ \A a \in A : \/ a.source \in File \ {f} /\ Refs!Live(a.source) /\ BoundRight(a) /\ WaitsRight(a)
                        \/ a.source = f /\ MadeRight(a)
    <2>1. A \in SUBSET Reference
      BY <1>2 DEF PendingRight, RefsTypeOK
    <2>2. ASSUME NEW a \in assertion \ Refs!Of(pending.source)
          PROVE  a.source \in File \ {f} /\ Refs!Live(a.source) /\ BoundRight(a) /\ WaitsRight(a)
      BY <1>2, <1>3 DEF RefsInv, RefsTypeOK, Refs!Of, Reference
    <2>3. ASSUME NEW a \in pending.made
          PROVE  a.source = f /\ MadeRight(a)
      BY <1>2, <1>3 DEF PendingRight, MadeRight
    <2> QED
      BY <2>1, <2>2, <2>3
  <1> HIDE DEF A
  <1>8. /\ \A b \in assertion' : \E a \in A : ResolvedFrom(b, a, p, f)
        /\ \A a \in A : \E b \in assertion' : ResolvedFrom(b, a, p, f)
    BY <1>1, <1>3, <1>7, ResolvedEach
  <1>9. ASSUME NEW b \in assertion'
        PROVE  Refs!Live(b.source)' /\ BoundRight(b)' /\ WaitsRight(b)' /\ b \in Reference
    <2>1. PICK a \in A : ResolvedFrom(b, a, p, f)
      BY <1>8
    <2>2. a \in Reference /\ b \in Reference /\ b.source = a.source
      BY <1>7, <2>1 DEF ResolvedFrom, Rebound
    <2>3. Refs!Live(b.source)'
      BY <1>5, <1>7, <2>2
    <2>4. CASE a.waits = p
      <3>1. b.bound = f /\ b.waits = None
        BY <2>1, <2>4 DEF ResolvedFrom, Rebound
      <3>2. a.source # f
        BY <1>3, <1>7, <2>4 DEF MadeRight
      <3>3. BoundRight(b)'
        BY <1>5, <2>2, <3>1, <3>2, KnowledgeBaseAssumption DEF BoundRight
      <3>4. Refs!FileAt(None)' = {} /\ file'[b.source].path # None
        BY <1>6, <2>2, <2>3, KnowledgeBaseAssumption DEF OneFileAtPath, Refs!FileAt, Reference
      <3>5. WaitsRight(b)'
        BY <3>1, <3>4 DEF WaitsRight
      <3> QED
        BY <2>2, <2>3, <3>3, <3>5
    <2>5. CASE a.waits # p
      <3>1. b.bound = a.bound /\ b.waits = a.waits
        BY <2>1, <2>5 DEF ResolvedFrom, Rebound
      <3>2. BoundRight(a)
        BY <1>7 DEF MadeRight
      <3>3. BoundRight(b)'
        BY <1>5, <2>2, <3>1, <3>2 DEF BoundRight, Reference
      <3>4. Refs!FileAt(b.waits)' = Refs!FileAt(a.waits) \ {f}
        BY <1>5, <2>5, <3>1
      <3>5. CASE a.source # f
        <4>1. WaitsRight(a) /\ a.source \in File \ {f}
          BY <1>7, <3>5
        <4>2. \A g \in Refs!FileAt(a.waits) \ {f} : file'[g] = file[g]
          BY <1>4 DEF Refs!FileAt
        <4> QED
          BY <1>4, <2>2, <2>3, <3>1, <3>3, <3>4, <4>1, <4>2 DEF WaitsRight
      <3>6. CASE a.source = f
        <4>1. MadeRight(a)
          BY <1>7, <3>6
        <4>2. Refs!FileAt(b.waits)' \ {f} = {}
          <5>1. CASE a.bound = None
            BY <3>4, <3>6, <4>1, <5>1 DEF MadeRight
          <5>2. CASE a.bound # None
            <6>1. a.waits = None
              BY <3>2, <5>2 DEF BoundRight
            <6>2. Refs!FileAt(None)' = {}
              BY <1>6, KnowledgeBaseAssumption DEF OneFileAtPath, Refs!FileAt
            <6> QED
              BY <3>1, <6>1, <6>2
          <5> QED
            BY <5>1, <5>2
        <4> QED
          BY <1>4, <2>2, <2>3, <2>5, <3>1, <3>3, <3>6, <4>2 DEF WaitsRight
      <3> QED
        BY <3>5, <3>6
    <2> QED
      BY <2>4, <2>5
  <1>10. ASSUME NEW g \in File, Refs!Live(g)'
         PROVE  TextOf(g)'
    <2>1. /\ \A b \in assertion' : \E a \in A : SameToken(b, a)
          /\ \A a \in A : \E b \in assertion' : SameToken(b, a)
      BY <1>8 DEF ResolvedFrom, Rebound, SameToken
    <2>2. TokensOf(assertion', g) = TokensOf(A, g)
      BY <2>1, TokensKept
    <2>3. CASE g = f
      <3>1. {a \in A : a.source = g} = pending.made
        BY <1>2, <1>3, <2>3 DEF A, Refs!Of, PendingRight, MadeRight
      <3> QED
        BY <1>1, <1>2, <1>3, <2>2, <2>3, <3>1 DEF TextOf, TokensOf, Refs!Of, PendingRight
    <2>4. CASE g # f
      <3>1. {a \in A : a.source = g} = Refs!Of(g)
        BY <1>2, <1>3, <2>4 DEF A, Refs!Of, PendingRight, MadeRight
      <3>2. TextOf(g)
        BY <1>2, <1>3, <1>5, <1>10, <2>4 DEF PendingRight
      <3> QED
        BY <1>1, <2>2, <3>1, <3>2 DEF TextOf, TokensOf, Refs!Of
    <2> QED
      BY <2>3, <2>4
  <1>11. pending'.at = "none" /\ Refs!Follows'
    BY <1>1 DEF Refs!Closed, Refs!Follows
  <1>12. RefsTypeOK'
    BY <1>1, <1>2, <1>4, <1>9 DEF RefsTypeOK
  <1> QED
    BY <1>6, <1>9, <1>10, <1>11, <1>12 DEF RefsInv

\* What refers to a file that is deleted waits where it was, where there is nothing now.
LEMMA DeleteStep ==
    ASSUME RefsInv, NEW f \in File, Refs!Delete(f)
    PROVE  RefsInv'
  <1> DEFINE A == assertion \ Refs!Of(f)
  <1>1. /\ pending.at = "none" /\ Refs!Live(f) /\ UNCHANGED <<object, pending, writes>>
        /\ file' = [file EXCEPT ![f].status = "deleted"]
        /\ assertion' = Refs!Broken(A, f)
    BY DEF Refs!Delete
  <1>2. RefsTypeOK /\ OneFileAtPath
    BY DEF RefsInv
  <1>3. /\ file' \in [File -> FileRow] /\ \A g \in File \ {f} : file'[g] = file[g]
        /\ file'[f].status = "deleted"
    BY <1>1, <1>2 DEF RefsTypeOK, FileRow
  <1>4. /\ ~Refs!Live(f)' /\ \A g \in File \ {f} : Refs!Live(g)' = Refs!Live(g)
        /\ \A q : Refs!FileAt(q)' = Refs!FileAt(q) \ {f}
    BY <1>3 DEF Refs!Live, Refs!FileAt
  <1>5. OneFileAtPath'
    BY <1>2, <1>3, <1>4 DEF OneFileAtPath
  <1>6. /\ A \in SUBSET Reference
        /\ \A a \in A : /\ a.source \in File \ {f} /\ Refs!Live(a.source) /\ BoundRight(a)
                        /\ WaitsRight(a)
    BY <1>2 DEF RefsInv, RefsTypeOK, Refs!Of, Reference
  <1>7. file[f].path \in RefPath /\ Refs!FileAt(file[f].path) = {f}
    BY <1>1, <1>2 DEF OneFileAtPath, Refs!FileAt
  <1> HIDE DEF A
  <1>8. /\ \A b \in assertion' : \E a \in A : BrokenFrom(b, a, f)
        /\ \A a \in A : \E b \in assertion' : BrokenFrom(b, a, f)
    BY <1>1, <1>2, <1>6, BrokenEach
  <1>9. ASSUME NEW b \in assertion'
        PROVE  Refs!Live(b.source)' /\ BoundRight(b)' /\ WaitsRight(b)' /\ b \in Reference
    <2>1. PICK a \in A : BrokenFrom(b, a, f)
      BY <1>8
    <2>2. a \in Reference /\ b \in Reference /\ b.source = a.source
      BY <1>6, <2>1 DEF BrokenFrom, Rebound
    <2>3. Refs!Live(b.source)' /\ a.source \in File \ {f} /\ file'[b.source] = file[a.source]
      BY <1>3, <1>4, <1>6, <2>2
    <2>4. CASE a.bound = f
      <3>1. b.bound = None /\ b.waits = file[f].path
        BY <2>1, <2>4 DEF BrokenFrom, Rebound
      <3>2. BoundRight(b)'
        BY <1>7, <3>1 DEF BoundRight
      <3>3. Refs!FileAt(b.waits)' = {}
        BY <1>4, <1>7, <3>1
      <3>4. file'[b.source].path # b.waits
        BY <1>1, <1>2, <1>6, <2>3, <3>1 DEF OneFileAtPath
      <3> QED
        BY <2>2, <2>3, <3>2, <3>3, <3>4 DEF WaitsRight
    <2>5. CASE a.bound # f
      <3>1. b.bound = a.bound /\ b.waits = a.waits
        BY <2>1, <2>5 DEF BrokenFrom, Rebound
      <3>2. BoundRight(b)'
        BY <1>4, <1>6, <2>2, <2>5, <3>1 DEF BoundRight, Reference
      <3>3. WaitsRight(a)
        BY <1>6
      <3>4. Refs!FileAt(b.waits)' = Refs!FileAt(a.waits) \ {f}
        BY <1>4, <3>1
      <3>5. \A g \in Refs!FileAt(a.waits) \ {f} : file'[g] = file[g]
        BY <1>3 DEF Refs!FileAt
      <3>6. WaitsRight(b)'
        BY <2>2, <2>3, <3>1, <3>3, <3>4, <3>5 DEF WaitsRight
      <3> QED
        BY <2>2, <2>3, <3>2, <3>6
    <2> QED
      BY <2>4, <2>5
  <1>10. ASSUME NEW g \in File, Refs!Live(g)'
         PROVE  TextOf(g)'
    <2>1. /\ \A b \in assertion' : \E a \in A : SameToken(b, a)
          /\ \A a \in A : \E b \in assertion' : SameToken(b, a)
      BY <1>8 DEF BrokenFrom, Rebound, SameToken
    <2>2. TokensOf(assertion', g) = TokensOf(A, g)
      BY <2>1, TokensKept
    <2>3. g # f /\ Refs!Live(g)
      BY <1>4, <1>10
    <2>4. {a \in A : a.source = g} = Refs!Of(g)
      BY <2>3 DEF A, Refs!Of
    <2> QED
      BY <1>1, <2>2, <2>3, <2>4 DEF RefsInv, TextOf, TokensOf, Refs!Of
  <1>11. RefsTypeOK'
    BY <1>1, <1>2, <1>3, <1>9 DEF RefsTypeOK
  <1>12. pending'.at = "none" /\ Refs!Follows'
    BY <1>1 DEF RefsInv, Refs!Follows
  <1> QED
    BY <1>5, <1>9, <1>10, <1>11, <1>12 DEF RefsInv

\* A move takes along what is bound to the file.
LEMMA MoveStep ==
    ASSUME RefsInv, NEW f \in File, NEW p \in RefPath, Refs!Move(f, p)
    PROVE  RefsInv'
  <1>1. /\ pending.at = "none" /\ Refs!Live(f) /\ Refs!FileAt(p) = {}
        /\ file' = [file EXCEPT ![f].path = p, ![f].moved = TRUE]
        /\ UNCHANGED <<assertion, object, pending, writes>>
    BY DEF Refs!Move
  <1>2. RefsTypeOK /\ OneFileAtPath
    BY DEF RefsInv
  <1>3. /\ file' \in [File -> FileRow] /\ \A g \in File \ {f} : file'[g] = file[g]
        /\ file'[f].status = file[f].status /\ file'[f].path = p /\ file'[f].moved = TRUE
    BY <1>1, <1>2 DEF RefsTypeOK, FileRow
  <1>4. /\ \A g \in File : Refs!Live(g)' = Refs!Live(g)
        /\ Refs!FileAt(p)' = {f}
        /\ \A q : q # p => Refs!FileAt(q)' = Refs!FileAt(q) \ {f}
    BY <1>1, <1>3 DEF Refs!Live, Refs!FileAt
  <1>5. OneFileAtPath'
    BY <1>1, <1>2, <1>3, <1>4 DEF OneFileAtPath, Refs!FileAt
  <1>6. ASSUME NEW a \in assertion
        PROVE  Refs!Live(a.source)' /\ BoundRight(a)' /\ WaitsRight(a)'
    <2>1. /\ a \in Reference /\ Refs!Live(a.source) /\ BoundRight(a) /\ WaitsRight(a)
      BY DEF RefsInv, RefsTypeOK
    <2>2. Refs!Live(a.source)' /\ BoundRight(a)'
      BY <1>4, <2>1 DEF BoundRight, Reference
    <2>3. \A g \in Refs!FileAt(a.waits)' \ {a.source} : file'[g].moved
      <3>1. CASE a.waits = p
        BY <1>3, <1>4, <3>1
      <3>2. CASE a.waits # p
        BY <1>3, <1>4, <2>1, <3>2 DEF WaitsRight, Refs!FileAt
      <3> QED
        BY <3>1, <3>2
    <2>4. ~file'[a.source].moved => a.waits # file'[a.source].path
      BY <1>3, <2>1 DEF WaitsRight, Reference
    <2> QED
      BY <2>2, <2>3, <2>4 DEF WaitsRight
  <1>7. \A g \in File : Refs!Live(g)' => TextOf(g)'
    BY <1>1, <1>4 DEF RefsInv, TextOf, Refs!Of
  <1>8. RefsTypeOK' /\ pending'.at = "none" /\ Refs!Follows'
    BY <1>1, <1>2, <1>3 DEF RefsInv, RefsTypeOK, Refs!Follows
  <1> QED
    BY <1>1, <1>5, <1>6, <1>7, <1>8 DEF RefsInv

\* What waits for the path of a file that was not moved there is bound to it.
LEMMA ResolveAgainStep ==
    ASSUME RefsInv, NEW f \in File, Refs!ResolveAgain(f)
    PROVE  RefsInv'
  <1>1. /\ pending.at = "none" /\ Refs!Live(f) /\ ~file[f].moved
        /\ assertion' = Refs!Resolved(assertion, file[f].path, f)
        /\ UNCHANGED <<file, object, pending, writes>>
    BY DEF Refs!ResolveAgain
  <1>2. RefsTypeOK /\ OneFileAtPath
    BY DEF RefsInv
  <1>3. PICK p \in RefPath : p = file[f].path
    BY <1>1, <1>2 DEF OneFileAtPath
  <1>4. /\ \A g : Refs!Live(g)' = Refs!Live(g)
        /\ \A q : Refs!FileAt(q)' = Refs!FileAt(q)
    BY <1>1 DEF Refs!Live, Refs!FileAt
  <1>5. OneFileAtPath'
    BY <1>1, <1>2, <1>4 DEF OneFileAtPath
  <1>6. assertion \in SUBSET Reference
    BY <1>2 DEF RefsTypeOK
  <1>7. /\ \A b \in assertion' : \E a \in assertion : ResolvedFrom(b, a, p, f)
        /\ \A a \in assertion : \E b \in assertion' : ResolvedFrom(b, a, p, f)
    BY <1>1, <1>3, <1>6, ResolvedEach
  <1>8. ASSUME NEW b \in assertion'
        PROVE  Refs!Live(b.source)' /\ BoundRight(b)' /\ WaitsRight(b)' /\ b \in Reference
    <2>1. PICK a \in assertion : ResolvedFrom(b, a, p, f)
      BY <1>7
    <2>2. /\ a \in Reference /\ b \in Reference /\ b.source = a.source
          /\ Refs!Live(a.source) /\ BoundRight(a) /\ WaitsRight(a)
      BY <1>6, <2>1 DEF RefsInv, ResolvedFrom, Rebound
    <2>3. CASE a.waits = p
      <3>1. b.bound = f /\ b.waits = None
        BY <2>1, <2>3 DEF ResolvedFrom, Rebound
      <3>2. a.source # f
        BY <1>1, <1>3, <2>2, <2>3 DEF WaitsRight
      <3>3. BoundRight(b)'
        BY <1>1, <1>4, <2>2, <3>1, <3>2, KnowledgeBaseAssumption DEF BoundRight
      <3>4. Refs!FileAt(None) = {} /\ file[b.source].path # None
        BY <1>2, <2>2, KnowledgeBaseAssumption DEF OneFileAtPath, Refs!FileAt, Reference
      <3> QED
        BY <1>1, <1>4, <2>2, <3>1, <3>3, <3>4 DEF WaitsRight
    <2>4. CASE a.waits # p
      <3>1. b.bound = a.bound /\ b.waits = a.waits
        BY <2>1, <2>4 DEF ResolvedFrom, Rebound
      <3> QED
        BY <1>1, <1>4, <2>2, <3>1 DEF BoundRight, WaitsRight
    <2> QED
      BY <2>3, <2>4
  <1>9. ASSUME NEW g \in File, Refs!Live(g)'
        PROVE  TextOf(g)'
    <2>1. /\ \A b \in assertion' : \E a \in assertion : SameToken(b, a)
          /\ \A a \in assertion : \E b \in assertion' : SameToken(b, a)
      BY <1>7 DEF ResolvedFrom, Rebound, SameToken
    <2>2. TokensOf(assertion', g) = TokensOf(assertion, g)
      BY <2>1, TokensKept
    <2> QED
      BY <1>1, <1>4, <1>9, <2>2 DEF RefsInv, TextOf, TokensOf, Refs!Of
  <1>10. RefsTypeOK' /\ pending'.at = "none" /\ Refs!Follows'
    BY <1>1, <1>2, <1>8 DEF RefsInv, RefsTypeOK, Refs!Follows
  <1> QED
    BY <1>5, <1>8, <1>9, <1>10 DEF RefsInv

\* With one write at a time, for any number of files and paths and any sequence of uploads,
\* updates, deletions and moves: a reference is bound to a live file, or waits where there is none
\* that was not moved there; it follows its target; and a text has the assertions of its tokens
\* (KnowledgeFileReferenceService).
THEOREM ReferencesFollowFiles == Spec => []ReferencesFollow
  <1>1. Init => (part = "references" => RefsInv)
    <2> SUFFICES ASSUME Init
                 PROVE  RefsInv
      OBVIOUS
    <2>1. /\ file = [f \in File |-> [status |-> "unused", path |-> None, moved |-> FALSE]]
          /\ assertion = {} /\ object = [f \in File |-> {}] /\ pending = Refs!Closed /\ writes = 0
      BY DEF Init, Refs!Init
    <2>2. \A f \in File : ~Refs!Live(f)
      BY <2>1 DEF Refs!Live
    <2>3. RefsTypeOK
      BY <2>1 DEF RefsTypeOK, FileRow
    <2>4. pending.at = "none" /\ Refs!Follows
      BY <2>1 DEF Refs!Closed, Refs!Follows
    <2> QED
      BY <2>1, <2>2, <2>3, <2>4 DEF RefsInv, OneFileAtPath
  <1>2. (part = "references" => RefsInv) /\ [Next]_vars => (part = "references" => RefsInv)'
    <2> SUFFICES ASSUME [Next]_vars, part = "references", RefsInv
                 PROVE  RefsInv'
      BY WritingParts
    <2>1. CASE Refs!Next
      <3>1. ASSUME NEW f \in File, NEW targets \in SUBSET RefPath,
                   \/ \E p \in RefPath : Refs!Upload(f, p, targets)
                   \/ \E kept \in SUBSET object[f] : Refs!Update(f, targets, kept)
            PROVE  RefsInv'
        BY <3>1, UploadStep, UpdateStep
      <3>2. ASSUME NEW f \in File,
                   \/ \E p \in RefPath : Refs!Move(f, p)
                   \/ Refs!Delete(f) \/ Refs!ResolveAgain(f)
            PROVE  RefsInv'
        BY <3>2, MoveStep, DeleteStep, ResolveAgainStep
      <3> QED
        BY <2>1, <3>1, <3>2, CommitWriteStep, RollbackStep DEF Refs!Next
    <2>2. CASE UNCHANGED Refs!vars
      <3>1. UNCHANGED <<file, assertion, object, pending, writes>>
        BY <2>2 DEF Refs!vars
      <3> QED
        BY <3>1 DEF RefsInv, RefsTypeOK, OneFileAtPath, BoundRight, WaitsRight, PendingRight,
                    MadeRight, TextOf, Refs!Live, Refs!FileAt, Refs!Of, Refs!Follows
    <2> QED
      BY <2>1, <2>2, WritingParts
  <1>3. (part = "references" => RefsInv) => ReferencesFollow
    <2> SUFFICES ASSUME RefsInv
                 PROVE  Refs!Settled /\ Refs!Follows
      BY DEF ReferencesFollow
    <2>1. ASSUME NEW s \in File, Refs!Live(s), NEW a \in Refs!Of(s)
          PROVE  /\ a.bound # None => Refs!Live(a.bound) /\ a.bound # s
                 /\ a.bound = None => \A f \in Refs!FileAt(a.waits) \ {s} : file[f].moved
      BY DEF RefsInv, Refs!Of, BoundRight, WaitsRight
    <2>2. pending.at = "none" => \A s \in File : Refs!Live(s) => object[s] = Refs!Tokens(Refs!Of(s))
      BY DEF RefsInv, TextOf
    <2> QED
      BY <2>1, <2>2 DEF Refs!Settled, RefsInv
  <1> QED
    BY <1>1, <1>2, <1>3, PTL DEF Spec

-----------------------------------------------------------------------------
(* The import of an archive.                                               *)

ItemOK(x) == x = [at |-> x.at, victim |-> x.victim, found |-> x.found]
LinkOK(a) == a = [source |-> a.source, to |-> a.to, open |-> a.open, bound |-> a.bound]
             /\ a.open \in BOOLEAN

ZipTypeOK ==
    /\ item = [i \in Zip!Entry |-> item[i]] /\ \A i \in Zip!Entry : ItemOK(item[i])
    /\ \A a \in unresolved : LinkOK(a)
    /\ live = [p \in Zip!Path |-> live[p]]
    /\ phase \in {"others", "markdown", "resolve", "done", "reported"}

\* A file that is not Markdown and is imported: it stays the file at its path.
Arrived(i) == item[i].at = "done" /\ ~Archive[i].md

Over(i) == item[i].at \in {"done", "failed"}

\* The Markdown files wait for the barrier; behind it the others are over.
EntryRight(i) ==
    /\ item[i].at # "queued" => ~Zip!Duplicate(i)
    /\ item[i].at \notin {"queued", "failed"} => Archive[i].path \in Zip!Path
    /\ Archive[i].md /\ phase = "others" => item[i].at = "queued"
    /\ phase # "others" /\ ~Archive[i].md => Zip!Duplicate(i) \/ Over(i)
    /\ phase \notin {"others", "markdown"} => Zip!Duplicate(i) \/ Over(i)
    /\ item[i].at = "deleting" => item[i].victim.path = Archive[i].path
    /\ item[i].at = "found" /\ item[i].found # {} => Archive[i].md
    /\ Arrived(i) => live[Archive[i].path] = i

\* What was found or asserted of an imported file is the file.
LooksRight(i) ==
    item[i].at = "found" =>
        \A t \in item[i].found : \A j \in Zip!Entry :
            Arrived(j) /\ t.to = Archive[j].path => t.row = Zip!LiveRow(t.to)

LinkRight(a) ==
    /\ a.open => \E i \in Zip!Entry : item[i].at = "asserted" /\ a.source = Archive[i].path
    /\ phase = "others" => a.source = Outside
    /\ \A i \in Zip!Entry : Arrived(i) /\ a.source # Outside /\ a.to = Archive[i].path =>
                              a.bound = Zip!LiveRow(a.to)

ZipInv ==
    /\ ZipTypeOK
    /\ \A i \in Zip!Entry : EntryRight(i) /\ LooksRight(i)
    /\ \A a \in unresolved : LinkRight(a)
    /\ Zip!Linked

\* Of two entries with one path, the later one is a duplicate.
LEMMA OneOfPath ==
    ASSUME NEW i \in Zip!Entry, NEW j \in Zip!Entry, ~Zip!Duplicate(i), ~Zip!Duplicate(j),
           Archive[i].path = Archive[j].path, Archive[i].path \in Zip!Path
    PROVE  i = j
  <1>1. i \in Nat \ {0} /\ j \in Nat \ {0} /\ Archive[i].path # None
    BY KnowledgeBaseAssumption DEF Zip!Entry, Zip!Path
  <1>2. ~(j \in 1 .. i - 1) /\ ~(i \in 1 .. j - 1)
    BY <1>1 DEF Zip!Duplicate
  <1> QED
    BY <1>1, <1>2

\* An entry of an import after the steps that change it.
Item(at, victim, found2) == [at |-> at, victim |-> victim, found |-> found2]

LEMMA ItemFields ==
    ASSUME NEW a, NEW v, NEW w
    PROVE  ItemOK(Item(a, v, w)) /\ Item(a, v, w).at = a /\ Item(a, v, w).victim = v
           /\ Item(a, v, w).found = w
  BY DEF Item, ItemOK

LEMMA ItemChanged ==
    ASSUME NEW x, ItemOK(x), NEW at, NEW v
    PROVE  /\ [x EXCEPT !.at = at] = Item(at, x.victim, x.found)
           /\ [x EXCEPT !.at = at, !.victim = v] = Item(at, v, x.found)
           /\ [x EXCEPT !.at = at, !.found = v] = Item(at, x.victim, v)
  <1>1. PICK a, b, c : x = [at |-> a, victim |-> b, found |-> c]
    BY DEF ItemOK
  <1>2. x.victim = b /\ x.found = c
    BY <1>1
  <1>3. [x EXCEPT !.at = at] = [at |-> at, victim |-> b, found |-> c]
    BY <1>1
  <1>4. [x EXCEPT !.at = at, !.victim = v] = [at |-> at, victim |-> v, found |-> c]
    <2>1. [x EXCEPT !.at = at, !.victim = v] = [[x EXCEPT !.at = at] EXCEPT !.victim = v]
      OBVIOUS
    <2>2. [[at |-> at, victim |-> b, found |-> c] EXCEPT !.victim = v]
            = [at |-> at, victim |-> v, found |-> c]
      OBVIOUS
    <2> QED
      BY <1>3, <2>1, <2>2
  <1>5. [x EXCEPT !.at = at, !.found = v] = [at |-> at, victim |-> b, found |-> v]
    <2>1. [x EXCEPT !.at = at, !.found = v] = [[x EXCEPT !.at = at] EXCEPT !.found = v]
      OBVIOUS
    <2>2. [[at |-> at, victim |-> b, found |-> c] EXCEPT !.found = v]
            = [at |-> at, victim |-> b, found |-> v]
      OBVIOUS
    <2> QED
      BY <1>3, <2>1, <2>2
  <1> QED
    BY <1>2, <1>3, <1>4, <1>5 DEF Item

LEMMA ItemFound ==
    ASSUME NEW x, ItemOK(x)
    PROVE  \A v : [x EXCEPT !.at = "found", !.found = v] = Item("found", x.victim, v)
  <1> SUFFICES ASSUME NEW v
               PROVE  [x EXCEPT !.at = "found", !.found = v] = Item("found", x.victim, v)
    OBVIOUS
  <1>1. [x EXCEPT !.at = "found", !.found = v] = [[x EXCEPT !.at = "found"] EXCEPT !.found = v]
    OBVIOUS
  <1>2. [x EXCEPT !.at = "found"] = Item("found", x.victim, x.found)
    BY ItemChanged
  <1>3. [Item("found", x.victim, x.found) EXCEPT !.found = v] = Item("found", x.victim, v)
    BY DEF Item
  <1> QED
    BY <1>1, <1>2, <1>3

\* An entry under way is one of the phase.
LEMMA UnderWay ==
    ASSUME ZipInv, NEW i \in Zip!Entry, item[i].at \notin {"queued", "done", "failed"}
    PROVE  /\ Zip!Turn(i) /\ Archive[i].path \in Zip!Path
           /\ \A j \in Zip!Entry : Arrived(j) => j # i /\ Archive[j].path # Archive[i].path
  <1>1. EntryRight(i) /\ ~Zip!Duplicate(i) /\ ~Over(i) /\ Archive[i].path \in Zip!Path
    BY DEF ZipInv, EntryRight, Over
  <1>2. Archive[i].md \in BOOLEAN
    BY KnowledgeBaseAssumption DEF Zip!Entry
  <1>3. Zip!Turn(i)
    BY <1>1, <1>2 DEF EntryRight, Zip!Turn, ZipInv, ZipTypeOK
  <1>4. ASSUME NEW j \in Zip!Entry, Arrived(j)
        PROVE  j # i /\ Archive[j].path # Archive[i].path
    <2>1. ~Zip!Duplicate(j) /\ j # i
      BY <1>4 DEF ZipInv, EntryRight, Arrived
    <2> QED
      BY <1>1, <2>1, OneOfPath
  <1> QED
    BY <1>1, <1>3, <1>4

\* An entry goes on, and nothing else changes.
LEMMA EntryMoves ==
    ASSUME ZipInv, NEW i \in Zip!Entry, Zip!Turn(i), NEW next, ItemOK(next),
           item' = [item EXCEPT ![i] = next], UNCHANGED <<live, unresolved, phase>>,
           item[i].at \notin {"done", "failed", "asserted"},
           next.at \in {"failed", "delete", "insert", "deleting", "found"},
           next.at # "failed" => Archive[i].path \in Zip!Path,
           next.at = "deleting" => next.victim.path = Archive[i].path,
           next.at = "found" =>
               /\ next.found # {} => Archive[i].md
               /\ \A t \in next.found : \A j \in Zip!Entry :
                     Arrived(j) /\ t.to = Archive[j].path => t.row = Zip!LiveRow(t.to)
    PROVE  ZipInv'
  <1>1. /\ item'[i] = next /\ \A j \in Zip!Entry \ {i} : item'[j] = item[j]
        /\ ZipTypeOK'
    BY DEF ZipInv, ZipTypeOK
  <1>2. /\ \A j \in Zip!Entry : Arrived(j)' = Arrived(j)
        /\ \A j \in Zip!Entry \ {i} : Over(j)' = Over(j)
        /\ \A p : Zip!LiveRow(p)' = Zip!LiveRow(p)
    BY <1>1 DEF Arrived, Over, Zip!LiveRow, Zip!Row
  <1>3. EntryRight(i)'
    <2>1. ~Zip!Duplicate(i) /\ phase = (IF Archive[i].md THEN "markdown" ELSE "others")
      BY DEF Zip!Turn
    <2> QED
      BY <1>1, <1>2, <2>1 DEF EntryRight, Arrived
  <1>4. \A j \in Zip!Entry \ {i} : EntryRight(j)'
    BY <1>1, <1>2 DEF ZipInv, EntryRight
  <1>5. \A j \in Zip!Entry : LooksRight(j)'
    BY <1>1, <1>2 DEF ZipInv, LooksRight
  <1>6. \A a \in unresolved : LinkRight(a)'
    BY <1>1, <1>2 DEF ZipInv, LinkRight
  <1>7. Zip!Linked'
    BY DEF Zip!Turn, Zip!Linked
  <1> QED
    BY <1>1, <1>3, <1>4, <1>5, <1>6, <1>7 DEF ZipInv

LEMMA EntrySteps ==
    ASSUME ZipInv, NEW i \in Zip!Entry, Zip!Begin(i) \/ Zip!LockOld(i) \/ Zip!LookUp(i)
    PROVE  ZipInv'
  <1>0. ItemOK(item[i]) /\ EntryRight(i) /\ i \in Nat \ {0} /\ Archive[i].md \in BOOLEAN
    BY KnowledgeBaseAssumption DEF ZipInv, ZipTypeOK, Zip!Entry
  <1>1. CASE Zip!Begin(i)
    <2> DEFINE to == IF Archive[i].path = None \/ Archive[i].malformed THEN "failed"
                     ELSE IF live[Archive[i].path] # Zip!NoRow THEN "delete" ELSE "insert"
               next == Item(to, item[i].victim, item[i].found)
    <2>1. /\ item[i].at = "queued" /\ Zip!Turn(i) /\ item' = [item EXCEPT ![i] = next]
          /\ UNCHANGED <<live, unresolved, phase>>
      <3>1. [item[i] EXCEPT !.at = to] = next
        BY <1>0, ItemChanged
      <3>2. item' = [item EXCEPT ![i].at = to]
        BY <1>1 DEF Zip!Begin, Zip!To
      <3> HIDE DEF to, next
      <3>3. item' = [item EXCEPT ![i] = next]
        BY <3>1, <3>2 DEF ZipInv, ZipTypeOK
      <3> QED
        BY <1>1, <3>3 DEF Zip!Begin
    <2>2. to \in {"failed", "delete", "insert"} /\ (to # "failed" => Archive[i].path \in Zip!Path)
      BY DEF Zip!Path
    <2> HIDE DEF to
    <2>3. ItemOK(next) /\ next.at = to
      BY ItemFields
    <2> HIDE DEF next
    <2> QED
      BY <2>1, <2>2, <2>3, EntryMoves
  <1>2. CASE Zip!LockOld(i)
    <2> DEFINE r == Zip!LiveRow(Archive[i].path)
               next == Item("deleting", r, item[i].found)
    <2>1. /\ item[i].at = "delete" /\ item' = [item EXCEPT ![i] = next]
          /\ UNCHANGED <<live, unresolved, phase>>
      <3>1. [item[i] EXCEPT !.at = "deleting", !.victim = r] = next
        BY <1>0, ItemChanged
      <3>2. item' = [item EXCEPT ![i].at = "deleting", ![i].victim = r]
        BY <1>2 DEF Zip!LockOld
      <3> HIDE DEF r, next
      <3>3. item' = [item EXCEPT ![i] = next]
        BY <3>1, <3>2 DEF ZipInv, ZipTypeOK
      <3> QED
        BY <1>2, <3>3 DEF Zip!LockOld
    <2>2. r.path = Archive[i].path
      BY DEF Zip!LiveRow, Zip!Row
    <2> HIDE DEF r
    <2>3. ItemOK(next) /\ next.at = "deleting" /\ next.victim = r
      BY ItemFields
    <2> HIDE DEF next
    <2>4. Zip!Turn(i) /\ Archive[i].path \in Zip!Path
      BY <2>1, UnderWay
    <2> QED
      BY <2>1, <2>2, <2>3, <2>4, EntryMoves
  <1>3. CASE Zip!LookUp(i)
    <2> DEFINE hits == IF ~Archive[i].md THEN {}
                       ELSE {[to |-> p, row |-> IF live[p] = Zip!NoRow THEN None ELSE Zip!LiveRow(p)] :
                               p \in Refers[Archive[i].path]}
               next == Item("found", item[i].victim, hits)
    <2>1. /\ item[i].at = "insert" /\ item' = [item EXCEPT ![i] = next]
          /\ UNCHANGED <<live, unresolved, phase>>
      <3>1. \A v : [item[i] EXCEPT !.at = "found", !.found = v] = Item("found", item[i].victim, v)
        BY <1>0, ItemFound
      <3>2. item' = [item EXCEPT ![i].at = "found", ![i].found = hits]
        BY <1>3 DEF Zip!LookUp
      <3> HIDE DEF hits
      <3>3. item' = [item EXCEPT ![i] = next]
        BY <3>1, <3>2 DEF ZipInv, ZipTypeOK
      <3> QED
        BY <1>3, <3>3 DEF Zip!LookUp
    <2>2. hits # {} => Archive[i].md
      OBVIOUS
    <2>3. ASSUME NEW t \in hits, NEW j \in Zip!Entry, Arrived(j), t.to = Archive[j].path
          PROVE  t.row = Zip!LiveRow(t.to)
      <3>1. PICK p : t = [to |-> p, row |-> IF live[p] = Zip!NoRow THEN None ELSE Zip!LiveRow(p)]
        OBVIOUS
      <3>2. t.to = p /\ (live[p] # Zip!NoRow => t.row = Zip!LiveRow(p))
        BY <3>1
      <3>3. live[p] = j
        BY <2>3, <3>2 DEF ZipInv, EntryRight
      <3>4. j \in Nat
        BY KnowledgeBaseAssumption DEF Zip!Entry
      <3> QED
        BY <3>2, <3>3, <3>4 DEF Zip!NoRow
    <2> HIDE DEF hits
    <2>4. ItemOK(next) /\ next.at = "found" /\ next.found = hits
      BY ItemFields
    <2> HIDE DEF next
    <2>5. Zip!Turn(i) /\ Archive[i].path \in Zip!Path
      BY <2>1, UnderWay
    <2> QED
      BY <2>1, <2>2, <2>3, <2>4, <2>5, EntryMoves
  <1> QED
    BY <1>1, <1>2, <1>3

\* An assertion of a reference, and what the steps of an import make of it.
Link(source2, to, open2, bound) == [source |-> source2, to |-> to, open |-> open2, bound |-> bound]

LEMMA LinkFields ==
    ASSUME NEW s, NEW t, NEW o \in BOOLEAN, NEW r
    PROVE  /\ LinkOK(Link(s, t, o, r)) /\ Link(s, t, o, r).source = s /\ Link(s, t, o, r).to = t
           /\ Link(s, t, o, r).open = o /\ Link(s, t, o, r).bound = r
  BY DEF Link, LinkOK

\* One whose transaction has committed.
Closed(source2, to, bound) == [source |-> source2, to |-> to, open |-> FALSE, bound |-> bound]

LEMMA LinkClosed ==
    ASSUME NEW s, NEW t, NEW r
    PROVE  /\ LinkOK(Closed(s, t, r)) /\ Closed(s, t, r).source = s /\ Closed(s, t, r).to = t
           /\ ~Closed(s, t, r).open /\ Closed(s, t, r).bound = r
  BY DEF Closed, LinkOK

LEMMA LinkChanged ==
    ASSUME NEW a, LinkOK(a), NEW r
    PROVE  /\ [a EXCEPT !.bound = r] = Link(a.source, a.to, a.open, r)
           /\ [a EXCEPT !.open = FALSE] = Closed(a.source, a.to, a.bound)
  <1>1. PICK s, t, o, q : a = [source |-> s, to |-> t, open |-> o, bound |-> q]
    BY DEF LinkOK
  <1>2. a.source = s /\ a.to = t /\ a.open = o /\ a.bound = q
    BY <1>1
  <1>3. [a EXCEPT !.bound = r] = [source |-> s, to |-> t, open |-> o, bound |-> r]
    BY <1>1
  <1>4. [a EXCEPT !.open = FALSE] = [source |-> s, to |-> t, open |-> FALSE, bound |-> q]
    <2>1. ASSUME NEW v
          PROVE  [a EXCEPT !.open = v] = [source |-> s, to |-> t, open |-> v, bound |-> q]
      BY <1>1
    <2> QED
      BY <2>1
  <1> QED
    BY <1>2, <1>3, <1>4 DEF Link, Closed

\* One entry is at another place.
LEMMA ItemAt ==
    ASSUME ZipInv, NEW i \in Zip!Entry, NEW at, Zip!To(i, at)
    PROVE  /\ item'[i] = Item(at, item[i].victim, item[i].found)
           /\ item'[i].at = at
           /\ item' = [j \in Zip!Entry |-> item'[j]]
           /\ \A j \in Zip!Entry \ {i} : item'[j] = item[j]
           /\ \A j \in Zip!Entry : ItemOK(item'[j])
  <1>1. ItemOK(item[i]) /\ item = [j \in Zip!Entry |-> item[j]]
    BY DEF ZipInv, ZipTypeOK
  <1>2. [item[i] EXCEPT !.at = at] = Item(at, item[i].victim, item[i].found)
    BY <1>1, ItemChanged, Zenon
  <1>3. item' = [item EXCEPT ![i].at = at]
    BY DEF Zip!To
  <1>4. item'[i] = [item[i] EXCEPT !.at = at] /\ \A j \in Zip!Entry \ {i} : item'[j] = item[j]
    BY <1>1, <1>3
  <1>5. item' = [j \in Zip!Entry |-> item'[j]]
    BY <1>1, <1>3
  <1>6. \A j \in Zip!Entry : ItemOK(item[j])
    BY DEF ZipInv, ZipTypeOK
  <1> QED
    BY <1>2, <1>4, <1>5, <1>6, ItemFields

\* The deletion of the old file takes no reference from a file that was imported.
LEMMA DeleteOldStep ==
    ASSUME ZipInv, NEW i \in Zip!Entry, Zip!DeleteOld(i)
    PROVE  ZipInv'
  <1> DEFINE p == Archive[i].path
             victim == item[i].victim
             other(a) == IF ~a.open /\ a.bound = victim THEN [a EXCEPT !.bound = None] ELSE a
  <1>1. /\ item[i].at = "deleting" /\ unresolved' = {other(a) : a \in unresolved}
        /\ live' = [live EXCEPT ![p] = Zip!NoRow] /\ Zip!To(i, "insert") /\ phase' = phase
    BY DEF Zip!DeleteOld
  <1>2. /\ Zip!Turn(i) /\ p \in Zip!Path
        /\ \A j \in Zip!Entry : Arrived(j) => j # i /\ Archive[j].path # p
    BY <1>1, UnderWay
  <1>3. /\ item'[i].at = "insert" /\ item' = [j \in Zip!Entry |-> item'[j]]
        /\ \A j \in Zip!Entry \ {i} : item'[j] = item[j]
        /\ \A j \in Zip!Entry : ItemOK(item'[j])
    BY <1>1, ItemAt
  <1>4. /\ \A j \in Zip!Entry : Arrived(j)' = Arrived(j)
        /\ \A j \in Zip!Entry \ {i} : Over(j)' = Over(j)
    BY <1>1, <1>3 DEF Arrived, Over
  <1>5. /\ live' = [q \in Zip!Path |-> live'[q]]
        /\ \A q \in Zip!Path \ {p} : live'[q] = live[q]
    BY <1>1 DEF ZipInv, ZipTypeOK
  <1>6. \A j \in Zip!Entry : Arrived(j) =>
          /\ Archive[j].path \in Zip!Path \ {p}
          /\ Zip!LiveRow(Archive[j].path)' = Zip!LiveRow(Archive[j].path)
          /\ live'[Archive[j].path] = live[Archive[j].path]
    BY <1>2, <1>5 DEF ZipInv, EntryRight, Arrived, Zip!LiveRow, Zip!Row
  <1>7. victim.path = p
    BY <1>1 DEF ZipInv, EntryRight
  <1>8. ASSUME NEW b \in unresolved'
        PROVE  \E a \in unresolved :
                  /\ LinkOK(b) /\ b.source = a.source /\ b.to = a.to /\ b.open = a.open
                  /\ b.bound = a.bound \/ (~a.open /\ a.bound = victim)
    <2>1. PICK a \in unresolved : b = other(a)
      BY <1>1
    <2>2. LinkOK(a) /\ a.open \in BOOLEAN
      BY DEF ZipInv, ZipTypeOK, LinkOK
    <2>3. [a EXCEPT !.bound = None] = Link(a.source, a.to, a.open, None)
      BY <2>2, LinkChanged
    <2> QED
      BY <2>1, <2>2, <2>3, LinkFields
  <1> HIDE DEF other, victim
  <1>9. ASSUME NEW b \in unresolved'
        PROVE  LinkRight(b)'
    <2>1. PICK a \in unresolved :
             /\ LinkOK(b) /\ b.source = a.source /\ b.to = a.to /\ b.open = a.open
             /\ b.bound = a.bound \/ (~a.open /\ a.bound = victim)
      BY <1>8
    <2>2. LinkRight(a)
      BY DEF ZipInv
    <2>3. b.open => \E j \in Zip!Entry : item'[j].at = "asserted" /\ b.source = Archive[j].path
      BY <1>1, <1>3, <2>1, <2>2 DEF LinkRight
    <2>4. ASSUME NEW j \in Zip!Entry, Arrived(j)', b.source # Outside, b.to = Archive[j].path
          PROVE  b.bound = Zip!LiveRow(b.to)'
      <3>1. a.bound = Zip!LiveRow(Archive[j].path) /\ Arrived(j)
        BY <1>4, <2>1, <2>2, <2>4 DEF LinkRight
      <3>2. Zip!LiveRow(Archive[j].path).path = Archive[j].path /\ Archive[j].path # p
        BY <1>6, <3>1 DEF Zip!LiveRow, Zip!Row
      <3>3. a.bound # victim
        BY <1>7, <3>1, <3>2
      <3> QED
        BY <1>6, <2>1, <2>4, <3>1, <3>3
    <2> QED
      BY <1>1, <2>1, <2>2, <2>3, <2>4 DEF LinkRight
  <1>10. EntryRight(i)'
    <2>1. ~Zip!Duplicate(i) /\ phase = (IF Archive[i].md THEN "markdown" ELSE "others")
      BY <1>2 DEF Zip!Turn
    <2> QED
      BY <1>1, <1>2, <1>3, <2>1 DEF EntryRight, Arrived
  <1>11. \A j \in Zip!Entry \ {i} : EntryRight(j)'
    BY <1>1, <1>3, <1>4, <1>6 DEF ZipInv, EntryRight
  <1>12. \A j \in Zip!Entry : LooksRight(j)'
    BY <1>3, <1>4, <1>6 DEF ZipInv, LooksRight
  <1>13. ZipTypeOK'
    BY <1>1, <1>3, <1>5, <1>8 DEF ZipInv, ZipTypeOK
  <1>14. Zip!Linked'
    BY <1>1, <1>2 DEF Zip!Turn, Zip!Linked
  <1> QED
    BY <1>9, <1>10, <1>11, <1>12, <1>13, <1>14 DEF ZipInv

\* A step of one entry that leaves the files where they are.
LEMMA FilesStay ==
    ASSUME ZipInv, NEW i \in Zip!Entry, UNCHANGED live, ~Arrived(i), ~Arrived(i)',
           \A j \in Zip!Entry \ {i} : item'[j] = item[j]
    PROVE  /\ \A j \in Zip!Entry : Arrived(j)' = Arrived(j)
           /\ \A j \in Zip!Entry \ {i} : Over(j)' = Over(j)
           /\ \A p : Zip!LiveRow(p)' = Zip!LiveRow(p)
  BY DEF Arrived, Over, Zip!LiveRow, Zip!Row

LEMMA InsertStep ==
    ASSUME ZipInv, NEW i \in Zip!Entry, Zip!Insert(i)
    PROVE  ZipInv'
  <1> DEFINE p == Archive[i].path
             new == {[source |-> p, to |-> t.to, open |-> TRUE, bound |-> t.row] :
                       t \in item[i].found}
  <1>1. /\ item[i].at = "found" /\ unresolved' = unresolved \cup new /\ Zip!To(i, "asserted")
        /\ live' = live /\ phase' = phase
    BY DEF Zip!Insert
  <1>2. Zip!Turn(i) /\ p \in Zip!Path
    BY <1>1, UnderWay
  <1>3. /\ item'[i].at = "asserted" /\ item' = [j \in Zip!Entry |-> item'[j]]
        /\ \A j \in Zip!Entry \ {i} : item'[j] = item[j]
        /\ \A j \in Zip!Entry : ItemOK(item'[j])
    BY <1>1, ItemAt
  <1>4. ~Arrived(i) /\ ~Arrived(i)'
    BY <1>1, <1>3 DEF Arrived
  <1>5. /\ \A j \in Zip!Entry : Arrived(j)' = Arrived(j)
        /\ \A j \in Zip!Entry \ {i} : Over(j)' = Over(j)
        /\ \A q : Zip!LiveRow(q)' = Zip!LiveRow(q)
    BY <1>1, <1>3, <1>4, FilesStay
  <1>6. ~Zip!Duplicate(i) /\ phase = (IF Archive[i].md THEN "markdown" ELSE "others")
    BY <1>2 DEF Zip!Turn
  <1>7. item[i].found # {} => phase # "others"
    BY <1>1, <1>6 DEF ZipInv, EntryRight
  <1>8. ASSUME NEW b \in new
        PROVE  LinkOK(b) /\ LinkRight(b)'
    <2>1. PICK t \in item[i].found :
             b = [source |-> p, to |-> t.to, open |-> TRUE, bound |-> t.row]
      OBVIOUS
    <2>2. LinkOK(b) /\ b.source = p /\ b.to = t.to /\ b.open = TRUE /\ b.bound = t.row
      BY <2>1 DEF LinkOK
    <2>3. \A j \in Zip!Entry : Arrived(j) /\ t.to = Archive[j].path => t.row = Zip!LiveRow(t.to)
      BY <1>1 DEF ZipInv, LooksRight
    <2>4. phase' # "others"
      BY <1>1, <1>7
    <2> QED
      BY <1>3, <1>5, <2>2, <2>3, <2>4 DEF LinkRight
  <1>9. ASSUME NEW b \in unresolved
        PROVE  LinkRight(b)'
    <2>1. LinkRight(b)
      BY DEF ZipInv
    <2> QED
      BY <1>1, <1>3, <1>5, <2>1 DEF LinkRight
  <1>10. EntryRight(i)'
    BY <1>1, <1>2, <1>3, <1>6 DEF EntryRight, Arrived
  <1>11. \A j \in Zip!Entry \ {i} : EntryRight(j)'
    BY <1>1, <1>3, <1>5 DEF ZipInv, EntryRight
  <1>12. \A j \in Zip!Entry : LooksRight(j)'
    BY <1>3, <1>5 DEF ZipInv, LooksRight
  <1>13. ZipTypeOK'
    BY <1>1, <1>3, <1>8 DEF ZipInv, ZipTypeOK
  <1>14. Zip!Linked'
    BY <1>1, <1>6 DEF Zip!Linked
  <1> HIDE DEF new
  <1>15. \A b \in unresolved' : LinkRight(b)'
    BY <1>1, <1>8, <1>9
  <1> QED
    BY <1>10, <1>11, <1>12, <1>13, <1>14, <1>15 DEF ZipInv

LEMMA UploadFailsStep ==
    ASSUME ZipInv, NEW i \in Zip!Entry, Zip!UploadFails(i)
    PROVE  ZipInv'
  <1>1. /\ item[i].at \in {"insert", "found", "asserted"} /\ Zip!To(i, "failed")
        /\ unresolved' = {a \in unresolved : ~(a.open /\ a.source = Archive[i].path)}
        /\ live' = live /\ phase' = phase
    BY DEF Zip!UploadFails
  <1>2. Zip!Turn(i)
    BY <1>1, UnderWay
  <1>3. /\ item'[i].at = "failed" /\ item' = [j \in Zip!Entry |-> item'[j]]
        /\ \A j \in Zip!Entry \ {i} : item'[j] = item[j]
        /\ \A j \in Zip!Entry : ItemOK(item'[j])
    BY <1>1, ItemAt
  <1>4. ~Arrived(i) /\ ~Arrived(i)'
    BY <1>1, <1>3 DEF Arrived
  <1>5. /\ \A j \in Zip!Entry : Arrived(j)' = Arrived(j)
        /\ \A j \in Zip!Entry \ {i} : Over(j)' = Over(j)
        /\ \A q : Zip!LiveRow(q)' = Zip!LiveRow(q)
    BY <1>1, <1>3, <1>4, FilesStay
  <1>6. ~Zip!Duplicate(i) /\ phase = (IF Archive[i].md THEN "markdown" ELSE "others")
    BY <1>2 DEF Zip!Turn
  <1>7. ASSUME NEW b \in unresolved'
        PROVE  LinkRight(b)'
    <2>1. b \in unresolved /\ ~(b.open /\ b.source = Archive[i].path) /\ LinkRight(b)
      BY <1>1 DEF ZipInv
    <2> QED
      BY <1>1, <1>3, <1>5, <2>1 DEF LinkRight
  <1>8. EntryRight(i)'
    BY <1>1, <1>3, <1>6 DEF EntryRight, Arrived
  <1>9. \A j \in Zip!Entry \ {i} : EntryRight(j)'
    BY <1>1, <1>3, <1>5 DEF ZipInv, EntryRight
  <1>10. \A j \in Zip!Entry : LooksRight(j)'
    BY <1>3, <1>5 DEF ZipInv, LooksRight
  <1>11. ZipTypeOK'
    BY <1>1, <1>3 DEF ZipInv, ZipTypeOK
  <1>12. Zip!Linked'
    BY <1>1, <1>6 DEF Zip!Linked
  <1> QED
    BY <1>7, <1>8, <1>9, <1>10, <1>11, <1>12 DEF ZipInv

\* An upload that commits: its file is at its path from now on.
LEMMA ArrivalStep ==
    ASSUME ZipInv, NEW i \in Zip!Entry, Zip!Upload(i)
    PROVE  ZipInv'
  <1> DEFINE p == Archive[i].path
             mine == {a \in unresolved : a.open /\ a.source = p}
  <1>1. /\ item[i].at = "asserted" /\ live' = [live EXCEPT ![p] = i] /\ Zip!To(i, "done")
        /\ unresolved' = (unresolved \ (Zip!Waiting(p) \cup mine))
                            \cup {[a EXCEPT !.open = FALSE] : a \in mine}
                            \cup {[a EXCEPT !.bound = Zip!Row(p, i)] : a \in Zip!Waiting(p)}
        /\ phase' = phase
    BY DEF Zip!Upload, Zip!BoundTo
  <1>2. /\ Zip!Turn(i) /\ p \in Zip!Path
        /\ \A j \in Zip!Entry : Arrived(j) => j # i /\ Archive[j].path # p
    BY <1>1, UnderWay
  <1>3. /\ item'[i].at = "done" /\ item' = [j \in Zip!Entry |-> item'[j]]
        /\ \A j \in Zip!Entry \ {i} : item'[j] = item[j]
        /\ \A j \in Zip!Entry : ItemOK(item'[j])
    BY <1>1, ItemAt
  <1>4. /\ \A j \in Zip!Entry \ {i} : Arrived(j)' = Arrived(j) /\ Over(j)' = Over(j)
        /\ Over(i)' /\ (Arrived(i)' => ~Archive[i].md)
    BY <1>1, <1>3 DEF Arrived, Over
  <1>5. /\ live' = [q \in Zip!Path |-> live'[q]] /\ live'[p] = i
        /\ \A q \in Zip!Path \ {p} : live'[q] = live[q]
    BY <1>1, <1>2 DEF ZipInv, ZipTypeOK
  <1>6. \A j \in Zip!Entry : Arrived(j) =>
          /\ Archive[j].path \in Zip!Path \ {p}
          /\ Zip!LiveRow(Archive[j].path)' = Zip!LiveRow(Archive[j].path)
          /\ live'[Archive[j].path] = live[Archive[j].path]
    BY <1>2, <1>5 DEF ZipInv, EntryRight, Arrived, Zip!LiveRow, Zip!Row
  <1>7. ~Zip!Duplicate(i) /\ phase = (IF Archive[i].md THEN "markdown" ELSE "others")
    BY <1>2 DEF Zip!Turn
  <1>8. ASSUME NEW b \in unresolved'
        PROVE  \E a \in unresolved :
                  /\ LinkOK(b) /\ b.source = a.source /\ b.to = a.to
                  /\ b.open => a.open /\ a.source # p
                  /\ b.bound = a.bound \/ a.to = p
    <2>1. ASSUME NEW a \in unresolved
          PROVE  LinkOK(a) /\ a.open \in BOOLEAN
      BY DEF ZipInv, ZipTypeOK, LinkOK
    <2>2. CASE b \in unresolved \ (Zip!Waiting(p) \cup mine)
      BY <2>1, <2>2
    <2>3. CASE b \in {[a EXCEPT !.open = FALSE] : a \in mine}
      <3>1. PICK a \in mine : b = [a EXCEPT !.open = FALSE]
        BY <2>3
      <3>2. b = Closed(a.source, a.to, a.bound)
        BY <2>1, <3>1, LinkChanged
      <3>3. ~b.open /\ LinkOK(b) /\ b.source = a.source /\ b.to = a.to
            /\ b.bound = a.bound
        BY <3>2, LinkClosed
      <3>4. a \in unresolved
        BY <3>1
      <3> QED
        BY <3>3, <3>4
    <2>4. CASE b \in {[a EXCEPT !.bound = Zip!Row(p, i)] : a \in Zip!Waiting(p)}
      <3>1. PICK a \in Zip!Waiting(p) : b = [a EXCEPT !.bound = Zip!Row(p, i)]
        BY <2>4
      <3>2. a \in unresolved /\ ~a.open /\ a.to = p
        BY <3>1 DEF Zip!Waiting
      <3>3. b = Link(a.source, a.to, a.open, Zip!Row(p, i))
        BY <2>1, <3>1, <3>2, LinkChanged
      <3> QED
        BY <2>1, <3>2, <3>3, LinkFields
    <2> QED
      BY <1>1, <2>2, <2>3, <2>4
  <1>9. ASSUME NEW b \in unresolved'
        PROVE  LinkRight(b)'
    <2>1. PICK a \in unresolved :
             /\ LinkOK(b) /\ b.source = a.source /\ b.to = a.to
             /\ b.open => a.open /\ a.source # p
             /\ b.bound = a.bound \/ a.to = p
      BY <1>8
    <2>2. LinkRight(a)
      BY DEF ZipInv
    <2>3. b.open => \E j \in Zip!Entry : item'[j].at = "asserted" /\ b.source = Archive[j].path
      BY <1>3, <2>1, <2>2 DEF LinkRight
    <2>4. ASSUME NEW j \in Zip!Entry, Arrived(j)', b.source # Outside, b.to = Archive[j].path
          PROVE  b.bound = Zip!LiveRow(b.to)'
      <3>1. phase # "others"
        BY <2>1, <2>2, <2>4 DEF LinkRight
      <3>2. j # i
        BY <1>4, <1>7, <2>4, <3>1
      <3>3. Arrived(j)
        BY <1>4, <2>4, <3>2
      <3>4. a.to # p
        BY <1>2, <2>1, <2>4, <3>3
      <3>5. a.bound = Zip!LiveRow(Archive[j].path)
        BY <2>1, <2>2, <2>4, <3>3 DEF LinkRight
      <3> QED
        BY <1>6, <2>1, <2>4, <3>3, <3>4, <3>5
    <2> QED
      BY <1>1, <2>1, <2>2, <2>3, <2>4 DEF LinkRight
  <1>10. EntryRight(i)'
    BY <1>1, <1>2, <1>3, <1>4, <1>5, <1>7 DEF EntryRight
  <1>11. \A j \in Zip!Entry \ {i} : EntryRight(j)'
    BY <1>1, <1>3, <1>4, <1>6 DEF ZipInv, EntryRight
  <1>12. ASSUME NEW j \in Zip!Entry
         PROVE  LooksRight(j)'
    <2> SUFFICES ASSUME item'[j].at = "found", NEW t \in item'[j].found, NEW k \in Zip!Entry,
                        Arrived(k)', t.to = Archive[k].path
                 PROVE  t.row = Zip!LiveRow(t.to)'
      BY DEF LooksRight
    <2>1. j # i /\ item'[j] = item[j]
      BY <1>3
    <2>2. Archive[j].md /\ phase # "others"
      BY <2>1 DEF ZipInv, EntryRight
    <2>3. k # i
      BY <1>4, <1>7, <2>2
    <2>4. Arrived(k)
      BY <1>4, <2>3
    <2> QED
      BY <1>6, <2>1, <2>4 DEF ZipInv, LooksRight
  <1>13. ZipTypeOK'
    BY <1>1, <1>3, <1>5, <1>8 DEF ZipInv, ZipTypeOK
  <1>14. Zip!Linked'
    BY <1>1, <1>7 DEF Zip!Linked
  <1> QED
    BY <1>9, <1>10, <1>11, <1>12, <1>13, <1>14 DEF ZipInv

\* The barrier between the phases: the entries of the phase are over, and nothing else changes.
LEMMA BarrierStep ==
    ASSUME ZipInv, Zip!Barrier
    PROVE  ZipInv'
  <1>1. /\ UNCHANGED <<live, unresolved, item>>
        /\ \/ phase = "others" /\ Zip!Finished(Zip!Group(FALSE)) /\ phase' = "markdown"
           \/ phase = "markdown" /\ Zip!Finished(Zip!Group(TRUE)) /\ phase' = "resolve"
    BY Zenon DEF Zip!Barrier
  <1>2. /\ \A j \in Zip!Entry : Arrived(j)' = Arrived(j) /\ Over(j)' = Over(j)
        /\ \A q : Zip!LiveRow(q)' = Zip!LiveRow(q)
    BY <1>1 DEF Arrived, Over, Zip!LiveRow, Zip!Row
  <1>3. ASSUME NEW j \in Zip!Entry
        PROVE  EntryRight(j)'
    <2>1. Archive[j].md \in BOOLEAN
      BY KnowledgeBaseAssumption DEF Zip!Entry
    <2>2. EntryRight(j)
      BY DEF ZipInv
    <2>3. phase = "others" => Archive[j].md \/ Zip!Duplicate(j) \/ Over(j)
      BY <1>1, <2>1 DEF Zip!Finished, Zip!Group, Over
    <2>4. phase = "markdown" => ~Archive[j].md \/ Zip!Duplicate(j) \/ Over(j)
      BY <1>1, <2>1 DEF Zip!Finished, Zip!Group, Over
    <2>5. phase' # "others" /\ ~Archive[j].md => Zip!Duplicate(j) \/ Over(j)'
      BY <1>1, <1>2, <2>2, <2>3 DEF EntryRight
    <2>6. phase' \notin {"others", "markdown"} => Zip!Duplicate(j) \/ Over(j)'
      BY <1>1, <1>2, <2>2, <2>4 DEF EntryRight
    <2>7. phase' # "others"
      BY <1>1
    <2> QED
      BY <1>1, <1>2, <2>2, <2>5, <2>6, <2>7 DEF EntryRight
  <1>4. \A j \in Zip!Entry : LooksRight(j)'
    BY <1>1, <1>2 DEF ZipInv, LooksRight
  <1>5. \A b \in unresolved' : LinkRight(b)'
    BY <1>1, <1>2 DEF ZipInv, LinkRight
  <1>6. ZipTypeOK'
    BY <1>1 DEF ZipInv, ZipTypeOK
  <1>7. Zip!Linked'
    BY <1>1 DEF Zip!Linked
  <1> QED
    BY <1>3, <1>4, <1>5, <1>6, <1>7 DEF ZipInv

\* At the end no assertion is open, and all those to an imported path are bound again.
LEMMA ResolveStep ==
    ASSUME ZipInv, Zip!Resolve
    PROVE  ZipInv'
  <1> DEFINE again == {a \in unresolved : \E p \in Zip!Imported : a \in Zip!Again(p)}
             new   == {IF \E p \in Zip!Imported : a \in Zip!Again(p)
                       THEN [a EXCEPT !.bound = Zip!LiveRow(a.to)] ELSE a : a \in unresolved}
  <1>1. /\ phase = "resolve" /\ UNCHANGED <<live, item>>
        /\ \/ phase' = "done" /\ unresolved' = new
           \/ phase' = "reported" /\ unresolved' = unresolved
    BY DEF Zip!Resolve
  <1>2. /\ \A j \in Zip!Entry : Arrived(j)' = Arrived(j) /\ Over(j)' = Over(j)
        /\ \A q : Zip!LiveRow(q)' = Zip!LiveRow(q)
        /\ Zip!Imported' = Zip!Imported
    BY <1>1 DEF Arrived, Over, Zip!LiveRow, Zip!Row, Zip!Imported
  <1>3. ASSUME NEW a \in unresolved
        PROVE  ~a.open
    <2> SUFFICES ASSUME a.open
                 PROVE  FALSE
      OBVIOUS
    <2>1. PICK i \in Zip!Entry : item[i].at = "asserted"
      BY DEF ZipInv, LinkRight
    <2>2. EntryRight(i) /\ ~Over(i) /\ ~Zip!Duplicate(i)
      BY <2>1 DEF ZipInv, EntryRight, Over
    <2> QED
      BY <1>1, <2>2 DEF EntryRight
  <1>4. \A i \in Zip!Entry : EntryRight(i)'
    BY <1>1, <1>2 DEF ZipInv, EntryRight
  <1>5. \A i \in Zip!Entry : LooksRight(i)'
    BY <1>1, <1>2 DEF ZipInv, LooksRight
  <1>6. CASE phase' = "reported"
    <2>1. \A b \in unresolved' : LinkRight(b)'
      BY <1>1, <1>2, <1>6 DEF ZipInv, LinkRight
    <2>2. ZipTypeOK' /\ Zip!Linked'
      BY <1>1, <1>6 DEF ZipInv, ZipTypeOK, Zip!Linked
    <2> QED
      BY <1>4, <1>5, <2>1, <2>2 DEF ZipInv
  <1>7. CASE phase' = "done"
    <2>1. ASSUME NEW b \in unresolved'
          PROVE  \E a \in unresolved :
                    /\ LinkOK(b) /\ b.source = a.source /\ b.to = a.to /\ b.open = a.open
                    /\ IF \E p \in Zip!Imported : a \in Zip!Again(p)
                       THEN b.bound = Zip!LiveRow(a.to) ELSE b.bound = a.bound
      <3>1. PICK a \in unresolved : b = IF \E p \in Zip!Imported : a \in Zip!Again(p)
                                        THEN [a EXCEPT !.bound = Zip!LiveRow(a.to)] ELSE a
        BY <1>1, <1>7
      <3>2. LinkOK(a) /\ a.open \in BOOLEAN
        BY DEF ZipInv, ZipTypeOK, LinkOK
      <3>3. CASE \E p \in Zip!Imported : a \in Zip!Again(p)
        <4>1. b = Link(a.source, a.to, a.open, Zip!LiveRow(a.to))
          BY <3>1, <3>2, <3>3, LinkChanged
        <4>2. LinkOK(b) /\ b.source = a.source /\ b.to = a.to /\ b.open = a.open
              /\ b.bound = Zip!LiveRow(a.to)
          BY <3>2, <4>1, LinkFields
        <4> QED
          BY <3>3, <4>2
      <3>4. CASE ~\E p \in Zip!Imported : a \in Zip!Again(p)
        BY <3>1, <3>2, <3>4
      <3> QED
        BY <3>3, <3>4
    <2>2. ASSUME NEW a \in unresolved, a.to \in Zip!Imported
          PROVE  (\E p \in Zip!Imported : a \in Zip!Again(p)) \/ a.bound = Zip!LiveRow(a.to)
      BY <1>3, <2>2 DEF Zip!Again, Zip!Waiting, Zip!Stale
    <2>3. ASSUME NEW b \in unresolved', b.to \in Zip!Imported
          PROVE  b.bound = Zip!LiveRow(b.to)
      BY <2>1, <2>2, <2>3
    <2>4. Zip!Linked'
      BY <1>2, <2>3 DEF Zip!Linked
    <2>5. ASSUME NEW b \in unresolved'
          PROVE  LinkRight(b)'
      <3>1. PICK a \in unresolved : LinkOK(b) /\ b.open = a.open
        BY <2>1
      <3>2. ~b.open
        BY <1>3, <3>1
      <3>3. ASSUME NEW j \in Zip!Entry, Arrived(j)', b.to = Archive[j].path
            PROVE  b.bound = Zip!LiveRow(b.to)'
        <4>1. item[j].at = "done" /\ Archive[j].path \in Zip!Path
          BY <1>2, <3>3 DEF Arrived, ZipInv, EntryRight
        <4>2. b.to \in Zip!Imported
          BY <3>3, <4>1 DEF Zip!Imported
        <4> QED
          BY <1>2, <2>3, <4>2
      <3> QED
        BY <1>7, <3>2, <3>3 DEF LinkRight
    <2>6. ZipTypeOK'
      BY <1>1, <1>7, <2>1 DEF ZipInv, ZipTypeOK
    <2> QED
      BY <1>4, <1>5, <2>4, <2>5, <2>6 DEF ZipInv
  <1> QED
    BY <1>1, <1>6, <1>7

LEMMA ZipStart ==
    ASSUME Zip!Init
    PROVE  ZipInv
  <1>1. /\ item = [i \in Zip!Entry |-> Item("queued", None, {})]
        /\ live = [p \in Zip!Path |-> IF p \in Old THEN 0 ELSE Zip!NoRow]
        /\ phase = "others"
    BY DEF Zip!Init, Item
  <1>2. \A i \in Zip!Entry : item[i].at = "queued" /\ ItemOK(item[i])
    BY <1>1, ItemFields
  <1>3. ASSUME NEW a \in unresolved
        PROVE  LinkOK(a) /\ ~a.open /\ a.source = Outside
    <2>1. PICK p \in Refers[Outside] :
             a = Closed(Outside, p, IF p \in Old THEN Zip!Row(p, 0) ELSE None)
      BY DEF Zip!Init, Closed
    <2> QED
      BY <2>1, LinkClosed
  <1>4. ZipTypeOK
    BY <1>1, <1>2, <1>3 DEF ZipTypeOK
  <1>5. \A i \in Zip!Entry : EntryRight(i) /\ LooksRight(i)
    BY <1>1, <1>2 DEF EntryRight, LooksRight, Arrived
  <1>6. \A a \in unresolved : LinkRight(a)
    BY <1>2, <1>3 DEF LinkRight, Arrived
  <1>7. Zip!Linked
    BY <1>1 DEF Zip!Linked
  <1> QED
    BY <1>4, <1>5, <1>6, <1>7 DEF ZipInv

\* When an import has ended without an error, every reference to an imported path is bound to
\* the file that is there now; and the reference of a Markdown file to another file of the
\* archive is so bound from its own commit on (the phases and the last pass of
\* ZipBatchImportService, resolve_pending_for_path and rebind_deleted_target_for_path).
THEOREM ImportsAreLinked == Spec => []ImportLinked
  <1>1. Init => (part = "zip" => ZipInv)
    BY ZipStart DEF Init
  <1>2. (part = "zip" => ZipInv) /\ [Next]_vars => (part = "zip" => ZipInv)'
    <2> SUFFICES ASSUME [Next]_vars, part = "zip", ZipInv
                 PROVE  ZipInv'
      BY WritingParts
    <2>1. CASE Zip!Next
      BY <2>1, BarrierStep, ResolveStep, EntrySteps, DeleteOldStep, InsertStep, ArrivalStep,
         UploadFailsStep DEF Zip!Next
    <2>2. CASE UNCHANGED Zip!vars
      <3>1. UNCHANGED <<live, unresolved, item, phase>>
        BY <2>2 DEF Zip!vars
      <3>2. \A q : Zip!LiveRow(q)' = Zip!LiveRow(q)
        BY <3>1 DEF Zip!LiveRow, Zip!Row
      <3>3. \A j \in Zip!Entry : Arrived(j)' = Arrived(j) /\ Over(j)' = Over(j)
        BY <3>1 DEF Arrived, Over
      <3>4. Zip!Imported' = Zip!Imported
        BY <3>1 DEF Zip!Imported
      <3>5. \A i \in Zip!Entry : EntryRight(i)' /\ LooksRight(i)'
        BY <3>1, <3>2, <3>3 DEF ZipInv, EntryRight, LooksRight
      <3>6. \A a \in unresolved' : LinkRight(a)'
        BY <3>1, <3>2, <3>3 DEF ZipInv, LinkRight
      <3>7. ZipTypeOK' /\ Zip!Linked'
        BY <3>1, <3>2, <3>4 DEF ZipInv, ZipTypeOK, Zip!Linked
      <3> QED
        BY <3>5, <3>6, <3>7 DEF ZipInv
    <2> QED
      BY <2>1, <2>2, WritingParts
  <1>3. (part = "zip" => ZipInv) => ImportLinked
    <2> SUFFICES ASSUME ZipInv
                 PROVE  Zip!Linked /\ Zip!FoundAtOnce
      BY DEF ImportLinked
    <2>1. ASSUME NEW i \in Zip!Entry, NEW a \in unresolved, item[i].at = "done", ~Archive[i].md,
                 a.source # Outside, a.to = Archive[i].path
          PROVE  a.bound = Zip!LiveRow(a.to)
      BY <2>1 DEF ZipInv, LinkRight, Arrived
    <2> QED
      BY <2>1 DEF ZipInv, Zip!FoundAtOnce
  <1> QED
    BY <1>1, <1>2, <1>3, PTL DEF Spec

-----------------------------------------------------------------------------
(* One copy of a content.                                                  *)

TxField  == {"at", "op", "path", "target", "root", "parent", "base", "checksum", "strict",
             "shared", "locked", "made"}
RowField == {"status", "parent", "name", "path", "shown", "checksum"}

TxOK(x)  == x = [k \in TxField |-> x[k]]
RowOK(x) == x = [k \in RowField |-> x[k]]

LEMMA NoTxOK == TxOK(Tree!NoTx) /\ Tree!NoTx.at = "idle" /\ Tree!NoTx.op = None
                /\ Tree!NoTx.made = {} /\ Tree!NoTx.root = None
  BY DEF Tree!NoTx, TxOK, TxField

LEMMA UnusedOK == RowOK(Tree!Unused) /\ Tree!Unused.status = "unused"
  BY DEF Tree!Unused, RowOK, RowField

LEMMA TxGoesTo ==
    ASSUME NEW x, TxOK(x), NEW v, NEW y, y = [x EXCEPT !.at = v]
    PROVE  /\ TxOK(y) /\ y.at = v
           /\ y.op = x.op /\ y.root = x.root /\ y.checksum = x.checksum
           /\ y.strict = x.strict /\ y.made = x.made
  BY DEF TxOK, TxField

\* Of the uploads that have their checksum locked, none that is strict has a duplicate.
Transaction(u, x) ==
    /\ TxOK(x)
    /\ x.op # "upload" => x.made \subseteq Directory
    /\ x.at \in {"parents", "check", "insert", "storing"} =>
          x.op \in {"upload", "update"} /\ x.checksum \in Checksum
    /\ x.at \in {"parents", "check", "insert"} /\ x.op = "upload" => x.root = None
    /\ x.at \in {"check", "storing"} /\ x.op = "update" => x.root \in TreeFile
    /\ x.at = "storing" => x.root \in TreeFile
    /\ x.at \in {"insert", "storing"} => advisory[x.checksum] = u
    /\ x.at \in {"insert", "storing"} /\ x.strict => Tree!SameContent(x.checksum, x.root) = {}
    /\ x.at \in {"parents", "insert"} => x.op = "upload"

TreeInv ==
    /\ tx = [p \in Tree!Process |-> tx[p]] /\ \A p \in Tree!Process : Transaction(p, tx[p])
    /\ advisory = [c \in Checksum |-> advisory[c]]
    /\ entry = [e \in Tree!Entry |-> entry[e]] /\ \A g \in TreeFile : RowOK(entry[g])

\* No file has a content that it had not, except under the lock of the process.
NewContentOf(u) == \A g \in TreeFile :
    Tree!Live(g)' => \/ Tree!Live(g) /\ entry'[g].checksum = entry[g].checksum
                     \/ advisory[entry'[g].checksum] = u

LEMMA TransactionMoves ==
    ASSUME TreeInv, NEW u \in Tree!Process, NEW next, tx' = [tx EXCEPT ![u] = next],
           Transaction(u, next)', NewContentOf(u),
           advisory' = [c \in Checksum |-> advisory'[c]],
           \A c \in Checksum, v \in Tree!Process \ {u} : advisory[c] = v => advisory'[c] = v,
           entry' = [e \in Tree!Entry |-> entry'[e]], \A g \in TreeFile : RowOK(entry'[g])
    PROVE  TreeInv'
  <1>1. /\ tx' = [p \in Tree!Process |-> tx'[p]] /\ tx'[u] = next
        /\ \A v \in Tree!Process \ {u} : tx'[v] = tx[v]
    BY DEF TreeInv
  <1>2. ASSUME NEW v \in Tree!Process \ {u}
        PROVE  Transaction(v, tx[v])'
    <2>1. Transaction(v, tx[v])
      BY DEF TreeInv
    <2>2. tx[v].at \in {"insert", "storing"} =>
             advisory'[tx[v].checksum] = v /\ advisory[tx[v].checksum] = v
      BY <2>1 DEF Transaction
    <2>3. ASSUME tx[v].at \in {"insert", "storing"}, tx[v].strict
          PROVE  Tree!SameContent(tx[v].checksum, tx[v].root)' = {}
      <3>1. Tree!SameContent(tx[v].checksum, tx[v].root) = {}
        BY <2>1, <2>3 DEF Transaction
      <3>2. ASSUME NEW g \in TreeFile \ {tx[v].root}, Tree!Live(g)',
                   entry'[g].checksum = tx[v].checksum
            PROVE  FALSE
        <4>1. advisory[entry'[g].checksum] # u
          BY <2>2, <2>3, <3>2
        <4>2. Tree!Live(g) /\ entry[g].checksum = tx[v].checksum
          BY <3>2, <4>1 DEF NewContentOf
        <4> QED
          BY <3>1, <4>2 DEF Tree!SameContent
      <3> QED
        BY <1>1, <3>2 DEF Tree!SameContent
    <2> QED
      BY <1>1, <2>1, <2>2, <2>3 DEF Transaction, TxOK
  <1>3. Transaction(u, tx[u])'
    BY <1>1
  <1> QED
    BY <1>1, <1>2, <1>3 DEF TreeInv

LEMMA SameFiles ==
    ASSUME TreeInv, NEW u, \A g \in TreeFile : entry'[g] = entry[g]
    PROVE  NewContentOf(u) /\ \A g \in TreeFile : RowOK(entry'[g])
  BY DEF TreeInv, NewContentOf, Tree!Live, RowOK

\* What is created on the way to an entry are directories.
LEMMA GrownDirectories ==
    ASSUME NEW path, NEW ids \in Tree!Fresh(path), NEW status
    PROVE  /\ Tree!Range(ids) \subseteq Directory
           /\ \A g \in TreeFile : Tree!Grown(path, ids, status)[g] = entry[g]
           /\ Tree!Grown(path, ids, status)
                = [e \in Tree!Entry |-> Tree!Grown(path, ids, status)[e]]
  <1>1. Tree!Range(ids) \subseteq Directory
    BY DEF Tree!Fresh, Tree!Range
  <1>2. \A g \in TreeFile : g \notin Tree!Range(ids) /\ g \in Tree!Entry
    BY <1>1, KnowledgeBaseAssumption DEF Tree!Entry
  <1>3. \A g \in TreeFile : Tree!Grown(path, ids, status)[g] = entry[g]
    BY <1>2 DEF Tree!Grown
  <1>4. Tree!Grown(path, ids, status) = [e \in Tree!Entry |-> Tree!Grown(path, ids, status)[e]]
    BY DEF Tree!Grown
  <1> QED
    BY <1>1, <1>3, <1>4

LEMMA CreateDirectoryStep ==
    ASSUME TreeInv, NEW u \in Tree!Process, NEW path, NEW ids \in Tree!Fresh(path), Tree!CreateDirectory(u, path, ids)
    PROVE  TreeInv'
  <1>0. /\ Transaction(u, tx[u]) /\ TxOK(tx[u]) /\ tx = [p \in Tree!Process |-> tx[p]]
        /\ advisory = [c \in Checksum |-> advisory[c]]
        /\ tx = [tx EXCEPT ![u] = tx[u]]
    BY DEF TreeInv, Transaction
  <1>1. entry' = Tree!Grown(path, ids, "live") /\ tx' = tx /\ advisory' = advisory
    BY DEF Tree!CreateDirectory
  <1>2. /\ \A g \in TreeFile : entry'[g] = entry[g]
        /\ entry' = [e \in Tree!Entry |-> entry'[e]]
    BY <1>1, GrownDirectories
  <1>3. NewContentOf(u) /\ \A g \in TreeFile : RowOK(entry'[g])
    BY <1>2, SameFiles
  <1>4. PICK next : next = tx[u]
    OBVIOUS
  <1>5. Transaction(u, next)'
    BY <1>0, <1>1, <1>2, <1>4 DEF Transaction, TxOK, Tree!SameContent, Tree!Live
  <1> QED
    BY <1>0, <1>1, <1>2, <1>3, <1>4, <1>5, TransactionMoves

LEMMA MakeParentsStep ==
    ASSUME TreeInv, NEW u \in Tree!Process, NEW ids \in Tree!Fresh(Tree!Front(tx[u].path)),
           Tree!MakeParents(u, ids)
    PROVE  TreeInv'
  <1>0. /\ Transaction(u, tx[u]) /\ TxOK(tx[u]) /\ tx = [p \in Tree!Process |-> tx[p]]
        /\ advisory = [c \in Checksum |-> advisory[c]]
        /\ tx = [tx EXCEPT ![u] = tx[u]]
    BY DEF TreeInv, Transaction
  <1>1. /\ tx[u].at = "parents" /\ entry' = Tree!Grown(Tree!Front(tx[u].path), ids, "live")
        /\ tx' = [tx EXCEPT ![u].at = "check"] /\ advisory' = advisory
    BY DEF Tree!MakeParents
  <1>2. /\ \A g \in TreeFile : entry'[g] = entry[g]
        /\ entry' = [e \in Tree!Entry |-> entry'[e]]
    BY <1>1, GrownDirectories
  <1>3. NewContentOf(u) /\ \A g \in TreeFile : RowOK(entry'[g])
    BY <1>2, SameFiles
  <1>4. PICK next : next = [tx[u] EXCEPT !.at = "check"]
    OBVIOUS
  <1>5. tx' = [tx EXCEPT ![u] = next]
    BY <1>1, <1>4
  <1>6. /\ TxOK(next) /\ next.at = "check" /\ next.op = tx[u].op /\ next.root = tx[u].root
        /\ next.checksum = tx[u].checksum /\ next.made = tx[u].made
    BY <1>0, <1>4, TxGoesTo
  <1>7. Transaction(u, next)'
    BY <1>0, <1>1, <1>6 DEF Transaction, TxOK
  <1> QED
    BY <1>0, <1>1, <1>2, <1>3, <1>5, <1>7, TransactionMoves

LEMMA AimStep ==
    ASSUME TreeInv, NEW u \in Tree!Process, NEW ids \in Tree!Fresh(Tree!Front(tx[u].target)), Tree!Aim(u, ids)
    PROVE  TreeInv'
  <1>0. /\ Transaction(u, tx[u]) /\ TxOK(tx[u]) /\ tx = [p \in Tree!Process |-> tx[p]]
        /\ advisory = [c \in Checksum |-> advisory[c]]
        /\ tx = [tx EXCEPT ![u] = tx[u]]
    BY Zenon DEF TreeInv, Transaction
  <1>1. PICK p, s, b :
           /\ tx[u].at = "aim" /\ entry' = Tree!Grown(Tree!Front(tx[u].target), ids, "pending")
           /\ tx' = [tx EXCEPT ![u].at = "apply", ![u].parent = p, ![u].made = Tree!Range(ids),
                               ![u].shared = s, ![u].base = b]
           /\ advisory' = advisory
    BY Zenon DEF Tree!Aim
  <1>2. /\ \A g \in TreeFile : entry'[g] = entry[g]
        /\ entry' = [e \in Tree!Entry |-> entry'[e]]
        /\ Tree!Range(ids) \subseteq Directory
    BY <1>1, GrownDirectories
  <1>3. NewContentOf(u) /\ \A g \in TreeFile : RowOK(entry'[g])
    BY <1>2, SameFiles
  <1>4. PICK next : next = [tx[u] EXCEPT !.at = "apply", !.parent = p, !.made = Tree!Range(ids),
                                         !.shared = s, !.base = b]
    OBVIOUS
  <1>5. tx' = [tx EXCEPT ![u] = next]
    BY <1>0, <1>1, <1>4
  <1>6. TxOK(next) /\ next.at = "apply" /\ next.op = tx[u].op /\ next.made = Tree!Range(ids)
    BY <1>0, <1>4 DEF TxOK, TxField
  <1>7. Transaction(u, next)'
    BY <1>2, <1>6 DEF Transaction, TxOK
  <1> QED
    BY <1>0, <1>1, <1>2, <1>3, <1>5, <1>7, TransactionMoves

\* A transaction ends: what it locked is free.
LEMMA EndsFree ==
    ASSUME TreeInv, NEW u \in Tree!Process, Tree!Ends(u), NewContentOf(u),
           entry' = [e \in Tree!Entry |-> entry'[e]], \A g \in TreeFile : RowOK(entry'[g])
    PROVE  TreeInv'
  <1>1. /\ tx' = [tx EXCEPT ![u] = Tree!NoTx]
        /\ advisory' = [c \in Checksum |-> IF advisory[c] = u THEN None ELSE advisory[c]]
    BY DEF Tree!Ends
  <1>2. /\ advisory' = [c \in Checksum |-> advisory'[c]]
        /\ \A c \in Checksum, v \in Tree!Process \ {u} : advisory[c] = v => advisory'[c] = v
    BY <1>1
  <1>3. PICK next : next = Tree!NoTx
    OBVIOUS
  <1>4. Transaction(u, next)'
    BY <1>3, NoTxOK DEF Transaction, TxOK
  <1> QED
    BY <1>1, <1>2, <1>3, <1>4, TransactionMoves

LEMMA FailStep ==
    ASSUME TreeInv, NEW u \in Tree!Process, Tree!Fail(u)
    PROVE  TreeInv'
  <1>1. /\ entry' = [e \in Tree!Entry |-> IF e \in tx[u].made THEN Tree!Unused ELSE entry[e]]
        /\ Tree!Ends(u)
    BY DEF Tree!Fail
  <1>2. ASSUME NEW g \in TreeFile
        PROVE  RowOK(entry'[g]) /\ (entry'[g] = entry[g] \/ entry'[g].status = "unused")
    BY <1>1, UnusedOK DEF TreeInv, Tree!Entry
  <1>3. NewContentOf(u)
    BY <1>2 DEF NewContentOf, Tree!Live
  <1> QED
    BY <1>1, <1>2, <1>3, EndsFree

LEMMA BeginUploadStep ==
    ASSUME TreeInv, NEW u \in Tree!Process, NEW path, NEW c \in Checksum, NEW strict,
           Tree!BeginUpload(u, path, c, strict)
    PROVE  TreeInv'
  <1>a. PICK v : v = IF Len(path) = 1 THEN "check" ELSE "parents"
    OBVIOUS
  <1>b. v \in {"check", "parents"}
    BY <1>a
  <1>1. PICK next :
           /\ next = [Tree!NoTx EXCEPT !.at = v, !.op = "upload", !.path = path, !.checksum = c,
                                       !.strict = strict]
           /\ tx' = [tx EXCEPT ![u] = next] /\ UNCHANGED <<entry, advisory>>
    BY <1>a DEF Tree!BeginUpload
  <1>2. /\ TxOK(next) /\ next.at = v /\ next.op = "upload" /\ next.root = None
        /\ next.checksum = c
    BY <1>1, NoTxOK DEF TxOK, TxField
  <1>3. Transaction(u, next)'
    BY <1>b, <1>2 DEF Transaction, TxOK
  <1>4. NewContentOf(u) /\ \A g \in TreeFile : RowOK(entry'[g])
    BY <1>1, SameFiles
  <1> QED
    BY <1>1, <1>3, <1>4, TransactionMoves DEF TreeInv

LEMMA BeginUpdateStep ==
    ASSUME TreeInv, NEW u \in Tree!Process, NEW f \in TreeFile, NEW c \in Checksum, NEW strict,
           Tree!BeginUpdate(u, f, c, strict)
    PROVE  TreeInv'
  <1>1. PICK next :
           /\ next = [Tree!NoTx EXCEPT !.at = "check", !.op = "update", !.root = f, !.locked = {f},
                                       !.checksum = c, !.strict = strict]
           /\ tx' = [tx EXCEPT ![u] = next] /\ UNCHANGED <<entry, advisory>>
    BY DEF Tree!BeginUpdate
  <1>2. /\ TxOK(next) /\ next.at = "check" /\ next.op = "update" /\ next.root = f
        /\ next.checksum = c /\ next.made = {}
    BY <1>1, NoTxOK DEF TxOK, TxField
  <1>3. Transaction(u, next)'
    BY <1>2 DEF Transaction, TxOK
  <1>4. NewContentOf(u) /\ \A g \in TreeFile : RowOK(entry'[g])
    BY <1>1, SameFiles
  <1> QED
    BY <1>1, <1>3, <1>4, TransactionMoves DEF TreeInv

\* The look for a duplicate, under the lock of the checksum.
LEMMA LockChecksumStep ==
    ASSUME TreeInv, NEW u \in Tree!Process, Tree!LockChecksum(u)
    PROVE  TreeInv'
  <1>0. /\ Transaction(u, tx[u]) /\ TxOK(tx[u]) /\ tx = [p \in Tree!Process |-> tx[p]]
        /\ advisory = [c \in Checksum |-> advisory[c]]
    BY DEF TreeInv, Transaction
  <1>1. PICK v, next :
           /\ v = IF tx[u].op = "update" THEN "storing" ELSE "insert"
           /\ next = [tx[u] EXCEPT !.at = v] /\ tx' = [tx EXCEPT ![u] = next]
           /\ tx[u].at = "check" /\ advisory[tx[u].checksum] = None
           /\ tx[u].strict => Tree!SameContent(tx[u].checksum, tx[u].root) = {}
           /\ advisory' = [advisory EXCEPT ![tx[u].checksum] = u] /\ entry' = entry
    BY <1>0 DEF Tree!LockChecksum
  <1>2. /\ TxOK(next) /\ next.at = v /\ next.op = tx[u].op /\ next.root = tx[u].root
        /\ next.checksum = tx[u].checksum /\ next.made = tx[u].made
        /\ next.strict = tx[u].strict
    BY <1>0, <1>1, TxGoesTo
  <1>3. tx[u].checksum \in Checksum /\ tx[u].op \in {"upload", "update"}
    BY <1>0, <1>1 DEF Transaction
  <1>4. /\ advisory' = [c \in Checksum |-> advisory'[c]] /\ advisory'[tx[u].checksum] = u
        /\ \A c \in Checksum, w \in Tree!Process \ {u} : advisory[c] = w => advisory'[c] = w
    BY <1>0, <1>1, <1>3, KnowledgeBaseAssumption DEF Tree!Process
  <1>5. Tree!SameContent(next.checksum, next.root)' = Tree!SameContent(next.checksum, next.root)
    BY <1>1 DEF Tree!SameContent, Tree!Live
  <1>6. Transaction(u, next)'
    BY <1>0, <1>1, <1>2, <1>3, <1>4, <1>5 DEF Transaction, TxOK
  <1>7. NewContentOf(u) /\ \A g \in TreeFile : RowOK(entry'[g])
    BY <1>1, SameFiles
  <1> QED
    BY <1>1, <1>4, <1>6, <1>7, TransactionMoves DEF TreeInv

LEMMA InsertFileStep ==
    ASSUME TreeInv, NEW u \in Tree!Process, NEW f \in TreeFile, Tree!InsertFile(u, f)
    PROVE  TreeInv'
  <1>0. /\ Transaction(u, tx[u]) /\ TxOK(tx[u]) /\ tx = [p \in Tree!Process |-> tx[p]]
        /\ advisory = [c \in Checksum |-> advisory[c]]
        /\ entry = [e \in Tree!Entry |-> entry[e]] /\ f \in Tree!Entry
    BY Zenon DEF TreeInv, Transaction, Tree!Entry
  <1>1. PICK parent, name, p, s, shared, next :
           /\ next = [tx[u] EXCEPT !.at = "storing", !.root = f, !.made = {f}, !.shared = shared]
           /\ tx[u].at = "insert" /\ tx' = [tx EXCEPT ![u] = next] /\ advisory' = advisory
           /\ entry' = [entry EXCEPT ![f] =
                [status |-> "pending", parent |-> parent, name |-> name, path |-> p,
                 shown |-> s, checksum |-> None]]
    BY <1>0, Zenon DEF Tree!InsertFile
  <1>2. /\ TxOK(next) /\ next.at = "storing" /\ next.root = f /\ next.op = tx[u].op
        /\ next.checksum = tx[u].checksum /\ next.strict = tx[u].strict
    BY <1>0, <1>1 DEF TxOK, TxField
  <1>3. ASSUME NEW g \in TreeFile
        PROVE  RowOK(entry'[g]) /\ (entry'[g] = entry[g] \/ entry'[g].status = "pending")
    <2>1. CASE g = f
      BY <1>0, <1>1, <2>1 DEF RowOK, RowField
    <2>2. CASE g # f
      BY <1>0, <1>1, <2>2, Zenon DEF TreeInv, RowOK, Tree!Entry
    <2> QED
      BY <2>1, <2>2
  <1>4. NewContentOf(u)
    BY <1>3 DEF NewContentOf, Tree!Live
  <1>5. tx[u].root = None /\ tx[u].op = "upload" /\ None \notin TreeFile
    BY <1>0, <1>1, KnowledgeBaseAssumption DEF Transaction
  <1>6. next.strict => Tree!SameContent(next.checksum, next.root)' = {}
    <2> SUFFICES ASSUME tx[u].strict, NEW g \in TreeFile \ {f}, Tree!Live(g)',
                        entry'[g].checksum = tx[u].checksum
                 PROVE  FALSE
      BY <1>2 DEF Tree!SameContent
    <2>1. entry'[g] = entry[g]
      BY <1>3 DEF Tree!Live
    <2>2. Tree!SameContent(tx[u].checksum, None) = {}
      BY <1>0, <1>1, <1>5 DEF Transaction
    <2> QED
      BY <1>5, <2>1, <2>2 DEF Tree!SameContent, Tree!Live
  <1>7. Transaction(u, next)'
    BY <1>0, <1>1, <1>2, <1>5, <1>6 DEF Transaction, TxOK
  <1>8. entry' = [e \in Tree!Entry |-> entry'[e]]
    BY <1>0, <1>1
  <1> QED
    BY <1>0, <1>1, <1>3, <1>4, <1>7, <1>8, TransactionMoves

\* What becomes live has the content that its transaction holds.
LEMMA CommitFileStep ==
    ASSUME TreeInv, NEW u \in Tree!Process, Tree!CommitFile(u)
    PROVE  TreeInv'
  <1>0. /\ Transaction(u, tx[u])
        /\ entry = [e \in Tree!Entry |-> entry[e]] /\ \A g \in TreeFile : RowOK(entry[g])
    BY DEF TreeInv
  <1>1. PICK f, c, v :
           /\ f = tx[u].root /\ c = tx[u].checksum /\ tx[u].at = "storing" /\ Tree!Ends(u)
           /\ entry' = [entry EXCEPT ![f].checksum = c, ![f].status = v]
    BY DEF Tree!CommitFile
  <1>2. f \in TreeFile /\ f \in Tree!Entry /\ advisory[c] = u
    BY <1>0, <1>1 DEF Transaction, Tree!Entry
  <1>3. entry' = [entry EXCEPT ![f] = [entry[f] EXCEPT !.checksum = c, !.status = v]]
    BY <1>0, <1>1, <1>2
  <1>4. /\ RowOK(entry'[f]) /\ entry'[f].checksum = c
        /\ \A g \in TreeFile \ {f} : entry'[g] = entry[g]
        /\ entry' = [e \in Tree!Entry |-> entry'[e]]
    <2>1. entry'[f] = [entry[f] EXCEPT !.checksum = c, !.status = v]
      BY <1>0, <1>2, <1>3
    <2>2. RowOK(entry'[f]) /\ entry'[f].checksum = c
      BY <1>0, <1>2, <2>1, Zenon DEF RowOK, RowField
    <2> QED
      BY <1>0, <1>2, <1>3, <2>2
  <1>5. NewContentOf(u) /\ \A g \in TreeFile : RowOK(entry'[g])
    BY <1>0, <1>2, <1>4 DEF NewContentOf, Tree!Live, RowOK
  <1> QED
    BY <1>1, <1>4, <1>5, EndsFree, Zenon

\* A mutation begins: a transaction that has made nothing yet.
LEMMA BeginStep ==
    ASSUME TreeInv, NEW u \in Tree!Process, NEW op, NEW path, NEW target, NEW at,
           Tree!Begin(u, op, path, target, at), at \in {"lock", "apply"},
           op \in {"delete", "rename", "move"}
    PROVE  TreeInv'
  <1>1. PICK r, q, next :
           /\ next = [Tree!NoTx EXCEPT !.at = at, !.op = op, !.path = path, !.target = target,
                                       !.root = r, !.parent = q]
           /\ tx' = [tx EXCEPT ![u] = next] /\ UNCHANGED <<entry, advisory>>
    BY DEF Tree!Begin
  <1>2. TxOK(next) /\ next.at = at /\ next.op = op /\ next.made = {}
    BY <1>1, NoTxOK DEF TxOK, TxField
  <1>3. Transaction(u, next)'
    BY <1>2 DEF Transaction, TxOK
  <1>4. NewContentOf(u) /\ \A g \in TreeFile : RowOK(entry'[g])
    BY <1>1, SameFiles
  <1> QED
    BY <1>1, <1>3, <1>4, TransactionMoves DEF TreeInv

LEMMA BeginSteps ==
    ASSUME TreeInv, NEW u \in Tree!Process, NEW path, NEW target, NEW n,
           \/ Tree!BeginDelete(u, path) \/ Tree!BeginRename(u, path, n)
           \/ Tree!BeginMove(u, path, target)
    PROVE  TreeInv'
  <1>1. CASE Tree!BeginDelete(u, path)
    <2>1. PICK at \in {"lock", "apply"} : Tree!Begin(u, "delete", path, <<>>, at)
      BY <1>1 DEF Tree!BeginDelete
    <2> QED
      BY <2>1, BeginStep
  <1>2. CASE Tree!BeginRename(u, path, n)
    BY <1>2, BeginStep DEF Tree!BeginRename
  <1>3. CASE Tree!BeginMove(u, path, target)
    BY <1>3, BeginStep DEF Tree!BeginMove
  <1> QED
    BY <1>1, <1>2, <1>3

LEMMA LockEntryStep ==
    ASSUME TreeInv, NEW u \in Tree!Process, Tree!Lock(u)
    PROVE  TreeInv'
  <1>0. /\ Transaction(u, tx[u]) /\ TxOK(tx[u]) /\ tx = [p \in Tree!Process |-> tx[p]]
    BY DEF TreeInv, Transaction
  <1>1. PICK l, v, next :
           /\ v \in {"aim", "apply"} /\ next = [tx[u] EXCEPT !.locked = l, !.at = v]
           /\ tx' = [tx EXCEPT ![u] = next] /\ UNCHANGED <<entry, advisory>>
    BY <1>0 DEF Tree!Lock
  <1>2. TxOK(next) /\ next.at = v /\ next.op = tx[u].op /\ next.made = tx[u].made
    BY <1>0, <1>1, Zenon DEF TxOK, TxField
  <1>3. Transaction(u, next)'
    BY <1>0, <1>1, <1>2, Zenon DEF Transaction, TxOK
  <1>4. NewContentOf(u) /\ \A g \in TreeFile : RowOK(entry'[g])
    BY <1>1, SameFiles
  <1> QED
    BY <1>1, <1>3, <1>4, TransactionMoves DEF TreeInv

LEMMA ApplyDeleteStep ==
    ASSUME TreeInv, NEW u \in Tree!Process, Tree!ApplyDelete(u)
    PROVE  TreeInv'
  <1>1. PICK gone : /\ entry' = [e \in Tree!Entry |-> IF e \in gone
                                   THEN [entry[e] EXCEPT !.status = "deleted"] ELSE entry[e]]
                    /\ Tree!Ends(u)
    BY DEF Tree!ApplyDelete
  <1>2. ASSUME NEW g \in TreeFile
        PROVE  RowOK(entry'[g]) /\ (entry'[g] = entry[g] \/ entry'[g].status = "deleted")
    <2>1. RowOK(entry[g]) /\ g \in Tree!Entry
      BY DEF TreeInv, Tree!Entry
    <2>2. CASE g \in gone
      <3>1. entry'[g] = [entry[g] EXCEPT !.status = "deleted"]
        BY <1>1, <2>1, <2>2
      <3> QED
        BY <2>1, <3>1 DEF RowOK, RowField
    <2>3. CASE g \notin gone
      BY <1>1, <2>1, <2>3
    <2> QED
      BY <2>2, <2>3
  <1>3. NewContentOf(u)
    BY <1>2 DEF NewContentOf, Tree!Live
  <1> QED
    BY <1>1, <1>2, <1>3, EndsFree

\* A renaming, or a move, changes where entries are, not what they are.
LEMMA ApplyRenameStep ==
    ASSUME TreeInv, NEW u \in Tree!Process, Tree!ApplyRename(u)
    PROVE  TreeInv'
  <1> DEFINE root    == tx[u].root
             n       == tx[u].target[1]
             name(e) == IF e = root THEN n ELSE entry[e].name
             path(e) == IF e \in Tree!Subtree(root)
                        THEN Tree!Rebased(entry[e].path, entry[root].path,
                                          Tree!Front(entry[root].path) \o <<n>>)
                        ELSE entry[e].path
             show(e) == IF e = root \/ e \in Tree!Matched(entry[root].shown)
                        THEN Tree!Rebased(entry[e].shown, entry[root].shown,
                                          Tree!Front(entry[root].shown) \o <<n>>)
                        ELSE entry[e].shown
  <1>1. \/ entry' = entry
        \/ entry' = [e \in Tree!Entry |-> [entry[e] EXCEPT !.name = name(e), !.path = path(e),
                                                           !.shown = show(e)]]
    BY Zenon DEF Tree!ApplyRename
  <1>2. Tree!Ends(u)
    BY Zenon DEF Tree!ApplyRename
  <1> HIDE DEF root, n, name, path, show
  <1>3. ASSUME NEW g \in TreeFile
        PROVE  RowOK(entry'[g]) /\ entry'[g].status = entry[g].status
               /\ entry'[g].checksum = entry[g].checksum
    <2>1. RowOK(entry[g]) /\ g \in Tree!Entry
      BY DEF TreeInv, Tree!Entry
    <2>2. CASE entry'[g] = entry[g]
      BY <2>1, <2>2
    <2>3. CASE entry'[g] = [entry[g] EXCEPT !.name = name(g), !.path = path(g), !.shown = show(g)]
      <3>1. PICK v, p, w : v = name(g) /\ p = path(g) /\ w = show(g)
        OBVIOUS
      <3>2. entry'[g] = [entry[g] EXCEPT !.name = v, !.path = p, !.shown = w]
        BY <2>3, <3>1
      <3> QED
        BY <2>1, <3>2 DEF RowOK, RowField
    <2> QED
      BY <1>1, <2>1, <2>2, <2>3
  <1>4. NewContentOf(u)
    BY <1>3 DEF NewContentOf, Tree!Live
  <1>5. entry' = [e \in Tree!Entry |-> entry'[e]]
    BY <1>1 DEF TreeInv
  <1> QED
    BY <1>2, <1>3, <1>4, <1>5, EndsFree

LEMMA ApplyMoveStep ==
    ASSUME TreeInv, NEW u \in Tree!Process, Tree!ApplyMove(u)
    PROVE  TreeInv'
  <1> DEFINE root    == tx[u].root
             n       == Tree!Last(tx[u].target)
             new     == [e \in Tree!Entry |-> IF e \in tx[u].made
                           THEN [entry[e] EXCEPT !.status = "live"] ELSE entry[e]]
             name(e) == IF e = root THEN n ELSE new[e].name
             over(e) == IF e = root THEN tx[u].parent ELSE new[e].parent
             path(e) == Tree!Rebased(new[e].path, entry[root].path, tx[u].base[1] \o <<n>>)
             show(e) == Tree!Rebased(new[e].shown, entry[root].shown, tx[u].base[2] \o <<n>>)
  <1>1. \/ entry' = new
        \/ entry' = [e \in Tree!Entry |->
             IF e \notin Tree!Subtree(root) THEN new[e]
             ELSE [new[e] EXCEPT !.name = name(e), !.parent = over(e), !.path = path(e),
                                 !.shown = show(e)]]
    BY Zenon DEF Tree!ApplyMove
  <1>2. Tree!Ends(u) /\ tx[u].op = "move"
    BY DEF Tree!ApplyMove
  <1>3. /\ new = [e \in Tree!Entry |-> new[e]]
        /\ \A e \in Tree!Entry \ tx[u].made : new[e] = entry[e]
    OBVIOUS
  <1> HIDE DEF root, n, new, name, over, path, show
  <1>4. ASSUME NEW g \in TreeFile
        PROVE  RowOK(entry'[g]) /\ entry'[g].status = entry[g].status
               /\ entry'[g].checksum = entry[g].checksum
    <2>1. RowOK(entry[g]) /\ g \in Tree!Entry /\ g \notin tx[u].made
      BY <1>2, KnowledgeBaseAssumption DEF TreeInv, Transaction, Tree!Entry
    <2>2. new[g] = entry[g]
      BY <1>3, <2>1
    <2>3. CASE entry'[g] = new[g]
      BY <2>1, <2>2, <2>3
    <2>4. CASE entry'[g] = [new[g] EXCEPT !.name = name(g), !.parent = over(g), !.path = path(g),
                                          !.shown = show(g)]
      <3>1. PICK v, q, p, w : v = name(g) /\ q = over(g) /\ p = path(g) /\ w = show(g)
        OBVIOUS
      <3>2. entry'[g] = [entry[g] EXCEPT !.name = v, !.parent = q, !.path = p, !.shown = w]
        BY <2>2, <2>4, <3>1
      <3> QED
        BY <2>1, <3>2 DEF RowOK, RowField
    <2>5. \/ entry'[g] = new[g]
          \/ entry'[g] = [new[g] EXCEPT !.name = name(g), !.parent = over(g), !.path = path(g),
                                        !.shown = show(g)]
      BY <1>1, <2>1
    <2> QED
      BY <2>3, <2>4, <2>5
  <1>5. NewContentOf(u)
    BY <1>4 DEF NewContentOf, Tree!Live
  <1>6. entry' = [e \in Tree!Entry |-> entry'[e]]
    BY <1>1, <1>3
  <1> QED
    BY <1>2, <1>4, <1>5, <1>6, EndsFree

LEMMA TreeStart ==
    ASSUME Tree!Init
    PROVE  TreeInv
  <1>1. /\ tx = [p \in Tree!Process |-> Tree!NoTx]
        /\ advisory = [c \in Checksum |-> None]
    BY DEF Tree!Init
  <1>2. /\ entry = [e \in Tree!Entry |-> entry[e]]
        /\ \A g \in TreeFile : entry[g] = Tree!Unused
    BY KnowledgeBaseAssumption DEF Tree!Init, Tree!Entry
  <1>3. ASSUME NEW p \in Tree!Process
        PROVE  Transaction(p, tx[p])
    <2>1. PICK x : x = Tree!NoTx
      OBVIOUS
    <2>2. Transaction(p, x)
      BY <2>1, NoTxOK DEF Transaction
    <2> QED
      BY <1>1, <2>1, <2>2
  <1> QED
    BY <1>1, <1>2, <1>3, UnusedOK DEF TreeInv

\* Whatever is uploaded, updated, deleted, renamed or moved at the same time, a file that was
\* accepted on the condition that its content is new has no duplicate when it is committed (the
\* advisory lock of the checksum, from the look for a duplicate to the commit of the entry).
THEOREM NoSecondCopy == Spec => NoDuplicate
  <1> DEFINE A == \A u \in Uploader :
                    tx[u].at = "storing" /\ tx[u].strict /\ tx'[u].at = "idle"
                      /\ entry'[tx[u].root].checksum = tx[u].checksum
                        => Tree!SameContent(tx[u].checksum, tx[u].root) = {}
  <1>1. Init => (part = "tree" => TreeInv)
    BY TreeStart DEF Init
  <1>2. (part = "tree" => TreeInv) /\ [Next]_vars => (part = "tree" => TreeInv)'
    <2> SUFFICES ASSUME [Next]_vars, part = "tree", TreeInv
                 PROVE  TreeInv'
      BY WritingParts
    <2>1. ASSUME NEW u \in Uploader, NEW path \in Tree!Path,
                 \/ \E ids \in Tree!Fresh(path) : Tree!CreateDirectory(u, path, ids)
                 \/ \E c \in Checksum, strict \in BOOLEAN : Tree!BeginUpload(u, path, c, strict)
          PROVE  TreeInv'
      BY <2>1, CreateDirectoryStep, BeginUploadStep DEF Tree!Process
    <2>2. ASSUME NEW u \in Uploader,
                 \/ \E ids \in Tree!Fresh(Tree!Front(tx[u].path)) : Tree!MakeParents(u, ids)
                 \/ \E f \in TreeFile, c \in Checksum, strict \in BOOLEAN :
                      Tree!BeginUpdate(u, f, c, strict)
                 \/ \E f \in TreeFile : Tree!InsertFile(u, f)
                 \/ Tree!LockChecksum(u) \/ Tree!CommitFile(u)
          PROVE  TreeInv'
      BY <2>2, MakeParentsStep, BeginUpdateStep, InsertFileStep, LockChecksumStep, CommitFileStep
         DEF Tree!Process
    <2>3. ASSUME NEW m \in Mutator, NEW path \in Tree!Path,
                 \/ Tree!BeginDelete(m, path)
                 \/ \E n \in Name : Tree!BeginRename(m, path, n)
                 \/ \E target \in Tree!Path : Tree!BeginMove(m, path, target)
          PROVE  TreeInv'
      BY <2>3, BeginSteps DEF Tree!Process
    <2>4. ASSUME NEW m \in Mutator,
                 \/ \E ids \in Tree!Fresh(Tree!Front(tx[m].target)) : Tree!Aim(m, ids)
                 \/ Tree!Lock(m) \/ Tree!ApplyDelete(m) \/ Tree!ApplyRename(m)
                 \/ Tree!ApplyMove(m)
          PROVE  TreeInv'
      BY <2>4, AimStep, LockEntryStep, ApplyDeleteStep, ApplyRenameStep, ApplyMoveStep
         DEF Tree!Process
    <2>5. CASE Tree!Next
      BY <2>1, <2>2, <2>3, <2>4, <2>5, FailStep, Zenon DEF Tree!Next
    <2>6. CASE UNCHANGED Tree!vars
      <3>1. UNCHANGED <<entry, tx, advisory>>
        BY <2>6 DEF Tree!vars
      <3> QED
        <4>1. \A c, r : Tree!SameContent(c, r)' = Tree!SameContent(c, r)
          BY <3>1 DEF Tree!SameContent, Tree!Live
        <4>2. ASSUME NEW p \in Tree!Process
              PROVE  Transaction(p, tx[p])'
          <5>1. PICK x : x = tx[p]
            OBVIOUS
          <5>2. Transaction(p, x) /\ tx'[p] = x
            BY <3>1, <5>1 DEF TreeInv
          <5>3. Transaction(p, x)'
            BY <3>1, <4>1, <5>2 DEF Transaction, TxOK
          <5> QED
            BY <5>2, <5>3
        <4> QED
          BY <3>1, <4>2 DEF TreeInv, RowOK
    <2> QED
      BY <2>5, <2>6, WritingParts
  <1>3. (part = "tree" => TreeInv) /\ [Next]_vars => [A]_Tree!vars
    <2>1. CASE part = "tree" /\ TreeInv
      <3>1. \A u \in Uploader : Transaction(u, tx[u])
        BY <2>1 DEF TreeInv, Tree!Process
      <3>2. A
        BY <3>1 DEF Transaction
      <3> QED
        BY <3>2
    <2> QED
      BY <2>1, WritingParts
  <1>4. Spec => [][A]_Tree!vars
    BY <1>1, <1>2, <1>3, PTL DEF Spec
  <1> QED
    BY <1>4 DEF NoDuplicate, Tree!NoDuplicate

-----------------------------------------------------------------------------
(* The place of an entry.  FileTreeProofs proves it of the tree alone;     *)
(* here that is carried over to the whole, in which the tree is one part.  *)

Place == INSTANCE FileTreeProofs WITH File <- TreeFile

\* The tree of these theorems is the one of KnowledgeBase: its initial states, its steps and the
\* property are the same formulas.
LEMMA SameInit == Tree!Init <=> Place!Init
  BY ZenonT(60)
     DEF Tree!Init, Place!Init, Tree!Path, Place!Path, Tree!Process, Place!Process,
         Tree!Entry, Place!Entry, Tree!Front, Place!Front, Tree!Last, Place!Last, Tree!Range,
         Place!Range, Tree!IsInjective, Place!IsInjective, Tree!Unused, Place!Unused,
         Tree!NoTx, Place!NoTx

LEMMA SameNext == Tree!Next <=> Place!Next
  BY ZenonT(60)
     DEF Tree!Next, Place!Next, Tree!Aim, Place!Aim, Tree!Ancestors,
         Place!Ancestors, Tree!Applied, Place!Applied, Tree!ApplyDelete,
         Place!ApplyDelete, Tree!ApplyMove, Place!ApplyMove, Tree!ApplyRename,
         Place!ApplyRename, Tree!At, Place!At, Tree!Begin, Place!Begin,
         Tree!BeginDelete, Place!BeginDelete, Tree!BeginMove, Place!BeginMove,
         Tree!BeginRename, Place!BeginRename, Tree!BeginUpdate, Place!BeginUpdate,
         Tree!BeginUpload, Place!BeginUpload, Tree!CanGrow, Place!CanGrow,
         Tree!Cardinality, Place!Cardinality, Tree!Child, Place!Child, Tree!Clash,
         Place!Clash, Tree!CommitFile, Place!CommitFile, Tree!CreateDirectory,
         Place!CreateDirectory, Tree!Ends, Place!Ends, Tree!Entry, Place!Entry,
         Tree!Fail, Place!Fail, Tree!Fresh, Place!Fresh, Tree!Front, Place!Front,
         Tree!Grown, Place!Grown, Tree!InsertFile, Place!InsertFile,
         Tree!IsInjective, Place!IsInjective, Tree!IsPrefix, Place!IsPrefix,
         Tree!Last, Place!Last, Tree!Live, Place!Live, Tree!Lock, Place!Lock,
         Tree!LockChecksum, Place!LockChecksum, Tree!Lockable, Place!Lockable,
         Tree!LockedBy, Place!LockedBy, Tree!MakeParents, Place!MakeParents,
         Tree!Matched, Place!Matched, Tree!Missing, Place!Missing, Tree!NoTx,
         Place!NoTx, Tree!Node, Place!Node, Tree!Path, Place!Path, Tree!PathOf,
         Place!PathOf, Tree!Process, Place!Process, Tree!Range, Place!Range,
         Tree!Rebased, Place!Rebased, Tree!Referenced, Place!Referenced,
         Tree!SameContent, Place!SameContent, Tree!Shareable, Place!Shareable,
         Tree!ShownOf, Place!ShownOf, Tree!Subtree, Place!Subtree, Tree!Unused,
         Place!Unused, Tree!Walk, Place!Walk, Tree!history, Place!history

LEMMA SameSound == Place!Sound => Tree!Sound
  BY ZenonT(60)
     DEF Tree!Sound, Place!Sound, Tree!InPlace, Place!InPlace, Tree!At, Place!At,
         Tree!Walk, Place!Walk, Tree!Child, Place!Child, Tree!Live, Place!Live, Tree!Entry,
         Place!Entry

LEMMA TreeApart == Place!Distinct
  BY KnowledgeBaseAssumption DEF Place!Distinct, Place!Entry

\* Whatever is uploaded while directories are deleted, renamed and moved, every live entry is found
\* under the path that its row carries, unless a mutation was applied while another was under way:
\* the share-locks of an insertion reach up to the root, so that no subtree goes away, or gets
\* another path, while something arrives in it.  It is shown there, unless a renaming strayed.
THEOREM TreeIsSound == Spec => []TreeSound
  <1>1. Init => (part = "tree" => Place!Placed)
    BY TreeApart, SameInit, Place!PlacedStarts DEF Init
  <1>2. (part = "tree" => Place!Placed) /\ [Next]_vars => (part = "tree" => Place!Placed)'
    <2> SUFFICES ASSUME [Next]_vars, part = "tree", Place!Placed
                 PROVE  Place!Placed'
      BY WritingParts
    <2>1. Place!Next \/ UNCHANGED Place!vars
      BY WritingParts, SameNext, Zenon DEF Tree!vars, Place!vars
    <2> QED
      BY <2>1, TreeApart, Place!PlacedKeeps
  <1>3. (part = "tree" => Place!Placed) => TreeSound
    BY TreeApart, SameSound, Place!PlacedIsSound DEF TreeSound
  <1> QED
    BY <1>1, <1>2, <1>3, PTL DEF Spec
=============================================================================
