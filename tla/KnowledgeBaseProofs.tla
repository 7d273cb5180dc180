------------------------- MODULE KnowledgeBaseProofs -------------------------
(***************************************************************************)
(* Theorems about the parts of KnowledgeBase whose rows are read while     *)
(* others change them, for every value of their constants: the entities    *)
(* and their names, the status of a build, the progress of a batch, the    *)
(* runner's terminal events, a schema that several processes bootstrap at  *)
(* once; and about the evidence that is chosen for an entity.              *)
(***************************************************************************)
EXTENDS KnowledgeBase, FiniteSetTheorems, TLAPS

\* A step is one of the part that runs, or changes nothing of it; which part that is stays.
LEMMA PartSteps ==
    ASSUME [Next]_vars
    PROVE  /\ part' = part
           /\ part = "pool" =>
                 Pool!Next \/ UNCHANGED <<row, run, heart, lost, written, batch, stopping>>
           /\ part = "entities" =>
                 Names!Next \/ UNCHANGED <<entity, embedding, surfaceLock, proc, deletions>>
           /\ part = "status" =>
                 Status!Next \/ UNCHANGED <<now, built, changes, tasks, begun, reader>>
           /\ part = "progress" =>
                 Shown!PNext \/ UNCHANGED <<state, open, asked, found, counts, total, page>>
           /\ part = "schema" => Schema!Next \/ UNCHANGED Schema!vars
           /\ part = "evidence" => Chosen!Next \/ UNCHANGED source
  <1>1. CASE UNCHANGED vars
    BY <1>1, Zenon DEF vars, Schema!vars
  <1>2. CASE Next
    <2>1. PICK p : /\ Only(p)
                   /\ p = "pool" => Pool!Next
                   /\ p = "entities" => Names!Next
                   /\ p = "status" => Status!Next
                   /\ p = "progress" => Shown!PNext
                   /\ p = "schema" => Schema!Next
                   /\ p = "evidence" => Chosen!Next
      BY <1>2 DEF Next
    <2>2. part = p /\ part' = part
      BY <2>1 DEF Only
    <2> QED
      BY <2>1, <2>2
  <1> QED
    BY <1>1, <1>2

-----------------------------------------------------------------------------
(* Entities and their names.                                               *)

EntityRow == [name : Surface \cup {None}, born : SUBSET Surface, added : SUBSET Surface]
Work == [at : {"idle", "create", "recall", "insert", "refresh", "alias", "add", "embed"},
         name : Surface \cup {None}, aliases : SUBSET Surface, target : Int,
         text : SUBSET (Surface \cup {None})]

\* What is alive is a row; a worker that is at work has a name.
NamesTypeOK ==
    /\ entity \in [Names!Id -> EntityRow \cup {None}]
    /\ surfaceLock \in [Surface -> Worker \cup {None}]
    /\ proc \in [Worker -> Work]
    /\ \A w \in Worker : proc[w].at \in {"create", "insert", "recall", "alias", "add"} =>
                            proc[w].name \in Surface

\* Whoever is about to insert or to add a name holds its lock, and nothing has that name yet.
ReservedBy(w) ==
    /\ proc[w].at = "insert" =>
          surfaceLock[proc[w].name] = w /\ Names!Named(proc[w].name) = {}
    /\ proc[w].at = "add" =>
          /\ surfaceLock[proc[w].name] = w
          /\ \A e \in Names!Live : proc[w].name \notin entity[e].added

Unique ==
    \A s \in Surface :
        /\ \A e, f \in Names!Named(s) : e = f
        /\ \A e, f \in Names!Live : s \in entity[e].added /\ s \in entity[f].added => e = f

NamesInv == NamesTypeOK /\ Unique /\ \A w \in Worker : ReservedBy(w)

\* Rows that go, or that lose names, leave what was unique unique.
LEMMA FewerNames ==
    ASSUME NamesInv, surfaceLock' = surfaceLock,
           \A w \in Worker : proc'[w].at \in {"insert", "add"} => proc'[w] = proc[w],
           NamesTypeOK',
           \A e \in Names!Live' : /\ e \in Names!Live
                                  /\ entity'[e].name = entity[e].name
                                  /\ entity'[e].added \subseteq entity[e].added
    PROVE  NamesInv'
  <1>1. \A s \in Surface : Names!Named(s)' \subseteq Names!Named(s)
    BY DEF Names!Named
  <1>2. \A w \in Worker : ReservedBy(w)'
    <2> SUFFICES ASSUME NEW w \in Worker, proc'[w] = proc[w]
                 PROVE  ReservedBy(w)'
      BY DEF ReservedBy
    <2>1. ReservedBy(w) /\ (proc[w].at = "insert" => proc[w].name \in Surface)
      BY DEF NamesInv, NamesTypeOK
    <2> QED
      BY <1>1, <2>1 DEF ReservedBy
  <1>3. Unique'
    BY <1>1 DEF NamesInv, Unique
  <1> QED
    BY <1>2, <1>3 DEF NamesInv

\* One worker goes on and reserves nothing.
LEMMA WorkerGoes ==
    ASSUME NamesInv, surfaceLock' = surfaceLock, entity' = entity, NEW w \in Worker,
           NEW next \in Work, proc' = [proc EXCEPT ![w] = next], next.at \notin {"insert", "add"},
           next.at \in {"create", "recall", "alias"} => next.name \in Surface
    PROVE  NamesInv'
  <1>1. NamesTypeOK'
    BY DEF NamesInv, NamesTypeOK
  <1>2. \A u \in Worker : proc'[u].at \in {"insert", "add"} => proc'[u] = proc[u]
    BY DEF NamesInv, NamesTypeOK
  <1>3. Names!Live' = Names!Live
    BY DEF Names!Live
  <1> QED
    BY <1>1, <1>2, <1>3, FewerNames

LEMMA IdleWork == Names!Idle \in Work /\ Names!Idle.at = "idle"
  BY DEF Names!Idle, Work

LEMMA CardinalityOne ==
    ASSUME NEW S \in SUBSET Names!Id
    PROVE  /\ Names!Cardinality(S) = Cardinality(S)
           /\ IsFiniteSet(S)
           /\ (\A e, f \in S : e = f) <=> Cardinality(S) <= 1
           /\ Cardinality(S) # 1 /\ (\A e, f \in S : e = f) => S = {}
  <1>1. Names!Cardinality(S) = Cardinality(S)
    BY Zenon DEF Names!Cardinality, Cardinality
  <1>2. IsFiniteSet(S)
    <2>1. IsFiniteSet(1 .. MaxEntities)
      BY KnowledgeBaseAssumption, FS_Interval
    <2> QED
      BY <2>1, FS_Subset DEF Names!Id
  <1>3. ASSUME \A e, f \in S : e = f
        PROVE  S = {} \/ Cardinality(S) = 1
    <2>1. CASE S = {}
      BY <2>1
    <2>2. CASE S # {}
      <3>1. PICK e : S = {e}
        BY <1>3, <2>2
      <3> QED
        BY <1>2, <3>1, FS_Singleton
    <2> QED
      BY <2>1, <2>2
  <1>4. ASSUME Cardinality(S) <= 1
        PROVE  \A e, f \in S : e = f
    <2>1. Cardinality(S) \in Nat
      BY <1>2, FS_CardinalityType
    <2>2. CASE Cardinality(S) = 0
      BY <1>2, <2>2, FS_EmptySet
    <2>3. CASE Cardinality(S) = 1
      <3>1. PICK e : S = {e}
        BY <1>2, <2>3, FS_Singleton
      <3> QED
        BY <3>1
    <2> QED
      BY <1>4, <2>1, <2>2, <2>3
  <1>5. Cardinality({}) = 0
    BY FS_EmptySet
  <1> QED
    BY <1>1, <1>2, <1>3, <1>4, <1>5

LEMMA NamesStep ==
    ASSUME NamesInv, Names!Next
    PROVE  NamesInv'
  <1>0. /\ entity \in [Names!Id -> EntityRow \cup {None}]
        /\ surfaceLock \in [Surface -> Worker \cup {None}]
        /\ proc \in [Worker -> Work]
        /\ \A w \in Worker : proc[w] \in Work
        /\ \A w \in Worker : proc[w].at \in {"create", "insert", "recall", "alias", "add"} =>
                                proc[w].name \in Surface
    BY DEF NamesInv, NamesTypeOK
  <1>1. ASSUME NEW w \in Worker, NEW n \in Surface, NEW aliases \in SUBSET Surface,
               Names!Resolve(w, n, aliases)
        PROVE  NamesInv'
    <2> DEFINE found1 == Names!Bearers({n} \cup aliases)
               goal == CASE Names!Cardinality(found1) = 1 -> "idle"
                         [] Names!Cardinality(found1) > 1 -> "create"
                         [] OTHER -> "recall"
               next == [Names!Idle EXCEPT !.name = n, !.aliases = aliases, !.at = goal]
    <2>1. proc' = [proc EXCEPT ![w] = next] /\ entity' = entity /\ surfaceLock' = surfaceLock
      BY <1>1 DEF Names!Resolve
    <2>2. goal \in {"idle", "create", "recall"}
      <3> HIDE DEF found1
      <3> QED
        OBVIOUS
    <2> HIDE DEF goal
    <2>3. next \in Work /\ next.at = goal /\ next.name = n
      BY <2>2, IdleWork DEF Work
    <2> HIDE DEF next
    <2> QED
      BY <2>1, <2>2, <2>3, WorkerGoes
  <1>2. ASSUME NEW w \in Worker, Names!Recall(w)
        PROVE  NamesInv'
    <2>1. entity' = entity /\ surfaceLock' = surfaceLock /\ proc[w].at = "recall"
      BY <1>2, Zenon DEF Names!Recall
    <2>2. PICK e \in Int, a \in {"alias", "create"} :
             \/ proc' = [proc EXCEPT ![w] = [@ EXCEPT !.at = a, !.target = e]]
             \/ proc' = [proc EXCEPT ![w] = [@ EXCEPT !.at = a]]
      <3>1. CASE Names!Goes(w, "create")
        <4>1. proc' = [proc EXCEPT ![w] = [@ EXCEPT !.at = "create"]] /\ 0 \in Int
          BY <3>1 DEF Names!Goes
        <4> QED
          BY <4>1
      <3>2. ASSUME NEW e \in {x \in Names!Live : embedding[x] # None}, Names!Heads(w, "alias", e)
            PROVE  \E i \in Int : proc' = [proc EXCEPT ![w] = [@ EXCEPT !.at = "alias", !.target = i]]
        <4>1. e \in Int
          BY <3>2, KnowledgeBaseAssumption DEF Names!Live, Names!Id
        <4>2. proc' = [proc EXCEPT ![w] = [@ EXCEPT !.at = "alias", !.target = e]]
          BY <1>0, <3>2 DEF Names!Heads, Work
        <4> QED
          BY <4>1, <4>2
      <3> QED
        BY <1>2, <3>1, <3>2, Zenon DEF Names!Recall
    <2> DEFINE next == proc'[w]
    <2>3. /\ proc' = [proc EXCEPT ![w] = next] /\ next \in Work /\ next.at = a
          /\ next.name = proc[w].name
      <3>1. CASE proc' = [proc EXCEPT ![w] = [@ EXCEPT !.at = a, !.target = e]]
        <4>1. next = [proc[w] EXCEPT !.at = a, !.target = e]
          BY <1>0, <3>1
        <4> QED
          BY <1>0, <3>1, <4>1 DEF Work
      <3>2. CASE proc' = [proc EXCEPT ![w] = [@ EXCEPT !.at = a]]
        <4>1. next = [proc[w] EXCEPT !.at = a]
          BY <1>0, <3>2
        <4> QED
          BY <1>0, <3>2, <4>1 DEF Work
      <3> QED
        BY <2>2, <3>1, <3>2
    <2> HIDE DEF next
    <2> QED
      BY <1>0, <2>1, <2>3, WorkerGoes
  <1>3. ASSUME NEW w \in Worker, Names!LockForCreate(w)
        PROVE  NamesInv'
    <2> DEFINE n == proc[w].name
    <2>1. proc[w].at = "create" /\ surfaceLock[n] = None /\ n \in Surface /\ entity' = entity
      BY <1>0, <1>3 DEF Names!LockForCreate, Names!Free
    <2>2. CASE Names!Cardinality(Names!Named(n)) = 1
      <3>1. proc' = [proc EXCEPT ![w] = Names!Idle] /\ surfaceLock' = surfaceLock
        BY <1>3, <2>2 DEF Names!LockForCreate
      <3> QED
        BY <2>1, <3>1, IdleWork, WorkerGoes
    <2>3. CASE Names!Cardinality(Names!Named(n)) # 1
      <3>1. /\ proc' = [proc EXCEPT ![w] = [@ EXCEPT !.at = "insert"]]
            /\ surfaceLock' = [surfaceLock EXCEPT ![n] = w]
        BY <1>3, <2>3 DEF Names!LockForCreate, Names!Goes
      <3>2. Names!Named(n) = {}
        <4>1. Names!Named(n) \in SUBSET Names!Id
          BY DEF Names!Named, Names!Live
        <4> QED
          BY <2>1, <2>3, <4>1, CardinalityOne DEF NamesInv, Unique
      <3>3. /\ proc' \in [Worker -> Work] /\ proc'[w].at = "insert" /\ proc'[w].name = n
            /\ \A u \in Worker \ {w} : proc'[u] = proc[u]
        BY <1>0, <3>1 DEF Work
      <3>4. NamesTypeOK'
        BY <1>0, <2>1, <3>1, <3>3 DEF NamesTypeOK
      <3>5. \A s : Names!Named(s)' = Names!Named(s)
        BY <2>1 DEF Names!Named, Names!Live
      <3>6. Names!Live' = Names!Live
        BY <2>1 DEF Names!Live
      <3>7. ReservedBy(w)'
        BY <1>0, <2>1, <3>1, <3>2, <3>3, <3>5 DEF ReservedBy
      <3>8. ASSUME NEW u \in Worker \ {w}
            PROVE  ReservedBy(u)'
        <4>1. ReservedBy(u) /\ proc'[u] = proc[u] /\ u # None
          BY <3>3, KnowledgeBaseAssumption DEF NamesInv
        <4>2. proc[u].at \in {"insert", "add"} => proc[u].name # n /\ proc[u].name \in Surface
          BY <1>0, <2>1, <4>1 DEF ReservedBy
        <4> QED
          BY <1>0, <2>1, <3>1, <3>5, <3>6, <4>1, <4>2 DEF ReservedBy
      <3>9. Unique'
        BY <2>1, <3>5, <3>6 DEF NamesInv, Unique
      <3> QED
        BY <3>4, <3>7, <3>8, <3>9 DEF NamesInv
    <2> QED
      BY <2>2, <2>3
  <1>4. ASSUME NEW w \in Worker, Names!Insert(w)
        PROVE  NamesInv'
    <2>0. PICK n : n = proc[w].name
      OBVIOUS
    <2> DEFINE new == [name |-> n, born |-> proc[w].aliases, added |-> {}]
    <2>1. PICK e \in Names!Id : /\ entity' = [entity EXCEPT ![e] = new]
                                /\ Names!Heads(w, "refresh", e)
      BY <1>4, <2>0 DEF Names!Insert
    <2>2. /\ proc[w].at = "insert" /\ surfaceLock' = [surfaceLock EXCEPT ![n] = None]
          /\ n \in Surface /\ e \in Int
      BY <1>0, <1>4, <2>0, KnowledgeBaseAssumption DEF Names!Insert, Names!Id
    <2>3. proc' = [proc EXCEPT ![w] = [@ EXCEPT !.at = "refresh", !.target = e]]
      BY <1>0, <2>1 DEF Names!Heads, Work
    <2>4. /\ proc' \in [Worker -> Work] /\ proc'[w].at = "refresh"
          /\ \A u \in Worker \ {w} : proc'[u] = proc[u]
      BY <1>0, <2>2, <2>3 DEF Work
    <2>5. new \in EntityRow
      BY <1>0, <2>0, <2>2 DEF EntityRow, Work
    <2>6. /\ entity' \in [Names!Id -> EntityRow \cup {None}] /\ entity'[e] = new
          /\ \A x \in Names!Id \ {e} : entity'[x] = entity[x]
      BY <1>0, <2>1, <2>5
    <2>7. NamesTypeOK'
      BY <1>0, <2>2, <2>4, <2>6 DEF NamesTypeOK
    <2>8. /\ Names!Live' \subseteq Names!Live \cup {e}
          /\ \A x \in Names!Live' \ {e} : entity'[x] = entity[x] /\ x \in Names!Live
          /\ entity'[e].added = {} /\ entity'[e].name = n
      BY <2>6 DEF Names!Live, Names!Gone
    <2>9. Names!Named(n) = {} /\ surfaceLock[n] = w
      BY <2>0, <2>2 DEF NamesInv, ReservedBy
    <2>10. \A s \in Surface \ {n} : Names!Named(s)' \subseteq Names!Named(s)
      BY <2>8 DEF Names!Named
    <2>11. Names!Named(n)' \subseteq {e}
      <3> SUFFICES ASSUME NEW x \in Names!Named(n)', x # e
                   PROVE  FALSE
        OBVIOUS
      <3>1. x \in Names!Live' \ {e} /\ entity'[x].name = n
        BY DEF Names!Named
      <3>2. x \in Names!Named(n)
        BY <2>8, <3>1 DEF Names!Named
      <3> QED
        BY <2>9, <3>2
    <2>12. Unique'
      <3>1. \A s \in Surface : \A x, y \in Names!Named(s)' : x = y
        <4> SUFFICES ASSUME NEW s \in Surface, NEW x \in Names!Named(s)', NEW y \in Names!Named(s)'
                     PROVE  x = y
          OBVIOUS
        <4>1. CASE s = n
          BY <2>11, <4>1
        <4>2. CASE s # n
          BY <2>10, <4>2 DEF NamesInv, Unique
        <4> QED
          BY <4>1, <4>2
      <3>2. \A s \in Surface : \A x, y \in Names!Live' :
               s \in entity'[x].added /\ s \in entity'[y].added => x = y
        BY <2>8 DEF NamesInv, Unique
      <3> QED
        BY <3>1, <3>2 DEF Unique
    <2>13. ASSUME NEW u \in Worker
           PROVE  ReservedBy(u)'
      <3>1. CASE u = w
        BY <2>4, <3>1 DEF ReservedBy
      <3>2. CASE u # w
        <4>1. ReservedBy(u) /\ proc'[u] = proc[u]
          BY <2>4, <3>2 DEF NamesInv
        <4>2. proc[u].at \in {"insert", "add"} => proc[u].name # n /\ proc[u].name \in Surface
          BY <1>0, <2>9, <3>2, <4>1 DEF ReservedBy
        <4> QED
          BY <1>0, <2>2, <2>8, <2>10, <4>1, <4>2 DEF ReservedBy
      <3> QED
        BY <3>1, <3>2
    <2> QED
      BY <2>7, <2>12, <2>13 DEF NamesInv
  <1>5. ASSUME NEW w \in Worker, Names!LockForAlias(w)
        PROVE  NamesInv'
    <2> DEFINE n == proc[w].name
    <2>1. proc[w].at = "alias" /\ surfaceLock[n] = None /\ n \in Surface /\ entity' = entity
      BY <1>0, <1>5 DEF Names!LockForAlias, Names!Free
    <2>2. \/ proc' = [proc EXCEPT ![w] = Names!Idle] /\ surfaceLock' = surfaceLock
          \/ proc' = [proc EXCEPT ![w] = [@ EXCEPT !.at = "refresh"]] /\ surfaceLock' = surfaceLock
          \/ /\ proc' = [proc EXCEPT ![w] = [@ EXCEPT !.at = "add"]]
             /\ surfaceLock' = [surfaceLock EXCEPT ![n] = w]
             /\ Names!Bearers({n}) = {}
      BY <1>5 DEF Names!LockForAlias, Names!Goes
    <2>3. CASE proc' = [proc EXCEPT ![w] = Names!Idle] /\ surfaceLock' = surfaceLock
      BY <2>1, <2>3, IdleWork, WorkerGoes
    <2>4. CASE proc' = [proc EXCEPT ![w] = [@ EXCEPT !.at = "refresh"]] /\ surfaceLock' = surfaceLock
      <3> DEFINE next == [proc[w] EXCEPT !.at = "refresh"]
      <3>1. next \in Work /\ next.at = "refresh" /\ proc' = [proc EXCEPT ![w] = next]
        BY <1>0, <2>4 DEF Work
      <3> HIDE DEF next
      <3> QED
        BY <2>1, <2>4, <3>1, WorkerGoes
    <2>5. CASE /\ proc' = [proc EXCEPT ![w] = [@ EXCEPT !.at = "add"]]
               /\ surfaceLock' = [surfaceLock EXCEPT ![n] = w]
               /\ Names!Bearers({n}) = {}
      <3>1. /\ proc' \in [Worker -> Work] /\ proc'[w].at = "add" /\ proc'[w].name = n
            /\ \A u \in Worker \ {w} : proc'[u] = proc[u]
        BY <1>0, <2>5 DEF Work
      <3>2. NamesTypeOK'
        BY <1>0, <2>1, <2>5, <3>1 DEF NamesTypeOK
      <3>3. \A e \in Names!Live : n \notin entity[e].added
        BY <2>5 DEF Names!Bearers, Names!Called
      <3>4. \A s : Names!Named(s)' = Names!Named(s)
        BY <2>1 DEF Names!Named, Names!Live
      <3>5. Names!Live' = Names!Live
        BY <2>1 DEF Names!Live
      <3>6. ReservedBy(w)'
        BY <1>0, <2>1, <2>5, <3>1, <3>3, <3>5 DEF ReservedBy
      <3>7. ASSUME NEW u \in Worker \ {w}
            PROVE  ReservedBy(u)'
        <4>1. ReservedBy(u) /\ proc'[u] = proc[u] /\ u # None
          BY <3>1, KnowledgeBaseAssumption DEF NamesInv
        <4>2. proc[u].at \in {"insert", "add"} => proc[u].name # n /\ proc[u].name \in Surface
          BY <1>0, <2>1, <4>1 DEF ReservedBy
        <4> QED
          BY <1>0, <2>1, <2>5, <3>4, <3>5, <4>1, <4>2 DEF ReservedBy
      <3>8. Unique'
        BY <2>1, <3>4, <3>5 DEF NamesInv, Unique
      <3> QED
        BY <3>2, <3>6, <3>7, <3>8 DEF NamesInv
    <2> QED
      BY <2>2, <2>3, <2>4, <2>5
  <1>6. ASSUME NEW w \in Worker, Names!Add(w)
        PROVE  NamesInv'
    <2> DEFINE n == proc[w].name
               e == proc[w].target
    <2>1. /\ proc[w].at = "add" /\ surfaceLock' = [surfaceLock EXCEPT ![n] = None]
          /\ n \in Surface
      BY <1>0, <1>6 DEF Names!Add
    <2>2. \/ /\ e \in Names!Live
             /\ entity' = [entity EXCEPT ![e].added = @ \cup {n}]
             /\ proc' = [proc EXCEPT ![w] = [@ EXCEPT !.at = "refresh"]]
          \/ entity' = entity /\ proc' = [proc EXCEPT ![w] = Names!Idle]
      <3>1. CASE e \in Names!Live
        BY <1>6, <3>1 DEF Names!Add, Names!Goes
      <3>2. CASE e \notin Names!Live
        BY <1>6, <3>2 DEF Names!Add
      <3> QED
        BY <3>1, <3>2
    <2> HIDE DEF n, e
    <2>3. /\ proc' \in [Worker -> Work] /\ proc'[w].at \in {"idle", "refresh"}
          /\ \A u \in Worker \ {w} : proc'[u] = proc[u]
      BY <1>0, <2>2, IdleWork DEF Work
    <2>4. /\ entity' \in [Names!Id -> EntityRow \cup {None}]
          /\ \A x \in Names!Live' : /\ x \in Names!Live /\ entity'[x].name = entity[x].name
                                    /\ entity'[x].added \subseteq
                                         entity[x].added \cup (IF x = e THEN {n} ELSE {})
      <3>1. CASE entity' = entity
        BY <1>0, <3>1 DEF Names!Live
      <3>2. CASE /\ e \in Names!Live
                 /\ entity' = [entity EXCEPT ![e].added = @ \cup {n}]
        <4>1. e \in Names!Id /\ entity[e] \in EntityRow
          BY <1>0, <3>2 DEF Names!Live
        <4>2. /\ entity'[e] = [entity[e] EXCEPT !.added = entity[e].added \cup {n}]
              /\ \A x \in Names!Id \ {e} : entity'[x] = entity[x]
          BY <1>0, <3>2, <4>1
        <4>3. /\ entity'[e] \in EntityRow /\ entity'[e].name = entity[e].name
              /\ entity'[e].added = entity[e].added \cup {n}
          BY <2>1, <4>1, <4>2 DEF EntityRow
        <4>4. entity' \in [Names!Id -> EntityRow \cup {None}]
          BY <1>0, <3>2, <4>2, <4>3
        <4>5. Names!Live' \subseteq Names!Live
          BY <3>2, <4>2 DEF Names!Live, Names!Gone
        <4> QED
          BY <4>1, <4>2, <4>3, <4>4, <4>5 DEF Names!Live
      <3> QED
        BY <2>2, <3>1, <3>2
    <2>5. NamesTypeOK'
      BY <1>0, <2>1, <2>3, <2>4 DEF NamesTypeOK
    <2>6. \A s \in Surface : Names!Named(s)' \subseteq Names!Named(s)
      BY <2>4 DEF Names!Named
    <2>7. /\ surfaceLock[n] = w
          /\ \A x \in Names!Live : n \notin entity[x].added
      BY <2>1 DEF NamesInv, ReservedBy, n
    <2>8. Unique'
      <3>1. \A s \in Surface : \A x, y \in Names!Live' :
               s \in entity'[x].added /\ s \in entity'[y].added => x = y
        <4> SUFFICES ASSUME NEW s \in Surface, NEW x \in Names!Live', NEW y \in Names!Live',
                            s \in entity'[x].added, s \in entity'[y].added
                     PROVE  x = y
          OBVIOUS
        <4>1. CASE s = n
          BY <2>4, <2>7, <4>1
        <4>2. CASE s # n
          BY <2>4, <4>2 DEF NamesInv, Unique
        <4> QED
          BY <4>1, <4>2
      <3> QED
        BY <2>6, <3>1 DEF NamesInv, Unique
    <2>9. ASSUME NEW u \in Worker
          PROVE  ReservedBy(u)'
      <3>1. CASE u = w
        BY <2>3, <3>1 DEF ReservedBy
      <3>2. CASE u # w
        <4>1. ReservedBy(u) /\ proc'[u] = proc[u]
          BY <2>3, <3>2 DEF NamesInv
        <4>2. proc[u].at \in {"insert", "add"} => proc[u].name # n /\ proc[u].name \in Surface
          BY <1>0, <2>7, <3>2, <4>1 DEF ReservedBy
        <4> QED
          BY <1>0, <2>1, <2>4, <2>6, <4>1, <4>2 DEF ReservedBy
      <3> QED
        BY <3>1, <3>2
    <2> QED
      BY <2>5, <2>8, <2>9 DEF NamesInv
  <1>7. ASSUME NEW w \in Worker, Names!ReadNames(w) \/ Names!Embed(w)
        PROVE  NamesInv'
    <2> DEFINE e == proc[w].target
    <2>1. /\ entity' = entity /\ surfaceLock' = surfaceLock
          /\ \/ proc' = [proc EXCEPT ![w] = Names!Idle]
             \/ /\ proc' = [proc EXCEPT ![w].at = "embed", ![w].text = Names!Called(e)]
                /\ e \in Names!Live
      BY <1>7 DEF Names!ReadNames, Names!Embed
    <2>2. CASE proc' = [proc EXCEPT ![w] = Names!Idle]
      BY <2>1, <2>2, IdleWork, WorkerGoes
    <2>3. CASE proc' = [proc EXCEPT ![w].at = "embed", ![w].text = Names!Called(e)] /\ e \in Names!Live
      <3>1. Names!Called(e) \in SUBSET (Surface \cup {None})
        BY <1>0, <2>3 DEF Names!Called, Names!Live, EntityRow
      <3> DEFINE s == Names!Called(e)
                 next == [proc[w] EXCEPT !.at = "embed", !.text = s]
      <3> HIDE DEF s
      <3>2. next \in Work /\ next.at = "embed"
        BY <1>0, <3>1 DEF Work, s
      <3>3. proc' = [proc EXCEPT ![w] = next]
        BY <1>0, <2>3 DEF Work, s
      <3> HIDE DEF next
      <3> QED
        BY <2>1, <3>2, <3>3, WorkerGoes
    <2> QED
      BY <2>1, <2>2, <2>3
  <1>8. ASSUME NEW w \in Worker, NEW e \in Names!Id, NEW s \in Surface, Names!DeleteAlias(w, e, s)
        PROVE  NamesInv'
    <2>1. /\ e \in Names!Live /\ surfaceLock' = surfaceLock
          /\ entity' = [entity EXCEPT ![e].born = @ \ {s}, ![e].added = @ \ {s}]
          /\ Names!Heads(w, "refresh", e)
      BY <1>8 DEF Names!DeleteAlias
    <2>2. e \in Int
      BY KnowledgeBaseAssumption DEF Names!Id
    <2>3. proc' = [proc EXCEPT ![w] = [@ EXCEPT !.at = "refresh", !.target = e]]
      BY <1>0, <2>1 DEF Names!Heads, Work
    <2>4. /\ proc' \in [Worker -> Work] /\ proc'[w].at = "refresh"
          /\ \A u \in Worker \ {w} : proc'[u] = proc[u]
      BY <1>0, <2>2, <2>3 DEF Work
    <2>5. entity[e] \in EntityRow
      BY <1>0, <2>1 DEF Names!Live
    <2>6. DOMAIN entity' = Names!Id /\ \A x \in Names!Id \ {e} : entity'[x] = entity[x]
      BY <1>0, <2>1
    <2>7. entity'[e] = [entity[e] EXCEPT !.born = entity[e].born \ {s},
                                         !.added = entity[e].added \ {s}]
      BY <1>0, <2>1, <2>5 DEF EntityRow
    <2>8. /\ entity'[e] \in EntityRow /\ entity'[e].name = entity[e].name
          /\ entity'[e].added \subseteq entity[e].added
      BY <2>5, <2>7 DEF EntityRow
    <2>9. entity' \in [Names!Id -> EntityRow \cup {None}]
      BY <1>0, <2>1, <2>6, <2>8
    <2>10. NamesTypeOK'
      BY <1>0, <2>1, <2>4, <2>9 DEF NamesTypeOK
    <2>11. Names!Live' \subseteq Names!Live
      BY <2>1, <2>6 DEF Names!Live
    <2>12. \A x \in Names!Live' : /\ x \in Names!Live /\ entity'[x].name = entity[x].name
                                  /\ entity'[x].added \subseteq entity[x].added
      BY <2>6, <2>8, <2>11 DEF Names!Live
    <2> QED
      BY <2>1, <2>4, <2>10, <2>12, FewerNames
  <1>9. ASSUME NEW e \in Names!Id, Names!DeleteEntity(e)
        PROVE  NamesInv'
    <2>1. /\ entity' = [entity EXCEPT ![e] = Names!Gone]
          /\ surfaceLock' = surfaceLock /\ proc' = proc
      BY <1>9 DEF Names!DeleteEntity
    <2>2. Names!Gone \in EntityRow
      BY DEF Names!Gone, EntityRow
    <2>3. NamesTypeOK'
      BY <1>0, <2>1, <2>2 DEF NamesTypeOK
    <2>4. \A x \in Names!Live' : x \in Names!Live /\ entity'[x] = entity[x]
      BY <1>0, <2>1 DEF Names!Live
    <2> QED
      BY <2>1, <2>3, <2>4, FewerNames
  <1> QED
    BY <1>1, <1>2, <1>3, <1>4, <1>5, <1>6, <1>7, <1>8, <1>9 DEF Names!Next, Names!Names

\* Workers that resolve, create and confirm names (resolve_candidate, _create_new, add_alias) while
\* others delete agree on what a name means, for any number of workers, names and entities: one
\* entity bears it, and it is confirmed as a synonym of one at most.
THEOREM NamesAreUnique == Spec => []NamesAgree
  <1>1. Init => (part = "entities" => NamesInv)
    <2> SUFFICES ASSUME Init
                 PROVE  NamesInv
      OBVIOUS
    <2>1. Names!Init
      BY DEF Init
    <2>2. NamesTypeOK
      BY <2>1, IdleWork DEF Names!Init, NamesTypeOK
    <2>3. Names!Live = {}
      BY <2>1 DEF Names!Init, Names!Live
    <2>4. \A w \in Worker : proc[w].at = "idle"
      BY <2>1, IdleWork DEF Names!Init
    <2> QED
      BY <2>2, <2>3, <2>4 DEF NamesInv, Unique, Names!Named, ReservedBy
  <1>2. (part = "entities" => NamesInv) /\ [Next]_vars => (part = "entities" => NamesInv)'
    <2> SUFFICES ASSUME [Next]_vars, part = "entities", NamesInv
                 PROVE  NamesInv'
      BY PartSteps
    <2>1. CASE Names!Next
      BY <2>1, NamesStep
    <2>2. CASE UNCHANGED <<entity, embedding, surfaceLock, proc, deletions>>
      BY <2>2, FewerNames DEF NamesInv, NamesTypeOK, Names!Live
    <2> QED
      BY <2>1, <2>2, PartSteps
  <1>3. (part = "entities" => NamesInv) => NamesAgree
    <2> SUFFICES ASSUME NamesInv, NEW s \in Surface
                 PROVE  /\ Names!Cardinality(Names!Named(s)) <= 1
                        /\ Names!Cardinality({e \in Names!Live : s \in entity[e].added}) <= 1
      BY DEF NamesAgree, Names!NamesAgree
    <2> DEFINE added == {e \in Names!Live : s \in entity[e].added}
    <2>1. Names!Named(s) \in SUBSET Names!Id /\ added \in SUBSET Names!Id
      BY DEF Names!Named, Names!Live
    <2>2. (\A e, f \in Names!Named(s) : e = f) /\ (\A e, f \in added : e = f)
      BY DEF NamesInv, Unique
    <2> HIDE DEF added
    <2>3. Names!Cardinality(Names!Named(s)) <= 1 /\ Names!Cardinality(added) <= 1
      BY <2>1, <2>2, CardinalityOne
    <2> QED
      BY <2>3 DEF added
  <1> QED
    BY <1>1, <1>2, <1>3, PTL DEF Spec

-----------------------------------------------------------------------------
(* The status of a build, read while the file changes.                     *)

\* The derivatives are those of the content, or gone; what was answered stays what was read.
StatusInv ==
    /\ built \in [content : Content, version : Nat \ {0}, chunks : Nat]
    /\ built.chunks \in {0, built.version}
    /\ {"answer", "seen"} \subseteq DOMAIN reader
    /\ reader.answer = "built" => reader.seen.of = reader.seen.current

LEMMA StatusStep ==
    ASSUME StatusInv, Status!Next
    PROVE  StatusInv'
  <1>1. ASSUME NEW kind, Status!Begin(kind)
        PROVE  StatusInv'
    BY <1>1 DEF StatusInv, Status!Begin
  <1>2. ASSUME NEW c \in Content, Status!Update(c)
        PROVE  StatusInv'
    <2>1. /\ reader' = reader
          /\ \/ built' = built
             \/ built' = [content |-> c, version |-> built.version + 1, chunks |-> 0]
      BY <1>2 DEF Status!Update
    <2> QED
      BY <2>1 DEF StatusInv
  <1>3. ASSUME NEW force, Status!Accept(force)
        PROVE  StatusInv'
    BY <1>3 DEF StatusInv, Status!Accept
  <1>4. ASSUME NEW i, Status!Claim(i) \/ Status!Fail(i)
        PROVE  StatusInv'
    BY <1>4 DEF StatusInv, Status!Claim, Status!Fail
  <1>5. ASSUME NEW i, Status!Prepare(i) \/ Status!Succeed(i)
        PROVE  StatusInv'
    <2>1. /\ reader' = reader
          /\ \/ built' = [built EXCEPT !.chunks = 0]
             \/ built' = [built EXCEPT !.chunks = built.version]
      BY <1>5 DEF Status!Prepare, Status!Succeed
    <2> QED
      BY <2>1 DEF StatusInv
  <1>6. ASSUME NEW kind, Status!Ask(kind)
        PROVE  StatusInv'
    BY <1>6, KnowledgeBaseAssumption DEF StatusInv, Status!Ask, Status!Reads, Status!Nobody
  <1>7. CASE Status!FindTask
    <2> DEFINE i == IF reader.asks = "status" THEN Status!LatestCurrent
                    ELSE Status!Latest(DOMAIN tasks)
               a == IF i = 0 \/ tasks[i].status # "succeeded" THEN "not built" ELSE None
    <2>1. reader' = [reader EXCEPT !.task = i, !.answer = a] /\ built' = built
      BY <1>7 DEF Status!FindTask, Status!Reads
    <2>2. a \in {"not built", None}
      OBVIOUS
    <2> HIDE DEF i, a
    <2> QED
      BY <2>1, <2>2, KnowledgeBaseAssumption DEF StatusInv
  <1>8. CASE Status!FindArtifacts
    <2>1. PICK a \in {"built", "not built"} :
             /\ reader' = [reader EXCEPT !.answer = a,
                                         !.seen = [of |-> built.chunks, current |-> built.version]]
             /\ built' = built
             /\ a = "built" => built.chunks # 0
      BY <1>8 DEF Status!FindArtifacts, Status!Reads, Status!Complete
    <2> QED
      BY <2>1 DEF StatusInv
  <1>9. CASE Status!Done
    BY <1>9, KnowledgeBaseAssumption DEF StatusInv, Status!Done, Status!Reads, Status!Nobody
  <1> QED
    BY <1>1, <1>2, <1>3, <1>4, <1>5, <1>6, <1>7, <1>8, <1>9 DEF Status!Next

\* Who is told by fileBuildStatus or buildResult that a file is built was answered while all
\* derivatives of the content that the file then had were there, whatever committed between the
\* statements, for any number of updates, acceptances and tasks.
THEOREM NoBuildRevived == Spec => []NothingRevived
  <1>1. Init => (part = "status" => StatusInv)
    BY KnowledgeBaseAssumption DEF Init, Status!Init, Status!Nobody, StatusInv
  <1>2. (part = "status" => StatusInv) /\ [Next]_vars => (part = "status" => StatusInv)'
    <2> SUFFICES ASSUME [Next]_vars, part = "status", StatusInv
                 PROVE  StatusInv'
      BY PartSteps
    <2>1. CASE Status!Next
      BY <2>1, StatusStep
    <2>2. CASE UNCHANGED <<now, built, changes, tasks, begun, reader>>
      BY <2>2 DEF StatusInv
    <2> QED
      BY <2>1, <2>2, PartSteps
  <1>3. (part = "status" => StatusInv) => NothingRevived
    BY DEF StatusInv, NothingRevived, Status!NothingRevived
  <1> QED
    BY <1>1, <1>2, <1>3, PTL DEF Spec

-----------------------------------------------------------------------------
(* The progress of a batch, read bit by bit while its jobs go on.          *)

\* The jobs of a batch b that have one of the statuses.
JobsIn(b, S) == {j \in Shown!JobsOf(b) : state[j] \in S}
Size(b, S)   == Cardinality(JobsIn(b, S))

LEMMA Sizes ==
    ASSUME NEW b, NEW S
    PROVE  /\ IsFiniteSet(JobsIn(b, S)) /\ Size(b, S) \in Nat
           /\ asked.batch = b => Shown!In(S) = Size(b, S)
  <1>1. JobsIn(b, S) \in SUBSET Job
    BY DEF JobsIn, Shown!JobsOf
  <1>2. IsFiniteSet(JobsIn(b, S)) /\ Size(b, S) \in Nat
    BY <1>1, KnowledgeBaseAssumption, FS_Subset, FS_CardinalityType DEF Size
  <1>3. ASSUME asked.batch = b
        PROVE  Shown!In(S) = Size(b, S)
    <2>1. Shown!Filtered(S) = JobsIn(b, S)
      BY <1>3 DEF Shown!Filtered, JobsIn
    <2>2. Shown!Cardinality(JobsIn(b, S)) = Cardinality(JobsIn(b, S))
      BY Zenon DEF Shown!Cardinality, Cardinality
    <2> QED
      BY <2>1, <2>2 DEF Shown!In, Size
  <1> QED
    BY <1>2, <1>3

LEMMA Disjoint ==
    ASSUME NEW S, NEW T, IsFiniteSet(S), IsFiniteSet(T), S \cap T = {}
    PROVE  /\ IsFiniteSet(S \cup T) /\ Cardinality(S) \in Nat /\ Cardinality(T) \in Nat
           /\ Cardinality(S \cup T) = Cardinality(S) + Cardinality(T)
  <1>1. Cardinality(S) \in Nat /\ Cardinality(T) \in Nat
    BY FS_CardinalityType
  <1>2. Cardinality(S \cap T) = 0
    BY FS_EmptySet
  <1>3. /\ IsFiniteSet(S \cup T)
        /\ Cardinality(S \cup T) = Cardinality(S) + Cardinality(T) - Cardinality(S \cap T)
    BY FS_Union
  <1> QED
    BY <1>1, <1>2, <1>3

\* The jobs that exist are those that are pending, run or have ended.
LEMMA Adds ==
    ASSUME NEW b, state \in [Job -> Shown!JobState]
    PROVE  /\ Size(b, {"pending"}) + Size(b, {"running"}) + Size(b, {"ended"})
                 = Size(b, Shown!Existing)
           /\ Size(b, {"pending"}) + Size(b, {"running"}) = 0
                 <=> JobsIn(b, Shown!Unended) = {}
  <1> DEFINE P == JobsIn(b, {"pending"})
             R == JobsIn(b, {"running"})
             E == JobsIn(b, {"ended"})
  <1>1. /\ IsFiniteSet(P) /\ IsFiniteSet(R) /\ IsFiniteSet(E)
        /\ Cardinality(P) \in Nat /\ Cardinality(R) \in Nat /\ Cardinality(E) \in Nat
    BY Sizes DEF Size
  <1>2. /\ P \cap R = {} /\ (P \cup R) \cap E = {}
        /\ P \cup R = JobsIn(b, Shown!Unended)
        /\ (P \cup R) \cup E = JobsIn(b, Shown!Existing)
    BY DEF JobsIn, Shown!JobsOf, Shown!Existing, Shown!JobState, Shown!Unended
  <1> HIDE DEF P, R, E
  <1>3. /\ IsFiniteSet(P \cup R)
        /\ Cardinality(P \cup R) = Cardinality(P) + Cardinality(R)
    BY <1>1, <1>2, Disjoint
  <1>4. Cardinality((P \cup R) \cup E) = Cardinality(P \cup R) + Cardinality(E)
    BY <1>1, <1>2, <1>3, Disjoint
  <1>5. Cardinality(P \cup R) = 0 <=> P \cup R = {}
    BY <1>3, FS_EmptySet
  <1> QED
    BY <1>1, <1>2, <1>3, <1>4, <1>5 DEF Size, P, R, E

\* What was found of the batch can still be found, and more of it has ended.
FoundRight(b) ==
    /\ asked # None /\ asked.kind = "batch" /\ asked.statuses = Shown!Existing
    /\ found.completed \in Nat /\ found.completed <= Size(b, {"ended"})
    /\ JobsIn(b, Shown!Existing) # {} /\ found.total = Size(b, Shown!Existing)
    /\ ~found.open => JobsIn(b, Shown!Unended) = {}

CountsRight ==
    /\ found # None
    /\ found.completed <= counts.ended
    /\ ~found.open => counts.pending + counts.running = 0
    /\ counts.pending + counts.running + counts.ended = found.total

TotalRight(b) ==
    /\ asked # None /\ asked.kind = "tasks" /\ total \in Nat
    /\ asked.statuses = {"ended"} => total <= Size(b, {"ended"})

ProgressInv ==
    /\ state \in [Job -> Shown!JobState]
    /\ open = {b \in Batch : JobsIn(b, Shown!Unended) # {}}
    /\ asked = None => Shown!NothingRead
    /\ asked # None =>
          /\ asked.batch \in Batch
          /\ asked.kind = "batch" => asked.statuses = Shown!Existing
    /\ found # None => FoundRight(asked.batch)
    /\ counts # None => CountsRight
    /\ total # None => TotalRight(asked.batch)
    /\ page # None =>
          /\ counts # None \/ total # None
          /\ found # None => page = found.total
          /\ total # None /\ asked.statuses = {"ended"} => total <= page

\* The jobs of a batch that exists go on together, and never back.
LEMMA BatchGoesOn ==
    ASSUME NEW b, state \in [Job -> Shown!JobState], Shown!Next
    PROVE  /\ JobsIn(b, {"ended"}) \subseteq JobsIn(b, {"ended"})'
           /\ JobsIn(b, Shown!Existing) # {} =>
                 /\ JobsIn(b, Shown!Existing)' = JobsIn(b, Shown!Existing)
                 /\ JobsIn(b, Shown!Unended)' \subseteq JobsIn(b, Shown!Unended)
  <1> USE DEF JobsIn, Shown!JobsOf, Shown!Existing, Shown!JobState, Shown!Unended
  <1>1. ASSUME NEW j \in Job, Shown!EndsOrStays(j)
        PROVE  /\ state'[j] = state[j] \/ (state[j] \in {"pending", "running"} /\ state'[j] = "ended")
    BY <1>1 DEF Shown!EndsOrStays, Shown!Stays
  <1>2. CASE Shown!End
    BY <1>1, <1>2 DEF Shown!End
  <1>3. ASSUME NEW i \in Job, Shown!Start(i)
        PROVE  /\ state[i] = "pending" /\ state'[i] = "running"
               /\ \A j \in Job \ {i} : state'[j] = state[j]
    BY <1>3 DEF Shown!Start, Shown!Stays
  <1>4. ASSUME NEW c \in Batch, Shown!Submit(c)
        PROVE  /\ \A j \in Shown!JobsOf(c) : state[j] = "absent"
               /\ \A j \in Job \ Shown!JobsOf(c) :
                     state'[j] = state[j] \/ (state[j] \in {"pending", "running"} /\ state'[j] = "ended")
    BY <1>1, <1>4 DEF Shown!Submit
  <1>5. ASSUME NEW i \in Job, Shown!Start(i)
        PROVE  /\ JobsIn(b, {"ended"}) \subseteq JobsIn(b, {"ended"})'
               /\ JobsIn(b, Shown!Existing)' = JobsIn(b, Shown!Existing)
               /\ JobsIn(b, Shown!Unended)' \subseteq JobsIn(b, Shown!Unended)
    BY <1>3, <1>5
  <1>6. ASSUME NEW c \in Batch, Shown!Submit(c)
        PROVE  /\ JobsIn(b, {"ended"}) \subseteq JobsIn(b, {"ended"})'
               /\ JobsIn(b, Shown!Existing) # {} =>
                     /\ JobsIn(b, Shown!Existing)' = JobsIn(b, Shown!Existing)
                     /\ JobsIn(b, Shown!Unended)' \subseteq JobsIn(b, Shown!Unended)
    <2>1. CASE b = c
      BY <1>4, <1>6, <2>1
    <2>2. CASE b # c
      <3>1. \A j \in Shown!JobsOf(b) : j \in Job \ Shown!JobsOf(c)
        BY <2>2
      <3> QED
        BY <1>4, <1>6, <3>1
    <2> QED
      BY <2>1, <2>2
  <1> QED
    BY <1>2, <1>5, <1>6 DEF Shown!Next

LEMMA JobsMove ==
    ASSUME ProgressInv, Shown!Next, UNCHANGED <<asked, found, counts, total, page>>
    PROVE  ProgressInv'
  <1> DEFINE b == asked.batch
  <1>1. /\ JobsIn(b, {"ended"}) \subseteq JobsIn(b, {"ended"})'
        /\ JobsIn(b, Shown!Existing) # {} =>
              /\ JobsIn(b, Shown!Existing)' = JobsIn(b, Shown!Existing)
              /\ JobsIn(b, Shown!Unended)' \subseteq JobsIn(b, Shown!Unended)
    BY BatchGoesOn DEF ProgressInv, JobsIn
  <1>2. Size(b, {"ended"}) <= Size(b, {"ended"})' /\ Size(b, {"ended"})' \in Nat
        /\ Size(b, {"ended"}) \in Nat
    <2>1. JobsIn(b, {"ended"})' \in SUBSET Job
      BY DEF JobsIn, Shown!JobsOf
    <2>2. IsFiniteSet(JobsIn(b, {"ended"})')
      BY <2>1, KnowledgeBaseAssumption, FS_Subset
    <2>3. Cardinality(JobsIn(b, {"ended"})) <= Cardinality(JobsIn(b, {"ended"})')
      BY <1>1, <2>2, FS_Subset
    <2>4. Cardinality(JobsIn(b, {"ended"})') \in Nat
      BY <2>2, FS_CardinalityType
    <2> QED
      BY <2>3, <2>4, Sizes DEF Size
  <1>3. found # None => FoundRight(b)'
    <2> SUFFICES ASSUME found # None
                 PROVE  FoundRight(b)'
      OBVIOUS
    <2>1. FoundRight(b)
      BY DEF ProgressInv
    <2>2. JobsIn(b, Shown!Existing)' = JobsIn(b, Shown!Existing)
      BY <1>1, <2>1 DEF FoundRight
    <2>3. Size(b, Shown!Existing)' = Size(b, Shown!Existing)
      BY <2>2 DEF Size
    <2>4. found.completed \in Nat /\ found.completed <= Size(b, {"ended"})'
      BY <1>2, <2>1 DEF FoundRight
    <2> QED
      BY <1>1, <2>1, <2>2, <2>3, <2>4 DEF FoundRight
  <1>4. total # None => TotalRight(b)'
    <2> SUFFICES ASSUME total # None
                 PROVE  TotalRight(b)'
      OBVIOUS
    <2>1. TotalRight(b)
      BY DEF ProgressInv
    <2> QED
      BY <1>2, <2>1 DEF TotalRight
  <1>5. state' \in [Job -> Shown!JobState]
    BY DEF Shown!Next
  <1>6. open' = {c \in Batch : JobsIn(c, Shown!Unended)' # {}}
    BY DEF Shown!Next, Shown!OpenFollows, JobsIn
  <1>7. counts # None => CountsRight'
    BY DEF ProgressInv, CountsRight
  <1>8. asked = None => Shown!NothingRead'
    BY DEF ProgressInv, Shown!NothingRead
  <1> HIDE DEF b
  <1>9. asked' = asked /\ found' = found /\ counts' = counts /\ total' = total /\ page' = page
    OBVIOUS
  <1> QED
    BY <1>3, <1>4, <1>5, <1>6, <1>7, <1>8, <1>9 DEF ProgressInv, b

LEMMA CallerReads ==
    ASSUME ProgressInv,
           \/ \E b \in Batch : Shown!AskBatch(b)
           \/ \E b \in Batch, S \in {Shown!Unended, {"ended"}} : Shown!AskTasks(b, S)
           \/ Shown!FindBatch \/ Shown!CountTasks \/ Shown!CountListed \/ Shown!ListTasks
           \/ Shown!Answer
    PROVE  ProgressInv'
  <1> DEFINE b == asked.batch
  <1>0. UNCHANGED <<state, open>>
    BY DEF Shown!AskBatch, Shown!AskTasks, Shown!FindBatch, Shown!CountTasks, Shown!CountListed,
           Shown!ListTasks, Shown!Answer, Shown!work
  <1>1. \A c, S : JobsIn(c, S)' = JobsIn(c, S) /\ Size(c, S)' = Size(c, S)
    BY <1>0 DEF JobsIn, Shown!JobsOf, Size
  <1>2. /\ state' \in [Job -> Shown!JobState]
        /\ open' = {c \in Batch : JobsIn(c, Shown!Unended)' # {}}
    BY <1>0, <1>1 DEF ProgressInv
  <1>3. ASSUME NEW c \in Batch, Shown!AskBatch(c)
        PROVE  ProgressInv'
    <2>1. /\ asked = None /\ UNCHANGED <<found, counts, total, page>>
          /\ asked' = [batch |-> c, statuses |-> Shown!Existing, kind |-> "batch"]
      BY <1>3 DEF Shown!AskBatch, Shown!Nothing
    <2>2. Shown!NothingRead /\ Shown!NothingRead'
      BY <2>1 DEF ProgressInv, Shown!NothingRead
    <2> QED
      BY <1>2, <2>1, <2>2 DEF ProgressInv, Shown!NothingRead
  <1>4. ASSUME NEW c \in Batch, NEW S, Shown!AskTasks(c, S)
        PROVE  ProgressInv'
    <2>1. /\ asked = None /\ UNCHANGED <<found, counts, total, page>>
          /\ asked' = [batch |-> c, statuses |-> S, kind |-> "tasks"]
      BY <1>4 DEF Shown!AskTasks, Shown!Nothing
    <2>2. Shown!NothingRead /\ Shown!NothingRead'
      BY <2>1 DEF ProgressInv, Shown!NothingRead
    <2> QED
      BY <1>2, <2>1, <2>2 DEF ProgressInv, Shown!NothingRead
  <1>5. CASE Shown!FindBatch
    <2>1. /\ asked # None /\ asked.kind = "batch" /\ found = None
          /\ UNCHANGED <<asked, counts, total, page>> /\ Shown!In(Shown!Existing) > 0
          /\ found' = [open |-> b \in open, completed |-> Shown!In({"ended"}),
                        total |-> Shown!In(Shown!Existing)]
      BY <1>5 DEF Shown!FindBatch, Shown!Nothing
    <2>2. /\ Shown!In(Shown!Existing) = Size(b, Shown!Existing) /\ Size(b, Shown!Existing) \in Nat
          /\ Shown!In({"ended"}) = Size(b, {"ended"}) /\ Size(b, {"ended"}) \in Nat
      BY Sizes
    <2>3. JobsIn(b, Shown!Existing) # {}
      BY <2>1, <2>2, FS_EmptySet DEF Size
    <2>4. b \in Batch /\ asked.statuses = Shown!Existing
      BY <2>1 DEF ProgressInv
    <2>5. b \notin open => JobsIn(b, Shown!Unended) = {}
      BY <2>4 DEF ProgressInv
    <2> DEFINE isOpen == b \in open
               ended1 == Shown!In({"ended"})
               all == Shown!In(Shown!Existing)
    <2>6. found' = [open |-> isOpen, completed |-> ended1, total |-> all]
      BY <2>1
    <2> HIDE DEF isOpen, ended1, all
    <2>7. found'.completed = ended1 /\ found'.total = all /\ found'.open = isOpen
      BY <2>6
    <2>8. /\ found'.completed = Size(b, {"ended"}) /\ found'.total = Size(b, Shown!Existing)
          /\ ~found'.open => JobsIn(b, Shown!Unended) = {}
      BY <2>2, <2>5, <2>7 DEF isOpen, ended1, all
    <2>9. asked' = asked
      BY <2>1
    <2>10. FoundRight(b)'
      BY <1>1, <2>1, <2>2, <2>3, <2>4, <2>8, <2>9 DEF FoundRight
    <2>11. counts = None /\ total = None
      BY <2>1 DEF ProgressInv, CountsRight, TotalRight
    <2>12. page = None
      BY <2>11 DEF ProgressInv
    <2> QED
      BY <1>2, <2>1, <2>9, <2>10, <2>11, <2>12 DEF ProgressInv
  <1>6. CASE Shown!CountTasks
    <2>1. /\ found # None /\ counts' = Shown!Counted /\ UNCHANGED <<asked, found, total, page>>
      BY <1>6 DEF Shown!CountTasks
    <2>2. FoundRight(b)
      BY <2>1 DEF ProgressInv
    <2> DEFINE p == Shown!In({"pending"})
               r == Shown!In({"running"})
               e == Shown!In({"ended"})
    <2>3. /\ p = Size(b, {"pending"}) /\ r = Size(b, {"running"}) /\ e = Size(b, {"ended"})
      BY Sizes
    <2>4. p + r + e = Size(b, Shown!Existing) /\ (p + r = 0 <=> JobsIn(b, Shown!Unended) = {})
      BY <2>3, Adds DEF ProgressInv
    <2>5. counts' = [pending |-> p, running |-> r, ended |-> e]
      BY <2>1 DEF Shown!Counted
    <2> HIDE DEF p, r, e
    <2>6. counts'.pending = p /\ counts'.running = r /\ counts'.ended = e
      BY <2>5
    <2>7. CountsRight'
      <3>1. found' = found
        BY <2>1
      <3>2. found.completed <= e
        BY <2>2, <2>3 DEF FoundRight
      <3>3. ~found.open => p + r = 0
        BY <2>2, <2>4 DEF FoundRight
      <3>4. p + r + e = found.total
        BY <2>2, <2>4 DEF FoundRight
      <3> QED
        BY <2>1, <2>6, <3>1, <3>2, <3>3, <3>4 DEF CountsRight
    <2>8. FoundRight(b)'
      BY <1>1, <2>1, <2>2 DEF FoundRight
    <2>9. total = None
      BY <2>2 DEF ProgressInv, FoundRight, TotalRight
    <2>10. page = None \/ page = found.total
      BY <2>1 DEF ProgressInv
    <2>11. page # None => counts # None
      BY <2>9 DEF ProgressInv
    <2>12. counts = None
      BY <1>6 DEF Shown!CountTasks
    <2> QED
      BY <1>2, <2>1, <2>2, <2>7, <2>8, <2>9, <2>11, <2>12 DEF ProgressInv, FoundRight
  <1>7. CASE Shown!CountListed
    <2>1. /\ asked # None /\ asked.kind = "tasks" /\ total = None
          /\ total' = Shown!In(asked.statuses) /\ UNCHANGED <<asked, found, counts, page>>
      BY <1>7 DEF Shown!CountListed, Shown!Nothing
    <2>2. total' = Size(b, asked.statuses) /\ total' \in Nat
      BY <2>1, Sizes
    <2>3. TotalRight(b)'
      BY <1>1, <2>1, <2>2 DEF TotalRight
    <2>4. found = None
      BY <2>1 DEF ProgressInv, FoundRight
    <2>5. counts = None
      BY <2>4 DEF ProgressInv, CountsRight
    <2>6. page = None
      BY <2>1, <2>5 DEF ProgressInv
    <2> QED
      BY <1>2, <2>1, <2>3, <2>4, <2>5, <2>6 DEF ProgressInv
  <1>8. CASE Shown!ListTasks
    <2>1. /\ counts # None \/ total # None
          /\ page' = Shown!In(asked.statuses) /\ UNCHANGED <<asked, found, counts, total>>
      BY <1>8 DEF Shown!ListTasks
    <2>2. page' = Size(b, asked.statuses) /\ page' \in Nat
      BY <2>1, Sizes
    <2>3. found # None => FoundRight(b) /\ FoundRight(b)' /\ page' = found.total
      <3>1. found # None => FoundRight(b)
        BY DEF ProgressInv
      <3> QED
        BY <1>1, <2>1, <2>2, <3>1 DEF FoundRight
    <2>4. total # None => TotalRight(b)'
      <3>1. total # None => TotalRight(b)
        BY DEF ProgressInv
      <3> QED
        BY <1>1, <2>1, <3>1 DEF TotalRight
    <2>5. total # None /\ asked.statuses = {"ended"} => total <= page'
      BY <2>2 DEF ProgressInv, TotalRight
    <2>6. counts # None => CountsRight'
      BY <2>1 DEF ProgressInv, CountsRight
    <2>7. asked # None
      BY <2>1 DEF ProgressInv, CountsRight, FoundRight, TotalRight
    <2> QED
      BY <1>2, <2>1, <2>3, <2>4, <2>5, <2>6, <2>7 DEF ProgressInv
  <1>9. CASE Shown!Answer
    <2>1. asked' = None /\ found' = None /\ counts' = None /\ total' = None /\ page' = None
      BY <1>9 DEF Shown!Answer
    <2> QED
      BY <1>2, <2>1 DEF ProgressInv, Shown!NothingRead
  <1> QED
    BY <1>3, <1>4, <1>5, <1>6, <1>7, <1>8, <1>9

\* What a caller is told of a batch (get_batch, count_tasks_by_status, count_tasks, list_tasks) adds
\* up though the jobs go on between the statements, for any number of jobs and batches: no task
\* that the counters include is shown as unended, and no list is shorter than its total.
THEOREM ProgressAddsUp == Spec => []ProgressShown
  <1>1. Init => (part = "progress" => ProgressInv)
    <2> SUFFICES ASSUME Init
                 PROVE  ProgressInv
      OBVIOUS
    <2>1. Shown!Init /\ asked = None /\ Shown!NothingRead
      BY DEF Init, Shown!PInit, Shown!Nothing
    <2>2. \A c : JobsIn(c, Shown!Unended) = {}
      BY <2>1 DEF Shown!Init, JobsIn, Shown!JobsOf, Shown!Unended
    <2>3. state \in [Job -> Shown!JobState] /\ open = {}
      BY <2>1 DEF Shown!Init, Shown!JobState
    <2> QED
      BY <2>1, <2>2, <2>3 DEF ProgressInv, Shown!NothingRead
  <1>2. (part = "progress" => ProgressInv) /\ [Next]_vars => (part = "progress" => ProgressInv)'
    <2> SUFFICES ASSUME [Next]_vars, part = "progress", ProgressInv
                 PROVE  ProgressInv'
      BY PartSteps
    <2>1. CASE Shown!PNext
      BY <2>1, JobsMove, CallerReads DEF Shown!PNext
    <2>2. CASE UNCHANGED <<state, open, asked, found, counts, total, page>>
      BY <2>2 DEF ProgressInv, FoundRight, CountsRight, TotalRight, Shown!NothingRead, JobsIn,
                  Shown!JobsOf, Size
    <2> QED
      BY <2>1, <2>2, PartSteps
  <1>3. (part = "progress" => ProgressInv) => ProgressShown
    BY DEF ProgressInv, CountsRight, ProgressShown, Shown!ProgressShown
  <1> QED
    BY <1>1, <1>2, <1>3, PTL DEF Spec

-----------------------------------------------------------------------------
(* The runner and its terminal events.                                     *)

TaskRow == [status : {"pending", "running", "succeeded", "failed", "skipped"}, expired : BOOLEAN]
Coroutine == [at : {"none", "working", "finish", "file", "batch", "over"},
              outer : BOOLEAN, last : BOOLEAN, cut : BOOLEAN, own : BOOLEAN]

PoolTypeOK ==
    /\ row \in [Task -> TaskRow] /\ run \in [Task -> Coroutine]
    /\ written \in [Task -> Nat] /\ batch \in Nat

\* Whoever ended a task publishes its event: nobody before that, its coroutine when the task is
\* its own.  A heartbeat that finds the lease lost has not found a success.
EventsOf(t) ==
    LET r == run[t] IN
    /\ row[t].status = "pending" => r.at = "none"
    /\ r.own => Pool!Ended(t)
    /\ r.last => r.own
    /\ r.at \in {"none", "working"} => ~r.own
    /\ r.at = "finish" => r.outer
    /\ ~Pool!Ended(t) => written[t] = 0
    /\ written[t] <= 1
    /\ r.at = "file" => r.own /\ written[t] = 0
    /\ r.at = "batch" => r.own /\ r.last /\ written[t] = 1
    /\ t \in lost => Pool!Ended(t) /\ row[t].status # "succeeded"
    /\ r.own /\ Pool!InWorker(t) => row[t].status = "succeeded"
    /\ r.own /\ r.at = "finish" => r.cut
    /\ r.own /\ r.at = "over" /\ ~r.cut => written[t] = 1 /\ (r.last => batch = 1)

\* The commit that ends the last task is one, and its event is that of the batch.
BatchEvent ==
    /\ batch <= 1
    /\ \A t \in Task : ~Pool!Ended(t) => batch = 0 /\ \A u \in Task : ~run[u].last
    /\ \A t \in Task : run[t].last /\ run[t].at \in {"file", "batch"} => batch = 0
    /\ \A t, u \in Task : run[t].last /\ run[u].last => t = u

PoolInv == PoolTypeOK /\ BatchEvent /\ \A t \in Task : EventsOf(t)

\* What a coroutine does between commits: it keeps what it owns.
LEMMA CoroutineMoves ==
    ASSUME PoolInv, NEW t \in Task, NEW next \in Coroutine, run' = [run EXCEPT ![t] = next],
           UNCHANGED <<row, lost, written, batch>>,
           next.own = run[t].own, next.last = run[t].last,
           \/ next.at = "over" /\ (next.own => next.cut)
           \/ next.at = "over" /\ next.own /\ written[t] = 1 /\ ~next.last
           \/ next.at = "finish" /\ next.outer /\ (next.own => next.cut),
           row[t].status # "pending"
    PROVE  PoolInv'
  <1>1. /\ run'[t] = next /\ \A u \in Task \ {t} : run'[u] = run[u]
        /\ PoolTypeOK'
    BY DEF PoolInv, PoolTypeOK
  <1>2. \A u \in Task : Pool!Ended(u)' = Pool!Ended(u)
    BY DEF Pool!Ended
  <1>3. EventsOf(t)'
    BY <1>1, <1>2 DEF PoolInv, EventsOf, Pool!InWorker
  <1>4. \A u \in Task \ {t} : EventsOf(u)'
    BY <1>1, <1>2 DEF PoolInv, EventsOf, Pool!InWorker
  <1>5. BatchEvent'
    BY <1>1, <1>2 DEF PoolInv, BatchEvent
  <1> QED
    BY <1>1, <1>3, <1>4, <1>5 DEF PoolInv

\* A task is ended by its own coroutine, which is to publish.
LEMMA EndsItself ==
    ASSUME PoolInv, NEW t \in Task, ~Pool!Ended(t),
           run[t].at \in {"working", "finish"},
           NEW status \in {"succeeded", "failed"}, run[t].outer \/ status = "succeeded",
           Pool!End(t, status),
           run' = [run EXCEPT ![t] = [@ EXCEPT !.at = "file", !.last = Pool!Completes(t),
                                               !.own = TRUE]],
           UNCHANGED <<lost, written, batch>>
    PROVE  PoolInv'
  <1> DEFINE c == Pool!Completes(t)
             next == [run[t] EXCEPT !.at = "file", !.last = c, !.own = TRUE]
  <1>0. run \in [Task -> Coroutine] /\ row \in [Task -> TaskRow] /\ run[t] \in Coroutine
    BY DEF PoolInv, PoolTypeOK
  <1>1. c \in BOOLEAN /\ (c <=> \A u \in Task \ {t} : Pool!Ended(u))
    BY DEF Pool!Completes
  <1> HIDE DEF c
  <1>2. /\ next \in Coroutine /\ next.at = "file" /\ next.last = c /\ next.own = TRUE
        /\ next.outer = run[t].outer /\ next.cut = run[t].cut
    BY <1>0, <1>1 DEF Coroutine
  <1>3. run' = [run EXCEPT ![t] = next]
    BY DEF c
  <1> HIDE DEF next
  <1>4. /\ run'[t] = next /\ \A u \in Task \ {t} : run'[u] = run[u] /\ row'[u] = row[u]
        /\ row'[t].status = status /\ PoolTypeOK'
    BY <1>0, <1>2, <1>3 DEF PoolInv, PoolTypeOK, Pool!End, TaskRow
  <1>5. Pool!Ended(t)' /\ \A u \in Task \ {t} : Pool!Ended(u)' = Pool!Ended(u)
    BY <1>4 DEF Pool!Ended
  <1>6. batch = 0 /\ \A u \in Task : ~run[u].last
    BY DEF PoolInv, BatchEvent
  <1>7. written[t] = 0 /\ t \notin lost /\ row[t].status = "running"
    BY <1>0 DEF PoolInv, EventsOf, Pool!Ended
  <1>8. EventsOf(t)'
    BY <1>2, <1>4, <1>5, <1>7 DEF EventsOf, Pool!InWorker
  <1>9. \A u \in Task \ {t} : EventsOf(u)'
    BY <1>4, <1>5 DEF PoolInv, EventsOf, Pool!InWorker
  <1>10. BatchEvent'
    <2>1. batch' = 0
      BY <1>6
    <2>2. \A u \in Task \ {t} : ~run'[u].last
      BY <1>4, <1>6
    <2>3. run'[t].last = c
      BY <1>2, <1>4
    <2>4. \A u \in Task : ~Pool!Ended(u)' => \A v \in Task : ~run'[v].last
      BY <1>1, <1>5, <2>2, <2>3
    <2> QED
      BY <2>1, <2>2, <2>4 DEF BatchEvent
  <1> QED
    BY <1>4, <1>8, <1>9, <1>10 DEF PoolInv

\* A task is ended by another, which publishes at once.
LEMMA EndsElsewhere ==
    ASSUME PoolInv, NEW t \in Task, ~Pool!Ended(t), NEW status \in {"failed", "skipped"},
           Pool!EndedElsewhere(t, status)
    PROVE  PoolInv'
  <1>0. row \in [Task -> TaskRow] /\ written \in [Task -> Nat] /\ batch \in Nat
    BY DEF PoolInv, PoolTypeOK
  <1>1. batch = 0 /\ (\A u \in Task : ~run[u].last) /\ written[t] = 0
    BY DEF PoolInv, BatchEvent, EventsOf
  <1>2. /\ \A u \in Task \ {t} : row'[u] = row[u] /\ written'[u] = written[u]
        /\ row'[t].status = status /\ written'[t] = 1
        /\ row' \in [Task -> TaskRow] /\ written' \in [Task -> Nat]
        /\ run' = run /\ lost' = lost
    BY <1>0, <1>1 DEF Pool!EndedElsewhere, Pool!End, TaskRow
  <1>3. batch' = IF Pool!Completes(t) THEN 1 ELSE 0
    BY <1>1 DEF Pool!EndedElsewhere
  <1>4. Pool!Ended(t)' /\ \A u \in Task \ {t} : Pool!Ended(u)' = Pool!Ended(u)
    BY <1>2 DEF Pool!Ended
  <1>5. PoolTypeOK'
    BY <1>2, <1>3 DEF PoolInv, PoolTypeOK
  <1>6. ~run[t].own /\ t \notin lost
    BY DEF PoolInv, EventsOf
  <1>7. EventsOf(t)'
    BY <1>2, <1>4, <1>6 DEF PoolInv, EventsOf, Pool!InWorker
  <1>8. \A u \in Task \ {t} : EventsOf(u)'
    BY <1>1, <1>2, <1>4 DEF PoolInv, EventsOf, Pool!InWorker
  <1>9. BatchEvent'
    BY <1>1, <1>2, <1>3, <1>4 DEF BatchEvent, Pool!Completes
  <1> QED
    BY <1>5, <1>7, <1>8, <1>9 DEF PoolInv

LEMMA PoolStep ==
    ASSUME PoolInv, Pool!Next
    PROVE  PoolInv'
  <1>0. /\ row \in [Task -> TaskRow] /\ run \in [Task -> Coroutine]
        /\ written \in [Task -> Nat] /\ batch \in Nat
        /\ \A t \in Task : run[t] \in Coroutine /\ row[t] \in TaskRow /\ EventsOf(t)
    BY DEF PoolInv, PoolTypeOK
  <1>1. ASSUME UNCHANGED <<row, run, lost, written, batch>>
        PROVE  PoolInv'
    BY <1>1 DEF PoolInv, PoolTypeOK, EventsOf, BatchEvent, Pool!Ended, Pool!InWorker
  <1>2. ASSUME NEW t \in Task, Pool!Claim(t)
        PROVE  PoolInv'
    <2>1. /\ row[t].status = "pending" /\ row' = [row EXCEPT ![t].status = "running"]
          /\ run' = [run EXCEPT ![t].at = "working"] /\ UNCHANGED <<lost, written, batch>>
      BY <1>2 DEF Pool!Claim
    <2>2. /\ PoolTypeOK' /\ row'[t].status = "running"
          /\ run'[t] = [run[t] EXCEPT !.at = "working"]
          /\ \A u \in Task \ {t} : row'[u] = row[u] /\ run'[u] = run[u]
      BY <1>0, <2>1 DEF PoolInv, PoolTypeOK, TaskRow, Coroutine
    <2>3. /\ run'[t].at = "working" /\ run'[t].own = run[t].own /\ run'[t].last = run[t].last
          /\ run'[t].cut = run[t].cut
      BY <1>0, <2>2 DEF Coroutine
    <2>4. \A u \in Task : Pool!Ended(u)' = Pool!Ended(u)
      BY <2>1, <2>2 DEF Pool!Ended
    <2>5. EventsOf(t)'
      BY <1>0, <2>1, <2>2, <2>3, <2>4 DEF EventsOf, Pool!InWorker
    <2>6. \A u \in Task \ {t} : EventsOf(u)'
      BY <1>0, <2>1, <2>2, <2>4 DEF EventsOf, Pool!InWorker
    <2>7. BatchEvent'
      BY <2>1, <2>2, <2>3, <2>4 DEF PoolInv, BatchEvent
    <2> QED
      BY <2>2, <2>5, <2>6, <2>7 DEF PoolInv
  <1>3. ASSUME NEW t \in Task, Pool!Succeed(t)
        PROVE  PoolInv'
    <2>1. run[t].at = "working" /\ UNCHANGED <<lost, written, batch>>
      BY <1>3 DEF Pool!Succeed
    <2>2. CASE Pool!Ended(t)
      <3> DEFINE next == [run[t] EXCEPT !.at = "over"]
      <3>1. UNCHANGED row /\ run' = [run EXCEPT ![t] = next]
        BY <1>3, <2>2 DEF Pool!Succeed, Pool!Over
      <3>2. /\ next \in Coroutine /\ next.at = "over" /\ next.own = run[t].own
            /\ next.last = run[t].last /\ ~next.own
        BY <1>0, <2>1 DEF Coroutine, EventsOf
      <3> HIDE DEF next
      <3> QED
        BY <1>0, <2>1, <2>2, <3>1, <3>2, CoroutineMoves DEF Pool!Ended
    <2>3. CASE ~Pool!Ended(t)
      <3>1. /\ Pool!End(t, "succeeded")
            /\ run' = [run EXCEPT ![t] = [@ EXCEPT !.at = "file", !.last = Pool!Completes(t),
                                                   !.own = TRUE]]
        BY <1>3, <2>3 DEF Pool!Succeed
      <3> QED
        BY <2>1, <2>3, <3>1, EndsItself
    <2> QED
      BY <2>2, <2>3
  <1>4. ASSUME NEW t \in Task, Pool!Fail(t) \/ Pool!Timeout(t)
        PROVE  PoolInv'
    <2> DEFINE c == IF run[t].at = "working" THEN run[t].cut ELSE TRUE
               d == run[t].at # "working"
    <2>1. /\ run[t].at \in {"working", "file", "batch"} /\ UNCHANGED <<row, lost, written, batch>>
          /\ \/ run[t].at = "working" /\ run' = [run EXCEPT ![t].at = "finish", ![t].outer = TRUE]
             \/ run' = [run EXCEPT ![t] = [@ EXCEPT !.at = "finish", !.outer = TRUE, !.cut = d]]
      BY <1>4 DEF Pool!Fail, Pool!Timeout, Pool!InWorker
    <2>2. PICK k \in BOOLEAN :
             /\ run[t].own => k
             /\ run' = [run EXCEPT ![t] = [@ EXCEPT !.at = "finish", !.outer = TRUE, !.cut = k]]
      <3>1. run[t].own => d = TRUE
        BY <1>0 DEF EventsOf
      <3>2. run[t].at = "working" => ~run[t].own
        BY <1>0 DEF EventsOf
      <3>3. d \in BOOLEAN /\ run[t].cut \in BOOLEAN
        BY <1>0 DEF Coroutine
      <3> HIDE DEF d
      <3>4. CASE run[t].at = "working" /\ run' = [run EXCEPT ![t].at = "finish", ![t].outer = TRUE]
        <4>1. run' = [run EXCEPT ![t] = [@ EXCEPT !.at = "finish", !.outer = TRUE, !.cut = run[t].cut]]
          BY <1>0, <3>4 DEF Coroutine
        <4> QED
          BY <3>2, <3>3, <3>4, <4>1
      <3>5. CASE run' = [run EXCEPT ![t] = [@ EXCEPT !.at = "finish", !.outer = TRUE, !.cut = d]]
        BY <3>1, <3>3, <3>5
      <3> QED
        BY <2>1, <3>4, <3>5
    <2> DEFINE next == [run[t] EXCEPT !.at = "finish", !.outer = TRUE, !.cut = k]
    <2>3. /\ next \in Coroutine /\ next.at = "finish" /\ next.outer /\ next.own = run[t].own
          /\ next.cut = k /\ next.last = run[t].last /\ run' = [run EXCEPT ![t] = next]
      BY <1>0, <2>2 DEF Coroutine
    <2> HIDE DEF next, d
    <2>4. row[t].status # "pending"
      BY <1>0, <2>1 DEF EventsOf
    <2> QED
      BY <2>1, <2>2, <2>3, <2>4, CoroutineMoves
  <1>5. ASSUME NEW t \in Task, Pool!FinishClaimed(t)
        PROVE  PoolInv'
    <2>1. run[t].at = "finish" /\ UNCHANGED <<lost, written, batch>>
      BY <1>5 DEF Pool!FinishClaimed
    <2>2. CASE Pool!Ended(t)
      <3> DEFINE next == [run[t] EXCEPT !.at = "over"]
      <3>1. UNCHANGED row /\ run' = [run EXCEPT ![t] = next]
        BY <1>5, <2>2 DEF Pool!FinishClaimed, Pool!Over
      <3>2. /\ next \in Coroutine /\ next.at = "over" /\ next.own = run[t].own
            /\ next.last = run[t].last /\ (next.own => next.cut)
        BY <1>0, <2>1 DEF Coroutine, EventsOf
      <3> HIDE DEF next
      <3> QED
        BY <1>0, <2>1, <2>2, <3>1, <3>2, CoroutineMoves DEF Pool!Ended
    <2>3. CASE ~Pool!Ended(t)
      <3>1. /\ Pool!End(t, "failed")
            /\ run' = [run EXCEPT ![t] = [@ EXCEPT !.at = "file", !.last = Pool!Completes(t),
                                                   !.own = TRUE]]
        BY <1>5, <2>3 DEF Pool!FinishClaimed
      <3>2. run[t].outer
        BY <1>0, <2>1 DEF EventsOf
      <3> QED
        BY <2>1, <2>3, <3>1, <3>2, EndsItself
    <2> QED
      BY <2>2, <2>3
  <1>6. ASSUME NEW t \in Task, Pool!PublishFile(t)
        PROVE  PoolInv'
    <2>1. /\ run[t].at = "file" /\ written' = [written EXCEPT ![t] = @ + 1]
          /\ run' = [run EXCEPT ![t].at = IF run[t].last THEN "batch" ELSE "over"]
          /\ UNCHANGED <<row, lost, batch>>
      BY <1>6 DEF Pool!PublishFile
    <2>2. run[t].own /\ written[t] = 0 /\ row[t].status # "pending"
      BY <1>0, <2>1 DEF EventsOf
    <2>3. /\ PoolTypeOK' /\ written'[t] = 1
          /\ \A u \in Task \ {t} : written'[u] = written[u] /\ run'[u] = run[u]
      BY <1>0, <2>1, <2>2 DEF PoolInv, PoolTypeOK, Coroutine
    <2>4. /\ run'[t].at = (IF run[t].last THEN "batch" ELSE "over") /\ run'[t].own = run[t].own
          /\ run'[t].last = run[t].last /\ run'[t].cut = run[t].cut
          /\ run'[t].outer = run[t].outer
      BY <1>0, <2>1 DEF Coroutine
    <2>5. \A u \in Task : Pool!Ended(u)' = Pool!Ended(u)
      BY <2>1 DEF Pool!Ended
    <2>6. EventsOf(t)'
      BY <1>0, <2>1, <2>2, <2>3, <2>4, <2>5 DEF EventsOf, Pool!InWorker
    <2>7. \A u \in Task \ {t} : EventsOf(u)'
      BY <1>0, <2>1, <2>3, <2>5 DEF EventsOf, Pool!InWorker
    <2>8. BatchEvent'
      BY <2>1, <2>3, <2>4, <2>5 DEF PoolInv, BatchEvent
    <2> QED
      BY <2>3, <2>6, <2>7, <2>8 DEF PoolInv
  <1>7. ASSUME NEW t \in Task, Pool!PublishBatch(t)
        PROVE  PoolInv'
    <2>1. /\ run[t].at = "batch" /\ batch' = batch + 1 /\ run' = [run EXCEPT ![t].at = "over"]
          /\ UNCHANGED <<row, lost, written>>
      BY <1>7 DEF Pool!PublishBatch, Pool!Over
    <2>2. run[t].own /\ run[t].last /\ written[t] = 1 /\ row[t].status # "pending"
      BY <1>0, <2>1 DEF EventsOf
    <2>3. batch' = 1
      BY <1>0, <2>1, <2>2 DEF PoolInv, BatchEvent
    <2>4. PoolTypeOK' /\ \A u \in Task \ {t} : run'[u] = run[u]
      BY <1>0, <2>1, <2>3 DEF PoolInv, PoolTypeOK, Coroutine
    <2>5. /\ run'[t].at = "over" /\ run'[t].own = run[t].own /\ run'[t].last = run[t].last
      BY <1>0, <2>1 DEF Coroutine
    <2>6. \A u \in Task : Pool!Ended(u)' = Pool!Ended(u)
      BY <2>1 DEF Pool!Ended
    <2>7. EventsOf(t)'
      BY <1>0, <2>1, <2>2, <2>3, <2>5, <2>6 DEF EventsOf, Pool!InWorker
    <2>8. \A u \in Task \ {t} : EventsOf(u)'
      BY <1>0, <2>1, <2>3, <2>4, <2>6 DEF EventsOf, Pool!InWorker
    <2>9. \A u \in Task : Pool!Ended(u)
      BY <2>2 DEF PoolInv, BatchEvent
    <2>10. BatchEvent'
      BY <2>2, <2>3, <2>4, <2>5, <2>6, <2>9 DEF PoolInv, BatchEvent
    <2> QED
      BY <2>4, <2>7, <2>8, <2>10 DEF PoolInv
  <1>8. ASSUME NEW t \in Task, Pool!Beat(t)
        PROVE  PoolInv'
    <2>1. /\ Pool!Ended(t) /\ UNCHANGED <<row, run, written, batch>>
          /\ lost' = IF Pool!Revoked(t) THEN lost \cup {t} ELSE lost
      BY <1>8 DEF Pool!Beat
    <2>2. PoolTypeOK' /\ BatchEvent' /\ \A u \in Task : Pool!Ended(u)' = Pool!Ended(u)
      BY <2>1 DEF PoolInv, PoolTypeOK, BatchEvent, Pool!Ended
    <2>3. \A u \in Task : EventsOf(u)'
      <3> TAKE u \in Task
      <3>1. u \in lost' => Pool!Ended(u) /\ row[u].status # "succeeded"
        BY <1>0, <2>1 DEF EventsOf, Pool!Revoked
      <3> QED
        BY <1>0, <2>1, <2>2, <3>1 DEF EventsOf, Pool!InWorker
    <2> QED
      BY <2>2, <2>3 DEF PoolInv
  <1>9. ASSUME NEW t \in Task, Pool!LoseLease(t) \/ Pool!Cancel(t)
        PROVE  PoolInv'
    <2>1. /\ UNCHANGED <<row, lost, written, batch>>
          /\ \/ t \in lost /\ Pool!InWorker(t) /\ run' = [run EXCEPT ![t].at = "over"]
             \/ t \in Pool!Active /\ run' = [run EXCEPT ![t].at = "over", ![t].cut = TRUE]
      BY <1>9 DEF Pool!LoseLease, Pool!Cancel
    <2>2. run[t].at # "none" /\ row[t].status # "pending"
      BY <1>0, <2>1 DEF EventsOf, Pool!InWorker, Pool!Active
    <2>3. CASE t \in lost /\ Pool!InWorker(t) /\ run' = [run EXCEPT ![t].at = "over"]
      <3> DEFINE next == [run[t] EXCEPT !.at = "over"]
      <3>1. /\ next \in Coroutine /\ next.at = "over" /\ next.own = run[t].own
            /\ next.last = run[t].last /\ run' = [run EXCEPT ![t] = next]
        BY <1>0, <2>3 DEF Coroutine
      <3>2. ~run[t].own
        BY <1>0, <2>3 DEF EventsOf
      <3> HIDE DEF next
      <3> QED
        BY <2>1, <2>2, <3>1, <3>2, CoroutineMoves
    <2>4. CASE run' = [run EXCEPT ![t].at = "over", ![t].cut = TRUE]
      <3> DEFINE next == [run[t] EXCEPT !.at = "over", !.cut = TRUE]
      <3>1. /\ next \in Coroutine /\ next.at = "over" /\ next.own = run[t].own /\ next.cut
            /\ next.last = run[t].last /\ run' = [run EXCEPT ![t] = next]
        BY <1>0, <2>4 DEF Coroutine
      <3> HIDE DEF next
      <3> QED
        BY <2>1, <2>2, <3>1, CoroutineMoves
    <2> QED
      BY <2>1, <2>3, <2>4
  <1>10. ASSUME NEW t \in Task, Pool!Expire(t)
         PROVE  PoolInv'
    <2>1. /\ row[t].status = "running" /\ row' = [row EXCEPT ![t].expired = TRUE]
          /\ UNCHANGED <<run, lost, written, batch>>
      BY <1>10 DEF Pool!Expire
    <2>2. PoolTypeOK' /\ \A u \in Task : row'[u].status = row[u].status
      BY <1>0, <2>1 DEF PoolInv, PoolTypeOK, TaskRow
    <2>3. \A u \in Task : Pool!Ended(u)' = Pool!Ended(u)
      BY <2>2 DEF Pool!Ended
    <2>4. \A u \in Task : EventsOf(u)'
      BY <1>0, <2>1, <2>2, <2>3 DEF EventsOf, Pool!InWorker
    <2>5. BatchEvent'
      BY <2>1, <2>3 DEF PoolInv, BatchEvent
    <2> QED
      BY <2>2, <2>4, <2>5 DEF PoolInv
  <1>11. ASSUME NEW t \in Task, Pool!Reap(t) \/ Pool!Terminate(t)
         PROVE  PoolInv'
    <2>1. ~Pool!Ended(t)
      BY <1>11 DEF Pool!Reap, Pool!Terminate, Pool!Ended
    <2>2. \E status \in {"failed", "skipped"} : Pool!EndedElsewhere(t, status)
      BY <1>11 DEF Pool!Reap, Pool!Terminate
    <2> QED
      BY <2>1, <2>2, EndsElsewhere
  <1>12. ASSUME Pool!Stop \/ \E t \in Task : Pool!HeartDies(t)
         PROVE  PoolInv'
    BY <1>1, <1>12 DEF Pool!Stop, Pool!HeartDies
  <1> QED
    BY <1>2, <1>3, <1>4, <1>5, <1>6, <1>7, <1>8, <1>9, <1>10, <1>11, <1>12 DEF Pool!Next

\* Success, timeout, reaper, mutation and shutdown race to end a task; for any number of tasks its
\* event is published once, that of the batch once, and none is left out by a coroutine that was
\* not cut off (FileBuildTerminalEventService, _execute_claimed).
THEOREM EventsPublishedOnce == Spec => []PoolPublished
  <1>1. Init => (part = "pool" => PoolInv)
    <2> SUFFICES ASSUME Init
                 PROVE  PoolInv
      OBVIOUS
    <2>1. /\ row = [t \in Task |-> [status |-> "pending", expired |-> FALSE]]
          /\ run = [t \in Task |-> [at |-> "none", outer |-> FALSE, last |-> FALSE, cut |-> FALSE,
                                    own |-> FALSE]]
          /\ lost = {} /\ written = [t \in Task |-> 0] /\ batch = 0
      BY DEF Init, Pool!Init
    <2>2. PoolTypeOK
      BY <2>1 DEF PoolTypeOK, TaskRow, Coroutine
    <2>3. \A t \in Task : EventsOf(t)
      BY <2>1 DEF EventsOf, Pool!Ended, Pool!InWorker
    <2>4. BatchEvent
      BY <2>1 DEF BatchEvent
    <2> QED
      BY <2>2, <2>3, <2>4 DEF PoolInv
  <1>2. (part = "pool" => PoolInv) /\ [Next]_vars => (part = "pool" => PoolInv)'
    <2> SUFFICES ASSUME [Next]_vars, part = "pool", PoolInv
                 PROVE  PoolInv'
      BY PartSteps
    <2>1. CASE Pool!Next
      BY <2>1, PoolStep
    <2>2. CASE UNCHANGED <<row, run, lost, written, batch>>
      BY <2>2 DEF PoolInv, PoolTypeOK, EventsOf, BatchEvent, Pool!Ended, Pool!InWorker
    <2> QED
      BY <2>1, <2>2, PartSteps
  <1>3. (part = "pool" => PoolInv) => PoolPublished
    <2>1. ASSUME PoolInv
          PROVE  Pool!Published
      BY <2>1 DEF PoolInv, EventsOf, BatchEvent, Pool!Published
    <2> QED
      BY <2>1 DEF PoolPublished
  <1> QED
    BY <1>1, <1>2, <1>3, PTL DEF Spec

-----------------------------------------------------------------------------
(* The schema.                                                             *)

\* A process of the bootstrap.
Process(at, config, seen, tries, why) ==
    [at |-> at, config |-> config, seen |-> seen, tries |-> tries, why |-> why]

ProcessOK(x) == x = Process(x.at, x.config, x.seen, x.tries, x.why)

LEMMA ProcessFields ==
    ASSUME NEW a, NEW c, NEW s, NEW t, NEW w
    PROVE  /\ ProcessOK(Process(a, c, s, t, w))
           /\ Process(a, c, s, t, w).at = a /\ Process(a, c, s, t, w).config = c
           /\ Process(a, c, s, t, w).seen = s /\ Process(a, c, s, t, w).why = w
           /\ Process(a, c, s, t, w).tries = t
  BY DEF Process, ProcessOK

LEMMA ProcessChanged ==
    ASSUME NEW x, ProcessOK(x), NEW v, NEW w
    PROVE  /\ [x EXCEPT !.at = v] = Process(v, x.config, x.seen, x.tries, x.why)
           /\ [x EXCEPT !.tries = v] = Process(x.at, x.config, x.seen, v, x.why)
           /\ [x EXCEPT !.at = v, !.seen = w] = Process(v, x.config, w, x.tries, x.why)
           /\ [x EXCEPT !.at = v, !.config = w] = Process(v, w, x.seen, x.tries, x.why)
           /\ [x EXCEPT !.seen = v, !.tries = w] = Process(x.at, x.config, v, w, x.why)
  <1>1. PICK a, c, s, t, y : x = [at |-> a, config |-> c, seen |-> s, tries |-> t, why |-> y]
    BY DEF ProcessOK, Process
  <1>2. x.at = a /\ x.config = c /\ x.seen = s /\ x.tries = t /\ x.why = y
    BY <1>1
  <1>3. /\ [x EXCEPT !.at = v] = [at |-> v, config |-> c, seen |-> s, tries |-> t, why |-> y]
        /\ [x EXCEPT !.tries = v] = [at |-> a, config |-> c, seen |-> s, tries |-> v, why |-> y]
        /\ [x EXCEPT !.seen = v] = [at |-> a, config |-> c, seen |-> v, tries |-> t, why |-> y]
    BY <1>1
  <1>4. [x EXCEPT !.at = v, !.seen = w] = [at |-> v, config |-> c, seen |-> w, tries |-> t, why |-> y]
    <2>1. [x EXCEPT !.at = v, !.seen = w] = [[x EXCEPT !.at = v] EXCEPT !.seen = w]
      OBVIOUS
    <2>2. [[at |-> v, config |-> c, seen |-> s, tries |-> t, why |-> y] EXCEPT !.seen = w]
            = [at |-> v, config |-> c, seen |-> w, tries |-> t, why |-> y]
      OBVIOUS
    <2> QED
      BY <1>3, <2>1, <2>2
  <1>5. [x EXCEPT !.at = v, !.config = w]
          = [at |-> v, config |-> w, seen |-> s, tries |-> t, why |-> y]
    <2>1. [x EXCEPT !.at = v, !.config = w] = [[x EXCEPT !.at = v] EXCEPT !.config = w]
      OBVIOUS
    <2>2. [[at |-> v, config |-> c, seen |-> s, tries |-> t, why |-> y] EXCEPT !.config = w]
            = [at |-> v, config |-> w, seen |-> s, tries |-> t, why |-> y]
      OBVIOUS
    <2> QED
      BY <1>3, <2>1, <2>2
  <1>6. [x EXCEPT !.seen = v, !.tries = w]
          = [at |-> a, config |-> c, seen |-> v, tries |-> w, why |-> y]
    <2>1. [x EXCEPT !.seen = v, !.tries = w] = [[x EXCEPT !.seen = v] EXCEPT !.tries = w]
      OBVIOUS
    <2>2. [[at |-> a, config |-> c, seen |-> v, tries |-> t, why |-> y] EXCEPT !.tries = w]
            = [at |-> a, config |-> c, seen |-> v, tries |-> w, why |-> y]
      OBVIOUS
    <2> QED
      BY <1>3, <2>1, <2>2, Zenon
  <1> QED
    BY <1>2, <1>3, <1>4, <1>5, <1>6 DEF Process

Chunk(m) == [name |-> "chunk", model |-> m]

\* The names of the package, and the version of one under a configuration.
LEMMA PackageNames ==
    /\ \A k \in DOMAIN Schema!Package :
          Schema!Package[k] \in {"base", "chunk", "legacy", "ledger", "entity", "extension",
                                 "backfill", "constraints"}
    /\ \E k \in DOMAIN Schema!Package : Schema!Package[k] = "chunk"
    /\ 1 \in DOMAIN Schema!Package /\ Schema!Package[1] = "base"
    /\ \A k \in DOMAIN Schema!Package : Schema!Package[k] = "legacy" => ~(k <= 1)
  BY DEF Schema!Package

LEMMA VersionsOf ==
    ASSUME NEW c
    PROVE  /\ Schema!Version("chunk", c) = Chunk(c.model)
           /\ \A m, n : n # "chunk" => Schema!Version(n, c) # Chunk(m)
           /\ \A m : Schema!Version("chunk", c) = Chunk(m) <=> c.model = m
           /\ \A d, n : n \in {"base", "legacy", "ledger"} =>
                Schema!Version(n, c) = Schema!Version(n, d)
  BY DEF Schema!Version, Schema!Template, Chunk

LEMMA Recorded ==
    ASSUME NEW S, NEW n, NEW c
    PROVE  Schema!Versions(S \cup {Schema!Migration(n, c)})
             = Schema!Versions(S) \cup {Schema!Version(n, c)}
  <1>1. Schema!Migration(n, c).version = Schema!Version(n, c)
    BY DEF Schema!Migration
  <1> QED
    BY <1>1 DEF Schema!Versions

\* The process serves requests: it has all of its package, and the table of its vectors.
Complete(c) ==
    /\ \A k \in DOMAIN Schema!Package :
          Schema!Version(Schema!Package[k], c) \in made \cap Schema!Versions(ledger)
    /\ table[c.model] = c.dimension

Holds(x) == x.at \in {"locked", "ledger", "baselined", "applying"}

ProcessRight(x) ==
    /\ ProcessOK(x) /\ x.why # "duplicate"
    /\ x.at # "down" => x.config \in Config /\ starts # 0
    /\ x.at = "applying" => /\ x.seen = Schema!Versions(ledger)
                            /\ table[x.config.model] \in {None, x.config.dimension}
    /\ x.at = "ready" => Complete(x.config)

\* What the ledger says was executed was; a table that is there was made by its template, and
\* one whose template is in the ledger is there.
DatabaseRight ==
    /\ table = [m \in Schema!Model |-> table[m]]
    /\ Schema!Versions(ledger) \subseteq made
    /\ \A c : Schema!Version("legacy", c) \in made => Schema!Version("base", c) \in made
    /\ \A m \in Schema!Model : /\ table[m] # None => Chunk(m) \in made
                               /\ Chunk(m) \in Schema!Versions(ledger) => table[m] # None

SchemaInv ==
    /\ starts \in Nat
    /\ starting = [i \in Instance |-> starting[i]]
    /\ \A i \in Instance : /\ ProcessRight(starting[i])
                           /\ Holds(starting[i]) <=> schemaLock = i
    /\ DatabaseRight

\* One process goes on or gives up, and takes or leaves the lock with that.
LEMMA ProcessMoves ==
    ASSUME SchemaInv, NEW i \in Instance, NEW next,
           starting' = [starting EXCEPT ![i] = next],
           UNCHANGED <<ledger, made, table>>, starts' \in Nat, starts # 0 => starts' # 0,
           ProcessRight(next)',
           IF Holds(next) THEN schemaLock' = i /\ schemaLock \in {i, None}
           ELSE schemaLock' = IF schemaLock = i THEN None ELSE schemaLock
    PROVE  SchemaInv'
  <1>1. /\ starting'[i] = next /\ \A j \in Instance \ {i} : starting'[j] = starting[j]
        /\ starting' = [j \in Instance |-> starting'[j]]
    BY DEF SchemaInv
  <1>2. ASSUME NEW j \in Instance \ {i}
        PROVE  ProcessRight(starting[j])' /\ (Holds(starting'[j]) <=> schemaLock' = j)
    <2>1. ProcessRight(starting[j]) /\ (Holds(starting[j]) <=> schemaLock = j) /\ j # None
      BY KnowledgeBaseAssumption DEF SchemaInv
    <2>2. Holds(starting'[j]) <=> schemaLock' = j
      BY <1>1, <2>1
    <2>3. ProcessRight(starting[j])'
      BY <1>1, <2>1 DEF ProcessRight, Complete, ProcessOK
    <2> QED
      BY <2>2, <2>3
  <1>3. ProcessRight(starting[i])' /\ (Holds(starting'[i]) <=> schemaLock' = i)
    <2>1. i # None
      BY KnowledgeBaseAssumption
    <2> QED
      BY <1>1, <2>1
  <1>4. DatabaseRight'
    BY DEF SchemaInv, DatabaseRight
  <1> QED
    BY <1>1, <1>2, <1>3, <1>4 DEF SchemaInv

NoReason == ""

\* A process that is down, for a reason.
LEMMA GivesUp ==
    ASSUME SchemaInv, NEW i \in Instance, NEW why, why # "duplicate", Schema!GiveUp(i, why),
           UNCHANGED <<ledger, made, table, starts>>
    PROVE  SchemaInv'
  <1> DEFINE next == Process("down", None, {}, 0, why)
  <1>1. starting' = [starting EXCEPT ![i] = next] /\ Schema!Releases(i)
    BY DEF Schema!GiveUp, Schema!Down, Process
  <1>2. ProcessOK(next) /\ next.at = "down" /\ next.why = why
    BY ProcessFields
  <1> HIDE DEF next
  <1>3. ProcessRight(next)' /\ ~Holds(next)
    BY <1>2 DEF ProcessRight, ProcessOK, Holds
  <1> QED
    BY <1>1, <1>3, ProcessMoves DEF Schema!Releases, SchemaInv

LEMMA StartAndLock ==
    ASSUME SchemaInv, NEW i \in Instance,
           (\E c \in Config : Schema!Start(i, c)) \/ Schema!Lock(i)
    PROVE  SchemaInv'
  <1>0. /\ ProcessRight(starting[i]) /\ ProcessOK(starting[i])
        /\ Holds(starting[i]) <=> schemaLock = i
        /\ starts \in Nat /\ starting = [j \in Instance |-> starting[j]]
    BY DEF SchemaInv, ProcessRight
  <1>1. ASSUME NEW c \in Config, Schema!Start(i, c)
        PROVE  SchemaInv'
    <2>1. PICK next : next = Process("waiting", c, {}, 0, NoReason)
      OBVIOUS
    <2>2. /\ starts' = starts + 1 /\ starting[i].at = "down"
          /\ UNCHANGED <<ledger, made, table, schemaLock>>
          /\ starting' = [starting EXCEPT ![i] =
                            [Schema!Down(NoReason) EXCEPT !.at = "waiting", !.config = c]]
      BY <1>1, Zenon DEF Schema!Start, Schema!Locked, NoReason
    <2>3. starting' = [starting EXCEPT ![i] = next]
      <3>1. Schema!Down(NoReason) = Process("down", None, {}, 0, NoReason)
        BY DEF Schema!Down, Process
      <3>2. PICK d : d = Process("down", None, {}, 0, NoReason)
        OBVIOUS
      <3>3. ProcessOK(d) /\ d.seen = {} /\ d.tries = 0 /\ d.why = NoReason
        BY <3>2, ProcessFields
      <3>4. [d EXCEPT !.at = "waiting", !.config = c] = next
        <4>1. \A v : [d EXCEPT !.at = v, !.config = c] = Process(v, c, d.seen, d.tries, d.why)
          BY <3>3, ProcessChanged, ZenonT(40)
        <4>2. [d EXCEPT !.at = "waiting", !.config = c]
                = Process("waiting", c, d.seen, d.tries, d.why)
          BY <4>1
        <4> QED
          BY <2>1, <3>3, <4>2
      <3> QED
        BY <2>2, <3>1, <3>2, <3>4
    <2>4. ProcessOK(next) /\ next.at = "waiting" /\ next.config = c /\ next.why = NoReason
      BY <2>1, ProcessFields
    <2>5. starts' \in Nat /\ starts' # 0
      BY <1>0, <2>2
    <2>6. NoReason # "duplicate"
      BY Zenon DEF NoReason
    <2>7. ProcessRight(next)' /\ ~Holds(next) /\ schemaLock # i
      BY <1>0, <2>2, <2>4, <2>5, <2>6 DEF ProcessRight, ProcessOK, Holds
    <2> QED
      BY <2>2, <2>3, <2>5, <2>7, ProcessMoves, Zenon
  <1>2. CASE Schema!Lock(i)
    <2> DEFINE x == starting[i]
    <2>0. PICK next : next = Process("locked", x.config, x.seen, x.tries, x.why)
      OBVIOUS
    <2>1. starting' = [starting EXCEPT ![i] = next]
      <3>1. [x EXCEPT !.at = "locked"] = next
        BY <1>0, <2>0, ProcessChanged, ZenonT(40)
      <3>2. starting' = [starting EXCEPT ![i].at = "locked"]
        BY <1>2 DEF Schema!Lock, Schema!Step
      <3> QED
        BY <1>0, <3>1, <3>2
    <2>2. ProcessOK(next) /\ next.at = "locked" /\ next.config = x.config /\ next.why = x.why
      BY <2>0, ProcessFields
    <2>3. /\ x.at = "waiting" /\ schemaLock = None /\ schemaLock' = i
          /\ UNCHANGED <<ledger, made, table, starts>>
      BY <1>2 DEF Schema!Lock, Schema!LockFree, Schema!Locked
    <2>4. ProcessRight(next)' /\ Holds(next)
      BY <1>0, <2>2, <2>3 DEF ProcessRight, ProcessOK, Holds
    <2> QED
      BY <1>0, <2>1, <2>3, <2>4, ProcessMoves
  <1> QED
    BY <1>1, <1>2

LEMMA ValidateStep ==
    ASSUME SchemaInv, NEW i \in Instance, Schema!Validate(i)
    PROVE  SchemaInv'
  <1> DEFINE x == starting[i]
  <1>0. /\ ProcessRight(x) /\ ProcessOK(x) /\ (Holds(x) <=> schemaLock = i)
        /\ starts \in Nat /\ starting = [j \in Instance |-> starting[j]]
    BY DEF SchemaInv, ProcessRight
  <1>1. x.at = "baselined" /\ UNCHANGED <<ledger, made, table, starts>>
    BY DEF Schema!Validate, Schema!Locked
  <1>2. CASE Schema!Drifted(i) \/ Schema!Mismatched(i)
    <2>1. Schema!GiveUp(i, "drift") \/ Schema!GiveUp(i, "dimension")
      BY <1>2 DEF Schema!Validate
    <2> QED
      BY <1>1, <2>1, GivesUp
  <1>3. CASE ~Schema!Drifted(i) /\ ~Schema!Mismatched(i)
    <2>0. PICK next : next = Process("applying", x.config, Schema!Versions(ledger), x.tries, x.why)
      OBVIOUS
    <2>1. starting' = [starting EXCEPT ![i] = next] /\ schemaLock' = schemaLock
      <3>1. [x EXCEPT !.at = "applying", !.seen = Schema!Versions(ledger)] = next
        BY <1>0, <2>0, ProcessChanged, ZenonT(40)
      <3>2. /\ starting' = [starting EXCEPT ![i].at = "applying",
                                            ![i].seen = Schema!Versions(ledger)]
            /\ schemaLock' = schemaLock
        BY <1>3 DEF Schema!Validate
      <3> QED
        BY <1>0, <3>1, <3>2
    <2>2. /\ ProcessOK(next) /\ next.at = "applying" /\ next.config = x.config
          /\ next.seen = Schema!Versions(ledger) /\ next.why = x.why
      BY <2>0, ProcessFields
    <2>3. table[x.config.model] \in {None, x.config.dimension}
      BY <1>3 DEF Schema!Mismatched
    <2>4. Schema!Versions(ledger)' = Schema!Versions(ledger)
      BY <1>1 DEF Schema!Versions
    <2>5. ProcessRight(next)' /\ Holds(next) /\ schemaLock = i
      BY <1>0, <1>1, <2>2, <2>3, <2>4 DEF ProcessRight, ProcessOK, Holds
    <2> QED
      BY <1>0, <1>1, <2>1, <2>5, ProcessMoves
  <1> QED
    BY <1>2, <1>3

LEMMA FinishStep ==
    ASSUME SchemaInv, NEW i \in Instance, Schema!Finish(i)
    PROVE  SchemaInv'
  <1> DEFINE x == starting[i]
  <1>0. /\ ProcessRight(x) /\ ProcessOK(x) /\ (Holds(x) <=> schemaLock = i)
        /\ starts \in Nat /\ starting = [j \in Instance |-> starting[j]] /\ DatabaseRight
    BY DEF SchemaInv, ProcessRight
  <1>1. /\ x.at = "applying" /\ Schema!Pending(i) = {} /\ Schema!Releases(i)
        /\ UNCHANGED <<ledger, made, table, starts>>
    BY DEF Schema!Finish, Schema!Locked
  <1>a. PICK next : next = Process("ready", x.config, x.seen, x.tries, x.why)
    OBVIOUS
  <1>2. starting' = [starting EXCEPT ![i] = next]
    <2>1. [x EXCEPT !.at = "ready"] = next
      BY <1>0, <1>a, ProcessChanged, ZenonT(40)
    <2>2. starting' = [starting EXCEPT ![i].at = "ready"]
      BY DEF Schema!Finish, Schema!Step
    <2> QED
      BY <1>0, <2>1, <2>2
  <1>3. ProcessOK(next) /\ next.at = "ready" /\ next.config = x.config /\ next.why = x.why
    BY <1>a, ProcessFields
  <1>4. Complete(x.config)
    <2>1. \A k \in DOMAIN Schema!Package :
             Schema!Version(Schema!Package[k], x.config) \in made \cap Schema!Versions(ledger)
      BY <1>0, <1>1 DEF Schema!Pending, ProcessRight, DatabaseRight
    <2>2. Chunk(x.config.model) \in Schema!Versions(ledger)
      BY <2>1, PackageNames, VersionsOf
    <2>3. x.config.model \in Schema!Model
      BY <1>0, <1>1 DEF ProcessRight, Schema!Model
    <2>4. table[x.config.model] = x.config.dimension
      BY <1>0, <1>1, <2>2, <2>3 DEF ProcessRight, DatabaseRight
    <2> QED
      BY <2>1, <2>4 DEF Complete
  <1>5. Complete(next.config)'
    BY <1>1, <1>3, <1>4 DEF Complete, Schema!Versions
  <1>6. ProcessRight(next)' /\ ~Holds(next)
    BY <1>0, <1>1, <1>3, <1>5 DEF ProcessRight, ProcessOK, Holds
  <1> QED
    BY <1>0, <1>1, <1>2, <1>6, ProcessMoves DEF Schema!Releases

\* A process records what an older release had built, or the ledger itself: what the ledger says
\* was executed still was.
LEMMA RecordSteps ==
    ASSUME SchemaInv, NEW i \in Instance, Schema!EnsureLedger(i) \/ Schema!RecordBaseline(i)
    PROVE  SchemaInv'
  <1> DEFINE x == starting[i]
             c == x.config
             base == {Schema!Migration(n, c) : n \in Schema!Inherited(c)}
  <1>0. /\ ProcessRight(x) /\ ProcessOK(x) /\ (Holds(x) <=> schemaLock = i)
        /\ starts \in Nat /\ starting = [j \in Instance |-> starting[j]] /\ DatabaseRight
    BY DEF SchemaInv, ProcessRight
  <1>1. /\ Holds(x) /\ UNCHANGED <<table, schemaLock, starts>>
        /\ \E at \in {"ledger", "baselined"} : Schema!Step(i, at)
        /\ \/ /\ ledger' = ledger \cup {Schema!Migration("ledger", c)}
              /\ made' = made \cup {Schema!Version("ledger", c)}
           \/ /\ ledger' = ledger \cup base
              /\ made' = made /\ Schema!Version("legacy", c) \in made
           \/ ledger' = ledger /\ made' = made
    <2>1. CASE Schema!EnsureLedger(i)
      <3>1. Schema!Migration("ledger", c).version = Schema!Version("ledger", c)
        BY DEF Schema!Migration
      <3> QED
        BY <2>1, <3>1 DEF Schema!EnsureLedger, Schema!Locked, Holds
    <2>2. CASE Schema!RecordBaseline(i)
      BY <2>2 DEF Schema!RecordBaseline, Schema!Locked, Holds
    <2> QED
      BY <2>1, <2>2
  <1>2. c \in Config /\ c.model \in Schema!Model
    BY <1>0, <1>1 DEF ProcessRight, Holds, Schema!Model
  <1>3. DatabaseRight'
    <2>1. CASE /\ ledger' = ledger \cup {Schema!Migration("ledger", c)}
               /\ made' = made \cup {Schema!Version("ledger", c)}
      <3>1. Schema!Versions(ledger)' = Schema!Versions(ledger) \cup {Schema!Version("ledger", c)}
        BY <2>1, Recorded
      <3>2. /\ \A m : Schema!Version("ledger", c) # Chunk(m)
            /\ \A d : Schema!Version("ledger", c) # Schema!Version("legacy", d)
        BY VersionsOf DEF Schema!Version
      <3> QED
        BY <1>0, <1>1, <2>1, <3>1, <3>2 DEF DatabaseRight
    <2>2. CASE /\ ledger' = ledger \cup base
               /\ made' = made /\ Schema!Version("legacy", c) \in made
      <3>1. Schema!Versions(ledger)'
              = Schema!Versions(ledger) \cup {Schema!Version(n, c) : n \in Schema!Inherited(c)}
        <4>1. \A n : Schema!Migration(n, c).version = Schema!Version(n, c)
          BY DEF Schema!Migration
        <4> QED
          BY <2>2, <4>1 DEF Schema!Versions
      <3>2. \A n \in Schema!Inherited(c) : /\ n \in {"base", "chunk", "legacy"}
                                           /\ n = "chunk" => table[c.model] # None
        BY DEF Schema!Inherited, Schema!Baseline
      <3>3. \A n \in Schema!Inherited(c) : Schema!Version(n, c) \in made
        BY <1>0, <1>2, <2>2, <3>2, VersionsOf DEF DatabaseRight
      <3>4. ASSUME NEW m \in Schema!Model, Chunk(m) \in Schema!Versions(ledger)'
            PROVE  table[m] # None
        BY <1>0, <3>1, <3>2, <3>4, VersionsOf DEF DatabaseRight
      <3> HIDE DEF base
      <3> QED
        BY <1>0, <1>1, <2>2, <3>1, <3>3, <3>4 DEF DatabaseRight
    <2>3. CASE ledger' = ledger /\ made' = made
      BY <1>0, <1>1, <2>3 DEF DatabaseRight, Schema!Versions
    <2> QED
      BY <1>1, <2>1, <2>2, <2>3
  <1>4. /\ Schema!Versions(ledger) \subseteq Schema!Versions(ledger)' /\ made \subseteq made'
    BY <1>1 DEF Schema!Versions
  <1>5. PICK at \in {"ledger", "baselined"} : Schema!Step(i, at)
    BY <1>1
  <1>6. /\ starting' = [j \in Instance |-> starting'[j]]
        /\ starting'[i] = Process(at, c, x.seen, x.tries, x.why)
        /\ \A j \in Instance \ {i} : starting'[j] = starting[j]
    <2>1. [x EXCEPT !.at = at] = Process(at, c, x.seen, x.tries, x.why)
      BY <1>0, ProcessChanged, ZenonT(40)
    <2> QED
      BY <1>0, <1>5, <2>1 DEF Schema!Step
  <1>7. /\ ProcessOK(starting'[i]) /\ starting'[i].at = at /\ starting'[i].config = c
        /\ starting'[i].why = x.why
    BY <1>6, ProcessFields
  <1>8. ASSUME NEW j \in Instance
        PROVE  ProcessRight(starting[j])' /\ (Holds(starting'[j]) <=> schemaLock' = j)
    <2>1. CASE j = i
      BY <1>0, <1>1, <1>2, <1>5, <1>7, <2>1 DEF ProcessRight, ProcessOK, Holds
    <2>2. CASE j # i
      <3>1. /\ ProcessRight(starting[j]) /\ (Holds(starting[j]) <=> schemaLock = j)
            /\ starting'[j] = starting[j] /\ schemaLock = i
        BY <1>0, <1>1, <1>6, <2>2 DEF SchemaInv
      <3>2. starting[j].at # "applying"
        BY <2>2, <3>1 DEF Holds
      <3>3. Complete(starting[j].config) => Complete(starting[j].config)'
        BY <1>1, <1>4, <3>1 DEF Complete
      <3> QED
        BY <1>1, <3>1, <3>2, <3>3 DEF ProcessRight, ProcessOK
    <2> QED
      BY <2>1, <2>2
  <1> QED
    BY <1>0, <1>1, <1>3, <1>6, <1>8 DEF SchemaInv

\* A migration is applied: under the lock the process has read all of the ledger, so that no
\* other one has applied it, and a table that others use is left as it is.
LEMMA ApplyStep ==
    ASSUME SchemaInv, NEW i \in Instance, Schema!Apply(i)
    PROVE  SchemaInv'
  <1> DEFINE x == starting[i]
             c == x.config
  <1>0. /\ ProcessRight(x) /\ ProcessOK(x) /\ (Holds(x) <=> schemaLock = i)
        /\ starts \in Nat /\ starting = [j \in Instance |-> starting[j]] /\ DatabaseRight
    BY DEF SchemaInv, ProcessRight
  <1>1. x.at = "applying" /\ starts' = starts
    BY DEF Schema!Apply, Schema!Locked
  <1>2. /\ Holds(x) /\ x.seen = Schema!Versions(ledger) /\ c \in Config
        /\ c.model \in Schema!Model /\ c.dimension # None
        /\ table[c.model] \in {None, c.dimension}
    BY <1>0, <1>1, KnowledgeBaseAssumption DEF ProcessRight, Holds, Schema!Model
  <1>3. PICK n : /\ Schema!Version(n, c) \notin Schema!Versions(ledger)
                 /\ n = "legacy" => Schema!Version("base", c) \in Schema!Versions(ledger)
                 /\ Schema!ApplyMigration(i, n, c)
    <2>1. PICK k \in Schema!Pending(i) : /\ \A j \in Schema!Pending(i) : k <= j
                                         /\ Schema!ApplyMigration(i, Schema!Package[k], c)
      BY DEF Schema!Apply
    <2>2. k \in DOMAIN Schema!Package
      BY DEF Schema!Pending
    <2>3. Schema!Package[k] = "legacy" => 1 \notin Schema!Pending(i)
      BY <2>1, <2>2, PackageNames
    <2>4. Schema!Package[k] = "legacy" => Schema!Version("base", c) \in Schema!Versions(ledger)
      BY <1>2, <2>3, PackageNames DEF Schema!Pending
    <2> QED
      BY <1>2, <2>1, <2>4 DEF Schema!Pending
  <1>4. CASE Schema!GiveUp(i, "check") /\ UNCHANGED <<ledger, made, table>>
    BY <1>1, <1>4, GivesUp
  <1>5. CASE /\ ledger' = ledger \cup {Schema!Migration(n, c)}
             /\ made' = made \cup {Schema!Version(n, c)}
             /\ table' = IF n = "chunk" /\ table[c.model] = None
                         THEN [table EXCEPT ![c.model] = c.dimension] ELSE table
             /\ starting' = [starting EXCEPT ![i].seen = @ \cup {Schema!Version(n, c)},
                                             ![i].tries = 0]
             /\ schemaLock' = schemaLock
    <2> DEFINE more == x.seen \cup {Schema!Version(n, c)}
    <2>1. Schema!Versions(ledger)' = Schema!Versions(ledger) \cup {Schema!Version(n, c)}
      BY <1>5, Recorded
    <2>2. /\ table' = [m \in Schema!Model |-> table'[m]]
          /\ \A m \in Schema!Model : table[m] # None => table'[m] = table[m]
          /\ \A m \in Schema!Model : table'[m] # table[m] => n = "chunk" /\ m = c.model
          /\ n = "chunk" => table'[c.model] # None
          /\ table'[c.model] \in {None, c.dimension}
      BY <1>0, <1>2, <1>5 DEF DatabaseRight
    <2>3. /\ starting' = [j \in Instance |-> starting'[j]]
          /\ starting'[i] = Process(x.at, c, more, 0, x.why)
          /\ \A j \in Instance \ {i} : starting'[j] = starting[j]
      <3>1. [x EXCEPT !.seen = more, !.tries = 0] = Process(x.at, c, more, 0, x.why)
        BY <1>0, ProcessChanged, ZenonT(40)
      <3>2. starting' = [starting EXCEPT ![i].seen = more, ![i].tries = 0]
        BY <1>0, <1>5
      <3> HIDE DEF more
      <3> QED
        BY <1>0, <3>1, <3>2
    <2>4. /\ ProcessOK(starting'[i]) /\ starting'[i].at = "applying" /\ starting'[i].config = c
          /\ starting'[i].why = x.why /\ starting'[i].seen = Schema!Versions(ledger)'
      BY <1>1, <1>2, <2>1, <2>3, ProcessFields
    <2>5. DatabaseRight'
      <3>1. \A d : Schema!Version("legacy", d) \in made' => Schema!Version("base", d) \in made'
        <4>1. \A d : Schema!Version(n, c) = Schema!Version("legacy", d) => n = "legacy"
          BY DEF Schema!Version
        <4>2. ASSUME NEW d, Schema!Version("legacy", d) \in made'
              PROVE  Schema!Version("base", d) \in made'
          <5>1. Schema!Version("base", d) = Schema!Version("base", c)
            BY VersionsOf
          <5> QED
            BY <1>0, <1>3, <1>5, <4>1, <4>2, <5>1 DEF DatabaseRight
        <4> QED
          BY <4>2
      <3>2. ASSUME NEW m \in Schema!Model
            PROVE  /\ table'[m] # None => Chunk(m) \in made'
                   /\ Chunk(m) \in Schema!Versions(ledger)' => table'[m] # None
        <4>1. table[m] # None => Chunk(m) \in made
          BY <1>0 DEF DatabaseRight
        <4>2. Chunk(m) \in Schema!Versions(ledger) => table[m] # None
          BY <1>0 DEF DatabaseRight
        <4>3. Schema!Version(n, c) = Chunk(m) <=> n = "chunk" /\ c.model = m
          BY VersionsOf
        <4> QED
          BY <1>5, <2>1, <2>2, <4>1, <4>2, <4>3
      <3> QED
        BY <1>0, <1>5, <2>1, <2>2, <3>1, <3>2 DEF DatabaseRight
    <2>6. ASSUME NEW j \in Instance
          PROVE  ProcessRight(starting[j])' /\ (Holds(starting'[j]) <=> schemaLock' = j)
      <3>1. CASE j = i
        BY <1>0, <1>1, <1>2, <1>5, <2>2, <2>4, <3>1 DEF ProcessRight, ProcessOK, Holds
      <3>2. CASE j # i
        <4>1. /\ ProcessRight(starting[j]) /\ (Holds(starting[j]) <=> schemaLock = j)
              /\ starting'[j] = starting[j] /\ schemaLock = i
          BY <1>0, <1>2, <2>3, <3>2 DEF SchemaInv
        <4>2. starting[j].at # "applying"
          BY <3>2, <4>1 DEF Holds
        <4>3. starting[j].at = "ready" => Complete(starting[j].config)'
          <5> SUFFICES ASSUME starting[j].at = "ready"
                       PROVE  Complete(starting[j].config)'
            OBVIOUS
          <5>1. /\ Complete(starting[j].config) /\ starting[j].config \in Config
                /\ starting[j].config.model \in Schema!Model /\ starting[j].config.dimension # None
            BY <4>1, KnowledgeBaseAssumption DEF ProcessRight, Schema!Model
          <5>2. PICK d : d = starting[j].config
            OBVIOUS
          <5>3. made \subseteq made' /\ Schema!Versions(ledger) \subseteq Schema!Versions(ledger)'
            BY <1>5, <2>1
          <5>4. table'[d.model] = d.dimension
            BY <2>2, <5>1, <5>2 DEF Complete
          <5>5. Complete(d)'
            BY <5>1, <5>2, <5>3, <5>4 DEF Complete
          <5> QED
            BY <4>1, <5>2, <5>5
        <4> QED
          BY <1>1, <1>5, <4>1, <4>2, <4>3 DEF ProcessRight, ProcessOK
      <3> QED
        BY <3>1, <3>2
    <2> QED
      BY <1>0, <1>1, <2>3, <2>5, <2>6 DEF SchemaInv
  <1> QED
    BY <1>3, <1>4, <1>5, Zenon DEF Schema!ApplyMigration

\* The database of an older release, found by the first process of this one.
LEMMA InheritStep ==
    ASSUME SchemaInv, Schema!Inherit
    PROVE  SchemaInv'
  <1>1. /\ made = {} /\ starts = 0 /\ UNCHANGED <<ledger, schemaLock, starting, starts>>
        /\ DatabaseRight
    BY DEF Schema!Inherit, SchemaInv
  <1>2. PICK c \in Config \cup {None} :
           /\ made' = {Schema!Version(n, c) :
                         n \in Schema!Baseline \ (IF c = None THEN {"chunk"} ELSE {})}
           /\ table' = IF c = None THEN table ELSE [table EXCEPT ![c.model] = c.dimension]
    BY DEF Schema!Inherit
  <1>3. Schema!Versions(ledger)' = {}
    BY <1>1 DEF DatabaseRight, Schema!Versions
  <1>4. \A m \in Schema!Model : table[m] = None
    BY <1>1 DEF DatabaseRight
  <1>5. Schema!Version("base", c) \in made'
    BY <1>2 DEF Schema!Baseline
  <1>6. c # None => c.model \in Schema!Model /\ Chunk(c.model) \in made'
    BY <1>2, VersionsOf DEF Schema!Baseline, Schema!Model
  <1>7. DatabaseRight'
    <2>1. table' = [m \in Schema!Model |-> table'[m]]
      BY <1>1, <1>2 DEF DatabaseRight
    <2>2. \A m \in Schema!Model : table'[m] # None => Chunk(m) \in made'
      BY <1>1, <1>2, <1>4, <1>6 DEF DatabaseRight
    <2>3. \A d : Schema!Version("base", d) \in made'
      BY <1>5, VersionsOf
    <2> QED
      BY <1>3, <2>1, <2>2, <2>3 DEF DatabaseRight
  <1>8. ASSUME NEW j \in Instance
        PROVE  ProcessRight(starting[j])' /\ (Holds(starting'[j]) <=> schemaLock' = j)
    <2>1. starting[j].at = "down"
      BY <1>1 DEF SchemaInv, ProcessRight
    <2> QED
      BY <1>1, <2>1 DEF SchemaInv, ProcessRight, ProcessOK
  <1> QED
    BY <1>1, <1>7, <1>8 DEF SchemaInv

LEMMA DeadlockAndCrash ==
    ASSUME SchemaInv, NEW i \in Instance, Schema!Deadlock(i) \/ Schema!Crash(i)
    PROVE  SchemaInv'
  <1> DEFINE x == starting[i]
  <1>0. /\ ProcessRight(x) /\ ProcessOK(x) /\ (Holds(x) <=> schemaLock = i)
        /\ starts \in Nat /\ starting = [j \in Instance |-> starting[j]] /\ DatabaseRight
    BY DEF SchemaInv, ProcessRight
  <1>1. CASE Schema!Deadlock(i)
    <2>1. x.at = "applying" /\ UNCHANGED <<ledger, made, table, starts>>
      BY <1>1 DEF Schema!Deadlock, Schema!Locked
    <2>2. CASE Schema!GiveUp(i, "deadlock")
      BY <2>1, <2>2, GivesUp
    <2>3. CASE starting' = [starting EXCEPT ![i].tries = @ + 1] /\ schemaLock' = schemaLock
      <3>1. PICK next : next = Process(x.at, x.config, x.seen, x.tries + 1, x.why)
        BY Zenon
      <3>2. [x EXCEPT !.tries = x.tries + 1] = next
        BY <1>0, <3>1, ProcessChanged, ZenonT(40)
      <3>3. starting' = [starting EXCEPT ![i] = next]
        BY <1>0, <2>3, <3>2
      <3>4. /\ ProcessOK(next) /\ next.at = x.at /\ next.config = x.config
            /\ next.seen = x.seen /\ next.why = x.why
        BY <3>1, ProcessFields
      <3>5. Schema!Versions(ledger)' = Schema!Versions(ledger)
        BY <2>1 DEF Schema!Versions
      <3>6. ProcessRight(next)' /\ Holds(next) /\ schemaLock = i
        BY <1>0, <2>1, <3>4, <3>5 DEF ProcessRight, ProcessOK, Holds
      <3> QED
        BY <1>0, <2>1, <2>3, <3>3, <3>6, ProcessMoves
    <2> QED
      BY <1>1, <2>2, <2>3 DEF Schema!Deadlock
  <1>2. CASE Schema!Crash(i)
    <2>1. /\ Schema!GiveUp(i, NoReason) /\ UNCHANGED <<ledger, made, table, starts>>
      BY <1>2, Zenon DEF Schema!Crash, Schema!GiveUp, NoReason
    <2>2. NoReason # "duplicate"
      BY Zenon DEF NoReason
    <2> QED
      BY <2>1, <2>2, GivesUp
  <1> QED
    BY <1>1, <1>2

LEMMA SchemaStart ==
    ASSUME Schema!Init
    PROVE  SchemaInv
  <1>1. /\ ledger = {} /\ made = {} /\ table = [m \in Schema!Model |-> None]
        /\ schemaLock = None /\ starts = 0
        /\ starting = [i \in Instance |-> Process("down", None, {}, 0, NoReason)]
    BY Zenon DEF Schema!Init, Schema!Down, Process, NoReason
  <1>2. NoReason # "duplicate"
    BY Zenon DEF NoReason
  <1>3. ASSUME NEW i \in Instance
        PROVE  ProcessRight(starting[i]) /\ ~Holds(starting[i]) /\ i # None
    <2>1. starting[i] = Process("down", None, {}, 0, NoReason)
      BY <1>1
    <2> QED
      BY <1>2, <2>1, ProcessFields, KnowledgeBaseAssumption DEF ProcessRight, Holds
  <1>4. DatabaseRight
    BY <1>1 DEF DatabaseRight, Schema!Versions
  <1> QED
    BY <1>1, <1>3, <1>4 DEF SchemaInv

\* However many processes bootstrap the schema at once, and wherever one of them dies, none fails
\* because another applied a migration before it; and a process that serves requests has every
\* migration of its package executed and recorded, and a table that its vectors fit
\* (KnowledgeBaseSchemaBootstrapService.apply under its advisory lock).
THEOREM SchemaIsReady == Spec => []SchemaReady
  <1>1. Init => (part = "schema" => SchemaInv)
    BY SchemaStart DEF Init
  <1>2. (part = "schema" => SchemaInv) /\ [Next]_vars => (part = "schema" => SchemaInv)'
    <2> SUFFICES ASSUME [Next]_vars, part = "schema", SchemaInv
                 PROVE  SchemaInv'
      BY PartSteps
    <2>1. ASSUME NEW i \in Instance, NEW t \in LegacyTask, Schema!Work(i, t)
          PROVE  SchemaInv'
      <3>1. UNCHANGED <<ledger, made, table, schemaLock, starting, starts>>
        BY <2>1 DEF Schema!Work
      <3> QED
        BY <3>1 DEF SchemaInv, ProcessRight, ProcessOK, Complete, DatabaseRight, Schema!Versions
    <2>2. CASE Schema!Next
      BY <2>1, <2>2, InheritStep, StartAndLock, RecordSteps, ValidateStep, ApplyStep,
         DeadlockAndCrash, FinishStep DEF Schema!Next
    <2>3. CASE UNCHANGED Schema!vars
      <3>1. UNCHANGED <<ledger, made, table, schemaLock, starting, starts>>
        BY <2>3 DEF Schema!vars
      <3> QED
        BY <3>1 DEF SchemaInv, ProcessRight, ProcessOK, Complete, DatabaseRight, Schema!Versions
    <2> QED
      BY <2>2, <2>3, PartSteps
  <1>3. (part = "schema" => SchemaInv) => SchemaReady
    <2> SUFFICES ASSUME SchemaInv
                 PROVE  Schema!AppliedOnce /\ Schema!ReadyComplete
      BY DEF SchemaReady
    <2> QED
      BY DEF SchemaInv, ProcessRight, Complete, Schema!AppliedOnce, Schema!ReadyComplete,
             Schema!Locked
  <1> QED
    BY <1>1, <1>2, <1>3, PTL DEF Spec

-----------------------------------------------------------------------------
(* The evidence of an entity.  EvidenceProofs proves it of Evidence alone; *)
(* here that is carried over to the whole, in which it is one part.        *)

Picked == INSTANCE EvidenceProofs WITH MaxText <- MaxFragment

\* The fragments and limits are those that EvidenceProofs asks for.
LEMMA EvidenceSane == Picked!Sane
  <1>1. ASSUME NEW f \in Fragment
        PROVE  f \in Picked!Piece
    <2>1. /\ f \in [doc : Int, rank : Nat, text : Seq(Nat), lines : SUBSET Nat, score : Int,
                    topics : SUBSET Nat]
          /\ f.text # <<>> /\ IsFiniteSet(f.topics)
          /\ f.lines # {} => \E a, b \in f.lines : f.lines = {a, b}
      BY EvidenceAssumption
    <2>2. f.lines \in Picked!Lines
      BY <2>1 DEF Picked!Lines
    <2>3. f \in [doc : Int, rank : Nat, text : Seq(Nat), lines : Picked!Lines, score : Int,
                 topics : SUBSET Nat]
      BY <2>1, <2>2
    <2> QED
      BY <2>1, <2>3 DEF Picked!Piece, IsFiniteSet, Picked!IsFiniteSet
  <1> QED
    BY <1>1, EvidenceAssumption DEF Picked!Sane

\* The operators of these theorems are those of KnowledgeBase: they have the same definition, one
\* by one from the inner to the outer, and so do the steps and the properties.
LEMMA SameRange == \A s : Chosen!Range(s) = Picked!Range(s)
  BY Zenon DEF Chosen!Range, Picked!Range

LEMMA SameMax == \A s : Chosen!Max(s) = Picked!Max(s)
  BY Zenon DEF Chosen!Max, Picked!Max

LEMMA SameMin == \A s : Chosen!Min(s) = Picked!Min(s)
  BY Zenon DEF Chosen!Min, Picked!Min

LEMMA SameNumber == \A s : Chosen!Cardinality(s) = Picked!Cardinality(s)
  BY Zenon DEF Chosen!Cardinality, Picked!Cardinality

LEMMA SameSmaller == \A m, n : Chosen!Smaller(m, n) = Picked!Smaller(m, n)
  BY Zenon DEF Chosen!Smaller, Picked!Smaller

LEMMA SameEach == \A s : Chosen!EachOnce(s) = Picked!EachOnce(s)
  BY SameRange, SameMax, ZenonT(30)
  DEF Chosen!EachOnce, Picked!EachOnce, Chosen!FoldLeft, Picked!FoldLeft, Chosen!MapThenFoldSet,
      Picked!MapThenFoldSet

LEMMA SameText == \A s, t : Chosen!MergedText(s, t) = Picked!MergedText(s, t)
  BY SameEach, Zenon DEF Chosen!MergedText, Picked!MergedText, Chosen!Within, Picked!Within

LEMMA SameLines == \A p, q : Chosen!MergedLines(p, q) = Picked!MergedLines(p, q)
  BY SameMin, SameMax, Zenon DEF Chosen!MergedLines, Picked!MergedLines

LEMMA SameJoin == \A e, f : Chosen!Join(e, f) = Picked!Join(e, f)
  BY SameText, SameLines, SameMax, Zenon DEF Chosen!Join, Picked!Join

LEMMA SameNeighbours == \A e, f : Chosen!Neighbours(e, f) = Picked!Neighbours(e, f)
  BY SameRange, SameMin, SameMax, SameSmaller, Zenon
  DEF Chosen!Neighbours, Picked!Neighbours, Chosen!Near, Picked!Near, Chosen!Overlaps,
      Picked!Overlaps

LEMMA SameAdjoin == \A m, f : Chosen!Adjoin(m, f) = Picked!Adjoin(m, f)
  <1> SUFFICES ASSUME NEW m, NEW f
               PROVE  Chosen!Adjoin(m, f) = Picked!Adjoin(m, f)
    OBVIOUS
  <1> DEFINE ofChosen == {i \in DOMAIN m : Chosen!Neighbours(m[i], f)}
             ofPicked == {i \in DOMAIN m : Picked!Neighbours(m[i], f)}
             With(near, i, text1, joined) ==
               IF near # {} /\ (\/ Len(text1) <= MaxFragment
                                \/ Chosen!Within(m[i].text, f.text)
                                \/ Chosen!Within(f.text, m[i].text))
               THEN [m EXCEPT ![i] = joined] ELSE Append(m, f)
  <1>1. ofChosen = ofPicked
    BY SameNeighbours
  <1>2. Chosen!Adjoin(m, f) =
          With(ofChosen, Chosen!Max(ofChosen),
               Chosen!MergedText(m[Chosen!Max(ofChosen)].text, f.text),
               Chosen!Join(m[Chosen!Max(ofChosen)], f))
    BY DEF Chosen!Adjoin
  <1>3. Picked!Adjoin(m, f) =
          With(ofPicked, Picked!Max(ofPicked),
               Picked!MergedText(m[Picked!Max(ofPicked)].text, f.text),
               Picked!Join(m[Picked!Max(ofPicked)], f))
    BY DEF Picked!Adjoin, Chosen!Within, Picked!Within
  <1> HIDE DEF ofChosen, ofPicked, With
  <1> QED
    BY <1>1, <1>2, <1>3, SameMax, SameText, SameJoin, Zenon

LEMMA SameCoalesced == \A fs : Chosen!Coalesced(fs) = Picked!Coalesced(fs)
  BY SameAdjoin, SameMax, Zenon
  DEF Chosen!Coalesced, Picked!Coalesced, Chosen!FoldLeft, Picked!FoldLeft,
      Chosen!MapThenFoldSet, Picked!MapThenFoldSet

LEMMA SameMention == \A m, f : Chosen!Mention(m, f) = Picked!Mention(m, f)
  BY SameRange, SameMin, SameJoin, ZenonT(30)
  DEF Chosen!Mention, Picked!Mention, Chosen!Overlaps, Picked!Overlaps

LEMMA SameMentions == \A fs : Chosen!Mentions(fs) = Picked!Mentions(fs)
  BY SameMax, Zenon
  DEF Chosen!Mentions, Picked!Mentions, Chosen!FoldLeft, Picked!FoldLeft, Chosen!MapThenFoldSet,
      Picked!MapThenFoldSet

LEMMA SameMentioned == \A fs : Chosen!Mentioned(fs) = Picked!Mentioned(fs)
  BY SameMention, SameMentions, SameMax, ZenonT(30)
  DEF Chosen!Mentioned, Picked!Mentioned, Chosen!FoldLeft, Picked!FoldLeft,
      Chosen!MapThenFoldSet, Picked!MapThenFoldSet

LEMMA SameOnce == \A m, f : Chosen!Once(m, f) = Picked!Once(m, f)
  BY SameJoin, SameMin, SameMax, ZenonT(30) DEF Chosen!Once, Picked!Once, Chosen!Same, Picked!Same

LEMMA SameUnique == \A fs : Chosen!Unique(fs) = Picked!Unique(fs)
  BY SameOnce, SameMax, Zenon
  DEF Chosen!Unique, Picked!Unique, Chosen!FoldLeft, Picked!FoldLeft, Chosen!MapThenFoldSet,
      Picked!MapThenFoldSet

LEMMA SameBefore == \A e, f : Chosen!Before(e, f) = Picked!Before(e, f)
  BY SameMin, ZenonT(30) DEF Chosen!Before, Picked!Before, Chosen!First, Picked!First

LEMMA SameRanked == \A fs : Chosen!Ranked(fs) = Picked!Ranked(fs)
  <1> SUFFICES ASSUME NEW fs
               PROVE  Chosen!Ranked(fs) = Picked!Ranked(fs)
    OBVIOUS
  <1> DEFINE beforeChosen(i) ==
               {j \in DOMAIN fs : \/ Chosen!Before(fs[j], fs[i])
                                  \/ j < i /\ ~Chosen!Before(fs[i], fs[j])}
             beforePicked(i) ==
               {j \in DOMAIN fs : \/ Picked!Before(fs[j], fs[i])
                                  \/ j < i /\ ~Picked!Before(fs[i], fs[j])}
             ofChosen(i) == Chosen!Cardinality(beforeChosen(i))
             ofPicked(i) == Picked!Cardinality(beforePicked(i))
             atChosen(n) == CHOOSE i \in DOMAIN fs : ofChosen(i) = n - 1
             atPicked(n) == CHOOSE i \in DOMAIN fs : ofPicked(i) = n - 1
  <1>1. \A i : beforeChosen(i) = beforePicked(i)
    BY SameBefore
  <1>2. Chosen!Ranked(fs) = [n \in DOMAIN fs |-> fs[atChosen(n)]]
    BY DEF Chosen!Ranked
  <1>3. Picked!Ranked(fs) = [n \in DOMAIN fs |-> fs[atPicked(n)]]
    BY DEF Picked!Ranked
  <1> HIDE DEF beforeChosen, beforePicked
  <1>4. \A i : ofChosen(i) = ofPicked(i)
    BY <1>1, SameNumber, Zenon
  <1> HIDE DEF ofChosen, ofPicked
  <1>5. \A n : atChosen(n) = atPicked(n)
    BY <1>4, Zenon
  <1> HIDE DEF atChosen, atPicked
  <1> QED
    BY <1>2, <1>3, <1>5

LEMMA SameEligible == \A fs : Chosen!Eligible(fs) = Picked!Eligible(fs)
  BY SameCoalesced, SameMentioned, SameUnique, SameRanked, Zenon
  DEF Chosen!Eligible, Picked!Eligible

LEMMA SameTaken == \A taken : Chosen!Taken(taken) = Picked!Taken(taken)
  BY Zenon DEF Chosen!Taken, Picked!Taken

LEMMA SameSum == \A taken : Chosen!Sum(taken) = Picked!Sum(taken)
  BY Zenon
  DEF Chosen!Sum, Picked!Sum, Chosen!FoldSet, Picked!FoldSet, Chosen!MapThenFoldSet,
      Picked!MapThenFoldSet

LEMMA SameRoom == \A es, taken, i : Chosen!Room(es, taken, i) = Picked!Room(es, taken, i)
  BY SameTaken, SameSum, SameNumber, SameSmaller, Zenon DEF Chosen!Room, Picked!Room

LEMMA SameAdd == \A es, taken, i : Chosen!Add(es, taken, i) = Picked!Add(es, taken, i)
  BY SameRoom, Zenon DEF Chosen!Add, Picked!Add

LEMMA SameGroupsOf == \A e : Chosen!GroupsOf(e) = Picked!GroupsOf(e)
  BY SMT DEF Chosen!GroupsOf, Picked!GroupsOf

LEMMA SameGroups == \A es : Chosen!Groups(es) = Picked!Groups(es)
  BY SameGroupsOf, Zenon DEF Chosen!Groups, Picked!Groups

LEMMA SameQuota == \A es : Chosen!Quota(es) = Picked!Quota(es)
  BY SameGroups, SameNumber, SameMax, SameSmaller, Zenon DEF Chosen!Quota, Picked!Quota

LEMMA SameCounted ==
    \A es, taken, g : Chosen!Counted(es, taken, g) = Picked!Counted(es, taken, g)
  <1> SUFFICES ASSUME NEW es, NEW taken, NEW g
               PROVE  Chosen!Counted(es, taken, g) = Picked!Counted(es, taken, g)
    OBVIOUS
  <1> DEFINE ofChosen == {i \in Chosen!Taken(taken) : g \in Chosen!GroupsOf(es[i])}
             ofPicked == {i \in Picked!Taken(taken) : g \in Picked!GroupsOf(es[i])}
             In(S) == Chosen!FoldSet(LAMBDA i, n : Chosen!Smaller(Len(es[i].text), MaxFragment) + n, 0, S)
  <1>1. ofChosen = ofPicked
    BY SameTaken, SameGroupsOf
  <1>2. Chosen!Counted(es, taken, g) = In(ofChosen)
    BY DEF Chosen!Counted
  <1>3. Picked!Counted(es, taken, g) = In(ofPicked)
    BY DEF Picked!Counted, Chosen!FoldSet, Picked!FoldSet, Chosen!MapThenFoldSet,
           Picked!MapThenFoldSet, Chosen!Smaller, Picked!Smaller
  <1> HIDE DEF ofChosen, ofPicked, In
  <1> QED
    BY <1>1, <1>2, <1>3

LEMMA SameCount == \A es, g, acc, i : Chosen!Count(es, g, acc, i) = Picked!Count(es, g, acc, i)
  <1> SUFFICES ASSUME NEW es, NEW g, NEW acc, NEW i
               PROVE  Chosen!Count(es, g, acc, i) = Picked!Count(es, g, acc, i)
    OBVIOUS
  <1> DEFINE In(groups, quota, new) ==
               IF g \notin groups \/ acc.covered >= quota THEN acc
               ELSE [taken |-> new, covered |-> acc.covered + new[i] - acc.taken[i]]
  <1>1. Chosen!Count(es, g, acc, i) =
            In(Chosen!GroupsOf(es[i]), Chosen!Quota(es), Chosen!Add(es, acc.taken, i))
    BY Zenon DEF Chosen!Count
  <1>2. Picked!Count(es, g, acc, i) =
            In(Picked!GroupsOf(es[i]), Picked!Quota(es), Picked!Add(es, acc.taken, i))
    BY Zenon DEF Picked!Count
  <1>3. /\ Chosen!GroupsOf(es[i]) = Picked!GroupsOf(es[i]) /\ Chosen!Quota(es) = Picked!Quota(es)
        /\ Chosen!Add(es, acc.taken, i) = Picked!Add(es, acc.taken, i)
    BY SameGroupsOf, SameQuota, SameAdd, Zenon
  <1> HIDE DEF In
  <1> QED
    BY <1>1, <1>2, <1>3, Zenon

LEMMA SameServe == \A es, taken, g : Chosen!Serve(es, taken, g) = Picked!Serve(es, taken, g)
  <1> SUFFICES ASSUME NEW es, NEW taken, NEW g
               PROVE  Chosen!Serve(es, taken, g) = Picked!Serve(es, taken, g)
    OBVIOUS
  <1> DEFINE list == [i \in DOMAIN es |-> i]
             OfChosen(h) == [q \in SUBSET DOMAIN list |->
                               IF q = {} THEN [taken |-> taken, covered |-> Chosen!Counted(es, taken, g)]
                               ELSE Chosen!Count(es, g, h[q \ {Chosen!Max(q)}], list[Chosen!Max(q)])]
             OfPicked(h) == [q \in SUBSET DOMAIN list |->
                               IF q = {} THEN [taken |-> taken, covered |-> Picked!Counted(es, taken, g)]
                               ELSE Picked!Count(es, g, h[q \ {Picked!Max(q)}], list[Picked!Max(q)])]
  <1>1. \A h : OfChosen(h) = OfPicked(h)
    <2> TAKE h
    <2> DEFINE ofChosen(q) == Chosen!Count(es, g, h[q \ {Chosen!Max(q)}], list[Chosen!Max(q)])
               ofPicked(q) == Picked!Count(es, g, h[q \ {Picked!Max(q)}], list[Picked!Max(q)])
    <2>1. \A q : ofChosen(q) = ofPicked(q)
      BY SameCount, SameCounted, SameMax
    <2>2. [taken |-> taken, covered |-> Chosen!Counted(es, taken, g)]
             = [taken |-> taken, covered |-> Picked!Counted(es, taken, g)]
      BY SameCount, SameCounted, SameMax
    <2> HIDE DEF ofChosen, ofPicked, list
    <2>3. \A q : (IF q = {} THEN [taken |-> taken, covered |-> Chosen!Counted(es, taken, g)] ELSE ofChosen(q))
               = IF q = {} THEN [taken |-> taken, covered |-> Picked!Counted(es, taken, g)] ELSE ofPicked(q)
      BY <2>1, <2>2
    <2> QED
      BY <2>3, Zenon DEF ofChosen, ofPicked
  <1>2. Chosen!Serve(es, taken, g) = (CHOOSE h : h = OfChosen(h))[DOMAIN list].taken
    BY DEF Chosen!Serve, Chosen!FoldLeft, Chosen!MapThenFoldSet
  <1>3. Picked!Serve(es, taken, g) = (CHOOSE h : h = OfPicked(h))[DOMAIN list].taken
    BY DEF Picked!Serve, Picked!FoldLeft, Picked!MapThenFoldSet
  <1> HIDE DEF OfChosen, OfPicked
  <1> QED
    BY <1>1, <1>2, <1>3, Zenon

LEMMA SameOrder == \A gs : Chosen!InOrder(gs) = Picked!InOrder(gs)
  <1> SUFFICES ASSUME NEW gs
               PROVE  Chosen!InOrder(gs) = Picked!InOrder(gs)
    OBVIOUS
  <1> DEFINE less(g) == {h \in gs : Chosen!LessGroup(h, g)}
             ofChosen(g) == Chosen!Cardinality(less(g))
             ofPicked(g) == Picked!Cardinality(less(g))
             atChosen(n) == CHOOSE g \in gs : ofChosen(g) = n - 1
             atPicked(n) == CHOOSE g \in gs : ofPicked(g) = n - 1
  <1>1. Chosen!InOrder(gs) = [n \in 1 .. Chosen!Cardinality(gs) |-> atChosen(n)]
    BY DEF Chosen!InOrder
  <1>2. Picked!InOrder(gs) = [n \in 1 .. Picked!Cardinality(gs) |-> atPicked(n)]
    BY DEF Picked!InOrder, Chosen!LessGroup, Picked!LessGroup
  <1> HIDE DEF less
  <1>3. \A g : ofChosen(g) = ofPicked(g)
    BY SameNumber, Zenon
  <1> HIDE DEF ofChosen, ofPicked
  <1>4. \A n : atChosen(n) = atPicked(n)
    BY <1>3, Zenon
  <1> HIDE DEF atChosen, atPicked
  <1> QED
    BY <1>1, <1>2, <1>4, SameNumber

LEMMA SameServed == \A es : Chosen!Served(es) = Picked!Served(es)
  <1> SUFFICES ASSUME NEW es
               PROVE  Chosen!Served(es) = Picked!Served(es)
    OBVIOUS
  <1> DEFINE list == Chosen!InOrder(Chosen!Groups(es))
             OfChosen(h) == [q \in SUBSET DOMAIN list |->
                               IF q = {} THEN [i \in DOMAIN es |-> 0]
                               ELSE Chosen!Serve(es, h[q \ {Chosen!Max(q)}], list[Chosen!Max(q)])]
             OfPicked(h) == [q \in SUBSET DOMAIN list |->
                               IF q = {} THEN [i \in DOMAIN es |-> 0]
                               ELSE Picked!Serve(es, h[q \ {Picked!Max(q)}], list[Picked!Max(q)])]
  <1>1. \A h : OfChosen(h) = OfPicked(h)
    <2> TAKE h
    <2> DEFINE ofChosen(q) == Chosen!Serve(es, h[q \ {Chosen!Max(q)}], list[Chosen!Max(q)])
               ofPicked(q) == Picked!Serve(es, h[q \ {Picked!Max(q)}], list[Picked!Max(q)])
    <2>1. \A q : ofChosen(q) = ofPicked(q)
      BY SameServe, SameMax
    <2>2. [i \in DOMAIN es |-> 0] = [i \in DOMAIN es |-> 0]
      BY SameServe, SameMax
    <2> HIDE DEF ofChosen, ofPicked, list
    <2>3. \A q : (IF q = {} THEN [i \in DOMAIN es |-> 0] ELSE ofChosen(q))
               = IF q = {} THEN [i \in DOMAIN es |-> 0] ELSE ofPicked(q)
      BY <2>1, <2>2
    <2> QED
      BY <2>3, Zenon DEF ofChosen, ofPicked
  <1>2. Chosen!Served(es) = (CHOOSE h : h = OfChosen(h))[DOMAIN list]
    BY DEF Chosen!Served, Chosen!FoldLeft, Chosen!MapThenFoldSet
  <1>3. Picked!Served(es) = (CHOOSE h : h = OfPicked(h))[DOMAIN list]
    BY SameOrder, SameGroups DEF Picked!Served, Picked!FoldLeft, Picked!MapThenFoldSet
  <1> HIDE DEF OfChosen, OfPicked
  <1> QED
    BY <1>1, <1>2, <1>3, Zenon

LEMMA SameFilled == \A es, taken : Chosen!Filled(es, taken) = Picked!Filled(es, taken)
  <1> SUFFICES ASSUME NEW es, NEW taken
               PROVE  Chosen!Filled(es, taken) = Picked!Filled(es, taken)
    OBVIOUS
  <1> DEFINE list == [i \in DOMAIN es |-> i]
             OfChosen(h) == [q \in SUBSET DOMAIN list |->
                               IF q = {} THEN taken
                               ELSE Chosen!Add(es, h[q \ {Chosen!Max(q)}], list[Chosen!Max(q)])]
             OfPicked(h) == [q \in SUBSET DOMAIN list |->
                               IF q = {} THEN taken
                               ELSE Picked!Add(es, h[q \ {Picked!Max(q)}], list[Picked!Max(q)])]
  <1>1. \A h : OfChosen(h) = OfPicked(h)
    <2> TAKE h
    <2> DEFINE ofChosen(q) == Chosen!Add(es, h[q \ {Chosen!Max(q)}], list[Chosen!Max(q)])
               ofPicked(q) == Picked!Add(es, h[q \ {Picked!Max(q)}], list[Picked!Max(q)])
    <2>1. \A q : ofChosen(q) = ofPicked(q)
      BY SameAdd, SameMax, Zenon
    <2>2. taken = taken
      BY SameAdd, SameMax, Zenon
    <2> HIDE DEF ofChosen, ofPicked, list
    <2>3. \A q : (IF q = {} THEN taken ELSE ofChosen(q))
               = IF q = {} THEN taken ELSE ofPicked(q)
      BY <2>1, <2>2
    <2> QED
      BY <2>3, Zenon DEF ofChosen, ofPicked
  <1>2. Chosen!Filled(es, taken) = (CHOOSE h : h = OfChosen(h))[DOMAIN list]
    BY DEF Chosen!Filled, Chosen!FoldLeft, Chosen!MapThenFoldSet
  <1>3. Picked!Filled(es, taken) = (CHOOSE h : h = OfPicked(h))[DOMAIN list]
    BY DEF Picked!Filled, Picked!FoldLeft, Picked!MapThenFoldSet
  <1> HIDE DEF OfChosen, OfPicked
  <1> QED
    BY <1>1, <1>2, <1>3, Zenon

LEMMA SameSelection == \A es : Chosen!Selection(es) = Picked!Selection(es)
  BY SameServed, SameFilled, Zenon DEF Chosen!Selection, Picked!Selection

LEMMA SameClaims == \A es, taken : Chosen!ClaimGroups(es, taken) = Picked!ClaimGroups(es, taken)
  <1> SUFFICES ASSUME NEW es, NEW taken
               PROVE  Chosen!ClaimGroups(es, taken) = Picked!ClaimGroups(es, taken)
    OBVIOUS
  <1> DEFINE topics(i) == IF es[i].topics = {} THEN {0} ELSE es[i].topics
             by(T, t) == {i \in T : t \in topics(i)}
             In(T) == [t \in UNION {topics(i) : i \in T} |->
                         [evidence |-> by(T, t), sources |-> {es[i].doc : i \in by(T, t)},
                          required |-> \E i \in by(T, t) : es[i].rank > 0 \/ es[i].score > 1]]
  <1>1. Chosen!ClaimGroups(es, taken) = In(Chosen!Taken(taken))
    BY DEF Chosen!ClaimGroups
  <1>2. Picked!ClaimGroups(es, taken) = In(Picked!Taken(taken))
    BY DEF Picked!ClaimGroups
  <1> HIDE DEF In
  <1> QED
    BY <1>1, <1>2, SameTaken

LEMMA SameFind == (Chosen!Init <=> Picked!Init) /\ (Chosen!Next <=> Picked!Next)
  BY Zenon DEF Chosen!Init, Picked!Init, Chosen!Next, Picked!Next, Chosen!Find, Picked!Find

LEMMA SameEvidence ==
    ASSUME Picked!NothingLost, Picked!LimitsKept, Picked!NothingLeft
    PROVE  Chosen!NothingLost /\ Chosen!LimitsKept /\ Chosen!NothingLeft
  <1>1. Chosen!NothingLost
    BY SameEligible, SameRange, Zenon DEF Chosen!NothingLost, Picked!NothingLost
  <1>2. Chosen!LimitsKept <=> Picked!LimitsKept
    BY SameEligible, SameSelection, SameSum, SameNumber, SameTaken, SameRange, Zenon
    DEF Chosen!LimitsKept, Picked!LimitsKept
  <1>3. Chosen!NothingLeft
    <2> DEFINE es == Picked!Eligible(source)
               taken == Picked!Selection(es)
               LeftOut(fs, T, sum) ==
                 \A i \in DOMAIN fs \ T :
                     \/ sum = MaxTotal \/ Chosen!Cardinality(T) = MaxFragments
                     \/ Chosen!Cardinality({j \in T : fs[j].doc = fs[i].doc}) = MaxPerDoc
               Supported(fs, T, claims) ==
                 \A t \in DOMAIN claims : /\ claims[t].evidence # {}
                                          /\ claims[t].sources \subseteq {fs[i].doc : i \in T}
               Left(fs, k) == /\ LeftOut(fs, Chosen!Taken(k), Chosen!Sum(k))
                              /\ Supported(fs, Chosen!Taken(k), Chosen!ClaimGroups(fs, k))
    <2>1. Chosen!NothingLeft <=> Left(Chosen!Eligible(source), Chosen!Selection(Chosen!Eligible(source)))
      BY DEF Chosen!NothingLeft
    <2>2. Chosen!Eligible(source) = es /\ Chosen!Selection(es) = taken
      BY SameEligible, SameSelection, Zenon
    <2>3. LeftOut(es, Picked!Taken(taken), Picked!Sum(taken))
      BY SameNumber, Zenon DEF Picked!NothingLeft
    <2>4. Supported(es, Picked!Taken(taken), Picked!ClaimGroups(es, taken))
      BY Zenon DEF Picked!NothingLeft
    <2>5. Left(es, taken)
      <3> HIDE DEF LeftOut, Supported, es, taken
      <3> QED
        BY <2>3, <2>4, SameTaken, SameSum, SameClaims
    <2> HIDE DEF Left, es, taken
    <2> QED
      BY <2>1, <2>2, <2>5, Zenon
  <1> QED
    BY <1>1, <1>2, <1>3

\* Whatever is found about an entity and in whatever order, merging loses no text, topic or
\* mention of it, what is taken keeps the limits, and the rest is left out only when one of them
\* is reached.
THEOREM EvidenceIsChosen == Spec => []EvidenceChosen
  <1>1. Init => (part = "evidence" => Picked!Found)
    BY EvidenceSane, SameFind, Picked!FoundAlways DEF Init
  <1>2. (part = "evidence" => Picked!Found) /\ [Next]_vars => (part = "evidence" => Picked!Found)'
    <2> SUFFICES ASSUME [Next]_vars, part = "evidence", Picked!Found
                 PROVE  Picked!Found'
      BY PartSteps
    <2>1. Picked!Next \/ UNCHANGED source
      BY PartSteps, SameFind
    <2> QED
      BY <2>1, EvidenceSane, Picked!FoundAlways
  <1>3. (part = "evidence" => Picked!Found) => EvidenceChosen
    BY EvidenceSane, SameEvidence, Picked!FoundAll, Picked!LimitsHold, Picked!LeftOut
    DEF EvidenceChosen
  <1> QED
    BY <1>1, <1>2, <1>3, PTL DEF Spec
=============================================================================
