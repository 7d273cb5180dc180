------------------------------ MODULE Entities ------------------------------
(***************************************************************************)
(* The entities of one knowledge base and their names: workers resolve what*)
(* a document mentions to an entity, by its exact name, by a synonym that  *)
(* the model confirms, or by creating it; aliases and entities are deleted *)
(* by hand.  Each entity has one embedding, which is made from its names.  *)
(*                                                                         *)
(* A name is its normalized surface.  Subjects and types, which discovery  *)
(* never gives, topics, and the files of entities are left out.            *)
(***************************************************************************)
EXTENDS Integers, FiniteSets

CONSTANTS
    Surface,
    Worker,
    MaxEntities,   \* bound: entities ever created
    MaxDeletions,  \* bound: aliases and entities deleted
    None

VARIABLES
    entity,     \* the canonical rows, each with the aliases that refer to it
    embedding,  \* the names an entity's embedding was made from, or None
    lock,       \* advisory_lock_surface: who holds it
    proc,       \* what a worker does
    deletions

vars == <<entity, embedding, lock, proc, deletions>>

Id    == 1 .. MaxEntities
Names == SUBSET Surface
Idle  == [at |-> "idle", name |-> None, aliases |-> {}, target |-> 0, text |-> {}]

Init == /\ entity = [e \in Id |-> None]
        /\ embedding = [e \in Id |-> None]
        /\ lock = [s \in Surface |-> None]
        /\ proc = [w \in Worker |-> Idle]
        /\ deletions = 0

Gone    == [name |-> None, born |-> {}, added |-> {}]
Live    == {e \in Id : entity[e] \notin {None, Gone}}
Called(e) == {entity[e].name} \cup entity[e].born \cup entity[e].added
Bearers(S) == {e \in Live : Called(e) \cap S # {}}
Named(s) == {e \in Live : entity[e].name = s}

Goes(w, at) == proc' = [proc EXCEPT ![w].at = at]
Heads(w, at, e) == proc' = [proc EXCEPT ![w].at = at, ![w].target = e]

\* resolve_candidate: the entity that bears one of the names; when several do, a new one is
\* created; when none does, its like are looked for.
Resolve(w, n, aliases) ==
    LET found == Bearers({n} \cup aliases) IN
    /\ proc[w].at = "idle" /\ n \notin aliases
    /\ proc' = [proc EXCEPT ![w] = [Idle EXCEPT !.name = n, !.aliases = aliases,
                    !.at = CASE Cardinality(found) = 1 -> "idle"
                             [] Cardinality(found) > 1 -> "create"
                             [] OTHER -> "recall"]]
    /\ UNCHANGED <<entity, embedding, lock, deletions>>

\* The model takes it for one of the entities that have an embedding, or for none of them.
Recall(w) ==
    /\ proc[w].at = "recall"
    /\ \/ \E e \in {x \in Live : embedding[x] # None} : Heads(w, "alias", e)
       \/ Goes(w, "create")
    /\ UNCHANGED <<entity, embedding, lock, deletions>>

FreeAlways(w, s) == TRUE

\* The lock of a name is held to the end of the transaction.
Free(w, s) == lock[s] = None

\* _create_new: an entity of that name that was created meanwhile is taken.
LockForCreate(w) ==
    LET n == proc[w].name IN
    /\ proc[w].at = "create" /\ Free(w, n)
    /\ IF Cardinality(Named(n)) = 1
       THEN proc' = [proc EXCEPT ![w] = Idle] /\ UNCHANGED lock
       ELSE Goes(w, "insert") /\ lock' = [lock EXCEPT ![n] = w]
    /\ UNCHANGED <<entity, embedding, deletions>>

Insert(w) ==
    /\ proc[w].at = "insert"
    /\ \E e \in {x \in Id : entity[x] = None} :
           /\ \A x \in Id : x < e => entity[x] # None
           /\ entity' = [entity EXCEPT ![e] =
                            [name |-> proc[w].name, born |-> proc[w].aliases, added |-> {}]]
           /\ Heads(w, "refresh", e)
    /\ lock' = [lock EXCEPT ![proc[w].name] = None]
    /\ UNCHANGED <<embedding, deletions>>

\* add_alias: the name is looked up again under its lock; it is not added to an entity
\* that has it, nor when another one does.
LockForAlias(w) ==
    LET n == proc[w].name  e == proc[w].target IN
    /\ proc[w].at = "alias" /\ Free(w, n)
    /\ IF e \notin Live THEN proc' = [proc EXCEPT ![w] = Idle] /\ UNCHANGED lock
       ELSE IF Bearers({n}) # {} THEN Goes(w, "refresh") /\ UNCHANGED lock
       ELSE Goes(w, "add") /\ lock' = [lock EXCEPT ![n] = w]
    /\ UNCHANGED <<entity, embedding, deletions>>

\* An alias of an entity that is gone cannot be inserted.
Add(w) ==
    LET n == proc[w].name  e == proc[w].target IN
    /\ proc[w].at = "add"
    /\ IF e \in Live
       THEN /\ entity' = [entity EXCEPT ![e].added = @ \cup {n}]
            /\ embedding' = [embedding EXCEPT ![e] = None]
            /\ Goes(w, "refresh")
       ELSE proc' = [proc EXCEPT ![w] = Idle] /\ UNCHANGED <<entity, embedding>>
    /\ lock' = [lock EXCEPT ![n] = None]
    /\ UNCHANGED deletions

\* refresh_embeddings: the names are read, then the connection is closed.
ReadNames(w) ==
    LET e == proc[w].target IN
    /\ proc[w].at = "refresh"
    /\ IF e \in Live /\ embedding[e] # Called(e)
       THEN proc' = [proc EXCEPT ![w].at = "embed", ![w].text = Called(e)]
       ELSE proc' = [proc EXCEPT ![w] = Idle]
    /\ UNCHANGED <<entity, embedding, lock, deletions>>

\* The embedding of those names is stored; the service may have failed.
Embed(w) ==
    LET e == proc[w].target IN
    /\ proc[w].at = "embed"
    /\ \/ embedding' = IF e \in Live THEN [embedding EXCEPT ![e] = proc[w].text] ELSE embedding
       \/ UNCHANGED embedding
    /\ proc' = [proc EXCEPT ![w] = Idle]
    /\ UNCHANGED <<entity, lock, deletions>>

\* delete_alias, whose own refresh is a worker's.
DeleteAlias(w, e, s) ==
    /\ proc[w].at = "idle" /\ deletions < MaxDeletions
    /\ e \in Live /\ s \in entity[e].born \cup entity[e].added
    /\ entity' = [entity EXCEPT ![e].born = @ \ {s}, ![e].added = @ \ {s}]
    /\ embedding' = [embedding EXCEPT ![e] = None]
    /\ Heads(w, "refresh", e)
    /\ deletions' = deletions + 1
    /\ UNCHANGED lock

\* delete_entity: the aliases and the embedding go with it.
DeleteEntity(e) ==
    /\ deletions < MaxDeletions /\ e \in Live
    /\ entity' = [entity EXCEPT ![e] = Gone]
    /\ embedding' = [embedding EXCEPT ![e] = None]
    /\ deletions' = deletions + 1
    /\ UNCHANGED <<lock, proc>>

Next == \/ \E w \in Worker :
              \/ \E n \in Surface, aliases \in Names : Resolve(w, n, aliases)
              \/ Recall(w) \/ LockForCreate(w) \/ Insert(w) \/ LockForAlias(w) \/ Add(w)
              \/ ReadNames(w) \/ Embed(w)
              \/ \E e \in Id, s \in Surface : DeleteAlias(w, e, s)
        \/ \E e \in Id : DeleteEntity(e)

Spec == Init /\ [][Next]_vars
-----------------------------------------------------------------------------
\* Workers that meet the same name at the same time agree on what it names: there is one
\* entity of a name, and a name is never confirmed as a synonym of two.
NamesAgree ==
    \A s \in Surface :
        /\ Cardinality(Named(s)) <= 1
        /\ Cardinality({e \in Live : s \in entity[e].added}) <= 1

\* An embedding made from other names than the entity's is not served: while nobody is about
\* to make it again, it is that of its names or it is missing.
EmbeddingCurrent ==
    \A e \in Live :
        (\A w \in Worker : proc[w].target # e) => embedding[e] \in {None, Called(e)}
=============================================================================
