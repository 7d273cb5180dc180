------------------------------ MODULE Metadata ------------------------------
(***************************************************************************)
(* The properties of one file: rows of a name, a type and a value, changed *)
(* by batches of operations, by the front matter of a new content and by   *)
(* the tags of an entity, each in a transaction that locks the file first. *)
(* The database keeps a name unique only together with its type.           *)
(***************************************************************************)
EXTENDS Integers, FiniteSets

CONSTANTS
    Property,
    Tag,
    Writer,
    Nobody

VARIABLES
    rows,   \* knowledge_file_metadata_value: the active rows of the file
    alive,
    lock,   \* the file's row lock
    tx      \* the transaction of a writer: what it read, and its uncommitted changes

vars == <<rows, alive, lock, tx>>

Text(p)    == [name |-> p, type |-> "string", v |-> {}]
List(p, s) == [name |-> p, type |-> "stringList", v |-> s]
Of(p, R)   == {r \in R : r.name = p}

Operation(p) == {[op |-> o, row |-> Text(p)] : o \in {"set", "upsert", "unset", "clear"}}
                \cup {[op |-> o, row |-> List(p, {t})] : o \in {"set", "upsert", "append", "remove", "tag"},
                                                         t \in Tag}
All == UNION {Operation(p) : p \in Property}
Only(ops) == {o \in All : o.op \in ops}

\* A request names a property once; front matter is upserted, tags are added alone.
Batches == {b \in SUBSET Only({"set", "unset", "append", "remove", "clear"}) :
               Cardinality(b) \in 1 .. 2 /\ \A o, q \in b : o.row.name = q.row.name => o = q}
           \cup {{o} : o \in Only({"upsert", "tag"})}

Idle == [at |-> "idle", batch |-> {}, todo |-> {}, current |-> {}, retired |-> {}, added |-> {}]

Init == /\ rows = {}
        /\ alive = TRUE
        /\ lock = Nobody
        /\ tx = [w \in Writer |-> Idle]

FreeAlways(w) == TRUE

\* get_entry_by_path_for_update, get_entry_by_id_for_update
Free(w) == lock = Nobody

Goes(w, at) == tx' = [tx EXCEPT ![w].at = at]

\* The entry is looked up by its path, then its row is locked and read again.
Begin(w) ==
    /\ tx[w].at = "idle" /\ alive
    /\ Goes(w, "locking")
    /\ UNCHANGED <<rows, alive, lock>>

Lock(w) ==
    /\ tx[w].at = "locking" /\ Free(w)
    /\ IF alive THEN Goes(w, "reading") /\ lock' = w
                ELSE tx' = [tx EXCEPT ![w] = Idle] /\ UNCHANGED lock
    /\ UNCHANGED <<rows, alive>>

\* get_file_metadata of the properties that the batch names, once for all of it.
Read(w) ==
    /\ tx[w].at = "reading"
    /\ \E b \in Batches :
           tx' = [tx EXCEPT ![w] = [Idle EXCEPT !.at = "applying", !.batch = b, !.todo = b,
                      !.current = {r \in rows : \E o \in b : o.row.name = r.name}]]
    /\ UNCHANGED <<rows, alive, lock>>

\* The active rows as the transaction sees them.
Seen(w) == (rows \ tx[w].retired) \cup tx[w].added

UpsertOnly(w, row, gone) ==
    [tx[w] EXCEPT !.added = {r \in @ \ gone : <<r.name, r.type>> # <<row.name, row.type>>} \cup {row},
                  !.retired = @ \cup gone \cup {r \in Seen(w) : <<r.name, r.type>> = <<row.name, row.type>>}]

\* upsert_value: rows of the property with another type are retired; the one of its type is
\* updated, or a new one inserted.
Upsert(w, row, gone) ==
    [tx[w] EXCEPT !.added = {r \in @ \ gone : r.name # row.name} \cup {row},
                  !.retired = @ \cup gone \cup Of(row.name, Seen(w))]

\* soft_delete_value
Retire(w, p) == [tx[w] EXCEPT !.added = @ \ Of(p, @), !.retired = @ \cup Of(p, Seen(w))]

\* A list is changed from what was read, and only when there is one.
Listed(w, o) == LET c == Of(o.row.name, tx[w].current) IN
                /\ Cardinality(c) = 1 /\ \A r \in c : r.type = "stringList"
Held(w, o)   == UNION {r.v : r \in Of(o.row.name, tx[w].current)}

Updated(w, o) ==
    CASE o.op \in {"append", "tag"} -> List(o.row.name, Held(w, o) \cup o.row.v)
      [] o.op = "remove" -> List(o.row.name, Held(w, o) \ o.row.v)
      [] o.op = "clear"  -> List(o.row.name, {})
      [] OTHER -> o.row

\* A list operation needs the list it works on; a tag may be the first.
Applicable(w, o) ==
    \/ o.op \in {"set", "upsert", "unset"}
    \/ Listed(w, o)
    \/ o.op = "tag" /\ Of(o.row.name, tx[w].current) = {}

\* _apply_operation; setting a property first retires all that was read of another type.
Changed(w, o) ==
    LET c == Of(o.row.name, tx[w].current) IN
    CASE o.op = "unset" -> Retire(w, o.row.name)
      [] o.op = "set" /\ (Cardinality(c) > 1 \/ \E r \in c : r.type # o.row.type) ->
           Upsert(w, o.row, Of(o.row.name, Seen(w)))
      [] OTHER -> Upsert(w, Updated(w, o), {})

Apply(w, o) ==
    /\ tx[w].at = "applying" /\ o \in tx[w].todo
    /\ IF Applicable(w, o)
       THEN tx' = [tx EXCEPT ![w] = [Changed(w, o) EXCEPT !.todo = @ \ {o}]] /\ UNCHANGED lock
       ELSE tx' = [tx EXCEPT ![w] = Idle] /\ lock' = Nobody
    /\ UNCHANGED <<rows, alive>>

Commit(w) ==
    /\ tx[w].at = "applying" /\ tx[w].todo = {}
    /\ rows' = Seen(w)
    /\ tx' = [tx EXCEPT ![w] = Idle]
    /\ lock' = Nobody
    /\ UNCHANGED alive

\* delete_knowledge_item: the file's row, which it waits for, and then its properties.
Delete ==
    /\ alive /\ lock = Nobody
    /\ alive' = FALSE /\ rows' = {}
    /\ UNCHANGED <<lock, tx>>

Next == \/ \E w \in Writer : \/ Begin(w) \/ Lock(w) \/ Read(w) \/ Commit(w)
                             \/ \E o \in tx[w].todo : Apply(w, o)
        \/ Delete

Spec == Init /\ [][Next]_vars
-----------------------------------------------------------------------------
\* A property has one value, whatever types it had, and a deleted file has none: a search
\* would find the file by any of them.
OneValue ==
    /\ \A p \in Property : Cardinality(Of(p, rows)) <= 1
    /\ alive \/ rows = {}

\* What an operation makes of the value of its property.
Made(o, R) ==
    LET held == UNION {r.v : r \in R} IN
    CASE o.op \in {"set", "upsert"} -> {o.row}
      [] o.op = "unset" -> {}
      [] o.op \in {"append", "tag"} -> {List(o.row.name, held \cup o.row.v)}
      [] o.op = "remove" -> {List(o.row.name, held \ o.row.v)}
      [] o.op = "clear" -> {List(o.row.name, {})}

\* A batch is applied whole, to the values at its commit: no tag that another writer added
\* is lost, and no part of a batch that fails is kept.
Serial ==
    [][rows' # rows /\ alive' =>
         \E w \in Writer :
             \A p \in Property :
                 LET mine == {o \in tx[w].batch : o.row.name = p} IN
                 Of(p, rows') = IF mine = {} THEN Of(p, rows)
                                ELSE UNION {Made(o, Of(p, rows)) : o \in mine}]_vars
=============================================================================
