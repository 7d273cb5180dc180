------------------------------ MODULE Bootstrap ------------------------------
(***************************************************************************)
(* The schema bootstrap (KnowledgeBaseSchemaBootstrapService).  Every      *)
(* process applies it before its first use of the database: under a        *)
(* session lock it records what an older release had built, refuses a      *)
(* database that differs from its package, and applies the migrations that *)
(* the ledger lacks, one transaction each.  A template is rendered with    *)
(* the embedding model of the process, and its version names the model.    *)
(*                                                                         *)
(* Of the schema the model keeps the vector tables, the constraints of     *)
(* 041 and the build tasks that 040 rewrites.  A release in which a static *)
(* migration was edited is left out: only templates can drift.             *)
(***************************************************************************)
EXTENDS Integers, Sequences, FiniteSets

CONSTANTS
    Instance,     \* processes
    Config,       \* [model, dimension]: the embedding configurations they start with
    Task,
    MaxStarts,    \* bound: starts of a process
    MaxAttempts,  \* deadlock_max_attempts
    None

VARIABLES
    ledger,   \* knowledge_schema_migration: versions and checksums
    made,     \* the versions whose statements were executed
    table,    \* the dimension of a model's vector table
    task,     \* knowledge_build_task: status, its lease, the release that wrote it
    lock,     \* the holder of the advisory lock
    proc,     \* a process: where it is in apply, what it read
    starts

vars == <<ledger, made, table, task, lock, proc, starts>>

Model == {c.model : c \in Config}

\* The migrations in the order of their files: 000-013, 014, 015-030, 032, 034-036,
\* 037-039, 040, 041.
Package  == <<"base", "chunk", "legacy", "ledger", "entity", "extension", "backfill",
              "constraints">>
Template == {"chunk", "entity", "backfill"}
Baseline == {"base", "chunk", "legacy"}

Version(name, c)   == [name |-> name, model |-> IF name \in Template THEN c.model ELSE None]
Migration(name, c) == [version  |-> Version(name, c),
                       checksum |-> IF name \in {"chunk", "entity"} THEN c.dimension ELSE 0]

Versions(S)    == {r.version : r \in S}
Down(why)      == [at |-> "down", config |-> None, seen |-> {}, tries |-> 0, why |-> why]
Step(i, at)    == proc' = [proc EXCEPT ![i].at = at]
Releases(i)    == lock' = IF lock = i THEN None ELSE lock
Locked(i, at)  == proc[i].at = at

\* The check constraint of 041: only a running task has a lease.
Lawful(rows) == \A t \in Task : rows[t].leased => rows[t].status = "running"

Init ==
    /\ ledger = {}
    /\ made   = {}
    /\ table  = [m \in Model |-> None]
    /\ task   = [t \in Task |-> [status |-> "none", leased |-> FALSE, era |-> "none"]]
    /\ lock   = None
    /\ proc   = [i \in Instance |-> Down("")]
    /\ starts = 0

\* The database of a release before the ledger: complete at 030, perhaps with the vector
\* table of a configuration, and with tasks of that release.
Inherit ==
    /\ made = {}
    /\ starts = 0
    /\ \E c \in Config \cup {None}, status \in [Task -> {"none", "running", "complete"}] :
        /\ made' = {Version(n, c) : n \in Baseline \ (IF c = None THEN {"chunk"} ELSE {})}
        /\ table' = IF c = None THEN table ELSE [table EXCEPT ![c.model] = c.dimension]
        /\ task' = [t \in Task |-> IF status[t] = "none" THEN task[t]
                                   ELSE [status |-> status[t], leased |-> FALSE, era |-> "old"]]
    /\ UNCHANGED <<ledger, lock, proc, starts>>

Start(i, c) ==
    /\ Locked(i, "down")
    /\ starts < MaxStarts
    /\ proc' = [proc EXCEPT ![i] = [Down("") EXCEPT !.at = "waiting", !.config = c]]
    /\ starts' = starts + 1
    /\ UNCHANGED <<ledger, made, table, task, lock>>

LockFreeNot == TRUE

LockFree == lock = None

Lock(i) ==
    /\ Locked(i, "waiting")
    /\ LockFree
    /\ lock' = i
    /\ Step(i, "locked")
    /\ UNCHANGED <<ledger, made, table, task, starts>>

EnsureLedger(i) ==
    LET record == Migration("ledger", proc[i].config)
    IN  /\ Locked(i, "locked")
        /\ ledger' = ledger \cup {record}
        /\ made' = made \cup {record.version}
        /\ Step(i, "ledger")
        /\ UNCHANGED <<table, task, lock, starts>>

InheritedAll(c) == Baseline

\* An empty ledger over a database that has the last object of 030: what was built is
\* recorded as applied, the vector table of this model only if it is there.
Inherited(c) == {n \in Baseline : n = "chunk" => table[c.model] # None}

RecordBaseline(i) ==
    LET c == proc[i].config
    IN  /\ Locked(i, "ledger")
        /\ ledger' = ledger \cup
             IF Versions(ledger) = {Version("ledger", c)} /\ Version("legacy", c) \in made
             THEN {Migration(n, c) : n \in Inherited(c)} ELSE {}
        /\ Step(i, "baselined")
        /\ UNCHANGED <<made, table, task, lock, starts>>

\* The process reports the error and releases the lock; the next request starts over.
GiveUp(i, why) ==
    /\ proc' = [proc EXCEPT ![i] = Down(why)]
    /\ Releases(i)

Drifted(i)    == \E n \in Template : \E r \in ledger :
                   r.version = Version(n, proc[i].config) /\ r # Migration(n, proc[i].config)
Mismatched(i) == table[proc[i].config.model] \notin {None, proc[i].config.dimension}

Validate(i) ==
    /\ Locked(i, "baselined")
    /\ IF Drifted(i) THEN GiveUp(i, "drift")
       ELSE IF Mismatched(i) THEN GiveUp(i, "dimension")
       ELSE /\ proc' = [proc EXCEPT ![i].at = "applying", ![i].seen = Versions(ledger)]
            /\ UNCHANGED lock
    /\ UNCHANGED <<ledger, made, table, task, starts>>

\* The migrations that the ledger lacked when the process read it, by their place in the package.
Pending(i) == {k \in DOMAIN Package : Version(Package[k], proc[i].config) \notin proc[i].seen}

\* The tasks after 040: complete is succeeded, what was running failed, and every row is
\* marked as one of the release before the background extension.
Backfilled == [t \in Task |->
    IF task[t].status = "none" THEN task[t]
    ELSE [task[t] EXCEPT !.era = "legacy",
              !.status = CASE @ = "complete" -> "succeeded" [] @ = "running" -> "failed"
                           [] OTHER -> @]]

\* Statements and record of a migration, in one transaction.  A second execution finds its
\* objects or its record.
ApplyMigration(i, name, c) ==
    LET rows == IF name = "backfill" THEN Backfilled ELSE task
    IN  IF Version(name, c) \in Versions(ledger) THEN
             GiveUp(i, "duplicate") /\ UNCHANGED <<ledger, made, table, task>>
        ELSE IF Version("constraints", c) \in made /\ ~Lawful(rows) THEN
             GiveUp(i, "check") /\ UNCHANGED <<ledger, made, table, task>>
        ELSE /\ ledger' = ledger \cup {Migration(name, c)}
             /\ made' = made \cup {Version(name, c)}
             /\ table' = IF name = "chunk" /\ table[c.model] = None
                         THEN [table EXCEPT ![c.model] = c.dimension] ELSE table
             /\ task' = rows
             /\ proc' = [proc EXCEPT ![i].seen = @ \cup {Version(name, c)}, ![i].tries = 0]
             /\ UNCHANGED lock

Apply(i) ==
    /\ Locked(i, "applying")
    /\ \E k \in Pending(i) :
          /\ \A j \in Pending(i) : k <= j
          /\ ApplyMigration(i, Package[k], proc[i].config)
    /\ UNCHANGED starts

\* A deadlock rolls the migration back; it is tried again a bounded number of times.
Deadlock(i) ==
    /\ Locked(i, "applying")
    /\ Pending(i) # {}
    /\ IF proc[i].tries + 1 >= MaxAttempts THEN GiveUp(i, "deadlock")
       ELSE proc' = [proc EXCEPT ![i].tries = @ + 1] /\ UNCHANGED lock
    /\ UNCHANGED <<ledger, made, table, task, starts>>

Finish(i) ==
    /\ Locked(i, "applying")
    /\ Pending(i) = {}
    /\ Step(i, "ready")
    /\ Releases(i)
    /\ UNCHANGED <<ledger, made, table, task, starts>>

\* The process dies, with it its connection and the lock.
Crash(i) ==
    /\ ~Locked(i, "down")
    /\ proc' = [proc EXCEPT ![i] = Down("")]
    /\ Releases(i)
    /\ UNCHANGED <<ledger, made, table, task, starts>>

\* What an initialized process does with a build task.
Work(i, t) ==
    /\ Locked(i, "ready")
    /\ task' = [task EXCEPT ![t] =
         CASE @.status = "none"    -> [status |-> "pending", leased |-> FALSE, era |-> "new"]
           [] @.status = "pending" -> [@ EXCEPT !.status = "running", !.leased = TRUE]
           [] @.status = "running" -> [@ EXCEPT !.status = "succeeded", !.leased = FALSE]
           [] OTHER -> @]
    /\ UNCHANGED <<ledger, made, table, lock, proc, starts>>

Next ==
    \/ Inherit
    \/ \E i \in Instance :
        \/ \E c \in Config : Start(i, c)
        \/ Lock(i)
        \/ EnsureLedger(i)
        \/ RecordBaseline(i)
        \/ Validate(i)
        \/ Apply(i)
        \/ Deadlock(i)
        \/ Finish(i)
        \/ Crash(i)
        \/ \E t \in Task : Work(i, t)

Spec == Init /\ [][Next]_vars
-----------------------------------------------------------------------------
\* Whoever starts at the same time, no process fails because another one applied a
\* migration between its look at the ledger and its own turn (apply).
AppliedOnce == \A i \in Instance : proc[i].why # "duplicate"

\* A process that serves requests has all of its schema: every migration of its package was
\* really executed, also the ones it only recorded, and the vectors it computes fit its
\* table.
ReadyComplete == \A i \in Instance : Locked(i, "ready") =>
    /\ \A k \in DOMAIN Package :
          Version(Package[k], proc[i].config) \in made \cap Versions(ledger)
    /\ table[proc[i].config.model] = proc[i].config.dimension

\* A migration closes the tasks of the old release; it does not rewrite what was accepted
\* under the new one (design of the background build, 14: history is kept).
HistoryKept == [][\A t \in Task : (task[t].era = "new" => task'[t].era = "new")]_vars
=============================================================================
