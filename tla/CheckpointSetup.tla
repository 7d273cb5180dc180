-------------------------- MODULE CheckpointSetup --------------------------
(***************************************************************************)
(* The setup of the checkpoint tables (OpenGaussSaver.setup): several      *)
(* workers start at once, each statement commits by itself, and a          *)
(* migration is executed before its version is recorded.                   *)
(*                                                                         *)
(* What the statements create is left out but for whether they can be      *)
(* executed again: most say IF NOT EXISTS, the column is looked up first,  *)
(* the index of the turns does neither.                                    *)
(***************************************************************************)
EXTENDS Integers, FiniteSets

CONSTANTS
    Worker,
    MaxAttempts,   \* _SETUP_MAX_ATTEMPTS
    MaxStarts      \* bound: starts of a worker

VARIABLES
    made,       \* migrations whose statement was executed
    recorded,   \* the rows of checkpoint_migrations
    proc,       \* a worker: where it is, the version it is at, the attempt
    starts,
    died        \* a worker died between the index and its record

vars == <<made, recorded, proc, starts, died>>

Kind    == <<"guarded", "column", "guarded", "index">>   \* MIGRATIONS, from version 0
Version == DOMAIN Kind
At      == {"off", "read", "run", "add", "record", "up", "raised"}

Newest(S) == CHOOSE v \in S \cup {0} : \A x \in S : x <= v

Init == /\ made = {} /\ recorded = {}
        /\ proc = [w \in Worker |-> [at |-> "off", v |-> 0, attempt |-> 0]]
        /\ starts = 0
        /\ died = FALSE

Goes(w, at) == proc' = [proc EXCEPT ![w].at = at]

\* The version after v, or the end of the setup.
Onward(w, v) == proc' = [proc EXCEPT ![w].v = v + 1,
                                    ![w].at = IF v + 1 \in Version THEN "run" ELSE "up"]

FailsSkipping(w) == Onward(w, proc[w].v)

\* An error that another worker's step explains: tried again while attempts are left.
Fails(w) == proc' = [proc EXCEPT ![w].at = IF proc[w].attempt < MaxAttempts THEN "read" ELSE "raised",
                                 ![w].attempt = @ + 1]

Start(w) ==
    /\ proc[w].at \in {"off", "raised"} /\ starts < MaxStarts
    /\ starts' = starts + 1
    /\ proc' = [proc EXCEPT ![w] = [at |-> "read", v |-> 0, attempt |-> 1]]
    /\ UNCHANGED <<made, recorded, died>>

Read(w) ==
    /\ proc[w].at = "read"
    /\ Onward(w, Newest(recorded))
    /\ UNCHANGED <<made, recorded, starts, died>>

ExistsNever(v) == FALSE

\* information_schema.columns has the column.
Exists(v) == v \in made

Run(w) ==
    LET v == proc[w].v IN
    /\ proc[w].at = "run"
    /\ CASE Kind[v] = "guarded" -> made' = made \cup {v} /\ Goes(w, "record")
         [] Kind[v] = "column"  -> made' = made /\ Goes(w, IF Exists(v) THEN "record" ELSE "add")
         [] Kind[v] = "index"   -> IF v \in made THEN made' = made /\ Fails(w)
                                   ELSE made' = made \cup {v} /\ Goes(w, "record")
    /\ UNCHANGED <<recorded, starts, died>>

Add(w) ==
    LET v == proc[w].v IN
    /\ proc[w].at = "add"
    /\ IF v \in made THEN made' = made /\ Fails(w)
       ELSE made' = made \cup {v} /\ Goes(w, "record")
    /\ UNCHANGED <<recorded, starts, died>>

Record(w) ==
    LET v == proc[w].v IN
    /\ proc[w].at = "record"
    /\ IF v \in recorded THEN recorded' = recorded /\ Fails(w)
       ELSE recorded' = recorded \cup {v} /\ Onward(w, v)
    /\ UNCHANGED <<made, starts, died>>

Crash(w) ==
    /\ proc[w].at \notin {"off", "up", "raised"}
    /\ died' = (died \/ (proc[w].at = "record" /\ Kind[proc[w].v] = "index"))
    /\ Goes(w, "off")
    /\ UNCHANGED <<made, recorded, starts>>

Next == \E w \in Worker : Start(w) \/ Read(w) \/ Run(w) \/ Add(w) \/ Record(w) \/ Crash(w)

Spec == Init /\ [][Next]_vars
-----------------------------------------------------------------------------
\* A worker that is up finds every table: the versions are recorded without a gap, each
\* after its statement, however the workers took turns.
Complete ==
    /\ recorded \subseteq made
    /\ \A v \in recorded : \A x \in Version : x < v => x \in recorded
    /\ \A w \in Worker : proc[w].at = "up" => recorded = Version

\* The attempts are enough to get out of each other's way: the workers all give up only
\* when one died between the index and its record, which nobody can execute again.
SomeoneFinishes == (\A w \in Worker : proc[w].at = "raised") => died
=============================================================================
