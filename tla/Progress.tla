------------------------------ MODULE Progress ------------------------------
(***************************************************************************)
(* A caller asks how a batch is getting on while its tasks are worked on.  *)
(* The batch, its counts and its tasks are read by three statements, each  *)
(* of which sees what has been committed by then.  The tasks are those of  *)
(* Jobs: what is shown here holds of File Build and semantic batches, as   *)
(* both keep the promise of Jobs.                                          *)
(***************************************************************************)
EXTENDS Jobs, Naturals, FiniteSets

CONSTANT None

VARIABLES
    asked,  \* what the caller asks: a batch, or those of its tasks with some status
    found,  \* the row of the batch: whether it is open, and its counters
    counts, \* how many of its tasks have which status
    total,  \* how many tasks there are to list
    page    \* how many of them are listed

work == <<state, open>>
vars == <<state, open, asked, found, counts, total, page>>

Nothing     == asked = None
NothingRead == found = None /\ counts = None /\ total = None /\ page = None

PInit == Init /\ Nothing /\ NothingRead

Existing == JobState \ {"absent"}

\* The conditions of list_tasks and count_tasks: tasks of the batch that have one of the statuses.
Filtered(statuses) == {j \in JobsOf(asked.batch) : state[j] \in statuses}
In(statuses)       == Cardinality(Filtered(statuses))

AskBatch(b) ==
    /\ Nothing /\ asked' = [batch |-> b, statuses |-> Existing, kind |-> "batch"]
    /\ UNCHANGED <<state, open, found, counts, total, page>>

AskTasks(b, statuses) ==
    /\ Nothing /\ asked' = [batch |-> b, statuses |-> statuses, kind |-> "tasks"]
    /\ UNCHANGED <<state, open, found, counts, total, page>>

\* get_batch; the counters of the row are exact (BatchAccounting of FileBuild).
FindBatch ==
    /\ ~Nothing /\ asked.kind = "batch" /\ found = None /\ In(Existing) > 0
    /\ found' = [open |-> asked.batch \in open, completed |-> In({"ended"}),
                 total |-> In(Existing)]
    /\ UNCHANGED <<state, open, asked, counts, total, page>>

Counted == [pending |-> In({"pending"}), running |-> In({"running"}), ended |-> In({"ended"})]

\* Mutant: the tasks are counted before the batch is read.
CountFirst ==
    /\ ~Nothing /\ asked.kind = "batch" /\ counts = None /\ counts' = Counted
    /\ UNCHANGED <<state, open, asked, found, total, page>>

\* count_tasks_by_status
CountTasks ==
    /\ found # None /\ counts = None /\ counts' = Counted
    /\ UNCHANGED <<state, open, asked, found, total, page>>

\* count_tasks
CountListed ==
    /\ ~Nothing /\ asked.kind = "tasks" /\ total = None
    /\ total' = In(asked.statuses)
    /\ UNCHANGED <<state, open, asked, found, counts, page>>

\* list_tasks: one page that holds them all
ListTasks ==
    /\ counts # None \/ total # None
    /\ page = None /\ page' = In(asked.statuses)
    /\ UNCHANGED <<state, open, asked, found, counts, total>>

Answer ==
    /\ page # None
    /\ asked' = None /\ found' = None /\ counts' = None /\ total' = None /\ page' = None
    /\ UNCHANGED work

PNext == \/ Next /\ UNCHANGED <<asked, found, counts, total, page>>
         \/ \E b \in Batch : AskBatch(b) \/ \E S \in {Unended, {"ended"}} : AskTasks(b, S)
         \/ FindBatch \/ CountTasks \/ CountListed \/ ListTasks \/ Answer

PSpec == PInit /\ [][PNext]_vars
-----------------------------------------------------------------------------
\* What a caller is told adds up although it is read bit by bit: no task that the progress
\* counts is shown as pending or running, a batch that is completed has none of either, the
\* tasks listed are as many as the batch has, and a list of the ended ones misses none that
\* the total counts.
ProgressShown ==
    /\ found # None /\ counts # None =>
           /\ found.completed <= counts.ended
           /\ ~found.open => counts.pending + counts.running = 0
           /\ counts.pending + counts.running + counts.ended = found.total
           /\ page # None => page = found.total
    /\ total # None /\ page # None /\ asked.statuses = {"ended"} => total <= page
=============================================================================
