---------------------------- MODULE FileBuildJobs ----------------------------
(* The File Build protocol keeps the promise of Jobs: its batches, counted by  *)
(* whoever ends a task, are open exactly while they have tasks that have not   *)
(* ended.  Inline builds belong to no batch and are no jobs.                   *)
EXTENDS FileBuild

JobStateOf(t) ==
    IF row[t].mode = "INLINE" THEN "absent"
    ELSE IF IsTerminal(t) THEN "ended"
    ELSE row[t].status

Promise ==
    INSTANCE Jobs WITH
        Job     <- Task,
        Batch   <- Request,
        BatchOf <- [t \in Task |-> t[1]],
        state   <- [t \in Task |-> JobStateOf(t)],
        open    <- {r \in Request : batch[r].status \in {"pending", "processing"}}

\* The build protocol implements Jobs: a task starts once and ends once, and a batch
\* stays open exactly as long as it has work, although five different transactions end
\* tasks and each only adds to a counter.
KeepsPromise == Promise!Spec
=============================================================================
