------------------------------ MODULE RunnerPool ------------------------------
(***************************************************************************)
(* The background runner of the file builds in one process: its slots, the *)
(* coroutine of an execution with its worker and its heartbeat, the        *)
(* timeout, the shutdown, and the terminal events that whoever ended a     *)
(* task publishes after the commit (FileBuildTerminalEventService).        *)
(* The tasks are those of one batch.  FileBuild has their rows in full:    *)
(* here a row has a status and a lease.                                    *)
(***************************************************************************)
EXTENDS Integers, FiniteSets

CONSTANTS
    Task,
    Concurrency   \* slots of the runner

VARIABLES
    row,       \* knowledge_build_task: status, whether the lease has expired
    run,       \* the coroutine _execute_claimed of a task
    heart,     \* its heartbeat: beating, dead, or ended
    lost,      \* lease_lost is set
    file,      \* how many file events of the task were published
    batch,     \* how many events of the batch were published
    stopping   \* _stop_event

vars == <<row, run, heart, lost, file, batch, stopping>>

Ended(t)    == row[t].status \notin {"pending", "running"}
Active      == {t \in Task : run[t].at \notin {"none", "over"}}
InWorker(t) == run[t].at \in {"working", "file", "batch"} /\ ~run[t].outer

\* The transaction that ends the task also advances the batch: it completes it when no other
\* task is open.
Completes(t) == \A u \in Task \ {t} : Ended(u)

End(t, status) == row' = [row EXCEPT ![t] = [status |-> status, expired |-> FALSE]]

Over(t) == run' = [run EXCEPT ![t].at = "over"]

Init ==
    /\ row      = [t \in Task |-> [status |-> "pending", expired |-> FALSE]]
    /\ run      = [t \in Task |-> [at |-> "none", outer |-> FALSE, last |-> FALSE, cut |-> FALSE,
                                   own |-> FALSE]]
    /\ heart    = [t \in Task |-> "none"]
    /\ lost     = {}
    /\ file     = [t \in Task |-> 0]
    /\ batch    = 0
    /\ stopping = FALSE

SlotFree == Cardinality(Active) < Concurrency

Claim(t) ==
    /\ ~stopping
    /\ SlotFree
    /\ row[t].status = "pending"
    /\ row' = [row EXCEPT ![t].status = "running"]
    /\ run' = [run EXCEPT ![t].at = "working"]
    /\ heart' = [heart EXCEPT ![t] = "beating"]
    /\ UNCHANGED <<lost, file, batch, stopping>>

\* The worker commits, unless its row was ended by another, which fences it off.
Succeed(t) ==
    /\ run[t].at = "working"
    /\ IF Ended(t) THEN Over(t) /\ UNCHANGED row
       ELSE /\ End(t, "succeeded")
            /\ run' = [run EXCEPT ![t] = [@ EXCEPT !.at = "file", !.last = Completes(t),
                                                   !.own = TRUE]]
    /\ UNCHANGED <<heart, lost, file, batch, stopping>>

\* The worker raises, or the time is up: the coroutine cancels it, wherever it is, and
\* records the failure itself.
Fail(t) ==
    /\ run[t].at = "working"
    /\ run' = [run EXCEPT ![t].at = "finish", ![t].outer = TRUE]
    /\ UNCHANGED <<row, heart, lost, file, batch, stopping>>

Timeout(t) ==
    /\ InWorker(t)
    /\ run' = [run EXCEPT ![t] = [@ EXCEPT !.at = "finish", !.outer = TRUE,
                                           !.cut = run[t].at # "working"]]
    /\ UNCHANGED <<row, heart, lost, file, batch, stopping>>

FinishClaimed(t) ==
    /\ run[t].at = "finish"
    /\ IF Ended(t) THEN Over(t) /\ UNCHANGED row
       ELSE /\ End(t, "failed")
            /\ run' = [run EXCEPT ![t] = [@ EXCEPT !.at = "file", !.last = Completes(t),
                                                   !.own = TRUE]]
    /\ UNCHANGED <<heart, lost, file, batch, stopping>>

\* publish_tasks: the event of the file, then that of the batch if this commit completed it.
PublishFile(t) ==
    /\ run[t].at = "file"
    /\ file' = [file EXCEPT ![t] = @ + 1]
    /\ run' = [run EXCEPT ![t].at = IF run[t].last THEN "batch" ELSE "over"]
    /\ UNCHANGED <<row, heart, lost, batch, stopping>>

PublishBatch(t) ==
    /\ run[t].at = "batch"
    /\ batch' = batch + 1
    /\ Over(t)
    /\ UNCHANGED <<row, heart, lost, file, stopping>>

RevokedByAny(t) == Ended(t)

\* A refused refresh means that another ended the task.  The worker's own success also ends
\* the lease, and the worker is publishing then.
Revoked(t) == row[t].status \notin {"pending", "running", "succeeded"}

Beat(t) ==
    /\ heart[t] = "beating"
    /\ run[t].at # "over"
    /\ Ended(t)
    /\ heart' = [heart EXCEPT ![t] = "ended"]
    /\ lost' = IF Revoked(t) THEN lost \cup {t} ELSE lost
    /\ UNCHANGED <<row, run, file, batch, stopping>>

\* No connection for a beat: the heartbeat ends with an exception nobody looks at.
HeartDies(t) ==
    /\ heart[t] = "beating"
    /\ run[t].at # "over"
    /\ heart' = [heart EXCEPT ![t] = "dead"]
    /\ UNCHANGED <<row, run, lost, file, batch, stopping>>

LoseLease(t) ==
    /\ t \in lost
    /\ InWorker(t)
    /\ run' = [run EXCEPT ![t].at = "over"]
    /\ UNCHANGED <<row, heart, lost, file, batch, stopping>>

\* Without beats the lease runs out: while the heart is dead, or the process is slow.
Expire(t) ==
    /\ row[t] = [status |-> "running", expired |-> FALSE]
    /\ row' = [row EXCEPT ![t].expired = TRUE]
    /\ UNCHANGED <<run, heart, lost, file, batch, stopping>>

\* The reaper of this or another process, or a mutation of the file, ends the task and
\* publishes for it.
EndedElsewhere(t, status) ==
    /\ End(t, status)
    /\ file' = [file EXCEPT ![t] = @ + 1]
    /\ batch' = IF Completes(t) THEN batch + 1 ELSE batch
    /\ UNCHANGED <<run, heart, lost, stopping>>

Reap(t)      == row[t] = [status |-> "running", expired |-> TRUE] /\ EndedElsewhere(t, "failed")
Terminate(t) == ~Ended(t) /\ EndedElsewhere(t, "skipped")

\* The shutdown takes no new task; after a grace period it cancels the coroutines that are
\* left.
Stop ==
    /\ ~stopping
    /\ stopping' = TRUE
    /\ UNCHANGED <<row, run, heart, lost, file, batch>>

Cancel(t) ==
    /\ stopping
    /\ t \in Active
    /\ run' = [run EXCEPT ![t].at = "over", ![t].cut = TRUE]
    /\ UNCHANGED <<row, heart, lost, file, batch, stopping>>

Next == \/ Stop
        \/ \E t \in Task :
              \/ Claim(t) \/ Succeed(t) \/ Fail(t) \/ Timeout(t) \/ FinishClaimed(t)
              \/ PublishFile(t) \/ PublishBatch(t)
              \/ Beat(t) \/ HeartDies(t) \/ LoseLease(t) \/ Expire(t)
              \/ Reap(t) \/ Terminate(t) \/ Cancel(t)

Spec == Init /\ [][Next]_vars
-----------------------------------------------------------------------------
\* Success, timeout, reaper and mutation race to end a task, but its event is published
\* once, and so is that of the batch; and when the coroutine that ended a task is over, its
\* events were published, unless the timeout or the shutdown cut it off after the commit.
\* In particular the heartbeat, which finds no lease after a success, does not cut it off.
Published ==
    /\ batch <= 1
    /\ \A t \in Task :
        /\ file[t] <= 1
        /\ run[t].at = "over" /\ run[t].own /\ ~run[t].cut =>
              file[t] = 1 /\ (run[t].last => batch = 1)
=============================================================================
