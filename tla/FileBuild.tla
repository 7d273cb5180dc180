------------------------------ MODULE FileBuild ------------------------------
(***************************************************************************)
(* The durable File Build protocol of by_qa.knowledge_base: build tasks,   *)
(* build batches, worker leases and the file rows they fence, at the       *)
(* granularity of database transactions.                                   *)
(*                                                                         *)
(* A request (Accept) creates one batch and at most one task per file, so  *)
(* a task is identified by <<request, file>>; an Entity build (InlineStart)*)
(* creates one task outside any batch.  Requests are numbered in the order *)
(* in which they commit, which for one file is the order of kid.  It is    *)
(* not the order of created_at: that is NOW(), when the transaction began, *)
(* and a transaction that began first may get its locks and commit last.   *)
(* Where the program compares such stamps, either outcome is possible.     *)
(*                                                                         *)
(* A worker transaction (_prepare, _stage, _commit_success, finish_claimed)*)
(* is one step: it locks the file row, then the task row, before it reads  *)
(* anything.  A file mutation is two steps, because it fences the active   *)
(* tasks long before it writes the file row (an update stores the new      *)
(* object in between) and other transactions commit in the meantime.       *)
(***************************************************************************)
EXTENDS Integers, FiniteSets

CONSTANTS
    File,          \* knowledge_fs_entry rows of type FILE
    Checksum,      \* file contents, told apart by their sha256
    Profile,       \* Build Profile hashes
    MaxRequests,   \* bound: accepted requests and inline builds together
    Slot,          \* execution coroutines of the Build Runners
    Caller,        \* Entity workers that build inline
    Mutator,       \* connections that update or delete files
    ProfileOf,     \* the Build Profile of the process an executor runs in
    None

Executor == Slot \cup Caller
Request  == 1 .. MaxRequests
Task     == Request \X File

Active   == {"pending", "running"}
Outcome  == {"failed", "skipped", "unsupported"}
Terminal == {"succeeded"} \cup Outcome

\* Where the coroutine of _execute is; an outcome means that _execute has ended
\* with it and finish_claimed (or finish_inline) has still to record it.
Working == {"claimed", "prepared", "extracting", "chunking", "embedding"}

ASSUME ConstantsAssumption ==
    /\ MaxRequests \in Nat
    /\ IsFiniteSet(File)
    /\ Slot \cap Caller = {}
    /\ ProfileOf \in [Executor -> Profile]
    /\ None \notin File \cup Checksum \cup Profile \cup Executor

VARIABLES
    checksum,   \* knowledge_fs_entry.checksum (None: no stored object)
    deleted,    \* knowledge_fs_entry.is_deleted
    changed,    \* files with a change of content in knowledge_file_update_timeline
    index,      \* what the file's Markdown, chunks, embeddings and projection derive from
    row,        \* knowledge_build_task
    batch,      \* knowledge_build_batch
    last,       \* the number of the latest request
    exec,       \* the coroutines that execute tasks
    mutation    \* the file mutations whose transaction is open

vars == <<checksum, deleted, changed, index, row, batch, last, exec, mutation>>

\* What only mutations write; the executors write the index as well.
Content == <<checksum, deleted, changed>>
FileRow == <<Content, index>>

Row ==
    [status : {"absent"} \cup Active \cup Terminal, mode : {"BACKGROUND", "INLINE"},
     input : Checksum \cup {None}, profile : Profile \cup {None},
     worker : Executor \cup {None}, expired : BOOLEAN, outdated : BOOLEAN]

AbsentRow ==
    [status |-> "absent", mode |-> "BACKGROUND", input |-> None, profile |-> None,
     worker |-> None, expired |-> FALSE, outdated |-> FALSE]

Batch ==
    [status : {"none", "pending", "processing", "completed"},
     accepted : Nat, completed : Nat]

\* Inline builds have no batch.
NoBatch == [status |-> "none", accepted |-> 0, completed |-> 0]

\* stale is history, which no guard reads: an update has changed the file since the
\* build checked its content.
Idle      == [at |-> "idle", task |-> None, stale |-> FALSE]
Execution == {Idle} \cup [at : Working \cup Outcome, task : Task, stale : BOOLEAN]

Mutation   ==
    [kind : {"none", "update", "delete"}, files : SUBSET File,
     to : Checksum \cup {None}, fenced : SUBSET Task]
NoMutation ==
    [kind |-> "none", files |-> {}, to |-> None, fenced |-> {}]

Derivation == [task : Task, profile : Profile, stale : BOOLEAN]

TypeOK ==
    /\ checksum \in [File -> Checksum \cup {None}]
    /\ deleted  \in [File -> BOOLEAN]
    /\ changed  \in SUBSET File
    /\ index    \in [File -> Derivation \cup {None}]
    /\ row      \in [Task -> Row]
    /\ batch    \in [Request -> Batch]
    /\ last     \in 0 .. MaxRequests
    /\ exec     \in [Executor -> Execution]
    /\ mutation \in [Mutator -> Mutation]

Init ==
    /\ checksum \in [File -> Checksum \cup {None}]
    /\ deleted  = [f \in File |-> FALSE]
    /\ changed  = {}
    /\ index    = [f \in File |-> None]
    /\ row      = [t \in Task |-> AbsentRow]
    /\ batch    = [r \in Request |-> NoBatch]
    /\ last     = 0
    /\ exec     = [e \in Executor |-> Idle]
    /\ mutation = [m \in Mutator |-> NoMutation]

-----------------------------------------------------------------------------
(* Helpers.                                                                *)

Claimed(t) == [at |-> "claimed", task |-> t, stale |-> FALSE]

IsActive(t)   == row[t].status \in Active
IsTerminal(t) == row[t].status \in Terminal
ActiveOf(F)   == {t \in Task : t[2] \in F /\ IsActive(t)}

\* Mutant: a build checks its input without locking the file row.
FileFreeNot(f) == TRUE

\* An update holds its file's row lock from its first statement to its end.
FileFree(f) ==
    \A m \in Mutator : mutation[m].kind = "update" => f \notin mutation[m].files

\* A mutation holds the row locks of the tasks it has fenced.
TaskFree(t) == \A m \in Mutator : t \notin mutation[m].fenced

\* The row of a task whose terminal status is recorded: the lease is cleared, and
\* whether it is outdated is no longer asked when no request can reuse it.
Ended(t, status) ==
    [row[t] EXCEPT !.status = status, !.worker = None, !.expired = FALSE,
                   !.outdated = @ /\ status \in {"succeeded", "unsupported"}]

\* The rows once the tasks of S have ended with the status.
EndAll(S, status) ==
    [t \in Task |-> IF t \in S THEN Ended(t, status) ELSE row[t]]

\* How many of request r's tasks are in S.
CountOf(r, S) == Cardinality({f \in File : <<r, f>> \in S})

\* Mutant: the batch is advanced by one, however many of its tasks end together.
DeltaOnce(r, S) == IF \E f \in File : <<r, f>> \in S THEN 1 ELSE 0

Delta(r, S) == CountOf(r, S)

AdvancedBatch(b, delta) ==
    [b EXCEPT !.completed = @ + delta,
              !.status    = IF b.completed + delta = b.accepted
                              THEN "completed" ELSE "processing"]

\* Mutant: only batches whose work has begun are advanced, as for semantic tasks.
AdvanceBegun(S) ==
    [r \in Request |->
        IF batch[r].status = "processing" /\ Delta(r, S) > 0
          THEN AdvancedBatch(batch[r], Delta(r, S)) ELSE batch[r]]

\* The batches once the tasks of S have ended; inline tasks have none.
AdvanceAll(S) ==
    [r \in Request |->
        IF batch[r].status = "none" \/ Delta(r, S) = 0
          THEN batch[r] ELSE AdvancedBatch(batch[r], Delta(r, S))]

\* The WHERE of advance_batch: when no row matches, the transaction is undone.
CanAdvance(S) ==
    \A r \in Request :
        batch[r].status # "none" /\ Delta(r, S) > 0 =>
            /\ batch[r].status \in {"pending", "processing"}
            /\ batch[r].completed + Delta(r, S) <= batch[r].accepted

-----------------------------------------------------------------------------
(* Acceptance of build requests.                                           *)

\* An equivalent task exists: same input and profile, no change of content whose
\* stamp is later than the task's, and active, or (unless forced) unsupported or
\* succeeded with all derivatives.
Reusable(f, p, force) ==
    \E t \in Task :
        /\ t[2] = f /\ row[t].input = checksum[f] /\ row[t].profile = p
        /\ ~row[t].outdated
        /\ \/ IsActive(t)
           \/ ~force /\ row[t].status = "unsupported"
           \/ ~force /\ row[t].status = "succeeded" /\ index[f] # None

NewRow(f, p, mode, early) ==
    [status |-> IF mode = "INLINE" THEN "running" ELSE "pending", mode |-> mode,
     input |-> checksum[f], profile |-> p,
     worker |-> None, expired |-> FALSE, outdated |-> early]

\* Mutant: the tasks that the new ones replace stay active.
SupersededNone(F) == {}

\* The active tasks of the files whose build is accepted anew.
Superseded(F) == ActiveOf(F)

\* A single-file or directory request over the live files F.  It began before updates
\* of the files in early that have committed meanwhile.
Accept(F, p, force, early) ==
    LET accepted == {f \in F : checksum[f] # None /\ ~Reusable(f, p, force)}
        replaced == Superseded(accepted)
        advanced == AdvanceAll(replaced)
        ended    == EndAll(replaced, "skipped")
    IN  /\ last < MaxRequests
        /\ \A f \in F : ~deleted[f]
        /\ early \subseteq changed
        /\ \A t \in replaced : TaskFree(t)
        /\ row' = [t \in Task |->
                      IF t[1] = last + 1 /\ t[2] \in accepted
                        THEN NewRow(t[2], p, "BACKGROUND", t[2] \in early) ELSE ended[t]]
        /\ batch' = [advanced EXCEPT ![last + 1] =
                      [status    |-> IF accepted = {} THEN "completed" ELSE "pending",
                       accepted  |-> Cardinality(accepted),
                       completed |-> 0]]
        /\ last' = last + 1
        /\ UNCHANGED <<FileRow, exec, mutation>>

\* An Entity worker replaces whatever build the file has with its own.
InlineStart(e, f, early) ==
    LET replaced == Superseded({f})
        ended    == EndAll(replaced, "skipped")
    IN  /\ exec[e].at = "idle"
        /\ last < MaxRequests
        /\ ~deleted[f] /\ checksum[f] # None
        /\ FileFree(f)
        /\ early => f \in changed
        /\ \A t \in replaced : TaskFree(t)
        /\ CanAdvance(replaced)
        /\ row'   = [ended EXCEPT ![<<last + 1, f>>] = NewRow(f, ProfileOf[e], "INLINE", early)]
        /\ batch' = AdvanceAll(replaced)
        /\ last'  = last + 1
        /\ exec'  = [exec EXCEPT ![e] = Claimed(<<last + 1, f>>)]
        /\ UNCHANGED <<FileRow, mutation>>

-----------------------------------------------------------------------------
(* Execution.                                                              *)

\* Claim one pending background task and mark its batch processing.
Claim(e, t) ==
    /\ exec[e].at = "idle"
    /\ row[t].status = "pending" /\ row[t].mode = "BACKGROUND"
    /\ TaskFree(t)
    /\ row' = [row EXCEPT ![t].status = "running", ![t].worker = e]
    /\ batch' = [batch EXCEPT ![t[1]].status = IF @ = "pending" THEN "processing" ELSE @]
    /\ exec' = [exec EXCEPT ![e] = Claimed(t)]
    /\ UNCHANGED <<FileRow, last, mutation>>

\* Mutant: the fence ignores the status, so that a task that ended passes it.
HeldAnyStatus(e) ==
    LET t == exec[e].task
    IN  \/ row[t].mode = "INLINE"
        \/ row[t].worker \in {e, None} /\ ~row[t].expired

\* The fence of every write of an executor: its task is still running and, for a
\* background task, still leased to it.
Held(e) ==
    LET t == exec[e].task
    IN  /\ row[t].status = "running"
        /\ row[t].mode = "BACKGROUND" => (row[t].worker = e /\ ~row[t].expired)

\* The content that was accepted is still the file's content.
InputValid(t) == ~deleted[t[2]] /\ checksum[t[2]] = row[t].input

Moves(e, at) == exec' = [exec EXCEPT ![e].at = at]
Stops(e)     == exec' = [exec EXCEPT ![e] = Idle]

\* Mutant: the build starts without clearing what an earlier build derived.
ClearedNever(f) == index

Cleared(f) == [index EXCEPT ![f] = None]

\* Lock and validate the input, then clear the derivatives of earlier builds.
Prepare(e) ==
    LET t == exec[e].task
    IN  /\ exec[e].at = "claimed"
        /\ FileFree(t[2]) /\ TaskFree(t)
        /\ \/ ~Held(e) /\ Stops(e) /\ UNCHANGED index
           \/ Held(e) /\ ~InputValid(t) /\ Moves(e, "skipped") /\ UNCHANGED index
           \/ Held(e) /\ InputValid(t) /\ Moves(e, "prepared") /\ index' = Cleared(t[2])
        /\ UNCHANGED <<Content, row, batch, last, mutation>>

\* Mutant: a stage that no step leaves again.
NextStageCommitting ==
    [prepared |-> "extracting", extracting |-> "chunking", chunking |-> "embedding",
     embedding |-> "committing"]

NextStage == [prepared |-> "extracting", extracting |-> "chunking", chunking |-> "embedding"]

\* Record the next stage under the fence; the work of the stage follows it.
Stage(e) ==
    LET t == exec[e].task
    IN  /\ exec[e].at \in DOMAIN NextStage
        /\ TaskFree(t)
        /\ \/ ~Held(e) /\ Stops(e)
           \/ Held(e) /\ Moves(e, NextStage[exec[e].at])
        /\ UNCHANGED <<FileRow, row, batch, last, mutation>>

Derived(e) == [task |-> exec[e].task, profile |-> ProfileOf[e], stale |-> exec[e].stale]

\* Publish the derivatives and end task and batch in one transaction.  The COMMIT
\* may succeed and the coroutine still fail (its answer is lost, the task times
\* out, a callback raises): it then tries to record a failure.
Commit(e) ==
    LET t == exec[e].task
    IN  /\ exec[e].at = "embedding"
        /\ FileFree(t[2]) /\ TaskFree(t)
        /\ \/ /\ ~Held(e) /\ Stops(e)
              /\ UNCHANGED <<index, row, batch>>
           \/ /\ Held(e) /\ ~InputValid(t) /\ Moves(e, "skipped")
              /\ UNCHANGED <<index, row, batch>>
           \/ /\ Held(e) /\ InputValid(t) /\ CanAdvance({t})
              /\ index' = [index EXCEPT ![t[2]] = Derived(e)]
              /\ row'   = EndAll({t}, "succeeded")
              /\ batch' = AdvanceAll({t})
              /\ Stops(e) \/ Moves(e, "failed")
        /\ UNCHANGED <<Content, last, mutation>>

\* An exception or the task timeout ends the work; only the extraction can find
\* the file type unsupported.
Fail(e, outcome) ==
    /\ exec[e].at \in Working
    /\ \/ outcome = "failed"
       \/ outcome = "unsupported" /\ exec[e].at = "extracting"
    /\ Moves(e, outcome)
    /\ UNCHANGED <<FileRow, row, batch, last, mutation>>

\* Record an outcome other than success, if the fence still holds.
Finish(e) ==
    LET t == exec[e].task
    IN  /\ exec[e].at \in Outcome
        /\ TaskFree(t)
        /\ \/ /\ Held(e) /\ CanAdvance({t})
              /\ row'   = EndAll({t}, exec[e].at)
              /\ batch' = AdvanceAll({t})
           \/ ~Held(e) /\ UNCHANGED <<row, batch>>
        /\ Stops(e)
        /\ UNCHANGED <<FileRow, last, mutation>>

\* The heartbeat finds the lease gone and the execution is cancelled.
LoseLease(e) ==
    /\ exec[e].at \in Working
    /\ ~Held(e)
    /\ Stops(e)
    /\ UNCHANGED <<FileRow, row, batch, last, mutation>>

\* The process dies, or shuts down and cancels the coroutine: CancelledError is
\* no Exception, so nothing is recorded.
Crash(e) ==
    /\ exec[e].at # "idle"
    /\ Stops(e)
    /\ UNCHANGED <<FileRow, row, batch, last, mutation>>

\* Heartbeats stop reaching the database and the lease runs out.
Expire(t) ==
    /\ row[t].status = "running" /\ row[t].mode = "BACKGROUND" /\ ~row[t].expired
    /\ row' = [row EXCEPT ![t].expired = TRUE]
    /\ UNCHANGED <<FileRow, batch, last, exec, mutation>>

\* Mutant: no reaper runs.
ReapNever(t) == FALSE /\ UNCHANGED vars

\* The reaper fails a task whose lease has run out.
Reap(t) ==
    /\ row[t].status = "running" /\ row[t].mode = "BACKGROUND" /\ row[t].expired
    /\ TaskFree(t)
    /\ CanAdvance({t})
    /\ row'   = EndAll({t}, "failed")
    /\ batch' = AdvanceAll({t})
    /\ UNCHANGED <<FileRow, last, exec, mutation>>

-----------------------------------------------------------------------------
(* File mutations.                                                         *)

\* An update that changes the content: lock the file row, fence its active task.
BeginUpdate(m, f, c) ==
    /\ mutation[m].kind = "none"
    /\ ~deleted[f] /\ checksum[f] # None /\ c # checksum[f]
    /\ FileFree(f)
    /\ \A t \in ActiveOf({f}) : TaskFree(t)
    /\ mutation' = [mutation EXCEPT ![m] =
                      [kind |-> "update", files |-> {f}, to |-> c,
                       fenced |-> ActiveOf({f})]]
    /\ UNCHANGED <<FileRow, row, batch, last, exec>>

\* Deletion of a file, of a directory or of the knowledge base: the active tasks
\* of the files F are fenced, the file rows are not locked.
BeginDelete(m, F) ==
    /\ mutation[m].kind = "none"
    /\ F # {} /\ \A f \in F : ~deleted[f]
    /\ \A t \in ActiveOf(F) : TaskFree(t)
    /\ mutation' = [mutation EXCEPT ![m] =
                      [kind |-> "delete", files |-> F, to |-> None,
                       fenced |-> ActiveOf(F)]]
    /\ UNCHANGED <<FileRow, row, batch, last, exec>>

\* The tasks an update may outdate: those accepted by transactions that began before
\* its own, and any of the tasks accepted so far may be among them, or not.  Tasks
\* that no request can reuse are left out.
OutdatedBy(mut) ==
    IF mut.kind = "update"
      THEN {t \in Task : /\ t[2] \in mut.files
                         /\ row[t].status \in Active \cup {"succeeded", "unsupported"}}
      ELSE {}

\* The tasks of S end with the mutation, those of O have become outdated.
MutatedRows(S, O) ==
    [t \in Task |-> [EndAll(S, "skipped")[t] EXCEPT !.outdated = @ \/ t \in O]]

\* The builds that have checked what an update replaces.
Overtaken(mut) ==
    [e \in Executor |->
        IF /\ mut.kind = "update"
           /\ exec[e].at \in Working \ {"claimed"} /\ exec[e].task[2] \in mut.files
          THEN [exec[e] EXCEPT !.stale = TRUE] ELSE exec[e]]

\* Mutant: an update leaves the derivatives of the old content.
ClearedByDelete(mut) ==
    [f \in File |-> IF mut.kind = "delete" /\ f \in mut.files THEN None ELSE index[f]]

ClearedByMutation(mut) == [f \in File |-> IF f \in mut.files THEN None ELSE index[f]]

\* Write the file rows, end the fenced tasks, clear the derivatives, commit.
CommitMutation(m) ==
    LET mut == mutation[m]
    IN  /\ mut.kind # "none"
        /\ \A f \in mut.files :
              \A n \in Mutator \ {m} :
                  mutation[n].kind = "update" => f \notin mutation[n].files
        /\ CanAdvance(mut.fenced)
        /\ checksum' = [f \in File |->
                          IF mut.kind = "update" /\ f \in mut.files THEN mut.to ELSE checksum[f]]
        /\ deleted'  = [f \in File |->
                          deleted[f] \/ (mut.kind = "delete" /\ f \in mut.files)]
        /\ index'    = ClearedByMutation(mut)
        /\ changed'  = IF mut.kind = "update" THEN changed \cup mut.files ELSE changed
        /\ \E O \in SUBSET (OutdatedBy(mut) \ mut.fenced) : row' = MutatedRows(mut.fenced, O)
        /\ batch'    = AdvanceAll(mut.fenced)
        /\ mutation' = [mutation EXCEPT ![m] = NoMutation]
        /\ exec'     = Overtaken(mut)
        /\ UNCHANGED last

\* The mutation fails or is refused after it fenced the tasks: all is undone.
AbortMutation(m) ==
    /\ mutation[m].kind # "none"
    /\ mutation' = [mutation EXCEPT ![m] = NoMutation]
    /\ UNCHANGED <<FileRow, row, batch, last, exec>>

-----------------------------------------------------------------------------
Next ==
    \/ \E F, early \in SUBSET File, p \in Profile, force \in BOOLEAN : Accept(F, p, force, early)
    \/ \E e \in Caller, f \in File, early \in BOOLEAN : InlineStart(e, f, early)
    \/ \E e \in Slot, t \in Task : Claim(e, t)
    \/ \E e \in Executor : Prepare(e)
    \/ \E e \in Executor : Stage(e)
    \/ \E e \in Executor : Commit(e)
    \/ \E e \in Executor, outcome \in Outcome : Fail(e, outcome)
    \/ \E e \in Executor : Finish(e)
    \/ \E e \in Slot : LoseLease(e)
    \/ \E e \in Executor : Crash(e)
    \/ \E t \in Task : Expire(t)
    \/ \E t \in Task : Reap(t)
    \/ \E m \in Mutator, f \in File, c \in Checksum : BeginUpdate(m, f, c)
    \/ \E m \in Mutator, F \in SUBSET File : BeginDelete(m, F)
    \/ \E m \in Mutator : CommitMutation(m)
    \/ \E m \in Mutator : AbortMutation(m)

Spec == Init /\ [][Next]_vars

\* Waiters get a row lock in the order in which they asked for it, and the claim
\* and reaper loops come back for ever: an action that waits for a lock held again
\* and again is taken (SF).  A lease is left to run out only when no execution
\* refreshes it, and a transaction does not stay open for ever (WF).
Fairness ==
    /\ \A t \in Task : SF_vars((\E e \in Slot : Claim(e, t)) \/ Reap(t))
    /\ \A e \in Executor : SF_vars(Prepare(e) \/ Stage(e) \/ Commit(e) \/ Finish(e))
    /\ \A t \in Task : WF_vars(Expire(t) /\ \A e \in Slot : exec[e].task # t)
    /\ \A m \in Mutator : WF_vars(CommitMutation(m) \/ AbortMutation(m))

FairSpec == Spec /\ Fairness

-----------------------------------------------------------------------------
(* Properties.                                                             *)

Exists(t) == row[t].status # "absent"

\* A file never has two active tasks.  The unique index on active tasks would
\* turn a second one into a failed request or a failed Entity task; the protocol
\* is to end the old task in the transaction that creates the new one.
OneActivePerFile == \A t, u \in Task : t[2] = u[2] /\ IsActive(t) /\ IsActive(u) => t = u

\* An active task is the newest of its file in the order of acceptance: what is being
\* built is what was asked for last.  Nothing is said of created_at, which may be older.
NewestIsActive ==
    \A t, u \in Task : t[2] = u[2] /\ IsActive(t) /\ Exists(u) => u[1] <= t[1]

\* The counters of a batch agree with its tasks, whoever ended them (its worker,
\* another request, an Entity build, a file mutation, the reaper), and the batch
\* is completed exactly when its last task ends.
BatchAccounting ==
    \A r \in Request :
        batch[r].status # "none" =>
            /\ batch[r].accepted  = CountOf(r, {t \in Task : Exists(t)})
            /\ batch[r].completed = CountOf(r, {t \in Task : IsTerminal(t)})
            /\ (batch[r].status = "completed") <=> (batch[r].completed = batch[r].accepted)
            /\ batch[r].status = "pending" =>
                  \A f \in File : row[<<r, f>>].status \in {"absent", "pending"}

\* What is searchable was derived by a task that succeeded and was accepted for the
\* content that the file has now, and no update has replaced the content since the
\* build checked it, not even one that another update undid.  The file's own rows and
\* locks have to ensure it: time stamps do not tell which of two transactions was first.
IndexCurrent ==
    \A f \in File :
        index[f] # None =>
            LET t == index[f].task
            IN  /\ t[2] = f
                /\ row[t].status = "succeeded"
                /\ row[t].input = checksum[f]
                /\ ~index[f].stale
                /\ ~deleted[f]

\* Between clearing and publishing, a build whose task still runs has the file's
\* derivatives to itself: nothing that others derived is searchable meanwhile.
ExclusiveRebuild ==
    \A e \in Executor :
        /\ exec[e].at \in Working \ {"claimed"}
        /\ row[exec[e].task].status = "running"
        => index[exec[e].task[2]] = None

\* The status of a task that has ended never changes: a worker that lost its task
\* to a request, a mutation or the reaper cannot record another end.
TerminalFinal == [][\A t \in Task : IsTerminal(t) => row'[t].status = row[t].status]_vars

\* Derivatives are published by the newest task of the file only: a worker whose
\* task was superseded, outdated or reaped never overwrites a later build.
PublishedByNewest ==
    [][\A f \in File :
          index'[f] \notin {index[f], None} =>
              /\ \A u \in Task : u[2] = f /\ Exists(u) => u[1] <= index'[f].task[1]
              /\ IsActive(index'[f].task)]_vars

\* Every batch is completed in the end: workers may die and leases may run out at
\* any step, and requests and mutations may interfere.
BatchesComplete ==
    \A r \in Request :
        batch[r].status \in {"pending", "processing"} ~> batch[r].status = "completed"

-----------------------------------------------------------------------------
(* The inductive invariant behind the safety properties.                   *)

\* Tasks are numbered by requests that were made, and executed once claimed.
Numbered ==
    /\ \A t \in Task : Exists(t) => t[1] <= last
    /\ \A e \in Executor :
          exec[e].at # "idle" => row[exec[e].task].status \notin {"absent", "pending"}

\* The tasks a mutation has fenced stay active, and its own, until it ends.
Fenced ==
    /\ \A m \in Mutator : \A t \in mutation[m].fenced : IsActive(t)
    /\ \A m, n \in Mutator : m # n => mutation[m].fenced \cap mutation[n].fenced = {}

\* A build that has checked its file's content and whose task is active still has that
\* content, and an update of the file that is open has fenced the task.
Fresh ==
    \A e \in Executor :
        LET t == exec[e].task
        IN  exec[e].at \in Working /\ IsActive(t) =>
                /\ ~exec[e].stale
                /\ \A m \in Mutator :
                      /\ exec[e].at # "claimed"
                      /\ mutation[m].kind = "update" /\ t[2] \in mutation[m].files
                      => t \in mutation[m].fenced

\* What makes the safety properties inductive: tasks are numbered in the order of
\* their requests, mutations own what they fence, and builds at work are fresh.
IInv ==
    TypeOK /\ Numbered /\ Fenced /\ Fresh /\ NewestIsActive /\ IndexCurrent /\ ExclusiveRebuild

-----------------------------------------------------------------------------
(* What the documentation says and the code does not keep.                 *)

\* design 8.5 and 4.2: a succeeded task is reused only for Built Content, whose
\* latest task succeeded.  No task is active here, so the hit is a succeeded one.
ReuseMeansBuilt ==
    \A t \in Task, p \in Profile :
        /\ row[t].status = "failed" /\ ~deleted[t[2]]
        /\ \A u \in Task : u[2] = t[2] /\ Exists(u) => u[1] <= t[1]
        /\ \A u \in Task : u[2] = t[2] => row[u].status # "unsupported"
        => ~Reusable(t[2], p, FALSE)

\* design 4.4: a request whose input or profile differs from that of the active
\* task supersedes it.
DifferentSuperseded ==
    [][\A F, early \in SUBSET File, p \in Profile :
          Accept(F, p, FALSE, early) =>
              \A t \in Task :
                  t[2] \in F /\ row'[t].status \in Active =>
                      row'[t].profile = p /\ row'[t].input = checksum[t[2]]]_vars

\* CONTEXT: a task is an attempt to build from a captured checksum and profile.
BuiltAsCaptured ==
    \A f \in File : index[f] # None => index[f].profile = row[index[f].task].profile

\* CONTEXT: an inline build is synchronously completed by the task that owns it.
InlineTasksEnd ==
    \A t \in Task :
        row[t].status = "running" /\ row[t].mode = "INLINE" ~> IsTerminal(t)
=============================================================================
