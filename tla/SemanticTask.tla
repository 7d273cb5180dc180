---------------------------- MODULE SemanticTask ----------------------------
(***************************************************************************)
(* The durable semantic tasks of by_qa.knowledge_base: Entity Discovery    *)
(* reads an original document and rewrites its MENTIONS assertions, Entity *)
(* Enrichment reads the assertions that point at an Entity document and    *)
(* rewrites the document.                                                  *)
(*                                                                         *)
(* An acceptance is one transaction of many statements: it lists the       *)
(* files, then locks and judges one file row after the other, and creates  *)
(* batch and tasks at the end.  A worker takes no lock between its         *)
(* transactions and is fenced only when it records an outcome.  A lease    *)
(* token is left out: a task is claimed at most once, so its worker and    *)
(* its status tell what the token tells.                                   *)
(***************************************************************************)
EXTENDS Integers, FiniteSets, FiniteSetsExt

CONSTANTS
    Doc,           \* original documents
    Entity,        \* paths of Entity documents
    Worker,        \* execution slots of the runners
    Requester,     \* connections that run _accept
    MaxRequests,   \* bound: accepted requests
    MaxEdits,      \* bound: updates of files by others
    None

File    == Doc \cup Entity
Request == 1 .. MaxRequests
Task    == Request \X File

Active   == {"pending", "running"}
Terminal == {"succeeded", "failed", "skipped"}

ASSUME SemanticAssumption ==
    /\ Doc \cap Entity = {} /\ IsFiniteSet(File)
    /\ MaxRequests \in Nat /\ MaxEdits \in Nat
    /\ None \notin File \cup Worker

VARIABLES
    file,       \* knowledge_fs_entry with its metadata
    relation,   \* knowledge_file_reference: when source's assertion on target was created
    clock,      \* the latest such time
    row,        \* knowledge_semantic_processing_task
    batch,      \* knowledge_semantic_processing_batch
    last,       \* the latest request
    exec,       \* the coroutines that execute tasks
    request,    \* the open acceptances
    deletion,   \* the deletion of the knowledge base
    edits

vars == <<file, relation, clock, row, batch, last, exec, request, deletion, edits>>
Files == <<file, relation, clock, edits>>
Tasks == <<row, batch, last>>

AbsentRow ==
    [status |-> "absent", fingerprint |-> 0, input |-> 0, worker |-> None,
     expired |-> FALSE, finished |-> 0, used |-> {}]
NoBatch  == [status |-> "none", total |-> 0, completed |-> 0]
Idle     == [at |-> "idle", task |-> None, base |-> 0, seen |-> {}, partial |-> FALSE, found |-> {}]
Unset    == [f \in File |-> 0]
NoAccept == [at |-> "idle", todo |-> {}, listed |-> Unset, accepted |-> {}, judged |-> Unset,
             locked |-> {}, force |-> FALSE]

Working == {"claimed", "read", "anchored", "written", "done"}

Entry == [status : {"absent", "live", "deleted"}, version : Nat, enriched : BOOLEAN]

Row ==
    [status : {"absent"} \cup Active \cup Terminal, fingerprint : Nat, input : Nat,
     worker : Worker \cup {None}, expired : BOOLEAN, finished : Nat, used : SUBSET Nat]

Batch == [status : {"none", "processing", "completed"}, total : Nat, completed : Nat]

Execution ==
    {Idle} \cup
    [at : Working \cup {"failing"}, task : Task, base : Nat, seen : SUBSET Nat,
     partial : BOOLEAN, found : SUBSET Entity]

\* listed: the versions of the files when they were listed; judged: the fingerprints of
\* the accepted ones.
Acceptance ==
    [at : {"idle", "deciding"}, todo : SUBSET File, listed : [File -> Nat],
     accepted : SUBSET File, judged : [File -> Nat], locked : SUBSET File, force : BOOLEAN]

TypeOK ==
    /\ file \in [File -> Entry]
    /\ clock \in Nat
    /\ relation \in [File \X Entity -> 0 .. clock]
    /\ row \in [Task -> Row]
    /\ batch \in [Request -> Batch]
    /\ last \in Nat
    /\ exec \in [Worker -> Execution]
    /\ request \in [Requester -> Acceptance]
    /\ deletion \in [at : {"none", "open", "done"}, fenced : SUBSET Task]
    /\ edits \in 0 .. MaxEdits

Init ==
    /\ \E born \in SUBSET Entity, known \in SUBSET (Doc \X Entity) :
          /\ \A p \in known : p[2] \in born
          /\ file = [f \in File |->
                       [status   |-> IF f \in Doc \cup born THEN "live" ELSE "absent",
                        version  |-> 0,
                        enriched |-> FALSE]]
          /\ relation = [p \in File \X Entity |-> IF p \in known THEN 1 ELSE 0]
    /\ clock    = 1
    /\ row      = [t \in Task |-> AbsentRow]
    /\ batch    = [r \in Request |-> NoBatch]
    /\ last     = 0
    /\ exec     = [w \in Worker |-> Idle]
    /\ request  = [q \in Requester |-> NoAccept]
    /\ deletion = [at |-> "none", fenced |-> {}]
    /\ edits    = 0

-----------------------------------------------------------------------------
(* Helpers.                                                                *)

Live(f)     == file[f].status = "live"
IsActive(t) == row[t].status \in Active
IsEnded(t)  == row[t].status \in Terminal
TasksOf(f)  == {t \in Task : t[2] = f}

\* Acceptances hold the row locks of the files they judged.
Unlocked(f)  == \A q \in Requester : f \notin request[q].locked
TaskFree(t)  == t \notin deletion.fenced

\* The assertions on an Entity document from files that exist, by creation time.
Assertions(e) == {relation[<<s, e>>] : s \in {f \in File : Live(f)}} \ {0}

CountOf(r, S) == Cardinality({t \in S : t[1] = r})

\* Mutant: only the batch of one of the tasks is advanced.
AdvanceOne(S) ==
    [r \in Request |->
        IF S # {} /\ r = Min({t[1] : t \in S})
          THEN LET done == batch[r].completed + CountOf(r, S)
               IN  [batch[r] EXCEPT !.completed = done,
                      !.status = IF done = batch[r].total THEN "completed" ELSE @]
          ELSE batch[r]]

\* The batches once the tasks of S have ended.
AdvanceAll(S) ==
    [r \in Request |->
        LET done == batch[r].completed + CountOf(r, S)
        IN  IF CountOf(r, S) = 0 THEN batch[r]
            ELSE [batch[r] EXCEPT !.completed = done,
                    !.status = IF done = batch[r].total THEN "completed" ELSE @]]

\* The WHERE of advance_batch; without a match the transaction is undone.
CanAdvance(S) ==
    \A r \in Request :
        CountOf(r, S) > 0 =>
            /\ batch[r].status = "processing"
            /\ batch[r].completed + CountOf(r, S) <= batch[r].total

\* The rows once the tasks of S have ended: the lease is cleared.
EndAll(S, status) ==
    [t \in Task |->
        IF t \in S
          THEN [row[t] EXCEPT !.status = status, !.worker = None, !.expired = FALSE,
                              !.finished = clock]
          ELSE row[t]]

-----------------------------------------------------------------------------
(* Acceptance.                                                             *)

\* Resolve the knowledge base and list the files of one kind, with their checksums.
BeginAccept(q, F, force) ==
    /\ request[q].at = "idle"
    /\ last + Cardinality({p \in Requester : request[p].at # "idle"}) < MaxRequests
    /\ F # {} /\ (F \subseteq Doc \/ F \subseteq Entity)
    /\ \A f \in F : Live(f)
    /\ request' = [request EXCEPT ![q] =
                     [NoAccept EXCEPT !.at = "deciding", !.todo = F, !.force = force,
                        !.listed = [f \in File |-> IF f \in F THEN file[f].version ELSE 0]]]
    /\ UNCHANGED <<Files, Tasks, exec, deletion>>

\* What a task is accepted for: the listed content of a document, the newest
\* assertion on an Entity document.
Fingerprint(q, f) ==
    IF f \in Doc THEN request[q].listed[f] ELSE Max(Assertions(f) \cup {0})

\* An Entity document without assertions on it has nothing to be enriched with.
Eligible(f) == f \in Entity => Assertions(f) # {}

\* A task that is waiting or running, or (unless forced) a success for the same input.
Reused(q, f) ==
    \E t \in TasksOf(f) :
        \/ IsActive(t)
        \/ /\ ~request[q].force
           /\ row[t].status = "succeeded"
           /\ row[t].fingerprint = Fingerprint(q, f)

\* Whether the request creates a task for the file.
Accepts(q, f) == Eligible(f) /\ ~Reused(q, f)

\* Mutant: the file row is not locked until the new task is committed.
DecideUnlocked(q, f) ==
    /\ request[q].at = "deciding" /\ f \in request[q].todo
    /\ request' = [request EXCEPT
         ![q].todo     = @ \ {f},
         ![q].accepted = IF Accepts(q, f) THEN @ \cup {f} ELSE @,
         ![q].judged   = IF Accepts(q, f) THEN [@ EXCEPT ![f] = Fingerprint(q, f)] ELSE @,
         ![q].locked   = {}]
    /\ UNCHANGED <<Files, Tasks, exec, deletion>>

\* Evaluate one file; when it is eligible, lock its row and reuse or accept.
Decide(q, f) ==
    /\ request[q].at = "deciding" /\ f \in request[q].todo
    /\ Eligible(f) => \A p \in Requester \ {q} : f \notin request[p].locked
    /\ request' = [request EXCEPT
         ![q].todo     = @ \ {f},
         ![q].accepted = IF Accepts(q, f) THEN @ \cup {f} ELSE @,
         ![q].judged   = IF Accepts(q, f) THEN [@ EXCEPT ![f] = Fingerprint(q, f)] ELSE @,
         ![q].locked   = IF Eligible(f) THEN @ \cup {f} ELSE @]
    /\ UNCHANGED <<Files, Tasks, exec, deletion>>

NewRow(fingerprint, input) ==
    [AbsentRow EXCEPT !.status = "pending", !.fingerprint = fingerprint, !.input = input]

\* Create the batch and the tasks and commit; the knowledge base may be gone by now.
CommitAccept(q) ==
    LET accepted == request[q].accepted
    IN  /\ request[q].at = "deciding" /\ request[q].todo = {}
        /\ last' = last + 1
        /\ row' = [t \in Task |->
                     IF t[1] = last + 1 /\ t[2] \in accepted
                       THEN NewRow(request[q].judged[t[2]], request[q].listed[t[2]]) ELSE row[t]]
        /\ batch' = [batch EXCEPT ![last + 1] =
                       [status    |-> IF accepted = {} THEN "completed" ELSE "processing",
                        total     |-> Cardinality(accepted),
                        completed |-> 0]]
        /\ request' = [request EXCEPT ![q] = NoAccept]
        /\ UNCHANGED <<Files, exec, deletion>>

\* A statement fails, or a document is being discovered with other parameters.
AbortAccept(q) ==
    /\ request[q].at # "idle"
    /\ request' = [request EXCEPT ![q] = NoAccept]
    /\ UNCHANGED <<Files, Tasks, exec, deletion>>

-----------------------------------------------------------------------------
(* Execution.                                                              *)

Claim(w, t) ==
    /\ exec[w].at = "idle"
    /\ row[t].status = "pending" /\ TaskFree(t)
    /\ row'  = [row EXCEPT ![t].status = "running", ![t].worker = w]
    /\ exec' = [exec EXCEPT ![w] = [Idle EXCEPT !.at = "claimed", !.task = t]]
    /\ UNCHANGED <<Files, batch, last, request, deletion>>

FileOf(w) == exec[w].task[2]

\* The WHERE of refresh_lease and finish_claimed_task: a lease that has run out is
\* still held until the reaper ends the task.
Held(w) == row[exec[w].task].status = "running"

\* What was read is forgotten with the step.
Moves(w, at) == exec' = [exec EXCEPT ![w] = [Idle EXCEPT !.at = at, !.task = exec[w].task]]
Stops(w)     == exec' = [exec EXCEPT ![w] = Idle]

\* When the latest earlier success finished; 0: there is none.
Watermark(t) ==
    LET earlier == {u \in TasksOf(t[2]) : row[u].status = "succeeded" /\ u[1] < t[1]}
    IN  Max({row[u].finished : u \in earlier} \cup {0})

\* An enrichment after a successful one takes only assertions created since it finished.
Incremental(t) == file[t[2]].enriched /\ Watermark(t) > 0

Evidence(t) ==
    IF Incremental(t) THEN {s \in Assertions(t[2]) : s > Watermark(t)} ELSE Assertions(t[2])

\* Load the file, and for an enrichment the assertions on it.
Read(w) ==
    LET t == exec[w].task
    IN  /\ exec[w].at = "claimed"
        /\ IF ~Live(t[2]) THEN Moves(w, "failing")
           ELSE exec' = [exec EXCEPT
                  ![w].at      = "read",
                  ![w].base    = file[t[2]].version,
                  ![w].seen    = IF t[2] \in Entity THEN Evidence(t) ELSE {},
                  ![w].partial = t[2] \in Entity /\ Incremental(t)]
        /\ UNCHANGED <<Files, Tasks, request, deletion>>

\* Entities that have no document get one; a path that is taken by then is reused.
Born(E) ==
    [f \in File |->
        IF f \in E /\ ~Live(f) THEN [status |-> "live", version |-> 0, enriched |-> FALSE]
        ELSE file[f]]

\* The model finds the entities E in the document.
Anchor(w, E) ==
    /\ exec[w].at = "read" /\ FileOf(w) \in Doc
    /\ IF \E e \in E : file[e].status = "deleted"
         THEN Moves(w, "failing") /\ UNCHANGED file
         ELSE /\ file' = Born(E)
              /\ exec' = [exec EXCEPT ![w].at = "anchored", ![w].found = E]
    /\ UNCHANGED <<relation, clock, edits, Tasks, request, deletion>>

\* Replace the assertions that source makes, in one transaction.
Asserts(source, E) ==
    /\ clock' = clock + 1
    /\ relation' = [p \in File \X Entity |->
                      IF p[1] # source THEN relation[p]
                      ELSE IF p[2] \in E THEN clock + 1 ELSE 0]

\* Neither the lease nor the status of the task is looked at.
Persist(w) ==
    /\ exec[w].at = "anchored"
    /\ Asserts(FileOf(w), exec[w].found)
    /\ Moves(w, "done")
    /\ UNCHANGED <<file, edits, Tasks, request, deletion>>

\* Mutant: update_file is called without the signature of the accepted content.
SignedAny(t) == TRUE

\* The document is still the one that was accepted.
Signed(t) == file[t[2]].version = row[t].input

\* An incremental enrichment that finds nothing new succeeds without a change.
SkipUpdate(w) ==
    /\ exec[w].at = "read" /\ FileOf(w) \in Entity
    /\ exec[w].partial /\ exec[w].seen = {}
    /\ Moves(w, "done")
    /\ UNCHANGED <<Files, Tasks, request, deletion>>

\* update_file with the generated document, and its assertions on the entities E.
Update(w, E) ==
    LET t == exec[w].task
    IN  /\ exec[w].at = "read" /\ t[2] \in Entity
        /\ Unlocked(t[2])
        /\ IF ~Live(t[2]) \/ ~Signed(t)
             THEN Moves(w, "failing") /\ UNCHANGED <<file, relation, clock, row>>
             ELSE /\ file' = [file EXCEPT ![t[2]].version = @ + 1, ![t[2]].enriched = TRUE]
                  /\ Asserts(t[2], E)
                  /\ row' = [row EXCEPT ![t].used = exec[w].seen]
                  /\ Moves(w, "written")
        /\ UNCHANGED <<edits, batch, last, request, deletion>>

\* The inline build of the new document (FileBuild).
Build(w) ==
    /\ exec[w].at = "written"
    /\ Moves(w, "done")
    /\ UNCHANGED <<Files, Tasks, request, deletion>>

\* Mutant: a worker that lost its task records its success.
SucceedLate(w) ==
    /\ exec[w].at = "done"
    /\ row'   = EndAll({exec[w].task}, "succeeded")
    /\ batch' = IF Held(w) THEN AdvanceAll({exec[w].task}) ELSE batch
    /\ Stops(w)
    /\ UNCHANGED <<Files, last, request, deletion>>

\* Record the success, if the task is still running.  The COMMIT may succeed and the
\* coroutine still fail: it then tries to record a failure.
Succeed(w) ==
    /\ exec[w].at = "done" /\ TaskFree(exec[w].task)
    /\ \/ /\ Held(w) /\ CanAdvance({exec[w].task})
          /\ row'   = EndAll({exec[w].task}, "succeeded")
          /\ batch' = AdvanceAll({exec[w].task})
          /\ Stops(w) \/ Moves(w, "failing")
       \/ ~Held(w) /\ Stops(w) /\ UNCHANGED <<row, batch>>
    /\ UNCHANGED <<Files, last, request, deletion>>

\* An exception, or the task timeout, which cancels the work wherever it is.
Fail(w) ==
    /\ exec[w].at \in Working
    /\ Moves(w, "failing")
    /\ UNCHANGED <<Files, Tasks, request, deletion>>

RecordFailure(w) ==
    /\ exec[w].at = "failing" /\ TaskFree(exec[w].task)
    /\ \/ /\ Held(w) /\ CanAdvance({exec[w].task})
          /\ row'   = EndAll({exec[w].task}, "failed")
          /\ batch' = AdvanceAll({exec[w].task})
       \/ ~Held(w) /\ UNCHANGED <<row, batch>>
    /\ Stops(w)
    /\ UNCHANGED <<Files, last, request, deletion>>

\* The heartbeat finds the task ended; or the process dies or shuts down, which
\* records nothing.
Abandon(w) ==
    /\ exec[w].at # "idle"
    /\ Stops(w)
    /\ UNCHANGED <<Files, Tasks, request, deletion>>

\* Heartbeats fail to reach the database and the lease runs out ...
Expire(t) ==
    /\ row[t].status = "running" /\ ~row[t].expired
    /\ row' = [row EXCEPT ![t].expired = TRUE]
    /\ UNCHANGED <<Files, batch, last, exec, request, deletion>>

\* ... and one that arrives before the reaper renews it.
Revive(w) ==
    /\ exec[w].at # "idle" /\ Held(w) /\ row[exec[w].task].expired
    /\ TaskFree(exec[w].task)
    /\ row' = [row EXCEPT ![exec[w].task].expired = FALSE]
    /\ UNCHANGED <<Files, batch, last, exec, request, deletion>>

\* Mutant: no reaper runs.
ReapNever(t) == FALSE /\ UNCHANGED vars

Reap(t) ==
    /\ row[t].status = "running" /\ row[t].expired /\ TaskFree(t)
    /\ CanAdvance({t})
    /\ row'   = EndAll({t}, "failed")
    /\ batch' = AdvanceAll({t})
    /\ UNCHANGED <<Files, last, exec, request, deletion>>

-----------------------------------------------------------------------------
(* The rest of the knowledge base.                                         *)

\* A user updates a Markdown file: its outgoing assertions are deleted, and the
\* front matter may say again that an Entity document is not enriched.
Edit(f) ==
    /\ Live(f) /\ Unlocked(f) /\ edits < MaxEdits
    /\ edits' = edits + 1
    /\ \E enriched \in {file[f].enriched, FALSE} :
          file' = [file EXCEPT ![f].version = @ + 1, ![f].enriched = enriched]
    /\ relation' = [p \in File \X Entity |-> IF p[1] = f THEN 0 ELSE relation[p]]
    /\ UNCHANGED <<clock, Tasks, exec, request, deletion>>

\* Deletion of the knowledge base: first the active tasks are ended, uncommitted ...
BeginDelete ==
    /\ deletion.at = "none"
    /\ deletion' = [at |-> "open", fenced |-> {t \in Task : IsActive(t)}]
    /\ UNCHANGED <<Files, Tasks, exec, request>>

\* ... and in the end the file rows, once no acceptance has them locked.  Tasks that
\* such an acceptance creates meanwhile stay.
CommitDelete ==
    /\ deletion.at = "open"
    /\ \A f \in File : Unlocked(f)
    /\ CanAdvance(deletion.fenced)
    /\ row'   = EndAll(deletion.fenced, "skipped")
    /\ batch' = AdvanceAll(deletion.fenced)
    /\ file'  = [f \in File |-> [file[f] EXCEPT !.status = "deleted"]]
    /\ deletion' = [at |-> "done", fenced |-> {}]
    /\ UNCHANGED <<relation, clock, edits, last, exec, request>>

AbortDelete ==
    /\ deletion.at = "open"
    /\ deletion' = [at |-> "none", fenced |-> {}]
    /\ UNCHANGED <<Files, Tasks, exec, request>>

-----------------------------------------------------------------------------
Next ==
    \/ \E q \in Requester :
          \/ \E F \in SUBSET File, force \in BOOLEAN : BeginAccept(q, F, force)
          \/ \E f \in File : Decide(q, f)
          \/ CommitAccept(q) \/ AbortAccept(q)
    \/ \E w \in Worker :
          \/ \E t \in Task : Claim(w, t)
          \/ \E E \in SUBSET Entity : Anchor(w, E) \/ Update(w, E \ {FileOf(w)})
          \/ Read(w) \/ Persist(w) \/ SkipUpdate(w) \/ Build(w) \/ Succeed(w)
          \/ Fail(w) \/ RecordFailure(w) \/ Abandon(w) \/ Revive(w)
    \/ \E t \in Task : Expire(t) \/ Reap(t)
    \/ \E f \in File : Edit(f)
    \/ BeginDelete \/ CommitDelete \/ AbortDelete

Spec == Init /\ [][Next]_vars

\* The claim and reaper loops come back for ever, and so do row locks that are waited
\* for (SF).  A lease is left to run out when nothing refreshes it, and no transaction
\* stays open (WF).
Fairness ==
    /\ \A t \in Task : SF_vars((\E w \in Worker : Claim(w, t)) \/ Reap(t))
    /\ \A w \in Worker :
          SF_vars(\/ Read(w) \/ Persist(w) \/ Build(w) \/ Succeed(w) \/ RecordFailure(w)
                  \/ \E E \in SUBSET Entity : Anchor(w, E) \/ Update(w, E \ {FileOf(w)}))
    /\ \A t \in Task : WF_vars(Expire(t) /\ \A w \in Worker : exec[w].task # t)
    /\ \A q \in Requester : WF_vars(CommitAccept(q) \/ AbortAccept(q))
    /\ WF_vars(CommitDelete \/ AbortDelete)

FairSpec == Spec /\ Fairness

-----------------------------------------------------------------------------
(* Properties.                                                             *)

\* A file never has two active semantic tasks, however many requests list it at the
\* same time: there is no unique index, only the row lock that an acceptance holds
\* from its look for an active task to its commit.
OneActivePerFile == \A t, u \in Task : t[2] = u[2] /\ IsActive(t) /\ IsActive(u) => t = u

\* The status of a task that has ended is final, whoever comes late.
TerminalFinal == [][\A t \in Task : IsEnded(t) => row'[t].status = row[t].status]_vars

\* An enrichment replaces exactly the document it was derived from: an edit at any
\* time between acceptance and update makes it fail.
EditsKept ==
    [][\A w \in Worker :
          exec[w].at = "read" /\ exec'[w].at = "written" =>
              file[FileOf(w)].version = exec[w].base]_vars

\* Every batch is completed in the end, although workers die, leases run out and are
\* revived, and the knowledge base is deleted under a request that is being accepted.
BatchesComplete == \A r \in Request : batch[r].status = "processing" ~> batch[r].status = "completed"

\* Semantic tasks keep the promise of Jobs.
Promise ==
    INSTANCE Jobs WITH
        Job     <- Task,
        Batch   <- Request,
        BatchOf <- [t \in Task |-> t[1]],
        state   <- [t \in Task |-> IF IsEnded(t) THEN "ended" ELSE row[t].status],
        open    <- {r \in Request : batch[r].status = "processing"}

KeepsPromise == Promise!Spec

-----------------------------------------------------------------------------
(* What the documentation says and the code does not keep.                 *)

\* KE-E6: an assertion that appears makes the Entity stale, and a new task writes it:
\* what an enrichment was accepted for is in the document once the task succeeded.
EvidenceKept ==
    \A t \in Task :
        t[2] \in Entity /\ row[t].status = "succeeded" =>
            \/ row[t].fingerprint \notin Assertions(t[2])
            \/ \E u \in TasksOf(t[2]) : row[t].fingerprint \in row[u].used

\* background design 9.3: assertions and documents are written only by a worker whose
\* task is still its own.
EffectsFenced ==
    [][\A w \in Worker :
          exec[w].at # exec'[w].at /\ exec'[w].at \in {"written", "done"} /\ relation' # relation
              => Held(w)]_vars
=============================================================================
