----------------------------- MODULE BuildStatus -----------------------------
(***************************************************************************)
(* What a caller is told of the build of one file: fileBuildStatus, listDir *)
(* and glob look for its latest task that is still current, buildResult for *)
(* its latest task, each in several statements that see what has been      *)
(* committed by then.  A task and a change of the file carry the time at   *)
(* which their transactions began, not the order in which they committed.  *)
(***************************************************************************)
EXTENDS Naturals, Sequences, FiniteSets

CONSTANTS
    Content,   \* file contents, told apart by their checksum
    MaxBegun,  \* bound on the transactions that begin
    None

VARIABLES
    now,     \* how many transactions of update_file and of acceptance have begun
    file,    \* knowledge_fs_entry with its derivatives; its version is a history variable
    changes, \* knowledge_file_update_timeline: the updates that changed the checksum
    tasks,   \* knowledge_build_task, in the order of their keys
    begun,   \* when the open transactions began, 0 when none is open; the tasks there were
    reader   \* a call that asks for the status or for the result

vars == <<now, file, changes, tasks, begun, reader>>

Unended == {"pending", "running", "preparing"}
Nobody  == [asks |-> "nothing", row |-> None, task |-> 0, seen |-> None, answer |-> None]

Init ==
    /\ now = 0
    /\ \E c \in Content : file = [content |-> c, version |-> 1, chunks |-> 0]
    /\ changes = <<>> /\ tasks = <<>>
    /\ begun = [update |-> 0, accept |-> 0, known |-> 0]
    /\ reader = Nobody

\* ORDER BY created_at DESC, kid DESC LIMIT 1, 0 when there is none
Latest(S) ==
    LET Before(i, j) == tasks[i].at < tasks[j].at \/ (tasks[i].at = tasks[j].at /\ i < j)
    IN  IF S = {} THEN 0 ELSE CHOOSE j \in S : \A i \in S \ {j} : Before(i, j)

\* Its input is what the file holds, and no change is more recent than the task.
Current(i) ==
    /\ tasks[i].input = file.content
    /\ \A n \in DOMAIN changes : changes[n] <= tasks[i].at

LatestCurrent == Latest({i \in DOMAIN tasks : Current(i)})

\* Mutant: succeeded is taken for complete.
CompleteNot == TRUE

\* Markdown, chunks, embeddings and projection are all there.
Complete == file.chunks # 0

\* The first n tasks, those that have not ended, are skipped.
Skipped(n) == [i \in DOMAIN tasks |-> IF i <= n /\ tasks[i].status \in Unended
                                      THEN [tasks[i] EXCEPT !.status = "skipped"] ELSE tasks[i]]
-----------------------------------------------------------------------------
(* Updates, acceptances and builds; FileBuild and FileArtifacts have their *)
(* detail.                                                                 *)

Begin(kind) ==
    /\ begun[kind] = 0 /\ now < MaxBegun
    /\ now' = now + 1
    /\ begun' = [begun EXCEPT ![kind] = now',
                              !.known = IF kind = "update" THEN Len(tasks) ELSE @]
    /\ UNCHANGED <<file, changes, tasks, reader>>

\* update_file, to its COMMIT.  A task that was accepted since the update looked for active
\* tasks is not skipped.
Update(c) ==
    /\ begun.update # 0
    /\ IF c = file.content THEN UNCHANGED <<file, tasks, changes>>
       ELSE /\ file' = [content |-> c, version |-> file.version + 1, chunks |-> 0]
            /\ \E n \in begun.known .. Len(tasks) : tasks' = Skipped(n)
            /\ changes' = Append(changes, begun.update)
    /\ begun' = [begun EXCEPT !.update = 0]
    /\ UNCHANGED <<now, reader>>

\* accept, from its table lock to COMMIT: a task is reused, or a new one replaces the active one.
Reusable(force) ==
    {i \in DOMAIN tasks : Current(i) /\ \/ tasks[i].status \in Unended
                                        \/ ~force /\ tasks[i].status = "succeeded" /\ Complete}

Accept(force) ==
    /\ begun.accept # 0
    /\ tasks' = IF Reusable(force) # {} THEN tasks
                ELSE Append(Skipped(Len(tasks)),
                            [at |-> begun.accept, input |-> file.content, status |-> "pending"])
    /\ begun' = [begun EXCEPT !.accept = 0]
    /\ UNCHANGED <<now, file, changes, reader>>

Becomes(i, status) == tasks' = [tasks EXCEPT ![i].status = status]

Claim(i) ==
    /\ tasks[i].status = "pending" /\ Becomes(i, "running")
    /\ UNCHANGED <<now, file, changes, begun, reader>>

\* The input is checked under the row locks, by each of the two.
Fresh(i) == tasks[i].input = file.content

Prepare(i) ==
    /\ tasks[i].status = "running" /\ Fresh(i)
    /\ file' = [file EXCEPT !.chunks = 0] /\ Becomes(i, "preparing")
    /\ UNCHANGED <<now, changes, begun, reader>>

Succeed(i) ==
    /\ tasks[i].status = "preparing" /\ Fresh(i)
    /\ file' = [file EXCEPT !.chunks = file.version] /\ Becomes(i, "succeeded")
    /\ UNCHANGED <<now, changes, begun, reader>>

Fail(i) ==
    /\ tasks[i].status \in {"running", "preparing"} /\ Becomes(i, "failed")
    /\ UNCHANGED <<now, file, changes, begun, reader>>
-----------------------------------------------------------------------------
(* The callers.                                                            *)

Reads(next) == reader' = next /\ UNCHANGED <<now, file, changes, tasks, begun>>

Ask(kind) ==
    /\ reader.asks = "nothing"
    /\ Reads([Nobody EXCEPT !.asks = kind, !.row = file.content])

\* get_latest_current_by_fs_entry_id, or get_latest_by_fs_entry_id
FindTask ==
    LET i == IF reader.asks = "status" THEN LatestCurrent ELSE Latest(DOMAIN tasks)
        done == i = 0 \/ tasks[i].status # "succeeded"
    IN  /\ reader.asks # "nothing" /\ reader.task = 0 /\ reader.answer = None
        /\ Reads([reader EXCEPT !.task = i, !.answer = IF done THEN "not built" ELSE None])

\* get_complete_build_fs_entry_ids, or get_build_result_summary.  The Markdown may be gone
\* from storage by the time buildResult reads it.
FindArtifacts ==
    LET built == Complete /\ (reader.asks = "result" => tasks[reader.task].input = reader.row)
    IN  /\ reader.task # 0 /\ reader.answer = None
        /\ \E markdown \in BOOLEAN :
              /\ reader.asks = "status" => markdown
              /\ Reads([reader EXCEPT !.answer = IF built /\ markdown THEN "built" ELSE "not built",
                                      !.seen = [of |-> file.chunks, current |-> file.version]])

Done == reader.answer # None /\ Reads(Nobody)

Next ==
    \/ \E kind \in {"update", "accept"} : Begin(kind)
    \/ \E c \in Content : Update(c)
    \/ \E force \in BOOLEAN : Accept(force)
    \/ \E i \in DOMAIN tasks : Claim(i) \/ Prepare(i) \/ Succeed(i) \/ Fail(i)
    \/ \E kind \in {"status", "result"} : Ask(kind)
    \/ FindTask \/ FindArtifacts \/ Done

Spec == Init /\ [][Next]_vars
-----------------------------------------------------------------------------
\* Who is told that the file is built was answered while all derivatives of the content that
\* the file then had were there: a task of the same content before a change and a change back
\* is not revived, whatever commits between the statements.
NothingRevived ==
    reader.answer = "built" => reader.seen.of = reader.seen.current

\* What the callers would be told if nothing changed while they read.
StatusSays == LatestCurrent # 0 /\ tasks[LatestCurrent].status = "succeeded" /\ Complete

ResultSays ==
    LET i == Latest(DOMAIN tasks)
    IN  i # 0 /\ tasks[i].status = "succeeded" /\ tasks[i].input = file.content /\ Complete

\* fileBuildStatus, listDir, glob and buildResult agree on whether the file is built, as
\* file-build-background-processing-design.md requires.
StatusesAgree == StatusSays <=> ResultSays
=============================================================================
