---------------------------- MODULE FileArtifacts ----------------------------
(***************************************************************************)
(* The stored objects of one Knowledge File against its database row: the  *)
(* original at its fixed locator, the Markdown at its fixed key, and the   *)
(* derivatives the row refers to.                                          *)
(*                                                                         *)
(* Object storage takes no part in transactions.  update_file overwrites   *)
(* the original inside its transaction and puts the old bytes back after a *)
(* COMMIT that failed, or seemed to; a build reads the original with no    *)
(* lock held, writes the Markdown inside its transaction, and deletes      *)
(* Markdown after COMMIT or ROLLBACK, when the row lock is gone.  Each     *)
(* storage call is therefore a step of its own.  Tasks are reduced to the  *)
(* one active task of the file (OneActivePerFile of FileBuild).            *)
(***************************************************************************)
CONSTANTS
    Content,   \* file contents, told apart by their checksum
    Builder,   \* coroutines that execute builds of the file
    Updater,   \* connections that run update_file on it
    None

Process == Builder \cup Updater

ASSUME ProcessAssumption == Builder \cap Updater = {} /\ None \notin Content \cup Process

VARIABLES
    original,  \* the object at the original locator
    sidecar,   \* the object at the Markdown key: the content it was extracted from
    row,       \* knowledge_fs_entry, with its chunks
    lock,      \* who holds the row lock of the file
    active,    \* the builder whose task is active
    build,     \* the coroutines
    update     \* the update_file calls

vars == <<original, sidecar, row, lock, active, build, update>>
Objects == <<original, sidecar>>

Building ==
    {"idle", "claimed", "cleared", "pruned", "reading", "read", "written", "undoing", "failing"}
Updating == {"idle", "locked", "written", "restoring", "dropping", "lost", "late"}

Row    == [content : Content, markdown : BOOLEAN, chunks : Content \cup {None}]
Build  == [at : Building, input : Content \cup {None}, bytes : Content \cup {None}]
\* late is history, which no guard reads: what this update is about to put back is of
\* a time before a commit of its own or before another update locked the row.
Update == [at : Updating, to : Content \cup {None}, old : Content \cup {None},
           markdown : BOOLEAN, fenced : Builder \cup {None}, late : BOOLEAN]

FreshBuild  == [at |-> "idle", input |-> None, bytes |-> None]
FreshUpdate ==
    [at |-> "idle", to |-> None, old |-> None, markdown |-> FALSE, fenced |-> None, late |-> FALSE]

\* The types; an open update knows what it writes and what it would put back.
TypeOK ==
    /\ original \in Content
    /\ sidecar  \in Content \cup {None}
    /\ row      \in Row
    /\ lock     \in Process \cup {None}
    /\ active   \in Builder \cup {None}
    /\ build    \in [Builder -> Build]
    /\ update   \in [Updater -> Update]
    /\ \A u \in Updater :
          update[u].at \in {"locked", "written", "restoring"} =>
              update[u].to \in Content /\ update[u].old \in Content

\* The file was uploaded and never built.
Init ==
    \E c \in Content :
        /\ original = c
        /\ sidecar  = None
        /\ row      = [content |-> c, markdown |-> FALSE, chunks |-> None]
        /\ lock     = None
        /\ active   = None
        /\ build    = [b \in Builder |-> FreshBuild]
        /\ update   = [u \in Updater |-> FreshUpdate]

-----------------------------------------------------------------------------
(* Builds.                                                                 *)

\* Neither a build that publishes nor an update has locked the row of the active task.
TaskFree == active # None => lock # active /\ \A u \in Updater : update[u].fenced # active

BuildAt(b, at) == build' = [build EXCEPT ![b].at = at]
BuildEnds(b)   == build' = [build EXCEPT ![b] = FreshBuild]

\* A request or an Entity build replaces the active task, and b executes the new one.
Start(b) ==
    /\ build[b].at = "idle"
    /\ TaskFree
    /\ active' = b
    /\ build'  = [build EXCEPT ![b] = [at |-> "claimed", input |-> row.content, bytes |-> None]]
    /\ UNCHANGED <<Objects, row, lock, update>>

\* The fence and the check of the input, under the row locks.
MayWrite(b) == active = b /\ row.content = build[b].input

\* The transaction of _prepare: the row loses its derivatives.
Prepare(b) ==
    /\ build[b].at = "claimed" /\ lock = None
    /\ \/ /\ MayWrite(b)
          /\ row' = [row EXCEPT !.markdown = FALSE, !.chunks = None]
          /\ BuildAt(b, "cleared")
       \/ /\ ~MayWrite(b)
          /\ BuildAt(b, "failing") /\ UNCHANGED row
    /\ UNCHANGED <<Objects, lock, active, update>>

\* After its COMMIT: the Markdown of the earlier build is deleted.
DeleteStale(b) ==
    /\ build[b].at = "cleared"
    /\ sidecar' = None
    /\ BuildAt(b, "pruned")
    /\ UNCHANGED <<original, row, lock, active, update>>

\* The fence of the stage "extracting".
Extract(b) ==
    /\ build[b].at = "pruned" /\ active = b /\ TaskFree
    /\ BuildAt(b, "reading")
    /\ UNCHANGED <<Objects, row, lock, active, update>>

\* The original is read with no lock held.
Read(b) ==
    /\ build[b].at = "reading"
    /\ build' = [build EXCEPT ![b].at = "read", ![b].bytes = original]
    /\ UNCHANGED <<Objects, row, lock, active, update>>

\* Mutant: the Markdown is written with no check of the fence.
WriteUnfenced(b) ==
    /\ build[b].at = "read" /\ lock = None
    /\ sidecar' = build[b].bytes /\ lock' = b /\ BuildAt(b, "written")
    /\ UNCHANGED <<original, row, active, update>>

\* _commit_success until the Markdown is written, the row lock held from now on.
Write(b) ==
    /\ build[b].at = "read" /\ lock = None
    /\ \/ /\ MayWrite(b)
          /\ sidecar' = build[b].bytes /\ lock' = b /\ BuildAt(b, "written")
       \/ /\ ~MayWrite(b)
          /\ BuildAt(b, "failing") /\ UNCHANGED <<sidecar, lock>>
    /\ UNCHANGED <<original, row, active, update>>

\* The rest of it: derivatives, reference to the Markdown and task, committed together.
\* When the answer of COMMIT is lost, the Markdown is deleted as after a rollback.
CommitBuild(b) ==
    /\ build[b].at = "written"
    /\ row' = [row EXCEPT !.markdown = TRUE, !.chunks = build[b].bytes]
    /\ lock' = None /\ active' = None
    /\ BuildEnds(b) \/ BuildAt(b, "undoing")
    /\ UNCHANGED <<Objects, update>>

\* The transaction fails; the Markdown is deleted once the lock is gone.
RollbackBuild(b) ==
    /\ build[b].at = "written"
    /\ lock' = None
    /\ BuildAt(b, "undoing")
    /\ UNCHANGED <<Objects, row, active, update>>

DeleteWritten(b) ==
    /\ build[b].at = "undoing"
    /\ sidecar' = None
    /\ BuildAt(b, "failing")
    /\ UNCHANGED <<original, row, lock, active, update>>

\* Record the outcome, if the task is still active.
FinishBuild(b) ==
    /\ build[b].at = "failing"
    /\ active = b => TaskFree
    /\ active' = IF active = b THEN None ELSE active
    /\ BuildEnds(b)
    /\ UNCHANGED <<Objects, row, lock, update>>

\* The fence of a stage stops a build that lost its task, the parser or the
\* embedding model fails, or the process dies: the database undoes what is open.
StopBuild(b) ==
    /\ build[b].at \in Building \ {"idle"}
    /\ lock' = IF lock = b THEN None ELSE lock
    /\ \/ BuildEnds(b)
       \/ build[b].at \in {"claimed", "pruned", "reading", "read"} /\ BuildAt(b, "failing")
    /\ UNCHANGED <<Objects, row, active, update>>

\* The lease of the active task runs out, and the reaper ends the task.
Reap ==
    /\ active # None /\ TaskFree
    /\ active' = None
    /\ UNCHANGED <<Objects, row, lock, build, update>>

-----------------------------------------------------------------------------
(* Updates.                                                                *)

UpdateAt(u, at) == update' = [update EXCEPT ![u].at = at, ![u].fenced = None]

\* What a failed update puts back.
OldBytes == original

\* Whoever still owes old bytes to the storage will be late.
Overtaken(v) == IF update[v].at = "restoring" THEN [update[v] EXCEPT !.late = TRUE] ELSE update[v]

\* Lock the row, read the old bytes and, when the content changes, fence the active task.
BeginUpdate(u, c) ==
    /\ update[u].at = "idle" /\ lock = None
    /\ c # row.content => TaskFree
    /\ lock' = u
    /\ update' = [[v \in Updater |-> Overtaken(v)] EXCEPT ![u] =
                    [at |-> "locked", to |-> c, old |-> OldBytes, markdown |-> row.markdown,
                     fenced |-> IF c # row.content THEN active ELSE None, late |-> FALSE]]
    /\ UNCHANGED <<Objects, row, active, build>>

WriteOriginal(u) ==
    /\ update[u].at = "locked"
    /\ original' = update[u].to
    /\ update' = [update EXCEPT ![u].at = "written"]
    /\ UNCHANGED <<sidecar, row, lock, active, build>>

RowAfter(u) ==
    IF update[u].to = row.content
      THEN row
      ELSE [content |-> update[u].to, markdown |-> FALSE, chunks |-> None]

\* The database part: the fenced task ends with it.  When the answer of COMMIT is lost,
\* the update takes it for a failure and puts the old bytes back.
CommitUpdate(u) ==
    /\ update[u].at = "written"
    /\ row' = RowAfter(u)
    /\ lock' = None
    /\ active' = IF update[u].fenced # None THEN None ELSE active
    /\ \/ UpdateAt(u, IF update[u].to # row.content /\ update[u].markdown
                        THEN "dropping" ELSE "idle")
       \/ update' = [update EXCEPT ![u].at = "restoring", ![u].fenced = None, ![u].late = TRUE]
    /\ UNCHANGED <<Objects, build>>

\* After COMMIT: the Markdown of the old content is deleted.
DropMarkdown(u) ==
    /\ update[u].at = "dropping"
    /\ sidecar' = None
    /\ UpdateAt(u, "idle")
    /\ UNCHANGED <<original, row, lock, active, build>>

\* Mutant: the bytes written before a rollback stay.
RollbackKeeps(u) ==
    /\ update[u].at \in {"locked", "written"}
    /\ lock' = None
    /\ UpdateAt(u, "idle")
    /\ UNCHANGED <<Objects, row, active, build>>

\* A check or a statement fails: the rollback releases the row before the old
\* bytes are put back.
RollbackUpdate(u) ==
    /\ update[u].at \in {"locked", "written"}
    /\ lock' = None
    /\ UpdateAt(u, IF update[u].at = "written" THEN "restoring" ELSE "idle")
    /\ UNCHANGED <<Objects, row, active, build>>

\* The old bytes are put back, with no lock held and without looking at the row.
Restore(u) ==
    /\ update[u].at = "restoring"
    /\ original' = update[u].old
    /\ UpdateAt(u, IF update[u].late THEN "late" ELSE "idle")
    /\ UNCHANGED <<sidecar, row, lock, active, build>>

\* The process dies, or the storage refuses the old bytes ("could not restore"): what
\* was written stays for good.
LoseUpdate(u) ==
    /\ update[u].at \in {"locked", "written", "restoring", "dropping"}
    /\ lock' = IF lock = u THEN None ELSE lock
    /\ UpdateAt(u, IF update[u].at \in {"written", "restoring"} THEN "lost" ELSE "idle")
    /\ UNCHANGED <<Objects, row, active, build>>

-----------------------------------------------------------------------------
Next ==
    \/ \E b \in Builder :
          \/ Start(b) \/ Prepare(b) \/ DeleteStale(b) \/ Extract(b) \/ Read(b)
          \/ Write(b) \/ CommitBuild(b) \/ RollbackBuild(b) \/ DeleteWritten(b)
          \/ FinishBuild(b) \/ StopBuild(b)
    \/ Reap
    \/ \E u \in Updater, c \in Content : BeginUpdate(u, c)
    \/ \E u \in Updater :
          \/ WriteOriginal(u) \/ CommitUpdate(u) \/ DropMarkdown(u)
          \/ RollbackUpdate(u) \/ Restore(u) \/ LoseUpdate(u)

Spec == Init /\ [][Next]_vars

-----------------------------------------------------------------------------
(* Properties.                                                             *)

\* When the row refers to Markdown and the object is there, it is the Markdown of the
\* build whose chunks are searchable, although another build may have written and
\* rolled back, or died, at the same key.
MarkdownOfChunks == row.markdown /\ sidecar # None => sidecar = row.chunks

\* Whatever fails in updates that take turns on the row, and however they overlap with
\* each other's ends and with builds: once no update holds the row or owes the storage
\* anything, the original is the content of the row.  Three cases are left out, and are
\* states of their own: a process that died after it wrote ("lost"), an update whose
\* COMMIT succeeded without an answer, and one that was overtaken by another before it
\* put its old bytes back (both "late").
OriginalRestored ==
    (\A u \in Updater : update[u].at \in {"idle", "dropping"}) => original = row.content

-----------------------------------------------------------------------------
(* The inductive invariants behind them.                                   *)

\* The row is locked by the build that publishes or by the update that is open.
Locked ==
    /\ \A b \in Builder : build[b].at = "written" <=> lock = b
    /\ \A u \in Updater : update[u].at \in {"locked", "written"} <=> lock = u

\* A build whose task is active has the row without derivatives from the time it
\* cleared them, and the Markdown it wrote is its own until it publishes.
Cleared ==
    \A b \in Builder :
        /\ active = b /\ build[b].at \in {"cleared", "pruned", "reading", "read", "written"}
           => ~row.markdown
        /\ build[b].at = "written" => active = b /\ sidecar \in {build[b].bytes, None}

\* An update died after it wrote, has put its old bytes back late, or is about to.
Spoiled ==
    \E u \in Updater :
        update[u].at \in {"lost", "late"} \/ (update[u].at = "restoring" /\ update[u].late)

\* Otherwise one update at a time is between its lock and its end, what it found is what
\* the row has until it commits, and the original is what it found or what it wrote.
Undoable ==
    \/ Spoiled
    \/ LET open == {u \in Updater : update[u].at \in {"locked", "written", "restoring"}}
       IN  /\ \A u, v \in open : u = v
           /\ \A u \in open : update[u].old = row.content
           /\ \A u \in open : update[u].at = "written" => original = update[u].to
           /\ (\A u \in open : update[u].at = "locked") => original = row.content

MarkdownInv == TypeOK /\ Locked /\ Cleared /\ MarkdownOfChunks
RestoreInv  == TypeOK /\ Locked /\ Undoable

-----------------------------------------------------------------------------
(* What the documentation says and the code does not keep.                 *)

\* Test plan, UDT8 and UDT9: updates of a file take turns, and a failure of the database
\* leaves no half of an update behind.  No process dies here.
NoHalfUpdate ==
    (\A u \in Updater : update[u].at \in {"idle", "dropping", "late"}) => original = row.content

\* CONTEXT: the Markdown of Built Content is still present.
MarkdownPresent == row.markdown => sidecar # None

\* ADR 0001: snapshots of the checksum fence publication, so that what is searchable
\* derives from the content that the row describes.
ChunksOfContent == row.chunks # None => row.chunks = row.content
=============================================================================
