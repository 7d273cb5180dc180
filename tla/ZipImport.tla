------------------------------ MODULE ZipImport ------------------------------
(***************************************************************************)
(* The import of an archive (ZipBatchImportService): other files first,    *)
(* then, after a barrier, the Markdown files, each phase by a few workers  *)
(* at a time; a file that is there is deleted and uploaded anew.  At the   *)
(* end the references to what was uploaded are bound once more.            *)
(*                                                                         *)
(* Of the database the model keeps which row is the live file of a path,   *)
(* the row lock of a deletion and the assertions of the references: the    *)
(* foreign key makes an assertion wait for a deletion of its target.       *)
(* References has their whole life.  Directories are FileTree's.           *)
(***************************************************************************)
EXTENDS Integers, Sequences, FiniteSets, SequencesExt

CONSTANTS
    Archive,   \* the entries in their order: path, md, malformed; path None is unsafe
    Refers,    \* the paths a Markdown file, or one outside the archive, refers to
    Old,       \* the paths of the archive at which there was a file
    Outside,   \* a file that is not in the archive
    Limit,     \* max_concurrency
    None

VARIABLES
    live,        \* the row that is the live file of a path: an entry, 0 the old one, or none
    assertion,   \* of a source: to what path, bound to a row or waiting; committed or not
    item,        \* where the import of an entry is, and the rows it found for its references
    phase

vars == <<live, assertion, item, phase>>

Entry == DOMAIN Archive
Path  == {Archive[i].path : i \in Entry} \ {None}
NoRow == -1

Row(p, id) == [path |-> p, id |-> id]

\* The first entry of a path is imported, a later one is reported as a duplicate; one that
\* leaves the target directory fails on its turn.
Duplicate(i) == \E j \in 1 .. i - 1 : Archive[j].path = Archive[i].path /\ Archive[i].path # None

Group(md) == {i \in Entry : Archive[i].md = md /\ ~Duplicate(i)}
Busy      == {i \in Entry : item[i].at \notin {"queued", "done", "failed"}}
Finished(S) == \A i \in S : item[i].at \in {"done", "failed"}
LiveRow(p)  == Row(p, live[p])
Deleting(r) == \E i \in Entry : item[i].at = "deleting" /\ item[i].victim = r

To(i, at) == item' = [item EXCEPT ![i].at = at]

Init ==
    /\ live = [p \in Path |-> IF p \in Old THEN 0 ELSE NoRow]
    /\ assertion = {[source |-> Outside, to |-> p, open |-> FALSE,
                     bound |-> IF p \in Old THEN Row(p, 0) ELSE None] : p \in Refers[Outside]}
    /\ item = [i \in Entry |-> [at |-> "queued", victim |-> None, found |-> {}]]
    /\ phase = "others"

\* The workers of a phase take the entries of its group.
Turn(i) == phase = (IF Archive[i].md THEN "markdown" ELSE "others") /\ ~Duplicate(i)

\* The path and a Markdown text are checked before anything is deleted.
Begin(i) ==
    /\ item[i].at = "queued" /\ Turn(i)
    /\ \A j \in 1 .. i - 1 : Turn(j) => item[j].at # "queued"
    /\ Cardinality(Busy) < Limit
    /\ To(i, IF Archive[i].path = None \/ Archive[i].malformed THEN "failed"
             ELSE IF live[Archive[i].path] # NoRow THEN "delete" ELSE "insert")
    /\ UNCHANGED <<live, assertion, phase>>

\* delete_knowledge_item: the row is locked, unless an assertion just made refers to it.
LockOld(i) ==
    LET r == LiveRow(Archive[i].path)
    IN  /\ item[i].at = "delete"
        /\ ~\E a \in assertion : a.open /\ a.bound = r
        /\ item' = [item EXCEPT ![i].at = "deleting", ![i].victim = r]
        /\ UNCHANGED <<live, assertion, phase>>

\* The references to the row wait for another at its path; those from it are deleted.
DeleteOld(i) ==
    /\ item[i].at = "deleting"
    /\ assertion' = {IF ~a.open /\ a.bound = item[i].victim THEN [a EXCEPT !.bound = None] ELSE a :
                       a \in assertion}
    /\ live' = [live EXCEPT ![Archive[i].path] = NoRow]
    /\ To(i, "insert")
    /\ UNCHANGED phase

\* upload_file: the targets of the text are looked up.
LookUp(i) ==
    /\ item[i].at = "insert"
    /\ item' = [item EXCEPT ![i].at = "found",
         ![i].found = IF ~Archive[i].md THEN {}
                      ELSE {[to |-> p, row |-> IF live[p] = NoRow THEN None ELSE LiveRow(p)] :
                              p \in Refers[Archive[i].path]}]
    /\ UNCHANGED <<live, assertion, phase>>

\* The assertions are inserted, once no deletion holds the rows they are bound to.
Insert(i) ==
    /\ item[i].at = "found"
    /\ \A t \in item[i].found : ~Deleting(t.row)
    /\ assertion' = assertion \cup
         {[source |-> Archive[i].path, to |-> t.to, open |-> TRUE, bound |-> t.row] :
             t \in item[i].found}
    /\ To(i, "asserted")
    /\ UNCHANGED <<live, phase>>

\* resolve_pending_for_path and rebind_deleted_target_for_path
Waiting(p) == {a \in assertion : ~a.open /\ a.to = p /\ a.bound = None}
Stale(p)   == {a \in assertion : ~a.open /\ a.to = p /\ a.bound # None /\ a.bound # LiveRow(p)}

BoundTo(A, r) == {[a EXCEPT !.bound = r] : a \in A}

\* The upload binds what waits for its path and commits.
Upload(i) ==
    LET p    == Archive[i].path
        mine == {a \in assertion : a.open /\ a.source = p}
    IN  /\ item[i].at = "asserted"
        /\ live' = [live EXCEPT ![p] = i]
        /\ assertion' = (assertion \ (Waiting(p) \cup mine))
                          \cup {[a EXCEPT !.open = FALSE] : a \in mine}
                          \cup BoundTo(Waiting(p), Row(p, i))
        /\ To(i, "done")
        /\ UNCHANGED phase

\* An upload fails and is undone; what was deleted for it stays deleted.
UploadFails(i) ==
    /\ item[i].at \in {"insert", "found", "asserted"}
    /\ assertion' = {a \in assertion : ~(a.open /\ a.source = Archive[i].path)}
    /\ To(i, "failed")
    /\ UNCHANGED <<live, phase>>

Barrier ==
    \/ phase = "others" /\ Finished(Group(FALSE)) /\ phase' = "markdown"
                        /\ UNCHANGED <<live, assertion, item>>
    \/ phase = "markdown" /\ Finished(Group(TRUE)) /\ phase' = "resolve"
                        /\ UNCHANGED <<live, assertion, item>>

Imported == {p \in Path : \E i \in Entry : item[i].at = "done" /\ Archive[i].path = p}

\* Mutant: only what waits is bound at the end.
AgainWaiting(p) == Waiting(p)

\* What the compensation binds to the file that is at a path now.
Again(p) == Waiting(p) \cup Stale(p)

\* _resolve_pending_references_after_batch; an error is reported beside the result.
Resolve ==
    /\ phase = "resolve"
    /\ \/ /\ phase' = "done"
          /\ assertion' = {IF \E p \in Imported : a \in Again(p)
                           THEN [a EXCEPT !.bound = LiveRow(a.to)] ELSE a : a \in assertion}
       \/ phase' = "reported" /\ UNCHANGED assertion
    /\ UNCHANGED <<live, item>>

Next == \/ Barrier \/ Resolve
        \/ \E i \in Entry : \/ Begin(i) \/ LockOld(i) \/ DeleteOld(i) \/ LookUp(i) \/ Insert(i)
                            \/ Upload(i) \/ UploadFails(i)

Spec == Init /\ [][Next]_vars
-----------------------------------------------------------------------------
\* However the uploads and deletions of the workers interleave, when the import ends without
\* an error every reference to an imported path, from the archive or from outside, is bound
\* to the file that is there now, never to the one it replaced.
Linked == phase = "done" =>
    \A a \in assertion : a.to \in Imported => a.bound = LiveRow(a.to)

\* A Markdown upload finds every other file of the archive that was imported: its reference
\* is bound with its own commit, before the import ends.
FoundAtOnce == \A i \in Entry, a \in assertion :
    /\ item[i].at = "done" /\ ~Archive[i].md
    /\ a.source # Outside /\ a.to = Archive[i].path
    => a.bound = LiveRow(a.to)
=============================================================================
