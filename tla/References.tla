----------------------------- MODULE References -----------------------------
(***************************************************************************)
(* Stable Markdown references.  The targets in a Markdown file become      *)
(* assertions (knowledge_file_reference), and the stored text refers to    *)
(* them by tokens.  An assertion is bound to a file, which it follows      *)
(* when the file moves, or waits for a path at which none was found, or    *)
(* whose file was deleted.                                                 *)
(*                                                                         *)
(* Of a text the model keeps the targets in it.  An assertion is identified *)
(* by its source, the number of the write that made it and the target.     *)
(***************************************************************************)
EXTENDS Integers, FiniteSets

CONSTANTS
    File,        \* identities
    Path,
    MaxWrites,   \* bound: uploads and updates
    MaxMoves,    \* bound: moves
    None

VARIABLES
    file,       \* knowledge_fs_entry: status, path; how the file got to its path
    assertion,  \* knowledge_file_reference
    object,     \* the tokens in the stored text of a file
    open,       \* the upload or update that is not committed
    writes, moves

vars == <<file, assertion, object, open, writes, moves>>

Closed  == [at |-> "none", op |-> None, source |-> None, path |-> None, made |-> {}, old |-> {},
            keeps |-> {}]

Live(f)   == file[f].status = "live"
FileAt(p) == {f \in File : Live(f) /\ file[f].path = p}

Of(source)   == {a \in assertion : a.source = source}
Token(a)     == <<a.source, a.write, a.to>>
Tokens(A)    == {Token(a) : a \in A}
Bound(A, f)  == {a \in A : a.bound = f}

Init ==
    /\ file      = [f \in File |-> [status |-> "unused", path |-> None, moved |-> FALSE]]
    /\ assertion = {}
    /\ object    = [f \in File |-> {}]
    /\ open      = Closed
    /\ writes    = 0
    /\ moves     = 0

\* What is read and written at the path p becomes one assertion: bound to the file that
\* is there, or waiting.  A reference to the file itself is none.
Assertion(source, p) ==
    LET bound == FileAt(p) \ {source}
    IN  [source |-> source, write |-> writes + 1, to |-> p,
         bound  |-> IF bound = {} THEN None ELSE CHOOSE f \in bound : TRUE,
         waits  |-> IF bound = {} THEN p ELSE None]

Rewritten(source, self, targets) == {Assertion(source, p) : p \in targets \ {self}}

\* The path that stands for a token when its text is written again.
Locator(a) == IF a.bound # None THEN file[a.bound].path ELSE a.waits

\* The paths that the kept tokens stand for by now.
Materialized(source, kept) == {Locator(a) : a \in {b \in Of(source) : Token(b) \in kept}}

-----------------------------------------------------------------------------
\* An upload inserts the file and its assertions, and stores the text.
Upload(f, p, targets) ==
    /\ open.at = "none" /\ writes < MaxWrites
    /\ file[f].status = "unused" /\ FileAt(p) = {}
    /\ writes' = writes + 1
    /\ open' = [at |-> "written", op |-> "upload", source |-> f, path |-> p,
                made |-> Rewritten(f, p, targets), old |-> {}, keeps |-> {}]
    /\ object' = [object EXCEPT ![f] = Tokens(Rewritten(f, p, targets))]
    /\ UNCHANGED <<file, assertion, moves>>

\* An update replaces the assertions of the file.  The new text has targets of its own
\* and keeps some tokens of the old one; it is stored before the commit.
Update(f, targets, kept) ==
    LET all  == targets \cup Materialized(f, kept)
        made == Rewritten(f, file[f].path, all)
    IN  /\ open.at = "none" /\ writes < MaxWrites
        /\ Live(f) /\ kept \subseteq object[f]
        /\ kept \subseteq Tokens(Of(f))
        /\ writes' = writes + 1
        /\ open' = [at |-> "written", op |-> "update", source |-> f, path |-> file[f].path,
                    made |-> made, old |-> object[f],
                    keeps |-> {a.bound : a \in {b \in Of(f) : Token(b) \in kept}} \ {None}]
        /\ object' = [object EXCEPT ![f] = Tokens(made)]
        /\ UNCHANGED <<file, assertion, moves>>

\* resolve_pending_for_path
Resolved(A, p, f) ==
    {[a EXCEPT !.bound = IF a.waits = p THEN f ELSE @,
               !.waits = IF a.waits = p THEN None ELSE @] : a \in A}

CommitWrite ==
    LET f == open.source
    IN  /\ open.at = "written"
        /\ file' = [file EXCEPT ![f] = [status |-> "live", path |-> open.path, moved |-> FALSE]]
        /\ assertion' = Resolved((assertion \ Of(f)) \cup open.made, open.path, f)
        /\ open' = Closed
        /\ UNCHANGED <<object, writes, moves>>

\* A failure: the transaction is undone and the old text put back.
RollbackWrite ==
    /\ open.at = "written"
    /\ object' = [object EXCEPT ![open.source] = open.old]
    /\ open' = Closed
    /\ UNCHANGED <<file, assertion, writes, moves>>

\* Mutant: what refers to a file that is deleted stays bound to it.
BrokenNot(A, f) == A

\* mark_targets_deleted: what is bound to the file waits for another at its path.
Broken(A, f) ==
    {[a EXCEPT !.bound = IF a.bound = f THEN None ELSE @,
               !.waits = IF a.bound = f THEN file[f].path ELSE @] : a \in A}

\* The deletion of a file, alone or with its directory.
Delete(f) ==
    /\ open.at = "none" /\ Live(f)
    /\ assertion' = Broken(assertion \ Of(f), f)
    /\ file' = [file EXCEPT ![f].status = "deleted"]
    /\ UNCHANGED <<object, open, writes, moves>>

\* A move writes no assertion.
Move(f, p) ==
    /\ open.at = "none" /\ moves < MaxMoves
    /\ Live(f) /\ FileAt(p) = {}
    /\ moves' = moves + 1
    /\ file' = [file EXCEPT ![f].path = p, ![f].moved = TRUE]
    /\ UNCHANGED <<assertion, object, open, writes>>

\* resolve_pending_references_for_paths, after an import: once more for what was uploaded.
ResolveAgain(f) ==
    /\ open.at = "none" /\ Live(f) /\ ~file[f].moved
    /\ assertion' = Resolved(assertion, file[f].path, f)
    /\ UNCHANGED <<file, object, open, writes, moves>>

Next ==
    \/ \E f \in File :
          \/ \E targets \in SUBSET Path :
                \/ \E p \in Path : Upload(f, p, targets)
                \/ \E kept \in SUBSET object[f] : Update(f, targets, kept)
          \/ \E p \in Path : Move(f, p)
          \/ Delete(f) \/ ResolveAgain(f)
    \/ CommitWrite \/ RollbackWrite

Spec == Init /\ [][Next]_vars

-----------------------------------------------------------------------------
(* Properties.                                                             *)

\* With one write at a time, through every sequence of uploads, updates, deletions and
\* moves, an assertion of a live file is bound to a live one, or it waits for a path where
\* there is no file, except one that was moved there; and the tokens of every text have
\* their assertions.
Settled ==
    open.at = "none" =>
        \A s \in File : Live(s) =>
            /\ object[s] = Tokens(Of(s))
            /\ \A a \in Of(s) :
                  /\ a.bound # None => Live(a.bound) /\ a.bound # s
                  /\ a.bound = None => \A f \in FileAt(a.waits) \ {s} : file[f].moved

\* A reference follows its target, wherever that was moved, also through an update of the
\* text that keeps it: the new assertion is bound to the file of the old one.
Follows == open.op = "update" => open.keeps \subseteq {a.bound : a \in open.made}
=============================================================================
