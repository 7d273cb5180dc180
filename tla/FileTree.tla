------------------------------ MODULE FileTree ------------------------------
(***************************************************************************)
(* The tree of a knowledge base (knowledge_fs_entry): uploads that create  *)
(* missing directories and a file, the creation of directories, and the    *)
(* deletion, renaming and moving of subtrees.                              *)
(*                                                                         *)
(* Each is a transaction of several statements.  A statement sees what is  *)
(* committed; a row lock is held to the end of the transaction.  An entry  *)
(* is found by the names on the way to it, and carries the path besides,   *)
(* by which a subtree is updated as a whole.                               *)
(***************************************************************************)
EXTENDS Integers, Sequences, FiniteSets, SequencesExt, Functions

CONSTANTS
    Directory, File,   \* identities of entries
    Name,
    Like,              \* <<n, m>>: the name n, read as a LIKE pattern, matches the name m
    Checksum,
    Uploader, Mutator,
    MaxDepth,          \* bound: names in a path
    MaxTransactions,   \* bound: transactions that are opened
    Root, None

Entry   == Directory \cup File
Process == Uploader \cup Mutator
Path    == UNION {[1 .. n -> Name] : n \in 1 .. MaxDepth}

VARIABLES
    entry,     \* knowledge_fs_entry
    tx,        \* the open transaction of each process
    advisory,  \* advisory locks: the process that holds the checksum
    opened,    \* transactions so far
    crossed,   \* history: a mutation was applied while another was under way
    strayed    \* history: a renaming exchanged other virtual paths than those of its subtree

history == <<crossed, strayed>>
vars    == <<entry, tx, advisory, opened, crossed, strayed>>

Unused == [status |-> "unused", parent |-> None, name |-> None, path |-> <<>>, shown |-> <<>>,
           checksum |-> None]
NoTx   == [at |-> "idle", op |-> None, path |-> <<>>, target |-> <<>>, root |-> None,
           parent |-> None, base |-> <<>>, checksum |-> None, strict |-> FALSE,
           shared |-> {}, locked |-> {}, made |-> {}]

Live(e) == entry[e].status = "live"

\* A step never needs what is locked by another process.
Shareable(p, S) == \A q \in Process \ {p} : tx[q].locked \cap S = {}
Lockable(p, S)  == \A q \in Process \ {p} : (tx[q].locked \cup tx[q].shared) \cap S = {}

Child(e, n) == {c \in Entry : Live(c) /\ entry[c].parent = e /\ entry[c].name = n}

\* The entries on a path, from the root; None from the first name that is missing.
Walk(path) ==
    LET at[i \in 0 .. Len(path)] ==
          IF i = 0 THEN Root
          ELSE LET next == Child(at[i - 1], path[i])
               IN  IF next = {} THEN None ELSE CHOOSE c \in next : TRUE
    IN  at

At(path)       == Walk(path)[Len(path)]
Ancestors(path) == {Walk(path)[i] : i \in 1 .. Len(path) - 1} \ {None}

\* The subtree by the paths that the rows carry.
Subtree(e) == {d \in Entry : Live(d) /\ IsPrefix(entry[e].path, entry[d].path)}

\* A tree of live directories at the given places.
Init ==
    /\ \E D \in SUBSET Directory : \E place \in [D -> Path] :
          /\ IsInjective(place)
          /\ \A d \in D : Len(place[d]) > 1 => Front(place[d]) \in Range(place)
          /\ entry = [e \in Entry |->
               IF e \notin D THEN Unused
               ELSE [status   |-> "live",
                     parent   |-> IF Len(place[e]) = 1 THEN Root
                                  ELSE CHOOSE d \in D : place[d] = Front(place[e]),
                     name     |-> Last(place[e]),
                     path     |-> place[e],
                     shown    |-> place[e],
                     checksum |-> None]]
    /\ tx        = [p \in Process |-> NoTx]
    /\ advisory  = [c \in Checksum |-> None]
    /\ opened    = 0
    /\ crossed = FALSE /\ strayed = FALSE

Ends(p) ==
    /\ tx' = [tx EXCEPT ![p] = NoTx]
    /\ advisory' = [c \in Checksum |-> IF advisory[c] = p THEN None ELSE advisory[c]]

\* A validation error, a statement that fails, a deadlock that is resolved, a crash.
Fail(p) ==
    /\ tx[p].at # "idle"
    /\ entry' = [e \in Entry |-> IF e \in tx[p].made THEN Unused ELSE entry[e]]
    /\ Ends(p)
    /\ UNCHANGED <<opened, history>>

-----------------------------------------------------------------------------
(* Directories that are missing on a path.                                 *)

Missing(path) == {i \in 1 .. Len(path) : Walk(path)[i] = None}

\* The identities that the missing directories may get.
Fresh(path) ==
    {ids \in [Missing(path) -> {d \in Directory : entry[d].status = "unused"}] : IsInjective(ids)}

\* The entry at the i-th name of the path.
Node(path, ids, i) ==
    IF i = 0 THEN Root ELSE IF i \in Missing(path) THEN ids[i] ELSE Walk(path)[i]

PathOf(e)  == IF e = Root THEN <<>> ELSE entry[e].path
ShownOf(e) == IF e = Root THEN <<>> ELSE entry[e].shown

\* Every directory carries the path of its parent and its name.
Grown(path, ids, status) ==
    LET known == Node(path, ids, Len(path) - Cardinality(Missing(path)))
        rest(i) == SubSeq(path, Len(path) - Cardinality(Missing(path)) + 1, i)
    IN  [e \in Entry |->
           IF e \notin Range(ids) THEN entry[e]
           ELSE LET i == CHOOSE j \in Missing(path) : ids[j] = e
                IN  [Unused EXCEPT !.status = status, !.parent = Node(path, ids, i - 1),
                       !.name = path[i], !.path = PathOf(known) \o rest(i),
                       !.shown = ShownOf(known) \o rest(i)]]

\* A unique index lets an insertion wait for one of the same name that is not committed.
Clash(p, e, n) ==
    \E q \in Process \ {p} : \E m \in tx[q].made : entry[m].parent = e /\ entry[m].name = n

\* create_directory_entry: the directories on the way are share-locked, the last is not.
CanGrow(p, path, ids) ==
    /\ \A i \in 1 .. Len(path) : Walk(path)[i] \notin File
    /\ Shareable(p, Ancestors(path))
    /\ \A i \in Missing(path) : ~Clash(p, Node(path, ids, i - 1), path[i])

CreateDirectory(u, path, ids) ==
    /\ tx[u].at = "idle" /\ opened < MaxTransactions
    /\ opened' = opened + 1
    /\ CanGrow(u, path, ids)
    /\ entry' = Grown(path, ids, "live")
    /\ UNCHANGED <<tx, advisory, history>>

-----------------------------------------------------------------------------
(* Uploads and updates.                                                    *)

BeginUpload(u, path, c, strict) ==
    /\ tx[u].at = "idle" /\ opened < MaxTransactions
    /\ opened' = opened + 1
    /\ tx' = [tx EXCEPT ![u] =
                [NoTx EXCEPT !.at = IF Len(path) = 1 THEN "check" ELSE "parents",
                             !.op = "upload", !.path = path, !.checksum = c, !.strict = strict]]
    /\ UNCHANGED <<entry, advisory, history>>

\* Shared directories are committed before the object is stored.
MakeParents(u, ids) ==
    LET path == Front(tx[u].path)
    IN  /\ tx[u].at = "parents"
        /\ CanGrow(u, path, ids)
        /\ entry' = Grown(path, ids, "live")
        /\ tx' = [tx EXCEPT ![u].at = "check"]
        /\ UNCHANGED <<advisory, opened, history>>

\* update_file has the row of the file locked.
BeginUpdate(u, f, c, strict) ==
    /\ tx[u].at = "idle" /\ opened < MaxTransactions
    /\ Live(f) /\ Lockable(u, {f})
    /\ opened' = opened + 1
    /\ tx' = [tx EXCEPT ![u] =
                [NoTx EXCEPT !.at = "check", !.op = "update", !.root = f, !.locked = {f},
                             !.checksum = c, !.strict = strict]]
    /\ UNCHANGED <<entry, advisory, history>>

SameContent(c, f) == {g \in File \ {f} : Live(g) /\ entry[g].checksum = c}

\* Mutant: the look for a duplicate holds no lock.
LockChecksumNot(u) ==
    /\ tx[u].at = "check"
    /\ tx[u].strict => SameContent(tx[u].checksum, tx[u].root) = {}
    /\ tx' = [tx EXCEPT ![u].at = IF tx[u].op = "update" THEN "storing" ELSE "insert"]
    /\ UNCHANGED <<entry, advisory, opened, history>>

\* One transaction at a time looks for the content and then has it.  A duplicate that
\* is not wanted fails the request (Fail).
LockChecksum(u) ==
    /\ tx[u].at = "check"
    /\ advisory[tx[u].checksum] = None
    /\ tx[u].strict => SameContent(tx[u].checksum, tx[u].root) = {}
    /\ advisory' = [advisory EXCEPT ![tx[u].checksum] = u]
    /\ tx' = [tx EXCEPT ![u].at = IF tx[u].op = "update" THEN "storing" ELSE "insert"]
    /\ UNCHANGED <<entry, opened, history>>

\* Mutant: the directories on the way are read without a lock.
SharedBy(path) == {}

\* The rows that create_file_entry share-locks.
LockedBy(path) == Ancestors(path)

\* The file is inserted under directories that stay locked; it is seen once committed.
InsertFile(u, f) ==
    LET path   == tx[u].path
        parent == Walk(path)[Len(path) - 1]
    IN  /\ tx[u].at = "insert" /\ entry[f].status = "unused"
        /\ Shareable(u, Ancestors(path))
        /\ parent \in Directory \cup {Root}
        /\ Child(parent, Last(path)) = {} /\ ~Clash(u, parent, Last(path))
        /\ entry' = [entry EXCEPT ![f] =
                       [status |-> "pending", parent |-> parent, name |-> Last(path),
                        path |-> PathOf(parent) \o <<Last(path)>>,
                        shown |-> ShownOf(parent) \o <<Last(path)>>, checksum |-> None]]
        /\ tx' = [tx EXCEPT ![u].at = "storing", ![u].root = f, ![u].made = {f},
                            ![u].shared = LockedBy(path)]
        /\ UNCHANGED <<advisory, opened, history>>

CommitFile(u) ==
    /\ tx[u].at = "storing"
    /\ entry' = [entry EXCEPT ![tx[u].root].checksum = tx[u].checksum,
                              ![tx[u].root].status = IF @ = "pending" THEN "live" ELSE @]
    /\ Ends(u)
    /\ UNCHANGED <<opened, history>>

-----------------------------------------------------------------------------
(* Subtrees: an entry is looked up by its path and locked afterwards.      *)

Begin(m, op, path, target, at) ==
    /\ tx[m].at = "idle" /\ opened < MaxTransactions
    /\ At(path) # None
    /\ opened' = opened + 1
    /\ tx' = [tx EXCEPT ![m] =
                [NoTx EXCEPT !.at = at, !.op = op, !.path = path, !.target = target,
                             !.root = At(path), !.parent = entry[At(path)].parent]]
    /\ UNCHANGED <<entry, advisory, history>>

BeginDelete(m, path) ==
    Begin(m, "delete", path, <<>>, IF At(path) \in File THEN "apply" ELSE "lock")

BeginRename(m, path, n) == At(path) \in Directory /\ Begin(m, "rename", path, <<n>>, "lock")

\* A directory keeps its name and does not go into itself, judged by the paths given.
BeginMove(m, path, target) ==
    /\ At(path) \in Directory => Last(target) = Last(path) /\ ~IsPrefix(path, Front(target))
    /\ Begin(m, "move", path, target, "lock")

\* _lock_entry_for_tree_mutation: wait for uploads into the subtree.
Lock(m) ==
    /\ tx[m].at = "lock" /\ Lockable(m, {tx[m].root})
    /\ tx' = [tx EXCEPT ![m].locked = {tx[m].root},
                        ![m].at = IF tx[m].op = "move" THEN "aim" ELSE "apply"]
    /\ UNCHANGED <<entry, advisory, opened, history>>

\* A mutation is applied; one that has looked its entries up before may not look again.
Applied(m) == crossed' = (crossed \/ \E q \in Mutator \ {m} : tx[q].at # "idle")

\* A file is deleted by its identity, a directory with all that has its path before it,
\* wherever they are by now.
ApplyDelete(m) ==
    LET root == tx[m].root
        gone == IF root \in File THEN {root} ELSE Subtree(root)
    IN  /\ tx[m].at = "apply" /\ tx[m].op = "delete"
        /\ Lockable(m, gone)
        /\ entry' = [e \in Entry |->
                       IF e \in gone THEN [entry[e] EXCEPT !.status = "deleted"] ELSE entry[e]]
        /\ Ends(m) /\ Applied(m)
        /\ UNCHANGED <<opened, strayed>>

\* The path with its first part exchanged.
Rebased(path, old, new) == new \o SubSeq(path, Len(old) + 1, Len(path))

\* What the pattern of the old path, followed by a slash, matches: names are not escaped in it,
\* so that one with a wildcard matches others and one with a backslash not even itself.
Matched(old) ==
    {e \in Entry : /\ Live(e) /\ Len(entry[e].shown) > Len(old)
                   /\ \A i \in 1 .. Len(old) : <<old[i], entry[e].shown[i]>> \in Like}

\* rename_entry: the tree path by prefix, the virtual path by a LIKE pattern.
ApplyRename(m) ==
    LET root  == tx[m].root
        n     == tx[m].target[1]
        old   == entry[root].path
        new   == Front(old) \o <<n>>
        seen  == entry[root].shown
        shows == Front(seen) \o <<n>>
        shown == {root} \cup Matched(seen)
    IN  /\ tx[m].at = "apply" /\ tx[m].op = "rename"
        /\ Child(tx[m].parent, n) \subseteq {root}
        /\ Child(entry[root].parent, n) \subseteq {root} /\ ~Clash(m, entry[root].parent, n)
        /\ IF ~Live(root) THEN UNCHANGED <<entry, strayed>>
           ELSE /\ Lockable(m, Subtree(root) \cup shown)
                /\ entry' = [e \in Entry |->
                     [entry[e] EXCEPT
                        !.name  = IF e = root THEN n ELSE @,
                        !.path  = IF e \in Subtree(root) THEN Rebased(@, old, new) ELSE @,
                        !.shown = IF e \in shown THEN Rebased(@, seen, shows) ELSE @]]
                /\ strayed' = (strayed \/ shown # Subtree(root))
        /\ Ends(m) /\ Applied(m)
        /\ UNCHANGED opened

\* Find or create the target directory and read its path; it is not locked itself.
Aim(m, ids) ==
    LET path   == Front(tx[m].target)
        parent == Node(path, ids, Len(path))
        grown  == Grown(path, ids, "pending")
    IN  /\ tx[m].at = "aim"
        /\ CanGrow(m, path, ids)
        /\ Child(parent, Last(tx[m].target)) \subseteq {tx[m].root}
        /\ entry' = grown
        /\ tx' = [tx EXCEPT ![m].at = "apply", ![m].parent = parent, ![m].made = Range(ids),
                            ![m].shared = Ancestors(path),
                            ![m].base = IF parent = Root THEN <<<<>>, <<>>>>
                                        ELSE <<grown[parent].path, grown[parent].shown>>]
        /\ UNCHANGED <<advisory, opened, history>>

\* The foreign key of parent_entry_id locks the parent row for the check.
Referenced(m) == {tx[m].parent} \ {Root}

\* move_entry with the path of the target as it was read.
ApplyMove(m) ==
    LET root == tx[m].root
        n    == Last(tx[m].target)
        old  == entry[root].path
        seen == entry[root].shown
        made == [e \in Entry |->
                   IF e \in tx[m].made THEN [entry[e] EXCEPT !.status = "live"] ELSE entry[e]]
    IN  /\ tx[m].at = "apply" /\ tx[m].op = "move"
        /\ Child(tx[m].parent, n) \subseteq {root} /\ ~Clash(m, tx[m].parent, n)
        /\ IF ~Live(root) THEN entry' = made
           ELSE /\ Lockable(m, Subtree(root)) /\ Shareable(m, Referenced(m))
                /\ entry' = [e \in Entry |->
                     IF e \notin Subtree(root) THEN made[e]
                     ELSE [made[e] EXCEPT
                        !.name   = IF e = root THEN n ELSE @,
                        !.parent = IF e = root THEN tx[m].parent ELSE @,
                        !.path   = Rebased(@, old, tx[m].base[1] \o <<n>>),
                        !.shown  = Rebased(@, seen, tx[m].base[2] \o <<n>>)]]
        /\ Ends(m) /\ Applied(m)
        /\ UNCHANGED <<opened, strayed>>

-----------------------------------------------------------------------------
Next ==
    \/ \E u \in Uploader :
          \/ tx[u].at = "idle" /\ \E path \in Path :
                \/ \E ids \in Fresh(path) : CreateDirectory(u, path, ids)
                \/ \E c \in Checksum, strict \in BOOLEAN : BeginUpload(u, path, c, strict)
          \/ tx[u].at = "parents" /\ \E ids \in Fresh(Front(tx[u].path)) : MakeParents(u, ids)
          \/ \E f \in File, c \in Checksum, strict \in BOOLEAN : BeginUpdate(u, f, c, strict)
          \/ \E f \in File : InsertFile(u, f)
          \/ LockChecksum(u) \/ CommitFile(u)
    \/ \E m \in Mutator :
          \/ tx[m].at = "idle" /\ opened < MaxTransactions /\ \E path \in Path :
                \/ BeginDelete(m, path)
                \/ \E n \in Name : BeginRename(m, path, n)
                \/ \E target \in Path : BeginMove(m, path, target)
          \/ tx[m].at = "aim" /\ \E ids \in Fresh(Front(tx[m].target)) : Aim(m, ids)
          \/ Lock(m) \/ ApplyDelete(m) \/ ApplyRename(m) \/ ApplyMove(m)
    \/ \E p \in Process : Fail(p)

Spec == Init /\ [][Next]_vars

-----------------------------------------------------------------------------
(* Properties.                                                             *)

\* The entry is found by its names where its row says it is, and is shown there.
InPlace(e) ==
    /\ At(entry[e].path) = e
    /\ strayed \/ entry[e].shown = entry[e].path

\* As long as no deletion, renaming or move is applied while another is under way, everything
\* that is live is found under the path it carries, whatever is uploaded meanwhile: nothing
\* survives in a directory that was deleted, and a directory that moves takes along what arrives
\* in it.  And it is shown there, as long as no renaming strayed.
Sound == ~crossed => \A e \in Entry : Live(e) => InPlace(e)

\* directories-update: the virtual path is that of the tree, whatever is renamed.  False.
ShownInPlace == \A e \in Entry : Live(e) => entry[e].shown = entry[e].path

\* A file that was uploaded or updated on the condition that it has no duplicate has none
\* when it is committed.
NoDuplicate ==
    [][\A u \in Uploader :
          tx[u].at = "storing" /\ tx[u].strict /\ tx'[u].at = "idle"
            /\ entry'[tx[u].root].checksum = tx[u].checksum
              => SameContent(tx[u].checksum, tx[u].root) = {}]_vars

\* knowledgeItems-move: a directory is never moved into itself or one of its own.  False where
\* two are moved at a time.
Acyclic ==
    \A e \in Directory : Live(e) =>
        LET up[i \in 0 .. Cardinality(Entry)] ==
              IF i = 0 THEN e ELSE IF up[i - 1] = Root THEN Root ELSE entry[up[i - 1]].parent
        IN  up[Cardinality(Entry)] = Root
=============================================================================
