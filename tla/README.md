# A TLA+ development of the ByKC knowledge base

`src/by_qa/knowledge_base` keeps files of knowledge bases in a database and in
object storage, turns them into Markdown, chunks and embeddings in the
background, and mines entities out of them. `src/by_qa/qa` answers questions over
the result. This directory holds TLA+ models of the parts of that program where
processes, transactions and stored objects meet, or where an algorithm is easy to
get wrong, the TLC runs that check them, and proofs for TLAPS.

Paths below are relative to the repository; `kb/` stands for
`src/by_qa/knowledge_base/`, `qa/` for `src/by_qa/qa/`.

## 1. The system

| component | state it keeps | operations | what is hard | what makes it correct | module |
|---|---|---|---|---|---|
| File build tasks and batches (`kb/repositories/knowledge_build_task_repository.py`, `..._batch_repository.py`) | rows of `knowledge_build_task` (status, lease) and `knowledge_build_batch` (counters) | create, claim, heartbeat, stage, finish, fence, reap, advance | leases and late workers, five parties that end tasks | one active task per file, final outcomes, exact counters | `FileBuild`, `Jobs` |
| Acceptance (`kb/services/file_build_processing_service.py`, `kb/repositories/knowledge_build_acceptance_repository.py`) | none of its own | one request over a file or a directory: reuse, skip, supersede, create | overlapping requests, Entity builds that do not take its lock | what was asked for last is what is built | `FileBuild` |
| Execution (`kb/services/file_build_execution_service.py`) | the coroutine; chunks, embeddings, projection, Markdown | prepare, stages, commit, finish | minutes of work between two transactions; storage outside of them | only derivatives of the current content are published | `FileBuild`, `FileArtifacts` |
| Build Runner (`kb/services/file_build_background_runner.py`) | the set of running executions | claim loop, execution with timeout and heartbeat, reaper loop, shutdown | cancellation, slots, leases | every accepted task ends, its events are published once | `FileBuild`, `RunnerPool` |
| Build status and progress (`kb/services/knowledge_base_service.py`, batch repositories) | none | `fileBuildStatus`, `listDir`, `glob`, `buildResult`, status of a batch | several statements without a snapshot, times of transactions | readers agree, and what they tell adds up | `BuildStatus`, `Progress` |
| File mutations (`file_build_mutation_service.py`, `document_update_service.py`, deletions) | file rows, the original object | update, delete, fence active tasks | object storage is not transactional | a failed update leaves what it found | `FileBuild`, `FileArtifacts` |
| Inline builds (`_file_to_markdown_index_inline`) | an INLINE task without lease | start, execute, finish | nobody but its coroutine ends it | an inline task ends | `FileBuild` |
| Terminal events (`file_build_terminal_event_service.py`, `kb/events.py`) | none | callbacks after COMMIT | cancellation in between | an event describes a committed end | `RunnerPool` |
| Semantic tasks (`knowledge_entity_background_runner.py`, `knowledge_semantic_processing_*`, `knowledge_entity_processing_service.py`) | semantic tasks, batches, leases | accept, claim, discovery, enrichment, finish, reap, fence | acceptance is many statements; workers take no lock between transactions | as for builds; no edit is overwritten | `SemanticTask`, `Jobs` |
| Entities and synonyms (`knowledge_entity_*.py`) | entities, aliases, vectors | resolve, create, alias, embed, delete | the same name met twice at once | a name is that of one entity; what a model is shown is bounded, and whole where it says so | `Entities`, `DiscoveryContext`, `Evidence` |
| File tree (`knowledge_base_service.py`, `knowledge_fs_entry_repository.py`) | `knowledge_fs_entry` tree | create, upload, update, delete, rename, move | moves and creations below each other | an entry is where its row says, no duplicates | `FileTree` |
| References (`knowledge_file_reference_repository.py`, `markdown_reference_*`) | assertions: bound or waiting | write, bind, target deleted or moved | the order of uploads, moves and deletions | a reference is bound to the live file it names | `References` |
| Metadata (`file_metadata_update_service.py`, `file_metadata_value_repository.py`) | values of properties | batches of operations, front matter, tags | read, compute, write | one value of a property, no lost batch | `Metadata` |
| Search filters (`kb/dsl`) | none | validate, compile | types inferred in two places | an accepted filter finds what it means | `MetadataDsl` |
| Bootstrap (`bootstrap_service.py`) | the migration ledger | lock, baseline, apply, retry | several processes start at once | applied once, in order, whole | `Bootstrap`, `SqlScript` |
| Zip import (`zip_batch_import_service.py`) | the items of the archive | phases of parallel uploads, replacement | files that refer to each other | references bound to the new files | `ZipImport` |
| Chunking (`knowledge_build/services/document_chunking_service.py`) | none | headings, blocks, bodies, cuts | off-by-one, nesting | all of the text, once, under its headings | `Chunking`, `TextCut` |
| Storage (`kb/infrastructure/storage*.py`) | objects | read, write, move, delete | outside transactions | - | `FileArtifacts` |
| Fetch cache (`knowledge_fetch_cache_*`) | rows and files | clean up | - | - | - |
| HTTP and wiring (`kb/api`, `kb/infrastructure/runtime.py`, `main.py`) | none | - | - | - | - |
| Question answering (`qa/engines`, `qa/agents`, `qa/common`) | graph state, messages, results | turns, sub-queries, searches, answers | turns of one session; steps and tokens that run out | a turn answers its own question, within its limits | `Turns`, `SearchAgent`, `Fallback` |
| Checkpoints and history (`qa/services`) | checkpoint tables, journal of turns | set-up, reserve, finish, prune | several processes, statements that commit one by one | tables complete, history in order | `CheckpointSetup`, `Sessions` |

How they interact: a request inserts tasks; runners in any number of processes poll
and claim them; the Entity worker calls the execution service in its own coroutine
and updates documents through the same service as users; updates and deletions fence
the tasks of the files they change, in their own transaction. All of them meet in a
few tables (`knowledge_fs_entry`, `knowledge_build_task`, `knowledge_build_batch`, the
semantic ones, `knowledge_file_reference`) and, per file, in two objects: the original
at a fixed locator and the Markdown at the fixed key
`kb/<kb>/fs-entry/<id>/markdown.md`. There is no queue and no messages; the database
is the only channel, row and advisory locks the only synchronisation between
processes. A statement sees what is committed when it begins, a transaction has no
snapshot of its own, and times are those at which transactions began: most of what is
hard here follows from these three facts.

`PROJECT.json` lists every component with its sources, and under `hazards` what is
hard to test, at its line.

## 2. How the modules fit together

| module | models | composed with |
|---|---|---|
| `FileBuild` | tasks, batches, leases, file rows and fences, a transaction a step | refines `Jobs` in `FileBuildJobs` |
| `FileArtifacts` | one file's objects against its row, a storage call a step | takes the task of `FileBuild` as one flag |
| `FileBuildProofs`, `FileArtifactsProofs` | theorems about them, with the accounts of batches and the refinement of `Jobs` | extend `FileBuildJobs`, `FileArtifacts` |
| `Jobs` | what a caller is promised of a batch: jobs start once, end once, and the batch is open as long as one has not ended | the abstract specification of both task protocols |
| `SemanticTask` | semantic acceptance, claims, leases, outcomes, and the documents its workers write | refines `Jobs` |
| `SemanticTaskProofs` | theorems about it | |
| `Progress` | what is told of a batch in several reads | extends `Jobs`: stands on the refinements |
| `BuildStatus` | what is told of a file in several reads | |
| `RunnerPool` | one process's slots, coroutines and events | the rows of `FileBuild` reduced to status and lease |
| `FileTree`, `References`, `ZipImport`, `Metadata`, `Entities` | rows with their locks | |
| `MetadataDsl`, `SqlScript`, `Chunking`, `TextCut`, `Fallback`, `DiscoveryContext`, `Evidence` | algorithms against a reference definition | |
| `Bootstrap`, `CheckpointSetup` | schema and checkpoint set-up by several processes | |
| `Turns`, `Sessions`, `SearchAgent` | one thread's turns, the journal of a session, one agent | |
| `KnowledgeBase`, `QuestionAnswering` | the parts that share no rows with each other, side by side | `INSTANCE` of each |
| `KnowledgeBaseProofs` | theorems about `Entities`, `BuildStatus`, `Progress`, `RunnerPool`, `Bootstrap`, `Evidence` | extends `KnowledgeBase`, `INSTANCE` of `EvidenceProofs` |
| `KnowledgeBaseWriteProofs` | theorems about `Metadata`, `References`, `ZipImport`, `FileTree` | extends `KnowledgeBase`, `INSTANCE` of `FileTreeProofs` |
| `FileTreeProofs` | the proof that every entry is under its path, of the tree alone | extends `FileTree` |
| `EvidenceProofs` | the proof that the choice of evidence loses nothing and keeps its limits, of `Evidence` alone | extends `Evidence` |
| `QuestionAnsweringProofs` | theorems about `CheckpointSetup`, `Turns`, `Sessions`, `SearchAgent` | extends `QuestionAnswering` |

`KnowledgeBase` and `QuestionAnswering` put together components of which none reads
what another writes. Interleaving those would multiply states and show nothing, so a
variable `part` picks one that takes the steps while the others stand still, in one of
their initial states. Their invariants name the property of the part. What does share
rows, tasks and files and documents, is interleaved inside `FileBuild`,
`FileArtifacts` and `SemanticTask`.

The `MC` modules give constants their values; alternatives of definitions that a
plausible mistake in the code would make (`...Not`, `...Never`, `...Any`) stand before
the definition they vary, each with the comment `Mutant` or a name that says it; every
property was seen to fail with one of them.

Next in the plan: the statements of an acceptance against an Entity build
(`knowledge_build_acceptance_repository.py:258` recomputes which batches to advance);
the order of locks in all transactions, for deadlocks, which PostgreSQL breaks by
failing one of them, a failure every model allows.

## 3. FileBuild

### State

| variable | code |
|---|---|
| `checksum`, `deleted` | the columns of `knowledge_fs_entry` |
| `changed` | which files have a change of content in `knowledge_file_update_timeline` |
| `index` | what the chunks, embeddings, projection and Markdown reference of a file derive from, or `None` |
| `row` | `knowledge_build_task`: status, mode, captured checksum and profile, worker, lease; `outdated` stands for the subquery on `knowledge_file_update_timeline`: a change with a later `created_at` |
| `batch` | `knowledge_build_batch`: status and counters |
| `exec` | where each `_execute` coroutine is |
| `mutation` | open transactions of updates and deletions, with the tasks they have fenced |

A request creates at most one task per file, so a task is `<<request, file>>`, and
requests are numbered in the order of their commits, which for one file is the order of
`kid`. It is not that of `created_at`. A task is claimed at most once, so its worker stands for its lease token.

### Actions

| action | code |
|---|---|
| `Accept` | `FileBuildProcessingService.accept` with `KnowledgeBuildAcceptanceRepository.accept` |
| `InlineStart` | the first transaction of `_file_to_markdown_index_inline` |
| `Claim` | `_claim_one`: `claim_next_task` and `mark_processing` |
| `Prepare`, `Stage`, `Commit` | the transactions of `_execute` |
| `Fail`, `Finish` | exceptions and timeout in `_execute_claimed`; `finish_claimed`, `finish_inline` |
| `LoseLease`, `Crash` | the heartbeat that finds no lease; death or `stop()` |
| `Expire`, `Reap` | a lease no heartbeat refreshes; `reap_one_expired` |
| `BeginUpdate`, `BeginDelete` | the mutation up to `terminate_active` |
| `CommitMutation`, `AbortMutation` | the rest of it, or its rollback |

A transaction of a worker is one step: `_lock_input` locks the file row, then the task
row, before anything is read. A mutation is two: it fences tasks (and locks their rows)
long before it writes the file row, and a request, which takes `LOCK TABLE
knowledge_fs_entry IN SHARE MODE` and so waits for writers of file rows only, may
commit in between. That is how a task can be active for a content that is then
replaced, and why the checks `SOURCE_DELETED` and `INPUT_STALE` of `_validate_input`
are needed. An update locks its file row first; a deletion does not.

Choices a reader should know:

* `Claim` takes any pending task; the order (priority and age) is left out, and
  `SKIP LOCKED` lets any order happen.
* `created_at` of tasks and of timeline events is `NOW()`, the start of a transaction,
  which may be long before it gets its locks and commits: acceptance reads the knowledge
  base before `LOCK TABLE` (`file_build_processing_service.py:46, 57`), an update reads it
  before the row lock. The stamps are not in the model; every comparison of two of them is
  a free choice. A new task may be born `outdated` if the file has a change already
  (`early` in `Accept` and `InlineStart`), and `CommitMutation` outdates any of the tasks
  that a request could reuse, or none. `outdated` of a task that none can reuse is left out.
* `exec[e].stale` and `index[f].stale` are history that no guard reads: an update has
  changed the file since the build locked and checked it (`_prepare`).
* An update with an unchanged checksum touches neither tasks nor derivatives: no step.
* `Expire` may happen at any time: safety is checked for workers that are only slow.
* COMMIT may succeed and the coroutine still fail (`Commit` moves to `failed` as well):
  the answer is lost, the timeout fires, a callback raises.
* An inline build that finds its task gone raises `FileBuildLeaseLostError` and its
  `finish_inline` matches no row: that is `Stops`.
* The unique index on active tasks (`sql/041`) and the CHECK constraints are not in the
  model: the properties say that the protocol never runs into them.
* Not in the model: progress columns, error codes, `outcome_uncertain`, events, files
  without chunks, `SOURCE_NOT_READY` (no accepted task reaches it), victims of
  database deadlocks beyond `AbortMutation` and `Fail`, and the legacy
  `file_to_markdown_index` path, which nothing in production calls.

### Properties

| property | meaning |
|---|---|
| `OneActivePerFile` | never two active tasks of a file |
| `NewestIsActive` (in `IInv`) | what is active is what was asked for last |
| `IndexCurrent` | what is searchable was derived by a succeeded task from the current content, and no update has changed it since the build checked it, not even to and fro |
| `ExclusiveRebuild` | between clearing and publishing nothing of others is searchable |
| `TerminalFinal` | an outcome never changes |
| `PublishedByNewest` | only the newest, active task of a file publishes |
| `BatchAccounting` | counters equal the tasks, completion is exact |
| `BatchesComplete` | every batch completes |

### Fairness

Only `FairSpec` has any. `Claim`, `Reap` and the transactions of a worker are strongly
fair: they wait for row locks that others take again and again, the database queues
waiters in order, and the claim and reaper loops never stop. A worker's own steps
include failing, so nothing says that work succeeds, and `Crash` is always possible and
never required. `Expire` is weakly fair only while no runner executes the task: a live
heartbeat keeps a lease. A transaction of a mutation ends, by commit or abort.
`Fail` and `LoseLease` have no fairness.

## 4. FileArtifacts

Object storage takes no part in transactions. This module takes one file (keys and
locators are per file, so files do not interact) and makes every storage call a step:
`Read` of the original with no lock held, `Write` of the Markdown inside the
transaction of `_commit_success`, `DeleteStale` after the COMMIT of `_prepare`,
`DeleteWritten` after a rollback, `WriteOriginal` inside the transaction of
`update_file`, `Restore` after its rollback, `DropMarkdown` after its commit. COMMIT may
succeed and its answer be lost: a build then deletes the Markdown it published
(`CommitBuild` may end in `undoing`), and an update puts the old bytes back under the new
row (`CommitUpdate` may end in `restoring`), as the code does, since it cannot tell. `lock` is
the row lock of the file, held from the first statement of an update and from
`_lock_input` of `_commit_success` to the end of their transactions. Tasks are reduced
to the active one, which `OneActivePerFile` justifies.

| property | meaning |
|---|---|
| `MarkdownOfChunks` | when the row refers to Markdown and the object is there, it is that of the build whose chunks are searchable |
| `OriginalRestored` | when no update holds the row or owes the storage anything, the original is the content of the row, unless one of them was lost or late |

Choices: the fences before chunking and embedding are folded into `StopBuild` (any
build may stop anywhere) and the fence of `Write`. Reads, writes and deletions of one
object are atomic. Deleted files keep their objects (S3 keys are not bound to paths), so
deletion is not modelled. `Start`
stands for acceptance with claim and for an inline start, and may happen whenever no
transaction holds the active task. An update that dies with its process after it wrote, or
whose old bytes the storage refuses, is `lost` for good, because no code repairs it.

`Restore` runs when the row lock is gone. The record field `late` is history that no guard
reads: another update has locked the row since (`Overtaken`), or the COMMIT had succeeded.
A late restoration ends in a state of its own, and `OriginalRestored` excuses it: updates
may overlap as they like, and the code keeps its promise whenever none of these three
happens. The promise without the excuse for `late` is `NoHalfUpdate`, which is false (section 8).

## 5. Jobs, SemanticTask, Progress, BuildStatus

`Jobs` says what a caller may rely on without knowing of leases, fences and counters: a
job is created pending, starts once, ends once, jobs are created with their batch, and a
batch is open exactly while one of its jobs has not ended. `FileBuildJobs` maps the rows
of `FileBuild` to it (an INLINE task is no job, three outcomes are one end), `SemanticTask`
its own. Each `KeepsPromise` is `Promise!Spec` as a PROPERTY. Five transactions of
`FileBuild` end tasks and each adds to a counter; the refinement is what these additions
must amount to, and it fails when any of them forgets a batch.

`SemanticTask` has the state `file` (a version, whether it is deleted, when it was
enriched), `relation` (when an assertion of a source on a target was created), `row`,
`batch`, `request` (the acceptance of a connection, between its statements: what it has
listed, judged, accepted and locked), `deletion` (of the knowledge base, with the tasks it
has fenced) and `exec`.

| action | code |
|---|---|
| `BeginAccept`, `Decide`, `CommitAccept`, `AbortAccept` | `_accept` of `knowledge_entity_processing_service.py`: list the files, lock and judge one after the other, insert batch and tasks |
| `Claim`, `Expire`, `Revive`, `Reap` | `knowledge_semantic_processing_task_repository.py`: claim, lease, heartbeat, recovery |
| `Read`, `Anchor`, `Persist`, `SkipUpdate`, `Update`, `Build` | what `knowledge_entity_task_worker.py` reads and writes, with no lock in between |
| `Succeed`, `Fail`, `RecordFailure`, `Abandon` | `_execute_claimed` and `_finish_claimed` of the background runner, timeout and lost lease included |
| `Edit`, `BeginDelete`, `CommitDelete`, `AbortDelete` | updates by users and the deletion of the knowledge base |

A version of a document never returns, since versions stand for checksums of texts that
carry times. Whether a document is fresh is evaluated together with its row lock. What the
model finds in a document is any set of entities.

| property | meaning |
|---|---|
| `OneActivePerFile` | there is no unique index on semantic tasks: the row lock of an acceptance, from its look to its commit, must do |
| `TerminalFinal` | a timeout, the reaper and a late worker record one outcome |
| `EditsKept` | an enrichment replaces only the text it was derived from |
| `KeepsPromise` | the promise of `Jobs` |
| `BatchesComplete` | every batch completes (`FairSpec`) |

`Progress` reads a batch as `processingBatchStatus` and the listing of its tasks do, in
three statements, while `Jobs` goes on: it holds for both kinds of tasks because both
implement `Jobs`. `ProgressShown`: what was read first bounds what was read later.

`BuildStatus` has the times at which transactions began (`now`), the file, the changes of
its content and its tasks, and one reader in several statements. One update and one
acceptance are open at a time. `NothingRevived`: who is told "built" was answered while
the derivatives of the current content were all there.

Fairness of `SemanticTask` is that of section 3: claims, recovery and the transactions of a
worker are strongly fair as the loops never stop; a lease expires once nobody executes its
task; open acceptances and deletions end. Failing and being abandoned have none.

## 6. The other parts of the knowledge base

**RunnerPool.** The coroutine of an execution with its worker and heartbeat, `Timeout`,
`LoseLease`, `Cancel` and `Stop` against `Succeed`, `Fail`, the reaper and mutations, and
the events published after the commit. `PoolPublished`: an event is published once, and by
whoever ended the task unless it was cut off between its commit and the publication; the
heartbeat that finds no lease after a success does not cut it off.

**FileTree.** Entries with name, parent, the stored path and the displayed one;
transactions of several statements with shared and exclusive row locks and the advisory
lock of a checksum. `CreateDirectory`, `BeginUpload`, `MakeParents`, `LockChecksum`,
`InsertFile`, `BeginUpdate`, `CommitFile` for uploaders; `BeginDelete`, `BeginRename`,
`BeginMove`, `Aim`, `Lock`, `Apply...` for mutators; `Fail` at any point. `TreeSound`:
every live entry is found by its names at the path its row has. `NoDuplicate`: who asked
for no duplicate has none at commit. There are two mutators, and renaming updates the
displayed paths by a LIKE pattern in which names are not escaped
(`knowledge_fs_entry_repository.py:1101`): `Like` gives the names that a name read as a
pattern matches. Both break the tree, and two history variables say when: `crossed`, that a
deletion, renaming or move was applied while another one was under way (they look up the
tree before they lock and do not look again, see `Acyclic` in section 8); `strayed`, that a
renaming exchanged the displayed path of an entry outside of its subtree, or did not of one
inside (`ShownInPlace`). `TreeSound` holds until something crossed, and what it says of
the displayed path until something strayed. `Like` relates single names: a `%` that matches
across a slash is taken for one that matches within a name.

**References.** Assertions bound to a file or waiting for a path; `Upload`, `Update`,
`CommitWrite`, `RollbackWrite`, `Delete`, `Move`, `ResolveAgain`. One write is open at a
time. `ReferencesFollow`: a bound reference has a live target, a waiting one has no
file at its path but one that was moved there, and a kept reference stays with its file.

**ZipImport.** The workers of both phases over the items of an archive, each item in the
steps of its transactions; a deletion waits for the rows of assertions that refer to it.
`ImportLinked`: references to what was imported are bound to the new files.

**Metadata.** Batches of `set`, `upsert`, `unset`, `append`, `remove`, `clear`, front
matter and tags of one file; a batch locks the file, reads, and computes. The database
keeps a name unique only together with its type. `WritersSerial`: a batch is
applied whole to the values at its commit, and leaves one value of a property and none of a
deleted file. Deletion of the file is one step.

**MetadataDsl.** Validator, compiler and the SQL meaning with NULL, over filters grown by
one connective at a time from every operator with every kind of value, against `Meant`,
the documented meaning. `SearchAnswers` leaves out three cases in which the two differ: equality
with times (`TimesEqual` in section 8), an order comparison with what a file holds as text,
which the documents do not support and the search answers (`TextNotOrdered`), and the negation
of a system column that is NULL, which SQL leaves unknown.

**Bootstrap, SqlScript.** Processes with configurations that differ in model and vector
dimension start, crash and restart; `Inherit` is a database of an older release. A
migration is one transaction; `Deadlock` retries it. `SchemaReady`: nobody fails because
of another's migration, and a process that serves has its whole schema and a vector table
that fits. `ScriptsWhole`: splitting a script of characters with a meaning (quotes,
comments, dollar tags) loses nothing and cuts nothing open.

**Chunking, TextCut.** Documents of up to four lines of eleven kinds are turned into
headings and paragraphs, merged and sent with their headings: `ChunksFaithful`. Texts of up
to six characters of five kinds are cut around references, at sentence ends and at hard
sizes: `WindowsCutWell`. How a line is recognised and tables are left out. In `Chunking` the
end of a line belongs to the sentence behind it, and lines that end no sentence (dates, fences,
items) to the next that does; with `Hard` = 9, 1.6 times `Soft` as in the code, no sentence of
four lines has to be cut inside, which is what `TextCut` is for.

**Entities.** Workers resolve a name exactly, by a synonym the model confirms, or by
creating an entity, under an advisory lock of the name; embeddings are made with no
transaction open. `NamesAgree`: a name is that of one entity. Subjects, types, topics and
files of entities are left out.

**DiscoveryContext, Evidence.** What a model reads about a document and about an entity.
The first cuts every document of up to four lines of eight kinds into slices with their
sections and runs the loop that selects slices under a falling budget. `MaxChars` is 1024,
which the code allows; `Frame` and the tags are the usual sizes of what is written around
slices, and `Coalesce` is 300 instead of 4096 characters so that long documents occur.
`DocumentShown`: the excerpt is within its size, says truthfully whether it is whole, leaves
out no text that fits, and attributes every piece to the section it is in. The second finds
fragments in any order, merges them as `organize_evidence` does and takes them by quotas and
rank. `EvidenceChosen`: merging loses no text, topic or mention, the four limits hold, and
nothing is left out before one of them is reached. Text is a sequence of blocks of one size,
and separators do not count. Fragments the caller may not read do not occur (no caller passes
one), nor do the names of the entities they come from.

## 7. Question answering

**CheckpointSetup.** `setup` of the checkpoint saver: statements that commit one by one, a
record after each, retries. `SetupComplete`; `SomeoneFinishes`: unless a process dies
between an index and its record. That death blocks every later set-up, since the index
is created without IF NOT EXISTS: the exception in the property is the code's own.

**Turns.** Turns of one session on one graph thread in one process: the registry of session
locks, the graph from router to clean-up, failure and cancellation at any node. The
superstep semantics of the graph library are external. `OwnTurn`: a turn reads the
questions of the turns before it and is answered from its own sub-queries.

**Sessions.** The journal of turns with concurrent turns, repeated messages and pruning.
`HistoryShown`: what a turn is given is the newest of what was completed before it,
unless more turns came after than the journal spares.

**SearchAgent.** A worker's agent: the model calls tools (`search`, `next_hop`, `finalize`,
others), which run side by side in a superstep; `next_hop` deletes messages. A message that
is deleted leaves its place, so that the others keep theirs; a call is named by the step and
its place in the message. `CallsPaired`: the model is sent each call followed by its answer,
and each answer after its call; an answer is excused if its message called a search and
another tool as well, since `next_hop` deletes that message and not the answer of the other
tool (see `AllPaired` below). `EvidenceNamed`: no two results share an `index_id`.
`NeverRaised`: the step budget ends in the fallback, not in an error.

**Fallback.** The evidence that is given to the last call of the model when the step budget
has run out: results in groups, one group for a search, are sorted by score, best first, and
cut to a budget, groups taking turns. `ContextFits`: what is kept is within the budget, whole
or cut at a sentence, its best results first, and a group that lost one is named. It is about
the cut; where no limit of the model is known, or finding it fails, there is none (see the end
of section 8). The code leaves its loop after 101 rounds, the run after `MaxRounds` = 2, with
as many results as two rounds can take.

## 8. Runs

Passing:

| run | bounds | question |
|---|---|---|
| `FileBuildContention` | 1 file, 2 contents, 3 requests, 1 slot, 1 Entity worker, 1 mutation; 1.6 million states up to the exchange of contents | all safety properties of builds and the inductive invariant |
| `FileBuildBatch` | 2 files, 2 requests | counters when one request ends several tasks of another; the refinement of `Jobs` |
| `FileBuildLiveness` | 1 file, 2 requests, `FairSpec` | every batch completes |
| `FileArtifacts` | 2 contents, 2 builders, 2 updaters; 2.6 million states up to symmetry | objects against the row, while builds and updates overlap and answers are lost |
| `SemanticTask` | 1 document, 1 Entity document, 2 workers, 2 acceptances, 1 edit | overlapping acceptances, lost leases, edits, the refinement of `Jobs` |
| `SemanticLiveness` | the same with 1 worker and 1 connection, `FairSpec` | every batch completes |
| `KnowledgeBase` | per part, see the cfg; 779 thousand states | the thirteen parts of section 6 and the readers `BuildStatus` and `Progress` |
| `QuestionAnswering` | per part; 660 thousand states | the five parts of section 7 |

Three requests on one file are enough for a task that is superseded, its successor that
fails, and a third that reuses or replaces; two contents are enough for a change and a
change back; files interact through batches only, for which two files and two
overlapping batches suffice. Of the parts: two directories and two files of two names and
depth two let a directory be moved into the other while an upload makes both, and three
transactions (`MaxTransactions`) let two mutations cross and an upload pass between them; three paths
and four writes let a reference wait, be bound, lose its target and be bound again; the
archive has two Markdown files that refer to each other, one of them twice, one that is
malformed and one unsafe path; three starts of two processes with three configurations
cover a crash, a restart and a changed model; three turns of a session with a history of
one and a retention of two let pruning take something. Every `Max...` constant is a
bound of the model, not of the code.

The system stops when requests and bounds are used up, hence `CHECK_DEADLOCK FALSE` in
these. Symmetry is used where no liveness is checked and the sets are interchangeable.

Violated, each a disagreement between the code and its documentation (quoted in
`PROJECT.json` under `findings`):

| run | property | what happens |
|---|---|---|
| `ArtifactsMarkdown` | `MarkdownPresent` | a build whose COMMIT succeeded without an answer deletes the Markdown it has just published; without lost answers, one that lost its task deletes that of its successor |
| `SemanticEvidence` | `EvidenceKept` | an assertion that appears between the reads of an enrichment and its recorded time is never processed |
| `BuildStatuses` | `StatusesAgree` | a task whose transaction began before an update that committed first is built and never current: the readers disagree |
| `EntityEmbedding` | `EmbeddingCurrent` | a refresh that read earlier overwrites the vector of a later change |

### Stated and known to be false

These definitions say what the documentation or a neighbouring piece of code suggests; TLC
refutes each with the bounds of the module's run, for a part of a composed module on the part
alone, or with those given here (list it in a copy of the cfg).

| definition | what happens | code, document |
|---|---|---|
| `FileBuild!ReuseMeansBuilt` | a forced rebuild fails before it cleared anything; the next request reuses the older success although the latest task failed | `knowledge_build_acceptance_repository.py:142`; background design 451-453 |
| `FileBuild!DifferentSuperseded` | a request that finds an older reusable task leaves an active build of another profile running | `...acceptance_repository.py:125`; 194-195 |
| `FileBuild!BuiltAsCaptured` | a task is claimed by a process with another Build Profile | `knowledge_build_task_repository.py:563`; `CONTEXT.md:25-26` |
| `FileBuild!InlineTasksEnd` | a dead inline build stays `running` | `knowledge_item_ingestion_service.py:717`; `CONTEXT.md:52-53` |
| `FileArtifacts!ChunksOfContent` | a build reads bytes of an update that is rolled back and publishes them under the old checksum | `file_build_execution_service.py:77`; ADR 0001 |
| `FileArtifacts!NoHalfUpdate` | an update whose COMMIT succeeded without an answer puts the old bytes under the new row; with two updaters, so does one that is overtaken between its rollback and its compensation | `document_update_service.py:302`, `345-366`; `api-integration-test-plan.md:98-99` |
| `SemanticTask!EffectsFenced` | a worker whose task was ended goes on and writes its assertions | `knowledge_entity_task_worker.py:1049`; background design 9.3 |
| `DiscoveryContext!Represented` | nine sections of a heading and a line of 100 characters (`Block` one such section, `MaxDocument = 18`): what is written around the slices lowers the budget to zero, and the excerpt is empty; with the default of 50000 characters, about 500 such sections | `knowledge_entity_discovery.py:299`; `knowledge-entity-discovery-enrichment-design.md:379` |
| `Evidence!TopicsServed` | three topics of one fragment each that is longer than its quota (`MaxTotal = 3`, `MaxFragment = 2`, `MinTopic = 1`): the first two take what is reserved for the third | `knowledge_entity_enrichment.py:264-268`; its docstring, line 133 |
| `Bootstrap!HistoryKept` | migration 040, applied after a first process has accepted tasks, rewrites them | `bootstrap_service.py:544`; background design 569-570, 676 |
| `FileTree!ShownInPlace` | a directory whose name has `_`, `%` or a backslash is renamed: displayed paths of another directory's descendants change, or those of its own stay | `knowledge_fs_entry_repository.py:1101`; `interfaces/directories-update.md:79` |
| `FileTree!Acyclic` | a directory is renamed while its move waits for the row; the move finds it at its own target and moves it into itself | `knowledge_base_service.py:769-776`; `interfaces/knowledgeItems-move.md:52` |
| `MetadataDsl!TextNotOrdered` | a file that holds a date as text is found by `gt` | `dsl/compiler.py:259`; `metadata-and-dsl.md:199`, `301` |
| `MetadataDsl!TimesEqual` | a date given to `eq` is looked for among texts, while the file holds it as a time | `dsl/compiler.py:75-82`; `metadata-and-dsl.md:249` |
| `SearchAgent!AllPaired` | a model calls a search and `next_hop` in one message: the message is deleted before its own answers are applied, and the model is sent the answer of a call that is in no message | `multi_hop_react.py:115-121` |

### Seen while modelling, in no property

An import that replaces a file deletes it first and loses it when the upload fails
(`zip_batch_import_service.py:561`); a failed upload's `delete_quietly` may fail as well and
leaves its object; an original overwritten by an update that dies is described by no row;
the heartbeat opens its connection outside its `try`
(`file_build_background_runner.py:224`); uploads record the checksum of the bytes received
and updates that of the bytes stored (`knowledge_item_ingestion_service.py:192`);
`soft_delete_subtree` goes by path prefix; a session lock holds within one process;
`_get_graph` may be built twice; where the length of the model's context is not configured, or
asking for it fails, the fallback answer is asked for with all results, whatever their size
(`recursion_fallback.py:111-112`, `138`); an empty list of sub-queries ends the instant graph without
an answer (`qa/engines/instant/graph.py:23`); the deterministic fallback looks at the first
three results only; evidence merged into a mention has no limit of its size, so that what
exceeds `max_fragment_chars` is cut off without a word (`knowledge_entity_enrichment.py:371`).

## 9. Proofs

`FileBuildProofs` proves, for every finite set of files, any number of requests, slots,
Entity workers and mutations, from `ConstantsAssumption` alone: `TypeCorrect`,
`Inductive` (`Spec => []IInv`), `OneActive`, `Current`, `Exclusive`, `Final` and
`Published`.

`IInv` is the type invariant with `NewestIsActive`, `IndexCurrent` and
`ExclusiveRebuild`, strengthened by three conjuncts. `Numbered`: tasks carry numbers of
requests already made, so that a new task is newer than all. `Fenced`: what a mutation
has fenced stays active and belongs to it alone, because it holds those rows. `Fresh`:
a build that has checked its file's content and whose task is active still has that
content, and any open update of the file has fenced the task; without it a build could
publish under a checksum that came back. It rests on the row locks alone: an update holds
the file row from its first statement, `_prepare` waits for it, and what was checked
before is active and therefore fenced. The order of `created_at` is assumed nowhere (the
run `BuildStatuses` shows what it does not give). `NewestIsActive` gives `OneActivePerFile`, since two active
tasks are each the newest; with `Fresh` it makes `Commit` keep `IndexCurrent`.
`TerminalFinal` and `PublishedByNewest` are proved per action from `IInv`. Each action
has a lemma that it preserves each conjunct it can disturb; those that change no task
share one.

`FileArtifactsProofs` proves `MarkdownCorrect` for any number of builders and updaters:
`Locked` (who holds the row) and `Cleared` (the active build's row refers to no
Markdown, and what it wrote is its own until it publishes) make `MarkdownOfChunks`
inductive. `OriginalCorrect` proves `OriginalRestored` for any number of updaters that
overlap as they like, by `Undoable`: unless an update was lost or late (`Spoiled`, which
lasts), one update at a time is between its lock and its end, what it found is what the
row has until it commits, and the original is what it found or what it wrote.

The second half of `FileBuildProofs` proves `Accounting` (`BatchAccounting`) and `Refinement`
(`KeepsPromise`). The counters are no consequence of the properties above: `Accounted`
says of each request, beside `IInv`, that its batch counts the tasks it was made with and
those of them that have ended, that it is completed exactly when the two agree, that no
task of a pending batch has started, and that a number without a batch has at most INLINE
tasks. A step is sorted by `StepKind`: an acceptance or an inline start, which end tasks
of older requests and use a new number, a claim, or a step that ends a set of active tasks
and advances every batch by its share (`EndsIn`). For the last kind the cardinalities of
disjoint sets add up (`EndsAccount`). `OpenAsWork` reads `Accounted` as what `Jobs` says
of open batches; with it each kind of step is a `Submit`, a `Start` or an `End`.

`SemanticTaskProofs` proves `TypeCorrect`, `OneActive`, `Final`, `Edits` and `Refinement`
for all finite sets of files and any number of workers, connections, requests and edits,
from `SemanticAssumption` alone. Its invariant is the type invariant with
`OneActivePerFile`, strengthened by `Numbered` and `Fenced` as above and three more.
`Locking`: an acceptance holds the row locks of the files it accepts, no two hold the
same, and none of these files has an active task; so the tasks it creates at its commit
are the only active ones. `Versions`: the version a request listed, the one its task was
accepted for, the one its worker read and the one the file has now are in this order; when
`update_file` finds the first in the last, the one in between, which the generated text
derives from, is the same. `Accounted`: as for builds. `Life` says what a step may do to a
task (keep, start, end, create), `ExecStep`, `RequestStep` and `FileStep` what it may do to
the rest; the conjuncts are proved from these four rather than per action.

### The parts side by side

Each of the theorems below is of `KnowledgeBase!Spec` or `QuestionAnswering!Spec`. A lemma
(`PartSteps`, `WritingParts`) reads from `Only` that a step of the whole is one
of the part or changes nothing of it; the invariant is then proved for the part alone. The
assumptions are `KnowledgeBaseAssumption` (NULL is no identifier and no dimension; what counts
tasks and entities is finite; the items of an archive are numbered from one; files,
directories and the root are told apart, and so are uploads and mutations),
`EvidenceAssumption` (a fragment of evidence has a text that is not blank, which the code
drops, and lines from a first to a last or none; the limits of a selection are at least one,
below which the code raises) and `QuestionAnsweringAssumption` (there is a process; the step budget, 50 in the
code, leaves two steps for the nodes before the loop; a message that calls tools calls at
least one; the limits of the history are numbers). No theorem bounds processes, tasks, files,
messages or the sizes of batches and archives.

`KnowledgeBaseProofs`:

- `NamesAreUnique` (`NamesAgree`). `ReservedBy`: who is about to insert an entity, or to add a
  synonym, holds the lock of the name, and no entity has the name yet. Without it the check
  made before the embedding would be worth nothing when the row is written.
- `NoBuildRevived` (`NothingRevived`). Chunks are of the row's version or gone, so that a
  reader who saw them with a version saw those of the content of that moment.
- `ProgressAddsUp` (`ProgressShown`). An ended job stays ended and a batch is open exactly
  while it has an unended job: so each number a caller has read bounds what later reads find
  (`CountsRight`, `TotalRight`, `FoundRight`), whatever order of reads the caller has chosen.
- `EventsPublishedOnce` (`PoolPublished`). `EventsOf` says who owes the event of a task: nobody
  before it ended, and its coroutine if the commit that ended it was its own. `BatchEvent`:
  there is one last commit, and the batch event is its.
- `SchemaIsReady` (`SchemaReady`). `DatabaseRight`: what the ledger lists was executed, and a
  vector table is there once its template is listed. `ProcessRight`: who applies migrations
  has read the ledger as it is, since it holds the lock, and its table is its own or missing.
- `EvidenceIsChosen` (`EvidenceChosen`), for fragments of any size, in any number and order, and
  all limits. `EvidenceProofs` proves `EvidenceSound` of `Evidence` alone; that the operators
  of the two are the same is proved one by one, from the inner to the outer.

`KnowledgeBaseWriteProofs`:

- `WritersTakeTurns` (`WritersSerial`, an action property). `WriterOK`: from its first look to
  its commit a writer holds the row, and what it sees of a property is what the operations it
  has done made of the committed value; operations of a batch name different properties, so
  their order does not matter.
- `ReferencesFollowFiles` (`ReferencesFollow`). Beside the property: one live file at a path;
  a reference waits only where there is none but what was moved there, and never for the
  source's own path, since binding it would make a file refer to itself; and an open write
  has made assertions of the same kind (`PendingRight`).
- `ImportsAreLinked` (`ImportLinked`). The barrier between the phases is what makes it true:
  `EntryRight` says that behind it every item that is not Markdown is over, and the row it
  made stays that of its path; `LooksRight` and `LinkRight` carry that to what a Markdown file
  found and to what it asserted. Two items of one path are one file (`OneOfPath`).
- `NoSecondCopy` (`NoDuplicate`, an action property), for any number of uploaders and mutators.
  `Transaction`: from the look for a duplicate to the commit an upload holds the advisory lock
  of its checksum; `NewContentOf`: no other step makes a live file of that checksum, since
  renaming, moving and deleting keep it.
- `TreeIsSound` (`TreeSound`), for any number of uploaders, mutators, entries and names, any
  depth and any relation `Like`. `FileTreeProofs` proves `LiveIsFound` of the tree alone, and
  three lemmas carry it over: the initial states, the steps and the property are those of
  `Tree`. Its invariant is `Placed`: a mutation was applied while another was under way, or
  `TreeInv` and `Shows` hold. The step that makes two mutations cross sets `crossed`; before
  it at most one of them has read anything it will use, which is what `Mutating` and `Aimed`
  need. `Shows`, that every entry is shown where it is unless a renaming strayed, is no
  part of what keeps the tree, since nothing is found by the displayed path.

The invariant of `FileTreeProofs`, `TreeInv`, was first checked by TLC on instances of the
tree. `Standing` is what lasts: no two entries that are there, or will be when their
transaction commits, have one name in one directory (`Unique`), and each stands under a
directory that is there and carries its path with the name appended (`Seated`), which is the
one rule of paths the code never states. `StandingIsSound` derives the property: an induction
along the path, by the least place at which the walk leaves it (`WalkPasses`), and no more of
the recursive function `Walk` is needed than what its first and its next value are. `Standing`
is not inductive: an insertion, and the last statement of a move, use a parent that was read
in an earlier statement. `Locks` says that the share-locked entries of a transaction are
closed upwards (`Closed`), that nobody locks what another one has share-locked, and that what
is pending is some transaction's own; `Uploading`, that the parent of an uploaded file stays
share-locked until the commit, so that a deletion or a move of anything above it waits;
`Mutating` and `Aimed`, that the target of a move is not below the directory that moves and
still has the path that was read, though it is not locked: only another mutator could take it
away. The step of a subtree then gives every entry below it the new path of its parent
(`Goes`, `Moved`), and entries elsewhere keep theirs.

`EvidenceProofs` reasons about folds over sequences without an induction theorem that takes an
operator. A fold is the value at the whole of a function on the first n elements; that there
is such a function with values in a set the step stays in is `Steps`, and what holds of the
empty fold and is kept by each step holds of the whole (`FoldKeeps`), both from the
well-foundedness of the numbers (`Counting`). `Has` says that a fragment contains another
one: its document, blocks, topics and at least its score and, for a mention, its rank.
`Grown` says of a step that every fragment of the list is contained in the one at its place
afterwards, and the new fragment in some: each of the three mergers keeps what was there and
adds what comes (`AdjoinGrows`, `MentionGrows`, `OnceGrows`). Sorting is a permutation,
because the number of fragments before one is different for different ones (`RankedSame`).
For the selection `Good` says that the four limits are kept, and `Reached` that a fragment
with nothing taken met a limit; that the second is kept while others are added holds because
what is taken is never given back (`AddKeeps`). The sum and the counts, which are folds over
sets, change by what one fragment is given (`SumChanged`, `Counts`).

`QuestionAnsweringProofs`:

- `SetupIsComplete` and `SomeoneGetsThrough` (`SetupComplete`, `SomeoneFinishes`). Versions are
  recorded in order after their statements; and while nobody died between the index and its
  record, one process is in nobody's way (`Leading`).
- `NeverOutOfSteps` (`NeverRaised`). `StepsLeft` counts the steps that the nodes to come take.
- `EvidenceHasNames` (`EvidenceNamed`). `NamesApart`: every `index_id`, in the state or still
  in the answer of a tool, is below the counter of its step, and those not applied yet differ
  from each other and from those applied. Numbering by the state instead breaks this
  conjunct first.
- `CallsArePaired` (`CallsPaired`). `Linked`, for every prefix of the messages: a call has its
  answer behind it, and an answer that is not excused has its message before it. A clean-up
  keeps it, because a message goes with all answers that are not excused (`CleanUpLinks`).
- `TurnsDoNotMix` (`OwnTurn`). `OneLock`: all that wait for a session wait for the registered
  lock, which counts them, so that it is dropped with the last one; then one turn is in the
  graph, and `InTurn` and `Remembered` compare its messages with the turns that began.
- `HistoryIsShown` (`HistoryShown`). `PrunedLate`: what was pruned had, and keeps, as many
  completed after it as the journal retains; `OwnPlace`: no two messages share a `turn_seq`,
  pruned or not. A pruned query has then enough queries between it and the reader to be out
  of the reader's sight (`PrunedIsOld`), and for one that is there the latest pruned query in
  between is counted instead (`ShownIsThere`).

### Model-checked only

`BatchesComplete` of both protocols: liveness under fairness is out of the proof system's
reach, as is ENABLED. `SearchAnswers`, `ScriptsWhole`, `ChunksFaithful`, `WindowsCutWell`,
`DocumentShown` and `ContextFits` compare algorithms, several folds and recursive functions
deep, with a definition of their result: what these compute for every input is an induction
over data, for which the library's theorems take an operator as a parameter that the provers
cannot instantiate. `EvidenceProofs` goes around that for one of them, whose property is kept
from step to step; for the others, which say what the whole result is, this has not been done.

## 10. Not modelled

The fetch cache: nothing in production writes a cache entry, so that no state of it is
reachable. Text extraction from office formats, the patterns that recognise lines and
tables, prompts, embeddings and model calls: pure functions or outside services, whose
answer is a choice and whose failure is an action. Creation and deletion of a knowledge
base as a whole, and path-bound storage, whose objects move with their entries. The fast
engine, whose steps are a fixed sequence, and the stream of events to the caller. HTTP and
wiring, which have no protocol state. Queries that only read, except the readers of
`BuildStatus`, `Progress` and `Sessions`. `PROJECT.json` gives the reason for each part.

## 11. Running

    tlc -workers 2 -config FileBuildBatch.cfg MCFileBuild
    tlc -workers 2 -config BuildStatuses.cfg BuildStatus
    tlapm FileBuildProofs.tla
    tlapm SemanticTaskProofs.tla
    tlapm EvidenceProofs.tla
    tlapm QuestionAnsweringProofs.tla
    tlapm KnowledgeBaseProofs.tla          # this and the next
    tlapm KnowledgeBaseWriteProofs.tla     # take a quarter of an hour or more
